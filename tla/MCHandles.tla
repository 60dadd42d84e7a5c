----------------------------- MODULE MCHandles -----------------------------
(* A program that uses the API, or a server with its cache: `mode' says     *)
(* which of the two the instance is.                                        *)
EXTENDS DbCache

CONSTANTS n1, n2

VARIABLE mode

vars == <<hvars, cvars, mode>>

Init == \/ /\ mode = "app"
           /\ HandlesInit /\ cache = <<>> /\ entry = <<>> /\ mutex = Nobody
           /\ req = [w \in Workers |-> Idle] /\ recent = <<>>
        \/ mode = "server" /\ CacheInit

Next == /\ UNCHANGED mode
        /\ \/ mode = "app" /\ AppNext /\ UNCHANGED cvars
           \/ mode = "server" /\ CacheNext

Spec == Init /\ [][Next]_vars

(* Workers are scheduled.                                                   *)
FairSpec == Spec /\ \A w \in Workers : WF_vars(mode = "server" /\ Work(w) /\ UNCHANGED mode)

\* n1 is short enough for an address to spell it or n2; other names are too long.
SomeSpells == [n \in Names |-> CASE n = n1 -> {n1, n2} \cap Names [] n = n2 -> {n2} [] OTHER -> {}]
=============================================================================
