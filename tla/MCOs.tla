------------------------------- MODULE MCOs -------------------------------
(* The two parts of os_unix.c that keep state: processes in OS_Accept, or a *)
(* program that uses the asynchronous I/O.  They share no variable of the   *)
(* code; `part' says which of the two the instance is, and the other one    *)
(* has ended.                                                               *)
EXTENDS OsAccept, OsAsync

VARIABLE part

vars == <<avars, svars, part>>

NobodyAccepts ==
    /\ build = [family |-> "UNIX", locking |-> FALSE, failOnIntr |-> FALSE]
    /\ client = [c \in Clients |-> [wanted |-> FALSE, state |-> "away"]]
    /\ lock = None /\ faults = 0
    /\ at = [p \in Procs |-> "out"] /\ sock = [p \in Procs |-> None]
    /\ down = [p \in Procs |-> FALSE] /\ early = [p \in Procs |-> FALSE]
    /\ held = [p \in Procs |-> FALSE]

Init == \/ part = "accept" /\ AcceptInit /\ AsyncUnused /\ fate = "exit"
        \/ part = "async" /\ NobodyAccepts /\ AsyncUnused /\ fate = "runs"

Next == /\ UNCHANGED part
        /\ \/ part = "accept" /\ AcceptNext /\ UNCHANGED svars
           \/ part = "async" /\ AsyncNext /\ UNCHANGED avars

Spec == Init /\ [][Next]_vars /\ AcceptFairness /\ AsyncFairness
=============================================================================
