------------------------------ MODULE OsAsync ------------------------------
(***************************************************************************)
(* The asynchronous I/O of loungeact_fastcgi/os_unix.c: the table of        *)
(* requests, the descriptor sets, the list of completed events that OS_DoIo *)
(* builds with select() and works off, and the callbacks, in which the      *)
(* program posts, cancels and closes.                                       *)
(*                                                                         *)
(* A slot is an index of the table: 2 * fd for a read of fd, 2 * fd + 1 for *)
(* a write.  A descriptor set for reading and one for writing are together  *)
(* a set of slots.  A callback does not call OS_DoIo.                       *)
(***************************************************************************)
EXTENDS Integers, Sequences, FiniteSets, FiniteSetsExt

CONSTANTS
    MaxFdNumber,  \* descriptors are 0..MaxFdNumber
    FirstSize,    \* asyncIoTableSize at the start
    MaxRequests,  \* bound: requests
    MaxOpens      \* bound: descriptors opened again, library initializations

ASSUME AsyncAssumption == MaxFdNumber \in Nat /\ FirstSize \in Nat \ {0}

VARIABLES
    lib,      \* libInitialized: the table is allocated
    size,     \* asyncIoTableSize
    table,    \* asyncIoTable: "free", or inUse: "queued", "reported" by select
    sets,     \* readFdSet, writeFdSet
    post,     \* readFdSetPost, writeFdSetPost
    posted,   \* numRdPosted, numWrPosted
    maxFd,
    inUse,    \* asyncIoInUse
    io,       \* where OS_DoIo is: outside, in its last loop, in a callback
    os,       \* external: open descriptors, slots that are ready, opens so far
    fate,     \* "runs", "exit" (exit, failed ASSERT), "ub" (outside the table)
    asked,    \* requests so far
    stale,    \* history: slots closed for reading with their event posted
    lost      \* history: a posted event was closed, the counters not

svars == <<lib, size, table, sets, post, posted, maxFd, inUse, io, os, fate, asked, stale, lost>>

Fds   == 0..MaxFdNumber
Slots == 0..(2 * MaxFdNumber + 1)
RdIx(fd) == 2 * fd
WrIx(fd) == 2 * fd + 1
FdOf(s)  == s \div 2
Kind(s)  == IF s % 2 = 0 THEN "rd" ELSE "wr"

NoEvents == [rd |-> 0, wr |-> 0]

(* The library before its first call.                                       *)
AsyncUnused ==
    /\ lib = FALSE /\ size = FirstSize /\ table = [s \in Slots |-> "free"]
    /\ sets = {} /\ post = {} /\ posted = NoEvents /\ maxFd = -1 /\ inUse = FALSE
    /\ io = [at |-> "out", next |-> 0]
    /\ os = [open |-> Fds, ready |-> {}, opens |-> 0]
    /\ asked = 0 /\ stale = {} /\ lost = FALSE

(* The program runs: it calls OS_DoIo, or OS_DoIo calls it.                 *)
Program == fate = "runs" /\ io.at \in {"out", "callback"}

(* The process ends, and what it keeps in memory with it.                   *)
Dies(how) ==
    /\ fate' = how
    /\ lib' = FALSE /\ size' = FirstSize /\ table' = [s \in Slots |-> "free"]
    /\ sets' = {} /\ post' = {} /\ posted' = NoEvents /\ maxFd' = -1 /\ inUse' = FALSE
    /\ io' = [at |-> "out", next |-> 0] /\ os' = [open |-> {}, ready |-> {}, opens |-> 0]
    /\ asked' = 0 /\ stale' = {} /\ lost' = FALSE

(* The access to slot s is inside the table.                                *)
InTable(s) == lib /\ s < size

-----------------------------------------------------------------------------
(* A new table, all sets empty; the counters, maxFd, asyncIoInUse and the   *)
(* size stay as they are.                                                   *)
OS_LibInit ==
    /\ Program /\ ~lib /\ os.opens < MaxOpens
    /\ lib' = TRUE
    /\ table' = [s \in Slots |-> "free"] /\ sets' = {} /\ post' = {}
    /\ lost' = (lost \/ posted # NoEvents) /\ stale' = {}
    /\ os' = [os EXCEPT !.opens = @ + 1]
    /\ UNCHANGED <<size, posted, maxFd, inUse, io, fate, asked>>

(* The table is freed; the sets keep their descriptors.                     *)
OS_LibShutdown ==
    /\ Program /\ lib
    /\ lib' = FALSE
    /\ table' = [s \in Slots |-> "free"]
    /\ UNCHANGED <<size, sets, post, posted, maxFd, inUse, io, os, fate, asked, stale, lost>>

(* GrowAsyncTable, while the index is outside: the first of size, 2 * size, *)
(* 4 * size, ... above s.                                                   *)
Grows(s) ==
    \E n \in size..(size + 2 * s), k \in 0..s :
        /\ n = size * 2^k /\ s < n
        /\ k > 0 => s >= size * 2^(k - 1)
        /\ size' = n

(* A request in slot s, which the program may use again once its callback   *)
(* is called or its descriptor closed.  OS_AsyncReadStdin does not make the *)
(* table larger.                                                            *)
Post(s, grow) ==
    /\ table[s] = "free"
    /\ inUse' = TRUE
    /\ maxFd' = IF FdOf(s) > maxFd THEN FdOf(s) ELSE maxFd
    /\ IF grow THEN Grows(s) ELSE UNCHANGED size
    /\ table' = [table EXCEPT ![s] = "queued"]
    /\ sets' = sets \union {s}
    /\ asked' = asked + 1
    /\ UNCHANGED <<lib, post, posted, io, os, fate, stale, lost>>

Asked(s) == Program /\ FdOf(s) \in os.open /\ asked < MaxRequests

OS_AsyncReadStdin ==
    /\ Asked(0)
    /\ \/ InTable(0) /\ Post(0, FALSE)
       \/ InTable(0) /\ table[0] # "free" /\ Dies("exit")
       \/ ~InTable(0) /\ Dies("ub")

OS_AsyncRead(fd) ==
    LET s == RdIx(fd) IN
    /\ Asked(s)
    /\ \/ lib /\ Post(s, TRUE)
       \/ (~lib \/ table[s] # "free") /\ Dies("exit")

(* Without the test for a table: what realloc(NULL) returns is not cleared. *)
OS_AsyncWrite(fd) ==
    LET s == WrIx(fd) IN
    /\ Asked(s)
    /\ \/ lib /\ Post(s, TRUE)
       \/ lib /\ table[s] # "free" /\ Dies("exit")
       \/ ~lib /\ Dies("ub")

(* Mutant of Unposted: the list of completed events is not cleared.         *)
UnpostedNot(S) == post

Unposted(S) == post \ S

(* The two slots are looked at although the table may not have grown to     *)
(* them.  The counters of posted events stay as they are.                   *)
OS_Close(fd) ==
    LET both == {RdIx(fd), WrIx(fd)} IN
    /\ Program /\ fd \in os.open
    /\ \/ inUse /\ ~InTable(WrIx(fd)) /\ Dies("ub")
       \/ /\ inUse => InTable(WrIx(fd))
          /\ IF inUse
             THEN /\ sets' = sets \ both /\ post' = Unposted(both)
                  /\ table' = [s \in Slots |-> IF s \in both THEN "free" ELSE table[s]]
                  /\ maxFd' = IF maxFd = fd THEN maxFd - 1 ELSE maxFd
                  /\ lost' = (lost \/ post \intersect both # {})
                  /\ stale' = stale \ both
             ELSE UNCHANGED <<sets, post, table, maxFd, lost, stale>>
          /\ os' = [os EXCEPT !.open = @ \ {fd}, !.ready = @ \ both]
          /\ UNCHANGED <<lib, size, posted, inUse, io, fate, asked>>

(* A completed event of the read stays posted.  After the shutdown() a read *)
(* of fd is ready: it returns 0.                                            *)
OS_CloseRead(fd) ==
    LET s == RdIx(fd) IN
    /\ Program /\ fd \in os.open
    /\ \/ ~InTable(s) /\ Dies("ub")
       \/ /\ InTable(s)
          /\ table' = [table EXCEPT ![s] = "free"]
          /\ sets' = IF table[s] = "free" THEN sets ELSE sets \ {s}
          /\ stale' = IF s \in post THEN stale \union {s} ELSE stale
          /\ lost' = (lost \/ s \in post)
          /\ os' = [os EXCEPT !.ready = @ \union {s}]
          /\ UNCHANGED <<lib, size, post, posted, maxFd, inUse, io, fate, asked>>

-----------------------------------------------------------------------------
(* OS_DoIo                                                                  *)

Events(S, kind) == Cardinality({s \in S : Kind(s) = kind})

(* select(), if no events are left from an earlier call, and the list of    *)
(* the events that have completed.  A signal during select() ends the       *)
(* process.                                                                 *)
OS_DoIo ==
    LET seen == IF posted = NoEvents
                THEN {s \in sets : FdOf(s) <= maxFd} \intersect os.ready ELSE {}
    IN
    /\ fate = "runs" /\ io.at = "out"
    /\ \/ posted = NoEvents /\ Dies("exit")
       \/ /\ inUse' = TRUE
          /\ posted' = [kind \in {"rd", "wr"} |-> posted[kind] + Events(seen, kind)]
          /\ post' = post \union seen
          /\ sets' = sets \ seen
          /\ table' = [s \in Slots |-> IF s \in seen /\ lib THEN "reported" ELSE table[s]]
          /\ io' = IF posted' = NoEvents THEN io ELSE [at |-> "loop", next |-> 0]
          /\ UNCHANGED <<lib, size, maxFd, os, fate, asked, stale, lost>>

(* Mutant of CountDown: the event stays counted.                            *)
CountDownNot(s) == posted

CountDown(s) == [posted EXCEPT ![Kind(s)] = @ - 1]

(* The rest of the loop over 0..maxFd up to the next callback: the event is *)
(* taken off the list, the read or write done and the slot given back       *)
(* before the program is called.                                            *)
Dispatch ==
    LET ahead == {s \in post : s >= io.next /\ FdOf(s) <= maxFd}
        due   == {s \in ahead : table[s] # "free"}
    IN
    /\ fate = "runs" /\ io.at = "loop"
    /\ \/ (\E s \in ahead : ~InTable(s)) /\ Dies("ub")
       \/ /\ (\A s \in ahead : InTable(s)) /\ due = {}
          /\ io' = [at |-> "out", next |-> 0]
          /\ UNCHANGED <<lib, size, table, sets, post, posted, maxFd, inUse, os, fate, asked, stale, lost>>
       \/ /\ (\A s \in ahead : InTable(s)) /\ due # {}
          /\ LET s == Min(due) IN
             /\ posted' = CountDown(s)
             /\ post' = post \ {s}
             /\ table' = [table EXCEPT ![s] = "free"]
             /\ stale' = stale \ {s}
             /\ os' = [os EXCEPT !.ready = @ \ {s}]
             /\ io' = [at |-> "callback", next |-> s + 1]
          /\ UNCHANGED <<lib, size, sets, maxFd, inUse, fate, asked, lost>>

CallbackReturns ==
    /\ fate = "runs" /\ io.at = "callback"
    /\ io' = [io EXCEPT !.at = "loop"]
    /\ UNCHANGED <<lib, size, table, sets, post, posted, maxFd, inUse, os, fate, asked, stale, lost>>

-----------------------------------------------------------------------------
(* External: a descriptor becomes ready, or its number is used again.       *)

BecomesReady(s) ==
    /\ fate = "runs" /\ FdOf(s) \in os.open /\ s \in sets /\ s \notin os.ready
    /\ os' = [os EXCEPT !.ready = @ \union {s}]
    /\ UNCHANGED <<lib, size, table, sets, post, posted, maxFd, inUse, io, fate, asked, stale, lost>>

Open(fd) ==
    /\ Program /\ fd \notin os.open /\ os.opens < MaxOpens
    /\ os' = [os EXCEPT !.open = @ \union {fd}, !.opens = @ + 1]
    /\ UNCHANGED <<lib, size, table, sets, post, posted, maxFd, inUse, io, fate, asked, stale, lost>>

Loop == OS_DoIo \/ Dispatch \/ CallbackReturns

AsyncNext ==
    \/ OS_LibInit \/ OS_LibShutdown \/ OS_AsyncReadStdin
    \/ \E fd \in Fds : OS_AsyncRead(fd) \/ OS_AsyncWrite(fd) \/ OS_Close(fd) \/ OS_CloseRead(fd) \/ Open(fd)
    \/ \E s \in Slots : BecomesReady(s)
    \/ Loop

(* The program calls OS_DoIo again and again, and its callbacks return.     *)
AsyncFairness == WF_svars(Loop)

-----------------------------------------------------------------------------
(* Properties.                                                              *)

(* What OS_DoIo would call back next is a request that select() has         *)
(* reported since it was made, inside the table and within maxFd, whatever  *)
(* the callbacks before closed, opened again and posted; only on a          *)
(* descriptor that was closed for reading with its event posted is a new    *)
(* read taken for completed.                                                *)
DispatchSound ==
    \A s \in Slots : table[s] # "free" =>
        /\ InTable(s) /\ FdOf(s) <= maxFd
        /\ s \in post => table[s] = "reported" \/ s \in stale

(* What makes DispatchSound inductive.                                      *)
AsyncTypeOK ==
    /\ lib \in BOOLEAN /\ inUse \in BOOLEAN
    /\ size \in Nat
    /\ maxFd \in Int
    /\ table \in [Slots -> {"free", "queued", "reported"}]
    /\ sets \in SUBSET Slots
    /\ post \in SUBSET Slots

(* A descriptor in a set is inside a table of the present size, with or     *)
(* without a request: the table never shrinks.                              *)
SetsInTable == \A s \in sets : s < size

(* A posted event without its request is one that OS_CloseRead left behind, *)
(* unless the table is gone with all requests.                              *)
LeftByClose == lib => \A s \in post : table[s] = "free" => s \in stale

AsyncInv == AsyncTypeOK /\ SetsInTable /\ LeftByClose /\ DispatchSound

(* A request whose descriptor is ready is completed or cancelled, though    *)
(* callbacks close and post and the table grows: its slot is free again     *)
(* when the callback is called.  Unless the process has ended, or a         *)
(* descriptor was closed with its event posted, after which the counters    *)
(* stay above zero and OS_DoIo does not select again.                       *)
RequestsComplete ==
    \A s \in Slots : (table[s] # "free" /\ s \in os.ready) ~> (table[s] = "free" \/ lost)
=============================================================================
