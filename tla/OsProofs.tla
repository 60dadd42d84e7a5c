------------------------------ MODULE OsProofs ------------------------------
(***************************************************************************)
(* Proofs about os_unix.c, for any number of processes, clients, signals,   *)
(* descriptors and requests.                                                *)
(***************************************************************************)
EXTENDS MCOs, FiniteSetTheorems, TLAPS

-----------------------------------------------------------------------------
(* OS_Accept.                                                               *)

LEMMA AcceptInitInv == AcceptInit => AcceptInv
BY AcceptAssumption
   DEF AcceptInit, AcceptInv, AcceptTypeOK, OneHolder, RefusedAgain, LockInLoop, LeakedByLock, InAccept, Stale

(* Closing a connection that p has: it is closed for everybody, and all     *)
(* other clients stay as they are.                                          *)
LEMMA CloseClient ==
    ASSUME AcceptInv, NEW c \in Clients
    PROVE  /\ Close(c) \in [Clients -> [wanted : BOOLEAN, state : {"away", "waiting", "taken", "closed", "leaked"}]]
           /\ \A d \in Clients : Close(c)[d].wanted = client[d].wanted
           /\ \A d \in Clients \ {c} : Close(c)[d].state = client[d].state
           /\ client[c].state \in {"taken", "closed"} => Close(c)[c].state = "closed"
BY DEF AcceptInv, AcceptTypeOK, Close

LEMMA ConnectInv ==
    ASSUME AcceptInv, NEW c \in Clients, Connect(c)
    PROVE  AcceptInv'
BY DEF AcceptInv, AcceptTypeOK, OneHolder, RefusedAgain, LockInLoop, LeakedByLock, InAccept, Stale, Connect

LEMMA CallInv ==
    ASSUME AcceptInv, NEW p \in Procs, Call(p)
    PROVE  AcceptInv'
BY AcceptAssumption
   DEF AcceptInv, AcceptTypeOK, OneHolder, RefusedAgain, LockInLoop, LeakedByLock, InAccept, Stale, Call, Goes

LEMMA AcquireLockInv ==
    ASSUME AcceptInv, NEW p \in Procs, AcquireLock(p)
    PROVE  AcceptInv'
BY AcceptAssumption
   DEF AcceptInv, AcceptTypeOK, OneHolder, RefusedAgain, LockInLoop, LeakedByLock, InAccept, Stale, AcquireLock, Goes

LEMMA TestInv ==
    ASSUME AcceptInv, NEW p \in Procs, Test(p)
    PROVE  AcceptInv'
BY DEF AcceptInv, AcceptTypeOK, OneHolder, RefusedAgain, LockInLoop, LeakedByLock, InAccept, Stale, Test, Goes

LEMMA AcceptStepInv ==
    ASSUME AcceptInv, NEW p \in Procs, Accept(p)
    PROVE  AcceptInv'
<1> USE AcceptAssumption DEF AcceptInv
<1>1. UNCHANGED <<build, lock, down, held>> /\ at[p] = "accept"
  BY DEF Accept
<1>2. ASSUME NEW c \in Waiting, client' = [client EXCEPT ![c].state = "taken"],
             sock' = [sock EXCEPT ![p] = c], Goes(p, "got")
      PROVE  AcceptInv'
  <2>1. /\ c \in Clients /\ client[c].state = "waiting" /\ c # None
        /\ \A q \in Procs : sock[q] # c
    BY <1>2 DEF Waiting, OneHolder
  <2>2. AcceptTypeOK'
    BY <1>1, <1>2, <2>1 DEF AcceptTypeOK, Goes, InAccept, Accept
  <2>3. OneHolder'
    BY <1>1, <1>2, <2>1 DEF AcceptTypeOK, OneHolder, Goes
  <2>4. RefusedAgain'
    BY <1>1, <1>2, <2>1 DEF AcceptTypeOK, OneHolder, RefusedAgain, Goes, Stale
  <2>5. LockInLoop' /\ LeakedByLock'
    BY <1>1, <1>2, <2>1 DEF AcceptTypeOK, LockInLoop, LeakedByLock, Goes
  <2> QED BY <2>2, <2>3, <2>4, <2>5
<1>3. ASSUME NEW c \in Waiting, client' = [client EXCEPT ![c].state = "closed"],
             sock' = [sock EXCEPT ![p] = None], Goes(p, IF down[p] THEN "got" ELSE "test")
      PROVE  AcceptInv'
  <2>1. /\ c \in Clients /\ client[c].state = "waiting"
        /\ \A q \in Procs : sock[q] # c
    BY <1>3 DEF Waiting, OneHolder
  <2>2. AcceptTypeOK'
    BY <1>1, <1>3, <2>1 DEF AcceptTypeOK, Goes, InAccept, Accept
  <2>3. OneHolder'
    BY <1>1, <1>3, <2>1 DEF AcceptTypeOK, OneHolder, Goes
  <2>4. RefusedAgain'
    BY <1>1, <1>3, <2>1 DEF AcceptTypeOK, OneHolder, RefusedAgain, Goes, Stale
  <2>5. LockInLoop' /\ LeakedByLock'
    BY <1>1, <1>3, <2>1 DEF AcceptTypeOK, LockInLoop, LeakedByLock, Goes
  <2> QED BY <2>2, <2>3, <2>4, <2>5
<1>4. ASSUME UNCHANGED client, sock' = [sock EXCEPT ![p] = None], Goes(p, "got")
      PROVE  AcceptInv'
  <2>1. AcceptTypeOK'
    BY <1>1, <1>4 DEF AcceptTypeOK, Goes, InAccept, Accept
  <2>2. OneHolder'
    BY <1>1, <1>4 DEF AcceptTypeOK, OneHolder, Goes
  <2>3. RefusedAgain'
    BY <1>1, <1>4 DEF AcceptTypeOK, RefusedAgain, Goes, Stale
  <2>4. LockInLoop' /\ LeakedByLock'
    BY <1>1, <1>4 DEF AcceptTypeOK, LockInLoop, LeakedByLock, Goes
  <2> QED BY <2>1, <2>2, <2>3, <2>4
<1> QED BY <1>2, <1>3, <1>4 DEF Accept

(* A process lets go of a connection that it has closed.                    *)
LEMMA FinishInv ==
    ASSUME AcceptInv, NEW p \in Procs, Finish(p)
    PROVE  AcceptInv'
<1> USE AcceptAssumption DEF AcceptInv
<1> DEFINE c == sock[p]
<1>1. /\ UNCHANGED <<build, lock, down, early, held>> /\ at[p] = "serve" /\ c \in Clients /\ c # None
      /\ client' = Close(c) /\ at' = [at EXCEPT ![p] = "app"] /\ sock' = [sock EXCEPT ![p] = None]
      /\ client[c].state = "taken"
  BY DEF Finish, Goes, RefusedAgain, AcceptTypeOK
<1>2. /\ client' \in [Clients -> [wanted : BOOLEAN, state : {"away", "waiting", "taken", "closed", "leaked"}]]
      /\ \A d \in Clients : client'[d].wanted = client[d].wanted
      /\ \A d \in Clients \ {c} : client'[d].state = client[d].state
      /\ client'[c].state = "closed"
      /\ \A q \in Procs : sock[q] = c => q = p
  BY <1>1, CloseClient DEF OneHolder
<1> HIDE DEF c
<1>3. AcceptTypeOK'
  BY <1>1, <1>2 DEF AcceptTypeOK, InAccept
<1>4. OneHolder'
  BY <1>1, <1>2 DEF AcceptTypeOK, OneHolder
<1>5. RefusedAgain'
  BY <1>1, <1>2 DEF AcceptTypeOK, RefusedAgain, Stale
<1>6. LockInLoop' /\ LeakedByLock'
  BY <1>1, <1>2 DEF AcceptTypeOK, LockInLoop, LeakedByLock
<1> QED BY <1>3, <1>4, <1>5, <1>6

LEMMA RetryInv ==
    ASSUME AcceptInv, NEW p \in Procs, Retry(p)
    PROVE  AcceptInv'
BY DEF AcceptInv, AcceptTypeOK, OneHolder, RefusedAgain, LockInLoop, LeakedByLock, InAccept, Stale, Retry, Goes

(* A signal may interrupt accept(), which then has no connection.           *)
LEMMA SignalInv ==
    ASSUME AcceptInv, NEW p \in Procs, NEW usr1 \in BOOLEAN, Signal(p, usr1)
    PROVE  AcceptInv'
<1> USE AcceptAssumption DEF AcceptInv
<1>1. /\ UNCHANGED <<build, client, lock, held>>
      /\ down' = [down EXCEPT ![p] = down[p] \/ usr1]
  BY DEF Signal
<1>2. early' \in [Procs -> BOOLEAN] /\ down' \in [Procs -> BOOLEAN]
  BY Zenon DEF Signal, AcceptTypeOK
<1>3. CASE UNCHANGED <<at, sock>>
  BY <1>1, <1>2, <1>3 DEF AcceptTypeOK, OneHolder, RefusedAgain, LockInLoop, LeakedByLock, Stale
<1>4. ASSUME UNCHANGED sock, at[p] = "lock",
             NEW step \in {"failed", "lock"}, at' = [at EXCEPT ![p] = step]
      PROVE  AcceptInv'
  BY <1>1, <1>2, <1>4 DEF AcceptTypeOK, OneHolder, RefusedAgain, LockInLoop, LeakedByLock, Stale, InAccept
<1>5. ASSUME sock' = [sock EXCEPT ![p] = None], at[p] = "accept",
             NEW step \in {"got", "test"}, at' = [at EXCEPT ![p] = step]
      PROVE  AcceptInv'
  <2>1. AcceptTypeOK'
    BY <1>1, <1>2, <1>5 DEF AcceptTypeOK, InAccept
  <2>2. OneHolder'
    BY <1>1, <1>5 DEF AcceptTypeOK, OneHolder
  <2>3. RefusedAgain'
    BY <1>1, <1>5 DEF AcceptTypeOK, RefusedAgain, Stale
  <2>4. LockInLoop' /\ LeakedByLock'
    BY <1>1, <1>5 DEF AcceptTypeOK, LockInLoop, LeakedByLock
  <2> QED BY <2>1, <2>2, <2>3, <2>4
<1> QED BY <1>3, <1>4, <1>5 DEF Signal, Goes

(* A Unix client is served, or closed and still in `socket'.                *)
LEMMA KeeperInv ==
    ASSUME AcceptInv, NEW p \in Procs, Keeper(p)
    PROVE  AcceptInv'
<1> USE AcceptAssumption DEF AcceptInv
<1> DEFINE c == sock[p]
<1>1. /\ UNCHANGED <<build, lock, sock, down, early, held>> /\ at[p] = "keeper"
      /\ c \in Clients /\ c # None /\ build.family = "UNIX"
      /\ client[c].state \in {"taken", "closed"}
  BY DEF Keeper, RefusedAgain, AcceptTypeOK, OneHolder
<1>2. CASE client[c].state = "taken" /\ client[c].wanted /\ Goes(p, "serve") /\ UNCHANGED client
  BY <1>1, <1>2 DEF AcceptTypeOK, OneHolder, RefusedAgain, LockInLoop, LeakedByLock, InAccept, Stale, Goes
<1>3. CASE Goes(p, "lock") /\ client' = Close(c)
  <2>1. /\ client' \in [Clients -> [wanted : BOOLEAN, state : {"away", "waiting", "taken", "closed", "leaked"}]]
        /\ \A d \in Clients : client'[d].wanted = client[d].wanted
        /\ \A d \in Clients \ {c} : client'[d].state = client[d].state
        /\ client'[c].state = "closed"
        /\ at' = [at EXCEPT ![p] = "lock"] /\ sock[p] = c
    BY <1>1, <1>3, CloseClient DEF Goes
  <2>2. \A q \in Procs : at[q] = "serve" /\ sock[q] = c => q = p
    BY <1>1 DEF OneHolder, RefusedAgain
  <2> HIDE DEF c
  <2>3. AcceptTypeOK'
    BY <1>1, <2>1 DEF AcceptTypeOK, InAccept
  <2>4. OneHolder'
    <3>1. ASSUME NEW d \in Clients, client'[d].state = "taken"
          PROVE  \E h \in Procs : sock'[h] = d /\ \A q \in Procs : sock'[q] = d => q = h
      BY <1>1, <2>1, <3>1 DEF OneHolder
    <3>2. ASSUME NEW q \in Procs, sock'[q] # None
          PROVE  /\ client'[sock'[q]].state \in {"taken", "closed"}
                 /\ client'[sock'[q]].state = "taken" => at'[q] \in {"got", "keeper", "serve"}
      <4>1. sock'[q] = sock[q] /\ sock[q] \in Clients
        BY <1>1, <2>1, <3>2 DEF AcceptTypeOK
      <4>2. CASE sock[q] = c
        BY <1>1, <2>1, <4>1, <4>2
      <4>3. CASE sock[q] # c
        BY <1>1, <2>1, <3>2, <4>1, <4>3 DEF AcceptTypeOK, OneHolder
      <4> QED BY <4>2, <4>3
    <3> QED BY <3>1, <3>2 DEF OneHolder
  <2>5. RefusedAgain'
    BY <1>1, <2>1, <2>2 DEF AcceptTypeOK, RefusedAgain, Stale, c
  <2>6. LockInLoop' /\ LeakedByLock'
    BY <1>1, <2>1 DEF AcceptTypeOK, LockInLoop, LeakedByLock
  <2> QED BY <2>3, <2>4, <2>5, <2>6
<1> QED BY <1>2, <1>3 DEF Keeper

(* The lock is released on every way out of the loop, and kept on the way   *)
(* back.                                                                    *)
LEMMA GotInv ==
    ASSUME AcceptInv, NEW p \in Procs, Got(p)
    PROVE  AcceptInv'
<1> USE AcceptAssumption DEF AcceptInv
<1> DEFINE c == sock[p]
<1>1. UNCHANGED <<build, sock, down, early>> /\ at[p] = "got" /\ c \in Clients \cup {None}
  BY DEF Got, AcceptTypeOK
<1>2. ASSUME NEW step \in {"failed", "serve", "keeper"}, Goes(p, step), ReleaseLock(p), UNCHANGED client,
             step = "failed" => c = None,
             step = "serve" => c # None /\ client[c].state = "taken" /\ client[c].wanted,
             step = "keeper" => c # None /\ build.family = "UNIX"
      PROVE  AcceptInv'
  <2>1. /\ at' = [at EXCEPT ![p] = step] /\ lock' = IF lock = p THEN None ELSE lock
        /\ held' = [held EXCEPT ![p] = FALSE]
    BY <1>2 DEF Goes, ReleaseLock
  <2>2. AcceptTypeOK'
    BY <1>1, <1>2, <2>1 DEF AcceptTypeOK, InAccept
  <2>3. OneHolder'
    BY <1>1, <1>2, <2>1 DEF AcceptTypeOK, OneHolder
  <2>4. RefusedAgain'
    BY <1>1, <1>2, <2>1 DEF AcceptTypeOK, RefusedAgain, Stale
  <2>5. LockInLoop' /\ LeakedByLock'
    BY <1>1, <1>2, <2>1 DEF AcceptTypeOK, LockInLoop, LeakedByLock
  <2> QED BY <2>2, <2>3, <2>4, <2>5
<1>3. ASSUME c # None, build.family = "INET", ~ClientAddrOK(c),
             Goes(p, "test"), client' = Close(c), UNCHANGED <<lock, held>>
      PROVE  AcceptInv'
  <2>1. /\ client' \in [Clients -> [wanted : BOOLEAN, state : {"away", "waiting", "taken", "closed", "leaked"}]]
        /\ \A d \in Clients : client'[d].wanted = client[d].wanted
        /\ \A d \in Clients \ {c} : client'[d].state = client[d].state
        /\ client'[c].state = "closed" /\ ~client[c].wanted
        /\ at' = [at EXCEPT ![p] = "test"] /\ c \in Clients /\ sock[p] = c
        /\ \A q \in Procs : at[q] = "serve" => sock[q] # c
    BY <1>1, <1>3, CloseClient DEF Goes, ClientAddrOK, OneHolder, RefusedAgain
  <2> HIDE DEF c
  <2>2. AcceptTypeOK'
    BY <1>1, <1>3, <2>1 DEF AcceptTypeOK, InAccept
  <2>3. OneHolder'
    <3>1. ASSUME NEW d \in Clients, client'[d].state = "taken"
          PROVE  \E h \in Procs : sock'[h] = d /\ \A q \in Procs : sock'[q] = d => q = h
      BY <1>1, <2>1, <3>1 DEF OneHolder
    <3>2. ASSUME NEW q \in Procs, sock'[q] # None
          PROVE  /\ client'[sock'[q]].state \in {"taken", "closed"}
                 /\ client'[sock'[q]].state = "taken" => at'[q] \in {"got", "keeper", "serve"}
      <4>1. sock'[q] = sock[q] /\ sock[q] \in Clients
        BY <1>1, <2>1, <3>2 DEF AcceptTypeOK
      <4>2. CASE sock[q] = c
        BY <1>1, <2>1, <4>1, <4>2
      <4>3. CASE sock[q] # c
        BY <1>1, <2>1, <3>2, <4>1, <4>3 DEF AcceptTypeOK, OneHolder
      <4> QED BY <4>2, <4>3
    <3> QED BY <3>1, <3>2 DEF OneHolder
  <2>4. RefusedAgain'
    BY <1>1, <1>3, <2>1 DEF AcceptTypeOK, RefusedAgain, Stale
  <2>5. LockInLoop' /\ LeakedByLock'
    BY <1>1, <1>3, <2>1 DEF AcceptTypeOK, LockInLoop, LeakedByLock
  <2> QED BY <2>2, <2>3, <2>4, <2>5
<1>4. (c # None /\ build.family = "INET" /\ ClientAddrOK(c)) => client[c].state = "taken"
  BY <1>1 DEF OneHolder, RefusedAgain, Stale, ClientAddrOK
<1> QED BY <1>2, <1>3, <1>4 DEF Got, Fails, ClientAddrOK

LEMMA AcquireFailsInv ==
    ASSUME AcceptInv, NEW p \in Procs, AcquireFails(p)
    PROVE  AcceptInv'
BY DEF AcceptInv, AcceptTypeOK, OneHolder, RefusedAgain, LockInLoop, LeakedByLock, InAccept, Stale,
       AcquireFails, Goes

(* The lock is kept on the way out, and the connection is nobody's.         *)
LEMMA ReleaseFailsInv ==
    ASSUME AcceptInv, NEW p \in Procs, ReleaseFails(p)
    PROVE  AcceptInv'
<1> USE AcceptAssumption DEF AcceptInv
<1> DEFINE c == sock[p]
<1>1. /\ UNCHANGED <<build, lock, down, early>> /\ at[p] = "got" /\ build.locking
      /\ at' = [at EXCEPT ![p] = "failed"] /\ sock' = [sock EXCEPT ![p] = None]
      /\ held' = [held EXCEPT ![p] = TRUE]
      /\ c \in Clients \cup {None} /\ sock[p] = c
      /\ client' = IF c = None THEN client
                   ELSE [client EXCEPT ![c].state = IF @ = "taken" THEN "leaked" ELSE @]
  BY DEF ReleaseFails, Goes, AcceptTypeOK
<1>2. /\ client' \in [Clients -> [wanted : BOOLEAN, state : {"away", "waiting", "taken", "closed", "leaked"}]]
      /\ \A d \in Clients : client'[d].wanted = client[d].wanted
      /\ \A d \in Clients \ {c} : client'[d].state = client[d].state
      /\ c # None => client'[c].state # "taken"
      /\ (c # None /\ client[c].state # "taken") => client'[c].state = client[c].state
  BY <1>1 DEF AcceptTypeOK
<1>3. \A q \in Procs \ {p} : (c # None /\ sock[q] = c) => client[c].state = "closed"
  BY <1>1 DEF OneHolder, AcceptTypeOK
<1> HIDE DEF c
<1>4. AcceptTypeOK'
  BY <1>1, <1>2 DEF AcceptTypeOK, InAccept
<1>5. OneHolder'
  BY <1>1, <1>2, <1>3 DEF AcceptTypeOK, OneHolder
<1>6. RefusedAgain'
  BY <1>1, <1>2, <1>3 DEF AcceptTypeOK, RefusedAgain, Stale
<1>7. LockInLoop' /\ LeakedByLock'
  BY <1>1 DEF AcceptTypeOK, LockInLoop, LeakedByLock
<1> QED BY <1>4, <1>5, <1>6, <1>7

(* A process ends: its connection is closed and its lock released.          *)
LEMMA ExitInv ==
    ASSUME AcceptInv, NEW p \in Procs, Exit(p)
    PROVE  AcceptInv'
<1> USE AcceptAssumption DEF AcceptInv
<1> DEFINE c == sock[p]
<1>1. /\ UNCHANGED build /\ at' = [at EXCEPT ![p] = "out"] /\ sock' = [sock EXCEPT ![p] = None]
      /\ down' = [down EXCEPT ![p] = FALSE] /\ early' = [early EXCEPT ![p] = FALSE]
      /\ lock' = (IF lock = p THEN None ELSE lock) /\ held' = [held EXCEPT ![p] = FALSE]
      /\ client' = IF c = None THEN client ELSE Close(c)
      /\ c \in Clients \cup {None} /\ sock[p] = c
  BY DEF Exit, Goes, ReleaseLock, AcceptTypeOK
<1>2. /\ client' \in [Clients -> [wanted : BOOLEAN, state : {"away", "waiting", "taken", "closed", "leaked"}]]
      /\ \A d \in Clients : client'[d].wanted = client[d].wanted
      /\ \A d \in Clients \ {c} : client'[d].state = client[d].state
      /\ c # None => client'[c].state = "closed"
  BY <1>1, CloseClient DEF OneHolder, AcceptTypeOK
<1>3. \A q \in Procs \ {p} : (c # None /\ sock[q] = c) => client[c].state = "closed"
  BY <1>1 DEF OneHolder, AcceptTypeOK
<1> HIDE DEF c
<1>4. AcceptTypeOK'
  BY <1>1, <1>2 DEF AcceptTypeOK, InAccept
<1>5. OneHolder'
  BY <1>1, <1>2, <1>3 DEF AcceptTypeOK, OneHolder
<1>6. RefusedAgain'
  BY <1>1, <1>2, <1>3 DEF AcceptTypeOK, RefusedAgain, Stale
<1>7. LockInLoop' /\ LeakedByLock'
  BY <1>1, <1>2 DEF AcceptTypeOK, LockInLoop, LeakedByLock
<1> QED BY <1>4, <1>5, <1>6, <1>7

LEMMA AcceptStutter ==
    ASSUME AcceptInv, UNCHANGED avars
    PROVE  AcceptInv'
BY DEF avars, AcceptInv, AcceptTypeOK, OneHolder, RefusedAgain, LockInLoop, LeakedByLock, Stale

LEMMA AcceptNextInv ==
    ASSUME AcceptInv, AcceptNext
    PROVE  AcceptInv'
<1>1. ASSUME NEW c \in Clients, Connect(c) PROVE AcceptInv'
  BY <1>1, ConnectInv
<1>2. ASSUME NEW p \in Procs, Runs(p) PROVE AcceptInv'
  BY <1>2, CallInv, AcquireLockInv, TestInv, AcceptStepInv, GotInv, KeeperInv, FinishInv, RetryInv
     DEF Runs
<1>3. ASSUME NEW p \in Procs, Exit(p) PROVE AcceptInv'
  BY <1>3, ExitInv
<1>4. ASSUME NEW p \in Procs, NEW usr1 \in BOOLEAN, Signal(p, usr1) PROVE AcceptInv'
  BY <1>4, SignalInv
<1>5. ASSUME NEW p \in Procs, AcquireFails(p) \/ ReleaseFails(p) PROVE AcceptInv'
  BY <1>5, AcquireFailsInv, ReleaseFailsInv
<1> QED BY <1>1, <1>2, <1>3, <1>4, <1>5 DEF AcceptNext

LEMMA AcceptInvAccounts == AcceptInv => ConnectionsAccounted
<1> SUFFICES ASSUME AcceptInv PROVE ConnectionsAccounted
  OBVIOUS
<1> USE DEF AcceptInv
<1>1. ASSUME NEW c \in Clients, client[c].state = "taken"
      PROVE  Cardinality({p \in Procs : sock[p] = c}) = 1
  <2>1. PICK p \in Procs : sock[p] = c /\ \A q \in Procs : sock[q] = c => q = p
    BY <1>1 DEF OneHolder
  <2>2. {q \in Procs : sock[q] = c} = {p}
    BY <2>1
  <2> QED BY <2>2, FS_Singleton
<1>2. \A p \in Procs : at[p] = "serve" =>
          client[sock[p]].state = "taken" /\ client[sock[p]].wanted
  BY DEF RefusedAgain
<1> QED BY <1>1, <1>2 DEF ConnectionsAccounted, LockInLoop, LeakedByLock

-----------------------------------------------------------------------------
(* Asynchronous I/O.                                                        *)

LEMMA AsyncInitInv == AsyncUnused => AsyncInv
<1> SUFFICES ASSUME AsyncUnused PROVE AsyncInv
  OBVIOUS
<1>1. AsyncTypeOK
  <2>1. lib \in BOOLEAN /\ inUse \in BOOLEAN
    BY Zenon DEF AsyncUnused
  <2>2. size \in Nat /\ maxFd \in Int
    BY AsyncAssumption DEF AsyncUnused
  <2>3. /\ table \in [Slots -> {"free", "queued", "reported"}]
        /\ sets \in SUBSET Slots /\ post \in SUBSET Slots
    BY DEF AsyncUnused
  <2> QED BY <2>1, <2>2, <2>3 DEF AsyncTypeOK
<1>2. SetsInTable /\ LeftByClose /\ DispatchSound
  BY DEF AsyncUnused, SetsInTable, LeftByClose, DispatchSound
<1> QED BY <1>1, <1>2 DEF AsyncInv

(* When the process ends, nothing of the table is left.                     *)
LEMMA DiesInv ==
    ASSUME NEW how, Dies(how)
    PROVE  AsyncInv'
<1>1. AsyncTypeOK'
  <2>1. lib' \in BOOLEAN /\ inUse' \in BOOLEAN
    BY Zenon DEF Dies
  <2>2. size' \in Nat /\ maxFd' \in Int
    BY AsyncAssumption DEF Dies
  <2>3. /\ table' \in [Slots -> {"free", "queued", "reported"}]
        /\ sets' \in SUBSET Slots /\ post' \in SUBSET Slots
    BY DEF Dies
  <2> QED BY <2>1, <2>2, <2>3 DEF AsyncTypeOK
<1>2. SetsInTable' /\ LeftByClose' /\ DispatchSound'
  BY DEF Dies, SetsInTable, LeftByClose, DispatchSound
<1> QED BY <1>1, <1>2 DEF AsyncInv

(* Steps after which sets, table and list of events are as they were.       *)
LEMMA AsyncStutter ==
    ASSUME AsyncInv, UNCHANGED <<lib, size, table, sets, post, maxFd, stale>>, inUse' \in BOOLEAN
    PROVE  AsyncInv'
BY DEF AsyncInv, AsyncTypeOK, SetsInTable, LeftByClose, DispatchSound, InTable

LEMMA LibInv ==
    ASSUME AsyncInv, OS_LibInit \/ OS_LibShutdown
    PROVE  AsyncInv'
BY DEF OS_LibInit, OS_LibShutdown, AsyncInv, AsyncTypeOK, SetsInTable, LeftByClose, DispatchSound

(* A request is made in a free slot of a table that is large enough: an     *)
(* event that is already posted for it was left behind by OS_CloseRead.     *)
LEMMA PostInv ==
    ASSUME AsyncInv, NEW s \in Slots, NEW grow \in BOOLEAN, Post(s, grow), lib, grow \/ s < size
    PROVE  AsyncInv'
<1> USE AsyncAssumption DEF AsyncInv
<1>1. /\ size' \in Nat /\ size <= size' /\ s < size'
      /\ table[s] = "free" /\ table' = [table EXCEPT ![s] = "queued"] /\ sets' = sets \union {s}
      /\ UNCHANGED <<lib, post, stale>> /\ inUse' \in BOOLEAN
  BY DEF Post, Grows, AsyncTypeOK, Slots
<1>2. maxFd' \in Int /\ maxFd <= maxFd' /\ FdOf(s) <= maxFd' /\ \A q \in Slots : FdOf(q) \in Int
  BY DEF Post, AsyncTypeOK, FdOf, Slots
<1>3. AsyncTypeOK'
  BY <1>1, <1>2 DEF AsyncTypeOK
<1>4. SetsInTable'
  BY <1>1 DEF AsyncTypeOK, SetsInTable, Slots
<1>5. LeftByClose'
  BY <1>1 DEF AsyncTypeOK, LeftByClose
<1>6. DispatchSound'
  BY <1>1, <1>2 DEF AsyncTypeOK, DispatchSound, LeftByClose, InTable, Slots
<1> QED BY <1>3, <1>4, <1>5, <1>6

LEMMA SlotsOfFd ==
    ASSUME NEW fd \in Fds
    PROVE  /\ RdIx(fd) \in Slots /\ WrIx(fd) \in Slots
           /\ \A s \in Slots : FdOf(s) \in Int /\ (FdOf(s) = fd => s \in {RdIx(fd), WrIx(fd)})
BY AsyncAssumption DEF Fds, Slots, RdIx, WrIx, FdOf

LEMMA RequestInv ==
    ASSUME AsyncInv, NEW fd \in Fds, OS_AsyncReadStdin \/ OS_AsyncRead(fd) \/ OS_AsyncWrite(fd)
    PROVE  AsyncInv'
<1>1. 0 \in Slots
  BY AsyncAssumption DEF Slots
<1>2. CASE OS_AsyncReadStdin
  BY <1>1, <1>2, PostInv, DiesInv DEF OS_AsyncReadStdin, InTable
<1>3. CASE OS_AsyncRead(fd)
  BY <1>3, SlotsOfFd, PostInv, DiesInv DEF OS_AsyncRead
<1>4. CASE OS_AsyncWrite(fd)
  BY <1>4, SlotsOfFd, PostInv, DiesInv DEF OS_AsyncWrite
<1> QED BY <1>2, <1>3, <1>4

(* Both slots, their events and their memory of a lost event go together,   *)
(* and maxFd is lowered only past slots that are free.                      *)
LEMMA CloseInv ==
    ASSUME AsyncInv, NEW fd \in Fds, OS_Close(fd)
    PROVE  AsyncInv'
<1> USE DEF AsyncInv
<1> DEFINE both == {RdIx(fd), WrIx(fd)}
<1>1. CASE \E how \in {"ub"} : Dies(how)
  BY <1>1, DiesInv
<1>2. CASE UNCHANGED <<lib, size, table, sets, post, maxFd, stale>> /\ UNCHANGED inUse
  BY <1>2, AsyncStutter DEF AsyncTypeOK
<1>3. CASE /\ sets' = sets \ both /\ post' = Unposted(both)
           /\ table' = [s \in Slots |-> IF s \in both THEN "free" ELSE table[s]]
           /\ maxFd' = IF maxFd = fd THEN maxFd - 1 ELSE maxFd
           /\ stale' = stale \ both
           /\ UNCHANGED <<lib, size, inUse>>
  <2>1. \A s \in Slots \ both : FdOf(s) \in Int /\ FdOf(s) # fd
    BY SlotsOfFd
  <2> HIDE DEF both
  <2>2. AsyncTypeOK'
    BY <1>3, AsyncAssumption DEF AsyncTypeOK, Unposted, Fds
  <2>3. SetsInTable' /\ LeftByClose'
    BY <1>3 DEF SetsInTable, LeftByClose, Unposted, AsyncTypeOK
  <2>4. DispatchSound'
    BY <1>3, <2>1, AsyncAssumption DEF DispatchSound, Unposted, InTable, AsyncTypeOK, Fds
  <2> QED BY <2>2, <2>3, <2>4
<1> QED BY <1>1, <1>2, <1>3 DEF OS_Close

LEMMA CloseReadInv ==
    ASSUME AsyncInv, NEW fd \in Fds, OS_CloseRead(fd)
    PROVE  AsyncInv'
<1> DEFINE s == RdIx(fd)
<1>1. s \in Slots
  BY SlotsOfFd
<1>2. CASE Dies("ub")
  BY <1>2, DiesInv
<1>3. CASE ~Dies("ub")
  BY <1>1, <1>3
     DEF OS_CloseRead, AsyncInv, AsyncTypeOK, SetsInTable, LeftByClose, DispatchSound, InTable
<1> QED BY <1>2, <1>3

(* select() reports slots that are in a set, hence inside the table.        *)
LEMMA DoIoInv ==
    ASSUME AsyncInv, OS_DoIo
    PROVE  AsyncInv'
<1> USE DEF AsyncInv
<1>1. CASE Dies("exit")
  BY <1>1, DiesInv
<1>2. CASE ~Dies("exit")
  <2>1. PICK seen : /\ seen \subseteq sets /\ \A s \in seen : FdOf(s) <= maxFd
                    /\ inUse' = TRUE /\ post' = post \union seen /\ sets' = sets \ seen
                    /\ table' = [s \in Slots |-> IF s \in seen /\ lib THEN "reported" ELSE table[s]]
                    /\ UNCHANGED <<lib, size, maxFd, stale>>
    BY <1>2 DEF OS_DoIo
  <2>2. AsyncTypeOK'
    BY <2>1 DEF AsyncTypeOK
  <2>3. SetsInTable' /\ LeftByClose'
    BY <2>1 DEF AsyncTypeOK, SetsInTable, LeftByClose
  <2>4. DispatchSound'
    BY <2>1 DEF AsyncTypeOK, DispatchSound, SetsInTable, InTable
  <2> QED BY <2>2, <2>3, <2>4
<1> QED BY <1>1, <1>2

LEMMA DispatchInv ==
    ASSUME AsyncInv, Dispatch
    PROVE  AsyncInv'
<1> USE DEF AsyncInv
<1>1. CASE Dies("ub")
  BY <1>1, DiesInv
<1>2. CASE UNCHANGED <<lib, size, table, sets, post, maxFd, inUse, stale>>
  BY <1>2, AsyncStutter DEF AsyncTypeOK
<1>3. ASSUME NEW s, post' = post \ {s}, table' = [table EXCEPT ![s] = "free"], stale' = stale \ {s},
             UNCHANGED <<lib, size, sets, maxFd, inUse>>
      PROVE  AsyncInv'
  BY <1>3 DEF AsyncTypeOK, SetsInTable, LeftByClose, DispatchSound, InTable
<1> QED BY <1>1, <1>2, <1>3 DEF Dispatch

LEMMA AsyncNextInv ==
    ASSUME AsyncInv, AsyncNext
    PROVE  AsyncInv'
<1>1. 0 \in Fds
  BY AsyncAssumption DEF Fds
<1>2. CASE OS_LibInit \/ OS_LibShutdown
  BY <1>2, LibInv
<1>3. CASE OS_AsyncReadStdin
  BY <1>1, <1>3, RequestInv
<1>4. ASSUME NEW fd \in Fds,
             OS_AsyncRead(fd) \/ OS_AsyncWrite(fd) \/ OS_Close(fd) \/ OS_CloseRead(fd)
      PROVE  AsyncInv'
  BY <1>4, RequestInv, CloseInv, CloseReadInv
<1>5. CASE OS_DoIo \/ Dispatch
  BY <1>5, DoIoInv, DispatchInv
<1>6. CASE CallbackReturns \/ (\E fd \in Fds : Open(fd)) \/ (\E s \in Slots : BecomesReady(s))
  <2>1. UNCHANGED <<lib, size, table, sets, post, maxFd, stale>> /\ inUse' = inUse
    BY <1>6 DEF CallbackReturns, Open, BecomesReady
  <2> QED BY <2>1, AsyncStutter DEF AsyncInv, AsyncTypeOK
<1> QED BY <1>2, <1>3, <1>4, <1>5, <1>6 DEF AsyncNext, Loop

-----------------------------------------------------------------------------
(* Both parts.                                                              *)

OsInv == AcceptInv /\ AsyncInv

LEMMA OsInitInv == Init => OsInv
<1>1. NobodyAccepts => AcceptInv
  BY AcceptAssumption
     DEF NobodyAccepts, AcceptInv, AcceptTypeOK, OneHolder, RefusedAgain, LockInLoop, LeakedByLock, InAccept, Stale
<1> QED BY <1>1, AcceptInitInv, AsyncInitInv DEF Init, OsInv

LEMMA OsNextInv == OsInv /\ [Next]_vars => OsInv'
<1> SUFFICES ASSUME OsInv, [Next]_vars PROVE OsInv'
  OBVIOUS
<1> USE DEF OsInv
<1>1. UNCHANGED svars => AsyncInv'
  BY AsyncStutter DEF svars, AsyncInv, AsyncTypeOK
<1>2. CASE AcceptNext /\ UNCHANGED svars
  BY <1>1, <1>2, AcceptNextInv
<1>3. CASE AsyncNext /\ UNCHANGED avars
  BY <1>3, AsyncNextInv, AcceptStutter
<1>4. CASE UNCHANGED <<avars, svars>>
  BY <1>1, <1>4, AcceptStutter
<1> QED BY <1>2, <1>3, <1>4 DEF Next, vars

(* Whatever is refused, retried and interrupted in OS_Accept, by any number *)
(* of processes and signals: every connection taken from the listening      *)
(* socket is in the hands of exactly one process, and lost only by a build  *)
(* with the lock, when it cannot be released; the caller is given only open *)
(* and wanted ones; and the fcntl lock is held inside the loop around       *)
(* accept(), and outside only where ReleaseLock failed.                     *)
THEOREM AcceptKeepsAccounts == Spec => []ConnectionsAccounted
<1>1. OsInv => ConnectionsAccounted
  BY AcceptInvAccounts DEF OsInv
<1> QED BY <1>1, OsInitInv, OsNextInv, PTL DEF Spec

(* Whatever callbacks of OS_DoIo close, open again and post, on any number  *)
(* of descriptors and with any growth of the table: a request that is to be *)
(* called back is inside the table and within maxFd, and was reported by    *)
(* select(), except for a read that OS_CloseRead closed with its event      *)
(* posted.                                                                  *)
THEOREM DispatchIsSound == Spec => []DispatchSound
<1>1. OsInv => DispatchSound
  BY DEF OsInv, AsyncInv
<1> QED BY <1>1, OsInitInv, OsNextInv, PTL DEF Spec
=============================================================================
