------------------------------ MODULE OsAccept ------------------------------
(***************************************************************************)
(* OS_Accept of loungeact_fastcgi/os_unix.c: processes that share a         *)
(* listening socket, the lock around accept() on platforms that need one,   *)
(* signals, and clients that are refused or have given up.                  *)
(*                                                                         *)
(* `sock' is the local variable socket: it keeps the number of a connection *)
(* that was closed until accept() assigns it again.                         *)
(***************************************************************************)
EXTENDS Naturals, FiniteSets

CONSTANTS
    Procs,      \* processes that share the listening socket
    Clients,    \* clients that connect, once each
    MaxFaults,  \* bound: signals and fatal failures of system calls
    None        \* model value: no descriptor, nobody

ASSUME AcceptAssumption == None \notin Procs \cup Clients

VARIABLES
    build,    \* family of the socket, USE_LOCKING, fail_on_intr
    client,   \* the clients' connections
    lock,     \* who has the fcntl lock
    at,       \* where each process is
    sock,     \* each process's `socket'
    down,     \* each process's shutdownPending
    early,    \* history: the signal came just before a system call that waits
    held,     \* history: ReleaseLock failed, and the process has the lock still
    faults    \* signals and fatal failures so far

avars == <<build, client, lock, at, sock, down, early, held, faults>>

(* A client is wanted if its address is in the list (ClientAddrOK; TCP), or *)
(* if it does not give up before it is accepted (Unix domain).              *)
AcceptInit ==
    /\ build \in [family : {"INET", "UNIX"}, locking : BOOLEAN, failOnIntr : BOOLEAN]
    /\ client \in [Clients -> [wanted : BOOLEAN, state : {"away"}]]
    /\ lock = None
    /\ at = [p \in Procs |-> "app"]
    /\ sock = [p \in Procs |-> None]
    /\ down = [p \in Procs |-> FALSE]
    /\ early = [p \in Procs |-> FALSE]
    /\ held = [p \in Procs |-> FALSE]
    /\ faults = 0

(* Connections that p can take from the listening socket.                   *)
Waiting == {c \in Clients : client[c].state = "waiting"}

Goes(p, step) == at' = [at EXCEPT ![p] = step]

(* close(); of a descriptor that is closed already, EBADF.                  *)
Close(c) == [client EXCEPT ![c].state = IF @ = "taken" THEN "closed" ELSE @]

(* ReleaseLock *)
ReleaseLock(p) ==
    /\ lock' = IF lock = p THEN None ELSE lock
    /\ held' = [held EXCEPT ![p] = FALSE]

-----------------------------------------------------------------------------
(* Clients (external).                                                      *)

Connect(c) ==
    /\ client[c].state = "away"
    /\ client' = [client EXCEPT ![c].state = "waiting"]
    /\ UNCHANGED <<build, lock, at, sock, down, early, held, faults>>

-----------------------------------------------------------------------------
(* OS_Accept                                                                *)

Call(p) ==
    /\ at[p] = "app"
    /\ Goes(p, "lock")
    /\ sock' = [sock EXCEPT ![p] = None]
    /\ UNCHANGED <<build, client, lock, down, early, held, faults>>

(* AcquireLock: waits for other processes; shutdownPending is looked at     *)
(* only after an interrupt.                                                 *)
AcquireLock(p) ==
    /\ at[p] = "lock"
    /\ build.locking => lock \in {None, p}
    /\ lock' = IF build.locking THEN p ELSE lock
    /\ Goes(p, "test")
    /\ UNCHANGED <<build, client, sock, down, early, held, faults>>

(* Mutant of HeedsShutdown: the flag is not looked at before accept().      *)
HeedsShutdownLate(p) == FALSE

HeedsShutdown(p) == down[p]

(* Before accept(): `socket' stays as it is if the loop is left here.       *)
Test(p) ==
    /\ at[p] = "test"
    /\ Goes(p, IF HeedsShutdown(p) THEN "got" ELSE "accept")
    /\ UNCHANGED <<build, client, lock, sock, down, early, held, faults>>

(* accept(): a connection; one that the client has aborted, which is no     *)
(* reason to give up (is_reasonable_accept_errno); or a fatal failure.      *)
Accept(p) ==
    /\ at[p] = "accept"
    /\ \/ \E c \in Waiting :
             \/ /\ client' = [client EXCEPT ![c].state = "taken"]
                /\ sock' = [sock EXCEPT ![p] = c]
                /\ Goes(p, "got")
             \/ /\ client' = [client EXCEPT ![c].state = "closed"]
                /\ sock' = [sock EXCEPT ![p] = None]
                /\ Goes(p, IF down[p] THEN "got" ELSE "test")
          /\ UNCHANGED faults
       \/ /\ faults < MaxFaults /\ faults' = faults + 1
          /\ sock' = [sock EXCEPT ![p] = None]
          /\ Goes(p, "got")
          /\ UNCHANGED client
    /\ early' = [early EXCEPT ![p] = FALSE]
    /\ UNCHANGED <<build, lock, down, held>>

(* Mutant of Fails: the lock is kept.                                       *)
FailsLocked(p) == Goes(p, "failed") /\ UNCHANGED <<lock, held>>

(* No socket: the lock is given back and -1 returned.                       *)
Fails(p) == Goes(p, "failed") /\ ReleaseLock(p)

(* ClientAddrOK: the list is empty or names the client.                     *)
ClientAddrOK(c) == client[c].wanted

(* After the inner loop.  A TCP client whose address is not approved is     *)
(* closed and the next one waited for, under the same lock; a Unix client   *)
(* is looked at without it.                                                 *)
Got(p) ==
    LET c == sock[p] IN
    /\ at[p] = "got"
    /\ \/ c = None /\ Fails(p) /\ UNCHANGED client
       \/ /\ c # None /\ build.family = "INET"
          /\ IF ClientAddrOK(c)
             THEN Goes(p, "serve") /\ ReleaseLock(p) /\ UNCHANGED client
             ELSE Goes(p, "test") /\ client' = Close(c) /\ UNCHANGED <<lock, held>>
       \/ c # None /\ build.family = "UNIX" /\ Goes(p, "keeper") /\ ReleaseLock(p) /\ UNCHANGED client
    /\ UNCHANGED <<build, sock, down, early, faults>>

(* fcntl() fails other than by an interrupt.  -1 without the lock.          *)
AcquireFails(p) ==
    /\ at[p] = "lock" /\ build.locking
    /\ faults < MaxFaults /\ faults' = faults + 1
    /\ Goes(p, "failed")
    /\ UNCHANGED <<build, client, lock, sock, down, early, held>>

(* -1 with the lock, and with a connection that nobody knows of any more:   *)
(* it stays open until the process ends.  After accept() failed the result  *)
(* is the same, although that call does not look at ReleaseLock's.          *)
ReleaseFails(p) ==
    LET c == sock[p] IN
    /\ at[p] = "got" /\ build.locking
    /\ (c # None /\ build.family = "INET") => ClientAddrOK(c)
    /\ faults < MaxFaults /\ faults' = faults + 1
    /\ Goes(p, "failed")
    /\ held' = [held EXCEPT ![p] = TRUE]
    /\ client' = IF c = None THEN client
                 ELSE [client EXCEPT ![c].state = IF @ = "taken" THEN "leaked" ELSE @]
    /\ sock' = [sock EXCEPT ![p] = None]
    /\ UNCHANGED <<build, lock, down, early>>

(* Mutant of Keeper: a client that is not kept is not closed either.        *)
KeeperForgets(p) ==
    LET c == sock[p] IN
    /\ at[p] = "keeper"
    /\ \/ client[c].state = "taken" /\ client[c].wanted /\ Goes(p, "serve")
       \/ Goes(p, "lock")
    /\ UNCHANGED <<build, client, lock, sock, down, early, held, faults>>

(* is_af_unix_keeper: something to read within two seconds; a descriptor    *)
(* that is closed is an error, and a client may be slow.                    *)
Keeper(p) ==
    LET c == sock[p] IN
    /\ at[p] = "keeper"
    /\ \/ /\ client[c].state = "taken" /\ client[c].wanted
          /\ Goes(p, "serve") /\ UNCHANGED client
       \/ Goes(p, "lock") /\ client' = Close(c)
    /\ UNCHANGED <<build, lock, sock, down, early, held, faults>>

(* A signal.  SIGUSR1 sets shutdownPending (OS_Sigusr1Handler).  A system   *)
(* call that waits is interrupted; just before the call nothing is (the     *)
(* window of the comment).                                                  *)
Signal(p, usr1) ==
    LET pending == down[p] \/ usr1 IN
    /\ at[p] # "out" /\ faults < MaxFaults /\ faults' = faults + 1
    /\ down' = [down EXCEPT ![p] = pending]
    /\ \/ /\ usr1
          /\ early' = [early EXCEPT ![p] = @ \/ at[p] = "accept"]
          /\ UNCHANGED <<at, sock>>
       \/ /\ at[p] = "lock" /\ build.locking
          /\ Goes(p, IF build.failOnIntr \/ pending THEN "failed" ELSE "lock")
          /\ UNCHANGED <<sock, early>>
       \/ /\ at[p] = "accept"
          /\ Goes(p, IF build.failOnIntr \/ pending THEN "got" ELSE "test")
          /\ sock' = [sock EXCEPT ![p] = None]
          /\ early' = [early EXCEPT ![p] = FALSE]
    /\ UNCHANGED <<build, client, lock, held>>

-----------------------------------------------------------------------------
(* The caller.  The comment in FCGX_Accept_r wants it to exit when OS_Accept *)
(* fails; main of loungeact-fastcgi.c calls again.                          *)

Finish(p) ==
    /\ at[p] = "serve"
    /\ client' = Close(sock[p])
    /\ Goes(p, "app")
    /\ sock' = [sock EXCEPT ![p] = None]
    /\ UNCHANGED <<build, lock, down, early, held, faults>>

Retry(p) ==
    /\ at[p] = "failed"
    /\ Goes(p, "app")
    /\ UNCHANGED <<build, client, lock, sock, down, early, held, faults>>

(* A process ends, by itself or killed: the kernel closes what it has and   *)
(* releases its lock.  (What it had leaked stays "leaked": it is nobody's   *)
(* before and after.)                                                       *)
Exit(p) ==
    /\ at[p] # "out"
    /\ Goes(p, "out")
    /\ client' = IF sock[p] = None THEN client ELSE Close(sock[p])
    /\ sock' = [sock EXCEPT ![p] = None]
    /\ down' = [down EXCEPT ![p] = FALSE]
    /\ early' = [early EXCEPT ![p] = FALSE]
    /\ ReleaseLock(p)
    /\ UNCHANGED <<build, faults>>

Runs(p) ==
    \/ Call(p) \/ AcquireLock(p) \/ Test(p) \/ Accept(p) \/ Got(p) \/ Keeper(p)
    \/ Finish(p) \/ Retry(p)

(* A process that runs goes on, and one that waits for the lock is woken    *)
(* when it is released.                                                     *)
AcceptFairness == \A p \in Procs : WF_avars(Runs(p)) /\ SF_avars(AcquireLock(p))

AcceptNext ==
    \/ \E c \in Clients : Connect(c)
    \/ \E p \in Procs : \/ Runs(p) \/ Exit(p) \/ AcquireFails(p) \/ ReleaseFails(p)
                        \/ \E usr1 \in BOOLEAN : Signal(p, usr1)

-----------------------------------------------------------------------------
(* Properties.                                                              *)

InAccept == {"lock", "test", "accept", "got", "keeper"}

(* `socket' is the number of a connection that was closed.                  *)
Stale(p) == sock[p] # None /\ client[sock[p]].state = "closed"

(* Every connection that was taken from the listening socket is in the      *)
(* hands of exactly one process, whatever it refuses, retries and is        *)
(* interrupted in, and one that nobody knows of any more is left only by a  *)
(* build with USE_LOCKING; what is handed to the caller is open and wanted; *)
(* and the lock is held inside the loop around accept(), and outside only   *)
(* by a process that could not release it.                                  *)
ConnectionsAccounted ==
    /\ \A c \in Clients : client[c].state = "taken" =>
          Cardinality({p \in Procs : sock[p] = c}) = 1
    /\ \A p \in Procs : at[p] = "serve" =>
          client[sock[p]].state = "taken" /\ client[sock[p]].wanted
    /\ \A p \in Procs : (build.locking /\ at[p] \in {"test", "accept", "got"}) => lock = p
    /\ \A p \in Procs : lock = p => build.locking /\ (at[p] \in {"test", "accept", "got"} \/ held[p])
    /\ \A c \in Clients : client[c].state = "leaked" => build.locking

(* What makes ConnectionsAccounted inductive.                               *)
AcceptTypeOK ==
    /\ build \in [family : {"INET", "UNIX"}, locking : BOOLEAN, failOnIntr : BOOLEAN]
    /\ client \in [Clients -> [wanted : BOOLEAN, state : {"away", "waiting", "taken", "closed", "leaked"}]]
    /\ lock \in Procs \cup {None}
    /\ at \in [Procs -> InAccept \cup {"app", "serve", "failed", "out"}]
    /\ sock \in [Procs -> Clients \cup {None}]
    /\ down \in [Procs -> BOOLEAN]
    /\ early \in [Procs -> BOOLEAN]
    /\ held \in [Procs -> BOOLEAN]

(* A connection that is open has one holder, who is at a place where it     *)
(* knows that `socket' is its own; elsewhere accept() may assign it again.  *)
OneHolder ==
    /\ \A c \in Clients : client[c].state = "taken" =>
          \E p \in Procs : sock[p] = c /\ \A q \in Procs : sock[q] = c => q = p
    /\ \A p \in Procs : sock[p] # None => client[sock[p]].state \in {"taken", "closed"}
    /\ \A p \in Procs : (sock[p] # None /\ client[sock[p]].state = "taken") =>
          at[p] \in {"got", "keeper", "serve"}

(* Only Unix clients are looked at after accept(), and a closed descriptor  *)
(* that a process still has is, for TCP, of a client that it refused, and   *)
(* will refuse again.                                                       *)
RefusedAgain ==
    /\ \A p \in Procs : at[p] = "keeper" => sock[p] # None /\ build.family = "UNIX"
    /\ \A p \in Procs : (build.family = "INET" /\ Stale(p)) => ~client[sock[p]].wanted
    /\ \A p \in Procs : at[p] = "serve" =>
          sock[p] # None /\ client[sock[p]].state = "taken" /\ client[sock[p]].wanted

LockInLoop ==
    /\ \A p \in Procs : (build.locking /\ at[p] \in {"test", "accept", "got"}) => lock = p
    /\ \A p \in Procs : lock = p => build.locking /\ (at[p] \in {"test", "accept", "got"} \/ held[p])

LeakedByLock == \A c \in Clients : client[c].state = "leaked" => build.locking

AcceptInv == AcceptTypeOK /\ OneHolder /\ RefusedAgain /\ LockInLoop /\ LeakedByLock

(* With SIGUSR1 pending OS_Accept returns, unless it waits for a lock that  *)
(* another process has, waits in accept() for a client because the signal   *)
(* came too early, or has closed a client in this call: then `socket' is    *)
(* not negative, and the loop goes round with the closed descriptor.        *)
ShutdownHeeded ==
    \A p \in Procs : (down[p] /\ at[p] \in InAccept) ~>
        \/ at[p] \notin InAccept
        \/ Stale(p)
        \/ at[p] = "lock" /\ lock \notin {None, p}
        \/ at[p] = "accept" /\ early[p] /\ Waiting = {}

(* A client that waits is taken sooner or later while some process is up,   *)
(* as long as none with a pending shutdown goes round with the lock and the *)
(* closed descriptor of a TCP client; others that fail give the lock back.  *)
ClientsTaken ==
    \A c \in Clients : (client[c].state = "waiting") ~>
        \/ client[c].state # "waiting"
        \/ \A p \in Procs : down[p] \/ at[p] = "out"
        \/ build.family = "INET" /\ \E p \in Procs : lock = p /\ down[p] /\ Stale(p)
=============================================================================
