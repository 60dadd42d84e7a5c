------------------------------ MODULE BdbStore ------------------------------
(***************************************************************************)
(* The Berkeley DB driver (bdb-storage/ObjectStore-BDB.c).  Threads share   *)
(* one store handle.  put, replace and set_revs are transactions of several *)
(* steps; every step that another thread can fall between is an action.     *)
(*                                                                         *)
(* Berkeley DB is external and modelled from how the driver uses it: btree  *)
(* pages are locked for writing until the transaction ends; transactions    *)
(* are opened with DB_TXN_NOWAIT, so a lock that another transaction holds  *)
(* is refused at once; reads outside a transaction wait for the lock and    *)
(* see committed data.  The sequence is itself a record of the database     *)
(* (key "\0SEQ"), on page SeqPage.                                          *)
(***************************************************************************)
EXTENDS ObjectLayout

CONSTANTS
    Threads, Keys, Revs,
    DataCells,      \* the cells that document bodies are made of
    Bodies,         \* the document bodies that callers write
    Histories,      \* the revision lists that callers of replace hand over
    SetRevsArgs,    \* the revision lists that callers of set_revs hand over
    DocSeqs,        \* the document sequences that callers of replace dictate
    Sinces,         \* the sequences that iterators are opened at
    Deleted,        \* the values of the deleted flag that callers write
    Pages, PageOf, SeqPage,
    JunkSeqs,       \* what the uninitialised `seq' on the stack may hold
    MaxRevs,        \* LA_OBJECT_MAX_REVISION_COUNT
    MaxSeq,         \* bound: no put or replace starts after this many sequences
    MaxDocSeq,      \* bound: no put starts on an object this old
    MaxCells,       \* bound: no set_revs starts on an object this long
    AllocFails,     \* whether realloc may return NULL
    NoRev, NoObj, NoTxn, NoIter, Nobody, Leaked

(* rev_count has 15 bits.                                                   *)
RevCountLimit == 2^15 - 1

(* No revision is the all-zero one: la_revgen produces MD5 digests.         *)
ASSUME ConstantsAssumption ==
    /\ PageOf \in [Keys -> Pages]
    /\ SeqPage \in Pages
    /\ Bodies \subseteq Seq(DataCells)
    /\ Histories \subseteq Seq(Revs)
    /\ SetRevsArgs \subseteq Seq(Revs)
    /\ DocSeqs \subseteq Nat
    /\ Sinces \subseteq Nat
    /\ Deleted \subseteq BOOLEAN
    /\ JunkSeqs \subseteq Nat /\ JunkSeqs # {}
    /\ MaxRevs \in 0..RevCountLimit
    /\ \A revs \in Histories : Len(revs) <= RevCountLimit
    /\ MaxSeq \in Nat
    /\ MaxDocSeq \in Nat
    /\ MaxCells \in Nat
    /\ AllocFails \in BOOLEAN

VARIABLES
    db,       \* the committed objects of the primary database
    seqrec,   \* the committed "\0SEQ" record: the next number to hand out
    owner,    \* the transaction that holds a page's write lock
    txn,      \* each thread's open transaction and the locals of its call
    ret,      \* the last call that returned, and its result
    cur,      \* the sequence each thread's iterator stands on
    crashed,  \* the process has died
    \* History variables: no action reads them.
    truth,    \* body and revision history as the callers meant them
    uninit,   \* keys whose stored sequence came from uninitialised memory
    owed      \* keys each open iterator still has to return

disk  == <<db, seqrec, truth, uninit>>
vars  == <<db, seqrec, owner, txn, ret, cur, crashed, truth, uninit, owed>>

Cells   == Revs \cup DataCells \cup {Garbage}

Objects == [seq : Nat, doc_seq : Nat, deleted : BOOLEAN, rev : Revs,
            rev_count : Nat, revs_data : Seq(Cells)]

Intents == [body : Seq(DataCells), hist : Seq(Revs)]

Txns    == [op : {"put", "replace", "set_revs"}, at : {"seq", "write"},
            key : Keys, rev : Revs \cup {NoRev}, obj : Objects,
            intent : Intents, seqok : BOOLEAN]

(* The sentinels are not taken for values of the sets they extend.          *)
ASSUME SentinelsAssumption ==
    /\ NoRev \notin Revs
    /\ NoObj \notin Objects
    /\ NoObj \notin [rev : Revs, doc_seq : Nat, deleted : BOOLEAN]
    /\ NoTxn \notin Txns
    /\ NoIter \notin Int
    /\ Nobody \notin Threads
    /\ Leaked \notin Threads \cup {Nobody}

(* The part of an object's header that later operations depend on.          *)
Summary(o) == IF o = NoObj THEN NoObj
              ELSE [rev |-> o.rev, doc_seq |-> o.doc_seq, deleted |-> o.deleted]

Abs == INSTANCE ObjectStore WITH val <- [k \in Keys |-> Summary(db[k])],
                                 res <- ret

Init ==
    /\ db = [k \in Keys |-> NoObj]
    /\ seqrec = 1
    /\ owner = [p \in Pages |-> Nobody]
    /\ txn = [t \in Threads |-> NoTxn]
    /\ ret = NoObj
    /\ cur = [t \in Threads |-> NoIter]
    /\ crashed = FALSE
    /\ truth = [k \in Keys |-> [body |-> <<>>, hist |-> <<>>]]
    /\ uninit = {}
    /\ owed = [t \in Threads |-> {}]

-----------------------------------------------------------------------------
(* Berkeley DB, as the driver uses it.                                      *)

Idle(t) == ~crashed /\ txn[t] = NoTxn

Unlocked(k) == owner[PageOf[k]] = Nobody

(* Ending a transaction gives back every page lock it holds.                *)
Release(t) == owner' = [p \in Pages |-> IF owner[p] = t THEN Nobody ELSE owner[p]]

(* A call returns.                                                          *)
Return(t, op, k, rev, code, out) ==
    ret' = [thread |-> t, op |-> op, key |-> k, rev |-> rev, code |-> code, out |-> out]

(* seq_db is associated without duplicates, so Berkeley DB refuses to store *)
(* an object whose sequence already indexes another key.                    *)
Indexable(k, s) == \A j \in Keys \ {k} : db[j] # NoObj => db[j].seq # s

-----------------------------------------------------------------------------
(* bdb_la_storage_put                                                       *)

(* Mutant of PutObject: the stored count is decremented.                    *)
PutObjectCountsDown(k, new, del, body) ==
    LET o == [la_storage_create_object(new, body, <<>>) EXCEPT !.deleted = del]
    IN  IF db[k] = NoObj
        THEN [o EXCEPT !.doc_seq = 1]
        ELSE [PutOver(o, db[k], body) EXCEPT !.rev_count = db[k].rev_count - 1]

(* The object that put is about to write under k.                           *)
PutObject(k, new, del, body) ==
    LET o == [la_storage_create_object(new, body, <<>>) EXCEPT !.deleted = del]
    IN  IF db[k] = NoObj
        THEN [o EXCEPT !.doc_seq = 1]
        ELSE PutOver(o, db[k], body)

PutIntent(k, body) ==
    [body |-> body,
     hist |-> IF db[k] = NoObj THEN <<>> ELSE <<db[k].rev>> \o truth[k].hist]

PutStarts(t, k) ==
    /\ Idle(t)
    /\ seqrec <= MaxSeq
    /\ db[k] # NoObj => db[k].doc_seq < MaxDocSeq

(* Mutant of RevMatches: a NULL revision matches any.                       *)
RevMatchesOrNull(k, rev) == db[k] # NoObj => rev \in {NoRev, db[k].rev}

(* The caller's revision is the stored one; a NULL revision never is.       *)
RevMatches(k, rev) == db[k] # NoObj => rev = db[k].rev

(* Another transaction holds the page, the caller's revision is not the     *)
(* stored one, or Berkeley DB fails: the transaction is aborted.            *)
PutRefused(t, k, rev) ==
    /\ PutStarts(t, k)
    /\ \/ ~Unlocked(k) /\ Return(t, "put", k, rev, "CONFLICT", NoObj)
       \/ /\ Unlocked(k) /\ ~RevMatches(k, rev)
          /\ Return(t, "put", k, rev, "CONFLICT", NoObj)
       \/ Return(t, "put", k, rev, "ERROR", NoObj)
    /\ UNCHANGED <<disk, owner, txn, cur, crashed, owed>>

(* Mutant of PutChecked: read without DB_RMW, so that no lock is kept.      *)
PutCheckedWithoutLock(t, k, rev, new, del, body) ==
    /\ PutStarts(t, k)
    /\ Unlocked(k)
    /\ RevMatches(k, rev)
    /\ db[k] # NoObj => db[k].rev_count < MaxRevs
    /\ txn' = [txn EXCEPT ![t] =
                  [op |-> "put", at |-> "seq", key |-> k, rev |-> rev,
                   obj |-> PutObject(k, new, del, body),
                   intent |-> PutIntent(k, body), seqok |-> FALSE]]
    /\ UNCHANGED <<disk, owner, ret, cur, crashed, owed>>

(* The header is read under the write lock, the revision matches, and the   *)
(* new object is laid out.                                                  *)
PutChecked(t, k, rev, new, del, body) ==
    /\ PutStarts(t, k)
    /\ Unlocked(k)
    /\ RevMatches(k, rev)
    /\ db[k] # NoObj => db[k].rev_count < MaxRevs
    /\ owner' = [owner EXCEPT ![PageOf[k]] = t]
    /\ txn' = [txn EXCEPT ![t] =
                  [op |-> "put", at |-> "seq", key |-> k, rev |-> rev,
                   obj |-> PutObject(k, new, del, body),
                   intent |-> PutIntent(k, body), seqok |-> FALSE]]
    /\ UNCHANGED <<disk, ret, cur, crashed, owed>>

(* The stored history is full, so the new object's rev_count stays 0 and    *)
(* the move of rev_count - 1 revisions wraps to almost 2^64 bytes; or       *)
(* realloc returns NULL, which is written through.  The process dies.       *)
PutCrashes(t, k, rev) ==
    /\ PutStarts(t, k)
    /\ Unlocked(k)
    /\ db[k] # NoObj
    /\ RevMatches(k, rev)
    /\ db[k].rev_count >= MaxRevs \/ AllocFails
    /\ crashed' = TRUE
    /\ UNCHANGED <<disk, owner, txn, ret, cur, owed>>

-----------------------------------------------------------------------------
(* bdb_la_storage_replace: no read and no check, only the lock its write    *)
(* will ask for.                                                            *)

ReplaceStarts(t, k, new, n, del, body, revs) ==
    /\ Idle(t)
    /\ seqrec <= MaxSeq
    /\ txn' = [txn EXCEPT ![t] =
                  [op |-> "replace", at |-> "seq", key |-> k, rev |-> NoRev,
                   obj |-> [la_storage_create_object(new, body, revs)
                               EXCEPT !.doc_seq = n, !.deleted = del],
                   intent |-> [body |-> body, hist |-> revs], seqok |-> FALSE]]
    /\ UNCHANGED <<disk, owner, ret, cur, crashed, owed>>

(* txn_begin fails.                                                         *)
ReplaceRefused(t, k) ==
    /\ Idle(t)
    /\ Return(t, "replace", k, NoRev, "ERROR", NoObj)
    /\ UNCHANGED <<disk, owner, txn, cur, crashed, owed>>

-----------------------------------------------------------------------------
(* The tail that put and replace share: seq->get, db->put, commit.          *)

At(t, step) == ~crashed /\ txn[t] # NoTxn /\ txn[t].at = step

(* Mutant of SeqGranted: the number is taken outside the transaction.       *)
SeqGrantedWithoutLock(t) ==
    /\ At(t, "seq")
    /\ owner[SeqPage] \in {Nobody, t}
    /\ txn' = [txn EXCEPT ![t].at = "write", ![t].obj.seq = seqrec, ![t].seqok = TRUE]
    /\ UNCHANGED <<disk, owner, ret, cur, crashed, owed>>

(* seq->get locks the page of the sequence record until the transaction     *)
(* ends; the number is taken for good only by the commit.                   *)
SeqGranted(t) ==
    /\ At(t, "seq")
    /\ owner[SeqPage] \in {Nobody, t}
    /\ owner' = [owner EXCEPT ![SeqPage] = t]
    /\ txn' = [txn EXCEPT ![t].at = "write", ![t].obj.seq = seqrec, ![t].seqok = TRUE]
    /\ UNCHANGED <<disk, ret, cur, crashed, owed>>

(* seq->get fails, because another transaction holds that page or for any   *)
(* other reason: its result is not looked at, and the uninitialised local   *)
(* goes into the header.                                                    *)
SeqRefused(t) ==
    /\ At(t, "seq")
    /\ \E s \in JunkSeqs :
          txn' = [txn EXCEPT ![t].at = "write", ![t].obj.seq = s]
    /\ UNCHANGED <<disk, owner, ret, cur, crashed, owed>>

(* db->put succeeds and the transaction commits.                            *)
WriteCommits(t) ==
    LET x == txn[t] IN
    /\ At(t, "write") /\ x.op # "set_revs"
    /\ owner[PageOf[x.key]] \in {Nobody, t}
    /\ Indexable(x.key, x.obj.seq)
    /\ db' = [db EXCEPT ![x.key] = x.obj]
    /\ seqrec' = IF x.seqok THEN x.obj.seq + 1 ELSE seqrec
    /\ Release(t)
    /\ txn' = [txn EXCEPT ![t] = NoTxn]
    /\ Return(t, x.op, x.key, x.rev, "SUCCESS", Summary(x.obj))
    /\ truth' = [truth EXCEPT ![x.key] = x.intent]
    /\ uninit' = IF x.seqok THEN uninit \ {x.key} ELSE uninit \cup {x.key}
    /\ owed' = IF x.seqok THEN owed ELSE [u \in Threads |-> owed[u] \ {x.key}]
    /\ UNCHANGED <<cur, crashed>>

(* Mutant of WriteFails: the error path forgets txn_abort.                  *)
WriteFailsWithoutAbort(t) ==
    /\ At(t, "write")
    /\ txn' = [txn EXCEPT ![t] = NoTxn]
    /\ Return(t, txn[t].op, txn[t].key, txn[t].rev, "ERROR", NoObj)
    /\ UNCHANGED <<disk, owner, cur, crashed, owed>>

(* db->put fails (a lock refused, a sequence already indexed, an I/O        *)
(* error): the transaction is aborted.                                      *)
WriteFails(t) ==
    /\ At(t, "write")
    /\ Release(t)
    /\ txn' = [txn EXCEPT ![t] = NoTxn]
    /\ Return(t, txn[t].op, txn[t].key, txn[t].rev, "ERROR", NoObj)
    /\ UNCHANGED <<disk, cur, crashed, owed>>

-----------------------------------------------------------------------------
(* bdb_la_storage_set_revs                                                  *)

SetRevsRefused(t, k) ==
    /\ Idle(t)
    /\ \/ ~Unlocked(k) /\ Return(t, "set_revs", k, NoRev, "CONFLICT", NoObj)
       \/ Return(t, "set_revs", k, NoRev, "ERROR", NoObj)
    /\ UNCHANGED <<disk, owner, txn, cur, crashed, owed>>

SetRevsRead(t, k, revs) ==
    /\ Idle(t)
    /\ Unlocked(k)
    /\ db[k] # NoObj
    /\ Len(db[k].revs_data) <= MaxCells
    /\ owner' = [owner EXCEPT ![PageOf[k]] = t]
    /\ LET kept == SubSeq(revs, 1, IF Len(revs) < MaxRevs THEN Len(revs) ELSE MaxRevs)
       IN  txn' = [txn EXCEPT ![t] =
                      [op |-> "set_revs", at |-> "write", key |-> k, rev |-> NoRev,
                       obj |-> [db[k] EXCEPT !.revs_data = SetRevsData(db[k], kept)],
                       intent |-> [truth[k] EXCEPT !.hist = kept], seqok |-> FALSE]]
    /\ UNCHANGED <<disk, ret, cur, crashed, owed>>

(* realloc fails: the call returns without ending its transaction, and the  *)
(* page stays locked by a transaction nobody can reach any more.            *)
SetRevsLeaks(t, k, revs) ==
    /\ Idle(t)
    /\ AllocFails
    /\ Unlocked(k)
    /\ db[k] # NoObj
    /\ Len(revs) > db[k].rev_count /\ MaxRevs > db[k].rev_count
    /\ owner' = [owner EXCEPT ![PageOf[k]] = Leaked]
    /\ Return(t, "set_revs", k, NoRev, "ERROR", NoObj)
    /\ UNCHANGED <<disk, txn, cur, crashed, owed>>

SetRevsCommits(t) ==
    LET x == txn[t] IN
    /\ At(t, "write") /\ x.op = "set_revs"
    /\ db' = [db EXCEPT ![x.key] = x.obj]
    /\ Release(t)
    /\ txn' = [txn EXCEPT ![t] = NoTxn]
    /\ Return(t, "set_revs", x.key, NoRev, "SUCCESS", Summary(x.obj))
    /\ truth' = [truth EXCEPT ![x.key] = x.intent]
    /\ UNCHANGED <<seqrec, uninit, cur, crashed, owed>>

-----------------------------------------------------------------------------
(* txn->commit fails after db->put has succeeded: Berkeley DB undoes the    *)
(* transaction, the macro txn_commit only logs the result, and put, replace *)
(* and set_revs return SUCCESS.                                             *)
CommitFails(t) ==
    LET x == txn[t] IN
    /\ At(t, "write")
    /\ owner[PageOf[x.key]] \in {Nobody, t}
    /\ Indexable(x.key, x.obj.seq)
    /\ Release(t)
    /\ txn' = [txn EXCEPT ![t] = NoTxn]
    /\ Return(t, x.op, x.key, x.rev, "SUCCESS", Summary(x.obj))
    /\ UNCHANGED <<disk, cur, crashed, owed>>

-----------------------------------------------------------------------------
(* Reads: outside any transaction, so they wait for the page lock.          *)

Answers(t, op, k, rev, matches) ==
    /\ Idle(t)
    /\ Unlocked(k)
    /\ \/ /\ db[k] # NoObj /\ matches
          /\ Return(t, op, k, rev, "OK", Summary(db[k]))
       \/ /\ db[k] = NoObj \/ ~matches
          /\ Return(t, op, k, rev, "NOT_FOUND", NoObj)
       \/ Return(t, op, k, rev, "ERROR", NoObj)
    /\ UNCHANGED <<disk, owner, txn, cur, crashed, owed>>

(* bdb_la_storage_get.  When the caller wants the object the value is read  *)
(* into memory of its own, and `rev' is compared with a header that was     *)
(* zeroed and never filled in.                                              *)
Get(t, k, rev, wanted) ==
    Answers(t, "get", k, rev, rev = NoRev \/ (~wanted /\ RevMatches(k, rev)))

(* bdb_la_storage_get_rev *)
GetRev(t, k) == Answers(t, "get_rev", k, NoRev, TRUE)

(* bdb_la_storage_get_all_revs: -1 whether the object is missing or the     *)
(* read failed; otherwise the count and a copy of ObjectRevs.               *)
GetAllRevs(t, k) == Answers(t, "get_all_revs", k, NoRev, TRUE)

(* bdb_la_storage_lastseq: st_current of the sequence, which is the number  *)
(* it hands out next.                                                       *)
lastseq == seqrec

-----------------------------------------------------------------------------
(* The iterator: a cursor on seq_db, which orders the objects by sequence.  *)

After(pos) == {k \in Keys : db[k] # NoObj /\ db[k].seq > pos}

(* With since = 0 the cursor stands before the first entry; otherwise       *)
(* DB_SET must find an entry for exactly that sequence.                     *)
IterOpen(t, since) ==
    LET pos == IF since = 0 THEN -1 ELSE since IN
    /\ Idle(t)
    /\ cur[t] = NoIter
    /\ since > 0 => \E k \in Keys : db[k] # NoObj /\ db[k].seq = since
    /\ cur' = [cur EXCEPT ![t] = pos]
    /\ owed' = [owed EXCEPT ![t] = After(pos) \ uninit]
    /\ UNCHANGED <<disk, owner, txn, ret, crashed>>

(* Mutant of IterNext: an entry that is locked is stepped over.             *)
IterNextSkipsLocked(t, k) ==
    /\ Idle(t)
    /\ cur[t] # NoIter
    /\ k \in After(cur[t])
    /\ \A j \in After(cur[t]) : Unlocked(j) => db[k].seq <= db[j].seq
    /\ Unlocked(k)
    /\ cur' = [cur EXCEPT ![t] = db[k].seq]
    /\ owed' = [owed EXCEPT ![t] = @ \ {k}]
    /\ UNCHANGED <<disk, owner, txn, ret, crashed>>

(* pget(DB_NEXT): the entry with the least sequence above the cursor.  When *)
(* there is none the iterator is at its end and nothing changes.            *)
IterNext(t, k) ==
    /\ Idle(t)
    /\ cur[t] # NoIter
    /\ k \in After(cur[t])
    /\ \A j \in After(cur[t]) : db[k].seq <= db[j].seq
    /\ Unlocked(k)
    /\ cur' = [cur EXCEPT ![t] = db[k].seq]
    /\ owed' = [owed EXCEPT ![t] = @ \ {k}]
    /\ UNCHANGED <<disk, owner, txn, ret, crashed>>

IterClose(t) ==
    /\ Idle(t)
    /\ cur[t] # NoIter
    /\ cur' = [cur EXCEPT ![t] = NoIter]
    /\ owed' = [owed EXCEPT ![t] = {}]
    /\ UNCHANGED <<disk, owner, txn, ret, crashed>>

-----------------------------------------------------------------------------
Put(t, k) ==
    \E rev \in Revs \cup {NoRev} :
        \/ PutRefused(t, k, rev)
        \/ PutCrashes(t, k, rev)
        \/ \E new \in Revs, del \in Deleted, body \in Bodies :
              PutChecked(t, k, rev, new, del, body)

Replace(t, k) ==
    \/ ReplaceRefused(t, k)
    \/ \E new \in Revs, n \in DocSeqs, del \in Deleted, body \in Bodies, revs \in Histories :
          ReplaceStarts(t, k, new, n, del, body, revs)

SetRevs(t, k) ==
    \E revs \in SetRevsArgs :
        SetRevsRefused(t, k) \/ SetRevsRead(t, k, revs) \/ SetRevsLeaks(t, k, revs)

Reads(t, k) ==
    \/ \E rev \in Revs \cup {NoRev}, wanted \in BOOLEAN : Get(t, k, rev, wanted)
    \/ GetRev(t, k)
    \/ GetAllRevs(t, k)

Iterate(t) ==
    \/ \E since \in Sinces : IterOpen(t, since)
    \/ \E k \in Keys : IterNext(t, k)
    \/ IterClose(t)

(* A call that has begun its transaction goes on.                           *)
Continue(t) ==
    \/ SeqGranted(t)
    \/ SeqRefused(t)
    \/ WriteCommits(t)
    \/ WriteFails(t)
    \/ SetRevsCommits(t)
    \/ CommitFails(t)

(* Nothing happens in a dead process.                                       *)
Dead == crashed /\ UNCHANGED vars

Next ==
    \/ \E t \in Threads :
          \/ Continue(t)
          \/ Iterate(t)
          \/ \E k \in Keys : Put(t, k) \/ Replace(t, k) \/ SetRevs(t, k) \/ Reads(t, k)
    \/ Dead

Spec == Init /\ [][Next]_vars

(* Threads are scheduled: a call that has begun does not stay where it is.  *)
FairSpec == Spec /\ \A t \in Threads : WF_vars(Continue(t))

-----------------------------------------------------------------------------
(* Properties.                                                              *)

(* Every variable keeps its type.                                           *)
TypeOK ==
    /\ db \in [Keys -> Objects \cup {NoObj}]
    /\ seqrec \in Nat
    /\ owner \in [Pages -> Threads \cup {Nobody, Leaked}]
    /\ txn \in [Threads -> Txns \cup {NoTxn}]
    /\ cur \in [Threads -> Int \cup {NoIter}]
    /\ crashed \in BOOLEAN
    /\ truth \in [Keys -> Intents]
    /\ uninit \in SUBSET Keys
    /\ owed \in [Threads -> SUBSET Keys]

(* Between the moment put compares the caller's revision with the stored    *)
(* one and its commit, no other thread changes the object: the revision it  *)
(* was compared with is still current, and the document sequence it was     *)
(* given is still the next one.  (put reads with DB_RMW and writes after    *)
(* waiting for the sequence; an update in between would be lost.)           *)
CheckStaysValid ==
    \A t \in Threads : txn[t] # NoTxn =>
        LET x == txn[t] IN
        x.op = "put" =>
            IF db[x.key] = NoObj THEN x.obj.doc_seq = 1
            ELSE /\ x.rev = db[x.key].rev
                 /\ x.obj.doc_seq = db[x.key].doc_seq + 1

(* The parts of the inductive invariant that are not properties themselves. *)

(* put and set_revs hold the page of their key from their read on.          *)
HoldsPage ==
    \A t \in Threads : (txn[t] # NoTxn /\ txn[t].op # "replace") =>
        owner[PageOf[txn[t].key]] = t

(* A transaction that was granted a sequence holds the sequence's page, and *)
(* the number it carries is still the next one to hand out.                 *)
HoldsSeq ==
    \A t \in Threads : (txn[t] # NoTxn /\ txn[t].seqok) =>
        /\ txn[t].at = "write" /\ txn[t].op # "set_revs"
        /\ owner[SeqPage] = t
        /\ txn[t].obj.seq = seqrec

(* set_revs writes back the header it has read.                             *)
SetRevsKeepsHeader ==
    \A t \in Threads : (txn[t] # NoTxn /\ txn[t].op = "set_revs") =>
        /\ txn[t].at = "write"
        /\ db[txn[t].key] # NoObj
        /\ Summary(txn[t].obj) = Summary(db[txn[t].key])
        /\ txn[t].obj.seq = db[txn[t].key].seq

(* replace writes the document sequence that its caller dictated.           *)
ReplaceDictates ==
    \A t \in Threads : (txn[t] # NoTxn /\ txn[t].op = "replace") =>
        txn[t].rev = NoRev /\ txn[t].obj.doc_seq \in DocSeqs

(* Every sequence that was handed out is below what lastseq answers.        *)
SeqBelow == \A k \in Keys \ uninit : db[k] # NoObj => db[k].seq < lastseq

(* No two objects share an entry of the sequence index.                     *)
SeqUnique ==
    \A j, k \in Keys :
        (j # k /\ db[j] # NoObj /\ db[k] # NoObj) => db[j].seq # db[k].seq

(* No iterator is owed an object with an uninitialised sequence.            *)
OwedIsStamped == \A t \in Threads : owed[t] \cap uninit = {}

(* The two steps of the driver that no object store may take: a SUCCESS for *)
(* a transaction that was undone, and a miss of the very revision that the  *)
(* caller names.                                                            *)
BrokenPromise ==
    \E t \in Threads :
        \/ CommitFails(t)
        \/ \E k \in Keys, rev \in Revs : Get(t, k, rev, TRUE)

(* Put, replace, set_revs and the reads are atomic: each takes effect, or   *)
(* fails without effect, at the instant its result is known, as ObjectStore *)
(* has it.  The only steps that are not steps of an object store are the    *)
(* two of BrokenPromise, and they leave what is stored alone, so that every *)
(* other call is answered as if they had not happened.                      *)
Linearizable ==
    /\ Abs!Init
    /\ [][Abs!Next \/ (BrokenPromise /\ UNCHANGED db)]_(Abs!avars)

(* Commits happen in the order of their sequence numbers: a commit that got *)
(* its number from the sequence carries a number above every such number    *)
(* already stored.  (Otherwise a reader of the changes that has seen the    *)
(* higher number would never see the lower one.)                            *)
SeqOrder ==
    [][\A k \in Keys \ uninit' :
          (db'[k] # NoObj /\ (db[k] = NoObj \/ db[k].seq # db'[k].seq)) =>
              \A j \in Keys \ uninit : db[j] # NoObj => db[j].seq < db'[k].seq]_vars

(* An iterator misses nothing: an object that was stored when the iterator  *)
(* was opened, and that has not been returned yet, still lies ahead of the  *)
(* cursor, however often it was updated meanwhile (an update moves the      *)
(* object to the end of the index).  Objects stamped with an uninitialised  *)
(* sequence are the exception.                                              *)
ScanComplete ==
    \A t \in Threads : \A k \in owed[t] : cur[t] # NoIter /\ k \in After(cur[t])

(* The inductive invariant of the driver.                                   *)
IInv == /\ TypeOK
        /\ HoldsPage
        /\ HoldsSeq
        /\ CheckStaysValid
        /\ SetRevsKeepsHeader
        /\ SeqBelow
        /\ SeqUnique
        /\ ScanComplete
        /\ OwedIsStamped

(* revs_data holds the historical revisions, newest first, and then the     *)
(* body (ObjectStore.h, the comment on revs_data).                          *)
LaidOut(o, i) == /\ ObjectRevs(o) = i.hist
                 /\ la_storage_object_get_data(o) = i.body

(* The layout holds for an object that put has updated at most once since   *)
(* it was created or replaced without history: body and history are read    *)
(* back as they were written.                                               *)
FirstUpdateReadable ==
    \A k \in Keys : (db[k] # NoObj /\ Len(truth[k].hist) <= 1) => LaidOut(db[k], truth[k])

(* Its inductive form, for a program that never calls set_revs: objects     *)
(* that are stored and objects that are about to be.                        *)
Tracks(o, i) == /\ o.rev_count = Len(i.hist)
                /\ Len(i.hist) <= 1 => LaidOut(o, i)

LayoutInv == /\ \A k \in Keys : db[k] # NoObj => Tracks(db[k], truth[k])
             /\ \A t \in Threads : txn[t] # NoTxn => Tracks(txn[t].obj, txn[t].intent)

(* Every page is again and again free of its write lock, so a reader that   *)
(* waits for it is not shut out for ever, whatever path each call takes.    *)
(* But for a page whose lock set_revs has left behind for good, on its      *)
(* return after a failed realloc.                                           *)
ReadersGetIn == \A p \in Pages : []<>(owner[p] \in {Nobody, Leaked} \/ crashed)

-----------------------------------------------------------------------------
(* A statement of the repository about the driver that it does not keep.    *)

(* ObjectStore.h:61 "The historical revision list (rev_count *              *)
(* LA_OBJECT_REVISION_LEN) followed by the current object revision data."   *)
AlwaysReadable == \A k \in Keys : db[k] # NoObj => LaidOut(db[k], truth[k])
=============================================================================
