---------------------------- MODULE SqliteStore ----------------------------
(***************************************************************************)
(* The SQLite driver (sqlite-storage/ObjectStore-sqlite.c).  Threads work   *)
(* on connections; two threads may share one (a store handle is opened with *)
(* SQLITE_OPEN_FULLMUTEX, so that each call of the library is atomic and    *)
(* nothing more is).                                                        *)
(*                                                                         *)
(* SQLite is external and modelled from how the driver uses it: a           *)
(* connection has at most one transaction, whichever thread began it; BEGIN *)
(* EXCLUSIVE keeps every other connection out, which is told SQLITE_BUSY at *)
(* once; a statement outside a transaction commits by itself; a SELECT that *)
(* has not been stepped to its end keeps other connections from writing.    *)
(***************************************************************************)
EXTENDS ObjectLayout

CONSTANTS
    Threads, Conns, Keys, Revs,
    DataCells,      \* the cells that document bodies are made of
    Bodies,         \* the document bodies that callers write
    Histories,      \* the revision lists that callers of replace hand over
    DocSeqs,        \* the document sequences that callers of replace dictate
    Connections,    \* the ways in which threads may be given connections
    Readers,        \* bound: the threads that may follow the changes, and then
                    \* no longer write
    Replacers,      \* bound: the threads that also replace
    MaxRevs,        \* LA_OBJECT_MAX_REVISION_COUNT
    RevLen,         \* LA_OBJECT_REVISION_LEN
    MaxSeq,         \* bound: no put or replace starts once meta.seq is this
    NoRev, NoRow, NoTx, NoCall, NoIter, NoMark

ASSUME ConstantsAssumption ==
    /\ Bodies \subseteq Seq(DataCells)
    /\ Histories \subseteq Seq(Revs)
    /\ DocSeqs \subseteq Nat
    /\ Connections \subseteq [Threads -> Conns] /\ Connections # {}
    /\ Readers \subseteq Threads /\ Replacers \subseteq Threads
    /\ MaxRevs \in Nat \ {0} /\ RevLen \in Nat \ {0} /\ MaxSeq \in Nat

VARIABLES
    conn,     \* the connection each thread uses
    docs,     \* the committed table docs
    meta,     \* the committed meta.seq
    tx,       \* each connection's open transaction: who began it, and its tables
    call,     \* each thread's put or replace that is under way
    it,       \* each thread's iterator
    mark,     \* the last answer of lastseq that each thread holds on to (and,
              \* history, whether it was given inside a transaction)
    ret,      \* the last call that returned, its result (and, history, whether its
              \* COMMIT was kept)
    crashed,  \* the process has died
    after     \* history: keys written since each thread's mark was taken

tables == <<docs, meta, after>>
vars   == <<conn, docs, meta, tx, call, it, mark, ret, crashed, after>>

Cells == Revs \cup DataCells \cup {Garbage}

(* A row of docs.  `clean' and `meant' are history: whether the row was put *)
(* inside a transaction that its own call began, and the body and history   *)
(* that the callers meant.                                                  *)
Rows  == [rev : Revs, oldrevs : Seq(Cells), seq : Nat, doc_seq : Nat, doc : Seq(Cells),
          clean : BOOLEAN, meant : [body : Seq(DataCells), hist : Seq(Revs)]]

Txs   == [by : Threads, docs : [Keys -> Rows \cup {NoRow}], meta : Nat]

Calls == [op : {"put", "replace"}, at : {"seq", "check", "write", "commit"}, key : Keys,
          rev : Revs \cup {NoRev}, row : Rows, own : BOOLEAN, old : Rows \cup {NoRow}]

Iters == [since : Nat, seen : SUBSET Keys, active : BOOLEAN]

Marks == [seq : Nat, inside : BOOLEAN]

ASSUME NothingAssumption ==
    /\ NoRow \notin Rows /\ NoTx \notin Txs /\ NoCall \notin Calls
    /\ NoIter \notin Iters /\ NoMark \notin Marks

-----------------------------------------------------------------------------
(* SQLite, as the driver uses it.                                           *)

(* What a statement on connection c sees.                                   *)
View(c) == IF tx[c] = NoTx THEN [docs |-> docs, meta |-> meta]
           ELSE [docs |-> tx[c].docs, meta |-> tx[c].meta]

(* BEGIN EXCLUSIVE TRANSACTION of another connection keeps c out.           *)
LockedOut(c) == \E d \in Conns \ {c} : tx[d] # NoTx

(* A SELECT of another connection that is still being stepped.              *)
ReadElsewhere(c) ==
    \E t \in Threads : conn[t] # c /\ it[t] # NoIter /\ it[t].active

CanRead(c)  == ~LockedOut(c)
CanWrite(c) == ~LockedOut(c) /\ ~ReadElsewhere(c)

(* Mutant of CanBegin: a plain BEGIN, which does not wait for the lock.     *)
CanBeginDeferred(c) == tx[c] = NoTx

(* BEGIN EXCLUSIVE TRANSACTION succeeds.                                    *)
CanBegin(c) == tx[c] = NoTx /\ CanWrite(c)

(* New contents of the database become visible to everybody.                *)
Commit(newdocs, newmeta) ==
    /\ docs' = newdocs
    /\ meta' = newmeta
    /\ after' = [t \in Threads |->
                    IF mark[t] = NoMark THEN {}
                    ELSE after[t] \cup {k \in Keys : newdocs[k] # docs[k]}]

(* ROLLBACK ends the connection's transaction, whoever began it.            *)
Rollback(c) == tx' = [tx EXCEPT ![c] = NoTx]

Idle(t) == ~crashed /\ call[t] = NoCall

At(t, step) == ~crashed /\ call[t] # NoCall /\ call[t].at = step

Return(t, op, code) == ret' = [thread |-> t, op |-> op, code |-> code, kept |-> TRUE]

Init ==
    /\ conn \in Connections
    /\ docs = [k \in Keys |-> NoRow]
    /\ meta = 1                                   \* INSERT OR IGNORE INTO meta
    /\ tx = [c \in Conns |-> NoTx]
    /\ call = [t \in Threads |-> NoCall]
    /\ it = [t \in Threads |-> NoIter]
    /\ mark = [t \in Threads |-> NoMark]
    /\ ret = [thread |-> NoCall, op |-> "open", code |-> "SUCCESS", kept |-> TRUE]
    /\ crashed = FALSE
    /\ after = [t \in Threads |-> {}]

-----------------------------------------------------------------------------
(* sqlite_la_storage_put                                                    *)

(* Mutant of PutCells: the body is not moved up to make room.               *)
PutCellsUnmoved(data, r, old) ==
    LET n      == IF Len(old) < MaxRevs THEN Len(old) + 1 ELSE Len(old)
        grown  == Resize(data, n + Len(data))
        copied == [i \in 1..Len(grown) |->
                      IF i - 1 \in 1..Len(old) /\ i - 1 <= MaxRevs THEN old[i - 1] ELSE grown[i]]
        first  == [copied EXCEPT ![1] = r]
    IN  [oldrevs |-> SubSeq(first, 1, n), doc |-> SubSeq(first, n + 1, Len(first))]

(* What put does to the cells of the new object, which was created without  *)
(* history, over a row with revision r and history `old': the buffer grows, *)
(* the body moves up, the old history is copied behind the first cell and   *)
(* the old revision into it.  A full history does not grow, but all of it   *)
(* is copied, over the first cell of the body.                              *)
PutCells(data, r, old) ==
    LET n      == IF Len(old) < MaxRevs THEN Len(old) + 1 ELSE Len(old)
        grown  == Resize(data, n + Len(data))
        moved  == Memmove(grown, n + 1, 1, Len(data))
        copied == [i \in 1..Len(moved) |->
                      IF i - 1 \in 1..Len(old) /\ i - 1 <= MaxRevs THEN old[i - 1] ELSE moved[i]]
        first  == [copied EXCEPT ![1] = r]
    IN  [oldrevs |-> SubSeq(first, 1, n), doc |-> SubSeq(first, n + 1, Len(first))]

(* Any failure from here on rolls back and is reported.                     *)
Fails(t, code) ==
    /\ Rollback(conn[t])
    /\ call' = [call EXCEPT ![t] = NoCall]
    /\ Return(t, call[t].op, code)
    /\ UNCHANGED <<conn, tables, it, mark, crashed>>

Starts(t) == Idle(t) /\ mark[t] = NoMark /\ it[t] = NoIter /\ View(conn[t]).meta < MaxSeq

(* BEGIN EXCLUSIVE: its result is not looked at.                            *)
PutBegins(t, k, rev, new, body) ==
    /\ Starts(t)
    /\ \E ok \in BOOLEAN :
          /\ ok => CanBegin(conn[t])
          /\ tx' = IF ok THEN [tx EXCEPT ![conn[t]] = [by |-> t, docs |-> docs, meta |-> meta]]
                   ELSE tx
          /\ call' = [call EXCEPT ![t] =
                [op |-> "put", at |-> "seq", key |-> k, rev |-> rev, own |-> ok, old |-> NoRow,
                 row |-> [rev |-> new, oldrevs |-> <<>>, seq |-> 0, doc_seq |-> 0, doc |-> body,
                          clean |-> FALSE, meant |-> [body |-> body, hist |-> <<>>]]]]
    /\ UNCHANGED <<conn, tables, it, mark, ret, crashed>>

(* SELECT seq FROM meta                                                     *)
PutReadsSeq(t) ==
    /\ At(t, "seq") /\ CanRead(conn[t])
    /\ call' = [call EXCEPT ![t].at = "check", ![t].row.seq = View(conn[t]).meta]
    /\ UNCHANGED <<conn, tables, tx, it, mark, ret, crashed>>

(* The first statement cannot be prepared: the call returns and leaves the  *)
(* transaction open.                                                        *)
PutLeavesTransaction(t) ==
    /\ At(t, "seq")
    /\ call' = [call EXCEPT ![t] = NoCall]
    /\ Return(t, "put", "ERROR")
    /\ UNCHANGED <<conn, tables, tx, it, mark, crashed>>

(* SELECT rev, oldrevs, seq, doc_seq: a row needs the caller's revision.    *)
RevMatches(row, rev) == row # NoRow => rev = row.rev

(* The history the caller meant, as far as the properties look at it: up to *)
(* one entry more than a row can hold.                                      *)
MeantHistory(old) ==
    <<old.rev>> \o SubSeq(old.meant.hist, 1,
                          IF Len(old.meant.hist) > MaxRevs THEN MaxRevs ELSE Len(old.meant.hist))

(* The new row with the old one's revision and history.                     *)
Linked(row, old) ==
    LET cells == PutCells(row.doc, old.rev, old.oldrevs)
    IN  [row EXCEPT !.oldrevs = cells.oldrevs, !.doc = cells.doc, !.meant.hist = MeantHistory(old)]

PutChecks(t) ==
    LET x   == call[t]
        old == View(conn[t]).docs[x.key]
    IN
    /\ At(t, "check") /\ CanRead(conn[t])
    /\ RevMatches(old, x.rev)
    /\ call' = [call EXCEPT ![t].at = "write", ![t].rev = NoRev, ![t].old = old, ![t].row =
          IF old = NoRow THEN x.row ELSE Linked(x.row, old)]
    /\ UNCHANGED <<conn, tables, tx, it, mark, ret, crashed>>

PutConflicts(t) ==
    /\ At(t, "check") /\ CanRead(conn[t])
    /\ ~RevMatches(View(conn[t]).docs[call[t].key], call[t].rev)
    /\ Fails(t, "CONFLICT")

(* The statement is refused (SQLITE_BUSY), or memory or the disk fails.     *)
StatementFails(t) ==
    /\ \E step \in {"seq", "check", "write"} : At(t, step)
    /\ Fails(t, "ERROR")

-----------------------------------------------------------------------------
(* sqlite_la_storage_replace: the row is as the caller made it; its         *)
(* sequence is what la_storage_create_object left there, 0.                 *)
ReplaceBegins(t, k, new, n, body, revs) ==
    /\ Starts(t)
    /\ CanBegin(conn[t])
    /\ tx' = [tx EXCEPT ![conn[t]] = [by |-> t, docs |-> docs, meta |-> meta]]
    /\ call' = [call EXCEPT ![t] =
          [op |-> "replace", at |-> "write", key |-> k, rev |-> NoRev, own |-> TRUE, old |-> NoRow,
           row |-> [rev |-> new, oldrevs |-> revs, seq |-> 0, doc_seq |-> n, doc |-> body,
                    clean |-> FALSE, meant |-> [body |-> body, hist |-> revs]]]]
    /\ UNCHANGED <<conn, tables, it, mark, ret, crashed>>

ReplaceRefused(t) ==
    /\ Idle(t)
    /\ Return(t, "replace", "ERROR")
    /\ UNCHANGED <<conn, tables, tx, call, it, mark, crashed>>

-----------------------------------------------------------------------------
(* The tail of put and replace: INSERT OR REPLACE, COMMIT.                  *)

(* Mutant of OnInsert: the trigger was not created.                         *)
NoTrigger(n) == n

(* The trigger oninsert; a replaced row fires no delete trigger.            *)
OnInsert(n) == n + 1

(* Whether the connection's transaction is still the one this call began.   *)
Owns(t) == call[t].own /\ tx[conn[t]] # NoTx /\ tx[conn[t]].by = t

(* A row that is written again is a new row: an iterator of the same        *)
(* connection meets it again.                                               *)
Writes(t) ==
    LET x == call[t]
        c == conn[t]
        newdocs == [View(c).docs EXCEPT ![x.key] =
                       [x.row EXCEPT !.clean = (x.op = "put" /\ Owns(t))]]
        newmeta == OnInsert(View(c).meta)
    IN
    /\ At(t, "write") /\ CanWrite(c)
    /\ call' = [call EXCEPT ![t].at = "commit", ![t].old = NoRow, ![t].row = newdocs[x.key]]
    /\ IF tx[c] = NoTx
       THEN Commit(newdocs, newmeta) /\ UNCHANGED tx
       ELSE /\ tx' = [tx EXCEPT ![c].docs = newdocs, ![c].meta = newmeta]
            /\ UNCHANGED tables
    /\ it' = [u \in Threads |->
                 IF conn[u] = c /\ it[u] # NoIter THEN [it[u] EXCEPT !.seen = @ \ {x.key}]
                 ELSE it[u]]
    /\ UNCHANGED <<conn, mark, ret, crashed>>

(* Mutant of Commits: the transaction is not ended.                         *)
CommitsNothing(t) ==
    /\ At(t, "commit")
    /\ UNCHANGED <<tables, tx>>
    /\ call' = [call EXCEPT ![t] = NoCall]
    /\ Return(t, call[t].op, "SUCCESS")
    /\ UNCHANGED <<conn, it, mark, crashed>>

(* COMMIT ends the connection's transaction, if it has one.                 *)
Commits(t) ==
    LET c == conn[t] IN
    /\ At(t, "commit")
    /\ IF tx[c] = NoTx THEN UNCHANGED tables ELSE Commit(tx[c].docs, tx[c].meta)
    /\ Rollback(c)
    /\ call' = [call EXCEPT ![t] = NoCall]
    /\ Return(t, call[t].op, "SUCCESS")
    /\ UNCHANGED <<conn, it, mark, crashed>>

(* COMMIT fails, with or without rolling back, and its result is not looked *)
(* at: success is reported.                                                 *)
CommitFails(t) ==
    LET c == conn[t] IN
    /\ At(t, "commit") /\ tx[c] # NoTx
    /\ Rollback(c) \/ UNCHANGED tx
    /\ call' = [call EXCEPT ![t] = NoCall]
    /\ ret' = [thread |-> t, op |-> call[t].op, code |-> "SUCCESS", kept |-> FALSE]
    /\ UNCHANGED <<conn, tables, it, mark, crashed>>

-----------------------------------------------------------------------------
(* Reads.                                                                   *)

(* The object that get and the iterator make of a row: the length of the    *)
(* blob in bytes is taken for the number of revisions.                      *)
ReadObject(row) ==
    [seq |-> row.seq, doc_seq |-> row.doc_seq, deleted |-> FALSE, rev |-> row.rev,
     rev_count |-> RevLen * Len(row.oldrevs),
     revs_data |-> Resize(row.oldrevs, RevLen * Len(row.oldrevs)) \o row.doc]

Answers(t, op, found) ==
    /\ Idle(t)
    /\ \/ CanRead(conn[t]) /\ Return(t, op, IF found THEN "OK" ELSE "NOT_FOUND")
       \/ Return(t, op, "ERROR")
    /\ UNCHANGED <<conn, tables, tx, call, it, mark, crashed>>

Get(t, k, rev) ==
    LET row == View(conn[t]).docs[k]
    IN  Answers(t, "get", row # NoRow /\ rev \in {NoRev, row.rev})

GetRev(t, k) == Answers(t, "get_rev", View(conn[t]).docs[k] # NoRow)

(* A statement that cannot be stepped is NOT_FOUND here, also for a row.    *)
GetAllRevs(t, k) ==
    \/ Answers(t, "get_all_revs", View(conn[t]).docs[k] # NoRow)
    \/ /\ Idle(t)
       /\ Return(t, "get_all_revs", "NOT_FOUND")
       /\ UNCHANGED <<conn, tables, tx, call, it, mark, crashed>>

(* get_all_revs copies the history LA_OBJECT_REVISION_LEN elements, not     *)
(* bytes, behind the first: outside the allocation.                         *)
GetAllRevsOverruns(t, k) ==
    LET row == View(conn[t]).docs[k] IN
    /\ Idle(t) /\ CanRead(conn[t])
    /\ row # NoRow /\ row.oldrevs # <<>>
    /\ crashed' = TRUE
    /\ UNCHANGED <<conn, tables, tx, call, it, mark, ret>>

(* lastseq: the number that the next put will take; 0 when it cannot tell.  *)
LastSeq(t) ==
    /\ Idle(t)
    /\ mark' = [mark EXCEPT ![t] =
          [seq |-> IF CanRead(conn[t]) THEN View(conn[t]).meta ELSE 0,
           inside |-> tx[conn[t]] # NoTx]]
    /\ after' = [after EXCEPT ![t] = {}]
    /\ UNCHANGED <<conn, docs, meta, tx, call, it, ret, crashed>>

(* Mutant of InFeed: the comparison is strict.                              *)
InFeedStrictly(row, since) == since = 0 \/ row.seq > since

(* The WHERE clause of an iterator.                                         *)
InFeed(row, since) == since = 0 \/ row.seq >= since

(* Iterators are opened at the mark, or at the beginning.                   *)
IterOpen(t) ==
    /\ Idle(t) /\ it[t] = NoIter
    /\ \E since \in {0} \cup (IF mark[t] = NoMark THEN {} ELSE {mark[t].seq}) :
          it' = [it EXCEPT ![t] = [since |-> since, seen |-> {}, active |-> FALSE]]
    /\ UNCHANGED <<conn, tables, tx, call, mark, ret, crashed>>

(* The rows ahead of t's iterator; SQL promises no order.                   *)
Ahead(t) ==
    LET rows == View(conn[t]).docs
    IN  {k \in Keys : /\ rows[k] # NoRow /\ InFeed(rows[k], it[t].since)
                      /\ k \notin it[t].seen}

IterNext(t, k) ==
    /\ Idle(t) /\ it[t] # NoIter /\ CanRead(conn[t])
    /\ k \in Ahead(t)
    /\ it' = [it EXCEPT ![t].active = TRUE, ![t].seen = @ \cup {k}]
    /\ UNCHANGED <<conn, tables, tx, call, mark, ret, crashed>>

(* The end: the statement lets go of its lock, and the next step of it      *)
(* starts the query again.                                                  *)
IterEnd(t) ==
    /\ Idle(t) /\ it[t] # NoIter /\ CanRead(conn[t])
    /\ Ahead(t) = {} /\ it[t].active
    /\ it' = [it EXCEPT ![t].active = FALSE, ![t].seen = {}]
    /\ UNCHANGED <<conn, tables, tx, call, mark, ret, crashed>>

IterClose(t) ==
    /\ Idle(t) /\ it[t] # NoIter
    /\ it' = [it EXCEPT ![t] = NoIter]
    /\ UNCHANGED <<conn, tables, tx, call, mark, ret, crashed>>

-----------------------------------------------------------------------------
Put(t, k) ==
    \E rev \in Revs \cup {NoRev}, new \in Revs, body \in Bodies :
        PutBegins(t, k, rev, new, body)

Replace(t, k) ==
    /\ t \in Replacers
    /\ \/ \E new \in Revs, n \in DocSeqs, body \in Bodies, revs \in Histories :
             ReplaceBegins(t, k, new, n, body, revs)
       \/ ReplaceRefused(t)

Continue(t) ==
    \/ PutReadsSeq(t) \/ PutLeavesTransaction(t)
    \/ PutChecks(t)   \/ PutConflicts(t)
    \/ StatementFails(t)
    \/ Writes(t)      \/ Commits(t)     \/ CommitFails(t)

Reads(t, k) ==
    \/ \E rev \in Revs \cup {NoRev} : Get(t, k, rev)
    \/ GetRev(t, k)
    \/ GetAllRevs(t, k)
    \/ GetAllRevsOverruns(t, k)

Iterate(t) ==
    /\ t \in Readers
    /\ \/ LastSeq(t)
       \/ IterOpen(t)
       \/ \E k \in Keys : IterNext(t, k)
       \/ IterEnd(t)
       \/ IterClose(t)

Next ==
    \E t \in Threads :
        \/ Continue(t)
        \/ Iterate(t)
        \/ \E k \in Keys : Put(t, k) \/ Replace(t, k) \/ Reads(t, k)

Spec == Init /\ [][Next]_vars

-----------------------------------------------------------------------------
(* Properties.                                                              *)

(* Every variable keeps its type, and at most one connection has the        *)
(* database to itself.                                                      *)
TypeOK ==
    /\ conn \in Connections
    /\ docs \in [Keys -> Rows \cup {NoRow}]
    /\ meta \in Nat
    /\ tx \in [Conns -> Txs \cup {NoTx}]
    /\ call \in [Threads -> Calls \cup {NoCall}]
    /\ it \in [Threads -> Iters \cup {NoIter}]
    /\ mark \in [Threads -> Marks \cup {NoMark}]
    /\ crashed \in BOOLEAN
    /\ after \in [Threads -> SUBSET Keys]
    /\ \A c, d \in Conns : tx[c] # NoTx /\ tx[d] # NoTx => c = d

(* No other thread uses t's connection.                                     *)
Alone(t) == \A u \in Threads \ {t} : conn[u] # conn[t]

(* A put that began its transaction on a connection of its own writes over  *)
(* the row whose revision it compared, and under the sequence that is still *)
(* the next one: no other call can come between its SELECTs and its INSERT. *)
(* (put ignores the result of BEGIN: without a transaction, or on a shared  *)
(* connection, the row may have changed and an update is lost.)             *)
CheckedIsCurrent ==
    \A t \in Threads :
        (At(t, "write") /\ call[t].op = "put" /\ call[t].own /\ Alone(t)) =>
            LET x == call[t] IN
            /\ Owns(t)
            /\ docs[x.key] = x.old /\ View(conn[t]).docs[x.key] = x.old
            /\ meta = x.row.seq

(* The clean rows of a table, each under a sequence of its own below n.     *)
SeqsDistinct(rows, n) ==
    \A j \in Keys : (rows[j] # NoRow /\ rows[j].clean) =>
        /\ rows[j].seq < n
        /\ \A k \in Keys \ {j} :
              (rows[k] # NoRow /\ rows[k].clean) => rows[j].seq # rows[k].seq

(* The update sequence tells apart the documents that were put inside the   *)
(* transactions of their calls, and lies below meta.seq, whatever calls     *)
(* without a transaction, rollbacks by other threads and failed commits do. *)
CleanSeqsDistinct == SeqsDistinct(docs, meta)

(* A reader that asks for lastseq and later goes on from there is shown     *)
(* every document that was put since (lastseq is the next number and the    *)
(* comparison is >=), if it asks outside a transaction: within one, of      *)
(* another thread on a shared connection or left over from a put that       *)
(* failed, lastseq counts rows that may still be rolled back.               *)
MarkCoversLaterPuts ==
    \A t \in Threads : (mark[t] # NoMark /\ ~mark[t].inside) =>
        \A k \in after[t] : docs[k].clean => InFeed(docs[k], mark[t].seq)

(* Body and history are stored as they were written until the history is    *)
(* full: put's moves in one buffer are right below the limit.               *)
StoredAsMeant ==
    \A k \in Keys : (docs[k] # NoRow /\ Len(docs[k].meant.hist) <= MaxRevs) =>
        /\ docs[k].oldrevs = docs[k].meant.hist
        /\ docs[k].doc = docs[k].meant.body
        /\ la_storage_object_get_data(ReadObject(docs[k])) = docs[k].meant.body

(* A put or replace that reports success, on a connection of its own and    *)
(* with a transaction of its own, has committed exactly its row, unless     *)
(* COMMIT itself failed, which nobody looks at.                             *)
SuccessIsCommitted ==
    [][\A t \in Threads :
          (At(t, "commit") /\ call[t].own /\ Alone(t) /\ call'[t] = NoCall
             /\ ret'.code = "SUCCESS" /\ ret'.kept) =>
              /\ docs' = [docs EXCEPT ![call[t].key] = call[t].row]
              /\ meta' > meta
              /\ tx'[conn[t]] = NoTx]_vars

-----------------------------------------------------------------------------
(* What makes these properties inductive.                                   *)

(* A row is as it was meant, in the database, in a transaction and in the   *)
(* hands of a call; put links the history only when it has read the old row.*)
AsMeant(row) ==
    Len(row.meant.hist) <= MaxRevs => row.oldrevs = row.meant.hist /\ row.doc = row.meant.body

RowsAsMeant ==
    /\ \A k \in Keys : docs[k] # NoRow => AsMeant(docs[k])
    /\ \A c \in Conns, k \in Keys :
          (tx[c] # NoTx /\ tx[c].docs[k] # NoRow) => AsMeant(tx[c].docs[k])
    /\ \A t \in Threads : call[t] # NoCall =>
          /\ AsMeant(call[t].row)
          /\ call[t].at \in {"seq", "check"} => call[t].row.meant.hist = <<>> /\ call[t].op = "put"

(* A call that began its transaction on a connection of its own still has   *)
(* it, and what it has read is what is committed, until COMMIT.             *)
OwnUntouched ==
    \A t \in Threads : (call[t] # NoCall /\ call[t].own /\ Alone(t)) =>
        LET x == call[t]
            y == tx[conn[t]]
        IN
        /\ y # NoTx /\ y.by = t
        /\ x.at # "commit" => y.docs = docs /\ y.meta = meta
        /\ (x.op = "put" /\ x.at \in {"check", "write"}) => x.row.seq = meta
        /\ (x.op = "put" /\ x.at = "write") => x.old = docs[x.key]
        /\ x.at = "commit" => y.docs = [docs EXCEPT ![x.key] = x.row] /\ y.meta = meta + 1

(* A put inside its own transaction that has its sequence.                  *)
Numbered(t) ==
    call[t] # NoCall /\ Owns(t) /\ call[t].op = "put" /\ call[t].at \in {"check", "write"}

(* Also the rows inside a transaction have sequences of their own, and the  *)
(* one that its put is about to write comes after all of them: other calls  *)
(* on the connection can only write rows that are not clean.                *)
SeqsInTx ==
    /\ \A c \in Conns : tx[c] # NoTx => SeqsDistinct(tx[c].docs, tx[c].meta)
    /\ \A t \in Threads : Numbered(t) =>
          /\ call[t].row.seq <= tx[conn[t]].meta
          /\ \A k \in Keys : (tx[conn[t]].docs[k] # NoRow /\ tx[conn[t]].docs[k].clean) =>
                tx[conn[t]].docs[k].seq < call[t].row.seq

(* A mark that was given outside a transaction, by a lastseq that could     *)
(* read, when no transaction was open.                                      *)
Usable(t) == mark[t] # NoMark /\ ~mark[t].inside /\ mark[t].seq # 0

(* Everything that is written or about to be written since lies at or above *)
(* the mark.                                                                *)
MarksBelow ==
    \A u \in Threads : Usable(u) =>
        LET n == mark[u].seq IN
        /\ n <= meta
        /\ \A k \in after[u] : docs[k].clean => n <= docs[k].seq
        /\ \A c \in Conns : tx[c] # NoTx =>
              /\ n <= tx[c].meta
              /\ \A k \in Keys : (tx[c].docs[k] # docs[k] /\ tx[c].docs[k].clean) => n <= tx[c].docs[k].seq
        /\ \A t \in Threads : Numbered(t) => n <= call[t].row.seq

SqliteInv ==
    /\ TypeOK /\ RowsAsMeant /\ OwnUntouched
    /\ CleanSeqsDistinct /\ SeqsInTx /\ MarksBelow
=============================================================================
