--------------------------- MODULE BdbStoreProofs ---------------------------
(***************************************************************************)
(* Proofs about the Berkeley DB driver, for every set of threads, keys and  *)
(* revisions, every placement of records on pages and every value that an   *)
(* uninitialised sequence can have.                                         *)
(***************************************************************************)
EXTENDS BdbStore, SequenceTheorems, TLAPS

-----------------------------------------------------------------------------
(* What the buffer operations of ObjectLayout preserve and compute, for     *)
(* every body, revision and history length.                                 *)

(* The buffer that put hands to the store is a sequence of cells, of the    *)
(* size the header announces.                                               *)
LEMMA PutRevsDataType ==
    ASSUME NEW S, Garbage \in S, NEW data \in Seq(S), NEW old \in S, NEW count \in Nat
    PROVE  /\ PutRevsData(data, old, count) \in Seq(S)
           /\ Len(PutRevsData(data, old, count)) = count + 1 + Len(data)
<1> DEFINE grown   == Resize(data, Len(data) + 1)
           moved   == Memmove(grown, 2, 1, Len(data))
           shifted == Memmove(moved, 2, 1, count)
           linked  == [shifted EXCEPT ![1] = old]
<1>1. PutRevsData(data, old, count) = Resize(linked, count + 1 + Len(data))
  BY DEF PutRevsData
<1>2. grown \in Seq(S) /\ Len(grown) = Len(data) + 1
  BY DEF Resize, Cell
<1> HIDE DEF grown
<1>3. moved \in Seq(S) /\ Len(moved) = Len(grown)
  BY <1>2 DEF Memmove, Cell
<1> HIDE DEF moved
<1>4. shifted \in Seq(S) /\ Len(shifted) = Len(moved)
  BY <1>3 DEF Memmove, Cell
<1> HIDE DEF shifted
<1>5. linked \in Seq(S)
  BY <1>2, <1>3, <1>4
<1> HIDE DEF linked
<1> QED BY <1>1, <1>5 DEF Resize, Cell

(* The first update of an object that has no history stores the previous    *)
(* revision followed by the whole body: nothing is overwritten or lost.     *)
THEOREM FirstUpdateLayout ==
    ASSUME NEW S, Garbage \in S, NEW data \in Seq(S), NEW old \in S
    PROVE  PutRevsData(data, old, 0) = <<old>> \o data
<1> DEFINE n       == Len(data)
           grown   == Resize(data, n + 1)
           moved   == Memmove(grown, 2, 1, n)
           shifted == Memmove(moved, 2, 1, 0)
           linked  == [shifted EXCEPT ![1] = old]
           stored  == Resize(linked, 0 + 1 + n)
<1>1. PutRevsData(data, old, 0) = stored
  BY DEF PutRevsData
<1>2. n \in Nat /\ \A i \in 1..n : data[i] \in S
  OBVIOUS
<1>3. /\ grown \in Seq(S) /\ Len(grown) = n + 1
      /\ \A i \in 1..n : grown[i] = data[i]
  <2>1. grown \in Seq(S) /\ Len(grown) = n + 1
    BY DEF Resize, Cell
  <2>2. \A i \in 1..n : grown[i] = data[i]
    BY <1>2 DEF Resize, Cell
  <2> QED BY <2>1, <2>2
<1> HIDE DEF grown
<1>4. /\ moved \in Seq(S) /\ Len(moved) = n + 1
      /\ \A i \in 2..(n + 1) : moved[i] = data[i - 1]
  <2>1. moved \in Seq(S) /\ Len(moved) = n + 1
    BY <1>3 DEF Memmove, Cell
  <2>2. ASSUME NEW i \in 2..(n + 1) PROVE moved[i] = data[i - 1]
    <3>1. /\ i \in 1..Len(grown) /\ i \in 2..(2 + n - 1)
          /\ 1 + i - 2 = i - 1 /\ i - 1 \in 1..Len(grown) /\ i - 1 \in 1..n
      BY <1>2, <1>3
    <3>2. moved[i] = Cell(grown, 1 + i - 2)
      BY <3>1 DEF Memmove
    <3> QED BY <1>3, <3>1, <3>2 DEF Cell
  <2> QED BY <2>1, <2>2
<1> HIDE DEF moved
<1>5. /\ shifted \in Seq(S) /\ Len(shifted) = n + 1
      /\ \A i \in 2..(n + 1) : shifted[i] = data[i - 1]
  BY <1>2, <1>4 DEF Memmove, Cell
<1> HIDE DEF shifted
<1>6. /\ linked \in Seq(S) /\ Len(linked) = n + 1
      /\ linked[1] = old
      /\ \A i \in 2..(n + 1) : linked[i] = data[i - 1]
  BY <1>2, <1>5
<1> HIDE DEF linked
<1>7. stored = [i \in 1..(n + 1) |-> IF i = 1 THEN old ELSE data[i - 1]]
  BY <1>2, <1>6 DEF Resize, Cell
<1>8. <<old>> \o data = [i \in 1..(n + 1) |-> IF i = 1 THEN old ELSE data[i - 1]]
  BY <1>2
<1> QED BY <1>1, <1>7, <1>8

(* set_revs stores a sequence of cells.                                     *)
LEMMA SetRevsDataType ==
    ASSUME NEW S, Garbage \in S, NEW o,
           o.rev_count \in Nat, o.revs_data \in Seq(S), NEW revs \in Seq(S)
    PROVE  SetRevsData(o, revs) \in Seq(S)
<1>1. CASE Len(revs) - o.rev_count = 0
  <2>1. la_storage_object_get_data(o) \in Seq(S)
    BY DEF la_storage_object_get_data
  <2> QED BY <1>1, <2>1 DEF SetRevsData
<1>2. CASE Len(revs) - o.rev_count # 0
  <2> DEFINE more == IF Len(revs) - o.rev_count > 0 THEN 1 ELSE 0
             size == Len(o.revs_data) + more
             cell(i) == IF i <= Len(revs) THEN revs[i]
                        ELSE IF i < o.rev_count THEN o.revs_data[i] ELSE Garbage
  <2>1. SetRevsData(o, revs) = [i \in 1..size |-> cell(i)]
    BY <1>2 DEF SetRevsData
  <2>2. /\ Len(o.revs_data) \in Nat /\ Len(revs) \in Nat /\ more \in Nat
        /\ Len(revs) <= o.rev_count => more = 0
    OBVIOUS
  <2> HIDE DEF more
  <2>3. size \in Nat
    BY <2>2
  <2>4. ASSUME NEW i \in 1..size PROVE cell(i) \in S
    <3>1. CASE i <= Len(revs)
      BY <2>2, <2>3, <3>1
    <3>2. CASE ~(i <= Len(revs)) /\ i < o.rev_count
      <4>1. i \in 1..Len(o.revs_data)
        BY <2>2, <2>3, <3>2
      <4> QED BY <3>2, <4>1
    <3>3. CASE ~(i <= Len(revs)) /\ ~(i < o.rev_count)
      BY <3>3
    <3> QED BY <3>1, <3>2, <3>3
  <2> HIDE DEF size, cell
  <2> QED BY <2>1, <2>3, <2>4
<1> QED BY <1>1, <1>2

-----------------------------------------------------------------------------
(* Types of what the calls put together.                                    *)

LEMMA CreatedIsObject ==
    ASSUME NEW rev \in Revs, NEW body \in Seq(DataCells), NEW revs \in Seq(Revs)
    PROVE  la_storage_create_object(rev, body, revs) \in Objects
<1>1. revs \o body \in Seq(Cells) /\ Len(revs) \in Nat
  <2>1. revs \in Seq(Cells) /\ body \in Seq(Cells)
    BY DEF Cells
  <2> QED BY <2>1
<1> QED BY <1>1 DEF la_storage_create_object, Objects

(* Updating fields of an object gives an object.                            *)
LEMMA ObjectUpdate ==
    ASSUME NEW o \in Objects, NEW n \in Nat, NEW c \in Nat, NEW cells \in Seq(Cells)
    PROVE  [o EXCEPT !.doc_seq = n, !.rev_count = c, !.revs_data = cells] \in Objects
BY DEF Objects

LEMMA PutObjectIsObject ==
    ASSUME TypeOK, NEW k \in Keys, NEW new \in Revs, NEW del \in Deleted, NEW body \in Bodies
    PROVE  /\ PutObject(k, new, del, body) \in Objects
           /\ PutIntent(k, body) \in Intents
<1>1. /\ body \in Seq(DataCells) /\ body \in Seq(Cells) /\ del \in BOOLEAN
      /\ <<>> \in Seq(Revs) /\ Garbage \in Cells
  BY ConstantsAssumption DEF Cells
<1>2. la_storage_create_object(new, body, <<>>) \in Objects
  BY <1>1, CreatedIsObject
<1>3. CASE db[k] = NoObj
  BY <1>1, <1>2, <1>3 DEF PutObject, PutIntent, Objects, Intents
<1>4. CASE db[k] # NoObj
  <2>1. /\ db[k] \in Objects /\ db[k].rev \in Revs /\ db[k].rev \in Cells
        /\ db[k].doc_seq \in Nat /\ db[k].rev_count \in Nat
    BY <1>4 DEF TypeOK, Objects, Cells
  <2>2. PutRevsData(body, db[k].rev, db[k].rev_count) \in Seq(Cells)
    BY <1>1, <2>1, PutRevsDataType, Zenon
  <2>3. PutObject(k, new, del, body) \in Objects
    <3> DEFINE created == la_storage_create_object(new, body, <<>>)
               marked  == [created EXCEPT !.deleted = del]
               laid    == [marked EXCEPT
                              !.doc_seq = db[k].doc_seq + 1,
                              !.rev_count = db[k].rev_count + 1,
                              !.revs_data = PutRevsData(body, db[k].rev, db[k].rev_count)]
    <3>1. PutObject(k, new, del, body) = laid
      BY <1>4 DEF PutObject, PutOver
    <3>2. created \in Objects
      BY <1>2
    <3> HIDE DEF created
    <3>3. marked \in Objects
      BY <1>1, <3>2 DEF Objects
    <3> HIDE DEF marked
    <3>4. laid \in Objects
      <4>1. db[k].doc_seq + 1 \in Nat /\ db[k].rev_count + 1 \in Nat
        BY <2>1
      <4> QED BY <2>2, <3>3, <4>1, ObjectUpdate, Zenon
    <3> QED BY <3>1, <3>4
  <2>4. truth[k].hist \in Seq(Revs)
    BY DEF TypeOK, Intents
  <2>5. <<db[k].rev>> \o truth[k].hist \in Seq(Revs)
    BY <2>1, <2>4
  <2> QED BY <1>1, <1>4, <2>3, <2>5 DEF PutIntent, Intents
<1> QED BY <1>3, <1>4

-----------------------------------------------------------------------------
(* The initial state satisfies the invariant.                               *)
LEMMA InitIInv == Init => IInv
<1> SUFFICES ASSUME Init PROVE IInv
  OBVIOUS
<1>1. TypeOK
  <2>1. [body |-> <<>>, hist |-> <<>>] \in Intents
    BY DEF Intents
  <2> QED BY <2>1 DEF Init, TypeOK
<1> QED BY <1>1 DEF Init, IInv, HoldsPage, HoldsSeq, CheckStaysValid, SetRevsKeepsHeader,
              SeqBelow, lastseq, SeqUnique, ScanComplete, OwedIsStamped

(* A step that changes nothing but results and the fate of the process.     *)
LEMMA FrameIInv ==
    ASSUME IInv, UNCHANGED <<disk, owner, txn, cur, owed>>, crashed' \in BOOLEAN
    PROVE  IInv'
BY DEF IInv, disk, TypeOK, HoldsPage, HoldsSeq, CheckStaysValid, SetRevsKeepsHeader,
       SeqBelow, lastseq, SeqUnique, ScanComplete, OwedIsStamped, After, Summary

(* Every record is on a page.                                              *)
LEMMA PageOfType == PageOf \in [Keys -> Pages]
BY ConstantsAssumption

(* So is the sequence's, and no thread is nobody.                          *)
LEMMA PagesKnown ==
    /\ SeqPage \in Pages /\ Nobody \notin Threads
    /\ \A k \in Keys : PageOf[k] \in Pages
<1>1. SeqPage \in Pages /\ Nobody \notin Threads
  BY ConstantsAssumption, SentinelsAssumption, Zenon
<1> QED BY <1>1, PageOfType

(* put has read the header under the lock, and the revision matched.        *)
LEMMA PutCheckedIInv ==
    ASSUME IInv, NEW t \in Threads, NEW k \in Keys, NEW rev \in Revs \cup {NoRev},
           NEW new \in Revs, NEW del \in Deleted, NEW body \in Bodies,
           PutChecked(t, k, rev, new, del, body)
    PROVE  IInv'
<1> DEFINE x == [op |-> "put", at |-> "seq", key |-> k, rev |-> rev,
                 obj |-> PutObject(k, new, del, body),
                 intent |-> PutIntent(k, body), seqok |-> FALSE]
<1> USE DEF IInv
<1>1. /\ txn' = [txn EXCEPT ![t] = x]
      /\ owner' = [owner EXCEPT ![PageOf[k]] = t]
      /\ owner[PageOf[k]] = Nobody /\ txn[t] = NoTxn
      /\ RevMatches(k, rev)
      /\ UNCHANGED <<db, seqrec, cur, crashed, truth, uninit, owed>>
  BY DEF PutChecked, PutStarts, Idle, Unlocked, disk
<1>2. x \in Txns /\ x # NoTxn
  <2>1. PutObject(k, new, del, body) \in Objects /\ PutIntent(k, body) \in Intents
    BY PutObjectIsObject
  <2>2. x \in Txns
    BY <2>1 DEF Txns
  <2> QED BY <2>2, SentinelsAssumption
<1>3. IF db[k] = NoObj THEN x.obj.doc_seq = 1
      ELSE x.rev = db[k].rev /\ x.obj.doc_seq = db[k].doc_seq + 1
  BY <1>1 DEF RevMatches, PutObject, PutOver, la_storage_create_object
<1>4. x.op = "put" /\ x.key = k /\ ~x.seqok
  OBVIOUS
<1> HIDE DEF x
<1>5. PageOf[k] \in Pages /\ SeqPage \in Pages /\ Nobody \notin Threads
  BY PagesKnown
<1>6. TypeOK'
  BY <1>1, <1>2, <1>5 DEF TypeOK
<1>7. HoldsPage'
  <2> SUFFICES ASSUME NEW u \in Threads, txn'[u] # NoTxn, txn'[u].op # "replace"
               PROVE  owner'[PageOf[txn'[u].key]] = u
    BY DEF HoldsPage
  <2>1. CASE u = t
    BY <1>1, <1>2, <1>4, <1>5, <2>1 DEF TypeOK
  <2>2. CASE u # t
    <3>1. txn'[u] = txn[u] /\ txn[u].key \in Keys
      BY <1>1, <2>2 DEF TypeOK, Txns
    <3> QED BY <1>1, <1>5, <2>2, <3>1, PageOfType DEF TypeOK, HoldsPage
  <2> QED BY <2>1, <2>2
<1>8. HoldsSeq'
  BY <1>1, <1>2, <1>4, <1>5 DEF TypeOK, HoldsSeq
<1>9. CheckStaysValid'
  BY <1>1, <1>2, <1>3, <1>4 DEF TypeOK, CheckStaysValid
<1>10. SetRevsKeepsHeader'
  BY <1>1, <1>2, <1>4 DEF TypeOK, SetRevsKeepsHeader
<1>11. SeqBelow' /\ SeqUnique' /\ ScanComplete' /\ OwedIsStamped'
  BY <1>1 DEF SeqBelow, lastseq, SeqUnique, ScanComplete, OwedIsStamped, After
<1> QED BY <1>6, <1>7, <1>8, <1>9, <1>10, <1>11

(* replace has begun; it holds no lock yet.                                 *)
LEMMA ReplaceStartsIInv ==
    ASSUME IInv, NEW t \in Threads, NEW k \in Keys, NEW new \in Revs, NEW n \in DocSeqs,
           NEW del \in Deleted, NEW body \in Bodies, NEW revs \in Histories,
           ReplaceStarts(t, k, new, n, del, body, revs)
    PROVE  IInv'
<1> DEFINE created == la_storage_create_object(new, body, revs)
           obj == [created EXCEPT !.doc_seq = n, !.deleted = del]
           x == [op |-> "replace", at |-> "seq", key |-> k, rev |-> NoRev, obj |-> obj,
                 intent |-> [body |-> body, hist |-> revs], seqok |-> FALSE]
<1> USE DEF IInv
<1>1. /\ txn' = [txn EXCEPT ![t] = x] /\ txn[t] = NoTxn
      /\ UNCHANGED <<db, seqrec, owner, cur, crashed, truth, uninit, owed>>
  BY DEF ReplaceStarts, Idle, disk
<1>2. /\ body \in Seq(DataCells) /\ revs \in Seq(Revs)
      /\ n \in Nat /\ del \in BOOLEAN
  BY ConstantsAssumption
<1>3. created \in Objects
  BY <1>2, CreatedIsObject
<1> HIDE DEF created
<1>4. obj \in Objects
  BY <1>2, <1>3 DEF Objects
<1> HIDE DEF obj
<1>5. x \in Txns /\ x # NoTxn
  <2>1. x \in Txns
    BY <1>2, <1>4 DEF Txns, Intents
  <2> QED BY <2>1, SentinelsAssumption
<1>6. x.op = "replace" /\ ~x.seqok
  OBVIOUS
<1> HIDE DEF x
<1>7. TypeOK'
  BY <1>1, <1>5 DEF TypeOK
<1>8. HoldsPage' /\ HoldsSeq'
  BY <1>1, <1>5, <1>6 DEF TypeOK, HoldsPage, HoldsSeq
<1>9. CheckStaysValid' /\ SetRevsKeepsHeader'
  BY <1>1, <1>5, <1>6 DEF TypeOK, CheckStaysValid, SetRevsKeepsHeader
<1>10. SeqBelow' /\ SeqUnique' /\ ScanComplete' /\ OwedIsStamped'
  BY <1>1 DEF SeqBelow, lastseq, SeqUnique, ScanComplete, OwedIsStamped, After
<1> QED BY <1>7, <1>8, <1>9, <1>10

(* seq->get was granted: the transaction carries the committed counter.     *)
LEMMA SeqGrantedIInv ==
    ASSUME IInv, NEW t \in Threads, SeqGranted(t)
    PROVE  IInv'
<1> DEFINE x == [txn[t] EXCEPT !.at = "write", !.obj.seq = seqrec, !.seqok = TRUE]
<1> USE DEF IInv
<1>1. /\ txn' = [txn EXCEPT ![t] = x] /\ txn[t] # NoTxn /\ txn[t].at = "seq"
      /\ owner[SeqPage] \in {Nobody, t}
      /\ owner' = [owner EXCEPT ![SeqPage] = t]
      /\ UNCHANGED <<db, seqrec, cur, crashed, truth, uninit, owed>>
  BY DEF SeqGranted, At, disk
<1>2. txn[t] \in Txns /\ seqrec \in Nat
  BY <1>1 DEF TypeOK
<1>3. /\ x \in Txns /\ x # NoTxn
      /\ x.op = txn[t].op /\ x.key = txn[t].key /\ x.rev = txn[t].rev
      /\ x.obj.doc_seq = txn[t].obj.doc_seq
      /\ x.obj.seq = seqrec /\ x.at = "write"
  <2>1. x \in Txns
    BY <1>2 DEF Txns, Objects
  <2> QED BY <1>2, <2>1, SentinelsAssumption DEF Txns, Objects
<1>4. txn[t].op # "set_revs"
  BY <1>1 DEF SetRevsKeepsHeader
<1> HIDE DEF x
<1>5. SeqPage \in Pages /\ Nobody \notin Threads /\ \A k \in Keys : PageOf[k] \in Pages
  BY PagesKnown
<1>6. TypeOK'
  BY <1>1, <1>3, <1>5 DEF TypeOK
<1>7. HoldsPage'
  BY <1>1, <1>3, <1>5 DEF TypeOK, HoldsPage, Txns
<1>8. HoldsSeq'
  BY <1>1, <1>3, <1>4, <1>5 DEF TypeOK, HoldsSeq
<1>9. CheckStaysValid'
  BY <1>1, <1>3 DEF TypeOK, CheckStaysValid
<1>10. SetRevsKeepsHeader'
  BY <1>1, <1>3, <1>4 DEF TypeOK, SetRevsKeepsHeader
<1>11. SeqBelow' /\ SeqUnique' /\ ScanComplete' /\ OwedIsStamped'
  BY <1>1 DEF SeqBelow, lastseq, SeqUnique, ScanComplete, OwedIsStamped, After
<1> QED BY <1>6, <1>7, <1>8, <1>9, <1>10, <1>11

(* seq->get was refused: the transaction carries junk.                      *)
LEMMA SeqRefusedIInv ==
    ASSUME IInv, NEW t \in Threads, SeqRefused(t)
    PROVE  IInv'
<1> USE DEF IInv
<1>1. PICK s \in JunkSeqs : txn' = [txn EXCEPT ![t].at = "write", ![t].obj.seq = s]
  BY DEF SeqRefused
<1> DEFINE x == [txn[t] EXCEPT !.at = "write", !.obj.seq = s]
<1>2. /\ txn' = [txn EXCEPT ![t] = x] /\ txn[t] # NoTxn /\ txn[t].at = "seq"
      /\ UNCHANGED <<db, seqrec, owner, cur, crashed, truth, uninit, owed>>
  BY <1>1 DEF SeqRefused, At, disk
<1>3. txn[t] \in Txns /\ s \in Nat
  <2>1. JunkSeqs \subseteq Nat
    BY ConstantsAssumption, Zenon
  <2> QED BY <1>2, <2>1 DEF TypeOK
<1>4. /\ x \in Txns /\ x # NoTxn
      /\ x.op = txn[t].op /\ x.key = txn[t].key /\ x.rev = txn[t].rev
      /\ x.obj.doc_seq = txn[t].obj.doc_seq /\ x.seqok = txn[t].seqok
  <2>1. x \in Txns
    BY <1>3 DEF Txns, Objects
  <2> QED BY <1>3, <2>1, SentinelsAssumption DEF Txns, Objects
<1>5. txn[t].op # "set_revs" /\ ~txn[t].seqok
  BY <1>2 DEF SetRevsKeepsHeader, HoldsSeq
<1> HIDE DEF x
<1>6. TypeOK'
  BY <1>2, <1>4 DEF TypeOK
<1>7. HoldsPage' /\ HoldsSeq'
  BY <1>2, <1>4, <1>5 DEF TypeOK, HoldsPage, HoldsSeq
<1>8. CheckStaysValid' /\ SetRevsKeepsHeader'
  BY <1>2, <1>4, <1>5 DEF TypeOK, CheckStaysValid, SetRevsKeepsHeader
<1>9. SeqBelow' /\ SeqUnique' /\ ScanComplete' /\ OwedIsStamped'
  BY <1>2 DEF SeqBelow, lastseq, SeqUnique, ScanComplete, OwedIsStamped, After
<1> QED BY <1>6, <1>7, <1>8, <1>9

(* put and replace commit.  Another transaction that has read the same      *)
(* object would hold its page, and one that was granted a sequence would    *)
(* hold the page of the sequence, so the commit disturbs neither.           *)
LEMMA WriteCommitsIInv ==
    ASSUME IInv, NEW t \in Threads, WriteCommits(t)
    PROVE  IInv'
<1> DEFINE x == txn[t]
<1> USE DEF IInv
<1>1. /\ x # NoTxn /\ x.at = "write" /\ x.op # "set_revs"
      /\ owner[PageOf[x.key]] \in {Nobody, t}
      /\ \A j \in Keys \ {x.key} : db[j] # NoObj => db[j].seq # x.obj.seq
      /\ db' = [db EXCEPT ![x.key] = x.obj]
      /\ seqrec' = IF x.seqok THEN x.obj.seq + 1 ELSE seqrec
      /\ owner' = [p \in Pages |-> IF owner[p] = t THEN Nobody ELSE owner[p]]
      /\ txn' = [txn EXCEPT ![t] = NoTxn]
      /\ truth' = [truth EXCEPT ![x.key] = x.intent]
      /\ uninit' = IF x.seqok THEN uninit \ {x.key} ELSE uninit \cup {x.key}
      /\ owed' = IF x.seqok THEN owed ELSE [u \in Threads |-> owed[u] \ {x.key}]
      /\ UNCHANGED <<cur, crashed>>
  BY DEF WriteCommits, At, Release, Indexable
<1>2. /\ x \in Txns /\ x.key \in Keys /\ x.obj \in Objects /\ x.intent \in Intents
      /\ x.seqok \in BOOLEAN /\ x.obj.seq \in Nat /\ x.obj # NoObj
  BY <1>1, SentinelsAssumption DEF TypeOK, Txns, Objects
<1>3. x.seqok => owner[SeqPage] = t /\ x.obj.seq = seqrec
  BY <1>1 DEF HoldsSeq
<1>4. ASSUME NEW u \in Threads, txn'[u] # NoTxn
      PROVE  u # t /\ txn'[u] = txn[u] /\ txn[u] # NoTxn /\ txn[u] \in Txns
  BY <1>1, <1>4 DEF TypeOK
<1>5. SeqPage \in Pages /\ Nobody \notin Threads /\ \A k \in Keys : PageOf[k] \in Pages
  BY PagesKnown
<1>6. ASSUME NEW u \in Threads, u # t, txn[u] # NoTxn, txn[u].op # "replace"
      PROVE  txn[u].key \in Keys /\ txn[u].key # x.key
  <2>1. owner[PageOf[txn[u].key]] = u
    BY <1>6 DEF HoldsPage
  <2> QED BY <1>1, <1>5, <1>6, <2>1 DEF TypeOK, Txns
<1> HIDE DEF x
<1>7. TypeOK'
  BY <1>1, <1>2, <1>5 DEF TypeOK
<1>8. HoldsPage'
  BY <1>1, <1>4, <1>5 DEF HoldsPage, Txns
<1>9. HoldsSeq'
  BY <1>1, <1>3, <1>4, <1>5 DEF HoldsSeq
<1>10. CheckStaysValid'
  BY <1>1, <1>2, <1>4, <1>6 DEF TypeOK, CheckStaysValid
<1>11. SetRevsKeepsHeader'
  BY <1>1, <1>2, <1>4, <1>6 DEF TypeOK, SetRevsKeepsHeader
<1>12. SeqBelow'
  <2> SUFFICES ASSUME NEW k \in Keys, k \notin uninit', db'[k] # NoObj
               PROVE  db'[k].seq < seqrec'
    BY DEF SeqBelow, lastseq
  <2>1. CASE k = x.key
    BY <1>1, <1>2, <2>1 DEF TypeOK
  <2>2. CASE k # x.key
    BY <1>1, <1>2, <1>3, <2>2 DEF TypeOK, SeqBelow, lastseq, Objects
  <2> QED BY <2>1, <2>2
<1>13. ScanComplete'
  <2> SUFFICES ASSUME NEW u \in Threads, NEW k \in Keys, k \in owed'[u]
               PROVE  cur[u] # NoIter /\ db'[k] # NoObj /\ db'[k].seq > cur[u]
    BY <1>1, <1>7 DEF TypeOK, ScanComplete, After
  <2>1. /\ k \in owed[u] /\ cur[u] # NoIter /\ cur[u] \in Int
        /\ db[k] # NoObj /\ db[k].seq > cur[u] /\ db[k] \in Objects
    BY <1>1, <1>2 DEF TypeOK, ScanComplete, After
  <2>2. CASE k # x.key
    BY <1>1, <2>1, <2>2 DEF TypeOK
  <2>3. CASE k = x.key
    <3>1. x.seqok /\ k \notin uninit
      BY <1>1, <1>2, <2>1, <2>3 DEF OwedIsStamped
    <3>2. db[k].seq < seqrec
      BY <2>1, <3>1 DEF SeqBelow, lastseq
    <3>3. db'[k] = x.obj
      BY <1>1, <2>3 DEF TypeOK
    <3> QED BY <1>2, <1>3, <2>1, <3>1, <3>2, <3>3 DEF TypeOK, Objects
  <2> QED BY <2>2, <2>3
<1>14. OwedIsStamped'
  BY <1>1, <1>2 DEF OwedIsStamped
<1>15. SeqUnique'
  BY <1>1, <1>2 DEF TypeOK, SeqUnique
<1> QED BY <1>7, <1>8, <1>9, <1>10, <1>11, <1>12, <1>13, <1>14, <1>15

(* db->put or the commit failed and the transaction is undone.              *)
LEMMA WriteFailsIInv ==
    ASSUME IInv, NEW t \in Threads, WriteFails(t) \/ CommitFails(t)
    PROVE  IInv'
<1> USE DEF IInv
<1>1. /\ owner' = [p \in Pages |-> IF owner[p] = t THEN Nobody ELSE owner[p]]
      /\ txn' = [txn EXCEPT ![t] = NoTxn]
      /\ UNCHANGED <<db, seqrec, cur, crashed, truth, uninit, owed>>
  BY DEF WriteFails, CommitFails, Release, disk
<1>2. ASSUME NEW u \in Threads, txn'[u] # NoTxn
      PROVE  u # t /\ txn'[u] = txn[u] /\ txn[u] # NoTxn /\ txn[u] \in Txns
  BY <1>1, <1>2 DEF TypeOK
<1>3. SeqPage \in Pages /\ \A k \in Keys : PageOf[k] \in Pages
  BY PagesKnown
<1>4. TypeOK'
  BY <1>1 DEF TypeOK
<1>5. HoldsPage' /\ HoldsSeq'
  BY <1>1, <1>2, <1>3 DEF HoldsPage, HoldsSeq, Txns
<1>6. CheckStaysValid' /\ SetRevsKeepsHeader'
  BY <1>1, <1>2 DEF CheckStaysValid, SetRevsKeepsHeader, Summary
<1>7. SeqBelow' /\ SeqUnique' /\ ScanComplete' /\ OwedIsStamped'
  BY <1>1 DEF SeqBelow, lastseq, SeqUnique, ScanComplete, OwedIsStamped, After
<1> QED BY <1>4, <1>5, <1>6, <1>7

(* set_revs has read the object under the lock and rearranged its copy.     *)
LEMMA SetRevsReadIInv ==
    ASSUME IInv, NEW t \in Threads, NEW k \in Keys, NEW revs \in SetRevsArgs,
           SetRevsRead(t, k, revs)
    PROVE  IInv'
<1> DEFINE kept  == SubSeq(revs, 1, IF Len(revs) < MaxRevs THEN Len(revs) ELSE MaxRevs)
           cells == SetRevsData(db[k], kept)
           obj   == [db[k] EXCEPT !.revs_data = cells]
           goal  == [truth[k] EXCEPT !.hist = kept]
           x == [op |-> "set_revs", at |-> "write", key |-> k, rev |-> NoRev,
                 obj |-> obj, intent |-> goal, seqok |-> FALSE]
<1> USE DEF IInv
<1>1. /\ txn' = [txn EXCEPT ![t] = x] /\ txn[t] = NoTxn
      /\ owner' = [owner EXCEPT ![PageOf[k]] = t]
      /\ owner[PageOf[k]] = Nobody /\ db[k] # NoObj
      /\ UNCHANGED <<db, seqrec, cur, crashed, truth, uninit, owed>>
  BY DEF SetRevsRead, Idle, Unlocked, disk
<1>2. kept \in Seq(Revs) /\ kept \in Seq(Cells) /\ Garbage \in Cells
  <2>1. revs \in Seq(Revs) /\ MaxRevs \in Nat
    BY ConstantsAssumption
  <2>2. kept \in Seq(Revs)
    BY <2>1
  <2> HIDE DEF kept
  <2> QED BY <2>2 DEF Cells
<1> HIDE DEF kept
<1>3. db[k] \in Objects /\ db[k].rev_count \in Nat /\ db[k].revs_data \in Seq(Cells)
  BY <1>1 DEF TypeOK, Objects
<1>4. cells \in Seq(Cells)
  BY <1>2, <1>3, SetRevsDataType, Zenon
<1> HIDE DEF cells
<1>5. /\ obj \in Objects
      /\ obj.rev = db[k].rev /\ obj.doc_seq = db[k].doc_seq
      /\ obj.deleted = db[k].deleted /\ obj.seq = db[k].seq
  BY <1>3, <1>4 DEF Objects
<1>6. goal \in Intents
  BY <1>2 DEF TypeOK, Intents
<1> HIDE DEF obj, goal
<1>7. Summary(obj) = Summary(db[k])
  BY <1>1, <1>5, SentinelsAssumption DEF Summary
<1>8. x \in Txns /\ x # NoTxn
  <2>1. x \in Txns
    BY <1>5, <1>6 DEF Txns
  <2> QED BY <2>1, SentinelsAssumption
<1>9. x.op = "set_revs" /\ x.at = "write" /\ x.key = k /\ x.obj = obj /\ ~x.seqok
  OBVIOUS
<1> HIDE DEF x
<1>10. PageOf[k] \in Pages /\ SeqPage \in Pages /\ Nobody \notin Threads
  BY PagesKnown
<1>11. TypeOK'
  BY <1>1, <1>8, <1>10 DEF TypeOK
<1>12. HoldsPage'
  <2> SUFFICES ASSUME NEW u \in Threads, txn'[u] # NoTxn, txn'[u].op # "replace"
               PROVE  owner'[PageOf[txn'[u].key]] = u
    BY DEF HoldsPage
  <2>1. CASE u = t
    BY <1>1, <1>8, <1>9, <1>10, <2>1 DEF TypeOK
  <2>2. CASE u # t
    <3>1. txn'[u] = txn[u] /\ txn[u].key \in Keys
      BY <1>1, <2>2 DEF TypeOK, Txns
    <3> QED BY <1>1, <1>10, <2>2, <3>1, PageOfType DEF TypeOK, HoldsPage
  <2> QED BY <2>1, <2>2
<1>13. HoldsSeq'
  BY <1>1, <1>8, <1>9, <1>10 DEF TypeOK, HoldsSeq
<1>14. CheckStaysValid'
  BY <1>1, <1>8, <1>9 DEF TypeOK, CheckStaysValid
<1>15. SetRevsKeepsHeader'
  <2> SUFFICES ASSUME NEW u \in Threads, txn'[u] # NoTxn, txn'[u].op = "set_revs"
               PROVE  /\ txn'[u].at = "write" /\ db[txn'[u].key] # NoObj
                      /\ Summary(txn'[u].obj) = Summary(db[txn'[u].key])
                      /\ txn'[u].obj.seq = db[txn'[u].key].seq
    BY <1>1 DEF SetRevsKeepsHeader, Summary
  <2>1. CASE u = t
    BY <1>1, <1>5, <1>7, <1>9, <2>1 DEF TypeOK
  <2>2. CASE u # t
    BY <1>1, <2>2 DEF TypeOK, SetRevsKeepsHeader
  <2> QED BY <2>1, <2>2
<1>16. SeqBelow' /\ SeqUnique' /\ ScanComplete' /\ OwedIsStamped'
  BY <1>1 DEF SeqBelow, lastseq, SeqUnique, ScanComplete, OwedIsStamped, After
<1> QED BY <1>11, <1>12, <1>13, <1>14, <1>15, <1>16

(* set_revs ran out of memory: the page is lost, but it was nobody's.       *)
LEMMA SetRevsLeaksIInv ==
    ASSUME IInv, NEW t \in Threads, NEW k \in Keys, NEW revs \in SetRevsArgs,
           SetRevsLeaks(t, k, revs)
    PROVE  IInv'
<1> USE DEF IInv
<1>1. /\ owner' = [owner EXCEPT ![PageOf[k]] = Leaked]
      /\ owner[PageOf[k]] = Nobody
      /\ UNCHANGED <<db, seqrec, txn, cur, crashed, truth, uninit, owed>>
  BY DEF SetRevsLeaks, Unlocked, disk
<1>2. /\ SeqPage \in Pages /\ Nobody \notin Threads
      /\ \A j \in Keys : PageOf[j] \in Pages
  BY PagesKnown
<1>3. TypeOK'
  BY <1>1, <1>2 DEF TypeOK
<1>4. HoldsPage' /\ HoldsSeq'
  BY <1>1, <1>2 DEF TypeOK, HoldsPage, HoldsSeq, Txns
<1>5. CheckStaysValid' /\ SetRevsKeepsHeader'
  BY <1>1 DEF CheckStaysValid, SetRevsKeepsHeader, Summary
<1>6. SeqBelow' /\ SeqUnique' /\ ScanComplete' /\ OwedIsStamped'
  BY <1>1 DEF SeqBelow, lastseq, SeqUnique, ScanComplete, OwedIsStamped, After
<1> QED BY <1>3, <1>4, <1>5, <1>6

(* set_revs commits; the header it writes is the one that is stored.        *)
LEMMA SetRevsCommitsIInv ==
    ASSUME IInv, NEW t \in Threads, SetRevsCommits(t)
    PROVE  IInv'
<1> DEFINE x == txn[t]
<1> USE DEF IInv
<1>1. /\ x # NoTxn /\ x.op = "set_revs"
      /\ db' = [db EXCEPT ![x.key] = x.obj]
      /\ owner' = [p \in Pages |-> IF owner[p] = t THEN Nobody ELSE owner[p]]
      /\ txn' = [txn EXCEPT ![t] = NoTxn]
      /\ truth' = [truth EXCEPT ![x.key] = x.intent]
      /\ UNCHANGED <<seqrec, uninit, cur, crashed, owed>>
  BY DEF SetRevsCommits, At, Release
<1>2. /\ x.key \in Keys /\ x.obj \in Objects /\ x.intent \in Intents /\ x.obj # NoObj
      /\ db[x.key] # NoObj /\ x.obj.seq = db[x.key].seq
  BY <1>1, SentinelsAssumption DEF TypeOK, Txns, SetRevsKeepsHeader
<1>3. owner[PageOf[x.key]] = t
  BY <1>1 DEF HoldsPage
<1>4. ASSUME NEW u \in Threads, txn'[u] # NoTxn
      PROVE  u # t /\ txn'[u] = txn[u] /\ txn[u] # NoTxn /\ txn[u] \in Txns
  BY <1>1, <1>4 DEF TypeOK
<1>5. SeqPage \in Pages /\ \A k \in Keys : PageOf[k] \in Pages
  BY PagesKnown
<1>6. ASSUME NEW u \in Threads, u # t, txn[u] # NoTxn, txn[u].op # "replace"
      PROVE  txn[u].key \in Keys /\ txn[u].key # x.key
  <2>1. owner[PageOf[txn[u].key]] = u
    BY <1>6 DEF HoldsPage
  <2> QED BY <1>3, <1>6, <2>1 DEF TypeOK, Txns
<1> HIDE DEF x
<1>7. TypeOK'
  BY <1>1, <1>2, SentinelsAssumption DEF TypeOK
<1>8. HoldsPage' /\ HoldsSeq'
  BY <1>1, <1>4, <1>5 DEF HoldsPage, HoldsSeq, Txns
<1>9. CheckStaysValid'
  BY <1>1, <1>2, <1>4, <1>6 DEF TypeOK, CheckStaysValid
<1>10. SetRevsKeepsHeader'
  BY <1>1, <1>2, <1>4, <1>6 DEF TypeOK, SetRevsKeepsHeader
<1>11. SeqBelow' /\ SeqUnique' /\ ScanComplete' /\ OwedIsStamped'
  BY <1>1, <1>2 DEF TypeOK, SeqBelow, lastseq, SeqUnique, ScanComplete, OwedIsStamped, After
<1> QED BY <1>7, <1>8, <1>9, <1>10, <1>11

(* The iterator's steps touch nothing but the cursor and what it owes.      *)
LEMMA IterateIInv ==
    ASSUME IInv, NEW t \in Threads, Iterate(t)
    PROVE  IInv'
<1> USE DEF IInv
<1>1. UNCHANGED <<db, seqrec, owner, txn, crashed, truth, uninit>>
  BY DEF Iterate, IterOpen, IterNext, IterClose, disk
<1>2. /\ HoldsPage' /\ HoldsSeq' /\ CheckStaysValid' /\ SetRevsKeepsHeader'
      /\ SeqBelow' /\ SeqUnique'
  BY <1>1 DEF HoldsPage, HoldsSeq, CheckStaysValid, SetRevsKeepsHeader, SeqBelow, lastseq,
         SeqUnique, Summary
<1>3. CASE \E since \in Sinces : IterOpen(t, since)
  <2>1. PICK since \in Sinces : IterOpen(t, since)
    BY <1>3
  <2> DEFINE pos == IF since = 0 THEN -1 ELSE since
  <2>2. /\ cur' = [cur EXCEPT ![t] = pos]
        /\ owed' = [owed EXCEPT ![t] = After(pos) \ uninit]
    BY <2>1 DEF IterOpen
  <2>3. pos \in Int /\ pos # NoIter
    BY ConstantsAssumption, SentinelsAssumption
  <2> HIDE DEF pos
  <2>4. TypeOK'
    BY <1>1, <2>2, <2>3 DEF TypeOK, After
  <2>5. ScanComplete' /\ OwedIsStamped'
    BY <1>1, <2>2, <2>3 DEF TypeOK, ScanComplete, OwedIsStamped, After
  <2> QED BY <1>2, <2>4, <2>5
<1>4. CASE \E k \in Keys : IterNext(t, k)
  <2>1. PICK k \in Keys : IterNext(t, k)
    BY <1>4
  <2>2. /\ k \in After(cur[t])
        /\ \A j \in After(cur[t]) : db[k].seq <= db[j].seq
        /\ cur' = [cur EXCEPT ![t] = db[k].seq]
        /\ owed' = [owed EXCEPT ![t] = @ \ {k}]
    BY <2>1 DEF IterNext
  <2>3. db[k] # NoObj /\ db[k] \in Objects /\ db[k].seq \in Int /\ db[k].seq # NoIter
    <3>1. db[k] # NoObj
      BY <2>2 DEF After
    <3>2. db[k] \in Objects
      BY <3>1 DEF TypeOK
    <3>3. db[k].seq \in Int
      BY <3>2 DEF Objects
    <3> QED BY <3>1, <3>2, <3>3, SentinelsAssumption
  <2>4. TypeOK'
    BY <1>1, <2>2, <2>3 DEF TypeOK
  <2>5. OwedIsStamped'
    BY <1>1, <2>2 DEF TypeOK, OwedIsStamped
  <2>6. ScanComplete'
    <3> SUFFICES ASSUME NEW u \in Threads, NEW j \in Keys, j \in owed'[u]
                 PROVE  cur'[u] # NoIter /\ db[j] # NoObj /\ db[j].seq > cur'[u]
      BY <1>1, <2>4 DEF TypeOK, ScanComplete, After
    <3>1. j \in owed[u] /\ cur[u] # NoIter /\ db[j] # NoObj /\ db[j].seq > cur[u]
      BY <2>2 DEF TypeOK, ScanComplete, After
    <3>2. CASE u # t
      BY <2>2, <3>1, <3>2 DEF TypeOK
    <3>3. CASE u = t
      <4>1. j # k /\ cur'[t] = db[k].seq
        BY <2>2, <3>3 DEF TypeOK
      <4>2. db[j].seq # db[k].seq /\ db[j].seq \in Nat
        BY <2>3, <3>1, <4>1 DEF TypeOK, SeqUnique, Objects
      <4>3. db[k].seq <= db[j].seq
        BY <2>2, <3>1, <3>3 DEF After
      <4> QED BY <2>3, <3>1, <3>3, <4>1, <4>2, <4>3
    <3> QED BY <3>2, <3>3
  <2> QED BY <1>2, <2>4, <2>5, <2>6
<1>5. CASE IterClose(t)
  <2>1. cur' = [cur EXCEPT ![t] = NoIter] /\ owed' = [owed EXCEPT ![t] = {}]
    BY <1>5 DEF IterClose
  <2> QED BY <1>1, <1>2, <2>1 DEF TypeOK, ScanComplete, OwedIsStamped, After
<1> QED BY <1>3, <1>4, <1>5 DEF Iterate

-----------------------------------------------------------------------------
(* Every step preserves the invariant.                                      *)
LEMMA NextIInv == IInv /\ [Next]_vars => IInv'
<1> SUFFICES ASSUME IInv, [Next]_vars PROVE IInv'
  OBVIOUS
<1> DEFINE Frame == UNCHANGED <<disk, owner, txn, cur, owed>> /\ crashed' \in BOOLEAN
<1>1. ASSUME Frame PROVE IInv'
  BY <1>1, FrameIInv
<1>2. crashed \in BOOLEAN
  BY DEF IInv, TypeOK
<1>3. CASE vars' = vars \/ Dead
  BY <1>1, <1>2, <1>3 DEF Dead, vars, disk
<1>4. ASSUME NEW t \in Threads, Continue(t) PROVE IInv'
  BY <1>4, SeqGrantedIInv, SeqRefusedIInv, WriteCommitsIInv, WriteFailsIInv,
     SetRevsCommitsIInv DEF Continue
<1>5. ASSUME NEW t \in Threads, Iterate(t) PROVE IInv'
  BY <1>5, IterateIInv
<1>6. ASSUME NEW t \in Threads, NEW k \in Keys, Put(t, k) PROVE IInv'
  <2>1. PICK rev \in Revs \cup {NoRev} :
            \/ PutRefused(t, k, rev)
            \/ PutCrashes(t, k, rev)
            \/ \E new \in Revs, del \in Deleted, body \in Bodies :
                  PutChecked(t, k, rev, new, del, body)
    BY <1>6 DEF Put
  <2>2. CASE PutRefused(t, k, rev)
    BY <1>1, <1>2, <2>2 DEF PutRefused
  <2>3. CASE PutCrashes(t, k, rev)
    BY <1>1, <2>3 DEF PutCrashes
  <2>4. CASE \E new \in Revs, del \in Deleted, body \in Bodies :
                PutChecked(t, k, rev, new, del, body)
    BY <2>4, PutCheckedIInv
  <2> QED BY <2>1, <2>2, <2>3, <2>4
<1>7. ASSUME NEW t \in Threads, NEW k \in Keys, Replace(t, k) PROVE IInv'
  <2>1. CASE ReplaceRefused(t, k)
    BY <1>1, <1>2, <2>1 DEF ReplaceRefused
  <2>2. CASE ~ReplaceRefused(t, k)
    BY <1>7, <2>2, ReplaceStartsIInv DEF Replace
  <2> QED BY <2>1, <2>2
<1>8. ASSUME NEW t \in Threads, NEW k \in Keys, SetRevs(t, k) PROVE IInv'
  <2>1. CASE SetRevsRefused(t, k)
    BY <1>1, <1>2, <2>1 DEF SetRevsRefused
  <2>2. CASE ~SetRevsRefused(t, k)
    BY <1>8, <2>2, SetRevsReadIInv, SetRevsLeaksIInv DEF SetRevs
  <2> QED BY <2>1, <2>2
<1>9. ASSUME NEW t \in Threads, NEW k \in Keys, Reads(t, k) PROVE IInv'
  BY <1>1, <1>2, <1>9 DEF Reads, Get, GetRev, GetAllRevs, Answers
<1> QED BY <1>3, <1>4, <1>5, <1>6, <1>7, <1>8, <1>9 DEF Next

(* The inductive invariant holds throughout.                                *)
THEOREM Invariance == Spec => []IInv
BY InitIInv, NextIInv, PTL DEF Spec

(* Every variable keeps its type.                                           *)
THEOREM TypeCorrect == Spec => []TypeOK
<1>1. IInv => TypeOK
  BY DEF IInv
<1> QED BY <1>1, Invariance, PTL

(* The revision that put compared with the caller's is current until put    *)
(* has committed, whatever other threads do meanwhile: no update is lost.   *)
THEOREM PutCheckStaysValid == Spec => []CheckStaysValid
<1>1. IInv => CheckStaysValid
  BY DEF IInv
<1> QED BY <1>1, Invariance, PTL

(* An iterator of the changes misses no object that was stored when it was  *)
(* opened, however often writers move objects to the end of the index.      *)
THEOREM ScanMissesNothing == Spec => []ScanComplete
<1>1. IInv => ScanComplete
  BY DEF IInv
<1> QED BY <1>1, Invariance, PTL

(* Commits happen in the order of the sequence numbers they carry.          *)
THEOREM CommitsInOrder == Spec => SeqOrder
<1> DEFINE Ordered == \A k \in Keys \ uninit' :
               (db'[k] # NoObj /\ (db[k] = NoObj \/ db[k].seq # db'[k].seq)) =>
                   \A j \in Keys \ uninit : db[j] # NoObj => db[j].seq < db'[k].seq
<1>1. IInv /\ [Next]_vars => [Ordered]_vars
  <2> SUFFICES ASSUME IInv, Next PROVE db' = db \/ Ordered
    BY DEF vars
  <2> USE DEF IInv
  <2>1. CASE \E t \in Threads : WriteCommits(t)
    <3>1. PICK t \in Threads : WriteCommits(t)
      BY <2>1
    <3> DEFINE x == txn[t]
    <3>2. /\ x # NoTxn /\ db' = [db EXCEPT ![x.key] = x.obj]
          /\ uninit' = IF x.seqok THEN uninit \ {x.key} ELSE uninit \cup {x.key}
      BY <3>1 DEF WriteCommits, At
    <3>3. x.key \in Keys /\ (x.seqok => x.obj.seq = seqrec)
      BY <3>2 DEF TypeOK, Txns, HoldsSeq
    <3> HIDE DEF x
    <3> QED BY <3>2, <3>3 DEF TypeOK, SeqBelow, lastseq
  <2>2. CASE \E t \in Threads : SetRevsCommits(t)
    <3>1. PICK t \in Threads : SetRevsCommits(t)
      BY <2>2
    <3> DEFINE x == txn[t]
    <3>2. x # NoTxn /\ x.op = "set_revs" /\ db' = [db EXCEPT ![x.key] = x.obj]
      BY <3>1 DEF SetRevsCommits, At
    <3>3. x.key \in Keys /\ db[x.key] # NoObj /\ x.obj.seq = db[x.key].seq
      BY <3>2 DEF TypeOK, Txns, SetRevsKeepsHeader
    <3> HIDE DEF x
    <3> QED BY <3>2, <3>3 DEF TypeOK
  <2>3. CASE ~(\E t \in Threads : WriteCommits(t)) /\ ~(\E t \in Threads : SetRevsCommits(t))
    <3>1. ASSUME NEW t \in Threads, Continue(t) PROVE db' = db
      BY <2>3, <3>1 DEF Continue, SeqGranted, SeqRefused, WriteFails, CommitFails, disk
    <3>2. ASSUME NEW t \in Threads, Iterate(t) PROVE db' = db
      BY <3>2 DEF Iterate, IterOpen, IterNext, IterClose, disk
    <3>3. ASSUME NEW t \in Threads, NEW k \in Keys, Put(t, k) \/ Replace(t, k) PROVE db' = db
      BY <3>3 DEF Put, PutRefused, PutCrashes, PutChecked, Replace, ReplaceRefused,
                  ReplaceStarts, disk
    <3>4. ASSUME NEW t \in Threads, NEW k \in Keys, SetRevs(t, k) \/ Reads(t, k) PROVE db' = db
      BY <3>4 DEF SetRevs, SetRevsRefused, SetRevsRead, SetRevsLeaks, Reads, Get, GetRev,
                  GetAllRevs, Answers, disk
    <3> QED BY <3>1, <3>2, <3>3, <3>4 DEF Next, Dead, vars
  <2> QED BY <2>1, <2>2, <2>3
<1>2. Spec => [][Ordered]_vars
  BY <1>1, Invariance, PTL DEF Spec
<1> QED BY <1>2 DEF SeqOrder

-----------------------------------------------------------------------------
(* The driver implements the abstract object store.                         *)

LEMMA ReplaceDictatesInv == Spec => []ReplaceDictates
<1>1. Init => ReplaceDictates
  BY DEF Init, ReplaceDictates
<1>2. IInv /\ ReplaceDictates /\ [Next]_vars => ReplaceDictates'
  <2> SUFFICES ASSUME IInv, ReplaceDictates, [Next]_vars, NEW u \in Threads,
                      txn'[u] # NoTxn, txn'[u].op = "replace"
               PROVE  txn'[u].rev = NoRev /\ txn'[u].obj.doc_seq \in DocSeqs
    BY DEF ReplaceDictates
  <2>1. ASSUME txn'[u] = txn[u]
        PROVE  txn'[u].rev = NoRev /\ txn'[u].obj.doc_seq \in DocSeqs
    BY <2>1 DEF ReplaceDictates
  <2>2. ASSUME NEW t \in Threads, NEW x, txn' = [txn EXCEPT ![t] = x],
               x # NoTxn /\ x.op = "replace" => x.rev = NoRev /\ x.obj.doc_seq \in DocSeqs
        PROVE  txn'[u].rev = NoRev /\ txn'[u].obj.doc_seq \in DocSeqs
    BY <2>1, <2>2 DEF IInv, TypeOK
  <2>3. CASE UNCHANGED txn
    BY <2>1, <2>3
  <2>4. ASSUME NEW t \in Threads, SeqGranted(t)
        PROVE  txn'[u].rev = NoRev /\ txn'[u].obj.doc_seq \in DocSeqs
    BY <2>4 DEF SeqGranted, At, IInv, TypeOK, Txns, Objects, ReplaceDictates
  <2>5. ASSUME NEW t \in Threads, SeqRefused(t)
        PROVE  txn'[u].rev = NoRev /\ txn'[u].obj.doc_seq \in DocSeqs
    BY <2>5 DEF SeqRefused, At, IInv, TypeOK, Txns, Objects, ReplaceDictates
  <2>6. ASSUME NEW t \in Threads,
               WriteCommits(t) \/ WriteFails(t) \/ SetRevsCommits(t) \/ CommitFails(t)
        PROVE  txn'[u].rev = NoRev /\ txn'[u].obj.doc_seq \in DocSeqs
    <3>1. txn' = [txn EXCEPT ![t] = NoTxn]
      BY <2>6 DEF WriteCommits, WriteFails, SetRevsCommits, CommitFails
    <3> QED BY <2>2, <3>1
  <2>7. ASSUME NEW t \in Threads, NEW k \in Keys, Put(t, k)
        PROVE  txn'[u].rev = NoRev /\ txn'[u].obj.doc_seq \in DocSeqs
    <3>1. CASE UNCHANGED txn
      BY <2>3, <3>1
    <3>2. ASSUME NEW rev, NEW new, NEW del, NEW body, PutChecked(t, k, rev, new, del, body)
          PROVE  txn'[u] = txn[u]
      BY <3>2 DEF PutChecked, IInv, TypeOK
    <3> QED BY <2>1, <2>7, <3>1, <3>2 DEF Put, PutRefused, PutCrashes
  <2>8. ASSUME NEW t \in Threads, NEW k \in Keys, Replace(t, k)
        PROVE  txn'[u].rev = NoRev /\ txn'[u].obj.doc_seq \in DocSeqs
    <3>1. CASE ReplaceRefused(t, k)
      BY <2>3, <3>1 DEF ReplaceRefused
    <3>2. ASSUME NEW new \in Revs, NEW n \in DocSeqs, NEW del \in Deleted, NEW body \in Bodies,
                 NEW revs \in Histories, ReplaceStarts(t, k, new, n, del, body, revs)
          PROVE  txn'[u].rev = NoRev /\ txn'[u].obj.doc_seq \in DocSeqs
      <4> DEFINE obj == [la_storage_create_object(new, body, revs)
                            EXCEPT !.doc_seq = n, !.deleted = del]
                 x == [op |-> "replace", at |-> "seq", key |-> k, rev |-> NoRev, obj |-> obj,
                       intent |-> [body |-> body, hist |-> revs], seqok |-> FALSE]
      <4>1. txn' = [txn EXCEPT ![t] = x]
        BY <3>2 DEF ReplaceStarts
      <4>2. obj.doc_seq = n
        BY DEF la_storage_create_object
      <4> HIDE DEF obj
      <4>3. x.rev = NoRev /\ x.obj.doc_seq \in DocSeqs
        BY <4>2
      <4> QED BY <2>2, <4>1, <4>3
    <3> QED BY <2>8, <3>1, <3>2 DEF Replace
  <2>9. ASSUME NEW t \in Threads, NEW k \in Keys, SetRevs(t, k)
        PROVE  txn'[u].rev = NoRev /\ txn'[u].obj.doc_seq \in DocSeqs
    <3>1. CASE UNCHANGED txn
      BY <2>3, <3>1
    <3>2. ASSUME NEW revs, SetRevsRead(t, k, revs)
          PROVE  txn'[u] = txn[u]
      BY <3>2 DEF SetRevsRead, IInv, TypeOK
    <3> QED BY <2>1, <2>9, <3>1, <3>2 DEF SetRevs, SetRevsRefused, SetRevsLeaks
  <2>10. ASSUME NEW t \in Threads, NEW k \in Keys, Reads(t, k)
         PROVE  UNCHANGED txn
    BY <2>10 DEF Reads, Get, GetRev, GetAllRevs, Answers
  <2>11. ASSUME NEW t \in Threads, Iterate(t)
         PROVE  UNCHANGED txn
    BY <2>11 DEF Iterate, IterOpen, IterNext, IterClose
  <2> QED BY <2>3, <2>4, <2>5, <2>6, <2>7, <2>8, <2>9, <2>10, <2>11
          DEF Next, Continue, Dead, vars
<1> QED BY <1>1, <1>2, Invariance, PTL DEF Spec

(* Every step of the driver is a step of the abstract store, none at all,   *)
(* or one of the two that no store may take.                                *)
LEMMA StepRefines ==
    ASSUME IInv, ReplaceDictates, [Next]_vars
    PROVE  [Abs!Next \/ (BrokenPromise /\ UNCHANGED db)]_(Abs!avars)
<1> DEFINE v == [k \in Keys |-> Summary(db[k])]
           w == [k \in Keys |-> Summary(db'[k])]
           still == db' = db /\ ret' = ret
           broken == BrokenPromise /\ UNCHANGED db
<1> USE DEF IInv
<1>1. ASSUME still PROVE UNCHANGED Abs!avars
  BY <1>1 DEF Abs!avars
<1>2. \A k \in Keys : v[k] = Summary(db[k]) /\ (v[k] = NoObj <=> db[k] = NoObj)
  BY SentinelsAssumption DEF TypeOK, Objects, Summary
<1>3. ASSUME NEW t \in Threads, NEW k \in Keys, NEW rev \in Revs \cup {NoRev},
             NEW op \in {"put", "replace", "set_revs"}, NEW code \in {"CONFLICT", "ERROR"},
             Return(t, op, k, rev, code, NoObj), db' = db
      PROVE  Abs!Refuse(t, k, rev)
  BY <1>3 DEF Abs!Refuse, Abs!Answer, Return
<1>4. ASSUME NEW t \in Threads, WriteCommits(t) PROVE Abs!Next
  <2> DEFINE x == txn[t]
  <2>1. /\ x # NoTxn /\ x.op # "set_revs"
        /\ db' = [db EXCEPT ![x.key] = x.obj]
        /\ ret' = [thread |-> t, op |-> x.op, key |-> x.key, rev |-> x.rev,
                   code |-> "SUCCESS", out |-> Summary(x.obj)]
    BY <1>4 DEF WriteCommits, At, Return
  <2>2. /\ x.key \in Keys /\ x.obj \in Objects /\ x.rev \in Revs \cup {NoRev}
        /\ x.op \in {"put", "replace"}
    BY <2>1 DEF TypeOK, Txns
  <2>3. x.op = "replace" => x.rev = NoRev /\ x.obj.doc_seq \in DocSeqs
    BY <2>1 DEF ReplaceDictates
  <2>4. x.op = "put" =>
            IF db[x.key] = NoObj THEN x.obj.doc_seq = 1
            ELSE x.rev = db[x.key].rev /\ x.obj.doc_seq = db[x.key].doc_seq + 1
    BY <2>1 DEF CheckStaysValid
  <2> HIDE DEF x
  <2>5. /\ x.obj.rev \in Revs /\ x.obj.deleted \in BOOLEAN
        /\ Summary(x.obj) = Abs!Summary(x.obj.rev, x.obj.doc_seq, x.obj.deleted)
    BY <2>2, SentinelsAssumption DEF Objects, Summary, Abs!Summary
  <2>6. w = [v EXCEPT ![x.key] = Summary(x.obj)]
    BY <2>1, <2>2 DEF TypeOK
  <2>7. CASE x.op = "replace"
    <3>1. Abs!Replace(t, x.key)
      BY <2>1, <2>3, <2>5, <2>6, <2>7 DEF Abs!Replace, Abs!Answer
    <3> QED BY <2>2, <3>1 DEF Abs!Next
  <2>8. CASE x.op = "put"
    <3>1. db[x.key] # NoObj => v[x.key].rev = db[x.key].rev /\ v[x.key].doc_seq = db[x.key].doc_seq
      BY <2>2 DEF Summary
    <3>2. x.obj.doc_seq = IF v[x.key] = NoObj THEN 1 ELSE v[x.key].doc_seq + 1
      BY <1>2, <2>2, <2>4, <2>8, <3>1
    <3>3. v[x.key] # NoObj => v[x.key].rev = x.rev
      BY <1>2, <2>2, <2>4, <2>8, <3>1
    <3> HIDE DEF v
    <3>4. Abs!Put(t, x.key, x.rev)
      BY <2>1, <2>5, <2>6, <2>8, <3>2, <3>3 DEF Abs!Put, Abs!Answer, v
    <3> QED BY <2>2, <3>4 DEF Abs!Next
  <2> QED BY <2>2, <2>7, <2>8
<1>5. ASSUME NEW t \in Threads, SetRevsCommits(t) PROVE Abs!Next
  <2> DEFINE x == txn[t]
  <2>1. /\ x # NoTxn /\ x.op = "set_revs"
        /\ db' = [db EXCEPT ![x.key] = x.obj]
        /\ ret' = [thread |-> t, op |-> "set_revs", key |-> x.key, rev |-> NoRev,
                   code |-> "SUCCESS", out |-> Summary(x.obj)]
    BY <1>5 DEF SetRevsCommits, At, Return
  <2>2. /\ x.key \in Keys /\ db[x.key] # NoObj
        /\ Summary(x.obj) = Summary(db[x.key])
    BY <2>1 DEF TypeOK, Txns, SetRevsKeepsHeader
  <2> HIDE DEF x
  <2>3. w = v
    BY <2>1, <2>2 DEF TypeOK
  <2>4. Abs!SetRevs(t, x.key)
    BY <1>2, <2>1, <2>2, <2>3 DEF Abs!SetRevs, Abs!Answer
  <2> QED BY <2>2, <2>4 DEF Abs!Next
<1>6. ASSUME NEW t \in Threads, WriteFails(t) PROVE Abs!Next
  <2>1. /\ txn[t].key \in Keys /\ txn[t].rev \in Revs \cup {NoRev}
        /\ txn[t].op \in {"put", "replace", "set_revs"}
    BY <1>6 DEF WriteFails, At, TypeOK, Txns
  <2>2. Abs!Refuse(t, txn[t].key, txn[t].rev)
    BY <1>3, <1>6, <2>1 DEF WriteFails, disk
  <2> QED BY <2>1, <2>2 DEF Abs!Next
<1>7. ASSUME NEW t \in Threads, SeqGranted(t) \/ SeqRefused(t) \/ Iterate(t) PROVE still
  BY <1>7 DEF SeqGranted, SeqRefused, Iterate, IterOpen, IterNext, IterClose, disk
<1>8. ASSUME NEW t \in Threads, NEW k \in Keys, Put(t, k) PROVE still \/ Abs!Next
  <2>1. PICK rev \in Revs \cup {NoRev} :
            \/ PutRefused(t, k, rev)
            \/ PutCrashes(t, k, rev)
            \/ \E new \in Revs, del \in Deleted, body \in Bodies :
                  PutChecked(t, k, rev, new, del, body)
    BY <1>8 DEF Put
  <2>2. CASE PutRefused(t, k, rev)
    BY <1>3, <2>2 DEF PutRefused, disk, Abs!Next
  <2>3. CASE ~PutRefused(t, k, rev)
    BY <2>1, <2>3 DEF PutCrashes, PutChecked, disk
  <2> QED BY <2>2, <2>3
<1>9. ASSUME NEW t \in Threads, NEW k \in Keys, Replace(t, k) PROVE still \/ Abs!Next
  <2>1. CASE ReplaceRefused(t, k)
    BY <1>3, <2>1 DEF ReplaceRefused, disk, Abs!Next
  <2>2. CASE ~ReplaceRefused(t, k)
    BY <1>9, <2>2 DEF Replace, ReplaceStarts, disk
  <2> QED BY <2>1, <2>2
<1>10. ASSUME NEW t \in Threads, NEW k \in Keys, SetRevs(t, k) PROVE still \/ Abs!Next
  <2>1. CASE SetRevsRefused(t, k) \/ \E revs \in SetRevsArgs : SetRevsLeaks(t, k, revs)
    BY <1>3, <2>1 DEF SetRevsRefused, SetRevsLeaks, disk, Abs!Next
  <2>2. CASE \E revs \in SetRevsArgs : SetRevsRead(t, k, revs)
    BY <2>2 DEF SetRevsRead, disk
  <2> QED BY <1>10, <2>1, <2>2 DEF SetRevs
<1>11. ASSUME NEW t \in Threads, NEW k \in Keys, Reads(t, k) PROVE broken \/ Abs!Next
  <2>1. ASSUME NEW op \in {"get", "get_rev", "get_all_revs"}, NEW rev \in Revs \cup {NoRev},
               NEW matches, Answers(t, op, k, rev, matches),
               db[k] # NoObj => (matches <=> rev \in {NoRev, db[k].rev})
        PROVE  Abs!Next
    <3>1. w = v
      BY <2>1 DEF Answers, disk
    <3>2. db[k] # NoObj => v[k].rev = db[k].rev
      BY DEF Summary
    <3>3. v[k] = Summary(db[k]) /\ (v[k] = NoObj <=> db[k] = NoObj)
      BY <1>2
    <3>4. Abs!Read(t, k, rev)
      BY <2>1, <3>1, <3>2, <3>3 DEF Answers, Return, Abs!Read, Abs!Answer
    <3> QED BY <3>4 DEF Abs!Next
  <2>2. ASSUME NEW rev \in Revs \cup {NoRev}, NEW wanted \in BOOLEAN, Get(t, k, rev, wanted)
        PROVE  broken \/ Abs!Next
    <3> DEFINE m == rev = NoRev \/ (~wanted /\ RevMatches(k, rev))
    <3>1. Answers(t, "get", k, rev, m)
      BY <2>2 DEF Get
    <3>2. CASE wanted /\ rev # NoRev
      <4>1. rev \in Revs /\ wanted = TRUE
        BY <3>2
      <4>2. BrokenPromise
        BY <2>2, <4>1 DEF BrokenPromise
      <4> QED BY <3>1, <4>2 DEF Answers, disk
    <3>3. CASE ~wanted \/ rev = NoRev
      <4>1. db[k] # NoObj => (m <=> rev \in {NoRev, db[k].rev})
        BY <3>3 DEF RevMatches
      <4> HIDE DEF m
      <4> QED BY <2>1, <3>1, <4>1
    <3> QED BY <3>2, <3>3
  <2>3. CASE GetRev(t, k)
    BY <2>1, <2>3, SentinelsAssumption DEF GetRev
  <2>4. CASE GetAllRevs(t, k)
    BY <2>1, <2>4 DEF GetAllRevs
  <2> QED BY <1>11, <2>2, <2>3, <2>4 DEF Reads
<1>12. CASE vars' = vars \/ Dead
  BY <1>1, <1>12 DEF Dead, vars
<1>13. ASSUME NEW t \in Threads, CommitFails(t) PROVE broken
  BY <1>13 DEF BrokenPromise, CommitFails, disk
<1> HIDE DEF still, broken
<1> DEFINE good == Abs!Next \/ broken \/ still
<1>14. ASSUME NEW t \in Threads, Continue(t) PROVE good
  BY <1>4, <1>5, <1>6, <1>7, <1>13, <1>14, Zenon DEF Continue
<1>15. ASSUME NEW t \in Threads, NEW k \in Keys,
              Put(t, k) \/ Replace(t, k) \/ SetRevs(t, k) \/ Reads(t, k)
       PROVE  good
  BY <1>8, <1>9, <1>10, <1>11, <1>15, Zenon
<1>16. ASSUME NEW t \in Threads, Iterate(t) PROVE good
  BY <1>7, <1>16, Zenon
<1> HIDE DEF good
<1>17. ASSUME Next, ~Dead PROVE good
  BY <1>14, <1>15, <1>16, <1>17, Zenon DEF Next
<1> QED BY <1>1, <1>12, <1>17, Zenon DEF good, broken

(* The driver implements the abstract store, for every number of threads,   *)
(* keys and pages: put, replace, set_revs and the reads each take effect at *)
(* one instant, or fail without effect.  What it does beyond that is the    *)
(* SUCCESS of a commit that failed and the miss of a get that names the     *)
(* current revision, and neither touches what is stored.                    *)
THEOREM ImplementsObjectStore == Spec => Linearizable
<1>1. Init => Abs!Init
  BY DEF Init, Abs!Init, Summary
<1>2. IInv /\ ReplaceDictates /\ [Next]_vars
          => [Abs!Next \/ (BrokenPromise /\ UNCHANGED db)]_(Abs!avars)
  BY StepRefines
<1> QED BY <1>1, <1>2, Invariance, ReplaceDictatesInv, PTL DEF Spec, Linearizable

-----------------------------------------------------------------------------
(* The layout of revs_data.                                                 *)

(* A buffer that is a list of revisions followed by a body reads back as    *)
(* that list and that body.                                                 *)
LEMMA CreatedTracks ==
    ASSUME NEW o, NEW body \in Seq(DataCells), NEW revs \in Seq(Revs),
           o.rev_count = Len(revs), o.revs_data = revs \o body
    PROVE  Tracks(o, [body |-> body, hist |-> revs])
<1> DEFINE S == Revs \cup DataCells
<1>1. revs \in Seq(S) /\ body \in Seq(S) /\ Len(revs) \in Nat /\ Len(body) \in Nat
  OBVIOUS
<1>2. Len(revs \o body) = Len(revs) + Len(body)
  BY <1>1
<1>3. SubSeq(revs \o body, 1, Len(revs)) = revs
  BY <1>1
<1>4. SubSeq(revs \o body, Len(revs) + 1, Len(revs) + Len(body)) = body
  BY <1>1
<1> QED BY <1>1, <1>2, <1>3, <1>4 DEF Tracks, LaidOut, ObjectRevs, la_storage_object_get_data

(* The object that put lays out tracks what the caller means, if the stored *)
(* one does.                                                                *)
LEMMA PutTracks ==
    ASSUME IInv, LayoutInv, NEW k \in Keys, NEW new \in Revs, NEW del \in Deleted,
           NEW body \in Bodies
    PROVE  Tracks(PutObject(k, new, del, body), PutIntent(k, body))
<1> DEFINE o == PutObject(k, new, del, body)
           i == PutIntent(k, body)
<1>1. body \in Seq(DataCells)
  BY ConstantsAssumption
<1>2. CASE db[k] = NoObj
  <2>1. o.rev_count = Len(<<>>) /\ o.revs_data = <<>> \o body
    BY <1>1, <1>2 DEF PutObject, la_storage_create_object
  <2>2. i = [body |-> body, hist |-> <<>>]
    BY <1>2 DEF PutIntent
  <2> HIDE DEF o, i
  <2>3. <<>> \in Seq(Revs)
    OBVIOUS
  <2>4. Tracks(o, [body |-> body, hist |-> <<>>])
    BY <1>1, <2>1, <2>3, CreatedTracks, Zenon
  <2> QED BY <2>2, <2>4 DEF o, i
<1>3. CASE db[k] # NoObj
  <2> DEFINE old   == db[k].rev
             count == db[k].rev_count
             hist  == truth[k].hist
  <2>1. /\ old \in Revs /\ count \in Nat /\ hist \in Seq(Revs) /\ count = Len(hist)
    BY <1>3 DEF IInv, TypeOK, Objects, Intents, LayoutInv, Tracks
  <2>2. /\ o.rev_count = count + 1
        /\ o.revs_data = PutRevsData(body, old, count)
        /\ i = [body |-> body, hist |-> <<old>> \o hist]
    BY <1>3 DEF PutObject, PutOver, PutIntent, la_storage_create_object
  <2> HIDE DEF o, i, old, count, hist
  <2>3. Len(<<old>> \o hist) = count + 1
    BY <2>1
  <2>4. CASE count = 0
    <3>1. PutRevsData(body, old, 0) = <<old>> \o body
      <4>1. body \in Seq(Cells) /\ old \in Cells /\ Garbage \in Cells
        BY <1>1, <2>1 DEF Cells
      <4> QED BY <4>1, FirstUpdateLayout, Zenon
    <3>2. <<old>> \o hist = <<old>> /\ <<old>> \in Seq(Revs) /\ Len(<<old>>) = 1
      <4>1. <<old>> \in Seq(Revs) /\ Len(<<old>>) = 1
        BY <2>1
      <4> DEFINE both == <<old>> \o hist
      <4>2. both \in Seq(Revs) /\ Len(both) = 1 /\ both[1] = old
        <5>1. Len(hist) = 0 /\ hist \in Seq(Revs) /\ old \in Revs
          BY <2>1, <2>4
        <5>2. both \in Seq(Revs)
          BY <4>1, <5>1
        <5>3. Len(both) = 1
          BY <4>1, <5>1
        <5>4. both[1] = old
          BY <4>1, <5>1
        <5> QED BY <5>2, <5>3, <5>4
      <4>3. \A j \in 1 .. Len(both) : both[j] = <<old>>[j]
        BY <4>2
      <4> HIDE DEF both
      <4>4. both = <<old>>
        BY <4>1, <4>2, <4>3, SeqEqual, Zenon
      <4> QED BY <4>1, <4>4 DEF both
    <3>3. o.rev_count = Len(<<old>>) /\ o.revs_data = <<old>> \o body
      BY <2>2, <2>4, <3>1, <3>2
    <3>4. Tracks(o, [body |-> body, hist |-> <<old>>])
      BY <1>1, <3>2, <3>3, CreatedTracks, Zenon
    <3> QED BY <2>2, <3>2, <3>4 DEF o, i
  <2>5. CASE count # 0
    <3>1. i.hist = <<old>> \o hist
      BY <2>2
    <3>2. Tracks(o, i)
      BY <2>1, <2>2, <2>3, <2>5, <3>1 DEF Tracks
    <3> QED BY <3>2 DEF o, i
  <2> QED BY <2>4, <2>5
<1> QED BY <1>2, <1>3

LEMMA NextLayoutInv ==
    ASSUME SetRevsArgs = {}, IInv, LayoutInv, [Next]_vars
    PROVE  LayoutInv'
<1> USE DEF IInv
<1>1. ASSUME UNCHANGED <<db, truth, txn>> PROVE LayoutInv'
  BY <1>1 DEF LayoutInv, Tracks, LaidOut
<1>2. ASSUME NEW t \in Threads, NEW x, txn' = [txn EXCEPT ![t] = x],
             Tracks(x.obj, x.intent), UNCHANGED <<db, truth>>
      PROVE  LayoutInv'
  BY <1>2 DEF TypeOK, LayoutInv
<1>3. ASSUME NEW t \in Threads, SeqGranted(t) PROVE LayoutInv'
  <2> DEFINE x == [txn[t] EXCEPT !.at = "write", !.obj.seq = seqrec, !.seqok = TRUE]
  <2>1. txn[t] \in Txns /\ txn[t] # NoTxn
    BY <1>3 DEF SeqGranted, At, TypeOK
  <2>2. txn' = [txn EXCEPT ![t] = x] /\ UNCHANGED <<db, truth>>
    BY <1>3 DEF SeqGranted, disk
  <2>3. /\ x.obj.rev_count = txn[t].obj.rev_count /\ x.obj.revs_data = txn[t].obj.revs_data
        /\ x.intent = txn[t].intent
    BY <2>1 DEF Txns, Objects
  <2> HIDE DEF x
  <2>4. Tracks(x.obj, x.intent)
    BY <2>1, <2>3 DEF LayoutInv, Tracks, LaidOut, ObjectRevs, la_storage_object_get_data
  <2> QED BY <1>2, <2>2, <2>4
<1>4. ASSUME NEW t \in Threads, SeqRefused(t) PROVE LayoutInv'
  <2>1. PICK s \in JunkSeqs : txn' = [txn EXCEPT ![t].at = "write", ![t].obj.seq = s]
    BY <1>4 DEF SeqRefused
  <2> DEFINE x == [txn[t] EXCEPT !.at = "write", !.obj.seq = s]
  <2>2. txn[t] \in Txns /\ txn[t] # NoTxn
    BY <1>4 DEF SeqRefused, At, TypeOK
  <2>3. txn' = [txn EXCEPT ![t] = x] /\ UNCHANGED <<db, truth>>
    BY <1>4, <2>1 DEF SeqRefused, disk
  <2>4. /\ x.obj.rev_count = txn[t].obj.rev_count /\ x.obj.revs_data = txn[t].obj.revs_data
        /\ x.intent = txn[t].intent
    BY <2>2 DEF Txns, Objects
  <2> HIDE DEF x
  <2>5. Tracks(x.obj, x.intent)
    BY <2>2, <2>4 DEF LayoutInv, Tracks, LaidOut, ObjectRevs, la_storage_object_get_data
  <2> QED BY <1>2, <2>3, <2>5
<1>5. ASSUME NEW t \in Threads, WriteCommits(t) \/ SetRevsCommits(t) PROVE LayoutInv'
  <2> DEFINE x == txn[t]
  <2>1. /\ x # NoTxn
        /\ db' = [db EXCEPT ![x.key] = x.obj]
        /\ truth' = [truth EXCEPT ![x.key] = x.intent]
        /\ txn' = [txn EXCEPT ![t] = NoTxn]
    BY <1>5 DEF WriteCommits, SetRevsCommits, At
  <2>2. Tracks(x.obj, x.intent)
    BY <2>1 DEF LayoutInv
  <2> HIDE DEF x
  <2> QED BY <2>1, <2>2 DEF TypeOK, LayoutInv
<1>6. ASSUME NEW t \in Threads, WriteFails(t) \/ CommitFails(t) PROVE LayoutInv'
  BY <1>6 DEF WriteFails, CommitFails, disk, TypeOK, LayoutInv
<1>7. ASSUME NEW t \in Threads, NEW k \in Keys, Put(t, k) PROVE LayoutInv'
  <2>1. CASE UNCHANGED <<db, truth, txn>>
    BY <1>1, <2>1
  <2>2. ASSUME NEW rev, NEW new \in Revs, NEW del \in Deleted, NEW body \in Bodies,
               PutChecked(t, k, rev, new, del, body)
        PROVE  LayoutInv'
    <3> DEFINE o == PutObject(k, new, del, body)
               i == PutIntent(k, body)
               x == [op |-> "put", at |-> "seq", key |-> k, rev |-> rev,
                     obj |-> o, intent |-> i, seqok |-> FALSE]
    <3>1. txn' = [txn EXCEPT ![t] = x] /\ UNCHANGED <<db, truth>>
      BY <2>2 DEF PutChecked, disk
    <3>2. Tracks(o, i)
      BY PutTracks
    <3> HIDE DEF o, i
    <3>3. Tracks(x.obj, x.intent)
      BY <3>2
    <3> HIDE DEF x
    <3> QED BY <1>2, <3>1, <3>3
  <2> QED BY <1>7, <2>1, <2>2 DEF Put, PutRefused, PutCrashes, disk
<1>8. ASSUME NEW t \in Threads, NEW k \in Keys, Replace(t, k) PROVE LayoutInv'
  <2>1. CASE ReplaceRefused(t, k)
    BY <1>1, <2>1 DEF ReplaceRefused, disk
  <2>2. ASSUME NEW new \in Revs, NEW n \in DocSeqs, NEW del \in Deleted, NEW body \in Bodies,
               NEW revs \in Histories, ReplaceStarts(t, k, new, n, del, body, revs)
        PROVE  LayoutInv'
    <3> DEFINE o == [la_storage_create_object(new, body, revs)
                        EXCEPT !.doc_seq = n, !.deleted = del]
               i == [body |-> body, hist |-> revs]
               x == [op |-> "replace", at |-> "seq", key |-> k, rev |-> NoRev,
                     obj |-> o, intent |-> i, seqok |-> FALSE]
    <3>1. txn' = [txn EXCEPT ![t] = x] /\ UNCHANGED <<db, truth>>
      BY <2>2 DEF ReplaceStarts, disk
    <3>2. body \in Seq(DataCells) /\ revs \in Seq(Revs)
      <4>1. Bodies \subseteq Seq(DataCells) /\ Histories \subseteq Seq(Revs)
        BY ConstantsAssumption, Zenon
      <4> QED BY <4>1
    <3>3. o.rev_count = Len(revs) /\ o.revs_data = revs \o body
      BY DEF la_storage_create_object
    <3> HIDE DEF o
    <3>4. Tracks(o, i)
      BY <3>2, <3>3, CreatedTracks, Zenon
    <3> HIDE DEF i
    <3>5. Tracks(x.obj, x.intent)
      BY <3>4
    <3> HIDE DEF x
    <3> QED BY <1>2, <3>1, <3>5
  <2> QED BY <1>8, <2>1, <2>2 DEF Replace
<1>9. ASSUME NEW t \in Threads, NEW k \in Keys, SetRevs(t, k) PROVE FALSE
  BY <1>9 DEF SetRevs
<1>10. ASSUME NEW t \in Threads, NEW k \in Keys, Reads(t, k) PROVE LayoutInv'
  BY <1>1, <1>10 DEF Reads, Get, GetRev, GetAllRevs, Answers, disk
<1>11. ASSUME NEW t \in Threads, Iterate(t) PROVE LayoutInv'
  BY <1>1, <1>11 DEF Iterate, IterOpen, IterNext, IterClose, disk
<1>12. CASE vars' = vars \/ Dead
  BY <1>1, <1>12 DEF Dead, vars
<1> QED BY <1>3, <1>4, <1>5, <1>6, <1>7, <1>8, <1>9, <1>10, <1>11, <1>12 DEF Next, Continue

(* In a program that does not call set_revs, and none in the repository     *)
(* does, an object that was updated at most once since it was created or    *)
(* replaced without history reads back as its history followed by its body. *)
THEOREM FirstUpdateIsReadable ==
    ASSUME SetRevsArgs = {}
    PROVE  Spec => []FirstUpdateReadable
<1>1. Init => LayoutInv
  BY DEF Init, LayoutInv
<1>2. IInv /\ LayoutInv /\ [Next]_vars => LayoutInv'
  BY NextLayoutInv
<1>3. LayoutInv => FirstUpdateReadable
  BY DEF LayoutInv, Tracks, FirstUpdateReadable
<1> QED BY <1>1, <1>2, <1>3, Invariance, PTL DEF Spec
=============================================================================
