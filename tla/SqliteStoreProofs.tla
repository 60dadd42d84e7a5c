------------------------- MODULE SqliteStoreProofs -------------------------
(***************************************************************************)
(* Proofs about the SQLite driver, for any number of threads, connections   *)
(* (shared or not), documents and updates, and any limit of the history.    *)
(***************************************************************************)
EXTENDS SqliteStore, SequenceTheorems, TLAPS

-----------------------------------------------------------------------------
(* The cells that put moves about.                                          *)

(* The buffer of PutCells before it is cut in two: the old revision, then   *)
(* the old history, then the body, as far as they do not overlap.           *)
LEMMA PutCellsShape ==
    ASSUME NEW data \in Seq(Cells), NEW r \in Cells, NEW old \in Seq(Cells)
    PROVE  \E n \in Nat, first \in Seq(Cells) :
              /\ n = (IF Len(old) < MaxRevs THEN Len(old) + 1 ELSE Len(old))
              /\ PutCells(data, r, old) =
                    [oldrevs |-> SubSeq(first, 1, n), doc |-> SubSeq(first, n + 1, Len(first))]
              /\ Len(first) = n + Len(data)
              /\ Len(old) < MaxRevs =>
                    /\ first[1] = r
                    /\ \A i \in 1..Len(old) : first[i + 1] = old[i]
                    /\ \A i \in 1..Len(data) : first[n + i] = data[i]
<1> DEFINE n      == IF Len(old) < MaxRevs THEN Len(old) + 1 ELSE Len(old)
           grown  == Resize(data, n + Len(data))
           moved  == Memmove(grown, n + 1, 1, Len(data))
           copied == [i \in 1..Len(moved) |->
                         IF i - 1 \in 1..Len(old) /\ i - 1 <= MaxRevs THEN old[i - 1] ELSE moved[i]]
           first  == [copied EXCEPT ![1] = r]
<1>1. PutCells(data, r, old) =
          [oldrevs |-> SubSeq(first, 1, n), doc |-> SubSeq(first, n + 1, Len(first))]
  BY DEF PutCells
<1>2. /\ n \in Nat /\ n >= 1 /\ Len(old) \in Nat /\ Len(data) \in Nat /\ MaxRevs \in Nat
      /\ Len(old) < MaxRevs => n = Len(old) + 1
      /\ Garbage \in Cells
  BY ConstantsAssumption DEF Cells
<1>3. n = (IF Len(old) < MaxRevs THEN Len(old) + 1 ELSE Len(old))
  OBVIOUS
<1> HIDE DEF n
<1>4. grown \in Seq(Cells) /\ Len(grown) = n + Len(data)
  BY <1>2 DEF Resize, Cell
<1>5. \A i \in 1..Len(data) : grown[i] = data[i]
  BY <1>2 DEF Resize, Cell
<1> HIDE DEF grown
<1>6. moved \in Seq(Cells) /\ Len(moved) = n + Len(data)
  BY <1>2, <1>4 DEF Memmove, Cell
<1>7. ASSUME NEW i \in 1..Len(data) PROVE moved[n + i] = data[i]
  <2>1. /\ n + i \in 1..Len(grown) /\ n + i \in (n + 1)..(n + 1 + Len(data) - 1)
        /\ 1 + (n + i) - (n + 1) = i /\ i \in 1..Len(grown)
    BY <1>2, <1>4
  <2>2. moved[n + i] = Cell(grown, 1 + (n + i) - (n + 1))
    BY <2>1 DEF Memmove
  <2> QED BY <1>5, <2>1, <2>2 DEF Cell
<1> HIDE DEF moved
<1>8. copied \in Seq(Cells) /\ Len(copied) = n + Len(data)
  <2>1. \A i \in 1..Len(moved) :
            (IF i - 1 \in 1..Len(old) /\ i - 1 <= MaxRevs THEN old[i - 1] ELSE moved[i]) \in Cells
    BY <1>2, <1>6
  <2> QED BY <1>2, <1>6, <2>1
<1>9. ASSUME Len(old) < MaxRevs
      PROVE  /\ \A i \in 1..Len(old) : copied[i + 1] = old[i]
             /\ \A i \in 1..Len(data) : copied[n + i] = data[i]
  <2>1. ASSUME NEW i \in 1..Len(old) PROVE copied[i + 1] = old[i]
    <3>1. i + 1 \in 1..Len(moved) /\ (i + 1) - 1 = i /\ i <= MaxRevs
      BY <1>2, <1>6, <1>9
    <3> QED BY <3>1
  <2>2. ASSUME NEW i \in 1..Len(data) PROVE copied[n + i] = data[i]
    <3>1. n + i \in 1..Len(moved) /\ ~((n + i) - 1 \in 1..Len(old))
      BY <1>2, <1>6, <1>9
    <3> QED BY <1>7, <3>1
  <2> QED BY <2>1, <2>2
<1> HIDE DEF copied
<1>10. first \in Seq(Cells) /\ Len(first) = n + Len(data) /\ first[1] = r
  BY <1>2, <1>8
<1>11. \A i \in 2..Len(first) : first[i] = copied[i]
  BY <1>2, <1>8
<1>12. ASSUME Len(old) < MaxRevs
       PROVE  /\ \A i \in 1..Len(old) : first[i + 1] = old[i]
              /\ \A i \in 1..Len(data) : first[n + i] = data[i]
  <2>1. /\ \A i \in 1..Len(old) : i + 1 \in 2..Len(first)
        /\ \A i \in 1..Len(data) : n + i \in 2..Len(first)
    BY <1>2, <1>10, <1>12
  <2> QED BY <1>9, <1>11, <1>12, <2>1
<1> HIDE DEF first
<1> QED BY <1>1, <1>2, <1>3, <1>10, <1>12

(* What put writes are cells.                                               *)
LEMMA PutCellsType ==
    ASSUME NEW data \in Seq(Cells), NEW r \in Cells, NEW old \in Seq(Cells)
    PROVE  PutCells(data, r, old).oldrevs \in Seq(Cells) /\ PutCells(data, r, old).doc \in Seq(Cells)
<1>1. PICK n \in Nat, first \in Seq(Cells) :
          /\ n = (IF Len(old) < MaxRevs THEN Len(old) + 1 ELSE Len(old))
          /\ PutCells(data, r, old) =
                [oldrevs |-> SubSeq(first, 1, n), doc |-> SubSeq(first, n + 1, Len(first))]
          /\ Len(first) = n + Len(data)
          /\ Len(old) < MaxRevs =>
                /\ first[1] = r
                /\ \A i \in 1..Len(old) : first[i + 1] = old[i]
                /\ \A i \in 1..Len(data) : first[n + i] = data[i]
  BY PutCellsShape
<1>2. Len(data) \in Nat /\ Len(first) \in Nat /\ n <= Len(first)
  BY <1>1
<1>3. SubSeq(first, 1, n) \in Seq(Cells)
  BY <1>2
<1>4. SubSeq(first, n + 1, Len(first)) \in Seq(Cells)
  BY <1>2
<1> QED BY <1>1, <1>3, <1>4

(* Below the limit put stores the old revision before the old history, and  *)
(* the body as it was.                                                      *)
LEMMA PutCellsLinks ==
    ASSUME NEW data \in Seq(Cells), NEW r \in Cells, NEW old \in Seq(Cells), Len(old) < MaxRevs
    PROVE  PutCells(data, r, old) = [oldrevs |-> <<r>> \o old, doc |-> data]
<1>1. PICK n \in Nat, first \in Seq(Cells) :
          /\ n = (IF Len(old) < MaxRevs THEN Len(old) + 1 ELSE Len(old))
          /\ PutCells(data, r, old) =
                [oldrevs |-> SubSeq(first, 1, n), doc |-> SubSeq(first, n + 1, Len(first))]
          /\ Len(first) = n + Len(data)
          /\ Len(old) < MaxRevs =>
                /\ first[1] = r
                /\ \A i \in 1..Len(old) : first[i + 1] = old[i]
                /\ \A i \in 1..Len(data) : first[n + i] = data[i]
  BY PutCellsShape
<1>2. n = Len(old) + 1 /\ Len(old) \in Nat /\ Len(data) \in Nat
  BY <1>1
<1> DEFINE revs == SubSeq(first, 1, n)
           body == SubSeq(first, n + 1, Len(first))
<1>3. revs = <<r>> \o old
  <2>1. revs \in Seq(Cells) /\ Len(revs) = n /\ \A i \in 1..n : revs[i] = first[i]
    BY <1>1, <1>2
  <2>2. /\ <<r>> \o old \in Seq(Cells) /\ Len(<<r>> \o old) = n
        /\ (<<r>> \o old)[1] = r /\ \A i \in 2..n : (<<r>> \o old)[i] = old[i - 1]
    BY <1>2
  <2>3. ASSUME NEW i \in 1..n PROVE revs[i] = (<<r>> \o old)[i]
    <3>1. CASE i = 1
      BY <1>1, <2>1, <2>2, <3>1
    <3>2. CASE i # 1
      <4>1. i \in 2..n /\ i - 1 \in 1..Len(old) /\ (i - 1) + 1 = i
        BY <1>2, <3>2
      <4> QED BY <1>1, <2>1, <2>2, <4>1
    <3> QED BY <3>1, <3>2
  <2> HIDE DEF revs
  <2> QED BY <2>1, <2>2, <2>3, SeqEqual
<1>4. body = data
  <2>1. body \in Seq(Cells) /\ Len(body) = Len(data) /\ \A i \in 1..Len(data) : body[i] = first[n + i]
    BY <1>1, <1>2
  <2> HIDE DEF body
  <2> QED BY <1>1, <2>1, SeqEqual
<1> QED BY <1>1, <1>3, <1>4

(* get and the iterator find the body behind the room that they count for   *)
(* the history, whatever its size.                                          *)
LEMMA ReadBody ==
    ASSUME NEW row \in Rows
    PROVE  la_storage_object_get_data(ReadObject(row)) = row.doc
<1> DEFINE n    == RevLen * Len(row.oldrevs)
           head == Resize(row.oldrevs, n)
<1>1. n \in Nat /\ row.doc \in Seq(Cells) /\ row.oldrevs \in Seq(Cells) /\ Garbage \in Cells
  BY ConstantsAssumption DEF Rows, Cells
<1>2. la_storage_object_get_data(ReadObject(row)) =
          SubSeq(head \o row.doc, n + 1, Len(head \o row.doc))
  BY DEF la_storage_object_get_data, ReadObject
<1> HIDE DEF n
<1>3. head \in Seq(Cells) /\ Len(head) = n
  BY <1>1 DEF Resize, Cell
<1> HIDE DEF head
<1> DEFINE body == SubSeq(head \o row.doc, n + 1, Len(head \o row.doc))
<1>4. /\ body \in Seq(Cells) /\ Len(body) = Len(row.doc)
      /\ \A i \in 1..Len(row.doc) : body[i] = row.doc[i]
  BY <1>1, <1>3, SMTT(30)
<1> HIDE DEF body
<1>5. body = row.doc
  BY <1>1, <1>4, SeqEqual
<1> QED BY <1>2, <1>5 DEF body

-----------------------------------------------------------------------------
(* The invariant.                                                           *)

LEMMA SqliteInitInv == Init => SqliteInv
<1> SUFFICES ASSUME Init PROVE SqliteInv
  OBVIOUS
<1> USE DEF Init
<1>1. TypeOK
  <2>1. crashed \in BOOLEAN
    BY Zenon
  <2> QED BY <2>1, ConstantsAssumption DEF TypeOK
<1>2. RowsAsMeant /\ OwnUntouched /\ CleanSeqsDistinct /\ SeqsInTx /\ MarksBelow
  BY DEF RowsAsMeant, OwnUntouched, CleanSeqsDistinct, SeqsDistinct, SeqsInTx, MarksBelow,
         Numbered, Usable
<1> QED BY <1>1, <1>2 DEF SqliteInv

(* Steps that only read, and those of iterators.                            *)
LEMMA ReadStep ==
    ASSUME SqliteInv, UNCHANGED <<conn, docs, meta, tx, call, mark, after>>,
           it' \in [Threads -> Iters \cup {NoIter}], crashed' \in BOOLEAN
    PROVE  SqliteInv'
<1> USE DEF SqliteInv
<1>1. TypeOK'
  BY DEF TypeOK
<1>2. RowsAsMeant' /\ CleanSeqsDistinct'
  BY DEF RowsAsMeant, CleanSeqsDistinct, SeqsDistinct, AsMeant
<1>3. OwnUntouched'
  BY DEF OwnUntouched, Alone
<1>4. SeqsInTx' /\ MarksBelow'
  BY DEF SeqsInTx, MarksBelow, SeqsDistinct, Numbered, Usable, Owns
<1> QED BY <1>1, <1>2, <1>3, <1>4

(* A put or replace begins, with or without a transaction of its own.  With *)
(* one, no other transaction is open.                                       *)
LEMMA CallBegins ==
    ASSUME SqliteInv, NEW t \in Threads, NEW x \in Calls, NEW ok \in BOOLEAN, x.own = ok,
           call[t] = NoCall, ok => CanBegin(conn[t]),
           x.at \in {"seq", "write"}, x.at = "seq" <=> x.op = "put",
           AsMeant(x.row), x.at = "seq" => x.row.meant.hist = <<>>,
           tx' = (IF ok THEN [tx EXCEPT ![conn[t]] = [by |-> t, docs |-> docs, meta |-> meta]] ELSE tx),
           call' = [call EXCEPT ![t] = x],
           UNCHANGED <<conn, docs, meta, after, it, mark, crashed>>
    PROVE  SqliteInv'
<1> USE DEF SqliteInv
<1> DEFINE c == conn[t]
           y == [by |-> t, docs |-> docs, meta |-> meta]
<1>1. /\ c \in Conns /\ y \in Txs /\ y # NoTx /\ conn \in [Threads -> Conns]
      /\ y.by = t /\ y.docs = docs /\ y.meta = meta
  BY ConstantsAssumption, NothingAssumption DEF TypeOK, Txs
<1>2. ok => \A d \in Conns : tx[d] = NoTx
  BY <1>1 DEF CanBegin, CanWrite, LockedOut
<1>3. \A d \in Conns : tx'[d] = IF ok /\ d = c THEN y ELSE tx[d]
  BY <1>1 DEF TypeOK
<1>4. \A u \in Threads : call'[u] = IF u = t THEN x ELSE call[u]
  BY DEF TypeOK
<1>5. TypeOK'
  BY <1>1, <1>2, <1>3 DEF TypeOK
<1> HIDE DEF c, y
<1>6. RowsAsMeant'
  BY <1>1, <1>3, <1>4 DEF RowsAsMeant, AsMeant, TypeOK
<1>7. OwnUntouched'
  BY <1>1, <1>2, <1>3, <1>4 DEF OwnUntouched, Alone, c
<1>8. CleanSeqsDistinct'
  BY DEF CleanSeqsDistinct, SeqsDistinct
<1>9. ASSUME NEW u \in Threads, Numbered(u)'
      PROVE  ~ok /\ Numbered(u) /\ call'[u] = call[u] /\ tx'[conn[u]] = tx[conn[u]]
  BY <1>1, <1>2, <1>3, <1>4, <1>9 DEF Numbered, Owns, c
<1>10. SeqsInTx'
  BY <1>1, <1>3, <1>9 DEF SeqsInTx, SeqsDistinct, CleanSeqsDistinct
<1>11. MarksBelow'
  BY <1>1, <1>3, <1>9 DEF MarksBelow, Usable
<1> QED BY <1>5, <1>6, <1>7, <1>8, <1>10, <1>11

(* A call returns without having committed, and the transaction of its      *)
(* connection is rolled back or left alone.                                 *)
LEMMA CallEnds ==
    ASSUME SqliteInv, NEW t \in Threads, Rollback(conn[t]) \/ UNCHANGED tx,
           call' = [call EXCEPT ![t] = NoCall],
           UNCHANGED <<conn, docs, meta, after, it, mark, crashed>>
    PROVE  SqliteInv'
<1> USE DEF SqliteInv
<1> DEFINE c == conn[t]
<1>1. c \in Conns /\ conn \in [Threads -> Conns]
  BY ConstantsAssumption DEF TypeOK
<1>2. tx' \in [Conns -> Txs \cup {NoTx}] /\ \A d \in Conns : tx'[d] # NoTx => tx'[d] = tx[d]
  BY <1>1 DEF TypeOK, Rollback
<1>3. \A u \in Threads : call'[u] # NoCall => u # t /\ call'[u] = call[u]
  BY DEF TypeOK
<1>4. \A d \in Conns \ {c} : tx'[d] = tx[d]
  BY <1>1 DEF TypeOK, Rollback
<1>5. TypeOK'
  BY <1>1, <1>2 DEF TypeOK
<1>6. RowsAsMeant'
  BY <1>1, <1>2, <1>3 DEF RowsAsMeant, AsMeant
<1>7. OwnUntouched'
  BY <1>1, <1>3, <1>4 DEF OwnUntouched, Alone
<1>8. CleanSeqsDistinct'
  BY DEF CleanSeqsDistinct, SeqsDistinct
<1>9. ASSUME NEW u \in Threads, Numbered(u)'
      PROVE  Numbered(u) /\ call'[u] = call[u] /\ tx'[conn[u]] = tx[conn[u]]
  BY <1>1, <1>2, <1>3, <1>9 DEF Numbered, Owns
<1>10. SeqsInTx'
  BY <1>1, <1>2, <1>9 DEF SeqsInTx, SeqsDistinct
<1>11. MarksBelow'
  BY <1>1, <1>2, <1>9 DEF MarksBelow, Usable
<1> QED BY <1>5, <1>6, <1>7, <1>8, <1>10, <1>11

LEMMA ViewType ==
    ASSUME SqliteInv, NEW c \in Conns
    PROVE  /\ View(c).docs \in [Keys -> Rows \cup {NoRow}] /\ View(c).meta \in Nat
           /\ \A k \in Keys : View(c).docs[k] # NoRow => AsMeant(View(c).docs[k])
BY NothingAssumption DEF SqliteInv, TypeOK, RowsAsMeant, View, Txs

(* A put goes on to its next SELECT or to its INSERT, having read the       *)
(* sequence or the old row: only its own record changes.                    *)
LEMMA PutProceeds ==
    ASSUME SqliteInv, NEW t \in Threads, NEW x, x = call[t], x # NoCall, x \in Calls, NEW z \in Calls,
           call' = [call EXCEPT ![t] = z], NEW c, c = conn[t],
           UNCHANGED <<conn, docs, meta, after, tx, it, mark, crashed>>,
           z.op = x.op, z.own = x.own, z.key = x.key, AsMeant(z.row), z.at \in {"check", "write"},
           z.at = "check" => z.row.meant.hist = <<>>,
           z.at = "write" => z.old = View(c).docs[z.key],
           \/ x.at = "seq" /\ z.row.seq = View(c).meta
           \/ x.at = "check" /\ z.row.seq = x.row.seq
    PROVE  SqliteInv'
<1> USE DEF SqliteInv
<1>1. /\ c \in Conns /\ conn \in [Threads -> Conns] /\ z # NoCall /\ x.op = "put"
      /\ call'[t] = z /\ \A u \in Threads : u # t => call'[u] = call[u]
  BY ConstantsAssumption, NothingAssumption DEF TypeOK, RowsAsMeant
<1>2. TypeOK'
  BY DEF TypeOK
<1>3. RowsAsMeant'
  <2>1. /\ \A k \in Keys : docs'[k] # NoRow => AsMeant(docs'[k])
        /\ \A d \in Conns, k \in Keys :
              (tx'[d] # NoTx /\ tx'[d].docs[k] # NoRow) => AsMeant(tx'[d].docs[k])
    BY DEF RowsAsMeant, AsMeant
  <2>2. ASSUME NEW u \in Threads, call'[u] # NoCall
        PROVE  /\ AsMeant(call'[u].row)
               /\ call'[u].at \in {"seq", "check"} =>
                     call'[u].row.meant.hist = <<>> /\ call'[u].op = "put"
    <3>1. CASE u = t
      BY <1>1, <3>1 DEF AsMeant
    <3>2. CASE u # t
      BY <1>1, <2>2, <3>2 DEF RowsAsMeant, AsMeant
    <3> QED BY <3>1, <3>2
  <2> QED BY <2>1, <2>2 DEF RowsAsMeant, AsMeant
<1>4. OwnUntouched'
  <2>1. ASSUME z.own, Alone(t)
        PROVE  /\ tx[c] # NoTx /\ tx[c].by = t /\ tx[c].docs = docs /\ tx[c].meta = meta
               /\ z.row.seq = meta /\ (z.at = "write" => z.old = docs[z.key])
    <3>1. /\ tx[c] # NoTx /\ tx[c].by = t /\ tx[c].docs = docs /\ tx[c].meta = meta
          /\ x.at = "check" => x.row.seq = meta
      BY <1>1, <2>1 DEF OwnUntouched
    <3>2. View(c).docs = docs /\ View(c).meta = meta
      BY <3>1 DEF View
    <3> QED BY <3>1, <3>2
  <2>2. \A u \in Threads : Alone(u)' <=> Alone(u)
    BY DEF Alone
  <2> QED BY <1>1, <2>1, <2>2 DEF OwnUntouched
<1>5. CleanSeqsDistinct'
  BY DEF CleanSeqsDistinct, SeqsDistinct
<1>6. ASSUME NEW u \in Threads, Numbered(u)'
      PROVE  /\ tx[conn[u]] # NoTx
             /\ \/ Numbered(u) /\ call'[u].row.seq = call[u].row.seq
                \/ call'[u].row.seq = tx[conn[u]].meta
  <2>1. CASE u = t
    BY <1>1, <1>6, <2>1 DEF Numbered, Owns, View
  <2>2. CASE u # t
    BY <1>1, <1>6, <2>2 DEF Numbered, Owns
  <2> QED BY <2>1, <2>2
<1>7. SeqsInTx'
  <2>1. \A d \in Conns : tx'[d] # NoTx => SeqsDistinct(tx[d].docs, tx[d].meta)
    BY DEF SeqsInTx
  <2>2. ASSUME NEW u \in Threads, Numbered(u)'
        PROVE  /\ call'[u].row.seq <= tx[conn[u]].meta
               /\ \A k \in Keys : (tx[conn[u]].docs[k] # NoRow /\ tx[conn[u]].docs[k].clean) =>
                     tx[conn[u]].docs[k].seq < call'[u].row.seq
    <3>1. CASE Numbered(u) /\ call'[u].row.seq = call[u].row.seq
      BY <3>1 DEF SeqsInTx
    <3>2. CASE call'[u].row.seq = tx[conn[u]].meta
      <4>1. conn[u] \in Conns /\ tx[conn[u]] # NoTx /\ tx[conn[u]] \in Txs
        BY <1>1, <1>6, <2>2 DEF TypeOK
      <4>2. tx[conn[u]].meta \in Nat
        BY <4>1 DEF Txs
      <4> QED BY <2>1, <3>2, <4>1, <4>2 DEF SeqsDistinct
    <3> QED BY <1>6, <2>2, <3>1, <3>2
  <2> QED BY <2>1, <2>2 DEF SeqsInTx, SeqsDistinct
<1>8. MarksBelow'
  BY <1>1, <1>6 DEF MarksBelow, Usable
<1> QED BY <1>2, <1>3, <1>4, <1>5, <1>7, <1>8

LEMMA PutReadsSeqInv ==
    ASSUME SqliteInv, NEW t \in Threads, PutReadsSeq(t)
    PROVE  SqliteInv'
<1> USE DEF SqliteInv
<1> DEFINE c == conn[t]
           x == call[t]
<1>1. PICK v : v = View(c).meta
  OBVIOUS
<1>2. /\ c \in Conns /\ x # NoCall /\ x.at = "seq" /\ x \in Calls /\ x.row \in Rows
      /\ UNCHANGED <<conn, docs, meta, after, tx, it, mark, crashed>>
  BY <1>1, ConstantsAssumption DEF TypeOK, PutReadsSeq, tables, At, Calls
<1> DEFINE row == [x.row EXCEPT !.seq = v]
           z   == [x EXCEPT !.at = "check", !.row = row]
<1>3. call' = [call EXCEPT ![t] = z]
  <2>1. [x EXCEPT !.at = "check", !.row.seq = v] = z
    BY <1>2 DEF Calls
  <2>2. call' = [call EXCEPT ![t].at = "check", ![t].row.seq = v]
    BY <1>1 DEF PutReadsSeq
  <2> QED BY <2>1, <2>2
<1>4. v \in Nat
  BY <1>1, <1>2, ViewType
<1>5. row \in Rows /\ row.seq = v /\ row.meant = x.row.meant /\ row.oldrevs = x.row.oldrevs
      /\ row.doc = x.row.doc
  BY <1>2, <1>4 DEF Rows
<1> HIDE DEF row
<1>6. /\ z \in Calls /\ z.at = "check" /\ z.op = x.op /\ z.own = x.own /\ z.key = x.key /\ z.row = row
  BY <1>2, <1>5 DEF Calls
<1> HIDE DEF z
<1>7. AsMeant(z.row) /\ z.row.meant.hist = <<>>
  BY <1>2, <1>5, <1>6 DEF RowsAsMeant, AsMeant
<1>8. z.row.seq = View(c).meta
  BY <1>1, <1>5, <1>6
<1> HIDE DEF x, c
<1> QED BY <1>2, <1>3, <1>6, <1>7, <1>8, PutProceeds DEF x, c

(* Linking the old row's history, put keeps a row as it is meant.           *)
LEMMA LinkedRow ==
    ASSUME NEW row \in Rows, NEW old \in Rows, AsMeant(row), AsMeant(old), row.meant.hist = <<>>
    PROVE  Linked(row, old) \in Rows /\ AsMeant(Linked(row, old)) /\ Linked(row, old).seq = row.seq
<1> DEFINE hist  == old.meant.hist
           n     == IF Len(hist) > MaxRevs THEN MaxRevs ELSE Len(hist)
           cells == PutCells(row.doc, old.rev, old.oldrevs)
           new   == Linked(row, old)
<1>1. /\ row.doc \in Seq(Cells) /\ old.rev \in Cells /\ old.rev \in Revs /\ old.oldrevs \in Seq(Cells)
      /\ hist \in Seq(Revs) /\ MaxRevs \in Nat \ {0} /\ Len(hist) \in Nat
      /\ row.doc = row.meant.body
  BY ConstantsAssumption DEF Rows, Cells, AsMeant
<1>2. cells.oldrevs \in Seq(Cells) /\ cells.doc \in Seq(Cells)
  BY <1>1, PutCellsType
<1>3. MeantHistory(old) = <<old.rev>> \o SubSeq(hist, 1, n)
  BY DEF MeantHistory
<1> HIDE DEF hist
<1>4. SubSeq(hist, 1, n) \in Seq(Revs) /\ Len(SubSeq(hist, 1, n)) = n /\ n \in Nat
  BY <1>1
<1>5. MeantHistory(old) \in Seq(Revs) /\ Len(MeantHistory(old)) = n + 1
  BY <1>1, <1>3, <1>4
<1>5a. new = [row EXCEPT !.oldrevs = cells.oldrevs, !.doc = cells.doc,
                          !.meant = [row.meant EXCEPT !.hist = MeantHistory(old)]]
  BY DEF Linked, Rows
<1> HIDE DEF cells, new
<1>6. /\ new \in Rows /\ new.seq = row.seq /\ new.oldrevs = cells.oldrevs /\ new.doc = cells.doc
      /\ new.meant.hist = MeantHistory(old) /\ new.meant.body = row.meant.body
  BY <1>2, <1>5, <1>5a DEF Rows
<1>7. ASSUME Len(MeantHistory(old)) <= MaxRevs
      PROVE  cells.oldrevs = MeantHistory(old) /\ cells.doc = row.meant.body
  <2>1. n = Len(hist) /\ Len(hist) < MaxRevs
    BY <1>1, <1>4, <1>5, <1>7
  <2>2. SubSeq(hist, 1, n) = hist
    BY <1>1, <2>1, SubSeqFull
  <2>3. old.oldrevs = hist
    BY <1>1, <2>1 DEF AsMeant, hist
  <2>4. cells = [oldrevs |-> <<old.rev>> \o hist, doc |-> row.doc]
    BY <1>1, <2>1, <2>3, PutCellsLinks DEF cells
  <2> QED BY <1>1, <1>3, <2>2, <2>4
<1> QED BY <1>6, <1>7 DEF AsMeant, new

LEMMA PutChecksInv ==
    ASSUME SqliteInv, NEW t \in Threads, PutChecks(t)
    PROVE  SqliteInv'
<1> USE DEF SqliteInv
<1> DEFINE c   == conn[t]
           x   == call[t]
           old == View(c).docs[x.key]
           row == IF old = NoRow THEN x.row ELSE Linked(x.row, old)
           z   == [x EXCEPT !.at = "write", !.rev = NoRev, !.old = old, !.row = row]
<1>1. /\ c \in Conns /\ conn \in [Threads -> Conns] /\ x # NoCall /\ x.at = "check" /\ x \in Calls
      /\ UNCHANGED <<conn, docs, meta, after, tx, it, mark, crashed>>
      /\ x.key \in Keys /\ x.row \in Rows
  BY ConstantsAssumption DEF TypeOK, PutChecks, tables, At, Calls
<1>2. call' = [call EXCEPT ![t] = z]
  <2>1. call' = [call EXCEPT ![t].at = "write", ![t].rev = NoRev, ![t].old = old, ![t].row = row]
    BY DEF PutChecks
  <2> HIDE DEF row, old
  <2> QED BY <2>1 DEF TypeOK
<1>3. /\ old \in Rows \cup {NoRow}
      /\ old # NoRow => AsMeant(old)
      /\ AsMeant(x.row) /\ x.row.meant.hist = <<>> /\ x.op = "put"
  BY <1>1, ViewType DEF RowsAsMeant
<1>4. row \in Rows /\ AsMeant(row) /\ row.seq = x.row.seq
  <2>1. CASE old = NoRow
    BY <1>1, <1>3, <2>1
  <2>2. CASE old # NoRow
    <3> HIDE DEF x, old
    <3> QED BY <1>1, <1>3, <2>2, LinkedRow
  <2> QED BY <2>1, <2>2
<1> HIDE DEF row, old
<1>5. /\ z \in Calls /\ z.at = "write" /\ z.op = x.op /\ z.own = x.own /\ z.key = x.key
      /\ z.row = row /\ z.old = old
  BY <1>1, <1>3, <1>4 DEF Calls
<1> HIDE DEF z
<1>6. z.old = View(c).docs[z.key]
  BY <1>5 DEF old
<1> HIDE DEF x, c
<1> QED BY <1>1, <1>2, <1>4, <1>5, <1>6, PutProceeds DEF x, c

(* The INSERT.  Outside a transaction the row is committed at once, and it  *)
(* is not clean; inside one, it is clean only if its call began it.         *)
LEMMA WritesInv ==
    ASSUME SqliteInv, NEW t \in Threads, Writes(t)
    PROVE  SqliteInv'
<1> USE DEF SqliteInv
<1> DEFINE c == conn[t]
           x == call[t]
           k == x.key
           r == [x.row EXCEPT !.clean = (x.op = "put" /\ Owns(t))]
           z == [x EXCEPT !.at = "commit", !.old = NoRow, !.row = r]
<1>1. /\ c \in Conns /\ conn \in [Threads -> Conns] /\ x # NoCall /\ x.at = "write" /\ x \in Calls
      /\ k \in Keys /\ x.row \in Rows /\ AsMeant(x.row)
      /\ UNCHANGED <<conn, mark, crashed>>
  BY ConstantsAssumption DEF TypeOK, Writes, At, Calls, RowsAsMeant
<1>2. (x.op = "put" /\ Owns(t)) \in BOOLEAN
  BY Zenon
<1>3. /\ r \in Rows /\ r # NoRow /\ r.clean = (x.op = "put" /\ Owns(t)) /\ r.seq = x.row.seq /\ AsMeant(r)
  <2>1. PICK clean \in BOOLEAN : clean = (x.op = "put" /\ Owns(t))
    BY <1>2
  <2>2. r = [x.row EXCEPT !.clean = clean]
    BY <2>1
  <2> HIDE DEF r
  <2>3. r \in Rows /\ r.clean = clean /\ r.seq = x.row.seq /\ AsMeant(r)
    BY <1>1, <2>2 DEF Rows, AsMeant
  <2> QED BY <2>1, <2>3, NothingAssumption
<1>4. /\ r.clean => Numbered(t)
      /\ \A u \in Threads : r.clean /\ u # t => ~Numbered(u) \/ conn[u] # c
  BY <1>1, <1>3 DEF Numbered, Owns
<1> HIDE DEF r
<1>5. call' = [call EXCEPT ![t] = z]
  <2>1. [View(c).docs EXCEPT ![k] = r][k] = r
    BY <1>1, ViewType
  <2>2. call' = [call EXCEPT ![t].at = "commit", ![t].old = NoRow, ![t].row = r]
    BY <2>1 DEF Writes, r
  <2> QED BY <2>2 DEF TypeOK
<1>6. /\ z \in Calls /\ z # NoCall /\ z.at = "commit" /\ z.own = x.own /\ z.key = k /\ z.row = r
      /\ z.op = x.op
  BY <1>1, <1>3, NothingAssumption DEF Calls
<1> HIDE DEF z
<1>7. call'[t] = z /\ \A u \in Threads : u # t => call'[u] = call[u]
  BY <1>5 DEF TypeOK
<1>8. it' \in [Threads -> Iters \cup {NoIter}]
  <2>1. it' = [u \in Threads |->
                 IF conn[u] = c /\ it[u] # NoIter THEN [it[u] EXCEPT !.seen = @ \ {k}] ELSE it[u]]
    BY DEF Writes
  <2> QED BY <1>1, <2>1 DEF TypeOK, Iters
<1>9. CanWrite(c)
  BY DEF Writes
<1>10. CASE tx[c] = NoTx
  <2>1. /\ docs' = [docs EXCEPT ![k] = r] /\ meta' = meta + 1 /\ UNCHANGED tx
        /\ after' = [u \in Threads |-> IF mark[u] = NoMark THEN {}
                                       ELSE after[u] \cup {j \in Keys : docs'[j] # docs[j]}]
    BY <1>10 DEF Writes, Commit, View, OnInsert, r
  <2>2. \A d \in Conns : tx[d] = NoTx
    BY <1>9, <1>10 DEF CanWrite, LockedOut
  <2>3. ~r.clean /\ meta \in Nat /\ \A j \in Keys : docs'[j] = IF j = k THEN r ELSE docs[j]
    BY <1>1, <1>3, <1>10, <2>1 DEF Owns, TypeOK
  <2>4. TypeOK'
    <3>1. after' \in [Threads -> SUBSET Keys]
      BY <2>1 DEF TypeOK
    <3>2. docs' \in [Keys -> Rows \cup {NoRow}] /\ meta' \in Nat
      BY <1>1, <1>3, <2>1 DEF TypeOK
    <3>3. call' \in [Threads -> Calls \cup {NoCall}]
      BY <1>5, <1>6 DEF TypeOK
    <3> QED BY <1>1, <1>8, <2>1, <3>1, <3>2, <3>3 DEF TypeOK
  <2>5. RowsAsMeant'
    BY <1>1, <1>3, <1>6, <1>7, <2>1, <2>2, <2>3 DEF RowsAsMeant, AsMeant
  <2>6. OwnUntouched'
    <3>1. ASSUME NEW u \in Threads, call'[u] # NoCall, call'[u].own, Alone(u)' PROVE FALSE
      <4>1. call[u] # NoCall /\ call[u].own /\ Alone(u)
        BY <1>1, <1>6, <1>7, <3>1 DEF Alone
      <4>2. tx[conn[u]] # NoTx /\ conn[u] \in Conns
        BY <1>1, <4>1 DEF OwnUntouched
      <4> QED BY <2>2, <4>2
    <3> QED BY <3>1 DEF OwnUntouched
  <2>7. CleanSeqsDistinct'
    BY <2>1, <2>3 DEF CleanSeqsDistinct, SeqsDistinct, TypeOK, Rows
  <2>8. \A u \in Threads : ~Numbered(u)'
    BY <1>1, <2>1, <2>2 DEF Numbered, Owns
  <2>9. SeqsInTx'
    BY <2>1, <2>2, <2>8 DEF SeqsInTx
  <2>10. MarksBelow'
    <3>1. ASSUME NEW u \in Threads, Usable(u)
          PROVE  /\ mark[u].seq <= meta'
                 /\ \A j \in after'[u] : docs'[j].clean => mark[u].seq <= docs'[j].seq
      <4>1. mark[u].seq \in Nat /\ mark[u].seq <= meta
        BY <3>1 DEF MarksBelow, Usable, TypeOK, Marks
      <4>2. after'[u] = after[u] \cup {j \in Keys : docs'[j] # docs[j]} /\ after[u] \subseteq Keys
        BY <2>1, <3>1 DEF Usable, TypeOK
      <4> QED BY <2>1, <2>3, <3>1, <4>1, <4>2 DEF MarksBelow
    <3> QED BY <1>1, <2>1, <2>2, <2>8, <3>1 DEF MarksBelow, Usable
  <2> QED BY <2>4, <2>5, <2>6, <2>7, <2>9, <2>10
<1>11. CASE tx[c] # NoTx
  <2> DEFINE y == tx[c]
             w == tx'[c]
  <2>1. /\ y \in Txs /\ \A d \in Conns : tx[d] # NoTx => d = c
        /\ UNCHANGED <<docs, meta, after>>
        /\ tx' = [tx EXCEPT ![c].docs = [y.docs EXCEPT ![k] = r], ![c].meta = y.meta + 1]
    BY <1>1, <1>11 DEF Writes, View, OnInsert, tables, r, TypeOK
  <2>2. /\ w = [y EXCEPT !.docs = [y.docs EXCEPT ![k] = r], !.meta = y.meta + 1]
        /\ tx' = [tx EXCEPT ![c] = w] /\ \A d \in Conns \ {c} : tx'[d] = NoTx
        /\ tx'[c] = w /\ tx[c] = y
    BY <1>1, <2>1 DEF TypeOK
  <2> HIDE DEF w, y
  <2>3. /\ w \in Txs /\ w.by = y.by /\ w.docs = [y.docs EXCEPT ![k] = r] /\ w.meta = y.meta + 1 /\ w # NoTx
        /\ y.meta \in Nat /\ y.docs \in [Keys -> Rows \cup {NoRow}]
    <3>1. y.docs \in [Keys -> Rows \cup {NoRow}] /\ y.meta \in Nat
      BY <2>1 DEF Txs
    <3>2. [y.docs EXCEPT ![k] = r] \in [Keys -> Rows \cup {NoRow}] /\ y.meta + 1 \in Nat
      BY <1>1, <1>3, <3>1
    <3>3. w.by = y.by /\ w.docs = [y.docs EXCEPT ![k] = r] /\ w.meta = y.meta + 1 /\ w \in Txs
      BY <2>1, <2>2, <3>2 DEF Txs
    <3> QED BY <3>1, <3>3, NothingAssumption
  <2>4. \A j \in Keys : w.docs[j] = IF j = k THEN r ELSE y.docs[j]
    BY <2>3
  <2>5. TypeOK'
    <3>1. tx' \in [Conns -> Txs \cup {NoTx}] /\ \A d, e \in Conns : tx'[d] # NoTx /\ tx'[e] # NoTx => d = e
      BY <1>1, <2>2, <2>3 DEF TypeOK
    <3>2. call' \in [Threads -> Calls \cup {NoCall}]
      BY <1>5, <1>6 DEF TypeOK
    <3> QED BY <1>1, <1>8, <2>1, <3>1, <3>2 DEF TypeOK
  <2>6. RowsAsMeant'
    <3>1. \A j \in Keys : docs'[j] # NoRow => AsMeant(docs'[j])
      BY <2>1 DEF RowsAsMeant
    <3>2. \A j \in Keys : w.docs[j] # NoRow => AsMeant(w.docs[j])
      BY <1>1, <1>3, <1>11, <2>2, <2>4 DEF RowsAsMeant
    <3>3. \A d \in Conns, j \in Keys :
              (tx'[d] # NoTx /\ tx'[d].docs[j] # NoRow) => AsMeant(tx'[d].docs[j])
      BY <2>2, <3>2
    <3>4. ASSUME NEW u \in Threads, call'[u] # NoCall
          PROVE  /\ AsMeant(call'[u].row)
                 /\ call'[u].at \in {"seq", "check"} =>
                       call'[u].row.meant.hist = <<>> /\ call'[u].op = "put"
      BY <1>3, <1>6, <1>7, <3>4 DEF RowsAsMeant
    <3> QED BY <3>1, <3>3, <3>4 DEF RowsAsMeant, AsMeant
  <2>7. OwnUntouched'
    <3>1. ASSUME NEW u \in Threads, call'[u] # NoCall, call'[u].own, Alone(u)'
          PROVE  u = t /\ y.by = t /\ y.docs = docs /\ y.meta = meta
      <4>1. call[u] # NoCall /\ call[u].own /\ Alone(u)
        BY <1>1, <1>6, <1>7, <3>1 DEF Alone
      <4>2. tx[conn[u]] # NoTx /\ tx[conn[u]].by = u /\ conn[u] \in Conns
        BY <1>1, <4>1 DEF OwnUntouched
      <4>3. conn[u] = c
        BY <2>1, <4>2
      <4>4. u = t
        BY <4>1, <4>3 DEF Alone
      <4> QED BY <2>2, <1>1, <4>1, <4>2, <4>4 DEF OwnUntouched
    <3>2. ASSUME NEW u \in Threads, call'[u] # NoCall, call'[u].own, Alone(u)'
          PROVE  /\ tx'[conn'[u]] # NoTx /\ tx'[conn'[u]].by = u /\ call'[u].at = "commit"
                 /\ tx'[conn'[u]].docs = [docs' EXCEPT ![call'[u].key] = call'[u].row]
                 /\ tx'[conn'[u]].meta = meta' + 1
      <4>1. tx'[conn'[u]] = w /\ call'[u] = z /\ docs' = docs /\ meta' = meta /\ y.by = u
            /\ y.docs = docs /\ y.meta = meta
        BY <1>1, <1>7, <2>1, <2>2, <3>1, <3>2
      <4> QED BY <1>6, <2>3, <4>1
    <3> QED BY <3>2 DEF OwnUntouched
  <2>8. CleanSeqsDistinct'
    BY <2>1 DEF CleanSeqsDistinct, SeqsDistinct
  <2>9. ASSUME NEW u \in Threads, Numbered(u)'
        PROVE  u # t /\ Numbered(u) /\ call'[u] = call[u] /\ conn[u] = c /\ ~r.clean
    <3>1. u # t
      BY <1>6, <1>7, <2>9 DEF Numbered
    <3>2. call'[u] = call[u] /\ conn'[u] = conn[u]
      BY <1>1, <1>7, <3>1
    <3>3. conn[u] = c
      BY <1>1, <2>2, <2>9, <3>2 DEF Numbered, Owns
    <3>4. Numbered(u)
      <4>1. tx'[conn'[u]] = w /\ tx[conn[u]] = y
        BY <2>2, <3>2, <3>3
      <4>2. y.by = u /\ call[u] # NoCall /\ call[u].own
            /\ call[u].op = "put" /\ call[u].at \in {"check", "write"}
        BY <2>3, <2>9, <3>2, <4>1 DEF Numbered, Owns
      <4> QED BY <1>11, <2>2, <4>1, <4>2 DEF Numbered, Owns
    <3> QED BY <1>4, <3>1, <3>2, <3>3, <3>4
  <2>10. ASSUME NEW j \in Keys, y.docs[j] # NoRow, y.docs[j].clean
         PROVE  /\ y.docs[j].seq \in Nat /\ y.docs[j].seq < y.meta
                /\ r.clean => y.docs[j].seq < r.seq
                /\ \A i \in Keys \ {j} :
                      (y.docs[i] # NoRow /\ y.docs[i].clean) => y.docs[j].seq # y.docs[i].seq
    <3>1. y.docs[j].seq \in Nat
      BY <2>3, <2>10 DEF Rows
    <3>2. SeqsDistinct(y.docs, y.meta)
      BY <1>1, <1>11, <2>2 DEF SeqsInTx
    <3>3. r.clean => y.docs[j].seq < r.seq
      BY <1>3, <1>4, <2>2, <2>10 DEF SeqsInTx
    <3> QED BY <2>10, <3>1, <3>2, <3>3 DEF SeqsDistinct
  <2>11. r.seq \in Nat /\ r.clean => r.seq <= y.meta
    BY <2>2, <1>1, <1>3, <1>4 DEF SeqsInTx, Rows
  <2>12. SeqsInTx'
    <3>1. SeqsDistinct(w.docs, w.meta)
      <4> SUFFICES ASSUME NEW j \in Keys, w.docs[j] # NoRow, w.docs[j].clean
                   PROVE  /\ w.docs[j].seq < y.meta + 1
                          /\ \A i \in Keys \ {j} :
                                (w.docs[i] # NoRow /\ w.docs[i].clean) => w.docs[j].seq # w.docs[i].seq
        BY <2>3 DEF SeqsDistinct
      <4>1. r.seq \in Nat /\ y.meta \in Nat
        BY <1>1, <1>3, <2>3 DEF Rows
      <4>2. CASE j = k
        BY <2>4, <2>10, <2>11, <4>1, <4>2
      <4>3. CASE j # k
        BY <2>4, <2>10, <4>1, <4>3
      <4> QED BY <4>2, <4>3
    <3>2. ASSUME NEW u \in Threads, Numbered(u)'
          PROVE  /\ call'[u].row.seq <= w.meta
                 /\ \A j \in Keys : (w.docs[j] # NoRow /\ w.docs[j].clean) =>
                       w.docs[j].seq < call'[u].row.seq
      <4>1. call[u] \in Calls /\ call[u].row.seq \in Nat /\ call[u].row.seq <= y.meta
        BY <2>2, <2>9, <3>2, ZenonT(40) DEF TypeOK, Numbered, Calls, Rows, SeqsInTx
      <4> QED BY <2>2, <2>3, <2>4, <2>9, <3>2, <4>1 DEF SeqsInTx
    <3> QED BY <1>1, <2>2, <2>9, <3>1, <3>2 DEF SeqsInTx, SeqsDistinct
  <2>13. MarksBelow'
    <3>1. ASSUME NEW u \in Threads, Usable(u)
          PROVE  /\ mark[u].seq <= w.meta
                 /\ \A j \in Keys : (w.docs[j] # docs[j] /\ w.docs[j].clean) => mark[u].seq <= w.docs[j].seq
      <4>1. mark[u].seq \in Nat /\ mark[u].seq <= y.meta
        BY <2>2, <1>1, <1>11, <3>1 DEF MarksBelow, Usable, TypeOK, Marks
      <4>2. r.clean => mark[u].seq <= r.seq
        BY <1>3, <1>4, <3>1 DEF MarksBelow
      <4> QED BY <2>2, <1>1, <1>11, <2>3, <2>4, <3>1, <4>1, <4>2 DEF MarksBelow
    <3> QED BY <1>1, <2>1, <2>2, <2>9, <3>1, ZenonT(40) DEF MarksBelow, Usable
  <2> QED BY <2>5, <2>6, <2>7, <2>8, <2>12, <2>13
<1> QED BY <1>10, <1>11

(* COMMIT: the transaction becomes the database, and there is none left.    *)
LEMMA CommitsInv ==
    ASSUME SqliteInv, NEW t \in Threads, Commits(t)
    PROVE  SqliteInv'
<1> USE DEF SqliteInv
<1> DEFINE c == conn[t]
           y == tx[c]
<1>1. /\ c \in Conns /\ conn \in [Threads -> Conns] /\ Rollback(c)
      /\ call' = [call EXCEPT ![t] = NoCall] /\ UNCHANGED <<conn, it, mark, crashed>>
  BY ConstantsAssumption DEF TypeOK, Commits
<1>2. CASE y = NoTx
  <2>1. UNCHANGED <<docs, meta, after>>
    BY <1>2 DEF Commits, tables
  <2> QED BY <1>1, <2>1, CallEnds
<1>3. CASE y # NoTx
  <2>1. /\ docs' = y.docs /\ meta' = y.meta
        /\ after' = [u \in Threads |-> IF mark[u] = NoMark THEN {}
                                       ELSE after[u] \cup {k \in Keys : y.docs[k] # docs[k]}]
    BY <1>3 DEF Commits, Commit
  <2>2. y \in Txs /\ y.docs \in [Keys -> Rows \cup {NoRow}] /\ y.meta \in Nat
    BY <1>1, <1>3 DEF TypeOK, Txs
  <2>3. tx' \in [Conns -> Txs \cup {NoTx}] /\ \A d \in Conns : tx'[d] = NoTx
    BY <1>1, <1>3 DEF Rollback, TypeOK
  <2>4. \A u \in Threads : call'[u] # NoCall => u # t /\ call'[u] = call[u]
    BY <1>1 DEF TypeOK
  <2>5. TypeOK'
    <3>1. after' \in [Threads -> SUBSET Keys]
      BY <2>1 DEF TypeOK
    <3>2. call' \in [Threads -> Calls \cup {NoCall}]
      BY <1>1 DEF TypeOK
    <3> QED BY <1>1, <2>1, <2>2, <2>3, <3>1, <3>2 DEF TypeOK
  <2>6. RowsAsMeant'
    BY <1>1, <1>3, <2>1, <2>3, <2>4 DEF RowsAsMeant, AsMeant
  <2>7. OwnUntouched'
    <3>1. ASSUME NEW u \in Threads, call'[u] # NoCall, call'[u].own, Alone(u)' PROVE FALSE
      <4>1. u # t /\ call[u] # NoCall /\ call[u].own /\ Alone(u)
        BY <1>1, <2>4, <3>1 DEF Alone
      <4>2. tx[conn[u]] # NoTx /\ conn[u] \in Conns /\ conn[u] # c
        BY <1>1, <4>1 DEF OwnUntouched, Alone
      <4> QED BY <1>1, <1>3, <4>2 DEF TypeOK
    <3> QED BY <3>1 DEF OwnUntouched
  <2>8. CleanSeqsDistinct'
    BY <1>1, <1>3, <2>1 DEF CleanSeqsDistinct, SeqsInTx, SeqsDistinct
  <2>9. \A u \in Threads : ~Numbered(u)'
    BY <1>1, <2>3 DEF Numbered, Owns
  <2>10. SeqsInTx'
    BY <2>3, <2>9 DEF SeqsInTx
  <2>11. MarksBelow'
    <3>1. ASSUME NEW u \in Threads, Usable(u)
          PROVE  /\ mark[u].seq <= meta'
                 /\ \A j \in after'[u] : docs'[j].clean => mark[u].seq <= docs'[j].seq
      <4>1. /\ mark[u].seq <= y.meta
            /\ \A j \in Keys : (y.docs[j] # docs[j] /\ y.docs[j].clean) => mark[u].seq <= y.docs[j].seq
            /\ \A j \in after[u] : docs[j].clean => mark[u].seq <= docs[j].seq
        BY <1>1, <1>3, <3>1 DEF MarksBelow
      <4>2. after'[u] = after[u] \cup {j \in Keys : y.docs[j] # docs[j]} /\ after[u] \subseteq Keys
        BY <2>1, <3>1 DEF Usable, TypeOK
      <4> QED BY <2>1, <4>1, <4>2
    <3> QED BY <1>1, <2>3, <2>9, <3>1 DEF MarksBelow, Usable
  <2> QED BY <2>5, <2>6, <2>7, <2>8, <2>10, <2>11
<1> QED BY <1>2, <1>3

(* lastseq: a mark that can be used is taken when no transaction is open.   *)
LEMMA LastSeqInv ==
    ASSUME SqliteInv, NEW t \in Threads, LastSeq(t)
    PROVE  SqliteInv'
<1> USE DEF SqliteInv
<1> DEFINE c == conn[t]
           m == mark'[t]
<1>1. /\ c \in Conns /\ conn \in [Threads -> Conns]
      /\ UNCHANGED <<conn, docs, meta, tx, call, it, crashed>>
      /\ after' = [after EXCEPT ![t] = {}]
  BY ConstantsAssumption DEF TypeOK, LastSeq
<1>2. PICK inside \in BOOLEAN : inside = (tx[c] # NoTx)
  BY Zenon
<1>3. PICK n \in Nat : n = (IF CanRead(c) THEN View(c).meta ELSE 0)
  BY <1>1, ViewType
<1>4. mark' = [mark EXCEPT ![t] = [seq |-> n, inside |-> inside]]
  BY <1>2, <1>3 DEF LastSeq
<1>5. /\ m = [seq |-> n, inside |-> inside] /\ m \in Marks /\ m.seq = n /\ m.inside = inside
      /\ \A u \in Threads : u # t => mark'[u] = mark[u] /\ after'[u] = after[u]
      /\ after'[t] = {}
  BY <1>1, <1>4 DEF TypeOK, Marks
<1>6. TypeOK'
  BY <1>1, <1>4, <1>5 DEF TypeOK
<1>7. RowsAsMeant' /\ CleanSeqsDistinct'
  BY <1>1 DEF RowsAsMeant, AsMeant, CleanSeqsDistinct, SeqsDistinct
<1>8. OwnUntouched'
  BY <1>1 DEF OwnUntouched, Alone
<1>9. SeqsInTx' /\ \A u \in Threads : Numbered(u)' <=> Numbered(u)
  BY <1>1 DEF SeqsInTx, SeqsDistinct, Numbered, Owns
<1>10. Usable(t)' => n = meta /\ \A d \in Conns : tx[d] = NoTx
  <2> HIDE DEF m
  <2> SUFFICES ASSUME ~inside, n # 0 PROVE n = meta /\ \A d \in Conns : tx[d] = NoTx
    BY <1>5 DEF Usable, m
  <2>1. tx[c] = NoTx /\ CanRead(c)
    BY <1>2, <1>3
  <2> QED BY <1>3, <2>1 DEF View, CanRead, LockedOut
<1>11. ASSUME NEW u \in Threads, Numbered(u) PROVE conn[u] \in Conns /\ tx[conn[u]] # NoTx
  BY <1>1, <1>11 DEF Numbered, Owns
<1>12. MarksBelow'
  <2> HIDE DEF m
  <2>1. ASSUME NEW u \in Threads, Usable(u)'
        PROVE  /\ mark'[u].seq <= meta
               /\ \A k \in after'[u] : docs[k].clean => mark'[u].seq <= docs[k].seq
               /\ \A d \in Conns : tx[d] # NoTx =>
                     /\ mark'[u].seq <= tx[d].meta
                     /\ \A k \in Keys : (tx[d].docs[k] # docs[k] /\ tx[d].docs[k].clean) =>
                           mark'[u].seq <= tx[d].docs[k].seq
               /\ \A v \in Threads : Numbered(v) => mark'[u].seq <= call[v].row.seq
    <3>1. CASE u = t
      BY <1>5, <1>10, <1>11, <2>1, <3>1 DEF m
    <3>2. CASE u # t
      <4>1. Usable(u) /\ mark'[u] = mark[u] /\ after'[u] = after[u]
        BY <1>5, <2>1, <3>2 DEF Usable
      <4> QED BY <4>1 DEF MarksBelow
    <3> QED BY <3>1, <3>2
  <2> QED BY <1>1, <1>9, <2>1 DEF MarksBelow
<1> QED BY <1>6, <1>7, <1>8, <1>9, <1>12

LEMMA EmptyHistory ==
    \A S : <<>> \in Seq(S) /\ Len(<<>>) = 0
OBVIOUS

LEMMA PutBeginsInv ==
    ASSUME SqliteInv, NEW t \in Threads, NEW k \in Keys, NEW rev \in Revs \cup {NoRev}, NEW new \in Revs,
           NEW body \in Bodies, PutBegins(t, k, rev, new, body)
    PROVE  SqliteInv'
<1> DEFINE row == [rev |-> new, oldrevs |-> <<>>, seq |-> 0, doc_seq |-> 0, doc |-> body,
                   clean |-> FALSE, meant |-> [body |-> body, hist |-> <<>>]]
<1>1. PICK ok \in BOOLEAN :
          /\ ok => CanBegin(conn[t])
          /\ tx' = IF ok THEN [tx EXCEPT ![conn[t]] = [by |-> t, docs |-> docs, meta |-> meta]] ELSE tx
          /\ call' = [call EXCEPT ![t] =
                [op |-> "put", at |-> "seq", key |-> k, rev |-> rev, own |-> ok, old |-> NoRow,
                 row |-> row]]
  BY DEF PutBegins
<1>2. call[t] = NoCall /\ UNCHANGED <<conn, docs, meta, after, it, mark, crashed>>
  BY DEF PutBegins, Starts, Idle, tables
<1>3. body \in Seq(DataCells) /\ body \in Seq(Cells)
  BY ConstantsAssumption DEF Cells
<1>4. row \in Rows /\ AsMeant(row) /\ row.meant.hist = <<>>
  BY <1>3, EmptyHistory, ConstantsAssumption DEF Rows, AsMeant
<1> DEFINE x == [op |-> "put", at |-> "seq", key |-> k, rev |-> rev, own |-> ok, old |-> NoRow, row |-> row]
<1> HIDE DEF row
<1>5. x \in Calls /\ x.own = ok /\ x.at = "seq" /\ x.op = "put" /\ x.row = row
  BY <1>4 DEF Calls
<1>6. call' = [call EXCEPT ![t] = x]
  BY <1>1
<1> HIDE DEF x
<1> QED BY <1>1, <1>2, <1>4, <1>5, <1>6, CallBegins

LEMMA ReplaceBeginsInv ==
    ASSUME SqliteInv, NEW t \in Threads, NEW k \in Keys, NEW new \in Revs, NEW n \in DocSeqs,
           NEW body \in Bodies, NEW revs \in Histories, ReplaceBegins(t, k, new, n, body, revs)
    PROVE  SqliteInv'
<1> DEFINE row == [rev |-> new, oldrevs |-> revs, seq |-> 0, doc_seq |-> n, doc |-> body,
                   clean |-> FALSE, meant |-> [body |-> body, hist |-> revs]]
           x == [op |-> "replace", at |-> "write", key |-> k, rev |-> NoRev, own |-> TRUE, old |-> NoRow,
                 row |-> row]
<1>1. /\ CanBegin(conn[t])
      /\ tx' = [tx EXCEPT ![conn[t]] = [by |-> t, docs |-> docs, meta |-> meta]]
      /\ call' = [call EXCEPT ![t] = x]
  BY DEF ReplaceBegins
<1>2. call[t] = NoCall /\ UNCHANGED <<conn, docs, meta, after, it, mark, crashed>>
  BY DEF ReplaceBegins, Starts, Idle, tables
<1>3. /\ body \in Seq(DataCells) /\ body \in Seq(Cells) /\ n \in Nat
      /\ revs \in Seq(Revs) /\ revs \in Seq(Cells)
  BY ConstantsAssumption DEF Cells
<1>4. row \in Rows /\ AsMeant(row)
  BY <1>3 DEF Rows, AsMeant
<1> HIDE DEF row
<1>5. x \in Calls /\ x.own = TRUE /\ x.at = "write" /\ x.op = "replace" /\ x.row = row
  BY <1>4 DEF Calls
<1> HIDE DEF x
<1> QED BY <1>1, <1>2, <1>4, <1>5, CallBegins

LEMMA ContinueInv ==
    ASSUME SqliteInv, NEW t \in Threads, Continue(t)
    PROVE  SqliteInv'
<1>1. CASE PutReadsSeq(t) \/ PutChecks(t) \/ Writes(t) \/ Commits(t)
  BY <1>1, PutReadsSeqInv, PutChecksInv, WritesInv, CommitsInv
<1>2. CASE PutLeavesTransaction(t) \/ PutConflicts(t) \/ StatementFails(t) \/ CommitFails(t)
  <2>1. /\ Rollback(conn[t]) \/ UNCHANGED tx
        /\ call' = [call EXCEPT ![t] = NoCall]
        /\ UNCHANGED <<conn, docs, meta, after, it, mark, crashed>>
    BY <1>2 DEF PutLeavesTransaction, PutConflicts, StatementFails, CommitFails, Fails, tables
  <2> QED BY <2>1, CallEnds
<1> QED BY <1>1, <1>2 DEF Continue

LEMMA ReadsInv ==
    ASSUME SqliteInv, NEW t \in Threads, NEW k \in Keys, Reads(t, k) \/ ReplaceRefused(t)
    PROVE  SqliteInv'
<1>1. UNCHANGED <<conn, docs, meta, tx, call, mark, after>> /\ it' = it
  BY DEF Reads, Get, GetRev, GetAllRevs, GetAllRevsOverruns, Answers, ReplaceRefused, tables
<1>2. crashed' = crashed \/ crashed' = TRUE
  BY DEF Reads, Get, GetRev, GetAllRevs, GetAllRevsOverruns, Answers, ReplaceRefused, tables
<1>3. crashed' \in BOOLEAN
  BY <1>2, Zenon DEF SqliteInv, TypeOK
<1> QED BY <1>1, <1>3, ReadStep DEF SqliteInv, TypeOK

LEMMA IterateInv ==
    ASSUME SqliteInv, NEW t \in Threads, Iterate(t)
    PROVE  SqliteInv'
<1>1. CASE LastSeq(t)
  BY <1>1, LastSeqInv
<1>2. CASE IterOpen(t) \/ IterEnd(t) \/ IterClose(t) \/ \E k \in Keys : IterNext(t, k)
  <2>1. UNCHANGED <<conn, docs, meta, tx, call, mark, after, crashed>>
    BY <1>2 DEF IterOpen, IterNext, IterEnd, IterClose, tables
  <2>2. it' \in [Threads -> Iters \cup {NoIter}]
    <3>1. CASE IterOpen(t)
      <4>1. PICK since \in {0} \cup (IF mark[t] = NoMark THEN {} ELSE {mark[t].seq}) :
               it' = [it EXCEPT ![t] = [since |-> since, seen |-> {}, active |-> FALSE]]
        BY <3>1 DEF IterOpen
      <4>2. since \in Nat
        BY <4>1 DEF SqliteInv, TypeOK, Marks
      <4>3. [since |-> since, seen |-> {}, active |-> FALSE] \in Iters
        BY <4>2 DEF Iters
      <4> QED BY <4>1, <4>3 DEF SqliteInv, TypeOK
    <3>2. ASSUME NEW k \in Keys, IterNext(t, k) PROVE it' \in [Threads -> Iters \cup {NoIter}]
      <4>1. it[t] \in Iters /\ it' = [it EXCEPT ![t].active = TRUE, ![t].seen = @ \cup {k}]
        BY <3>2 DEF IterNext, SqliteInv, TypeOK
      <4>2. [it[t] EXCEPT !.active = TRUE, !.seen = @ \cup {k}] \in Iters
        BY <4>1 DEF Iters
      <4> QED BY <4>1, <4>2 DEF SqliteInv, TypeOK
    <3>3. CASE IterEnd(t)
      <4>1. it[t] \in Iters /\ it' = [it EXCEPT ![t].active = FALSE, ![t].seen = {}]
        BY <3>3 DEF IterEnd, SqliteInv, TypeOK
      <4>2. [it[t] EXCEPT !.active = FALSE, !.seen = {}] \in Iters
        BY <4>1 DEF Iters
      <4> QED BY <4>1, <4>2 DEF SqliteInv, TypeOK
    <3>4. CASE IterClose(t)
      BY <3>4 DEF IterClose, SqliteInv, TypeOK
    <3> QED BY <1>2, <3>1, <3>2, <3>3, <3>4
  <2> QED BY <2>1, <2>2, ReadStep DEF SqliteInv, TypeOK
<1> QED BY <1>1, <1>2 DEF Iterate

LEMMA SqliteNextInv == SqliteInv /\ [Next]_vars => SqliteInv'
<1> SUFFICES ASSUME SqliteInv, [Next]_vars PROVE SqliteInv'
  OBVIOUS
<1>1. ASSUME NEW t \in Threads, Continue(t) \/ Iterate(t) PROVE SqliteInv'
  BY <1>1, ContinueInv, IterateInv
<1>2. ASSUME NEW t \in Threads, NEW k \in Keys, Put(t, k) \/ Replace(t, k) \/ Reads(t, k)
      PROVE  SqliteInv'
  <2>1. CASE Put(t, k)
    BY <2>1, PutBeginsInv DEF Put
  <2>2. CASE Replace(t, k)
    BY <2>2, ReplaceBeginsInv, ReadsInv DEF Replace
  <2>3. CASE Reads(t, k)
    BY <2>3, ReadsInv
  <2> QED BY <1>2, <2>1, <2>2, <2>3
<1>3. CASE UNCHANGED vars
  BY <1>3, ReadStep DEF vars, SqliteInv, TypeOK
<1> QED BY <1>1, <1>2, <1>3 DEF Next

-----------------------------------------------------------------------------
(* The results.                                                             *)

LEMMA SqliteInvHolds == Spec => []SqliteInv
BY SqliteInitInv, SqliteNextInv, PTL DEF Spec

(* Rows, transactions, calls and iterators keep their types, and at most    *)
(* one connection has an exclusive transaction.                             *)
THEOREM SqliteTypeCorrect == Spec => []TypeOK
<1>1. SqliteInv => TypeOK
  BY DEF SqliteInv
<1> QED BY <1>1, SqliteInvHolds, PTL

(* sqlite_la_storage_put compares the caller's revision with the row that   *)
(* it then writes over, and numbers it with the sequence that is still the  *)
(* next one, if BEGIN EXCLUSIVE succeeded on a connection of its own: no    *)
(* interleaving of any number of other threads comes in between.            *)
THEOREM PutWritesWhatItChecked == Spec => []CheckedIsCurrent
<1>1. SqliteInv => CheckedIsCurrent
  <2> SUFFICES ASSUME SqliteInv, NEW t \in Threads,
                      At(t, "write"), call[t].op = "put", call[t].own, Alone(t)
               PROVE  /\ Owns(t)
                      /\ docs[call[t].key] = call[t].old
                      /\ View(conn[t]).docs[call[t].key] = call[t].old
                      /\ meta = call[t].row.seq
    BY DEF CheckedIsCurrent
  <2>1. /\ tx[conn[t]] # NoTx /\ tx[conn[t]].by = t /\ tx[conn[t]].docs = docs
        /\ call[t].row.seq = meta /\ call[t].old = docs[call[t].key]
    BY DEF SqliteInv, OwnUntouched, At
  <2> QED BY <2>1 DEF Owns, View
<1> QED BY <1>1, SqliteInvHolds, PTL

(* Documents that were put inside the transactions of their calls never     *)
(* share an update sequence, and all lie below meta.seq, whatever other     *)
(* threads of the same connection write, commit or roll back meanwhile.     *)
THEOREM CleanSequencesDistinct == Spec => []CleanSeqsDistinct
<1>1. SqliteInv => CleanSeqsDistinct
  BY DEF SqliteInv
<1> QED BY <1>1, SqliteInvHolds, PTL

(* A reader that goes on from the answer of lastseq, given outside any      *)
(* transaction, is shown every clean document that was committed since.     *)
THEOREM NothingMissedAfterMark == Spec => []MarkCoversLaterPuts
<1>1. SqliteInv => MarkCoversLaterPuts
  <2> SUFFICES ASSUME SqliteInv, NEW t \in Threads, mark[t] # NoMark, ~mark[t].inside,
                      NEW k \in after[t], docs[k].clean, mark[t].seq # 0
               PROVE  docs[k].seq >= mark[t].seq
    BY DEF MarkCoversLaterPuts, InFeed
  <2>1. mark[t].seq <= docs[k].seq
    BY DEF SqliteInv, MarksBelow, Usable
  <2> QED BY <2>1
<1> QED BY <1>1, SqliteInvHolds, PTL

(* put's moves inside one buffer and get's reading of it give back the body *)
(* and the history that were meant, for bodies of any length and as long as *)
(* the history is within LA_OBJECT_MAX_REVISION_COUNT.                      *)
THEOREM RowsStoredAsMeant == Spec => []StoredAsMeant
<1>1. SqliteInv => StoredAsMeant
  <2> SUFFICES ASSUME SqliteInv, NEW k \in Keys, docs[k] # NoRow, Len(docs[k].meant.hist) <= MaxRevs
               PROVE  /\ docs[k].oldrevs = docs[k].meant.hist
                      /\ docs[k].doc = docs[k].meant.body
                      /\ la_storage_object_get_data(ReadObject(docs[k])) = docs[k].meant.body
    BY DEF StoredAsMeant
  <2>1. docs[k] \in Rows /\ AsMeant(docs[k])
    BY DEF SqliteInv, TypeOK, RowsAsMeant
  <2> QED BY <2>1, ReadBody DEF AsMeant
<1> QED BY <1>1, SqliteInvHolds, PTL

(* A put or replace with a connection and a transaction of its own that     *)
(* reports success, with a COMMIT that did not fail, has committed exactly  *)
(* its row, moved meta.seq on and left no transaction.                      *)
THEOREM SuccessMeansCommitted == Spec => SuccessIsCommitted
<1>1. ASSUME SqliteInv, Next, NEW t \in Threads, At(t, "commit"), call[t].own, Alone(t),
             call'[t] = NoCall, ret'.code = "SUCCESS", ret'.kept
      PROVE  /\ docs' = [docs EXCEPT ![call[t].key] = call[t].row]
             /\ meta' > meta
             /\ tx'[conn[t]] = NoTx
  <2>1. call[t] # NoCall /\ call[t].at = "commit" /\ conn[t] \in Conns /\ meta \in Nat
        /\ tx \in [Conns -> Txs \cup {NoTx}] /\ call \in [Threads -> Calls \cup {NoCall}]
    BY <1>1, ConstantsAssumption DEF At, SqliteInv, TypeOK
  <2>2. Commits(t)
    <3>1. ASSUME NEW u \in Threads, u # t, Continue(u) \/ Iterate(u) PROVE call'[t] = call[t]
      BY <2>1, <3>1 DEF Continue, PutReadsSeq, PutLeavesTransaction, PutChecks, PutConflicts,
         StatementFails, Fails, Writes, Commits, CommitFails, Iterate, LastSeq, IterOpen, IterNext,
         IterEnd, IterClose
    <3>2. ASSUME NEW u \in Threads, NEW k \in Keys, Put(u, k) \/ Replace(u, k) \/ Reads(u, k)
          PROVE  u # t => call'[t] = call[t]
      BY <2>1, <3>2 DEF Put, PutBegins, Replace, ReplaceBegins, ReplaceRefused, Reads, Get, GetRev,
         GetAllRevs, GetAllRevsOverruns, Answers
    <3>3. ASSUME NEW k \in Keys PROVE ~(Put(t, k) \/ Replace(t, k) \/ Reads(t, k))
      BY <2>1 DEF Put, PutBegins, Starts, Replace, ReplaceBegins, ReplaceRefused, Reads, Get, GetRev,
         GetAllRevs, GetAllRevsOverruns, Answers, Idle
    <3>4. ~Iterate(t)
      BY <2>1 DEF Iterate, LastSeq, IterOpen, IterNext, IterEnd, IterClose, Idle
    <3>5. Continue(t)
      BY <1>1, <2>1, <3>1, <3>2, <3>3, <3>4 DEF Next
    <3>6. ~CommitFails(t)
      <4>1. CommitFails(t) => ret' = [thread |-> t, op |-> call[t].op, code |-> "SUCCESS", kept |-> FALSE]
        BY DEF CommitFails, Return
      <4>2. ~[thread |-> t, op |-> call[t].op, code |-> "SUCCESS", kept |-> FALSE].kept
        OBVIOUS
      <4> QED BY <1>1, <4>1, <4>2
    <3> QED BY <2>1, <3>5, <3>6 DEF Continue, PutReadsSeq, PutLeavesTransaction, PutChecks, PutConflicts,
            StatementFails, Writes, At
  <2>3. /\ tx[conn[t]] # NoTx
        /\ tx[conn[t]].docs = [docs EXCEPT ![call[t].key] = call[t].row]
        /\ tx[conn[t]].meta = meta + 1
    BY <1>1, <2>1 DEF SqliteInv, OwnUntouched
  <2>4. docs' = tx[conn[t]].docs /\ meta' = tx[conn[t]].meta /\ tx' = [tx EXCEPT ![conn[t]] = NoTx]
    BY <2>2, <2>3 DEF Commits, Commit, Rollback
  <2> QED BY <2>1, <2>3, <2>4
<1>2. SqliteInv /\ [Next]_vars =>
          [\A t \in Threads :
              (At(t, "commit") /\ call[t].own /\ Alone(t) /\ call'[t] = NoCall
                 /\ ret'.code = "SUCCESS" /\ ret'.kept) =>
                  /\ docs' = [docs EXCEPT ![call[t].key] = call[t].row]
                  /\ meta' > meta
                  /\ tx'[conn[t]] = NoTx]_vars
  BY <1>1
<1> QED BY <1>2, SqliteInvHolds, PTL DEF Spec, SuccessIsCommitted
=============================================================================
