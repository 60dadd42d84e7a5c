----------------------------- MODULE ViewProofs -----------------------------
(* Views, for any documents, map function and writers.                      *)
EXTENDS View, SequenceTheorems, TLAPS

-----------------------------------------------------------------------------
(* Moving the first value of a queue to the end of what was accumulated     *)
(* changes nothing about the two together.                                  *)
LEMMA MoveHead ==
    ASSUME NEW S, NEW s \in Seq(S), NEW q \in Seq(S), q # <<>>
    PROVE  /\ Append(s, Head(q)) \in Seq(S)
           /\ Tail(q) \in Seq(S)
           /\ Append(s, Head(q)) \o Tail(q) = s \o q
<1>1. /\ Head(q) \in S /\ Tail(q) \in Seq(S) /\ Len(Tail(q)) = Len(q) - 1
      /\ \A i \in 1..Len(Tail(q)) : Tail(q)[i] = q[i + 1]
      /\ Len(q) \in Nat /\ Len(q) > 0 /\ Head(q) = q[1]
  BY HeadTailProperties
<1> DEFINE a == Append(s, Head(q))  t == Tail(q)
<1>2. /\ a \in Seq(S) /\ Len(a) = Len(s) + 1
      /\ \A i \in 1..Len(s) : a[i] = s[i]
      /\ a[Len(s) + 1] = q[1]
  BY <1>1, AppendProperties
<1> HIDE DEF a, t
<1>3. t \in Seq(S) /\ Len(t) = Len(q) - 1 /\ \A i \in 1..Len(t) : t[i] = q[i + 1]
  BY <1>1 DEF t
<1>4. /\ a \o t \in Seq(S) /\ Len(a \o t) = Len(a) + Len(t)
      /\ \A i \in 1..(Len(a) + Len(t)) : (a \o t)[i] = IF i <= Len(a) THEN a[i] ELSE t[i - Len(a)]
  BY <1>2, <1>3, ConcatProperties
<1>5. /\ s \o q \in Seq(S) /\ Len(s \o q) = Len(s) + Len(q)
      /\ \A i \in 1..(Len(s) + Len(q)) : (s \o q)[i] = IF i <= Len(s) THEN s[i] ELSE q[i - Len(s)]
  BY ConcatProperties
<1>6. Len(s) \in Nat /\ Len(a \o t) = Len(s \o q)
  BY <1>1, <1>2, <1>3, <1>4, <1>5
<1>7. ASSUME NEW i \in 1..Len(a \o t) PROVE (a \o t)[i] = (s \o q)[i]
  BY <1>1, <1>2, <1>3, <1>4, <1>5, <1>6
<1>8. a \o t = s \o q
  BY <1>4, <1>5, <1>6, <1>7, SeqEqual
<1> QED BY <1>1, <1>2, <1>8 DEF a, t

(* The empty queue adds nothing.                                            *)
LEMMA ConcatEmpty ==
    ASSUME NEW S, NEW s \in Seq(S)
    PROVE  s \o <<>> = s /\ s \o <<>> \in Seq(S)
BY ConcatEmptySeq

(* Delivering from a queue keeps accumulated and queued values together.    *)
LEMMA DeliverKeeps ==
    ASSUME accum \in Seq(Values), NEW q \in Seq(Values), Deliver(q)
    PROVE  /\ at' = "idle" /\ result' \in {"GOT_NEXT", "ERROR"}
           /\ accum' \in Seq(Values) /\ queue' \in Seq(Values)
           /\ accum' \o queue' = accum \o q
<1>1. CASE q = <<>>
  BY <1>1 DEF Deliver, Returns
<1>2. CASE q # <<>>
  <2>1. /\ at' = "idle" /\ result' = "GOT_NEXT"
        /\ queue' = Tail(q) /\ accum' = Append(accum, Head(q))
    BY <1>2 DEF Deliver, Returns
  <2> QED BY <1>2, <2>1, MoveHead
<1> QED BY <1>1, <1>2

-----------------------------------------------------------------------------
(* The invariant holds at the start.                                        *)
LEMMA InitIInv == Init => IInv
<1> SUFFICES ASSUME Init PROVE IInv
  OBVIOUS
<1>1. <<>> \in Seq(Values) /\ <<>> \o <<>> = <<>>
  BY ConcatEmpty
<1>2. TypeOK
  BY <1>1 DEF Init, TypeOK
<1> QED BY <1>1, <1>2 DEF Init, IInv, Sequenced, Progress, Exhausted, Live

(* A write moves one document ahead of the cursor and counts it as written. *)
LEMMA WriteIInv ==
    ASSUME IInv, NEW k \in Keys, NEW doc \in Docs, NEW del \in BOOLEAN, Write(k, doc, del)
    PROVE  IInv'
<1> DEFINE o == [doc |-> doc, seq |-> nextseq, deleted |-> del]
<1> USE DEF IInv
<1>1. /\ store' = [store EXCEPT ![k] = o] /\ nextseq' = nextseq + 1
      /\ written' = written \cup {k}
      /\ UNCHANGED <<at, cursor, queue, accum, result, emitted, mapped, failed>>
  BY DEF Write, reader
<1>2. o \in Objects /\ o.seq = nextseq /\ o # NoObj
  BY ViewAssumption DEF TypeOK, Objects
<1> HIDE DEF o
<1>3. TypeOK'
  BY <1>1, <1>2 DEF TypeOK
<1>4. Sequenced'
  BY <1>1, <1>2 DEF TypeOK, Objects, Sequenced
<1>5. Progress'
  BY <1>1, <1>2 DEF TypeOK, Progress, Live
<1>6. Exhausted'
  BY <1>1, <1>2 DEF TypeOK, Exhausted
<1> QED BY <1>3, <1>4, <1>5, <1>6

(* A view starts before the first document, with nothing mapped.            *)
LEMMA OpenIInv == ASSUME IInv, Open PROVE IInv'
<1> USE DEF IInv
<1>1. <<>> \in Seq(Values) /\ <<>> \o <<>> = <<>>
  BY ConcatEmpty
<1>2. TypeOK'
  BY <1>1 DEF Open, TypeOK
<1>3. Sequenced'
  BY DEF Open, TypeOK, Sequenced
<1>4. Progress'
  BY DEF Open, TypeOK, Objects, Sequenced, Progress, Live
<1>5. Exhausted'
  BY <1>1 DEF Open, Exhausted
<1> QED BY <1>2, <1>3, <1>4, <1>5

(* Closing a view keeps what is known about it.                             *)
LEMMA CloseIInv == ASSUME IInv, Close PROVE IInv'
BY DEF IInv, Close, history, TypeOK, Sequenced, Progress, Exhausted, Live

(* A call starts, or is answered from the queue.                            *)
LEMMA CallIInv == ASSUME IInv, Call PROVE IInv'
<1> USE DEF IInv
<1>1. UNCHANGED <<store, nextseq, cursor, emitted, mapped, written, failed>>
  BY DEF Call, history
<1>2. Sequenced' /\ Progress'
  BY <1>1 DEF Sequenced, Progress, Live
<1>3. CASE queue = <<>>
  <2>1. at' = "fetch" /\ result' = "NONE" /\ UNCHANGED <<queue, accum>>
    BY <1>3 DEF Call
  <2>2. TypeOK'
    BY <1>1, <2>1 DEF TypeOK
  <2>3. Exhausted'
    BY <1>1, <1>3, <2>1 DEF Exhausted
  <2> QED BY <1>2, <2>2, <2>3
<1>4. CASE queue # <<>>
  <2>1. Deliver(queue) /\ accum \in Seq(Values) /\ queue \in Seq(Values)
    BY <1>4 DEF Call, TypeOK
  <2>2. /\ at' = "idle" /\ result' \in {"GOT_NEXT", "ERROR"}
        /\ accum' \in Seq(Values) /\ queue' \in Seq(Values)
        /\ accum' \o queue' = accum \o queue
    BY <2>1, DeliverKeeps
  <2>3. TypeOK'
    BY <1>1, <2>2 DEF TypeOK
  <2>4. Exhausted'
    BY <1>1, <2>2 DEF Exhausted
  <2> QED BY <1>2, <2>3, <2>4
<1> QED BY <1>3, <1>4

(* The cursor has come to k: the documents up to its new place are the ones *)
(* that were behind it before, and k.                                       *)
LEMMA FetchesMoves ==
    ASSUME IInv, NEW k \in Keys, Fetches(k), UNCHANGED <<store, nextseq>>
    PROVE  /\ store[k] # NoObj /\ store[k] \in Objects
           /\ store[k].seq > cursor /\ cursor' = store[k].seq
           /\ cursor' \in Nat /\ cursor' < nextseq'
           /\ \A j \in Keys : (j # k /\ store[j] # NoObj) =>
                  (store[j].seq <= cursor' <=> store[j].seq <= cursor)
BY DEF IInv, TypeOK, Objects, Sequenced, Fetches, Ahead

(* A document is passed over, unread or mapped.                             *)
LEMMA FetchDocIInv ==
    ASSUME IInv, NEW k \in Keys,
           FetchDeleted(k) \/ FetchUnreadable(k) \/ FetchMapped(k)
    PROVE  IInv'
<1> USE DEF IInv
<1>1. Fetches(k) /\ at = "fetch" /\ UNCHANGED <<store, nextseq, written>>
  BY DEF FetchDeleted, FetchUnreadable, FetchMapped, Fetches, history
<1>2. /\ store[k] # NoObj /\ store[k] \in Objects
      /\ store[k].seq > cursor /\ cursor' = store[k].seq
      /\ cursor' \in Nat /\ cursor' < nextseq'
      /\ \A j \in Keys : (j # k /\ store[j] # NoObj) =>
             (store[j].seq <= cursor' <=> store[j].seq <= cursor)
  BY <1>1, FetchesMoves
<1>3. Sequenced'
  BY <1>1, <1>2 DEF Sequenced
<1>4. queue = <<>> /\ accum \in Seq(Values) /\ accum = emitted
  <2>1. queue = <<>> /\ accum \in Seq(Values) /\ accum \o queue = emitted
    BY <1>1 DEF TypeOK, Exhausted
  <2> QED BY <2>1, ConcatEmpty
<1>5. store[k].seq \in Nat /\ cursor \in Nat
  BY <1>2 DEF TypeOK, Objects
<1>6. CASE FetchDeleted(k)
  <2>1. store[k].deleted /\ UNCHANGED <<at, queue, accum, result, emitted, mapped, failed>>
    BY <1>6 DEF FetchDeleted, history
  <2>2. TypeOK'
    BY <1>1, <1>2, <2>1 DEF TypeOK
  <2>3. Progress'
    BY <1>1, <1>2, <1>5, <2>1 DEF TypeOK, Objects, Progress, Live
  <2>4. Exhausted'
    BY <1>1, <1>2, <1>5, <2>1 DEF TypeOK, Objects, Exhausted
  <2> QED BY <1>3, <2>2, <2>3, <2>4
<1>7. CASE FetchUnreadable(k)
  <2>1. /\ at' = "idle" /\ result' = "ERROR" /\ failed' = TRUE
        /\ UNCHANGED <<queue, accum, emitted, mapped>>
    BY <1>7 DEF FetchUnreadable, Returns
  <2>2. TypeOK'
    BY <1>1, <1>2, <2>1 DEF TypeOK
  <2>3. Progress'
    BY <1>1, <1>2, <1>5, <2>1 DEF TypeOK, Objects, Progress, Live
  <2>4. Exhausted'
    BY <1>1, <2>1 DEF Exhausted
  <2> QED BY <1>3, <2>2, <2>3, <2>4
<1>8. CASE FetchMapped(k)
  <2> DEFINE values == Emits[store[k].doc]
  <2>1. /\ ~store[k].deleted /\ Deliver(values)
        /\ emitted' = emitted \o values
        /\ mapped' = [mapped EXCEPT ![k] = @ + 1]
        /\ UNCHANGED failed
    BY <1>8 DEF FetchMapped
  <2>2. values \in Seq(Values)
    BY <1>2, ViewAssumption DEF Objects
  <2> HIDE DEF values
  <2>3. /\ at' = "idle" /\ result' \in {"GOT_NEXT", "ERROR"}
        /\ accum' \in Seq(Values) /\ queue' \in Seq(Values)
        /\ accum' \o queue' = accum \o values
    BY <1>4, <2>1, <2>2, DeliverKeeps
  <2>4. accum \o values \in Seq(Values)
    BY <1>4, <2>2, ConcatProperties
  <2>5. TypeOK'
    <3>1. emitted' \in Seq(Values)
      BY <1>4, <2>1, <2>4
    <3>2. mapped' \in [Keys -> Nat]
      BY <2>1 DEF TypeOK
    <3> QED BY <1>1, <1>2, <2>1, <2>3, <3>1, <3>2 DEF TypeOK
  <2>6. Progress'
    <3> SUFFICES ASSUME NEW j \in Keys \ written
                 PROVE  /\ mapped'[j] <= 1
                        /\ mapped'[j] = 1 => store[j] # NoObj /\ store[j].seq <= cursor'
                        /\ (Live(j) /\ store[j].seq <= cursor' /\ ~failed) => mapped'[j] = 1
      BY <1>1, <2>1 DEF Progress, Live
    <3>1. CASE j = k
      <4>1. mapped[k] = 0
        BY <1>2, <1>5, <3>1 DEF TypeOK, Progress
      <4>2. mapped'[k] = 1
        BY <2>1, <4>1 DEF TypeOK
      <4> QED BY <1>2, <1>5, <3>1, <4>2
    <3>2. CASE j # k
      <4>1. mapped'[j] = mapped[j]
        BY <2>1, <3>2 DEF TypeOK
      <4> QED BY <1>2, <3>2, <4>1 DEF Progress, Live
    <3> QED BY <3>1, <3>2
  <2>7. Exhausted'
    BY <1>4, <2>1, <2>3 DEF Exhausted
  <2> QED BY <1>3, <2>5, <2>6, <2>7
<1> QED BY <1>6, <1>7, <1>8

(* The store's iterator fails, or has nothing more.                         *)
LEMMA FetchOverIInv == ASSUME IInv, FetchFails \/ FetchEnd PROVE IInv'
<1> USE DEF IInv
<1>1. CASE FetchFails
  BY <1>1 DEF FetchFails, Returns, TypeOK, Sequenced, Progress, Exhausted, Live
<1>2. CASE FetchEnd
  <2>1. /\ at = "fetch" /\ Ahead = {} /\ at' = "idle" /\ result' = "END"
        /\ UNCHANGED <<store, nextseq, cursor, queue, accum, emitted, mapped, written, failed>>
    BY <1>2 DEF FetchEnd, Returns, history
  <2>2. TypeOK' /\ Sequenced' /\ Progress'
    BY <2>1 DEF TypeOK, Sequenced, Progress, Live
  <2>3. Exhausted'
    BY <2>1 DEF TypeOK, Objects, Exhausted, Ahead
  <2> QED BY <2>2, <2>3
<1> QED BY <1>1, <1>2

-----------------------------------------------------------------------------
(* The inductive invariant holds in every state: of the documents that      *)
(* nobody has written since la_db_view, exactly those behind the cursor of  *)
(* la_view_iterator_next have been mapped.                                  *)
THEOREM Invariance == Spec => []IInv
<1>1. ASSUME IInv, [Next]_vars PROVE IInv'
  <2>1. CASE \E k \in Keys, doc \in Docs, del \in BOOLEAN : Write(k, doc, del)
    BY <1>1, <2>1, WriteIInv
  <2>2. CASE Open
    BY <1>1, <2>2, OpenIInv
  <2>3. CASE Close
    BY <1>1, <2>3, CloseIInv
  <2>4. CASE Call
    BY <1>1, <2>4, CallIInv
  <2>5. CASE Fetch
    BY <1>1, <2>5, FetchDocIInv, FetchOverIInv DEF Fetch
  <2>6. CASE UNCHANGED vars
    BY <1>1, <2>6 DEF vars, IInv, TypeOK, Sequenced, Progress, Exhausted, Live
  <2> QED BY <1>1, <2>1, <2>2, <2>3, <2>4, <2>5, <2>6 DEF Next
<1> QED BY <1>1, InitIInv, PTL DEF Spec

(* The types of a view's state, for any map function.                       *)
THEOREM TypeCorrect == Spec => []TypeOK
<1>1. IInv => TypeOK
  BY DEF IInv
<1> QED BY <1>1, Invariance, PTL

(* A view maps every document that nobody writes meanwhile exactly once,    *)
(* however many others are written.                                         *)
THEOREM MapsOnce == Spec => []MappedOnce
<1>1. IInv => MappedOnce
  BY DEF IInv, TypeOK, Objects, Progress, Exhausted, MappedOnce, Live
<1> QED BY <1>1, Invariance, PTL

(* la_view_iterator_next reduces every emitted value once and in order.     *)
THEOREM ReducesEverything == Spec => []ReducesAll
<1>1. IInv => ReducesAll
  BY ConcatEmpty DEF IInv, TypeOK, Exhausted, ReducesAll
<1> QED BY <1>1, Invariance, PTL
=============================================================================
