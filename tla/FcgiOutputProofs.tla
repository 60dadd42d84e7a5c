-------------------------- MODULE FcgiOutputProofs --------------------------
(***************************************************************************)
(* Proofs about the writing half of the FastCGI library: buffers do not     *)
(* overrun, what is written falls into whole records, each stream's bytes   *)
(* arrive in order, and a request is ended once, by its last record; for    *)
(* every size of header and buffers and any interleaving of the two writers. *)
(***************************************************************************)
EXTENDS FcgiOutput, SequenceTheorems, TLAPS

-----------------------------------------------------------------------------
(* Multiples of the alignment.                                              *)

Mult(n) == \E k \in Nat : n = k * HeaderLen

LEMMA MulMono == ASSUME NEW a \in Int, NEW b \in Int, a <= b PROVE a * HeaderLen <= b * HeaderLen
<1>1. PICK c \in Nat : b = a + c
  <2>1. b - a \in Nat /\ b = a + (b - a)
    OBVIOUS
  <2> QED BY <2>1
<1>2. /\ HeaderLen \in Int /\ (a + c) * HeaderLen = a * HeaderLen + c * HeaderLen
      /\ c * HeaderLen \in Nat /\ a * HeaderLen \in Int
  BY OutputAssumption
<1> QED BY <1>1, <1>2

LEMMA MultZero == Mult(0) /\ Mult(HeaderLen)
<1>1. 0 = 0 * HeaderLen /\ HeaderLen = 1 * HeaderLen
  BY OutputAssumption
<1> QED BY <1>1 DEF Mult

LEMMA MultAdd == ASSUME NEW a, NEW b, Mult(a), Mult(b) PROVE Mult(a + b)
<1>1. PICK k \in Nat : a = k * HeaderLen
  BY DEF Mult
<1>2. PICK l \in Nat : b = l * HeaderLen
  BY DEF Mult
<1>3. a + b = (k + l) * HeaderLen
  BY <1>1, <1>2, OutputAssumption
<1> QED BY <1>3 DEF Mult

LEMMA MultSub == ASSUME NEW a, NEW b, Mult(a), Mult(b), b <= a PROVE Mult(a - b)
<1>1. PICK k \in Nat : a = k * HeaderLen
  BY DEF Mult
<1>2. PICK l \in Nat : b = l * HeaderLen
  BY DEF Mult
<1>3. l <= k
  <2> SUFFICES ASSUME k + 1 <= l PROVE FALSE
    OBVIOUS
  <2>1. (k + 1) * HeaderLen <= l * HeaderLen
    BY MulMono
  <2>2. (k + 1) * HeaderLen = k * HeaderLen + HeaderLen /\ k * HeaderLen \in Nat /\ l * HeaderLen \in Nat
    BY OutputAssumption
  <2> QED BY <1>1, <1>2, <2>1, <2>2, OutputAssumption
<1>4. a - b = (k - l) * HeaderLen /\ k - l \in Nat
  BY <1>1, <1>2, <1>3, OutputAssumption
<1> QED BY <1>4 DEF Mult

LEMMA MultPositive == ASSUME NEW a \in Nat, Mult(a), a # 0 PROVE HeaderLen <= a
<1>1. PICK k \in Nat : a = k * HeaderLen
  BY DEF Mult
<1>2. k # 0
  BY <1>1, OutputAssumption
<1>3. 1 * HeaderLen <= k * HeaderLen
  BY <1>2, MulMono
<1> QED BY <1>1, <1>3, OutputAssumption

LEMMA MultMod == ASSUME NEW n \in Nat PROVE Mult(n) <=> n % HeaderLen = 0
<1>0. HeaderLen \in Int /\ HeaderLen > 0
  BY OutputAssumption
<1>1. ASSUME Mult(n) PROVE n % HeaderLen = 0
  <2>1. PICK k \in Nat : n = k * HeaderLen
    BY <1>1 DEF Mult
  <2>2. PICK r \in Int : r = n % HeaderLen
    BY <1>0
  <2> QED BY <1>0, <2>1, <2>2
<1>2. ASSUME n % HeaderLen = 0 PROVE Mult(n)
  <2>1. PICK q \in Int : q = n \div HeaderLen
    BY <1>0
  <2>2. n % HeaderLen = n - q * HeaderLen
    BY <1>0, <2>1
  <2>3. q >= 0
    BY <1>0, <2>1
  <2>4. n = q * HeaderLen
    BY <1>0, <1>2, <2>2
  <2> QED BY <2>3, <2>4 DEF Mult
<1> QED BY <1>1, <1>2

(* Padding never goes beyond a multiple that was there.                     *)
LEMMA AlignedProps ==
    ASSUME NEW n \in Nat
    PROVE  /\ Aligned(n) \in Nat /\ Mult(Aligned(n)) /\ n <= Aligned(n)
           /\ \A m \in Nat : Mult(m) /\ n <= m => Aligned(n) <= m
<1>0. HeaderLen \in Int /\ HeaderLen > 0 /\ n + HeaderLen - 1 \in Int /\ n + HeaderLen - 1 >= 0
  BY OutputAssumption
<1>1. PICK q \in Int : q = (n + HeaderLen - 1) \div HeaderLen
  BY <1>0
<1>2. q * HeaderLen <= n + HeaderLen - 1 /\ n + HeaderLen - 1 < q * HeaderLen + HeaderLen /\ q >= 0
  BY <1>0, <1>1
<1>3. Aligned(n) = q * HeaderLen /\ q * HeaderLen \in Int
  BY <1>0, <1>1 DEF Aligned
<1>4. n <= Aligned(n) /\ Aligned(n) \in Nat
  BY <1>0, <1>2, <1>3
<1>5. Mult(Aligned(n))
  BY <1>2, <1>3 DEF Mult
<1>6. ASSUME NEW m \in Nat, Mult(m), n <= m PROVE Aligned(n) <= m
  <2>1. PICK k \in Nat : m = k * HeaderLen
    BY <1>6 DEF Mult
  <2>2. CASE q <= k
    <3>1. q * HeaderLen <= k * HeaderLen
      BY <2>2, MulMono
    <3> QED BY <1>3, <2>1, <3>1
  <2>3. CASE k + 1 <= q
    <3>1. (k + 1) * HeaderLen <= q * HeaderLen
      BY <2>3, MulMono
    <3>2. (k + 1) * HeaderLen = k * HeaderLen + HeaderLen
      BY <1>0
    <3>3. m + HeaderLen <= n + HeaderLen - 1
      BY <1>0, <1>2, <1>3, <2>1, <3>1, <3>2
    <3> QED BY <1>0, <1>6, <3>3
  <2> QED BY <2>2, <2>3
<1> QED BY <1>4, <1>5, <1>6

LEMMA StopProps ==
    ASSUME NEW s \in Writers
    PROVE  Stop(s) \in Nat /\ Mult(Stop(s)) /\ HeaderLen <= Stop(s)
<1>0. HeaderLen \in Int /\ HeaderLen > 0 /\ Size[s] \in Nat /\ Size[s] >= 4 * HeaderLen
  BY OutputAssumption
<1>1. PICK q \in Int : q = Size[s] \div HeaderLen
  BY <1>0
<1>2. Size[s] < q * HeaderLen + HeaderLen /\ q >= 0
  BY <1>0, <1>1
<1>3. Stop(s) = q * HeaderLen /\ q * HeaderLen \in Int
  BY <1>0, <1>1 DEF Stop
<1>4. Stop(s) \in Nat /\ HeaderLen <= Stop(s)
  BY <1>0, <1>2, <1>3
<1>5. Mult(Stop(s))
  BY <1>2, <1>3 DEF Mult
<1> QED BY <1>4, <1>5

-----------------------------------------------------------------------------
(* Sequences of units, one after the other.                                 *)

LEMMA ConcatAt ==
    ASSUME NEW a \in Seq(Units), NEW b \in Seq(Units)
    PROVE  /\ a \o b \in Seq(Units)
           /\ Len(a) \in Nat /\ Len(b) \in Nat /\ Len(a \o b) = Len(a) + Len(b)
           /\ \A i \in 1..Len(a) : i \in 1..Len(a \o b) /\ (a \o b)[i] = a[i]
           /\ \A i \in 1..Len(b) : Len(a) + i \in 1..Len(a \o b) /\ (a \o b)[Len(a) + i] = b[i]
           /\ \A i \in 1..Len(a \o b) : i \in 1..Len(a) \/ \E k \in 1..Len(b) : i = Len(a) + k
<1>1. Len(a) \in Nat /\ Len(b) \in Nat
  OBVIOUS
<1>2. a \o b \in Seq(Units) /\ Len(a \o b) = Len(a) + Len(b)
  BY ConcatProperties
<1>3. \A i \in 1..Len(a) + Len(b) : (a \o b)[i] = IF i <= Len(a) THEN a[i] ELSE b[i - Len(a)]
  BY ConcatProperties
<1>4. \A i \in 1..Len(b) : Len(a) + i \in 1..Len(a \o b) /\ (a \o b)[Len(a) + i] = b[i]
  <2> SUFFICES ASSUME NEW i \in 1..Len(b)
               PROVE  Len(a) + i \in 1..Len(a \o b) /\ (a \o b)[Len(a) + i] = b[i]
    OBVIOUS
  <2>1. Len(a) + i \in 1..Len(a) + Len(b) /\ ~(Len(a) + i <= Len(a)) /\ Len(a) + i - Len(a) = i
    BY <1>1
  <2> QED BY <1>2, <1>3, <2>1
<1>5. \A i \in 1..Len(a) : i \in 1..Len(a \o b) /\ (a \o b)[i] = a[i]
  BY <1>1, <1>2, <1>3
<1>6. ASSUME NEW i \in 1..Len(a \o b), i \notin 1..Len(a) PROVE \E k \in 1..Len(b) : i = Len(a) + k
  <2>1. i - Len(a) \in 1..Len(b) /\ i = Len(a) + (i - Len(a))
    BY <1>1, <1>2, <1>6
  <2> QED BY <2>1
<1> QED BY <1>1, <1>2, <1>4, <1>5, <1>6

LEMMA UnitsAssociative ==
    ASSUME NEW a \in Seq(Units), NEW b \in Seq(Units), NEW c \in Seq(Units)
    PROVE  (a \o b) \o c = a \o (b \o c)
BY ConcatAssociative

LEMMA CarriesConcat ==
    ASSUME NEW a \in Seq(Units), NEW b \in Seq(Units), NEW s,
           NEW lo \in Nat, NEW mid \in Nat, NEW hi \in Nat, lo <= mid, mid <= hi,
           Carries(a, s, lo, mid), Carries(b, s, mid, hi)
    PROVE  Carries(a \o b, s, lo, hi)
<1> DEFINE c == a \o b
<1>1. /\ Len(a) \in Nat /\ Len(b) \in Nat /\ Len(c) = Len(a) + Len(b)
      /\ \A i \in 1..Len(a) : i \in 1..Len(c) /\ c[i] = a[i]
      /\ \A i \in 1..Len(b) : Len(a) + i \in 1..Len(c) /\ c[Len(a) + i] = b[i]
      /\ \A i \in 1..Len(c) : i \in 1..Len(a) \/ \E k \in 1..Len(b) : i = Len(a) + k
  BY ConcatAt
<1> HIDE DEF c
<1>2. \A i \in BytesOf(c, s) : i \in BytesOf(a, s) \/ \E k \in BytesOf(b, s) : i = Len(a) + k
  <2> SUFFICES ASSUME NEW i \in BytesOf(c, s), i \notin BytesOf(a, s)
               PROVE  \E k \in BytesOf(b, s) : i = Len(a) + k
    OBVIOUS
  <2>1. i \in 1..Len(c) /\ c[i].u = "byte" /\ c[i].s = s
    BY DEF BytesOf
  <2>2. i \notin 1..Len(a)
    BY <1>1, <2>1 DEF BytesOf
  <2>3. PICK k \in 1..Len(b) : i = Len(a) + k
    BY <1>1, <2>1, <2>2
  <2>4. k \in BytesOf(b, s)
    BY <1>1, <2>1, <2>3 DEF BytesOf
  <2> QED BY <2>3, <2>4
<1>3. /\ \A i \in BytesOf(a, s) : i \in BytesOf(c, s) /\ c[i] = a[i] /\ a[i].n \in (lo + 1)..mid /\ i \in 1..Len(a)
      /\ \A k \in BytesOf(b, s) : /\ Len(a) + k \in BytesOf(c, s) /\ c[Len(a) + k] = b[k]
                                  /\ b[k].n \in (mid + 1)..hi /\ k \in 1..Len(b)
  <2>1. \A i \in BytesOf(a, s) : a[i].n \in (lo + 1)..mid
    BY DEF Carries
  <2>2. \A k \in BytesOf(b, s) : b[k].n \in (mid + 1)..hi
    BY DEF Carries
  <2> QED BY <1>1, <2>1, <2>2 DEF BytesOf
<1>4. ASSUME NEW i \in BytesOf(c, s), NEW j \in BytesOf(c, s), i < j
      PROVE  c[i].n < c[j].n
  <2>1. CASE i \in BytesOf(a, s) /\ j \in BytesOf(a, s)
    BY <1>3, <1>4, <2>1 DEF Carries
  <2>2. CASE i \in BytesOf(a, s) /\ j \notin BytesOf(a, s)
    <3>1. PICK k \in BytesOf(b, s) : j = Len(a) + k
      BY <1>2, <2>2
    <3>2. c[i].n \in (lo + 1)..mid /\ c[j].n \in (mid + 1)..hi
      BY <1>3, <2>2, <3>1
    <3> QED BY <3>2
  <2>3. CASE i \notin BytesOf(a, s) /\ j \in BytesOf(a, s)
    <3>1. PICK k \in BytesOf(b, s) : i = Len(a) + k
      BY <1>2, <2>3
    <3>2. k \in 1..Len(b) /\ j \in 1..Len(a)
      BY <1>3, <2>3
    <3> QED BY <1>1, <1>4, <3>1, <3>2
  <2>4. CASE i \notin BytesOf(a, s) /\ j \notin BytesOf(a, s)
    <3>1. PICK k \in BytesOf(b, s) : i = Len(a) + k
      BY <1>2, <2>4
    <3>2. PICK l \in BytesOf(b, s) : j = Len(a) + l
      BY <1>2, <2>4
    <3>3. k < l
      BY <1>1, <1>3, <1>4, <3>1, <3>2
    <3>4. b[k].n < b[l].n
      BY <3>3 DEF Carries
    <3> QED BY <1>3, <3>1, <3>2, <3>4
  <2> QED BY <2>1, <2>2, <2>3, <2>4
<1>5. {c[i].n : i \in BytesOf(c, s)} = (lo + 1)..hi
  <2>1. ASSUME NEW i \in BytesOf(c, s) PROVE c[i].n \in (lo + 1)..hi
    <3>1. CASE i \in BytesOf(a, s)
      <4>1. c[i].n \in (lo + 1)..mid
        BY <1>3, <3>1
      <4> QED BY <4>1
    <3>2. CASE i \notin BytesOf(a, s)
      <4>1. c[i].n \in (mid + 1)..hi
        BY <1>2, <1>3, <3>2
      <4> QED BY <4>1
    <3> QED BY <3>1, <3>2
  <2>2. ASSUME NEW n \in (lo + 1)..hi PROVE \E i \in BytesOf(c, s) : c[i].n = n
    <3>1. CASE n \in (lo + 1)..mid
      <4>1. PICK i \in BytesOf(a, s) : a[i].n = n
        BY <3>1 DEF Carries
      <4> QED BY <1>3, <4>1
    <3>2. CASE n \in (mid + 1)..hi
      <4>1. PICK k \in BytesOf(b, s) : b[k].n = n
        BY <3>2 DEF Carries
      <4> QED BY <1>3, <4>1
    <3> QED BY <3>1, <3>2
  <2> QED BY <2>1, <2>2
<1> QED BY <1>4, <1>5 DEF Carries, c

(* Units without bytes of s carry nothing of s.                             *)
LEMMA CarriesNothing ==
    ASSUME NEW a, NEW s, NEW n \in Nat,
           \A i \in 1..Len(a) : ~(a[i].u = "byte" /\ a[i].s = s)
    PROVE  Carries(a, s, n, n)
<1>1. BytesOf(a, s) = {}
  BY DEF BytesOf
<1>2. (n + 1)..n = {}
  OBVIOUS
<1>3. {a[i].n : i \in BytesOf(a, s)} = {}
  BY <1>1
<1> QED BY <1>1, <1>2, <1>3 DEF Carries

LEMMA WholeConcat ==
    ASSUME NEW a \in Seq(Units), NEW b \in Seq(Units), Whole(a), Whole(b)
    PROVE  Whole(a \o b)
<1> DEFINE c == a \o b
<1>1. /\ Len(a) \in Nat /\ Len(b) \in Nat /\ Len(c) = Len(a) + Len(b) /\ c \in Seq(Units)
      /\ \A i \in 1..Len(a) : i \in 1..Len(c) /\ c[i] = a[i]
      /\ \A i \in 1..Len(b) : Len(a) + i \in 1..Len(c) /\ c[Len(a) + i] = b[i]
      /\ \A i \in 1..Len(c) : i \in 1..Len(a) \/ \E k \in 1..Len(b) : i = Len(a) + k
  BY ConcatAt
<1>2. a # <<>> => 1 \in Heads(a)
  BY DEF Whole
<1>3. b # <<>> => 1 \in Heads(b)
  BY DEF Whole
<1>0. (a = <<>> => c = b) /\ (b = <<>> => c = a)
  BY ConcatEmptySeq
<1>4. CASE a = <<>> \/ b = <<>>
  BY <1>0, <1>4 DEF c
<1>5. CASE a # <<>> /\ b # <<>>
  <2>0. 1 \in Heads(a) /\ 1 \in Heads(b) /\ Len(a) > 0 /\ Len(b) > 0
    BY <1>1, <1>2, <1>3, <1>5 DEF Heads
  <2> HIDE DEF c
  <2>1. \A i \in Heads(c) : i \in Heads(a) \/ \E k \in Heads(b) : i = Len(a) + k
    <3> SUFFICES ASSUME NEW i \in Heads(c), i \notin Heads(a)
                 PROVE  \E k \in Heads(b) : i = Len(a) + k
      OBVIOUS
    <3>1. i \in 1..Len(c) /\ c[i].u = "header"
      BY DEF Heads
    <3>2. i \notin 1..Len(a)
      BY <1>1, <3>1 DEF Heads
    <3>3. PICK k \in 1..Len(b) : i = Len(a) + k
      BY <1>1, <3>1, <3>2
    <3>4. k \in Heads(b)
      BY <1>1, <3>1, <3>3 DEF Heads
    <3> QED BY <3>3, <3>4
  <2>2. /\ \A i \in Heads(a) : i \in Heads(c) /\ c[i] = a[i] /\ i \in 1..Len(a)
        /\ \A k \in Heads(b) : Len(a) + k \in Heads(c) /\ c[Len(a) + k] = b[k] /\ k \in 1..Len(b)
    BY <1>1 DEF Heads
  <2>3. \A h \in Units : h.u = "header" => h.len \in Nat /\ h.pad \in Nat
    BY DEF Units
  <2>4. ASSUME NEW i \in Heads(c)
        PROVE  Record(c, i, i + Span(c[i]))
    <3>1. c[i] \in Units /\ i \in Nat
      BY <1>1 DEF Heads
    <3>2. Span(c[i]) \in Nat
      BY <2>3, <3>1, OutputAssumption DEF Span, Heads
    <3>3. CASE i \in Heads(a)
      <4>1. PICK next \in Nat : next = i + Span(c[i])
        BY <3>1, <3>2
      <4>2. c[i] = a[i] /\ Record(a, i, next)
        BY <2>2, <3>3, <4>1 DEF Whole
      <4>3. next - 1 <= Len(a) /\ next \in Heads(c)
        <5>1. CASE next \in Heads(a)
          BY <1>1, <2>2, <4>1, <5>1
        <5>2. CASE next = Len(a) + 1
          BY <1>1, <2>0, <2>2, <4>1, <5>2
        <5> QED BY <4>2, <5>1, <5>2 DEF Record
      <4>4. ASSUME NEW j \in (i + 1)..(next - 1)
            PROVE  c[j].u # "header" /\ (c[j].u = "byte" => c[j].s = c[i].type)
        <5>1. c[j] = a[j]
          <6>1. j \in 1..Len(a)
            BY <1>1, <3>1, <4>1, <4>3
          <6> QED BY <1>1, <6>1
        <5>2. a[j].u # "header" /\ (a[j].u = "byte" => a[j].s = a[i].type)
          BY <4>2 DEF Record
        <5> QED BY <4>2, <5>1, <5>2
      <4>5. Record(c, i, next)
        BY <4>2, <4>3, <4>4 DEF Record
      <4> QED BY <4>1, <4>5
    <3>4. ASSUME NEW k \in Heads(b), i = Len(a) + k
          PROVE  Record(c, i, i + Span(c[i]))
      <4>0. c[i] = b[k] /\ k \in 1..Len(b) /\ k \in Nat
        BY <1>1, <2>2, <3>4
      <4>1. PICK next \in Nat : next = k + Span(c[i])
        BY <3>2, <4>0
      <4>2. Record(b, k, next)
        BY <4>0, <4>1 DEF Whole
      <4>3. Len(a) + next = i + Span(c[i]) /\ (Len(a) + next) - i = next - k
        BY <1>1, <3>2, <3>4, <4>0, <4>1
      <4>4. next - 1 <= Len(b) /\ (Len(a) + next \in Heads(c) \/ Len(a) + next = Len(c) + 1)
        <5>1. CASE next \in Heads(b)
          BY <1>1, <2>2, <4>1, <5>1
        <5>2. CASE next = Len(b) + 1
          BY <1>1, <5>2
        <5> QED BY <4>2, <5>1, <5>2 DEF Record
      <4>5. ASSUME NEW j \in (i + 1)..(Len(a) + next - 1)
            PROVE  c[j].u # "header" /\ (c[j].u = "byte" => c[j].s = c[i].type)
        <5>1. PICK l \in (k + 1)..(next - 1) : j = Len(a) + l
          <6>1. j - Len(a) \in (k + 1)..(next - 1) /\ j = Len(a) + (j - Len(a))
            BY <1>1, <3>4, <4>0, <4>1
          <6> QED BY <6>1
        <5>2. l \in 1..Len(b)
          BY <1>1, <4>0, <4>1, <4>4
        <5>3. c[j] = b[l]
          BY <1>1, <5>1, <5>2
        <5>4. b[l].u # "header" /\ (b[l].u = "byte" => b[l].s = b[k].type)
          BY <4>2, <5>1 DEF Record
        <5> QED BY <4>0, <5>3, <5>4
      <4>6. Record(c, i, Len(a) + next)
        BY <4>2, <4>3, <4>4, <4>5 DEF Record
      <4> QED BY <4>3, <4>6
    <3> QED BY <2>1, <3>3, <3>4
  <2>5. 1 \in Heads(c)
    BY <2>0, <2>2
  <2>6. Whole(c)
    BY <2>4, <2>5 DEF Whole
  <2> QED BY <2>6 DEF c
<1> QED BY <1>4, <1>5

LEMMA EndsConcat ==
    ASSUME NEW a \in Seq(Units), NEW b \in Seq(Units), NEW t
    PROVE  /\ \A i : i \in Heads(a \o b) <=> i \in Heads(a) \/ \E k \in Heads(b) : i = Len(a) + k
           /\ \A i : i \in Ends(a \o b, t) <=> i \in Ends(a, t) \/ \E k \in Ends(b, t) : i = Len(a) + k
           /\ Ends(a, t) = {} /\ Ends(b, t) = {} => Ends(a \o b, t) = {}
           /\ Once(a, t) /\ Ends(b, t) = {} => Once(a \o b, t)
           /\ Ends(a, t) = {} /\ Once(b, t) => Once(a \o b, t)
<1> DEFINE c == a \o b
<1>1. /\ Len(a) \in Nat /\ Len(b) \in Nat /\ Len(c) = Len(a) + Len(b) /\ c \in Seq(Units)
      /\ \A i \in 1..Len(a) : i \in 1..Len(c) /\ c[i] = a[i]
      /\ \A i \in 1..Len(b) : Len(a) + i \in 1..Len(c) /\ c[Len(a) + i] = b[i]
      /\ \A i \in 1..Len(c) : i \in 1..Len(a) \/ \E k \in 1..Len(b) : i = Len(a) + k
  BY ConcatAt
<1> HIDE DEF c
<1>2. \A i : i \in Heads(c) <=> i \in Heads(a) \/ \E k \in Heads(b) : i = Len(a) + k
  BY <1>1, ZenonT(40) DEF Heads
<1>3. \A i : i \in Ends(c, t) <=> i \in Ends(a, t) \/ \E k \in Ends(b, t) : i = Len(a) + k
  <2>1. /\ \A i \in Heads(a) : c[i] = a[i]
        /\ \A k \in Heads(b) : c[Len(a) + k] = b[k]
    BY <1>1 DEF Heads
  <2>2. ASSUME NEW i, i \in Ends(a, t) PROVE i \in Ends(c, t)
    BY <1>2, <2>1, <2>2 DEF Ends
  <2>3. ASSUME NEW k, k \in Ends(b, t) PROVE Len(a) + k \in Ends(c, t)
    BY <1>2, <2>1, <2>3 DEF Ends
  <2>4. ASSUME NEW i, i \in Ends(c, t) PROVE i \in Ends(a, t) \/ \E k \in Ends(b, t) : i = Len(a) + k
    <3>1. CASE i \in Heads(a)
      BY <2>1, <2>4, <3>1 DEF Ends
    <3>2. CASE i \notin Heads(a)
      <4>1. PICK k \in Heads(b) : i = Len(a) + k
        BY <1>2, <2>4, <3>2 DEF Ends
      <4>2. k \in Ends(b, t)
        BY <2>1, <2>4, <4>1 DEF Ends
      <4> QED BY <4>1, <4>2
    <3> QED BY <3>1, <3>2
  <2> QED BY <2>2, <2>3, <2>4
<1>4. Ends(a, t) = {} /\ Ends(b, t) = {} => Ends(c, t) = {}
  BY <1>3
<1>5. ASSUME Once(a, t), Ends(b, t) = {} PROVE Once(c, t)
  <2>1. PICK i \in Heads(a) : Ends(a, t) = {i}
    BY <1>5 DEF Once
  <2>2. Ends(c, t) = {i}
    BY <1>3, <1>5, <2>1
  <2> QED BY <1>2, <2>2 DEF Once
<1>6. ASSUME Ends(a, t) = {}, Once(b, t) PROVE Once(c, t)
  <2>1. PICK i \in Heads(b) : Ends(b, t) = {i}
    BY <1>6 DEF Once
  <2>2. Ends(c, t) = {Len(a) + i}
    BY <1>3, <1>6, <2>1
  <2> QED BY <1>2, <2>1, <2>2 DEF Once
<1> QED BY <1>2, <1>3, <1>4, <1>5, <1>6 DEF c

-----------------------------------------------------------------------------
(* The records that the library makes.                                      *)

LEMMA UnitKinds ==
    /\ [u |-> "more"] \in Units /\ [u |-> "pad"] \in Units
    /\ \A type \in Writers \cup {"END_REQUEST"}, len, pad \in Nat :
          [u |-> "header", type |-> type, len |-> len, pad |-> pad] \in Units
    /\ \A s \in Writers, n \in Nat : [u |-> "byte", s |-> s, n |-> n] \in Units
    /\ \A n \in Statuses \cup {0} : [u |-> "status", n |-> n] \in Units
BY DEF Units

LEMMA MakeHeaderType ==
    ASSUME NEW type \in Writers \cup {"END_REQUEST"}, NEW len \in Nat, NEW pad \in Nat
    PROVE  LET h == MakeHeader(type, len, pad) IN
           /\ h \in Seq(Units) /\ Len(h) = HeaderLen
           /\ h[1] = [u |-> "header", type |-> type, len |-> len, pad |-> pad]
           /\ \A i \in 2..HeaderLen : h[i] = [u |-> "more"]
<1> DEFINE e(i) == IF i = 1 THEN [u |-> "header", type |-> type, len |-> len, pad |-> pad] ELSE [u |-> "more"]
           h == MakeHeader(type, len, pad)
<1>1. HeaderLen \in Nat /\ 1 \in 1..HeaderLen
  BY OutputAssumption
<1>2. \A i \in 1..HeaderLen : e(i) \in Units
  BY UnitKinds
<1>3. h = [i \in 1..HeaderLen |-> e(i)]
  BY DEF MakeHeader
<1>4. e(1) = [u |-> "header", type |-> type, len |-> len, pad |-> pad] /\ \A i \in 2..HeaderLen : e(i) = [u |-> "more"]
  BY <1>1
<1> HIDE DEF e, h
<1>5. h \in Seq(Units) /\ Len(h) = HeaderLen
  BY <1>1, <1>2, <1>3
<1>6. \A i \in 1..HeaderLen : h[i] = e(i)
  BY <1>3
<1>7. 2..HeaderLen \subseteq 1..HeaderLen
  BY <1>1
<1> QED BY <1>1, <1>4, <1>5, <1>6, <1>7 DEF h

(* A record is whole when it has one header, and spans it all.              *)
LEMMA OneRecord ==
    ASSUME NEW u \in Seq(Units), NEW s, u # <<>>, u[1].u = "header", u[1].type = s, Len(u) = Span(u[1]),
           Mult(Len(u)),
           \A j \in 2..Len(u) : u[j].u # "header" /\ (u[j].u = "byte" => u[j].s = s)
    PROVE  Whole(u) /\ Heads(u) = {1}
<1>1. Len(u) \in Nat /\ Len(u) >= 1
  BY EmptySeq
<1>2. Heads(u) = {1}
  <2>1. 1 \in 1..Len(u)
    BY <1>1
  <2>2. \A i \in 1..Len(u) : i # 1 => i \in 2..Len(u)
    BY <1>1
  <2> QED BY <2>1, <2>2 DEF Heads
<1>3. Record(u, 1, Len(u) + 1)
  <2>1. (Len(u) + 1 - 1) % HeaderLen = 0
    <3>1. Len(u) % HeaderLen = 0
      BY <1>1, MultMod
    <3>2. Len(u) + 1 - 1 = Len(u)
      BY <1>1
    <3> QED BY <3>1, <3>2
  <2>2. \A j \in (1 + 1)..(Len(u) + 1 - 1) : j \in 2..Len(u)
    BY <1>1
  <2> QED BY <2>1, <2>2 DEF Record
<1>4. 1 + Span(u[1]) = Len(u) + 1
  BY <1>1
<1> QED BY <1>2, <1>3, <1>4 DEF Whole

(* The empty record that ends a stream.                                     *)
LEMMA EofRecord ==
    ASSUME NEW s \in Writers
    PROVE  LET h == MakeHeader(s, 0, 0) IN
           /\ h \in Seq(Units) /\ Len(h) = HeaderLen /\ Whole(h) /\ h # <<>>
           /\ \A i \in 1..Len(h) : h[i].u # "byte"
           /\ Once(h, s) /\ \A t : t # s => Ends(h, t) = {}
<1> DEFINE h == MakeHeader(s, 0, 0)
<1>1. /\ h \in Seq(Units) /\ Len(h) = HeaderLen
      /\ h[1] = [u |-> "header", type |-> s, len |-> 0, pad |-> 0]
      /\ \A i \in 2..HeaderLen : h[i] = [u |-> "more"]
  BY MakeHeaderType
<1> HIDE DEF h
<1>2. HeaderLen \in Nat \ {0} /\ h # <<>>
  BY <1>1, OutputAssumption
<1>3. h[1].u = "header" /\ h[1].type = s /\ h[1].len = 0 /\ h[1].pad = 0
  BY <1>1
<1>4. Len(h) = Span(h[1])
  BY <1>1, <1>2, <1>3 DEF Span
<1>5. \A j \in 2..Len(h) : h[j].u # "header" /\ h[j].u # "byte"
  BY <1>1
<1>6. Whole(h) /\ Heads(h) = {1}
  <2>1. Mult(Len(h))
    BY <1>1, MultZero
  <2> QED BY <1>1, <1>2, <1>3, <1>4, <1>5, <2>1, OneRecord
<1>7. \A i \in 1..Len(h) : h[i].u # "byte"
  <2>1. \A i \in 1..Len(h) : i = 1 \/ i \in 2..Len(h)
    BY <1>1, <1>2
  <2> QED BY <1>3, <1>5, <2>1
<1>8. Ends(h, s) = {1} /\ \A t : t # s => Ends(h, t) = {}
  BY <1>3, <1>6 DEF Ends
<1> QED BY <1>1, <1>2, <1>6, <1>7, <1>8 DEF Once, h

LEMMA EndRequestRecord ==
    ASSUME NEW status \in Statuses \cup {0}
    PROVE  LET r == EndRequest(status) IN
           /\ r \in Seq(Units) /\ Whole(r) /\ Len(r) = HeaderLen + HeaderLen /\ r[Len(r)].n = status
           /\ \A i \in 1..Len(r) : r[i].u # "byte"
           /\ Heads(r) = {1} /\ Ends(r, "END_REQUEST") = {1}
           /\ \A t \in Writers : Ends(r, t) = {}
<1> DEFINE h == MakeHeader("END_REQUEST", HeaderLen, 0)
           b == [i \in 1..HeaderLen |-> [u |-> "status", n |-> status]]
           r == EndRequest(status)
<1>0. HeaderLen \in Nat \ {0}
  BY OutputAssumption
<1>1. /\ h \in Seq(Units) /\ Len(h) = HeaderLen
      /\ h[1] = [u |-> "header", type |-> "END_REQUEST", len |-> HeaderLen, pad |-> 0]
      /\ \A i \in 2..HeaderLen : h[i] = [u |-> "more"]
  BY <1>0, MakeHeaderType
<1>2. b \in Seq(Units) /\ Len(b) = HeaderLen /\ \A i \in 1..HeaderLen : b[i] = [u |-> "status", n |-> status]
  BY <1>0, UnitKinds
<1>3. r = h \o b
  BY DEF EndRequest
<1> HIDE DEF h, b, r
<1>4. /\ r \in Seq(Units) /\ Len(r) = HeaderLen + HeaderLen
      /\ \A i \in 1..HeaderLen : r[i] = h[i]
      /\ \A i \in 1..HeaderLen : r[HeaderLen + i] = b[i]
      /\ \A i \in 1..Len(r) : i \in 1..HeaderLen \/ \E k \in 1..HeaderLen : i = HeaderLen + k
  <2>1. /\ h \o b \in Seq(Units) /\ Len(h \o b) = Len(h) + Len(b)
        /\ \A i \in 1..Len(h) : i \in 1..Len(h \o b) /\ (h \o b)[i] = h[i]
        /\ \A i \in 1..Len(b) : Len(h) + i \in 1..Len(h \o b) /\ (h \o b)[Len(h) + i] = b[i]
        /\ \A i \in 1..Len(h \o b) : i \in 1..Len(h) \/ \E k \in 1..Len(b) : i = Len(h) + k
    BY <1>1, <1>2, ConcatAt
  <2> QED BY <1>1, <1>2, <1>3, <2>1
<1>5. /\ r[1].u = "header" /\ r[1].type = "END_REQUEST" /\ r[1].len = HeaderLen /\ r[1].pad = 0
      /\ r # <<>> /\ 1 \in 1..HeaderLen
  BY <1>0, <1>1, <1>4
<1>6. ASSUME NEW j \in 2..Len(r) PROVE r[j].u # "header" /\ r[j].u # "byte"
  <2>1. CASE j \in 1..HeaderLen
    <3>1. j \in 2..HeaderLen
      BY <2>1
    <3> QED BY <1>1, <1>4, <3>1
  <2>2. ASSUME NEW k \in 1..HeaderLen, j = HeaderLen + k PROVE r[j].u # "header" /\ r[j].u # "byte"
    BY <1>2, <1>4, <2>2
  <2>3. j \in 1..Len(r)
    BY <1>0, <1>4
  <2> QED BY <1>4, <2>1, <2>2, <2>3
<1>7. Whole(r) /\ Heads(r) = {1}
  <2>1. Len(r) = Span(r[1])
    BY <1>0, <1>4, <1>5 DEF Span
  <2>2. Mult(Len(r))
    BY <1>4, MultZero, MultAdd
  <2> QED BY <1>4, <1>5, <1>6, <2>1, <2>2, OneRecord
<1>8. r[Len(r)].n = status
  BY <1>0, <1>2, <1>4
<1>9. \A i \in 1..Len(r) : r[i].u # "byte"
  <2>1. \A i \in 1..Len(r) : i = 1 \/ i \in 2..Len(r)
    BY <1>0, <1>4
  <2> QED BY <1>5, <1>6, <2>1
<1>10. Ends(r, "END_REQUEST") = {1} /\ \A t \in Writers : Ends(r, t) = {}
  BY <1>5, <1>7 DEF Ends, Writers
<1> QED BY <1>4, <1>7, <1>8, <1>9, <1>10 DEF r

(* The buffer as a record.                                                  *)
LEMMA EncapsulatedType ==
    ASSUME NEW s \in Writers, NEW x \in Streams
    PROVE  LET e == Encapsulated(s, x) IN
           /\ e \in Seq(Units)
           /\ x.raw \/ x.buf = <<>> => e = x.buf
           /\ ~x.raw /\ x.buf # <<>> =>
                 /\ Len(e) = HeaderLen + Aligned(Len(x.buf)) /\ e # <<>>
                 /\ SubSeq(e, HeaderLen + 1, Len(e)) \in Seq(Units)
                 /\ Len(SubSeq(e, HeaderLen + 1, Len(e))) = Aligned(Len(x.buf))
                 /\ \E h, p \in Seq(Units) :
                       /\ e = (h \o x.buf) \o p
                       /\ Len(h) = HeaderLen /\ \A i \in 2..HeaderLen : h[i] = [u |-> "more"]
                       /\ Len(p) = Aligned(Len(x.buf)) - Len(x.buf) /\ \A i \in 1..Len(p) : p[i] = [u |-> "pad"]
                       /\ h[1] = [u |-> "header", type |-> s, len |-> Len(x.buf), pad |-> Len(p)]
<1> DEFINE e == Encapsulated(s, x)
           pad == Aligned(Len(x.buf)) - Len(x.buf)
           h == MakeHeader(s, Len(x.buf), pad)
           p == [i \in 1..pad |-> [u |-> "pad"]]
<1>1. x.buf \in Seq(Units) /\ Len(x.buf) \in Nat /\ HeaderLen \in Nat \ {0} /\ x.raw \in BOOLEAN
  BY OutputAssumption DEF Streams
<1>2. CASE x.raw \/ x.buf = <<>>
  <2>1. e = x.buf
    BY <1>2 DEF Encapsulated
  <2> QED BY <1>1, <1>2, <2>1
<1>3. CASE ~x.raw /\ x.buf # <<>>
  <2>1. e = (h \o x.buf) \o p
    BY <1>3, Zenon DEF Encapsulated
  <2>2. Aligned(Len(x.buf)) \in Nat /\ Len(x.buf) <= Aligned(Len(x.buf)) /\ pad \in Nat
    BY <1>1, AlignedProps
  <2> HIDE DEF pad
  <2>3. /\ h \in Seq(Units) /\ Len(h) = HeaderLen
        /\ h[1] = [u |-> "header", type |-> s, len |-> Len(x.buf), pad |-> pad]
        /\ \A i \in 2..HeaderLen : h[i] = [u |-> "more"]
    BY <1>1, <2>2, MakeHeaderType
  <2>4. p \in Seq(Units) /\ Len(p) = pad /\ \A i \in 1..pad : p[i] = [u |-> "pad"]
    BY <2>2, UnitKinds
  <2> HIDE DEF h, p, e
  <2>5. h \o x.buf \in Seq(Units) /\ Len(h \o x.buf) = HeaderLen + Len(x.buf)
    BY <1>1, <2>3, ConcatProperties
  <2>6. e \in Seq(Units) /\ Len(e) = HeaderLen + Len(x.buf) + pad
    <3>1. e \in Seq(Units) /\ Len(e) = Len(h \o x.buf) + Len(p)
      BY <2>1, <2>4, <2>5, ConcatProperties
    <3> QED BY <2>4, <2>5, <3>1
  <2>7. Len(e) = HeaderLen + Aligned(Len(x.buf)) /\ e # <<>>
    BY <1>1, <2>2, <2>6 DEF pad
  <2>8. /\ SubSeq(e, HeaderLen + 1, Len(e)) \in Seq(Units)
        /\ Len(SubSeq(e, HeaderLen + 1, Len(e))) = Aligned(Len(x.buf))
    <3>1. \A i \in (HeaderLen + 1)..Len(e) : e[i] \in Units
      BY <1>1, <2>6
    <3>2. HeaderLen + 1 \in Int /\ Len(e) \in Int
      BY <1>1, <2>2, <2>7
    <3>3. /\ SubSeq(e, HeaderLen + 1, Len(e)) \in Seq(Units)
          /\ Len(SubSeq(e, HeaderLen + 1, Len(e))) = IF HeaderLen + 1 <= Len(e) THEN Len(e) - (HeaderLen + 1) + 1 ELSE 0
      BY <3>1, <3>2, SubSeqProperties
    <3> QED BY <1>1, <2>2, <2>7, <3>3
  <2>9. /\ e = (h \o x.buf) \o p
        /\ Len(h) = HeaderLen /\ \A i \in 2..HeaderLen : h[i] = [u |-> "more"]
        /\ Len(p) = Aligned(Len(x.buf)) - Len(x.buf) /\ \A i \in 1..Len(p) : p[i] = [u |-> "pad"]
        /\ h[1] = [u |-> "header", type |-> s, len |-> Len(x.buf), pad |-> Len(p)]
    BY <2>1, <2>3, <2>4 DEF pad
  <2> QED BY <1>3, <2>3, <2>4, <2>6, <2>7, <2>8, <2>9 DEF e
<1> QED BY <1>2, <1>3

LEMMA EncapsulatedRaw ==
    ASSUME NEW s \in Writers, NEW x \in Streams, x.raw
    PROVE  Encapsulated(s, x) = x.buf
BY DEF Encapsulated

(* The record of a buffer that holds bytes of its stream.                   *)
LEMMA EncapsulatedRecord ==
    ASSUME NEW s \in Writers, NEW x \in Streams, ~x.raw, x.buf # <<>>,
           \A i \in 1..Len(x.buf) : x.buf[i].u = "byte" /\ x.buf[i].s = s
    PROVE  LET e == Encapsulated(s, x) IN
           /\ Whole(e) /\ Mult(Len(e)) /\ Len(e) # 0
           /\ \A t : Ends(e, t) = {}
           /\ \A lo, hi \in Nat : lo <= hi /\ Carries(x.buf, s, lo, hi) => Carries(e, s, lo, hi)
           /\ \A t \in Writers, n \in Nat : t # s => Carries(e, t, n, n)
           /\ \A i \in 1..Len(e) : e[i].u = "byte" => e[i].s = s
<1> DEFINE e == Encapsulated(s, x)
           L == Len(x.buf)
<1>0. x.buf \in Seq(Units) /\ L \in Nat \ {0} /\ HeaderLen \in Nat \ {0}
  BY OutputAssumption, EmptySeq DEF Streams
<1>1. e \in Seq(Units) /\ Len(e) = HeaderLen + Aligned(L) /\ e # <<>>
  BY EncapsulatedType
<1>2. PICK h \in Seq(Units), p \in Seq(Units) :
                       /\ e = (h \o x.buf) \o p
                       /\ Len(h) = HeaderLen /\ \A i \in 2..HeaderLen : h[i] = [u |-> "more"]
                       /\ Len(p) = Aligned(Len(x.buf)) - Len(x.buf) /\ \A i \in 1..Len(p) : p[i] = [u |-> "pad"]
                       /\ h[1] = [u |-> "header", type |-> s, len |-> Len(x.buf), pad |-> Len(p)]
  BY EncapsulatedType
<1>3. Aligned(L) \in Nat /\ L <= Aligned(L) /\ Mult(Aligned(L))
  BY <1>0, AlignedProps
<1> HIDE DEF e, L
<1> DEFINE hb == h \o x.buf
<1>4. /\ hb \in Seq(Units) /\ Len(hb) = HeaderLen + L
      /\ \A i \in 1..HeaderLen : hb[i] = h[i]
      /\ \A i \in 1..L : hb[HeaderLen + i] = x.buf[i]
      /\ \A i \in 1..Len(hb) : i \in 1..HeaderLen \/ \E k \in 1..L : i = HeaderLen + k
  <2>1. /\ hb \in Seq(Units) /\ Len(hb) = Len(h) + Len(x.buf)
        /\ \A i \in 1..Len(h) : i \in 1..Len(hb) /\ hb[i] = h[i]
        /\ \A i \in 1..Len(x.buf) : Len(h) + i \in 1..Len(hb) /\ hb[Len(h) + i] = x.buf[i]
        /\ \A i \in 1..Len(hb) : i \in 1..Len(h) \/ \E k \in 1..Len(x.buf) : i = Len(h) + k
    BY <1>0, <1>2, ConcatAt
  <2> QED BY <1>2, <2>1 DEF L
<1>5. e = hb \o p
  BY <1>2
<1> HIDE DEF hb
<1>6. /\ Len(e) = Len(hb) + Len(p)
      /\ \A i \in 1..Len(hb) : e[i] = hb[i]
      /\ \A i \in 1..Len(p) : e[Len(hb) + i] = p[i]
      /\ \A i \in 1..Len(e) : i \in 1..Len(hb) \/ \E k \in 1..Len(p) : i = Len(hb) + k
  BY <1>4, <1>5, ConcatAt
<1>7. /\ e[1].u = "header" /\ e[1].type = s /\ e[1].len = L /\ e[1].pad = Len(p)
  <2>1. 1 \in 1..HeaderLen /\ 1 \in 1..Len(hb)
    BY <1>0, <1>4
  <2>2. e[1] = h[1]
    BY <1>4, <1>6, <2>1
  <2> QED BY <1>2, <2>2 DEF L
<1>8. ASSUME NEW i \in 2..Len(e) PROVE e[i].u # "header" /\ (e[i].u = "byte" => e[i].s = s)
  <2>1. i \in 1..Len(e)
    BY <1>0, <1>1, <1>3
  <2>2. CASE i \in 1..Len(hb)
    <3>1. e[i] = hb[i]
      BY <1>6, <2>2
    <3>2. CASE i \in 1..HeaderLen
      <4>1. i \in 2..HeaderLen
        BY <3>2
      <4> QED BY <1>2, <1>4, <3>1, <3>2, <4>1
    <3>3. ASSUME NEW k \in 1..L, i = HeaderLen + k PROVE e[i].u = "byte" /\ e[i].s = s
      BY <1>4, <3>1, <3>3 DEF L
    <3> QED BY <1>4, <2>2, <3>2, <3>3
  <2>3. ASSUME NEW k \in 1..Len(p), i = Len(hb) + k PROVE e[i].u = "pad"
    <3>1. e[i] = p[k] /\ p[k] = [u |-> "pad"]
      BY <1>2, <1>6, <2>3
    <3> QED BY <3>1
  <2> QED BY <1>6, <2>1, <2>2, <2>3
<1>9. Mult(Len(e)) /\ Len(e) # 0
  <2>1. Mult(HeaderLen + Aligned(L))
    BY <1>3, MultZero, MultAdd
  <2> QED BY <1>0, <1>1, <1>3, <2>1
<1>10. Whole(e) /\ Heads(e) = {1}
  <2>1. Len(e) = Span(e[1])
    <3>1. Len(p) = Aligned(L) - L
      BY <1>2 DEF L
    <3> QED BY <1>0, <1>1, <1>3, <1>7, <3>1 DEF Span
  <2> QED BY <1>1, <1>7, <1>8, <1>9, <2>1, OneRecord
<1>11. \A t : Ends(e, t) = {}
  <2>1. e[1].len # 0 /\ e[1].type # "END_REQUEST"
    BY <1>0, <1>7 DEF Writers
  <2> QED BY <1>10, <2>1 DEF Ends
<1>12. ASSUME NEW lo \in Nat, NEW hi \in Nat, lo <= hi, Carries(x.buf, s, lo, hi) PROVE Carries(e, s, lo, hi)
  <2>1. Carries(h, s, lo, lo)
    <3>1. \A i \in 1..Len(h) : h[i].u # "byte"
      <4>1. \A i \in 1..Len(h) : i = 1 \/ i \in 2..HeaderLen
        BY <1>0, <1>2
      <4> QED BY <1>2, <4>1
    <3> QED BY <3>1, CarriesNothing
  <2>2. Carries(p, s, hi, hi)
    <3>1. \A i \in 1..Len(p) : p[i].u # "byte"
      BY <1>2
    <3> QED BY <3>1, CarriesNothing
  <2>3. Carries(hb, s, lo, hi)
    BY <1>0, <1>12, <2>1, CarriesConcat DEF hb
  <2> QED BY <1>4, <1>5, <1>12, <2>2, <2>3, CarriesConcat
<1>13. \A i \in 1..Len(e) : e[i].u = "byte" => e[i].s = s
  <2>1. \A i \in 1..Len(e) : i = 1 \/ i \in 2..Len(e)
    BY <1>0, <1>1, <1>3
  <2> QED BY <1>7, <1>8, <2>1
<1>14. ASSUME NEW t \in Writers, NEW n \in Nat, t # s PROVE Carries(e, t, n, n)
  BY <1>13, <1>14, CarriesNothing
<1> QED BY <1>9, <1>10, <1>11, <1>12, <1>13, <1>14 DEF e

(* No units at all.                                                         *)
LEMMA NoUnits ==
    /\ <<>> \in Seq(Units) /\ Len(<<>>) = 0 /\ Whole(<<>>) /\ \A t : Ends(<<>>, t) = {}
    /\ \A s, n : n \in Nat => Carries(<<>>, s, n, n)
<1>1. <<>> \in Seq(Units) /\ Len(<<>>) = 0
  OBVIOUS
<1>2. Heads(<<>>) = {} /\ \A s : \A i \in 1..Len(<<>>) : FALSE
  BY <1>1 DEF Heads
<1>3. ASSUME NEW s, NEW n \in Nat PROVE Carries(<<>>, s, n, n)
  BY <1>2, CarriesNothing
<1> QED BY <1>1, <1>2, <1>3 DEF Whole, Ends

LEMMA Encapsulation ==
    ASSUME NEW s \in Writers, NEW x \in Streams, ~x.raw,
           \A i \in 1..Len(x.buf) : x.buf[i].u = "byte" /\ x.buf[i].s = s
    PROVE  LET e == Encapsulated(s, x) IN
           /\ Whole(e) /\ Mult(Len(e))
           /\ \A t : Ends(e, t) = {}
           /\ \A lo, hi \in Nat : lo <= hi /\ Carries(x.buf, s, lo, hi) => Carries(e, s, lo, hi)
           /\ \A t \in Writers, n \in Nat : t # s => Carries(e, t, n, n)
           /\ \A i \in 1..Len(e) : e[i].u = "byte" => e[i].s = s
<1>1. CASE x.buf = <<>>
  <2>1. Encapsulated(s, x) = <<>>
    BY <1>1, EncapsulatedType
  <2>2. Mult(Len(<<>>))
    BY NoUnits, MultZero
  <2>3. \A i \in 1..Len(<<>>) : FALSE
    BY NoUnits
  <2> QED BY <1>1, <2>1, <2>2, <2>3, NoUnits
<1>2. CASE x.buf # <<>>
  BY <1>2, EncapsulatedRecord
<1> QED BY <1>1, <1>2

-----------------------------------------------------------------------------
(* EmptyBuffProc                                                            *)

(* The buffer, made into a record or not, stays inside its bounds.          *)
LEMMA EncapsulatedFits ==
    ASSUME NEW s \in Writers, NEW x \in Streams, Used(x) <= Stop(s)
    PROVE  Len(Encapsulated(s, x)) <= Stop(s) /\ Len(Encapsulated(s, x)) \in Nat
<1> DEFINE e == Encapsulated(s, x)
<1>0. x.buf \in Seq(Units) /\ Len(x.buf) \in Nat /\ HeaderLen \in Nat \ {0} /\ Stop(s) \in Nat
  BY OutputAssumption, StopProps DEF Streams
<1>1. e \in Seq(Units) /\ Len(e) \in Nat
  <2>1. e \in Seq(Units)
    BY EncapsulatedType
  <2> HIDE DEF e
  <2> QED BY <2>1
<1>2. CASE x.raw \/ x.buf = <<>>
  <2>1. e = x.buf
    BY <1>2, EncapsulatedType
  <2> HIDE DEF e
  <2>2. Len(x.buf) <= Stop(s)
    <3>1. CASE x.raw
      BY <1>0, <3>1 DEF Used
    <3>2. CASE ~x.raw
      BY <1>0, <3>2 DEF Used
    <3> QED BY <3>1, <3>2
  <2> QED BY <1>1, <2>1, <2>2 DEF e
<1>3. CASE ~x.raw /\ x.buf # <<>>
  <2>1. Len(e) = HeaderLen + Aligned(Len(x.buf))
    BY <1>3, EncapsulatedType
  <2>2. Len(x.buf) + HeaderLen <= Stop(s)
    BY <1>3 DEF Used
  <2>3. Mult(Stop(s) - HeaderLen) /\ Stop(s) - HeaderLen \in Nat
    BY <1>0, StopProps, MultZero, MultSub
  <2>4. Len(x.buf) <= Stop(s) - HeaderLen
    BY <1>0, <2>2
  <2>5. Aligned(Len(x.buf)) <= Stop(s) - HeaderLen /\ Aligned(Len(x.buf)) \in Nat
    BY <1>0, <2>3, <2>4, AlignedProps
  <2> QED BY <1>0, <1>1, <2>1, <2>5
<1> QED BY <1>2, <1>3

(* The web server is there, and no write to it was or is interrupted.       *)
Clean == ~dead /\ ~torn'

LEMMA TornStays == ASSUME NEW s, NEW x, EmptyBuffProc(s, x) PROVE torn => torn'
BY DEF EmptyBuffProc

LEMMA SentTyped ==
    ASSUME out \in Seq(Units), NEW units \in Seq(Units), NEW cut PROVE Sent(units, cut) \in Seq(Units)
<1>1. out \o units \in Seq(Units)
  BY ConcatProperties
<1>2. <<>> \in Seq(Units) /\ MakeHeader("END_REQUEST", HeaderLen, 0) \in Seq(Units)
  BY MakeHeaderType, OutputAssumption, NoUnits
<1> DEFINE u == out \o units
<1>3. Remains(u) \in Seq(Units)
  BY <1>2 DEF Remains
<1> HIDE DEF u
<1>4. Sent(units, cut) = out \/ Sent(units, cut) = u \/ Sent(units, cut) = Remains(u)
  BY DEF Sent, u
<1> QED BY <1>1, <1>3, <1>4 DEF u

(* What EmptyBuffProc leaves behind, and what it writes to a web server     *)
(* that is there, unless it is interrupted.                                 *)
LEMMA EmptyEffect ==
    ASSUME TypeOK, NEW s \in Writers, NEW x \in Streams, Used(x) <= Stop(s), EmptyBuffProc(s, x)
    PROVE  /\ out' \in Seq(Units) /\ torn' \in BOOLEAN
           /\ Clean => out' = out \o Encapsulated(s, x)
           /\ \E y \in Streams :
                 /\ w' = [w EXCEPT ![s] = y]
                 /\ Used(y) <= Stop(s) /\ y.raw = x.raw /\ y.fclosed = x.fclosed /\ (x.closed => y.closed)
                 /\ Clean => /\ y.buf = <<>> /\ y.closed = x.closed
                             /\ y.any <=> x.any \/ x.buf # <<>>
<1> DEFINE e == Encapsulated(s, x)
<1>0. /\ x.buf \in Seq(Units) /\ Len(x.buf) \in Nat /\ HeaderLen \in Nat \ {0} /\ Stop(s) \in Nat
      /\ HeaderLen <= Stop(s) /\ out \in Seq(Units) /\ torn \in BOOLEAN /\ dead \in BOOLEAN
  BY OutputAssumption, StopProps DEF Streams, TypeOK
<1>1. e \in Seq(Units) /\ Len(e) <= Stop(s) /\ Len(e) \in Nat
  BY EncapsulatedType, EncapsulatedFits
<1>2. /\ (x.raw \/ x.buf = <<>> => e = x.buf)
      /\ (~x.raw /\ x.buf # <<>> =>
              /\ e # <<>> /\ SubSeq(e, HeaderLen + 1, Len(e)) \in Seq(Units)
              /\ Len(e) = HeaderLen + Len(SubSeq(e, HeaderLen + 1, Len(e))))
  <2>1. ~x.raw /\ x.buf # <<>> =>
              /\ e # <<>> /\ SubSeq(e, HeaderLen + 1, Len(e)) \in Seq(Units)
              /\ Len(e) = HeaderLen + Aligned(Len(x.buf))
              /\ Len(SubSeq(e, HeaderLen + 1, Len(e))) = Aligned(Len(x.buf))
    BY EncapsulatedType
  <2>2. x.raw \/ x.buf = <<>> => e = x.buf
    BY EncapsulatedType
  <2> QED BY <2>1, <2>2
<1>3. e = <<>> <=> x.buf = <<>>
  BY <1>2
<1>4. CASE e = <<>> /\ w' = [w EXCEPT ![s] = x] /\ UNCHANGED <<out, torn>>
  <2>1. out = out \o <<>>
    BY <1>0, ConcatEmptySeq
  <2>2. out' = out \o e
    BY <1>4, <2>1
  <2> QED BY <1>0, <1>3, <1>4, <2>2
<1>5. CASE e # <<>> /\ w' = [w EXCEPT ![s] = Emptied(x)] /\ out' = Sent(e, torn) /\ UNCHANGED torn
  <2> DEFINE y == Emptied(x)
  <2>1. y \in Streams /\ y.buf = <<>> /\ y.raw = x.raw /\ y.fclosed = x.fclosed /\ y.closed = x.closed /\ y.any
    <3>1. <<>> \in Seq(Units) /\ TRUE \in BOOLEAN
      OBVIOUS
    <3> QED BY <3>1, Zenon DEF Emptied, Streams
  <2> HIDE DEF y
  <2>2. Used(y) <= Stop(s)
    <3>1. Len(y.buf) = 0
      BY <2>1, NoUnits
    <3> QED BY <1>0, <3>1 DEF Used
  <2>3. Clean => Sent(e, torn) = out \o e
    BY <1>5 DEF Clean, Sent
  <2>4. w' = [w EXCEPT ![s] = y]
    BY <1>5 DEF y
  <2>5. out' \in Seq(Units) /\ torn' \in BOOLEAN /\ (Clean => out' = out \o e)
    BY <1>0, <1>1, <1>5, <2>3, SentTyped
  <2> QED BY <1>3, <1>5, <2>1, <2>2, <2>4, <2>5
<1>6. ASSUME e # <<>>, w' = [w EXCEPT ![s] = WriteFails(x, e)]
      PROVE  \E y \in Streams : /\ w' = [w EXCEPT ![s] = y]
                                /\ Used(y) <= Stop(s) /\ y.raw = x.raw /\ y.fclosed = x.fclosed /\ y.closed
  <2> DEFINE b == IF x.raw THEN e ELSE SubSeq(e, HeaderLen + 1, Len(e))
             z == [x EXCEPT !.any = TRUE, !.buf = b]
             y == SetError(z, "OS_ERROR")
  <2>1. b \in Seq(Units) /\ Len(b) \in Nat /\ (IF x.raw THEN Len(b) ELSE Len(b) + HeaderLen) <= Stop(s)
    <3>1. CASE x.raw
      BY <1>1, <3>1
    <3>2. CASE ~x.raw
      <4>1. SubSeq(e, HeaderLen + 1, Len(e)) \in Seq(Units) /\ Len(e) = HeaderLen + Len(SubSeq(e, HeaderLen + 1, Len(e)))
        BY <1>2, <1>3, <1>6, <3>2
      <4> DEFINE t == SubSeq(e, HeaderLen + 1, Len(e))
      <4>2. t \in Seq(Units) /\ Len(e) = HeaderLen + Len(t) /\ Len(t) \in Nat /\ b = t
        BY <3>2, <4>1
      <4> HIDE DEF t, b, e
      <4> QED BY <1>0, <1>1, <3>2, <4>2
    <3> QED BY <3>1, <3>2
  <2> HIDE DEF b
  <2>2. z \in Streams /\ z.buf = b /\ z.raw = x.raw /\ z.fclosed = x.fclosed
    <3>1. TRUE \in BOOLEAN
      OBVIOUS
    <3> QED BY <2>1, <3>1, Zenon DEF Streams
  <2> HIDE DEF z
  <2>3. y \in Streams /\ y.buf = b /\ y.raw = x.raw /\ y.fclosed = x.fclosed /\ y.closed
    <3>1. TRUE \in BOOLEAN /\ (IF z.errno = "0" THEN "OS_ERROR" ELSE z.errno) \in {"0", "OS_ERROR"}
      BY <2>2 DEF Streams
    <3> QED BY <2>2, <3>1, Zenon DEF Streams, SetError
  <2>4. w' = [w EXCEPT ![s] = y]
    BY <1>6 DEF z, b, WriteFails
  <2> HIDE DEF y
  <2>5. Used(y) <= Stop(s)
    <3>1. CASE x.raw
      BY <2>1, <2>3, <3>1 DEF Used
    <3>2. CASE ~x.raw
      BY <2>1, <2>3, <3>2 DEF Used
    <3> QED BY <3>1, <3>2
  <2> QED BY <2>3, <2>4, <2>5
<1>7. ASSUME torn' = (torn \/ ~dead), NEW k \in 0..Len(e) - 1, out' = Sent(SubSeq(e, 1, k), torn')
      PROVE  out' \in Seq(Units) /\ torn' \in BOOLEAN /\ ~Clean
  <2>1. SubSeq(e, 1, k) \in Seq(Units)
    <3>1. k \in 0..Len(e) /\ \A i \in 1..k : i \in 1..Len(e) /\ e[i] \in Units
      BY <1>1
    <3> HIDE DEF e
    <3> QED BY <1>1, <3>1, SubSeqProperties
  <2>2. out' \in Seq(Units)
    BY <1>0, <1>7, <2>1, SentTyped
  <2>3. torn' \in BOOLEAN /\ ~Clean
    BY <1>0, <1>7 DEF Clean
  <2> QED BY <2>2, <2>3
<1>8. \/ e = <<>> /\ w' = [w EXCEPT ![s] = x] /\ UNCHANGED <<out, torn>>
      \/ e # <<>> /\ w' = [w EXCEPT ![s] = Emptied(x)] /\ out' = Sent(e, torn) /\ UNCHANGED torn
      \/ /\ e # <<>> /\ w' = [w EXCEPT ![s] = WriteFails(x, e)]
         /\ torn' = (torn \/ ~dead) /\ \E k \in 0..Len(e) - 1 : out' = Sent(SubSeq(e, 1, k), torn')
  BY DEF EmptyBuffProc
<1>9. CASE /\ e # <<>> /\ w' = [w EXCEPT ![s] = WriteFails(x, e)]
           /\ torn' = (torn \/ ~dead) /\ \E k \in 0..Len(e) - 1 : out' = Sent(SubSeq(e, 1, k), torn')
  <2>1. out' \in Seq(Units) /\ torn' \in BOOLEAN /\ ~Clean
    BY <1>7, <1>9
  <2>2. PICK y \in Streams : /\ w' = [w EXCEPT ![s] = y]
                             /\ Used(y) <= Stop(s) /\ y.raw = x.raw /\ y.fclosed = x.fclosed /\ y.closed
    BY <1>6, <1>9
  <2> QED BY <2>1, <2>2
<1> QED BY <1>4, <1>5, <1>8, <1>9

-----------------------------------------------------------------------------
(* Types and the order in which a request is closed.                        *)

Control == TypeOK /\ Closes /\ Puts

(* A step that leaves the writers as open as they were.                     *)
LEMMA ClosesFrame ==
    ASSUME Closes,
           \A t \in Writers : w'[t].raw = w[t].raw /\ w'[t].fclosed = w[t].fclosed,
           call'.s = call.s, call'.then = call.then, call'.after = call.after,
           call.then = "none" => call' = call, call.then \in {"closed", "free"} => call'.rest = <<>>,
           UNCHANGED <<nWriters, served>>
    PROVE  Closes'
<1>1. \A t \in Writers : Closing(t)' = Closing(t)
  BY DEF Closing
<1>2. "STDOUT" \in Writers /\ "STDERR" \in Writers
  BY DEF Writers
<1>3. nWriters' = (IF w'["STDOUT"].raw THEN 0 ELSE 1) + (IF w'["STDERR"].raw THEN 0 ELSE 1)
                  + (IF call'.then = "end" THEN 1 ELSE 0)
  BY <1>2 DEF Closes
<1>4. /\ call'.then \in {"return", "end", "empty", "closed"} <=> call'.s \in Writers
      /\ call'.then = "none" => call' = NoCall
      /\ call'.then \in {"closed", "free"} => call'.rest = <<>>
      /\ call'.then # "none" => served' < MaxRequests
  BY DEF Closes
<1>5. /\ call'.after = "out" => call'.s = "STDERR"
      /\ call'.after = "free" => call'.s = "STDOUT" /\ w'["STDERR"].fclosed
      /\ call'.then = "free" => w'["STDOUT"].fclosed /\ w'["STDERR"].fclosed
  BY <1>2 DEF Closes
<1>6. \A s \in Writers :
          /\ w'[s].fclosed => w'[s].raw
          /\ Closing(s)' => w'[s].raw /\ ~w'[s].fclosed
          /\ w'[s].raw => w'[s].fclosed \/ Closing(s)' \/ (call'.s = s /\ call'.then = "closed")
          /\ call'.s = s /\ call'.then = "closed" => w'[s].raw
  BY <1>1 DEF Closes
<1> QED BY <1>3, <1>4, <1>5, <1>6 DEF Closes

(* The call in hand, as TypeOK has it.                                      *)
LEMMA CallTypes ==
    ASSUME TypeOK
    PROVE  /\ call.rest \in Seq(Units) /\ Len(call.rest) \in Nat
           /\ \A s \in Writers : /\ w[s] \in Streams /\ w[s].buf \in Seq(Units) /\ Len(w[s].buf) \in Nat
                                 /\ put[s] \in 0..MaxPut /\ Stop(s) \in Nat
                                 /\ (~w[s].fclosed => Used(w[s]) <= Stop(s))
           /\ HeaderLen \in Nat \ {0} /\ MaxPut \in Nat
<1>1. call.rest \in Seq(Units) /\ \A s \in Writers : w[s] \in Streams /\ put[s] \in 0..MaxPut
  BY DEF TypeOK
<1>2. \A s \in Writers : w[s].buf \in Seq(Units)
  BY <1>1 DEF Streams
<1>3. \A s \in Writers : Stop(s) \in Nat /\ (~w[s].fclosed => Used(w[s]) <= Stop(s))
  BY StopProps DEF TypeOK
<1> QED BY <1>1, <1>2, <1>3, OutputAssumption

(* What a turn of FCGX_PutStr's loop moves.                                 *)
LEMMA Moved ==
    ASSUME Control, call.s \in Writers, call.rest # <<>>,
           NEW n, n = Least(Len(call.rest), Room(call.s, w[call.s]))
    PROVE  LET s == call.s
               moved == SubSeq(call.rest, 1, n)
               rest == SubSeq(call.rest, n + 1, Len(call.rest))
               x == [w[s] EXCEPT !.buf = @ \o moved]
           IN
           /\ n \in 0..Len(call.rest) /\ moved \in Seq(Units) /\ rest \in Seq(Units)
           /\ Len(moved) = n /\ Len(rest) = Len(call.rest) - n
           /\ \A i \in 1..n : moved[i] = call.rest[i]
           /\ \A i \in 1..Len(rest) : rest[i] = call.rest[n + i]
           /\ call.rest = moved \o rest
           /\ w[s].fclosed => n = 0
           /\ x \in Streams /\ x.buf = w[s].buf \o moved
           /\ x.raw = w[s].raw /\ x.any = w[s].any /\ x.closed = w[s].closed /\ x.fclosed = w[s].fclosed
           /\ ~w[s].fclosed => Used(x) <= Stop(s)
<1> DEFINE s == call.s
           r == call.rest
           moved == SubSeq(r, 1, n)
           rest == SubSeq(r, n + 1, Len(r))
           x == [w[s] EXCEPT !.buf = @ \o moved]
<1>0. TypeOK
  BY DEF Control
<1>1. /\ r \in Seq(Units) /\ Len(r) \in Nat /\ Len(r) # 0
      /\ w[s] \in Streams /\ w[s].buf \in Seq(Units) /\ Len(w[s].buf) \in Nat
      /\ Stop(s) \in Nat /\ (~w[s].fclosed => Used(w[s]) <= Stop(s)) /\ HeaderLen \in Nat
  BY <1>0, CallTypes, EmptySeq
<1>2. n \in 0..Len(r) /\ (w[s].fclosed => n = 0) /\ (~w[s].fclosed => n <= Stop(s) - Used(w[s]))
  <2>1. CASE w[s].fclosed
    BY <1>1, <2>1 DEF Least, Room
  <2>2. CASE ~w[s].fclosed
    <3>1. Used(w[s]) \in Nat
      <4> HIDE DEF s
      <4>1. CASE w[s].raw
        BY <1>1, <4>1 DEF Used
      <4>2. CASE ~w[s].raw
        BY <1>1, <4>2 DEF Used
      <4> QED BY <4>1, <4>2
    <3> QED BY <1>1, <2>2, <3>1 DEF Least, Room
  <2> QED BY <2>1, <2>2
<1>3. moved \in Seq(Units) /\ Len(moved) = n /\ \A i \in 1..n : moved[i] = r[i]
  <2>1. \A i \in 1..n : r[i] \in Units
    BY <1>1, <1>2
  <2>2. /\ moved \in Seq(Units) /\ Len(moved) = IF 1 <= n THEN n - 1 + 1 ELSE 0
        /\ \A i \in 1..(n - 1 + 1) : moved[i] = r[1 + i - 1]
    BY <1>2, <2>1, SubSeqProperties
  <2> HIDE DEF moved, r
  <2>3. n - 1 + 1 = n /\ \A i \in 1..n : 1 + i - 1 = i
    BY <1>2
  <2> QED BY <1>2, <2>2, <2>3
<1>4. rest \in Seq(Units) /\ Len(rest) = Len(r) - n /\ \A i \in 1..Len(rest) : rest[i] = r[n + i]
  <2>1. (\A i \in (n + 1)..Len(r) : r[i] \in Units) /\ n + 1 \in Int
    BY <1>1, <1>2
  <2>2. /\ rest \in Seq(Units) /\ Len(rest) = IF n + 1 <= Len(r) THEN Len(r) - (n + 1) + 1 ELSE 0
        /\ \A i \in 1..(Len(r) - (n + 1) + 1) : rest[i] = r[(n + 1) + i - 1]
    BY <1>1, <2>1, SubSeqProperties
  <2> HIDE DEF rest, r
  <2>3. Len(rest) = Len(r) - n /\ Len(r) - (n + 1) + 1 = Len(r) - n
    BY <1>1, <1>2, <2>2
  <2>4. \A i \in 1..Len(rest) : (n + 1) + i - 1 = n + i
    BY <1>1, <1>2, <2>3
  <2> QED BY <2>2, <2>3, <2>4
<1>5. r = moved \o rest
  <2> HIDE DEF moved, rest, r
  <2>1. /\ moved \o rest \in Seq(Units) /\ Len(moved \o rest) = Len(moved) + Len(rest)
        /\ \A i \in 1..Len(moved) : (moved \o rest)[i] = moved[i]
        /\ \A i \in 1..Len(rest) : (moved \o rest)[Len(moved) + i] = rest[i]
        /\ \A i \in 1..Len(moved \o rest) : i \in 1..Len(moved) \/ \E k \in 1..Len(rest) : i = Len(moved) + k
    BY <1>3, <1>4, ConcatAt
  <2>2. Len(moved \o rest) = Len(r)
    BY <1>1, <1>2, <1>3, <1>4, <2>1, SMTT(30)
  <2>3. ASSUME NEW i \in 1..Len(r) PROVE (moved \o rest)[i] = r[i]
    <3>1. CASE i \in 1..Len(moved)
      BY <1>3, <2>1, <3>1
    <3>2. CASE \E k \in 1..Len(rest) : i = Len(moved) + k
      BY <1>3, <1>4, <2>1, <3>2, SMTT(30)
    <3> QED BY <2>1, <2>2, <3>1, <3>2
  <2> QED BY <1>1, <2>1, <2>2, <2>3, SeqEqual
<1>6. x \in Streams /\ x.buf = w[s].buf \o moved
      /\ x.raw = w[s].raw /\ x.any = w[s].any /\ x.closed = w[s].closed /\ x.fclosed = w[s].fclosed
  <2> HIDE DEF moved, s
  <2>1. w[s].buf \o moved \in Seq(Units)
    BY <1>1, <1>3, ConcatProperties
  <2> QED BY <1>1, <2>1, Zenon DEF Streams
<1>7. ~w[s].fclosed => Used(x) <= Stop(s)
  <2> HIDE DEF moved, s, x
  <2>1. Len(x.buf) = Len(w[s].buf) + n
    <3>1. Len(w[s].buf \o moved) = Len(w[s].buf) + Len(moved)
      BY <1>1, <1>3, ConcatProperties
    <3> QED BY <1>3, <1>6, <3>1
  <2>2. CASE w[s].raw
    BY <1>1, <1>2, <1>6, <2>1, <2>2 DEF Used
  <2>3. CASE ~w[s].raw
    BY <1>1, <1>2, <1>6, <2>1, <2>3 DEF Used
  <2> QED BY <2>2, <2>3
<1> QED BY <1>2, <1>3, <1>4, <1>5, <1>6, <1>7

(* The writers after a step of one of them.                                 *)
LEMMA WriterStep ==
    ASSUME TypeOK, NEW s \in Writers, NEW y \in Streams, w' = [w EXCEPT ![s] = y],
           Used(y) <= Stop(s) \/ y.fclosed, y.fclosed => y.closed
    PROVE  /\ w' \in [Writers -> Streams] /\ w'[s] = y /\ \A t \in Writers : t # s => w'[t] = w[t]
           /\ \A t \in Writers : Used(w'[t]) <= Stop(t) \/ w'[t].fclosed
           /\ \A t \in Writers : w'[t].fclosed => w'[t].closed
<1>1. w \in [Writers -> Streams]
  BY DEF TypeOK
<1>2. w' \in [Writers -> Streams] /\ w'[s] = y /\ \A t \in Writers : t # s => w'[t] = w[t]
  BY <1>1
<1>3. ASSUME NEW t \in Writers
      PROVE  (Used(w'[t]) <= Stop(t) \/ w'[t].fclosed) /\ (w'[t].fclosed => w'[t].closed)
  <2>1. CASE t = s
    BY <1>2, <2>1
  <2>2. CASE t # s
    <3>1. (Used(w[t]) <= Stop(t) \/ w[t].fclosed) /\ (w[t].fclosed => w[t].closed)
      BY DEF TypeOK
    <3> QED BY <1>2, <2>2, <3>1
  <2> QED BY <2>1, <2>2
<1> QED BY <1>2, <1>3

(* A turn of FCGX_PutStr: n units are moved, the rest is not, and the       *)
(* writer becomes x and then y.                                             *)
Turn(n, moved, rest, x, y) ==
    LET s == call.s IN
    /\ s \in Writers /\ call.rest = moved \o rest /\ Len(moved) = n /\ Len(rest) = Len(call.rest) - n
    /\ \A i \in 1..n : moved[i] = call.rest[i]
    /\ \A i \in 1..Len(rest) : rest[i] = call.rest[n + i]
    /\ n = Least(Len(call.rest), Room(s, w[s]))
    /\ x.buf = w[s].buf \o moved /\ x.raw = w[s].raw /\ x.any = w[s].any
    /\ x.closed = w[s].closed /\ x.fclosed = w[s].fclosed
    /\ put' = [put EXCEPT ![s] = @ + IF call.then = "return" THEN n ELSE 0]
    /\ w' = [w EXCEPT ![s] = y] /\ y.raw = w[s].raw /\ y.fclosed = w[s].fclosed
    /\ (Used(y) <= Stop(s) \/ y.fclosed) /\ (y.fclosed => y.closed)
    /\ out' \in Seq(Units) /\ torn' \in BOOLEAN
    /\ \/ /\ rest = <<>> \/ w[s].closed
          /\ y = x /\ out' = out /\ call' = [call EXCEPT !.rest = <<>>]
       \/ /\ rest # <<>> /\ ~w[s].closed /\ call' = [call EXCEPT !.rest = rest]
          /\ Clean => /\ out' = out \o Encapsulated(s, x) /\ y.buf = <<>> /\ y.closed = x.closed
                      /\ y.any <=> x.any \/ x.buf # <<>>

LEMMA PutTurnEffect ==
    ASSUME Control, PutTurn
    PROVE  \E n \in 0..Len(call.rest), moved, rest \in Seq(Units), x, y \in Streams : Turn(n, moved, rest, x, y)
<1> DEFINE s == call.s
           n == Least(Len(call.rest), Room(s, w[s]))
           moved == SubSeq(call.rest, 1, n)
           x == [w[s] EXCEPT !.buf = @ \o moved]
           rest == SubSeq(call.rest, n + 1, Len(call.rest))
<1>0. TypeOK /\ Closes /\ call.rest # <<>> /\ out \in Seq(Units) /\ torn \in BOOLEAN
  BY DEF Control, PutTurn, TypeOK
<1>1. s \in Writers
  <2>1. call.then \in {"none", "return", "end", "empty", "closed", "free"}
    BY <1>0 DEF TypeOK
  <2>2. call.then # "none"
    BY <1>0 DEF Closes, NoCall
  <2> QED BY <1>0, <2>1, <2>2 DEF Closes
<1>2. /\ n \in 0..Len(call.rest) /\ moved \in Seq(Units) /\ rest \in Seq(Units)
      /\ Len(moved) = n /\ Len(rest) = Len(call.rest) - n
      /\ \A i \in 1..n : moved[i] = call.rest[i]
      /\ \A i \in 1..Len(rest) : rest[i] = call.rest[n + i]
      /\ call.rest = moved \o rest
      /\ w[s].fclosed => n = 0
      /\ x \in Streams /\ x.buf = w[s].buf \o moved
      /\ x.raw = w[s].raw /\ x.any = w[s].any /\ x.closed = w[s].closed /\ x.fclosed = w[s].fclosed
      /\ ~w[s].fclosed => Used(x) <= Stop(s)
  BY <1>0, <1>1, Moved
<1>3. /\ put' = [put EXCEPT ![s] = @ + IF call.then = "return" THEN n ELSE 0]
      /\ \/ /\ PutEnds(x, rest)
            /\ w' = [w EXCEPT ![s] = x] /\ UNCHANGED <<out, torn>>
            /\ call' = [call EXCEPT !.rest = <<>>]
         \/ /\ ~PutEnds(x, rest)
            /\ EmptyBuffProc(s, x)
            /\ call' = [call EXCEPT !.rest = rest]
  BY DEF PutTurn
<1>4. w[s].fclosed => w[s].closed
  BY <1>0, <1>1 DEF TypeOK
<1> HIDE DEF s, n, moved, x, rest
<1>5. CASE PutEnds(x, rest)
  <2>1. rest = <<>> \/ w[s].closed
    BY <1>2, <1>5 DEF PutEnds
  <2>2. /\ (Used(x) <= Stop(s) \/ x.fclosed) /\ (x.fclosed => x.closed)
        /\ w' = [w EXCEPT ![s] = x] /\ out' = out /\ torn' = torn /\ call' = [call EXCEPT !.rest = <<>>]
    BY <1>2, <1>3, <1>4, <1>5
  <2>3. n \in 0..Len(call.rest) /\ n = Least(Len(call.rest), Room(s, w[s]))
    BY <1>2 DEF n
  <2>4. Turn(n, moved, rest, x, x)
    BY <1>0, <1>1, <1>2, <1>3, <2>1, <2>2, <2>3 DEF s, Turn
  <2> QED BY <1>2, <2>3, <2>4
<1>6. CASE ~PutEnds(x, rest)
  <2>1. rest # <<>> /\ ~w[s].closed /\ ~w[s].fclosed /\ EmptyBuffProc(s, x) /\ call' = [call EXCEPT !.rest = rest]
    BY <1>2, <1>3, <1>4, <1>6 DEF PutEnds
  <2>2. Used(x) <= Stop(s)
    BY <1>2, <2>1
  <2>3. /\ out' \in Seq(Units) /\ torn' \in BOOLEAN
        /\ Clean => out' = out \o Encapsulated(s, x)
        /\ \E y \in Streams :
              /\ w' = [w EXCEPT ![s] = y]
              /\ Used(y) <= Stop(s) /\ y.raw = x.raw /\ y.fclosed = x.fclosed /\ (x.closed => y.closed)
              /\ Clean => /\ y.buf = <<>> /\ y.closed = x.closed
                          /\ y.any <=> x.any \/ x.buf # <<>>
    BY <1>0, <1>1, <1>2, <2>1, <2>2, EmptyEffect
  <2>4. PICK y \in Streams :
              /\ w' = [w EXCEPT ![s] = y]
              /\ Used(y) <= Stop(s) /\ y.raw = x.raw /\ y.fclosed = x.fclosed /\ (x.closed => y.closed)
              /\ Clean => /\ y.buf = <<>> /\ y.closed = x.closed
                          /\ y.any <=> x.any \/ x.buf # <<>>
    BY <2>3
  <2>5. /\ y.raw = w[s].raw /\ y.fclosed = w[s].fclosed
        /\ (Used(y) <= Stop(s) \/ y.fclosed) /\ (y.fclosed => y.closed)
    BY <1>2, <2>1, <2>4
  <2>6. n \in 0..Len(call.rest) /\ n = Least(Len(call.rest), Room(s, w[s]))
    BY <1>2 DEF n
  <2>7. /\ rest # <<>> /\ ~w[s].closed /\ call' = [call EXCEPT !.rest = rest]
        /\ Clean => /\ out' = out \o Encapsulated(s, x) /\ y.buf = <<>> /\ y.closed = x.closed
                    /\ y.any <=> x.any \/ x.buf # <<>>
    BY <2>1, <2>3, <2>4
  <2>8. Turn(n, moved, rest, x, y)
    BY <1>1, <1>2, <1>3, <2>3, <2>4, <2>5, <2>6, <2>7 DEF s, Turn
  <2> QED BY <1>2, <2>4, <2>6, <2>8
<1> QED BY <1>5, <1>6

Calling == [s : Writers \cup {"none"}, rest : Seq(Units),
            then : {"none", "return", "end", "empty", "closed", "free"},
            after : {"none", "return", "out", "free"}]

(* The parts of TypeOK that a call of the library leaves alone.             *)
LEMMA TypeFrame ==
    ASSUME TypeOK, call' \in Calling, out' \in Seq(Units), put' \in [Writers -> 0..MaxPut],
           w' \in [Writers -> Streams], nWriters' \in 0..2,
           \A t \in Writers : Used(w'[t]) <= Stop(t) \/ w'[t].fclosed,
           \A t \in Writers : w'[t].fclosed => w'[t].closed,
           torn' = torn \/ torn' \in BOOLEAN, UNCHANGED <<appStatus, dead, setTo, served>>
    PROVE  TypeOK'
<1>1. \A t \in Writers : Used(w[t])' = Used(w'[t])
  BY DEF Used
<1> QED BY <1>1 DEF TypeOK, Calling, Used, Stop

LEMMA ControlPutTurn == Control /\ PutTurn => Control'
<1> SUFFICES ASSUME Control, PutTurn PROVE Control'
  OBVIOUS
<1> DEFINE s == call.s
<1>0. /\ TypeOK /\ Closes /\ Puts /\ UNCHANGED <<nWriters, appStatus, dead, setTo, served>> /\ call \in Calling
      /\ call.rest # <<>> /\ nWriters \in 0..2
  BY DEF Control, PutTurn, TypeOK, Calling
<1>a. PICK n \in 0..Len(call.rest), moved \in Seq(Units), rest \in Seq(Units), x \in Streams, y \in Streams :
             Turn(n, moved, rest, x, y)
  BY PutTurnEffect
<1>1. /\ s \in Writers /\ Len(rest) = Len(call.rest) - n
      /\ \A i \in 1..Len(rest) : rest[i] = call.rest[n + i]
      /\ put' = [put EXCEPT ![s] = @ + IF call.then = "return" THEN n ELSE 0]
      /\ w' = [w EXCEPT ![s] = y] /\ y.raw = w[s].raw /\ y.fclosed = w[s].fclosed
      /\ (Used(y) <= Stop(s) \/ y.fclosed) /\ (y.fclosed => y.closed)
      /\ out' \in Seq(Units) /\ torn' \in BOOLEAN
      /\ call' = [call EXCEPT !.rest = <<>>] \/ call' = [call EXCEPT !.rest = rest]
  BY <1>a DEF Turn
<1>2. /\ call.rest \in Seq(Units) /\ Len(call.rest) \in Nat /\ put[s] \in 0..MaxPut /\ put \in [Writers -> 0..MaxPut]
      /\ MaxPut \in Nat
  BY <1>0, <1>1, OutputAssumption DEF TypeOK
<1>3. PICK r \in Seq(Units) : call' = [call EXCEPT !.rest = r] /\ (r = <<>> \/ r = rest)
  BY <1>1, NoUnits
<1>4. /\ call' \in Calling /\ call'.s = call.s /\ call'.then = call.then /\ call'.after = call.after /\ call'.rest = r
  BY <1>0, <1>3 DEF Calling
<1>5. /\ w' \in [Writers -> Streams] /\ w'[s] = y /\ \A t \in Writers : t # s => w'[t] = w[t]
      /\ \A t \in Writers : Used(w'[t]) <= Stop(t) \/ w'[t].fclosed
      /\ \A t \in Writers : w'[t].fclosed => w'[t].closed
  BY <1>0, <1>1, WriterStep
<1>6. CASE call.then = "return"
  <2>1. /\ put[s] + Len(call.rest) <= MaxPut
        /\ \A i \in 1..Len(call.rest) : call.rest[i] = [u |-> "byte", s |-> s, n |-> put[s] + i]
    BY <1>0, <1>6 DEF Puts
  <2>2. put'[s] = put[s] + n
    BY <1>1, <1>2, <1>6
  <2>3. put' \in [Writers -> 0..MaxPut]
    <3>1. put[s] + n \in 0..MaxPut
      BY <1>2, <2>1
    <3>2. put' = [put EXCEPT ![s] = put[s] + n]
      BY <1>1, <1>6
    <3> QED BY <1>2, <3>1, <3>2
  <2>4. Puts'
    <3>1. CASE r = <<>>
      <4>1. Len(call'.rest) = 0
        BY <1>4, <3>1
      <4>2. put'[s] + 0 <= MaxPut
        BY <1>2, <2>1, <2>2
      <4> QED BY <1>4, <4>1, <4>2 DEF Puts
    <3>2. CASE r = rest
      <4>1. put'[s] + Len(rest) <= MaxPut
        BY <1>1, <1>2, <2>1, <2>2
      <4>2. ASSUME NEW i \in 1..Len(rest) PROVE rest[i] = [u |-> "byte", s |-> s, n |-> put'[s] + i]
        <5>1. n + i \in 1..Len(call.rest) /\ put'[s] + i = put[s] + (n + i)
          BY <1>1, <1>2, <2>2, SMTT(30)
        <5> QED BY <1>1, <2>1, <5>1
      <4> QED BY <1>4, <3>2, <4>1, <4>2 DEF Puts
    <3> QED BY <1>3, <3>1, <3>2
  <2>5. TypeOK'
    BY <1>0, <1>1, <1>4, <1>5, <2>3, TypeFrame
  <2>6. Closes'
    BY <1>0, <1>1, <1>4, <1>5, <1>6, ClosesFrame
  <2> QED BY <2>4, <2>5, <2>6 DEF Control
<1>7. CASE call.then # "return"
  <2>1. put' = put
    <3>1. put' = [put EXCEPT ![s] = put[s] + 0] /\ put[s] + 0 = put[s]
      BY <1>1, <1>2, <1>7
    <3> QED BY <1>2, <3>1
  <2>2. TypeOK'
    BY <1>0, <1>1, <1>2, <1>4, <1>5, <2>1, TypeFrame
  <2>3. call.then # "none" /\ call.then \notin {"closed", "free"}
    BY <1>0 DEF Closes, NoCall
  <2>4. Closes'
    BY <1>0, <1>1, <1>4, <1>5, <2>3, ClosesFrame
  <2>5. Puts'
    BY <1>4, <1>7 DEF Puts
  <2> QED BY <2>2, <2>4, <2>5 DEF Control
<1> QED BY <1>6, <1>7

LEMMA ControlPutStr == ASSUME Control, NEW s \in Writers, NEW n \in PutSizes, FCGX_PutStr(s, n) PROVE Control'
<1> DEFINE r == [i \in 1..n |-> [u |-> "byte", s |-> s, n |-> put[s] + i]]
<1>0. /\ TypeOK /\ Closes /\ call = NoCall /\ served < MaxRequests /\ n \in Nat /\ put[s] + n <= MaxPut
      /\ UNCHANGED <<w, nWriters, appStatus, out, dead, torn, put, setTo, served>>
      /\ call' = [NoCall EXCEPT !.s = s, !.then = "return", !.rest = r]
  BY OutputAssumption DEF Control, FCGX_PutStr, Idle
<1>1. put[s] \in Nat /\ put \in [Writers -> 0..MaxPut]
  BY <1>0, OutputAssumption DEF TypeOK
<1>2. r \in Seq(Units) /\ Len(r) = n /\ \A i \in 1..n : r[i] = [u |-> "byte", s |-> s, n |-> put[s] + i]
  <2>1. \A i \in 1..n : [u |-> "byte", s |-> s, n |-> put[s] + i] \in Units
    BY <1>0, <1>1, UnitKinds
  <2> QED BY <1>0, <2>1
<1> HIDE DEF r
<1>3. call' = [s |-> s, rest |-> r, then |-> "return", after |-> "none"]
  BY <1>0 DEF NoCall
<1>4. call' \in Calling /\ call'.s = s /\ call'.then = "return" /\ call'.rest = r /\ call'.after = "none"
  BY <1>2, <1>3 DEF Calling
<1>5. TypeOK'
  <2>1. /\ w' \in [Writers -> Streams] /\ \A t \in Writers : Used(w'[t]) <= Stop(t) \/ w'[t].fclosed
        /\ \A t \in Writers : w'[t].fclosed => w'[t].closed
        /\ out' \in Seq(Units) /\ nWriters' \in 0..2 /\ put' \in [Writers -> 0..MaxPut]
    BY <1>0 DEF TypeOK
  <2> QED BY <1>0, <1>4, <2>1, TypeFrame
<1>6. Puts'
  BY <1>0, <1>2, <1>4 DEF Puts
<1>7. call.then = "none" /\ call.s = "none" /\ call.after = "none"
  BY <1>0 DEF NoCall
<1>8. Closes'
  <2>1. \A t \in Writers : ~Closing(t) /\ ~Closing(t)'
    BY <1>4, <1>7 DEF Closing
  <2> QED BY <1>0, <1>4, <1>7, <2>1 DEF Closes
<1> QED BY <1>5, <1>6, <1>8 DEF Control

(* A step of a call that leaves the writers, or one of them, typed.         *)
LEMMA ControlPutReturns == Control /\ PutReturns => Control'
<1> SUFFICES ASSUME Control, PutReturns PROVE Control'
  OBVIOUS
<1>0. /\ TypeOK /\ Closes /\ call.then = "return" /\ call' = NoCall
      /\ UNCHANGED <<w, nWriters, appStatus, out, dead, torn, put, setTo, served>>
  BY DEF Control, PutReturns
<1>1. /\ call' \in Calling /\ call'.s = "none" /\ call'.then = "none" /\ call'.rest = <<>> /\ call'.after = "none"
  BY <1>0, NoUnits DEF Calling, NoCall
<1>2. TypeOK'
  <2>1. /\ w' \in [Writers -> Streams] /\ \A t \in Writers : Used(w'[t]) <= Stop(t) \/ w'[t].fclosed
        /\ \A t \in Writers : w'[t].fclosed => w'[t].closed
        /\ out' \in Seq(Units) /\ nWriters' \in 0..2 /\ put' \in [Writers -> 0..MaxPut]
    BY <1>0 DEF TypeOK
  <2> QED BY <1>0, <1>1, <2>1, TypeFrame
<1>3. Closes'
  <2>1. \A t \in Writers : ~Closing(t) /\ ~Closing(t)'
    BY <1>0, <1>1 DEF Closing
  <2>2. "none" \notin Writers
    BY DEF Writers
  <2> QED BY <1>0, <1>1, <2>1, <2>2 DEF Closes
<1>4. Puts'
  BY <1>1 DEF Puts
<1> QED BY <1>2, <1>3, <1>4 DEF Control

LEMMA ControlFlush == ASSUME Control, NEW s \in Writers, FCGX_FFlush(s) PROVE Control'
<1>0. /\ TypeOK /\ Closes /\ Puts /\ call = NoCall /\ ~w[s].closed /\ EmptyBuffProc(s, w[s])
      /\ UNCHANGED <<nWriters, appStatus, call, dead, put, setTo, served>>
  BY DEF Control, FCGX_FFlush, Idle
<1>1. w[s] \in Streams /\ Used(w[s]) <= Stop(s) /\ ~w[s].fclosed
  BY <1>0 DEF TypeOK
<1>2. out' \in Seq(Units) /\ torn' \in BOOLEAN /\ \E y \in Streams :
                 /\ w' = [w EXCEPT ![s] = y]
                 /\ Used(y) <= Stop(s) /\ y.raw = w[s].raw /\ y.fclosed = w[s].fclosed /\ (w[s].closed => y.closed)
                 /\ Clean => /\ y.buf = <<>> /\ y.closed = w[s].closed
                             /\ y.any <=> w[s].any \/ w[s].buf # <<>>
  BY <1>0, <1>1, EmptyEffect
<1>3. PICK y \in Streams : w' = [w EXCEPT ![s] = y] /\ Used(y) <= Stop(s) /\ y.raw = w[s].raw /\ y.fclosed = w[s].fclosed
  BY <1>2
<1>4. /\ w' \in [Writers -> Streams] /\ w'[s] = y /\ \A t \in Writers : t # s => w'[t] = w[t]
      /\ \A t \in Writers : Used(w'[t]) <= Stop(t) \/ w'[t].fclosed
      /\ \A t \in Writers : w'[t].fclosed => w'[t].closed
  BY <1>0, <1>1, <1>3, WriterStep
<1>5. TypeOK'
  <2>1. nWriters' \in 0..2 /\ put' \in [Writers -> 0..MaxPut] /\ call' \in Calling
    BY <1>0 DEF TypeOK, Calling
  <2> QED BY <1>0, <1>2, <1>4, <2>1, TypeFrame
<1>6. Closes'
  <2>1. call.then \notin {"closed", "free"}
    BY <1>0 DEF NoCall
  <2>2. \A t \in Writers : w'[t].raw = w[t].raw /\ w'[t].fclosed = w[t].fclosed
    BY <1>3, <1>4
  <2> QED BY <1>0, <2>1, <2>2, ClosesFrame
<1>7. Puts'
  BY <1>0 DEF Puts
<1> QED BY <1>5, <1>6, <1>7 DEF Control

(* Where StartClose is used.                                                *)
MayClose(s, after) ==
    /\ s \in Writers /\ after \in {"return", "out", "free"}
    /\ call.s # s /\ call.then \in {"none", "closed"} /\ (call.then = "closed" => w[call.s].fclosed)
    /\ served < MaxRequests
    /\ after = "out" => s = "STDERR"
    /\ after = "free" => s = "STDOUT" /\ w["STDERR"].fclosed

LEMMA StartCloseEffect ==
    ASSUME Control, NEW s, NEW after, MayClose(s, after), StartClose(s, after), ~w[s].fclosed
    PROVE  /\ ~w[s].raw
           /\ \E y \in Streams :
                 /\ w' = [w EXCEPT ![s] = y] /\ y.buf = Encapsulated(s, w[s]) /\ y.raw
                 /\ y.any = w[s].any /\ y.closed = w[s].closed /\ ~y.fclosed /\ Used(y) <= Stop(s)
                 /\ call' = [s |-> s, then |-> "end", after |-> after,
                             rest |-> IF NeedsEof(s, y) THEN MakeHeader(s, 0, 0) ELSE <<>>]
<1> DEFINE e == Encapsulated(s, w[s])
           y == [w[s] EXCEPT !.buf = e, !.raw = TRUE]
<1>0. TypeOK /\ Closes /\ s \in Writers /\ call.s # s
  BY DEF Control, MayClose
<1>1. ~w[s].raw
  BY <1>0 DEF Closes, Closing
<1>2. w[s] \in Streams /\ Used(w[s]) <= Stop(s)
  BY <1>0 DEF TypeOK
<1>3. e \in Seq(Units) /\ Len(e) <= Stop(s)
  BY <1>0, <1>2, EncapsulatedType, EncapsulatedFits
<1>4. /\ w' = [w EXCEPT ![s] = y]
      /\ call' = [s |-> s, then |-> "end", after |-> after,
                  rest |-> IF NeedsEof(s, y) THEN MakeHeader(s, 0, 0) ELSE <<>>]
  BY DEF StartClose
<1> HIDE DEF e
<1>5. y \in Streams /\ y.buf = e /\ y.raw /\ y.any = w[s].any /\ y.closed = w[s].closed /\ y.fclosed = w[s].fclosed
  <2>1. TRUE \in BOOLEAN
    OBVIOUS
  <2> QED BY <1>2, <1>3, <2>1, Zenon DEF Streams
<1> HIDE DEF y
<1>6. Used(y) <= Stop(s)
  <2>1. Len(y.buf) <= Stop(s) /\ Len(y.buf) \in Nat
    BY <1>3, <1>5
  <2> QED BY <1>5, <2>1 DEF Used
<1> QED BY <1>1, <1>4, <1>5, <1>6 DEF e

LEMMA ControlStartClose ==
    ASSUME Control, NEW s, NEW after, MayClose(s, after), StartClose(s, after),
           UNCHANGED <<nWriters, appStatus, out, dead, torn, put, setTo, served>>
    PROVE  Control'
<1>0. /\ TypeOK /\ Closes /\ s \in Writers /\ after \in {"return", "out", "free"} /\ call.s # s
      /\ out' \in Seq(Units) /\ nWriters' \in 0..2 /\ put' \in [Writers -> 0..MaxPut]
  BY DEF Control, MayClose, TypeOK
<1>1. CASE w[s].fclosed
  <2>1. w' = w /\ call' = [s |-> s, rest |-> <<>>, then |-> "closed", after |-> after]
    BY <1>1 DEF StartClose, NoCall
  <2>2. /\ call' \in Calling /\ call'.s = s /\ call'.then = "closed" /\ call'.rest = <<>> /\ call'.after = after
    BY <1>0, <2>1, NoUnits DEF Calling
  <2>3. TypeOK'
    <3>1. /\ w' \in [Writers -> Streams] /\ \A t \in Writers : Used(w'[t]) <= Stop(t) \/ w'[t].fclosed
          /\ \A t \in Writers : w'[t].fclosed => w'[t].closed
      BY <1>0, <2>1 DEF TypeOK
    <3> QED BY <1>0, <2>2, <3>1, TypeFrame
  <2>4. Closes'
    <3>1. \A t \in Writers : ~Closing(t) /\ ~Closing(t)'
      BY <2>2 DEF Closing, MayClose
    <3>2. \A t \in Writers : w[t].raw <=> w[t].fclosed
      BY <1>0, <3>1 DEF Closes, MayClose
    <3> QED BY <1>0, <1>1, <2>1, <2>2, <3>1, <3>2 DEF Closes, MayClose
  <2>5. Puts'
    BY <2>2 DEF Puts
  <2> QED BY <2>3, <2>4, <2>5 DEF Control
<1>2. CASE ~w[s].fclosed
  <2>0. ~w[s].raw
    BY <1>2, StartCloseEffect
  <2>1. PICK y \in Streams :
                 /\ w' = [w EXCEPT ![s] = y] /\ y.buf = Encapsulated(s, w[s]) /\ y.raw
                 /\ y.any = w[s].any /\ y.closed = w[s].closed /\ ~y.fclosed /\ Used(y) <= Stop(s)
                 /\ call' = [s |-> s, then |-> "end", after |-> after,
                             rest |-> IF NeedsEof(s, y) THEN MakeHeader(s, 0, 0) ELSE <<>>]
    BY <1>2, StartCloseEffect
  <2>2. /\ call' \in Calling /\ call'.s = s /\ call'.then = "end" /\ call'.after = after
    <3>1. (IF NeedsEof(s, y) THEN MakeHeader(s, 0, 0) ELSE <<>>) \in Seq(Units)
      BY <1>0, EofRecord, NoUnits
    <3> QED BY <1>0, <2>1, <3>1 DEF Calling
  <2>3. /\ w' \in [Writers -> Streams] /\ w'[s] = y /\ \A t \in Writers : t # s => w'[t] = w[t]
        /\ \A t \in Writers : Used(w'[t]) <= Stop(t) \/ w'[t].fclosed
        /\ \A t \in Writers : w'[t].fclosed => w'[t].closed
    BY <1>0, <2>1, WriterStep
  <2>4. TypeOK'
    BY <1>0, <2>2, <2>3, TypeFrame
  <2>5. Closes'
    <3>1. \A t \in Writers : ~Closing(t) /\ (Closing(t)' <=> t = s)
      BY <2>2 DEF Closing, MayClose
    <3>2. /\ \A t \in Writers : w[t].raw <=> w[t].fclosed
          /\ nWriters = (IF w["STDOUT"].raw THEN 0 ELSE 1) + (IF w["STDERR"].raw THEN 0 ELSE 1)
      BY <1>0, <3>1 DEF Closes, MayClose
    <3>3. w'[s].raw /\ ~w'[s].fclosed /\ \A t \in Writers : t # s => w'[t].raw = w[t].raw /\ w'[t].fclosed = w[t].fclosed
      BY <2>1, <2>3
    <3>4. nWriters' = (IF w'["STDOUT"].raw THEN 0 ELSE 1) + (IF w'["STDERR"].raw THEN 0 ELSE 1) + 1
      BY <1>0, <2>0, <3>2, <3>3 DEF Writers
    <3>5. \A t \in Writers :
             /\ w'[t].fclosed => w'[t].raw
             /\ Closing(t)' => w'[t].raw /\ ~w'[t].fclosed
             /\ w'[t].raw => w'[t].fclosed \/ Closing(t)'
      BY <3>1, <3>2, <3>3
    <3>6. /\ after = "out" => s = "STDERR"
          /\ after = "free" => s = "STDOUT" /\ w'["STDERR"].fclosed
          /\ served' < MaxRequests
      BY <3>3 DEF MayClose, Writers
    <3> QED BY <1>0, <2>2, <3>4, <3>5, <3>6 DEF Closes
  <2>6. Puts'
    BY <2>2 DEF Puts
  <2> QED BY <2>4, <2>5, <2>6 DEF Control
<1> QED BY <1>1, <1>2

(* FCGX_FClose, FCGX_Finish_r and, within it, the end of FCGX_FClose.       *)
LEMMA IdleMayClose ==
    ASSUME Control, Idle, NEW s \in Writers, NEW after \in {"return", "out"}, after = "out" => s = "STDERR"
    PROVE  MayClose(s, after)
<1>1. call.s = "none" /\ call.then = "none" /\ served < MaxRequests /\ s # "none"
  BY DEF Idle, NoCall, Writers
<1> QED BY <1>1 DEF MayClose

LEMMA ClosedMayClose ==
    ASSUME Control, call.then = "closed", w[call.s].fclosed, call.after = "out"
    PROVE  MayClose("STDOUT", "free")
<1>1. call.s = "STDERR" /\ served < MaxRequests
  BY DEF Control, Closes
<1> QED BY <1>1 DEF MayClose, Writers

LEMMA ControlWriteEndRequest == Control /\ WriteEndRequest => Control'
<1> SUFFICES ASSUME Control, WriteEndRequest PROVE Control'
  OBVIOUS
<1> DEFINE r == IF IsLastWriter THEN EndRequest(appStatus) ELSE <<>>
<1>0. /\ TypeOK /\ Closes /\ call.then = "end" /\ call' = [call EXCEPT !.rest = r, !.then = "empty"]
      /\ nWriters' = nWriters - 1 /\ UNCHANGED <<w, appStatus, out, dead, torn, put, setTo, served>>
      /\ call \in Calling
  BY DEF Control, WriteEndRequest, TypeOK, Calling
<1>1. r \in Seq(Units)
  <2>1. appStatus \in Statuses \cup {0}
    BY <1>0 DEF TypeOK
  <2> QED BY <2>1, EndRequestRecord, NoUnits
<1> HIDE DEF r
<1>2. /\ call' \in Calling /\ call'.s = call.s /\ call'.then = "empty" /\ call'.rest = r /\ call'.after = call.after
  BY <1>0, <1>1 DEF Calling
<1>3. /\ nWriters = (IF w["STDOUT"].raw THEN 0 ELSE 1) + (IF w["STDERR"].raw THEN 0 ELSE 1) + 1
      /\ nWriters \in 0..2 /\ nWriters' \in 0..2
      /\ nWriters' = (IF w["STDOUT"].raw THEN 0 ELSE 1) + (IF w["STDERR"].raw THEN 0 ELSE 1)
  <2>1. nWriters = (IF w["STDOUT"].raw THEN 0 ELSE 1) + (IF w["STDERR"].raw THEN 0 ELSE 1) + 1
    BY <1>0 DEF Closes
  <2>2. nWriters \in 0..2
    BY <1>0 DEF TypeOK
  <2> QED BY <1>0, <2>1, <2>2
<1>4. TypeOK'
  <2>1. /\ w' \in [Writers -> Streams] /\ \A t \in Writers : Used(w'[t]) <= Stop(t) \/ w'[t].fclosed
        /\ \A t \in Writers : w'[t].fclosed => w'[t].closed
        /\ out' \in Seq(Units) /\ put' \in [Writers -> 0..MaxPut]
    BY <1>0 DEF TypeOK
  <2> QED BY <1>0, <1>2, <1>3, <2>1, TypeFrame
<1>5. Closes'
  <2>1. \A t \in Writers : Closing(t)' <=> Closing(t)
    BY <1>0, <1>2 DEF Closing
  <2> QED BY <1>0, <1>2, <1>3, <2>1 DEF Closes
<1>6. Puts'
  BY <1>2 DEF Puts
<1> QED BY <1>4, <1>5, <1>6 DEF Control

LEMMA CloseWritesEffect ==
    ASSUME Control, CloseWrites
    PROVE  LET s == call.s IN
           /\ s \in Writers /\ w[s] \in Streams /\ w[s].raw /\ ~w[s].fclosed
           /\ out' \in Seq(Units) /\ torn' \in BOOLEAN /\ (Clean => out' = out \o w[s].buf)
           /\ call' = [call EXCEPT !.then = "closed"]
           /\ \E y \in Streams : /\ w' = [w EXCEPT ![s] = y] /\ Used(y) <= Stop(s) /\ y.raw /\ ~y.fclosed
                                 /\ Clean => y.buf = <<>> /\ y.closed = w[s].closed
<1> DEFINE s == call.s
<1>0. TypeOK /\ Closes /\ call.then = "empty" /\ EmptyBuffProc(s, w[s]) /\ call' = [call EXCEPT !.then = "closed"]
  BY DEF Control, CloseWrites
<1>1. s \in Writers /\ w[s].raw /\ ~w[s].fclosed
  BY <1>0 DEF Closes, Closing
<1>2. w[s] \in Streams /\ Used(w[s]) <= Stop(s)
  BY <1>0, <1>1 DEF TypeOK
<1>3. Encapsulated(s, w[s]) = w[s].buf
  BY <1>1, <1>2, EncapsulatedRaw
<1>4. /\ out' \in Seq(Units) /\ torn' \in BOOLEAN
      /\ Clean => out' = out \o Encapsulated(s, w[s])
      /\ \E y \in Streams :
                 /\ w' = [w EXCEPT ![s] = y]
                 /\ Used(y) <= Stop(s) /\ y.raw = w[s].raw /\ y.fclosed = w[s].fclosed /\ (w[s].closed => y.closed)
                 /\ Clean => /\ y.buf = <<>> /\ y.closed = w[s].closed
                             /\ y.any <=> w[s].any \/ w[s].buf # <<>>
  BY <1>0, <1>1, <1>2, EmptyEffect
<1> QED BY <1>0, <1>1, <1>2, <1>3, <1>4

LEMMA ControlCloseWrites == Control /\ CloseWrites => Control'
<1> SUFFICES ASSUME Control, CloseWrites PROVE Control'
  OBVIOUS
<1> DEFINE s == call.s
<1>0. /\ TypeOK /\ Closes /\ call.then = "empty" /\ call.rest = <<>> /\ call \in Calling
      /\ UNCHANGED <<nWriters, appStatus, dead, put, setTo, served>>
  BY DEF Control, CloseWrites, TypeOK, Calling
<1>1. /\ s \in Writers /\ w[s].raw /\ ~w[s].fclosed /\ out' \in Seq(Units) /\ torn' \in BOOLEAN
      /\ call' = [call EXCEPT !.then = "closed"]
  BY CloseWritesEffect
<1>2. PICK y \in Streams : w' = [w EXCEPT ![s] = y] /\ Used(y) <= Stop(s) /\ y.raw /\ ~y.fclosed
  BY CloseWritesEffect
<1>3. /\ call' \in Calling /\ call'.s = s /\ call'.then = "closed" /\ call'.rest = <<>> /\ call'.after = call.after
  BY <1>0, <1>1 DEF Calling
<1>4. /\ w' \in [Writers -> Streams] /\ w'[s] = y /\ \A t \in Writers : t # s => w'[t] = w[t]
      /\ \A t \in Writers : Used(w'[t]) <= Stop(t) \/ w'[t].fclosed
      /\ \A t \in Writers : w'[t].fclosed => w'[t].closed
  BY <1>0, <1>1, <1>2, WriterStep
<1>5. TypeOK'
  <2>1. nWriters' \in 0..2 /\ put' \in [Writers -> 0..MaxPut]
    BY <1>0 DEF TypeOK
  <2> QED BY <1>0, <1>1, <1>3, <1>4, <2>1, TypeFrame
<1>6. Closes'
  <2>1. \A t \in Writers : ~Closing(t)' /\ (Closing(t) <=> t = s)
    BY <1>0, <1>3 DEF Closing
  <2>2. \A t \in Writers : (w'[t].raw <=> w[t].raw) /\ (w'[t].fclosed <=> w[t].fclosed)
    BY <1>1, <1>2, <1>4
  <2>3. nWriters' = (IF w'["STDOUT"].raw THEN 0 ELSE 1) + (IF w'["STDERR"].raw THEN 0 ELSE 1)
    BY <1>0, <2>2 DEF Closes, Writers
  <2>4. \A t \in Writers :
          /\ w'[t].fclosed => w'[t].raw
          /\ w'[t].raw => w'[t].fclosed \/ (call'.s = t /\ call'.then = "closed")
          /\ call'.s = t /\ call'.then = "closed" => w'[t].raw
    BY <1>0, <1>1, <1>3, <2>1, <2>2 DEF Closes
  <2>5. /\ call'.after = "out" => call'.s = "STDERR"
        /\ call'.after = "free" => call'.s = "STDOUT" /\ w'["STDERR"].fclosed
        /\ served' < MaxRequests
    BY <1>0, <1>3, <2>2 DEF Closes, Writers
  <2> QED BY <1>1, <1>3, <2>1, <2>3, <2>4, <2>5 DEF Closes
<1>7. Puts'
  BY <1>3 DEF Puts
<1> QED BY <1>5, <1>6, <1>7 DEF Control

(* Closed that is not StartClose: the writer is marked, or the call ends.   *)
LEMMA ControlClosed == Control /\ Closed => Control'
<1> SUFFICES ASSUME Control, Closed PROVE Control'
  OBVIOUS
<1> DEFINE s == call.s
<1>0. /\ TypeOK /\ Closes /\ call.then = "closed" /\ call.rest = <<>> /\ call \in Calling
      /\ UNCHANGED <<nWriters, appStatus, out, dead, torn, put, setTo, served>>
      /\ out' \in Seq(Units) /\ nWriters' \in 0..2 /\ put' \in [Writers -> 0..MaxPut]
  BY DEF Control, Closed, TypeOK, Calling
<1>1. s \in Writers /\ w[s] \in Streams /\ w[s].raw
  BY <1>0 DEF Closes, TypeOK
<1>2. CASE w[s].fclosed /\ call.after = "out"
  <2>1. StartClose("STDOUT", "free") /\ MayClose("STDOUT", "free")
    BY <1>0, <1>2, ClosedMayClose DEF Closed
  <2> QED BY <1>0, <2>1, ControlStartClose
<1>3. CASE w[s].fclosed /\ call.after # "out"
  <2>1. w' = w /\ call' = IF call.after = "free" THEN [NoCall EXCEPT !.then = "free"] ELSE NoCall
    BY <1>3 DEF Closed
  <2>2. /\ call'.s = "none" /\ call'.rest = <<>> /\ call'.after = "none" /\ call' \in Calling
        /\ call'.then = IF call.after = "free" THEN "free" ELSE "none"
        /\ call'.then = "none" => call' = NoCall
    BY <2>1, NoUnits DEF NoCall, Calling
  <2>3. TypeOK'
    <3>1. /\ w' \in [Writers -> Streams] /\ \A t \in Writers : Used(w'[t]) <= Stop(t) \/ w'[t].fclosed
          /\ \A t \in Writers : w'[t].fclosed => w'[t].closed
      BY <1>0, <2>1 DEF TypeOK
    <3> QED BY <1>0, <2>2, <3>1, TypeFrame
  <2>4. Closes'
    <3>1. \A t \in Writers : ~Closing(t)' /\ ~Closing(t)
      BY <1>0, <2>2 DEF Closing, Writers
    <3>2. \A t \in Writers : w[t].raw <=> w[t].fclosed
      BY <1>0, <1>3, <3>1 DEF Closes
    <3>3. call.after = "free" => w["STDOUT"].fclosed /\ w["STDERR"].fclosed
      BY <1>0, <1>3 DEF Closes
    <3>4. nWriters' = (IF w'["STDOUT"].raw THEN 0 ELSE 1) + (IF w'["STDERR"].raw THEN 0 ELSE 1)
      BY <1>0, <2>1 DEF Closes
    <3>5. served' < MaxRequests /\ "none" \notin Writers
      BY <1>0 DEF Closes, Writers
    <3> QED BY <2>1, <2>2, <3>1, <3>2, <3>3, <3>4, <3>5 DEF Closes
  <2>5. Puts'
    BY <2>2 DEF Puts
  <2> QED BY <2>3, <2>4, <2>5 DEF Control
<1>4. CASE ~w[s].fclosed
  <2> DEFINE y == [w[s] EXCEPT !.fclosed = TRUE, !.closed = TRUE]
  <2>1. w' = [w EXCEPT ![s] = y] /\ call' = call
    <3>1. w' = [w EXCEPT ![s].fclosed = TRUE, ![s].closed = TRUE] /\ call' = call
      BY <1>4 DEF Closed
    <3>2. w \in [Writers -> Streams]
      BY <1>0 DEF TypeOK
    <3> QED BY <1>1, <3>1, <3>2
  <2>2. y \in Streams /\ y.fclosed /\ y.closed /\ y.raw = w[s].raw /\ y.buf = w[s].buf
    <3>1. TRUE \in BOOLEAN
      OBVIOUS
    <3> QED BY <1>1, <3>1, Zenon DEF Streams
  <2> HIDE DEF y
  <2>3. /\ w' \in [Writers -> Streams] /\ w'[s] = y /\ \A t \in Writers : t # s => w'[t] = w[t]
        /\ \A t \in Writers : Used(w'[t]) <= Stop(t) \/ w'[t].fclosed
        /\ \A t \in Writers : w'[t].fclosed => w'[t].closed
    BY <1>0, <1>1, <2>1, <2>2, WriterStep
  <2>4. TypeOK'
    BY <1>0, <2>1, <2>3, TypeFrame
  <2>5. Closes'
    <3>1. \A t \in Writers : ~Closing(t)' /\ ~Closing(t)
      BY <1>0, <2>1 DEF Closing
    <3>2. \A t \in Writers : (w'[t].raw <=> w[t].raw) /\ (w[t].fclosed => w'[t].fclosed)
      BY <1>1, <2>2, <2>3
    <3>3. nWriters' = (IF w'["STDOUT"].raw THEN 0 ELSE 1) + (IF w'["STDERR"].raw THEN 0 ELSE 1)
      BY <1>0, <3>2 DEF Closes, Writers
    <3>4. \A t \in Writers : /\ w'[t].fclosed => w'[t].raw
                             /\ w'[t].raw => w'[t].fclosed
                             /\ call.s = t => w'[t].raw
      <4> SUFFICES ASSUME NEW t \in Writers
                   PROVE  (w'[t].fclosed => w'[t].raw) /\ (w'[t].raw => w'[t].fclosed) /\ (call.s = t => w'[t].raw)
        OBVIOUS
      <4>1. CASE t = s
        BY <1>1, <2>2, <2>3, <4>1
      <4>2. CASE t # s
        <5>1. w[t].raw <=> w[t].fclosed
          BY <1>0, <3>1, <4>2 DEF Closes
        <5> QED BY <2>3, <4>2, <5>1
      <4> QED BY <4>1, <4>2
    <3>5. /\ call.after = "out" => call.s = "STDERR"
          /\ call.after = "free" => call.s = "STDOUT" /\ w'["STDERR"].fclosed
          /\ served' < MaxRequests
      BY <1>0, <3>2 DEF Closes, Writers
    <3> QED BY <1>0, <1>1, <2>1, <3>1, <3>3, <3>4, <3>5 DEF Closes
  <2>6. Puts'
    BY <1>0, <2>1 DEF Puts
  <2> QED BY <2>4, <2>5, <2>6 DEF Control
<1> QED BY <1>2, <1>3, <1>4

LEMMA ControlClearError == ASSUME Control, NEW s \in Writers, FCGX_ClearError(s) PROVE Control'
<1> DEFINE y == [w[s] EXCEPT !.errno = "0"]
<1>0. /\ TypeOK /\ Closes /\ Puts /\ call = NoCall
      /\ UNCHANGED <<nWriters, appStatus, call, out, dead, torn, put, setTo, served>>
      /\ out' \in Seq(Units) /\ nWriters' \in 0..2 /\ put' \in [Writers -> 0..MaxPut] /\ call' \in Calling
      /\ w[s] \in Streams
  BY DEF Control, FCGX_ClearError, Idle, TypeOK, Calling
<1>1. w' = [w EXCEPT ![s] = y]
  BY DEF FCGX_ClearError
<1>2. y \in Streams /\ y.fclosed = w[s].fclosed /\ y.closed = w[s].closed /\ y.raw = w[s].raw /\ y.buf = w[s].buf
  BY <1>0 DEF Streams
<1> HIDE DEF y
<1>3. (Used(y) <= Stop(s) \/ y.fclosed) /\ (y.fclosed => y.closed)
  BY <1>0, <1>2 DEF TypeOK, Used
<1>4. /\ w' \in [Writers -> Streams] /\ w'[s] = y /\ \A t \in Writers : t # s => w'[t] = w[t]
      /\ \A t \in Writers : Used(w'[t]) <= Stop(t) \/ w'[t].fclosed
      /\ \A t \in Writers : w'[t].fclosed => w'[t].closed
  BY <1>0, <1>1, <1>2, <1>3, WriterStep
<1>5. TypeOK'
  BY <1>0, <1>4, TypeFrame
<1>6. Closes'
  <2>1. call.then \notin {"closed", "free"}
    BY <1>0 DEF NoCall
  <2>2. \A t \in Writers : w'[t].raw = w[t].raw /\ w'[t].fclosed = w[t].fclosed
    BY <1>2, <1>4
  <2> QED BY <1>0, <2>1, <2>2, ClosesFrame
<1>7. Puts'
  BY <1>0 DEF Puts
<1> QED BY <1>5, <1>6, <1>7 DEF Control

LEMMA ControlSetExitStatus == ASSUME Control, NEW status \in Statuses, FCGX_SetExitStatus(status) PROVE Control'
<1>0. /\ TypeOK /\ Closes /\ Puts /\ appStatus' = status /\ (setTo' = status \/ setTo' = setTo)
      /\ UNCHANGED <<w, nWriters, call, out, dead, torn, put, served>>
  BY DEF Control, FCGX_SetExitStatus
<1>1. TypeOK'
  BY <1>0 DEF TypeOK, Used, Stop
<1>2. Closes' /\ Puts'
  BY <1>0 DEF Closes, Puts, Closing
<1> QED BY <1>1, <1>2 DEF Control

LEMMA ControlServerDies == Control /\ ServerDies => Control'
<1> SUFFICES ASSUME Control, ServerDies PROVE Control'
  OBVIOUS
<1>0. /\ TypeOK /\ Closes /\ Puts /\ dead' = TRUE /\ out' = <<>>
      /\ UNCHANGED <<w, nWriters, appStatus, call, torn, put, setTo, served>>
  BY DEF Control, ServerDies
<1>1. TypeOK'
  BY <1>0, NoUnits DEF TypeOK, Used, Stop
<1>2. Closes' /\ Puts'
  BY <1>0 DEF Closes, Puts, Closing
<1> QED BY <1>1, <1>2 DEF Control

(* New writers.                                                             *)
LEMMA NewWriters ==
    /\ NewWriter \in Streams /\ NewWriter.buf = <<>> /\ ~NewWriter.raw /\ ~NewWriter.any
    /\ ~NewWriter.closed /\ ~NewWriter.fclosed /\ \A s \in Writers : Used(NewWriter) <= Stop(s)
<1>1. NewWriter \in Streams /\ NewWriter.buf = <<>>
  BY NoUnits DEF NewWriter, Streams
<1>2. ~NewWriter.raw /\ ~NewWriter.any /\ ~NewWriter.closed /\ ~NewWriter.fclosed
  BY DEF NewWriter
<1>3. Used(NewWriter) = HeaderLen
  BY <1>1, <1>2, NoUnits, OutputAssumption DEF Used
<1> QED BY <1>1, <1>2, <1>3, StopProps

LEMMA ControlInit == Init => Control
<1> SUFFICES ASSUME Init PROVE Control
  OBVIOUS
<1>1. \A s \in Writers : w[s] = NewWriter /\ put[s] = 0
  BY DEF Init
<1>2. TypeOK
  <2>1. /\ w \in [Writers -> Streams] /\ put \in [Writers -> 0..MaxPut]
        /\ \A s \in Writers : Used(w[s]) <= Stop(s) /\ ~w[s].fclosed
    BY <1>1, NewWriters, OutputAssumption DEF Init
  <2>2. call \in Calling
    BY NoUnits DEF Init, NoCall, Calling
  <2>3. nWriters \in 0..2 /\ served \in 0..MaxRequests
    BY OutputAssumption DEF Init
  <2>4. /\ appStatus \in Statuses \cup {0} /\ out \in Seq(Units)
        /\ dead \in BOOLEAN /\ torn \in BOOLEAN /\ setTo \in Statuses \cup {-1}
    BY NoUnits DEF Init
  <2> QED BY <2>1, <2>2, <2>3, <2>4 DEF TypeOK, Calling
<1>3. Closes
  <2>1. \A s \in Writers : ~Closing(s) /\ ~w[s].raw /\ ~w[s].fclosed
    BY <1>1, NewWriters DEF Init, Closing, NoCall
  <2> QED BY <2>1 DEF Init, Closes, NoCall, Writers
<1>4. Puts
  BY DEF Init, NoCall, Puts
<1> QED BY <1>2, <1>3, <1>4 DEF Control

LEMMA ControlNextRequest == Control /\ NextRequest => Control'
<1> SUFFICES ASSUME Control, NextRequest PROVE Control'
  OBVIOUS
<1>1. /\ \A s \in Writers : w'[s] = NewWriter /\ put'[s] = 0
      /\ w' = [s \in Writers |-> NewWriter] /\ put' = [s \in Writers |-> 0] /\ nWriters' = 2 /\ call' = NoCall
      /\ out' = <<>> /\ dead' = FALSE /\ torn' \in BOOLEAN /\ setTo' = -1 /\ served' = served + 1 /\ appStatus' = appStatus
  BY DEF NextRequest
<1>2. served' \in 0..MaxRequests /\ appStatus' \in Statuses \cup {0}
  BY <1>1, OutputAssumption DEF Control, NextRequest, Closes, TypeOK
<1>3. TypeOK'
  <2>1. /\ w' \in [Writers -> Streams] /\ put' \in [Writers -> 0..MaxPut]
        /\ \A s \in Writers : Used(w'[s]) <= Stop(s) /\ ~w'[s].fclosed
    BY <1>1, NewWriters, OutputAssumption
  <2>2. call' \in Calling
    BY <1>1, NoUnits DEF NoCall, Calling
  <2>3. nWriters' \in 0..2
    BY <1>1
  <2>4. out' \in Seq(Units) /\ dead' \in BOOLEAN /\ torn' \in BOOLEAN /\ setTo' \in Statuses \cup {-1}
    BY <1>1, NoUnits
  <2>5. \A s \in Writers : Used(w[s])' = Used(w'[s])
    BY DEF Used
  <2> QED BY <1>2, <2>1, <2>2, <2>3, <2>4, <2>5 DEF TypeOK, Calling, Stop
<1>4. Closes'
  <2>1. \A s \in Writers : ~Closing(s)' /\ ~w'[s].raw /\ ~w'[s].fclosed
    BY <1>1, NewWriters DEF Closing, NoCall
  <2> QED BY <1>1, <2>1 DEF Closes, NoCall, Writers
<1>5. Puts'
  BY <1>1 DEF NoCall, Puts
<1> QED BY <1>3, <1>4, <1>5 DEF Control

-----------------------------------------------------------------------------
(* What is in the buffers and what was written.                             *)

Data == Buffers /\ Records /\ BytesInOrder /\ Endings

(* Bytes put one after the other.                                           *)
LEMMA CarriesBytes ==
    ASSUME NEW b \in Seq(Units), NEW s \in Writers, NEW m \in Nat,
           \A i \in 1..Len(b) : b[i] = [u |-> "byte", s |-> s, n |-> m + i]
    PROVE  Carries(b, s, m, m + Len(b))
<1>0. Len(b) \in Nat
  OBVIOUS
<1>1. ASSUME NEW i \in 1..Len(b) PROVE b[i].u = "byte" /\ b[i].s = s /\ b[i].n = m + i
  <2>1. b[i] = [u |-> "byte", s |-> s, n |-> m + i]
    OBVIOUS
  <2> QED BY <2>1
<1>2. BytesOf(b, s) = 1..Len(b)
  BY <1>1 DEF BytesOf
<1>3. \A i, j \in 1..Len(b) : i < j => b[i].n < b[j].n
  BY <1>0, <1>1
<1>4. {b[i].n : i \in 1..Len(b)} = (m + 1)..(m + Len(b))
  <2>1. ASSUME NEW k \in (m + 1)..(m + Len(b)) PROVE \E i \in 1..Len(b) : b[i].n = k
    <3>1. k - m \in 1..Len(b) /\ m + (k - m) = k
      BY <1>0
    <3> QED BY <1>1, <3>1
  <2>2. \A i \in 1..Len(b) : b[i].n \in (m + 1)..(m + Len(b))
    BY <1>0, <1>1
  <2> QED BY <2>1, <2>2
<1> QED BY <1>2, <1>3, <1>4 DEF Carries

(* Nothing is pending but while a writer is being closed.                   *)
LEMMA NothingPending ==
    ASSUME TypeOK, call.then \notin {"end", "empty"}
    PROVE  Pending = <<>> /\ out \o Pending = out
<1>1. out \in Seq(Units) /\ Pending = <<>>
  BY DEF TypeOK, Pending
<1> QED BY <1>1, ConcatEmptySeq

(* A step that moves no unit.                                               *)
LEMMA DataFrame ==
    ASSUME TypeOK, TypeOK', Data,
           \A t \in Writers : /\ w'[t].buf = w[t].buf /\ w'[t].raw = w[t].raw /\ w'[t].any = w[t].any
                              /\ Intact => (w'[t].closed => w'[t].fclosed),
           call.then \notin {"end", "empty"}, call'.then \notin {"end", "empty"},
           Intact' => Intact, UNCHANGED <<nWriters, appStatus, out, put, setTo>>
    PROVE  Data'
<1>0. "STDOUT" \in Writers /\ "STDERR" \in Writers
  BY DEF Writers
<1>1. out \o Pending = out /\ (out \o Pending)' = out /\ out' = out
  <2>1. out' \in Seq(Units) /\ Pending' = <<>>
    BY DEF TypeOK, Pending
  <2>2. out' \o Pending' = out'
    BY <2>1, ConcatEmptySeq
  <2> QED BY <2>2, NothingPending
<1>2. \A t \in Writers : ~Closing(t) /\ ~Closing(t)'
  BY DEF Closing
<1>3. Buffers'
  BY <1>2 DEF Data, Buffers
<1>4. Records'
  <2>1. Whole(out)' <=> Whole(out)
    BY <1>1 DEF Whole, Record, Heads, Span
  <2> QED BY <2>1 DEF Data, Records
<1>5. BytesInOrder'
  BY DEF Data, BytesInOrder
<1>6. Endings'
  BY <1>0, <1>1 DEF Data, Endings
<1> QED BY <1>3, <1>4, <1>5, <1>6 DEF Data

(* Bytes moved into the buffer of an open writer, which is then written or  *)
(* not: FCGX_PutStr and FCGX_FFlush.                                        *)
Taken(s, moved, x, y) ==
    /\ s \in Writers /\ ~w[s].raw
    /\ \A i \in 1..Len(moved) : moved[i] = [u |-> "byte", s |-> s, n |-> put[s] + i]
    /\ x.buf = w[s].buf \o moved /\ ~x.raw /\ x.any = w[s].any
    /\ y.raw = x.raw /\ y.closed = w[s].closed /\ y.fclosed = w[s].fclosed
    /\ w'[s] = y /\ \A t \in Writers : t # s => w'[t] = w[t]
    /\ put'[s] = put[s] + Len(moved) /\ \A t \in Writers : t # s => put'[t] = put[t]
    /\ \/ y = x /\ out' = out
       \/ /\ out' = out \o Encapsulated(s, x) /\ y.buf = <<>>
          /\ y.any <=> x.any \/ x.buf # <<>>

LEMMA DataTaken ==
    ASSUME Control, Control', Data, Intact, Clean, NEW s, NEW moved \in Seq(Units), NEW x \in Streams, NEW y \in Streams,
           Taken(s, moved, x, y),
           call.then \notin {"end", "empty"}, call'.then \notin {"end", "empty"},
           UNCHANGED <<nWriters, appStatus, dead, setTo>>
    PROVE  Data'
<1>0. /\ TypeOK /\ TypeOK' /\ s \in Writers /\ out \in Seq(Units) /\ out' \in Seq(Units)
      /\ put[s] \in Nat /\ put'[s] \in Nat /\ w[s].buf \in Seq(Units) /\ x.buf \in Seq(Units) /\ Len(moved) \in Nat
      /\ Len(w[s].buf) \in Nat
  <2>1. TypeOK /\ TypeOK' /\ s \in Writers
    BY DEF Taken, Control
  <2>2. put[s] \in 0..MaxPut /\ put'[s] \in 0..MaxPut /\ w[s] \in Streams /\ out \in Seq(Units) /\ out' \in Seq(Units)
    BY <2>1 DEF TypeOK
  <2>3. w[s].buf \in Seq(Units) /\ x.buf \in Seq(Units)
    BY <2>2 DEF Streams
  <2> QED BY <2>1, <2>2, <2>3, OutputAssumption
<1>1. \A t \in Writers : ~Closing(t) /\ ~Closing(t)'
  BY DEF Closing
<1>2. \A i \in 1..Len(x.buf) : x.buf[i].u = "byte" /\ x.buf[i].s = s
  <2>1. \A i \in 1..Len(w[s].buf) : w[s].buf[i].u = "byte" /\ w[s].buf[i].s = s
    BY <1>0 DEF Data, Buffers, Taken
  <2>2. \A i \in 1..Len(moved) : moved[i].u = "byte" /\ moved[i].s = s
    <3> SUFFICES ASSUME NEW i \in 1..Len(moved) PROVE moved[i].u = "byte" /\ moved[i].s = s
      OBVIOUS
    <3>1. moved[i] = [u |-> "byte", s |-> s, n |-> put[s] + i]
      BY DEF Taken
    <3> QED BY <3>1
  <2> DEFINE c == w[s].buf \o moved
  <2>3. /\ \A i \in 1..Len(w[s].buf) : i \in 1..Len(c) /\ c[i] = w[s].buf[i]
        /\ \A i \in 1..Len(moved) : Len(w[s].buf) + i \in 1..Len(c) /\ c[Len(w[s].buf) + i] = moved[i]
        /\ \A i \in 1..Len(c) : i \in 1..Len(w[s].buf) \/ \E k \in 1..Len(moved) : i = Len(w[s].buf) + k
    BY <1>0, ConcatAt
  <2>4. x.buf = c
    BY DEF Taken
  <2> HIDE DEF c
  <2>5. ASSUME NEW i \in 1..Len(c) PROVE c[i].u = "byte" /\ c[i].s = s
    <3>1. CASE i \in 1..Len(w[s].buf)
      BY <2>1, <2>3, <3>1
    <3>2. ASSUME NEW k \in 1..Len(moved), i = Len(w[s].buf) + k PROVE c[i].u = "byte" /\ c[i].s = s
      BY <2>2, <2>3, <3>2
    <3> QED BY <2>3, <3>1, <3>2
  <2> QED BY <2>4, <2>5
<1>3. PICK m \in 0..put[s] : Carries(out, s, 0, m) /\ Carries(w[s].buf, s, m, put[s])
  BY <1>0 DEF Data, BytesInOrder
<1>4. put'[s] = put[s] + Len(moved) /\ m \in Nat /\ m <= put[s] /\ put[s] <= put'[s] /\ m <= put'[s]
  BY <1>0 DEF Taken
<1>5. Carries(x.buf, s, m, put'[s])
  <2>1. Carries(moved, s, put[s], put[s] + Len(moved))
    BY <1>0, CarriesBytes DEF Taken
  <2>2. x.buf = w[s].buf \o moved
    BY DEF Taken
  <2> QED BY <1>0, <1>3, <1>4, <2>1, <2>2, CarriesConcat
<1>6. nWriters # 0 /\ ~w'[s].raw
  BY <1>0 DEF Control, Closes, Taken, Writers
<1>7. /\ out \o Pending = out /\ (out \o Pending)' = out'
  <2>1. Pending' = <<>>
    BY DEF Pending
  <2>2. out' \o Pending' = out'
    BY <1>0, <2>1, ConcatEmptySeq
  <2> QED BY <1>0, <2>2, NothingPending
<1>8. (put'[s] > 0 <=> y.any \/ y.buf # <<>>) \/ s # "STDERR"
  <2>0. CASE s = "STDERR"
    <3>1. put[s] > 0 <=> w[s].any \/ w[s].buf # <<>>
      BY <2>0 DEF Data, Endings, Taken
    <3>2. x.buf # <<>> <=> w[s].buf # <<>> \/ moved # <<>>
      <4>1. x.buf = w[s].buf \o moved
        BY DEF Taken
      <4>2. Len(x.buf) = Len(w[s].buf) + Len(moved)
        BY <1>0, <4>1, ConcatProperties
      <4> QED BY <1>0, <4>2, EmptySeq
    <3>3. Len(moved) > 0 <=> moved # <<>>
      BY <1>0, EmptySeq
    <3>4. put'[s] > 0 <=> put[s] > 0 \/ moved # <<>>
      BY <1>0, <1>4, <3>3
    <3>5. put'[s] > 0 <=> x.any \/ x.buf # <<>>
      BY <3>1, <3>2, <3>4 DEF Taken
    <3> QED BY <3>5 DEF Taken
  <2> QED BY <2>0
<1>10. PICK e \in Seq(Units), m1 \in 0..put'[s] :
             /\ out' = out \o e /\ Whole(e) /\ \A t : Ends(e, t) = {}
             /\ \A t \in Writers, k \in Nat : t # s => Carries(e, t, k, k)
             /\ Carries(out', s, 0, m1) /\ Carries(y.buf, s, m1, put'[s])
             /\ \A i \in 1..Len(y.buf) : y.buf[i].u = "byte" /\ y.buf[i].s = s
  <2>1. CASE y = x /\ out' = out
    <3>1. out' = out \o <<>>
      BY <1>0, <2>1, ConcatEmptySeq
    <3>2. m \in 0..put'[s] /\ Carries(out', s, 0, m)
      BY <1>3, <1>4, <2>1
    <3> QED BY <1>2, <1>5, <2>1, <3>1, <3>2, NoUnits
  <2>2. CASE out' = out \o Encapsulated(s, x) /\ y.buf = <<>>
    <3> DEFINE e == Encapsulated(s, x)
    <3>1. e \in Seq(Units)
      BY <1>0, EncapsulatedType
    <3>2. /\ Whole(e) /\ \A t : Ends(e, t) = {}
          /\ \A lo, hi \in Nat : lo <= hi /\ Carries(x.buf, s, lo, hi) => Carries(e, s, lo, hi)
          /\ \A t \in Writers, n \in Nat : t # s => Carries(e, t, n, n)
      BY <1>0, <1>2, Encapsulation DEF Taken
    <3>3. out' = out \o e
      BY <2>2
    <3> HIDE DEF e
    <3>4. Carries(out', s, 0, put'[s])
      <4>1. Carries(e, s, m, put'[s])
        BY <1>0, <1>4, <1>5, <3>2
      <4> QED BY <1>0, <1>3, <1>4, <3>1, <3>3, <4>1, CarriesConcat
    <3>5. Carries(y.buf, s, put'[s], put'[s]) /\ put'[s] \in 0..put'[s] /\ Len(y.buf) = 0
      BY <1>0, <2>2, NoUnits
    <3> QED BY <3>1, <3>2, <3>3, <3>4, <3>5, SMTT(30)
  <2> QED BY <2>1, <2>2 DEF Taken
<1>11. Buffers'
  <2>1. ASSUME NEW t \in Writers, t # s PROVE w'[t] = w[t]
    BY <2>1 DEF Taken
  <2>2. w'[s] = y /\ ~y.raw /\ (y.closed => y.fclosed)
    BY <1>0 DEF Taken, Data, Buffers
  <2> QED BY <1>1, <1>10, <2>1, <2>2 DEF Data, Buffers
<1>12. Records'
  <2>1. Whole(out')
    BY <1>0, <1>10, WholeConcat DEF Data, Records
  <2> QED BY <2>1 DEF Records
<1>13. BytesInOrder'
  <2>1. ASSUME NEW t \in Writers
        PROVE  \E k \in 0..put'[t] : Carries(out', t, 0, k) /\ Carries(w'[t].buf, t, k, put'[t])
    <3>1. CASE t = s
      BY <1>10, <3>1 DEF Taken
    <3>2. CASE t # s
      <4>1. w'[t] = w[t] /\ put'[t] = put[t] /\ put[t] \in Nat
        BY <1>0, <3>2, OutputAssumption DEF Taken, TypeOK
      <4>2. PICK k \in 0..put[t] : Carries(out, t, 0, k) /\ Carries(w[t].buf, t, k, put[t])
        BY DEF Data, BytesInOrder
      <4>3. Carries(out', t, 0, k)
        <5>1. Carries(e, t, k, k) /\ k \in Nat
          BY <1>10, <3>2, <4>1, SMTT(30)
        <5> QED BY <1>0, <1>10, <4>2, <5>1, CarriesConcat
      <4> QED BY <4>1, <4>2, <4>3
    <3> QED BY <3>1, <3>2
  <2> QED BY <2>1 DEF BytesInOrder
<1>14. Endings'
  <2>1. /\ \A t : Ends(out, t) = {} => Ends(out', t) = {}
        /\ \A t : Once(out, t) => Once(out', t)
    BY <1>0, <1>10, EndsConcat, ZenonT(40)
  <2>2. (\A t \in Writers : w'[t].raw <=> w[t].raw) /\ ~w[s].raw
    <3> SUFFICES ASSUME NEW t \in Writers PROVE w'[t].raw <=> w[t].raw
      BY DEF Taken
    <3>1. CASE t = s
      BY <3>1 DEF Taken
    <3>2. CASE t # s
      BY <3>2 DEF Taken
    <3> QED BY <3>1, <3>2
  <2>3. IF w'["STDOUT"].raw THEN Once(out', "STDOUT") ELSE Ends(out', "STDOUT") = {}
    BY <1>7, <2>1, <2>2 DEF Data, Endings, Writers
  <2>4. IF w'["STDERR"].raw /\ put'["STDERR"] > 0 THEN Once(out', "STDERR") ELSE Ends(out', "STDERR") = {}
    <3>1. CASE s = "STDERR"
      BY <1>7, <2>1, <2>2, <3>1 DEF Data, Endings, Writers
    <3>2. CASE s # "STDERR"
      BY <1>7, <2>1, <2>2, <3>2 DEF Data, Endings, Writers, Taken
    <3> QED BY <3>1, <3>2
  <2>5. ~w'["STDERR"].raw => (put'["STDERR"] > 0 <=> w'["STDERR"].any \/ w'["STDERR"].buf # <<>>)
    <3>1. CASE s = "STDERR"
      BY <1>8, <3>1 DEF Taken
    <3>2. CASE s # "STDERR"
      BY <3>2 DEF Data, Endings, Writers, Taken
    <3> QED BY <3>1, <3>2
  <2>6. Ends(out', "END_REQUEST") = {} /\ (setTo' # -1 => appStatus' = setTo')
    BY <1>6, <1>7, <2>1 DEF Data, Endings
  <2> QED BY <1>6, <1>7, <2>3, <2>4, <2>5, <2>6 DEF Endings
<1> QED BY <1>11, <1>12, <1>13, <1>14 DEF Data

LEMMA DataFlush == ASSUME Control, Control', Data, Intact, Clean, NEW s \in Writers, FCGX_FFlush(s) PROVE Data'
<1>0. /\ TypeOK /\ Closes /\ call = NoCall /\ ~w[s].closed /\ EmptyBuffProc(s, w[s])
      /\ UNCHANGED <<nWriters, appStatus, call, dead, put, setTo, served>>
  BY DEF Control, FCGX_FFlush, Idle
<1>1. w[s] \in Streams /\ Used(w[s]) <= Stop(s) /\ ~w[s].fclosed /\ w[s].buf \in Seq(Units)
  BY <1>0 DEF TypeOK, Streams
<1>2. ~w[s].raw /\ call.then = "none"
  BY <1>0, <1>1 DEF Closes, Closing, NoCall, Writers
<1>3. /\ Clean => out' = out \o Encapsulated(s, w[s])
      /\ \E y \in Streams :
                 /\ w' = [w EXCEPT ![s] = y]
                 /\ Used(y) <= Stop(s) /\ y.raw = w[s].raw /\ y.fclosed = w[s].fclosed /\ (w[s].closed => y.closed)
                 /\ Clean => /\ y.buf = <<>> /\ y.closed = w[s].closed
                             /\ y.any <=> w[s].any \/ w[s].buf # <<>>
  BY <1>0, <1>1, EmptyEffect
<1>4. PICK y \in Streams :
                 /\ w' = [w EXCEPT ![s] = y] /\ y.raw = w[s].raw /\ y.fclosed = w[s].fclosed
                 /\ y.buf = <<>> /\ y.closed = w[s].closed /\ (y.any <=> w[s].any \/ w[s].buf # <<>>)
  BY <1>3
<1>5. w[s].buf = w[s].buf \o <<>> /\ Len(<<>>) = 0 /\ put[s] + 0 = put[s] /\ put \in [Writers -> 0..MaxPut]
  BY <1>0, <1>1, ConcatEmptySeq, NoUnits DEF TypeOK
<1>6. w'[s] = y /\ \A t \in Writers : t # s => w'[t] = w[t]
  BY <1>0, <1>4 DEF TypeOK
<1>7. Taken(s, <<>>, w[s], y)
  BY <1>0, <1>2, <1>3, <1>4, <1>5, <1>6 DEF Taken
<1> QED BY <1>0, <1>1, <1>2, <1>7, NoUnits, DataTaken

(* Bytes of a handler.                                                      *)
LEMMA DataPutBytes == ASSUME Control, Control', Data, Intact, Clean, PutTurn, call.then = "return" PROVE Data'
<1> DEFINE s == call.s
<1>0. /\ TypeOK /\ TypeOK' /\ Closes /\ Puts /\ UNCHANGED <<nWriters, appStatus, dead, setTo, served>> /\ call \in Calling
      /\ put \in [Writers -> 0..MaxPut] /\ w \in [Writers -> Streams] /\ call.rest \in Seq(Units)
  BY DEF Control, PutTurn, TypeOK, Calling
<1>1. PICK n \in 0..Len(call.rest), moved \in Seq(Units), rest \in Seq(Units), x \in Streams, y \in Streams :
             Turn(n, moved, rest, x, y)
  BY PutTurnEffect
<1>2. /\ s \in Writers /\ Len(moved) = n /\ n = Least(Len(call.rest), Room(s, w[s]))
      /\ \A i \in 1..n : moved[i] = call.rest[i]
      /\ x.buf = w[s].buf \o moved /\ x.raw = w[s].raw /\ x.any = w[s].any
      /\ x.closed = w[s].closed /\ x.fclosed = w[s].fclosed
      /\ put' = [put EXCEPT ![s] = @ + n]
      /\ w' = [w EXCEPT ![s] = y] /\ y.raw = w[s].raw /\ y.fclosed = w[s].fclosed
      /\ (call' = [call EXCEPT !.rest = <<>>] \/ call' = [call EXCEPT !.rest = rest])
      /\ \/ /\ rest = <<>> \/ w[s].closed
            /\ y = x /\ out' = out
         \/ /\ ~w[s].closed
            /\ out' = out \o Encapsulated(s, x) /\ y.buf = <<>> /\ y.closed = x.closed
            /\ y.any <=> x.any \/ x.buf # <<>>
  BY <1>1 DEF Turn
<1>3. /\ w'[s] = y /\ \A t \in Writers : t # s => w'[t] = w[t]
      /\ put'[s] = put[s] + n /\ \A t \in Writers : t # s => put'[t] = put[t]
      /\ call'.then = "return"
  BY <1>0, <1>2 DEF Calling
<1>4. CASE ~w[s].raw
  <2>1. \A i \in 1..Len(moved) : moved[i] = [u |-> "byte", s |-> s, n |-> put[s] + i]
    <3>1. \A i \in 1..Len(call.rest) : call.rest[i] = [u |-> "byte", s |-> s, n |-> put[s] + i]
      BY <1>0 DEF Puts
    <3>2. \A i \in 1..n : i \in 1..Len(call.rest)
      BY <1>0
    <3> QED BY <1>2, <3>1, <3>2
  <2>2. y.closed = w[s].closed
    BY <1>2
  <2>3. Taken(s, moved, x, y)
    BY <1>2, <1>3, <1>4, <2>1, <2>2 DEF Taken
  <2> QED BY <1>0, <1>3, <2>3, DataTaken
<1>5. CASE w[s].raw
  <2>1. w[s].fclosed /\ w[s].closed
    BY <1>0, <1>2, <1>5 DEF Closes, Closing, TypeOK
  <2>2. n = 0
    <3>1. Len(call.rest) \in Nat /\ Room(s, w[s]) = 0
      BY <1>0, <2>1 DEF Room
    <3> QED BY <1>2, <3>1 DEF Least
  <2>3. y = x /\ out' = out
    BY <1>2, <2>1
  <2>4. x.buf = w[s].buf
    <3>1. moved = <<>> /\ w[s].buf \in Seq(Units)
      BY <1>0, <1>2, <2>2, EmptySeq DEF Streams
    <3> QED BY <1>2, <3>1, ConcatEmptySeq
  <2>5. put' = put
    BY <1>0, <1>2, <2>2
  <2>6. ASSUME NEW t \in Writers
        PROVE  /\ w'[t].buf = w[t].buf /\ w'[t].raw = w[t].raw /\ w'[t].any = w[t].any
               /\ Intact => (w'[t].closed => w'[t].fclosed)
    <3>1. CASE t = s
      BY <1>2, <1>3, <2>1, <2>3, <2>4, <3>1
    <3>2. CASE t # s
      BY <1>3, <3>2 DEF Data, Buffers
    <3> QED BY <3>1, <3>2
  <2> QED BY <1>0, <1>3, <2>3, <2>5, <2>6, DataFrame
<1> QED BY <1>4, <1>5

LEMMA DataClosedAgain ==
    ASSUME Control, Control', Data, NEW s, NEW after, MayClose(s, after), StartClose(s, after), w[s].fclosed,
           UNCHANGED <<nWriters, appStatus, out, dead, torn, put, setTo, served>>
    PROVE  Data'
<1>1. TypeOK /\ TypeOK' /\ call.then \notin {"end", "empty"}
  BY DEF Control, MayClose
<1>2. w' = w /\ call'.then = "closed"
  BY DEF StartClose, NoCall
<1>3. \A t \in Writers : Intact => (w[t].closed => w[t].fclosed)
  BY DEF Data, Buffers
<1>4. Intact' => Intact
  BY DEF Intact
<1> QED BY <1>1, <1>2, <1>3, <1>4, DataFrame

(* FCGX_FClose makes what it has into a record, and the end of the stream   *)
(* follows if the stream needs one.                                         *)
LEMMA DataStartClose ==
    ASSUME Control, Control', Data, Intact, NEW s, NEW after, MayClose(s, after), StartClose(s, after), ~w[s].fclosed,
           UNCHANGED <<nWriters, appStatus, out, dead, torn, put, setTo, served>>
    PROVE  Data'
<1> DEFINE e == Encapsulated(s, w[s])
<1>0. /\ TypeOK /\ TypeOK' /\ Closes /\ s \in Writers /\ call.then \notin {"end", "empty"} /\ out \in Seq(Units)
      /\ w[s] \in Streams /\ put[s] \in 0..MaxPut /\ MaxPut \in Nat
  BY OutputAssumption DEF Control, MayClose, TypeOK
<1>1. ~w[s].raw
  BY StartCloseEffect
<1>2. PICK y \in Streams :
                 /\ w' = [w EXCEPT ![s] = y] /\ y.buf = Encapsulated(s, w[s]) /\ y.raw
                 /\ y.any = w[s].any /\ y.closed = w[s].closed /\ ~y.fclosed /\ Used(y) <= Stop(s)
                 /\ call' = [s |-> s, then |-> "end", after |-> after,
                             rest |-> IF NeedsEof(s, y) THEN MakeHeader(s, 0, 0) ELSE <<>>]
  BY StartCloseEffect
<1> DEFINE r == IF NeedsEof(s, y) THEN MakeHeader(s, 0, 0) ELSE <<>>
<1>3. w'[s] = y /\ \A t \in Writers : t # s => w'[t] = w[t]
  BY <1>0, <1>2 DEF TypeOK
<1>4. call'.s = s /\ call'.then = "end" /\ call'.rest = r /\ y.buf = e
  BY <1>2
<1>5. \A i \in 1..Len(w[s].buf) : w[s].buf[i].u = "byte" /\ w[s].buf[i].s = s
  BY <1>0, <1>1 DEF Data, Buffers
<1>6. /\ Whole(e) /\ Mult(Len(e))
      /\ \A t : Ends(e, t) = {}
      /\ \A lo, hi \in Nat : lo <= hi /\ Carries(w[s].buf, s, lo, hi) => Carries(e, s, lo, hi)
      /\ \A i \in 1..Len(e) : e[i].u = "byte" => e[i].s = s
  BY <1>0, <1>1, <1>5, Encapsulation
<1>7. e \in Seq(Units) /\ (e = <<>> <=> w[s].buf = <<>>)
  BY <1>0, <1>1, EncapsulatedType
<1>8. /\ r \in Seq(Units) /\ r \in {<<>>, MakeHeader(s, 0, 0)}
      /\ \A t : t # s => Ends(r, t) = {}
      /\ IF NeedsEof(s, y) THEN Once(r, s) ELSE Ends(r, s) = {}
  BY <1>0, EofRecord, NoUnits
<1>9. \A t \in Writers : ~Closing(t) /\ (Closing(t)' <=> t = s)
  BY <1>0, <1>4 DEF Closing
<1> HIDE DEF e, r
<1>10. Buffers'
  <2>1. y.raw /\ ~y.closed
    BY <1>0, <1>2 DEF Data, Buffers
  <2>2. \A i \in 1..Len(y.buf) : y.buf[i].u = "byte" => y.buf[i].s = s
    BY <1>4, <1>6
  <2> QED BY <1>3, <1>9, <2>1, <2>2 DEF Data, Buffers
<1>11. Records'
  <2>1. Len(e) \in Nat /\ Len(e) % HeaderLen = 0
    BY <1>6, <1>7, MultMod
  <2>2. Whole(out)
    BY <1>0 DEF Data, Records
  <2> QED BY <1>3, <1>4, <1>6, <1>8, <2>1, <2>2 DEF Records
<1>12. BytesInOrder'
  <2>1. ASSUME NEW t \in Writers
        PROVE  \E k \in 0..put[t] : Carries(out, t, 0, k) /\ Carries(w'[t].buf, t, k, put[t])
    <3>1. PICK k \in 0..put[t] : Carries(out, t, 0, k) /\ Carries(w[t].buf, t, k, put[t])
      BY DEF Data, BytesInOrder
    <3>2. CASE t = s
      <4>1. Carries(e, s, k, put[s])
        BY <1>0, <1>6, <3>1, <3>2
      <4> QED BY <1>3, <1>4, <3>1, <3>2, <4>1
    <3>3. CASE t # s
      BY <1>3, <3>1, <3>3
    <3> QED BY <3>2, <3>3
  <2> QED BY <2>1 DEF BytesInOrder
<1>13. Endings'
  <2> DEFINE u == out \o (e \o r)
  <2>1. (out \o Pending)' = u /\ out \o Pending = out
    BY <1>0, <1>3, <1>4, NothingPending DEF Pending
  <2>2. e \o r \in Seq(Units)
    BY <1>7, <1>8, ConcatProperties
  <2>3. /\ \A t : t # s => Ends(e \o r, t) = {}
        /\ IF NeedsEof(s, y) THEN Once(e \o r, s) ELSE Ends(e \o r, s) = {}
    BY <1>6, <1>7, <1>8, EndsConcat
  <2>4. /\ \A t : t # s /\ Ends(out, t) = {} => Ends(u, t) = {}
        /\ \A t : t # s /\ Once(out, t) => Once(u, t)
        /\ Ends(out, s) = {} => IF NeedsEof(s, y) THEN Once(u, s) ELSE Ends(u, s) = {}
    BY <1>0, <2>2, <2>3, EndsConcat
  <2> HIDE DEF u
  <2>5. nWriters # 0 /\ "END_REQUEST" # s
    BY <1>0, <1>1 DEF Closes, Writers
  <2>6. Ends(u, "END_REQUEST") = {} /\ (setTo # -1 => appStatus = setTo)
    BY <2>1, <2>4, <2>5 DEF Data, Endings
  <2>7. Ends(out, s) = {}
    BY <1>0, <1>1, <2>1 DEF Data, Endings, Writers
  <2>8. IF w'["STDOUT"].raw THEN Once(u, "STDOUT") ELSE Ends(u, "STDOUT") = {}
    <3>1. CASE s = "STDOUT"
      BY <1>2, <1>3, <2>4, <2>7, <3>1 DEF NeedsEof
    <3>2. CASE s # "STDOUT"
      BY <1>3, <2>1, <2>4, <3>2 DEF Data, Endings, Writers
    <3> QED BY <3>1, <3>2
  <2>9. IF w'["STDERR"].raw /\ put["STDERR"] > 0 THEN Once(u, "STDERR") ELSE Ends(u, "STDERR") = {}
    <3>1. CASE s = "STDERR"
      <4>1. put["STDERR"] > 0 <=> w["STDERR"].any \/ w["STDERR"].buf # <<>>
        BY <1>1, <3>1 DEF Data, Endings
      <4>2. NeedsEof(s, y) <=> put["STDERR"] > 0
        BY <1>2, <1>4, <1>7, <3>1, <4>1 DEF NeedsEof
      <4> QED BY <1>2, <1>3, <2>4, <2>7, <3>1, <4>2
    <3>2. CASE s # "STDERR"
      BY <1>3, <2>1, <2>4, <3>2 DEF Data, Endings, Writers
    <3> QED BY <3>1, <3>2
  <2>10. ~w'["STDERR"].raw => (put["STDERR"] > 0 <=> w'["STDERR"].any \/ w'["STDERR"].buf # <<>>)
    <3>1. CASE s = "STDERR"
      BY <1>2, <1>3, <3>1
    <3>2. CASE s # "STDERR"
      BY <1>3, <3>2 DEF Data, Endings, Writers
    <3> QED BY <3>1, <3>2
  <2> QED BY <2>1, <2>5, <2>6, <2>8, <2>9, <2>10 DEF Endings
<1> QED BY <1>10, <1>11, <1>12, <1>13 DEF Data

(* The writer s, which is being closed, moves units of its own from the     *)
(* call to its buffer and to the connection: all together stays the same.   *)
LEMMA DataClosingStep ==
    ASSUME Control, Control', Data, Intact, Clean, NEW s \in Writers, NEW b \in Seq(Units), NEW y \in Streams,
           Closing(s), call'.s = s, call'.then \in {"end", "empty", "closed"},
           \/ y.buf = b /\ out' = out
           \/ y.buf = <<>> /\ out' = out \o b,
           call'.then = "closed" => y.buf = <<>>,
           (out \o Pending)' = out \o Pending,
           \A i \in 1..Len(b) : b[i].u = "byte" => b[i].s = s,
           \E m \in 0..put[s] : Carries(out, s, 0, m) /\ Carries(b, s, m, put[s]),
           w' = [w EXCEPT ![s] = y], y.raw, ~y.closed,
           UNCHANGED <<nWriters, appStatus, dead, put, setTo>>
    PROVE  Buffers' /\ BytesInOrder' /\ Endings'
<1>0. /\ TypeOK /\ Closes /\ out \in Seq(Units) /\ put \in [Writers -> 0..MaxPut] /\ MaxPut \in Nat
      /\ w[s].raw
  BY OutputAssumption DEF Control, TypeOK, Closes
<1>1. w'[s] = y /\ \A t \in Writers : t # s => w'[t] = w[t]
  BY <1>0 DEF TypeOK
<1>2. \A t \in Writers : t # s => ~Closing(t) /\ ~Closing(t)'
  BY DEF Closing
<1>3. Buffers'
  <2>1. \A t \in Writers : t # s => w'[t] = w[t] /\ ~Closing(t) /\ ~Closing(t)'
    BY <1>1, <1>2
  <2>2. \A i \in 1..Len(y.buf) : y.buf[i].u = "byte" => y.buf[i].s = s
    BY NoUnits
  <2>3. call'.then # "closed" => Closing(s)'
    BY DEF Closing
  <2>4. ASSUME NEW t \in Writers
        PROVE  /\ w'[t].closed => w'[t].fclosed
               /\ ~w'[t].raw => \A i \in 1..Len(w'[t].buf) : w'[t].buf[i].u = "byte" /\ w'[t].buf[i].s = t
               /\ w'[t].raw => \A i \in 1..Len(w'[t].buf) : w'[t].buf[i].u = "byte" => w'[t].buf[i].s = t
               /\ w'[t].raw /\ ~Closing(t)' => w'[t].buf = <<>>
    <3>1. CASE t = s
      BY <1>1, <2>2, <2>3, <3>1
    <3>2. CASE t # s
      BY <2>1, <3>2 DEF Data, Buffers
    <3> QED BY <3>1, <3>2
  <2> QED BY <2>4 DEF Buffers
<1>4. BytesInOrder'
  <2>1. ASSUME NEW t \in Writers
        PROVE  \E k \in 0..put[t] : Carries(out', t, 0, k) /\ Carries(w'[t].buf, t, k, put[t])
    <3>0. put[t] \in Nat /\ put[s] \in Nat
      BY <1>0
    <3>1. CASE t = s
      <4>1. PICK m \in 0..put[s] : Carries(out, s, 0, m) /\ Carries(b, s, m, put[s])
        OBVIOUS
      <4>2. CASE y.buf = b /\ out' = out
        BY <1>1, <3>1, <4>1, <4>2
      <4>3. CASE y.buf = <<>> /\ out' = out \o b
        <5>1. m \in Nat /\ m <= put[s] /\ put[s] \in 0..put[s]
          BY <3>0
        <5>2. Carries(out \o b, s, 0, put[s])
          BY <1>0, <3>0, <4>1, <5>1, CarriesConcat
        <5>3. Carries(y.buf, s, put[s], put[s])
          BY <3>0, <4>3, NoUnits
        <5> QED BY <1>1, <3>1, <4>3, <5>1, <5>2, <5>3
      <4> QED BY <4>2, <4>3
    <3>2. CASE t # s
      <4>1. PICK k \in 0..put[t] : Carries(out, t, 0, k) /\ Carries(w[t].buf, t, k, put[t])
        BY DEF Data, BytesInOrder
      <4>2. Carries(b, t, k, k) /\ k \in Nat
        <5>1. \A i \in 1..Len(b) : ~(b[i].u = "byte" /\ b[i].s = t)
          BY <3>2
        <5> QED BY <3>0, <5>1, CarriesNothing
      <4>3. Carries(out \o b, t, 0, k)
        BY <1>0, <4>1, <4>2, CarriesConcat
      <4>4. Carries(out', t, 0, k)
        BY <4>1, <4>3
      <4> QED BY <1>1, <3>2, <4>1, <4>4
    <3> QED BY <3>1, <3>2
  <2> QED BY <2>1 DEF BytesInOrder
<1>5. Endings'
  <2>1. \A t \in Writers : w'[t].raw <=> w[t].raw
    BY <1>0, <1>1
  <2>2. "STDOUT" \in Writers /\ "STDERR" \in Writers
    BY DEF Writers
  <2>3. ~w'["STDERR"].raw => w'["STDERR"] = w["STDERR"]
    BY <1>1, <2>2
  <2> QED BY <2>1, <2>2, <2>3 DEF Data, Endings
<1> QED BY <1>3, <1>4, <1>5

(* The closing records: moved into the buffer, with what was there written  *)
(* before when they do not fit.                                             *)
LEMMA DataPutClosing ==
    ASSUME Control, Control', Data, Intact, Clean, PutTurn, call.then # "return"
    PROVE  Data'
<1> DEFINE s == call.s
<1>0. /\ TypeOK /\ TypeOK' /\ Closes /\ UNCHANGED <<nWriters, appStatus, dead, setTo, served>> /\ call \in Calling
      /\ put \in [Writers -> 0..MaxPut] /\ w \in [Writers -> Streams] /\ call.rest \in Seq(Units) /\ call.rest # <<>>
      /\ out \in Seq(Units) /\ MaxPut \in Nat /\ HeaderLen \in Nat \ {0}
  BY OutputAssumption DEF Control, PutTurn, TypeOK, Calling
<1>1. call.then \in {"end", "empty"}
  BY <1>0 DEF Calling, Closes, NoCall
<1>2. PICK n \in 0..Len(call.rest), moved \in Seq(Units), rest \in Seq(Units), x \in Streams, y \in Streams :
             Turn(n, moved, rest, x, y)
  BY PutTurnEffect
<1>3. s \in Writers /\ Closing(s) /\ w[s].raw /\ ~w[s].fclosed /\ ~w[s].closed
  <2>1. s \in Writers /\ Closing(s) /\ w[s].raw /\ ~w[s].fclosed
    BY <1>0, <1>1 DEF Closes, Closing
  <2> QED BY <2>1 DEF Data, Buffers
<1>4. /\ call.rest = moved \o rest /\ Len(moved) = n /\ Len(rest) = Len(call.rest) - n
      /\ \A i \in 1..n : moved[i] = call.rest[i]
      /\ \A i \in 1..Len(rest) : rest[i] = call.rest[n + i]
      /\ n = Least(Len(call.rest), Room(s, w[s]))
      /\ x.buf = w[s].buf \o moved /\ x.raw /\ ~x.closed /\ y.raw
      /\ put' = [put EXCEPT ![s] = @ + 0]
      /\ w' = [w EXCEPT ![s] = y]
      /\ \/ rest = <<>> /\ y = x /\ out' = out /\ call' = [call EXCEPT !.rest = <<>>]
         \/ /\ rest # <<>> /\ call' = [call EXCEPT !.rest = rest]
            /\ out' = out \o Encapsulated(s, x) /\ y.buf = <<>> /\ y.closed = x.closed
  BY <1>2, <1>3 DEF Turn
<1>5. Encapsulated(s, x) = x.buf /\ x.buf \in Seq(Units) /\ w[s].buf \in Seq(Units) /\ Len(w[s].buf) \in Nat
  <2>1. x.buf \in Seq(Units) /\ w[s].buf \in Seq(Units)
    BY <1>0, <1>3 DEF Streams
  <2> QED BY <1>3, <1>4, <2>1, EncapsulatedRaw, SMTT(30)
<1>6. put' = put /\ w'[s] = y
  BY <1>0, <1>3, <1>4
<1>7. call'.s = s /\ call'.then = call.then /\ (call'.rest = <<>> \/ call'.rest = rest)
  BY <1>0, <1>4 DEF Calling
<1>8. \A i \in 1..Len(call.rest) : call.rest[i].u # "byte"
  <2>1. CASE call.then = "end"
    <3>1. call.rest = MakeHeader(s, 0, 0)
      BY <1>0, <2>1 DEF Data, Records
    <3> QED BY <1>3, <3>1, EofRecord
  <2>2. CASE call.then = "empty"
    BY <2>2 DEF Data, Records
  <2> QED BY <1>1, <2>1, <2>2
<1>9. /\ \A i \in 1..Len(moved) : moved[i].u # "byte"
      /\ \A i \in 1..Len(rest) : rest[i].u # "byte"
  <2>0. Len(call.rest) \in Nat
    BY <1>0
  <2>1. (\A i \in 1..n : i \in 1..Len(call.rest)) /\ \A i \in 1..Len(rest) : n + i \in 1..Len(call.rest)
    BY <1>4, <2>0
  <2>2. ASSUME NEW i \in 1..Len(moved) PROVE moved[i].u # "byte"
    BY <1>4, <1>8, <2>1, ZenonT(40)
  <2>3. ASSUME NEW i \in 1..Len(rest) PROVE rest[i].u # "byte"
    BY <1>4, <1>8, <2>1, ZenonT(40)
  <2> QED BY <2>2, <2>3
<1>10. \A i \in 1..Len(x.buf) : x.buf[i].u = "byte" => x.buf[i].s = s
  <2> DEFINE a == w[s].buf
             c == a \o moved
  <2>1. \A i \in 1..Len(a) : a[i].u = "byte" => a[i].s = s
    BY <1>3 DEF Data, Buffers
  <2>2. /\ \A i \in 1..Len(a) : i \in 1..Len(c) /\ c[i] = a[i]
        /\ \A i \in 1..Len(moved) : Len(a) + i \in 1..Len(c) /\ c[Len(a) + i] = moved[i]
        /\ \A i \in 1..Len(c) : i \in 1..Len(a) \/ \E k \in 1..Len(moved) : i = Len(a) + k
    BY <1>5, ConcatAt
  <2>3. x.buf = c
    BY <1>4
  <2> HIDE DEF a, c
  <2>4. ASSUME NEW i \in 1..Len(c) PROVE c[i].u = "byte" => c[i].s = s
    <3>1. CASE i \in 1..Len(a)
      BY <2>1, <2>2, <3>1
    <3>2. ASSUME NEW k \in 1..Len(moved), i = Len(a) + k PROVE c[i].u # "byte"
      BY <1>9, <2>2, <3>2
    <3> QED BY <2>2, <3>1, <3>2
  <2> QED BY <2>3, <2>4
<1>11. PICK m \in 0..put[s] : Carries(out, s, 0, m) /\ Carries(x.buf, s, m, put[s])
  <2>1. PICK m \in 0..put[s] : Carries(out, s, 0, m) /\ Carries(w[s].buf, s, m, put[s])
    BY <1>3 DEF Data, BytesInOrder
  <2>2. put[s] \in Nat /\ m \in Nat /\ m <= put[s]
    BY <1>0, <1>3
  <2>3. Carries(moved, s, put[s], put[s])
    BY <1>9, <2>2, CarriesNothing
  <2>4. Carries(w[s].buf \o moved, s, m, put[s])
    BY <1>5, <2>1, <2>2, <2>3, CarriesConcat
  <2> QED BY <1>4, <2>1, <2>4
<1>12. (out \o Pending)' = out \o Pending
  <2>0. Pending = w[s].buf \o call.rest /\ Pending' = y.buf \o call'.rest
    BY <1>1, <1>6, <1>7 DEF Pending
  <2>1. Pending = x.buf \o rest
    <3>1. (w[s].buf \o moved) \o rest = w[s].buf \o (moved \o rest)
      BY <1>5, UnitsAssociative
    <3>2. call.rest = moved \o rest /\ x.buf = w[s].buf \o moved
      BY <1>4
    <3> QED BY <2>0, <3>1, <3>2
  <2>2. CASE rest = <<>> /\ y = x /\ out' = out
    BY <1>7, <2>0, <2>1, <2>2
  <2>3. CASE call' = [call EXCEPT !.rest = rest] /\ out' = out \o x.buf /\ y.buf = <<>>
    <3>1. call'.rest = rest
      BY <1>0, <2>3 DEF Calling
    <3>2. <<>> \o rest = rest
      BY ConcatEmptySeq
    <3>3. out \o (x.buf \o rest) = (out \o x.buf) \o rest
      BY <1>0, <1>5, UnitsAssociative, ZenonT(40)
    <3> QED BY <2>0, <2>1, <2>3, <3>1, <3>2, <3>3
  <2> QED BY <1>4, <1>5, <2>2, <2>3
<1>13. Buffers' /\ BytesInOrder' /\ Endings'
  <2>1. \/ y.buf = x.buf /\ out' = out
        \/ y.buf = <<>> /\ out' = out \o x.buf
    BY <1>4, <1>5
  <2>2. ~y.closed
    BY <1>4
  <2>3. \E k \in 0..put[s] : Carries(out, s, 0, k) /\ Carries(x.buf, s, k, put[s])
    BY <1>11
  <2>4. call'.s = s /\ call'.then \in {"end", "empty", "closed"} /\ call'.then # "closed"
    BY <1>1, <1>7
  <2>5. UNCHANGED <<nWriters, appStatus, dead, put, setTo>>
    BY <1>0, <1>6
  <2> HIDE DEF s
  <2> QED BY <1>3, <1>4, <1>5, <1>10, <1>12, <2>1, <2>2, <2>3, <2>4, <2>5, DataClosingStep
<1>14. Records'
  <2>1. CASE call.then = "empty"
    <3>1. Whole(out \o Pending)
      BY <2>1 DEF Data, Records
    <3>2. \A i \in 1..Len(call'.rest) : call'.rest[i].u # "byte"
      BY <1>7, <1>9, NoUnits
    <3> QED BY <1>7, <1>12, <2>1, <3>1, <3>2 DEF Records
  <2>2. CASE call.then = "end"
    <3>1. call.rest = MakeHeader(s, 0, 0)
      BY <1>0, <2>2 DEF Data, Records
    <3>2. /\ Len(call.rest) = HeaderLen /\ Whole(call.rest)
      BY <1>3, <3>1, EofRecord
    <3>3. /\ Whole(out) /\ Whole(w[s].buf) /\ Mult(Len(w[s].buf))
      BY <1>5, <2>2, MultMod DEF Data, Records
    <3>4. Room(s, w[s]) = Stop(s) - Len(w[s].buf) /\ Len(w[s].buf) <= Stop(s) /\ Stop(s) \in Nat
      <4>1. Stop(s) \in Nat /\ Used(w[s]) <= Stop(s)
        BY <1>0, <1>3, CallTypes
      <4>2. Used(w[s]) = Len(w[s].buf)
        BY <1>3, <1>5 DEF Used
      <4> QED BY <1>3, <4>1, <4>2 DEF Room
    <3>5. Mult(Room(s, w[s])) /\ Room(s, w[s]) \in Nat
      <4>1. Mult(Stop(s) - Len(w[s].buf))
        BY <1>3, <3>3, <3>4, StopProps, MultSub
      <4> QED BY <1>5, <3>4, <4>1
    <3>6. CASE Room(s, w[s]) = 0
      <4>1. n = 0 /\ moved = <<>>
        BY <1>0, <1>4, <3>2, <3>6, EmptySeq DEF Least
      <4>2. rest = call.rest /\ x.buf = w[s].buf
        BY <1>4, <1>5, <4>1, ConcatEmptySeq
      <4>3. out' = out \o w[s].buf /\ y.buf = <<>> /\ call' = [call EXCEPT !.rest = rest]
        BY <1>0, <1>4, <1>5, <4>2
      <4>4. call'.rest = call.rest
        BY <1>0, <4>2, <4>3 DEF Calling
      <4>5. Whole(out')
        BY <1>0, <1>5, <3>3, <4>3, WholeConcat
      <4>6. Whole(y.buf) /\ Len(y.buf) % HeaderLen = 0
        BY <4>3, NoUnits, MultZero, MultMod
      <4> QED BY <1>6, <1>7, <2>2, <3>1, <4>4, <4>5, <4>6 DEF Records
    <3>7. CASE Room(s, w[s]) # 0
      <4>1. HeaderLen <= Room(s, w[s])
        BY <3>5, <3>7, MultPositive
      <4>2. n = HeaderLen
        BY <1>0, <1>4, <3>2, <3>5, <4>1 DEF Least
      <4>3. rest = <<>>
        <5>1. Len(rest) = 0
          BY <1>0, <1>4, <3>2, <4>2
        <5> QED BY <5>1, EmptySeq
      <4>4. moved = call.rest /\ y = x /\ out' = out /\ call' = [call EXCEPT !.rest = <<>>]
        BY <1>4, <4>3, ConcatEmptySeq
      <4>5. call'.rest = <<>>
        BY <1>0, <4>4 DEF Calling
      <4>6. y.buf = w[s].buf \o call.rest
        BY <1>4, <4>4
      <4>7. Whole(y.buf)
        BY <1>0, <1>5, <3>2, <3>3, <4>6, WholeConcat
      <4>8. Len(y.buf) % HeaderLen = 0
        <5>1. Len(y.buf) = Len(w[s].buf) + HeaderLen
          BY <1>0, <1>5, <3>2, <4>6, ConcatProperties, ZenonT(40)
        <5>2. Mult(Len(w[s].buf) + HeaderLen)
          BY <3>3, MultZero, MultAdd
        <5>3. Len(w[s].buf) + HeaderLen \in Nat
          BY <1>0, <1>5
        <5> QED BY <5>1, <5>2, <5>3, MultMod
      <4> QED BY <1>6, <1>7, <2>2, <3>3, <4>4, <4>5, <4>7, <4>8 DEF Records
    <3> QED BY <3>6, <3>7
  <2> QED BY <1>1, <2>1, <2>2
<1> QED BY <1>13, <1>14 DEF Data

(* The last writer ends the request.                                        *)
LEMMA DataWriteEndRequest == ASSUME Control, Control', Data, Intact, WriteEndRequest PROVE Data'
<1> DEFINE s == call.s
           b == w[s].buf
           r == IF IsLastWriter THEN EndRequest(appStatus) ELSE <<>>
           u == out \o b
<1>0. /\ TypeOK /\ Closes /\ call.then = "end" /\ call.rest = <<>> /\ call \in Calling
      /\ call' = [call EXCEPT !.rest = r, !.then = "empty"]
      /\ nWriters' = nWriters - 1 /\ UNCHANGED <<w, appStatus, out, dead, torn, put, setTo, served>>
      /\ out \in Seq(Units) /\ appStatus \in Statuses \cup {0} /\ nWriters \in 0..2
  BY DEF Control, WriteEndRequest, TypeOK, Calling
<1>1. s \in Writers /\ Closing(s) /\ w[s].raw /\ b \in Seq(Units)
  BY <1>0 DEF Closes, Closing, TypeOK, Streams
<1>2. nWriters # 0
  BY <1>0 DEF Closes
<1>3. /\ r \in Seq(Units) /\ Whole(r) /\ \A i \in 1..Len(r) : r[i].u # "byte"
      /\ \A t \in Writers : Ends(r, t) = {}
  BY <1>0, EndRequestRecord, NoUnits
<1>4. call'.s = s /\ call'.then = "empty" /\ call'.rest = r
  BY <1>0 DEF Calling
<1>5. Pending = b /\ Pending' = b \o r
  <2>1. b \o <<>> = b
    BY <1>1, ConcatEmptySeq
  <2> QED BY <1>0, <1>4, <2>1 DEF Pending
<1>6. u \in Seq(Units) /\ out \o Pending = u /\ (out \o Pending)' = u \o r
  <2>1. u \in Seq(Units)
    BY <1>0, <1>1, ConcatProperties
  <2>2. (out \o b) \o r = out \o (b \o r)
    BY <1>0, <1>1, <1>3, UnitsAssociative
  <2> QED BY <1>0, <1>5, <2>1, <2>2
<1>7. \A t \in Writers : Closing(t)' <=> Closing(t)
  BY <1>0, <1>4 DEF Closing
<1>8. Buffers'
  BY <1>0, <1>7 DEF Data, Buffers
<1>9. Records'
  <2>1. Whole(out) /\ Whole(b)
    BY <1>0 DEF Data, Records
  <2>2. Whole(u)
    BY <1>0, <1>1, <2>1, WholeConcat
  <2>3. Whole(u \o r)
    BY <1>3, <1>6, <2>2, WholeConcat
  <2> HIDE DEF r, u
  <2> QED BY <1>3, <1>4, <1>6, <2>3 DEF Records
<1>10. BytesInOrder'
  BY <1>0 DEF Data, BytesInOrder
<1>11. Endings'
  <2>1. /\ \A t \in Writers : Ends(u, t) = {} => Ends(u \o r, t) = {}
        /\ \A t \in Writers : Once(u, t) => Once(u \o r, t)
    BY <1>3, <1>6, EndsConcat
  <2>2. /\ IF w["STDOUT"].raw THEN Once(u, "STDOUT") ELSE Ends(u, "STDOUT") = {}
        /\ IF w["STDERR"].raw /\ put["STDERR"] > 0 THEN Once(u, "STDERR") ELSE Ends(u, "STDERR") = {}
        /\ ~w["STDERR"].raw => (put["STDERR"] > 0 <=> w["STDERR"].any \/ w["STDERR"].buf # <<>>)
        /\ Ends(u, "END_REQUEST") = {} /\ (setTo # -1 => appStatus = setTo)
    BY <1>2, <1>6 DEF Data, Endings
  <2>3. /\ IF w["STDOUT"].raw THEN Once(u \o r, "STDOUT") ELSE Ends(u \o r, "STDOUT") = {}
        /\ IF w["STDERR"].raw /\ put["STDERR"] > 0 THEN Once(u \o r, "STDERR") ELSE Ends(u \o r, "STDERR") = {}
    BY <2>1, <2>2 DEF Writers
  <2>4. CASE IsLastWriter
    <3> DEFINE q == EndRequest(appStatus)
    <3>1. r = q /\ nWriters' = 0
      BY <1>0, <2>4 DEF IsLastWriter
    <3>2. /\ q \in Seq(Units) /\ Len(q) = HeaderLen + HeaderLen /\ q[Len(q)].n = appStatus
          /\ Heads(q) = {1} /\ Ends(q, "END_REQUEST") = {1}
      BY <1>0, EndRequestRecord
    <3> HIDE DEF q, u
    <3>3. /\ \A i : i \in Heads(u \o q) <=> i \in Heads(u) \/ \E k \in Heads(q) : i = Len(u) + k
          /\ \A i : i \in Ends(u \o q, "END_REQUEST")
                     <=> i \in Ends(u, "END_REQUEST") \/ \E k \in Ends(q, "END_REQUEST") : i = Len(u) + k
      <4>1. PICK c : c = "END_REQUEST"
        OBVIOUS
      <4>2. /\ \A i : i \in Heads(u \o q) <=> i \in Heads(u) \/ \E k \in Heads(q) : i = Len(u) + k
            /\ \A i : i \in Ends(u \o q, c) <=> i \in Ends(u, c) \/ \E k \in Ends(q, c) : i = Len(u) + k
        <5>1. u \in Seq(Units) /\ q \in Seq(Units)
          BY <1>6, <3>2
        <5> QED BY <5>1, EndsConcat
      <4> QED BY <4>1, <4>2
    <3>4. Ends(u \o q, "END_REQUEST") = {Len(u) + 1} /\ Len(u) + 1 \in Heads(u \o q)
      BY <2>2, <3>2, <3>3
    <3>5. ASSUME NEW j \in Heads(u \o q) PROVE j <= Len(u) + 1
      <4>1. Len(u) \in Nat /\ \A i \in Heads(u) : i \in 1..Len(u)
        BY <1>6 DEF Heads
      <4>2. j \in Heads(u) \/ j = Len(u) + 1
        BY <3>2, <3>3
      <4> QED BY <4>1, <4>2
    <3>6. (u \o q)[Len(u \o q)] = q[Len(q)]
      <4>1. Len(q) \in 1..Len(q)
        BY <3>2, OutputAssumption
      <4>2. /\ Len(u \o q) = Len(u) + Len(q)
            /\ \A i \in 1..Len(q) : Len(u) + i \in 1..Len(u \o q) /\ (u \o q)[Len(u) + i] = q[i]
        BY <1>6, <3>2, ConcatAt
      <4> QED BY <4>1, <4>2
    <3>7. /\ \E i \in Heads(u \o q) : Ends(u \o q, "END_REQUEST") = {i} /\ \A j \in Heads(u \o q) : j <= i
          /\ setTo # -1 => (u \o q)[Len(u \o q)].n = setTo
      BY <2>2, <3>2, <3>4, <3>5, <3>6
    <3> QED BY <1>0, <1>6, <2>2, <2>3, <3>1, <3>7 DEF Endings
  <2>5. CASE ~IsLastWriter
    <3>1. r = <<>> /\ nWriters' # 0 /\ u \o <<>> = u
      BY <1>0, <1>2, <1>6, <2>5, ConcatEmptySeq DEF IsLastWriter
    <3> HIDE DEF u, r
    <3> QED BY <1>0, <1>6, <2>2, <2>3, <3>1 DEF Endings
  <2> QED BY <2>4, <2>5
<1> QED BY <1>8, <1>9, <1>10, <1>11 DEF Data

LEMMA DataCloseWrites == ASSUME Control, Control', Data, Intact, Clean, CloseWrites PROVE Data'
<1> DEFINE s == call.s
<1>0. /\ TypeOK /\ Closes /\ call.then = "empty" /\ call.rest = <<>> /\ call \in Calling
      /\ UNCHANGED <<nWriters, appStatus, dead, put, setTo, served>> /\ out \in Seq(Units)
  BY DEF Control, CloseWrites, TypeOK, Calling
<1>1. /\ s \in Writers /\ w[s] \in Streams /\ w[s].raw /\ ~w[s].fclosed
      /\ out' \in Seq(Units) /\ out' = out \o w[s].buf /\ call' = [call EXCEPT !.then = "closed"]
  BY CloseWritesEffect
<1>2. PICK y \in Streams : w' = [w EXCEPT ![s] = y] /\ y.raw /\ y.buf = <<>> /\ y.closed = w[s].closed
  BY CloseWritesEffect
<1>3. call'.s = s /\ call'.then = "closed"
  BY <1>0, <1>1 DEF Calling
<1>4. Closing(s) /\ ~y.closed /\ w[s].buf \in Seq(Units)
  BY <1>0, <1>1, <1>2 DEF Closing, Data, Buffers, Streams
<1>5. (out \o Pending)' = out' /\ out \o Pending = out'
  <2>1. w[s].buf \o <<>> = w[s].buf /\ out' \o <<>> = out'
    BY <1>1, <1>4, ConcatEmptySeq
  <2>2. Pending = w[s].buf /\ Pending' = <<>>
    BY <1>0, <1>3, <2>1 DEF Pending
  <2> QED BY <1>1, <2>1, <2>2
<1>6. \A i \in 1..Len(w[s].buf) : w[s].buf[i].u = "byte" => w[s].buf[i].s = s
  BY <1>1 DEF Data, Buffers
<1>7. \E m \in 0..put[s] : Carries(out, s, 0, m) /\ Carries(w[s].buf, s, m, put[s])
  BY <1>1 DEF Data, BytesInOrder
<1>8. Records'
  <2>1. Whole(out')
    BY <1>0, <1>5 DEF Data, Records
  <2> QED BY <1>3, <2>1 DEF Records
<1>9. Buffers' /\ BytesInOrder' /\ Endings'
  <2>1. call'.then \in {"end", "empty", "closed"} /\ (out \o Pending)' = out \o Pending
    BY <1>3, <1>5
  <2> HIDE DEF s
  <2> QED BY <1>0, <1>1, <1>2, <1>3, <1>4, <1>6, <1>7, <2>1, DataClosingStep
<1> QED BY <1>8, <1>9 DEF Data

LEMMA DataClosed == ASSUME Control, Control', Data, Intact, Closed PROVE Data'
<1> DEFINE s == call.s
<1>0. /\ TypeOK /\ TypeOK' /\ Closes /\ call.then = "closed"
      /\ UNCHANGED <<nWriters, appStatus, out, dead, torn, put, setTo, served>>
  BY DEF Control, Closed
<1>1. s \in Writers /\ w[s] \in Streams /\ w[s].raw
  BY <1>0 DEF Closes, TypeOK
<1>2. CASE w[s].fclosed /\ call.after = "out"
  <2>1. StartClose("STDOUT", "free") /\ MayClose("STDOUT", "free")
    BY <1>0, <1>2, ClosedMayClose DEF Closed
  <2>2. CASE w["STDOUT"].fclosed
    BY <1>0, <2>1, <2>2, DataClosedAgain
  <2>3. CASE ~w["STDOUT"].fclosed
    BY <1>0, <2>1, <2>3, DataStartClose
  <2> QED BY <2>2, <2>3
<1>3. CASE w[s].fclosed /\ call.after # "out"
  <2>1. w' = w /\ call'.then \in {"free", "none"}
    BY <1>3 DEF Closed, NoCall
  <2>2. \A t \in Writers : Intact => (w[t].closed => w[t].fclosed)
    BY DEF Data, Buffers
  <2> QED BY <1>0, <2>1, <2>2, DataFrame
<1>4. CASE ~w[s].fclosed
  <2> DEFINE y == [w[s] EXCEPT !.fclosed = TRUE, !.closed = TRUE]
  <2>1. w' = [w EXCEPT ![s] = y] /\ call' = call
    <3>1. w' = [w EXCEPT ![s].fclosed = TRUE, ![s].closed = TRUE] /\ call' = call
      BY <1>4 DEF Closed
    <3>2. w \in [Writers -> Streams]
      BY <1>0 DEF TypeOK
    <3> QED BY <1>1, <3>1, <3>2
  <2>2. y.fclosed /\ y.raw = w[s].raw /\ y.buf = w[s].buf /\ y.any = w[s].any
    BY <1>1, Zenon DEF Streams
  <2> HIDE DEF y
  <2>3. w'[s] = y /\ \A t \in Writers : t # s => w'[t] = w[t]
    BY <1>0, <1>1, <2>1 DEF TypeOK
  <2>4. ASSUME NEW t \in Writers
        PROVE  /\ w'[t].buf = w[t].buf /\ w'[t].raw = w[t].raw /\ w'[t].any = w[t].any
               /\ Intact => (w'[t].closed => w'[t].fclosed)
    <3>1. CASE t = s
      BY <2>2, <2>3, <3>1
    <3>2. CASE t # s
      BY <2>3, <3>2 DEF Data, Buffers
    <3> QED BY <3>1, <3>2
  <2> QED BY <1>0, <2>1, <2>4, DataFrame
<1> QED BY <1>2, <1>3, <1>4

LEMMA DataClearError == ASSUME Control, Control', Data, NEW s \in Writers, FCGX_ClearError(s) PROVE Data'
<1> DEFINE y == [w[s] EXCEPT !.errno = "0"]
<1>0. /\ TypeOK /\ TypeOK' /\ call = NoCall /\ w[s] \in Streams /\ call.then = "none"
      /\ UNCHANGED <<nWriters, appStatus, call, out, dead, torn, put, setTo, served>>
  BY DEF Control, FCGX_ClearError, Idle, TypeOK, NoCall
<1>1. w' = [w EXCEPT ![s] = y]
  BY DEF FCGX_ClearError
<1>2. y.fclosed = w[s].fclosed /\ y.closed = w[s].closed /\ y.raw = w[s].raw /\ y.buf = w[s].buf /\ y.any = w[s].any
  BY <1>0 DEF Streams
<1> HIDE DEF y
<1>3. w'[s] = y /\ \A t \in Writers : t # s => w'[t] = w[t]
  BY <1>0, <1>1 DEF TypeOK
<1>4. ASSUME NEW t \in Writers
      PROVE  /\ w'[t].buf = w[t].buf /\ w'[t].raw = w[t].raw /\ w'[t].any = w[t].any
             /\ Intact => (w'[t].closed => w'[t].fclosed)
  <2>1. CASE t = s
    BY <1>2, <1>3, <2>1 DEF Data, Buffers
  <2>2. CASE t # s
    BY <1>3, <2>2 DEF Data, Buffers
  <2> QED BY <2>1, <2>2
<1>5. Intact' => Intact
  BY <1>0 DEF Intact
<1> QED BY <1>0, <1>4, <1>5, DataFrame

LEMMA DataPutStr == ASSUME Control, Control', Data, NEW s \in Writers, NEW n, FCGX_PutStr(s, n) PROVE Data'
<1>0. /\ TypeOK /\ TypeOK' /\ call.then = "none" /\ call'.then = "return"
      /\ UNCHANGED <<w, nWriters, appStatus, out, dead, torn, put, setTo, served>>
  BY DEF Control, FCGX_PutStr, Idle, NoCall
<1>1. \A t \in Writers : Intact => (w[t].closed => w[t].fclosed)
  BY DEF Data, Buffers
<1>2. Intact' => Intact
  BY <1>0 DEF Intact
<1> QED BY <1>0, <1>1, <1>2, DataFrame

LEMMA DataPutReturns == ASSUME Control, Control', Data, PutReturns PROVE Data'
<1>0. /\ TypeOK /\ TypeOK' /\ call.then = "return" /\ call'.then = "none"
      /\ UNCHANGED <<w, nWriters, appStatus, out, dead, torn, put, setTo, served>>
  BY DEF Control, PutReturns, NoCall
<1>1. \A t \in Writers : Intact => (w[t].closed => w[t].fclosed)
  BY DEF Data, Buffers
<1>2. Intact' => Intact
  BY <1>0 DEF Intact
<1> QED BY <1>0, <1>1, <1>2, DataFrame

LEMMA DataSetExitStatus == ASSUME Control, Data, NEW status, FCGX_SetExitStatus(status) PROVE Data'
<1>0. /\ appStatus' = status /\ setTo' = IF nWriters > 0 THEN status ELSE setTo
      /\ UNCHANGED <<w, nWriters, call, out, dead, torn, put, served>> /\ nWriters \in 0..2
  BY DEF Control, FCGX_SetExitStatus, TypeOK
<1>1. Pending' = Pending /\ (Intact' => Intact)
  BY <1>0 DEF Pending, Intact
<1>2. nWriters = 0 \/ nWriters > 0
  BY <1>0
<1>3. Endings'
  <2>1. CASE nWriters = 0
    <3>1. setTo' = setTo
      BY <1>0, <2>1
    <3> QED BY <1>0, <1>1, <2>1, <3>1 DEF Data, Endings
  <2>2. CASE nWriters > 0
    <3>1. setTo' = appStatus' /\ nWriters # 0
      BY <1>0, <2>2
    <3> QED BY <1>0, <1>1, <3>1 DEF Data, Endings
  <2> QED BY <1>2, <2>1, <2>2
<1>4. Buffers' /\ BytesInOrder' /\ Records'
  BY <1>0, <1>1 DEF Data, Buffers, BytesInOrder, Records, Closing
<1> QED BY <1>3, <1>4 DEF Data

(* New writers have nothing in their buffers, and nothing was written.      *)
Fresh ==
    /\ \A s \in Writers : w[s] = NewWriter /\ put[s] = 0
    /\ nWriters = 2 /\ call = NoCall /\ out = <<>> /\ setTo = -1

LEMMA DataNew == Fresh => Data
<1> SUFFICES ASSUME Fresh PROVE Data
  OBVIOUS
<1> USE DEF Fresh
<1>0. call.then = "none" /\ "STDOUT" \in Writers /\ "STDERR" \in Writers
  BY DEF NoCall, Writers
<1>1. Pending = <<>> /\ out \o Pending = <<>>
  BY <1>0, NoUnits, ConcatEmptySeq DEF Pending
<1>2. Buffers
  BY NewWriters, NoUnits DEF Buffers
<1>3. Records
  BY <1>0, NoUnits DEF Records
<1>4. BytesInOrder
  <2>1. 0 \in 0..0 /\ 0 \in Nat
    OBVIOUS
  <2> QED BY <2>1, NewWriters, NoUnits DEF BytesInOrder
<1>5. Endings
  BY <1>0, <1>1, NewWriters, NoUnits DEF Endings
<1> QED BY <1>2, <1>3, <1>4, <1>5 DEF Data

LEMMA DataNewNext == Fresh' => Data'
BY DataNew, PTL

-----------------------------------------------------------------------------
(* The invariant and what follows from it.                                  *)

Inductive == Control /\ Data

LEMMA InitInductive == Init => Inductive
<1> SUFFICES ASSUME Init PROVE Inductive
  OBVIOUS
<1>1. \A s \in Writers : w[s] = NewWriter /\ put[s] = 0
  BY DEF Init
<1>2. Data
  BY <1>1, DataNew DEF Init, Fresh
<1> QED BY <1>2, ControlInit DEF Inductive

(* With a web server that is gone, or a write that was cut, only Control is *)
(* left to show.                                                            *)
LEMMA CutData == ASSUME ~Intact' PROVE Data'
BY DEF Data, Buffers, Records, BytesInOrder, Endings

LEMMA NextInductive == Inductive /\ [Next]_vars => Inductive'
<1> SUFFICES ASSUME Control, Data, [Next]_vars PROVE Control' /\ Data'
  BY DEF Inductive
<1>0. dead \in BOOLEAN /\ torn \in BOOLEAN
  BY DEF Control, TypeOK
<1>1. CASE PutTurn
  <2>1. Control' /\ dead' = dead /\ (torn => torn')
    BY <1>1, ControlPutTurn, TornStays DEF PutTurn
  <2>2. CASE Intact'
    <3>1. Intact /\ Clean
      BY <2>1, <2>2 DEF Intact, Clean
    <3> QED BY <1>1, <2>1, <3>1, DataPutBytes, DataPutClosing
  <2> QED BY <2>1, <2>2, CutData
<1>2. CASE PutReturns
  BY <1>2, ControlPutReturns, DataPutReturns
<1>3. CASE WriteEndRequest
  <2>1. Control' /\ dead' = dead /\ (torn => torn')
    BY <1>3, ControlWriteEndRequest DEF WriteEndRequest
  <2>2. CASE Intact'
    <3>1. Intact /\ Clean
      BY <2>1, <2>2 DEF Intact, Clean
    <3> QED BY <1>3, <2>1, <3>1, DataWriteEndRequest
  <2> QED BY <2>1, <2>2, CutData
<1>4. CASE CloseWrites
  <2>1. Control' /\ dead' = dead /\ (torn => torn')
    BY <1>4, ControlCloseWrites, TornStays DEF CloseWrites
  <2>2. CASE Intact'
    <3>1. Intact /\ Clean
      BY <2>1, <2>2 DEF Intact, Clean
    <3> QED BY <1>4, <2>1, <3>1, DataCloseWrites
  <2> QED BY <2>1, <2>2, CutData
<1>5. CASE Closed
  <2>1. Control' /\ dead' = dead /\ (torn => torn')
    BY <1>5, ControlClosed DEF Closed
  <2>2. CASE Intact'
    <3>1. Intact /\ Clean
      BY <2>1, <2>2 DEF Intact, Clean
    <3> QED BY <1>5, <2>1, <3>1, DataClosed
  <2> QED BY <2>1, <2>2, CutData
<1>6. CASE NextRequest
  <2>1. Control'
    BY <1>6, ControlNextRequest
  <2>2. Data'
    <3>1. /\ \A s \in Writers : w'[s] = NewWriter /\ put'[s] = 0
          /\ nWriters' = 2 /\ call' = NoCall /\ out' = <<>> /\ setTo' = -1
      BY <1>6 DEF NextRequest
    <3> QED BY <3>1, DataNewNext DEF Fresh
  <2> QED BY <2>1, <2>2
<1>7. ASSUME NEW s \in Writers, NEW n \in PutSizes, FCGX_PutStr(s, n) PROVE Control' /\ Data'
  BY <1>7, ControlPutStr, DataPutStr
<1>8. ASSUME NEW s \in Writers, FCGX_FFlush(s) PROVE Control' /\ Data'
  <2>1. Control' /\ dead' = dead /\ (torn => torn')
    BY <1>8, ControlFlush, TornStays DEF FCGX_FFlush
  <2>2. CASE Intact'
    <3>1. Intact /\ Clean
      BY <2>1, <2>2 DEF Intact, Clean
    <3> QED BY <1>8, <2>1, <3>1, DataFlush
  <2> QED BY <2>1, <2>2, CutData
<1>9. ASSUME NEW s \in Writers, NEW after \in {"return", "out"}, after = "out" => s = "STDERR",
             Idle, StartClose(s, after), UNCHANGED <<nWriters, appStatus, out, dead, torn, put, setTo, served>>
      PROVE  Control' /\ Data'
  <2>1. MayClose(s, after)
    BY <1>9, IdleMayClose
  <2>2. Control'
    BY <1>9, <2>1, ControlStartClose
  <2>3. CASE w[s].fclosed
    BY <1>9, <2>1, <2>2, <2>3, DataClosedAgain
  <2>4. CASE ~w[s].fclosed /\ Intact
    BY <1>9, <2>1, <2>2, <2>4, DataStartClose
  <2>5. Intact' => Intact
    BY <1>9 DEF Intact
  <2> QED BY <1>9, <2>2, <2>3, <2>4, <2>5, CutData
<1>10. ASSUME NEW s \in Writers, FCGX_FClose(s) PROVE Control' /\ Data'
  BY <1>9, <1>10 DEF FCGX_FClose
<1>11. CASE FCGX_Finish_r
  BY <1>9, <1>11 DEF FCGX_Finish_r, Writers
<1>12. ASSUME NEW s \in Writers, FCGX_ClearError(s) PROVE Control' /\ Data'
  BY <1>12, ControlClearError, DataClearError
<1>13. ASSUME NEW status \in Statuses, FCGX_SetExitStatus(status) PROVE Control' /\ Data'
  BY <1>13, ControlSetExitStatus, DataSetExitStatus
<1>14. CASE ServerDies
  BY <1>14, ControlServerDies, CutData DEF ServerDies, Intact
<1>15. CASE UNCHANGED vars
  <2>1. UNCHANGED <<w, nWriters, appStatus, call, out, dead, torn, put, setTo, served>>
    BY <1>15 DEF vars
  <2>2. TypeOK'
    BY <2>1 DEF Control, TypeOK, Used, Stop
  <2>3. Closes' /\ Puts'
    BY <2>1 DEF Control, Closes, Puts, Closing
  <2>4. Pending' = Pending /\ (Intact' => Intact)
    BY <2>1 DEF Pending, Intact
  <2>5. Buffers' /\ Records' /\ BytesInOrder'
    BY <2>1, <2>4 DEF Data, Buffers, Records, BytesInOrder, Closing
  <2>6. Endings'
    BY <2>1, <2>4 DEF Data, Endings
  <2> QED BY <2>2, <2>3, <2>5, <2>6 DEF Control, Data
<1> QED BY <1>1, <1>2, <1>3, <1>4, <1>5, <1>6, <1>7, <1>8, <1>10, <1>11, <1>12, <1>13, <1>14, <1>15 DEF Next, Calls

LEMMA AlwaysInductive == Spec => []Inductive
<1>1. Init => Inductive
  BY InitInductive
<1>2. Inductive /\ [Next]_vars => Inductive'
  BY NextInductive
<1> QED BY <1>1, <1>2, PTL DEF Spec

(* Types; and that neither FCGX_PutStr nor FCGX_FClose nor EmptyBuffProc's  *)
(* padding ever takes a buffer beyond its stop, whatever its size and the   *)
(* sizes of what is written, and also on a connection that has failed.      *)
THEOREM OutputTypeCorrect == Spec => []TypeOK
<1>1. Inductive => TypeOK
  BY DEF Inductive, Control
<1> QED BY <1>1, AlwaysInductive, PTL

(* What EmptyBuffProc has written to a web server that is there, without    *)
(* interruption, is between two calls a sequence of whole, aligned records, *)
(* each with bytes of its own stream only.                                  *)
THEOREM RecordsAreWhole == Spec => []WholeRecords
<1>1. Inductive => WholeRecords
  BY DEF Inductive, Data, Records, WholeRecords
<1> QED BY <1>1, AlwaysInductive, PTL

(* As long as no write is interrupted, what each stream took from           *)
(* FCGX_PutStr is written once and in order, or is in its buffer.           *)
THEOREM NoByteLostOrDoubled == Spec => []BytesInOrder
<1>1. Inductive => BytesInOrder
  BY DEF Inductive, Data
<1> QED BY <1>1, AlwaysInductive, PTL

(* If the web server is there and no write is interrupted,                  *)
(* WriteCloseRecords ends the request once and by the last record, after    *)
(* the ends of its streams, whichever writer is closed last, and with the   *)
(* status set last.                                                         *)
THEOREM RequestEndsOnce == Spec => []EndsOnceAndLast
<1>1. ASSUME Inductive, Intact PROVE EndsOnceAndLast
  <2> DEFINE u == out \o Pending
  <2>0. TypeOK /\ Closes /\ out \in Seq(Units) /\ Pending \in Seq(Units)
    <3>1. TypeOK /\ Closes /\ out \in Seq(Units)
      BY <1>1 DEF Inductive, Control, TypeOK
    <3>2. CASE call.then \in {"end", "empty"}
      <4>1. call.s \in Writers /\ call.rest \in Seq(Units)
        BY <3>1, <3>2, CallTypes DEF Closes
      <4>2. w[call.s].buf \in Seq(Units)
        BY <3>1, <4>1, CallTypes
      <4> QED BY <3>1, <3>2, <4>1, <4>2, ConcatProperties DEF Pending
    <3>3. CASE call.then \notin {"end", "empty"}
      BY <3>1, <3>3, NoUnits DEF Pending
    <3> QED BY <3>1, <3>2, <3>3
  <2>1. \A i \in Ends(out, "END_REQUEST"), j \in Heads(out) : j <= i
    <3>1. PICK c : c = "END_REQUEST"
      OBVIOUS
    <3>2. /\ \A i : i \in Heads(out) => i \in Heads(u)
          /\ \A i : i \in Ends(out, c) => i \in Ends(u, c)
      BY <2>0, EndsConcat
    <3>3. \/ Ends(u, c) = {}
          \/ \E i \in Heads(u) : Ends(u, c) = {i} /\ \A j \in Heads(u) : j <= i
      BY <1>1, <3>1 DEF Inductive, Data, Endings
    <3> QED BY <3>1, <3>2, <3>3
  <2>2. ASSUME call.then = "free"
        PROVE  /\ Once(out, "END_REQUEST") /\ Once(out, "STDOUT")
               /\ IF put["STDERR"] > 0 THEN Once(out, "STDERR") ELSE Ends(out, "STDERR") = {}
               /\ setTo # -1 => out[Len(out)].n = setTo
    <3>1. w["STDOUT"].raw /\ w["STDERR"].raw
      BY <2>0, <2>2 DEF Closes, Writers
    <3>2. nWriters = 0
      BY <2>0, <2>2, <3>1 DEF Closes
    <3>3. u = out
      BY <2>0, <2>2, NothingPending
    <3> HIDE DEF u
    <3>4. /\ Once(out, "STDOUT")
          /\ IF put["STDERR"] > 0 THEN Once(out, "STDERR") ELSE Ends(out, "STDERR") = {}
          /\ \E i \in Heads(out) : Ends(out, "END_REQUEST") = {i}
          /\ setTo # -1 => out[Len(out)].n = setTo
      BY <1>1, <3>1, <3>2, <3>3 DEF Inductive, Data, Endings, u
    <3> QED BY <3>4 DEF Once
  <2> QED BY <2>1, <2>2 DEF EndsOnceAndLast
<1>2. Inductive => EndsOnceAndLast
  BY <1>1 DEF EndsOnceAndLast
<1> QED BY <1>2, AlwaysInductive, PTL
=============================================================================
