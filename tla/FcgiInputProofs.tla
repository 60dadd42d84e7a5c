-------------------------- MODULE FcgiInputProofs --------------------------
(***************************************************************************)
(* Proofs about the reading half of the FastCGI library, for every set of   *)
(* requests, every size of header and buffer and every way in which the     *)
(* connection cuts what the web server sends.                               *)
(*                                                                          *)
(* First what FlattenSeq computes, by induction over sets of numbers; then  *)
(* the types (Typed), action by action. The rest is about one equation:     *)
(* what is in the header that is being put together, in the buffer, on the  *)
(* wire and still to be sent is what is left of some record i, and the      *)
(* records after it (At). Everything that was handed over or answered is a  *)
(* function of i and of how much of its content is left (Heard, Replied),   *)
(* as long as no error came up (InStep); what an error leaves is Halted,    *)
(* Straying and Final. Inv says so, and that a connection is kept only when *)
(* nothing is left on it, which is what the next request starts from.       *)
(***************************************************************************)
EXTENDS FcgiInput, SequenceTheorems, WellFoundedInduction, TLAPS

-----------------------------------------------------------------------------
(* Induction, and what FlattenSeq computes.                                 *)

(* A set of natural numbers has a least one.                                *)
LEMMA LeastNumber ==
    ASSUME NEW T, T \subseteq Nat, T # {}
    PROVE  \E x \in T : \A y \in T : x <= y
<1>1. PICK x \in T : \A y \in T : ~(<<y, x>> \in OpToRel(<, Nat))
  BY NatLessThanWellFounded, WFMin
<1>2. \A y \in T : ~(y < x)
  BY <1>1 DEF OpToRel
<1> QED BY <1>2

(* Induction over the natural numbers, with a set in place of a predicate. *)
LEMMA SetInduction ==
    ASSUME NEW S, 0 \in S, \A n \in Nat : n \in S => n + 1 \in S
    PROVE  Nat \subseteq S
<1> SUFFICES ASSUME Nat \ S # {} PROVE FALSE
  OBVIOUS
<1>1. PICK x \in Nat \ S : \A y \in Nat \ S : x <= y
  BY LeastNumber
<1>2. x # 0 /\ x - 1 \in Nat /\ x = (x - 1) + 1
  BY <1>1
<1>3. x - 1 \in S
  BY <1>1, <1>2
<1> QED BY <1>1, <1>2, <1>3

(* f is the running concatenation of the first n of ss.                     *)
Sums(f, ss, n) == \A i \in 1..n : f[i] = IF i = 1 THEN ss[i] ELSE f[i - 1] \o ss[i]

Runs(f, ss, n, S) == f \in [1..n -> Seq(S)] /\ Sums(f, ss, n)

LEMMA RunsStep ==
    ASSUME NEW S, NEW ss, NEW m \in Nat, NEW f, Runs(f, ss, m, S), ss[m + 1] \in Seq(S)
    PROVE  \E g : Runs(g, ss, m + 1, S)
<1> DEFINE v == IF m = 0 THEN ss[1] ELSE f[m] \o ss[m + 1]
           g == [i \in 1..(m + 1) |-> IF i <= m THEN f[i] ELSE v]
<1>1. f \in [1..m -> Seq(S)] /\ (\A i \in 1..m : f[i] = IF i = 1 THEN ss[i] ELSE f[i - 1] \o ss[i])
  BY DEF Runs, Sums
<1>2. v \in Seq(S)
  BY <1>1
<1> HIDE DEF v
<1>3. g \in [1..(m + 1) -> Seq(S)]
  BY <1>1, <1>2
<1>4. ASSUME NEW i \in 1..(m + 1) PROVE g[i] = IF i = 1 THEN ss[i] ELSE g[i - 1] \o ss[i]
  <2>0. i \in 1..m \/ i = m + 1
    OBVIOUS
  <2>1. CASE i \in 1..m
    <3>1. g[i] = f[i] /\ (i # 1 => g[i - 1] = f[i - 1])
      BY <2>1
    <3> QED BY <1>1, <2>1, <3>1, Zenon
  <2>2. CASE i = m + 1
    <3>1. g[i] = v /\ (i # 1 => g[i - 1] = f[m] /\ m # 0)
      BY <2>2
    <3> QED BY <2>2, <3>1 DEF v
  <2> QED BY <2>0, <2>1, <2>2
<1> HIDE DEF g
<1>5. Runs(g, ss, m + 1, S)
  BY <1>3, <1>4 DEF Runs, Sums
<1> QED BY <1>5

LEMMA RunsExist ==
    ASSUME NEW S, NEW ss \in Seq(Seq(S))
    PROVE  \E f : Runs(f, ss, Len(ss), S)
<1> DEFINE T == {m \in Nat : m <= Len(ss) => \E f : Runs(f, ss, m, S)}
<1>1. 0 \in T
  <2>1. Runs([i \in 1..0 |-> <<>>], ss, 0, S)
    BY DEF Runs, Sums
  <2> QED BY <2>1
<1>2. ASSUME NEW m \in Nat, m \in T PROVE m + 1 \in T
  <2> SUFFICES ASSUME m + 1 <= Len(ss) PROVE \E f : Runs(f, ss, m + 1, S)
    OBVIOUS
  <2>1. PICK f : Runs(f, ss, m, S)
    BY <1>2
  <2>2. ss[m + 1] \in Seq(S)
    OBVIOUS
  <2> QED BY <2>1, <2>2, RunsStep
<1> HIDE DEF T
<1>3. Nat \subseteq T
  BY <1>1, <1>2, SetInduction
<1> QED BY <1>3 DEF T

(* There is one such function, whatever comes after the first n.            *)
LEMMA RunsAgree ==
    ASSUME NEW ss, NEW tt, NEW n \in Nat, NEW k \in Nat, n <= k, NEW f, NEW g,
           Sums(f, ss, n), Sums(g, tt, k), \A i \in 1..n : ss[i] = tt[i], n # 0
    PROVE  f[n] = g[n]
<1> DEFINE T == {m \in Nat : m \in 1..n => f[m] = g[m]}
<1>0. /\ \A i \in 1..n : f[i] = IF i = 1 THEN ss[i] ELSE f[i - 1] \o ss[i]
      /\ \A i \in 1..k : g[i] = IF i = 1 THEN tt[i] ELSE g[i - 1] \o tt[i]
  BY DEF Sums
<1>1. 0 \in T
  OBVIOUS
<1>2. ASSUME NEW m \in Nat, m \in T PROVE m + 1 \in T
  <2> SUFFICES ASSUME m + 1 \in 1..n PROVE f[m + 1] = g[m + 1]
    OBVIOUS
  <2>0. m + 1 \in 1..k /\ (m + 1) - 1 = m
    OBVIOUS
  <2>1. CASE m = 0
    <3>1. 1 \in 1..n /\ 1 \in 1..k /\ m + 1 = 1
      BY <2>1
    <3>2. f[1] = ss[1] /\ g[1] = tt[1] /\ ss[1] = tt[1]
      BY <1>0, <3>1
    <3> QED BY <3>1, <3>2
  <2>2. CASE m # 0
    <3>1. f[m] = g[m] /\ m + 1 # 1
      BY <1>2, <2>2
    <3>2. f[m + 1] = f[m] \o ss[m + 1] /\ g[m + 1] = g[m] \o tt[m + 1]
      BY <1>0, <2>0, <3>1
    <3> QED BY <3>1, <3>2
  <2> QED BY <2>1, <2>2
<1> HIDE DEF T
<1>3. Nat \subseteq T
  BY <1>1, <1>2, SetInduction
<1> QED BY <1>3 DEF T

(* What FlattenSeq computes. *)
LEMMA FlattenRuns ==
    ASSUME NEW S, NEW ss \in Seq(Seq(S)), ss # <<>>, NEW f, Runs(f, ss, Len(ss), S)
    PROVE  FlattenSeq(ss) = f[Len(ss)]
<1> DEFINE n == Len(ss)
           Eq(g) == g = [i \in 1..n |-> IF i = 1 THEN ss[i] ELSE g[i - 1] \o ss[i]]
           h == CHOOSE g : Eq(g)
<1>1. n \in Nat /\ n # 0
  OBVIOUS
<1>2. Eq(f)
  BY DEF Runs, Sums
<1>3. Eq(h)
  BY <1>2
<1>4. \A i \in 1..n : h[i] = IF i = 1 THEN ss[i] ELSE h[i - 1] \o ss[i]
  BY <1>3
<1>5. FlattenSeq(ss) = h[n]
  BY <1>1 DEF FlattenSeq
<1> HIDE DEF h
<1>6. Sums(f, ss, n) /\ n <= n
  BY <1>1 DEF Runs
<1> HIDE DEF n
<1>9. Sums(h, ss, n)
  BY <1>4, Zenon DEF Sums
<1>7. f[n] = h[n]
  BY <1>1, <1>6, <1>9, RunsAgree
<1>8. n \in 1..n /\ n = Len(ss)
  BY <1>1 DEF n
<1> QED BY <1>5, <1>7, <1>8

LEMMA FlattenEmpty == FlattenSeq(<<>>) = <<>>
BY DEF FlattenSeq

LEMMA FlattenType ==
    ASSUME NEW S, NEW ss \in Seq(Seq(S))
    PROVE  FlattenSeq(ss) \in Seq(S)
<1>1. CASE ss = <<>>
  <2>1. FlattenSeq(ss) = <<>>
    BY <1>1, FlattenEmpty
  <2> QED BY <2>1
<1>2. CASE ss # <<>>
  <2>1. PICK f : Runs(f, ss, Len(ss), S)
    BY RunsExist
  <2>2. Len(ss) \in 1..Len(ss)
    BY <1>2
  <2>3. FlattenSeq(ss) = f[Len(ss)]
    BY <1>2, <2>1, FlattenRuns
  <2> QED BY <2>1, <2>2, <2>3 DEF Runs
<1> QED BY <1>1, <1>2

LEMMA FlattenAppend ==
    ASSUME NEW S, NEW ss \in Seq(Seq(S)), NEW x \in Seq(S)
    PROVE  FlattenSeq(Append(ss, x)) = FlattenSeq(ss) \o x
<1> DEFINE tt == Append(ss, x)
           n  == Len(ss)
<1>1. /\ tt \in Seq(Seq(S)) /\ tt # <<>> /\ Len(tt) = n + 1 /\ n \in Nat
      /\ tt[n + 1] = x /\ \A i \in 1..n : ss[i] = tt[i]
  BY AppendProperties
<1> HIDE DEF tt
<1>2. PICK g : Runs(g, tt, n + 1, S)
  BY <1>1, RunsExist
<1>3. FlattenSeq(tt) = g[n + 1]
  BY <1>1, <1>2, FlattenRuns
<1>4. /\ Sums(g, tt, n + 1)
      /\ \A i \in 1..(n + 1) : g[i] = IF i = 1 THEN tt[i] ELSE g[i - 1] \o tt[i]
  BY <1>2 DEF Runs, Sums
<1>5. CASE ss = <<>>
  <2>1. n = 0 /\ FlattenSeq(ss) = <<>>
    BY <1>5, FlattenEmpty
  <2>2. g[1] = tt[1] /\ tt[1] = x
    BY <1>1, <1>4, <2>1
  <2> QED BY <1>3, <2>1, <2>2 DEF tt
<1>6. CASE ss # <<>>
  <2>0. n # 0
    BY <1>6
  <2>1. PICK f : Runs(f, ss, n, S)
    BY RunsExist
  <2>2. FlattenSeq(ss) = f[n]
    BY <1>6, <2>1, FlattenRuns
  <2>3. n + 1 \in Nat /\ n <= n + 1 /\ n \in 1..n /\ n + 1 \in 1..(n + 1) /\ n + 1 # 1 /\ (n + 1) - 1 = n
    BY <1>1, <2>0
  <2> HIDE DEF n
  <2>6. Sums(f, ss, n)
    BY <2>1 DEF Runs
  <2>4. f[n] = g[n]
    <3>1. n \in Nat /\ n + 1 \in Nat /\ n <= n + 1 /\ Sums(g, tt, n + 1) /\ \A i \in 1..n : ss[i] = tt[i]
      BY <1>1, <1>4, <2>3
    <3> QED BY <2>0, <3>1, <2>6, RunsAgree
  <2>5. g[n + 1] = g[n] \o x
    BY <1>1, <1>4, <2>3
  <2> QED BY <1>3, <2>2, <2>3, <2>4, <2>5 DEF tt
<1> QED BY <1>5, <1>6

LEMMA FlattenConcat ==
    ASSUME NEW S, NEW a \in Seq(Seq(S)), NEW b \in Seq(Seq(S))
    PROVE  FlattenSeq(a \o b) = FlattenSeq(a) \o FlattenSeq(b)
<1> DEFINE P(c) == FlattenSeq(a \o c) = FlattenSeq(a) \o FlattenSeq(c)
           T == {m \in Nat : \A c \in Seq(Seq(S)) : Len(c) = m => P(c)}
<1>0. FlattenSeq(a) \in Seq(S)
  BY FlattenType
<1>1. 0 \in T
  <2> SUFFICES ASSUME NEW c \in Seq(Seq(S)), Len(c) = 0 PROVE P(c)
    OBVIOUS
  <2>1. c = <<>>
    OBVIOUS
  <2>2. a \o <<>> = a /\ FlattenSeq(a) \o <<>> = FlattenSeq(a)
    BY <1>0, ConcatEmptySeq
  <2> QED BY <2>1, <2>2, FlattenEmpty
<1>2. ASSUME NEW m \in Nat, m \in T PROVE m + 1 \in T
  <2> SUFFICES ASSUME NEW c \in Seq(Seq(S)), Len(c) = m + 1 PROVE P(c)
    OBVIOUS
  <2>1. PICK d \in Seq(Seq(S)), x \in Seq(S) : c = Append(d, x)
    <3>1. c # <<>>
      OBVIOUS
    <3> QED BY <3>1, SequenceEmptyOrAppend, Zenon
  <2>2. Len(d) = m
    BY <2>1
  <2>3. P(d)
    BY <1>2, <2>2
  <2>4. a \o c = Append(a \o d, x) /\ a \o d \in Seq(Seq(S))
    BY <2>1
  <2>5. FlattenSeq(d) \in Seq(S)
    BY FlattenType
  <2>6. FlattenSeq(a \o c) = FlattenSeq(a \o d) \o x /\ FlattenSeq(c) = FlattenSeq(d) \o x
    BY <2>1, <2>4, FlattenAppend
  <2>7. (FlattenSeq(a) \o FlattenSeq(d)) \o x = FlattenSeq(a) \o (FlattenSeq(d) \o x)
    <3> DEFINE A == FlattenSeq(a)
               D == FlattenSeq(d)
    <3>1. A \in Seq(S) /\ D \in Seq(S) /\ x \in Seq(S)
      BY <1>0, <2>5
    <3> HIDE DEF A, D
    <3>2. (A \o D) \o x = A \o (D \o x)
      BY <3>1, SMTT(30)
    <3> QED BY <3>2 DEF A, D
  <2> QED BY <2>3, <2>6, <2>7
<1> HIDE DEF T
<1>3. Nat \subseteq T
  BY <1>1, <1>2, SetInduction
<1>4. Len(b) \in T
  BY <1>3
<1> QED BY <1>4 DEF T

-----------------------------------------------------------------------------
(* Sequences that are worked off from the front.                            *)

(* What follows the first i of ss, put together.                            *)
Rest(ss, i) == FlattenSeq(SubSeq(ss, i + 1, Len(ss)))

LEMMA RestType ==
    ASSUME NEW S, NEW ss \in Seq(Seq(S)), NEW i \in 0..Len(ss)
    PROVE  Rest(ss, i) \in Seq(S)
<1>1. SubSeq(ss, i + 1, Len(ss)) \in Seq(Seq(S))
  OBVIOUS
<1> QED BY <1>1, FlattenType DEF Rest

LEMMA RestAll ==
    ASSUME NEW S, NEW ss \in Seq(Seq(S))
    PROVE  Rest(ss, 0) = FlattenSeq(ss)
<1>1. SubSeq(ss, 0 + 1, Len(ss)) = ss
  BY SubSeqFull
<1> QED BY <1>1 DEF Rest

LEMMA RestNone ==
    ASSUME NEW S, NEW ss \in Seq(Seq(S))
    PROVE  Rest(ss, Len(ss)) = <<>>
<1>1. SubSeq(ss, Len(ss) + 1, Len(ss)) = <<>>
  OBVIOUS
<1> QED BY <1>1, FlattenEmpty DEF Rest

(* Any part of it can be split off.                                         *)
LEMMA RestSplit ==
    ASSUME NEW S, NEW ss \in Seq(Seq(S)), NEW i \in 0..Len(ss), NEW j \in i..Len(ss)
    PROVE  /\ FlattenSeq(SubSeq(ss, i + 1, j)) \in Seq(S)
           /\ Rest(ss, i) = FlattenSeq(SubSeq(ss, i + 1, j)) \o Rest(ss, j)
<1>1. /\ SubSeq(ss, i + 1, j) \in Seq(Seq(S)) /\ SubSeq(ss, j + 1, Len(ss)) \in Seq(Seq(S))
      /\ i + 1 \in 1..(Len(ss) + 1) /\ j \in ((i + 1) - 1)..Len(ss) /\ Len(ss) \in j..Len(ss)
  OBVIOUS
<1>2. SubSeq(ss, i + 1, j) \o SubSeq(ss, j + 1, Len(ss)) = SubSeq(ss, i + 1, Len(ss))
  BY <1>1, ConcatAdjacentSubSeq
<1> QED BY <1>1, <1>2, FlattenType, FlattenConcat DEF Rest

LEMMA RestStep ==
    ASSUME NEW S, NEW ss \in Seq(Seq(S)), NEW i \in 0..(Len(ss) - 1)
    PROVE  Rest(ss, i) = ss[i + 1] \o Rest(ss, i + 1)
<1>1. i \in 0..Len(ss) /\ i + 1 \in i..Len(ss) /\ ss[i + 1] \in Seq(S)
  OBVIOUS
<1>2. SubSeq(ss, i + 1, i + 1) = Append(<<>>, ss[i + 1])
  <2> DEFINE one == SubSeq(ss, i + 1, i + 1)
             x == ss[i + 1]
  <2>1. one \in Seq(Seq(S)) /\ Len(one) = 1 /\ one[1] = x
    BY <1>1
  <2> HIDE DEF one, x
  <2>2. one = Append(<<>>, x)
    BY <2>1
  <2> QED BY <2>2 DEF one, x
<1>3. <<>> \in Seq(Seq(S)) /\ <<>> \o ss[i + 1] = ss[i + 1]
  BY <1>1
<1>4. FlattenSeq(Append(<<>>, ss[i + 1])) = ss[i + 1]
  BY <1>1, <1>3, FlattenAppend, FlattenEmpty
<1> QED BY <1>1, <1>2, <1>4, RestSplit

(* It gets shorter.                                                         *)
LEMMA RestShorter ==
    ASSUME NEW S, NEW ss \in Seq(Seq(S)), NEW i \in 0..Len(ss), NEW j \in i..Len(ss)
    PROVE  Len(Rest(ss, j)) <= Len(Rest(ss, i))
<1> DEFINE a == FlattenSeq(SubSeq(ss, i + 1, j))
           b == Rest(ss, j)
<1>1. j \in 0..Len(ss)
  OBVIOUS
<1>2. a \in Seq(S) /\ b \in Seq(S) /\ Rest(ss, i) = a \o b
  BY <1>1, RestSplit, RestType
<1> HIDE DEF a, b
<1>3. Len(a \o b) = Len(a) + Len(b) /\ Len(a) \in Nat /\ Len(b) \in Nat
  BY <1>2
<1> QED BY <1>2, <1>3 DEF b

LEMMA RestEmpty ==
    ASSUME NEW S, NEW ss \in Seq(Seq(S)), NEW i \in 0..Len(ss),
           \A j \in (i + 1)..Len(ss) : ss[j] = <<>>
    PROVE  Rest(ss, i) = <<>>
<1> DEFINE n == Len(ss)
           T == {m \in Nat : m <= n - i => Rest(ss, n - m) = <<>>}
<1>0. n \in Nat /\ i \in 0..n
  OBVIOUS
<1>1. 0 \in T
  <2>1. n - 0 = Len(ss)
    OBVIOUS
  <2> QED BY <2>1, RestNone
<1>2. ASSUME NEW m \in Nat, m \in T PROVE m + 1 \in T
  <2> SUFFICES ASSUME m + 1 <= n - i PROVE Rest(ss, n - (m + 1)) = <<>>
    OBVIOUS
  <2> DEFINE l == n - (m + 1)
  <2>1. l \in 0..(Len(ss) - 1) /\ l + 1 = n - m /\ l + 1 \in (i + 1)..Len(ss)
    BY <1>0
  <2>2. Rest(ss, l + 1) = <<>>
    BY <1>2, <2>1
  <2> HIDE DEF l, n
  <2>3. Rest(ss, l) = ss[l + 1] \o Rest(ss, l + 1)
    BY <2>1, RestStep
  <2>4. ss[l + 1] = <<>>
    BY <2>1
  <2>5. Rest(ss, l) = <<>>
    BY <2>2, <2>3, <2>4
  <2> QED BY <2>5 DEF l
<1> HIDE DEF T
<1>3. Nat \subseteq T
  BY <1>1, <1>2, SetInduction
<1>4. n - i \in T /\ n - i \in Nat /\ n - (n - i) = i
  BY <1>0, <1>3
<1> QED BY <1>4 DEF T

(* b is there already, m comes later; of x \o y the first part is taken.    *)
Splits(S, b, m, x, y) ==
    /\ b \in Seq(S) /\ m \in Seq(S) /\ x \in Seq(S) /\ y \in Seq(S)
    /\ b \o m = x \o y /\ Len(x) <= Len(b)

IsCut(S, b, m, x, y) ==
    /\ SubSeq(b, 1, Len(x)) = x
    /\ SubSeq(b, Len(x) + 1, Len(b)) \in Seq(S)
    /\ SubSeq(b, Len(x) + 1, Len(b)) \o m = y

LEMMA Consume ==
    ASSUME NEW S, NEW b, NEW m, NEW x, NEW y, Splits(S, b, m, x, y)
    PROVE  IsCut(S, b, m, x, y)
<1> DEFINE n == Len(x)
           c == SubSeq(b, n + 1, Len(b))
<1>0. /\ b \in Seq(S) /\ m \in Seq(S) /\ x \in Seq(S) /\ y \in Seq(S)
      /\ b \o m = x \o y /\ Len(x) <= Len(b)
  BY DEF Splits
<1>1. /\ n \in Nat /\ Len(b) \in Nat /\ c \in Seq(S) /\ Len(c) = Len(b) - n
      /\ \A i \in 1..Len(c) : c[i] = b[n + i]
  BY <1>0
<1>2. Len(b) + Len(m) = Len(x) + Len(y)
  <2>1. Len(b \o m) = Len(b) + Len(m) /\ Len(x \o y) = Len(x) + Len(y)
    BY <1>0, ConcatProperties
  <2> QED BY <1>0, <2>1
<1>3. \A i \in 1..(Len(x) + Len(y)) :
         /\ (b \o m)[i] = IF i <= Len(b) THEN b[i] ELSE m[i - Len(b)]
         /\ (x \o y)[i] = IF i <= Len(x) THEN x[i] ELSE y[i - Len(x)]
  BY <1>0, <1>2, ConcatProperties
<1>4. SubSeq(b, 1, n) = x
  <2>1. \A i \in 1..n : b[i] = x[i]
    BY <1>0, <1>1, <1>2, <1>3
  <2>2. SubSeq(b, 1, n) \in Seq(S) /\ Len(SubSeq(b, 1, n)) = n /\ \A i \in 1..n : SubSeq(b, 1, n)[i] = b[i]
    BY <1>0, <1>1
  <2> QED BY <1>0, <2>1, <2>2, SeqEqual
<1> HIDE DEF c
<1>5. c \o m = y
  <2>1. Len(c \o m) = Len(y) /\ c \o m \in Seq(S)
    BY <1>0, <1>1, <1>2
  <2>2. ASSUME NEW i \in 1..Len(y) PROVE (c \o m)[i] = y[i]
    <3>1. n + i \in 1..(Len(x) + Len(y)) /\ ~(n + i <= Len(x)) /\ (n + i) - Len(x) = i
      BY <1>0, <1>1
    <3>2. (b \o m)[n + i] = y[i]
      BY <1>0, <1>3, <3>1
    <3>3. CASE i <= Len(c)
      <4>0. i \in 1..Len(c) /\ i \in 1..(Len(c) + Len(m))
        BY <1>0, <1>1, <3>3
      <4>1. (c \o m)[i] = c[i] /\ c[i] = b[n + i] /\ n + i <= Len(b)
        BY <1>0, <1>1, <3>3, <4>0, ConcatProperties
      <4> QED BY <1>3, <3>1, <3>2, <4>1
    <3>4. CASE ~(i <= Len(c))
      <4>1. /\ (c \o m)[i] = m[i - Len(c)] /\ ~(n + i <= Len(b)) /\ (n + i) - Len(b) = i - Len(c)
        BY <1>0, <1>1, <1>2, <3>4, SMTT(30)
      <4> QED BY <1>3, <3>1, <3>2, <4>1
    <3> QED BY <3>3, <3>4
  <2> QED BY <1>0, <2>1, <2>2, SeqEqual
<1> QED BY <1>1, <1>4, <1>5 DEF c, IsCut

(* Concatenation is associative; with the sequences opaque to the provers.  *)
AreSeqs(S, a, b, c) == a \in Seq(S) /\ b \in Seq(S) /\ c \in Seq(S)

Associates(a, b, c) == (a \o b) \o c = a \o (b \o c)

LEMMA Association ==
    ASSUME NEW S, NEW a, NEW b, NEW c, AreSeqs(S, a, b, c)
    PROVE  Associates(a, b, c)
<1>1. a \in Seq(S) /\ b \in Seq(S) /\ c \in Seq(S)
  BY DEF AreSeqs
<1>2. (a \o b) \o c = a \o (b \o c)
  BY ONLY <1>1, ConcatAssociative, SMTT(30)
<1> QED BY ONLY <1>2 DEF Associates

LEMMA PrefixOfConcat ==
    ASSUME NEW S, NEW a \in Seq(S), NEW b \in Seq(S)
    PROVE  IsPrefix(a, a \o b)
<1>1. SubSeq(a \o b, 1, Len(a)) = a /\ Len(a) <= Len(a \o b) /\ SubSeq(a, 1, Len(a)) = a
  <2>1. a \o b = a \o b /\ a \o b \in Seq(S) /\ <<>> \in Seq(S) /\ Len(a) <= Len(a \o b)
    BY ConcatProperties
  <2>2. (a \o b) \o <<>> = a \o b
    BY <2>1, ConcatEmptySeq
  <2>3. Splits(S, a \o b, <<>>, a, b)
    BY <2>1, <2>2 DEF Splits
  <2>4. IsCut(S, a \o b, <<>>, a, b)
    BY <2>3, Consume
  <2> QED BY <2>1, <2>4, SubSeqFull DEF IsCut
<1> QED BY <1>1 DEF IsPrefix

-----------------------------------------------------------------------------
(* Records, units and the types of the state.                               *)

Recs    == UNION {ToSet(Requests[q]) : q \in DOMAIN Requests}
Data    == {"junk"} \cup UNION {ToSet(r.content) : r \in Recs}
UnitSet == [u : {"header"}, type : {r.type : r \in Recs}, id : Nat, len : Nat, pad : Nat]
           \cup [u : {"more", "pad"}] \cup [u : {"content", "body"}, c : Data]

LEMMA Constants ==
    /\ HeaderLen \in Nat /\ HeaderLen > 0 /\ BuffLen \in Nat
    /\ Later \subseteq DOMAIN Requests
    /\ \A n \in ReadSizes : n \in Nat /\ n # 0
BY InputAssumption

LEMMA RecordShape ==
    ASSUME NEW r \in Recs
    PROVE  r.id \in Nat /\ r.pad \in Nat /\ r.content \in Seq(Data)
<1>1. PICK q \in DOMAIN Requests : r \in ToSet(Requests[q])
  BY DEF Recs
<1>2. IsRecord(r)
  BY <1>1, InputAssumption
<1>3. ToSet(r.content) \subseteq Data
  BY DEF Data
<1>4. r.content \in Seq(ToSet(r.content))
  BY <1>2 DEF IsRecord
<1>5. r.content \in Seq(Data)
  BY <1>3, <1>4, SeqMonotonic, Zenon
<1> QED BY <1>2, <1>5 DEF IsRecord

LEMMA RequestShape ==
    ASSUME NEW q \in DOMAIN Requests
    PROVE  Requests[q] \in Seq(Recs)
<1>1. Requests[q] \in Seq(ToSet(Requests[q])) /\ ToSet(Requests[q]) \subseteq Recs
  BY InputAssumption DEF Recs
<1> QED BY <1>1, SeqMonotonic, Zenon

(* The parts of a record: its header, the last k units of its content, and  *)
(* padding.                                                                 *)
Header(r) == [i \in 1..HeaderLen |->
                 IF i = 1 THEN [u |-> "header", type |-> r.type, id |-> r.id,
                                len |-> Len(r.content), pad |-> r.pad]
                 ELSE [u |-> "more"]]
Bytes(r, k) == [i \in 1..k |-> [u |-> IF r.type = "BEGIN_REQUEST" THEN "body" ELSE "content",
                                c |-> r.content[Len(r.content) - k + i]]]
Pads(n) == [i \in 1..n |-> [u |-> "pad"]]

LEMMA HeaderType ==
    ASSUME NEW r \in Recs
    PROVE  /\ Header(r) \in Seq(UnitSet) /\ Len(Header(r)) = HeaderLen
           /\ Header(r)[1] = [u |-> "header", type |-> r.type, id |-> r.id,
                              len |-> Len(r.content), pad |-> r.pad]
           /\ \A i \in 2..HeaderLen : Header(r)[i] = [u |-> "more"]
<1> DEFINE first == [u |-> "header", type |-> r.type, id |-> r.id,
                     len |-> Len(r.content), pad |-> r.pad]
           more == [u |-> "more"]
<1>1. first \in UnitSet
  BY RecordShape DEF UnitSet
<1>2. more \in UnitSet
  BY DEF UnitSet
<1>3. Header(r) = [i \in 1..HeaderLen |-> IF i = 1 THEN first ELSE more]
  BY DEF Header
<1> HIDE DEF first, more
<1>4. /\ Header(r) \in Seq(UnitSet) /\ Len(Header(r)) = HeaderLen /\ Header(r)[1] = first
      /\ \A i \in 2..HeaderLen : Header(r)[i] = more
  BY <1>1, <1>2, <1>3, Constants
<1> QED BY <1>4 DEF first, more

LEMMA BytesType ==
    ASSUME NEW r \in Recs, NEW k \in 0..Len(r.content)
    PROVE  /\ Bytes(r, k) \in Seq(UnitSet) /\ Len(Bytes(r, k)) = k
           /\ \A i \in 1..k : /\ Bytes(r, k)[i].u # "header"
                              /\ Bytes(r, k)[i].c = r.content[Len(r.content) - k + i]
                              /\ ~Begin(r) => Value(Bytes(r, k)[i]) = r.content[Len(r.content) - k + i]
<1> DEFINE unit(i) == [u |-> IF r.type = "BEGIN_REQUEST" THEN "body" ELSE "content",
                       c |-> r.content[Len(r.content) - k + i]]
<1>1. r.content \in Seq(Data) /\ Len(r.content) \in Nat
  BY RecordShape
<1>2. ASSUME NEW i \in 1..k
      PROVE  /\ unit(i) \in UnitSet /\ unit(i).u # "header"
             /\ unit(i).c = r.content[Len(r.content) - k + i]
             /\ ~Begin(r) => Value(unit(i)) = r.content[Len(r.content) - k + i]
  <2>1. r.content[Len(r.content) - k + i] \in Data
    BY <1>1
  <2> QED BY <2>1 DEF UnitSet, Value, Begin
<1>3. Bytes(r, k) = [i \in 1..k |-> unit(i)]
  BY DEF Bytes
<1> HIDE DEF unit
<1>4. /\ Bytes(r, k) \in Seq(UnitSet) /\ Len(Bytes(r, k)) = k
      /\ \A i \in 1..k : Bytes(r, k)[i] = unit(i)
  BY <1>2, <1>3
<1> QED BY <1>2, <1>4, Zenon

LEMMA PadsType ==
    ASSUME NEW n \in Nat
    PROVE  /\ Pads(n) \in Seq(UnitSet) /\ Len(Pads(n)) = n
           /\ \A i \in 1..n : Pads(n)[i].u # "header"
<1> DEFINE pad == [u |-> "pad"]
<1>1. pad \in UnitSet /\ pad.u # "header"
  BY DEF UnitSet
<1>2. Pads(n) = [i \in 1..n |-> pad]
  BY DEF Pads
<1> HIDE DEF pad
<1> QED BY <1>1, <1>2

LEMMA UnitsParts ==
    ASSUME NEW r \in Recs
    PROVE  /\ Units(r) = Header(r) \o (Bytes(r, Len(r.content)) \o Pads(r.pad))
           /\ Units(r) \in Seq(UnitSet)
           /\ Len(Units(r)) = HeaderLen + Len(r.content) + r.pad
<1> DEFINE h == Header(r)
           b == Bytes(r, Len(r.content))
           p == Pads(r.pad)
<1>1. Len(r.content) \in 0..Len(r.content) /\ r.pad \in Nat /\ Len(r.content) \in Nat
  BY RecordShape
<1>2. /\ h \in Seq(UnitSet) /\ b \in Seq(UnitSet) /\ p \in Seq(UnitSet)
      /\ Len(h) = HeaderLen /\ Len(b) = Len(r.content) /\ Len(p) = r.pad
  BY <1>1, HeaderType, BytesType, PadsType
<1>3. \A i \in 1..Len(r.content) : Len(r.content) - Len(r.content) + i = i
  BY <1>1
<1>4. Units(r) = h \o b \o p
  BY <1>3 DEF Units, Header, Bytes, Pads
<1> HIDE DEF h, b, p
<1>5. (h \o b) \o p = h \o (b \o p)
  <2>1. AreSeqs(UnitSet, h, b, p)
    BY <1>2, Zenon DEF AreSeqs
  <2>2. Associates(h, b, p)
    BY <2>1, Association, Zenon
  <2> QED BY <2>2, Zenon DEF Associates
<1>6. h \o (b \o p) \in Seq(UnitSet) /\ Len(h \o (b \o p)) = Len(h) + Len(b) + Len(p)
  <2> DEFINE c == b \o p
  <2>1. c \in Seq(UnitSet) /\ Len(c) = Len(b) + Len(p)
    BY <1>2
  <2> HIDE DEF c
  <2>2. h \o c \in Seq(UnitSet) /\ Len(h \o c) = Len(h) + Len(c)
    BY <1>2, <2>1
  <2>3. Len(h) + (Len(b) + Len(p)) = Len(h) + Len(b) + Len(p)
    BY <1>2
  <2> QED BY <2>1, <2>2, <2>3 DEF c
<1> QED BY <1>2, <1>4, <1>5, <1>6 DEF h, b, p

UnitParts(rs) == [i \in 1..Len(rs) |-> Units(rs[i])]

LEMMA AllUnitsType ==
    ASSUME NEW rs \in Seq(Recs)
    PROVE  /\ UnitParts(rs) \in Seq(Seq(UnitSet)) /\ Len(UnitParts(rs)) = Len(rs)
           /\ \A i \in 1..Len(rs) : UnitParts(rs)[i] = Units(rs[i])
           /\ AllUnits(rs) = FlattenSeq(UnitParts(rs))
           /\ AllUnits(rs) \in Seq(UnitSet)
<1>1. \A i \in 1..Len(rs) : Units(rs[i]) \in Seq(UnitSet)
  BY UnitsParts
<1>2. /\ UnitParts(rs) \in Seq(Seq(UnitSet)) /\ Len(UnitParts(rs)) = Len(rs)
      /\ \A i \in 1..Len(rs) : UnitParts(rs)[i] = Units(rs[i])
  BY <1>1 DEF UnitParts
<1>3. AllUnits(rs) = FlattenSeq(UnitParts(rs))
  BY DEF AllUnits, UnitParts
<1> QED BY <1>2, <1>3, FlattenType

-----------------------------------------------------------------------------
(* Types.                                                                   *)

RoleSet   == {"none"} \cup {Body(u).role : u \in UnitSet}
KeepSet   == {FALSE} \cup {Body(u).keep : u \in UnitSet}
AnswerSet == [type : {"CANT_MPX_CONN", "UNKNOWN_TYPE"}, id : Nat]
             \cup [type : {"GET_VALUES_RESULT"}, id : Nat, vals : {ValuesResult(v) : v \in Seq(Data)}]
Errors    == {"0", "PROTOCOL_ERROR", "OS_ERROR", "UNSUPPORTED_VERSION", "PARAMS_ERROR", "CALL_SEQ_ERROR",
              "EINTR"}

Readers ==
    [buf : Seq(UnitSet), avail : Nat, unget : Nat, type : {"0", "PARAMS", "STDIN", "DATA"},
     eor : BOOLEAN, skip : BOOLEAN, contentLen : Nat, paddingLen : Nat, closed : BOOLEAN,
     errno : Errors, hdr : Seq(UnitSet)]

(* The parser.                                                              *)
ReaderOK(s, filling) ==
    /\ s \in Readers /\ s.avail <= Len(s.buf) /\ Len(s.hdr) < HeaderLen
    /\ filling => s.avail = 0 /\ ~s.closed

NestSet == [k : {"none", "body", "values"}, pend : Seq(Data), vals : Seq(Data)]

RequestSet ==
    [id : Nat, role : RoleSet, keep : KeepSet, begun : BOOLEAN, conn : BOOLEAN,
     params : Seq(RoleSet \cup Data)]

(* Everything but the reader, the nested call and the request.              *)
OtherOK ==
    /\ at \in {"accept", "begin", "params", "app", "read", "retry", "overrun"}
    /\ fill \in BOOLEAN /\ clean \in BOOLEAN
    /\ pend \in Seq(Data) /\ want \in [n : Nat, line : BOOLEAN]
    /\ wire \in Seq(UnitSet) /\ replies \in Seq(AnswerSet)
    /\ got \in [{"STDIN", "DATA"} -> Seq(Data)]
    /\ server \in [q : DOMAIN Requests \cup {"none"}, rest : Seq(Recs), patient : BOOLEAN,
                   dead : BOOLEAN, count : Nat]
    /\ server.dead => server.rest = <<>>

(* Where the process is, and what the reader is set to.                     *)
PlaceOK ==
    /\ at \in {"accept", "app", "retry", "overrun"} => ~fill /\ nest.k = "none"
    /\ at = "accept" => ~req.begun
    /\ at = "begin" => in.type = "0"
    /\ at = "params" => in.type = "PARAMS"
    /\ at \in {"app", "read"} => in.type \in {"STDIN", "DATA"}

Typed ==
    OtherOK /\ ReaderOK(in, fill) /\ nest \in NestSet /\ req \in RequestSet /\ PlaceOK

LEMMA TypedTypes == Typed => TypeOK
BY DEF Typed, OtherOK, ReaderOK, Readers, NestSet, PlaceOK, TypeOK

LEMMA NewReaderOK == NewReader \in Readers /\ \A f : ReaderOK(NewReader, f)
<1>1. <<>> \in Seq(UnitSet)
  OBVIOUS
<1>2. NewReader \in Readers
  BY <1>1 DEF NewReader, Readers, Errors
<1>3. /\ Len(NewReader.buf) = 0 /\ NewReader.avail = 0 /\ ~NewReader.closed
      /\ Len(NewReader.hdr) = 0
  BY DEF NewReader
<1> QED BY <1>2, <1>3, Constants DEF ReaderOK

LEMMA InitTyped == Init => Typed
<1> SUFFICES ASSUME Init PROVE Typed
  OBVIOUS
<1> USE DEF Init
<1>1. ReaderOK(in, fill)
  BY NewReaderOK, Zenon
<1>2. nest \in NestSet /\ nest.k = "none"
  BY DEF NestSet, NoNest
<1>3. req \in RequestSet /\ ~req.begun
  BY DEF RequestSet, NoRequest, RoleSet, KeepSet
<1>4. got \in [{"STDIN", "DATA"} -> Seq(Data)]
  BY DEF Nothing
<1>5. server \in [q : DOMAIN Requests \cup {"none"}, rest : Seq(Recs), patient : BOOLEAN,
                  dead : BOOLEAN, count : Nat]
  OBVIOUS
<1>6. want \in [n : Nat, line : BOOLEAN] /\ ~server.dead
  OBVIOUS
<1>7. OtherOK
  <2>1. /\ pend \in Seq(Data) /\ wire \in Seq(UnitSet) /\ replies \in Seq(AnswerSet)
        /\ at = "accept" /\ fill \in BOOLEAN /\ clean \in BOOLEAN
    <3>1. pend = <<>> /\ wire = <<>> /\ replies = <<>> /\ at = "accept" /\ fill = FALSE /\ clean = TRUE
      BY Zenon
    <3>2. <<>> \in Seq(Data) /\ <<>> \in Seq(UnitSet) /\ <<>> \in Seq(AnswerSet)
      BY EmptySeq, Zenon
    <3> HIDE DEF Init
    <3> QED BY <3>1, <3>2, Zenon
  <2> QED BY <1>4, <1>5, <1>6, <2>1, Zenon DEF OtherOK
<1> QED BY <1>1, <1>2, <1>3, <1>7 DEF Typed, PlaceOK

-----------------------------------------------------------------------------
(* What the operators of the parser do to a reader.                         *)

LEMMA LeastFacts ==
    ASSUME NEW a \in Nat, NEW b \in Nat
    PROVE  /\ Least(a, b) \in Nat /\ Least(a, b) <= a /\ Least(a, b) <= b
           /\ Least(a, b) < a => Least(a, b) = b
           /\ Least(a, b) < b => Least(a, b) = a
BY DEF Least

(* Leaving out the first n of a sequence.                                   *)
LEMMA Leave ==
    ASSUME NEW S, NEW b \in Seq(S), NEW n \in Nat, n <= Len(b)
    PROVE  /\ SubSeq(b, n + 1, Len(b)) \in Seq(S) /\ Len(SubSeq(b, n + 1, Len(b))) = Len(b) - n
           /\ \A i \in 1..(Len(b) - n) : SubSeq(b, n + 1, Len(b))[i] = b[n + i]
OBVIOUS

(* Leaving out m, and then l.                                               *)
LEMMA LeaveMore ==
    ASSUME NEW S, NEW b \in Seq(S), NEW m \in Nat, NEW l \in Nat, m + l <= Len(b),
           NEW c, c = SubSeq(b, m + 1, Len(b))
    PROVE  SubSeq(c, l + 1, Len(c)) = SubSeq(b, (m + l) + 1, Len(b))
<1>1. Len(b) \in Nat /\ m <= Len(b) /\ m + l \in Nat /\ l <= Len(b) - m /\ (Len(b) - m) - l = Len(b) - (m + l)
  BY LenProperties
<1>2. c \in Seq(S) /\ Len(c) = Len(b) - m /\ \A i \in 1..(Len(b) - m) : c[i] = b[m + i]
  BY ONLY b \in Seq(S), m \in Nat, <1>1, c = SubSeq(b, m + 1, Len(b)), Leave, Zenon
<1> DEFINE x == SubSeq(c, l + 1, Len(c))
           n == m + l
           y == SubSeq(b, n + 1, Len(b))
<1>3. x \in Seq(S) /\ Len(x) = Len(c) - l /\ \A i \in 1..(Len(c) - l) : x[i] = c[l + i]
  <2>1. l <= Len(c)
    BY ONLY <1>1, <1>2, Zenon
  <2> QED BY ONLY l \in Nat, <1>2, <2>1, Leave, Zenon
<1>4. y \in Seq(S) /\ Len(y) = Len(b) - n /\ \A i \in 1..(Len(b) - n) : y[i] = b[n + i]
  <2>1. n \in Nat /\ n <= Len(b)
    BY <1>1
  <2> HIDE DEF n
  <2> QED BY ONLY b \in Seq(S), <2>1, Leave, Zenon
<1> HIDE DEF x, y
<1>5. Len(x) = Len(b) - n /\ Len(c) - l = Len(b) - n /\ Len(x) = Len(y)
  BY ONLY <1>1, <1>2, <1>3, <1>4
<1>6. ASSUME NEW i \in 1..Len(x) PROVE x[i] = y[i]
  <2>1. l + i \in 1..(Len(b) - m) /\ m + (l + i) = n + i /\ i \in 1..(Len(c) - l) /\ i \in 1..(Len(b) - n)
    BY ONLY i \in 1..Len(x), m \in Nat, l \in Nat, <1>1, <1>5
  <2>2. x[i] = c[l + i] /\ y[i] = b[n + i] /\ c[l + i] = b[m + (l + i)]
    BY ONLY <1>2, <1>3, <1>4, <2>1, Zenon
  <2> QED BY ONLY <2>1, <2>2, Zenon
<1>7. x = y
  BY ONLY <1>3, <1>4, <1>5, <1>6, SeqEqual
<1> QED BY ONLY <1>7, Zenon DEF x, y

LEMMA DropFacts ==
    ASSUME NEW s \in Readers, NEW n \in Nat
    PROVE  /\ Drop(s, n) \in Readers
           /\ Drop(s, n).buf = SubSeq(s.buf, n + 1, Len(s.buf))
           /\ Drop(s, n).hdr = s.hdr /\ Drop(s, n).avail = s.avail /\ Drop(s, n).unget = s.unget
           /\ Drop(s, n).type = s.type /\ Drop(s, n).eor = s.eor /\ Drop(s, n).skip = s.skip
           /\ Drop(s, n).contentLen = s.contentLen /\ Drop(s, n).paddingLen = s.paddingLen
           /\ Drop(s, n).closed = s.closed /\ Drop(s, n).errno = s.errno
<1>1. SubSeq(s.buf, n + 1, Len(s.buf)) \in Seq(UnitSet)
  BY DEF Readers
<1> QED BY <1>1 DEF Drop, Readers

LEMMA TakeFacts ==
    ASSUME NEW s \in Readers, NEW n \in Nat, n <= s.avail
    PROVE  /\ Take(s, n) \in Readers
           /\ Take(s, n).buf = SubSeq(s.buf, n + 1, Len(s.buf))
           /\ Take(s, n).avail = s.avail - n /\ Take(s, n).unget = s.unget + n
           /\ Take(s, n).hdr = s.hdr /\ Take(s, n).type = s.type /\ Take(s, n).eor = s.eor
           /\ Take(s, n).skip = s.skip /\ Take(s, n).contentLen = s.contentLen
           /\ Take(s, n).paddingLen = s.paddingLen /\ Take(s, n).closed = s.closed
           /\ Take(s, n).errno = s.errno
<1> DEFINE d == Drop(s, n)
<1>1. /\ d \in Readers /\ d.buf = SubSeq(s.buf, n + 1, Len(s.buf)) /\ d.hdr = s.hdr
      /\ d.avail = s.avail /\ d.unget = s.unget /\ d.type = s.type /\ d.eor = s.eor
      /\ d.skip = s.skip /\ d.contentLen = s.contentLen /\ d.paddingLen = s.paddingLen
      /\ d.closed = s.closed /\ d.errno = s.errno
  BY DropFacts
<1>2. Take(s, n) = [d EXCEPT !.avail = @ - n, !.unget = @ + n]
  BY DEF Take
<1> HIDE DEF d
<1>3. s.avail - n \in Nat /\ s.unget + n \in Nat
  BY DEF Readers
<1>4. Take(s, n) = [d EXCEPT !.avail = s.avail - n, !.unget = s.unget + n]
  BY <1>1, <1>2
<1>5. Take(s, n) \in Readers
  BY <1>1, <1>3, <1>4 DEF Readers
<1> QED BY <1>1, <1>4, <1>5 DEF Readers

LEMMA SetErrorFacts ==
    ASSUME NEW s \in Readers, NEW e \in Errors \ {"0"}
    PROVE  /\ SetError(s, e) \in Readers /\ SetError(s, e).closed
           /\ SetError(s, e).errno = (IF s.errno = "0" THEN e ELSE s.errno)
           /\ SetError(s, e).errno # "0"
           /\ SetError(s, e).buf = s.buf /\ SetError(s, e).hdr = s.hdr
           /\ SetError(s, e).avail = s.avail /\ SetError(s, e).unget = s.unget
           /\ SetError(s, e).type = s.type /\ SetError(s, e).eor = s.eor
           /\ SetError(s, e).skip = s.skip /\ SetError(s, e).contentLen = s.contentLen
           /\ SetError(s, e).paddingLen = s.paddingLen
BY DEF SetError, Readers, Errors

LEMMA SetReaderTypeFacts ==
    ASSUME NEW s \in Readers, NEW type \in {"PARAMS", "STDIN", "DATA"}
    PROVE  /\ SetReaderType(s, type) \in Readers
           /\ SetReaderType(s, type).type = type
           /\ ~SetReaderType(s, type).eor /\ ~SetReaderType(s, type).skip
           /\ ~SetReaderType(s, type).closed
           /\ SetReaderType(s, type).contentLen = 0 /\ SetReaderType(s, type).paddingLen = 0
           /\ SetReaderType(s, type).avail = 0
           /\ SetReaderType(s, type).buf = s.buf /\ SetReaderType(s, type).hdr = s.hdr
           /\ SetReaderType(s, type).unget = s.unget /\ SetReaderType(s, type).errno = s.errno
BY DEF SetReaderType, Readers

LEMMA SizedFacts ==
    ASSUME NEW s \in Readers, NEW h, h.len \in Nat, h.pad \in Nat
    PROVE  /\ Sized(s, h) \in Readers
           /\ Sized(s, h).contentLen = h.len /\ Sized(s, h).paddingLen = h.pad
           /\ Sized(s, h).buf = s.buf /\ Sized(s, h).hdr = s.hdr
           /\ Sized(s, h).avail = s.avail /\ Sized(s, h).unget = s.unget
           /\ Sized(s, h).type = s.type /\ Sized(s, h).eor = s.eor /\ Sized(s, h).skip = s.skip
           /\ Sized(s, h).closed = s.closed /\ Sized(s, h).errno = s.errno
BY DEF Sized, Readers

(* Skipping takes what is left of the record from the buffer, its content   *)
(* before its padding, as far as the buffer goes.                           *)
LEMMA SkippedFacts ==
    ASSUME NEW s \in Readers
    PROVE  LET t == Skipped(s)
               n == (s.contentLen - t.contentLen) + (s.paddingLen - t.paddingLen)
           IN
           /\ t \in Readers
           /\ t.hdr = s.hdr /\ t.avail = s.avail /\ t.unget = s.unget /\ t.type = s.type
           /\ t.eor = s.eor /\ t.closed = s.closed /\ t.errno = s.errno
           /\ t.contentLen <= s.contentLen /\ t.paddingLen <= s.paddingLen
           /\ n \in 0..Len(s.buf) /\ t.buf = SubSeq(s.buf, n + 1, Len(s.buf))
           /\ t.skip = (IF s.contentLen = 0 THEN s.skip ELSE t.contentLen > 0)
           /\ t.contentLen > 0 => t.paddingLen = s.paddingLen /\ t.buf = <<>>
           /\ t.paddingLen > 0 => t.buf = <<>>
<1> DEFINE m == Least(s.contentLen, Len(s.buf))
           c == SkipContent(s)
           l == Least(c.paddingLen, Len(c.buf))
           t == Skipped(s)
<1>0. s.buf \in Seq(UnitSet) /\ Len(s.buf) \in Nat /\ s.contentLen \in Nat /\ s.paddingLen \in Nat
  BY DEF Readers
<1>1. m \in Nat /\ m <= s.contentLen /\ m <= Len(s.buf) /\ (m < s.contentLen => m = Len(s.buf))
  BY <1>0 DEF Least
<1>2. /\ c \in Readers /\ c.buf = SubSeq(s.buf, m + 1, Len(s.buf))
      /\ c.hdr = s.hdr /\ c.avail = s.avail /\ c.unget = s.unget /\ c.type = s.type
      /\ c.eor = s.eor /\ c.closed = s.closed /\ c.errno = s.errno
      /\ c.contentLen = s.contentLen - m /\ c.paddingLen = s.paddingLen
      /\ c.skip = (IF s.contentLen = 0 THEN s.skip ELSE m < s.contentLen)
  <2>1. CASE s.contentLen = 0
    <3>1. c = s /\ m = 0
      BY <2>1, <1>0, <1>1 DEF SkipContent
    <3>2. SubSeq(s.buf, 0 + 1, Len(s.buf)) = s.buf
      BY <1>0, SubSeqFull
    <3> QED BY <1>0, <2>1, <3>1, <3>2
  <2>2. CASE s.contentLen # 0
    <3> DEFINE d == Drop(s, m)
    <3>1. c = [d EXCEPT !.contentLen = @ - m, !.skip = m < s.contentLen]
      BY <2>2 DEF SkipContent
    <3>2. /\ d \in Readers /\ d.buf = SubSeq(s.buf, m + 1, Len(s.buf)) /\ d.hdr = s.hdr
          /\ d.avail = s.avail /\ d.unget = s.unget /\ d.type = s.type /\ d.eor = s.eor
          /\ d.contentLen = s.contentLen /\ d.paddingLen = s.paddingLen
          /\ d.closed = s.closed /\ d.errno = s.errno
      BY <1>1, DropFacts
    <3> HIDE DEF d, m, c
    <3>3. s.contentLen - m \in Nat /\ (m < s.contentLen) \in BOOLEAN
      BY <1>0, <1>1
    <3>4. c = [d EXCEPT !.contentLen = s.contentLen - m, !.skip = m < s.contentLen]
      BY <3>1, <3>2
    <3>5. c \in Readers
      BY <3>2, <3>3, <3>4 DEF Readers
    <3> QED BY <2>2, <3>2, <3>4, <3>5 DEF Readers
  <2> QED BY <2>1, <2>2
<1> HIDE DEF c, m
<1>3. c.buf \in Seq(UnitSet) /\ Len(c.buf) \in Nat /\ Len(c.buf) = Len(s.buf) - m
  BY <1>0, <1>1, <1>2
<1>9. c.contentLen = s.contentLen - m /\ c.paddingLen = s.paddingLen
  BY <1>2
<1>4. l \in Nat /\ l <= c.paddingLen /\ l <= Len(c.buf) /\ (l < c.paddingLen => l = Len(c.buf))
  BY <1>0, <1>2, <1>3 DEF Least
<1>5. CASE c.contentLen > 0
  <2>1. t = c /\ m < s.contentLen /\ m = Len(s.buf)
    BY <1>0, <1>1, <1>2, <1>5 DEF Skipped, SkipPadding, c
  <2>2. c.buf = <<>>
    BY <1>0, <1>2, <2>1
  <2>3. (s.contentLen - c.contentLen) + (s.paddingLen - c.paddingLen) = m
    BY <1>0, <1>1, <1>9
  <2> HIDE DEF t
  <2> QED BY <1>0, <1>1, <1>2, <1>5, <2>1, <2>2, <2>3 DEF t
<1>6. CASE ~(c.contentLen > 0)
  <2> DEFINE d == Drop(c, l)
  <2>1. t = [d EXCEPT !.paddingLen = @ - l]
    BY <1>6 DEF Skipped, SkipPadding, c
  <2>2. /\ d \in Readers /\ d.buf = SubSeq(c.buf, l + 1, Len(c.buf)) /\ d.hdr = c.hdr
        /\ d.avail = c.avail /\ d.unget = c.unget /\ d.type = c.type /\ d.eor = c.eor
        /\ d.contentLen = c.contentLen /\ d.paddingLen = c.paddingLen
        /\ d.closed = c.closed /\ d.errno = c.errno /\ d.skip = c.skip
    BY <1>2, <1>4, DropFacts
  <2> HIDE DEF d, t
  <2>3. c.contentLen = 0 /\ m = s.contentLen
    BY <1>0, <1>1, <1>2, <1>6
  <2>4. /\ t \in Readers /\ t.buf = d.buf /\ t.hdr = s.hdr
        /\ t.avail = s.avail /\ t.unget = s.unget /\ t.type = s.type /\ t.eor = s.eor
        /\ t.contentLen = 0 /\ t.paddingLen = s.paddingLen - l
        /\ t.closed = s.closed /\ t.errno = s.errno /\ t.skip = c.skip
    <3>1. s.paddingLen - l \in Nat
      BY <1>0, <1>4, <1>9
    <3>2. t = [d EXCEPT !.paddingLen = s.paddingLen - l]
      BY <1>9, <2>1, <2>2
    <3>3. t \in Readers
      BY <2>2, <3>1, <3>2 DEF Readers
    <3> QED BY <1>2, <2>2, <2>3, <3>2, <3>3 DEF Readers
  <2>5. SubSeq(c.buf, l + 1, Len(c.buf)) = SubSeq(s.buf, (m + l) + 1, Len(s.buf))
    <3>1. c.buf = SubSeq(s.buf, m + 1, Len(s.buf))
      BY <1>2
    <3>2. m + l <= Len(s.buf)
      <4> HIDE DEF l
      <4> QED BY <1>0, <1>1, <1>3, <1>4, SMTT(30)
    <3>3. s.buf \in Seq(UnitSet) /\ m \in Nat /\ l \in Nat
      BY <1>0, <1>1, <1>4
    <3> HIDE DEF l
    <3>4. PICK b : b = s.buf
      OBVIOUS
    <3>5. PICK a : a = c.buf
      OBVIOUS
    <3>6. b \in Seq(UnitSet) /\ m \in Nat /\ l \in Nat /\ m + l <= Len(b) /\ a = SubSeq(b, m + 1, Len(b))
      BY <3>1, <3>2, <3>3, <3>4, <3>5, Zenon
    <3>7. SubSeq(a, l + 1, Len(a)) = SubSeq(b, (m + l) + 1, Len(b))
      BY ONLY <3>6, LeaveMore
    <3> QED BY <3>4, <3>5, <3>7, Zenon
  <2>6. (s.contentLen - t.contentLen) + (s.paddingLen - t.paddingLen) = m + l /\ m + l \in 0..Len(s.buf)
    <3>1. t.contentLen = 0 /\ t.paddingLen = s.paddingLen - l
      BY <2>4
    <3> HIDE DEF l
    <3> QED BY <1>0, <1>1, <1>3, <1>4, <2>3, <3>1, SMTT(30)
  <2>7. t.paddingLen > 0 => t.buf = <<>>
    <3> SUFFICES ASSUME t.paddingLen > 0 PROVE t.buf = <<>>
      OBVIOUS
    <3>1. l = Len(c.buf)
      <4>1. l < c.paddingLen
        BY <1>0, <1>4, <1>9, <2>4
      <4> QED BY <1>4, <4>1
    <3> QED BY <1>3, <2>2, <2>4, <3>1
  <2>8. t.skip = (IF s.contentLen = 0 THEN s.skip ELSE t.contentLen > 0)
    BY <1>0, <1>1, <1>2, <2>3, <2>4
  <2>9. ~(t.contentLen > 0) /\ t.contentLen <= s.contentLen /\ t.paddingLen <= s.paddingLen
    BY <1>0, <1>4, <2>4
  <2> QED BY <2>2, <2>4, <2>5, <2>6, <2>7, <2>8, <2>9 DEF t
<1> QED BY <1>5, <1>6

LEMMA TakeHeaderFacts ==
    ASSUME NEW s \in Readers, Len(s.hdr) < HeaderLen
    PROVE  LET t == TakeHeader(s)
               n == Least(HeaderLen - Len(s.hdr), Len(s.buf))
           IN
           /\ t \in Readers /\ n \in 0..Len(s.buf) /\ Len(s.hdr) + n <= HeaderLen
           /\ t.buf = SubSeq(s.buf, n + 1, Len(s.buf)) /\ t.hdr = s.hdr \o SubSeq(s.buf, 1, n)
           /\ Len(t.hdr) = Len(s.hdr) + n
           /\ t.avail = s.avail /\ t.unget = s.unget /\ t.type = s.type /\ t.eor = s.eor
           /\ t.skip = s.skip /\ t.contentLen = s.contentLen /\ t.paddingLen = s.paddingLen
           /\ t.closed = s.closed /\ t.errno = s.errno
<1> DEFINE n == Least(HeaderLen - Len(s.hdr), Len(s.buf))
           d == Drop(s, n)
           x == SubSeq(s.buf, 1, n)
           t == TakeHeader(s)
<1>0. s.buf \in Seq(UnitSet) /\ Len(s.buf) \in Nat /\ s.hdr \in Seq(UnitSet) /\ Len(s.hdr) \in Nat
  BY DEF Readers
<1>7. HeaderLen \in Nat /\ HeaderLen - Len(s.hdr) \in Nat
  BY <1>0, Constants
<1>1. n \in 0..Len(s.buf) /\ Len(s.hdr) + n <= HeaderLen /\ n \in Nat
  <2>1. n \in Nat /\ n <= HeaderLen - Len(s.hdr) /\ n <= Len(s.buf)
    BY <1>0, <1>7, LeastFacts, Zenon
  <2> HIDE DEF n
  <2> QED BY <1>0, <1>7, <2>1
<1>2. x \in Seq(UnitSet) /\ Len(x) = n
  BY <1>0, <1>1
<1>3. t = [d EXCEPT !.hdr = @ \o x]
  BY DEF TakeHeader
<1>4. /\ d \in Readers /\ d.buf = SubSeq(s.buf, n + 1, Len(s.buf)) /\ d.hdr = s.hdr
      /\ d.avail = s.avail /\ d.unget = s.unget /\ d.type = s.type /\ d.eor = s.eor
      /\ d.contentLen = s.contentLen /\ d.paddingLen = s.paddingLen
      /\ d.closed = s.closed /\ d.errno = s.errno /\ d.skip = s.skip
  BY <1>1, DropFacts
<1> HIDE DEF d, x, t, n
<1>5. s.hdr \o x \in Seq(UnitSet) /\ Len(s.hdr \o x) = Len(s.hdr) + n
  BY <1>0, <1>2, ConcatProperties
<1>6. /\ t \in Readers /\ t.buf = d.buf /\ t.hdr = s.hdr \o x
      /\ t.avail = s.avail /\ t.unget = s.unget /\ t.type = s.type /\ t.eor = s.eor
      /\ t.contentLen = s.contentLen /\ t.paddingLen = s.paddingLen
      /\ t.closed = s.closed /\ t.errno = s.errno /\ t.skip = s.skip
  BY <1>3, <1>4, <1>5 DEF Readers
<1> QED BY <1>1, <1>4, <1>5, <1>6 DEF n, t, x

(* A complete header, and the reader after it.                              *)
HeaderTaken == TakeHeader(Skipped(in))
AfterHeader == [HeaderTaken EXCEPT !.hdr = <<>>, !.avail = 0]

LEMMA AfterHeaderFacts ==
    ASSUME Typed, fill, RecordDone(Skipped(in)), Len(HeaderTaken.hdr) = HeaderLen
    PROVE  /\ AfterHeader \in Readers /\ AfterHeader.hdr = <<>> /\ AfterHeader.avail = 0
           /\ AfterHeader.buf = HeaderTaken.buf
           /\ AfterHeader.contentLen = 0 /\ AfterHeader.paddingLen = 0
           /\ AfterHeader.closed = in.closed /\ AfterHeader.errno = in.errno
           /\ AfterHeader.type = in.type /\ AfterHeader.eor = in.eor
           /\ AfterHeader.unget = in.unget /\ AfterHeader.skip = Skipped(in).skip
           /\ HeaderTaken.hdr[1] \in UnitSet
           /\ HeaderTaken.hdr[1].u = "header" =>
                 /\ HeaderTaken.hdr[1].len \in Nat /\ HeaderTaken.hdr[1].pad \in Nat
                 /\ HeaderTaken.hdr[1].id \in Nat
<1> DEFINE s == Skipped(in)
           t == HeaderTaken
<1>1. in \in Readers /\ Len(in.hdr) < HeaderLen
  BY DEF Typed, ReaderOK
<1>2. /\ s \in Readers /\ s.hdr = in.hdr /\ s.avail = in.avail /\ s.unget = in.unget
      /\ s.type = in.type /\ s.eor = in.eor /\ s.closed = in.closed /\ s.errno = in.errno
  BY <1>1, SkippedFacts
<1>3. s.contentLen = 0 /\ s.paddingLen = 0
  BY DEF RecordDone
<1> HIDE DEF s
<1>4. /\ t \in Readers /\ t.type = s.type /\ t.eor = s.eor /\ t.unget = s.unget
      /\ t.skip = s.skip /\ t.contentLen = s.contentLen /\ t.paddingLen = s.paddingLen
      /\ t.closed = s.closed /\ t.errno = s.errno
  BY <1>1, <1>2, TakeHeaderFacts DEF HeaderTaken, s
<1> HIDE DEF t
<1>5. AfterHeader = [t EXCEPT !.hdr = <<>>, !.avail = 0]
  BY DEF AfterHeader, t
<1>6. /\ AfterHeader \in Readers /\ AfterHeader.hdr = <<>> /\ AfterHeader.avail = 0
      /\ AfterHeader.buf = t.buf
      /\ AfterHeader.contentLen = 0 /\ AfterHeader.paddingLen = 0
      /\ AfterHeader.closed = in.closed /\ AfterHeader.errno = in.errno
      /\ AfterHeader.type = in.type /\ AfterHeader.eor = in.eor
      /\ AfterHeader.unget = in.unget /\ AfterHeader.skip = s.skip
  <2>1. <<>> \in Seq(UnitSet)
    OBVIOUS
  <2> QED BY <1>2, <1>3, <1>4, <1>5, <2>1 DEF Readers
<1>7. t.hdr \in Seq(UnitSet) /\ Len(t.hdr) = HeaderLen /\ 1 \in 1..Len(t.hdr)
  BY <1>4, Constants DEF Readers, t
<1>8. t.hdr[1] \in UnitSet
  BY <1>7
<1>9. \A h \in UnitSet : h.u = "header" => h.len \in Nat /\ h.pad \in Nat /\ h.id \in Nat
  BY DEF UnitSet
<1> QED BY <1>6, <1>8, <1>9 DEF t, s

-----------------------------------------------------------------------------
(* Every step keeps the types.                                              *)

LEMMA OS_ReadTyped == ASSUME Typed, OS_Read PROVE Typed'
<1>0. in \in Readers /\ fill /\ in.buf = <<>> /\ wire \in Seq(UnitSet) /\ BuffLen \in Nat
  BY Constants DEF Typed, ReaderOK, OtherOK, OS_Read
<1>1. CASE \E n \in 1..Least(BuffLen, Len(wire)) :
             /\ in' = [in EXCEPT !.buf = SubSeq(wire, 1, n)]
             /\ wire' = SubSeq(wire, n + 1, Len(wire))
             /\ UNCHANGED fill
  <2>1. PICK n \in 1..Least(BuffLen, Len(wire)) :
             /\ in' = [in EXCEPT !.buf = SubSeq(wire, 1, n)]
             /\ wire' = SubSeq(wire, n + 1, Len(wire))
             /\ UNCHANGED fill
    BY <1>1
  <2>2. n \in Nat /\ n <= Len(wire) /\ Len(wire) \in Nat
    <3>1. Len(wire) \in Nat
      BY <1>0
    <3>2. Least(BuffLen, Len(wire)) \in Nat /\ Least(BuffLen, Len(wire)) <= Len(wire)
      BY <1>0, <3>1, LeastFacts, Zenon
    <3> QED BY <3>1, <3>2
  <2>3. SubSeq(wire, 1, n) \in Seq(UnitSet) /\ wire' \in Seq(UnitSet)
    BY <1>0, <2>1, <2>2
  <2>4. in' \in Readers /\ in'.avail = in.avail /\ in'.closed = in.closed /\ in'.hdr = in.hdr
        /\ in'.type = in.type /\ in'.buf = SubSeq(wire, 1, n)
    BY <1>0, <2>1, <2>3 DEF Readers
  <2>5. ReaderOK(in, fill)'
    BY <1>0, <2>1, <2>3, <2>4 DEF Typed, ReaderOK
  <2> QED BY <2>1, <2>3, <2>4, <2>5 DEF Typed, OtherOK, PlaceOK, OS_Read, Others
<1>2. CASE /\ wire = <<>> /\ server.dead
           /\ \E e \in {"PROTOCOL_ERROR", "OS_ERROR"} : in' = SetError(in, e)
           /\ fill' = FALSE
           /\ UNCHANGED wire
  <2>1. PICK e \in {"PROTOCOL_ERROR", "OS_ERROR"} : in' = SetError(in, e)
    BY <1>2
  <2>2. e \in Errors \ {"0"}
    BY DEF Errors
  <2>3. in' \in Readers /\ in'.avail = in.avail /\ in'.buf = in.buf /\ in'.hdr = in.hdr /\ in'.type = in.type
    BY <1>0, <2>1, <2>2, SetErrorFacts
  <2>4. ReaderOK(in, fill)'
    BY <1>2, <2>3 DEF Typed, ReaderOK
  <2> QED BY <1>2, <2>3, <2>4 DEF Typed, OtherOK, PlaceOK, OS_Read, Others
<1> QED BY <1>1, <1>2 DEF OS_Read

LEMMA DeliverTyped == ASSUME Typed, Deliver PROVE Typed'
<1> DEFINE n == Least(in.contentLen, Len(in.buf))
<1>0. in \in Readers /\ fill /\ in.buf \in Seq(UnitSet) /\ in.contentLen \in Nat /\ Len(in.buf) \in Nat
  BY DEF Typed, ReaderOK, Deliver, Readers
<1>1. n \in Nat /\ n <= in.contentLen /\ n <= Len(in.buf)
  BY <1>0, LeastFacts, Zenon
<1>2. in' = [in EXCEPT !.contentLen = @ - n, !.avail = n, !.unget = 0] /\ fill' = FALSE
  BY DEF Deliver
<1> HIDE DEF n
<1>3. in.contentLen - n \in Nat
  BY <1>0, <1>1
<1>4. in' \in Readers /\ in'.avail = n /\ in'.buf = in.buf /\ in'.hdr = in.hdr /\ in'.type = in.type
  BY <1>0, <1>1, <1>2, <1>3 DEF Readers
<1>5. ReaderOK(in, fill)'
  BY <1>1, <1>2, <1>4 DEF Typed, ReaderOK
<1> QED BY <1>2, <1>4, <1>5 DEF Typed, OtherOK, PlaceOK, Deliver, Others

LEMMA AdvanceTyped == ASSUME Typed, Advance PROVE Typed'
<1> DEFINE s == Skipped(in)
<1>0. /\ in \in Readers /\ fill /\ in.avail = 0 /\ ~in.closed /\ Len(in.hdr) < HeaderLen
  BY DEF Typed, ReaderOK, Advance
<1>1. /\ s \in Readers /\ s.hdr = in.hdr /\ s.avail = in.avail
      /\ s.type = in.type /\ s.closed = in.closed
  BY <1>0, SkippedFacts
<1>2. \/ in' = s /\ UNCHANGED fill
      \/ in' = [s EXCEPT !.closed = TRUE, !.avail = 0] /\ fill' = FALSE
      \/ Len(TakeHeader(s).hdr) < HeaderLen /\ in' = TakeHeader(s) /\ UNCHANGED fill
  BY DEF Advance
<1> HIDE DEF s
<1>3. /\ TakeHeader(s) \in Readers /\ TakeHeader(s).avail = s.avail
      /\ TakeHeader(s).type = s.type /\ TakeHeader(s).closed = s.closed
  BY <1>0, <1>1, TakeHeaderFacts
<1>4. /\ in' \in Readers /\ in'.avail = 0 /\ (fill' => ~in'.closed) /\ Len(in'.hdr) < HeaderLen
      /\ in'.type = in.type
  <2>1. CASE in' = s /\ UNCHANGED fill
    BY <1>0, <1>1, <2>1
  <2>2. CASE in' = [s EXCEPT !.closed = TRUE, !.avail = 0] /\ fill' = FALSE
    BY <1>0, <1>1, <2>2 DEF Readers
  <2>3. CASE Len(TakeHeader(s).hdr) < HeaderLen /\ in' = TakeHeader(s) /\ UNCHANGED fill
    BY <1>0, <1>1, <1>3, <2>3
  <2> QED BY <1>2, <2>1, <2>2, <2>3
<1>5. ReaderOK(in, fill)'
  <2>1. Len(in'.buf) \in Nat
    BY <1>4 DEF Readers
  <2> QED BY <1>4, <2>1 DEF ReaderOK
<1>6. fill' \in BOOLEAN
  BY <1>2 DEF Typed, OtherOK
<1> QED BY <1>0, <1>4, <1>5, <1>6 DEF Typed, OtherOK, PlaceOK, Advance, Others

(* What a complete header leads to.                                         *)
HeaderStep(s, h) ==
    \/ /\ h.u # "header" /\ Fails(s, "UNSUPPORTED_VERSION")
       /\ UNCHANGED <<nest, req, replies>>
    \/ h.u = "header" /\ ProcessHeader(h, s)
    \/ h.u = "header" /\ ProcessBeginRecord(h, s)
    \/ h.u = "header" /\ ProcessManagementRecord(h, s)

LEMMA FillHeaderSteps ==
    ASSUME FillHeader
    PROVE  /\ fill /\ in.buf # <<>> /\ ~Delivers(in) /\ ~in.eor
           /\ RecordDone(Skipped(in)) /\ Len(HeaderTaken.hdr) = HeaderLen
           /\ HeaderStep(AfterHeader, HeaderTaken.hdr[1])
           /\ UNCHANGED <<at, pend, want, wire, server, got, clean>>
BY DEF FillHeader, HeaderTaken, AfterHeader, HeaderStep

(* The reader, as any of its outcomes leaves it.                            *)
LEMMA HeaderOutcomes ==
    ASSUME NEW s \in Readers, NEW e \in Errors \ {"0"}
    PROVE  /\ [s EXCEPT !.skip = TRUE] \in Readers
           /\ [s EXCEPT !.closed = TRUE] \in Readers
           /\ [s EXCEPT !.eor = TRUE] \in Readers
           /\ SetError(s, e) \in Readers
           /\ \A t \in {[s EXCEPT !.skip = TRUE], [s EXCEPT !.closed = TRUE],
                        [s EXCEPT !.eor = TRUE], SetError(s, e)} :
                 t.buf = s.buf /\ t.hdr = s.hdr /\ t.avail = s.avail /\ t.type = s.type
           /\ [s EXCEPT !.skip = TRUE].closed = s.closed
           /\ [s EXCEPT !.eor = TRUE].closed = s.closed
<1>1. /\ SetError(s, e) \in Readers /\ SetError(s, e).buf = s.buf /\ SetError(s, e).hdr = s.hdr
      /\ SetError(s, e).avail = s.avail /\ SetError(s, e).type = s.type
  BY SetErrorFacts
<1>2. /\ [s EXCEPT !.skip = TRUE] \in Readers
      /\ [s EXCEPT !.closed = TRUE] \in Readers
      /\ [s EXCEPT !.eor = TRUE] \in Readers
  BY DEF Readers
<1>3. \A t \in {[s EXCEPT !.skip = TRUE], [s EXCEPT !.closed = TRUE], [s EXCEPT !.eor = TRUE]} :
         t.buf = s.buf /\ t.hdr = s.hdr /\ t.avail = s.avail /\ t.type = s.type
  BY DEF Readers
<1>4. [s EXCEPT !.skip = TRUE].closed = s.closed /\ [s EXCEPT !.eor = TRUE].closed = s.closed
  BY DEF Readers
<1> QED BY <1>1, <1>2, <1>3, <1>4

LEMMA NestFacts ==
    ASSUME NEW k \in {"none", "body", "values"}
    PROVE  /\ NoNest \in NestSet /\ NoNest.k = "none"
           /\ [NoNest EXCEPT !.k = k] \in NestSet /\ [NoNest EXCEPT !.k = k].k = k
           /\ [NoNest EXCEPT !.k = k].pend = <<>> /\ [NoNest EXCEPT !.k = k].vals = <<>>
<1>1. <<>> \in Seq(Data)
  OBVIOUS
<1> QED BY <1>1 DEF NestSet, NoNest

LEMMA HeaderStepTyped ==
    ASSUME Typed, fill, NEW s \in Readers, NEW h, HeaderStep(s, h),
           ~s.closed, s.avail = 0, s.hdr = <<>>, s.type = in.type,
           h.u = "header" => h.len \in Nat /\ h.pad \in Nat /\ h.id \in Nat
    PROVE  /\ in' \in Readers /\ in'.avail = 0 /\ in'.hdr = <<>> /\ in'.type = in.type
           /\ fill' \in BOOLEAN /\ (fill' => ~in'.closed)
           /\ nest' \in NestSet /\ req' \in RequestSet /\ req'.begun = req.begun
           /\ replies' \in Seq(AnswerSet)
<1> DEFINE z == Sized(s, h)
           OK(t) == t \in Readers /\ t.avail = 0 /\ t.hdr = <<>> /\ t.type = in.type
<1>0. /\ nest \in NestSet /\ req \in RequestSet /\ replies \in Seq(AnswerSet) /\ fill \in BOOLEAN
      /\ "PROTOCOL_ERROR" \in Errors \ {"0"} /\ "OS_ERROR" \in Errors \ {"0"}
      /\ "UNSUPPORTED_VERSION" \in Errors \ {"0"}
  BY DEF Typed, OtherOK, Errors
<1>1. CASE h.u # "header" /\ Fails(s, "UNSUPPORTED_VERSION") /\ UNCHANGED <<nest, req, replies>>
  <2>1. in' = SetError(s, "UNSUPPORTED_VERSION") /\ fill' = FALSE
    BY <1>1 DEF Fails
  <2>2. OK(in')
    BY <1>0, <2>1, HeaderOutcomes
  <2> QED BY <1>0, <1>1, <2>1, <2>2
<1>2. ASSUME h.u = "header"
      PROVE  /\ z \in Readers /\ OK(z) /\ ~z.closed
             /\ OK([z EXCEPT !.skip = TRUE]) /\ OK([z EXCEPT !.closed = TRUE])
             /\ OK([z EXCEPT !.eor = TRUE]) /\ OK(SetError(z, "PROTOCOL_ERROR"))
             /\ OK(SetError(z, "OS_ERROR"))
             /\ ~[z EXCEPT !.skip = TRUE].closed /\ ~[z EXCEPT !.eor = TRUE].closed
  <2>1. z \in Readers /\ z.avail = 0 /\ z.hdr = <<>> /\ z.type = in.type /\ ~z.closed
    BY <1>2, SizedFacts
  <2> HIDE DEF z
  <2> QED BY <1>0, <2>1, HeaderOutcomes
<1> HIDE DEF z
<1>3. CASE h.u = "header" /\ ProcessHeader(h, s)
  <2>1. /\ UNCHANGED <<nest, req, replies>>
        /\ \/ in' = [z EXCEPT !.skip = TRUE] /\ UNCHANGED fill
           \/ in' = SetError(z, "PROTOCOL_ERROR") /\ fill' = FALSE
           \/ in' = [z EXCEPT !.closed = TRUE] /\ fill' = FALSE
           \/ in' = z /\ UNCHANGED fill
    BY <1>3 DEF ProcessHeader, Skips, Fails, z
  <2> QED BY <1>0, <1>2, <1>3, <2>1, Zenon
<1>4. CASE h.u = "header" /\ ProcessBeginRecord(h, s)
  <2>1. \/ /\ in' = SetError(z, "PROTOCOL_ERROR") /\ fill' = FALSE /\ UNCHANGED <<nest, req, replies>>
        \/ /\ replies' = Append(replies, [type |-> "CANT_MPX_CONN", id |-> h.id])
           /\ in' = [z EXCEPT !.skip = TRUE] /\ UNCHANGED <<fill, nest, req>>
        \/ /\ in' = SetError(z, "OS_ERROR") /\ fill' = FALSE /\ UNCHANGED <<nest, req, replies>>
        \/ /\ req' = [req EXCEPT !.id = h.id] /\ nest' = [NoNest EXCEPT !.k = "body"]
           /\ in' = [z EXCEPT !.eor = TRUE] /\ UNCHANGED replies /\ fill' = FALSE
    BY <1>4 DEF ProcessBeginRecord, Skips, Fails, Nested, Reply, z
  <2>2. CASE /\ in' = SetError(z, "PROTOCOL_ERROR") /\ fill' = FALSE /\ UNCHANGED <<nest, req, replies>>
    BY <1>0, <1>2, <1>4, <2>2, Zenon
  <2>3. CASE /\ replies' = Append(replies, [type |-> "CANT_MPX_CONN", id |-> h.id])
             /\ in' = [z EXCEPT !.skip = TRUE] /\ UNCHANGED <<fill, nest, req>>
    <3>1. replies' \in Seq(AnswerSet)
      <4>1. [type |-> "CANT_MPX_CONN", id |-> h.id] \in AnswerSet
        BY <1>4 DEF AnswerSet
      <4> QED BY <1>0, <2>3, <4>1, AppendProperties, Zenon
    <3> QED BY <1>0, <1>2, <1>4, <2>3, <3>1, Zenon
  <2>4. CASE /\ in' = SetError(z, "OS_ERROR") /\ fill' = FALSE /\ UNCHANGED <<nest, req, replies>>
    BY <1>0, <1>2, <1>4, <2>4, Zenon
  <2>5. CASE /\ req' = [req EXCEPT !.id = h.id] /\ nest' = [NoNest EXCEPT !.k = "body"]
             /\ in' = [z EXCEPT !.eor = TRUE] /\ UNCHANGED replies /\ fill' = FALSE
    <3>1. req' \in RequestSet /\ req'.begun = req.begun
      BY <1>0, <1>4, <2>5 DEF RequestSet
    <3>2. nest' \in NestSet
      BY <2>5, NestFacts
    <3> QED BY <1>0, <1>2, <1>4, <2>5, <3>1, <3>2, Zenon
  <2> QED BY <2>1, <2>2, <2>3, <2>4, <2>5
<1>5. CASE h.u = "header" /\ ProcessManagementRecord(h, s)
  <2>1. /\ UNCHANGED req
        /\ \/ /\ nest' = [NoNest EXCEPT !.k = "values"] /\ in' = [z EXCEPT !.eor = TRUE]
              /\ fill' = FALSE /\ UNCHANGED replies
           \/ /\ replies' = Append(replies, [type |-> "UNKNOWN_TYPE", id |-> 0])
              /\ in' = z /\ UNCHANGED <<fill, nest>>
           \/ /\ in' = SetError(z, "OS_ERROR") /\ fill' = FALSE /\ UNCHANGED <<nest, replies>>
    BY <1>5 DEF ProcessManagementRecord, Fails, Nested, Reply, z
  <2>2. [type |-> "UNKNOWN_TYPE", id |-> 0] \in AnswerSet
    BY DEF AnswerSet
  <2>3. Append(replies, [type |-> "UNKNOWN_TYPE", id |-> 0]) \in Seq(AnswerSet)
    BY <1>0, <2>2, AppendProperties, Zenon
  <2>4. [NoNest EXCEPT !.k = "values"] \in NestSet
    BY NestFacts
  <2> QED BY <1>0, <1>2, <1>5, <2>1, <2>3, <2>4, Zenon
<1> QED BY <1>1, <1>3, <1>4, <1>5 DEF HeaderStep

LEMMA FillHeaderTyped == ASSUME Typed, FillHeader PROVE Typed'
<1>1. /\ fill /\ RecordDone(Skipped(in)) /\ Len(HeaderTaken.hdr) = HeaderLen
      /\ HeaderStep(AfterHeader, HeaderTaken.hdr[1])
      /\ UNCHANGED <<at, pend, want, wire, server, got, clean>>
  BY FillHeaderSteps
<1>2. /\ AfterHeader \in Readers /\ AfterHeader.hdr = <<>> /\ AfterHeader.avail = 0
      /\ AfterHeader.closed = in.closed /\ AfterHeader.type = in.type
      /\ HeaderTaken.hdr[1].u = "header" =>
            /\ HeaderTaken.hdr[1].len \in Nat /\ HeaderTaken.hdr[1].pad \in Nat
            /\ HeaderTaken.hdr[1].id \in Nat
  BY <1>1, AfterHeaderFacts
<1>3. ~in.closed
  BY <1>1 DEF Typed, ReaderOK
<1>4. /\ in' \in Readers /\ in'.avail = 0 /\ in'.hdr = <<>> /\ in'.type = in.type
      /\ fill' \in BOOLEAN /\ (fill' => ~in'.closed)
      /\ nest' \in NestSet /\ req' \in RequestSet /\ req'.begun = req.begun
      /\ replies' \in Seq(AnswerSet)
  BY <1>1, <1>2, <1>3, HeaderStepTyped, Zenon
<1>5. ReaderOK(in, fill)'
  <2>1. Len(in'.buf) \in Nat /\ Len(in'.hdr) = 0
    BY <1>4 DEF Readers
  <2> QED BY <1>4, <2>1, Constants DEF ReaderOK
<1>6. at \notin {"accept", "app", "retry", "overrun"}
  BY <1>1 DEF Typed, PlaceOK
<1> QED BY <1>1, <1>4, <1>5, <1>6 DEF Typed, OtherOK, PlaceOK

LEMMA ValueType == \A u \in UnitSet : Value(u) \in Data
BY DEF UnitSet, Value, Data

(* A reader with something to take.                                         *)
LEMMA FirstUnit ==
    ASSUME Typed, in.avail > 0
    PROVE  /\ ~fill /\ in.buf # <<>> /\ in.buf[1] \in UnitSet /\ in.avail \in Nat
           /\ 1 <= in.avail /\ in.avail <= Len(in.buf)
<1>1. in.avail \in Nat /\ in.buf \in Seq(UnitSet) /\ in.avail <= Len(in.buf) /\ (fill => in.avail = 0)
  BY DEF Typed, ReaderOK, Readers
<1> QED BY <1>1

LEMMA TakeTyped ==
    ASSUME NEW s, NEW f, ReaderOK(s, FALSE), NEW n \in Nat, n <= s.avail, f => n = s.avail /\ ~s.closed
    PROVE  ReaderOK(Take(s, n), f) /\ Take(s, n).type = s.type /\ Take(s, n) \in Readers
<1>1. s \in Readers /\ s.avail <= Len(s.buf) /\ Len(s.hdr) < HeaderLen /\ s.avail \in Nat
      /\ s.buf \in Seq(UnitSet) /\ Len(s.buf) \in Nat
  BY DEF ReaderOK, Readers
<1>2. /\ Take(s, n) \in Readers /\ Take(s, n).buf = SubSeq(s.buf, n + 1, Len(s.buf))
      /\ Take(s, n).avail = s.avail - n /\ Take(s, n).hdr = s.hdr /\ Take(s, n).type = s.type
      /\ Take(s, n).closed = s.closed
  BY <1>1, TakeFacts
<1>3. n <= Len(s.buf)
  BY <1>1
<1>4. Len(SubSeq(s.buf, n + 1, Len(s.buf))) = Len(s.buf) - n
  BY <1>1, <1>3, Leave
<1>5. s.avail - n <= Len(s.buf) - n /\ (n = s.avail => s.avail - n = 0)
  BY <1>1, <1>3
<1> QED BY <1>1, <1>2, <1>4, <1>5 DEF ReaderOK

(* The stream as a nested call leaves it.                                   *)
Unnested == [in EXCEPT !.eor = FALSE, !.closed = FALSE]

LEMMA UnnestedFacts ==
    ASSUME Typed
    PROVE  /\ Unnested \in Readers /\ ~Unnested.eor /\ ~Unnested.closed
           /\ Unnested.buf = in.buf /\ Unnested.hdr = in.hdr /\ Unnested.avail = in.avail
           /\ Unnested.unget = in.unget /\ Unnested.type = in.type /\ Unnested.skip = in.skip
           /\ Unnested.contentLen = in.contentLen /\ Unnested.paddingLen = in.paddingLen
           /\ Unnested.errno = in.errno
           /\ ReaderOK(Unnested, FALSE)
<1>1. in \in Readers /\ in.avail <= Len(in.buf) /\ Len(in.hdr) < HeaderLen
  BY DEF Typed, ReaderOK
<1>2. /\ Unnested \in Readers /\ ~Unnested.eor /\ ~Unnested.closed
      /\ Unnested.buf = in.buf /\ Unnested.hdr = in.hdr /\ Unnested.avail = in.avail
      /\ Unnested.unget = in.unget /\ Unnested.type = in.type /\ Unnested.skip = in.skip
      /\ Unnested.contentLen = in.contentLen /\ Unnested.paddingLen = in.paddingLen
      /\ Unnested.errno = in.errno
  BY <1>1 DEF Unnested, Readers
<1> QED BY <1>1, <1>2 DEF ReaderOK

LEMMA ErrorTyped ==
    ASSUME NEW s, ReaderOK(s, FALSE), NEW e \in Errors \ {"0"}
    PROVE  ReaderOK(SetError(s, e), FALSE) /\ SetError(s, e).type = s.type
BY SetErrorFacts DEF ReaderOK

LEMMA ReadBodyTyped == ASSUME Typed, ReadBody PROVE Typed'
<1>0. /\ ~fill /\ nest.k = "body" /\ nest \in NestSet /\ req \in RequestSet
      /\ at \notin {"accept", "app", "retry", "overrun"} /\ ReaderOK(in, fill) /\ fill \in BOOLEAN
      /\ UNCHANGED <<at, pend, want, wire, server, replies, got, clean>>
  BY DEF Typed, OtherOK, PlaceOK, ReadBody
<1>1. ASSUME ReaderOK(in, fill)', nest' \in NestSet, req' \in RequestSet, fill' \in BOOLEAN,
             in'.type = in.type
      PROVE  Typed'
  BY <1>0, <1>1 DEF Typed, OtherOK, PlaceOK
<1>2. CASE in.avail = 0 /\ ~in.closed /\ fill' = TRUE /\ UNCHANGED <<in, nest, req>>
  BY <1>0, <1>1, <1>2 DEF ReaderOK
<1>3. CASE /\ in.avail > 0 /\ nest' = NoNest
           /\ req' = [req EXCEPT !.begun = TRUE, !.role = Body(in.buf[1]).role,
                                 !.keep = Body(in.buf[1]).keep]
           /\ in' = Take(Unnested, 1)
           /\ UNCHANGED fill
  <2>1. in.buf[1] \in UnitSet /\ in.avail \in Nat /\ 1 <= in.avail
    BY <1>3, FirstUnit
  <2>2. Body(in.buf[1]).role \in RoleSet /\ Body(in.buf[1]).keep \in KeepSet
    BY <2>1 DEF RoleSet, KeepSet
  <2>3. req' \in RequestSet
    BY <1>0, <1>3, <2>2 DEF RequestSet
  <2>4. ReaderOK(Take(Unnested, 1), FALSE) /\ Take(Unnested, 1).type = in.type
    BY <2>1, UnnestedFacts, TakeTyped
  <2>5. fill' = FALSE
    BY <1>0, <1>3
  <2>6. ReaderOK(in, fill)'
    BY <1>3, <2>4, <2>5 DEF ReaderOK
  <2> QED BY <1>1, <1>3, <2>3, <2>4, <2>5, <2>6, NestFacts
<1>4. CASE /\ in.avail = 0 /\ in.closed /\ nest' = NoNest
           /\ in' = SetError(Unnested, "PROTOCOL_ERROR")
           /\ UNCHANGED <<req, fill>>
  <2>1. "PROTOCOL_ERROR" \in Errors \ {"0"}
    BY DEF Errors
  <2>2. ReaderOK(in', FALSE) /\ in'.type = in.type
    BY <1>4, <2>1, UnnestedFacts, ErrorTyped
  <2>3. fill' = FALSE
    BY <1>0, <1>4
  <2>4. ReaderOK(in, fill)'
    BY <2>2, <2>3 DEF ReaderOK
  <2> QED BY <1>0, <1>1, <1>4, <2>2, <2>3, <2>4, NestFacts
<1> QED BY <1>2, <1>3, <1>4 DEF ReadBody, Unnested

LEMMA ReadValuesTyped == ASSUME Typed, ReadValues PROVE Typed'
<1> DEFINE value == Value(in.buf[1])
           answer == [type |-> "GET_VALUES_RESULT", id |-> 0, vals |-> ValuesResult(nest.vals)]
<1>0. /\ ~fill /\ nest.k = "values" /\ nest \in NestSet /\ replies \in Seq(AnswerSet)
      /\ at \notin {"accept", "app", "retry", "overrun"} /\ ReaderOK(in, fill) /\ fill \in BOOLEAN
      /\ UNCHANGED <<at, req, pend, want, wire, server, got, clean>>
  BY DEF Typed, OtherOK, PlaceOK, ReadValues
<1>1. ASSUME ReaderOK(in, fill)', nest' \in NestSet, fill' \in BOOLEAN, replies' \in Seq(AnswerSet),
             in'.type = in.type
      PROVE  Typed'
  BY <1>0, <1>1 DEF Typed, OtherOK, PlaceOK
<1>2. CASE in.avail = 0 /\ ~in.closed /\ fill' = TRUE /\ UNCHANGED <<in, nest, replies>>
  BY <1>0, <1>1, <1>2 DEF ReaderOK
<1>3. CASE /\ in.avail > 0 /\ in' = Take(in, 1)
           /\ nest' = IF nest.pend = <<>> THEN [nest EXCEPT !.pend = <<value>>]
                      ELSE [nest EXCEPT !.pend = <<>>, !.vals = Append(@, value)]
           /\ UNCHANGED <<fill, replies>>
  <2>1. in.buf[1] \in UnitSet /\ in.avail \in Nat /\ 1 <= in.avail
    BY <1>3, FirstUnit
  <2>2. value \in Data
    BY <2>1, ValueType
  <2> HIDE DEF value
  <2>3. nest' \in NestSet
    <3>1. <<value>> \in Seq(Data) /\ <<>> \in Seq(Data) /\ Append(nest.vals, value) \in Seq(Data)
      BY <1>0, <2>2 DEF NestSet
    <3> QED BY <1>0, <1>3, <3>1 DEF NestSet
  <2>4. fill' = FALSE /\ ReaderOK(in, FALSE)
    BY <1>0, <1>3 DEF ReaderOK
  <2>5. ReaderOK(Take(in, 1), FALSE) /\ Take(in, 1).type = in.type
    BY <2>1, <2>4, TakeTyped
  <2>6. ReaderOK(in, fill)'
    BY <1>3, <2>4, <2>5 DEF ReaderOK
  <2> QED BY <1>0, <1>1, <1>3, <2>3, <2>4, <2>5, <2>6
<1>4. CASE /\ in.avail = 0 /\ in.closed /\ nest' = NoNest
           /\ \E e \in Errors \ {"0"} : in' = SetError(Unnested, e)
           /\ UNCHANGED <<fill, replies>>
  <2>1. PICK e \in Errors \ {"0"} : in' = SetError(Unnested, e)
    BY <1>4
  <2>2. ReaderOK(in', FALSE) /\ in'.type = in.type
    BY <2>1, UnnestedFacts, ErrorTyped
  <2>3. fill' = FALSE
    BY <1>0, <1>4
  <2>4. ReaderOK(in, fill)'
    BY <2>2, <2>3 DEF ReaderOK
  <2> QED BY <1>0, <1>1, <1>4, <2>2, <2>3, <2>4, NestFacts
<1>5. CASE /\ in.avail = 0 /\ in.closed /\ nest' = NoNest
           /\ replies' = Append(replies, answer) /\ in' = Unnested /\ fill' = TRUE
  <2>1. answer \in AnswerSet
    <3>1. nest.vals \in Seq(Data)
      BY <1>0 DEF NestSet
    <3> QED BY <3>1 DEF AnswerSet
  <2>2. replies' \in Seq(AnswerSet)
    BY <1>0, <1>5, <2>1, AppendProperties, Zenon
  <2>3. ReaderOK(in, fill)' /\ in'.type = in.type
    BY <1>5, UnnestedFacts DEF ReaderOK
  <2> QED BY <1>1, <1>5, <2>2, <2>3, NestFacts
<1>6. {"PARAMS_ERROR", "PROTOCOL_ERROR", "OS_ERROR"} \subseteq Errors \ {"0"}
  BY DEF Errors
<1>7. \/ in.avail = 0 /\ ~in.closed /\ fill' = TRUE /\ UNCHANGED <<in, nest, replies>>
      \/ /\ in.avail > 0 /\ in' = Take(in, 1)
         /\ nest' = IF nest.pend = <<>> THEN [nest EXCEPT !.pend = <<value>>]
                    ELSE [nest EXCEPT !.pend = <<>>, !.vals = Append(@, value)]
         /\ UNCHANGED <<fill, replies>>
      \/ /\ in.avail = 0 /\ in.closed /\ nest' = NoNest
         /\ \/ /\ in' = SetError(Unnested, IF nest.pend # <<>> THEN "PARAMS_ERROR" ELSE "PROTOCOL_ERROR")
               /\ UNCHANGED <<fill, replies>>
            \/ replies' = Append(replies, answer) /\ in' = Unnested /\ fill' = TRUE
            \/ in' = SetError(Unnested, "OS_ERROR") /\ UNCHANGED <<fill, replies>>
  BY DEF ReadValues, Reply, Unnested
<1> QED BY <1>2, <1>3, <1>4, <1>5, <1>6, <1>7

LEMMA BegunTyped == ASSUME Typed, Begun PROVE Typed'
<1>0. /\ ~fill /\ nest.k = "none" /\ at = "begin" /\ in \in Readers /\ req \in RequestSet
      /\ ReaderOK(in, fill) /\ <<>> \in Seq(Data) /\ pend' = <<>>
      /\ UNCHANGED <<fill, nest, want, Requested, clean>>
  BY EmptySeq DEF Typed, ReaderOK, Begun
<1>1. CASE /\ req' = [req EXCEPT !.params = <<req.role>>]
           /\ in' = SetReaderType(in, "PARAMS") /\ at' = "params"
  <2>1. req' \in RequestSet
    <3>1. <<req.role>> \in Seq(RoleSet \cup Data)
      BY <1>0 DEF RequestSet
    <3> QED BY <1>0, <1>1, <3>1 DEF RequestSet
  <2>2. /\ in' \in Readers /\ in'.avail = 0 /\ in'.hdr = in.hdr /\ in'.buf = in.buf
        /\ in'.type = "PARAMS" /\ ~in'.closed
    BY <1>0, <1>1, SetReaderTypeFacts
  <2>3. ReaderOK(in, fill)'
    <3>1. Len(in.buf) \in Nat
      BY <1>0 DEF Readers
    <3> QED BY <1>0, <2>2, <3>1 DEF ReaderOK
  <2> QED BY <1>0, <1>1, <2>1, <2>2, <2>3 DEF Typed, OtherOK, PlaceOK, Requested
<1>2. CASE at' = "retry" /\ UNCHANGED <<in, req>>
  BY <1>0, <1>2 DEF Typed, OtherOK, PlaceOK, Requested, ReaderOK
<1> QED BY <1>1, <1>2 DEF Begun

LEMMA ReadParamsTyped == ASSUME Typed, ReadParams PROVE Typed'
<1> DEFINE value == Value(in.buf[1])
<1>0. /\ ~fill /\ nest.k = "none" /\ at = "params" /\ in \in Readers /\ req \in RequestSet
      /\ ReaderOK(in, fill) /\ <<>> \in Seq(Data) /\ fill \in BOOLEAN /\ pend \in Seq(Data)
      /\ in.type = "PARAMS" /\ UNCHANGED <<nest, want, Requested, clean>>
  BY EmptySeq DEF Typed, ReaderOK, ReadParams, OtherOK, PlaceOK
<1>1. CASE in.avail = 0 /\ ~in.closed /\ fill' = TRUE /\ UNCHANGED <<at, in, req, pend>>
  <2>1. ReaderOK(in, fill)'
    BY <1>0, <1>1 DEF ReaderOK
  <2> QED BY <1>0, <1>1, <2>1 DEF Typed, OtherOK, PlaceOK, Requested
<1>2. CASE /\ in.avail > 0 /\ in' = Take(in, 1)
           /\ pend' = IF pend = <<>> THEN <<value>> ELSE <<>>
           /\ req' = IF pend = <<>> THEN req ELSE [req EXCEPT !.params = PutParam(@, value)]
           /\ UNCHANGED <<at, fill>>
  <2>1. in.buf[1] \in UnitSet /\ in.avail \in Nat /\ 1 <= in.avail
    BY <1>2, FirstUnit
  <2>2. value \in Data
    BY <2>1, ValueType
  <2> HIDE DEF value
  <2>3. pend' \in Seq(Data)
    BY <1>2, <2>2
  <2>4. req' \in RequestSet
    <3>1. Append(req.params, value) \in Seq(RoleSet \cup Data)
      BY <1>0, <2>2 DEF RequestSet
    <3> QED BY <1>0, <1>2, <3>1 DEF RequestSet, PutParam
  <2>5. ReaderOK(in, FALSE)
    BY <1>0 DEF ReaderOK
  <2>6. ReaderOK(Take(in, 1), FALSE) /\ Take(in, 1).type = in.type
    BY <2>1, <2>5, TakeTyped
  <2>7. ReaderOK(in, fill)'
    BY <1>0, <1>2, <2>6 DEF ReaderOK
  <2> QED BY <1>0, <1>2, <2>3, <2>4, <2>6, <2>7 DEF Typed, OtherOK, PlaceOK, Requested
<1>3. CASE /\ in.avail = 0 /\ in.closed
           /\ IF pend # <<>>
              THEN at' = "retry" /\ in' = SetError(in, "PARAMS_ERROR")
              ELSE at' = "app" /\ in' = SetReaderType(in, "STDIN")
           /\ pend' = <<>>
           /\ UNCHANGED <<fill, req>>
  <2>1. CASE at' = "retry" /\ in' = SetError(in, "PARAMS_ERROR")
    <3>1. "PARAMS_ERROR" \in Errors \ {"0"}
      BY DEF Errors
    <3>2. ReaderOK(in, FALSE)
      BY <1>0 DEF ReaderOK
    <3>3. ReaderOK(in, fill)'
      BY <1>0, <1>3, <2>1, <3>1, <3>2, ErrorTyped DEF ReaderOK
    <3> QED BY <1>0, <1>3, <2>1, <3>3 DEF Typed, OtherOK, PlaceOK, Requested
  <2>2. CASE at' = "app" /\ in' = SetReaderType(in, "STDIN")
    <3>1. /\ in' \in Readers /\ in'.avail = 0 /\ in'.hdr = in.hdr /\ in'.buf = in.buf
          /\ in'.type = "STDIN" /\ ~in'.closed
      BY <1>0, <2>2, SetReaderTypeFacts
    <3>2. ReaderOK(in, fill)'
      <4>1. Len(in.buf) \in Nat
        BY <1>0 DEF Readers
      <4> QED BY <1>0, <1>3, <3>1, <4>1 DEF ReaderOK
    <3> QED BY <1>0, <1>3, <2>2, <3>1, <3>2 DEF Typed, OtherOK, PlaceOK, Requested
  <2> QED BY <1>3, <2>1, <2>2
<1> QED BY <1>1, <1>2, <1>3 DEF ReadParams

LEMMA TryAgainTyped == ASSUME Typed, TryAgain PROVE Typed'
<1>1. req' \in RequestSet /\ ~req'.begun
  <2>1. <<>> \in Seq(RoleSet \cup Data)
    OBVIOUS
  <2> QED BY <2>1 DEF Typed, TryAgain, RequestSet
<1> QED BY <1>1 DEF Typed, TryAgain, OtherOK, PlaceOK, ReaderOK, Requested

(* A call takes all that it may have, all that it wants, or a line.         *)
LEMMA ChunkFacts ==
    ASSUME Typed
    PROVE  /\ Chunk \in Nat /\ Chunk <= in.avail /\ Chunk <= want.n
           /\ \/ Chunk = in.avail \/ Chunk = want.n
              \/ want.line /\ Chunk > 0 /\ Value(in.buf[Chunk]) = "\n"
<1> DEFINE n == Least(want.n, in.avail)
           newlines == {i \in 1..n : Value(in.buf[i]) = "\n"}
<1>1. want.n \in Nat /\ in.avail \in Nat
  BY DEF Typed, OtherOK, ReaderOK, Readers
<1>2. n \in Nat /\ n <= want.n /\ n <= in.avail /\ (n < want.n => n = in.avail)
  BY <1>1, LeastFacts, Zenon
<1>3. CASE want.line /\ newlines # {}
  <2>1. Chunk = CHOOSE i \in newlines : \A j \in newlines : i <= j
    BY <1>3 DEF Chunk
  <2>2. newlines \subseteq Nat
    BY <1>2
  <2>3. \E i \in newlines : \A j \in newlines : i <= j
    BY <1>3, <2>2, LeastNumber
  <2>4. Chunk \in newlines
    BY <2>1, <2>3, Zenon
  <2> QED BY <1>1, <1>2, <1>3, <2>4
<1>4. CASE ~(want.line /\ newlines # {})
  <2>1. Chunk = n
    BY <1>4 DEF Chunk
  <2> HIDE DEF n
  <2> QED BY <1>1, <1>2, <2>1
<1> QED BY <1>3, <1>4

(* What a call of the handler takes, and what it does then.                 *)
Taken == IF in.closed THEN 0 ELSE Chunk

LEMMA ReadingFacts ==
    ASSUME Typed, Reading
    PROVE  /\ Taken \in Nat /\ Taken <= in.avail /\ Taken <= want.n
           /\ in' = Take(in, Taken)
           /\ got' = [got EXCEPT ![in.type] = @ \o [i \in 1..Taken |-> Value(in.buf[i])]]
           /\ [i \in 1..Taken |-> Value(in.buf[i])] \in Seq(Data)
           /\ want' \in [n : Nat, line : BOOLEAN]
           /\ \/ at' = "app" /\ UNCHANGED fill
              \/ at' = at /\ fill' = TRUE /\ Taken = in.avail /\ ~in.closed
           /\ at = "read" /\ ~fill /\ nest.k = "none"
           /\ UNCHANGED <<nest, req, pend, wire, server, replies, clean>>
<1> DEFINE ended == want.line /\ Taken > 0 /\ Value(in.buf[Taken]) = "\n"
           left == IF ended THEN 0 ELSE want.n - Taken
<1>0. /\ want \in [n : Nat, line : BOOLEAN] /\ want.n \in Nat /\ in.avail \in Nat /\ in.closed \in BOOLEAN
      /\ in.buf \in Seq(UnitSet) /\ in.avail <= Len(in.buf)
      /\ got \in [{"STDIN", "DATA"} -> Seq(Data)] /\ in.type \in {"STDIN", "DATA"}
  BY DEF Typed, OtherOK, ReaderOK, Readers, PlaceOK, Reading
<1>1. /\ Taken \in Nat /\ Taken <= in.avail /\ Taken <= want.n
      /\ in.closed \/ Taken = in.avail \/ Taken = want.n \/ ended
  BY <1>0, ChunkFacts DEF Taken
<1>2. /\ in' = Take(in, Taken)
      /\ got' = IF in.type \in DOMAIN got
                THEN [got EXCEPT ![in.type] = @ \o [i \in 1..Taken |-> Value(in.buf[i])]] ELSE got
      /\ want' = [want EXCEPT !.n = IF ended THEN 0 ELSE @ - Taken]
      /\ IF ReadEnds(want'.n) THEN at' = "app" /\ UNCHANGED fill
         ELSE fill' = TRUE /\ UNCHANGED at
      /\ at = "read" /\ ~fill /\ nest.k = "none"
      /\ UNCHANGED <<nest, req, pend, wire, server, replies, clean>>
  BY DEF Reading, Taken
<1>3. \A i \in 1..Taken : Value(in.buf[i]) \in Data
  <2>1. \A i \in 1..Taken : in.buf[i] \in UnitSet
    BY <1>0, <1>1
  <2> QED BY <2>1, ValueType
<1>4. [i \in 1..Taken |-> Value(in.buf[i])] \in Seq(Data)
  BY <1>1, <1>3
<1>5. left \in Nat
  BY <1>0, <1>1
<1>6. want' = [want EXCEPT !.n = left]
  BY <1>2
<1>7. want' \in [n : Nat, line : BOOLEAN] /\ want'.n = left
  BY <1>0, <1>5, <1>6
<1>8. left # 0 /\ ~in.closed => Taken = in.avail
  BY <1>0, <1>1
<1>9. \/ at' = "app" /\ UNCHANGED fill
      \/ at' = at /\ fill' = TRUE /\ Taken = in.avail /\ ~in.closed
  BY <1>2, <1>7, <1>8, Zenon DEF ReadEnds
<1>10. got' = [got EXCEPT ![in.type] = @ \o [i \in 1..Taken |-> Value(in.buf[i])]]
  BY <1>0, <1>2
<1> QED BY <1>1, <1>2, <1>4, <1>7, <1>9, <1>10, Zenon

LEMMA ReadingTyped == ASSUME Typed, Reading PROVE Typed'
<1> DEFINE new == [i \in 1..Taken |-> Value(in.buf[i])]
<1>1. /\ Taken \in Nat /\ Taken <= in.avail
      /\ in' = Take(in, Taken)
      /\ got' = [got EXCEPT ![in.type] = @ \o new]
      /\ new \in Seq(Data)
      /\ want' \in [n : Nat, line : BOOLEAN]
      /\ \/ at' = "app" /\ UNCHANGED fill
         \/ at' = at /\ fill' = TRUE /\ Taken = in.avail /\ ~in.closed
      /\ at = "read" /\ ~fill /\ nest.k = "none"
      /\ UNCHANGED <<nest, req, pend, wire, server, replies, clean>>
  BY ReadingFacts
<1> HIDE DEF new
<1>2. /\ ReaderOK(in, FALSE) /\ in.type \in {"STDIN", "DATA"} /\ got \in [{"STDIN", "DATA"} -> Seq(Data)]
  BY <1>1 DEF Typed, OtherOK, PlaceOK, ReaderOK
<1>3. ReaderOK(in', fill') /\ in'.type = in.type
  <2>1. fill' => Taken = in.avail /\ ~in.closed
    BY <1>1
  <2> QED BY <1>1, <1>2, <2>1, TakeTyped
<1>4. got' \in [{"STDIN", "DATA"} -> Seq(Data)]
  BY <1>1, <1>2
<1>5. at' \in {"app", "read"} /\ fill' \in BOOLEAN /\ (at' = "app" => ~fill')
  <2>1. "app" # "read" /\ fill \in BOOLEAN
    BY DEF Typed, OtherOK
  <2>2. CASE at' = "app" /\ fill' = fill
    BY <1>1, <2>1, <2>2, Zenon
  <2>3. CASE at' = at /\ fill' = TRUE
    BY <1>1, <2>1, <2>3, Zenon
  <2> QED BY <1>1, <2>2, <2>3, Zenon
<1> QED BY <1>1, <1>2, <1>3, <1>4, <1>5 DEF Typed, OtherOK, PlaceOK

LEMMA ServerRequestsTyped == ASSUME Typed, ServerRequests PROVE Typed'
<1>1. /\ at = "accept" /\ at' = "begin" /\ fill' = TRUE /\ in' = NewReader /\ replies' = <<>>
      /\ got' = Nothing /\ UNCHANGED <<nest, pend, want>>
      /\ \/ req' = [req EXCEPT !.conn = TRUE] /\ wire' = <<>> /\ clean' = TRUE
         \/ UNCHANGED <<req, wire, clean>>
  BY DEF ServerRequests
<1>2. PICK q \in DOMAIN Requests, patient \in BOOLEAN :
          server' = [q |-> q, rest |-> IF req.conn THEN server.rest \o Requests[q] ELSE Requests[q],
                     patient |-> patient, dead |-> FALSE, count |-> server.count + 1]
  BY Constants DEF ServerRequests
<1>3. server' \in [q : DOMAIN Requests \cup {"none"}, rest : Seq(Recs), patient : BOOLEAN,
                   dead : BOOLEAN, count : Nat] /\ ~server'.dead
  <2>1. Requests[q] \in Seq(Recs) /\ server.rest \in Seq(Recs) /\ server.count \in Nat
    BY RequestShape DEF Typed, OtherOK
  <2>2. (IF req.conn THEN server.rest \o Requests[q] ELSE Requests[q]) \in Seq(Recs)
    BY <2>1, ConcatProperties
  <2> QED BY <1>2, <2>1, <2>2
<1>4. req' \in RequestSet /\ wire' \in Seq(UnitSet) /\ clean' \in BOOLEAN
  <2>1. req \in RequestSet /\ wire \in Seq(UnitSet) /\ clean \in BOOLEAN /\ <<>> \in Seq(UnitSet)
    BY EmptySeq, Zenon DEF Typed, OtherOK
  <2>2. [req EXCEPT !.conn = TRUE] \in RequestSet
    BY <2>1 DEF RequestSet
  <2> QED BY <1>1, <2>1, <2>2, Zenon
<1>5. ReaderOK(in, fill)' /\ in'.type = "0"
  BY <1>1, NewReaderOK DEF NewReader, ReaderOK
<1>6. got' \in [{"STDIN", "DATA"} -> Seq(Data)] /\ replies' \in Seq(AnswerSet)
  BY <1>1 DEF Nothing
<1> QED BY <1>1, <1>3, <1>4, <1>5, <1>6 DEF Typed, OtherOK, PlaceOK

LEMMA ServerSendsTyped == ASSUME Typed, ServerSends PROVE Typed'
<1>0. /\ wire \in Seq(UnitSet) /\ server.rest \in Seq(Recs)
      /\ server \in [q : DOMAIN Requests \cup {"none"}, rest : Seq(Recs), patient : BOOLEAN,
                     dead : BOOLEAN, count : Nat]
      /\ ~server.dead
  BY DEF Typed, OtherOK, ServerSends
<1>1. PICK n \in 1..Len(server.rest) :
          LET units == AllUnits(SubSeq(server.rest, 1, n)) IN
          \/ /\ wire' = wire \o units
             /\ server' = [server EXCEPT !.rest = SubSeq(@, n + 1, Len(@))]
          \/ \E k \in 0..Len(units) :
                /\ wire' = wire \o SubSeq(units, 1, k)
                /\ server' = [server EXCEPT !.rest = <<>>, !.dead = TRUE]
  BY DEF ServerSends
<1>2. SubSeq(server.rest, 1, n) \in Seq(Recs) /\ SubSeq(server.rest, n + 1, Len(server.rest)) \in Seq(Recs)
  BY <1>0
<1> DEFINE units == AllUnits(SubSeq(server.rest, 1, n))
<1>3. units \in Seq(UnitSet)
  BY <1>2, AllUnitsType
<1> HIDE DEF units
<1>4. CASE /\ wire' = wire \o units
           /\ server' = [server EXCEPT !.rest = SubSeq(@, n + 1, Len(@))]
  <2>1. wire' \in Seq(UnitSet)
    BY <1>0, <1>3, <1>4
  <2>2. server' \in [q : DOMAIN Requests \cup {"none"}, rest : Seq(Recs), patient : BOOLEAN,
                     dead : BOOLEAN, count : Nat] /\ ~server'.dead
    BY <1>0, <1>2, <1>4
  <2> QED BY <2>1, <2>2 DEF Typed, OtherOK, PlaceOK, ReaderOK, ServerSends
<1>5. CASE \E k \in 0..Len(units) :
              /\ wire' = wire \o SubSeq(units, 1, k)
              /\ server' = [server EXCEPT !.rest = <<>>, !.dead = TRUE]
  <2>1. wire' \in Seq(UnitSet)
    BY <1>0, <1>3, <1>5
  <2>2. server' \in [q : DOMAIN Requests \cup {"none"}, rest : Seq(Recs), patient : BOOLEAN,
                     dead : BOOLEAN, count : Nat] /\ server'.rest = <<>>
    <3>1. <<>> \in Seq(Recs)
      OBVIOUS
    <3> QED BY <1>0, <1>5, <3>1
  <2> QED BY <2>1, <2>2 DEF Typed, OtherOK, PlaceOK, ReaderOK, ServerSends
<1> QED BY <1>1, <1>4, <1>5 DEF units

LEMMA ReadTyped == ASSUME Typed, NEW n \in ReadSizes, NEW line \in BOOLEAN, Read(n, line) PROVE Typed'
<1>1. want' \in [n : Nat, line : BOOLEAN]
  BY Constants DEF Read
<1> QED BY <1>1 DEF Typed, OtherOK, PlaceOK, ReaderOK, Read, InHandler, Requested

LEMMA UnGetCharTyped == ASSUME Typed, FCGX_UnGetChar PROVE Typed'
<1> DEFINE read == got[in.type]
           unit == [u |-> "content", c |-> Last(read)]
<1>0. /\ in \in Readers /\ in.avail <= Len(in.buf) /\ in.buf \in Seq(UnitSet) /\ in.avail \in Nat
      /\ in.unget \in Nat /\ in.unget > 0 /\ Len(in.hdr) < HeaderLen /\ ~fill
      /\ in.type \in {"STDIN", "DATA"} /\ got \in [{"STDIN", "DATA"} -> Seq(Data)]
      /\ read \in Seq(Data) /\ read # <<>> /\ at = "app"
      /\ in' = [in EXCEPT !.buf = <<unit>> \o @, !.avail = @ + 1, !.unget = @ - 1]
      /\ got' = [got EXCEPT ![in.type] = Front(@)]
      /\ UNCHANGED <<at, fill, nest, req, pend, want, wire, server, replies, clean>>
  BY DEF Typed, OtherOK, ReaderOK, Readers, PlaceOK, FCGX_UnGetChar, InHandler
<1>1. Last(read) \in Data /\ Front(read) \in Seq(Data)
  <2> HIDE DEF read
  <2>1. Len(read) \in 1..Len(read)
    BY <1>0
  <2> QED BY <1>0, <2>1 DEF Last, Front
<1>2. unit \in UnitSet
  BY <1>1 DEF UnitSet
<1> HIDE DEF unit, read
<1>3. <<unit>> \o in.buf \in Seq(UnitSet) /\ Len(<<unit>> \o in.buf) = Len(in.buf) + 1
  <2>1. <<unit>> \in Seq(UnitSet) /\ Len(<<unit>>) = 1
    BY <1>2
  <2> QED BY <1>0, <2>1, ConcatProperties
<1>4. in.unget - 1 \in Nat /\ in.avail + 1 \in Nat /\ in.avail + 1 <= Len(in.buf) + 1
  BY <1>0
<1>5. in' = [in EXCEPT !.buf = <<unit>> \o in.buf, !.avail = in.avail + 1, !.unget = in.unget - 1]
  BY <1>0
<1>6. /\ in' \in Readers /\ in'.buf = <<unit>> \o in.buf /\ in'.avail = in.avail + 1
      /\ in'.hdr = in.hdr /\ in'.type = in.type
  BY <1>0, <1>3, <1>4, <1>5 DEF Readers
<1>7. ReaderOK(in, fill)'
  BY <1>0, <1>3, <1>4, <1>6 DEF ReaderOK
<1>8. got' \in [{"STDIN", "DATA"} -> Seq(Data)]
  BY <1>0, <1>1 DEF read
<1> QED BY <1>0, <1>6, <1>7, <1>8 DEF Typed, OtherOK, PlaceOK

LEMMA StartFilterDataTyped == ASSUME Typed, FCGX_StartFilterData PROVE Typed'
<1>0. /\ at = "app" /\ ~fill /\ ReaderOK(in, FALSE) /\ in \in Readers
      /\ in.type \in {"STDIN", "DATA"} /\ "CALL_SEQ_ERROR" \in Errors \ {"0"}
      /\ in' = SetReaderType(in, "DATA") \/ in' = SetError(in, "CALL_SEQ_ERROR")
      /\ UNCHANGED <<at, fill, nest, req, pend, want, Requested, clean>>
  BY DEF Typed, PlaceOK, ReaderOK, FCGX_StartFilterData, InHandler, Errors
<1>1. ReaderOK(in', FALSE) /\ in'.type \in {"STDIN", "DATA"}
  <2>1. CASE in' = SetReaderType(in, "DATA")
    <3>1. /\ in' \in Readers /\ in'.avail = 0 /\ in'.hdr = in.hdr /\ in'.buf = in.buf
          /\ in'.type = "DATA"
      BY <1>0, <2>1, SetReaderTypeFacts
    <3>2. Len(in.buf) \in Nat
      BY <1>0 DEF Readers
    <3> QED BY <1>0, <3>1, <3>2 DEF ReaderOK
  <2>2. CASE in' = SetError(in, "CALL_SEQ_ERROR")
    BY <1>0, <2>2, ErrorTyped
  <2> QED BY <1>0, <2>1, <2>2
<1>2. ReaderOK(in, fill)'
  BY <1>0, <1>1 DEF ReaderOK
<1> QED BY <1>0, <1>1, <1>2 DEF Typed, OtherOK, PlaceOK, Requested

LEMMA FinishTyped == ASSUME Typed, FCGX_Finish_r PROVE Typed'
<1>1. PICK close \in BOOLEAN : req' = [req EXCEPT !.conn = ~close, !.begun = FALSE, !.params = <<>>]
  <2>1. PICK failed \in BOOLEAN :
            LET close == ~req.keep \/ in.errno # "0" \/ failed IN
            req' = [req EXCEPT !.conn = ~close, !.begun = FALSE, !.params = <<>>]
    BY DEF FCGX_Finish_r
  <2> DEFINE c == ~req.keep \/ in.errno # "0" \/ failed
  <2>2. c \in BOOLEAN
    OBVIOUS
  <2> QED BY <2>1, <2>2
<1>2. req' \in RequestSet /\ ~req'.begun
  <2>1. <<>> \in Seq(RoleSet \cup Data)
    OBVIOUS
  <2> QED BY <1>1, <2>1 DEF Typed, RequestSet
<1>3. in' = NewReader /\ at' = "accept" /\ clean' \in BOOLEAN /\ at = "app"
      /\ UNCHANGED <<fill, nest, pend, want, Requested>>
  BY DEF FCGX_Finish_r, InHandler
<1>4. ReaderOK(in', fill')
  BY <1>3, NewReaderOK
<1> QED BY <1>2, <1>3, <1>4 DEF Typed, OtherOK, PlaceOK, Requested

LEMMA MainAbandonsTyped == ASSUME Typed, MainAbandons PROVE Typed'
<1>1. req' \in RequestSet /\ ~req'.begun
  BY DEF MainAbandons, NoRequest, RequestSet, RoleSet, KeepSet
<1>2. ReaderOK(in', fill')
  BY NewReaderOK DEF MainAbandons
<1> QED BY <1>1, <1>2 DEF Typed, MainAbandons, InHandler, OtherOK, PlaceOK, Requested

(* A signal: the reader fails, and nothing else changes.                    *)
LEMMA FailureTyped ==
    ASSUME Typed, ReaderOK(in, fill)', fill' = FALSE, nest' \in NestSet, in'.type = in.type,
           at \notin {"accept", "app", "retry", "overrun"}, clean' \in BOOLEAN,
           UNCHANGED <<at, req, pend, want, wire, server, replies, got>>
    PROVE  Typed'
BY DEF Typed, OtherOK, PlaceOK

LEMMA InterruptedTyped == ASSUME Typed, Interrupted PROVE Typed'
<1>0. /\ clean' = FALSE /\ UNCHANGED <<at, req, pend, want, wire, server, replies, got>>
      /\ "EINTR" \in Errors \ {"0"} /\ nest \in NestSet
  BY DEF Interrupted, Untouched, Errors, Typed
<1>1. CASE ReadInterrupted
  <2> DEFINE z == [in EXCEPT !.hdr = <<>>]
  <2>1. fill /\ in' = SetError(z, "EINTR") /\ fill' = FALSE /\ nest' = nest
    BY <1>1 DEF ReadInterrupted, Fails
  <2>2. in \in Readers /\ in.avail <= Len(in.buf)
    BY DEF Typed, ReaderOK
  <2>3. z \in Readers /\ z.avail = in.avail /\ z.buf = in.buf /\ z.hdr = <<>> /\ z.type = in.type
    <3>1. <<>> \in Seq(UnitSet)
      OBVIOUS
    <3> QED BY <2>2, <3>1 DEF Readers
  <2> HIDE DEF z
  <2>4. ReaderOK(z, FALSE)
    BY <2>2, <2>3, Constants DEF ReaderOK
  <2>5. ReaderOK(in', FALSE) /\ in'.type = in.type
    BY <1>0, <2>1, <2>3, <2>4, ErrorTyped
  <2>6. ReaderOK(in, fill)'
    BY <2>1, <2>5 DEF ReaderOK
  <2>7. at \notin {"accept", "app", "retry", "overrun"}
    BY <2>1 DEF Typed, PlaceOK
  <2> QED BY <1>0, <2>1, <2>5, <2>6, <2>7, FailureTyped
<1>2. CASE ReplyInterrupted
  <2> DEFINE h == HeaderTaken.hdr[1]
             z == Sized(AfterHeader, h)
  <2>1. /\ fill /\ RecordDone(Skipped(in)) /\ Len(HeaderTaken.hdr) = HeaderLen /\ h.u = "header"
        /\ in' = SetError(z, "EINTR") /\ fill' = FALSE /\ nest' = nest
    BY <1>2 DEF ReplyInterrupted, HeaderTaken, AfterHeader, Fails
  <2>2. /\ AfterHeader \in Readers /\ AfterHeader.hdr = <<>> /\ AfterHeader.avail = 0
        /\ AfterHeader.type = in.type /\ h.len \in Nat /\ h.pad \in Nat
    BY <2>1, AfterHeaderFacts
  <2>3. z \in Readers /\ z.avail = 0 /\ z.hdr = <<>> /\ z.type = in.type
    BY <2>2, SizedFacts
  <2> HIDE DEF z
  <2>4. ReaderOK(z, FALSE)
    BY <2>3, Constants DEF ReaderOK, Readers
  <2>5. ReaderOK(in', FALSE) /\ in'.type = in.type
    BY <1>0, <2>1, <2>3, <2>4, ErrorTyped
  <2>6. ReaderOK(in, fill)'
    BY <2>1, <2>5 DEF ReaderOK
  <2>7. at \notin {"accept", "app", "retry", "overrun"}
    BY <2>1 DEF Typed, PlaceOK
  <2> QED BY <1>0, <2>1, <2>5, <2>6, <2>7, FailureTyped
<1>3. CASE ValuesInterrupted
  <2>1. nest.k = "values" /\ fill' = FALSE /\ in' = SetError(Unnested, "EINTR") /\ nest' = NoNest
    BY <1>3 DEF ValuesInterrupted, MakesResult, Unnested, Typed, OtherOK
  <2>2. ReaderOK(in', FALSE) /\ in'.type = in.type
    BY <1>0, <2>1, UnnestedFacts, ErrorTyped
  <2>3. ReaderOK(in, fill)'
    BY <2>1, <2>2 DEF ReaderOK
  <2>4. at \notin {"accept", "app", "retry", "overrun"}
    BY <2>1 DEF Typed, PlaceOK
  <2> QED BY <1>0, <2>1, <2>2, <2>3, <2>4, FailureTyped, NestFacts
<1> QED BY <1>1, <1>2, <1>3 DEF Interrupted

LEMMA OverrunsTyped == ASSUME Typed, Overruns PROVE Typed'
<1>1. /\ ~fill /\ at' = "overrun" /\ nest' \in NestSet /\ nest'.k = "none"
      /\ UNCHANGED <<fill, in, req, pend, want, wire, server, replies, got, clean>>
  BY NestFacts DEF Overruns, MakesResult
<1> QED BY <1>1 DEF Typed, OtherOK, ReaderOK, PlaceOK

LEMMA NextTyped == ASSUME Typed, [Next]_vars PROVE Typed'
<1>1. CASE UNCHANGED vars
  BY <1>1 DEF vars, Typed, OtherOK, ReaderOK, PlaceOK
<1>2. CASE Next
  BY <1>2, OS_ReadTyped, DeliverTyped, AdvanceTyped, FillHeaderTyped, ReadBodyTyped, ReadValuesTyped,
     BegunTyped, ReadParamsTyped, TryAgainTyped, ReadingTyped, ServerRequestsTyped, ServerSendsTyped,
     ReadTyped, UnGetCharTyped, StartFilterDataTyped, FinishTyped, MainAbandonsTyped, InterruptedTyped,
     OverrunsTyped, Zenon
     DEF Next, Library
<1> QED BY <1>1, <1>2

(* FillBuffProc keeps stop within its buffer and never leaves a whole header *)
(* unprocessed, and no call of the reader is under way while a handler runs. *)
THEOREM TypeCorrect == Spec => []TypeOK
<1>1. Init => Typed
  BY InitTyped
<1>2. Typed /\ [Next]_vars => Typed'
  BY NextTyped
<1>3. Typed => TypeOK
  BY TypedTypes
<1> QED BY <1>1, <1>2, <1>3, PTL DEF Spec

-----------------------------------------------------------------------------
(* The other end: what comes before, put together.                          *)

Past(ss, i) == FlattenSeq(SubSeq(ss, 1, i))

LEMMA PastType ==
    ASSUME NEW S, NEW ss \in Seq(Seq(S)), NEW i \in 0..Len(ss)
    PROVE  Past(ss, i) \in Seq(S)
<1>1. SubSeq(ss, 1, i) \in Seq(Seq(S))
  OBVIOUS
<1> QED BY <1>1, FlattenType DEF Past

LEMMA PastNone ==
    ASSUME NEW S, NEW ss \in Seq(Seq(S))
    PROVE  Past(ss, 0) = <<>>
<1>1. SubSeq(ss, 1, 0) = <<>>
  OBVIOUS
<1> QED BY <1>1, FlattenEmpty DEF Past

LEMMA PastRest ==
    ASSUME NEW S, NEW ss \in Seq(Seq(S)), NEW i \in 0..Len(ss)
    PROVE  FlattenSeq(ss) = Past(ss, i) \o Rest(ss, i)
<1>1. 0 \in 0..Len(ss) /\ i \in 0..Len(ss) /\ 0 + 1 = 1
  OBVIOUS
<1>2. Rest(ss, 0) = FlattenSeq(SubSeq(ss, 0 + 1, i)) \o Rest(ss, i)
  BY <1>1, RestSplit
<1> QED BY <1>1, <1>2, RestAll DEF Past

LEMMA PastStep ==
    ASSUME NEW S, NEW ss \in Seq(Seq(S)), NEW i \in 0..(Len(ss) - 1)
    PROVE  Past(ss, i + 1) = Past(ss, i) \o ss[i + 1]
<1>1. /\ SubSeq(ss, 1, i) \in Seq(Seq(S)) /\ ss[i + 1] \in Seq(S)
      /\ SubSeq(ss, 1, i + 1) = Append(SubSeq(ss, 1, i), ss[i + 1])
  <2>1. 1 \in 1..Len(ss) /\ i + 1 \in 1..Len(ss) /\ i + 1 \in 1..(Len(ss) + 1)
    OBVIOUS
  <2> DEFINE a == SubSeq(ss, 1, i + 1)
             b == SubSeq(ss, 1, i)
             x == ss[i + 1]
  <2>2. /\ a \in Seq(Seq(S)) /\ b \in Seq(Seq(S)) /\ x \in Seq(S) /\ Len(a) = i + 1 /\ Len(b) = i
        /\ \A j \in 1..i : a[j] = b[j]
        /\ a[i + 1] = x
    BY <2>1
  <2> HIDE DEF a, b, x
  <2>3. a = Append(b, x)
    <3>1. /\ Append(b, x) \in Seq(Seq(S)) /\ Len(Append(b, x)) = i + 1
          /\ \A j \in 1..i : Append(b, x)[j] = b[j]
          /\ Append(b, x)[i + 1] = x
      BY <2>2, AppendProperties
    <3>2. \A j \in 1..(i + 1) : j \in 1..i \/ j = i + 1
      OBVIOUS
    <3>3. \A j \in 1..(i + 1) : Append(b, x)[j] = a[j]
      BY <2>2, <3>1, <3>2
    <3> QED BY <2>2, <3>1, <3>3, SeqEqual
  <2> QED BY <2>2, <2>3 DEF a, b, x
<1> QED BY <1>1, FlattenAppend DEF Past

LEMMA PastAll ==
    ASSUME NEW S, NEW ss \in Seq(Seq(S))
    PROVE  Past(ss, Len(ss)) = FlattenSeq(ss)
<1>1. SubSeq(ss, 1, Len(ss)) = ss
  BY SubSeqFull
<1> QED BY <1>1 DEF Past

(* It gets longer, and it is a prefix.                                      *)
LEMMA PastLonger ==
    ASSUME NEW S, NEW ss \in Seq(Seq(S)), NEW i \in 0..Len(ss), NEW j \in i..Len(ss)
    PROVE  Len(Past(ss, i)) <= Len(Past(ss, j))
<1> DEFINE a == Past(ss, i)
           b == Past(ss, j)
           c == Rest(ss, i)
           d == Rest(ss, j)
<1>1. j \in 0..Len(ss)
  OBVIOUS
<1>2. /\ a \in Seq(S) /\ b \in Seq(S) /\ c \in Seq(S) /\ d \in Seq(S)
      /\ a \o c = b \o d
  BY <1>1, PastType, RestType, PastRest
<1>3. Len(d) <= Len(c)
  BY RestShorter
<1> HIDE DEF a, b, c, d
<1>4. Len(a) + Len(c) = Len(b) + Len(d) /\ Len(a) \in Nat /\ Len(b) \in Nat /\ Len(c) \in Nat /\ Len(d) \in Nat
  <2>1. Len(a \o c) = Len(a) + Len(c) /\ Len(b \o d) = Len(b) + Len(d)
    BY <1>2, ConcatProperties
  <2> QED BY <1>2, <2>1
<1>5. Len(a) <= Len(b)
  BY <1>3, <1>4
<1> QED BY <1>5 DEF a, b

LEMMA PastPrefix ==
    ASSUME NEW S, NEW ss \in Seq(Seq(S)), NEW i \in 0..Len(ss)
    PROVE  IsPrefix(Past(ss, i), FlattenSeq(ss))
<1>1. Past(ss, i) \in Seq(S) /\ Rest(ss, i) \in Seq(S) /\ FlattenSeq(ss) = Past(ss, i) \o Rest(ss, i)
  BY PastType, RestType, PastRest
<1> QED BY <1>1, PrefixOfConcat

LEMMA PastEmpty ==
    ASSUME NEW S, NEW ss \in Seq(Seq(S)), NEW i \in 0..Len(ss), \A j \in 1..i : ss[j] = <<>>
    PROVE  Past(ss, i) = <<>>
<1> DEFINE T == {m \in Nat : m <= i => Past(ss, m) = <<>>}
<1>1. 0 \in T
  BY PastNone
<1>2. ASSUME NEW m \in Nat, m \in T PROVE m + 1 \in T
  <2> SUFFICES ASSUME m + 1 <= i PROVE Past(ss, m + 1) = <<>>
    OBVIOUS
  <2>1. Past(ss, m) = <<>> /\ m \in 0..(Len(ss) - 1) /\ m + 1 \in 1..i
    BY <1>2
  <2>2. Past(ss, m + 1) = Past(ss, m) \o ss[m + 1] /\ ss[m + 1] = <<>>
    BY <2>1, PastStep
  <2>3. <<>> \o <<>> = <<>>
    OBVIOUS
  <2> QED BY <2>1, <2>2, <2>3
<1> HIDE DEF T
<1>3. Nat \subseteq T
  BY <1>1, <1>2, SetInduction
<1>4. i \in T
  BY <1>3
<1> QED BY <1>4 DEF T

(* Nothing more comes.                                                      *)
LEMMA PastWhole ==
    ASSUME NEW S, NEW ss \in Seq(Seq(S)), NEW i \in 0..Len(ss),
           \A j \in (i + 1)..Len(ss) : ss[j] = <<>>
    PROVE  Past(ss, i) = FlattenSeq(ss)
<1>1. Rest(ss, i) = <<>> /\ Past(ss, i) \in Seq(S)
  BY RestEmpty, PastType
<1>2. Past(ss, i) \o <<>> = Past(ss, i)
  BY <1>1, ConcatEmptySeq
<1> QED BY <1>1, <1>2, PastRest

(* The first of a sequence, and one more.                                   *)
LEMMA FirstStep ==
    ASSUME NEW S, NEW c \in Seq(S), NEW n \in 0..(Len(c) - 1)
    PROVE  /\ SubSeq(c, 1, n) \in Seq(S) /\ Len(SubSeq(c, 1, n)) = n
           /\ SubSeq(c, 1, n + 1) = Append(SubSeq(c, 1, n), c[n + 1])
           /\ c[n + 1] \in S
<1> DEFINE a == SubSeq(c, 1, n + 1)
           b == SubSeq(c, 1, n)
           x == c[n + 1]
<1>1. /\ a \in Seq(S) /\ b \in Seq(S) /\ x \in S /\ Len(a) = n + 1 /\ Len(b) = n
      /\ \A j \in 1..n : a[j] = b[j]
      /\ a[n + 1] = x
  OBVIOUS
<1> HIDE DEF a, b, x
<1>2. /\ Append(b, x) \in Seq(S) /\ Len(Append(b, x)) = n + 1
      /\ \A j \in 1..n : Append(b, x)[j] = b[j]
      /\ Append(b, x)[n + 1] = x
  BY <1>1, AppendProperties
<1>3. \A j \in 1..(n + 1) : j \in 1..n \/ j = n + 1
  OBVIOUS
<1>4. \A j \in 1..(n + 1) : Append(b, x)[j] = a[j]
  BY <1>1, <1>2, <1>3
<1>5. a = Append(b, x)
  BY <1>1, <1>2, <1>4, SeqEqual
<1> QED BY <1>1, <1>5 DEF a, b, x

(* Taking m more.                                                           *)
LEMMA FirstMore ==
    ASSUME NEW S, NEW c \in Seq(S), NEW n \in 0..Len(c), NEW m \in 0..(Len(c) - n), NEW y \in Seq(S),
           Len(y) = m, \A j \in 1..m : y[j] = c[n + j]
    PROVE  SubSeq(c, 1, n) \o y = SubSeq(c, 1, n + m)
<1> DEFINE a == SubSeq(c, 1, n)
           b == SubSeq(c, 1, n + m)
<1>1. /\ a \in Seq(S) /\ Len(a) = n /\ b \in Seq(S) /\ Len(b) = n + m
      /\ \A j \in 1..n : a[j] = c[j]
      /\ \A j \in 1..(n + m) : b[j] = c[j]
  OBVIOUS
<1> HIDE DEF a, b
<1>2. a \o y \in Seq(S) /\ Len(a \o y) = n + m
  BY <1>1, ConcatProperties
<1>3. ASSUME NEW j \in 1..(n + m) PROVE (a \o y)[j] = b[j]
  <2>1. (a \o y)[j] = IF j <= Len(a) THEN a[j] ELSE y[j - Len(a)]
    BY <1>1, ConcatProperties
  <2>2. CASE j <= n
    BY <1>1, <2>1, <2>2, SMTT(30)
  <2>3. CASE ~(j <= n)
    <3>1. j - n \in 1..m /\ n + (j - n) = j
      BY <2>3
    <3> QED BY <1>1, <2>1, <2>3, <3>1
  <2> QED BY <2>2, <2>3
<1>4. a \o y = b
  BY <1>1, <1>2, <1>3, SeqEqual
<1> QED BY <1>4 DEF a, b

(* The texts of pairs, as they come.                                        *)
LEMMA TextsAppend ==
    ASSUME NEW S, NEW x \in Seq(S), NEW v \in S
    PROVE  /\ Texts(x) \in Seq(S)
           /\ Len(x) % 2 = 0 => Texts(Append(x, v)) = Texts(x) /\ Len(Append(x, v)) % 2 # 0
           /\ Len(x) % 2 # 0 => Texts(Append(x, v)) = Append(Texts(x), v) /\ Len(Append(x, v)) % 2 = 0
<1> DEFINE n == Len(x)
           y == Append(x, v)
           k == n \div 2
<1>1. /\ y \in Seq(S) /\ Len(y) = n + 1 /\ n \in Nat /\ y[n + 1] = v
      /\ \A i \in 1..n : y[i] = x[i]
  BY AppendProperties
<1> HIDE DEF y
<1>2. k \in Nat /\ 2 * k <= n
  BY <1>1
<1>3. \A i \in 1..k : 2 * i \in 1..n
  BY <1>1, <1>2
<1>4. Texts(x) \in Seq(S) /\ Len(Texts(x)) = k /\ \A i \in 1..k : Texts(x)[i] = x[2 * i]
  <2>1. Texts(x) = [i \in 1..k |-> x[2 * i]]
    BY DEF Texts
  <2>2. \A i \in 1..k : x[2 * i] \in S
    BY <1>3
  <2> HIDE DEF k
  <2> QED BY <1>2, <2>1, <2>2
<1>5. Texts(y) = [i \in 1..((n + 1) \div 2) |-> y[2 * i]]
  BY <1>1 DEF Texts
<1>6. CASE n % 2 = 0
  <2>1. (n + 1) \div 2 = k /\ (n + 1) % 2 # 0
    BY <1>1, <1>6
  <2>2. \A i \in 1..k : y[2 * i] = x[2 * i]
    BY <1>1, <1>3
  <2>3. Texts(y) = [i \in 1..k |-> y[2 * i]]
    BY <1>5, <2>1
  <2>4. Texts(y) = Texts(x)
    BY <2>2, <2>3 DEF Texts
  <2> QED BY <1>1, <1>4, <1>6, <2>1, <2>4 DEF y
<1>7. CASE n % 2 # 0
  <2>1. (n + 1) \div 2 = k + 1 /\ (n + 1) % 2 = 0 /\ 2 * (k + 1) = n + 1
    BY <1>1, <1>7
  <2>2. Texts(y) = [i \in 1..(k + 1) |-> y[2 * i]]
    BY <1>5, <2>1
  <2>3. \A i \in 1..k : y[2 * i] = Texts(x)[i]
    BY <1>1, <1>3, <1>4
  <2>4. y[2 * (k + 1)] = v
    BY <1>1, <2>1
  <2> DEFINE t == Texts(x)
             z == Texts(y)
  <2>5. t \in Seq(S) /\ Len(t) = k /\ z = [i \in 1..(k + 1) |-> IF i <= k THEN t[i] ELSE v]
    <3>1. ASSUME NEW i \in 1..(k + 1) PROVE y[2 * i] = IF i <= k THEN t[i] ELSE v
      <4>1. CASE i <= k
        <5>1. i \in 1..k
          BY <1>2, <4>1
        <5> QED BY <2>3, <4>1, <5>1
      <4>2. CASE ~(i <= k)
        <5>1. i = k + 1
          BY <1>2, <4>2
        <5> QED BY <2>4, <4>2, <5>1
      <4> QED BY <4>1, <4>2
    <3> QED BY <1>4, <2>2, <3>1
  <2> HIDE DEF t, z, k
  <2>6. z = Append(t, v)
    <3>1. /\ Append(t, v) \in Seq(S) /\ Len(Append(t, v)) = k + 1
          /\ \A j \in 1..k : Append(t, v)[j] = t[j]
          /\ Append(t, v)[k + 1] = v
      BY <2>5, AppendProperties
    <3>2. z \in Seq(S) /\ Len(z) = k + 1 /\ \A j \in 1..(k + 1) : z[j] = IF j <= k THEN t[j] ELSE v
      BY <1>2, <2>5
    <3>3. \A j \in 1..(k + 1) : IF j <= k THEN j \in 1..k ELSE j = k + 1
      BY <1>2
    <3>4. \A j \in 1..(k + 1) : Append(t, v)[j] = z[j]
      BY <3>1, <3>2, <3>3
    <3> QED BY <3>1, <3>2, <3>4, SeqEqual
  <2> QED BY <1>1, <1>4, <1>7, <2>1, <2>6 DEF y, t, z
<1> QED BY <1>6, <1>7

-----------------------------------------------------------------------------
(* Where the reader stands in what the web server sends.                    *)

(* What is in the reader and on the wire, and what is still to come of it,  *)
(* is x and then the records of q after the first i.                        *)
Follows(s, w, v, q, x, i) ==
    \E e \in Seq(UnitSet) :
        /\ ~v.dead => e = AllUnits(v.rest)
        /\ (s.hdr \o (s.buf \o w)) \o e = x \o Rest(UnitParts(q), i)

(* What is left of the record i.                                            *)
Left(s, q, i) == Bytes(q[i], s.avail + s.contentLen) \o Pads(s.paddingLen)

Junk(x) == \A j \in 1..Len(x) : x[j].u # "header"

(* The same units, in other places.                                         *)
LEMMA FollowsMoved ==
    ASSUME NEW s, NEW t, NEW w, NEW z, NEW v, NEW q, NEW x, NEW i,
           t.hdr \o (t.buf \o z) = s.hdr \o (s.buf \o w), Follows(s, w, v, q, x, i)
    PROVE  Follows(t, z, v, q, x, i)
BY DEF Follows

(* b is in the buffer, w on the wire and e still to come.                   *)
Starts(S, b, w, e, x, y, r) ==
    /\ b \in Seq(S) /\ w \in Seq(S) /\ e \in Seq(S) /\ x \in Seq(S) /\ y \in Seq(S) /\ r \in Seq(S)
    /\ (b \o w) \o e = (x \o y) \o r /\ Len(x) <= Len(b)

Started(S, b, w, e, x, y, r) ==
    /\ SubSeq(b, 1, Len(x)) = x
    /\ SubSeq(b, Len(x) + 1, Len(b)) \in Seq(S)
    /\ (SubSeq(b, Len(x) + 1, Len(b)) \o w) \o e = y \o r

LEMMA ConsumeStart ==
    ASSUME NEW S, NEW b, NEW w, NEW e, NEW x, NEW y, NEW r, Starts(S, b, w, e, x, y, r)
    PROVE  Started(S, b, w, e, x, y, r)
<1> DEFINE m == w \o e
           z == y \o r
           c == SubSeq(b, Len(x) + 1, Len(b))
<1>0. /\ b \in Seq(S) /\ w \in Seq(S) /\ e \in Seq(S) /\ x \in Seq(S) /\ y \in Seq(S) /\ r \in Seq(S)
  BY DEF Starts
<1>1. m \in Seq(S) /\ z \in Seq(S)
  BY <1>0
<1>2. (b \o w) \o e = b \o m
  <2>1. AreSeqs(S, b, w, e)
    BY <1>0, Zenon DEF AreSeqs
  <2>2. Associates(b, w, e)
    BY <2>1, Association, Zenon
  <2> QED BY <2>2, Zenon DEF Associates, m
<1>3. (x \o y) \o r = x \o z
  <2>1. AreSeqs(S, x, y, r)
    BY <1>0, Zenon DEF AreSeqs
  <2>2. Associates(x, y, r)
    BY <2>1, Association, Zenon
  <2> QED BY <2>2, Zenon DEF Associates, z
<1> HIDE DEF m, z, c
<1>4. Splits(S, b, m, x, z)
  <2>1. b \o m = x \o z /\ Len(x) <= Len(b)
    BY <1>2, <1>3 DEF Starts
  <2> QED BY <1>0, <1>1, <2>1 DEF Splits
<1>5. IsCut(S, b, m, x, z)
  BY <1>4, Consume
<1>6. SubSeq(b, 1, Len(x)) = x /\ c \in Seq(S) /\ c \o m = z
  BY <1>5 DEF IsCut, c
<1>8. c \in Seq(S)
  BY <1>6
<1>7. (c \o w) \o e = c \o m
  <2>1. AreSeqs(S, c, w, e)
    BY <1>0, <1>8, Zenon DEF AreSeqs
  <2>2. Associates(c, w, e)
    BY <2>1, Association, Zenon
  <2> QED BY <2>2, Zenon DEF Associates, m
<1> QED BY <1>6, <1>7, Zenon DEF z, c, Started

(* The first of them taken.                                                 *)
LEMMA FollowsDrop ==
    ASSUME NEW s \in Readers, NEW t, NEW w \in Seq(UnitSet), NEW v, NEW q \in Seq(Recs),
           NEW x \in Seq(UnitSet), NEW y \in Seq(UnitSet), NEW i \in 0..Len(q),
           s.hdr = <<>>, t.hdr = <<>>, Len(x) <= Len(s.buf),
           t.buf = SubSeq(s.buf, Len(x) + 1, Len(s.buf)),
           Follows(s, w, v, q, x \o y, i)
    PROVE  SubSeq(s.buf, 1, Len(x)) = x /\ Follows(t, w, v, q, y, i)
<1> DEFINE R == Rest(UnitParts(q), i)
           b == s.buf
           c == t.buf
<1>1. PICK e \in Seq(UnitSet) : /\ ~v.dead => e = AllUnits(v.rest)
                                /\ (s.hdr \o (s.buf \o w)) \o e = (x \o y) \o R
  BY DEF Follows
<1>2. R \in Seq(UnitSet) /\ b \in Seq(UnitSet)
  BY AllUnitsType, RestType DEF Readers
<1>8. c = SubSeq(b, Len(x) + 1, Len(b)) /\ Len(x) <= Len(b)
  OBVIOUS
<1> HIDE DEF R, b, c
<1>3. s.hdr \o (s.buf \o w) = b \o w
  <2>1. b \o w \in Seq(UnitSet)
    BY <1>2
  <2>2. <<>> \o (b \o w) = b \o w
    BY <2>1
  <2> QED BY <2>2 DEF b
<1>4. Starts(UnitSet, b, w, e, x, y, R)
  BY <1>1, <1>2, <1>3, <1>8 DEF Starts
<1>5. /\ SubSeq(b, 1, Len(x)) = x /\ c \in Seq(UnitSet) /\ (c \o w) \o e = y \o R
  <2>1. /\ SubSeq(b, 1, Len(x)) = x
        /\ SubSeq(b, Len(x) + 1, Len(b)) \in Seq(UnitSet)
        /\ (SubSeq(b, Len(x) + 1, Len(b)) \o w) \o e = y \o R
    <3>1. Started(UnitSet, b, w, e, x, y, R)
      BY <1>4, ConsumeStart
    <3> QED BY <3>1, Zenon DEF Started
  <2> QED BY <1>8, <2>1, Zenon
<1>6. t.hdr \o (t.buf \o w) = c \o w
  <2>1. c \o w \in Seq(UnitSet)
    BY <1>5
  <2>2. <<>> \o (c \o w) = c \o w
    BY <2>1
  <2> QED BY <2>2 DEF c
<1>7. Follows(t, w, v, q, y, i)
  BY <1>1, <1>5, <1>6 DEF Follows, R
<1> QED BY <1>5, <1>7 DEF b

(* A header as it comes, whole or in parts.                                 *)
LEMMA HeaderCut ==
    ASSUME NEW s \in Readers, Len(s.hdr) < HeaderLen
    PROVE  LET t == TakeHeader(s)
               b == s.hdr \o s.buf
           IN
           /\ t.hdr \in Seq(UnitSet) /\ t.buf \in Seq(UnitSet) /\ b \in Seq(UnitSet)
           /\ t.hdr \o t.buf = b
           /\ Len(t.hdr) = HeaderLen =>
                 /\ HeaderLen <= Len(b) /\ t.hdr = SubSeq(b, 1, HeaderLen)
                 /\ t.buf = SubSeq(b, HeaderLen + 1, Len(b))
           /\ Len(t.hdr) < HeaderLen => t.buf = <<>>
<1> DEFINE n == Least(HeaderLen - Len(s.hdr), Len(s.buf))
           t == TakeHeader(s)
           h == s.hdr
           b == s.buf
           x == SubSeq(b, 1, n)
           y == SubSeq(b, n + 1, Len(b))
<1>1. h \in Seq(UnitSet) /\ b \in Seq(UnitSet) /\ Len(h) \in Nat /\ Len(b) \in Nat /\ HeaderLen \in Nat
  BY Constants DEF Readers
<1>2. n \in 0..Len(b) /\ t.buf = y /\ t.hdr = h \o x /\ Len(t.hdr) = Len(h) + n
  BY TakeHeaderFacts
<1>9. Len(h) + n < HeaderLen => n = Len(b)
  <2>1. HeaderLen - Len(h) \in Nat
    BY <1>1
  <2>2. n < HeaderLen - Len(h) => n = Len(b)
    BY <1>1, <2>1, LeastFacts, Zenon
  <2> HIDE DEF n
  <2> QED BY <1>1, <1>2, <2>2
<1> HIDE DEF n, t, h, b
<1>3. x \in Seq(UnitSet) /\ y \in Seq(UnitSet) /\ x \o y = b
  <2>1. 1 \in 1..(Len(b) + 1) /\ n \in (1 - 1)..Len(b) /\ Len(b) \in n..Len(b)
    BY <1>1, <1>2
  <2>2. SubSeq(b, 1, n) \o SubSeq(b, n + 1, Len(b)) = SubSeq(b, 1, Len(b))
    BY <1>1, <2>1, ConcatAdjacentSubSeq
  <2>3. SubSeq(b, 1, Len(b)) = b
    BY <1>1, SubSeqFull
  <2>4. x \in Seq(UnitSet) /\ y \in Seq(UnitSet)
    BY <1>1, <1>2
  <2> QED BY <2>2, <2>3, <2>4, Zenon
<1>10. x \in Seq(UnitSet) /\ y \in Seq(UnitSet)
  BY <1>3
<1> HIDE DEF x, y
<1>4. (h \o x) \o y = h \o b /\ h \o x \in Seq(UnitSet) /\ h \o b \in Seq(UnitSet)
  <2>1. (h \o x) \o y = h \o (x \o y)
    BY <1>1, <1>10
  <2>2. h \o x \in Seq(UnitSet) /\ h \o b \in Seq(UnitSet)
    BY <1>1, <1>10
  <2> QED BY <1>3, <2>1, <2>2
<1>5. ASSUME Len(t.hdr) = HeaderLen
      PROVE  /\ HeaderLen <= Len(h \o b) /\ t.hdr = SubSeq(h \o b, 1, HeaderLen)
             /\ t.buf = SubSeq(h \o b, HeaderLen + 1, Len(h \o b))
  <2> DEFINE a == h \o b
             c == h \o x
  <2>1. a \in Seq(UnitSet) /\ c \in Seq(UnitSet) /\ Len(c) = HeaderLen /\ a = c \o y
    BY <1>2, <1>4, <1>5
  <2> HIDE DEF a, c
  <2>2. Len(c) <= Len(a) /\ <<>> \in Seq(UnitSet) /\ a \o <<>> = c \o y
    <3>0. c \in Seq(UnitSet)
      BY <2>1
    <3>1. Len(c \o y) = Len(c) + Len(y) /\ Len(c) \in Nat /\ Len(y) \in Nat
      BY <1>10, <3>0
    <3>2. a \o <<>> = a
      BY <2>1, ConcatEmptySeq
    <3> QED BY <2>1, <3>1, <3>2
  <2> DEFINE z == SubSeq(a, Len(c) + 1, Len(a))
  <2>3. SubSeq(a, 1, Len(c)) = c /\ z \in Seq(UnitSet) /\ z \o <<>> = y
    <3>1. Splits(UnitSet, a, <<>>, c, y)
      BY <1>10, <2>1, <2>2 DEF Splits
    <3> QED BY <3>1, Consume DEF IsCut
  <2>4. z = y
    BY <2>3, ConcatEmptySeq
  <2> QED BY <1>2, <2>1, <2>2, <2>3, <2>4 DEF a, c
<1>6. Len(t.hdr) < HeaderLen => t.buf = <<>>
  <2> SUFFICES ASSUME Len(t.hdr) < HeaderLen PROVE y = <<>>
    BY <1>2
  <2>1. n = Len(b)
    BY <1>2, <1>9
  <2> QED BY <1>1, <2>1 DEF y
<1> QED BY <1>2, <1>3, <1>4, <1>5, <1>6 DEF t, h, b

(* What is left of a record is no header, and it can be taken in parts.     *)
LEMMA LeftType ==
    ASSUME NEW s \in Readers, NEW q \in Seq(Recs), NEW i \in 1..Len(q),
           s.avail + s.contentLen <= Len(q[i].content)
    PROVE  /\ Left(s, q, i) \in Seq(UnitSet) /\ Junk(Left(s, q, i))
           /\ Len(Left(s, q, i)) = s.avail + s.contentLen + s.paddingLen
<1> DEFINE k == s.avail + s.contentLen
           n == s.paddingLen
           r == q[i]
           a == Bytes(r, k)
           b == Pads(n)
<1>1. r \in Recs /\ k \in Nat /\ n \in Nat
  BY DEF Readers
<1>2. Len(r.content) \in Nat /\ k \in 0..Len(r.content)
  BY <1>1, RecordShape
<1>3. /\ a \in Seq(UnitSet) /\ Len(a) = k /\ \A j \in 1..k : a[j].u # "header"
      /\ b \in Seq(UnitSet) /\ Len(b) = n /\ \A j \in 1..n : b[j].u # "header"
  BY <1>1, <1>2, BytesType, PadsType
<1> HIDE DEF a, b, k, n
<1>4. /\ a \o b \in Seq(UnitSet) /\ Len(a \o b) = k + n
      /\ \A j \in 1..(k + n) : (a \o b)[j] = IF j <= k THEN a[j] ELSE b[j - k]
  BY <1>3, ConcatProperties, ZenonT(30)
<1>5. \A j \in 1..(k + n) : IF j <= k THEN j \in 1..k ELSE j - k \in 1..n
  BY <1>1
<1>6. \A j \in 1..(k + n) : (a \o b)[j].u # "header"
  BY <1>3, <1>4, <1>5
<1> QED BY <1>4, <1>6 DEF Left, Junk, a, b, k, n

LEMMA BytesSplit ==
    ASSUME NEW r \in Recs, NEW k \in 0..Len(r.content), NEW n \in 0..k
    PROVE  \E x \in Seq(UnitSet) :
              /\ Len(x) = n /\ Bytes(r, k) = x \o Bytes(r, k - n)
              /\ \A j \in 1..n : /\ x[j].c = r.content[(Len(r.content) - k) + j]
                                 /\ ~Begin(r) => Value(x[j]) = r.content[(Len(r.content) - k) + j]
<1> DEFINE L == Len(r.content)
           a == Bytes(r, k)
           b == Bytes(r, k - n)
           x == SubSeq(a, 1, n)
<1>1. r.content \in Seq(Data) /\ L \in Nat /\ k - n \in 0..L
  BY RecordShape
<1>2. /\ a \in Seq(UnitSet) /\ Len(a) = k /\ b \in Seq(UnitSet) /\ Len(b) = k - n
      /\ \A j \in 1..k : /\ a[j].c = r.content[L - k + j]
                         /\ ~Begin(r) => Value(a[j]) = r.content[L - k + j]
  BY <1>1, BytesType
<1>3. \A j \in 1..(k - n) : b[j] = a[n + j]
  <2>1. ASSUME NEW j \in 1..(k - n) PROVE b[j] = a[n + j]
    <3>1. n + j \in 1..k /\ L - (k - n) + j = L - k + (n + j) /\ k - n \in Nat
      <4> HIDE DEF L
      <4> QED BY <1>1
    <3>2. b[j] = [u |-> IF r.type = "BEGIN_REQUEST" THEN "body" ELSE "content",
                  c |-> r.content[L - (k - n) + j]]
      BY DEF Bytes
    <3>3. a[n + j] = [u |-> IF r.type = "BEGIN_REQUEST" THEN "body" ELSE "content",
                      c |-> r.content[L - k + (n + j)]]
      BY <3>1 DEF Bytes
    <3> QED BY <3>1, <3>2, <3>3
  <2> QED BY <2>1
<1> HIDE DEF a, b, L
<1>4. x \in Seq(UnitSet) /\ Len(x) = n /\ \A j \in 1..n : x[j] = a[j]
  BY <1>2
<1> HIDE DEF x
<1>5. x \o b = a
  <2>1. /\ x \o b \in Seq(UnitSet) /\ Len(x \o b) = k
        /\ \A j \in 1..k : (x \o b)[j] = IF j <= n THEN x[j] ELSE b[j - n]
    BY <1>2, <1>4, ConcatProperties
  <2>2. ASSUME NEW j \in 1..k PROVE (x \o b)[j] = a[j]
    <3>1. CASE j <= n
      <4>1. j \in 1..n
        BY <3>1
      <4> QED BY <1>4, <2>1, <3>1, <4>1
    <3>2. CASE ~(j <= n)
      <4>1. j - n \in 1..(k - n) /\ n + (j - n) = j
        BY <3>2
      <4> QED BY <1>3, <2>1, <3>2, <4>1
    <3> QED BY <3>1, <3>2
  <2> QED BY <1>2, <2>1, <2>2, SeqEqual
<1>6. \A j \in 1..n : j \in 1..k
  OBVIOUS
<1>7. \A j \in 1..n : /\ x[j].c = r.content[L - k + j]
                      /\ ~Begin(r) => Value(x[j]) = r.content[L - k + j]
  BY <1>2, <1>4, <1>6
<1> QED BY <1>4, <1>5, <1>7 DEF a, b, L

LEMMA PadsSplit ==
    ASSUME NEW n \in Nat, NEW m \in 0..n
    PROVE  Pads(n) = Pads(m) \o Pads(n - m)
<1> DEFINE p == [u |-> "pad"]
<1>1. Pads(n) = [j \in 1..n |-> p] /\ Pads(m) = [j \in 1..m |-> p] /\ Pads(n - m) = [j \in 1..(n - m) |-> p]
  BY DEF Pads
<1> HIDE DEF p
<1> DEFINE S == {p}
           a == Pads(n)
           b == Pads(m)
           c == Pads(n - m)
<1>2. /\ a \in Seq(S) /\ b \in Seq(S) /\ c \in Seq(S) /\ Len(a) = n /\ Len(b) = m /\ Len(c) = n - m
      /\ n - m \in Nat
  BY <1>1
<1> HIDE DEF a, b, c, S
<1>3. b \o c \in Seq(S) /\ Len(b \o c) = n
  <2>1. b \o c \in Seq(S) /\ Len(b \o c) = Len(b) + Len(c)
    BY <1>2
  <2> QED BY <1>2, <2>1
<1>4. \A j \in 1..n : (b \o c)[j] \in S /\ a[j] \in S
  BY <1>2, <1>3
<1>5. a = b \o c
  <2>1. \A j \in 1..n : (b \o c)[j] = a[j]
    BY <1>4 DEF S
  <2> QED BY <1>2, <1>3, <2>1, SeqEqual
<1> QED BY <1>5 DEF a, b, c

(* Units that are put together, opaque to the provers.                      *)
AreUnits(a, b, c) == a \in Seq(UnitSet) /\ b \in Seq(UnitSet) /\ c \in Seq(UnitSet)

AreJoined(a, b, c) ==
    /\ a \o (b \o c) = (a \o b) \o c /\ a \o b \in Seq(UnitSet) /\ b \o c \in Seq(UnitSet)
    /\ Len(a \o b) = Len(a) + Len(b)
    /\ <<>> \o c = c /\ a \o <<>> = a

LEMMA Joined == ASSUME NEW a, NEW b, NEW c, AreUnits(a, b, c) PROVE AreJoined(a, b, c)
<1>1. a \in Seq(UnitSet) /\ b \in Seq(UnitSet) /\ c \in Seq(UnitSet)
  BY DEF AreUnits
<1>2. a \o (b \o c) = (a \o b) \o c /\ a \o b \in Seq(UnitSet) /\ b \o c \in Seq(UnitSet)
  BY <1>1
<1>3. Len(a \o b) = Len(a) + Len(b) /\ <<>> \o c = c /\ a \o <<>> = a
  BY <1>1
<1> QED BY <1>2, <1>3 DEF AreJoined

LEMMA LeftSplitContent ==
    ASSUME NEW s \in Readers, NEW t \in Readers, NEW q \in Seq(Recs), NEW i \in 1..Len(q), NEW n \in Nat,
           s.avail + s.contentLen <= Len(q[i].content), n <= s.avail + s.contentLen,
           t.avail + t.contentLen = (s.avail + s.contentLen) - n, t.paddingLen = s.paddingLen
    PROVE  \E x \in Seq(UnitSet) :
              /\ Len(x) = n /\ Left(s, q, i) = x \o Left(t, q, i)
              /\ \A j \in 1..n : LET m == (Len(q[i].content) - (s.avail + s.contentLen)) + j IN
                    x[j].c = q[i].content[m] /\ (~Begin(q[i]) => Value(x[j]) = q[i].content[m])
<1> DEFINE r == q[i]
           k == s.avail + s.contentLen
           l == t.avail + t.contentLen
           b == Bytes(r, l)
           p == Pads(s.paddingLen)
<1>0. r \in Recs /\ s.avail \in Nat /\ s.contentLen \in Nat /\ s.paddingLen \in Nat
  BY SMTT(30) DEF Readers
<1>1. r \in Recs /\ k \in Nat /\ s.paddingLen \in Nat /\ l = k - n /\ n \in 0..k
  BY <1>0
<1>2. Len(r.content) \in Nat /\ k \in 0..Len(r.content) /\ l \in 0..Len(r.content)
  BY <1>1, RecordShape
<1>3. PICK x \in Seq(UnitSet) :
              /\ Len(x) = n /\ Bytes(r, k) = x \o Bytes(r, k - n)
              /\ \A j \in 1..n : /\ x[j].c = r.content[(Len(r.content) - k) + j]
                                 /\ ~Begin(r) => Value(x[j]) = r.content[(Len(r.content) - k) + j]
  BY <1>1, <1>2, BytesSplit
<1>4. b \in Seq(UnitSet) /\ p \in Seq(UnitSet)
  BY <1>1, <1>2, BytesType, PadsType
<1>5. Left(s, q, i) = (x \o b) \o p /\ Left(t, q, i) = b \o p
  BY <1>1, <1>3 DEF Left
<1> HIDE DEF b, p
<1>6. (x \o b) \o p = x \o (b \o p)
  BY <1>4
<1>7. Left(s, q, i) = x \o Left(t, q, i)
  BY <1>5, <1>6
<1> QED BY <1>3, <1>7

LEMMA LeftSplitPadding ==
    ASSUME NEW s \in Readers, NEW t \in Readers, NEW q \in Seq(Recs), NEW i \in 1..Len(q),
           s.avail + s.contentLen <= Len(q[i].content),
           t.avail + t.contentLen = 0, t.paddingLen <= s.paddingLen
    PROVE  \E x \in Seq(UnitSet) :
              /\ Len(x) = (s.avail + s.contentLen) + (s.paddingLen - t.paddingLen)
              /\ Left(s, q, i) = x \o Left(t, q, i)
<1> DEFINE r == q[i]
           k == s.avail + s.contentLen
           m == s.paddingLen - t.paddingLen
           a == Bytes(r, k)
           b == Pads(m)
           p == Pads(t.paddingLen)
<1>0. /\ r \in Recs /\ s.avail \in Nat /\ s.contentLen \in Nat /\ s.paddingLen \in Nat
      /\ t.paddingLen \in Nat
  BY SMTT(30) DEF Readers
<1>1. /\ r \in Recs /\ k \in Nat /\ s.paddingLen \in Nat /\ t.paddingLen \in Nat /\ m \in 0..s.paddingLen
      /\ s.paddingLen - m = t.paddingLen /\ m \in Nat
  BY <1>0, SMTT(30)
<1>2. Len(r.content) \in Nat /\ k \in 0..Len(r.content) /\ 0 \in 0..Len(r.content)
  BY <1>1, RecordShape
<1>3. /\ a \in Seq(UnitSet) /\ b \in Seq(UnitSet) /\ p \in Seq(UnitSet) /\ Len(a) = k /\ Len(b) = m
      /\ Bytes(r, 0) \in Seq(UnitSet) /\ Len(Bytes(r, 0)) = 0
  BY <1>1, <1>2, BytesType, PadsType
<1>4. Pads(s.paddingLen) = b \o p
  BY <1>1, PadsSplit
<1>5. Left(s, q, i) = a \o (b \o p) /\ Left(t, q, i) = Bytes(r, 0) \o p
  BY <1>4 DEF Left
<1>6. Bytes(r, 0) = <<>>
  <2> DEFINE z == Bytes(r, 0)
  <2>1. z \in Seq(UnitSet) /\ Len(z) = 0
    BY <1>3
  <2> HIDE DEF z
  <2>2. z = <<>>
    BY <2>1
  <2> QED BY <2>2 DEF z
<1> HIDE DEF a, b, p, k, m
<1>7. <<>> \o p = p /\ a \o (b \o p) = (a \o b) \o p /\ a \o b \in Seq(UnitSet) /\ Len(a \o b) = k + m
  <2>1. AreJoined(a, b, p)
    BY <1>3, Joined DEF AreUnits
  <2> QED BY <1>3, <2>1 DEF AreJoined
<1>8. Len(a \o b) = k + m /\ a \o b \in Seq(UnitSet) /\ Left(s, q, i) = (a \o b) \o Left(t, q, i)
  BY <1>5, <1>6, <1>7
<1> QED BY <1>8 DEF k, m

(* What is taken from the front of a record.                                *)
LEMMA LeftDrop ==
    ASSUME NEW s \in Readers, NEW t \in Readers, NEW w \in Seq(UnitSet), NEW v, NEW q \in Seq(Recs),
           NEW i \in 1..Len(q), NEW x \in Seq(UnitSet), Left(t, q, i) \in Seq(UnitSet),
           Left(s, q, i) = x \o Left(t, q, i), Len(x) <= Len(s.buf),
           t.buf = SubSeq(s.buf, Len(x) + 1, Len(s.buf)), t.hdr = s.hdr, s.hdr # <<>> => Len(x) = 0,
           Follows(s, w, v, q, Left(s, q, i), i)
    PROVE  SubSeq(s.buf, 1, Len(x)) = x /\ Follows(t, w, v, q, Left(t, q, i), i)
<1>1. CASE s.hdr = <<>>
  <2>1. i \in 0..Len(q)
    OBVIOUS
  <2> DEFINE y == Left(t, q, i)
  <2>2. y \in Seq(UnitSet) /\ Follows(s, w, v, q, x \o y, i) /\ t.hdr = <<>>
    BY <1>1
  <2> HIDE DEF y
  <2>3. SubSeq(s.buf, 1, Len(x)) = x /\ Follows(t, w, v, q, y, i)
    BY <1>1, <2>1, <2>2, FollowsDrop
  <2> QED BY <2>3 DEF y
<1>2. CASE s.hdr # <<>>
  <2>1. Len(x) = 0 /\ x = <<>> /\ s.buf \in Seq(UnitSet)
    BY <1>2 DEF Readers
  <2>2. t.buf = s.buf /\ SubSeq(s.buf, 1, Len(x)) = x
    <3>1. SubSeq(s.buf, 0 + 1, Len(s.buf)) = s.buf
      BY <2>1, SubSeqFull
    <3>2. SubSeq(s.buf, 1, 0) = <<>>
      BY <2>1
    <3> QED BY <2>1, <3>1, <3>2
  <2>3. Left(s, q, i) = Left(t, q, i)
    <3> DEFINE y == Left(t, q, i)
    <3>1. y \in Seq(UnitSet)
      OBVIOUS
    <3> HIDE DEF y
    <3>2. <<>> \o y = y
      BY <3>1
    <3> QED BY <2>1, <3>2 DEF y
  <2>4. t.hdr \o (t.buf \o w) = s.hdr \o (s.buf \o w)
    BY <2>2
  <2> QED BY <2>2, <2>3, <2>4, FollowsMoved
<1> QED BY <1>1, <1>2

(* A complete header is the one of the next record.                         *)
LEMMA HeaderNext ==
    ASSUME NEW s \in Readers, NEW w \in Seq(UnitSet), NEW v, NEW q \in Seq(Recs), NEW i \in 0..Len(q),
           Len(s.hdr) < HeaderLen, Len(TakeHeader(s).hdr) = HeaderLen,
           Follows(s, w, v, q, <<>>, i), NEW t, t.hdr = <<>>, t.buf = TakeHeader(s).buf
    PROVE  /\ i + 1 \in 1..Len(q) /\ TakeHeader(s).hdr = Header(q[i + 1])
           /\ Follows(t, w, v, q, Bytes(q[i + 1], Len(q[i + 1].content)) \o Pads(q[i + 1].pad), i + 1)
<1> DEFINE R == Rest(UnitParts(q), i)
           b == s.hdr \o s.buf
           h == TakeHeader(s).hdr
           c == TakeHeader(s).buf
<1>1. PICK e \in Seq(UnitSet) : /\ ~v.dead => e = AllUnits(v.rest)
                                /\ (s.hdr \o (s.buf \o w)) \o e = <<>> \o R
  BY DEF Follows
<1>2. R \in Seq(UnitSet)
  BY AllUnitsType, RestType
<1>3. /\ h \in Seq(UnitSet) /\ c \in Seq(UnitSet) /\ b \in Seq(UnitSet)
      /\ HeaderLen <= Len(b) /\ h = SubSeq(b, 1, HeaderLen) /\ c = SubSeq(b, HeaderLen + 1, Len(b))
  BY HeaderCut
<1>4. s.hdr \o (s.buf \o w) = b \o w
  <2> DEFINE a == s.hdr
             d == s.buf
  <2>1. a \in Seq(UnitSet) /\ d \in Seq(UnitSet)
    BY DEF Readers
  <2> HIDE DEF a, d
  <2>2. AreJoined(a, d, w)
    BY <2>1, Joined DEF AreUnits
  <2> QED BY <2>2, Zenon DEF a, d, AreJoined
<1> HIDE DEF R, b, h, c
<1>5. (b \o w) \o e = R
  <2>1. <<>> \o R = R
    BY <1>2
  <2> QED BY <1>1, <1>4, <2>1
<1>6. i < Len(q)
  <2> SUFFICES ASSUME ~(i < Len(q)) PROVE FALSE
    OBVIOUS
  <2>1. i = Len(q)
    OBVIOUS
  <2>2. R = <<>>
    BY <2>1, AllUnitsType, RestNone DEF R
  <2>3. Len((b \o w) \o e) = Len(b) + Len(w) + Len(e) /\ Len(b) \in Nat /\ Len(w) \in Nat /\ Len(e) \in Nat
    BY <1>3
  <2>4. HeaderLen \in Nat /\ HeaderLen > 0
    BY Constants
  <2> QED BY <1>3, <1>5, <2>2, <2>3, <2>4
<1> DEFINE r == q[i + 1]
           x == Header(r)
           y == Bytes(r, Len(r.content)) \o Pads(r.pad)
           N == Rest(UnitParts(q), i + 1)
<1>7. i + 1 \in 1..Len(q) /\ r \in Recs /\ i \in 0..(Len(q) - 1) /\ i + 1 \in 0..Len(q)
  BY <1>6
<1>8. x \in Seq(UnitSet) /\ Len(x) = HeaderLen
  BY <1>7, HeaderType
<1>9. y \in Seq(UnitSet) /\ Units(r) = x \o y
  <2>1. r.pad \in Nat /\ Len(r.content) \in 0..Len(r.content)
    BY <1>7, RecordShape
  <2>2. Bytes(r, Len(r.content)) \in Seq(UnitSet) /\ Pads(r.pad) \in Seq(UnitSet)
    BY <1>7, <2>1, BytesType, PadsType
  <2> QED BY <1>7, <2>2, UnitsParts, ConcatProperties
<1>10. N \in Seq(UnitSet) /\ R = Units(r) \o N
  <2>1. UnitParts(q) \in Seq(Seq(UnitSet)) /\ Len(UnitParts(q)) = Len(q) /\ UnitParts(q)[i + 1] = Units(r)
    BY <1>7, AllUnitsType
  <2>2. i \in 0..(Len(UnitParts(q)) - 1) /\ i + 1 \in 0..Len(UnitParts(q))
    BY <1>7, <2>1
  <2> QED BY <2>1, <2>2, RestStep, RestType DEF R
<1> HIDE DEF x, y, N, r
<1>11. Starts(UnitSet, b, w, e, x, y, N)
  BY <1>3, <1>5, <1>8, <1>9, <1>10 DEF Starts
<1>12. Started(UnitSet, b, w, e, x, y, N)
  BY <1>11, ConsumeStart
<1>13. h = x /\ (c \o w) \o e = y \o N
  BY <1>3, <1>8, <1>12 DEF Started
<1>14. t.hdr \o (t.buf \o w) = c \o w
  <2>1. c \o w \in Seq(UnitSet)
    BY <1>3
  <2>2. <<>> \o (c \o w) = c \o w
    BY <2>1
  <2> QED BY <2>2 DEF c
<1>15. Follows(t, w, v, q, y, i + 1)
  BY <1>1, <1>13, <1>14 DEF Follows, N
<1> QED BY <1>7, <1>13, <1>15 DEF h, x, y, r

(* The reader is within the record i, or at its end.                        *)
Whole(s) == s.avail + s.contentLen

At(s, w, v, q, i) ==
    /\ Whole(s) <= Len(q[i].content) /\ s.paddingLen <= q[i].pad
    /\ Follows(s, w, v, q, Left(s, q, i), i)
    /\ s.hdr # <<>> => Whole(s) = 0 /\ s.paddingLen = 0

(* It is somewhere in what is no header.                                    *)
Lost(s, w, v, q, i) == \E x \in Seq(UnitSet) : Junk(x) /\ Follows(s, w, v, q, x, i)

LEMMA WholeType == ASSUME NEW s \in Readers PROVE Whole(s) \in Nat /\ s.paddingLen \in Nat
BY DEF Whole, Readers

LEMMA AtLost ==
    ASSUME NEW s \in Readers, NEW w, NEW v, NEW q \in Seq(Recs), NEW i \in 1..Len(q), At(s, w, v, q, i)
    PROVE  Lost(s, w, v, q, i)
<1>1. s.avail + s.contentLen <= Len(q[i].content) /\ Follows(s, w, v, q, Left(s, q, i), i)
  BY DEF At, Whole
<1>2. Left(s, q, i) \in Seq(UnitSet) /\ Junk(Left(s, q, i))
  BY <1>1, LeftType
<1> QED BY <1>1, <1>2, Zenon DEF Lost

(* Units that only change places.                                           *)
SameUnits(s, w, t, z) == t.hdr \o (t.buf \o z) = s.hdr \o (s.buf \o w)

LEMMA LostMoved ==
    ASSUME NEW s, NEW t, NEW w, NEW z, NEW v, NEW q, NEW i, SameUnits(s, w, t, z), Lost(s, w, v, q, i)
    PROVE  Lost(t, z, v, q, i)
BY FollowsMoved DEF Lost, SameUnits

LEMMA AtMoved ==
    ASSUME NEW s, NEW t, NEW w, NEW z, NEW v, NEW q, NEW i, SameUnits(s, w, t, z), At(s, w, v, q, i),
           Whole(t) = Whole(s), t.paddingLen = s.paddingLen,
           t.hdr = s.hdr \/ (Whole(s) = 0 /\ s.paddingLen = 0)
    PROVE  At(t, z, v, q, i)
<1>1. Left(t, q, i) = Left(s, q, i)
  BY DEF Left, Whole
<1>2. Follows(s, w, v, q, Left(s, q, i), i) /\ t.hdr \o (t.buf \o z) = s.hdr \o (s.buf \o w)
  BY DEF At, SameUnits
<1>3. Follows(t, z, v, q, Left(s, q, i), i)
  BY <1>2, FollowsMoved, Zenon
<1> QED BY <1>1, <1>3, Zenon DEF At

LEMMA SameParts ==
    ASSUME NEW s, NEW t, NEW w, t.hdr = s.hdr, t.buf = s.buf
    PROVE  SameUnits(s, w, t, w)
BY DEF SameUnits

(* OS_Read *)
LEMMA ReadMoves ==
    ASSUME NEW s \in Readers, NEW t, NEW w \in Seq(UnitSet), NEW n \in 0..Len(w), s.buf = <<>>,
           t.hdr = s.hdr, t.buf = SubSeq(w, 1, n), NEW z, z = SubSeq(w, n + 1, Len(w))
    PROVE  SameUnits(s, w, t, z)
<1>1. SubSeq(w, 1, n) \o SubSeq(w, n + 1, Len(w)) = w
  <2>1. 1 \in 1..(Len(w) + 1) /\ n \in (1 - 1)..Len(w) /\ Len(w) \in n..Len(w)
    OBVIOUS
  <2>2. SubSeq(w, 1, n) \o SubSeq(w, n + 1, Len(w)) = SubSeq(w, 1, Len(w))
    BY <2>1, ConcatAdjacentSubSeq
  <2>3. SubSeq(w, 1, Len(w)) = w
    BY SubSeqFull
  <2> QED BY <2>2, <2>3, Zenon
<1>2. <<>> \o w = w
  OBVIOUS
<1>3. t.buf \o z = w /\ s.buf \o w = w
  BY <1>1, <1>2, Zenon
<1> QED BY <1>3, Zenon DEF SameUnits

LEMMA PartMoves ==
    ASSUME NEW s \in Readers, NEW w \in Seq(UnitSet), Len(s.hdr) < HeaderLen
    PROVE  SameUnits(s, w, TakeHeader(s), w)
<1> DEFINE t == TakeHeader(s)
           a == s.hdr
           b == s.buf
           c == t.hdr
           d == t.buf
<1>1. a \in Seq(UnitSet) /\ b \in Seq(UnitSet)
  BY DEF Readers
<1>2. c \in Seq(UnitSet) /\ d \in Seq(UnitSet) /\ c \o d = a \o b
  BY HeaderCut
<1> HIDE DEF a, b, c, d, t
<1>3. AreJoined(a, b, w) /\ AreJoined(c, d, w)
  BY <1>1, <1>2, Joined DEF AreUnits
<1>4. c \o (d \o w) = a \o (b \o w)
  BY <1>2, <1>3, Zenon DEF AreJoined
<1> QED BY <1>4 DEF a, b, c, d, t, SameUnits

(* The first n units of s are the next n of the record's content.           *)
Gives(s, q, i, n) ==
    \A j \in 1..n : LET m == (Len(q[i].content) - Whole(s)) + j IN
        s.buf[j].c = q[i].content[m] /\ (~Begin(q[i]) => Value(s.buf[j]) = q[i].content[m])

(* Taking some of what is available.                                        *)
LEMMA AtTake ==
    ASSUME NEW s \in Readers, NEW t \in Readers, NEW w \in Seq(UnitSet), NEW v, NEW q \in Seq(Recs),
           NEW i \in 1..Len(q), NEW n \in Nat, At(s, w, v, q, i),
           n <= Len(s.buf), n <= Whole(s), Whole(t) = Whole(s) - n, t.paddingLen = s.paddingLen,
           t.buf = SubSeq(s.buf, n + 1, Len(s.buf)), t.hdr = s.hdr
    PROVE  At(t, w, v, q, i) /\ Gives(s, q, i, n)
<1>0. /\ Whole(s) <= Len(q[i].content) /\ s.paddingLen <= q[i].pad
      /\ Follows(s, w, v, q, Left(s, q, i), i)
      /\ s.hdr # <<>> => Whole(s) = 0 /\ s.paddingLen = 0
      /\ Whole(s) \in Nat /\ Whole(t) \in Nat /\ Len(q[i].content) \in Nat
  <2>1. q[i] \in Recs
    OBVIOUS
  <2>2. Len(q[i].content) \in Nat
    BY <2>1, RecordShape
  <2> QED BY <2>2, WholeType DEF At
<1>1. PICK x \in Seq(UnitSet) :
              /\ Len(x) = n /\ Left(s, q, i) = x \o Left(t, q, i)
              /\ \A j \in 1..n : LET m == (Len(q[i].content) - Whole(s)) + j IN
                    x[j].c = q[i].content[m] /\ (~Begin(q[i]) => Value(x[j]) = q[i].content[m])
  BY <1>0, LeftSplitContent, ZenonT(30) DEF Whole
<1>2. Left(t, q, i) \in Seq(UnitSet)
  <2>1. Whole(t) <= Len(q[i].content)
    BY <1>0
  <2> QED BY <2>1, LeftType DEF Whole
<1>3. s.hdr # <<>> => Len(x) = 0
  BY <1>0, <1>1
<1>4. SubSeq(s.buf, 1, Len(x)) = x /\ Follows(t, w, v, q, Left(t, q, i), i)
  BY <1>0, <1>1, <1>2, <1>3, LeftDrop
<1>5. At(t, w, v, q, i)
  <2>1. Whole(t) <= Len(q[i].content) /\ (Whole(s) = 0 => Whole(t) = 0)
    BY <1>0
  <2> QED BY <1>0, <1>4, <2>1 DEF At
<1>6. \A j \in 1..n : x[j] = s.buf[j]
  <2>1. s.buf \in Seq(UnitSet)
    BY DEF Readers
  <2>2. \A j \in 1..n : SubSeq(s.buf, 1, n)[j] = s.buf[j]
    BY <2>1
  <2> QED BY <1>1, <1>4, <2>2
<1> QED BY <1>1, <1>5, <1>6 DEF Gives

(* What is not for the caller.                                              *)
LEMMA AtSkip ==
    ASSUME NEW s \in Readers, NEW w \in Seq(UnitSet), NEW v, NEW q \in Seq(Recs),
           NEW i \in 1..Len(q), At(s, w, v, q, i), s.avail = 0
    PROVE  At(Skipped(s), w, v, q, i)
<1> DEFINE t == Skipped(s)
           n == (s.contentLen - t.contentLen) + (s.paddingLen - t.paddingLen)
<1>0. /\ Whole(s) <= Len(q[i].content) /\ s.paddingLen <= q[i].pad
      /\ Follows(s, w, v, q, Left(s, q, i), i)
      /\ s.hdr # <<>> => Whole(s) = 0 /\ s.paddingLen = 0
  BY DEF At
<1>1. /\ t \in Readers /\ t.hdr = s.hdr /\ t.avail = s.avail
      /\ t.contentLen <= s.contentLen /\ t.paddingLen <= s.paddingLen
      /\ n \in 0..Len(s.buf) /\ t.buf = SubSeq(s.buf, n + 1, Len(s.buf))
      /\ t.contentLen > 0 => t.paddingLen = s.paddingLen
  BY SkippedFacts
<1>2. q[i] \in Recs /\ Len(q[i].content) \in Nat /\ q[i].pad \in Nat
  <2>1. q[i] \in Recs
    OBVIOUS
  <2> QED BY <2>1, RecordShape
<1> HIDE DEF t
<1>3. /\ s.contentLen \in Nat /\ s.paddingLen \in Nat /\ t.contentLen \in Nat /\ t.paddingLen \in Nat
      /\ Whole(s) = s.contentLen /\ Whole(t) = t.contentLen
  <2>1. s.contentLen \in Nat /\ s.paddingLen \in Nat
    BY DEF Readers
  <2>2. t.contentLen \in Nat /\ t.paddingLen \in Nat
    BY <1>1 DEF Readers
  <2>3. t.avail = 0
    BY <1>1
  <2> HIDE DEF n
  <2> QED BY <2>1, <2>2, <2>3 DEF Whole
<1>4. \E x \in Seq(UnitSet) : Len(x) = n /\ Left(s, q, i) = x \o Left(t, q, i)
  <2>1. CASE t.contentLen > 0
    <3> DEFINE m == s.contentLen - t.contentLen
    <3>1. m \in Nat /\ m <= s.avail + s.contentLen /\ t.avail + t.contentLen = (s.avail + s.contentLen) - m
          /\ t.paddingLen = s.paddingLen /\ n = m /\ s.avail + s.contentLen <= Len(q[i].content)
      <4>1. t.avail = 0 /\ t.contentLen <= s.contentLen /\ t.paddingLen = s.paddingLen
        BY <1>1, <2>1
      <4> QED BY <1>0, <1>3, <4>1 DEF Whole
    <3> HIDE DEF m, n
    <3> QED BY <1>1, <3>1, LeftSplitContent, ZenonT(30)
  <2>2. CASE ~(t.contentLen > 0)
    <3>1. /\ t.avail + t.contentLen = 0 /\ s.avail + s.contentLen <= Len(q[i].content)
          /\ n = (s.avail + s.contentLen) + (s.paddingLen - t.paddingLen)
      BY <1>0, <1>1, <1>3, <2>2, SMTT(30)
    <3> HIDE DEF n
    <3> QED BY <1>1, <3>1, LeftSplitPadding
  <2> QED BY <2>1, <2>2
<1>5. PICK x \in Seq(UnitSet) : Len(x) = n /\ Left(s, q, i) = x \o Left(t, q, i)
  BY <1>4
<1>6. Left(t, q, i) \in Seq(UnitSet)
  <2>1. t.avail + t.contentLen <= Len(q[i].content)
    BY <1>0, <1>1, <1>2, <1>3, SMTT(30)
  <2> QED BY <1>1, <2>1, LeftType
<1>7. Whole(s) = 0 /\ s.paddingLen = 0 => n = 0 /\ Whole(t) = 0 /\ t.paddingLen = 0
  BY <1>1, <1>3
<1>8. Len(x) <= Len(s.buf) /\ (s.hdr # <<>> => Len(x) = 0) /\ t.buf = SubSeq(s.buf, Len(x) + 1, Len(s.buf))
  <2> HIDE DEF n
  <2> QED BY <1>0, <1>1, <1>5, <1>7
<1>9. Follows(t, w, v, q, Left(t, q, i), i)
  BY <1>0, <1>1, <1>5, <1>6, <1>8, LeftDrop
<1>10. Whole(t) <= Len(q[i].content) /\ t.paddingLen <= q[i].pad
  <2>1. t.contentLen <= s.contentLen /\ t.paddingLen <= s.paddingLen
    BY <1>1
  <2> HIDE DEF n
  <2> QED BY <1>0, <1>2, <1>3, <2>1, SMTT(30)
<1> QED BY <1>0, <1>1, <1>7, <1>9, <1>10 DEF At, t

(* A header is complete: the next record.                                   *)
LEMMA NothingLeft ==
    ASSUME NEW s \in Readers, NEW q \in Seq(Recs), NEW i \in 1..Len(q), Whole(s) = 0, s.paddingLen = 0
    PROVE  Left(s, q, i) = <<>>
<1> DEFINE l == Left(s, q, i)
<1>1. q[i] \in Recs /\ Len(q[i].content) \in Nat
  <2>1. q[i] \in Recs
    OBVIOUS
  <2> QED BY <2>1, RecordShape
<1>2. s.avail + s.contentLen = 0 /\ s.avail + s.contentLen <= Len(q[i].content)
  BY <1>1 DEF Whole
<1>3. l \in Seq(UnitSet) /\ Len(l) = 0
  BY <1>2, LeftType
<1> HIDE DEF l
<1>4. l = <<>>
  BY <1>3
<1> QED BY <1>4 DEF l

LEMMA AtHeader ==
    ASSUME NEW s \in Readers, NEW w \in Seq(UnitSet), NEW v, NEW q \in Seq(Recs), NEW i \in 0..Len(q),
           Len(s.hdr) < HeaderLen, Len(TakeHeader(s).hdr) = HeaderLen,
           Follows(s, w, v, q, <<>>, i), NEW t, t.hdr = <<>>, t.buf = TakeHeader(s).buf,
           t.avail = 0,
           i + 1 \in 1..Len(q) => t.contentLen = Len(q[i + 1].content) /\ t.paddingLen = q[i + 1].pad
    PROVE  i + 1 \in 1..Len(q) /\ At(t, w, v, q, i + 1)
<1>1. /\ i + 1 \in 1..Len(q)
      /\ Follows(t, w, v, q, Bytes(q[i + 1], Len(q[i + 1].content)) \o Pads(q[i + 1].pad), i + 1)
  BY HeaderNext
<1>2. q[i + 1] \in Recs
  BY <1>1
<1>3. Len(q[i + 1].content) \in Nat /\ q[i + 1].pad \in Nat
  BY <1>2, RecordShape
<1>4. t.avail + t.contentLen = Len(q[i + 1].content) /\ t.paddingLen = q[i + 1].pad
  BY <1>1, <1>3
<1>5. Left(t, q, i + 1) = Bytes(q[i + 1], Len(q[i + 1].content)) \o Pads(q[i + 1].pad)
  BY <1>4, Zenon DEF Left
<1>6. Whole(t) <= Len(q[i + 1].content) /\ t.paddingLen <= q[i + 1].pad
  BY <1>3, <1>4 DEF Whole
<1> QED BY <1>1, <1>5, <1>6, Zenon DEF At

LEMMA HeaderIs ==
    ASSUME NEW s \in Readers, NEW w \in Seq(UnitSet), NEW v, NEW q \in Seq(Recs), NEW i \in 0..Len(q),
           Len(s.hdr) < HeaderLen, Len(TakeHeader(s).hdr) = HeaderLen, Follows(s, w, v, q, <<>>, i)
    PROVE  /\ i + 1 \in 1..Len(q)
           /\ TakeHeader(s).hdr[1] = [u |-> "header", type |-> q[i + 1].type, id |-> q[i + 1].id,
                                      len |-> Len(q[i + 1].content), pad |-> q[i + 1].pad]
<1> DEFINE t == [hdr |-> <<>>, buf |-> TakeHeader(s).buf]
<1>1. t.hdr = <<>> /\ t.buf = TakeHeader(s).buf
  OBVIOUS
<1> HIDE DEF t
<1>2. i + 1 \in 1..Len(q) /\ TakeHeader(s).hdr = Header(q[i + 1])
  BY <1>1, HeaderNext
<1>3. q[i + 1] \in Recs
  BY <1>2
<1> QED BY <1>2, <1>3, HeaderType

LEMMA CutAt ==
    ASSUME NEW S, NEW a \in Seq(S), NEW n \in 0..Len(a)
    PROVE  /\ SubSeq(a, 1, n) \in Seq(S) /\ SubSeq(a, n + 1, Len(a)) \in Seq(S)
           /\ Len(SubSeq(a, 1, n)) = n /\ Len(SubSeq(a, n + 1, Len(a))) = Len(a) - n
           /\ a = SubSeq(a, 1, n) \o SubSeq(a, n + 1, Len(a))
           /\ \A j \in 1..n : SubSeq(a, 1, n)[j] = a[j]
           /\ \A j \in 1..(Len(a) - n) : SubSeq(a, n + 1, Len(a))[j] = a[n + j]
<1>1. 1 \in 1..(Len(a) + 1) /\ n \in (1 - 1)..Len(a) /\ Len(a) \in n..Len(a)
  OBVIOUS
<1>2. SubSeq(a, 1, n) \o SubSeq(a, n + 1, Len(a)) = SubSeq(a, 1, Len(a))
  BY <1>1, ConcatAdjacentSubSeq
<1>3. SubSeq(a, 1, Len(a)) = a
  BY SubSeqFull
<1>4. /\ SubSeq(a, 1, n) \in Seq(S) /\ SubSeq(a, n + 1, Len(a)) \in Seq(S)
      /\ Len(SubSeq(a, 1, n)) = n /\ Len(SubSeq(a, n + 1, Len(a))) = Len(a) - n
      /\ \A j \in 1..n : SubSeq(a, 1, n)[j] = a[j]
      /\ \A j \in 1..(Len(a) - n) : SubSeq(a, n + 1, Len(a))[j] = a[n + j]
  OBVIOUS
<1> QED BY <1>2, <1>3, <1>4, Zenon

(* Pushing units back.                                                      *)
Balanced(b, w, e, l, r) ==
    /\ AreUnits(b, w, e) /\ l \in Seq(UnitSet) /\ r \in Seq(UnitSet)
    /\ (b \o w) \o e = l \o r

LEMMA PushFront ==
    ASSUME NEW a \in Seq(UnitSet), NEW b, NEW w, NEW e, NEW l, NEW r, Balanced(b, w, e, l, r)
    PROVE  Balanced(a \o b, w, e, a \o l, r)
<1>1. /\ b \in Seq(UnitSet) /\ w \in Seq(UnitSet) /\ e \in Seq(UnitSet) /\ l \in Seq(UnitSet)
      /\ r \in Seq(UnitSet)
  BY DEF Balanced, AreUnits
<1>2. AreJoined(a, b, w) /\ AreJoined(a, l, r)
  BY <1>1, Joined DEF AreUnits
<1>3. b \o w \in Seq(UnitSet)
  BY <1>2 DEF AreJoined
<1>4. AreJoined(a, b \o w, e)
  BY <1>1, <1>3, Joined DEF AreUnits
<1>5. ((a \o b) \o w) \o e = (a \o l) \o r
  <2>1. (a \o b) \o w = a \o (b \o w)
    BY <1>2, Zenon DEF AreJoined
  <2>2. (a \o (b \o w)) \o e = a \o ((b \o w) \o e)
    BY <1>4, Zenon DEF AreJoined
  <2>3. a \o (l \o r) = (a \o l) \o r
    BY <1>2, Zenon DEF AreJoined
  <2>4. (b \o w) \o e = l \o r
    BY DEF Balanced
  <2> QED BY <2>1, <2>2, <2>3, <2>4, Zenon
<1>6. a \o b \in Seq(UnitSet) /\ a \o l \in Seq(UnitSet)
  BY <1>2 DEF AreJoined
<1> QED BY <1>1, <1>5, <1>6, Zenon DEF Balanced, AreUnits

(* What was sent, and what will be.                                         *)
LEMMA FollowsBalanced ==
    ASSUME NEW s \in Readers, NEW w \in Seq(UnitSet), NEW v, NEW q \in Seq(Recs), NEW i \in 0..Len(q),
           NEW x \in Seq(UnitSet), Follows(s, w, v, q, x, i)
    PROVE  \E e \in Seq(UnitSet) :
              /\ ~v.dead => e = AllUnits(v.rest)
              /\ Balanced(s.hdr \o s.buf, w, e, x, Rest(UnitParts(q), i))
<1>1. PICK e \in Seq(UnitSet) : /\ ~v.dead => e = AllUnits(v.rest)
                                /\ (s.hdr \o (s.buf \o w)) \o e = x \o Rest(UnitParts(q), i)
  BY DEF Follows
<1> DEFINE a == s.hdr
           b == s.buf
           R == Rest(UnitParts(q), i)
<1>2. a \in Seq(UnitSet) /\ b \in Seq(UnitSet) /\ R \in Seq(UnitSet)
  BY AllUnitsType, RestType DEF Readers
<1>5. (a \o (b \o w)) \o e = x \o R
  BY <1>1
<1> HIDE DEF a, b, R
<1>3. AreJoined(a, b, w)
  BY <1>2, Joined DEF AreUnits
<1>4. Balanced(a \o b, w, e, x, R)
  BY <1>2, <1>3, <1>5, Zenon DEF AreJoined, Balanced, AreUnits
<1> QED BY <1>1, <1>4, Zenon DEF a, b, R

LEMMA BalancedFollows ==
    ASSUME NEW s \in Readers, NEW w, NEW v, NEW q, NEW i, NEW x, NEW e \in Seq(UnitSet),
           ~v.dead => e = AllUnits(v.rest),
           Balanced(s.hdr \o s.buf, w, e, x, Rest(UnitParts(q), i))
    PROVE  Follows(s, w, v, q, x, i)
<1> DEFINE a == s.hdr
           b == s.buf
           R == Rest(UnitParts(q), i)
<1>1. a \in Seq(UnitSet) /\ b \in Seq(UnitSet) /\ w \in Seq(UnitSet)
  BY DEF Balanced, AreUnits, Readers
<1>2. ((a \o b) \o w) \o e = x \o R
  BY DEF Balanced
<1> HIDE DEF a, b, R
<1>3. AreJoined(a, b, w)
  BY <1>1, Joined DEF AreUnits
<1>4. (a \o (b \o w)) \o e = x \o R
  BY <1>2, <1>3, Zenon DEF AreJoined
<1> QED BY <1>4 DEF Follows, a, b, R

LEMMA FollowsGrows ==
    ASSUME NEW s \in Readers, NEW w \in Seq(UnitSet), NEW v, NEW z, NEW q \in Seq(Recs), NEW i \in 0..Len(q),
           NEW x \in Seq(UnitSet), Follows(s, w, v, q, x, i), ~v.dead,
           NEW a \in Seq(UnitSet), NEW d \in Seq(UnitSet), AllUnits(v.rest) = a \o d,
           ~z.dead => d = AllUnits(z.rest)
    PROVE  Follows(s, w \o a, z, q, x, i)
<1> DEFINE b == s.hdr \o s.buf
           R == Rest(UnitParts(q), i)
<1>1. PICK e \in Seq(UnitSet) : (~v.dead => e = AllUnits(v.rest)) /\ Balanced(b, w, e, x, R)
  BY FollowsBalanced
<1>2. e = a \o d
  BY <1>1
<1> HIDE DEF b, R
<1>3. b \in Seq(UnitSet) /\ x \in Seq(UnitSet) /\ R \in Seq(UnitSet) /\ (b \o w) \o e = x \o R
  BY <1>1 DEF Balanced, AreUnits
<1>4. (b \o (w \o a)) \o d = (b \o w) \o (a \o d) /\ w \o a \in Seq(UnitSet)
  <2>1. AreJoined(b, w, a)
    BY <1>3, Joined DEF AreUnits
  <2>2. AreUnits(b \o w, a, d)
    BY <2>1 DEF AreJoined, AreUnits
  <2>3. AreJoined(b \o w, a, d)
    BY <2>2, Joined
  <2>4. b \o (w \o a) = (b \o w) \o a /\ w \o a \in Seq(UnitSet)
    BY <2>1, Zenon DEF AreJoined
  <2>5. (b \o w) \o (a \o d) = ((b \o w) \o a) \o d
    BY <2>3, Zenon DEF AreJoined
  <2> QED BY <2>4, <2>5, Zenon
<1>5. Balanced(b, w \o a, d, x, R)
  BY <1>2, <1>3, <1>4, Zenon DEF Balanced, AreUnits
<1> QED BY <1>5, BalancedFollows DEF b, R

LEMMA AllUnitsSplit ==
    ASSUME NEW rs \in Seq(Recs), NEW n \in 0..Len(rs)
    PROVE  /\ AllUnits(SubSeq(rs, 1, n)) \in Seq(UnitSet) /\ AllUnits(SubSeq(rs, n + 1, Len(rs))) \in Seq(UnitSet)
           /\ AllUnits(rs) = AllUnits(SubSeq(rs, 1, n)) \o AllUnits(SubSeq(rs, n + 1, Len(rs)))
           /\ AllUnits(SubSeq(rs, n + 1, Len(rs))) = Rest(UnitParts(rs), n)
<1> DEFINE a == SubSeq(rs, 1, n)
           b == SubSeq(rs, n + 1, Len(rs))
           U == UnitParts(rs)
<1>1. /\ a \in Seq(Recs) /\ b \in Seq(Recs) /\ Len(a) = n /\ Len(b) = Len(rs) - n
      /\ \A j \in 1..n : a[j] = rs[j]
      /\ \A j \in 1..(Len(rs) - n) : b[j] = rs[n + j]
  BY CutAt
<1>2. /\ U \in Seq(Seq(UnitSet)) /\ Len(U) = Len(rs)
      /\ \A j \in 1..Len(rs) : U[j] = Units(rs[j])
      /\ AllUnits(rs) = FlattenSeq(U)
  BY AllUnitsType
<1> HIDE DEF a, b, U
<1>3. /\ UnitParts(a) \in Seq(Seq(UnitSet)) /\ Len(UnitParts(a)) = n
      /\ \A j \in 1..n : UnitParts(a)[j] = Units(a[j])
      /\ AllUnits(a) = FlattenSeq(UnitParts(a)) /\ AllUnits(a) \in Seq(UnitSet)
  BY <1>1, AllUnitsType
<1>4. /\ UnitParts(b) \in Seq(Seq(UnitSet)) /\ Len(UnitParts(b)) = Len(rs) - n
      /\ \A j \in 1..(Len(rs) - n) : UnitParts(b)[j] = Units(b[j])
      /\ AllUnits(b) = FlattenSeq(UnitParts(b)) /\ AllUnits(b) \in Seq(UnitSet)
  BY <1>1, AllUnitsType
<1>5. UnitParts(a) = SubSeq(U, 1, n) /\ UnitParts(b) = SubSeq(U, n + 1, Len(U))
  <2>1. /\ SubSeq(U, 1, n) \in Seq(Seq(UnitSet)) /\ SubSeq(U, n + 1, Len(U)) \in Seq(Seq(UnitSet))
        /\ Len(SubSeq(U, 1, n)) = n /\ Len(SubSeq(U, n + 1, Len(U))) = Len(U) - n
        /\ \A j \in 1..n : SubSeq(U, 1, n)[j] = U[j]
        /\ \A j \in 1..(Len(U) - n) : SubSeq(U, n + 1, Len(U))[j] = U[n + j]
    BY <1>2, CutAt
  <2>2. \A j \in 1..n : UnitParts(a)[j] = SubSeq(U, 1, n)[j]
    <3>1. \A j \in 1..n : j \in 1..Len(rs)
      OBVIOUS
    <3>2. \A j \in 1..n : U[j] = Units(rs[j])
      BY ONLY <1>2, <3>1, Zenon
    <3>3. \A j \in 1..n : UnitParts(a)[j] = Units(rs[j])
      BY ONLY <1>1, <1>3, Zenon
    <3>4. \A j \in 1..n : SubSeq(U, 1, n)[j] = U[j]
      BY ONLY <2>1
    <3> QED BY ONLY <3>2, <3>3, <3>4, Zenon
  <2>3. \A j \in 1..(Len(rs) - n) : UnitParts(b)[j] = SubSeq(U, n + 1, Len(U))[j]
    <3>1. \A j \in 1..(Len(rs) - n) : n + j \in 1..Len(rs)
      OBVIOUS
    <3>2. \A j \in 1..(Len(rs) - n) : U[n + j] = Units(rs[n + j])
      BY ONLY <1>2, <3>1, Zenon
    <3>3. \A j \in 1..(Len(rs) - n) : UnitParts(b)[j] = Units(rs[n + j])
      BY ONLY <1>1, <1>4, Zenon
    <3>4. \A j \in 1..(Len(rs) - n) : SubSeq(U, n + 1, Len(U))[j] = U[n + j]
      BY ONLY <1>2, <2>1, Zenon
    <3> QED BY ONLY <3>2, <3>3, <3>4, Zenon
  <2>4. UnitParts(a) = SubSeq(U, 1, n)
    BY <1>3, <2>1, <2>2, SeqEqual
  <2>5. UnitParts(b) = SubSeq(U, n + 1, Len(U))
    BY <1>2, <1>4, <2>1, <2>3, SeqEqual
  <2> QED BY <2>4, <2>5
<1>6. AllUnits(b) = Rest(U, n) /\ AllUnits(a) = Past(U, n)
  BY <1>3, <1>4, <1>5 DEF Rest, Past
<1>7. AllUnits(rs) = AllUnits(a) \o AllUnits(b)
  BY <1>2, <1>6, PastRest
<1> QED BY <1>3, <1>4, <1>6, <1>7 DEF a, b, U

LEMMA SendsGrow ==
    ASSUME Typed, ServerSends
    PROVE  /\ ~server.dead
           /\ \E a, d \in Seq(UnitSet) :
                 /\ wire' = wire \o a /\ AllUnits(server.rest) = a \o d
                 /\ ~server'.dead => d = AllUnits(server'.rest)
<1>0. server.rest \in Seq(Recs) /\ wire \in Seq(UnitSet) /\ ~server.dead
      /\ server \in [q : DOMAIN Requests \cup {"none"}, rest : Seq(Recs), patient : BOOLEAN,
                     dead : BOOLEAN, count : Nat]
  BY DEF Typed, OtherOK, ServerSends
<1>1. PICK n \in 1..Len(server.rest) :
          LET units == AllUnits(SubSeq(server.rest, 1, n)) IN
          \/ /\ wire' = wire \o units
             /\ server' = [server EXCEPT !.rest = SubSeq(@, n + 1, Len(@))]
          \/ \E k \in 0..Len(units) :
                /\ wire' = wire \o SubSeq(units, 1, k)
                /\ server' = [server EXCEPT !.rest = <<>>, !.dead = TRUE]
  BY DEF ServerSends
<1> DEFINE a == AllUnits(SubSeq(server.rest, 1, n))
           d == AllUnits(SubSeq(server.rest, n + 1, Len(server.rest)))
<1>2. n \in 0..Len(server.rest)
  OBVIOUS
<1>3. a \in Seq(UnitSet) /\ d \in Seq(UnitSet) /\ AllUnits(server.rest) = a \o d
  BY <1>0, <1>2, AllUnitsSplit
<1>4. CASE wire' = wire \o a /\ server' = [server EXCEPT !.rest = SubSeq(@, n + 1, Len(@))]
  <2>1. server'.rest = SubSeq(server.rest, n + 1, Len(server.rest))
    BY <1>0, <1>4
  <2> QED BY <1>0, <1>3, <1>4, <2>1
<1>5. CASE \E k \in 0..Len(a) : /\ wire' = wire \o SubSeq(a, 1, k)
                                /\ server' = [server EXCEPT !.rest = <<>>, !.dead = TRUE]
  <2>1. PICK k \in 0..Len(a) : /\ wire' = wire \o SubSeq(a, 1, k)
                               /\ server' = [server EXCEPT !.rest = <<>>, !.dead = TRUE]
    BY <1>5
  <2>2. server'.dead
    BY <1>0, <2>1
  <2> HIDE DEF a, d
  <2> DEFINE b == SubSeq(a, 1, k)
             c == SubSeq(a, k + 1, Len(a))
  <2>3. b \in Seq(UnitSet) /\ c \in Seq(UnitSet) /\ a = b \o c
    BY <1>3, CutAt
  <2> HIDE DEF b, c
  <2>4. AreJoined(b, c, d)
    BY <1>3, <2>3, Joined DEF AreUnits
  <2>5. AllUnits(server.rest) = b \o (c \o d) /\ c \o d \in Seq(UnitSet)
    BY <1>3, <2>3, <2>4, Zenon DEF AreJoined
  <2>6. wire' = wire \o b
    BY <2>1 DEF b
  <2> QED BY <1>0, <2>2, <2>3, <2>5, <2>6, Zenon
<1> QED BY <1>1, <1>4, <1>5 DEF a

LEMMA FollowsSends ==
    ASSUME Typed, ServerSends, NEW q \in Seq(Recs), NEW i \in 0..Len(q), NEW x \in Seq(UnitSet),
           Follows(in, wire, server, q, x, i)
    PROVE  Follows(in, wire', server', q, x, i)
<1>1. in \in Readers /\ wire \in Seq(UnitSet) /\ ~server.dead
  BY SendsGrow DEF Typed, ReaderOK, OtherOK
<1>2. PICK a \in Seq(UnitSet), d \in Seq(UnitSet) :
                 /\ wire' = wire \o a /\ AllUnits(server.rest) = a \o d
                 /\ ~server'.dead => d = AllUnits(server'.rest)
  BY SendsGrow
<1> DEFINE z == wire'
           v == server
           u == server'
<1>3. v = server /\ u = server' /\ ~v.dead /\ AllUnits(v.rest) = a \o d /\ (~u.dead => d = AllUnits(u.rest))
  BY <1>1, <1>2
<1>4. Follows(in, wire \o a, server', q, x, i)
  BY <1>1, <1>2, <1>3, FollowsGrows
<1> QED BY <1>2, <1>4

LEMMA AtSends ==
    ASSUME Typed, ServerSends, NEW q \in Seq(Recs), NEW i \in 1..Len(q), At(in, wire, server, q, i)
    PROVE  At(in, wire', server', q, i)
<1>1. in \in Readers /\ i \in 0..Len(q)
  BY DEF Typed, ReaderOK
<1>2. Left(in, q, i) \in Seq(UnitSet)
  BY <1>1, LeftType DEF At, Whole
<1>3. Follows(in, wire', server', q, Left(in, q, i), i)
  BY <1>1, <1>2, FollowsSends DEF At
<1> QED BY <1>3 DEF At

LEMMA LostSends ==
    ASSUME Typed, ServerSends, NEW q \in Seq(Recs), NEW i \in 1..Len(q), Lost(in, wire, server, q, i)
    PROVE  Lost(in, wire', server', q, i)
<1>1. i \in 0..Len(q)
  OBVIOUS
<1>2. PICK x \in Seq(UnitSet) : Junk(x) /\ Follows(in, wire, server, q, x, i)
  BY DEF Lost
<1>3. Follows(in, wire', server', q, x, i)
  BY <1>1, <1>2, FollowsSends
<1> QED BY <1>2, <1>3 DEF Lost

(* FCGX_UnGetChar *)
LEMMA BytesPush ==
    ASSUME NEW r \in Recs, NEW k \in Nat, k < Len(r.content), ~Begin(r)
    PROVE  LET u == [u |-> "content", c |-> r.content[Len(r.content) - k]] IN
           <<u>> \in Seq(UnitSet) /\ Bytes(r, k + 1) = <<u>> \o Bytes(r, k)
<1> DEFINE L == Len(r.content)
           u == [u |-> "content", c |-> r.content[L - k]]
           a == Bytes(r, k + 1)
           b == Bytes(r, k)
<1>1. L \in Nat /\ k + 1 \in 0..L /\ 1 \in 0..(k + 1) /\ (k + 1) - 1 = k
  <2>1. L \in Nat
    BY RecordShape
  <2> QED BY <2>1
<1>2. PICK x \in Seq(UnitSet) : Len(x) = 1 /\ Bytes(r, k + 1) = x \o Bytes(r, (k + 1) - 1)
  BY <1>1, BytesSplit, ZenonT(30)
<1>3. b \in Seq(UnitSet) /\ a = x \o b
  <2>1. k \in 0..Len(r.content)
    BY <1>1
  <2> QED BY <1>1, <1>2, <2>1, BytesType
<1>4. a[1] = u
  <2>1. 1 \in 1..(k + 1) /\ L - (k + 1) + 1 = L - k
    BY <1>1
  <2> QED BY <2>1 DEF Bytes, Begin
<1> HIDE DEF a, b, u, L
<1>5. (x \o b)[1] = x[1]
  <2>1. x \in Seq(UnitSet) /\ b \in Seq(UnitSet) /\ Len(x) = 1 /\ Len(b) \in Nat
    BY <1>2, <1>3
  <2>2. 1 \in 1..(Len(x) + Len(b)) /\ 1 <= Len(x)
    BY <2>1
  <2> QED BY <2>1, <2>2, ConcatProperties
<1>6. x = <<x[1]>>
  BY <1>2
<1>7. x[1] = u
  BY <1>3, <1>4, <1>5
<1>8. x = <<u>>
  BY <1>6, <1>7
<1> QED BY <1>3, <1>8 DEF a, b, u, L

LEMMA AtUnget ==
    ASSUME NEW s \in Readers, NEW t \in Readers, NEW w \in Seq(UnitSet), NEW v, NEW q \in Seq(Recs),
           NEW i \in 1..Len(q), At(s, w, v, q, i), s.hdr = <<>>, t.hdr = <<>>,
           Whole(s) < Len(q[i].content), Whole(t) = Whole(s) + 1, t.paddingLen = s.paddingLen, ~Begin(q[i]),
           t.buf = <<[u |-> "content", c |-> q[i].content[Len(q[i].content) - Whole(s)]]>> \o s.buf
    PROVE  At(t, w, v, q, i)
<1> DEFINE r == q[i]
           a == <<[u |-> "content", c |-> r.content[Len(r.content) - Whole(s)]]>>
           b == s.buf
           k == Whole(s)
           l == Left(s, q, i)
           R == Rest(UnitParts(q), i)
           B == Bytes(r, k)
           P == Pads(s.paddingLen)
<1>1. r \in Recs /\ k \in Nat /\ k < Len(r.content) /\ i \in 0..Len(q) /\ s.paddingLen \in Nat
      /\ Len(r.content) \in Nat
  <2>1. r \in Recs
    OBVIOUS
  <2>2. Len(r.content) \in Nat
    BY <2>1, RecordShape
  <2> QED BY <2>1, <2>2, WholeType
<1>2. a \in Seq(UnitSet) /\ Bytes(r, k + 1) = a \o Bytes(r, k)
  BY <1>1, BytesPush
<1>3. l \in Seq(UnitSet) /\ Follows(s, w, v, q, l, i)
  <2>1. s.avail + s.contentLen <= Len(q[i].content)
    BY DEF At, Whole
  <2> QED BY <2>1, LeftType DEF At
<1>4. B \in Seq(UnitSet) /\ P \in Seq(UnitSet)
  <2>1. k \in 0..Len(r.content)
    <3> HIDE DEF k
    <3> QED BY <1>1
  <2> QED BY <1>1, <2>1, BytesType, PadsType
<1>5. l = B \o P /\ Left(t, q, i) = Bytes(r, k + 1) \o P /\ t.buf = a \o b /\ b \in Seq(UnitSet)
  BY DEF Left, Whole, Readers
<1> HIDE DEF r, a, b, k, l, R, B, P
<1>6. Left(t, q, i) = a \o l
  <2>1. AreJoined(a, B, P)
    BY <1>2, <1>4, Joined DEF AreUnits
  <2>2. Bytes(r, k + 1) = a \o B
    BY <1>2 DEF B
  <2> QED BY <1>5, <2>1, <2>2, Zenon DEF AreJoined
<1>7. PICK e \in Seq(UnitSet) : (~v.dead => e = AllUnits(v.rest)) /\ Balanced(s.hdr \o s.buf, w, e, l, R)
  BY <1>1, <1>3, FollowsBalanced DEF R
<1>8. s.hdr \o s.buf = b /\ t.hdr \o t.buf = a \o b
  <2>1. AreJoined(a, b, a \o b) /\ AreJoined(a, b, b)
    <3>1. AreJoined(a, b, b)
      BY <1>2, <1>5, Joined DEF AreUnits
    <3>2. a \o b \in Seq(UnitSet)
      BY <3>1 DEF AreJoined
    <3> QED BY <1>2, <1>5, <3>1, <3>2, Joined DEF AreUnits
  <2>2. <<>> \o (a \o b) = a \o b /\ <<>> \o b = b
    BY <2>1, Zenon DEF AreJoined
  <2> QED BY <1>5, <2>2 DEF b
<1>9. Balanced(a \o b, w, e, a \o l, R)
  BY <1>2, <1>7, <1>8, PushFront
<1>10. Balanced(t.hdr \o t.buf, w, e, a \o l, Rest(UnitParts(q), i))
  BY <1>8, <1>9, Zenon DEF R
<1>11. Follows(t, w, v, q, Left(t, q, i), i)
  BY <1>6, <1>7, <1>10, BalancedFollows
<1>12. Whole(t) <= Len(q[i].content)
  BY <1>1 DEF r, k
<1> QED BY <1>11, <1>12 DEF At

LEMMA JunkParts ==
    ASSUME NEW a \in Seq(UnitSet), NEW b \in Seq(UnitSet), Junk(a), Junk(b)
    PROVE  Junk(a \o b)
<1>1. /\ Len(a \o b) = Len(a) + Len(b) /\ Len(a) \in Nat /\ Len(b) \in Nat
      /\ \A j \in 1..(Len(a) + Len(b)) : (a \o b)[j] = IF j <= Len(a) THEN a[j] ELSE b[j - Len(a)]
  BY ConcatProperties
<1>2. \A j \in 1..(Len(a) + Len(b)) : IF j <= Len(a) THEN j \in 1..Len(a) ELSE j - Len(a) \in 1..Len(b)
  BY <1>1
<1>3. \A j \in 1..(Len(a) + Len(b)) : (a \o b)[j].u # "header"
  BY <1>1, <1>2 DEF Junk
<1> QED BY <1>1, <1>3 DEF Junk

(* A header that is taken from what is none.                                *)
LosesHeader(s, w, v, q, i, x, t) ==
    /\ s \in Readers /\ w \in Seq(UnitSet) /\ q \in Seq(Recs) /\ i \in 1..Len(q)
    /\ Len(s.hdr) < HeaderLen /\ Len(TakeHeader(s).hdr) = HeaderLen
    /\ x \in Seq(UnitSet) /\ x # <<>> /\ Junk(x) /\ Follows(s, w, v, q, x, i)
    /\ t \in Readers /\ t.hdr = <<>> /\ t.buf = TakeHeader(s).buf

LEMMA LostHeader ==
    ASSUME NEW s, NEW w, NEW v, NEW q, NEW i, NEW x, NEW t, LosesHeader(s, w, v, q, i, x, t)
    PROVE  /\ TakeHeader(s).hdr[1].u # "header"
           /\ \E j \in {i, i + 1} : j \in 1..Len(q) /\ Lost(t, w, v, q, j)
<1> SUFFICES ASSUME s \in Readers, w \in Seq(UnitSet), q \in Seq(Recs), i \in 1..Len(q),
                    Len(s.hdr) < HeaderLen, Len(TakeHeader(s).hdr) = HeaderLen,
                    x \in Seq(UnitSet), x # <<>>, Junk(x), Follows(s, w, v, q, x, i),
                    t \in Readers, t.hdr = <<>>, t.buf = TakeHeader(s).buf
             PROVE  /\ TakeHeader(s).hdr[1].u # "header"
                    /\ \E j \in {i, i + 1} : j \in 1..Len(q) /\ Lost(t, w, v, q, j)
  BY DEF LosesHeader
<1> DEFINE R == Rest(UnitParts(q), i)
           b == s.hdr \o s.buf
           h == TakeHeader(s).hdr
           c == TakeHeader(s).buf
<1>1. PICK e \in Seq(UnitSet) : (~v.dead => e = AllUnits(v.rest)) /\ Balanced(b, w, e, x, R)
  <2>1. i \in 0..Len(q)
    OBVIOUS
  <2> QED BY <2>1, FollowsBalanced
<1>2. /\ h \in Seq(UnitSet) /\ c \in Seq(UnitSet) /\ b \in Seq(UnitSet)
      /\ HeaderLen <= Len(b) /\ h = SubSeq(b, 1, HeaderLen) /\ c = SubSeq(b, HeaderLen + 1, Len(b))
  BY HeaderCut
<1>3. t.hdr \o t.buf = c
  <2>1. c \in Seq(UnitSet)
    BY <1>2
  <2>2. <<>> \o c = c
    BY <2>1
  <2> QED BY <2>2
<1> HIDE DEF R, b, h, c
<1>4. R \in Seq(UnitSet) /\ (b \o w) \o e = x \o R
  BY <1>1 DEF Balanced, AreUnits
<1>5. HeaderLen \in Nat /\ HeaderLen > 0 /\ Len(x) \in Nat /\ Len(x) > 0
  BY Constants
<1>6. \* once the part before the cut is known
      ASSUME NEW y \in Seq(UnitSet), NEW z \in Seq(UnitSet), NEW N \in Seq(UnitSet), Len(y) = HeaderLen,
             x \o R = (y \o z) \o N
      PROVE  h = y /\ Balanced(c, w, e, z, N)
  <2>1. Starts(UnitSet, b, w, e, y, z, N)
    <3>1. (b \o w) \o e = (y \o z) \o N
      BY <1>4, <1>6, Zenon
    <3> QED BY <1>2, <1>6, <3>1 DEF Starts
  <2>2. Started(UnitSet, b, w, e, y, z, N)
    BY <2>1, ConsumeStart
  <2>3. h = y /\ (c \o w) \o e = z \o N
    BY <1>2, <1>6, <2>2 DEF Started
  <2> QED BY <1>2, <2>3 DEF Balanced, AreUnits
<1>7. CASE HeaderLen <= Len(x)
  <2> DEFINE y == SubSeq(x, 1, HeaderLen)
             z == SubSeq(x, HeaderLen + 1, Len(x))
  <2>1. HeaderLen \in 0..Len(x)
    BY <1>5, <1>7
  <2>2. /\ y \in Seq(UnitSet) /\ z \in Seq(UnitSet) /\ Len(y) = HeaderLen /\ Len(z) = Len(x) - HeaderLen
        /\ x = y \o z
        /\ \A j \in 1..HeaderLen : y[j] = x[j]
        /\ \A j \in 1..(Len(x) - HeaderLen) : z[j] = x[HeaderLen + j]
    BY <2>1, CutAt, ZenonT(30)
  <2> HIDE DEF y, z
  <2>3. h = y /\ Balanced(c, w, e, z, R)
    <3>1. x \o R = (y \o z) \o R
      BY <2>2
    <3> QED BY <1>4, <1>6, <2>2, <3>1
  <2>4. Junk(z)
    <3>1. \A j \in 1..(Len(x) - HeaderLen) : HeaderLen + j \in 1..Len(x)
      BY <1>5, <1>7
    <3> QED BY <2>2, <3>1, ZenonT(30) DEF Junk
  <2>5. h[1].u # "header"
    <3>1. 1 \in 1..HeaderLen /\ 1 \in 1..Len(x)
      BY <1>5
    <3> QED BY <2>2, <2>3, <3>1 DEF Junk
  <2>6. Follows(t, w, v, q, z, i)
    <3>1. Balanced(t.hdr \o t.buf, w, e, z, Rest(UnitParts(q), i))
      BY <1>3, <2>3, Zenon DEF R
    <3> QED BY <1>1, <3>1, BalancedFollows
  <2>7. Lost(t, w, v, q, i)
    BY <2>2, <2>4, <2>6 DEF Lost
  <2> QED BY <2>5, <2>7 DEF h
<1>8. CASE ~(HeaderLen <= Len(x))
  <2>1. i < Len(q)
    <3> SUFFICES ASSUME ~(i < Len(q)) PROVE FALSE
      OBVIOUS
    <3>1. i = Len(q)
      OBVIOUS
    <3>2. R = <<>>
      BY <3>1, AllUnitsType, RestNone DEF R
    <3>3. AreJoined(b, w, e) /\ AreJoined(x, R, R)
      BY <1>1, <1>4, Joined DEF AreUnits, Balanced
    <3>4. x \o R = x /\ b \o w \in Seq(UnitSet) /\ Len(b \o w) = Len(b) + Len(w)
      BY <3>2, <3>3 DEF AreJoined
    <3>5. AreJoined(b \o w, e, e) /\ w \in Seq(UnitSet)
      BY <1>1, <3>4, Joined DEF AreUnits, Balanced
    <3>6. Len((b \o w) \o e) = Len(b \o w) + Len(e)
      BY <3>5 DEF AreJoined
    <3>7. Len(x) = Len(b) + Len(w) + Len(e) /\ Len(b) \in Nat /\ Len(w) \in Nat /\ Len(e) \in Nat
      <4>1. Len(x) = Len((b \o w) \o e)
        BY <1>4, <3>4, Zenon
      <4>2. Len(b) \in Nat /\ Len(w) \in Nat /\ Len(e) \in Nat
        BY <1>2, <3>5
      <4> QED BY <3>4, <3>6, <4>1, <4>2, Zenon
    <3> QED BY <1>2, <1>5, <1>8, <3>7
  <2> DEFINE r == q[i + 1]
             H == Header(r)
             n == HeaderLen - Len(x)
             f == SubSeq(H, 1, n)
             g == SubSeq(H, n + 1, Len(H))
             y == Bytes(r, Len(r.content)) \o Pads(r.pad)
             N == Rest(UnitParts(q), i + 1)
  <2>2. i + 1 \in 1..Len(q) /\ r \in Recs /\ i \in 0..(Len(q) - 1) /\ i + 1 \in 0..Len(q)
    BY <2>1
  <2>3. /\ H \in Seq(UnitSet) /\ Len(H) = HeaderLen
        /\ \A j \in 2..HeaderLen : H[j].u # "header"
    <3>1. /\ H \in Seq(UnitSet) /\ Len(H) = HeaderLen
          /\ \A j \in 2..HeaderLen : H[j] = [u |-> "more"]
      BY <2>2, HeaderType
    <3>2. [u |-> "more"].u # "header"
      OBVIOUS
    <3> HIDE DEF H
    <3> QED BY <3>1, <3>2
  <2>4. y \in Seq(UnitSet) /\ Junk(y) /\ Units(r) = H \o y
    <3>1. r.pad \in Nat /\ Len(r.content) \in 0..Len(r.content)
      BY <2>2, RecordShape
    <3> DEFINE B == Bytes(r, Len(r.content))
               P == Pads(r.pad)
    <3>2. B \in Seq(UnitSet) /\ P \in Seq(UnitSet) /\ Junk(B) /\ Junk(P) /\ Units(r) = H \o (B \o P)
      BY <2>2, <3>1, BytesType, PadsType, UnitsParts DEF Junk
    <3> HIDE DEF B, P
    <3>3. B \o P \in Seq(UnitSet) /\ Junk(B \o P)
      BY <3>2, JunkParts, ConcatProperties
    <3> QED BY <3>2, <3>3 DEF B, P
  <2>5. N \in Seq(UnitSet) /\ R = Units(r) \o N
    <3>1. UnitParts(q) \in Seq(Seq(UnitSet)) /\ Len(UnitParts(q)) = Len(q) /\ UnitParts(q)[i + 1] = Units(r)
      BY <2>2, AllUnitsType
    <3>2. i \in 0..(Len(UnitParts(q)) - 1) /\ i + 1 \in 0..Len(UnitParts(q))
      BY <2>2, <3>1
    <3> QED BY <3>1, <3>2, RestStep, RestType DEF R
  <2> HIDE DEF H, y, N, r
  <2>6. n \in 0..Len(H) /\ n \in Nat /\ n > 0
    BY <1>5, <1>8, <2>3
  <2>7. /\ f \in Seq(UnitSet) /\ g \in Seq(UnitSet) /\ Len(f) = n /\ Len(g) = Len(H) - n /\ H = f \o g
        /\ \A j \in 1..(Len(H) - n) : g[j] = H[n + j]
    <3> HIDE DEF n
    <3> QED BY <2>3, <2>6, CutAt
  <2>8. Junk(g)
    <3>1. \A j \in 1..(Len(H) - n) : n + j \in 2..HeaderLen
      BY <2>3, <2>6
    <3> HIDE DEF n, g
    <3> QED BY <2>3, <2>7, <3>1 DEF Junk
  <2>10. Len(x) + n = HeaderLen
    BY <1>5
  <2> HIDE DEF f, g, n
  <2>9. g \o y \in Seq(UnitSet) /\ Junk(g \o y)
    BY <2>4, <2>7, <2>8, JunkParts, ConcatProperties
  <2>11. x \o f \in Seq(UnitSet) /\ Len(x \o f) = HeaderLen
    <3>1. AreJoined(x, f, f)
      BY <2>7, Joined DEF AreUnits
    <3> QED BY <2>7, <2>10, <3>1 DEF AreJoined
  <2>12. x \o R = ((x \o f) \o (g \o y)) \o N
    <3>1. R = (f \o (g \o y)) \o N
      <4>1. AreJoined(f, g, y)
        BY <2>4, <2>7, Joined DEF AreUnits
      <4> QED BY <2>4, <2>5, <2>7, <4>1, Zenon DEF AreJoined
    <3> DEFINE k == g \o y
    <3>2. k \in Seq(UnitSet)
      BY <2>9
    <3> HIDE DEF k
    <3>3. AreJoined(f, k, N) /\ AreJoined(x, f, k)
      BY <2>5, <2>7, <3>2, Joined DEF AreUnits
    <3>4. AreUnits(x, f \o k, N)
      BY <2>5, <3>3 DEF AreJoined, AreUnits
    <3>5. AreJoined(x, f \o k, N)
      BY <3>4, Joined
    <3>6. x \o ((f \o k) \o N) = (x \o (f \o k)) \o N /\ x \o (f \o k) = (x \o f) \o k
      BY <3>3, <3>5, Zenon DEF AreJoined
    <3> QED BY <3>1, <3>6, Zenon DEF k
  <2> DEFINE k == g \o y
             a == x \o f
  <2>13. k \in Seq(UnitSet) /\ Junk(k) /\ a \in Seq(UnitSet) /\ Len(a) = HeaderLen /\ x \o R = (a \o k) \o N
    BY <2>9, <2>11, <2>12
  <2> HIDE DEF k
  <2>14. h = a /\ Balanced(c, w, e, k, N)
    <3> HIDE DEF a
    <3> QED BY <1>6, <2>5, <2>13
  <2>15. h[1].u # "header"
    <3>1. 1 \in 1..Len(x) /\ 1 \in 1..(Len(x) + Len(f)) /\ 1 <= Len(x)
      BY <1>5, <2>6, <2>7
    <3>2. a[1] = x[1]
      BY <2>7, <3>1, ConcatProperties
    <3> HIDE DEF a
    <3> QED BY <2>14, <3>1, <3>2 DEF Junk
  <2>16. Follows(t, w, v, q, k, i + 1)
    <3>1. Balanced(t.hdr \o t.buf, w, e, k, Rest(UnitParts(q), i + 1))
      BY <1>3, <2>14, Zenon DEF N
    <3> QED BY <1>1, <3>1, BalancedFollows
  <2>17. Lost(t, w, v, q, i + 1)
    BY <2>13, <2>16 DEF Lost
  <2> QED BY <2>2, <2>15, <2>17 DEF h
<1> QED BY <1>7, <1>8

-----------------------------------------------------------------------------
(* What has passed of a stream.                                             *)

Mine(q, i, t) == q[i].id = q[1].id /\ q[i].type = t

ContentParts(q, t) ==
    [i \in 1..Len(q) |-> IF q[i].id = q[1].id /\ q[i].type = t THEN q[i].content ELSE <<>>]

(* All of it in the records before i, and all but the last k of the record. *)
Passed(q, i, k, t) ==
    Past(ContentParts(q, t), i - 1)
    \o IF Mine(q, i, t) THEN SubSeq(q[i].content, 1, Len(q[i].content) - k) ELSE <<>>

LEMMA ContentPartsType ==
    ASSUME NEW q \in Seq(Recs), NEW t
    PROVE  /\ ContentParts(q, t) \in Seq(Seq(Data)) /\ Len(ContentParts(q, t)) = Len(q)
           /\ \A i \in 1..Len(q) :
                 ContentParts(q, t)[i] = IF Mine(q, i, t) THEN q[i].content ELSE <<>>
           /\ Content(q, t) = FlattenSeq(ContentParts(q, t))
<1>1. \A i \in 1..Len(q) : q[i].content \in Seq(Data)
  BY RecordShape
<1>2. <<>> \in Seq(Data)
  OBVIOUS
<1>3. \A i \in 1..Len(q) : (IF q[i].id = q[1].id /\ q[i].type = t THEN q[i].content ELSE <<>>) \in Seq(Data)
  BY <1>1, <1>2
<1>4. ContentParts(q, t) \in Seq(Seq(Data)) /\ Len(ContentParts(q, t)) = Len(q)
  BY <1>3 DEF ContentParts
<1>5. \A i \in 1..Len(q) : ContentParts(q, t)[i] = IF Mine(q, i, t) THEN q[i].content ELSE <<>>
  BY DEF ContentParts, Mine
<1>6. Content(q, t) = FlattenSeq(ContentParts(q, t))
  BY DEF Content, ContentParts
<1> QED BY <1>4, <1>5, <1>6

(* The parts that make it up.                                               *)
LEMMA PassedParts ==
    ASSUME NEW q \in Seq(Recs), NEW i \in 1..Len(q), NEW t, NEW k \in 0..Len(q[i].content)
    PROVE  /\ Past(ContentParts(q, t), i - 1) \in Seq(Data) /\ Past(ContentParts(q, t), i) \in Seq(Data)
           /\ q[i].content \in Seq(Data) /\ Len(q[i].content) \in Nat
           /\ SubSeq(q[i].content, 1, Len(q[i].content) - k) \in Seq(Data)
           /\ Passed(q, i, k, t) \in Seq(Data)
           /\ Mine(q, i, t) =>
                 /\ Passed(q, i, k, t) = Past(ContentParts(q, t), i - 1)
                                         \o SubSeq(q[i].content, 1, Len(q[i].content) - k)
                 /\ Past(ContentParts(q, t), i) = Past(ContentParts(q, t), i - 1) \o q[i].content
           /\ ~Mine(q, i, t) => /\ Passed(q, i, k, t) = Past(ContentParts(q, t), i)
                                /\ Passed(q, i, k, t) = Past(ContentParts(q, t), i - 1)
<1> DEFINE C == ContentParts(q, t)
           c == q[i].content
           f == SubSeq(c, 1, Len(c) - k)
           a == Past(C, i - 1)
<1>1. C \in Seq(Seq(Data)) /\ Len(C) = Len(q) /\ C[i] = IF Mine(q, i, t) THEN c ELSE <<>>
  BY ContentPartsType
<1>2. c \in Seq(Data) /\ Len(c) \in Nat
  <2>1. q[i] \in Recs
    OBVIOUS
  <2> QED BY <2>1, RecordShape
<1>3. f \in Seq(Data)
  BY <1>2
<1> HIDE DEF C
<1>4. i - 1 \in 0..(Len(C) - 1) /\ i - 1 \in 0..Len(C) /\ i \in 0..Len(C) /\ (i - 1) + 1 = i
  BY <1>1
<1>5. a \in Seq(Data) /\ Past(C, i) \in Seq(Data)
  BY <1>1, <1>4, PastType
<1>6. Past(C, i) = a \o C[i]
  <2>1. Past(C, (i - 1) + 1) = Past(C, i - 1) \o C[(i - 1) + 1]
    BY <1>1, <1>4, PastStep
  <2> QED BY <1>4, <2>1
<1>7. Passed(q, i, k, t) = a \o IF Mine(q, i, t) THEN f ELSE <<>>
  BY DEF Passed, C
<1> HIDE DEF a, f, c
<1>8. a \o f \in Seq(Data) /\ a \o <<>> = a
  BY <1>3, <1>5
<1>9. Mine(q, i, t) => Passed(q, i, k, t) = a \o f /\ Past(C, i) = a \o c
  BY <1>1, <1>6, <1>7
<1>10. ~Mine(q, i, t) => Passed(q, i, k, t) = a /\ Past(C, i) = a
  BY <1>1, <1>6, <1>7, <1>8
<1> QED BY <1>2, <1>3, <1>5, <1>8, <1>9, <1>10 DEF C, c, f, a

LEMMA PassedOther ==
    ASSUME NEW q, NEW i, NEW t, NEW k, NEW l, ~Mine(q, i, t)
    PROVE  Passed(q, i, k, t) = Passed(q, i, l, t)
BY DEF Passed

(* The record has passed.                                                   *)
LEMMA PassedRecord ==
    ASSUME NEW q \in Seq(Recs), NEW i \in 1..Len(q), NEW t
    PROVE  Passed(q, i, 0, t) = Past(ContentParts(q, t), i)
<1> DEFINE c == q[i].content
<1>1. q[i].content \in Seq(Data) /\ Len(q[i].content) \in Nat
  <2>1. q[i] \in Recs
    OBVIOUS
  <2> QED BY <2>1, RecordShape
<1>2. 0 \in 0..Len(q[i].content)
  BY <1>1
<1>3. SubSeq(c, 1, Len(c) - 0) = c
  <2> HIDE DEF c
  <2>1. Len(c) - 0 = Len(c) /\ c \in Seq(Data)
    BY <1>1 DEF c
  <2> QED BY <2>1, SubSeqFull
<1>4. /\ Mine(q, i, t) =>
            /\ Passed(q, i, 0, t) = Past(ContentParts(q, t), i - 1) \o SubSeq(c, 1, Len(c) - 0)
            /\ Past(ContentParts(q, t), i) = Past(ContentParts(q, t), i - 1) \o c
      /\ ~Mine(q, i, t) => Passed(q, i, 0, t) = Past(ContentParts(q, t), i)
  BY <1>2, PassedParts
<1> HIDE DEF c
<1> QED BY <1>3, <1>4, Zenon

LEMMA PassedNext ==
    ASSUME NEW q \in Seq(Recs), NEW i \in 1..(Len(q) - 1), NEW t
    PROVE  Passed(q, i, 0, t) = Passed(q, i + 1, Len(q[i + 1].content), t)
<1> DEFINE P == Past(ContentParts(q, t), i)
           c == q[i + 1].content
<1>1. i \in 1..Len(q) /\ i + 1 \in 1..Len(q) /\ (i + 1) - 1 = i
  OBVIOUS
<1>2. Passed(q, i, 0, t) = P
  BY <1>1, PassedRecord
<1>3. q[i + 1].content \in Seq(Data) /\ Len(c) \in 0..Len(c) /\ Len(c) - Len(c) = 0
  <2>1. q[i + 1] \in Recs
    BY <1>1
  <2>2. q[i + 1].content \in Seq(Data)
    BY <2>1, RecordShape
  <2>3. Len(c) \in Nat
    BY <2>2
  <2> HIDE DEF c
  <2> QED BY <2>2, <2>3
<1>4. SubSeq(c, 1, 0) = <<>>
  BY <1>3
<1>5. Passed(q, i + 1, Len(c), t) = P \o (IF Mine(q, i + 1, t) THEN SubSeq(c, 1, 0) ELSE <<>>)
  BY <1>1, <1>3, Zenon DEF Passed
<1>6. P \in Seq(Data)
  BY <1>1, <1>3, PassedParts
<1> HIDE DEF P
<1>7. P \o <<>> = P
  BY <1>6
<1> QED BY <1>2, <1>4, <1>5, <1>7

(* More of the record.                                                      *)
LEMMA PassedMore ==
    ASSUME NEW q \in Seq(Recs), NEW i \in 1..Len(q), NEW t, Mine(q, i, t),
           NEW k \in 0..Len(q[i].content), NEW n \in 0..k, NEW y \in Seq(Data), Len(y) = n,
           \A j \in 1..n : y[j] = q[i].content[(Len(q[i].content) - k) + j]
    PROVE  Passed(q, i, k, t) \o y = Passed(q, i, k - n, t)
<1> DEFINE c == q[i].content
           m == Len(c) - k
           P == Past(ContentParts(q, t), i - 1)
           f == SubSeq(c, 1, m)
<1>1. /\ c \in Seq(Data) /\ Len(c) \in Nat /\ P \in Seq(Data) /\ f \in Seq(Data)
      /\ Passed(q, i, k, t) = P \o f
  BY PassedParts, ZenonT(30)
<1>2. k - n \in 0..Len(c) /\ Len(c) - (k - n) = m + n /\ m \in 0..Len(c) /\ n \in 0..(Len(c) - m)
  <2> HIDE DEF c
  <2>1. Len(c) \in Nat /\ k \in 0..Len(c)
    BY <1>1 DEF c
  <2> QED BY <2>1
<1>3. Passed(q, i, k - n, t) = P \o SubSeq(c, 1, m + n)
  BY <1>2, PassedParts
<1>4. f \o y = SubSeq(c, 1, m + n)
  <2>1. \A j \in 1..n : y[j] = c[m + j]
    OBVIOUS
  <2> HIDE DEF c, m
  <2> QED BY <1>1, <1>2, <2>1, FirstMore DEF f
<1> HIDE DEF P, f, c, m
<1>5. (P \o f) \o y = P \o (f \o y)
  <2>1. AreSeqs(Data, P, f, y)
    BY <1>1, Zenon DEF AreSeqs
  <2>2. Associates(P, f, y)
    BY <2>1, Association, Zenon
  <2> QED BY <2>2, Zenon DEF Associates
<1> QED BY <1>1, <1>3, <1>4, <1>5

LEMMA PassedBack ==
    ASSUME NEW q \in Seq(Recs), NEW i \in 1..Len(q), NEW t, Mine(q, i, t),
           NEW k \in Nat, k < Len(q[i].content)
    PROVE  /\ Passed(q, i, k + 1, t) \in Seq(Data) /\ q[i].content[Len(q[i].content) - k] \in Data
           /\ Passed(q, i, k, t) = Append(Passed(q, i, k + 1, t), q[i].content[Len(q[i].content) - k])
<1> DEFINE c == q[i].content
           v == c[Len(c) - k]
           P == Passed(q, i, k + 1, t)
<1>1. c \in Seq(Data) /\ Len(c) \in Nat
  <2>1. q[i] \in Recs
    OBVIOUS
  <2> QED BY <2>1, RecordShape
<1>2. /\ k + 1 \in 0..Len(c) /\ 1 \in 0..(k + 1) /\ (k + 1) - 1 = k /\ Len(c) - k \in 1..Len(c)
      /\ (Len(c) - (k + 1)) + 1 = Len(c) - k
  <2> HIDE DEF c
  <2>1. Len(c) \in Nat /\ k < Len(c)
    BY <1>1 DEF c
  <2> QED BY <2>1
<1>3. v \in Data
  BY <1>1, <1>2
<1>4. P \in Seq(Data)
  BY <1>2, PassedParts
<1>5. /\ <<v>> \in Seq(Data) /\ Len(<<v>>) = 1
      /\ \A j \in 1..1 : <<v>>[j] = c[(Len(c) - (k + 1)) + j]
  <2>1. \A j \in 1..1 : j = 1
    OBVIOUS
  <2>2. <<v>> \in Seq(Data) /\ Len(<<v>>) = 1 /\ <<v>>[1] = v
    BY <1>3
  <2> QED BY <1>2, <2>1, <2>2
<1>6. P \o <<v>> = Passed(q, i, k, t)
  <2>1. k + 1 \in 0..Len(q[i].content) /\ 1 \in 0..(k + 1)
    BY <1>2
  <2>2. P \o <<v>> = Passed(q, i, (k + 1) - 1, t)
    BY <2>1, <1>5, PassedMore, ZenonT(30)
  <2> QED BY <1>2, <2>2, Zenon
<1> HIDE DEF P, v
<1>7. P \o <<v>> = Append(P, v)
  BY <1>3, <1>4
<1> QED BY <1>3, <1>4, <1>6, <1>7 DEF P, v

LEMMA PassedPrefix ==
    ASSUME NEW q \in Seq(Recs), NEW i \in 1..Len(q), NEW t, NEW k \in 0..Len(q[i].content)
    PROVE  IsPrefix(Passed(q, i, k, t), Content(q, t))
<1> DEFINE C == ContentParts(q, t)
           P == Passed(q, i, k, t)
           R == Rest(C, i)
           c == q[i].content
<1>1. /\ C \in Seq(Seq(Data)) /\ Len(C) = Len(q) /\ i \in 0..Len(C) /\ Content(q, t) = FlattenSeq(C)
      /\ P \in Seq(Data) /\ c \in Seq(Data) /\ Len(c) \in Nat
  <2>1. C \in Seq(Seq(Data)) /\ Len(C) = Len(q) /\ Content(q, t) = FlattenSeq(C)
    BY ContentPartsType
  <2>2. P \in Seq(Data) /\ c \in Seq(Data) /\ Len(c) \in Nat
    BY PassedParts
  <2> QED BY <2>1, <2>2
<1>2. R \in Seq(Data) /\ Content(q, t) = Past(C, i) \o R
  BY <1>1, PastRest, RestType
<1>3. \E z \in Seq(Data) : Past(C, i) = P \o z
  <2>1. CASE Mine(q, i, t)
    <3> DEFINE n == Len(c) - k
               z == SubSeq(c, n + 1, Len(c))
    <3>0. n \in 0..Len(c)
      <4> HIDE DEF c
      <4>1. Len(c) \in Nat /\ k \in 0..Len(c)
        BY <1>1 DEF c
      <4> QED BY <4>1
    <3>1. z \in Seq(Data) /\ Len(z) = k /\ \A j \in 1..k : z[j] = c[n + j]
      <4>1. Len(c) - n = k
        <5> HIDE DEF c
        <5>1. Len(c) \in Nat /\ k \in 0..Len(c)
          BY <1>1 DEF c
        <5> QED BY <5>1
      <4>2. /\ z \in Seq(Data) /\ Len(z) = Len(c) - n
            /\ \A j \in 1..(Len(c) - n) : z[j] = c[n + j]
        <5> HIDE DEF c, n
        <5> QED BY <1>1, <3>0, CutAt
      <4> QED BY <4>1, <4>2
    <3>2. k \in 0..k /\ k - k = 0
      BY <1>1
    <3>3. P \o z = Passed(q, i, k - k, t)
      <4>1. \A j \in 1..k : z[j] = q[i].content[(Len(q[i].content) - k) + j]
        BY <3>1
      <4>2. z \in Seq(Data) /\ Len(z) = k
        BY <3>1
      <4> HIDE DEF z, P
      <4> DEFINE m == k
      <4>3. m \in 0..k /\ Len(z) = m /\ \A j \in 1..m : z[j] = q[i].content[(Len(q[i].content) - k) + j]
        BY <3>2, <4>1, <4>2
      <4> HIDE DEF m, c, C
      <4>4. Passed(q, i, k, t) \o z = Passed(q, i, k - m, t)
        BY <2>1, <4>2, <4>3, PassedMore
      <4> QED BY <4>4 DEF P, m
    <3>4. Passed(q, i, 0, t) = Past(C, i)
      BY PassedRecord
    <3> QED BY <3>1, <3>2, <3>3, <3>4
  <2>2. CASE ~Mine(q, i, t)
    <3>1. P = Past(C, i)
      BY <2>2, PassedParts
    <3>2. P \o <<>> = P /\ <<>> \in Seq(Data)
      BY <1>1, ConcatEmptySeq, EmptySeq
    <3> QED BY <3>1, <3>2
  <2> QED BY <2>1, <2>2
<1>4. PICK z \in Seq(Data) : Past(C, i) = P \o z
  BY <1>3
<1> HIDE DEF P, R, C, c
<1>5. Content(q, t) = P \o (z \o R) /\ z \o R \in Seq(Data)
  <2>1. (P \o z) \o R = P \o (z \o R) /\ z \o R \in Seq(Data)
    <3>1. P \in Seq(Data) /\ z \in Seq(Data) /\ R \in Seq(Data)
      BY <1>1, <1>2
    <3> QED BY <3>1, SMTT(30)
  <2> QED BY <1>2, <1>4, <2>1
<1>6. IsPrefix(P, P \o (z \o R))
  BY <1>1, <1>5, PrefixOfConcat
<1> QED BY <1>5, <1>6 DEF P

(* Nothing of it comes after the record.                                    *)
LEMMA PassedWhole ==
    ASSUME NEW q \in Seq(Recs), NEW i \in 1..Len(q), NEW t, NEW k \in 0..Len(q[i].content),
           Mine(q, i, t) => k = 0,
           \A j \in (i + 1)..Len(q) : Mine(q, j, t) => q[j].content = <<>>
    PROVE  Passed(q, i, k, t) = Content(q, t)
<1> DEFINE C == ContentParts(q, t)
<1>1. /\ C \in Seq(Seq(Data)) /\ Len(C) = Len(q) /\ i \in 0..Len(C) /\ Content(q, t) = FlattenSeq(C)
      /\ \A j \in 1..Len(q) : C[j] = IF Mine(q, j, t) THEN q[j].content ELSE <<>>
  BY ContentPartsType
<1>2. Passed(q, i, k, t) = Past(C, i)
  <2>1. Passed(q, i, 0, t) = Past(C, i)
    BY PassedRecord
  <2>2. ~Mine(q, i, t) => Passed(q, i, k, t) = Past(C, i)
    BY PassedParts
  <2> QED BY <2>1, <2>2
<1> HIDE DEF C
<1>3. \A j \in (i + 1)..Len(C) : C[j] = <<>>
  <2>1. \A j \in (i + 1)..Len(C) : j \in 1..Len(q) /\ j \in (i + 1)..Len(q)
    BY <1>1
  <2> QED BY <1>1, <2>1
<1>4. Past(C, i) = FlattenSeq(C)
  BY <1>1, <1>3, PastWhole
<1> QED BY <1>1, <1>2, <1>4

(* Nothing of it has come yet.                                              *)
LEMMA PassedNothing ==
    ASSUME NEW q \in Seq(Recs), NEW i \in 1..Len(q), NEW t, NEW k \in 0..Len(q[i].content),
           \A j \in 1..i : ~Mine(q, j, t)
    PROVE  Passed(q, i, k, t) = <<>>
<1> DEFINE C == ContentParts(q, t)
<1>1. /\ C \in Seq(Seq(Data)) /\ Len(C) = Len(q) /\ i \in 0..Len(C) /\ i \in 1..i
      /\ \A j \in 1..Len(q) : C[j] = IF Mine(q, j, t) THEN q[j].content ELSE <<>>
  BY ContentPartsType
<1>2. Passed(q, i, k, t) = Past(C, i)
  BY <1>1, PassedParts
<1> HIDE DEF C
<1>3. \A j \in 1..i : C[j] = <<>>
  <2>1. \A j \in 1..i : j \in 1..Len(q)
    OBVIOUS
  <2> QED BY <1>1, <2>1
<1>4. Past(C, i) = <<>>
  BY <1>1, <1>3, PastEmpty
<1> QED BY <1>2, <1>4

-----------------------------------------------------------------------------
(* Answers.                                                                 *)

AnswerParts(rs, id) ==
    [i \in 1..Len(rs) |-> IF Answered(rs[i], id) THEN <<Answer(rs[i])>> ELSE <<>>]

(* The answers to the first i records of a request.                         *)
AnswersPast(q, i) == Past(AnswerParts(q, q[1].id), i)

LEMMA TextsType == ASSUME NEW x \in Seq(Data) PROVE Texts(x) \in Seq(Data)
<1>1. "junk" \in Data
  BY DEF Data
<1> QED BY <1>1, TextsAppend

LEMMA AnswerType == ASSUME NEW r \in Recs PROVE Answer(r) \in AnswerSet
<1>1. r.id \in Nat /\ r.content \in Seq(Data)
  BY RecordShape
<1>2. CASE Begin(r)
  <2>1. Answer(r) = [type |-> "CANT_MPX_CONN", id |-> r.id]
    BY <1>2, Zenon DEF Answer, Begin
  <2> QED BY <1>1, <2>1 DEF AnswerSet
<1>3. CASE ~Begin(r) /\ r.type = "GET_VALUES"
  <2>1. Answer(r) = [type |-> "GET_VALUES_RESULT", id |-> 0, vals |-> ValuesResult(Texts(r.content))]
    BY <1>3, Zenon DEF Answer, ValuesResult
  <2>2. Texts(r.content) \in Seq(Data)
    BY <1>1, TextsType
  <2> QED BY <2>1, <2>2 DEF AnswerSet
<1>4. CASE ~Begin(r) /\ r.type # "GET_VALUES"
  <2>1. Answer(r) = [type |-> "UNKNOWN_TYPE", id |-> 0]
    BY <1>4 DEF Answer
  <2> QED BY <2>1 DEF AnswerSet
<1> QED BY <1>2, <1>3, <1>4

(* Which answer it is.                                                      *)
LEMMA AnswerIs ==
    ASSUME NEW r
    PROVE  /\ Begin(r) => Answer(r) = [type |-> "CANT_MPX_CONN", id |-> r.id]
           /\ ~Begin(r) /\ r.type = "GET_VALUES" =>
                 Answer(r) = [type |-> "GET_VALUES_RESULT", id |-> 0, vals |-> ValuesResult(Texts(r.content))]
           /\ ~Begin(r) /\ r.type # "GET_VALUES" => Answer(r) = [type |-> "UNKNOWN_TYPE", id |-> 0]
<1>1. Begin(r) => Answer(r) = [type |-> "CANT_MPX_CONN", id |-> r.id]
  BY Zenon DEF Answer, Begin
<1>2. ~Begin(r) /\ r.type = "GET_VALUES" =>
         Answer(r) = [type |-> "GET_VALUES_RESULT", id |-> 0, vals |-> ValuesResult(Texts(r.content))]
  BY Zenon DEF Answer, ValuesResult
<1>3. ~Begin(r) /\ r.type # "GET_VALUES" => Answer(r) = [type |-> "UNKNOWN_TYPE", id |-> 0]
  BY Zenon DEF Answer
<1> QED BY <1>1, <1>2, <1>3

LEMMA AnswerPartsType ==
    ASSUME NEW rs \in Seq(Recs), NEW id
    PROVE  /\ AnswerParts(rs, id) \in Seq(Seq(AnswerSet)) /\ Len(AnswerParts(rs, id)) = Len(rs)
           /\ \A i \in 1..Len(rs) :
                 AnswerParts(rs, id)[i] = IF Answered(rs[i], id) THEN <<Answer(rs[i])>> ELSE <<>>
           /\ AnswersTo(rs, id) = FlattenSeq(AnswerParts(rs, id))
<1>1. \A i \in 1..Len(rs) : Answer(rs[i]) \in AnswerSet
  BY AnswerType
<1>2. \A a \in AnswerSet : <<a>> \in Seq(AnswerSet)
  OBVIOUS
<1>3. <<>> \in Seq(AnswerSet)
  OBVIOUS
<1>4. \A i \in 1..Len(rs) : (IF Answered(rs[i], id) THEN <<Answer(rs[i])>> ELSE <<>>) \in Seq(AnswerSet)
  BY <1>1, <1>2, <1>3
<1>5. /\ AnswerParts(rs, id) \in Seq(Seq(AnswerSet)) /\ Len(AnswerParts(rs, id)) = Len(rs)
      /\ \A i \in 1..Len(rs) :
                 AnswerParts(rs, id)[i] = IF Answered(rs[i], id) THEN <<Answer(rs[i])>> ELSE <<>>
  BY <1>4 DEF AnswerParts
<1>6. AnswersTo(rs, id) = FlattenSeq(AnswerParts(rs, id))
  BY DEF AnswersTo, AnswerParts
<1> QED BY <1>5, <1>6

LEMMA AnswersNext ==
    ASSUME NEW q \in Seq(Recs), NEW i \in 0..(Len(q) - 1)
    PROVE  /\ AnswersPast(q, i) \in Seq(AnswerSet)
           /\ AnswersPast(q, i + 1) = IF Answered(q[i + 1], q[1].id)
                                      THEN Append(AnswersPast(q, i), Answer(q[i + 1]))
                                      ELSE AnswersPast(q, i)
<1> DEFINE A == AnswerParts(q, q[1].id)
           P == AnswersPast(q, i)
           v == Answer(q[i + 1])
<1>1. i + 1 \in 1..Len(q) /\ q[i + 1] \in Recs
  OBVIOUS
<1>2. /\ A \in Seq(Seq(AnswerSet)) /\ Len(A) = Len(q)
      /\ A[i + 1] = IF Answered(q[i + 1], q[1].id) THEN <<v>> ELSE <<>>
  BY <1>1, AnswerPartsType
<1>3. v \in AnswerSet
  BY <1>1, AnswerType
<1>4. P = Past(A, i) /\ AnswersPast(q, i + 1) = Past(A, i + 1)
  BY DEF AnswersPast
<1> HIDE DEF A, P, v
<1>5. i \in 0..Len(A) /\ i \in 0..(Len(A) - 1)
  BY <1>2
<1>6. P \in Seq(AnswerSet) /\ AnswersPast(q, i + 1) = P \o A[i + 1]
  BY <1>2, <1>4, <1>5, PastType, PastStep
<1>7. P \in Seq(AnswerSet)
  BY <1>6
<1>8. P \o <<v>> = Append(P, v) /\ P \o <<>> = P
  BY <1>3, <1>7
<1> QED BY <1>2, <1>6, <1>8, Zenon DEF P, v

LEMMA AnswersPrefix ==
    ASSUME NEW q \in Seq(Recs), NEW i \in 0..Len(q)
    PROVE  /\ IsPrefix(AnswersPast(q, i), AnswersTo(q, q[1].id))
           /\ AnswersPast(q, i) \in Seq(AnswerSet)
           /\ AnswersPast(q, Len(q)) = AnswersTo(q, q[1].id)
           /\ AnswersPast(q, 0) = <<>>
<1> DEFINE A == AnswerParts(q, q[1].id)
<1>1. A \in Seq(Seq(AnswerSet)) /\ Len(A) = Len(q) /\ AnswersTo(q, q[1].id) = FlattenSeq(A)
  BY AnswerPartsType
<1> HIDE DEF A
<1>2. i \in 0..Len(A)
  BY <1>1
<1>3. IsPrefix(Past(A, i), FlattenSeq(A)) /\ Past(A, i) \in Seq(AnswerSet)
  BY <1>1, <1>2, PastPrefix, PastType
<1>4. Past(A, Len(A)) = FlattenSeq(A) /\ Past(A, 0) = <<>>
  BY <1>1, PastAll, PastNone
<1> QED BY <1>1, <1>3, <1>4 DEF AnswersPast, A

(* What a web server that has sent m records is owed.                       *)
LEMMA AnswersOwed ==
    ASSUME NEW q \in Seq(Recs), NEW m \in 0..Len(q)
    PROVE  Len(AnswersTo(q, q[1].id)) - Len(AnswersTo(SubSeq(q, m + 1, Len(q)), q[1].id))
           = Len(AnswersPast(q, m))
<1> DEFINE id == q[1].id
           A == AnswerParts(q, id)
           b == SubSeq(q, m + 1, Len(q))
           B == AnswerParts(b, id)
<1>1. /\ b \in Seq(Recs) /\ Len(b) = Len(q) - m
      /\ \A j \in 1..(Len(q) - m) : b[j] = q[m + j]
  BY CutAt
<1>2. /\ A \in Seq(Seq(AnswerSet)) /\ Len(A) = Len(q) /\ AnswersTo(q, id) = FlattenSeq(A)
      /\ \A j \in 1..Len(q) : A[j] = IF Answered(q[j], id) THEN <<Answer(q[j])>> ELSE <<>>
  BY AnswerPartsType
<1> HIDE DEF b
<1>3. /\ B \in Seq(Seq(AnswerSet)) /\ Len(B) = Len(b) /\ AnswersTo(b, id) = FlattenSeq(B)
      /\ \A j \in 1..Len(b) : B[j] = IF Answered(b[j], id) THEN <<Answer(b[j])>> ELSE <<>>
  BY <1>1, AnswerPartsType
<1> HIDE DEF A, B, id
<1>4. B = SubSeq(A, m + 1, Len(A))
  <2>1. /\ SubSeq(A, m + 1, Len(A)) \in Seq(Seq(AnswerSet)) /\ Len(SubSeq(A, m + 1, Len(A))) = Len(A) - m
        /\ \A j \in 1..(Len(A) - m) : SubSeq(A, m + 1, Len(A))[j] = A[m + j]
    BY <1>2, CutAt
  <2>2. \A j \in 1..(Len(q) - m) : m + j \in 1..Len(q)
    OBVIOUS
  <2>3. \A j \in 1..Len(B) : B[j] = SubSeq(A, m + 1, Len(A))[j]
    BY <1>1, <1>2, <1>3, <2>1, <2>2
  <2> QED BY <1>1, <1>2, <1>3, <2>1, <2>3, SeqEqual
<1>5. FlattenSeq(B) = Rest(A, m)
  BY <1>4 DEF Rest
<1>6. m \in 0..Len(A)
  BY <1>2
<1>7. Past(A, m) \in Seq(AnswerSet) /\ Rest(A, m) \in Seq(AnswerSet) /\ FlattenSeq(A) = Past(A, m) \o Rest(A, m)
  BY <1>2, <1>6, PastType, RestType, PastRest
<1> DEFINE a == Past(A, m)
           c == Rest(A, m)
<1>8. Len(a \o c) = Len(a) + Len(c) /\ Len(a) \in Nat /\ Len(c) \in Nat
  <2>1. a \in Seq(AnswerSet) /\ c \in Seq(AnswerSet)
    BY <1>7
  <2> HIDE DEF a, c
  <2> QED BY <2>1
<1>9. (Len(a) + Len(c)) - Len(c) = Len(a)
  <2> HIDE DEF a, c
  <2> QED BY <1>8
<1>10. AnswersPast(q, m) = a
  BY DEF AnswersPast, A, id
<1> QED BY <1>2, <1>3, <1>5, <1>7, <1>8, <1>9, <1>10 DEF b, id

LEMMA AnswersMore ==
    ASSUME NEW q \in Seq(Recs), NEW i \in 0..Len(q), NEW m \in i..Len(q)
    PROVE  Len(AnswersPast(q, i)) <= Len(AnswersPast(q, m))
<1>1. /\ AnswerParts(q, q[1].id) \in Seq(Seq(AnswerSet)) /\ Len(AnswerParts(q, q[1].id)) = Len(q)
  BY AnswerPartsType
<1> QED BY <1>1, PastLonger DEF AnswersPast

-----------------------------------------------------------------------------
(* Requests that the parser is up to.                                       *)

(* Where a stream ends, and where the one before it did.                    *)
Hi(q, p, s, t) == IF t = "PARAMS" THEN p ELSE IF t = "STDIN" THEN s ELSE Len(q)
Lo(p, s, t) == IF t = "PARAMS" THEN 1 ELSE IF t = "STDIN" THEN p ELSE s

Streams == {"PARAMS", "STDIN", "DATA"}

Spans(q, p, s) == q \in Seq(Recs) /\ Tame(q) /\ p \in 1..Len(q) /\ s \in 1..Len(q) /\ Ends(q, p, s)

LEMMA TameFirst ==
    ASSUME NEW q, NEW p, NEW s, Spans(q, p, s)
    PROVE  /\ 1 \in 1..Len(q) /\ q[1] \in Recs /\ Begin(q[1]) /\ q[1].id # 0 /\ q[1].pad = 0
           /\ Len(q[1].content) = 1 /\ q[1].content[1].role \in Roles
           /\ Len(Content(q, "PARAMS")) % 2 = 0
           /\ \A t \in Streams : ~Mine(q, 1, t)
           /\ ~Answered(q[1], q[1].id) /\ Len(q) \in Nat
<1>1. /\ q \in Seq(Recs) /\ Begin(q[1]) /\ q[1].id # 0 /\ q[1].pad = 0
      /\ Len(q[1].content) = 1 /\ q[1].content[1].role \in Roles
      /\ Len(Content(q, "PARAMS")) % 2 = 0 /\ p \in 1..Len(q)
  BY DEF Spans, Tame, WellFormed
<1>2. 1 \in 1..Len(q) /\ q[1] \in Recs /\ Len(q) \in Nat
  BY <1>1
<1>3. (\A t \in Streams : ~Mine(q, 1, t)) /\ ~Answered(q[1], q[1].id)
  BY <1>1 DEF Streams, Mine, Begin, Answered, Management
<1> QED BY <1>1, <1>2, <1>3

LEMMA Bounds ==
    ASSUME NEW q, NEW p, NEW s, Spans(q, p, s)
    PROVE  /\ q \in Seq(Recs) /\ Len(q) \in Nat /\ p \in Nat /\ s \in Nat /\ 1 < p /\ p < s /\ s <= Len(q)
           /\ s < Len(q) <=> q[1].content[1].role = "FILTER"
           /\ \A t \in Streams : /\ Lo(p, s, t) \in 1..Len(q) /\ Hi(q, p, s, t) \in 1..Len(q)
                                 /\ t # "DATA" => Lo(p, s, t) < Hi(q, p, s, t)
BY DEF Spans, Ends, Streams, Lo, Hi

(* The records of a stream, and the one that ends it.                       *)
LEMMA StreamRecord ==
    ASSUME NEW q, NEW p, NEW s, Spans(q, p, s), NEW j \in 1..Len(q), NEW t \in Streams
    PROVE  /\ Mine(q, j, t) => Lo(p, s, t) < j /\ j <= Hi(q, p, s, t)
           /\ (q[j].id = q[1].id /\ Lo(p, s, t) < j /\ j <= Hi(q, p, s, t)) =>
                 /\ Mine(q, j, t)
                 /\ q[j].content = <<>> <=> j = Hi(q, p, s, t)
           /\ (q[j].id = q[1].id /\ j > 1) => ~Begin(q[j]) /\ q[j].id # 0
<1>1. /\ 1 < p /\ p < s /\ s <= Len(q) /\ p \in Nat /\ s \in Nat /\ Len(q) \in Nat
      /\ q[1].type = "BEGIN_REQUEST" /\ q[1].id # 0
  BY DEF Spans, Ends, Tame, WellFormed, Begin
<1>2. j > 1 /\ q[j].id = q[1].id =>
          /\ q[j].type = (IF j <= p THEN "PARAMS" ELSE IF j <= s THEN "STDIN" ELSE "DATA")
          /\ q[j].content = <<>> <=> j \in {p, s, Len(q)}
  <2>1. j > 1 => j \in 2..Len(q)
    OBVIOUS
  <2> QED BY <2>1 DEF Spans, Ends
<1>3. CASE j = 1
  BY <1>1, <1>3 DEF Mine, Lo, Hi, Streams
<1>4. CASE j > 1
  <2>1. CASE t = "PARAMS"
    BY <1>1, <1>2, <1>4, <2>1 DEF Mine, Lo, Hi, Begin
  <2>2. CASE t = "STDIN"
    BY <1>1, <1>2, <1>4, <2>2 DEF Mine, Lo, Hi, Begin
  <2>3. CASE t = "DATA"
    BY <1>1, <1>2, <1>4, <2>3 DEF Mine, Lo, Hi, Begin
  <2> QED BY <2>1, <2>2, <2>3 DEF Streams
<1> QED BY <1>3, <1>4

LEMMA StreamEnd ==
    ASSUME NEW q, NEW p, NEW s, Spans(q, p, s), NEW t \in Streams
    PROVE  LET e == Hi(q, p, s, t) IN q[e].id = q[1].id /\ q[e].pad = 0 /\ q[e].content = <<>> /\ e > 1
<1>1. /\ 1 < p /\ p < s /\ s <= Len(q) /\ p \in Nat /\ s \in Nat /\ Len(q) \in Nat
      /\ \A i \in {p, s, Len(q)} : q[i].id = q[1].id /\ q[i].pad = 0
      /\ \A i \in 2..Len(q) : q[i].id = q[1].id => (q[i].content = <<>> <=> i \in {p, s, Len(q)})
  BY DEF Spans, Ends
<1>2. Hi(q, p, s, t) \in {p, s, Len(q)} /\ Hi(q, p, s, t) \in 2..Len(q)
  BY <1>1 DEF Hi
<1> QED BY <1>1, <1>2

(* The records of others, and the ones that are answered.                   *)
LEMMA OtherRecord ==
    ASSUME NEW q, NEW p, NEW s, Spans(q, p, s), NEW j \in 2..Len(q)
    PROVE  /\ Begin(q[j]) => q[j].id # 0 /\ q[j].id # q[1].id /\ Len(q[j].content) = 1
           /\ (q[j].id # q[1].id /\ ~Management(q[j])) => q[j].content # <<>>
           /\ Management(q[j]) =>
                 /\ q[j].id # q[1].id /\ q[j].id = 0
                 /\ q[j].type = "GET_VALUES" => Len(q[j].content) % 2 = 0 /\ Fits(Texts(q[j].content))
                 /\ q[j].type # "GET_VALUES" => q[j].content = <<>>
           /\ Answered(q[j], q[1].id) <=> (Management(q[j]) \/ Begin(q[j]))
<1>1. /\ Begin(q[j]) => q[j].id # 0 /\ Len(q[j].content) = 1
      /\ (q[j].id # q[1].id /\ ~Management(q[j])) => q[j].content # <<>>
      /\ Management(q[j]) =>
            IF q[j].type = "GET_VALUES" THEN Len(q[j].content) % 2 = 0 /\ Fits(Texts(q[j].content))
            ELSE q[j].content = <<>>
      /\ q[1].id # 0
  BY DEF Spans, Tame, WellFormed
<1>2. Begin(q[j]) => q[j].id # q[1].id
  <2>1. j \in 1..Len(q) /\ j > 1
    OBVIOUS
  <2> QED BY <2>1, StreamRecord DEF Streams
<1> QED BY <1>1, <1>2 DEF Management, Answered

-----------------------------------------------------------------------------
(* The invariant.                                                           *)

(* The web server is gone, and nothing more of what it sent will be read.   *)
Mute == server.dead /\ (in.errno = "OS_ERROR" \/ (in.buf = <<>> /\ wire = <<>>))

(* The first i records have had their answers; the one whose values are still *)
(* being read has not.                                                      *)
Replied(q, i) == replies = AnswersPast(q, IF nest.k = "values" THEN i - 1 ELSE i)

(* What the reader's flags say of the record i.                             *)
Flags(s, k, q, i) ==
    /\ s.skip => s.contentLen > 0 /\ s.avail = 0 /\ q[i].id # q[1].id /\ k = "none"
    /\ (Whole(s) > 0 /\ ~s.skip /\ k = "none" /\ ~s.closed) => Mine(q, i, s.type)
    /\ s.eor <=> k # "none"
    /\ k = "values" => /\ Management(q[i]) /\ q[i].type = "GET_VALUES"
                       /\ (~s.closed /\ q[i].pad > 0) => s.paddingLen > 0

(* FCGX_Accept_r has begun the request, and the streams are read in order.  *)
Accepted(q) ==
    /\ req.begun /\ req.role = q[1].content[1].role /\ req.id = q[1].id
    /\ at \in {"params", "app", "read"} /\ nest.k # "body"
    /\ in.type = "DATA" => req.role = "FILTER"
    /\ in.type # "DATA" => got["DATA"] = <<>>
    /\ in.type = "PARAMS" => got["STDIN"] = <<>>

(* The record is one of the stream that is read, and the stream is at its end *)
(* exactly when the record is the one that ends it.                         *)
Place(q, p, s, i) ==
    /\ Lo(p, s, in.type) <= i /\ i <= Hi(q, p, s, in.type)
    /\ nest.k = "none" => (in.closed <=> i = Hi(q, p, s, in.type))

(* ReadParams for FCGI_GET_VALUES.                                          *)
Values(q, i) ==
    LET x == SubSeq(q[i].content, 1, Len(q[i].content) - Whole(in)) IN
    nest.k = "values" =>
        /\ nest.vals = Texts(x) /\ (nest.pend = <<>> <=> Len(x) % 2 = 0)
        /\ in.closed => Whole(in) = 0 /\ in.paddingLen = 0

(* What the caller has had.                                                 *)
Heard(q, i) ==
    /\ \A t \in {"STDIN", "DATA"} : got[t] = Passed(q, i, Whole(in), t)
    /\ req.params = <<req.role>> \o Texts(Passed(q, i, Whole(in), "PARAMS"))
    /\ at = "params" => (pend = <<>> <=> Len(Passed(q, i, Whole(in), "PARAMS")) % 2 = 0)

(* What FCGX_UnGetChar pushes back is of the record.                        *)
Back(q, i) ==
    (at # "params" /\ ~fill /\ nest.k = "none" /\ ~in.closed /\ (got[in.type] # <<>> \/ in.avail > 0)) =>
        Mine(q, i, in.type) /\ in.unget <= Len(q[i].content) - Whole(in) /\ in.hdr = <<>>

(* Within the record i, and all is as it should be.                         *)
InStep(q, p, s, i) ==
    /\ Accepted(q) /\ in.errno = "0" /\ At(in, wire, server, q, i) /\ Flags(in, nest.k, q, i)
    /\ Replied(q, i) /\ Place(q, p, s, i) /\ Values(q, i) /\ Heard(q, i) /\ Back(q, i)

(* The stream was closed by an error in the middle of it. FCGX_StartFilterData *)
(* may open the next one all the same, which is what Straying is about.     *)
Halted(q, p, s, i) ==
    /\ Accepted(q) /\ in.errno # "0" /\ in.closed /\ Lost(in, wire, server, q, i)
    /\ in.type = "PARAMS" => Mute /\ in.avail = 0 /\ i < p
    /\ in.type = "STDIN" => i < s /\ (Replied(q, i) \/ Mute)
    /\ nest.k = "values" => in.avail = 0 /\ Mute

(* A stream was opened before the end of the one before it. All it meets are *)
(* records that it does not expect, and so it hands over nothing.           *)
Straying(q, p, s, i) ==
    /\ Accepted(q) /\ in.errno # "0" /\ ~in.closed /\ at \in {"app", "read"}
    /\ got[in.type] = <<>> /\ i < Lo(p, s, in.type)
    /\ in.type = "STDIN" => Mute
    /\ Replied(q, i) \/ Mute
    /\ \/ At(in, wire, server, q, i) /\ Flags(in, nest.k, q, i)
       \/ /\ Whole(in) = 0 /\ in.paddingLen = 0 /\ nest.k = "none" /\ ~in.skip /\ ~in.eor
          /\ Lost(in, wire, server, q, i)

(* The last stream was closed by an error: nothing is read any more.        *)
Final(q) ==
    /\ Accepted(q) /\ in.errno # "0" /\ in.closed /\ at \in {"app", "read"}
    /\ in.type = "DATA" \/ req.role # "FILTER"

(* Before FCGI_BEGIN_REQUEST, within it, after it, and with the connection  *)
(* failed.                                                                  *)
Fresh == /\ at = "begin" /\ in.errno = "0" /\ ~in.closed /\ ~in.skip /\ in.paddingLen = 0
         /\ got = Nothing /\ replies = <<>>

Beginning(q) ==
    \/ /\ Fresh /\ fill /\ nest.k = "none" /\ ~req.begun /\ ~in.eor /\ Whole(in) = 0
       /\ Follows(in, wire, server, q, <<>>, 0)
    \/ /\ Fresh /\ nest.k = "body" /\ ~req.begun /\ in.eor /\ Whole(in) = 1 /\ req.id = q[1].id
       /\ At(in, wire, server, q, 1)
    \/ /\ Fresh /\ nest.k = "none" /\ ~fill /\ req.begun /\ ~in.eor /\ Whole(in) = 0 /\ req.id = q[1].id
       /\ req.role = q[1].content[1].role /\ At(in, wire, server, q, 1)
    \/ /\ at = "begin" /\ in.errno # "0" /\ server.dead /\ in.closed /\ in.avail = 0
       /\ ~req.begun /\ nest.k # "values"

(* Where a request is; its FCGI_PARAMS end with the record p, FCGI_STDIN with s. *)
Phase(q, p, s) ==
    \/ Beginning(q) \/ Final(q)
    \/ \E i \in 1..Len(q) : InStep(q, p, s, i) \/ Halted(q, p, s, i) \/ Straying(q, p, s, i)

(* What the web server has still to send is the end of the request.         *)
Sending(q) == ~server.dead => \E m \in 0..Len(q) : server.rest = SubSeq(q, m + 1, Len(q))

(* What was told so far, to the handler and to the web server.              *)
SoFar(g, r, q) ==
    /\ \A t \in {"STDIN", "DATA"} : IsPrefix(g[t], Content(q, t))
    /\ IsPrefix(r, AnswersTo(q, q[1].id))

(* A connection is kept only when all of a request has been read from it.   *)
Kept == (at = "accept" /\ req.conn /\ clean /\ ~server.dead) => wire = <<>> /\ server.rest = <<>>

(* What holds of a request that the parser is up to (Served).               *)
Fine ==
    Served =>
        /\ SoFar(got, replies, Requests[server.q]) /\ (at = "retry" => server.dead)
        /\ at # "overrun"
        /\ at \in {"begin", "params", "app", "read"} =>
              /\ Sending(Requests[server.q])
              /\ \E p, s \in 1..Len(Requests[server.q]) :
                    Ends(Requests[server.q], p, s) /\ Phase(Requests[server.q], p, s)

-----------------------------------------------------------------------------
(* What a complete header leads to, once the request has begun.             *)

(* The reader is at the start of the record j.                              *)
Arrives(q, j) ==
    /\ j \in 2..Len(q) /\ q[j] \in Recs /\ At(in', wire, server, q, j)
    /\ in' \in Readers /\ Whole(in') = Len(q[j].content) /\ in'.paddingLen = q[j].pad
    /\ in'.avail = 0 /\ in'.hdr = <<>> /\ in'.type = in.type
    /\ UNCHANGED <<at, req, pend, want, wire, server, got, clean>>

GoesOn(q, j) == fill' /\ nest' = nest /\ ~in'.closed /\ in'.errno = in.errno /\ ~in'.eor
Stops(q, j)  == ~fill' /\ nest' = nest /\ replies' = replies /\ in'.closed /\ ~in'.eor /\ ~in'.skip

SkipsRecord(q, j) ==
    /\ GoesOn(q, j) /\ in'.skip /\ replies' = replies
    /\ ~Begin(q[j]) /\ q[j].id # 0 /\ q[j].id # q[1].id
Strays(q, j) ==
    /\ Stops(q, j) /\ in'.errno = (IF in.errno = "0" THEN "PROTOCOL_ERROR" ELSE in.errno)
    /\ q[j].id = q[1].id /\ q[j].type # in.type
EndsStream(q, j) ==
    /\ Stops(q, j) /\ in'.errno = in.errno /\ Mine(q, j, in.type) /\ Len(q[j].content) = 0
EntersRecord(q, j) ==
    /\ GoesOn(q, j) /\ ~in'.skip /\ replies' = replies /\ Mine(q, j, in.type) /\ Len(q[j].content) > 0
Answers(q, j) ==
    /\ GoesOn(q, j) /\ in.errno # "OS_ERROR" /\ replies' = Append(replies, Answer(q[j]))
    /\ Begin(q[j]) \/ (Management(q[j]) /\ q[j].type # "GET_VALUES")
    /\ in'.skip <=> Begin(q[j])
AnswerFails(q, j) ==
    /\ Stops(q, j) /\ server.dead /\ in'.errno = (IF in.errno = "0" THEN "OS_ERROR" ELSE in.errno)
    /\ Begin(q[j]) \/ Management(q[j])
AsksValues(q, j) ==
    /\ ~fill' /\ nest' = [NoNest EXCEPT !.k = "values"] /\ replies' = replies
    /\ ~in'.closed /\ in'.errno = in.errno /\ in'.eor /\ ~in'.skip
    /\ Management(q[j]) /\ q[j].type = "GET_VALUES"

(* Where it arrives.                                                        *)
LEMMA HeaderArrives ==
    ASSUME Typed, FillHeader, NEW q \in Seq(Recs), NEW i \in 0..Len(q),
           Follows(Skipped(in), wire, server, q, <<>>, i)
    PROVE  /\ i + 1 \in 1..Len(q) /\ q[i + 1] \in Recs
           /\ HeaderTaken.hdr[1] = [u |-> "header", type |-> q[i + 1].type, id |-> q[i + 1].id,
                                    len |-> Len(q[i + 1].content), pad |-> q[i + 1].pad]
           /\ \A t : (/\ t.hdr = <<>> /\ t.buf = AfterHeader.buf /\ t.avail = 0
                      /\ t.contentLen = Len(q[i + 1].content) /\ t.paddingLen = q[i + 1].pad)
                     => At(t, wire, server, q, i + 1)
<1> DEFINE s == Skipped(in)
<1>1. fill /\ RecordDone(s) /\ Len(HeaderTaken.hdr) = HeaderLen
  BY FillHeaderSteps
<1>2. in \in Readers /\ Len(in.hdr) < HeaderLen /\ wire \in Seq(UnitSet)
  BY DEF Typed, ReaderOK, OtherOK
<1>3. s \in Readers /\ s.hdr = in.hdr
  BY <1>2, SkippedFacts
<1>4. HeaderTaken = TakeHeader(s)
  BY DEF HeaderTaken
<1> HIDE DEF s
<1>5. Len(s.hdr) < HeaderLen /\ Len(TakeHeader(s).hdr) = HeaderLen
  BY <1>1, <1>2, <1>3, <1>4
<1>6. Follows(s, wire, server, q, <<>>, i)
  BY DEF s
<1>7. /\ i + 1 \in 1..Len(q)
      /\ TakeHeader(s).hdr[1] = [u |-> "header", type |-> q[i + 1].type, id |-> q[i + 1].id,
                                 len |-> Len(q[i + 1].content), pad |-> q[i + 1].pad]
  BY <1>2, <1>3, <1>5, <1>6, HeaderIs
<1>8. q[i + 1] \in Recs
  BY <1>7
<1>9. AfterHeader.buf = TakeHeader(s).buf
  BY <1>1, <1>4, AfterHeaderFacts DEF s
<1>10. ASSUME NEW t, t.hdr = <<>>, t.buf = AfterHeader.buf, t.avail = 0,
              t.contentLen = Len(q[i + 1].content), t.paddingLen = q[i + 1].pad
       PROVE  At(t, wire, server, q, i + 1)
  BY <1>2, <1>3, <1>5, <1>6, <1>9, <1>10, AtHeader
<1> QED BY <1>4, <1>7, <1>8, <1>10

LEMMA HeaderLeads ==
    ASSUME Typed, FillHeader, NEW q, NEW p, NEW s, Spans(q, p, s), NEW i \in 1..Len(q),
           Follows(Skipped(in), wire, server, q, <<>>, i), ~Skipped(in).skip,
           req.begun, req.id = q[1].id
    PROVE  /\ Arrives(q, i + 1)
           /\ \/ SkipsRecord(q, i + 1) \/ Strays(q, i + 1) \/ EndsStream(q, i + 1)
              \/ EntersRecord(q, i + 1) \/ Answers(q, i + 1) \/ AnswerFails(q, i + 1)
              \/ AsksValues(q, i + 1)
<1> DEFINE j == i + 1
           r == q[j]
           h == HeaderTaken.hdr[1]
           z == Sized(AfterHeader, h)
<1>0. q \in Seq(Recs) /\ i \in 0..Len(q) /\ Len(q) \in Nat
  BY Bounds
<1>1. /\ fill /\ RecordDone(Skipped(in)) /\ Len(HeaderTaken.hdr) = HeaderLen /\ ~in.eor
      /\ HeaderStep(AfterHeader, h)
      /\ UNCHANGED <<at, pend, want, wire, server, got, clean>>
  BY FillHeaderSteps
<1>2. /\ j \in 1..Len(q) /\ r \in Recs
      /\ h = [u |-> "header", type |-> r.type, id |-> r.id, len |-> Len(r.content), pad |-> r.pad]
      /\ \A t : (/\ t.hdr = <<>> /\ t.buf = AfterHeader.buf /\ t.avail = 0
                 /\ t.contentLen = Len(r.content) /\ t.paddingLen = r.pad)
                => At(t, wire, server, q, j)
  BY <1>0, HeaderArrives
<1>3. j \in 2..Len(q)
  BY <1>0, <1>2
<1>4. Len(r.content) \in Nat /\ r.pad \in Nat /\ r.id \in Nat
  BY <1>2, RecordShape
<1>5. ~in.closed
  BY <1>1 DEF Typed, ReaderOK
<1>6. /\ AfterHeader \in Readers /\ AfterHeader.hdr = <<>> /\ AfterHeader.avail = 0
      /\ ~AfterHeader.closed /\ AfterHeader.errno = in.errno
      /\ AfterHeader.type = in.type /\ ~AfterHeader.eor
      /\ ~AfterHeader.skip
  BY <1>1, <1>5, AfterHeaderFacts
<1>7. /\ h.u = "header" /\ h.type = r.type /\ h.id = r.id /\ h.len = Len(r.content) /\ h.pad = r.pad
      /\ (Begin(h) <=> Begin(r)) /\ (Management(h) <=> Management(r))
  BY <1>2 DEF Begin, Management
<1> HIDE DEF h
<1>8. /\ z \in Readers /\ z.contentLen = Len(r.content) /\ z.paddingLen = r.pad
      /\ z.buf = AfterHeader.buf /\ z.hdr = <<>> /\ z.avail = 0 /\ z.type = in.type
      /\ ~z.eor /\ ~z.skip /\ ~z.closed /\ z.errno = in.errno
  BY <1>4, <1>6, <1>7, SizedFacts
<1> HIDE DEF z
<1>9. /\ "PROTOCOL_ERROR" \in Errors \ {"0"} /\ "OS_ERROR" \in Errors \ {"0"}
  BY DEF Errors
<1> DEFINE Good(t) == /\ t \in Readers /\ t.hdr = <<>> /\ t.buf = AfterHeader.buf /\ t.avail = 0
                      /\ t.contentLen = Len(r.content) /\ t.paddingLen = r.pad /\ t.type = in.type
           Is(t, c, e, o, k) == t.closed = c /\ t.errno = e /\ t.eor = o /\ t.skip = k
<1>10. /\ Good(z) /\ Is(z, FALSE, in.errno, FALSE, FALSE)
       /\ Good([z EXCEPT !.skip = TRUE]) /\ Is([z EXCEPT !.skip = TRUE], FALSE, in.errno, FALSE, TRUE)
       /\ Good([z EXCEPT !.closed = TRUE]) /\ Is([z EXCEPT !.closed = TRUE], TRUE, in.errno, FALSE, FALSE)
       /\ Good([z EXCEPT !.eor = TRUE]) /\ Is([z EXCEPT !.eor = TRUE], FALSE, in.errno, TRUE, FALSE)
       /\ Good(SetError(z, "PROTOCOL_ERROR"))
       /\ Is(SetError(z, "PROTOCOL_ERROR"), TRUE, IF in.errno = "0" THEN "PROTOCOL_ERROR" ELSE in.errno, FALSE, FALSE)
       /\ Good(SetError(z, "OS_ERROR"))
       /\ Is(SetError(z, "OS_ERROR"), TRUE, IF in.errno = "0" THEN "OS_ERROR" ELSE in.errno, FALSE, FALSE)
  <2>1. Good(z) /\ Is(z, FALSE, in.errno, FALSE, FALSE)
    BY <1>8 DEF Readers
  <2>2. /\ Good([z EXCEPT !.skip = TRUE]) /\ Good([z EXCEPT !.closed = TRUE])
        /\ Good([z EXCEPT !.eor = TRUE])
    BY <1>8 DEF Readers
  <2>5. Good(SetError(z, "PROTOCOL_ERROR")) /\ Good(SetError(z, "OS_ERROR"))
    BY <1>8, <1>9, SetErrorFacts
  <2>3. /\ Is([z EXCEPT !.skip = TRUE], FALSE, in.errno, FALSE, TRUE)
        /\ Is([z EXCEPT !.closed = TRUE], TRUE, in.errno, FALSE, FALSE)
        /\ Is([z EXCEPT !.eor = TRUE], FALSE, in.errno, TRUE, FALSE)
    BY <1>8 DEF Readers
  <2>4. /\ Is(SetError(z, "PROTOCOL_ERROR"), TRUE, IF in.errno = "0" THEN "PROTOCOL_ERROR" ELSE in.errno, FALSE, FALSE)
        /\ Is(SetError(z, "OS_ERROR"), TRUE, IF in.errno = "0" THEN "OS_ERROR" ELSE in.errno, FALSE, FALSE)
    BY <1>8 DEF SetError, Readers
  <2> QED BY <2>1, <2>2, <2>3, <2>4, <2>5
<1>11. ASSUME Good(in'), req' = req PROVE Arrives(q, j)
  <2>1. At(in', wire, server, q, j)
    BY <1>2, <1>11
  <2>2. Whole(in') = Len(r.content)
    BY <1>4, <1>11 DEF Whole
  <2> QED BY <1>1, <1>2, <1>3, <1>11, <2>1, <2>2 DEF Arrives
<1> HIDE DEF Good
<1>20. CASE ProcessHeader(h, AfterHeader)
  <2>1. /\ UNCHANGED <<nest, req, replies>> /\ ~Begin(r) /\ r.id # 0
        /\ \/ r.id # q[1].id /\ in' = [z EXCEPT !.skip = TRUE] /\ UNCHANGED fill
           \/ r.id = q[1].id /\ r.type # in.type /\ in' = SetError(z, "PROTOCOL_ERROR") /\ fill' = FALSE
           \/ r.id = q[1].id /\ r.type = in.type /\ Len(r.content) = 0 /\ in' = [z EXCEPT !.closed = TRUE] /\ fill' = FALSE
           \/ r.id = q[1].id /\ r.type = in.type /\ Len(r.content) > 0 /\ in' = z /\ UNCHANGED fill
    BY <1>6, <1>7, <1>20 DEF ProcessHeader, Skips, Fails, z
  <2>2. CASE r.id # q[1].id /\ in' = [z EXCEPT !.skip = TRUE] /\ UNCHANGED fill
    <3>1. SkipsRecord(q, j)
      BY <1>1, <1>10, <2>1, <2>2 DEF SkipsRecord, GoesOn
    <3> QED BY <1>10, <1>11, <2>1, <2>2, <3>1
  <2>3. CASE r.id = q[1].id /\ r.type # in.type /\ in' = SetError(z, "PROTOCOL_ERROR") /\ fill' = FALSE
    <3>1. Strays(q, j)
      BY <1>1, <1>10, <2>1, <2>3 DEF Strays, Stops
    <3> QED BY <1>10, <1>11, <2>1, <2>3, <3>1
  <2>4. CASE r.id = q[1].id /\ r.type = in.type /\ Len(r.content) = 0 /\ in' = [z EXCEPT !.closed = TRUE] /\ fill' = FALSE
    <3>1. EndsStream(q, j)
      BY <1>1, <1>10, <2>1, <2>4 DEF EndsStream, Stops, Mine
    <3> QED BY <1>10, <1>11, <2>1, <2>4, <3>1
  <2>5. CASE r.id = q[1].id /\ r.type = in.type /\ Len(r.content) > 0 /\ in' = z /\ UNCHANGED fill
    <3>1. EntersRecord(q, j)
      BY <1>1, <1>10, <2>1, <2>5 DEF EntersRecord, GoesOn, Mine
    <3> QED BY <1>10, <1>11, <2>1, <2>5, <3>1
  <2> QED BY <2>1, <2>2, <2>3, <2>4, <2>5
<1>30. CASE ProcessBeginRecord(h, AfterHeader)
  <2>0. Begin(r) /\ r.id # 0 /\ Len(r.content) = 1
    <3>1. Begin(r)
      BY <1>7, <1>30 DEF ProcessBeginRecord
    <3> QED BY <1>3, <3>1, OtherRecord
  <2>1. \/ /\ in.errno # "OS_ERROR"
           /\ replies' = Append(replies, [type |-> "CANT_MPX_CONN", id |-> r.id])
           /\ in' = [z EXCEPT !.skip = TRUE] /\ UNCHANGED <<fill, nest, req>>
        \/ /\ server.dead /\ in' = SetError(z, "OS_ERROR") /\ fill' = FALSE /\ UNCHANGED <<nest, req, replies>>
    BY <1>7, <1>30, <2>0 DEF ProcessBeginRecord, Skips, Fails, Nested, Reply, z
  <2>2. CASE /\ in.errno # "OS_ERROR"
             /\ replies' = Append(replies, [type |-> "CANT_MPX_CONN", id |-> r.id])
             /\ in' = [z EXCEPT !.skip = TRUE] /\ UNCHANGED <<fill, nest, req>>
    <3>1. Answer(r) = [type |-> "CANT_MPX_CONN", id |-> r.id]
      BY <2>0, AnswerIs
    <3>2. Answers(q, j)
      BY <1>1, <1>10, <2>0, <2>2, <3>1 DEF Answers, GoesOn
    <3> QED BY <1>10, <1>11, <2>2, <3>2
  <2>3. CASE /\ server.dead /\ in' = SetError(z, "OS_ERROR") /\ fill' = FALSE /\ UNCHANGED <<nest, req, replies>>
    <3>1. AnswerFails(q, j)
      BY <1>1, <1>10, <2>0, <2>3 DEF AnswerFails, Stops
    <3> QED BY <1>10, <1>11, <2>3, <3>1
  <2> QED BY <2>1, <2>2, <2>3
<1>40. CASE ProcessManagementRecord(h, AfterHeader)
  <2>0. Management(r) /\ ~Begin(r)
    BY <1>7, <1>40 DEF ProcessManagementRecord, Management
  <2>1. /\ UNCHANGED req
        /\ \/ /\ r.type = "GET_VALUES"
              /\ nest' = [NoNest EXCEPT !.k = "values"] /\ in' = [z EXCEPT !.eor = TRUE]
              /\ fill' = FALSE /\ UNCHANGED replies
           \/ /\ r.type # "GET_VALUES" /\ in.errno # "OS_ERROR"
              /\ replies' = Append(replies, [type |-> "UNKNOWN_TYPE", id |-> 0])
              /\ in' = z /\ UNCHANGED <<fill, nest>>
           \/ /\ server.dead /\ in' = SetError(z, "OS_ERROR") /\ fill' = FALSE /\ UNCHANGED <<nest, replies>>
    BY <1>7, <1>40 DEF ProcessManagementRecord, Fails, Nested, Reply, z
  <2>2. CASE /\ r.type = "GET_VALUES"
             /\ nest' = [NoNest EXCEPT !.k = "values"] /\ in' = [z EXCEPT !.eor = TRUE]
             /\ fill' = FALSE /\ UNCHANGED replies
    <3>1. AsksValues(q, j)
      BY <1>10, <2>0, <2>2 DEF AsksValues
    <3> QED BY <1>10, <1>11, <2>1, <2>2, <3>1
  <2>3. CASE /\ r.type # "GET_VALUES" /\ in.errno # "OS_ERROR"
             /\ replies' = Append(replies, [type |-> "UNKNOWN_TYPE", id |-> 0])
             /\ in' = z /\ UNCHANGED <<fill, nest>>
    <3>1. Answer(r) = [type |-> "UNKNOWN_TYPE", id |-> 0]
      BY <2>0, <2>3, AnswerIs
    <3>2. Answers(q, j)
      BY <1>1, <1>10, <2>0, <2>3, <3>1 DEF Answers, GoesOn
    <3> QED BY <1>10, <1>11, <2>1, <2>3, <3>2
  <2>4. CASE /\ server.dead /\ in' = SetError(z, "OS_ERROR") /\ fill' = FALSE /\ UNCHANGED <<nest, replies>>
    <3>1. AnswerFails(q, j)
      BY <1>1, <1>10, <2>0, <2>4 DEF AnswerFails, Stops
    <3> QED BY <1>10, <1>11, <2>1, <2>4, <3>1
  <2> QED BY <2>1, <2>2, <2>3, <2>4
<1> QED BY <1>1, <1>7, <1>20, <1>30, <1>40 DEF HeaderStep

(* All of the record has been read, and what was not for the caller.        *)
LEMMA AtDone ==
    ASSUME Typed, NEW q \in Seq(Recs), NEW i \in 1..Len(q), At(in, wire, server, q, i),
           Flags(in, nest.k, q, i), fill, RecordDone(Skipped(in)), ~Delivers(in)
    PROVE  /\ Follows(Skipped(in), wire, server, q, <<>>, i) /\ ~Skipped(in).skip
           /\ At(Skipped(in), wire, server, q, i)
           /\ Whole(in) \in 0..Len(q[i].content) /\ (Whole(in) > 0 => q[i].id # q[1].id)
<1> DEFINE t == Skipped(in)
<1>1. /\ in \in Readers /\ in.avail = 0 /\ in.contentLen \in Nat /\ wire \in Seq(UnitSet)
      /\ in.skip \in BOOLEAN
  BY DEF Typed, ReaderOK, OtherOK, Readers
<1>2. At(t, wire, server, q, i)
  BY <1>1, AtSkip
<1>3. t \in Readers /\ t.avail = 0 /\ t.skip = (IF in.contentLen = 0 THEN in.skip ELSE t.contentLen > 0)
  BY <1>1, SkippedFacts
<1>4. t.contentLen = 0 /\ t.paddingLen = 0
  BY DEF RecordDone
<1> HIDE DEF t
<1>5. Whole(t) = 0 /\ Whole(in) = in.contentLen
  BY <1>1, <1>3, <1>4 DEF Whole
<1>6. Left(t, q, i) = <<>>
  BY <1>3, <1>4, <1>5, NothingLeft
<1>7. Follows(t, wire, server, q, <<>>, i)
  BY <1>2, <1>6 DEF At
<1>8. in.contentLen > 0 => in.skip
  BY DEF Delivers
<1>9. in.skip => in.contentLen > 0 /\ q[i].id # q[1].id
  BY DEF Flags
<1>10. ~t.skip
  <2>1. CASE in.contentLen = 0
    <3>1. ~in.skip
      BY <1>9, <2>1
    <3> QED BY <1>3, <2>1, <3>1, Zenon
  <2>2. CASE in.contentLen # 0
    <3>1. ~(t.contentLen > 0)
      BY <1>4
    <3> QED BY <1>3, <2>2, <3>1, Zenon
  <2> QED BY <2>1, <2>2
<1>11. Whole(in) <= Len(q[i].content)
  BY DEF At
<1>13. q[i] \in Recs
  OBVIOUS
<1>12. Len(q[i].content) \in Nat
  BY <1>13, RecordShape
<1>14. Whole(in) \in 0..Len(q[i].content) /\ (Whole(in) > 0 => q[i].id # q[1].id)
  BY <1>1, <1>5, <1>8, <1>9, <1>11, <1>12
<1> QED BY <1>2, <1>7, <1>10, <1>14 DEF t

LEMMA PassedOn ==
    ASSUME NEW q \in Seq(Recs), NEW i \in 1..Len(q), i + 1 \in 1..Len(q), NEW k \in 0..Len(q[i].content),
           k > 0 => q[i].id # q[1].id, NEW t
    PROVE  Passed(q, i, k, t) = Passed(q, i + 1, Len(q[i + 1].content), t)
<1>1. Passed(q, i, k, t) = Passed(q, i, 0, t)
  <2>1. CASE k = 0
    BY <2>1
  <2>2. CASE k # 0
    <3>1. ~Mine(q, i, t)
      BY <2>2 DEF Mine
    <3> QED BY <3>1, PassedOther
  <2> QED BY <2>1, <2>2
<1>2. i \in 1..(Len(q) - 1)
  OBVIOUS
<1> QED BY <1>1, <1>2, PassedNext

(* The next record.                                                         *)
LEMMA InStepArrives ==
    ASSUME Typed, NEW q, NEW p, NEW s, Spans(q, p, s), NEW i \in 1..Len(q), InStep(q, p, s, i), FillHeader
    PROVE  /\ Arrives(q, i + 1)
           /\ \/ SkipsRecord(q, i + 1) \/ EndsStream(q, i + 1) \/ EntersRecord(q, i + 1)
              \/ Answers(q, i + 1) \/ AnswerFails(q, i + 1) \/ AsksValues(q, i + 1)
           /\ nest.k = "none" /\ in.type \in Streams
           /\ Heard(q, i + 1)' /\ Lo(p, s, in.type) < i + 1 /\ i + 1 <= Hi(q, p, s, in.type)
           /\ q[i + 1].id # q[1].id => i + 1 < Hi(q, p, s, in.type)
           /\ replies = AnswersPast(q, i)
           /\ nest'.k # "body" => Accepted(q)'
<1> DEFINE j == i + 1
<1>0. q \in Seq(Recs) /\ Len(q) \in Nat /\ i \in 0..Len(q)
  BY Bounds
<1>1. /\ fill /\ RecordDone(Skipped(in)) /\ ~in.eor /\ ~Delivers(in)
  BY FillHeaderSteps
<1>2. /\ Accepted(q) /\ in.errno = "0" /\ At(in, wire, server, q, i) /\ Flags(in, nest.k, q, i)
      /\ Replied(q, i) /\ Place(q, p, s, i) /\ Heard(q, i)
  BY DEF InStep
<1>3. /\ Follows(Skipped(in), wire, server, q, <<>>, i) /\ ~Skipped(in).skip
      /\ Whole(in) \in 0..Len(q[i].content) /\ (Whole(in) > 0 => q[i].id # q[1].id)
  BY <1>0, <1>1, <1>2, AtDone
<1>4. req.begun /\ req.id = q[1].id
  BY <1>2 DEF Accepted
<1>5. /\ Arrives(q, j)
      /\ \/ SkipsRecord(q, j) \/ Strays(q, j) \/ EndsStream(q, j) \/ EntersRecord(q, j)
         \/ Answers(q, j) \/ AnswerFails(q, j) \/ AsksValues(q, j)
  BY <1>3, <1>4, HeaderLeads
<1>6. nest.k = "none" /\ nest.k \in {"none", "body", "values"}
  BY <1>1, <1>2 DEF Flags, Typed, NestSet
<1>7. in.type \in Streams /\ ~in.closed
  <2>1. at \in {"params", "app", "read"}
    BY <1>2 DEF Accepted
  <2> QED BY <1>1, <2>1 DEF Typed, PlaceOK, ReaderOK, Streams
<1>8. /\ j \in 2..Len(q) /\ q[j] \in Recs /\ in' \in Readers /\ Whole(in') = Len(q[j].content) /\ in'.type = in.type
      /\ UNCHANGED <<at, req, pend, want, wire, server, got, clean>>
  BY <1>5 DEF Arrives
<1>9. Lo(p, s, in.type) \in Nat /\ Hi(q, p, s, in.type) \in Nat
  BY <1>7, Bounds
<1>10. Lo(p, s, in.type) < j /\ j <= Hi(q, p, s, in.type)
  BY <1>0, <1>2, <1>6, <1>7, <1>9 DEF Place
<1>11. q[j].id # q[1].id => j < Hi(q, p, s, in.type)
  <2>1. q[Hi(q, p, s, in.type)].id = q[1].id
    BY <1>7, StreamEnd
  <2> QED BY <1>0, <1>9, <1>10, <2>1
<1>12. ~Strays(q, j)
  <2>1. j \in 1..Len(q)
    BY <1>8
  <2>2. q[j].id = q[1].id => Mine(q, j, in.type)
    BY <1>7, <1>10, <2>1, StreamRecord
  <2> QED BY <2>2 DEF Strays, Mine
<1>13. Heard(q, j)'
  <2>1. \A t : Passed(q, i, Whole(in), t) = Passed(q, j, Whole(in'), t)
    <3>1. j \in 1..Len(q)
      BY <1>8
    <3> QED BY <1>0, <1>3, <1>8, <3>1, PassedOn
  <2> QED BY <1>2, <1>8, <2>1 DEF Heard
<1>14. replies = AnswersPast(q, i)
  BY <1>2, <1>6 DEF Replied
<1>15. nest'.k # "body" => Accepted(q)'
  BY <1>2, <1>8 DEF Accepted
<1> QED BY <1>5, <1>6, <1>7, <1>10, <1>11, <1>12, <1>13, <1>14, <1>15

LEMMA ToldSo ==
    ASSUME NEW g, NEW r, NEW q \in Seq(Recs), NEW i \in 1..Len(q), NEW k \in 0..Len(q[i].content),
           \A t \in {"STDIN", "DATA"} : g[t] = Passed(q, i, k, t), NEW m \in 0..Len(q), r = AnswersPast(q, m)
    PROVE  SoFar(g, r, q)
BY PassedPrefix, AnswersPrefix DEF SoFar

LEMMA InStepFill ==
    ASSUME Typed, NEW q, NEW p, NEW s, Spans(q, p, s), NEW i \in 1..Len(q), InStep(q, p, s, i), FillHeader
    PROVE  Phase(q, p, s)' /\ SoFar(got', replies', q)
<1> DEFINE j == i + 1
<1>0. q \in Seq(Recs) /\ Len(q) \in Nat /\ i \in 0..Len(q)
  BY Bounds
<1>1. /\ Arrives(q, j)
      /\ \/ SkipsRecord(q, j) \/ EndsStream(q, j) \/ EntersRecord(q, j)
         \/ Answers(q, j) \/ AnswerFails(q, j) \/ AsksValues(q, j)
      /\ nest.k = "none" /\ in.type \in Streams
      /\ Heard(q, j)' /\ Lo(p, s, in.type) < j /\ j <= Hi(q, p, s, in.type)
      /\ q[j].id # q[1].id => j < Hi(q, p, s, in.type)
      /\ replies = AnswersPast(q, i)
      /\ nest'.k # "body" => Accepted(q)'
  BY InStepArrives
<1>2. /\ j \in 2..Len(q) /\ j \in 1..Len(q) /\ q[j] \in Recs /\ At(in', wire', server', q, j)
      /\ in' \in Readers /\ Whole(in') = Len(q[j].content) /\ in'.paddingLen = q[j].pad
      /\ in'.avail = 0 /\ in'.hdr = <<>> /\ in'.type = in.type
      /\ UNCHANGED <<at, req, pend, want, wire, server, got, clean>>
  BY <1>1 DEF Arrives
<1>3. /\ in.errno = "0"
  BY DEF InStep
<1>4. /\ Begin(q[j]) => q[j].id # 0 /\ q[j].id # q[1].id /\ Len(q[j].content) = 1
      /\ (q[j].id # q[1].id /\ ~Management(q[j])) => q[j].content # <<>>
      /\ Management(q[j]) => /\ q[j].id # q[1].id
                             /\ q[j].type # "GET_VALUES" => q[j].content = <<>>
      /\ Answered(q[j], q[1].id) <=> (Management(q[j]) \/ Begin(q[j]))
  BY <1>2, OtherRecord
<1>5. /\ q[j].id = q[1].id => /\ Mine(q, j, in.type) /\ ~Begin(q[j]) /\ ~Management(q[j])
                              /\ q[j].content = <<>> <=> j = Hi(q, p, s, in.type)
  <2>1. q[j].id = q[1].id => /\ Mine(q, j, in.type) /\ ~Begin(q[j]) /\ q[j].id # 0
                             /\ q[j].content = <<>> <=> j = Hi(q, p, s, in.type)
    BY <1>1, <1>2, StreamRecord
  <2> QED BY <2>1 DEF Management
<1>6. /\ AnswersPast(q, j) = IF Answered(q[j], q[1].id) THEN Append(AnswersPast(q, i), Answer(q[j]))
                             ELSE AnswersPast(q, i)
  <2>1. i \in 0..(Len(q) - 1)
    BY <1>0, <1>2
  <2> QED BY <1>0, <2>1, AnswersNext
<1>7. /\ in'.contentLen = Len(q[j].content) /\ q[j].content \in Seq(Data) /\ Len(q[j].content) \in Nat
      /\ in'.contentLen \in Nat /\ q[j].pad \in Nat
  <2>1. in'.contentLen \in Nat
    BY <1>2 DEF Readers
  <2> QED BY <1>2, <2>1, RecordShape DEF Whole
<1>8. /\ Len(q[j].content) = 0 <=> q[j].content = <<>>
      /\ Lo(p, s, in.type) \in Nat /\ Hi(q, p, s, in.type) \in Nat
  BY <1>1, <1>7, Bounds
<1>9. /\ Lo(p, s, in'.type) <= j /\ j <= Hi(q, p, s, in'.type)
      /\ q[j].id # q[1].id => j # Hi(q, p, s, in'.type)
  BY <1>0, <1>1, <1>2, <1>8
<1>10. ASSUME nest'.k # "body", in'.errno = "0", Flags(in', nest'.k, q, j), Replied(q, j)', Place(q, p, s, j)',
              Values(q, j)', Back(q, j)', replies' = AnswersPast(q, j) \/ replies' = AnswersPast(q, i)
       PROVE  Phase(q, p, s)' /\ SoFar(got', replies', q)
  <2>1. InStep(q, p, s, j)'
    BY <1>1, <1>2, <1>10 DEF InStep
  <2>2. /\ \A t \in {"STDIN", "DATA"} : got'[t] = Passed(q, j, Whole(in'), t)
        /\ Whole(in') \in 0..Len(q[j].content) /\ j \in 0..Len(q)
    BY <1>1, <1>2, <1>7 DEF Heard
  <2>3. SoFar(got', replies', q)
    BY <1>0, <1>2, <1>10, <2>2, ToldSo
  <2> QED BY <1>2, <2>1, <2>3 DEF Phase
<1>11. CASE SkipsRecord(q, j)
  <2>1. /\ fill' /\ nest' = nest /\ ~in'.closed /\ in'.errno = "0" /\ ~in'.eor
        /\ in'.skip /\ replies' = replies
        /\ ~Begin(q[j]) /\ ~Management(q[j]) /\ q[j].id # q[1].id
    BY <1>3, <1>11 DEF SkipsRecord, GoesOn, Management
  <2>2. Flags(in', nest'.k, q, j)
    <3>1. in'.contentLen > 0
      BY <1>4, <1>7, <1>8, <2>1
    <3> QED BY <1>1, <1>2, <2>1, <3>1 DEF Flags
  <2>3. replies' = AnswersPast(q, j) /\ Replied(q, j)'
    BY <1>1, <1>4, <1>6, <2>1 DEF Replied
  <2>4. Place(q, p, s, j)' /\ Values(q, j)' /\ Back(q, j)'
    BY <1>1, <1>9, <2>1 DEF Place, Values, Back
  <2> QED BY <1>1, <1>10, <2>1, <2>2, <2>3, <2>4
<1>12. CASE EndsStream(q, j)
  <2>1. /\ ~fill' /\ nest' = nest /\ in'.closed /\ in'.errno = "0" /\ ~in'.eor
        /\ ~in'.skip /\ replies' = replies
        /\ ~Begin(q[j]) /\ ~Management(q[j]) /\ q[j].id = q[1].id /\ Len(q[j].content) = 0
    BY <1>3, <1>5, <1>12 DEF EndsStream, Stops, Mine
  <2>2. Flags(in', nest'.k, q, j)
    BY <1>1, <1>2, <2>1 DEF Flags
  <2>3. replies' = AnswersPast(q, j) /\ Replied(q, j)'
    BY <1>1, <1>4, <1>6, <2>1 DEF Replied
  <2>4. Place(q, p, s, j)' /\ Values(q, j)' /\ Back(q, j)'
    <3>1. j = Hi(q, p, s, in'.type)
      BY <1>2, <1>5, <1>8, <2>1
    <3> QED BY <1>1, <1>9, <2>1, <3>1 DEF Place, Values, Back
  <2> QED BY <1>1, <1>10, <2>1, <2>2, <2>3, <2>4
<1>13. CASE EntersRecord(q, j)
  <2>1. /\ fill' /\ nest' = nest /\ ~in'.closed /\ in'.errno = "0" /\ ~in'.eor
        /\ ~in'.skip /\ replies' = replies
        /\ ~Begin(q[j]) /\ ~Management(q[j]) /\ q[j].id = q[1].id /\ Len(q[j].content) > 0
        /\ Mine(q, j, in.type)
    BY <1>3, <1>5, <1>13 DEF EntersRecord, GoesOn, Mine
  <2>2. Flags(in', nest'.k, q, j)
    BY <1>1, <1>2, <2>1 DEF Flags
  <2>3. replies' = AnswersPast(q, j) /\ Replied(q, j)'
    BY <1>1, <1>4, <1>6, <2>1 DEF Replied
  <2>4. Place(q, p, s, j)' /\ Values(q, j)' /\ Back(q, j)'
    <3>1. j # Hi(q, p, s, in'.type)
      BY <1>2, <1>5, <1>8, <2>1
    <3> QED BY <1>1, <1>9, <2>1, <3>1 DEF Place, Values, Back
  <2> QED BY <1>1, <1>10, <2>1, <2>2, <2>3, <2>4
<1>14. CASE Answers(q, j)
  <2>1. /\ fill' /\ nest' = nest /\ ~in'.closed /\ in'.errno = "0" /\ ~in'.eor
        /\ in'.skip <=> Begin(q[j])
        /\ replies' = Append(replies, Answer(q[j]))
        /\ Begin(q[j]) \/ (Management(q[j]) /\ q[j].type # "GET_VALUES")
    BY <1>3, <1>14 DEF Answers, GoesOn
  <2>2. Flags(in', nest'.k, q, j)
    <3>1. CASE Begin(q[j])
      <4>1. in'.contentLen > 0 /\ q[j].id # q[1].id /\ in'.skip
        <5>1. in'.skip
          BY <2>1, <3>1, Zenon
        <5>2. q[j].id # q[1].id /\ Len(q[j].content) = 1
          BY <1>4, <3>1, Zenon
        <5>3. in'.contentLen = Len(q[j].content)
          BY <1>7
        <5> QED BY <5>1, <5>2, <5>3
      <4> QED BY <1>1, <1>2, <2>1, <4>1 DEF Flags
    <3>2. CASE ~Begin(q[j])
      <4>1. Whole(in') = 0
        BY <1>2, <1>4, <1>8, <2>1, <3>2
      <4> QED BY <1>1, <1>2, <2>1, <3>2, <4>1 DEF Flags
    <3> QED BY <3>1, <3>2
  <2>3. replies' = AnswersPast(q, j) /\ Replied(q, j)'
    BY <1>1, <1>4, <1>6, <2>1 DEF Replied
  <2>4. Place(q, p, s, j)' /\ Values(q, j)' /\ Back(q, j)'
    <3>1. j # Hi(q, p, s, in'.type)
      BY <1>4, <1>9, <2>1
    <3> QED BY <1>1, <1>9, <2>1, <3>1 DEF Place, Values, Back
  <2> QED BY <1>1, <1>10, <2>1, <2>2, <2>3, <2>4
<1>15. CASE AnswerFails(q, j)
  <2>1. /\ ~fill' /\ nest' = nest /\ in'.closed /\ in'.errno = "OS_ERROR"
        /\ replies' = replies /\ server.dead
        /\ Begin(q[j]) \/ Management(q[j])
    BY <1>3, <1>15 DEF AnswerFails, Stops
  <2>2. j < Hi(q, p, s, in'.type)
    BY <1>1, <1>2, <1>4, <2>1
  <2>3. Mute' /\ Lost(in', wire', server', q, j)
    BY <1>0, <1>2, <2>1, AtLost DEF Mute
  <2>4. Halted(q, p, s, j)'
    <3>1. in'.type = "PARAMS" => j < p
      BY <2>2 DEF Hi
    <3>2. in'.type = "STDIN" => j < s
      BY <2>2 DEF Hi
    <3> QED BY <1>1, <1>2, <2>1, <2>3, <3>1, <3>2 DEF Halted
  <2>5. SoFar(got', replies', q)
    <3>1. /\ \A t \in {"STDIN", "DATA"} : got'[t] = Passed(q, j, Whole(in'), t)
          /\ Whole(in') \in 0..Len(q[j].content)
      BY <1>1, <1>2, <1>7 DEF Heard
    <3> QED BY <1>0, <1>1, <1>2, <2>1, <3>1, ToldSo
  <2> QED BY <1>2, <2>4, <2>5 DEF Phase
<1>16. CASE AsksValues(q, j)
  <2>1. /\ ~fill' /\ nest' = [NoNest EXCEPT !.k = "values"] /\ ~in'.closed /\ in'.errno = "0" /\ in'.eor
        /\ ~in'.skip /\ replies' = replies
        /\ Management(q[j]) /\ q[j].type = "GET_VALUES"
    BY <1>3, <1>16 DEF AsksValues
  <2>5. nest'.k = "values" /\ nest'.vals = <<>> /\ nest'.pend = <<>>
    BY <2>1, NestFacts
  <2>2. Flags(in', nest'.k, q, j)
    BY <1>1, <1>2, <2>1, <2>5 DEF Flags
  <2>3. replies' = AnswersPast(q, i) /\ Replied(q, j)'
    <3>1. j - 1 = i
      OBVIOUS
    <3> QED BY <1>1, <2>1, <2>5, <3>1 DEF Replied
  <2>4. Place(q, p, s, j)' /\ Back(q, j)'
    BY <1>1, <1>9, <2>1, <2>5 DEF Place, Back
  <2>6. Values(q, j)'
    <3>1. SubSeq(q[j].content, 1, Len(q[j].content) - Whole(in')) = <<>>
      BY <1>2, <1>7
    <3>2. Texts(<<>>) = <<>> /\ Len(<<>>) % 2 = 0
      BY DEF Texts
    <3> QED BY <2>1, <2>5, <3>1, <3>2 DEF Values
  <2> QED BY <1>10, <2>1, <2>2, <2>3, <2>4, <2>5, <2>6
<1> QED BY <1>1, <1>11, <1>12, <1>13, <1>14, <1>15, <1>16

(* Nothing to skip.                                                         *)
LEMMA SkippedSame ==
    ASSUME NEW s \in Readers, Whole(s) = 0, s.paddingLen = 0, ~s.skip, NEW w
    PROVE  /\ Skipped(s).hdr = s.hdr /\ Skipped(s).buf = s.buf /\ ~Skipped(s).skip
           /\ Skipped(s).contentLen = 0 /\ Skipped(s).paddingLen = 0
           /\ SameUnits(s, w, Skipped(s), w)
<1> DEFINE t == Skipped(s)
           n == (s.contentLen - t.contentLen) + (s.paddingLen - t.paddingLen)
<1>1. s.buf \in Seq(UnitSet) /\ s.contentLen = 0
  BY DEF Readers, Whole
<1>2. /\ t \in Readers /\ t.hdr = s.hdr /\ t.contentLen <= s.contentLen /\ t.paddingLen <= s.paddingLen
      /\ t.buf = SubSeq(s.buf, n + 1, Len(s.buf))
      /\ t.skip = (IF s.contentLen = 0 THEN s.skip ELSE t.contentLen > 0)
  BY SkippedFacts
<1> HIDE DEF t
<1>3. t.contentLen \in Nat /\ t.paddingLen \in Nat
  BY <1>2 DEF Readers
<1>4. t.contentLen = 0 /\ t.paddingLen = 0
  BY <1>1, <1>2, <1>3
<1>5. n = 0
  BY <1>1, <1>4
<1>6. t.buf = s.buf
  <2>1. t.buf = SubSeq(s.buf, 0 + 1, Len(s.buf))
    BY <1>2, <1>5
  <2> QED BY <1>1, <2>1, SubSeqFull
<1>7. ~t.skip
  BY <1>1, <1>2, Zenon
<1>8. SameUnits(s, w, t, w)
  BY <1>2, <1>6, SameParts
<1> QED BY <1>2, <1>4, <1>6, <1>7, <1>8 DEF t

(* Off the track, with an error.                                            *)
LEMMA StrayingHeader ==
    ASSUME Typed, NEW q, NEW p, NEW s, Spans(q, p, s), NEW i \in 1..Len(q), Straying(q, p, s, i), FillHeader
    PROVE  /\ nest.k = "none" /\ ~Skipped(in).skip /\ in.buf # <<>>
           /\ \/ Follows(Skipped(in), wire, server, q, <<>>, i)
              \/ \E x \in Seq(UnitSet) : x # <<>> /\ Junk(x) /\ Follows(Skipped(in), wire, server, q, x, i)
<1>0. q \in Seq(Recs) /\ in \in Readers
  BY Bounds DEF Typed, ReaderOK
<1>1. /\ fill /\ RecordDone(Skipped(in)) /\ ~in.eor /\ ~Delivers(in) /\ in.buf # <<>>
  BY FillHeaderSteps
<1>2. CASE At(in, wire, server, q, i) /\ Flags(in, nest.k, q, i)
  <2>1. Follows(Skipped(in), wire, server, q, <<>>, i) /\ ~Skipped(in).skip
    BY <1>0, <1>1, <1>2, AtDone
  <2>2. nest.k = "none"
    BY <1>1, <1>2 DEF Flags
  <2> QED BY <1>1, <2>1, <2>2
<1>3. CASE /\ Whole(in) = 0 /\ in.paddingLen = 0 /\ nest.k = "none" /\ ~in.skip /\ ~in.eor
           /\ Lost(in, wire, server, q, i)
  <2>1. SameUnits(in, wire, Skipped(in), wire) /\ ~Skipped(in).skip
    BY <1>0, <1>3, SkippedSame
  <2>2. Lost(Skipped(in), wire, server, q, i)
    BY <1>3, <2>1, LostMoved
  <2> QED BY <1>1, <1>3, <2>1, <2>2 DEF Lost
<1> QED BY <1>2, <1>3 DEF Straying

LEMMA StrayingFill ==
    ASSUME Typed, NEW q, NEW p, NEW s, Spans(q, p, s), NEW i \in 1..Len(q), Straying(q, p, s, i), FillHeader,
           SoFar(got, replies, q)
    PROVE  Phase(q, p, s)' /\ SoFar(got', replies', q)
<1> DEFINE j == i + 1
<1>0. /\ q \in Seq(Recs) /\ Len(q) \in Nat /\ i \in 0..Len(q) /\ p \in Nat /\ s \in Nat /\ p < s
  BY Bounds
<1>1. /\ nest.k = "none" /\ ~Skipped(in).skip /\ in.buf # <<>>
      /\ \/ Follows(Skipped(in), wire, server, q, <<>>, i)
         \/ \E x \in Seq(UnitSet) : x # <<>> /\ Junk(x) /\ Follows(Skipped(in), wire, server, q, x, i)
  BY StrayingHeader
<1>2. /\ Accepted(q) /\ in.errno # "0" /\ ~in.closed /\ at \in {"app", "read"}
      /\ got[in.type] = <<>> /\ i < Lo(p, s, in.type)
      /\ in.type = "STDIN" => Mute
      /\ Replied(q, i) \/ Mute
  BY DEF Straying
<1>3. in.type \in Streams /\ in.type \in {"STDIN", "DATA"}
  BY <1>2 DEF Typed, PlaceOK, Streams
<1>4. Mute => server.dead /\ in.errno = "OS_ERROR"
  BY <1>1 DEF Mute
<1>5. ASSUME in'.type = in.type, in'.closed, in'.errno = in.errno, nest' = nest, replies' = replies,
             UNCHANGED <<at, req, pend, want, wire, server, got, clean>>,
             in.type = "STDIN" => \E k \in 1..Len(q) : k <= j /\ Lost(in', wire', server', q, k)
      PROVE  Phase(q, p, s)' /\ SoFar(got', replies', q)
  <2>1. Accepted(q)'
    BY <1>2, <1>5 DEF Accepted
  <2>2. CASE in.type = "DATA"
    <3>1. Final(q)'
      BY <1>2, <1>5, <2>1, <2>2 DEF Final
    <3> QED BY <1>5, <3>1 DEF Phase
  <2>3. CASE in.type = "STDIN"
    <3>1. PICK k \in 1..Len(q) : k <= j /\ Lost(in', wire', server', q, k)
      BY <1>5, <2>3
    <3>2. k < s
      BY <1>0, <1>2, <2>3, <3>1 DEF Lo
    <3>3. Mute'
      BY <1>2, <1>4, <1>5, <2>3 DEF Mute
    <3>4. Halted(q, p, s, k)'
      BY <1>1, <1>2, <1>5, <2>1, <2>3, <3>1, <3>2, <3>3 DEF Halted
    <3> QED BY <1>5, <3>4 DEF Phase
  <2> QED BY <1>3, <2>2, <2>3
<1>6. CASE Follows(Skipped(in), wire, server, q, <<>>, i)
  <2>1. req.begun /\ req.id = q[1].id
    BY <1>2 DEF Accepted
  <2>2. /\ Arrives(q, j)
        /\ \/ SkipsRecord(q, j) \/ Strays(q, j) \/ EndsStream(q, j)
           \/ EntersRecord(q, j) \/ Answers(q, j) \/ AnswerFails(q, j)
           \/ AsksValues(q, j)
    BY <1>1, <1>6, <2>1, HeaderLeads
  <2>3. /\ j \in 2..Len(q) /\ j \in 1..Len(q) /\ q[j] \in Recs /\ At(in', wire', server', q, j)
        /\ in' \in Readers /\ Whole(in') = Len(q[j].content) /\ in'.paddingLen = q[j].pad
        /\ in'.avail = 0 /\ in'.hdr = <<>> /\ in'.type = in.type
        /\ UNCHANGED <<at, req, pend, want, wire, server, got, clean>>
    BY <2>2 DEF Arrives
  <2>4. Lo(p, s, in.type) \in Nat /\ Lo(p, s, in.type) \in 1..Len(q) /\ j <= Lo(p, s, in.type)
    <3>1. Lo(p, s, in.type) \in 1..Len(q)
      BY <1>3, Bounds
    <3> QED BY <1>0, <1>2, <3>1
  <2>5. q[j].id # q[1].id => j < Lo(p, s, in.type)
    <3>1. q[Lo(p, s, in.type)].id = q[1].id
      <4>1. CASE in.type = "STDIN"
        <5>1. Lo(p, s, in.type) = Hi(q, p, s, "PARAMS") /\ "PARAMS" \in Streams
          BY <4>1 DEF Lo, Hi, Streams
        <5> QED BY <5>1, StreamEnd
      <4>2. CASE in.type = "DATA"
        <5>1. Lo(p, s, in.type) = Hi(q, p, s, "STDIN") /\ "STDIN" \in Streams
          BY <4>2 DEF Lo, Hi, Streams
        <5> QED BY <5>1, StreamEnd
      <4> QED BY <1>3, <4>1, <4>2
    <3> QED BY <1>0, <2>4, <3>1
  <2>6. ~Mine(q, j, in.type)
    <3>1. Mine(q, j, in.type) => Lo(p, s, in.type) < j
      BY <1>3, <2>3, StreamRecord
    <3> QED BY <1>0, <2>4, <3>1
  <2>7. /\ Begin(q[j]) => q[j].id # 0 /\ q[j].id # q[1].id /\ Len(q[j].content) = 1
        /\ (q[j].id # q[1].id /\ ~Management(q[j])) => q[j].content # <<>>
        /\ Management(q[j]) => /\ q[j].id # q[1].id
                               /\ q[j].type # "GET_VALUES" => q[j].content = <<>>
        /\ Answered(q[j], q[1].id) <=> (Management(q[j]) \/ Begin(q[j]))
    BY <2>3, OtherRecord
  <2>8. /\ AnswersPast(q, j) = IF Answered(q[j], q[1].id) THEN Append(AnswersPast(q, i), Answer(q[j]))
                               ELSE AnswersPast(q, i)
    <3>1. i \in 0..(Len(q) - 1)
      BY <1>0, <2>3
    <3> QED BY <1>0, <3>1, AnswersNext
  <2>9. /\ in'.contentLen = Len(q[j].content) /\ q[j].content \in Seq(Data) /\ Len(q[j].content) \in Nat
        /\ in'.contentLen \in Nat /\ q[j].pad \in Nat /\ (Len(q[j].content) = 0 <=> q[j].content = <<>>)
    <3>1. in'.contentLen \in Nat
      BY <2>3 DEF Readers
    <3> QED BY <2>3, <3>1, RecordShape DEF Whole
  <2>10. Mute => Mute'  \/ in'.errno # in.errno
    BY <1>4, <2>3 DEF Mute
  <2>11. ASSUME nest'.k # "body", in'.errno = in.errno, ~in'.closed, q[j].id # q[1].id,
                Flags(in', nest'.k, q, j), Replied(q, j)' \/ Mute
         PROVE  Phase(q, p, s)'
    <3>1. Accepted(q)'
      BY <1>2, <2>3, <2>11 DEF Accepted
    <3>2. Mute => Mute'
      BY <2>10, <2>11
    <3>3. j < Lo(p, s, in'.type) /\ got'[in'.type] = <<>> /\ at' \in {"app", "read"} /\ in'.errno # "0"
          /\ (in'.type = "STDIN" => Mute') /\ (Replied(q, j)' \/ Mute')
      BY <1>2, <2>3, <2>5, <2>11, <3>2
    <3>4. Straying(q, p, s, j)'
      BY <2>3, <2>11, <3>1, <3>3 DEF Straying
    <3> QED BY <2>3, <3>4 DEF Phase
  <2>12. \A r : r = AnswersPast(q, j) => SoFar(got', r, q)
    <3>1. IsPrefix(AnswersPast(q, j), AnswersTo(q, q[1].id))
      <4>1. j \in 0..Len(q)
        BY <2>3
      <4> QED BY <1>0, <4>1, AnswersPrefix
    <3> QED BY <2>3, <3>1 DEF SoFar
  <2>13. in.type = "STDIN" => \E k \in 1..Len(q) : k <= j /\ Lost(in', wire', server', q, k)
    BY <1>0, <2>3, AtLost
  <2>20. CASE SkipsRecord(q, j)
    <3>1. /\ fill' /\ nest' = nest /\ ~in'.closed /\ in'.errno = in.errno /\ ~in'.eor
          /\ in'.skip /\ replies' = replies
          /\ ~Begin(q[j]) /\ ~Management(q[j]) /\ q[j].id # q[1].id
      BY <2>20 DEF SkipsRecord, GoesOn, Management
    <3>2. Flags(in', nest'.k, q, j)
      <4>1. in'.contentLen > 0
        BY <2>7, <2>9, <3>1
      <4> QED BY <1>1, <2>3, <3>1, <4>1 DEF Flags
    <3>3. Replied(q, j)' \/ Mute
      BY <1>1, <1>2, <2>7, <2>8, <3>1 DEF Replied
    <3>4. Phase(q, p, s)'
      BY <1>1, <2>11, <3>1, <3>2, <3>3
    <3> QED BY <2>3, <3>1, <3>4
  <2>21. CASE Strays(q, j)
    <3>1. in'.closed /\ in'.errno = in.errno /\ nest' = nest /\ replies' = replies
      BY <1>2, <2>21 DEF Strays, Stops
    <3> QED BY <1>5, <2>3, <2>13, <3>1
  <2>22. CASE EndsStream(q, j) \/ EntersRecord(q, j)
    BY <2>6, <2>22 DEF EndsStream, EntersRecord
  <2>23. CASE Answers(q, j)
    <3>1. /\ fill' /\ nest' = nest /\ ~in'.closed /\ in'.errno = in.errno /\ ~in'.eor
          /\ in'.skip <=> Begin(q[j])
          /\ replies' = Append(replies, Answer(q[j])) /\ in.errno # "OS_ERROR"
          /\ Begin(q[j]) \/ (Management(q[j]) /\ q[j].type # "GET_VALUES")
      BY <2>23 DEF Answers, GoesOn
    <3>2. Flags(in', nest'.k, q, j)
      <4>1. CASE Begin(q[j])
        <5>1. in'.skip
          BY <3>1, <4>1, Zenon
        <5>2. q[j].id # q[1].id /\ Len(q[j].content) = 1
          BY <2>7, <4>1, Zenon
        <5>3. in'.contentLen > 0
          BY <2>9, <5>2
        <5> QED BY <1>1, <2>3, <3>1, <5>1, <5>2, <5>3 DEF Flags
      <4>2. CASE ~Begin(q[j])
        <5>1. Whole(in') = 0
          BY <2>3, <2>7, <2>9, <3>1, <4>2
        <5> QED BY <1>1, <2>3, <3>1, <4>2, <5>1 DEF Flags
      <4> QED BY <4>1, <4>2
    <3>3. replies' = AnswersPast(q, j) /\ Replied(q, j)'
      BY <1>1, <1>2, <1>4, <2>7, <2>8, <3>1 DEF Replied
    <3>4. Phase(q, p, s)'
      BY <1>1, <2>7, <2>11, <3>1, <3>2, <3>3
    <3> QED BY <2>12, <3>3, <3>4
  <2>24. CASE AnswerFails(q, j)
    <3>1. in'.closed /\ in'.errno = in.errno /\ nest' = nest /\ replies' = replies
      BY <1>2, <2>24 DEF AnswerFails, Stops
    <3> QED BY <1>5, <2>3, <2>13, <3>1
  <2>25. CASE AsksValues(q, j)
    <3>1. /\ ~fill' /\ nest' = [NoNest EXCEPT !.k = "values"] /\ ~in'.closed /\ in'.errno = in.errno /\ in'.eor
          /\ ~in'.skip /\ replies' = replies
          /\ Management(q[j]) /\ q[j].type = "GET_VALUES"
      BY <2>25 DEF AsksValues
    <3>2. nest'.k = "values"
      BY <3>1, NestFacts
    <3>3. Flags(in', nest'.k, q, j)
      BY <1>1, <2>3, <3>1, <3>2 DEF Flags
    <3>4. Replied(q, j)' \/ Mute
      <4>1. j - 1 = i
        OBVIOUS
      <4> QED BY <1>1, <1>2, <3>1, <3>2, <4>1 DEF Replied
    <3>5. Phase(q, p, s)'
      BY <2>7, <2>11, <3>1, <3>2, <3>3, <3>4
    <3> QED BY <2>3, <3>1, <3>5
  <2> QED BY <2>2, <2>20, <2>21, <2>22, <2>23, <2>24, <2>25
<1>7. CASE \E x \in Seq(UnitSet) : x # <<>> /\ Junk(x) /\ Follows(Skipped(in), wire, server, q, x, i)
  <2>0. PICK x \in Seq(UnitSet) : x # <<>> /\ Junk(x) /\ Follows(Skipped(in), wire, server, q, x, i)
    BY <1>7
  <2>1. /\ fill /\ RecordDone(Skipped(in)) /\ Len(HeaderTaken.hdr) = HeaderLen
        /\ HeaderStep(AfterHeader, HeaderTaken.hdr[1])
        /\ UNCHANGED <<at, pend, want, wire, server, got, clean>>
    BY FillHeaderSteps
  <2>2. in \in Readers /\ Len(in.hdr) < HeaderLen /\ wire \in Seq(UnitSet)
    BY DEF Typed, ReaderOK, OtherOK
  <2>3. Skipped(in) \in Readers /\ Skipped(in).hdr = in.hdr /\ HeaderTaken = TakeHeader(Skipped(in))
    BY <2>2, SkippedFacts DEF HeaderTaken
  <2>4. /\ AfterHeader \in Readers /\ AfterHeader.hdr = <<>> /\ AfterHeader.buf = HeaderTaken.buf
        /\ AfterHeader.errno = in.errno /\ AfterHeader.type = in.type
    BY <2>1, AfterHeaderFacts
  <2>5. /\ HeaderTaken.hdr[1].u # "header"
        /\ \E k \in {i, i + 1} : k \in 1..Len(q) /\ Lost(AfterHeader, wire, server, q, k)
    <3> DEFINE t == Skipped(in)
    <3>1. /\ t \in Readers /\ Len(t.hdr) < HeaderLen /\ Len(TakeHeader(t).hdr) = HeaderLen
          /\ AfterHeader.buf = TakeHeader(t).buf /\ Follows(t, wire, server, q, x, i)
      BY <2>0, <2>1, <2>2, <2>3, <2>4
    <3>3. HeaderTaken = TakeHeader(t)
      BY <2>3
    <3> HIDE DEF t
    <3>2. /\ TakeHeader(t).hdr[1].u # "header"
          /\ \E k \in {i, i + 1} : k \in 1..Len(q) /\ Lost(AfterHeader, wire, server, q, k)
      <4>1. LosesHeader(t, wire, server, q, i, x, AfterHeader)
        BY <1>0, <2>0, <2>2, <2>4, <3>1 DEF LosesHeader
      <4> HIDE DEF j
      <4>2. TakeHeader(t).hdr[1].u # "header"
        BY <4>1, LostHeader
      <4>3. \E k \in {i, i + 1} : k \in 1..Len(q) /\ Lost(AfterHeader, wire, server, q, k)
        BY <4>1, LostHeader
      <4> QED BY <4>2, <4>3
    <3> QED BY <3>2, <3>3
  <2>6. in' = SetError(AfterHeader, "UNSUPPORTED_VERSION") /\ UNCHANGED <<nest, req, replies>>
    BY <2>1, <2>5 DEF HeaderStep, Fails
  <2>7. "UNSUPPORTED_VERSION" \in Errors \ {"0"}
    BY DEF Errors
  <2>8. /\ in'.closed /\ in'.errno = in.errno /\ in'.type = in.type
        /\ in'.hdr = AfterHeader.hdr /\ in'.buf = AfterHeader.buf
    BY <1>2, <2>4, <2>6, <2>7, SetErrorFacts
  <2>9. \E k \in 1..Len(q) : k <= j /\ Lost(in', wire', server', q, k)
    <3>1. PICK k \in {i, i + 1} : k \in 1..Len(q) /\ Lost(AfterHeader, wire, server, q, k)
      BY <2>5
    <3>2. SameUnits(AfterHeader, wire, in', wire)
      BY <2>8, SameParts
    <3>3. Lost(in', wire', server', q, k)
      BY <2>1, <3>1, <3>2, LostMoved
    <3>4. k <= j
      BY <1>0, <3>1
    <3> QED BY <3>1, <3>3, <3>4
  <2> QED BY <1>5, <2>1, <2>6, <2>8, <2>9
<1> QED BY <1>1, <1>6, <1>7

(* Steps that only move units, or only change the place.                    *)
SameFields(s, t) ==
    /\ t.hdr = s.hdr /\ t.avail = s.avail /\ t.unget = s.unget /\ t.type = s.type /\ t.eor = s.eor
    /\ t.skip = s.skip /\ t.contentLen = s.contentLen /\ t.paddingLen = s.paddingLen
    /\ t.closed = s.closed /\ t.errno = s.errno

Moves ==
    /\ SameUnits(in, wire, in', wire') /\ SameFields(in, in')
    /\ UNCHANGED <<nest, req, pend, server, replies, got>>
    /\ at' = at \/ (at \in {"app", "read"} /\ at' \in {"app", "read"})
    /\ fill => fill'
    /\ (at = "begin" /\ nest.k = "none") => fill' = fill
    /\ Mute => Mute'

LEMMA FlagsMoved ==
    ASSUME NEW s, NEW t, NEW k, NEW q, NEW i, SameFields(s, t), Flags(s, k, q, i)
    PROVE  Flags(t, k, q, i) /\ Whole(t) = Whole(s)
BY DEF SameFields, Flags, Whole

LEMMA InStepMoves ==
    ASSUME NEW q, NEW p, NEW s, NEW i, InStep(q, p, s, i), Moves
    PROVE  InStep(q, p, s, i)'
<1>1. /\ SameUnits(in, wire, in', wire') /\ SameFields(in, in')
      /\ UNCHANGED <<nest, req, pend, server, replies, got>>
      /\ at' = at \/ (at \in {"app", "read"} /\ at' \in {"app", "read"})
      /\ fill => fill'
  BY DEF Moves
<1>2. /\ Accepted(q) /\ in.errno = "0" /\ At(in, wire, server, q, i) /\ Flags(in, nest.k, q, i)
      /\ Replied(q, i) /\ Place(q, p, s, i) /\ Values(q, i) /\ Heard(q, i) /\ Back(q, i)
  BY DEF InStep
<1>3. Flags(in', nest'.k, q, i) /\ Whole(in') = Whole(in)
  BY <1>1, <1>2, FlagsMoved
<1>4. At(in', wire', server', q, i)
  BY <1>1, <1>2, <1>3, AtMoved DEF SameFields
<1>5. Accepted(q)'
  BY <1>1, <1>2 DEF Accepted, SameFields
<1>6. in'.errno = "0" /\ Replied(q, i)' /\ Place(q, p, s, i)'
  BY <1>1, <1>2 DEF Replied, Place, SameFields
<1>7. Values(q, i)'
  BY <1>1, <1>2, <1>3 DEF Values, SameFields
<1>8. Heard(q, i)'
  BY <1>1, <1>2, <1>3 DEF Heard
<1>9. Back(q, i)'
  BY <1>1, <1>2, <1>3 DEF Back, SameFields, Accepted
<1> QED BY <1>3, <1>4, <1>5, <1>6, <1>7, <1>8, <1>9 DEF InStep

LEMMA OthersMove ==
    ASSUME NEW q, NEW p, NEW s, NEW i, Halted(q, p, s, i) \/ Straying(q, p, s, i), Moves
    PROVE  Halted(q, p, s, i)' \/ Straying(q, p, s, i)'
<1>1. /\ SameUnits(in, wire, in', wire') /\ SameFields(in, in')
      /\ UNCHANGED <<nest, req, pend, server, replies, got>>
      /\ at' = at \/ (at \in {"app", "read"} /\ at' \in {"app", "read"})
      /\ Mute => Mute'
  BY DEF Moves
<1>2. Accepted(q)'
  BY <1>1 DEF Accepted, SameFields, Halted, Straying
<1>3. Lost(in, wire, server, q, i) => Lost(in', wire', server', q, i)
  BY <1>1, LostMoved
<1>4. Whole(in') = Whole(in)
  BY <1>1 DEF SameFields, Whole
<1>5. CASE Halted(q, p, s, i)
  <2>1. Replied(q, i) => Replied(q, i)'
    BY <1>1 DEF Replied
  <2>2. Halted(q, p, s, i)'
    BY <1>1, <1>2, <1>3, <1>5, <2>1 DEF Halted, SameFields
  <2> QED BY <2>2
<1>6. CASE Straying(q, p, s, i)
  <2>1. Replied(q, i) => Replied(q, i)'
    BY <1>1 DEF Replied
  <2>2. (At(in, wire, server, q, i) /\ Flags(in, nest.k, q, i)) =>
            (At(in', wire', server', q, i) /\ Flags(in', nest'.k, q, i))
    BY <1>1, <1>4, FlagsMoved, AtMoved DEF SameFields
  <2>3. at' \in {"app", "read"}
    BY <1>1, <1>6 DEF Straying
  <2>4. Straying(q, p, s, i)'
    BY <1>1, <1>2, <1>3, <1>4, <1>6, <2>1, <2>2, <2>3 DEF Straying, SameFields
  <2> QED BY <2>4
<1> QED BY <1>5, <1>6

LEMMA BeginningMoves ==
    ASSUME NEW q, Beginning(q), Moves
    PROVE  Beginning(q)'
<1>1. /\ SameUnits(in, wire, in', wire') /\ SameFields(in, in')
      /\ UNCHANGED <<nest, req, pend, server, replies, got>>
      /\ at' = at \/ (at \in {"app", "read"} /\ at' \in {"app", "read"})
      /\ (at = "begin" /\ nest.k = "none") => fill' = fill
      /\ fill => fill'
  BY DEF Moves
<1>2. Whole(in') = Whole(in)
  BY <1>1 DEF SameFields, Whole
<1>3. Follows(in, wire, server, q, <<>>, 0) => Follows(in', wire', server', q, <<>>, 0)
  BY <1>1, FollowsMoved DEF SameUnits
<1>4. At(in, wire, server, q, 1) => At(in', wire', server', q, 1)
  BY <1>1, <1>2, AtMoved DEF SameFields
<1>5. at = "begin" /\ at' = "begin" /\ (Fresh => Fresh')
  <2>1. at = "begin"
    BY DEF Beginning, Fresh
  <2> QED BY <1>1, <2>1 DEF Fresh, SameFields
<1>6. (nest'.k = nest.k) /\ (in'.eor = in.eor) /\ (in'.closed = in.closed) /\ (in'.errno = in.errno) /\ (in'.avail = in.avail)
      /\ req' = req /\ server' = server
  BY <1>1 DEF SameFields
<1> QED BY <1>1, <1>2, <1>3, <1>4, <1>5, <1>6 DEF Beginning

LEMMA PhaseMoves ==
    ASSUME NEW q, NEW p, NEW s, Phase(q, p, s), Moves
    PROVE  Phase(q, p, s)' /\ got' = got /\ replies' = replies
<1>0. got' = got /\ replies' = replies
  BY DEF Moves
<1>1. CASE Beginning(q)
  BY <1>0, <1>1, BeginningMoves DEF Phase
<1>2. CASE Final(q)
  <2>1. Final(q)'
    BY <1>2 DEF Final, Accepted, Moves, SameFields
  <2> QED BY <1>0, <2>1 DEF Phase
<1>3. CASE \E i \in 1..Len(q) : InStep(q, p, s, i) \/ Halted(q, p, s, i) \/ Straying(q, p, s, i)
  <2>1. PICK i \in 1..Len(q) : InStep(q, p, s, i) \/ Halted(q, p, s, i) \/ Straying(q, p, s, i)
    BY <1>3
  <2>2. InStep(q, p, s, i)' \/ Halted(q, p, s, i)' \/ Straying(q, p, s, i)'
    BY <2>1, InStepMoves, OthersMove
  <2> QED BY <1>0, <2>2 DEF Phase
<1> QED BY <1>1, <1>2, <1>3 DEF Phase

LEMMA PhaseFilling ==
    ASSUME Typed, NEW q, NEW p, NEW s, Phase(q, p, s), fill
    PROVE  \/ Beginning(q) /\ Fresh /\ nest.k \in {"none", "body"}
           \/ \E i \in 1..Len(q) : InStep(q, p, s, i) \/ Straying(q, p, s, i)
<1>1. ~in.closed
  BY DEF Typed, ReaderOK
<1> QED BY <1>1 DEF Phase, Beginning, Final, Halted

(* A stream that is not at its end.                                         *)
LEMMA NotAtEnd ==
    ASSUME Typed, NEW q, NEW p, NEW s, Spans(q, p, s), NEW i \in 1..Len(q), InStep(q, p, s, i), ~in.closed \/ nest.k # "none"
    PROVE  in.type \in Streams /\ i < Hi(q, p, s, in.type) /\ (at # "params" => in.type \in {"STDIN", "DATA"})
<1>1. /\ Accepted(q) /\ Flags(in, nest.k, q, i) /\ Place(q, p, s, i)
  BY DEF InStep
<1>2. in.type \in Streams /\ (at # "params" => in.type \in {"STDIN", "DATA"})
  BY <1>1 DEF Typed, PlaceOK, Streams, Accepted
<1>3. Hi(q, p, s, in.type) \in Nat
  BY <1>2, Bounds
<1>4. i <= Hi(q, p, s, in.type)
  BY <1>1 DEF Place
<1>5. i # Hi(q, p, s, in.type)
  <2>1. CASE nest.k = "none"
    BY <1>1, <2>1 DEF Place
  <2>2. CASE nest.k # "none"
    <3>1. nest.k = "values"
      BY <1>1, <2>2 DEF Accepted, Typed, NestSet
    <3>2. Management(q[i])
      BY <1>1, <3>1 DEF Flags
    <3>3. q[Hi(q, p, s, in.type)].id = q[1].id
      BY <1>2, StreamEnd
    <3>4. q[1].id # 0
      BY TameFirst
    <3> QED BY <3>2, <3>3, <3>4 DEF Management
  <2> QED BY <2>1, <2>2
<1>6. i < Hi(q, p, s, in.type)
  BY <1>3, <1>4, <1>5
<1> QED BY <1>2, <1>6

(* The connection fails.                                                    *)
LEMMA InStepFails ==
    ASSUME Typed, NEW q, NEW p, NEW s, Spans(q, p, s), NEW i \in 1..Len(q), InStep(q, p, s, i),
           ~in.closed \/ nest.k # "none",
           Mute', SameUnits(in, wire, in', wire'), in'.closed, in'.errno # "0", in'.avail = 0, in'.type = in.type,
           nest' = nest \/ nest'.k = "none",
           UNCHANGED <<at, req, server, got>>
    PROVE  Phase(q, p, s)'
<1>0. q \in Seq(Recs) /\ in \in Readers
  BY Bounds DEF Typed, ReaderOK
<1>1. Accepted(q) /\ At(in, wire, server, q, i)
  BY DEF InStep
<1>2. in.type \in Streams /\ i < Hi(q, p, s, in.type)
  BY NotAtEnd
<1>3. Lost(in, wire, server, q, i)
  BY <1>0, <1>1, AtLost
<1>4. Lost(in', wire', server', q, i)
  BY <1>3, LostMoved
<1>5. Accepted(q)'
  BY <1>1 DEF Accepted
<1>6. (in'.type = "PARAMS" => i < p) /\ (in'.type = "STDIN" => i < s)
  BY <1>2 DEF Hi
<1>7. Halted(q, p, s, i)'
  BY <1>4, <1>5, <1>6 DEF Halted
<1> QED BY <1>7 DEF Phase

LEMMA StrayingFails ==
    ASSUME Typed, NEW q, NEW p, NEW s, Spans(q, p, s), NEW i \in 1..Len(q), Straying(q, p, s, i),
           Lost(in', wire', server', q, i), in'.closed, in'.errno # "0", in'.type = in.type,
           in.type = "STDIN" => Mute' \/ (nest'.k = "none" /\ nest.k = "none" /\ replies' = replies /\ (Mute => Mute')),
           in.type = "STDIN" /\ nest'.k # "none" => in'.avail = 0,
           nest' = nest \/ nest'.k = "none",
           UNCHANGED <<at, req, server, got>>
    PROVE  Phase(q, p, s)'
<1>0. q \in Seq(Recs) /\ in \in Readers /\ p \in Nat /\ s \in Nat /\ p < s
  BY Bounds DEF Typed, ReaderOK
<1>1. Accepted(q) /\ at \in {"app", "read"} /\ i < Lo(p, s, in.type) /\ (Replied(q, i) \/ Mute)
  BY DEF Straying
<1>2. in.type \in {"STDIN", "DATA"}
  BY <1>1 DEF Typed, PlaceOK
<1>5. Accepted(q)'
  BY <1>1 DEF Accepted
<1>6. CASE in.type = "DATA"
  <2>1. Final(q)'
    BY <1>1, <1>5, <1>6 DEF Final
  <2> QED BY <2>1 DEF Phase
<1>7. CASE in.type = "STDIN"
  <2>1. i < s
    BY <1>0, <1>1, <1>7 DEF Lo
  <2>2. Replied(q, i)' \/ Mute'
    BY <1>1, <1>7 DEF Replied
  <2>3. nest'.k = "values" => in'.avail = 0 /\ Mute'
    BY <1>7
  <2>4. Halted(q, p, s, i)'
    BY <1>5, <1>7, <2>1, <2>2, <2>3 DEF Halted
  <2> QED BY <2>4 DEF Phase
<1> QED BY <1>2, <1>6, <1>7

LEMMA OS_ReadPhase ==
    ASSUME Typed, NEW q, NEW p, NEW s, Spans(q, p, s), Phase(q, p, s), OS_Read
    PROVE  Phase(q, p, s)' /\ got' = got /\ replies' = replies
<1>0. /\ in \in Readers /\ fill /\ in.buf = <<>> /\ wire \in Seq(UnitSet) /\ BuffLen \in Nat
      /\ in.avail = 0 /\ ~in.closed
      /\ UNCHANGED <<at, req, pend, want, server, got, clean, nest, replies>>
  BY Constants DEF Typed, ReaderOK, OtherOK, OS_Read, Others
<1>1. CASE \E n \in 1..Least(BuffLen, Len(wire)) :
             /\ in' = [in EXCEPT !.buf = SubSeq(wire, 1, n)]
             /\ wire' = SubSeq(wire, n + 1, Len(wire))
             /\ UNCHANGED fill
  <2>1. PICK n \in 1..Least(BuffLen, Len(wire)) :
             /\ in' = [in EXCEPT !.buf = SubSeq(wire, 1, n)]
             /\ wire' = SubSeq(wire, n + 1, Len(wire))
             /\ UNCHANGED fill
    BY <1>1
  <2>2. n \in 0..Len(wire) /\ Len(wire) \in Nat /\ wire # <<>>
    <3>1. Len(wire) \in Nat
      BY <1>0
    <3>2. Least(BuffLen, Len(wire)) \in Nat /\ Least(BuffLen, Len(wire)) <= Len(wire)
      BY <1>0, <3>1, LeastFacts, Zenon
    <3> QED BY <3>1, <3>2
  <2>3. SameFields(in, in') /\ in'.buf = SubSeq(wire, 1, n)
    BY <1>0, <2>1 DEF SameFields, Readers
  <2>4. SameUnits(in, wire, in', wire')
    BY <1>0, <2>1, <2>2, <2>3, ReadMoves DEF SameFields
  <2>5. Moves
    <3>1. Mute => Mute'
      BY <1>0, <2>2, <2>3 DEF Mute, SameFields
    <3> QED BY <1>0, <2>1, <2>3, <2>4, <3>1 DEF Moves
  <2> QED BY <2>5, PhaseMoves
<1>2. CASE /\ wire = <<>> /\ server.dead
           /\ \E e \in {"PROTOCOL_ERROR", "OS_ERROR"} : in' = SetError(in, e)
           /\ fill' = FALSE
           /\ UNCHANGED wire
  <2>1. PICK e \in {"PROTOCOL_ERROR", "OS_ERROR"} : in' = SetError(in, e)
    BY <1>2
  <2>2. e \in Errors \ {"0"}
    BY DEF Errors
  <2>3. /\ in' \in Readers /\ in'.closed /\ in'.errno # "0" /\ in'.buf = in.buf /\ in'.hdr = in.hdr
        /\ in'.avail = 0 /\ in'.type = in.type
    BY <1>0, <2>1, <2>2, SetErrorFacts
  <2>4. SameUnits(in, wire, in', wire') /\ Mute'
    BY <1>0, <1>2, <2>3, SameParts DEF Mute
  <2>5. CASE Beginning(q) /\ Fresh /\ nest.k \in {"none", "body"}
    <3>1. ~req.begun
      BY <1>0, <2>5 DEF Beginning
    <3>2. Beginning(q)'
      BY <1>0, <1>2, <2>3, <2>5, <3>1 DEF Beginning, Fresh
    <3> QED BY <1>0, <3>2 DEF Phase
  <2>6. ASSUME NEW i \in 1..Len(q), InStep(q, p, s, i) PROVE Phase(q, p, s)'
    BY <1>0, <2>3, <2>4, <2>6, InStepFails
  <2>7. ASSUME NEW i \in 1..Len(q), Straying(q, p, s, i) PROVE Phase(q, p, s)'
    <3>1. Lost(in, wire, server, q, i)
      <4>1. q \in Seq(Recs)
        BY Bounds
      <4> QED BY <1>0, <2>7, <4>1, AtLost DEF Straying
    <3>2. Lost(in', wire', server', q, i)
      BY <1>0, <2>4, <3>1, LostMoved
    <3> QED BY <1>0, <2>3, <2>4, <2>7, <3>2, StrayingFails
  <2> QED BY <1>0, <2>5, <2>6, <2>7, PhaseFilling
<1> QED BY <1>1, <1>2 DEF OS_Read

LEMMA DeliverPhase ==
    ASSUME Typed, NEW q, NEW p, NEW s, Spans(q, p, s), Phase(q, p, s), Deliver
    PROVE  Phase(q, p, s)' /\ got' = got /\ replies' = replies
<1> DEFINE n == Least(in.contentLen, Len(in.buf))
<1>0. /\ in \in Readers /\ fill /\ in.buf # <<>> /\ in.contentLen > 0 /\ ~in.skip
      /\ in.contentLen \in Nat /\ in.avail = 0 /\ in.buf \in Seq(UnitSet) /\ Len(in.buf) \in Nat
      /\ UNCHANGED <<at, req, pend, want, server, got, clean, nest, wire, replies>> /\ ~fill'
      /\ in' = [in EXCEPT !.contentLen = @ - n, !.avail = n, !.unget = 0]
  BY DEF Typed, ReaderOK, Readers, Deliver, Delivers, Others
<1>1. n \in Nat /\ n <= in.contentLen
  BY <1>0, LeastFacts, Zenon
<1> HIDE DEF n
<1>2. /\ in'.hdr = in.hdr /\ in'.buf = in.buf /\ in'.type = in.type /\ in'.eor = in.eor /\ in'.skip = in.skip
      /\ in'.paddingLen = in.paddingLen /\ in'.closed = in.closed /\ in'.errno = in.errno
      /\ in'.contentLen = in.contentLen - n /\ in'.avail = n /\ in'.unget = 0
  BY <1>0 DEF Readers
<1>3. Whole(in') = Whole(in) /\ Whole(in) > 0 /\ Whole(in) \in Nat
  BY <1>0, <1>1, <1>2 DEF Whole
<1>4. SameUnits(in, wire, in', wire')
  BY <1>0, <1>2, SameParts
<1>5. \A i : At(in, wire, server, q, i) => At(in', wire', server', q, i)
  BY <1>0, <1>2, <1>3, <1>4, AtMoved
<1>6. \A i : Flags(in, nest.k, q, i) => Flags(in', nest'.k, q, i)
  BY <1>0, <1>2, <1>3 DEF Flags
<1>7. Mute => Mute'
  BY <1>0, <1>2 DEF Mute
<1>8. Accepted(q) => Accepted(q)'
  BY <1>0, <1>2 DEF Accepted
<1>10. CASE Beginning(q) /\ Fresh /\ nest.k \in {"none", "body"}
  <2>1. /\ nest.k = "body" /\ ~req.begun /\ in.eor /\ Whole(in) = 1 /\ req.id = q[1].id
        /\ At(in, wire, server, q, 1)
    <3>1. Whole(in) # 0 /\ fill /\ in.errno = "0"
      BY <1>0, <1>3, <1>10 DEF Fresh
    <3> QED BY <1>10, <3>1, Zenon DEF Beginning
  <2>2. Fresh'
    BY <1>0, <1>2, <1>10 DEF Fresh
  <2>3. Beginning(q)'
    BY <1>0, <1>2, <1>3, <1>5, <2>1, <2>2 DEF Beginning
  <2> QED BY <1>0, <2>3 DEF Phase
<1>11. ASSUME NEW i \in 1..Len(q), InStep(q, p, s, i) PROVE Phase(q, p, s)'
  <2>1. /\ Accepted(q) /\ in.errno = "0" /\ At(in, wire, server, q, i) /\ Flags(in, nest.k, q, i)
        /\ Replied(q, i) /\ Place(q, p, s, i) /\ Values(q, i) /\ Heard(q, i)
    BY <1>11 DEF InStep
  <2>2. Replied(q, i)' /\ Place(q, p, s, i)'
    BY <1>0, <1>2, <2>1 DEF Replied, Place
  <2>3. Values(q, i)' /\ Heard(q, i)'
    BY <1>0, <1>2, <1>3, <2>1 DEF Values, Heard
  <2>4. Back(q, i)'
    <3>1. nest.k = "none" /\ ~in.closed => Mine(q, i, in.type)
      BY <1>0, <1>3, <2>1 DEF Flags
    <3>2. in.hdr = <<>>
      BY <1>3, <2>1 DEF At
    <3>3. Whole(in) <= Len(q[i].content)
      BY <2>1 DEF At
    <3>4. Len(q[i].content) \in Nat
      <4>1. q \in Seq(Recs)
        BY Bounds
      <4>2. q[i] \in Recs
        BY <1>11, <4>1
      <4> QED BY <4>2, RecordShape
    <3>5. in'.unget <= Len(q[i].content) - Whole(in')
      BY <1>2, <1>3, <3>3, <3>4
    <3> QED BY <1>0, <1>2, <3>1, <3>2, <3>5 DEF Back
  <2>5. InStep(q, p, s, i)'
    BY <1>2, <1>5, <1>6, <1>8, <2>1, <2>2, <2>3, <2>4 DEF InStep
  <2> QED BY <1>11, <2>5 DEF Phase
<1>12. ASSUME NEW i \in 1..Len(q), Straying(q, p, s, i) PROVE Phase(q, p, s)'
  <2>1. At(in, wire, server, q, i) /\ Flags(in, nest.k, q, i)
    BY <1>3, <1>12 DEF Straying
  <2>2. Replied(q, i) => Replied(q, i)'
    BY <1>0 DEF Replied
  <2>3. At(in', wire', server', q, i) /\ Flags(in', nest'.k, q, i)
    BY <1>5, <1>6, <2>1
  <2>4. Straying(q, p, s, i)'
    BY <1>0, <1>2, <1>7, <1>8, <1>12, <2>2, <2>3 DEF Straying
  <2> QED BY <1>12, <2>4 DEF Phase
<1>13. Phase(q, p, s)'
  BY <1>0, <1>10, <1>11, <1>12, PhaseFilling
<1> QED BY <1>0, <1>13

(* Skipping.                                                                *)
LEMMA AdvanceFields ==
    ASSUME Typed, Advance
    PROVE  LET t == Skipped(in) IN
           /\ fill /\ in.buf # <<>> /\ ~Delivers(in) /\ in.avail = 0 /\ in \in Readers /\ ~in.closed
           /\ t \in Readers /\ in' \in Readers /\ in'.avail = 0 /\ in'.type = in.type /\ in'.errno = in.errno
           /\ in'.eor = in.eor /\ in'.skip = t.skip
           /\ in'.contentLen = t.contentLen /\ in'.paddingLen = t.paddingLen
           /\ t.avail = 0 /\ SameUnits(t, wire, in', wire)
           /\ UNCHANGED <<at, req, pend, want, server, got, clean, nest, wire, replies>>
           /\ \/ ~RecordDone(t) /\ fill' /\ ~in'.closed /\ in'.hdr = t.hdr
              \/ RecordDone(t) /\ in.eor /\ ~fill' /\ in'.closed /\ in'.hdr = t.hdr
              \/ RecordDone(t) /\ ~in.eor /\ fill' /\ ~in'.closed
<1> DEFINE t == Skipped(in)
<1>0. /\ in \in Readers /\ fill /\ in.avail = 0 /\ ~in.closed /\ Len(in.hdr) < HeaderLen
      /\ in.buf # <<>> /\ ~Delivers(in) /\ wire \in Seq(UnitSet)
      /\ UNCHANGED <<at, req, pend, want, server, got, clean, nest, wire, replies>>
  BY DEF Typed, ReaderOK, OtherOK, Advance, Others
<1>1. /\ t \in Readers /\ t.hdr = in.hdr /\ t.avail = in.avail /\ t.type = in.type /\ t.eor = in.eor
      /\ t.closed = in.closed /\ t.errno = in.errno
  BY <1>0, SkippedFacts
<1>2. \/ ~RecordDone(t) /\ in' = t /\ UNCHANGED fill
      \/ RecordDone(t) /\ EndsRecord(t) /\ in' = [t EXCEPT !.closed = TRUE, !.avail = 0] /\ fill' = FALSE
      \/ /\ RecordDone(t) /\ ~EndsRecord(t)
         /\ in' = TakeHeader(t) /\ UNCHANGED fill
  BY DEF Advance
<1> HIDE DEF t
<1>3. CASE ~RecordDone(t) /\ in' = t /\ UNCHANGED fill
  <2>1. SameUnits(t, wire, in', wire)
    BY <1>3, SameParts
  <2> QED BY <1>0, <1>1, <1>3, <2>1 DEF t
<1>4. CASE RecordDone(t) /\ EndsRecord(t) /\ in' = [t EXCEPT !.closed = TRUE, !.avail = 0] /\ fill' = FALSE
  <2>1. /\ in' \in Readers /\ in'.avail = 0 /\ in'.closed /\ in'.hdr = t.hdr /\ in'.buf = t.buf
        /\ in'.type = t.type /\ in'.errno = t.errno /\ in'.eor = t.eor /\ in'.skip = t.skip
        /\ in'.contentLen = t.contentLen /\ in'.paddingLen = t.paddingLen
    BY <1>1, <1>4 DEF Readers
  <2>2. SameUnits(t, wire, in', wire)
    BY <2>1, SameParts
  <2> QED BY <1>0, <1>1, <1>4, <2>1, <2>2 DEF t, EndsRecord
<1>5. CASE /\ RecordDone(t) /\ ~EndsRecord(t)
           /\ in' = TakeHeader(t) /\ UNCHANGED fill
  <2>1. /\ in' \in Readers /\ in'.avail = t.avail /\ in'.closed = t.closed
        /\ in'.type = t.type /\ in'.errno = t.errno /\ in'.eor = t.eor /\ in'.skip = t.skip
        /\ in'.contentLen = t.contentLen /\ in'.paddingLen = t.paddingLen
    BY <1>0, <1>1, <1>5, TakeHeaderFacts
  <2>2. SameUnits(t, wire, in', wire)
    BY <1>0, <1>1, <1>5, PartMoves
  <2> QED BY <1>0, <1>1, <1>5, <2>1, <2>2 DEF t, EndsRecord
<1> QED BY <1>2, <1>3, <1>4, <1>5

LEMMA AdvanceFlags ==
    ASSUME Typed, Advance, NEW q \in Seq(Recs), NEW i \in 1..Len(q),
           At(in, wire, server, q, i), Flags(in, nest.k, q, i)
    PROVE  /\ At(in', wire', server', q, i) /\ Flags(in', nest'.k, q, i)
           /\ Whole(in') = Whole(in) \/ q[i].id # q[1].id
           /\ nest.k # "none" => Whole(in) = 0 /\ Whole(in') = 0
           /\ Whole(in) \in 0..Len(q[i].content) /\ Whole(in') \in 0..Len(q[i].content)
<1> DEFINE t == Skipped(in)
<1>0. /\ fill /\ in.buf # <<>> /\ ~Delivers(in) /\ in.avail = 0 /\ in \in Readers /\ ~in.closed
      /\ t \in Readers /\ in' \in Readers /\ in'.avail = 0 /\ in'.type = in.type /\ in'.errno = in.errno
      /\ in'.eor = in.eor /\ in'.skip = t.skip
      /\ in'.contentLen = t.contentLen /\ in'.paddingLen = t.paddingLen
      /\ t.avail = 0 /\ SameUnits(t, wire, in', wire)
      /\ UNCHANGED <<at, req, pend, want, server, got, clean, nest, wire, replies>>
      /\ \/ ~RecordDone(t) /\ fill' /\ ~in'.closed /\ in'.hdr = t.hdr
         \/ RecordDone(t) /\ in.eor /\ ~fill' /\ in'.closed /\ in'.hdr = t.hdr
         \/ RecordDone(t) /\ ~in.eor /\ fill' /\ ~in'.closed
  BY AdvanceFields
<1>1. /\ t.contentLen <= in.contentLen /\ t.skip = (IF in.contentLen = 0 THEN in.skip ELSE t.contentLen > 0)
  BY <1>0, SkippedFacts
<1>2. At(t, wire, server, q, i)
  <2>1. wire \in Seq(UnitSet)
    BY DEF Typed, OtherOK
  <2> QED BY <1>0, <2>1, AtSkip
<1> HIDE DEF t
<1>3. /\ t.contentLen \in Nat /\ t.paddingLen \in Nat /\ in.contentLen \in Nat /\ in.skip \in BOOLEAN /\ t.skip \in BOOLEAN
  BY <1>0 DEF Readers
<1>4. Whole(in') = t.contentLen /\ Whole(t) = t.contentLen /\ Whole(in) = in.contentLen
  BY <1>0, <1>3 DEF Whole
<1>5. At(in', wire', server', q, i)
  <2>1. RecordDone(t) => Whole(t) = 0 /\ t.paddingLen = 0
    BY <1>4 DEF RecordDone
  <2>2. in'.hdr = t.hdr \/ (Whole(t) = 0 /\ t.paddingLen = 0)
    BY <1>0, <2>1
  <2> QED BY <1>0, <1>2, <1>4, <2>2, AtMoved
<1>6. in.contentLen > 0 => in.skip
  BY <1>0 DEF Delivers
<1>7. in.skip => in.contentLen > 0 /\ q[i].id # q[1].id /\ nest.k = "none"
  BY DEF Flags
<1>8. t.skip <=> t.contentLen > 0
  <2>1. CASE in.contentLen = 0
    <3>1. ~in.skip /\ t.contentLen = 0
      BY <1>1, <1>3, <1>7, <2>1
    <3>2. ~t.skip
      BY <1>1, <2>1, <3>1, Zenon
    <3> QED BY <3>1, <3>2
  <2>2. CASE in.contentLen # 0
    BY <1>1, <2>2, Zenon
  <2> QED BY <2>1, <2>2
<1>9. t.contentLen > 0 => q[i].id # q[1].id /\ nest.k = "none"
  BY <1>1, <1>3, <1>6, <1>7
<1>10. nest.k = "values" => t.contentLen = 0 /\ in.contentLen = 0 /\ in.eor
  BY <1>1, <1>3, <1>6, <1>7 DEF Flags
<1>11. nest.k # "none" => t.contentLen = 0 /\ in.contentLen = 0
  BY <1>1, <1>3, <1>6, <1>7
<1>12. Flags(in', nest'.k, q, i)
  <2>1. in'.skip => in'.contentLen > 0 /\ in'.avail = 0 /\ q[i].id # q[1].id /\ nest'.k = "none"
    BY <1>0, <1>8, <1>9
  <2>2. ~(Whole(in') > 0 /\ ~in'.skip)
    BY <1>0, <1>4, <1>8
  <2>3. in'.eor <=> nest'.k # "none"
    BY <1>0 DEF Flags
  <2>4. nest'.k = "values" => /\ Management(q[i]) /\ q[i].type = "GET_VALUES"
                              /\ (~in'.closed /\ q[i].pad > 0) => in'.paddingLen > 0
    <3>1. nest.k = "values" /\ ~in'.closed => ~RecordDone(t)
      BY <1>0, <1>10
    <3>2. nest.k = "values" /\ ~in'.closed => t.paddingLen > 0
      BY <1>3, <1>10, <3>1 DEF RecordDone
    <3> QED BY <1>0, <3>2 DEF Flags
  <2> QED BY <2>1, <2>2, <2>3, <2>4 DEF Flags
<1>13. Whole(in') = Whole(in) \/ q[i].id # q[1].id
  BY <1>1, <1>3, <1>4, <1>6, <1>7
<1>14. Whole(in) \in 0..Len(q[i].content) /\ Whole(in') \in 0..Len(q[i].content)
  <2>1. Whole(in) <= Len(q[i].content)
    BY DEF At
  <2>2. q[i] \in Recs
    OBVIOUS
  <2>3. Len(q[i].content) \in Nat
    BY <2>2, RecordShape
  <2> QED BY <1>1, <1>3, <1>4, <2>1, <2>3
<1> QED BY <1>4, <1>5, <1>11, <1>12, <1>13, <1>14

LEMMA AdvancePhase ==
    ASSUME Typed, NEW q, NEW p, NEW s, Spans(q, p, s), Phase(q, p, s), Advance
    PROVE  Phase(q, p, s)' /\ got' = got /\ replies' = replies
<1> DEFINE t == Skipped(in)
<1>0. /\ fill /\ in.buf # <<>> /\ ~Delivers(in) /\ in.avail = 0 /\ in \in Readers /\ ~in.closed
      /\ t \in Readers /\ in' \in Readers /\ in'.avail = 0 /\ in'.type = in.type /\ in'.errno = in.errno
      /\ in'.eor = in.eor /\ in'.skip = t.skip
      /\ in'.contentLen = t.contentLen /\ in'.paddingLen = t.paddingLen
      /\ t.avail = 0 /\ SameUnits(t, wire, in', wire)
      /\ UNCHANGED <<at, req, pend, want, server, got, clean, nest, wire, replies>>
      /\ \/ ~RecordDone(t) /\ fill' /\ ~in'.closed /\ in'.hdr = t.hdr
         \/ RecordDone(t) /\ in.eor /\ ~fill' /\ in'.closed /\ in'.hdr = t.hdr
         \/ RecordDone(t) /\ ~in.eor /\ fill' /\ ~in'.closed
  BY AdvanceFields
<1>1. q \in Seq(Recs) /\ p \in Nat /\ s \in Nat /\ p < s
  BY Bounds
<1>2. Mute => server.dead /\ in.errno = "OS_ERROR" /\ Mute'
  BY <1>0 DEF Mute
<1>3. Accepted(q) => Accepted(q)'
  BY <1>0 DEF Accepted
<1>4. ASSUME Whole(in) = 0, in.paddingLen = 0, ~in.skip, ~in.eor
      PROVE  /\ SameUnits(in, wire, t, wire) /\ fill' /\ ~in'.closed /\ ~in'.skip /\ ~in'.eor
             /\ Whole(in') = 0 /\ in'.paddingLen = 0
  <2>1. /\ t.contentLen = 0 /\ t.paddingLen = 0 /\ ~t.skip /\ SameUnits(in, wire, t, wire)
    BY <1>0, <1>4, SkippedSame
  <2>2. RecordDone(t)
    BY <2>1 DEF RecordDone
  <2> QED BY <1>0, <1>4, <2>1, <2>2 DEF Whole
<1> HIDE DEF t
<1>10. CASE Beginning(q) /\ Fresh /\ nest.k \in {"none", "body"}
  <2>1. /\ nest.k = "none" /\ ~req.begun /\ ~in.eor /\ Whole(in) = 0
        /\ Follows(in, wire, server, q, <<>>, 0)
    <3>1. Whole(in) # 1
      BY <1>0, <1>10 DEF Fresh, Whole, Delivers, Readers
    <3>2. fill /\ in.errno = "0"
      BY <1>0, <1>10 DEF Fresh
    <3> QED BY <1>10, <3>1, <3>2, Zenon DEF Beginning
  <2>2. in.paddingLen = 0 /\ ~in.skip
    BY <1>10 DEF Fresh
  <2>3. /\ SameUnits(in, wire, t, wire) /\ fill' /\ ~in'.closed /\ ~in'.skip /\ ~in'.eor
        /\ Whole(in') = 0 /\ in'.paddingLen = 0
    BY <1>4, <2>1, <2>2
  <2>4. Follows(in', wire', server', q, <<>>, 0)
    <3>1. Follows(t, wire, server, q, <<>>, 0)
      BY <2>1, <2>3, FollowsMoved DEF SameUnits
    <3>2. Follows(in', wire, server, q, <<>>, 0)
      BY <1>0, <3>1, FollowsMoved DEF SameUnits
    <3> QED BY <1>0, <3>2
  <2>5. Fresh'
    BY <1>0, <1>10, <2>3 DEF Fresh
  <2>6. Beginning(q)'
    BY <1>0, <2>1, <2>3, <2>4, <2>5 DEF Beginning
  <2> QED BY <1>0, <2>6 DEF Phase
<1>11. ASSUME NEW i \in 1..Len(q), InStep(q, p, s, i) PROVE Phase(q, p, s)'
  <2>1. /\ Accepted(q) /\ in.errno = "0" /\ At(in, wire, server, q, i) /\ Flags(in, nest.k, q, i)
        /\ Replied(q, i) /\ Place(q, p, s, i) /\ Values(q, i) /\ Heard(q, i)
    BY <1>11 DEF InStep
  <2>2. /\ At(in', wire', server', q, i) /\ Flags(in', nest'.k, q, i)
        /\ Whole(in') = Whole(in) \/ q[i].id # q[1].id
        /\ nest.k # "none" => Whole(in) = 0 /\ Whole(in') = 0
    BY <1>1, <1>11, <2>1, AdvanceFlags
  <2>3. in.eor <=> nest.k # "none"
    BY <2>1 DEF Flags
  <2>4. Place(q, p, s, i)' /\ Replied(q, i)'
    BY <1>0, <2>1, <2>3 DEF Place, Replied
  <2>5. Back(q, i)'
    BY <1>0, <2>3 DEF Back
  <2>6. Heard(q, i)'
    <3>1. \A y : Passed(q, i, Whole(in'), y) = Passed(q, i, Whole(in), y)
      <4>1. CASE Whole(in') = Whole(in)
        BY <4>1
      <4>2. CASE q[i].id # q[1].id
        BY <4>2, PassedOther DEF Mine
      <4> QED BY <2>2, <4>1, <4>2
    <3> QED BY <1>0, <2>1, <3>1 DEF Heard
  <2>7. Values(q, i)'
    <3>1. in'.closed => in'.paddingLen = 0
      BY <1>0 DEF RecordDone
    <3> QED BY <1>0, <2>1, <2>2, <3>1 DEF Values
  <2>8. InStep(q, p, s, i)'
    BY <1>0, <1>3, <2>1, <2>2, <2>4, <2>5, <2>6, <2>7 DEF InStep
  <2> QED BY <1>11, <2>8 DEF Phase
<1>12. ASSUME NEW i \in 1..Len(q), Straying(q, p, s, i) PROVE Phase(q, p, s)'
  <2>0. /\ Accepted(q) /\ in.errno # "0" /\ at \in {"app", "read"}
        /\ got[in.type] = <<>> /\ i < Lo(p, s, in.type)
        /\ (in.type = "STDIN" => Mute) /\ (Replied(q, i) \/ Mute)
    BY <1>12 DEF Straying
  <2>1. Replied(q, i) => Replied(q, i)'
    BY <1>0 DEF Replied
  <2>2. CASE At(in, wire, server, q, i) /\ Flags(in, nest.k, q, i)
    <3>1. At(in', wire', server', q, i) /\ Flags(in', nest'.k, q, i)
      BY <1>1, <1>12, <2>2, AdvanceFlags
    <3>2. CASE in'.closed
      <4>1. Lost(in', wire', server', q, i)
        BY <1>0, <1>1, <1>12, <3>1, AtLost
      <4> QED BY <1>0, <1>2, <1>12, <2>0, <3>2, <4>1, StrayingFails
    <3>3. CASE ~in'.closed
      <4>1. Straying(q, p, s, i)'
        BY <1>0, <1>2, <1>3, <2>0, <2>1, <3>1, <3>3 DEF Straying
      <4> QED BY <1>12, <4>1 DEF Phase
    <3> QED BY <3>2, <3>3
  <2>3. CASE /\ Whole(in) = 0 /\ in.paddingLen = 0 /\ nest.k = "none" /\ ~in.skip /\ ~in.eor
             /\ Lost(in, wire, server, q, i)
    <3>1. /\ SameUnits(in, wire, t, wire) /\ fill' /\ ~in'.closed /\ ~in'.skip /\ ~in'.eor
          /\ Whole(in') = 0 /\ in'.paddingLen = 0
      BY <1>4, <2>3
    <3>2. Lost(t, wire, server, q, i)
      BY <2>3, <3>1, LostMoved
    <3>3. Lost(in', wire', server', q, i)
      BY <1>0, <3>2, LostMoved
    <3>4. Straying(q, p, s, i)'
      BY <1>0, <1>2, <1>3, <2>0, <2>1, <2>3, <3>1, <3>3 DEF Straying
    <3> QED BY <1>12, <3>4 DEF Phase
  <2> QED BY <1>12, <2>2, <2>3 DEF Straying
<1>13. Phase(q, p, s)'
  BY <1>0, <1>10, <1>11, <1>12, PhaseFilling
<1> QED BY <1>0, <1>13

LEMMA BeginningFill ==
    ASSUME Typed, NEW q, NEW p, NEW s, Spans(q, p, s), Beginning(q), Fresh, nest.k \in {"none", "body"}, FillHeader
    PROVE  Beginning(q)' /\ got' = got /\ replies' = replies
<1> DEFINE h == HeaderTaken.hdr[1]
           z == Sized(AfterHeader, h)
<1>0. q \in Seq(Recs) /\ 0 \in 0..Len(q) /\ in \in Readers /\ req \in RequestSet
  BY Bounds DEF Typed, ReaderOK
<1>1. /\ fill /\ RecordDone(Skipped(in)) /\ Len(HeaderTaken.hdr) = HeaderLen /\ ~in.eor
      /\ HeaderStep(AfterHeader, h)
      /\ UNCHANGED <<at, pend, want, wire, server, got, clean>>
  BY FillHeaderSteps
<1>2. /\ nest.k = "none" /\ ~req.begun /\ Whole(in) = 0 /\ Follows(in, wire, server, q, <<>>, 0)
  BY <1>1, Zenon DEF Beginning, Fresh
<1>3. in.paddingLen = 0 /\ ~in.skip /\ in.errno = "0" /\ ~in.closed /\ at = "begin"
  BY DEF Fresh
<1>4. SameUnits(in, wire, Skipped(in), wire) /\ ~Skipped(in).skip
  BY <1>0, <1>2, <1>3, SkippedSame
<1>5. Follows(Skipped(in), wire, server, q, <<>>, 0)
  BY <1>2, <1>4, FollowsMoved DEF SameUnits
<1>6. /\ 0 + 1 \in 1..Len(q) /\ q[0 + 1] \in Recs
      /\ HeaderTaken.hdr[1] = [u |-> "header", type |-> q[0 + 1].type, id |-> q[0 + 1].id,
                               len |-> Len(q[0 + 1].content), pad |-> q[0 + 1].pad]
      /\ \A t : (/\ t.hdr = <<>> /\ t.buf = AfterHeader.buf /\ t.avail = 0
                 /\ t.contentLen = Len(q[0 + 1].content) /\ t.paddingLen = q[0 + 1].pad)
                => At(t, wire, server, q, 0 + 1)
  BY <1>0, <1>5, HeaderArrives
<1>7. /\ q[1] \in Recs
      /\ h = [u |-> "header", type |-> q[1].type, id |-> q[1].id, len |-> Len(q[1].content), pad |-> q[1].pad]
      /\ \A t : (/\ t.hdr = <<>> /\ t.buf = AfterHeader.buf /\ t.avail = 0
                 /\ t.contentLen = Len(q[1].content) /\ t.paddingLen = q[1].pad)
                => At(t, wire, server, q, 1)
  <2>1. 0 + 1 = 1
    OBVIOUS
  <2> QED BY <1>6, <2>1
<1>8. Begin(q[1]) /\ q[1].id # 0 /\ q[1].pad = 0 /\ Len(q[1].content) = 1
  BY TameFirst
<1>9. h.u = "header" /\ Begin(h) /\ h.id = q[1].id /\ h.len = 1 /\ h.pad = 0
  BY <1>7, <1>8 DEF Begin
<1> HIDE DEF h
<1>10. /\ AfterHeader \in Readers /\ AfterHeader.hdr = <<>> /\ AfterHeader.avail = 0
       /\ ~AfterHeader.closed /\ AfterHeader.errno = "0" /\ ~AfterHeader.skip
  BY <1>1, <1>3, <1>4, AfterHeaderFacts
<1>11. /\ z \in Readers /\ z.contentLen = 1 /\ z.paddingLen = 0 /\ z.buf = AfterHeader.buf /\ z.hdr = <<>>
       /\ z.avail = 0 /\ ~z.closed /\ z.errno = "0" /\ ~z.skip
  BY <1>9, <1>10, SizedFacts
<1>12. /\ req' = [req EXCEPT !.id = q[1].id] /\ nest' = [NoNest EXCEPT !.k = "body"]
       /\ in' = [z EXCEPT !.eor = TRUE] /\ UNCHANGED replies
  BY <1>1, <1>2, <1>8, <1>9 DEF HeaderStep, ProcessHeader, ProcessBeginRecord, ProcessManagementRecord, Management, Nested
<1> HIDE DEF z
<1>13. /\ in'.eor /\ in'.contentLen = 1 /\ in'.paddingLen = 0 /\ in'.buf = AfterHeader.buf /\ in'.hdr = <<>>
       /\ in'.avail = 0 /\ ~in'.closed /\ in'.errno = "0" /\ ~in'.skip
  BY <1>11, <1>12 DEF Readers
<1>14. At(in', wire', server', q, 1)
  BY <1>1, <1>7, <1>8, <1>13
<1>15. req'.id = q[1].id /\ ~req'.begun /\ nest'.k = "body" /\ Whole(in') = 1
  BY <1>0, <1>2, <1>12, <1>13, NestFacts DEF RequestSet, Whole
<1>16. Fresh'
  BY <1>1, <1>12, <1>13 DEF Fresh
<1> QED BY <1>1, <1>12, <1>13, <1>14, <1>15, <1>16 DEF Beginning

LEMMA FillHeaderPhase ==
    ASSUME Typed, NEW q, NEW p, NEW s, Spans(q, p, s), Phase(q, p, s), SoFar(got, replies, q), FillHeader
    PROVE  Phase(q, p, s)' /\ SoFar(got', replies', q)
<1>0. fill
  BY FillHeaderSteps
<1>1. CASE Beginning(q) /\ Fresh /\ nest.k \in {"none", "body"}
  BY <1>1, BeginningFill DEF Phase
<1>2. ASSUME NEW i \in 1..Len(q), InStep(q, p, s, i) PROVE Phase(q, p, s)' /\ SoFar(got', replies', q)
  BY <1>2, InStepFill
<1>3. ASSUME NEW i \in 1..Len(q), Straying(q, p, s, i) PROVE Phase(q, p, s)' /\ SoFar(got', replies', q)
  BY <1>3, StrayingFill
<1> QED BY <1>0, <1>1, <1>2, <1>3, PhaseFilling

(* A nested call, or one of the handler, that waits.                        *)
LEMMA Waiting ==
    ASSUME in' = in, fill', UNCHANGED <<nest, req, pend, wire, server, replies, got, at>>,
           at # "begin" \/ nest.k # "none"
    PROVE  Moves
<1>1. SameUnits(in, wire, in', wire') /\ SameFields(in, in')
  BY DEF SameUnits, SameFields
<1>2. Mute => Mute'
  BY DEF Mute
<1> QED BY <1>1, <1>2 DEF Moves

(* One unit of content is taken: the next of the record.                    *)
LEMMA TakeOne ==
    ASSUME Typed, NEW q \in Seq(Recs), NEW i \in 1..Len(q), At(in, wire, server, q, i), in.avail > 0,
           NEW t \in Readers, t.buf = SubSeq(in.buf, 1 + 1, Len(in.buf)), t.avail = in.avail - 1,
           t.contentLen = in.contentLen, t.paddingLen = in.paddingLen, t.hdr = in.hdr
    PROVE  /\ At(t, wire, server, q, i)
           /\ Whole(in) \in 1..Len(q[i].content) /\ Whole(t) = Whole(in) - 1
           /\ LET m == (Len(q[i].content) - Whole(in)) + 1 IN
              in.buf[1].c = q[i].content[m] /\ (~Begin(q[i]) => Value(in.buf[1]) = q[i].content[m])
<1> DEFINE n == 1
<1>1. in \in Readers /\ wire \in Seq(UnitSet) /\ in.avail <= Len(in.buf) /\ in.avail \in Nat /\ in.contentLen \in Nat
  BY DEF Typed, ReaderOK, OtherOK, Readers
<1>2. Whole(in) \in Nat /\ Whole(in) >= 1 /\ Whole(t) = Whole(in) - 1 /\ Len(in.buf) \in Nat /\ 1 <= Len(in.buf)
  BY <1>1 DEF Whole
<1>3. Whole(in) <= Len(q[i].content) /\ Len(q[i].content) \in Nat
  <2>1. q[i] \in Recs
    OBVIOUS
  <2> QED BY <2>1, RecordShape DEF At
<1>4. n \in Nat /\ n <= Len(in.buf) /\ n <= Whole(in) /\ Whole(t) = Whole(in) - n
      /\ t.buf = SubSeq(in.buf, n + 1, Len(in.buf)) /\ 1 \in 1..n
  BY <1>2
<1>5. n = 1
  OBVIOUS
<1> HIDE DEF n
<1>6. At(t, wire, server, q, i)
  BY <1>1, <1>4, AtTake
<1>7. Gives(in, q, i, n)
  BY <1>1, <1>4, AtTake
<1> QED BY <1>2, <1>3, <1>4, <1>6, <1>7 DEF Gives

LEMMA ReadBodyPhase ==
    ASSUME Typed, NEW q, NEW p, NEW s, Spans(q, p, s), Phase(q, p, s), ReadBody
    PROVE  Phase(q, p, s)' /\ got' = got /\ replies' = replies
<1>0. /\ ~fill /\ nest.k = "body" /\ UNCHANGED <<at, pend, want, wire, server, replies, got, clean>>
      /\ in \in Readers /\ in.avail <= Len(in.buf) /\ wire \in Seq(UnitSet) /\ req \in RequestSet
      /\ q \in Seq(Recs) /\ 1 \in 1..Len(q)
  BY TameFirst, Bounds DEF ReadBody, Typed, ReaderOK, OtherOK
<1>1. \/ in.avail = 0 /\ ~in.closed /\ fill' = TRUE /\ UNCHANGED <<in, nest, req>>
      \/ /\ in.avail > 0 /\ nest' = NoNest
         /\ req' = [req EXCEPT !.begun = TRUE, !.role = in.buf[1].c.role, !.keep = in.buf[1].c.keep]
         /\ in' = Take(Unnested, 1)
         /\ UNCHANGED fill
      \/ /\ in.avail = 0 /\ in.closed /\ nest' = NoNest
         /\ in' = SetError(Unnested, "PROTOCOL_ERROR")
         /\ UNCHANGED <<req, fill>>
  BY DEF ReadBody, Body, Unnested
<1>2. /\ Unnested \in Readers /\ ~Unnested.eor /\ ~Unnested.closed
      /\ Unnested.buf = in.buf /\ Unnested.hdr = in.hdr /\ Unnested.avail = in.avail
      /\ Unnested.skip = in.skip
      /\ Unnested.contentLen = in.contentLen /\ Unnested.paddingLen = in.paddingLen
      /\ Unnested.errno = in.errno
  BY UnnestedFacts
<1>3. Beginning(q)
  BY <1>0 DEF Phase, Final, InStep, Halted, Straying, Accepted
<1>4. \/ /\ Fresh /\ ~req.begun /\ in.eor /\ Whole(in) = 1 /\ req.id = q[1].id /\ At(in, wire, server, q, 1)
      \/ /\ at = "begin" /\ in.errno # "0" /\ server.dead /\ in.closed /\ in.avail = 0 /\ ~req.begun
  BY <1>0, <1>3, Zenon DEF Beginning
<1>5. NoNest.k = "none"
  BY NestFacts
<1>6. CASE in.avail = 0 /\ ~in.closed /\ fill' = TRUE /\ UNCHANGED <<in, nest, req>>
  BY <1>0, <1>6, Waiting, PhaseMoves
<1>7. CASE /\ in.avail > 0 /\ nest' = NoNest
           /\ req' = [req EXCEPT !.begun = TRUE, !.role = in.buf[1].c.role, !.keep = in.buf[1].c.keep]
           /\ in' = Take(Unnested, 1)
           /\ UNCHANGED fill
  <2>1. /\ Fresh /\ ~req.begun /\ in.eor /\ Whole(in) = 1 /\ req.id = q[1].id /\ At(in, wire, server, q, 1)
    BY <1>4, <1>7
  <2>2. in.avail = 1 /\ in.contentLen = 0
    BY <1>0, <1>7, <2>1 DEF Whole, Readers
  <2>3. /\ in' \in Readers /\ in'.buf = SubSeq(in.buf, 1 + 1, Len(in.buf)) /\ in'.avail = 0
        /\ in'.hdr = in.hdr /\ ~in'.eor /\ in'.skip = in.skip /\ in'.contentLen = 0
        /\ in'.paddingLen = in.paddingLen /\ ~in'.closed /\ in'.errno = in.errno
    BY <1>2, <1>7, <2>2, TakeFacts, SMTT(30)
  <2>4. Whole(in') = 0 /\ Whole(in') = Whole(in) - 1 /\ 1 <= Whole(in) /\ 1 <= Len(in.buf) /\ 1 \in 1..1
    BY <1>0, <2>1, <2>2, <2>3 DEF Whole
  <2>5. At(in', wire, server, q, 1)
    BY <1>0, <1>7, <2>1, <2>2, <2>3, TakeOne
  <2>6. in.buf[1].c = q[1].content[1]
    <3>1. Len(q[1].content) = 1
      BY TameFirst
    <3>2. (Len(q[1].content) - Whole(in)) + 1 = 1
      BY <2>1, <3>1
    <3>3. in.buf[1].c = q[1].content[(Len(q[1].content) - Whole(in)) + 1]
      BY <1>0, <1>7, <2>1, <2>2, <2>3, TakeOne, SMTT(30)
    <3> QED BY <3>2, <3>3
  <2>7. req'.begun /\ req'.role = q[1].content[1].role /\ req'.id = q[1].id
    BY <1>0, <1>7, <2>1, <2>6 DEF RequestSet
  <2>8. Fresh'
    BY <1>0, <2>1, <2>3 DEF Fresh
  <2>9. Beginning(q)'
    BY <1>0, <1>5, <1>7, <2>3, <2>4, <2>5, <2>7, <2>8 DEF Beginning
  <2> QED BY <1>0, <2>9 DEF Phase
<1>8. CASE /\ in.avail = 0 /\ in.closed /\ nest' = NoNest
           /\ in' = SetError(Unnested, "PROTOCOL_ERROR")
           /\ UNCHANGED <<req, fill>>
  <2>1. at = "begin" /\ in.errno # "0" /\ server.dead /\ ~req.begun
    BY <1>4, <1>8 DEF Fresh
  <2>2. "PROTOCOL_ERROR" \in Errors \ {"0"}
    BY DEF Errors
  <2>3. in'.errno # "0" /\ in'.closed /\ in'.avail = 0
    BY <1>2, <1>8, <2>2, SetErrorFacts
  <2>4. Beginning(q)'
    BY <1>0, <1>5, <1>8, <2>1, <2>3 DEF Beginning
  <2> QED BY <1>0, <2>4 DEF Phase
<1> QED BY <1>1, <1>6, <1>7, <1>8

(* ReadParams for FCGI_GET_VALUES: one more unit, or the end of the record.  *)
ValuesTakes ==
    /\ in.avail > 0 /\ in' = Take(in, 1)
    /\ nest' = IF nest.pend = <<>> THEN [nest EXCEPT !.pend = <<Value(in.buf[1])>>]
               ELSE [nest EXCEPT !.pend = <<>>, !.vals = Append(@, Value(in.buf[1]))]
    /\ UNCHANGED <<fill, replies>>
ValuesFail ==
    /\ in.avail = 0 /\ in.closed /\ nest' = NoNest
    /\ nest.pend # <<>> \/ in.errno # "0" \/ in.contentLen # 0
    /\ in' = SetError(Unnested, IF nest.pend # <<>> THEN "PARAMS_ERROR" ELSE "PROTOCOL_ERROR")
    /\ UNCHANGED <<fill, replies>>
ValuesAnswer ==
    /\ in.avail = 0 /\ in.closed /\ nest' = NoNest /\ in.errno = "0"
    /\ replies' = Append(replies, [type |-> "GET_VALUES_RESULT", id |-> 0, vals |-> ValuesResult(nest.vals)])
    /\ in' = Unnested /\ fill' = TRUE
ValuesLost ==
    /\ in.avail = 0 /\ in.closed /\ nest' = NoNest /\ in.errno = "0" /\ server.dead
    /\ in' = SetError(Unnested, "OS_ERROR") /\ UNCHANGED <<fill, replies>>

LEMMA ReadValuesSteps ==
    ASSUME ReadValues
    PROVE  /\ ~fill /\ nest.k = "values"
           /\ UNCHANGED <<at, req, pend, want, wire, server, got, clean>>
           /\ \/ in.avail = 0 /\ ~in.closed /\ fill' = TRUE /\ UNCHANGED <<in, nest, replies>>
              \/ ValuesTakes \/ ValuesFail \/ ValuesAnswer \/ ValuesLost
BY DEF ReadValues, ValuesTakes, ValuesFail, ValuesAnswer, ValuesLost, Unnested, Reply

LEMMA ValuesTakeFacts ==
    ASSUME Typed, ReadValues, ValuesTakes
    PROVE  /\ nest \in NestSet /\ nest'.k = "values" /\ nest.k = "values"
           /\ nest.pend = <<>> => nest'.pend # <<>> /\ nest'.vals = nest.vals
           /\ nest.pend # <<>> => nest'.pend = <<>> /\ nest'.vals = Append(nest.vals, Value(in.buf[1]))
           /\ in \in Readers /\ in' \in Readers /\ in'.buf = SubSeq(in.buf, 1 + 1, Len(in.buf)) /\ in'.avail = in.avail - 1
           /\ in'.hdr = in.hdr /\ in'.type = in.type /\ in'.eor = in.eor /\ in'.skip = in.skip
           /\ in'.contentLen = in.contentLen /\ in'.paddingLen = in.paddingLen
           /\ in'.closed = in.closed /\ in'.errno = in.errno
           /\ Mute => Mute'
           /\ UNCHANGED <<at, req, pend, want, wire, server, got, clean, replies>>
<1>1. nest.k = "values" /\ UNCHANGED <<at, req, pend, want, wire, server, got, clean>>
  BY ReadValuesSteps
<1>2. in \in Readers /\ nest \in NestSet /\ in.avail > 0 /\ in.buf # <<>> /\ 1 \in Nat /\ 1 <= in.avail
  BY FirstUnit DEF Typed, ReaderOK, ValuesTakes
<1>3. nest'.k = "values"
  BY <1>1, <1>2 DEF NestSet, ValuesTakes
<1>4. nest.pend = <<>> => nest'.pend = <<Value(in.buf[1])>> /\ nest'.vals = nest.vals
  BY <1>2 DEF NestSet, ValuesTakes
<1>5. nest.pend # <<>> => nest'.pend = <<>> /\ nest'.vals = Append(nest.vals, Value(in.buf[1]))
  BY <1>2 DEF NestSet, ValuesTakes
<1>6. /\ in' \in Readers /\ in'.buf = SubSeq(in.buf, 1 + 1, Len(in.buf)) /\ in'.avail = in.avail - 1
      /\ in'.hdr = in.hdr /\ in'.type = in.type /\ in'.eor = in.eor /\ in'.skip = in.skip
      /\ in'.contentLen = in.contentLen /\ in'.paddingLen = in.paddingLen
      /\ in'.closed = in.closed /\ in'.errno = in.errno
  BY <1>2, TakeFacts DEF ValuesTakes
<1>7. Mute => Mute'
  BY <1>1, <1>2, <1>6 DEF Mute
<1>8. replies' = replies
  BY DEF ValuesTakes
<1>9. nest.pend = <<>> => nest'.pend # <<>>
  <2>1. \A v : <<v>> # <<>>
    OBVIOUS
  <2> QED BY <1>4, <2>1, Zenon
<1> QED BY <1>1, <1>2, <1>3, <1>4, <1>5, <1>6, <1>7, <1>8, <1>9

LEMMA ValuesTakeFlags ==
    ASSUME Typed, ReadValues, ValuesTakes, NEW q \in Seq(Recs), NEW i \in 1..Len(q),
           At(in, wire, server, q, i), Flags(in, nest.k, q, i)
    PROVE  /\ At(in', wire', server', q, i) /\ Flags(in', nest'.k, q, i)
           /\ Whole(in) \in 1..Len(q[i].content) /\ Whole(in') = Whole(in) - 1
           /\ Value(in.buf[1]) = q[i].content[(Len(q[i].content) - Whole(in)) + 1]
           /\ Management(q[i])
<1>1. /\ nest'.k = "values" /\ nest.k = "values" /\ in \in Readers
      /\ in' \in Readers /\ in'.buf = SubSeq(in.buf, 1 + 1, Len(in.buf)) /\ in'.avail = in.avail - 1
      /\ in'.hdr = in.hdr /\ in'.type = in.type /\ in'.eor = in.eor /\ in'.skip = in.skip
      /\ in'.contentLen = in.contentLen /\ in'.paddingLen = in.paddingLen
      /\ in'.closed = in.closed /\ in'.errno = in.errno
      /\ UNCHANGED <<wire, server>>
  BY ValuesTakeFacts
<1>2. in.avail > 0
  BY DEF ValuesTakes
<1>3. At(in', wire, server, q, i)
  BY <1>1, <1>2, TakeOne
<1>4. Whole(in) \in 1..Len(q[i].content) /\ Whole(in') = Whole(in) - 1
  BY <1>1, <1>2, TakeOne
<1>5. ~Begin(q[i]) => Value(in.buf[1]) = q[i].content[(Len(q[i].content) - Whole(in)) + 1]
  BY <1>1, <1>2, TakeOne
<1>6. Management(q[i]) /\ ~Begin(q[i]) /\ ~in.skip /\ ~in'.skip
  BY <1>1 DEF Flags, Management
<1>7. Flags(in', nest'.k, q, i)
  BY <1>1, <1>6 DEF Flags
<1> QED BY <1>1, <1>3, <1>4, <1>5, <1>6, <1>7

LEMMA ManagementOther ==
    ASSUME NEW q, NEW p, NEW s, Spans(q, p, s), NEW i \in 1..Len(q), Management(q[i])
    PROVE  i \in 2..Len(q) /\ i - 1 \in 0..(Len(q) - 1) /\ \A t : ~Mine(q, i, t)
<1>1. q[1].id # 0 /\ Len(q) \in Nat
  BY TameFirst
<1>2. q[i].id = 0
  BY DEF Management
<1>3. i # 1
  BY <1>1, <1>2
<1> QED BY <1>1, <1>2, <1>3 DEF Mine

LEMMA ValuesTakeInStep ==
    ASSUME Typed, ReadValues, ValuesTakes, NEW q, NEW p, NEW s, Spans(q, p, s), NEW i \in 1..Len(q), InStep(q, p, s, i)
    PROVE  InStep(q, p, s, i)'
<1>0. q \in Seq(Recs) /\ q[i] \in Recs /\ in.avail > 0
  BY Bounds DEF ValuesTakes
<1>1. /\ nest \in NestSet /\ nest'.k = "values" /\ nest.k = "values"
      /\ nest.pend = <<>> => nest'.pend # <<>> /\ nest'.vals = nest.vals
      /\ nest.pend # <<>> => nest'.pend = <<>> /\ nest'.vals = Append(nest.vals, Value(in.buf[1]))
      /\ in'.type = in.type /\ in'.closed = in.closed /\ in'.errno = in.errno
      /\ UNCHANGED <<at, req, pend, want, wire, server, got, clean, replies>>
  BY ValuesTakeFacts
<1>2. /\ At(in', wire', server', q, i) /\ Flags(in', nest'.k, q, i)
      /\ Whole(in) \in 1..Len(q[i].content) /\ Whole(in') = Whole(in) - 1
      /\ Value(in.buf[1]) = q[i].content[(Len(q[i].content) - Whole(in)) + 1]
      /\ Management(q[i])
  BY <1>0, ValuesTakeFlags DEF InStep
<1>3. Accepted(q)'
  BY <1>1 DEF InStep, Accepted
<1>4. in'.errno = "0" /\ Replied(q, i)'
  BY <1>1 DEF InStep, Replied
<1>5. Place(q, p, s, i)'
  BY <1>1 DEF InStep, Place
<1>6. ~in.closed
  BY <1>1, <1>2 DEF InStep, Values
<1>7. Values(q, i)'
  <2> DEFINE c == q[i].content
             n == Len(c) - Whole(in)
             x == SubSeq(c, 1, n)
  <2>1. c \in Seq(Data) /\ Len(c) \in Nat
    BY <1>0, RecordShape
  <2>2. n \in 0..(Len(c) - 1) /\ Len(c) - Whole(in') = n + 1
    BY <1>2, <2>1, SMTT(30)
  <2>3. nest.vals = Texts(x) /\ (nest.pend = <<>> <=> Len(x) % 2 = 0)
    BY <1>1 DEF InStep, Values
  <2>4. Value(in.buf[1]) = c[n + 1]
    BY <1>2
  <2> HIDE DEF n, c
  <2>5. /\ x \in Seq(Data) /\ SubSeq(c, 1, n + 1) = Append(x, c[n + 1]) /\ c[n + 1] \in Data
    BY <2>1, <2>2, FirstStep
  <2> HIDE DEF x
  <2>6. /\ Len(x) % 2 = 0 => Texts(Append(x, c[n + 1])) = Texts(x) /\ Len(Append(x, c[n + 1])) % 2 # 0
        /\ Len(x) % 2 # 0 => Texts(Append(x, c[n + 1])) = Append(Texts(x), c[n + 1]) /\ Len(Append(x, c[n + 1])) % 2 = 0
    BY <2>5, TextsAppend
  <2>7. nest'.vals = Texts(SubSeq(c, 1, n + 1)) /\ (nest'.pend = <<>> <=> Len(SubSeq(c, 1, n + 1)) % 2 = 0)
    <3> DEFINE y == SubSeq(c, 1, n + 1)
    <3>1. y = Append(x, c[n + 1])
      BY <2>5
    <3> HIDE DEF y
    <3>2. CASE nest.pend = <<>>
      BY <1>1, <2>3, <2>6, <3>1, <3>2 DEF y
    <3>3. CASE nest.pend # <<>>
      BY <1>1, <2>3, <2>4, <2>6, <3>1, <3>3 DEF y
    <3> QED BY <3>2, <3>3
  <2>8. SubSeq(q[i].content, 1, Len(q[i].content) - Whole(in')) = SubSeq(c, 1, n + 1)
    BY <2>2 DEF c
  <2> QED BY <1>1, <1>6, <2>7, <2>8 DEF Values
<1>8. Heard(q, i)'
  <2>1. \A t : ~Mine(q, i, t)
    BY <1>2, ManagementOther
  <2>2. \A t : Passed(q, i, Whole(in'), t) = Passed(q, i, Whole(in), t)
    BY <2>1, PassedOther
  <2> QED BY <1>1, <2>2 DEF InStep, Heard
<1>9. Back(q, i)'
  BY <1>1 DEF Back
<1> QED BY <1>2, <1>3, <1>4, <1>5, <1>7, <1>8, <1>9 DEF InStep

LEMMA ValuesTakePhase ==
    ASSUME Typed, ReadValues, ValuesTakes, NEW q, NEW p, NEW s, Spans(q, p, s), Phase(q, p, s)
    PROVE  Phase(q, p, s)' /\ got' = got /\ replies' = replies
<1>0. /\ nest'.k = "values" /\ nest.k = "values" /\ in.avail > 0 /\ q \in Seq(Recs)
      /\ in'.type = in.type /\ in'.closed = in.closed /\ in'.errno = in.errno
      /\ UNCHANGED <<at, req, pend, want, wire, server, got, clean, replies>>
      /\ Mute => Mute'
  BY ValuesTakeFacts, Bounds DEF ValuesTakes
<1>1. ASSUME NEW i \in 1..Len(q), InStep(q, p, s, i) PROVE Phase(q, p, s)'
  BY <1>0, <1>1, ValuesTakeInStep DEF Phase
<1>2. ASSUME NEW i \in 1..Len(q), Straying(q, p, s, i) PROVE Phase(q, p, s)'
  <2>1. At(in, wire, server, q, i) /\ Flags(in, nest.k, q, i)
    BY <1>0, <1>2 DEF Straying
  <2>2. At(in', wire', server', q, i) /\ Flags(in', nest'.k, q, i)
    BY <1>0, <2>1, ValuesTakeFlags
  <2>3. Accepted(q)'
    BY <1>0, <1>2 DEF Straying, Accepted
  <2>4. Replied(q, i)' \/ Mute'
    BY <1>0, <1>2 DEF Straying, Replied
  <2>5. Straying(q, p, s, i)'
    BY <1>0, <1>2, <2>2, <2>3, <2>4 DEF Straying
  <2> QED BY <1>0, <2>5 DEF Phase
<1>3. CASE Final(q)
  BY <1>0, <1>3 DEF Final, Accepted, Phase
<1>4. ~Beginning(q)
  BY <1>0, Zenon DEF Beginning
<1>5. ASSUME NEW i \in 1..Len(q), Halted(q, p, s, i) PROVE FALSE
  BY <1>0, <1>5 DEF Halted
<1> QED BY <1>0, <1>1, <1>2, <1>3, <1>4, <1>5 DEF Phase

(* All of FCGI_GET_VALUES is read.                                          *)
LEMMA ValuesWhole ==
    ASSUME Typed, NEW q, NEW p, NEW s, Spans(q, p, s), NEW i \in 1..Len(q), InStep(q, p, s, i),
           nest.k = "values", in.closed
    PROVE  /\ Management(q[i]) /\ q[i].type = "GET_VALUES" /\ ~in.skip
           /\ Whole(in) = 0 /\ in.contentLen = 0 /\ in.paddingLen = 0
           /\ nest.vals = Texts(q[i].content) /\ nest.pend = <<>> /\ Fits(nest.vals)
<1>0. in \in Readers /\ q \in Seq(Recs) /\ q[i] \in Recs
  BY Bounds DEF Typed, ReaderOK
<1>1. Management(q[i]) /\ q[i].type = "GET_VALUES" /\ ~in.skip
  BY DEF InStep, Flags
<1>2. Whole(in) = 0 /\ in.paddingLen = 0
  BY DEF InStep, Values
<1>3. in.contentLen = 0
  BY <1>0, <1>2 DEF Whole, Readers
<1>4. i \in 2..Len(q)
  BY <1>1, ManagementOther
<1>5. Len(q[i].content) % 2 = 0 /\ Fits(Texts(q[i].content))
  BY <1>1, <1>4, OtherRecord
<1>6. SubSeq(q[i].content, 1, Len(q[i].content) - Whole(in)) = q[i].content
  <2>1. q[i].content \in Seq(Data) /\ Len(q[i].content) \in Nat
    BY <1>0, RecordShape
  <2>2. Len(q[i].content) - Whole(in) = Len(q[i].content)
    BY <1>2, <2>1
  <2> QED BY <2>1, <2>2
<1>7. nest.vals = Texts(q[i].content) /\ (nest.pend = <<>> <=> Len(q[i].content) % 2 = 0)
  BY <1>6 DEF InStep, Values
<1> QED BY <1>1, <1>2, <1>3, <1>5, <1>7

LEMMA ValuesAnswerInStep ==
    ASSUME Typed, ReadValues, ValuesAnswer, NEW q, NEW p, NEW s, Spans(q, p, s), NEW i \in 1..Len(q), InStep(q, p, s, i)
    PROVE  InStep(q, p, s, i)' /\ SoFar(got', replies', q)
<1>0. q \in Seq(Recs) /\ q[i] \in Recs /\ Len(q) \in Nat /\ in \in Readers
  BY Bounds DEF Typed, ReaderOK
<1>1. /\ nest.k = "values" /\ UNCHANGED <<at, req, pend, want, wire, server, got, clean>>
      /\ in.avail = 0 /\ in.closed /\ nest' = NoNest /\ in.errno = "0" /\ in' = Unnested /\ fill' = TRUE
      /\ replies' = Append(replies, [type |-> "GET_VALUES_RESULT", id |-> 0, vals |-> ValuesResult(nest.vals)])
  BY ReadValuesSteps DEF ValuesAnswer
<1>2. nest'.k = "none"
  BY <1>1, NestFacts
<1>3. /\ ~in'.eor /\ ~in'.closed /\ in'.buf = in.buf /\ in'.hdr = in.hdr /\ in'.avail = in.avail
      /\ in'.type = in.type /\ in'.skip = in.skip
      /\ in'.contentLen = in.contentLen /\ in'.paddingLen = in.paddingLen /\ in'.errno = in.errno
  BY <1>1, UnnestedFacts
<1>4. /\ Management(q[i]) /\ q[i].type = "GET_VALUES" /\ ~in.skip
      /\ Whole(in) = 0 /\ in.paddingLen = 0 /\ nest.vals = Texts(q[i].content)
  BY <1>1, ValuesWhole
<1>5. Whole(in') = Whole(in)
  BY <1>3 DEF Whole
<1>6. At(in', wire', server', q, i)
  <2>1. SameUnits(in, wire, in', wire')
    BY <1>1, <1>3, SameParts
  <2> QED BY <1>1, <1>3, <1>5, <2>1, AtMoved DEF InStep
<1>7. Flags(in', nest'.k, q, i)
  BY <1>2, <1>3, <1>4, <1>5 DEF Flags
<1>8. Accepted(q)'
  BY <1>1, <1>2, <1>3 DEF InStep, Accepted
<1>9. Replied(q, i)'
  <2>1. i - 1 \in 0..(Len(q) - 1) /\ (i - 1) + 1 = i
    BY <1>0, <1>4, ManagementOther
  <2>2. replies = AnswersPast(q, i - 1)
    BY <1>1 DEF InStep, Replied
  <2>3. Answered(q[i], q[1].id)
    BY <1>4 DEF Answered
  <2> DEFINE m == i - 1
  <2>4. m \in 0..(Len(q) - 1) /\ m + 1 = i
    BY <2>1
  <2> HIDE DEF m
  <2>5. AnswersPast(q, m + 1) = IF Answered(q[m + 1], q[1].id)
                                THEN Append(AnswersPast(q, m), Answer(q[m + 1])) ELSE AnswersPast(q, m)
    BY <1>0, <2>4, AnswersNext
  <2>6. AnswersPast(q, i) = Append(AnswersPast(q, m), Answer(q[i]))
    BY <2>3, <2>4, <2>5
  <2>7. Answer(q[i]) = [type |-> "GET_VALUES_RESULT", id |-> 0, vals |-> ValuesResult(nest.vals)]
    BY <1>4, AnswerIs DEF Management
  <2>8. replies' = AnswersPast(q, i)
    BY <1>1, <2>2, <2>6, <2>7 DEF m
  <2> QED BY <1>2, <2>8 DEF Replied
<1>10. Place(q, p, s, i)'
  <2>1. i < Hi(q, p, s, in.type) /\ in.type \in Streams
    BY <1>1, NotAtEnd
  <2>2. Hi(q, p, s, in.type) \in Nat
    BY <2>1, Bounds
  <2>3. i # Hi(q, p, s, in.type)
    BY <2>1, <2>2
  <2> QED BY <1>3, <2>3 DEF InStep, Place
<1>11. Values(q, i)' /\ Back(q, i)'
  BY <1>1, <1>2 DEF Values, Back
<1>12. Heard(q, i)'
  BY <1>1, <1>5 DEF InStep, Heard
<1>13. InStep(q, p, s, i)'
  BY <1>1, <1>3, <1>6, <1>7, <1>8, <1>9, <1>10, <1>11, <1>12 DEF InStep
<1>14. SoFar(got', replies', q)
  <2>1. 0 \in 0..Len(q[i].content) /\ i \in 0..Len(q)
    BY <1>0, RecordShape
  <2>2. \A t \in {"STDIN", "DATA"} : got'[t] = Passed(q, i, 0, t)
    BY <1>4, <1>5, <1>12 DEF Heard
  <2>3. replies' = AnswersPast(q, i)
    BY <1>2, <1>9 DEF Replied
  <2> DEFINE m == i
  <2>4. m \in 0..Len(q) /\ replies' = AnswersPast(q, m)
    BY <2>1, <2>3
  <2> HIDE DEF m
  <2> QED BY <1>0, <2>1, <2>2, <2>4, ToldSo
<1> QED BY <1>13, <1>14

LEMMA ValuesFailPhase ==
    ASSUME Typed, ReadValues, ValuesFail, NEW q, NEW p, NEW s, Spans(q, p, s), Phase(q, p, s)
    PROVE  Phase(q, p, s)' /\ got' = got /\ replies' = replies
<1>0. /\ nest.k = "values" /\ UNCHANGED <<at, req, pend, want, wire, server, got, clean, replies>>
      /\ in.avail = 0 /\ in.closed /\ nest' = NoNest
      /\ nest.pend # <<>> \/ in.errno # "0" \/ in.contentLen # 0
      /\ in' = SetError(Unnested, IF nest.pend # <<>> THEN "PARAMS_ERROR" ELSE "PROTOCOL_ERROR")
  BY ReadValuesSteps DEF ValuesFail
<1>1. nest'.k = "none"
  BY <1>0, NestFacts
<1>2. /\ Unnested \in Readers /\ Unnested.buf = in.buf /\ Unnested.hdr = in.hdr /\ Unnested.avail = in.avail
      /\ Unnested.type = in.type /\ Unnested.errno = in.errno
  BY UnnestedFacts
<1>3. (IF nest.pend # <<>> THEN "PARAMS_ERROR" ELSE "PROTOCOL_ERROR") \in Errors \ {"0"}
  BY DEF Errors
<1>4. /\ in'.closed /\ in'.errno # "0" /\ in'.buf = in.buf /\ in'.hdr = in.hdr /\ in'.avail = 0 /\ in'.type = in.type
      /\ in.errno # "0" => in'.errno = in.errno
  BY <1>0, <1>2, <1>3, SetErrorFacts
<1>5. in.errno # "0" /\ Mute => Mute'
  BY <1>0, <1>4 DEF Mute
<1>6. ASSUME NEW i \in 1..Len(q), InStep(q, p, s, i) PROVE FALSE
  <2>1. nest.pend = <<>> /\ in.contentLen = 0
    BY <1>0, <1>6, ValuesWhole
  <2> QED BY <1>0, <1>6, <2>1 DEF InStep
<1>7. ASSUME NEW i \in 1..Len(q), Halted(q, p, s, i) PROVE Phase(q, p, s)'
  <2>1. Accepted(q)'
    BY <1>0, <1>1, <1>4, <1>7 DEF Halted, Accepted
  <2>2. Mute'
    BY <1>0, <1>5, <1>7 DEF Halted
  <2>3. Lost(in', wire', server', q, i)
    <3>1. SameUnits(in, wire, in', wire')
      BY <1>0, <1>4, SameParts
    <3> QED BY <1>0, <1>7, <3>1, LostMoved DEF Halted
  <2>4. Halted(q, p, s, i)'
    BY <1>0, <1>1, <1>4, <1>7, <2>1, <2>2, <2>3 DEF Halted
  <2> QED BY <1>0, <2>4 DEF Phase
<1>8. ASSUME NEW i \in 1..Len(q), Straying(q, p, s, i) PROVE FALSE
  BY <1>0, <1>8 DEF Straying
<1>9. CASE Final(q)
  BY <1>0, <1>1, <1>4, <1>9 DEF Final, Accepted, Phase
<1>10. ~Beginning(q)
  BY <1>0, Zenon DEF Beginning
<1> QED BY <1>0, <1>6, <1>7, <1>8, <1>9, <1>10 DEF Phase

LEMMA ValuesLostPhase ==
    ASSUME Typed, ReadValues, ValuesLost, NEW q, NEW p, NEW s, Spans(q, p, s), NEW i \in 1..Len(q), InStep(q, p, s, i)
    PROVE  Phase(q, p, s)' /\ got' = got /\ replies' = replies
<1>0. /\ nest.k = "values" /\ UNCHANGED <<at, req, pend, want, wire, server, got, clean, replies>>
      /\ in.avail = 0 /\ in.closed /\ nest' = NoNest /\ server.dead /\ in.errno = "0"
      /\ in' = SetError(Unnested, "OS_ERROR")
  BY ReadValuesSteps DEF ValuesLost
<1>1. nest'.k = "none"
  BY <1>0, NestFacts
<1>2. /\ Unnested \in Readers /\ Unnested.buf = in.buf /\ Unnested.hdr = in.hdr /\ Unnested.avail = in.avail
      /\ Unnested.type = in.type /\ Unnested.errno = in.errno
  BY UnnestedFacts
<1>3. "OS_ERROR" \in Errors \ {"0"}
  BY DEF Errors
<1>4. /\ in'.closed /\ in'.errno = "OS_ERROR" /\ in'.buf = in.buf /\ in'.hdr = in.hdr /\ in'.avail = 0 /\ in'.type = in.type
  BY <1>0, <1>2, <1>3, SetErrorFacts
<1>5. Mute' /\ in'.errno # "0"
  BY <1>0, <1>4 DEF Mute
<1>6. SameUnits(in, wire, in', wire')
  BY <1>0, <1>4, SameParts
<1> QED BY <1>0, <1>1, <1>4, <1>5, <1>6, InStepFails

LEMMA ReadValuesPhase ==
    ASSUME Typed, NEW q, NEW p, NEW s, Spans(q, p, s), Phase(q, p, s), SoFar(got, replies, q), ReadValues
    PROVE  Phase(q, p, s)' /\ SoFar(got', replies', q)
<1>0. /\ nest.k = "values" /\ UNCHANGED <<at, req, pend, want, wire, server, got, clean>>
  BY ReadValuesSteps
<1>1. CASE in.avail = 0 /\ ~in.closed /\ fill' = TRUE /\ UNCHANGED <<in, nest, replies>>
  <2>1. Moves
    BY <1>0, <1>1, Waiting
  <2> QED BY <2>1, PhaseMoves
<1>2. CASE ValuesTakes
  BY <1>2, ValuesTakePhase
<1>3. CASE ValuesFail
  BY <1>3, ValuesFailPhase
<1>4. CASE ValuesAnswer \/ ValuesLost
  <2>1. in.errno = "0"
    BY <1>4 DEF ValuesAnswer, ValuesLost
  <2>2. PICK i \in 1..Len(q) : InStep(q, p, s, i)
    <3>1. ~Beginning(q)
      BY <1>0, <2>1, Zenon DEF Beginning
    <3> QED BY <1>0, <2>1, <3>1 DEF Phase, Halted, Straying, Final
  <2>3. CASE ValuesAnswer
    BY <2>2, <2>3, ValuesAnswerInStep DEF Phase
  <2>4. CASE ValuesLost
    BY <2>2, <2>4, ValuesLostPhase
  <2> QED BY <1>4, <2>3, <2>4
<1> QED BY <1>1, <1>2, <1>3, <1>4, ReadValuesSteps

(* The request is accepted, or given up because the web server is gone.      *)
GoesOnOrDies(q, p, s) ==
    /\ UNCHANGED <<got, replies, server>>
    /\ \/ at' # "retry" /\ Phase(q, p, s)'
       \/ at' = "retry" /\ server.dead

LEMMA BegunInStep ==
    ASSUME Typed, NEW q, NEW p, NEW s, Spans(q, p, s), Fresh, nest.k = "none", req.begun, Whole(in) = 0,
           req.id = q[1].id, req.role = q[1].content[1].role, At(in, wire, server, q, 1),
           req' = [req EXCEPT !.params = <<req.role>>], in' = SetReaderType(in, "PARAMS"), at' = "params", pend' = <<>>,
           UNCHANGED <<fill, nest, wire, server, replies, got>>
    PROVE  InStep(q, p, s, 1)'
<1>0. /\ q \in Seq(Recs) /\ 1 \in 1..Len(q) /\ q[1] \in Recs /\ in \in Readers /\ req \in RequestSet /\ p \in Nat /\ 1 < p
      /\ "PARAMS" \in Streams
  BY Bounds, TameFirst DEF Typed, ReaderOK, Streams
<1>1. /\ in'.type = "PARAMS" /\ ~in'.eor /\ ~in'.skip /\ ~in'.closed /\ in'.contentLen = 0 /\ in'.paddingLen = 0
      /\ in'.avail = 0 /\ in'.buf = in.buf /\ in'.hdr = in.hdr /\ in'.errno = in.errno
  <2>1. "PARAMS" \in {"PARAMS", "STDIN", "DATA"}
    OBVIOUS
  <2> QED BY <1>0, <2>1, SetReaderTypeFacts
<1>2. in.paddingLen = 0 /\ in.errno = "0" /\ got = Nothing /\ replies = <<>>
  BY DEF Fresh
<1>3. /\ req'.begun /\ req'.id = q[1].id /\ req'.role = q[1].content[1].role /\ req'.params = <<req.role>>
  BY <1>0 DEF RequestSet
<1>4. Whole(in') = 0
  BY <1>1 DEF Whole
<1>5. At(in', wire', server', q, 1)
  <2>1. SameUnits(in, wire, in', wire')
    BY <1>1, SameParts
  <2> QED BY <1>1, <1>2, <1>4, <2>1, AtMoved
<1>6. Flags(in', nest'.k, q, 1)
  BY <1>1, <1>4 DEF Flags
<1>7. got'["STDIN"] = <<>> /\ got'["DATA"] = <<>>
  BY <1>2 DEF Nothing
<1>8. Accepted(q)'
  BY <1>1, <1>3, <1>7 DEF Accepted
<1>9. Replied(q, 1)'
  <2>1. ~Answered(q[1], q[1].id)
    BY TameFirst
  <2> DEFINE m == 0
  <2>2. m \in 0..(Len(q) - 1) /\ m + 1 = 1 /\ 0 \in 0..Len(q)
    BY <1>0
  <2>3. AnswersPast(q, m) = <<>>
    BY <1>0, <2>2, AnswersPrefix
  <2> HIDE DEF m
  <2>4. AnswersPast(q, m + 1) = IF Answered(q[m + 1], q[1].id)
                                THEN Append(AnswersPast(q, m), Answer(q[m + 1])) ELSE AnswersPast(q, m)
    BY <1>0, <2>2, AnswersNext
  <2>5. AnswersPast(q, 1) = <<>>
    BY <2>1, <2>2, <2>3, <2>4
  <2> QED BY <1>2, <2>5 DEF Replied
<1>10. Place(q, p, s, 1)'
  <2>1. Lo(p, s, "PARAMS") = 1 /\ Hi(q, p, s, "PARAMS") = p
    BY DEF Lo, Hi
  <2> QED BY <1>0, <1>1, <2>1 DEF Place
<1>11. Values(q, 1)' /\ Back(q, 1)'
  BY DEF Values, Back
<1>12. Heard(q, 1)'
  <2>1. ASSUME NEW t \in Streams PROVE Passed(q, 1, 0, t) = <<>>
    <3>1. \A j \in 1..1 : ~Mine(q, j, t)
      <4>1. ~Mine(q, 1, t)
        BY <2>1, TameFirst
      <4> QED BY <4>1
    <3>2. 0 \in 0..Len(q[1].content)
      BY <1>0, RecordShape
    <3> DEFINE i == 1
    <3>3. i \in 1..Len(q) /\ 0 \in 0..Len(q[i].content) /\ \A j \in 1..i : ~Mine(q, j, t)
      BY <1>0, <3>1, <3>2
    <3> HIDE DEF i
    <3>4. Passed(q, i, 0, t) = <<>>
      BY <1>0, <3>3, PassedNothing
    <3> QED BY <3>4 DEF i
  <2>2. Passed(q, 1, 0, "STDIN") = <<>> /\ Passed(q, 1, 0, "DATA") = <<>> /\ Passed(q, 1, 0, "PARAMS") = <<>>
    BY <2>1 DEF Streams
  <2>3. Texts(<<>>) = <<>>
    BY DEF Texts
  <2>4. <<req.role>> \o <<>> = <<req.role>> /\ Len(<<>>) % 2 = 0
    OBVIOUS
  <2>5. req'.params = <<req'.role>> \o Texts(Passed(q, 1, 0, "PARAMS"))
    BY <1>3, <2>2, <2>3, <2>4
  <2> QED BY <1>4, <1>7, <2>2, <2>4, <2>5 DEF Heard
<1> QED BY <1>1, <1>2, <1>5, <1>6, <1>8, <1>9, <1>10, <1>11, <1>12 DEF InStep

LEMMA BegunPhase ==
    ASSUME Typed, NEW q, NEW p, NEW s, Spans(q, p, s), Phase(q, p, s), Begun
    PROVE  GoesOnOrDies(q, p, s)
<1>0. at = "begin" /\ ~fill /\ nest.k = "none" /\ pend' = <<>> /\ UNCHANGED <<fill, nest, wire, server, replies, got>>
  BY DEF Begun, Requested
<1>1. \/ /\ req.begun /\ req.role \in Roles
         /\ req' = [req EXCEPT !.params = <<req.role>>]
         /\ in' = SetReaderType(in, "PARAMS")
         /\ at' = "params"
      \/ ~(req.begun /\ req.role \in Roles) /\ at' = "retry"
  BY DEF Begun
<1>2. Beginning(q)
  BY <1>0 DEF Phase, Final, InStep, Halted, Straying, Accepted
<1>3. \/ /\ Fresh /\ req.begun /\ Whole(in) = 0 /\ req.id = q[1].id
         /\ req.role = q[1].content[1].role /\ At(in, wire, server, q, 1)
      \/ ~req.begun /\ server.dead
  BY <1>0, <1>2, Zenon DEF Beginning
<1>4. 1 \in 1..Len(q) /\ q[1].content[1].role \in Roles
  BY TameFirst
<1>5. CASE ~req.begun /\ server.dead
  BY <1>0, <1>1, <1>5 DEF GoesOnOrDies
<1>6. CASE /\ Fresh /\ req.begun /\ Whole(in) = 0 /\ req.id = q[1].id
           /\ req.role = q[1].content[1].role /\ At(in, wire, server, q, 1)
  <2>1. req' = [req EXCEPT !.params = <<req.role>>] /\ in' = SetReaderType(in, "PARAMS") /\ at' = "params"
    BY <1>1, <1>4, <1>6
  <2>2. InStep(q, p, s, 1)'
    BY <1>0, <1>6, <2>1, BegunInStep
  <2> QED BY <1>0, <1>4, <2>1, <2>2 DEF GoesOnOrDies, Phase
<1> QED BY <1>3, <1>5, <1>6

(* What the caller may have is of its own stream, which has not ended.      *)
LEMMA AvailMine ==
    ASSUME Typed, NEW q, NEW p, NEW s, Spans(q, p, s), NEW i \in 1..Len(q), InStep(q, p, s, i),
           nest.k = "none", in.avail > 0
    PROVE  in.type \in Streams /\ Mine(q, i, in.type) /\ ~in.closed /\ ~in.skip /\ ~Begin(q[i]) /\ i > 1
<1>0. /\ in \in Readers /\ in.avail \in Nat /\ in.contentLen \in Nat /\ q \in Seq(Recs) /\ q[i] \in Recs
      /\ in.type \in Streams
  BY Bounds, SMTT(30) DEF Typed, ReaderOK, PlaceOK, InStep, Accepted, Readers, Streams
<1>1. Whole(in) > 0 /\ Whole(in) \in Nat
  BY <1>0 DEF Whole
<1>2. ~in.skip
  BY <1>0 DEF InStep, Flags
<1>3. ~in.closed
  <2>1. SUFFICES ASSUME in.closed PROVE FALSE
    OBVIOUS
  <2>2. i = Hi(q, p, s, in.type)
    BY <2>1 DEF InStep, Place
  <2>3. q[i].content = <<>>
    BY <1>0, <2>2, StreamEnd
  <2>4. Whole(in) <= Len(q[i].content)
    BY DEF InStep, At
  <2>5. Len(q[i].content) = 0
    BY <2>3
  <2> QED BY <1>1, <2>4, <2>5
<1>4. Mine(q, i, in.type)
  BY <1>1, <1>2, <1>3 DEF InStep, Flags
<1>5. i > 1
  <2>1. Lo(p, s, in.type) < i /\ Lo(p, s, in.type) \in 1..Len(q)
    BY <1>0, <1>4, StreamRecord, Bounds
  <2> QED BY <2>1
<1>6. ~Begin(q[i])
  BY <1>0, <1>4, <1>5, StreamRecord DEF Mine
<1> QED BY <1>0, <1>2, <1>3, <1>4, <1>5, <1>6

LEMMA ParamsTakeInStep ==
    ASSUME Typed, NEW q, NEW p, NEW s, Spans(q, p, s), NEW i \in 1..Len(q), InStep(q, p, s, i),
           at = "params", nest.k = "none", in.avail > 0, in' = Take(in, 1),
           pend' = IF pend = <<>> THEN <<Value(in.buf[1])>> ELSE <<>>,
           req' = IF pend = <<>> THEN req ELSE [req EXCEPT !.params = PutParam(@, Value(in.buf[1]))],
           UNCHANGED <<at, fill, nest, wire, server, replies, got>>
    PROVE  InStep(q, p, s, i)'
<1> DEFINE v == Value(in.buf[1])
           c == q[i].content
           k == Whole(in) - 1
           x == Passed(q, i, Whole(in), "PARAMS")
<1>0. /\ in \in Readers /\ q \in Seq(Recs) /\ q[i] \in Recs /\ in.type = "PARAMS" /\ req \in RequestSet
      /\ 1 \in Nat /\ 1 <= in.avail /\ c \in Seq(Data) /\ Len(c) \in Nat
  <2>1. q[i] \in Recs
    BY Bounds
  <2> QED BY <2>1, Bounds, FirstUnit, RecordShape DEF Typed, ReaderOK, PlaceOK
<1>1. Mine(q, i, "PARAMS") /\ ~in.closed /\ ~in.skip /\ ~Begin(q[i])
  BY <1>0, AvailMine
<1>2. /\ in' \in Readers /\ in'.buf = SubSeq(in.buf, 1 + 1, Len(in.buf)) /\ in'.avail = in.avail - 1
      /\ in'.hdr = in.hdr /\ in'.type = in.type /\ in'.eor = in.eor /\ in'.skip = in.skip
      /\ in'.contentLen = in.contentLen /\ in'.paddingLen = in.paddingLen
      /\ in'.closed = in.closed /\ in'.errno = in.errno
  BY <1>0, TakeFacts
<1>3. At(in, wire, server, q, i)
  BY DEF InStep
<1>4. At(in', wire', server', q, i)
  BY <1>0, <1>2, <1>3, TakeOne
<1>5. Whole(in) \in 1..Len(c) /\ Whole(in') = k
  BY <1>0, <1>2, <1>3, TakeOne
<1>6. v = c[(Len(c) - Whole(in)) + 1]
  BY <1>0, <1>1, <1>2, <1>3, TakeOne
<1>7. k \in Nat /\ k < Len(c) /\ k + 1 = Whole(in) /\ Len(c) - k = (Len(c) - Whole(in)) + 1
  BY <1>0, <1>5
<1>8. x \in Seq(Data) /\ v \in Data /\ Passed(q, i, k, "PARAMS") = Append(x, v)
  <2> HIDE DEF k
  <2>1. /\ Passed(q, i, k + 1, "PARAMS") \in Seq(Data) /\ q[i].content[Len(q[i].content) - k] \in Data
        /\ Passed(q, i, k, "PARAMS") = Append(Passed(q, i, k + 1, "PARAMS"), q[i].content[Len(q[i].content) - k])
    BY <1>0, <1>1, <1>7, PassedBack
  <2> QED BY <1>6, <1>7, <2>1
<1> HIDE DEF v, k, x
<1>9. /\ Texts(x) \in Seq(Data)
      /\ Len(x) % 2 = 0 => Texts(Append(x, v)) = Texts(x) /\ Len(Append(x, v)) % 2 # 0
      /\ Len(x) % 2 # 0 => Texts(Append(x, v)) = Append(Texts(x), v) /\ Len(Append(x, v)) % 2 = 0
  BY <1>8, TextsAppend
<1>10. req.params = <<req.role>> \o Texts(x) /\ (pend = <<>> <=> Len(x) % 2 = 0)
  BY DEF InStep, Heard, x
<1>11. /\ req'.begun = req.begun /\ req'.id = req.id /\ req'.role = req.role
       /\ pend = <<>> => req'.params = req.params
       /\ pend # <<>> => req'.params = Append(req.params, v)
  BY <1>0 DEF RequestSet, PutParam, v
<1>12. req'.params = <<req'.role>> \o Texts(Append(x, v))
  <2>1. CASE pend = <<>>
    BY <1>9, <1>10, <1>11, <2>1
  <2>2. CASE pend # <<>>
    <3>1. Append(<<req.role>> \o Texts(x), v) = <<req.role>> \o Append(Texts(x), v)
      BY <1>8, <1>9
    <3> QED BY <1>9, <1>10, <1>11, <2>2, <3>1
  <2> QED BY <2>1, <2>2
<1>13. pend' = <<>> <=> Len(Append(x, v)) % 2 = 0
  <2>1. <<v>> # <<>>
    OBVIOUS
  <2>2. CASE pend = <<>>
    BY <1>9, <1>10, <2>1, <2>2 DEF v
  <2>3. CASE pend # <<>>
    BY <1>9, <1>10, <2>3
  <2> QED BY <2>2, <2>3
<1>14. Accepted(q)'
  BY <1>2, <1>11 DEF InStep, Accepted
<1>15. Replied(q, i)' /\ Place(q, p, s, i)' /\ Values(q, i)' /\ Back(q, i)'
  BY <1>2 DEF InStep, Replied, Place, Values, Back
<1>16. Flags(in', nest'.k, q, i)
  BY <1>0, <1>1, <1>2 DEF InStep, Flags
<1>17. Heard(q, i)'
  <2>1. ASSUME NEW t \in {"STDIN", "DATA"} PROVE got'[t] = Passed(q, i, Whole(in'), t)
    <3>1. ~Mine(q, i, t)
      BY <1>1 DEF Mine
    <3>2. Passed(q, i, Whole(in'), t) = Passed(q, i, Whole(in), t)
      BY <3>1, PassedOther
    <3> QED BY <2>1, <3>2 DEF InStep, Heard
  <2>2. Passed(q, i, Whole(in'), "PARAMS") = Append(x, v)
    BY <1>5, <1>8
  <2> QED BY <1>12, <1>13, <2>1, <2>2 DEF Heard
<1> QED BY <1>2, <1>4, <1>14, <1>15, <1>16, <1>17 DEF InStep

(* The end of FCGI_PARAMS: all of them were read.                           *)
LEMMA ParamsWhole ==
    ASSUME Typed, NEW q, NEW p, NEW s, Spans(q, p, s), NEW i \in 1..Len(q), InStep(q, p, s, i), i >= p
    PROVE  req.params = <<req.role>> \o Texts(Content(q, "PARAMS"))
           /\ (at = "params" => pend = <<>>)
<1>0. /\ in \in Readers /\ q \in Seq(Recs) /\ q[i] \in Recs /\ p \in Nat /\ Whole(in) \in Nat
      /\ Whole(in) <= Len(q[i].content) /\ Len(q[i].content) \in Nat /\ "PARAMS" \in Streams
  <2>1. q \in Seq(Recs) /\ q[i] \in Recs /\ p \in Nat
    BY Bounds
  <2>2. Len(q[i].content) \in Nat
    BY <2>1, RecordShape
  <2>3. in \in Readers
    BY DEF Typed, ReaderOK
  <2>4. Whole(in) \in Nat
    BY <2>3, WholeType
  <2>5. Whole(in) <= Len(q[i].content)
    BY DEF InStep, At
  <2> QED BY <2>1, <2>2, <2>3, <2>4, <2>5 DEF Streams
<1>1. Hi(q, p, s, "PARAMS") = p
  BY DEF Hi
<1>2. \A j \in 1..Len(q) : Mine(q, j, "PARAMS") => j <= p
  BY <1>0, <1>1, StreamRecord
<1>3. \A j \in (i + 1)..Len(q) : Mine(q, j, "PARAMS") => q[j].content = <<>>
  <2>1. ASSUME NEW j \in (i + 1)..Len(q) PROVE ~Mine(q, j, "PARAMS")
    <3>1. j \in 1..Len(q) /\ ~(j <= p)
      BY <1>0
    <3> QED BY <1>2, <3>1
  <2> QED BY <2>1
<1>4. Mine(q, i, "PARAMS") => Whole(in) = 0
  <2>1. SUFFICES ASSUME Mine(q, i, "PARAMS") PROVE Whole(in) = 0
    OBVIOUS
  <2>2. i = p
    BY <1>0, <1>2, <2>1
  <2>3. q[i].content = <<>>
    BY <1>0, <1>1, <2>2, StreamEnd
  <2>4. Len(q[i].content) = 0
    BY <2>3
  <2> QED BY <1>0, <2>4
<1>5. Passed(q, i, Whole(in), "PARAMS") = Content(q, "PARAMS")
  <2>1. Whole(in) \in 0..Len(q[i].content)
    BY <1>0
  <2> QED BY <1>0, <1>3, <1>4, <2>1, PassedWhole
<1>6. Len(Content(q, "PARAMS")) % 2 = 0
  BY TameFirst
<1> QED BY <1>5, <1>6 DEF InStep, Heard

(* SetReaderType for the next stream, at the end of one.                    *)
LEMMA SwitchInStep ==
    ASSUME Typed, NEW q, NEW p, NEW s, Spans(q, p, s), NEW i \in 1..Len(q), InStep(q, p, s, i),
           nest.k = "none", in.closed, NEW t \in {"STDIN", "DATA"},
           i = Lo(p, s, t), i < Hi(q, p, s, t), in' = SetReaderType(in, t), at' = "app",
           t = "DATA" => req.role = "FILTER", got[t] = <<>>, t = "STDIN" => got["DATA"] = <<>>,
           UNCHANGED <<fill, nest, req, wire, server, replies, got>>
    PROVE  InStep(q, p, s, i)'
<1>0. /\ in \in Readers /\ q \in Seq(Recs) /\ q[i] \in Recs /\ in.type \in Streams
      /\ Whole(in) \in Nat /\ in.paddingLen \in Nat /\ t \in {"PARAMS", "STDIN", "DATA"}
  BY Bounds, WholeType, SMTT(30) DEF Typed, ReaderOK, PlaceOK, InStep, Accepted, Readers, Streams
<1>1. i = Hi(q, p, s, in.type)
  BY DEF InStep, Place
<1>2. q[i].content = <<>> /\ q[i].pad = 0
  BY <1>0, <1>1, StreamEnd
<1>3. Whole(in) = 0 /\ in.paddingLen = 0
  <2>1. Len(q[i].content) = 0
    BY <1>2
  <2> QED BY <1>0, <1>2, <2>1 DEF InStep, At
<1>4. /\ in'.type = t /\ ~in'.eor /\ ~in'.skip /\ ~in'.closed /\ in'.contentLen = 0 /\ in'.paddingLen = 0
      /\ in'.avail = 0 /\ in'.buf = in.buf /\ in'.hdr = in.hdr /\ in'.errno = in.errno
  BY <1>0, SetReaderTypeFacts
<1>5. Whole(in') = 0
  BY <1>4 DEF Whole
<1>6. At(in', wire', server', q, i)
  <2>1. SameUnits(in, wire, in', wire')
    BY <1>4, SameParts
  <2> QED BY <1>3, <1>4, <1>5, <2>1, AtMoved DEF InStep
<1>7. Flags(in', nest'.k, q, i)
  BY <1>4, <1>5 DEF Flags
<1>8. Accepted(q)'
  BY <1>4 DEF InStep, Accepted
<1>9. Replied(q, i)' /\ Values(q, i)'
  BY DEF InStep, Replied, Values
<1>10. Place(q, p, s, i)'
  <2>1. Hi(q, p, s, t) \in Nat
    BY Bounds DEF Streams
  <2>2. i <= Hi(q, p, s, t) /\ i # Hi(q, p, s, t) /\ Lo(p, s, t) <= i
    BY <2>1
  <2> QED BY <1>4, <2>2 DEF Place
<1>11. Heard(q, i)'
  BY <1>3, <1>5 DEF InStep, Heard
<1>12. Back(q, i)'
  BY <1>4 DEF Back
<1> QED BY <1>4, <1>6, <1>7, <1>8, <1>9, <1>10, <1>11, <1>12 DEF InStep

LEMMA SwitchHalted ==
    ASSUME Typed, NEW q, NEW p, NEW s, Spans(q, p, s), NEW i \in 1..Len(q), Halted(q, p, s, i),
           nest.k = "none", NEW t \in {"STDIN", "DATA"},
           i < Lo(p, s, t), in' = SetReaderType(in, t), at' = "app",
           t = "DATA" => req.role = "FILTER", got[t] = <<>>, t = "STDIN" => got["DATA"] = <<>> /\ Mute,
           Replied(q, i) \/ Mute,
           UNCHANGED <<fill, nest, req, wire, server, replies, got>>
    PROVE  Straying(q, p, s, i)'
<1>0. in \in Readers /\ t \in {"PARAMS", "STDIN", "DATA"}
  BY DEF Typed, ReaderOK
<1>4. /\ in'.type = t /\ ~in'.eor /\ ~in'.skip /\ ~in'.closed /\ in'.contentLen = 0 /\ in'.paddingLen = 0
      /\ in'.avail = 0 /\ in'.buf = in.buf /\ in'.hdr = in.hdr /\ in'.errno = in.errno
  BY <1>0, SetReaderTypeFacts
<1>5. Whole(in') = 0
  BY <1>4 DEF Whole
<1>6. Lost(in', wire', server', q, i)
  <2>1. SameUnits(in, wire, in', wire')
    BY <1>4, SameParts
  <2> QED BY <2>1, LostMoved DEF Halted
<1>7. Accepted(q)'
  BY <1>4 DEF Halted, Accepted
<1>8. Mute => Mute'
  BY <1>4 DEF Mute
<1>9. Replied(q, i)' \/ Mute'
  BY <1>8 DEF Replied
<1> QED BY <1>4, <1>5, <1>6, <1>7, <1>8, <1>9 DEF Halted, Straying

LEMMA ReadParamsPhase ==
    ASSUME Typed, NEW q, NEW p, NEW s, Spans(q, p, s), Phase(q, p, s), ReadParams
    PROVE  GoesOnOrDies(q, p, s)
<1>0. /\ at = "params" /\ ~fill /\ nest.k = "none" /\ in.type = "PARAMS" /\ in \in Readers
      /\ UNCHANGED <<nest, want, wire, server, replies, got, clean>>
  BY DEF ReadParams, Requested, Typed, ReaderOK, PlaceOK
<1>1. \/ in.avail = 0 /\ ~in.closed /\ fill' = TRUE /\ UNCHANGED <<at, in, req, pend>>
      \/ /\ in.avail > 0 /\ in' = Take(in, 1)
         /\ pend' = IF pend = <<>> THEN <<Value(in.buf[1])>> ELSE <<>>
         /\ req' = IF pend = <<>> THEN req ELSE [req EXCEPT !.params = PutParam(@, Value(in.buf[1]))]
         /\ UNCHANGED <<at, fill>>
      \/ /\ in.avail = 0 /\ in.closed
         /\ \/ pend # <<>> /\ at' = "retry"
            \/ pend = <<>> /\ at' = "app" /\ in' = SetReaderType(in, "STDIN")
         /\ pend' = <<>> /\ UNCHANGED <<fill, req>>
  BY DEF ReadParams
<1>2. PICK i \in 1..Len(q) : InStep(q, p, s, i) \/ Halted(q, p, s, i)
  <2>1. ~Beginning(q)
    BY <1>0, Zenon DEF Beginning, Fresh
  <2> QED BY <1>0, <2>1 DEF Phase, Straying, Final
<1>3. 1 < p /\ p < s /\ s <= Len(q) /\ Len(q) \in Nat /\ p \in Nat /\ s \in Nat
  BY Bounds
<1>4. Lo(p, s, "STDIN") = p /\ Hi(q, p, s, "STDIN") = s /\ Hi(q, p, s, "PARAMS") = p
  BY DEF Lo, Hi
<1>5. Accepted(q)
  BY <1>2 DEF InStep, Halted
<1>6. got["STDIN"] = <<>> /\ got["DATA"] = <<>>
  BY <1>0, <1>5 DEF Accepted
<1>7. CASE in.avail = 0 /\ ~in.closed /\ fill' = TRUE /\ UNCHANGED <<at, in, req, pend>>
  <2>1. Moves
    BY <1>0, <1>7, Waiting
  <2> QED BY <1>0, <1>7, <2>1, PhaseMoves DEF GoesOnOrDies
<1>8. CASE /\ in.avail > 0 /\ in' = Take(in, 1)
           /\ pend' = IF pend = <<>> THEN <<Value(in.buf[1])>> ELSE <<>>
           /\ req' = IF pend = <<>> THEN req ELSE [req EXCEPT !.params = PutParam(@, Value(in.buf[1]))]
           /\ UNCHANGED <<at, fill>>
  <2>1. InStep(q, p, s, i)
    BY <1>0, <1>2, <1>8 DEF Halted
  <2>2. InStep(q, p, s, i)'
    BY <1>0, <1>8, <2>1, ParamsTakeInStep
  <2> QED BY <1>0, <1>8, <2>2 DEF GoesOnOrDies, Phase
<1>9. CASE /\ in.avail = 0 /\ in.closed
           /\ \/ pend # <<>> /\ at' = "retry"
              \/ pend = <<>> /\ at' = "app" /\ in' = SetReaderType(in, "STDIN")
           /\ pend' = <<>> /\ UNCHANGED <<fill, req>>
  <2>1. CASE InStep(q, p, s, i)
    <3>1. i = p
      BY <1>0, <1>4, <1>9, <2>1 DEF InStep, Place
    <3>2. pend = <<>>
      <4>1. i >= p
        BY <1>3, <3>1
      <4> QED BY <1>0, <2>1, <4>1, ParamsWhole
    <3>3. at' = "app" /\ in' = SetReaderType(in, "STDIN")
      BY <1>9, <3>2
    <3>4. i = Lo(p, s, "STDIN") /\ i < Hi(q, p, s, "STDIN")
      BY <1>3, <1>4, <3>1
    <3>5. InStep(q, p, s, i)'
      BY <1>0, <1>6, <1>9, <2>1, <3>3, <3>4, SwitchInStep
    <3> QED BY <1>0, <3>3, <3>5 DEF GoesOnOrDies, Phase
  <2>2. CASE Halted(q, p, s, i)
    <3>1. Mute /\ i < Lo(p, s, "STDIN")
      BY <1>0, <1>4, <2>2 DEF Halted
    <3>2. CASE pend # <<>>
      BY <1>0, <1>9, <3>1, <3>2 DEF GoesOnOrDies, Mute
    <3>3. CASE pend = <<>>
      <4>1. at' = "app" /\ in' = SetReaderType(in, "STDIN")
        BY <1>9, <3>3
      <4>2. Straying(q, p, s, i)'
        BY <1>0, <1>6, <1>9, <2>2, <3>1, <4>1, SwitchHalted
      <4> QED BY <1>0, <4>1, <4>2 DEF GoesOnOrDies, Phase
    <3> QED BY <3>2, <3>3
  <2> QED BY <1>2, <2>1, <2>2
<1> QED BY <1>1, <1>7, <1>8, <1>9

(* Nothing is available to a reader that has lost its stream.               *)
LEMMA StrayingEmpty ==
    ASSUME Typed, NEW q, NEW p, NEW s, Spans(q, p, s), NEW i \in 1..Len(q), Straying(q, p, s, i), nest.k = "none"
    PROVE  in.avail = 0
<1>0. /\ in \in Readers /\ in.avail \in Nat /\ in.contentLen \in Nat /\ ~in.closed /\ in.type \in Streams
      /\ Lo(p, s, in.type) \in Nat /\ i \in Nat /\ i < Lo(p, s, in.type)
  <2>1. in.type \in Streams
    BY DEF Typed, PlaceOK, Streams, Straying
  <2> QED BY <2>1, Bounds DEF Typed, ReaderOK, Readers, Straying
<1>1. SUFFICES ASSUME in.avail > 0 PROVE FALSE
  BY <1>0
<1>2. Whole(in) > 0
  BY <1>0, <1>1 DEF Whole
<1>3. Flags(in, nest.k, q, i)
  BY <1>2 DEF Straying
<1>4. ~in.skip
  BY <1>0, <1>1, <1>3 DEF Flags
<1>5. Mine(q, i, in.type)
  BY <1>0, <1>2, <1>3, <1>4 DEF Flags
<1>6. Lo(p, s, in.type) < i
  BY <1>0, <1>5, StreamRecord
<1> QED BY <1>0, <1>6

LEMMA ReadingNothing ==
    ASSUME Typed, Reading, Taken = 0
    PROVE  Moves
<1>0. /\ in \in Readers /\ got \in [{"STDIN", "DATA"} -> Seq(Data)] /\ in.type \in {"STDIN", "DATA"}
      /\ in.buf \in Seq(UnitSet) /\ in.avail \in Nat /\ in.unget \in Nat
  BY ReadingFacts DEF Typed, OtherOK, ReaderOK, PlaceOK, Readers
<1>1. /\ 0 \in Nat /\ 0 <= in.avail /\ in' = Take(in, 0)
      /\ got' = [got EXCEPT ![in.type] = @ \o [i \in 1..Taken |-> Value(in.buf[i])]]
      /\ at = "read" /\ at' \in {"app", "read"} /\ ~fill /\ nest.k = "none"
      /\ UNCHANGED <<nest, req, pend, wire, server, replies, clean>>
  BY <1>0, ReadingFacts
<1>2. /\ in'.buf = SubSeq(in.buf, 0 + 1, Len(in.buf)) /\ in'.avail = in.avail - 0 /\ in'.unget = in.unget + 0
      /\ in'.hdr = in.hdr /\ in'.type = in.type /\ in'.eor = in.eor /\ in'.skip = in.skip
      /\ in'.contentLen = in.contentLen /\ in'.paddingLen = in.paddingLen
      /\ in'.closed = in.closed /\ in'.errno = in.errno
  BY <1>0, <1>1, TakeFacts
<1>3. in'.buf = in.buf /\ in'.avail = in.avail /\ in'.unget = in.unget
  BY <1>0, <1>2
<1>4. SameFields(in, in')
  BY <1>2, <1>3 DEF SameFields
<1>5. SameUnits(in, wire, in', wire')
  BY <1>1, <1>2, <1>3, SameParts
<1>6. got' = got
  <2> DEFINE y == [i \in 1..Taken |-> Value(in.buf[i])]
  <2>1. y = <<>>
    OBVIOUS
  <2> HIDE DEF y
  <2>2. got[in.type] \o y = got[in.type]
    BY <1>0, <2>1
  <2>3. got' = [got EXCEPT ![in.type] = got[in.type] \o y]
    BY <1>1 DEF y
  <2>4. [got EXCEPT ![in.type] = got[in.type]] = got
    BY <1>0
  <2> QED BY <2>2, <2>3, <2>4
<1>7. Mute => Mute'
  BY <1>1, <1>2, <1>3 DEF Mute
<1> QED BY <1>1, <1>4, <1>5, <1>6, <1>7 DEF Moves

LEMMA ReadingInStep ==
    ASSUME Typed, Reading, Taken > 0, NEW q, NEW p, NEW s, Spans(q, p, s), NEW i \in 1..Len(q), InStep(q, p, s, i)
    PROVE  InStep(q, p, s, i)' /\ SoFar(got', replies', q)
<1> DEFINE n == Taken
           y == [j \in 1..n |-> Value(in.buf[j])]
           c == q[i].content
<1>0. /\ in \in Readers /\ got \in [{"STDIN", "DATA"} -> Seq(Data)] /\ in.type \in {"STDIN", "DATA"}
      /\ wire \in Seq(UnitSet) /\ in.avail \in Nat /\ in.contentLen \in Nat /\ in.avail <= Len(in.buf) /\ Len(in.buf) \in Nat
      /\ in.unget \in Nat /\ q \in Seq(Recs) /\ q[i] \in Recs /\ Len(q) \in Nat
  <2>1. at = "read"
    BY ReadingFacts
  <2>2. in \in Readers /\ in.avail <= Len(in.buf) /\ got \in [{"STDIN", "DATA"} -> Seq(Data)] /\ wire \in Seq(UnitSet)
    BY DEF Typed, OtherOK, ReaderOK
  <2>3. in.type \in {"STDIN", "DATA"}
    BY <2>1 DEF Typed, PlaceOK
  <2>4. in.avail \in Nat /\ in.contentLen \in Nat /\ Len(in.buf) \in Nat /\ in.unget \in Nat
    BY <2>2 DEF Readers
  <2>5. q \in Seq(Recs) /\ Len(q) \in Nat
    BY Bounds
  <2>6. q[i] \in Recs
    BY <2>5
  <2> QED BY <2>2, <2>3, <2>4, <2>5, <2>6
<1>1. /\ n \in Nat /\ n > 0 /\ n <= in.avail /\ in' = Take(in, n)
      /\ got' = [got EXCEPT ![in.type] = @ \o y] /\ y \in Seq(Data) /\ Len(y) = n
      /\ at = "read" /\ at' \in {"app", "read"} /\ ~fill /\ nest.k = "none"
      /\ UNCHANGED <<nest, req, pend, wire, server, replies, clean>>
  <2>1. n \in Nat /\ n > 0 /\ n <= in.avail /\ in' = Take(in, n)
    BY ReadingFacts
  <2>2. got' = [got EXCEPT ![in.type] = @ \o y] /\ y \in Seq(Data)
    BY ReadingFacts
  <2>3. at = "read" /\ at' \in {"app", "read"} /\ ~fill /\ nest.k = "none"
        /\ UNCHANGED <<nest, req, pend, wire, server, replies, clean>>
    BY ReadingFacts
  <2>4. DOMAIN y = 1..n
    OBVIOUS
  <2> HIDE DEF n, y
  <2>5. Len(y) = n
    BY <2>1, <2>2, <2>4
  <2> QED BY <2>1, <2>2, <2>3, <2>5
<1>2. \A j \in 1..n : y[j] = Value(in.buf[j])
  OBVIOUS
<1> HIDE DEF n, y
<1>3. in.avail > 0 /\ c \in Seq(Data) /\ Len(c) \in Nat
  BY <1>0, <1>1, RecordShape, SMTT(30)
<1>4. Mine(q, i, in.type) /\ ~in.closed /\ ~in.skip /\ ~Begin(q[i])
  BY <1>1, <1>3, AvailMine
<1>5. /\ in' \in Readers /\ in'.buf = SubSeq(in.buf, n + 1, Len(in.buf)) /\ in'.avail = in.avail - n
      /\ in'.unget = in.unget + n
      /\ in'.hdr = in.hdr /\ in'.type = in.type /\ in'.eor = in.eor /\ in'.skip = in.skip
      /\ in'.contentLen = in.contentLen /\ in'.paddingLen = in.paddingLen
      /\ in'.closed = in.closed /\ in'.errno = in.errno
  BY <1>0, <1>1, TakeFacts
<1>6. /\ Whole(in) \in Nat /\ n <= Whole(in) /\ Whole(in') = Whole(in) - n /\ n <= Len(in.buf)
  <2>1. n \in Nat /\ n <= in.avail /\ in'.avail = in.avail - n /\ in'.contentLen = in.contentLen
    BY <1>1, <1>5
  <2>2. Whole(in) = in.avail + in.contentLen /\ Whole(in') = in'.avail + in'.contentLen
    BY DEF Whole
  <2>3. Whole(in') = (in.avail - n) + in.contentLen
    BY <2>1, <2>2
  <2> QED BY <1>0, <2>1, <2>2, <2>3, SMTT(30)
<1>7. At(in, wire, server, q, i) /\ Whole(in) <= Len(c)
  BY DEF InStep, At
<1>8. At(in', wire, server, q, i)
  BY <1>0, <1>1, <1>5, <1>6, <1>7, AtTake
<1>9. Gives(in, q, i, n)
  BY <1>0, <1>1, <1>5, <1>6, <1>7, AtTake
<1>10. \A j \in 1..n : y[j] = c[(Len(c) - Whole(in)) + j]
  BY <1>2, <1>4, <1>9 DEF Gives
<1>11. Passed(q, i, Whole(in), in.type) \o y = Passed(q, i, Whole(in'), in.type)
  <2>1. Whole(in) \in 0..Len(c) /\ n \in 0..Whole(in)
    BY <1>1, <1>3, <1>6, <1>7
  <2> DEFINE t == in.type
             k == Whole(in)
  <2>2. Mine(q, i, t) /\ k \in 0..Len(q[i].content) /\ n \in 0..k /\ y \in Seq(Data) /\ Len(y) = n
        /\ \A j \in 1..n : y[j] = q[i].content[(Len(q[i].content) - k) + j]
    BY <1>1, <1>4, <1>10, <2>1
  <2>3. Whole(in') = k - n
    BY <1>6
  <2> HIDE DEF t, k
  <2>4. Passed(q, i, k, t) \o y = Passed(q, i, k - n, t)
    BY <1>0, <2>2, PassedMore
  <2> QED BY <2>3, <2>4 DEF t, k
<1>12. \A t : t # in.type => Passed(q, i, Whole(in'), t) = Passed(q, i, Whole(in), t)
  <2>1. \A t : t # in.type => ~Mine(q, i, t)
    BY <1>4 DEF Mine
  <2> QED BY <2>1, PassedOther
<1>13. /\ got'[in.type] = got[in.type] \o y
       /\ \A t \in {"STDIN", "DATA"} : t # in.type => got'[t] = got[t]
  BY <1>0, <1>1
<1>14. Heard(q, i)'
  <2>1. ASSUME NEW t \in {"STDIN", "DATA"} PROVE got'[t] = Passed(q, i, Whole(in'), t)
    <3>1. got[t] = Passed(q, i, Whole(in), t)
      BY DEF InStep, Heard
    <3>2. CASE t = in.type
      BY <1>11, <1>13, <3>1, <3>2
    <3>3. CASE t # in.type
      BY <1>12, <1>13, <3>1, <3>3
    <3> QED BY <3>2, <3>3
  <2>2. Passed(q, i, Whole(in'), "PARAMS") = Passed(q, i, Whole(in), "PARAMS")
    BY <1>0, <1>12
  <2> QED BY <1>1, <2>1, <2>2 DEF InStep, Heard
<1>15. Accepted(q)'
  BY <1>0, <1>1, <1>5, <1>13 DEF InStep, Accepted
<1>16. Replied(q, i)' /\ Place(q, p, s, i)' /\ Values(q, i)'
  BY <1>1, <1>5 DEF InStep, Replied, Place, Values
<1>17. Flags(in', nest'.k, q, i)
  BY <1>1, <1>4, <1>5 DEF InStep, Flags
<1>18. Back(q, i)'
  <2>1. in.unget <= Len(c) - Whole(in) /\ in.hdr = <<>>
    BY <1>1, <1>3, <1>4 DEF InStep, Back
  <2>2. in'.unget <= Len(c) - Whole(in')
    BY <1>0, <1>1, <1>3, <1>5, <1>6, <2>1, SMTT(30)
  <2> QED BY <1>4, <1>5, <2>1, <2>2 DEF Back
<1>19. InStep(q, p, s, i)'
  BY <1>1, <1>5, <1>8, <1>14, <1>15, <1>16, <1>17, <1>18 DEF InStep
<1>20. SoFar(got', replies', q)
  <2> DEFINE m == i
             k == Whole(in')
  <2>1. k \in 0..Len(q[i].content)
    BY <1>1, <1>3, <1>6, <1>7
  <2>2. m \in 0..Len(q) /\ replies' = AnswersPast(q, m)
    BY <1>0, <1>1, <1>16 DEF Replied
  <2>3. \A t \in {"STDIN", "DATA"} : got'[t] = Passed(q, i, k, t)
    BY <1>14 DEF Heard
  <2> HIDE DEF m, k
  <2> QED BY <1>0, <2>1, <2>2, <2>3, ToldSo
<1> QED BY <1>19, <1>20

LEMMA ReadingPhase ==
    ASSUME Typed, NEW q, NEW p, NEW s, Spans(q, p, s), Phase(q, p, s), SoFar(got, replies, q), Reading
    PROVE  Phase(q, p, s)' /\ SoFar(got', replies', q)
<1>0. Taken \in Nat /\ Taken <= in.avail /\ at = "read" /\ nest.k = "none" /\ in.avail \in Nat
  BY ReadingFacts DEF Typed, ReaderOK, Readers
<1>1. CASE Taken = 0
  BY <1>1, ReadingNothing, PhaseMoves
<1>2. CASE Taken > 0
  <2>1. ~in.closed /\ in.avail > 0
    BY <1>0, <1>2 DEF Taken
  <2>2. ~Beginning(q)
    BY <1>0, Zenon DEF Beginning, Fresh
  <2>3. ASSUME NEW i \in 1..Len(q), Straying(q, p, s, i) PROVE FALSE
    BY <1>0, <2>1, <2>3, StrayingEmpty
  <2>4. PICK i \in 1..Len(q) : InStep(q, p, s, i)
    BY <2>1, <2>2, <2>3 DEF Phase, Halted, Final
  <2> QED BY <1>2, <2>4, ReadingInStep DEF Phase
<1> QED BY <1>0, <1>1, <1>2

LEMMA ReadPhase ==
    ASSUME Typed, NEW q, NEW p, NEW s, Phase(q, p, s), NEW n, NEW line, Read(n, line)
    PROVE  Phase(q, p, s)' /\ got' = got /\ replies' = replies
<1>1. at = "app" /\ at' = "read" /\ UNCHANGED <<fill, nest, in, req, pend, wire, server, replies, got>>
  BY DEF Read, InHandler, Requested
<1>2. SameUnits(in, wire, in', wire') /\ SameFields(in, in')
  BY <1>1 DEF SameUnits, SameFields
<1>3. Mute => Mute'
  BY <1>1 DEF Mute
<1>4. Moves
  BY <1>1, <1>2, <1>3 DEF Moves
<1> QED BY <1>4, PhaseMoves

LEMMA UnGetInStep ==
    ASSUME Typed, FCGX_UnGetChar, NEW q, NEW p, NEW s, Spans(q, p, s), NEW i \in 1..Len(q), InStep(q, p, s, i)
    PROVE  InStep(q, p, s, i)' /\ SoFar(got', replies', q)
<1> DEFINE c == q[i].content
           k == Whole(in)
           g == got[in.type]
<1>0. /\ in \in Readers /\ got \in [{"STDIN", "DATA"} -> Seq(Data)] /\ in.type \in {"STDIN", "DATA"} /\ ~fill /\ nest.k = "none"
      /\ at = "app" /\ wire \in Seq(UnitSet) /\ in.avail \in Nat /\ in.contentLen \in Nat /\ in.unget \in Nat
  BY DEF Typed, OtherOK, ReaderOK, PlaceOK, Readers, FCGX_UnGetChar, InHandler
<1>1. /\ g # <<>> /\ ~in.closed /\ in.unget > 0
      /\ in' = [in EXCEPT !.buf = <<[u |-> "content", c |-> Last(g)]>> \o @, !.avail = @ + 1, !.unget = @ - 1]
      /\ got' = [got EXCEPT ![in.type] = Front(@)]
      /\ UNCHANGED <<at, fill, nest, req, pend, want, wire, server, replies, clean>>
  BY DEF FCGX_UnGetChar
<1>2. Typed' /\ in' \in Readers
  BY UnGetCharTyped DEF Typed, ReaderOK
<1>3. q \in Seq(Recs) /\ Len(q) \in Nat /\ in.type \in Streams
  BY <1>0, Bounds DEF Streams
<1>4. q[i] \in Recs
  BY <1>3
<1>5. c \in Seq(Data) /\ Len(c) \in Nat /\ k \in Nat
  BY <1>0, <1>4, RecordShape, SMTT(30) DEF Whole
<1>6. Mine(q, i, in.type) /\ in.unget <= Len(c) - k /\ in.hdr = <<>>
  BY <1>0, <1>1 DEF InStep, Back
<1>7. k < Len(c)
  BY <1>0, <1>1, <1>5, <1>6
<1>8. /\ in'.buf = <<[u |-> "content", c |-> Last(g)]>> \o in.buf /\ in'.avail = in.avail + 1
      /\ in'.unget = in.unget - 1
      /\ in'.hdr = in.hdr /\ in'.type = in.type /\ in'.eor = in.eor /\ in'.skip = in.skip
      /\ in'.contentLen = in.contentLen /\ in'.paddingLen = in.paddingLen
      /\ in'.closed = in.closed /\ in'.errno = in.errno
  BY <1>0, <1>1 DEF Readers
<1>9. Whole(in') = k + 1
  <2>1. Whole(in') = in'.avail + in'.contentLen /\ k = in.avail + in.contentLen
    BY DEF Whole
  <2>2. Whole(in') = (in.avail + 1) + in.contentLen
    BY <1>8, <2>1
  <2> QED BY <1>0, <2>1, <2>2
<1>10. ~Begin(q[i])
  <2>1. Lo(p, s, in.type) < i /\ Lo(p, s, in.type) \in 1..Len(q)
    BY <1>3, <1>6, StreamRecord, Bounds
  <2>2. i > 1
    BY <2>1
  <2> QED BY <1>3, <1>6, <2>2, StreamRecord DEF Mine
<1>11. g = Passed(q, i, k, in.type)
  BY <1>0 DEF InStep, Heard
<1> HIDE DEF k
<1>12. /\ Passed(q, i, k + 1, in.type) \in Seq(Data) /\ c[Len(c) - k] \in Data
       /\ g = Append(Passed(q, i, k + 1, in.type), c[Len(c) - k])
  <2> DEFINE t == in.type
  <2>1. Mine(q, i, t) /\ g = Passed(q, i, k, t)
    BY <1>6, <1>11
  <2> HIDE DEF t, g
  <2>2. /\ Passed(q, i, k + 1, t) \in Seq(Data) /\ q[i].content[Len(q[i].content) - k] \in Data
        /\ Passed(q, i, k, t) = Append(Passed(q, i, k + 1, t), q[i].content[Len(q[i].content) - k])
    BY <1>3, <1>5, <1>7, <2>1, PassedBack
  <2> QED BY <2>1, <2>2 DEF t
<1>13. Last(g) = c[Len(c) - k] /\ Front(g) = Passed(q, i, k + 1, in.type)
  <2> DEFINE a == Passed(q, i, k + 1, in.type)
             v == c[Len(c) - k]
  <2>1. a \in Seq(Data) /\ v \in Data /\ g = Append(a, v)
    BY <1>12
  <2> HIDE DEF a, v, g
  <2>2. Last(g) = v /\ Front(g) = a
    BY <2>1 DEF Last, Front
  <2> QED BY <2>2 DEF a, v
<1>14. At(in', wire', server', q, i)
  <2>1. in'.buf = <<[u |-> "content", c |-> q[i].content[Len(q[i].content) - k]]>> \o in.buf
    BY <1>8, <1>13
  <2>2. At(in, wire, server, q, i)
    BY DEF InStep
  <2>3. Whole(in) < Len(q[i].content) /\ Whole(in') = Whole(in) + 1 /\ in'.hdr = <<>>
    BY <1>6, <1>7, <1>8, <1>9 DEF k
  <2>4. in'.buf = <<[u |-> "content", c |-> q[i].content[Len(q[i].content) - Whole(in)]]>> \o in.buf
    BY <2>1 DEF k
  <2>5. At(in', wire, server, q, i)
    BY <1>0, <1>2, <1>3, <1>6, <1>8, <1>10, <2>2, <2>3, <2>4, AtUnget
  <2> QED BY <1>1, <2>5
<1>15. /\ got'[in.type] = Passed(q, i, k + 1, in.type)
       /\ \A t \in {"STDIN", "DATA"} : t # in.type => got'[t] = got[t]
  BY <1>0, <1>1, <1>13
<1>16. \A t : t # in.type => Passed(q, i, k + 1, t) = Passed(q, i, k, t)
  <2>1. \A t : t # in.type => ~Mine(q, i, t)
    BY <1>6 DEF Mine
  <2> QED BY <2>1, PassedOther
<1>17. Heard(q, i)'
  <2>1. ASSUME NEW t \in {"STDIN", "DATA"} PROVE got'[t] = Passed(q, i, Whole(in'), t)
    <3>1. got[t] = Passed(q, i, k, t)
      BY DEF InStep, Heard, k
    <3>2. CASE t = in.type
      BY <1>9, <1>15, <3>2
    <3>3. CASE t # in.type
      BY <1>9, <1>15, <1>16, <3>1, <3>3
    <3> QED BY <3>2, <3>3
  <2>2. Passed(q, i, Whole(in'), "PARAMS") = Passed(q, i, Whole(in), "PARAMS")
    BY <1>0, <1>9, <1>16 DEF k
  <2> QED BY <1>0, <1>1, <2>1, <2>2 DEF InStep, Heard
<1>18. Accepted(q)'
  BY <1>0, <1>1, <1>8, <1>15 DEF InStep, Accepted
<1>19. Replied(q, i)' /\ Place(q, p, s, i)' /\ Values(q, i)'
  BY <1>0, <1>1, <1>8 DEF InStep, Replied, Place, Values
<1>20. Flags(in', nest'.k, q, i)
  <2>1. ~in.skip
    BY <1>6 DEF InStep, Flags, Mine
  <2> QED BY <1>0, <1>1, <1>6, <1>8, <2>1 DEF InStep, Flags
<1>21. Back(q, i)'
  <2>1. in'.unget <= Len(c) - Whole(in')
    BY <1>0, <1>1, <1>5, <1>6, <1>8, <1>9, SMTT(30) DEF k
  <2> QED BY <1>6, <1>8, <2>1 DEF Back
<1>22. InStep(q, p, s, i)'
  BY <1>1, <1>8, <1>14, <1>17, <1>18, <1>19, <1>20, <1>21 DEF InStep
<1>23. SoFar(got', replies', q)
  <2> DEFINE m == i
             l == k + 1
  <2>1. l \in 0..Len(q[i].content)
    BY <1>5, <1>7 DEF k
  <2>2. m \in 0..Len(q) /\ replies' = AnswersPast(q, m)
    BY <1>0, <1>1, <1>3, <1>19 DEF Replied
  <2>3. \A t \in {"STDIN", "DATA"} : got'[t] = Passed(q, i, l, t)
    BY <1>9, <1>17 DEF Heard
  <2> HIDE DEF m, l
  <2> QED BY <1>3, <2>1, <2>2, <2>3, ToldSo
<1> QED BY <1>22, <1>23

LEMMA UnGetCharPhase ==
    ASSUME Typed, NEW q, NEW p, NEW s, Spans(q, p, s), Phase(q, p, s), FCGX_UnGetChar
    PROVE  Phase(q, p, s)' /\ SoFar(got', replies', q)
<1>1. at = "app" /\ got[in.type] # <<>> /\ ~in.closed
  BY DEF FCGX_UnGetChar, InHandler
<1>2. ~Beginning(q)
  BY <1>1, Zenon DEF Beginning, Fresh
<1>3. PICK i \in 1..Len(q) : InStep(q, p, s, i)
  BY <1>1, <1>2 DEF Phase, Halted, Straying, Final
<1> QED BY <1>3, UnGetInStep DEF Phase

LEMMA StartFilterDataPhase ==
    ASSUME Typed, NEW q, NEW p, NEW s, Spans(q, p, s), Phase(q, p, s), FCGX_StartFilterData
    PROVE  Phase(q, p, s)' /\ got' = got /\ replies' = replies
<1>0. /\ at = "app" /\ nest.k = "none" /\ ~fill /\ in \in Readers /\ in.type \in {"STDIN", "DATA"}
      /\ UNCHANGED <<at, fill, nest, req, pend, want, wire, server, replies, got, clean>>
  BY DEF FCGX_StartFilterData, InHandler, Requested, Typed, ReaderOK, PlaceOK
<1>1. \/ /\ req.role = "FILTER" /\ in.closed /\ in.type = "STDIN" /\ in' = SetReaderType(in, "DATA")
      \/ ~(req.role = "FILTER" /\ in.closed /\ in.type = "STDIN") /\ in' = SetError(in, "CALL_SEQ_ERROR")
  BY DEF FCGX_StartFilterData
<1>2. ~Beginning(q)
  BY <1>0, Zenon DEF Beginning, Fresh
<1>3. 1 < p /\ p < s /\ s <= Len(q) /\ Len(q) \in Nat /\ p \in Nat /\ s \in Nat /\ q \in Seq(Recs)
  BY Bounds
<1>4. /\ Lo(p, s, "STDIN") = p /\ Hi(q, p, s, "STDIN") = s /\ Lo(p, s, "DATA") = s /\ Hi(q, p, s, "DATA") = Len(q)
  BY DEF Lo, Hi
<1>5. Accepted(q)
  BY <1>2 DEF Phase, InStep, Halted, Straying, Final
<1>6. CASE req.role = "FILTER" /\ in.closed /\ in.type = "STDIN" /\ in' = SetReaderType(in, "DATA")
  <2>1. s < Len(q)
    <3>1. q[1].content[1].role = "FILTER"
      BY <1>5, <1>6 DEF Accepted
    <3> QED BY <3>1, Bounds
  <2>2. got["DATA"] = <<>>
    BY <1>5, <1>6 DEF Accepted
  <2>3. ASSUME NEW i \in 1..Len(q), InStep(q, p, s, i) PROVE Phase(q, p, s)'
    <3>1. i = s
      BY <1>0, <1>4, <1>6, <2>3 DEF InStep, Place
    <3>2. i = Lo(p, s, "DATA") /\ i < Hi(q, p, s, "DATA")
      BY <1>4, <2>1, <3>1
    <3>3. InStep(q, p, s, i)'
      BY <1>0, <1>6, <2>2, <2>3, <3>2, SwitchInStep
    <3> QED BY <1>0, <3>3 DEF Phase
  <2>4. ASSUME NEW i \in 1..Len(q), Halted(q, p, s, i) PROVE Phase(q, p, s)'
    <3>1. i < Lo(p, s, "DATA") /\ (Replied(q, i) \/ Mute)
      BY <1>4, <1>6, <2>4 DEF Halted
    <3>3. Straying(q, p, s, i)'
      BY <1>0, <1>6, <2>2, <2>4, <3>1, SwitchHalted
    <3> QED BY <1>0, <3>3 DEF Phase
  <2>5. ~Final(q)
    BY <1>6 DEF Final
  <2>6. ASSUME NEW i \in 1..Len(q), Straying(q, p, s, i) PROVE FALSE
    BY <1>6, <2>6 DEF Straying
  <2> QED BY <1>0, <1>2, <2>3, <2>4, <2>5, <2>6 DEF Phase
<1>7. CASE ~(req.role = "FILTER" /\ in.closed /\ in.type = "STDIN") /\ in' = SetError(in, "CALL_SEQ_ERROR")
  <2>1. "CALL_SEQ_ERROR" \in Errors \ {"0"}
    BY DEF Errors
  <2>2. /\ in'.closed /\ in'.errno # "0" /\ in'.buf = in.buf /\ in'.hdr = in.hdr /\ in'.avail = in.avail
        /\ in'.type = in.type
        /\ in.errno # "0" => in'.errno = in.errno
    BY <1>0, <1>7, <2>1, SetErrorFacts
  <2>3. Accepted(q)'
    BY <1>0, <1>5, <2>2 DEF Accepted
  <2>4. CASE in.type = "DATA" \/ req.role # "FILTER"
    BY <1>0, <2>2, <2>3, <2>4 DEF Final, Phase
  <2>5. CASE in.type = "STDIN" /\ req.role = "FILTER"
    <3>1. ~in.closed
      BY <1>7, <2>5
    <3>2. SameUnits(in, wire, in', wire')
      BY <1>0, <2>2, SameParts
    <3>3. ASSUME NEW i \in 1..Len(q), Lost(in, wire, server, q, i), i < s, Replied(q, i) \/ (Mute /\ in.errno # "0")
          PROVE  Phase(q, p, s)'
      <4>1. Lost(in', wire', server', q, i)
        BY <1>0, <3>2, <3>3, LostMoved
      <4>2. Replied(q, i)' \/ Mute'
        BY <1>0, <2>2, <3>3 DEF Replied, Mute
      <4>3. Halted(q, p, s, i)'
        BY <1>0, <2>2, <2>3, <2>5, <3>3, <4>1, <4>2 DEF Halted
      <4> QED BY <1>0, <4>3 DEF Phase
    <3>4. ASSUME NEW i \in 1..Len(q), InStep(q, p, s, i) PROVE Phase(q, p, s)'
      <4>1. i <= s /\ i # s
        BY <1>0, <1>4, <2>5, <3>1, <3>4 DEF InStep, Place
      <4>2. i < s
        BY <1>3, <4>1
      <4>3. Lost(in, wire, server, q, i)
        BY <1>0, <1>3, <3>4, AtLost DEF InStep
      <4> QED BY <3>3, <3>4, <4>2, <4>3 DEF InStep
    <3>5. ASSUME NEW i \in 1..Len(q), Straying(q, p, s, i) PROVE Phase(q, p, s)'
      <4>1. i < p /\ Mute /\ in.errno # "0"
        BY <1>4, <2>5, <3>5 DEF Straying
      <4>2. i < s
        BY <1>3, <4>1
      <4>3. Lost(in, wire, server, q, i)
        BY <1>0, <1>3, <3>5, AtLost DEF Straying
      <4> QED BY <3>3, <4>1, <4>2, <4>3
    <3>6. ~Final(q)
      BY <3>1 DEF Final
    <3>7. ASSUME NEW i \in 1..Len(q), Halted(q, p, s, i) PROVE FALSE
      BY <3>1, <3>7 DEF Halted
    <3> QED BY <1>0, <1>2, <3>4, <3>5, <3>6, <3>7 DEF Phase
  <2> QED BY <1>0, <2>4, <2>5
<1> QED BY <1>1, <1>6, <1>7

LEMMA SendsSteps ==
    ASSUME Typed, ServerSends
    PROVE  /\ ~server.dead /\ server.rest # <<>> /\ req.conn /\ server'.q = server.q
           /\ UNCHANGED <<at, fill, nest, in, req, pend, want, replies, got, clean>>
           /\ ~server'.dead => \E n \in 1..Len(server.rest) : server'.rest = SubSeq(server.rest, n + 1, Len(server.rest))
<1>1. /\ ~server.dead /\ server.rest # <<>> /\ req.conn
      /\ UNCHANGED <<at, fill, nest, in, req, pend, want, replies, got, clean>>
      /\ \E n \in 1..Len(server.rest) :
            \/ server' = [server EXCEPT !.rest = SubSeq(@, n + 1, Len(@))]
            \/ server' = [server EXCEPT !.rest = <<>>, !.dead = TRUE]
  BY DEF ServerSends
<1>2. server \in [q : DOMAIN Requests \cup {"none"}, rest : Seq(Recs), patient : BOOLEAN, dead : BOOLEAN, count : Nat]
  BY DEF Typed, OtherOK
<1>3. PICK n \in 1..Len(server.rest) :
            \/ server' = [server EXCEPT !.rest = SubSeq(@, n + 1, Len(@))]
            \/ server' = [server EXCEPT !.rest = <<>>, !.dead = TRUE]
  BY <1>1
<1>4. CASE server' = [server EXCEPT !.rest = SubSeq(@, n + 1, Len(@))]
  <2>1. server'.rest = SubSeq(server.rest, n + 1, Len(server.rest)) /\ server'.q = server.q
    BY <1>2, <1>4
  <2> QED BY <1>1, <2>1
<1>5. CASE server' = [server EXCEPT !.rest = <<>>, !.dead = TRUE]
  <2>1. server'.dead /\ server'.q = server.q
    BY <1>2, <1>5
  <2> QED BY <1>1, <2>1
<1> QED BY <1>3, <1>4, <1>5

LEMMA SendsPhase ==
    ASSUME Typed, ServerSends, NEW q, NEW p, NEW s, Spans(q, p, s), Phase(q, p, s)
    PROVE  Phase(q, p, s)'
<1>0. /\ ~server.dead /\ UNCHANGED <<at, fill, nest, in, req, pend, want, replies, got, clean>>
      /\ q \in Seq(Recs) /\ 1 \in 1..Len(q) /\ 0 \in 0..Len(q)
  BY SendsSteps, Bounds, TameFirst
<1>1. ~Mute
  BY <1>0 DEF Mute
<1>2. Accepted(q) => Accepted(q)'
  BY <1>0 DEF Accepted
<1>3. ASSUME NEW i \in 1..Len(q), InStep(q, p, s, i) PROVE Phase(q, p, s)'
  <2>1. At(in', wire', server', q, i)
    BY <1>0, <1>3, AtSends DEF InStep
  <2>2. Flags(in', nest'.k, q, i) /\ Accepted(q)'
    BY <1>0, <1>2, <1>3 DEF InStep
  <2>3. Replied(q, i)' /\ Place(q, p, s, i)' /\ Values(q, i)'
    BY <1>0, <1>3 DEF InStep, Replied, Place, Values
  <2>4. Heard(q, i)' /\ Back(q, i)'
    BY <1>0, <1>3 DEF InStep, Heard, Back
  <2>5. InStep(q, p, s, i)'
    BY <1>0, <1>3, <2>1, <2>2, <2>3, <2>4 DEF InStep
  <2> QED BY <1>0, <2>5 DEF Phase
<1>4. ASSUME NEW i \in 1..Len(q), Halted(q, p, s, i) PROVE Phase(q, p, s)'
  <2>1. Lost(in', wire', server', q, i)
    BY <1>0, <1>4, LostSends DEF Halted
  <2>2. Replied(q, i) => Replied(q, i)'
    BY <1>0 DEF Replied
  <2>3. Halted(q, p, s, i)'
    BY <1>0, <1>1, <1>2, <1>4, <2>1, <2>2 DEF Halted
  <2> QED BY <1>0, <2>3 DEF Phase
<1>5. ASSUME NEW i \in 1..Len(q), Straying(q, p, s, i) PROVE Phase(q, p, s)'
  <2>1. At(in, wire, server, q, i) => At(in', wire', server', q, i)
    BY <1>0, AtSends
  <2>2. Lost(in, wire, server, q, i) => Lost(in', wire', server', q, i)
    BY <1>0, LostSends
  <2>3. Replied(q, i)'
    BY <1>0, <1>1, <1>5 DEF Straying, Replied
  <2>4. Straying(q, p, s, i)'
    BY <1>0, <1>1, <1>2, <1>5, <2>1, <2>2, <2>3 DEF Straying
  <2> QED BY <1>0, <2>4 DEF Phase
<1>6. CASE Final(q)
  BY <1>0, <1>2, <1>6 DEF Final, Phase
<1>7. CASE Beginning(q)
  <2>1. Fresh => Fresh'
    BY <1>0 DEF Fresh
  <2>2. At(in, wire, server, q, 1) => At(in', wire', server', q, 1)
    BY <1>0, AtSends
  <2>3. <<>> \in Seq(UnitSet)
    OBVIOUS
  <2>4. Follows(in, wire, server, q, <<>>, 0) => Follows(in', wire', server', q, <<>>, 0)
    BY <1>0, <2>3, FollowsSends
  <2>5. Beginning(q)'
    BY <1>0, <1>7, <2>1, <2>2, <2>4 DEF Beginning
  <2> QED BY <2>5 DEF Phase
<1> QED BY <1>3, <1>4, <1>5, <1>6, <1>7 DEF Phase

LEMMA SubSubSeq ==
    ASSUME NEW S, NEW q \in Seq(S), NEW m \in 0..Len(q), NEW n \in 1..Len(SubSeq(q, m + 1, Len(q)))
    PROVE  /\ m + n \in 0..Len(q)
           /\ SubSeq(SubSeq(q, m + 1, Len(q)), n + 1, Len(SubSeq(q, m + 1, Len(q)))) = SubSeq(q, (m + n) + 1, Len(q))
<1> DEFINE r == SubSeq(q, m + 1, Len(q))
<1>1. /\ r \in Seq(S) /\ Len(r) = Len(q) - m /\ \A j \in 1..(Len(q) - m) : r[j] = q[m + j]
  BY CutAt
<1> HIDE DEF r
<1>2. n \in 1..Len(r)
  BY DEF r
<1>3. n \in 0..Len(r) /\ m + n \in 0..Len(q) /\ Len(q) \in Nat
  BY <1>1, <1>2
<1> DEFINE a == SubSeq(r, n + 1, Len(r))
           b == SubSeq(q, (m + n) + 1, Len(q))
<1>4. a \in Seq(S) /\ Len(a) = Len(r) - n /\ \A j \in 1..(Len(r) - n) : a[j] = r[n + j]
  BY <1>1, <1>3, CutAt
<1> DEFINE k == m + n
<1>5. k \in 0..Len(q)
  BY <1>3
<1> HIDE DEF k
<1>6. /\ SubSeq(q, k + 1, Len(q)) \in Seq(S) /\ Len(SubSeq(q, k + 1, Len(q))) = Len(q) - k
      /\ \A j \in 1..(Len(q) - k) : SubSeq(q, k + 1, Len(q))[j] = q[k + j]
  BY <1>5, CutAt
<1>7. b \in Seq(S) /\ Len(b) = Len(q) - (m + n) /\ \A j \in 1..(Len(q) - (m + n)) : b[j] = q[(m + n) + j]
  BY <1>6 DEF k
<1> HIDE DEF a, b
<1>8. Len(a) = Len(b)
  BY <1>1, <1>2, <1>3, <1>4, <1>7
<1>9. ASSUME NEW j \in 1..Len(a) PROVE a[j] = b[j]
  <2>1. j \in 1..(Len(r) - n) /\ j \in 1..(Len(q) - (m + n)) /\ n + j \in 1..(Len(q) - m) /\ m + (n + j) = (m + n) + j
    BY <1>1, <1>2, <1>3, <1>4, <1>7, <1>8
  <2> QED BY <1>1, <1>4, <1>7, <2>1
<1>10. a = b
  BY <1>4, <1>7, <1>8, <1>9, SMTT(30)
<1> QED BY <1>3, <1>10 DEF a, b, r

LEMMA SendsSending ==
    ASSUME Typed, ServerSends, NEW q \in Seq(Recs), Sending(q)
    PROVE  Sending(q)'
<1>1. SUFFICES ASSUME ~server'.dead PROVE \E m \in 0..Len(q) : server'.rest = SubSeq(q, m + 1, Len(q))
  BY DEF Sending
<1>2. PICK n \in 1..Len(server.rest) : server'.rest = SubSeq(server.rest, n + 1, Len(server.rest))
  BY <1>1, SendsSteps
<1>3. PICK m \in 0..Len(q) : server.rest = SubSeq(q, m + 1, Len(q))
  BY SendsSteps DEF Sending
<1>4. n \in 1..Len(SubSeq(q, m + 1, Len(q)))
  BY <1>2, <1>3
<1>5. /\ m + n \in 0..Len(q)
      /\ SubSeq(SubSeq(q, m + 1, Len(q)), n + 1, Len(SubSeq(q, m + 1, Len(q)))) = SubSeq(q, (m + n) + 1, Len(q))
  BY <1>4, SubSubSeq
<1>6. server'.rest = SubSeq(q, (m + n) + 1, Len(q))
  BY <1>2, <1>3, <1>5
<1> QED BY <1>5, <1>6

Live == {"begin", "params", "app", "read"}

(* What a served request is.                                                *)
LEMMA ServedShape ==
    ASSUME Typed, Served
    PROVE  server.q \in DOMAIN Requests /\ Requests[server.q] \in Seq(Recs) /\ Tame(Requests[server.q])
<1>1. server.q \in DOMAIN Requests /\ Tame(Requests[server.q])
  BY DEF Served, TameRequests
<1> QED BY <1>1, RequestShape

LEMMA ServedPhase ==
    ASSUME Typed, Fine, Served, at \in Live
    PROVE  LET q == Requests[server.q] IN
           /\ SoFar(got, replies, q) /\ Sending(q)
           /\ \E p, s \in 1..Len(q) : Spans(q, p, s) /\ Phase(q, p, s)
<1> DEFINE q == Requests[server.q]
<1>1. q \in Seq(Recs) /\ Tame(q)
  BY ServedShape
<1>2. /\ SoFar(got, replies, q) /\ Sending(q)
      /\ \E p, s \in 1..Len(q) : Ends(q, p, s) /\ Phase(q, p, s)
  BY Zenon DEF Fine, Live
<1> HIDE DEF q
<1>3. PICK p, s \in 1..Len(q) : Ends(q, p, s) /\ Phase(q, p, s)
  BY <1>2
<1>4. Spans(q, p, s) /\ Phase(q, p, s)
  BY <1>1, <1>3 DEF Spans
<1>5. \E x, y \in 1..Len(q) : Spans(q, x, y) /\ Phase(q, x, y)
  BY <1>4
<1> QED BY <1>2, <1>5 DEF q

(* A step that keeps the phase.                                             *)
Continues(q, p, s) ==
    /\ SoFar(got', replies', q)
    /\ at' # "overrun"
    /\ (at' = "retry" /\ server.dead) \/ (at' # "retry" /\ Phase(q, p, s)')

LEMMA FineContinues ==
    ASSUME Typed, Fine, at \in Live, UNCHANGED <<server, clean>>, at' # "accept",
           ASSUME NEW q, NEW p, NEW s, Spans(q, p, s), Phase(q, p, s), SoFar(got, replies, q)
           PROVE  Continues(q, p, s)
    PROVE  Kept' /\ Fine'
<1>1. Kept'
  BY DEF Kept
<1>2. Served' => Served
  BY DEF Served
<1>0. PICK q : q = Requests[server.q]
  OBVIOUS
<1>3. SUFFICES ASSUME Served
               PROVE  /\ SoFar(got', replies', q) /\ (at' = "retry" => server'.dead) /\ at' # "overrun"
                      /\ at' \in Live => Sending(q)' /\ \E p, s \in 1..Len(q) : Ends(q, p, s) /\ Phase(q, p, s)'
  <2>1. Requests[server'.q] = q
    BY <1>0
  <2> QED BY <1>1, <1>2, <2>1, Zenon DEF Fine, Live
<1>4. /\ SoFar(got, replies, q) /\ Sending(q)
      /\ \E p, s \in 1..Len(q) : Spans(q, p, s) /\ Phase(q, p, s)
  BY <1>0, <1>3, ServedPhase
<1>5. PICK p, s \in 1..Len(q) : Spans(q, p, s) /\ Phase(q, p, s)
  BY <1>4
<1>6. Continues(q, p, s)
  BY <1>4, <1>5
<1>7. Sending(q)' /\ Ends(q, p, s)
  BY <1>4, <1>5 DEF Sending, Spans
<1> QED BY <1>5, <1>6, <1>7 DEF Continues, Live

LEMMA ParserFine ==
    ASSUME Typed, Fine, OS_Read \/ Deliver \/ Advance \/ FillHeader \/ ReadBody \/ ReadValues
    PROVE  Kept' /\ Fine'
<1>1. (fill \/ nest.k # "none") /\ UNCHANGED <<at, server, clean>>
  BY DEF OS_Read, Deliver, Advance, FillHeader, ReadBody, ReadValues, Others
<1>2. at \in Live /\ at' # "accept" /\ at' # "retry" /\ at' # "overrun"
  BY <1>1 DEF Typed, OtherOK, PlaceOK, Live
<1>3. ASSUME NEW q, NEW p, NEW s, Spans(q, p, s), Phase(q, p, s), SoFar(got, replies, q)
      PROVE  Continues(q, p, s)
  <2>1. CASE OS_Read
    BY <1>2, <1>3, <2>1, OS_ReadPhase DEF Continues
  <2>2. CASE Deliver
    BY <1>2, <1>3, <2>2, DeliverPhase DEF Continues
  <2>3. CASE Advance
    BY <1>2, <1>3, <2>3, AdvancePhase DEF Continues
  <2>4. CASE FillHeader
    BY <1>2, <1>3, <2>4, FillHeaderPhase DEF Continues
  <2>5. CASE ReadBody
    BY <1>2, <1>3, <2>5, ReadBodyPhase DEF Continues
  <2>6. CASE ReadValues
    BY <1>2, <1>3, <2>6, ReadValuesPhase DEF Continues
  <2> QED BY <2>1, <2>2, <2>3, <2>4, <2>5, <2>6
<1> QED BY <1>1, <1>2, <1>3, FineContinues

LEMMA CallFine ==
    ASSUME Typed, Fine, Begun \/ ReadParams \/ Reading
    PROVE  Kept' /\ Fine'
<1>1. at \in Live /\ at' # "accept" /\ at' # "overrun" /\ UNCHANGED <<server, clean>>
      /\ (Reading => at' # "retry")
  <2>1. CASE Begun
    BY <2>1 DEF Begun, Requested, Live, Reading
  <2>2. CASE ReadParams
    BY <2>2 DEF ReadParams, Requested, Live, Reading
  <2>3. CASE Reading
    BY <2>3, ReadingFacts DEF Live
  <2> QED BY <2>1, <2>2, <2>3
<1>2. ASSUME NEW q, NEW p, NEW s, Spans(q, p, s), Phase(q, p, s), SoFar(got, replies, q)
      PROVE  Continues(q, p, s)
  <2>1. CASE Begun
    BY <1>1, <1>2, <2>1, BegunPhase DEF Continues, GoesOnOrDies
  <2>2. CASE ReadParams
    BY <1>1, <1>2, <2>2, ReadParamsPhase DEF Continues, GoesOnOrDies
  <2>3. CASE Reading
    BY <1>1, <1>2, <2>3, ReadingPhase DEF Continues
  <2> QED BY <2>1, <2>2, <2>3
<1> QED BY <1>1, <1>2, FineContinues

LEMMA HandlerFine ==
    ASSUME Typed, Fine, (\E n \in ReadSizes, line \in BOOLEAN : Read(n, line)) \/ FCGX_UnGetChar \/ FCGX_StartFilterData
    PROVE  Kept' /\ Fine'
<1>1. at \in Live /\ at' # "accept" /\ at' # "retry" /\ at' # "overrun" /\ UNCHANGED <<server, clean>>
  BY DEF Read, FCGX_UnGetChar, FCGX_StartFilterData, InHandler, Requested, Live
<1>2. ASSUME NEW q, NEW p, NEW s, Spans(q, p, s), Phase(q, p, s), SoFar(got, replies, q)
      PROVE  Continues(q, p, s)
  <2>1. CASE \E n \in ReadSizes, line \in BOOLEAN : Read(n, line)
    BY <1>1, <1>2, <2>1, ReadPhase DEF Continues
  <2>2. CASE FCGX_UnGetChar
    BY <1>1, <1>2, <2>2, UnGetCharPhase DEF Continues
  <2>3. CASE FCGX_StartFilterData
    BY <1>1, <1>2, <2>3, StartFilterDataPhase DEF Continues
  <2> QED BY <2>1, <2>2, <2>3
<1> QED BY <1>1, <1>2, FineContinues

LEMMA SendsFine ==
    ASSUME Typed, Fine, Kept, ServerSends
    PROVE  Kept' /\ Fine'
<1>1. /\ ~server.dead /\ server.rest # <<>> /\ req.conn /\ server'.q = server.q
      /\ UNCHANGED <<at, fill, nest, in, req, pend, want, replies, got, clean>>
  BY SendsSteps
<1>2. Kept'
  BY <1>1 DEF Kept
<1>3. Served' => Served
  BY <1>1 DEF Served
<1>0. PICK q : q = Requests[server.q]
  OBVIOUS
<1>4. SUFFICES ASSUME Served
               PROVE  /\ SoFar(got', replies', q) /\ (at' = "retry" => server'.dead) /\ at' # "overrun"
                      /\ at' \in Live => Sending(q)' /\ \E p, s \in 1..Len(q) : Ends(q, p, s) /\ Phase(q, p, s)'
  <2>1. Requests[server'.q] = q
    BY <1>0, <1>1
  <2> QED BY <1>2, <1>3, <2>1, Zenon DEF Fine, Live
<1>5. SoFar(got', replies', q) /\ at' # "retry" /\ at' # "overrun"
  <2>1. SoFar(got, replies, q) /\ (at = "retry" => server.dead) /\ at # "overrun"
    BY <1>0, <1>4, Zenon DEF Fine
  <2> QED BY <1>1, <2>1
<1>6. ASSUME at' \in Live PROVE Sending(q)' /\ \E p, s \in 1..Len(q) : Ends(q, p, s) /\ Phase(q, p, s)'
  <2>1. /\ Sending(q) /\ q \in Seq(Recs)
        /\ \E p, s \in 1..Len(q) : Spans(q, p, s) /\ Phase(q, p, s)
    BY <1>0, <1>1, <1>4, <1>6, ServedPhase, ServedShape
  <2>2. PICK p, s \in 1..Len(q) : Spans(q, p, s) /\ Phase(q, p, s)
    BY <2>1
  <2>3. Phase(q, p, s)' /\ Ends(q, p, s)
    BY <2>2, SendsPhase DEF Spans
  <2>4. Sending(q)'
    BY <2>1, SendsSending
  <2> QED BY <2>3, <2>4
<1> QED BY <1>5, <1>6

LEMMA RestartFine ==
    ASSUME Typed, Fine, TryAgain \/ MainAbandons
    PROVE  Kept' /\ Fine'
<1>1. at' = "accept" /\ ~req'.conn /\ UNCHANGED <<server, clean, replies, got>>
  <2>1. CASE TryAgain
    <3>1. at' = "accept" /\ req' = [req EXCEPT !.conn = FALSE, !.begun = FALSE, !.params = <<>>]
          /\ UNCHANGED <<server, clean, replies, got>>
      BY <2>1 DEF TryAgain, Requested
    <3>2. req \in RequestSet
      BY DEF Typed
    <3> QED BY <3>1, <3>2 DEF RequestSet
  <2>2. CASE MainAbandons
    BY <2>2 DEF MainAbandons, Requested, NoRequest
  <2> QED BY <2>1, <2>2
<1>2. Kept'
  BY <1>1 DEF Kept
<1>3. Served' => Served
  BY <1>1 DEF Served
<1>4. Fine'
  BY <1>1, <1>3, Zenon DEF Fine
<1> QED BY <1>2, <1>4

(* After all of the request there is nothing on the connection.             *)
LEMMA NoUnits ==
    ASSUME NEW rs \in Seq(Recs), AllUnits(rs) = <<>>
    PROVE  rs = <<>>
<1>1. SUFFICES ASSUME rs # <<>> PROVE FALSE
  OBVIOUS
<1> DEFINE ss == UnitParts(rs)
<1>2. ss \in Seq(Seq(UnitSet)) /\ Len(ss) = Len(rs) /\ AllUnits(rs) = FlattenSeq(ss)
      /\ \A i \in 1..Len(rs) : ss[i] = Units(rs[i])
  BY AllUnitsType
<1>3. Len(rs) \in Nat /\ 1 \in 1..Len(rs) /\ rs[1] \in Recs
  BY <1>1
<1>4. Units(rs[1]) \in Seq(UnitSet) /\ Len(Units(rs[1])) > 0
  <2>1. /\ Units(rs[1]) \in Seq(UnitSet) /\ Len(Units(rs[1])) = HeaderLen + Len(rs[1].content) + rs[1].pad
    BY <1>3, UnitsParts
  <2>2. rs[1].pad \in Nat /\ Len(rs[1].content) \in Nat
    BY <1>3, RecordShape
  <2> QED BY <2>1, <2>2, Constants
<1> DEFINE i == 0
<1>5. i \in 0..(Len(ss) - 1) /\ i + 1 = 1 /\ i + 1 \in 0..Len(ss)
  BY <1>2, <1>3
<1>6. Rest(ss, i) = <<>>
  BY <1>2, RestAll
<1>7. ss[1] \in Seq(UnitSet) /\ Len(ss[1]) > 0
  BY <1>2, <1>3, <1>4
<1> HIDE DEF ss, i
<1>8. Rest(ss, i) = ss[i + 1] \o Rest(ss, i + 1)
  BY <1>2, <1>5, RestStep
<1>9. Rest(ss, i + 1) \in Seq(UnitSet)
  <2> DEFINE j == i + 1
  <2>1. j \in 0..Len(ss)
    BY <1>5
  <2> HIDE DEF j
  <2>2. Rest(ss, j) \in Seq(UnitSet)
    BY <1>2, <2>1, RestType
  <2> QED BY <2>2 DEF j
<1> DEFINE a == ss[1]
           z == Rest(ss, i + 1)
<1>10. a \in Seq(UnitSet) /\ Len(a) > 0 /\ z \in Seq(UnitSet)
  BY <1>7, <1>9
<1>11. a \o z = <<>>
  BY <1>5, <1>6, <1>8
<1> HIDE DEF a, z
<1>12. Len(a \o z) = Len(a) + Len(z) /\ Len(a) \in Nat /\ Len(z) \in Nat
  BY <1>10
<1>13. Len(a \o z) = 0
  BY <1>11
<1> QED BY <1>10, <1>12, <1>13

LEMMA NothingFollows ==
    ASSUME NEW s \in Readers, NEW w \in Seq(UnitSet), NEW v, v.rest \in Seq(Recs), ~v.dead, NEW q \in Seq(Recs),
           Follows(s, w, v, q, <<>>, Len(q))
    PROVE  w = <<>> /\ v.rest = <<>>
<1>1. PICK e \in Seq(UnitSet) :
        /\ ~v.dead => e = AllUnits(v.rest)
        /\ (s.hdr \o (s.buf \o w)) \o e = <<>> \o Rest(UnitParts(q), Len(q))
  BY DEF Follows
<1>2. Rest(UnitParts(q), Len(q)) = <<>>
  <2>1. UnitParts(q) \in Seq(Seq(UnitSet)) /\ Len(UnitParts(q)) = Len(q)
    BY AllUnitsType
  <2>2. Rest(UnitParts(q), Len(UnitParts(q))) = <<>>
    BY <2>1, RestNone
  <2> QED BY <2>1, <2>2
<1>3. (s.hdr \o (s.buf \o w)) \o e = <<>>
  <2>1. <<>> \o <<>> = <<>>
    OBVIOUS
  <2> QED BY <1>1, <1>2, <2>1
<1> DEFINE h == s.hdr
           b == s.buf
<1>4. h \in Seq(UnitSet) /\ b \in Seq(UnitSet)
  BY DEF Readers
<1>5. (h \o (b \o w)) \o e = <<>>
  BY <1>3
<1> HIDE DEF h, b
<1>6. b \o w \in Seq(UnitSet) /\ Len(b \o w) = Len(b) + Len(w)
  BY <1>4
<1>7. h \o (b \o w) \in Seq(UnitSet) /\ Len(h \o (b \o w)) = Len(h) + Len(b \o w)
  BY <1>4, <1>6
<1>8. Len((h \o (b \o w)) \o e) = Len(h \o (b \o w)) + Len(e)
  BY <1>7
<1>9. Len(w) = 0 /\ Len(e) = 0
  <2>1. Len((h \o (b \o w)) \o e) = 0
    BY <1>5
  <2>2. Len(h) \in Nat /\ Len(b) \in Nat /\ Len(w) \in Nat /\ Len(e) \in Nat
    BY <1>4
  <2> QED BY <1>6, <1>7, <1>8, <2>1, <2>2
<1>10. w = <<>> /\ e = <<>>
  BY <1>9
<1> QED BY <1>1, <1>10, NoUnits

(* The end of a stream: nothing of its last record is left.                 *)
LEMMA EndOfStream ==
    ASSUME Typed, NEW q, NEW p, NEW s, Spans(q, p, s), Phase(q, p, s), at = "app", in.closed, in.errno = "0"
    PROVE  /\ in.type \in {"STDIN", "DATA"} /\ Hi(q, p, s, in.type) \in 1..Len(q)
           /\ InStep(q, p, s, Hi(q, p, s, in.type))
           /\ Whole(in) = 0 /\ in.paddingLen = 0
           /\ in.type = LastStream => Hi(q, p, s, in.type) = Len(q)
<1>0. /\ nest.k = "none" /\ in.type \in {"STDIN", "DATA"} /\ in.type \in Streams /\ in \in Readers
      /\ Whole(in) \in Nat /\ in.paddingLen \in Nat
  BY WholeType DEF Typed, PlaceOK, ReaderOK, Streams
<1>1. ~Beginning(q)
  BY Zenon DEF Beginning, Fresh
<1>2. PICK i \in 1..Len(q) : InStep(q, p, s, i)
  BY <1>1 DEF Phase, Halted, Straying, Final
<1>3. i = Hi(q, p, s, in.type)
  BY <1>0, <1>2 DEF InStep, Place
<1>4. q[i].content = <<>> /\ q[i].pad = 0
  BY <1>0, <1>3, StreamEnd
<1>5. Whole(in) = 0 /\ in.paddingLen = 0
  <2>1. Len(q[i].content) = 0
    BY <1>4
  <2> QED BY <1>0, <1>2, <1>4, <2>1 DEF InStep, At
<1>6. in.type = LastStream => Hi(q, p, s, in.type) = Len(q)
  <2>1. req.role = q[1].content[1].role
    BY <1>2 DEF InStep, Accepted
  <2>2. s <= Len(q) /\ s \in Nat /\ Len(q) \in Nat /\ (s < Len(q) <=> req.role = "FILTER")
    BY <2>1, Bounds
  <2>3. CASE req.role = "FILTER"
    BY <2>3 DEF LastStream, Hi
  <2>4. CASE req.role # "FILTER"
    <3>1. s = Len(q)
      BY <2>2, <2>4
    <3> QED BY <2>4, <3>1 DEF LastStream, Hi
  <2> QED BY <2>3, <2>4
<1> QED BY <1>0, <1>2, <1>3, <1>5, <1>6

LEMMA FinishFine ==
    ASSUME Typed, Fine, FCGX_Finish_r
    PROVE  Kept' /\ Fine'
<1>1. /\ at = "app" /\ at' = "accept" /\ UNCHANGED <<wire, server, replies, got>>
      /\ clean' = (Served /\ in.closed /\ in.errno = "0" /\ in.type = LastStream)
  BY DEF FCGX_Finish_r, InHandler, Requested
<1>2. clean' => Served /\ in.closed /\ in.errno = "0" /\ in.type = LastStream
  BY <1>1
<1>3. Served' => Served
  BY <1>1, <1>2 DEF Served
<1>4. Fine'
  BY <1>1, <1>3, Zenon DEF Fine
<1>5. ASSUME clean', ~server.dead PROVE wire = <<>> /\ server.rest = <<>>
  <2>1. PICK q : q = Requests[server.q]
    OBVIOUS
  <2>2. \E p, s \in 1..Len(q) : Spans(q, p, s) /\ Phase(q, p, s)
    BY <1>1, <1>2, <1>5, <2>1, ServedPhase DEF Live
  <2>3. PICK p, s \in 1..Len(q) : Spans(q, p, s) /\ Phase(q, p, s)
    BY <2>2
  <2> DEFINE e == Hi(q, p, s, in.type)
  <2>4. e \in 1..Len(q) /\ InStep(q, p, s, e) /\ Whole(in) = 0 /\ in.paddingLen = 0 /\ e = Len(q)
    BY <1>1, <1>2, <1>5, <2>3, EndOfStream
  <2>5. in \in Readers /\ wire \in Seq(UnitSet) /\ server.rest \in Seq(Recs) /\ q \in Seq(Recs)
    BY <2>3, Bounds DEF Typed, ReaderOK, OtherOK
  <2> HIDE DEF e
  <2>6. Left(in, q, e) = <<>>
    BY <2>4, <2>5, NothingLeft
  <2>7. Follows(in, wire, server, q, <<>>, Len(q))
    BY <2>4, <2>6 DEF InStep, At
  <2> QED BY <1>5, <2>5, <2>7, NothingFollows
<1>6. Kept'
  BY <1>1, <1>5 DEF Kept
<1> QED BY <1>4, <1>6

LEMMA NothingSoFar ==
    ASSUME NEW q \in Seq(Recs), NEW g, g["STDIN"] = <<>>, g["DATA"] = <<>>
    PROVE  SoFar(g, <<>>, q)
<1>1. ASSUME NEW S, NEW x \in Seq(S) PROVE IsPrefix(<<>>, x)
  <2>1. <<>> \in Seq(S) /\ <<>> \o x = x
    OBVIOUS
  <2>2. IsPrefix(<<>>, <<>> \o x)
    BY <2>1, PrefixOfConcat
  <2> QED BY <2>1, <2>2
<1>2. ASSUME NEW t PROVE IsPrefix(<<>>, Content(q, t))
  <2>1. ContentParts(q, t) \in Seq(Seq(Data)) /\ Content(q, t) = FlattenSeq(ContentParts(q, t))
    BY ContentPartsType
  <2>2. Content(q, t) \in Seq(Data)
    BY <2>1, FlattenType
  <2> QED BY <1>1, <2>2
<1>3. IsPrefix(<<>>, AnswersTo(q, q[1].id))
  <2> DEFINE id == q[1].id
  <2>0. id = q[1].id
    OBVIOUS
  <2> HIDE DEF id
  <2>1. AnswerParts(q, id) \in Seq(Seq(AnswerSet)) /\ AnswersTo(q, id) = FlattenSeq(AnswerParts(q, id))
    BY AnswerPartsType
  <2>2. AnswersTo(q, id) \in Seq(AnswerSet)
    BY <2>1, FlattenType
  <2>3. IsPrefix(<<>>, AnswersTo(q, id))
    BY <1>1, <2>2
  <2> QED BY <2>0, <2>3
<1> QED BY <1>2, <1>3 DEF SoFar

(* A new request, with nothing of another on the connection.                *)
LEMMA RequestSteps ==
    ASSUME Typed, Kept, ServerRequests
    PROVE  /\ at = "accept" /\ nest.k = "none" /\ nest' = nest /\ ~req'.begun
           /\ at' = "begin" /\ fill' = TRUE /\ in' = NewReader /\ replies' = <<>> /\ got' = Nothing
           /\ server'.q \in DOMAIN Requests /\ ~server'.dead
           /\ clean' => wire' = <<>> /\ server'.rest = Requests[server'.q]
<1>1. /\ at = "accept" /\ at' = "begin" /\ fill' = TRUE /\ in' = NewReader /\ replies' = <<>> /\ got' = Nothing /\ nest' = nest
      /\ \/ ~req.conn /\ req' = [req EXCEPT !.conn = TRUE] /\ wire' = <<>> /\ clean' = TRUE
         \/ req.conn /\ ~server.dead /\ UNCHANGED <<req, wire, clean>>
  BY DEF ServerRequests
<1>2. PICK q \in IF server.count = 0 THEN DOMAIN Requests ELSE Later, patient \in BOOLEAN :
        server' = [q |-> q, rest |-> IF req.conn THEN server.rest \o Requests[q] ELSE Requests[q],
                   patient |-> patient, dead |-> FALSE, count |-> server.count + 1]
  BY DEF ServerRequests
<1>3. q \in DOMAIN Requests
  BY <1>2, Constants
<1>4. Requests[q] \in Seq(Recs)
  BY <1>3, RequestShape
<1>5. server'.q = q /\ ~server'.dead /\ server'.rest = IF req.conn THEN server.rest \o Requests[q] ELSE Requests[q]
  BY <1>2
<1>6. nest.k = "none" /\ ~req.begun /\ req \in RequestSet
  BY <1>1 DEF Typed, PlaceOK
<1>7. ~req'.begun
  BY <1>1, <1>6 DEF RequestSet
<1>8. ASSUME clean' PROVE wire' = <<>> /\ server'.rest = Requests[q]
  <2>1. CASE ~req.conn
    BY <1>1, <1>5, <2>1
  <2>2. CASE req.conn
    <3>1. wire = <<>> /\ server.rest = <<>> /\ wire' = wire
      BY <1>1, <1>8, <2>2 DEF Kept
    <3>2. <<>> \o Requests[q] = Requests[q]
      BY <1>4
    <3> QED BY <1>5, <2>2, <3>1, <3>2
  <2> QED BY <2>1, <2>2
<1> QED BY <1>1, <1>3, <1>5, <1>6, <1>7, <1>8

LEMMA RequestsFine ==
    ASSUME Typed, Kept, ServerRequests
    PROVE  Kept' /\ Fine'
<1>0. /\ at = "accept" /\ nest.k = "none" /\ nest' = nest /\ ~req'.begun
      /\ at' = "begin" /\ fill' = TRUE /\ in' = NewReader /\ replies' = <<>> /\ got' = Nothing
      /\ server'.q \in DOMAIN Requests /\ ~server'.dead
      /\ clean' => wire' = <<>> /\ server'.rest = Requests[server'.q]
  BY RequestSteps
<1>1. Kept'
  BY <1>0 DEF Kept
<1>2. PICK q : q = Requests[server'.q]
  OBVIOUS
<1>3. SUFFICES ASSUME Served'
               PROVE  /\ SoFar(got', replies', q) /\ Sending(q)'
                      /\ \E p, s \in 1..Len(q) : Ends(q, p, s) /\ Phase(q, p, s)'
  BY <1>0, <1>1, <1>2, Zenon DEF Fine
<1>4. Tame(q) /\ clean'
  BY <1>2, <1>3 DEF Served, TameRequests
<1>5. wire' = <<>> /\ server'.rest = q /\ q \in Seq(Recs)
  BY <1>0, <1>2, <1>4, RequestShape
<1>6. PICK p, s \in 1..Len(q) : Ends(q, p, s)
  BY <1>4 DEF Tame, WellFormed
<1>7. SoFar(got', replies', q)
  <2>1. got'["STDIN"] = <<>> /\ got'["DATA"] = <<>>
    BY <1>0 DEF Nothing
  <2> QED BY <1>0, <1>5, <2>1, NothingSoFar
<1>8. Sending(q)'
  <2>1. SubSeq(q, 0 + 1, Len(q)) = q /\ 0 \in 0..Len(q)
    BY <1>5
  <2> QED BY <1>5, <2>1 DEF Sending
<1>9. /\ in'.hdr = <<>> /\ in'.buf = <<>> /\ in'.errno = "0" /\ ~in'.closed /\ ~in'.skip /\ in'.paddingLen = 0
      /\ ~in'.eor /\ Whole(in') = 0
  BY <1>0 DEF NewReader, Whole
<1>10. Follows(in', wire', server', q, <<>>, 0)
  <2> DEFINE e == AllUnits(q)
  <2>1. e \in Seq(UnitSet) /\ e = Rest(UnitParts(q), 0)
    BY <1>5, AllUnitsType, RestAll
  <2>2. <<>> \o e = e /\ <<>> \o (<<>> \o <<>>) = <<>>
    BY <2>1
  <2>3. (in'.hdr \o (in'.buf \o wire')) \o e = <<>> \o Rest(UnitParts(q), 0)
    BY <1>5, <1>9, <2>1, <2>2
  <2> HIDE DEF e
  <2>4. ~server'.dead => e = AllUnits(server'.rest)
    BY <1>5 DEF e
  <2> QED BY <2>1, <2>3, <2>4 DEF Follows
<1>11. Fresh'
  BY <1>0, <1>9 DEF Fresh
<1>12. Beginning(q)'
  BY <1>0, <1>9, <1>10, <1>11 DEF Beginning
<1>13. Phase(q, p, s)'
  BY <1>12 DEF Phase
<1> QED BY <1>6, <1>7, <1>8, <1>13

(* The inductive invariant.                                                 *)
Inv == Typed /\ Kept /\ Fine

LEMMA InitInv == Init => Inv
<1>1. SUFFICES ASSUME Init PROVE Inv
  OBVIOUS
<1>2. Typed
  BY <1>1, InitTyped
<1>3. wire = <<>> /\ server.rest = <<>> /\ server.q = "none" /\ at = "accept" /\ replies = <<>> /\ got = Nothing
  BY <1>1 DEF Init
<1>4. Kept
  BY <1>3 DEF Kept
<1>5. Fine
  <2>1. PICK q : q = Requests[server.q]
    OBVIOUS
  <2>2. SUFFICES ASSUME Served PROVE SoFar(got, replies, q)
    BY <1>3, <2>1, Zenon DEF Fine
  <2>3. q \in Seq(Recs)
    BY <1>2, <2>1, <2>2, ServedShape
  <2>4. got["STDIN"] = <<>> /\ got["DATA"] = <<>>
    BY <1>3 DEF Nothing
  <2> QED BY <1>3, <2>3, <2>4, NothingSoFar
<1> QED BY <1>2, <1>4, <1>5 DEF Inv

LEMMA StutterFine == ASSUME Typed, Kept, Fine, UNCHANGED vars PROVE Kept' /\ Fine'
<1>1. UNCHANGED <<at, fill, nest, in, req, pend, want, wire, server, replies, got, clean>>
  BY DEF vars
<1>2. Kept'
  BY <1>1 DEF Kept
<1>3. CASE at \in Live
  <2>1. at' # "accept" /\ at' # "retry" /\ at' # "overrun"
    BY <1>1, <1>3 DEF Live
  <2>2. Moves
    <3>1. SameUnits(in, wire, in', wire') /\ SameFields(in, in')
      BY <1>1 DEF SameUnits, SameFields
    <3>2. Mute => Mute'
      BY <1>1 DEF Mute
    <3> QED BY <1>1, <3>1, <3>2 DEF Moves
  <2>3. ASSUME NEW q, NEW p, NEW s, Spans(q, p, s), Phase(q, p, s), SoFar(got, replies, q)
        PROVE  Continues(q, p, s)
    BY <1>1, <2>1, <2>2, <2>3, PhaseMoves DEF Continues
  <2> QED BY <1>1, <1>3, <2>1, <2>3, FineContinues
<1>4. CASE at \notin Live
  <2>1. Served' => Served
    BY <1>1 DEF Served
  <2>2. Fine'
    BY <1>1, <1>4, <2>1, Zenon DEF Fine, Live
  <2> QED BY <1>2, <2>2
<1> QED BY <1>3, <1>4

(* A signal: nothing is claimed of the request any more.                    *)
LEMMA InterruptedFine == ASSUME Typed, Interrupted PROVE Kept' /\ Fine'
<1>1. clean' = FALSE
  BY DEF Interrupted
<1>2. ~Served'
  BY <1>1 DEF Served
<1> QED BY <1>1, <1>2, Zenon DEF Kept, Fine

(* No answer overruns response[64], for that is not in Tame.                *)
LEMMA OverrunsFine == ASSUME Typed, Fine, Overruns PROVE Kept' /\ Fine'
<1>1. /\ nest.k = "values" /\ in.closed /\ in.errno = "0" /\ ~Fits(nest.vals) /\ at' = "overrun"
      /\ UNCHANGED <<server, clean>>
  BY DEF Overruns, MakesResult
<1>2. Kept'
  BY <1>1 DEF Kept
<1>3. at \in Live
  BY <1>1 DEF Typed, OtherOK, PlaceOK, Live
<1>4. ASSUME Served PROVE FALSE
  <2>1. PICK q : q = Requests[server.q]
    OBVIOUS
  <2>2. \E p, s \in 1..Len(q) : Spans(q, p, s) /\ Phase(q, p, s)
    BY <1>3, <1>4, <2>1, ServedPhase
  <2>3. PICK p, s \in 1..Len(q) : Spans(q, p, s) /\ Phase(q, p, s)
    BY <2>2
  <2>4. ~Beginning(q)
    BY <1>1, Zenon DEF Beginning, Fresh
  <2>5. PICK i \in 1..Len(q) : InStep(q, p, s, i)
    BY <1>1, <2>3, <2>4 DEF Phase, Halted, Straying, Final
  <2> QED BY <1>1, <2>3, <2>5, ValuesWhole
<1>5. ~Served'
  BY <1>1, <1>4 DEF Served
<1> QED BY <1>2, <1>5, Zenon DEF Fine

LEMMA NextInv == ASSUME Inv, [Next]_vars PROVE Inv'
<1>1. Typed /\ Kept /\ Fine
  BY DEF Inv
<1>2. Typed'
  BY <1>1, NextTyped
<1>3. CASE OS_Read \/ Deliver \/ Advance \/ FillHeader \/ ReadBody \/ ReadValues
  BY <1>1, <1>2, <1>3, ParserFine DEF Inv
<1>4. CASE Begun \/ ReadParams \/ Reading
  BY <1>1, <1>2, <1>4, CallFine DEF Inv
<1>5. CASE (\E n \in ReadSizes, line \in BOOLEAN : Read(n, line)) \/ FCGX_UnGetChar \/ FCGX_StartFilterData
  BY <1>1, <1>2, <1>5, HandlerFine DEF Inv
<1>6. CASE TryAgain \/ MainAbandons
  BY <1>1, <1>2, <1>6, RestartFine DEF Inv
<1>7. CASE FCGX_Finish_r
  BY <1>1, <1>2, <1>7, FinishFine DEF Inv
<1>8. CASE ServerRequests
  BY <1>1, <1>2, <1>8, RequestsFine DEF Inv
<1>9. CASE ServerSends
  BY <1>1, <1>2, <1>9, SendsFine DEF Inv
<1>10. CASE UNCHANGED vars
  BY <1>1, <1>2, <1>10, StutterFine DEF Inv
<1>11. CASE Interrupted
  BY <1>1, <1>2, <1>11, InterruptedFine DEF Inv
<1>12. CASE Overruns
  BY <1>1, <1>2, <1>12, OverrunsFine DEF Inv
<1> QED BY <1>3, <1>4, <1>5, <1>6, <1>7, <1>8, <1>9, <1>10, <1>11, <1>12 DEF Next, Library

(* With nothing on the way, the web server has sent no more than the reader *)
(* has worked off.                                                          *)
LEMMA RestDrop ==
    ASSUME NEW q \in Seq(Recs), NEW i \in 0..Len(q), NEW m \in (i + 1)..Len(q)
    PROVE  /\ Rest(UnitParts(q), i) \in Seq(UnitSet) /\ Rest(UnitParts(q), m) \in Seq(UnitSet)
           /\ Len(Rest(UnitParts(q), i)) >= HeaderLen + Len(Rest(UnitParts(q), m))
<1> DEFINE ss == UnitParts(q)
           k == i + 1
<1>1. ss \in Seq(Seq(UnitSet)) /\ Len(ss) = Len(q) /\ \A j \in 1..Len(q) : ss[j] = Units(q[j])
  BY AllUnitsType
<1>2. /\ i \in 0..Len(ss) /\ k \in 0..Len(ss) /\ m \in k..Len(ss) /\ m \in 0..Len(ss) /\ i \in 0..(Len(ss) - 1)
      /\ k \in 1..Len(q) /\ Len(q) \in Nat
  BY <1>1
<1>3. q[k] \in Recs /\ ss[k] = Units(q[k])
  BY <1>1, <1>2
<1>4. Units(q[k]) \in Seq(UnitSet) /\ Len(Units(q[k])) >= HeaderLen /\ Len(Units(q[k])) \in Nat
  <2>1. /\ Units(q[k]) \in Seq(UnitSet) /\ Len(Units(q[k])) = HeaderLen + Len(q[k].content) + q[k].pad
    BY <1>3, UnitsParts
  <2>2. q[k].pad \in Nat /\ Len(q[k].content) \in Nat
    BY <1>3, RecordShape
  <2> QED BY <2>1, <2>2, Constants
<1>5. Rest(ss, i) = ss[i + 1] \o Rest(ss, i + 1)
  <2> HIDE DEF ss
  <2> QED BY <1>1, <1>2, RestStep
<1>6. Rest(ss, i) = ss[k] \o Rest(ss, k)
  BY <1>5
<1> HIDE DEF k, ss
<1>7. Rest(ss, i) \in Seq(UnitSet)
  BY <1>1, <1>2, RestType
<1>8. Rest(ss, k) \in Seq(UnitSet)
  BY <1>1, <1>2, RestType
<1>9. Rest(ss, m) \in Seq(UnitSet)
  BY <1>1, <1>2, RestType
<1>10. Len(Rest(ss, m)) <= Len(Rest(ss, k))
  BY <1>1, <1>2, RestShorter
<1>11. Len(Rest(ss, i)) = Len(ss[k]) + Len(Rest(ss, k))
  BY <1>3, <1>4, <1>6, <1>8
<1>12. Len(Rest(ss, m)) \in Nat /\ Len(Rest(ss, k)) \in Nat /\ HeaderLen \in Nat
  BY <1>8, <1>9, Constants
<1>13. Len(Rest(ss, i)) >= HeaderLen + Len(Rest(ss, m))
  BY <1>3, <1>4, <1>10, <1>11, <1>12
<1> QED BY <1>7, <1>9, <1>13 DEF ss

LEMMA WaitsFor ==
    ASSUME NEW s \in Readers, s.buf = <<>>, Len(s.hdr) < HeaderLen, NEW v, ~v.dead, NEW q \in Seq(Recs),
           NEW m \in 0..Len(q), v.rest = SubSeq(q, m + 1, Len(q)), NEW i \in 0..Len(q), NEW x \in Seq(UnitSet),
           Follows(s, <<>>, v, q, x, i)
    PROVE  m <= i /\ (m = i => Len(s.hdr) = Len(x))
<1> DEFINE e == Rest(UnitParts(q), m)
           r == Rest(UnitParts(q), i)
           h == s.hdr
<1>0. h \in Seq(UnitSet) /\ Len(h) \in Nat /\ Len(x) \in Nat /\ HeaderLen \in Nat
  BY Constants DEF Readers
<1>1. AllUnits(v.rest) = e
  BY AllUnitsSplit
<1>2. UnitParts(q) \in Seq(Seq(UnitSet)) /\ Len(UnitParts(q)) = Len(q)
  BY AllUnitsType
<1>3. e \in Seq(UnitSet)
  BY <1>2, RestType
<1>4. r \in Seq(UnitSet)
  BY <1>2, RestType
<1>5. (s.hdr \o (s.buf \o <<>>)) \o e = x \o r
  BY <1>1 DEF Follows
<1>6. <<>> \o <<>> = <<>> /\ h \o <<>> = h
  BY <1>0
<1>7. h \o e = x \o r
  BY <1>5, <1>6
<1>8. m = i => e = r
  OBVIOUS
<1>9. m > i => Len(r) >= HeaderLen + Len(e)
  <2>1. SUFFICES ASSUME m > i PROVE Len(r) >= HeaderLen + Len(e)
    OBVIOUS
  <2>2. m \in (i + 1)..Len(q)
    BY <2>1
  <2> QED BY <2>2, RestDrop
<1>10. Len(h) < HeaderLen
  OBVIOUS
<1> HIDE DEF e, r, h
<1>11. Len(h \o e) = Len(h) + Len(e) /\ Len(x \o r) = Len(x) + Len(r) /\ Len(e) \in Nat /\ Len(r) \in Nat
  BY <1>0, <1>3, <1>4
<1>12. Len(h) + Len(e) = Len(x) + Len(r)
  BY <1>7, <1>11
<1>13. m = i => Len(h) = Len(x)
  BY <1>0, <1>8, <1>11, <1>12
<1>14. ~(m > i)
  BY <1>0, <1>9, <1>10, <1>11, <1>12
<1> QED BY <1>13, <1>14 DEF h

LEMMA LostWaits ==
    ASSUME Typed, in.buf = <<>>, wire = <<>>, ~server.dead, NEW q \in Seq(Recs),
           NEW m \in 0..Len(q), server.rest = SubSeq(q, m + 1, Len(q)), NEW i \in 0..Len(q), NEW x \in Seq(UnitSet),
           Follows(in, wire, server, q, x, i)
    PROVE  m <= i /\ (m = i => Len(in.hdr) = Len(x))
<1>1. in \in Readers /\ Len(in.hdr) < HeaderLen
  BY DEF Typed, ReaderOK
<1>2. Follows(in, <<>>, server, q, x, i)
  OBVIOUS
<1> QED BY <1>1, <1>2, WaitsFor

(* How many answers are there, with the record i worked off or in its values. *)
LEMMA AtWaits ==
    ASSUME Typed, in.buf = <<>>, wire = <<>>, ~server.dead, NEW q \in Seq(Recs),
           NEW m \in 0..Len(q), server.rest = SubSeq(q, m + 1, Len(q)), NEW i \in 1..Len(q),
           At(in, wire, server, q, i), Flags(in, nest.k, q, i), ~in.closed,
           q[i].type = "GET_VALUES" => q[i].pad > 0
    PROVE  m <= (IF nest.k = "values" THEN i - 1 ELSE i)
<1>0. in \in Readers /\ Whole(in) \in Nat /\ in.paddingLen \in Nat /\ i \in 0..Len(q)
  BY WholeType DEF Typed, ReaderOK
<1>1. Left(in, q, i) \in Seq(UnitSet) /\ Len(Left(in, q, i)) = Whole(in) + in.paddingLen
  <2>1. in.avail + in.contentLen <= Len(q[i].content)
    BY DEF At, Whole
  <2> QED BY <1>0, <2>1, LeftType DEF Whole
<1>2. m <= i /\ (m = i => Len(in.hdr) = Len(Left(in, q, i)))
  <2> DEFINE x == Left(in, q, i)
  <2>1. x \in Seq(UnitSet) /\ Follows(in, wire, server, q, x, i)
    BY <1>1 DEF At
  <2> HIDE DEF x
  <2>2. m <= i /\ (m = i => Len(in.hdr) = Len(x))
    BY <1>0, <2>1, LostWaits
  <2> QED BY <2>2 DEF x
<1>3. ASSUME nest.k = "values" PROVE m # i
  <2>1. in.paddingLen > 0
    BY <1>3 DEF Flags
  <2>2. in.hdr = <<>>
    BY <1>0, <2>1 DEF At
  <2>3. Len(in.hdr) = 0
    BY <2>2
  <2> QED BY <1>0, <1>1, <1>2, <2>1, <2>3
<1>4. nest.k = "values" => m <= i - 1
  BY <1>2, <1>3
<1> QED BY <1>2, <1>4

LEMMA NoWait ==
    ASSUME Typed, NEW q, NEW p, NEW s, Spans(q, p, s), Phase(q, p, s), Sending(q),
           q = Requests[server.q], \A r \in ToSet(q) : r.type = "GET_VALUES" => r.pad > 0
    PROVE  ~MutualWait
<1>1. SUFFICES ASSUME MutualWait PROVE FALSE
  OBVIOUS
<1>2. /\ fill /\ in.buf = <<>> /\ wire = <<>> /\ server.rest # <<>> /\ Len(replies) < Owed
  BY <1>1 DEF MutualWait
<1>3. ~server.dead /\ ~in.closed /\ replies \in Seq(AnswerSet) /\ Len(replies) \in Nat
  BY <1>2 DEF Typed, OtherOK, ReaderOK
<1>4. PICK m \in 0..Len(q) : server.rest = SubSeq(q, m + 1, Len(q))
  BY <1>3 DEF Sending
<1>5. q \in Seq(Recs) /\ Len(q) \in Nat /\ 1 \in 1..Len(q)
  BY Bounds, TameFirst
<1>6. Owed = Len(AnswersPast(q, m))
  BY <1>4, <1>5, AnswersOwed DEF Owed
<1>7. Len(replies) < Len(AnswersPast(q, m))
  BY <1>2, <1>6
<1>8. ASSUME NEW n \in 0..Len(q), m <= n, replies = AnswersPast(q, n) PROVE FALSE
  <2>1. n \in m..Len(q)
    BY <1>8
  <2>2. Len(AnswersPast(q, m)) <= Len(AnswersPast(q, n))
    BY <1>5, <2>1, AnswersMore
  <2>3. AnswersPast(q, m) \in Seq(AnswerSet)
    BY <1>5, AnswersPrefix
  <2>4. Len(AnswersPast(q, m)) \in Nat
    BY <2>3
  <2> QED BY <1>3, <1>7, <1>8, <2>2, <2>4
<1>9. \A i \in 1..Len(q) : q[i].type = "GET_VALUES" => q[i].pad > 0
  <2>1. \A i \in 1..Len(q) : q[i] \in ToSet(q)
    BY <1>5 DEF ToSet
  <2> QED BY <2>1
<1>10. ~Mute
  BY <1>3 DEF Mute
<1>11. ASSUME NEW i \in 1..Len(q), Replied(q, i), At(in, wire, server, q, i), Flags(in, nest.k, q, i) PROVE FALSE
  <2> DEFINE n == IF nest.k = "values" THEN i - 1 ELSE i
  <2>1. m <= n
    BY <1>2, <1>3, <1>4, <1>5, <1>9, <1>11, AtWaits
  <2>2. n \in 0..Len(q)
    BY <1>5
  <2>3. replies = AnswersPast(q, n)
    BY <1>11 DEF Replied
  <2> HIDE DEF n
  <2> QED BY <1>8, <2>1, <2>2, <2>3
<1>12. ASSUME NEW i \in 1..Len(q), InStep(q, p, s, i) PROVE FALSE
  BY <1>11, <1>12 DEF InStep
<1>13. ASSUME NEW i \in 1..Len(q), Straying(q, p, s, i) PROVE FALSE
  <2>1. Replied(q, i)
    BY <1>10, <1>13 DEF Straying
  <2>2. CASE At(in, wire, server, q, i) /\ Flags(in, nest.k, q, i)
    BY <1>11, <2>1, <2>2
  <2>3. CASE nest.k = "none" /\ Lost(in, wire, server, q, i)
    <3>1. PICK x \in Seq(UnitSet) : Follows(in, wire, server, q, x, i)
      BY <2>3 DEF Lost
    <3>2. i \in 0..Len(q)
      BY <1>5
    <3>3. m <= i
      BY <1>2, <1>3, <1>4, <1>5, <3>1, <3>2, LostWaits
    <3>4. replies = AnswersPast(q, i)
      BY <2>1, <2>3 DEF Replied
    <3> QED BY <1>8, <3>2, <3>3, <3>4
  <2> QED BY <1>13, <2>2, <2>3 DEF Straying
<1>14. ASSUME Beginning(q), Fresh, nest.k \in {"none", "body"} PROVE FALSE
  <2>1. replies = <<>> /\ in.errno = "0"
    BY <1>14 DEF Fresh
  <2>2. \/ Follows(in, wire, server, q, <<>>, 0)
        \/ At(in, wire, server, q, 1) /\ nest.k = "body"
    BY <1>2, <1>14, <2>1, Zenon DEF Beginning
  <2>3. AnswersPast(q, 0) = <<>> /\ 0 \in 0..Len(q)
    BY <1>5, AnswersPrefix
  <2>4. CASE Follows(in, wire, server, q, <<>>, 0)
    <3> DEFINE i == 0
    <3>1. <<>> \in Seq(UnitSet) /\ i \in 0..Len(q) /\ Follows(in, wire, server, q, <<>>, i)
      BY <2>3, <2>4
    <3>2. i = 0
      OBVIOUS
    <3> HIDE DEF i
    <3>3. m <= i
      BY <1>2, <1>3, <1>4, <1>5, <3>1, LostWaits
    <3> QED BY <1>8, <2>1, <2>3, <3>1, <3>2, <3>3
  <2>5. CASE At(in, wire, server, q, 1) /\ nest.k = "body"
    <3>1. PICK x \in Seq(UnitSet) : Follows(in, wire, server, q, x, 1)
      <4>1. Lost(in, wire, server, q, 1)
        BY <1>5, <2>5, AtLost DEF Typed, ReaderOK
      <4> QED BY <4>1 DEF Lost
    <3> DEFINE i == 1
    <3>2. i \in 0..Len(q) /\ Follows(in, wire, server, q, x, i)
      BY <1>5, <3>1
    <3>3. i = 1
      OBVIOUS
    <3>4. AnswersPast(q, i) = <<>>
      <4>1. ~Answered(q[1], q[1].id)
        BY TameFirst
      <4> DEFINE n == 0
      <4>2. n \in 0..(Len(q) - 1) /\ n + 1 = 1 /\ AnswersPast(q, n) = <<>>
        BY <1>5, <2>3
      <4> HIDE DEF n
      <4>3. AnswersPast(q, n + 1) = IF Answered(q[n + 1], q[1].id)
                                    THEN Append(AnswersPast(q, n), Answer(q[n + 1])) ELSE AnswersPast(q, n)
        BY <1>5, <4>2, AnswersNext
      <4> QED BY <4>1, <4>2, <4>3
    <3> HIDE DEF i
    <3>5. m <= i
      BY <1>2, <1>3, <1>4, <1>5, <3>1, <3>2, LostWaits
    <3> QED BY <1>8, <2>1, <3>2, <3>4, <3>5
  <2> QED BY <2>2, <2>4, <2>5
<1> QED BY <1>2, <1>12, <1>13, <1>14, PhaseFilling

(* What a finished stream has given.                                        *)
LEMMA EndIsWhole ==
    ASSUME Typed, NEW q, NEW p, NEW s, Spans(q, p, s), Phase(q, p, s), at = "app", in.closed, in.errno = "0"
    PROVE  /\ got[in.type] = Content(q, in.type)
           /\ in.type = LastStream => replies = AnswersTo(q, q[1].id)
<1> DEFINE e == Hi(q, p, s, in.type)
           t == in.type
<1>1. /\ t \in {"STDIN", "DATA"} /\ e \in 1..Len(q) /\ InStep(q, p, s, e) /\ Whole(in) = 0
      /\ in.type = LastStream => e = Len(q)
  BY EndOfStream
<1>2. nest.k = "none" /\ q \in Seq(Recs) /\ Len(q) \in Nat /\ t \in Streams
  BY <1>1, Bounds DEF Typed, PlaceOK, Streams
<1>3. q[e] \in Recs
  BY <1>1, <1>2
<1>4. 0 \in 0..Len(q[e].content)
  BY <1>3, RecordShape
<1>5. \A j \in 1..Len(q) : Mine(q, j, t) => j <= e
  BY <1>2, StreamRecord
<1>6. got[t] = Passed(q, e, 0, t)
  BY <1>1 DEF InStep, Heard
<1>7. replies = AnswersPast(q, e)
  BY <1>1, <1>2 DEF InStep, Replied
<1> HIDE DEF e, t
<1>8. \A j \in (e + 1)..Len(q) : Mine(q, j, t) => q[j].content = <<>>
  <2>1. ASSUME NEW j \in (e + 1)..Len(q) PROVE ~Mine(q, j, t)
    <3>1. j \in 1..Len(q) /\ ~(j <= e)
      BY <1>1, <1>2
    <3> QED BY <1>5, <3>1
  <2> QED BY <2>1
<1>9. Passed(q, e, 0, t) = Content(q, t)
  BY <1>1, <1>2, <1>4, <1>8, PassedWhole
<1>10. AnswersPast(q, Len(q)) = AnswersTo(q, q[1].id)
  <2>1. 0 \in 0..Len(q)
    BY <1>2
  <2> QED BY <1>2, <2>1, AnswersPrefix
<1> QED BY <1>1, <1>6, <1>7, <1>9, <1>10 DEF t

LEMMA HandlerPhase ==
    ASSUME Inv, Served, InHandler
    PROVE  /\ Typed /\ at = "app"
           /\ \E p, s \in 1..Len(Requests[server.q]) :
                 Spans(Requests[server.q], p, s) /\ Phase(Requests[server.q], p, s)
<1>1. Typed /\ Fine /\ at = "app" /\ at \in Live
  BY DEF Inv, InHandler, Live
<1> QED BY <1>1, ServedPhase

LEMMA InvStreams == Inv => StreamsIntact
<1>1. SUFFICES ASSUME Inv, Served, NEW type \in DOMAIN got
               PROVE  /\ IsPrefix(got[type], Input[server.q][type])
                      /\ AtEnd(type) => got[type] = Input[server.q][type]
  BY DEF StreamsIntact
<1>2. PICK q : q = Requests[server.q]
  OBVIOUS
<1>3. type \in {"STDIN", "DATA"}
  BY <1>1 DEF Inv, Typed, OtherOK
<1>4. Input[server.q][type] = Content(q, type)
  <2>1. server.q \in TameRequests
    BY <1>1 DEF Served
  <2>2. Input[server.q] = [t \in {"PARAMS", "STDIN", "DATA"} |-> Content(q, t)]
    BY <1>2, <2>1 DEF Input
  <2> QED BY <1>3, <2>2
<1>5. IsPrefix(got[type], Content(q, type))
  <2>1. SoFar(got, replies, q)
    BY <1>1, <1>2, Zenon DEF Inv, Fine
  <2> QED BY <1>3, <2>1 DEF SoFar
<1>6. ASSUME AtEnd(type) PROVE got[type] = Content(q, type)
  <2>1. InHandler /\ in.type = type /\ in.closed /\ in.errno = "0"
    BY <1>6 DEF AtEnd
  <2>2. Typed /\ at = "app" /\ \E p, s \in 1..Len(q) : Spans(q, p, s) /\ Phase(q, p, s)
    BY <1>1, <1>2, <2>1, HandlerPhase
  <2> QED BY <2>1, <2>2, EndIsWhole
<1> QED BY <1>4, <1>5, <1>6

LEMMA InvParams == Inv => ParamsIntact
<1>1. SUFFICES ASSUME Inv, Served, InHandler, in.errno = "0"
               PROVE  req.params = <<req.role>> \o Texts(Input[server.q]["PARAMS"])
  BY DEF ParamsIntact
<1>2. PICK q : q = Requests[server.q]
  OBVIOUS
<1>3. Input[server.q]["PARAMS"] = Content(q, "PARAMS")
  <2>1. server.q \in TameRequests
    BY <1>1 DEF Served
  <2>2. Input[server.q] = [t \in {"PARAMS", "STDIN", "DATA"} |-> Content(q, t)]
    BY <1>2, <2>1 DEF Input
  <2> QED BY <2>2
<1>4. Typed /\ at = "app" /\ \E p, s \in 1..Len(q) : Spans(q, p, s) /\ Phase(q, p, s)
  BY <1>1, <1>2, HandlerPhase
<1>5. PICK p, s \in 1..Len(q) : Spans(q, p, s) /\ Phase(q, p, s)
  BY <1>4
<1>6. PICK i \in 1..Len(q) : InStep(q, p, s, i)
  <2>1. ~Beginning(q)
    BY <1>4, Zenon DEF Beginning, Fresh
  <2> QED BY <1>1, <1>5, <2>1 DEF Phase, Halted, Straying, Final
<1>7. i >= p
  <2>1. in.type \in {"STDIN", "DATA"}
    BY <1>4 DEF Typed, PlaceOK
  <2>2. Lo(p, s, in.type) <= i
    BY <1>6 DEF InStep, Place
  <2>3. p \in Nat /\ s \in Nat /\ p < s
    BY <1>5, Bounds
  <2>4. Lo(p, s, in.type) = p \/ Lo(p, s, in.type) = s
    BY <2>1 DEF Lo
  <2> QED BY <2>2, <2>3, <2>4
<1> QED BY <1>3, <1>4, <1>5, <1>6, <1>7, ParamsWhole

LEMMA InvAnswers == Inv => AnswersInOrder
<1>1. SUFFICES ASSUME Inv, Served
               PROVE  /\ IsPrefix(replies, Output[server.q])
                      /\ AtEnd(LastStream) => replies = Output[server.q]
  BY DEF AnswersInOrder
<1>2. PICK q : q = Requests[server.q]
  OBVIOUS
<1>3. Output[server.q] = AnswersTo(q, q[1].id)
  BY <1>1, <1>2 DEF Served, Output
<1>4. IsPrefix(replies, AnswersTo(q, q[1].id))
  <2>1. SoFar(got, replies, q)
    BY <1>1, <1>2, Zenon DEF Inv, Fine
  <2> QED BY <2>1 DEF SoFar
<1>5. ASSUME AtEnd(LastStream) PROVE replies = AnswersTo(q, q[1].id)
  <2>1. InHandler /\ in.type = LastStream /\ in.closed /\ in.errno = "0"
    BY <1>5 DEF AtEnd
  <2>2. Typed /\ at = "app" /\ \E p, s \in 1..Len(q) : Spans(q, p, s) /\ Phase(q, p, s)
    BY <1>1, <1>2, <2>1, HandlerPhase
  <2> QED BY <2>1, <2>2, EndIsWhole
<1> QED BY <1>3, <1>4, <1>5

LEMMA InvRefused == Inv => NeverRefused
BY Zenon DEF Inv, Fine, NeverRefused

LEMMA InvWait == Inv => NoMutualWait
<1>1. SUFFICES ASSUME Inv, Served, \A r \in ToSet(Requests[server.q]) : r.type = "GET_VALUES" => r.pad > 0
               PROVE  ~MutualWait
  BY DEF NoMutualWait
<1>2. PICK q : q = Requests[server.q]
  OBVIOUS
<1>3. CASE at \in Live
  <2>1. Sending(q) /\ \E p, s \in 1..Len(q) : Spans(q, p, s) /\ Phase(q, p, s)
    BY <1>1, <1>2, <1>3, ServedPhase DEF Inv
  <2>2. PICK p, s \in 1..Len(q) : Spans(q, p, s) /\ Phase(q, p, s)
    BY <2>1
  <2> QED BY <1>1, <1>2, <2>1, <2>2, NoWait DEF Inv
<1>4. CASE at \notin Live
  BY <1>1, <1>4 DEF Inv, Typed, OtherOK, PlaceOK, MutualWait, Live
<1> QED BY <1>3, <1>4

(* The inductive invariant holds.                                           *)
LEMMA InvHolds == Spec => []Inv
<1>1. Init => Inv
  BY InitInv
<1>2. Inv /\ [Next]_vars => Inv'
  BY NextInv
<1> QED BY <1>1, <1>2, PTL DEF Spec

(* However the connection cuts the records (FillBuffProc) and whatever is    *)
(* interleaved with them, what FCGX_GetStr, FCGX_GetLine and FCGX_UnGetChar  *)
(* leave a handler with is a prefix of FCGI_STDIN or FCGI_DATA as sent, and  *)
(* all of it when the stream ends without an error: for every set of         *)
(* requests, every buffer and header size and every size of a read.          *)
THEOREM InputReadInOrder == Spec => []StreamsIntact
BY InvHolds, InvStreams, PTL

(* ReadParams gives a handler exactly the parameters that the web server     *)
(* sent, unless the stream has an error.                                     *)
THEOREM ParamsRead == Spec => []ParamsIntact
BY InvHolds, InvParams, PTL

(* ProcessManagementRecord and ProcessBeginRecord answer each record that    *)
(* wants it once and in order, all of them before the input has ended.       *)
THEOREM AnsweredInOrder == Spec => []AnswersInOrder
BY InvHolds, InvAnswers, PTL

(* FCGX_Accept_r gives up a request that the parser is up to only if the web *)
(* server is gone or a signal has interrupted the reading of it, and         *)
(* ProcessManagementRecord keeps within response[64].                        *)
THEOREM AcceptedUnlessGone == Spec => []NeverRefused
BY InvHolds, InvRefused, PTL

(* With FCGI_GET_VALUES padded, FillBuffProc never waits in OS_Read for a    *)
(* web server that waits for an answer to what it has sent.                  *)
THEOREM NoOneWaitsForTheOther == Spec => []NoMutualWait
BY InvHolds, InvWait, PTL
=============================================================================
