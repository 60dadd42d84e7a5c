----------------------------- MODULE PullProofs -----------------------------
(***************************************************************************)
(* Proofs about the replicator, for any number of documents, edits, runs    *)
(* and failures.                                                            *)
(***************************************************************************)
EXTENDS Pull, SequenceTheorems, FiniteSetTheorems, TLAPS

-----------------------------------------------------------------------------
(* Buffers.                                                                 *)

(* The buffer that put hands to the store is a sequence of cells, of the    *)
(* size the header announces.                                               *)
LEMMA PutRevsDataType ==
    ASSUME NEW S, Garbage \in S, NEW data \in Seq(S), NEW old \in S, NEW count \in Nat
    PROVE  /\ PutRevsData(data, old, count) \in Seq(S)
           /\ Len(PutRevsData(data, old, count)) = count + 1 + Len(data)
<1> DEFINE grown   == Resize(data, Len(data) + 1)
           moved   == Memmove(grown, 2, 1, Len(data))
           shifted == Memmove(moved, 2, 1, count)
           linked  == [shifted EXCEPT ![1] = old]
<1>1. PutRevsData(data, old, count) = Resize(linked, count + 1 + Len(data))
  BY DEF PutRevsData
<1>2. grown \in Seq(S) /\ Len(grown) = Len(data) + 1
  BY DEF Resize, Cell
<1> HIDE DEF grown
<1>3. moved \in Seq(S) /\ Len(moved) = Len(grown)
  BY <1>2 DEF Memmove, Cell
<1> HIDE DEF moved
<1>4. shifted \in Seq(S) /\ Len(shifted) = Len(moved)
  BY <1>3 DEF Memmove, Cell
<1> HIDE DEF shifted
<1>5. linked \in Seq(S)
  BY <1>2, <1>3, <1>4
<1> HIDE DEF linked
<1> QED BY <1>1, <1>5 DEF Resize, Cell

-----------------------------------------------------------------------------
(* Revisions and their lineage.                                             *)

LEMMA SelfAncestor == \A rev \in Seq(Edits) : IsAncestor(rev, rev)
BY SubSeqFull DEF IsAncestor, Ancestor

(* An edit makes a descendant, of the next generation.                      *)
LEMMA RevgenDescends ==
    ASSUME NEW parent \in Seq(Edits), NEW edit \in Edits
    PROVE  /\ la_revgen(parent, edit) \in Revisions
           /\ Len(la_revgen(parent, edit)) = Len(parent) + 1
           /\ IsAncestor(parent, la_revgen(parent, edit))
<1> DEFINE new == Append(parent, edit)
<1>1. /\ new \in Seq(Edits) /\ Len(new) = Len(parent) + 1 /\ Len(parent) \in Nat
      /\ \A i \in 1..Len(parent) : new[i] = parent[i]
  OBVIOUS
<1>2. new \in Revisions
  BY <1>1 DEF Revisions
<1> HIDE DEF new
<1> DEFINE sub == SubSeq(new, 1, Len(parent))
<1>3. sub \in Seq(Edits) /\ Len(sub) = Len(parent) /\ \A i \in 1..Len(parent) : sub[i] = new[i]
  BY <1>1
<1> HIDE DEF sub
<1>4. sub = parent
  BY <1>1, <1>3, SeqEqual
<1> QED BY <1>1, <1>2, <1>4 DEF la_revgen, IsAncestor, Ancestor, sub, new

(* The list of a revision and its ancestors.                                *)
LEMMA LineageEntries ==
    ASSUME NEW rev \in Revisions
    PROVE  /\ Lineage(rev) \in Seq(Revisions) /\ Len(Lineage(rev)) = Len(rev) /\ Len(rev) \in Nat \ {0}
           /\ Tail(Lineage(rev)) \in Seq(Revisions)
           /\ \A i \in 1..Len(rev) : /\ Lineage(rev)[i] = Ancestor(rev, Len(rev) - i + 1)
                                     /\ IsAncestor(Lineage(rev)[i], rev)
<1>1. rev \in Seq(Edits) /\ Len(rev) \in Nat \ {0}
  BY EmptySeq DEF Revisions
<1>2. ASSUME NEW n \in 1..Len(rev)
      PROVE  /\ Ancestor(rev, n) \in Revisions /\ Len(Ancestor(rev, n)) = n
             /\ IsAncestor(Ancestor(rev, n), rev)
  <2>1. SubSeq(rev, 1, n) \in Seq(Edits) /\ Len(SubSeq(rev, 1, n)) = n
    BY <1>1
  <2> QED BY <1>1, <2>1 DEF Ancestor, IsAncestor, Revisions
<1>3. \A i \in 1..Len(rev) : Len(rev) - i + 1 \in 1..Len(rev)
  BY <1>1
<1>4. \A i \in 1..Len(rev) : /\ Lineage(rev)[i] = Ancestor(rev, Len(rev) - i + 1)
                             /\ Lineage(rev)[i] \in Revisions
                             /\ IsAncestor(Lineage(rev)[i], rev)
  BY <1>2, <1>3 DEF Lineage
<1>5. Lineage(rev) \in Seq(Revisions) /\ Len(Lineage(rev)) = Len(rev)
  <2>1. \A i \in 1..Len(rev) : Ancestor(rev, Len(rev) - i + 1) \in Revisions
    BY <1>2, <1>3
  <2> QED BY <1>1, <2>1 DEF Lineage
<1>6. Tail(Lineage(rev)) \in Seq(Revisions)
  BY <1>1, <1>5, EmptySeq, HeadTailProperties
<1> QED BY <1>1, <1>4, <1>5, <1>6

(* la_storage_revs_overlap compares at least the first revision of its      *)
(* first list: if the local revisions continue the remote ones, the local   *)
(* revision is an ancestor of the remote one.                               *)
LEMMA OverlapIsAncestor ==
    ASSUME NEW rev \in Revisions, NEW S, NEW mine \in Revisions, mine \in S, NEW revs \in Seq(S),
           la_storage_revs_overlap(<<mine>> \o revs, Lineage(rev))
    PROVE  IsAncestor(mine, rev)
<1> DEFINE revs1 == <<mine>> \o revs
           revs2 == Lineage(rev)
<1>1. /\ revs1 \in Seq(S) /\ Len(revs1) = Len(revs) + 1 /\ Len(revs) \in Nat /\ revs1[1] = mine
      /\ revs2 \in Seq(Revisions) /\ Len(revs2) = Len(rev) /\ Len(rev) \in Nat \ {0}
  BY LineageEntries
<1> HIDE DEF revs1
<1>2. \A i \in 1..Len(rev) : IsAncestor(revs2[i], rev)
  BY LineageEntries
<1> HIDE DEF revs2
<1>3. PICK i \in 0..(Len(revs2) - 2) :
          LET n == IF Len(revs1) < Len(revs2) - i THEN Len(revs1) ELSE Len(revs2) - i
          IN  SubSeq(revs1, 1, n) = SubSeq(revs2, i + 1, i + n)
  BY DEF la_storage_revs_overlap, revs1, revs2
<1> DEFINE n == IF Len(revs1) < Len(revs2) - i THEN Len(revs1) ELSE Len(revs2) - i
<1>4. n \in Nat /\ n >= 1 /\ n <= Len(revs1) /\ i + n <= Len(revs2) /\ i + 1 \in 1..Len(rev) /\ i \in Nat
  BY <1>1
<1>5. SubSeq(revs1, 1, n) = SubSeq(revs2, i + 1, i + n)
  BY <1>3
<1> HIDE DEF n
<1>6. SubSeq(revs1, 1, n)[1] = revs1[1]
  BY <1>1, <1>4
<1>7. SubSeq(revs2, i + 1, i + n)[1] = revs2[i + 1]
  BY <1>1, <1>4
<1> QED BY <1>1, <1>2, <1>4, <1>5, <1>6, <1>7

-----------------------------------------------------------------------------
(* Objects that are written.                                                *)

LEMMA NewObjectType ==
    ASSUME NEW rev \in Revisions, NEW hist \in Seq(Revisions)
    PROVE  /\ NewObject(rev, hist) \in Objects
           /\ NewObject(rev, hist).rev = rev /\ NewObject(rev, hist).rev_count = Len(hist)
           /\ Len(NewObject(rev, hist).revs_data) = Len(hist) + 1
           /\ Len(hist) \in Nat
<1> DEFINE body == <<rev[Len(rev)]>>
           data == hist \o body
<1>1. rev \in Seq(Edits) /\ Len(rev) \in Nat \ {0}
  BY EmptySeq DEF Revisions
<1>2. body \in Seq(Cells) /\ Len(body) = 1 /\ hist \in Seq(Cells) /\ Len(hist) \in Nat
  BY <1>1 DEF Cells
<1> HIDE DEF body
<1>3. data \in Seq(Cells) /\ Len(data) = Len(hist) + 1
  <2>1. data \in Seq(Cells) /\ Len(data) = Len(hist) + Len(body)
    BY <1>2, ConcatProperties
  <2> QED BY <1>2, <2>1
<1>4. PICK deleted \in BOOLEAN : deleted = IsDelete(rev)
  BY Zenon DEF IsDelete
<1>5. NewObject(rev, hist) = [seq |-> 0, doc_seq |-> 0, deleted |-> deleted, rev |-> rev,
                              rev_count |-> Len(hist), revs_data |-> data]
  <2>1. la_storage_create_object(rev, body, hist) =
            [seq |-> 0, doc_seq |-> 0, deleted |-> FALSE, rev |-> rev,
             rev_count |-> Len(hist), revs_data |-> data]
    BY DEF la_storage_create_object
  <2>2. NewObject(rev, hist) = [la_storage_create_object(rev, body, hist) EXCEPT !.deleted = deleted]
    BY <1>4 DEF NewObject, body
  <2> HIDE DEF data
  <2> QED BY <2>1, <2>2
<1> HIDE DEF data
<1> QED BY <1>2, <1>3, <1>5 DEF Objects

(* The first revision, and one over the stored object.                      *)
LEMMA PutResultType ==
    ASSUME PullInv, NEW k \in Keys, NEW edit \in Edits
    PROVE  LET o == PutResult(k, edit) IN
           /\ o \in Objects /\ o.doc_seq = Generation(o.rev) /\ o.rev_count <= Len(o.revs_data)
           /\ local[k] # NoObj => IsAncestor(local[k].rev, o.rev)
<1> DEFINE o == PutResult(k, edit)
<1>1. /\ <<>> \in Seq(Edits) /\ <<>> \in Seq(Revisions) /\ Len(<<>>) = 0
      /\ edit \in Cells /\ Garbage \in Cells /\ Revisions \subseteq Cells
  BY DEF Cells
<1>2. CASE local[k] = NoObj
  <2> DEFINE rev == la_revgen(<<>>, edit)
             new == NewObject(rev, <<>>)
  <2>1. rev \in Revisions /\ Len(rev) = 1
    <3>1. rev \in Revisions /\ Len(rev) = Len(<<>>) + 1
      BY <1>1, RevgenDescends
    <3> QED BY <1>1, <3>1
  <2> HIDE DEF rev
  <2>2. new \in Objects /\ new.rev = rev /\ new.rev_count = 0 /\ Len(new.revs_data) = 1
    <3>1. /\ new \in Objects /\ new.rev = rev /\ new.rev_count = Len(<<>>)
          /\ Len(new.revs_data) = Len(<<>>) + 1
      BY <1>1, <2>1, NewObjectType
    <3> QED BY <1>1, <3>1
  <2>3. o = [new EXCEPT !.doc_seq = 1]
    BY <1>2 DEF PutResult, rev
  <2> HIDE DEF new, o
  <2> QED BY <1>2, <2>1, <2>2, <2>3 DEF Objects, Generation, o
<1>3. CASE local[k] # NoObj
  <2> DEFINE old  == local[k]
             rev  == la_revgen(old.rev, edit)
             new  == NewObject(rev, <<>>)
             data == PutRevsData(<<edit>>, old.rev, old.rev_count)
  <2>1. /\ old \in Objects /\ old.doc_seq \in Nat /\ old.rev \in Revisions /\ old.rev_count \in Nat
        /\ old.doc_seq = Len(old.rev)
    BY <1>3 DEF PullInv, TypeOK, Objects, GenerationMatches, Generation
  <2>2. rev \in Revisions /\ Len(rev) = Len(old.rev) + 1 /\ IsAncestor(old.rev, rev)
    BY <2>1, RevgenDescends DEF Revisions
  <2> HIDE DEF rev
  <2>3. new \in Objects /\ new.rev = rev
    BY <1>1, <2>2, NewObjectType
  <2>4. <<edit>> \in Seq(Cells) /\ Len(<<edit>>) = 1
    BY <1>1
  <2>5. data \in Seq(Cells) /\ Len(data) = old.rev_count + 2
    <3>1. data \in Seq(Cells) /\ Len(data) = old.rev_count + 1 + Len(<<edit>>)
      BY <1>1, <2>1, <2>4, PutRevsDataType, ZenonT(40)
    <3> QED BY <2>1, <2>4, <3>1
  <2>6. o = [new EXCEPT !.doc_seq = old.doc_seq + 1, !.rev_count = old.rev_count + 1, !.revs_data = data]
    BY <1>3 DEF PutResult, PutOver, rev
  <2> HIDE DEF new, o, data, old
  <2>7. /\ o \in Objects /\ o.doc_seq = old.doc_seq + 1 /\ o.rev = rev
        /\ o.rev_count = old.rev_count + 1 /\ o.revs_data = data
    <3>1. PICK n \in Nat, m \in Nat : n = old.doc_seq + 1 /\ m = old.rev_count + 1
      BY <2>1
    <3>2. o = [new EXCEPT !.doc_seq = n, !.rev_count = m, !.revs_data = data]
      BY <2>6, <3>1
    <3>3. data \in Seq(Cells)
      BY <2>5
    <3>4. o \in Objects /\ o.doc_seq = n /\ o.rev = new.rev /\ o.rev_count = m /\ o.revs_data = data
      BY <2>3, <3>2, <3>3 DEF Objects
    <3> QED BY <2>3, <3>1, <3>4
  <2> QED BY <2>1, <2>2, <2>5, <2>7 DEF Generation, o, old
<1> QED BY <1>2, <1>3

LEMMA ReplaceResultType ==
    ASSUME NEW rev \in Revisions
    PROVE  LET o == ReplaceResult(rev, Tail(Lineage(rev))) IN
           /\ o \in Objects /\ o.rev = rev /\ o.doc_seq = Generation(o.rev)
           /\ o.rev_count <= Len(o.revs_data)
<1> DEFINE hist == Tail(Lineage(rev))
           new  == NewObject(rev, hist)
           o    == ReplaceResult(rev, hist)
<1>1. hist \in Seq(Revisions) /\ Len(rev) \in Nat
  BY LineageEntries
<1> HIDE DEF hist
<1>2. /\ new \in Objects /\ new.rev = rev /\ new.rev_count = Len(hist) /\ Len(new.revs_data) = Len(hist) + 1
      /\ Len(hist) \in Nat
  BY <1>1, NewObjectType
<1>3. o = [new EXCEPT !.doc_seq = Len(rev)]
  BY DEF ReplaceResult, Generation
<1> HIDE DEF new
<1>4. /\ o \in Objects /\ o.rev = rev /\ o.doc_seq = Len(rev) /\ o.rev_count <= Len(o.revs_data)
  BY <1>1, <1>2, <1>3 DEF Objects
<1> QED BY <1>4 DEF Generation, hist

-----------------------------------------------------------------------------
(* The invariant.                                                           *)

GoodObject(o) == o \in Objects /\ o.doc_seq = Generation(o.rev) /\ o.rev_count <= Len(o.revs_data)

LocalOK ==
    /\ local \in [Keys -> Objects \cup {NoObj}]
    /\ GenerationMatches /\ HistoryFits

LEMMA PullInitInv == Init => PullInv
<1> SUFFICES ASSUME Init PROVE PullInv
  OBVIOUS
<1>1. TypeOK
  <2>1. dirty \in BOOLEAN
    BY Zenon DEF Init
  <2>2. todo \in Seq(Keys \X Revisions) /\ remote \in [Keys -> Seq(Edits)]
    BY DEF Init
  <2> QED BY <2>1, <2>2 DEF Init, TypeOK, Places
<1>2. GenerationMatches /\ HasNewest /\ HistoryFits /\ Looked
  BY DEF Init, GenerationMatches, HasNewest, HistoryFits, Looked, Handling
<1> QED BY <1>1, <1>2 DEF PullInv

LEMMA FirstChange ==
    ASSUME PullInv, todo # <<>>
    PROVE  Key \in Keys /\ thatrev \in Revisions /\ Tail(todo) \in Seq(Keys \X Revisions)
<1>1. todo \in Seq(Keys \X Revisions) /\ Len(todo) \in Nat \ {0}
  BY EmptySeq DEF PullInv, TypeOK
<1>2. todo[1] \in Keys \X Revisions
  BY <1>1
<1>3. Tail(todo) \in Seq(Keys \X Revisions)
  BY <1>1, HeadTailProperties
<1> QED BY <1>2, <1>3 DEF Key, thatrev

(* A document is written with an object that is right.                      *)
LEMMA WrittenOK ==
    ASSUME PullInv, NEW k \in Keys, NEW o, GoodObject(o), local' = [local EXCEPT ![k] = o]
    PROVE  LocalOK' /\ local'[k] # NoObj /\ \A j \in Keys : local[j] # NoObj => local'[j] # NoObj
BY ObjectAssumption DEF PullInv, TypeOK, GoodObject, LocalOK, GenerationMatches, HistoryFits

LEMMA UnwrittenOK ==
    ASSUME PullInv, UNCHANGED local
    PROVE  LocalOK'
BY DEF PullInv, TypeOK, LocalOK, GenerationMatches, HistoryFits

(* The change is done with, whatever was written.                           *)
LEMMA ContinueInv ==
    ASSUME PullInv, todo # <<>>, Continue, LocalOK', dirty' \in BOOLEAN,
           UNCHANGED <<remote, rseq, lastseq, since>>
    PROVE  PullInv'
<1>1. TypeOK'
  BY FirstChange DEF PullInv, TypeOK, Continue, LocalOK, Places
<1>2. HasNewest' /\ Looked'
  BY DEF PullInv, HasNewest, Looked, Handling, Continue
<1> QED BY <1>1, <1>2 DEF PullInv, LocalOK

LEMMA rnowType == PullInv => rnow \in Nat /\ \A k \in Keys : rseq[k] <= rnow
<1> SUFFICES ASSUME PullInv PROVE rnow \in Nat /\ \A k \in Keys : rseq[k] <= rnow
  OBVIOUS
<1>1. CASE Keys = {}
  BY <1>1 DEF rnow
<1>2. CASE Keys # {}
  <2> DEFINE newest == CHOOSE k \in Keys : \A j \in Keys : rseq[j] <= rseq[k]
  <2>1. newest \in Keys /\ \A j \in Keys : rseq[j] <= rseq[newest]
    BY <1>2 DEF PullInv, HasNewest
  <2>2. rnow = rseq[newest]
    BY <1>2 DEF rnow
  <2> HIDE DEF newest
  <2> QED BY <2>1, <2>2 DEF PullInv, TypeOK
<1> QED BY <1>1, <1>2

LEMMA NewLastSeqType == PullInv => NewLastSeq \in Nat \cup {NoSeq}
BY rnowType DEF NewLastSeq

LEMMA LocalEditInv ==
    ASSUME PullInv, NEW k \in Keys, NEW edit \in Edits, LocalEdit(k, edit)
    PROVE  PullInv'
<1> DEFINE o == PutResult(k, edit)
<1>1. GoodObject(o)
  BY PutResultType DEF GoodObject
<1>2. local' = [local EXCEPT ![k] = o] /\ UNCHANGED <<remote, rseq, pc, todo, got, lastseq, since, dirty, seen>>
  BY DEF LocalEdit, server
<1> HIDE DEF o
<1>3. LocalOK' /\ \A j \in Keys : local[j] # NoObj => local'[j] # NoObj
  BY <1>1, <1>2, WrittenOK
<1>4. TypeOK' /\ HasNewest'
  BY <1>2, <1>3 DEF PullInv, TypeOK, HasNewest, LocalOK
<1>5. Looked'
  BY <1>2, <1>3, FirstChange DEF PullInv, Looked, Key, thatrev
<1> QED BY <1>3, <1>4, <1>5 DEF PullInv, LocalOK

LEMMA RemoteEditInv ==
    ASSUME PullInv, NEW k \in Keys, NEW edit \in Edits, RemoteEdit(k, edit)
    PROVE  PullInv'
<1>1. /\ remote' = [remote EXCEPT ![k] = la_revgen(remote[k], edit)]
      /\ rseq' = [rseq EXCEPT ![k] = rnow + 1]
      /\ UNCHANGED <<local, pc, todo, got, lastseq, since, dirty, seen>>
  BY DEF RemoteEdit
<1>2. la_revgen(remote[k], edit) \in Seq(Edits)
  BY RevgenDescends DEF PullInv, TypeOK, Revisions
<1>3. rnow \in Nat /\ \A j \in Keys : rseq[j] <= rnow
  BY rnowType
<1>4. TypeOK'
  BY <1>1, <1>2, <1>3 DEF PullInv, TypeOK
<1>5. HasNewest'
  <2>1. \A j \in Keys : rseq'[j] <= rseq'[k]
    BY <1>1, <1>3 DEF PullInv, TypeOK
  <2> QED BY <2>1 DEF HasNewest
<1>6. GenerationMatches' /\ HistoryFits' /\ Looked'
  BY <1>1 DEF PullInv, GenerationMatches, HistoryFits, Looked, Key, thatrev
<1> QED BY <1>4, <1>5, <1>6 DEF PullInv

(* The feed names documents with their revisions.                           *)
LEMMA FeedType ==
    ASSUME PullInv, NEW s, Feed(s)
    PROVE  todo' \in Seq(Keys \X Revisions)
<1> DEFINE n == Cardinality(Changed(s))
<1>1. Changed(s) \subseteq Keys
  BY DEF Changed
<1>2. n \in Nat
  BY <1>1, PullAssumption, FS_Subset, FS_CardinalityType
<1>3. PICK order \in [1..n -> Changed(s)] : todo' = [i \in 1..n |-> <<order[i], remote[order[i]]>>]
  BY DEF Feed
<1> HIDE DEF n
<1>4. \A i \in 1..n : <<order[i], remote[order[i]]>> \in Keys \X Revisions
  BY <1>3 DEF Changed, PullInv, TypeOK, Revisions
<1> QED BY <1>2, <1>3, <1>4

LEMMA RunInv ==
    ASSUME PullInv, RunStarts \/ RunFails \/ RunEnds
    PROVE  PullInv'
<1>1. /\ UNCHANGED <<local, remote, rseq, got, seen>> /\ pc' \in {"change", "idle"}
      /\ dirty' = dirty \/ dirty' = FALSE
      /\ since' \in (Nat \cup {NoSeq}) \X (Nat \cup {NoSeq})
      /\ lastseq' \in Nat \cup {NoSeq}
  <2>1. lastseq \in Nat \cup {NoSeq} /\ since \in (Nat \cup {NoSeq}) \X (Nat \cup {NoSeq})
    BY DEF PullInv, TypeOK
  <2>2. <<IF since[1] = NoSeq THEN lastseq ELSE since[1], lastseq>>
            \in (Nat \cup {NoSeq}) \X (Nat \cup {NoSeq})
    BY <2>1
  <2> QED BY <2>1, <2>2, NewLastSeqType DEF RunStarts, RunFails, RunEnds, server
<1>2. todo' \in Seq(Keys \X Revisions)
  <2>1. CASE RunStarts
    BY <2>1, FeedType DEF RunStarts
  <2>2. CASE RunFails \/ RunEnds
    BY <2>2 DEF RunFails, RunEnds, PullInv, TypeOK
  <2> QED BY <2>1, <2>2
<1>3. dirty' \in BOOLEAN
  BY <1>1, Zenon DEF PullInv, TypeOK
<1>4. TypeOK'
  BY <1>1, <1>2, <1>3 DEF PullInv, TypeOK, Places
<1>5. GenerationMatches' /\ HistoryFits' /\ HasNewest' /\ Looked'
  BY <1>1 DEF PullInv, GenerationMatches, HistoryFits, HasNewest, Looked, Handling
<1> QED BY <1>4, <1>5 DEF PullInv

(* The puller goes on with the same change.                                 *)
LEMMA SameChangeInv ==
    ASSUME PullInv, todo # <<>>, UNCHANGED <<local, remote, rseq, lastseq, since, dirty, todo>>,
           pc' \in Places, got' \in Revisions \cup {NoRev}, seen' \in Objects \cup {NoObj},
           got' = NoRev => seen' = NoObj \/ seen'.deleted,
           got' # NoRev => seen' # NoObj /\ got' = seen'.rev /\ local[Key] # NoObj,
           (pc' = "replace" /\ got' # NoRev) => IsAncestor(got', thatrev)
    PROVE  PullInv'
<1>1. TypeOK'
  BY DEF PullInv, TypeOK
<1>2. GenerationMatches' /\ HistoryFits' /\ HasNewest'
  BY DEF PullInv, GenerationMatches, HistoryFits, HasNewest
<1>3. Looked'
  BY DEF Looked, Key, thatrev, IsAncestor, Ancestor
<1> QED BY <1>1, <1>2, <1>3 DEF PullInv

LEMMA GetOutcome ==
    ASSUME PullInv, NEW k \in Keys
    PROVE  /\ la_db_get(k) = "NOT_FOUND" => local[k] = NoObj \/ local[k].deleted
           /\ la_db_get(k) = "OK" => local[k] # NoObj /\ ~local[k].deleted
<1>1. CASE local[k] = NoObj
  BY <1>1 DEF la_db_get
<1>2. CASE local[k] # NoObj /\ local[k].deleted
  BY <1>2 DEF la_db_get
<1>3. CASE local[k] # NoObj /\ ~local[k].deleted
  BY <1>3 DEF la_db_get
<1> QED BY <1>1, <1>2, <1>3

LEMMA ChangeInv ==
    ASSUME PullInv, Change
    PROVE  PullInv'
<1>1. todo # <<>> /\ UNCHANGED <<local, remote, rseq, lastseq, since, dirty>>
  BY DEF Change, server
<1>2. Key \in Keys /\ local[Key] \in Objects \cup {NoObj} /\ dirty \in BOOLEAN
  BY <1>1, FirstChange DEF PullInv, TypeOK
<1>3. CASE Continue
  BY <1>1, <1>2, <1>3, ContinueInv, UnwrittenOK
<1>4. CASE ~Continue
  <2> DEFINE res == la_db_get(Key)
  <2>1. /\ res = "NOT_FOUND" \/ res = "OK"
        /\ pc' = "fetch" /\ seen' = local[Key] /\ UNCHANGED todo
        /\ got' = IF res = "OK" THEN local[Key].rev ELSE NoRev
    BY <1>4 DEF Change
  <2>2. /\ res = "NOT_FOUND" => local[Key] = NoObj \/ local[Key].deleted
        /\ res = "OK" => local[Key] # NoObj /\ local[Key] \in Objects
    BY <1>2, GetOutcome
  <2> HIDE DEF res
  <2>3. res = "OK" => local[Key].rev \in Revisions /\ local[Key].rev # NoRev
    BY <2>2, PullAssumption DEF Objects
  <2> QED BY <1>1, <1>2, <2>1, <2>2, <2>3, SameChangeInv DEF Places
<1> QED BY <1>3, <1>4

(* When the fetched revision is to replace the local one, the local one is  *)
(* its ancestor.                                                            *)
LEMMA FetchedInv ==
    ASSUME PullInv, Fetched
    PROVE  PullInv'
<1>1. /\ pc = "fetch" /\ UNCHANGED <<local, remote, rseq, lastseq, since, dirty>>
  BY DEF Fetched, server
<1>2. /\ todo # <<>> /\ (got = NoRev => seen = NoObj \/ seen.deleted)
      /\ (got # NoRev => seen # NoObj /\ got = seen.rev /\ local[Key] # NoObj)
      /\ got \in Revisions \cup {NoRev} /\ seen \in Objects \cup {NoObj}
  BY <1>1 DEF PullInv, Looked, Handling, TypeOK
<1>3. CASE Continue
  BY <1>1, <1>2, <1>3, ContinueInv, UnwrittenOK DEF PullInv, TypeOK
<1>4. CASE ~Continue
  <2>0. PICK hist \in Histories :
              /\ pc' = IF got = NoRev THEN "replace" ELSE Verdict(hist)
              /\ UNCHANGED <<todo, got, seen>>
    BY <1>4 DEF Fetched
  <2> DEFINE next == IF got = NoRev THEN "replace" ELSE Verdict(hist)
  <2>1. pc' = next /\ UNCHANGED <<todo, got, seen>>
    BY <2>0
  <2>2. next \in Places
    BY DEF Verdict, Places
  <2>3. ASSUME next = "replace", got # NoRev PROVE IsAncestor(got, thatrev)
    <3>1. /\ Key \in Keys /\ thatrev \in Revisions /\ got \in Revisions
          /\ local[Key] \in Objects /\ local[Key].rev_count <= Len(local[Key].revs_data)
      BY <1>2, <2>3, FirstChange DEF PullInv, TypeOK, HistoryFits
    <3>2. la_storage_revs_overlap(LocalRevs(hist), Lineage(thatrev))
      BY <2>3 DEF Verdict
    <3>3. got \in Cells /\ hist \in Seq(Cells)
      <4>1. local[Key].revs_data \in Seq(Cells) /\ local[Key].rev_count \in Nat
        BY <3>1 DEF Objects
      <4>2. ObjectRevs(local[Key]) \in Seq(Cells) /\ <<>> \in Seq(Cells)
        BY <3>1, <4>1 DEF ObjectRevs, Cells
      <4> QED BY <3>1, <4>2 DEF Histories, Cells
    <3> QED BY <3>1, <3>2, <3>3, OverlapIsAncestor DEF LocalRevs
  <2> HIDE DEF next
  <2> QED BY <1>1, <1>2, <2>1, <2>2, <2>3, SameChangeInv
<1> QED BY <1>3, <1>4

LEMMA AskInv ==
    ASSUME PullInv, Ask \/ AskFails
    PROVE  PullInv'
<1>1. pc = "ask" /\ UNCHANGED <<local, remote, rseq, lastseq, since, dirty>>
  BY DEF Ask, AskFails, server
<1>2. /\ todo # <<>> /\ (got = NoRev => seen = NoObj \/ seen.deleted)
      /\ (got # NoRev => seen # NoObj /\ got = seen.rev /\ local[Key] # NoObj)
      /\ got \in Revisions \cup {NoRev} /\ seen \in Objects \cup {NoObj}
  BY <1>1 DEF PullInv, Looked, Handling, TypeOK
<1>3. CASE Continue
  BY <1>1, <1>2, <1>3, ContinueInv, UnwrittenOK DEF PullInv, TypeOK
<1>4. CASE ~Continue
  <2>1. pc' \in {"theirs", "merged", "dead"} /\ UNCHANGED <<todo, got, seen>>
    BY <1>4, PullAssumption DEF Ask, AskFails, Choices
  <2> QED BY <1>1, <1>2, <2>1, SameChangeInv DEF Places
<1> QED BY <1>3, <1>4

LEMMA WriteInv ==
    ASSUME PullInv, Replaced \/ Merged
    PROVE  PullInv'
<1>1. /\ todo # <<>> /\ Continue /\ UNCHANGED <<remote, rseq, lastseq, since, dirty>>
  BY DEF PullInv, Looked, Handling, Replaced, Merged, server
<1>2. Key \in Keys /\ thatrev \in Revisions
  BY <1>1, FirstChange
<1>3. LocalOK'
  <2>1. CASE Replaced
    <3> DEFINE o == ReplaceResult(thatrev, Tail(Lineage(thatrev)))
    <3>1. GoodObject(o)
      BY <1>2, ReplaceResultType DEF GoodObject
    <3>2. local' = [local EXCEPT ![Key] = o]
      BY <2>1 DEF Replaced
    <3> HIDE DEF o
    <3> QED BY <1>2, <3>1, <3>2, WrittenOK
  <2>2. CASE Merged
    <3>1. PICK edit \in Edits : local' = IF local[Key].rev = got
                                         THEN [local EXCEPT ![Key] = PutResult(Key, edit)]
                                         ELSE local
      BY <2>2 DEF Merged
    <3> DEFINE o == PutResult(Key, edit)
    <3>2. GoodObject(o)
      BY <1>2, PutResultType DEF GoodObject
    <3> HIDE DEF o
    <3>3. CASE local' = [local EXCEPT ![Key] = o]
      BY <1>2, <3>2, <3>3, WrittenOK
    <3>4. CASE local' = local
      BY <3>4, UnwrittenOK
    <3> QED BY <3>1, <3>3, <3>4 DEF o
  <2> QED BY <2>1, <2>2
<1> QED BY <1>1, <1>3, ContinueInv DEF PullInv, TypeOK

LEMMA SkipInv ==
    ASSUME PullInv, ChangeSkipped \/ FetchFails \/ FetchUseless \/ WriteFails
    PROVE  PullInv'
<1>1. /\ todo # <<>> /\ Continue /\ UNCHANGED <<local, remote, rseq, lastseq, since>>
  BY DEF PullInv, Looked, Handling, ChangeSkipped, FetchFails, FetchUseless, WriteFails, server
<1>2. dirty' \in {dirty, TRUE, FALSE}
  BY DEF ChangeSkipped, FetchFails, FetchUseless, WriteFails
<1>3. dirty' \in BOOLEAN
  BY <1>2, Zenon DEF PullInv, TypeOK
<1> QED BY <1>1, <1>3, ContinueInv, UnwrittenOK

LEMMA PullNextInv == PullInv /\ [Next]_vars => PullInv'
<1> SUFFICES ASSUME PullInv, [Next]_vars PROVE PullInv'
  OBVIOUS
<1>1. CASE Puller
  BY <1>1, RunInv, ChangeInv, SkipInv, FetchedInv, AskInv, WriteInv DEF Puller
<1>2. CASE Others
  BY <1>2, LocalEditInv, RemoteEditInv DEF Others
<1>3. CASE UNCHANGED vars
  BY <1>3 DEF vars, PullInv, TypeOK, GenerationMatches, HasNewest, HistoryFits, Looked, Key, thatrev
<1> QED BY <1>1, <1>2, <1>3 DEF Next, Dead

LEMMA PullInvHolds == Spec => []PullInv
<1>1. Init => PullInv
  BY PullInitInv
<1>2. PullInv /\ [Next]_vars => PullInv'
  BY PullNextInv
<1> QED BY <1>1, <1>2, PTL DEF Spec

-----------------------------------------------------------------------------
(* The puller's variables keep their types whatever the server, the network *)
(* and the application do; in particular what la_db_replace writes and what *)
(* la_db_put writes over it is always an object of the driver's layout.     *)
THEOREM PullTypeCorrect == Spec => []TypeOK
<1>1. PullInv => TypeOK
  BY DEF PullInv
<1> QED BY <1>1, PullInvHolds, PTL

(* The document sequence is the generation of the stored revision, after    *)
(* any mixture of do_la_db_put, la_db_replace and merged documents.         *)
THEOREM SequenceIsGeneration == Spec => []GenerationMatches
<1>1. PullInv => GenerationMatches
  BY DEF PullInv
<1> QED BY <1>1, PullInvHolds, PTL

(* A step that writes nothing, or the same document, loses nothing.         *)
LEMMA UnwrittenKept ==
    ASSUME PullInv, NEW k \in Keys, local[k] # NoObj, local'[k] = local[k]
    PROVE  IsAncestor(local[k].rev, local'[k].rev)
<1>1. local[k].rev \in Revisions
  BY DEF PullInv, TypeOK, Objects
<1> QED BY <1>1, SelfAncestor DEF Revisions

(* An edit, or a merged document put on the stored revision, descends from  *)
(* what it replaces.                                                        *)
LEMMA PutKept ==
    ASSUME PullInv, NEW j \in Keys, NEW edit \in Edits, NEW k \in Keys, local[k] # NoObj,
           local' = [local EXCEPT ![j] = PutResult(j, edit)]
    PROVE  IsAncestor(local[k].rev, local'[k].rev)
<1>1. local \in [Keys -> Objects \cup {NoObj}]
  BY DEF PullInv, TypeOK
<1>2. CASE k = j
  <2> DEFINE o == PutResult(j, edit)
  <2>1. local[j] # NoObj => IsAncestor(local[j].rev, o.rev)
    BY PutResultType
  <2>2. local'[k] = o
    BY <1>1, <1>2
  <2> HIDE DEF o
  <2> QED BY <1>2, <2>1, <2>2
<1>3. CASE k # j
  BY <1>1, <1>3, UnwrittenKept
<1> QED BY <1>2, <1>3

(* la_db_replace writes without a check, and still loses nothing that the   *)
(* puller's verdict was about.                                              *)
LEMMA ReplaceKept ==
    ASSUME PullInv, Replaced, NEW k \in Keys, local[k] # NoObj
    PROVE  \/ IsAncestor(local[k].rev, local'[k].rev)
           \/ pc = "theirs" \/ local[k].deleted \/ Raced
<1>1. local \in [Keys -> Objects \cup {NoObj}]
  BY DEF PullInv, TypeOK
<1>2. pc \in Handling
  BY DEF Replaced, Handling
<1>3. Key \in Keys /\ thatrev \in Revisions
  BY <1>2, FirstChange DEF PullInv, Looked
<1> DEFINE o == ReplaceResult(thatrev, Tail(Lineage(thatrev)))
<1>4. o.rev = thatrev
  BY <1>3, ReplaceResultType
<1>5. local' = [local EXCEPT ![Key] = o]
  BY DEF Replaced
<1> HIDE DEF o
<1>6. CASE k # Key
  <2>1. local'[k] = local[k]
    BY <1>1, <1>3, <1>5, <1>6
  <2> QED BY <2>1, UnwrittenKept
<1>7. CASE k = Key /\ pc = "replace" /\ local[Key] = seen
  <2>1. local'[k].rev = thatrev
    BY <1>1, <1>3, <1>4, <1>5, <1>7
  <2>2. CASE got = NoRev
    BY <1>2, <1>7, <2>2 DEF PullInv, Looked
  <2>3. CASE got # NoRev
    <3>1. got = seen.rev /\ IsAncestor(got, thatrev)
      BY <1>2, <1>7, <2>3 DEF PullInv, Looked
    <3> QED BY <1>7, <2>1, <3>1
  <2> QED BY <2>2, <2>3
<1> QED BY <1>6, <1>7 DEF Replaced, Raced

(* Local edits get lost only by the resolver's answer, after a deletion, or *)
(* in the window between la_db_get and la_db_replace of pull.c: every other *)
(* write of the puller and of the application moves a document to a         *)
(* descendant of the revision it had.                                       *)
THEOREM EditsAreNotLost == Spec => NoSilentLoss
<1> DEFINE Kept == \A k \in Keys :
          (local[k] # NoObj /\ ~IsAncestor(local[k].rev, local'[k].rev)) =>
              pc = "theirs" \/ local[k].deleted \/ Raced
<1>1. ASSUME PullInv, [Next]_vars PROVE Kept
  <2> SUFFICES ASSUME NEW k \in Keys, local[k] # NoObj, ~IsAncestor(local[k].rev, local'[k].rev)
               PROVE  pc = "theirs" \/ local[k].deleted \/ Raced
    OBVIOUS
  <2>1. local' # local
    BY <1>1, UnwrittenKept
  <2>2. CASE Replaced
    BY <1>1, <2>2, ReplaceKept
  <2>3. CASE Merged
    <3>1. Key \in Keys
      BY <1>1, <2>3, FirstChange DEF Merged, PullInv, Looked, Handling
    <3>2. PICK edit \in Edits : local' = [local EXCEPT ![Key] = PutResult(Key, edit)]
      BY <2>1, <2>3 DEF Merged
    <3> QED BY <1>1, <3>1, <3>2, PutKept
  <2>4. CASE \E j \in Keys, edit \in Edits : LocalEdit(j, edit)
    <3>1. PICK j \in Keys, edit \in Edits : local' = [local EXCEPT ![j] = PutResult(j, edit)]
      BY <2>4 DEF LocalEdit
    <3> QED BY <1>1, <3>1, PutKept
  <2>5. Replaced \/ Merged \/ (\E j \in Keys, edit \in Edits : LocalEdit(j, edit))
    BY <1>1, <2>1 DEF Next, Puller, Others, Dead, vars, RunStarts, RunFails, RunEnds, Change,
                      ChangeSkipped, FetchFails, FetchUseless, Fetched, AskFails, Ask,
                      WriteFails, RemoteEdit
  <2> QED BY <2>2, <2>3, <2>4, <2>5
<1>2. PullInv /\ [Next]_vars => [Kept]_vars
  BY <1>1
<1> QED BY <1>2, PullInvHolds, PTL DEF Spec, NoSilentLoss
=============================================================================
