-------------------------------- MODULE Revs --------------------------------
(***************************************************************************)
(* Revisions of a document.  A revision identifier is the MD5 digest of the *)
(* parent revision, its generation, the deleted flag and the body           *)
(* (la_revgen), so it stands for the whole chain of edits that led to it:   *)
(* a revision is modelled as that chain, oldest edit first.  Two replicas   *)
(* that make the same edits produce the same revision, and one revision is  *)
(* an ancestor of another exactly when it is a prefix of it.                *)
(***************************************************************************)
EXTENDS Integers, Sequences

CONSTANTS Edits,    \* the bodies a caller can write
          Deletion  \* the edit that leaves a tombstone

ASSUME DeletionAssumption == Deletion \in Edits

Revisions == Seq(Edits) \ {<<>>}

(* The revision of `edit' applied to the revision `parent' (<<>> when there *)
(* is none); digests are taken to be free of collisions.                    *)
la_revgen(parent, edit) == Append(parent, edit)

(* The generation: the number before the dash that la_rev_scan reads.       *)
Generation(rev) == Len(rev)

IsDelete(rev) == rev[Len(rev)] = Deletion

(* The first n edits of a revision.                                         *)
Ancestor(rev, n) == SubSeq(rev, 1, n)

(* A revision is its own ancestor here.                                     *)
IsAncestor(old, new) == Len(old) <= Len(new) /\ Ancestor(new, Len(old)) = old

(* Neither revision has seen the other's edits.                             *)
Forked(rev1, rev2) == ~IsAncestor(rev1, rev2) /\ ~IsAncestor(rev2, rev1)

(* The revision and all its ancestors, newest first: the list that a server *)
(* sends under _revisions.                                                  *)
Lineage(rev) == [i \in 1..Len(rev) |-> Ancestor(rev, Len(rev) - i + 1)]

-----------------------------------------------------------------------------
(* Mutant of la_storage_revs_overlap: any common revision will do.          *)
AnyRevInCommon(revs1, revs2) ==
    \E i \in 1..Len(revs1), j \in 1..Len(revs2) : revs1[i] = revs2[j]

(* Whether revs1, as far as it goes, continues revs2 from one of its        *)
(* entries on.  The last entry of revs2 is never tried.                     *)
la_storage_revs_overlap(revs1, revs2) ==
    \E i \in 0..(Len(revs2) - 2) :
        LET n == IF Len(revs1) < Len(revs2) - i THEN Len(revs1) ELSE Len(revs2) - i
        IN  SubSeq(revs1, 1, n) = SubSeq(revs2, i + 1, i + n)
=============================================================================
