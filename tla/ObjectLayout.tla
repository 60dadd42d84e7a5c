---------------------------- MODULE ObjectLayout ----------------------------
(***************************************************************************)
(* The in-memory and on-disk layout of a stored object: a fixed header     *)
(* followed by revs_data, a flexible array that holds rev_count historical *)
(* revisions and then the document body (Storage/ObjectStore.h).           *)
(*                                                                         *)
(* The unit of the model is one cell of LA_OBJECT_REVISION_LEN bytes: a    *)
(* historical revision is one cell, a body is a sequence of cells.  A cell *)
(* that is read outside the allocation, or that a byte-granular move has   *)
(* torn apart, holds Garbage.                                              *)
(***************************************************************************)
EXTENDS Integers, Sequences

CONSTANT Garbage

-----------------------------------------------------------------------------
(* Memory: what realloc, memmove and memcpy do to a buffer of cells.        *)

(* Reading cell i of a buffer; past the allocation nothing is known.        *)
Cell(buf, i) == IF i \in 1..Len(buf) THEN buf[i] ELSE Garbage

(* The first n cells of a buffer, whatever n is: realloc to n cells, and    *)
(* also what the store copies when it is told that the value has n cells.   *)
Resize(buf, n) == [i \in 1..n |-> Cell(buf, i)]

(* memmove(&buf[dst], &buf[src], n cells); writes past the end are lost.    *)
Memmove(buf, dst, src, n) ==
    [i \in 1..Len(buf) |->
        IF i \in dst..(dst + n - 1) THEN Cell(buf, src + i - dst) ELSE buf[i]]

-----------------------------------------------------------------------------
(* The accessors of ObjectStore.h.                                          *)

(* la_storage_object_get_data: the body starts after rev_count cells.       *)
la_storage_object_get_data(o) ==
    SubSeq(o.revs_data, o.rev_count + 1, Len(o.revs_data))

(* The historical revisions that get_all_revs copies out of revs_data.      *)
ObjectRevs(o) == SubSeq(o.revs_data, 1, o.rev_count)

(* la_storage_create_object: header zeroed, then the current revision, the  *)
(* revision list and the body.                                              *)
la_storage_create_object(rev, data, revs) ==
    [seq |-> 0, doc_seq |-> 0, deleted |-> FALSE, rev |-> rev,
     rev_count |-> Len(revs), revs_data |-> revs \o data]

-----------------------------------------------------------------------------
(* Mutant of PutRevsData: the body is not moved up before the previous      *)
(* revision is copied in.                                                   *)
PutRevsDataOverwrites(data, oldrev, count) ==
    LET grown   == Resize(data, Len(data) + 1)
        shifted == Memmove(grown, 2, 1, count)
        linked  == [shifted EXCEPT ![1] = oldrev]
    IN  Resize(linked, count + 1 + Len(data))

(* What the BDB driver's put does to the new object's buffer when it        *)
(* updates a stored object whose revision is `oldrev' and whose header      *)
(* counts `count' historical revisions.  The new object was created without *)
(* history, so its buffer is its body:                                      *)
(*   grown   realloc by one cell                                            *)
(*   moved   the body moved up by one cell                                  *)
(*   shifted rev_count is now count + 1, and count cells are moved up       *)
(*   linked  the previous revision copied into the first cell               *)
(* The store is then told that the value has count + 1 + Len(data) cells.   *)
PutRevsData(data, oldrev, count) ==
    LET grown   == Resize(data, Len(data) + 1)
        moved   == Memmove(grown, 2, 1, Len(data))
        shifted == Memmove(moved, 2, 1, count)
        linked  == [shifted EXCEPT ![1] = oldrev]
    IN  Resize(linked, count + 1 + Len(data))

(* The object that put writes over `old': `o' is the new object, created    *)
(* from `body' without history.                                             *)
PutOver(o, old, body) ==
    [o EXCEPT !.doc_seq = old.doc_seq + 1,
              !.rev_count = old.rev_count + 1,
              !.revs_data = PutRevsData(body, old.rev, old.rev_count)]

(* What set_revs does to the cells of a stored object.  The shift is        *)
(* counted in revisions but applied in bytes, so unless it is zero every    *)
(* cell the body touches is torn; rev_count itself is never updated.        *)
SetRevsData(o, revs) ==
    LET shift == Len(revs) - o.rev_count
        size  == Len(o.revs_data) + (IF shift > 0 THEN 1 ELSE 0)
    IN  IF shift = 0
        THEN revs \o la_storage_object_get_data(o)
        ELSE [i \in 1..size |->
                 IF i <= Len(revs) THEN revs[i]
                 ELSE IF i < o.rev_count THEN o.revs_data[i]
                 ELSE Garbage]
=============================================================================
