---------------------------- MODULE ObjectStore ----------------------------
(***************************************************************************)
(* What an object store driver promises its callers (la_object_store_driver *)
(* in Storage/ObjectStore.h): every operation takes effect at one instant,  *)
(* the one at which its result becomes known.  `val' is what the store      *)
(* holds for each key, `res' the last result that was given and to whom.    *)
(*                                                                         *)
(* A value is the part of the header that decides the outcome of later      *)
(* operations: the current revision, the document sequence and the deleted  *)
(* flag.                                                                    *)
(***************************************************************************)
EXTENDS Naturals

CONSTANTS Threads, Keys, Revs,
          DocSeqs,    \* the document sequences a caller of replace may dictate
          NoRev,      \* a NULL revision argument
          NoObj       \* nothing stored under a key, or nothing returned

VARIABLES val, res

avars == <<val, res>>

Summary(rev, n, del) == [rev |-> rev, doc_seq |-> n, deleted |-> del]

Init == /\ val = [k \in Keys |-> NoObj]
        /\ res = NoObj

Answer(t, op, k, rev, code, out) ==
    res' = [thread |-> t, op |-> op, key |-> k, rev |-> rev, code |-> code, out |-> out]

(* put: the caller names the revision it believes is current.  Creating an  *)
(* object starts its document sequence, updating one advances it by one.    *)
Put(t, k, rev) ==
    \E new \in Revs, del \in BOOLEAN :
        LET h == Summary(new, IF val[k] = NoObj THEN 1 ELSE val[k].doc_seq + 1, del)
        IN  /\ val[k] # NoObj => val[k].rev = rev
            /\ val' = [val EXCEPT ![k] = h]
            /\ Answer(t, "put", k, rev, "SUCCESS", h)

(* replace: no check, the caller dictates revision and document sequence.   *)
Replace(t, k) ==
    \E new \in Revs, n \in DocSeqs, del \in BOOLEAN :
        /\ val' = [val EXCEPT ![k] = Summary(new, n, del)]
        /\ Answer(t, "replace", k, NoRev, "SUCCESS", Summary(new, n, del))

(* set_revs: the history of an existing object changes, the object does not.*)
SetRevs(t, k) ==
    /\ val[k] # NoObj
    /\ Answer(t, "set_revs", k, NoRev, "SUCCESS", val[k])
    /\ UNCHANGED val

(* A put, replace or set_revs that does not succeed has no effect.          *)
Refuse(t, k, rev) ==
    /\ \E op \in {"put", "replace", "set_revs"}, code \in {"CONFLICT", "ERROR"} :
          Answer(t, op, k, rev, code, NoObj)
    /\ UNCHANGED val

(* get, get_rev and get_all_revs answer with what the store holds now: the  *)
(* object if there is one and `rev' is NULL or its revision, NOT_FOUND if   *)
(* there is none or its revision is another one.                            *)
Read(t, k, rev) ==
    /\ \E op \in {"get", "get_rev", "get_all_revs"} :
          \/ /\ val[k] # NoObj
             /\ rev \in {NoRev, val[k].rev}
             /\ Answer(t, op, k, rev, "OK", val[k])
          \/ /\ val[k] # NoObj => rev \notin {NoRev, val[k].rev}
             /\ Answer(t, op, k, rev, "NOT_FOUND", NoObj)
          \/ Answer(t, op, k, rev, "ERROR", NoObj)
    /\ UNCHANGED val

Next == \E t \in Threads, k \in Keys :
            \/ Replace(t, k)
            \/ SetRevs(t, k)
            \/ \E rev \in Revs \cup {NoRev} :
                   Put(t, k, rev) \/ Refuse(t, k, rev) \/ Read(t, k, rev)

Spec == Init /\ [][Next]_avars
=============================================================================
