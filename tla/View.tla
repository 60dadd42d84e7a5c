-------------------------------- MODULE View --------------------------------
(***************************************************************************)
(* Views (la_db_view and la_view_iterator_next in api/api.c): a map         *)
(* function is called on the documents in the order of their update         *)
(* sequences, the values it emits are queued and returned one by one, and   *)
(* a reduce function accumulates them.  Other threads write documents while *)
(* the view is read; an update gives a document a new sequence, so that it  *)
(* moves ahead of the cursor (BdbStore shows what the cursor promises).     *)
(*                                                                         *)
(* One call of la_view_iterator_next is several steps, one for every call   *)
(* of the store's iterator that it makes.                                   *)
(***************************************************************************)
EXTENDS Naturals, Sequences

CONSTANTS Keys,
          Docs,     \* the bodies that documents have
          Values,   \* the values that map functions emit
          Emits,    \* what the map function emits for a body, in this order
          MaxSeq,   \* bound: no write after this many
          NoObj

ASSUME ViewAssumption ==
    /\ Emits \in [Docs -> Seq(Values)]
    /\ MaxSeq \in Nat
    /\ NoObj \notin [doc : Docs, seq : Nat, deleted : BOOLEAN]

VARIABLES
    store,    \* the stored object of every key
    nextseq,  \* the sequence that the next write is given
    at,       \* where the reader is: "closed", "idle", or "fetch" in a call
    cursor,   \* the sequence that it->it stands on
    queue,    \* it->mapped: emitted and not returned
    accum,    \* it->accum, for a reduce function that strings values together
              \* (without one: what was returned)
    result,   \* what the last call of la_view_iterator_next returned
    \* History variables since the view was opened: no action reads them.
    emitted,  \* everything the map function has emitted
    mapped,   \* how often each document was mapped
    written,  \* the documents that were written
    failed    \* a read or a decoding has failed

reader  == <<at, cursor, queue, accum, result>>
history == <<emitted, mapped, written, failed>>
vars    == <<store, nextseq, at, cursor, queue, accum, result, emitted, mapped, written, failed>>

Objects == [doc : Docs, seq : Nat, deleted : BOOLEAN]

Init ==
    /\ store = [k \in Keys |-> NoObj]
    /\ nextseq = 1
    /\ at = "closed"
    /\ cursor = 0
    /\ queue = <<>>
    /\ accum = <<>>
    /\ result = "NONE"
    /\ emitted = <<>>
    /\ mapped = [k \in Keys |-> 0]
    /\ written = {}
    /\ failed = FALSE

-----------------------------------------------------------------------------
(* Another thread puts, replaces or deletes a document.                     *)
Write(k, doc, del) ==
    /\ nextseq <= MaxSeq
    /\ store' = [store EXCEPT ![k] = [doc |-> doc, seq |-> nextseq, deleted |-> del]]
    /\ nextseq' = nextseq + 1
    /\ written' = written \cup {k}
    /\ UNCHANGED <<reader, emitted, mapped, failed>>

(* la_db_view *)
Open ==
    /\ at = "closed"
    /\ at' = "idle"
    /\ cursor' = 0
    /\ queue' = <<>>
    /\ accum' = <<>>
    /\ result' = "NONE"
    /\ emitted' = <<>>
    /\ mapped' = [k \in Keys |-> 0]
    /\ written' = {}
    /\ failed' = FALSE
    /\ UNCHANGED <<store, nextseq>>

(* la_view_iterator_close *)
Close ==
    /\ at = "idle"
    /\ at' = "closed"
    /\ UNCHANGED <<store, nextseq, cursor, queue, accum, result, history>>

-----------------------------------------------------------------------------
(* la_view_iterator_next                                                    *)

Returns(code) == at' = "idle" /\ result' = code

(* Mutant of Deliver: the reduce function is handed the whole queue.        *)
DeliverWhole(q) ==
    IF q = <<>>
    THEN Returns("ERROR") /\ queue' = <<>> /\ UNCHANGED accum
    ELSE Returns("GOT_NEXT") /\ queue' = <<>> /\ accum' = Append(accum, q)

(* The tail of the call, with q in it->mapped: the first value is taken off *)
(* the queue, reduced and returned.  With nothing in the queue the call is  *)
(* an error.                                                                *)
Deliver(q) ==
    IF q = <<>>
    THEN Returns("ERROR") /\ queue' = <<>> /\ UNCHANGED accum
    ELSE Returns("GOT_NEXT") /\ queue' = Tail(q) /\ accum' = Append(accum, Head(q))

(* Mutant of Call: the loop is entered whatever is queued.                 *)
CallForgetsQueue ==
    /\ at = "idle"
    /\ at' = "fetch"
    /\ result' = "NONE"
    /\ queue' = <<>>
    /\ UNCHANGED <<accum, store, nextseq, cursor, history>>

(* The call starts: values that are queued are returned before the next     *)
(* document is fetched.                                                     *)
Call ==
    /\ at = "idle"
    /\ IF queue = <<>>
       THEN at' = "fetch" /\ result' = "NONE" /\ UNCHANGED <<queue, accum>>
       ELSE Deliver(queue)
    /\ UNCHANGED <<store, nextseq, cursor, history>>

Ahead == {k \in Keys : store[k] # NoObj /\ store[k].seq > cursor}

(* The store's iterator has come to k.                                      *)
Fetches(k) ==
    /\ at = "fetch"
    /\ k \in Ahead
    /\ \A j \in Ahead : store[k].seq <= store[j].seq
    /\ cursor' = store[k].seq

(* Mutant of FetchDeleted: a deleted document ends the view.                *)
FetchDeletedEnds(k) ==
    /\ Fetches(k)
    /\ store[k].deleted
    /\ Returns("END")
    /\ UNCHANGED <<store, nextseq, queue, accum, history>>

(* A deleted document is passed over and the loop goes on.                  *)
FetchDeleted(k) ==
    /\ Fetches(k)
    /\ store[k].deleted
    /\ UNCHANGED <<store, nextseq, at, queue, accum, result, history>>

(* The document cannot be inflated or parsed; the cursor has passed it.     *)
FetchUnreadable(k) ==
    /\ Fetches(k)
    /\ ~store[k].deleted
    /\ Returns("ERROR")
    /\ failed' = TRUE
    /\ UNCHANGED <<store, nextseq, queue, accum, emitted, mapped, written>>

(* The document is mapped.  The loop ends, because `parsed' is not NULL,    *)
(* whether the map function has emitted anything or not.                    *)
FetchMapped(k) ==
    LET values == Emits[store[k].doc] IN
    /\ Fetches(k)
    /\ ~store[k].deleted
    /\ Deliver(values)
    /\ emitted' = emitted \o values
    /\ mapped' = [mapped EXCEPT ![k] = @ + 1]
    /\ UNCHANGED <<store, nextseq, written, failed>>

(* The store's iterator fails.                                              *)
FetchFails ==
    /\ at = "fetch"
    /\ Returns("ERROR")
    /\ failed' = TRUE
    /\ UNCHANGED <<store, nextseq, cursor, queue, accum, emitted, mapped, written>>

(* It is at its end; the value that comes with END is it->accum.            *)
FetchEnd ==
    /\ at = "fetch"
    /\ Ahead = {}
    /\ Returns("END")
    /\ UNCHANGED <<store, nextseq, cursor, queue, accum, history>>

-----------------------------------------------------------------------------
Fetch == \/ \E k \in Keys : FetchDeleted(k) \/ FetchUnreadable(k) \/ FetchMapped(k)
         \/ FetchFails
         \/ FetchEnd

Next == \/ \E k \in Keys, doc \in Docs, del \in BOOLEAN : Write(k, doc, del)
        \/ Open \/ Close \/ Call \/ Fetch

Spec == Init /\ [][Next]_vars

-----------------------------------------------------------------------------
(* Every variable keeps its type.                                           *)
TypeOK ==
    /\ store \in [Keys -> Objects \cup {NoObj}]
    /\ nextseq \in Nat
    /\ at \in {"closed", "idle", "fetch"}
    /\ cursor \in Nat
    /\ queue \in Seq(Values)
    /\ accum \in Seq(Values)
    /\ result \in {"NONE", "GOT_NEXT", "END", "ERROR"}
    /\ emitted \in Seq(Values)
    /\ mapped \in [Keys -> Nat]
    /\ written \in SUBSET Keys
    /\ failed \in BOOLEAN

Live(k) == store[k] # NoObj /\ ~store[k].deleted

(* A document that nobody writes while a view is read is mapped at most     *)
(* once; and when a call has returned END although no read has failed, such *)
(* a document was mapped exactly once, if it is not deleted.                *)
MappedOnce ==
    \A k \in Keys \ written :
        /\ mapped[k] <= 1
        /\ (result = "END" /\ ~failed /\ Live(k)) => mapped[k] = 1

(* Every value that the map function emits is reduced exactly once and in   *)
(* order: what has been accumulated, and what is still queued, is what was  *)
(* emitted; and with END nothing is left behind.                            *)
ReducesAll ==
    /\ accum \o queue = emitted
    /\ result = "END" => accum = emitted

(* The inductive invariant.  Sequences are handed out in order and no two   *)
(* objects share one.                                                       *)
Sequenced ==
    /\ cursor < nextseq
    /\ \A k \in Keys : store[k] # NoObj => store[k].seq > 0 /\ store[k].seq < nextseq
    /\ \A j, k \in Keys : (j # k /\ store[j] # NoObj /\ store[k] # NoObj) =>
                             store[j].seq # store[k].seq

(* Of the documents that nobody has written since the view was opened, the  *)
(* ones behind the cursor have been mapped, and the ones ahead have not.    *)
Progress ==
    \A k \in Keys \ written :
        /\ mapped[k] <= 1
        /\ mapped[k] = 1 => store[k] # NoObj /\ store[k].seq <= cursor
        /\ (Live(k) /\ store[k].seq <= cursor /\ ~failed) => mapped[k] = 1

(* At the end nothing is ahead, and while documents are fetched the queue   *)
(* is empty.                                                                *)
Exhausted ==
    /\ result = "END" => \A k \in Keys \ written : store[k] # NoObj => store[k].seq <= cursor
    /\ (result = "END" \/ at = "fetch") => queue = <<>>
    /\ accum \o queue = emitted

IInv == TypeOK /\ Sequenced /\ Progress /\ Exhausted
=============================================================================
