-------------------------------- MODULE Pull --------------------------------
(***************************************************************************)
(* The replicator (pull/pull.c).  A puller reads the changes feed of a      *)
(* CouchDB server, fetches every revision it does not have, and writes it   *)
(* to the local database.  Meanwhile the application writes to the same     *)
(* database and other clients write to the server.                          *)
(*                                                                         *)
(* The local database is api/api.c over the Berkeley DB driver; each of its *)
(* calls is one step here (BdbStoreProofs shows that the driver's calls are *)
(* atomic), and objects have the layout the driver gives them.  The server  *)
(* and the network are external: the server keeps one winning revision per  *)
(* document and an update sequence; any request may fail.                   *)
(***************************************************************************)
EXTENDS ObjectLayout, Revs, FiniteSets

CONSTANTS
    Keys,
    Answers,        \* what the conflict resolver may answer: subset of Choices
    KeepsLastSeq,   \* whether json_dumps can encode the server's last_seq: it
                    \* encodes an array but refuses a plain number
    MaxGeneration,  \* bound: no document is edited beyond this generation
    MaxUpdates,     \* bound: no more than this many edits on the server
    NoObj, NoRev, NoSeq

Choices == {"mine", "theirs", "merged"}

ASSUME PullAssumption ==
    /\ IsFiniteSet(Keys)
    /\ Answers \subseteq Choices
    /\ KeepsLastSeq \in BOOLEAN
    /\ MaxGeneration \in Nat /\ MaxUpdates \in Nat
    /\ NoRev \notin Revisions
    /\ NoSeq \notin Nat

VARIABLES
    local,    \* the stored object of every key, or NoObj
    remote,   \* the server's revision of every key, <<>> if there is none
    rseq,     \* the update sequence at which the server last changed a key
    pc,       \* where la_pull_run is
    todo,     \* the changes still to be handled, as <<key, revision>>
    got,      \* the revision la_db_get returned, NoRev for NOT_FOUND
    lastseq,  \* puller->last_seq
    since,    \* the first and the latest since= parameter in puller->url
    dirty,    \* puller->buffer holds the remains of a failed fetch
    seen      \* history variable: the object that la_db_get looked at

server == <<remote, rseq>>
vars   == <<local, remote, rseq, pc, todo, got, lastseq, since, dirty, seen>>

(* The process dies in a step of the conflict branch, or is in between.     *)
Places == {"idle", "change", "fetch", "replace", "ask", "theirs", "merged", "dead"}

Init ==
    /\ local = [k \in Keys |-> NoObj]
    /\ remote = [k \in Keys |-> <<>>]
    /\ rseq = [k \in Keys |-> 0]
    /\ pc = "idle"
    /\ todo = <<>>
    /\ got = NoRev
    /\ lastseq = NoSeq
    /\ since = <<NoSeq, NoSeq>>
    /\ dirty = FALSE
    /\ seen = NoObj

-----------------------------------------------------------------------------
(* The local database.                                                      *)

(* The object that the API hands to the store; its body is one cell.        *)
NewObject(rev, hist) ==
    [la_storage_create_object(rev, <<rev[Len(rev)]>>, hist) EXCEPT !.deleted = IsDelete(rev)]

(* do_la_db_put and the driver's put, on the revision that is stored.       *)
PutResult(k, edit) ==
    IF local[k] = NoObj
    THEN [NewObject(la_revgen(<<>>, edit), <<>>) EXCEPT !.doc_seq = 1]
    ELSE PutOver(NewObject(la_revgen(local[k].rev, edit), <<>>), local[k], <<edit>>)

(* la_db_replace: revision, history and document sequence as they come.     *)
ReplaceResult(rev, hist) == [NewObject(rev, hist) EXCEPT !.doc_seq = Generation(rev)]

(* The body can be decoded: it is the one that was encoded.                 *)
Decodes(o) == la_storage_object_get_data(o) \in {<<e>> : e \in Edits}

(* la_db_get without a revision.                                            *)
la_db_get(k) ==
    CASE local[k] = NoObj   -> "NOT_FOUND"
      [] local[k] # NoObj /\ local[k].deleted -> "NOT_FOUND"
      [] local[k] # NoObj /\ ~local[k].deleted /\ ~Decodes(local[k]) -> "ERROR"
      [] OTHER              -> "OK"

(* The application writes or deletes a document it has the current revision *)
(* of, or one that it believes not to exist.  The revision of a tombstone   *)
(* is not returned by any call.                                             *)
LocalEdit(k, edit) ==
    /\ pc # "dead"
    /\ local[k] # NoObj =>
          ~local[k].deleted /\ Generation(local[k].rev) < MaxGeneration
    /\ local' = [local EXCEPT ![k] = PutResult(k, edit)]
    /\ UNCHANGED <<server, pc, todo, got, lastseq, since, dirty, seen>>

-----------------------------------------------------------------------------
(* The server.                                                              *)

rnow == IF Keys = {} THEN 0
        ELSE LET newest == CHOOSE k \in Keys : \A j \in Keys : rseq[j] <= rseq[k]
             IN  rseq[newest]

RemoteEdit(k, edit) ==
    /\ pc # "dead"
    /\ rnow < MaxUpdates
    /\ Generation(remote[k]) < MaxGeneration
    /\ remote' = [remote EXCEPT ![k] = la_revgen(remote[k], edit)]
    /\ rseq' = [rseq EXCEPT ![k] = rnow + 1]
    /\ UNCHANGED <<local, pc, todo, got, lastseq, since, dirty, seen>>

(* The answer to GET _changes?since=s: the keys changed after s, in the     *)
(* order of their sequences.                                                *)
Changed(s) == {k \in Keys : remote[k] # <<>> /\ (s # NoSeq => rseq[k] > s)}

Feed(s) ==
    LET n == Cardinality(Changed(s)) IN
    \E order \in [1..n -> Changed(s)] :
        /\ \A i, j \in 1..n : i < j => rseq[order[i]] < rseq[order[j]]
        /\ todo' = [i \in 1..n |-> <<order[i], remote[order[i]]>>]

-----------------------------------------------------------------------------
(* la_pull_run                                                              *)

(* Mutant of NewLastSeq: one off.                                           *)
LastSeqBefore == IF KeepsLastSeq THEN rnow - 1 ELSE NoSeq

(* json_dumps of the server's last_seq.                                     *)
NewLastSeq == IF KeepsLastSeq THEN rnow ELSE NoSeq

(* The feed request.  init_changes_feed adds another since= to a URL that   *)
(* may have one already; the server looks at the first or at the latest.    *)
RunStarts ==
    LET asked == <<IF since[1] = NoSeq THEN lastseq ELSE since[1], lastseq>> IN
    /\ pc = "idle"
    /\ since' = asked
    /\ \E i \in 1..2 : Feed(asked[i])
    /\ lastseq' = NewLastSeq
    /\ pc' = "change"
    /\ dirty' = FALSE
    /\ UNCHANGED <<local, server, got, seen>>

(* The request fails, the server refuses it, or its answer has no results   *)
(* (its last_seq is kept all the same).                                     *)
RunFails ==
    /\ pc = "idle"
    /\ since' = <<IF since[1] = NoSeq THEN lastseq ELSE since[1], lastseq>>
    /\ lastseq' \in {lastseq, NewLastSeq}
    /\ UNCHANGED <<local, server, pc, todo, got, dirty, seen>>

RunEnds ==
    /\ pc = "change"
    /\ todo = <<>>
    /\ pc' = "idle"
    /\ UNCHANGED <<local, server, todo, got, lastseq, since, dirty, seen>>

Key     == todo[1][1]
thatrev == todo[1][2]

(* Done with this change; the locals of the loop body are forgotten.        *)
Continue ==
    /\ pc' = "change"
    /\ todo' = Tail(todo)
    /\ got' = NoRev
    /\ seen' = NoObj

(* The local revision is looked up.  A document that cannot be read, and    *)
(* one that is up to date, is left alone.                                   *)
Change ==
    /\ pc = "change"
    /\ todo # <<>>
    /\ LET res == la_db_get(Key) IN
       \/ /\ res = "ERROR" \/ (res = "OK" /\ local[Key].rev = thatrev)
          /\ Continue
       \/ /\ res = "NOT_FOUND" \/ (res = "OK" /\ local[Key].rev # thatrev)
          /\ pc' = "fetch"
          /\ got' = IF res = "OK" THEN local[Key].rev ELSE NoRev
          /\ seen' = local[Key]
          /\ UNCHANGED todo
    /\ UNCHANGED <<local, server, lastseq, since, dirty>>

(* A malformed entry, an I/O error, or no memory: the change is skipped.    *)
(* An entry whose revision la_rev_scan refuses is not: the puller goes on   *)
(* with what is left in thatrev, and asks for the revision as it was        *)
(* written.  The server refuses that, and the answer, or what is left of    *)
(* it, is all that remains.                                                 *)
ChangeSkipped ==
    /\ pc = "change"
    /\ todo # <<>>
    /\ Continue
    /\ dirty' \in BOOLEAN
    /\ UNCHANGED <<local, server, lastseq, since>>

(* The transfer fails, perhaps after some bytes have gone into the buffer.  *)
FetchFails ==
    /\ pc = "fetch"
    /\ dirty' \in {dirty, TRUE}
    /\ Continue
    /\ UNCHANGED <<local, server, lastseq, since>>

(* The answer cannot be used: it is appended to the remains of another one, *)
(* it is an error message (the status is not looked at), or there is no     *)
(* memory for the revisions.                                                *)
FetchUseless ==
    /\ pc = "fetch"
    /\ dirty' = FALSE
    /\ Continue
    /\ UNCHANGED <<local, server, lastseq, since>>

(* The history that la_db_get_allrevs finds now; if it fails, there is none.*)
Histories == {<<>>} \cup {ObjectRevs(o) : o \in {local[Key]} \ {NoObj}}

(* The local revisions: the one la_db_get returned, and the history.        *)
LocalRevs(hist) == <<got>> \o hist

(* Mutant of Verdict: what is not recognised is left alone.                 *)
VerdictWithoutAsking(hist) ==
    IF la_storage_revs_overlap(LocalRevs(hist), Lineage(thatrev)) THEN "replace" ELSE "change"

(* What is to be done about a revision that both sides know of.             *)
Verdict(hist) ==
    IF la_storage_revs_overlap(LocalRevs(hist), Lineage(thatrev)) THEN "replace"
    ELSE IF ~la_storage_revs_overlap(Lineage(thatrev), LocalRevs(hist)) THEN "ask"
    ELSE "change"

(* The document and its revisions have arrived.                             *)
Fetched ==
    /\ pc = "fetch"
    /\ ~dirty
    /\ \E hist \in Histories :
          LET next == IF got = NoRev THEN "replace" ELSE Verdict(hist)
          IN  IF next = "change" THEN Continue
              ELSE pc' = next /\ UNCHANGED <<todo, got, seen>>
    /\ UNCHANGED <<local, server, lastseq, since, dirty>>

(* The conflict branch reads the local document again.  If it cannot (the   *)
(* document is gone or unreadable by now, or the read fails), an            *)
(* uninitialised pointer is released: the process dies, or gets away.       *)
AskFails ==
    /\ pc = "ask"
    /\ \/ Continue
       \/ pc' = "dead" /\ UNCHANGED <<todo, got, seen>>
    /\ UNCHANGED <<local, server, lastseq, since, dirty>>

(* The resolver answers.                                                    *)
Ask ==
    /\ pc = "ask"
    /\ la_db_get(Key) = "OK"
    /\ \E answer \in Answers :
          IF answer = "mine" THEN Continue
          ELSE pc' = answer /\ UNCHANGED <<todo, got, seen>>
    /\ UNCHANGED <<local, server, lastseq, since, dirty>>

(* Mutant of Replaced: the document sequence is counted on locally.         *)
ReplacedCountsOn ==
    /\ pc \in {"replace", "theirs"}
    /\ LET o == ReplaceResult(thatrev, Tail(Lineage(thatrev)))
       IN  local' = [local EXCEPT ![Key] =
               IF local[Key] = NoObj THEN o
               ELSE [o EXCEPT !.doc_seq = local[Key].doc_seq + 1]]
    /\ Continue
    /\ UNCHANGED <<server, lastseq, since, dirty>>

(* la_db_replace with the remote revision and its history: no check.        *)
Replaced ==
    /\ pc \in {"replace", "theirs"}
    /\ local' = [local EXCEPT ![Key] = ReplaceResult(thatrev, Tail(Lineage(thatrev)))]
    /\ Continue
    /\ UNCHANGED <<server, lastseq, since, dirty>>

(* la_db_put of the merged document on the revision that was looked up.     *)
Merged ==
    /\ pc = "merged"
    /\ \E edit \in Edits \ {Deletion} :
          local' = IF local[Key].rev = got
                   THEN [local EXCEPT ![Key] = PutResult(Key, edit)]
                   ELSE local
    /\ Continue
    /\ UNCHANGED <<server, lastseq, since, dirty>>

(* The write fails; nobody looks at the result.                             *)
WriteFails ==
    /\ pc \in {"replace", "theirs", "merged"}
    /\ Continue
    /\ UNCHANGED <<local, server, lastseq, since, dirty>>

-----------------------------------------------------------------------------
Puller ==
    \/ RunStarts \/ RunFails \/ RunEnds
    \/ Change \/ ChangeSkipped
    \/ FetchFails \/ FetchUseless \/ Fetched
    \/ AskFails \/ Ask
    \/ Replaced \/ Merged \/ WriteFails

Others == \E k \in Keys, edit \in Edits : LocalEdit(k, edit) \/ RemoteEdit(k, edit)

Dead == pc = "dead" /\ UNCHANGED vars

Next == Puller \/ Others \/ Dead

Spec == Init /\ [][Next]_vars

(* The caller runs the puller again and again.                              *)
FairSpec == Spec /\ WF_vars(Puller)

-----------------------------------------------------------------------------
(* Properties.                                                              *)

Cells   == Revisions \cup Edits \cup {Garbage}

Objects == [seq : {0}, doc_seq : Nat, deleted : BOOLEAN, rev : Revisions,
            rev_count : Nat, revs_data : Seq(Cells)]

ASSUME ObjectAssumption == NoObj \notin Objects

(* Every variable keeps its type.                                           *)
TypeOK ==
    /\ local \in [Keys -> Objects \cup {NoObj}]
    /\ remote \in [Keys -> Seq(Edits)]
    /\ rseq \in [Keys -> Nat]
    /\ pc \in Places
    /\ todo \in Seq(Keys \X Revisions)
    /\ got \in Revisions \cup {NoRev}
    /\ lastseq \in Nat \cup {NoSeq}
    /\ since \in (Nat \cup {NoSeq}) \X (Nat \cup {NoSeq})
    /\ dirty \in BOOLEAN
    /\ seen \in Objects \cup {NoObj}

(* The document sequence stored with a document is the generation of its    *)
(* revision, whether it was put, merged or replicated: the two halves of    *)
(* the printed revision "N-digest" belong together on both replicas.        *)
GenerationMatches ==
    \A k \in Keys : local[k] # NoObj => local[k].doc_seq = Generation(local[k].rev)

(* The application has written the document since the puller looked at it.  *)
Raced == local[Key] # seen

(* Replication drops local edits only in three ways: the resolver said so,  *)
(* the local document was deleted, or the application wrote it between the  *)
(* puller's look and the puller's write.  In every other step a document    *)
(* moves to a descendant of its revision.                                   *)
NoSilentLoss ==
    [][\A k \in Keys :
          (local[k] # NoObj /\ ~IsAncestor(local[k].rev, local'[k].rev)) =>
              pc = "theirs" \/ local[k].deleted \/ Raced]_vars

-----------------------------------------------------------------------------
(* What makes these properties inductive.                                   *)

(* The latest change on the server is the change of some document.          *)
HasNewest == Keys # {} => \E k \in Keys : \A j \in Keys : rseq[j] <= rseq[k]

(* The history that the header counts is inside the object.                 *)
HistoryFits == \A k \in Keys : local[k] # NoObj => local[k].rev_count <= Len(local[k].revs_data)

Handling == {"fetch", "replace", "ask", "theirs", "merged"}

(* While a change is handled, `got' is the revision of the object that      *)
(* la_db_get looked at, unless that was absent or deleted, and only its     *)
(* descendants replace it.                                                  *)
Looked ==
    pc \in Handling =>
        /\ todo # <<>>
        /\ got = NoRev => seen = NoObj \/ seen.deleted
        /\ got # NoRev => seen # NoObj /\ got = seen.rev /\ local[Key] # NoObj
        /\ (pc = "replace" /\ got # NoRev) => IsAncestor(got, thatrev)

PullInv == TypeOK /\ GenerationMatches /\ HasNewest /\ HistoryFits /\ Looked

-----------------------------------------------------------------------------
(* Once nobody edits any more and requests and writes succeed, every        *)
(* document of the server arrives, whatever failed before, if the resolver  *)
(* takes theirs.  Documents that the driver's layout has made unreadable    *)
(* stay behind, and the process may have died on the way.                   *)
Succeeds ==
    \/ RunStarts \/ RunEnds \/ Change \/ (dirty /\ FetchUseless) \/ Fetched
    \/ (AskFails /\ la_db_get(Key) # "OK") \/ Ask \/ Replaced

Arrived(k) ==
    remote[k] # <<>> =>
        local[k] # NoObj /\ (local[k].rev = remote[k] \/ la_db_get(k) = "ERROR")

Converges == <>[][Succeeds]_vars => <>[](pc = "dead" \/ \A k \in Keys : Arrived(k))
=============================================================================
