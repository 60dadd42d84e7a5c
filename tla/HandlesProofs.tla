--------------------------- MODULE HandlesProofs ---------------------------
(***************************************************************************)
(* Proofs about the handles of the API and about the nginx module's cache:  *)
(* the environment is safe until a call has ended it, the cache holds the   *)
(* entries that were opened most recently, and a request whose entry is one *)
(* of them works on live memory.                                            *)
(***************************************************************************)
EXTENDS MCHandles, SequenceTheorems, TLAPS

-----------------------------------------------------------------------------
(* The calls of the API.                                                    *)

(* What la_storage_open does to the environment.                            *)
LEMMA StorageOpenEffect ==
    ASSUME NEW name, NEW create, NEW excl, NEW out, la_storage_open(name, create, excl, out)
    PROVE  \/ out.code = "NO_DRIVER" /\ UNCHANGED <<env, ub>>
           \/ out.code = "OK" /\ UNCHANGED <<env, ub>>
           \/ out.code = "ERROR" /\ env' = "freed" /\ UNCHANGED ub
           \/ out.code = "ERROR" /\ UNCHANGED env /\ ub' # "none"
<1>1. CASE /\ out = [code |-> "NO_DRIVER", store |-> "none", kind |-> "none"]
           /\ UNCHANGED <<disk, env, ub>>
  BY <1>1
<1>2. ASSUME NEW r, out = [code |-> "OK", store |-> r.store, kind |-> env], UNCHANGED <<env, ub>>
      PROVE  out.code = "OK" /\ UNCHANGED <<env, ub>>
  BY <1>2
<1>3. CASE out = [code |-> "ERROR", store |-> "none", kind |-> "none"] /\ CloseEnv(env)
  BY <1>3 DEF CloseEnv
<1>4. CASE /\ out = [code |-> "ERROR", store |-> "none", kind |-> "none"]
           /\ ub' = IF EnvOpen THEN "env of another driver" ELSE "env used after free"
           /\ UNCHANGED <<disk, env>>
  BY <1>4
<1> QED BY <1>1, <1>2, <1>3, <1>4, Zenon DEF la_storage_open

(* la_db_open makes a handle for OK and for nothing else, and any answer    *)
(* that ends the environment is ERROR.                                      *)
LEMMA OpenKeeps ==
    ASSUME HandlesInv, NEW name \in Names, NEW create, NEW excl, NEW code,
           la_db_open(name, create, excl, code)
    PROVE  /\ HandlesInv'
           /\ code = "OK" => \E hd \in HandleType : hd.state # "closed" /\ db' = Append(db, hd)
           /\ code # "OK" => UNCHANGED db
<1>1. /\ ub = "none" /\ host # "none" /\ host' = host
      /\ ended' = IF code = "ERROR" THEN ended \cup {"open"} ELSE ended
      /\ \/ code = "ERROR" /\ UNCHANGED <<env, db, ub>>
         \/ code = "ERROR" /\ UNCHANGED <<env, db>> /\ ub' # "none"
         \/ \E out \in [code : {code}, store : {"none", "open", "null_store"}, kind : Kinds \cup {"none"}] :
                /\ la_storage_open(name, create, excl, out)
                /\ db' = IF code = "OK"
                         THEN Append(db, [name |-> name, state |-> out.store, kind |-> out.kind])
                         ELSE db
  BY DEF la_db_open, Running, UsesFreedHost
<1>2. /\ env \in Kinds \cup {"none", "freed"} /\ db \in Seq(HandleType)
      /\ ended \in SUBSET {"open", "close", "host_close"}
      /\ (env # "none" <=> host # "none")
      /\ host = "freed" <=> "host_close" \in ended
      /\ ended = {} => \A h \in 1..Len(db) : db[h].state # "closed"
      /\ ended = {} => EnvOpen
      /\ ended \cap {"close", "host_close"} # {} => env = "freed"
  BY <1>1 DEF HandlesInv, HandlesTypeOK, InEnv, ClosedEnds, SafeUntilEnded
<1>3. /\ \/ code # "ERROR" /\ UNCHANGED <<env, ub>>
         \/ code = "ERROR" /\ env' = "freed" /\ UNCHANGED ub
         \/ code = "ERROR" /\ UNCHANGED env
      /\ code = "OK" => \E hd \in HandleType : hd.state # "closed" /\ db' = Append(db, hd)
      /\ code # "OK" => UNCHANGED db
  <2>1. ASSUME NEW out \in [code : {code}, store : {"none", "open", "null_store"}, kind : Kinds \cup {"none"}],
               la_storage_open(name, create, excl, out),
               db' = IF code = "OK"
                     THEN Append(db, [name |-> name, state |-> out.store, kind |-> out.kind])
                     ELSE db
        PROVE  /\ \/ code # "ERROR" /\ UNCHANGED <<env, ub>>
                  \/ code = "ERROR" /\ env' = "freed" /\ UNCHANGED ub
                  \/ code = "ERROR" /\ UNCHANGED env
               /\ code = "OK" => \E hd \in HandleType : hd.state # "closed" /\ db' = Append(db, hd)
               /\ code # "OK" => UNCHANGED db
    <3> DEFINE hd == [name |-> name, state |-> out.store, kind |-> out.kind]
    <3>1. hd \in HandleType /\ hd.state # "closed"
      BY DEF HandleType
    <3>2. code = "OK" => db' = Append(db, hd)
      BY <2>1
    <3>3. code # "OK" => db' = db
      BY <2>1
    <3> HIDE DEF hd
    <3>4. out.code = code
      OBVIOUS
    <3>5. \/ code # "ERROR" /\ UNCHANGED <<env, ub>>
          \/ code = "ERROR" /\ env' = "freed" /\ UNCHANGED ub
          \/ code = "ERROR" /\ UNCHANGED env
      BY <2>1, <3>4, StorageOpenEffect
    <3> QED BY <3>1, <3>2, <3>3, <3>5
  <2> QED BY <1>1, <2>1
<1>4. CASE code = "OK"
  <2>1. PICK hd \in HandleType : hd.state # "closed" /\ db' = Append(db, hd)
    BY <1>3, <1>4
  <2>2. /\ db' \in Seq(HandleType) /\ Len(db') = Len(db) + 1
        /\ \A h \in 1..Len(db) : db'[h] = db[h]
        /\ db'[Len(db) + 1] = hd
    BY <1>2, <2>1, AppendProperties
  <2>3. ended' = ended /\ UNCHANGED <<env, ub>>
    BY <1>1, <1>3, <1>4
  <2>4. ended' = {} => \A h \in 1..Len(db') : db'[h].state # "closed"
    BY <1>2, <2>1, <2>2, <2>3
  <2>5. HandlesTypeOK' /\ InEnv' /\ ClosedEnds'
    BY <1>1, <1>2, <2>2, <2>3, <2>4 DEF HandlesTypeOK, InEnv, ClosedEnds
  <2>6. SafeUntilEnded'
    BY <1>1, <1>2, <2>3 DEF SafeUntilEnded, EnvOpen
  <2> QED BY <1>4, <2>1, <2>5, <2>6 DEF HandlesInv
<1>5. CASE code # "OK"
  <2>1. db' = db
    BY <1>3, <1>5
  <2>2. code = "ERROR" => ended' # {}
    BY <1>1
  <2>3. HandlesTypeOK' /\ InEnv' /\ ClosedEnds'
    BY <1>1, <1>2, <1>3, <2>1, <2>2 DEF HandlesTypeOK, InEnv, ClosedEnds
  <2>4. SafeUntilEnded'
    BY <1>1, <1>2, <1>3, <2>2 DEF SafeUntilEnded, EnvOpen
  <2> QED BY <1>5, <2>1, <2>3, <2>4 DEF HandlesInv
<1> QED BY <1>4, <1>5

(* la_db_close ends the environment, and touches no handle but its own.     *)
LEMMA CloseKeeps ==
    ASSUME HandlesInv, NEW h \in 1..Len(db), Running, la_db_close(h)
    PROVE  /\ HandlesInv'
           /\ Len(db') = Len(db)
           /\ db'[h].state = "closed"
           /\ \A i \in 1..Len(db) : i # h => db'[i] = db[i]
<1>1. /\ ub = "none" /\ host' = host /\ ended' = ended \cup {"close"}
      /\ db' = [db EXCEPT ![h].state = "closed"]
      /\ env \in Kinds \cup {"none", "freed"} /\ db \in Seq(HandleType)
      /\ ended \in SUBSET {"open", "close", "host_close"}
      /\ (env # "none" <=> host # "none") /\ (db # <<>> => env # "none")
      /\ host = "freed" <=> "host_close" \in ended
  BY DEF la_db_close, Running, HandlesInv, HandlesTypeOK, InEnv
<1>2. env # "none"
  <2>1. db # <<>>
    BY <1>1
  <2> QED BY <1>1, <2>1
<1> DEFINE new == [db[h] EXCEPT !.state = "closed"]
<1>3. new \in HandleType /\ new.state = "closed" /\ db' = [db EXCEPT ![h] = new]
  <2>1. db[h] \in HandleType
    BY <1>1
  <2> QED BY <1>1, <2>1 DEF HandleType
<1> HIDE DEF new
<1>4. /\ db' \in Seq(HandleType) /\ Len(db') = Len(db)
      /\ \A i \in 1..Len(db) : db'[i] = IF i = h THEN new ELSE db[i]
  BY <1>1, <1>3, ExceptSeq
<1>5. \/ env' = "freed"
      \/ env' = env /\ ub' # "none"
  BY DEF la_db_close, la_storage_close, CloseEnv
<1>6. HandlesTypeOK' /\ InEnv' /\ ClosedEnds'
  BY <1>1, <1>2, <1>4, <1>5 DEF HandlesTypeOK, InEnv, ClosedEnds
<1>7. SafeUntilEnded'
  BY <1>1, <1>5 DEF SafeUntilEnded
<1> QED BY <1>3, <1>4, <1>6, <1>7 DEF HandlesInv

(* Any other call on a handle.                                              *)
LEMMA UseKeeps ==
    ASSUME HandlesInv, NEW h \in 1..Len(db), Running, UseDb(h) \/ la_db_delete_db(h)
    PROVE  HandlesInv' /\ UNCHANGED db
<1>1. db # <<>>
  BY DEF HandlesInv, HandlesTypeOK
<1>2. UNCHANGED <<host, env, db, ended>>
  BY DEF UseDb, la_db_delete_db
<1>3. HandlesTypeOK' /\ InEnv' /\ ClosedEnds'
  BY <1>2 DEF HandlesInv, HandlesTypeOK, InEnv, ClosedEnds
<1>4. SafeUntilEnded'
  BY <1>1, <1>2 DEF HandlesInv, InEnv, ClosedEnds, SafeUntilEnded, UseDb, la_db_delete_db, Running, EnvOpen
<1> QED BY <1>2, <1>3, <1>4 DEF HandlesInv

LEMMA SameHandles == HandlesInv /\ UNCHANGED hvars => HandlesInv'
BY DEF hvars, HandlesInv, HandlesTypeOK, InEnv, ClosedEnds, SafeUntilEnded, EnvOpen

(* Undefined behaviour of the nginx module is not the environment's.        *)
LEMMA OtherTrouble ==
    ASSUME HandlesInv, UNCHANGED <<drivers, host, env, disk, db, ended>>,
           UNCHANGED ub \/ ub' \in {"cache entry used after free", "length of document path"}
    PROVE  HandlesInv'
BY DEF HandlesInv, HandlesTypeOK, InEnv, ClosedEnds, SafeUntilEnded, EnvOpen

-----------------------------------------------------------------------------
(* The table and the entries in the order of their last opening.            *)

LEMMA MovedToEndType ==
    ASSUME NEW S, NEW s \in Seq(S), NEW i \in 1..Len(s)
    PROVE  /\ MovedToEnd(s, i) \in Seq(S)
           /\ Len(MovedToEnd(s, i)) = Len(s)
           /\ \A j \in 1..Len(s) :
                 MovedToEnd(s, i)[j] = IF j < i THEN s[j] ELSE IF j < Len(s) THEN s[j + 1] ELSE s[i]
<1> DEFINE e(j) == IF j < i THEN s[j] ELSE IF j < Len(s) THEN s[j + 1] ELSE s[i]
<1>1. Len(s) \in Nat /\ \A j \in 1..Len(s) : s[j] \in S
  BY LenProperties
<1>2. \A j \in 1..Len(s) : e(j) \in S
  BY <1>1
<1>3. MovedToEnd(s, i) = [j \in 1..Len(s) |-> e(j)]
  BY DEF MovedToEnd
<1> HIDE DEF e
<1>4. MovedToEnd(s, i) \in Seq(S) /\ Len(MovedToEnd(s, i)) = Len(s)
  BY <1>1, <1>2, <1>3
<1>5. \A j \in 1..Len(s) : MovedToEnd(s, i)[j] = e(j)
  BY <1>3
<1> QED BY <1>4, <1>5 DEF e

Distinct(s) == \A i, j \in 1..Len(s) : s[i] = s[j] => i = j

LEMMA ReopenedType ==
    ASSUME recent \in Seq(Nat), Distinct(recent), NEW p \in 1..Len(recent)
    PROVE  /\ Reopened(recent[p]) \in Seq(Nat)
           /\ Len(Reopened(recent[p])) = Len(recent)
           /\ \A j \in 1..Len(recent) :
                 Reopened(recent[p])[j] = IF j < p THEN recent[j]
                                          ELSE IF j < Len(recent) THEN recent[j + 1] ELSE recent[p]
           /\ Distinct(Reopened(recent[p]))
<1> DEFINE q == CHOOSE q \in 1..Len(recent) : recent[q] = recent[p]
           new == Reopened(recent[p])
<1>1. q \in 1..Len(recent) /\ recent[q] = recent[p]
  OBVIOUS
<1>2. q = p
  BY <1>1 DEF Distinct
<1>3. new = MovedToEnd(recent, p)
  BY <1>2 DEF Reopened
<1> HIDE DEF q, new
<1>4. /\ new \in Seq(Nat) /\ Len(new) = Len(recent)
      /\ \A j \in 1..Len(recent) :
            new[j] = IF j < p THEN recent[j] ELSE IF j < Len(recent) THEN recent[j + 1] ELSE recent[p]
  BY <1>3, MovedToEndType
<1>5. Distinct(new)
  <2>0. Len(recent) \in Nat
    OBVIOUS
  <2> SUFFICES ASSUME NEW i \in 1..Len(recent), NEW j \in 1..Len(recent), i < j, new[i] = new[j]
               PROVE  FALSE
    BY <1>4, <2>0 DEF Distinct
  <2> DEFINE Old(k) == IF k < p THEN k ELSE IF k < Len(recent) THEN k + 1 ELSE p
  <2>1. /\ Old(i) \in 1..Len(recent) /\ Old(j) \in 1..Len(recent) /\ Old(i) # Old(j)
    BY <2>0
  <2>2. new[i] = recent[Old(i)] /\ new[j] = recent[Old(j)]
    BY <2>0, <1>4
  <2> HIDE DEF Old
  <2> QED BY <2>1, <2>2 DEF Distinct
<1> QED BY <1>4, <1>5 DEF new

-----------------------------------------------------------------------------
(* The workers.                                                             *)

LEMMA IdleType == Idle \in Requests /\ Idle.at = "idle" /\ Idle.result = "none" /\ Idle.found = 0
<1>1. (CHOOSE n \in Names : TRUE) \in Names
  BY HandlesAssumption
<1> QED BY <1>1 DEF Idle, Requests, Steps, Methods

HasFound(r) == r.at \in {"evict", "decref", "hit", "incref", "out"} \/ r.result = "OK"

(* What every request knows before it moves.                                *)
LEMMA RequestType ==
    ASSUME HandlesInv, CacheInv, NEW w \in Workers
    PROVE  /\ req[w] \in Requests /\ req \in [Workers -> Requests]
           /\ Len(entry) \in Nat /\ entry \in Seq(Entries) /\ Len(db) \in Nat
           /\ db \in Seq(HandleType)
           /\ req[w].at \in Inside <=> mutex = w
           /\ HasFound(req[w]) => req[w].found \in 1..Len(entry)
           /\ (req[w].at = "serve" /\ req[w].result = "OK") => req[w].db = entry[req[w].found].db
           /\ mutex = w => \A v \in Workers : v # w => req[v].at \notin Inside
           /\ mutex \in Workers \cup {Nobody}
<1>1. req \in [Workers -> Requests] /\ entry \in Seq(Entries) /\ mutex \in Workers \cup {Nobody}
  BY DEF CacheInv, CacheTypeOK
<1>2. db \in Seq(HandleType)
  BY DEF HandlesInv, HandlesTypeOK
<1>3. /\ req[w].at \in Inside <=> mutex = w
      /\ HasFound(req[w]) => req[w].found \in 1..Len(entry)
      /\ (req[w].at = "serve" /\ req[w].result = "OK") => req[w].db = entry[req[w].found].db
      /\ mutex = w => \A v \in Workers : v # w => req[v].at \notin Inside
  BY DEF CacheInv, HoldsMutex, HasFound
<1> QED BY <1>1, <1>2, <1>3

(* A request moves on, with the mutex or without it.                        *)
LEMMA MovesInv ==
    ASSUME CacheInv, NEW w \in Workers, NEW new \in Requests, req' = [req EXCEPT ![w] = new],
           Len(entry') \in Nat, Len(entry) <= Len(entry'),
           \A i \in 1..Len(entry) : entry'[i].db = entry[i].db,
           new.at \in Inside <=> mutex' = w,
           \A v \in Workers : v # w => (mutex' = v <=> mutex = v),
           HasFound(new) => new.found \in 1..Len(entry'),
           (new.at = "serve" /\ new.result = "OK") => new.db = entry'[new.found].db
    PROVE  /\ req' \in [Workers -> Requests] /\ HoldsMutex'
           /\ req'[w] = new /\ \A v \in Workers : v # w => req'[v] = req[v]
<1>1. req \in [Workers -> Requests] /\ Len(entry) \in Nat
  BY DEF CacheInv, CacheTypeOK
<1>2. req' \in [Workers -> Requests] /\ req'[w] = new /\ \A v \in Workers : v # w => req'[v] = req[v]
  BY <1>1
<1>3. \A v \in Workers : req'[v].at \in Inside <=> mutex' = v
  BY <1>2 DEF CacheInv, HoldsMutex
<1>4. ASSUME NEW v \in Workers, HasFound(req'[v])
      PROVE  req'[v].found \in 1..Len(entry')
  <2>1. CASE v = w
    BY <1>2, <1>4, <2>1
  <2>2. CASE v # w
    <3>1. req'[v] = req[v]
      BY <1>2, <2>2
    <3>2. req[v].found \in 1..Len(entry)
      BY <1>4, <3>1 DEF CacheInv, HoldsMutex, HasFound
    <3> QED BY <1>1, <3>1, <3>2
  <2> QED BY <2>1, <2>2
<1>5. ASSUME NEW v \in Workers, req'[v].at = "serve", req'[v].result = "OK"
      PROVE  req'[v].db = entry'[req'[v].found].db
  <2>1. CASE v = w
    BY <1>2, <1>5, <2>1
  <2>2. CASE v # w
    <3>1. req'[v] = req[v]
      BY <1>2, <2>2
    <3>2. req[v].found \in 1..Len(entry) /\ req[v].db = entry[req[v].found].db
      BY <1>5, <3>1 DEF CacheInv, HoldsMutex
    <3> QED BY <3>1, <3>2
  <2> QED BY <2>1, <2>2
<1>6. HoldsMutex'
  BY <1>3, <1>4, <1>5 DEF HoldsMutex, HasFound
<1> QED BY <1>2, <1>6

(* The request that has the mutex gives it back.                            *)
LEMMA UnlocksInv ==
    ASSUME HandlesInv, CacheInv, NEW w \in Workers, mutex = w,
           NEW step \in {"hit", "out", "serve"}, NEW e \in Nat, NEW code \in {"none", "OK", "ERROR", "NO_DRIVER"},
           Unlocks(w, step, e, code),
           Len(entry') \in Nat, Len(entry) <= Len(entry'),
           \A i \in 1..Len(entry) : entry'[i].db = entry[i].db,
           step # "serve" => e \in 1..Len(entry'),
           step = "serve" => code # "OK",
           code = "OK" => e \in 1..Len(entry')
    PROVE  /\ req' \in [Workers -> Requests] /\ HoldsMutex' /\ mutex' \in Workers \cup {Nobody}
           /\ \A v \in Workers : req'[v].at \notin Inside
           /\ ~Evicting' /\ GivesUp'
<1> DEFINE new == [req[w] EXCEPT !.at = step, !.found = e, !.count = 0, !.db = 0, !.result = code]
<1>1. req \in [Workers -> Requests] /\ req[w] \in Requests /\ \A v \in Workers : v # w => req[v].at \notin Inside
  BY RequestType
<1>2. mutex' = Nobody /\ req' = [req EXCEPT ![w] = new]
  BY <1>1 DEF Unlocks
<1>3. new \in Requests /\ new.at = step /\ new.found = e /\ new.result = code
  <2>1. step \in Steps /\ code \in {"none", "OK", "ERROR", "NO_DRIVER", "EXISTS"} /\ 0 \in Int /\ 0 \in Nat
    BY DEF Steps
  <2> QED BY <1>1, <2>1, Zenon DEF Requests
<1> HIDE DEF new
<1>4. new.at \notin Inside /\ (HasFound(new) => new.found \in 1..Len(entry'))
  BY <1>3 DEF Inside, HasFound
<1>5. /\ req' \in [Workers -> Requests] /\ HoldsMutex'
      /\ req'[w] = new /\ \A v \in Workers : v # w => req'[v] = req[v]
  <2>1. new.at \in Inside <=> mutex' = w
    BY <1>2, <1>4, CacheAssumption
  <2>2. \A v \in Workers : v # w => (mutex' = v <=> mutex = v)
    BY <1>2, CacheAssumption
  <2>3. (new.at = "serve" /\ new.result = "OK") => new.db = entry'[new.found].db
    BY <1>3
  <2> QED BY <1>2, <1>3, <1>4, <2>1, <2>2, <2>3, MovesInv
<1>6. \A v \in Workers : req'[v].at \notin Inside
  BY <1>1, <1>4, <1>5
<1>7. ~Evicting' /\ GivesUp'
  BY <1>6 DEF Evicting, GivesUp, Inside
<1> QED BY <1>2, <1>5, <1>6, <1>7

(* The entries, but for their counts, and the table stay as they are.       *)
LEMMA SameTableInv ==
    ASSUME CacheInv, UNCHANGED <<cache, recent>>,
           entry' \in Seq(Entries), Len(entry') = Len(entry),
           \A i \in 1..Len(entry) : entry'[i].db = entry[i].db /\ entry'[i].live = entry[i].live,
           req' \in [Workers -> Requests], mutex' \in Workers \cup {Nobody}, HoldsMutex', GivesUp',
           Evicting' <=> Evicting, UNCHANGED db
    PROVE  CacheInv'
<1>1. CacheTypeOK'
  BY DEF CacheInv, CacheTypeOK
<1>2. EntriesOwnHandles'
  BY DEF CacheInv, EntriesOwnHandles
<1>3. TableIsRecent'
  <2>1. Len(cache) \in Nat /\ Len(recent) \in Nat /\ Len(cache) <= Len(recent)
    BY DEF CacheInv, TableIsRecent, CacheTypeOK
  <2>2. ASSUME NEW i \in 1..Len(cache)
        PROVE  cache[i] = recent[Len(recent) - Len(cache) + i] /\ entry'[cache[i]].live
    <3>1. Len(recent) - Len(cache) + i \in 1..Len(recent)
      BY <2>1
    <3>2. /\ cache[i] = recent[Len(recent) - Len(cache) + i] /\ entry[cache[i]].live
          /\ recent[Len(recent) - Len(cache) + i] \in 1..Len(entry)
      BY <3>1 DEF CacheInv, TableIsRecent
    <3> QED BY <3>2
  <2> QED BY <2>1, <2>2 DEF CacheInv, TableIsRecent
<1>4. TableSize'
  BY DEF CacheInv, TableSize, Kept
<1> QED BY <1>1, <1>2, <1>3, <1>4 DEF CacheInv

(* A step without the mutex, whatever the handler calls in it.              *)
LEMMA OutsideInv ==
    ASSUME HandlesInv, CacheInv, NEW w \in Workers, NEW new \in Requests,
           req' = [req EXCEPT ![w] = new], UNCHANGED <<cache, recent, mutex, db>>,
           entry' \in Seq(Entries), Len(entry') = Len(entry),
           \A i \in 1..Len(entry) : entry'[i].db = entry[i].db /\ entry'[i].live = entry[i].live,
           req[w].at \notin Inside, new.at \notin Inside,
           HasFound(new) => new.found \in 1..Len(entry),
           (new.at = "serve" /\ new.result = "OK") => new.db = entry[new.found].db
    PROVE  CacheInv'
<1>1. Len(entry) \in Nat /\ req \in [Workers -> Requests] /\ mutex \in Workers \cup {Nobody} /\ mutex # w
  BY RequestType
<1>2. /\ req' \in [Workers -> Requests] /\ HoldsMutex'
      /\ req'[w] = new /\ \A v \in Workers : v # w => req'[v] = req[v]
  <2>1. (new.at = "serve" /\ new.result = "OK") => new.db = entry'[new.found].db
    BY DEF HasFound
  <2>2. Len(entry') \in Nat /\ Len(entry) <= Len(entry')
    BY <1>1
  <2>3. /\ new.at \in Inside <=> mutex' = w
        /\ \A v \in Workers : v # w => (mutex' = v <=> mutex = v)
        /\ HasFound(new) => new.found \in 1..Len(entry')
    BY <1>1
  <2> QED BY <2>1, <2>2, <2>3, MovesInv
<1>3. Evicting' <=> Evicting
  BY <1>2 DEF Evicting, Inside
<1>4. GivesUp'
  <2> SUFFICES ASSUME NEW v \in Workers, req'[v].at = "decref"
               PROVE  /\ req'[v].db \in 1..Len(entry')
                      /\ entry'[req'[v].db].live
                      /\ \A i \in 1..Len(cache') : cache'[i] # req'[v].db
    BY DEF GivesUp
  <2>1. req'[v] = req[v]
    BY <1>2 DEF Inside
  <2>2. /\ req[v].db \in 1..Len(entry) /\ entry[req[v].db].live
        /\ \A i \in 1..Len(cache) : cache[i] # req[v].db
    BY <2>1 DEF CacheInv, GivesUp
  <2> QED BY <2>1, <2>2
<1> QED BY <1>1, <1>2, <1>3, <1>4, SameTableInv

-----------------------------------------------------------------------------
(* The handler before db_cache_open, and after it.                          *)

LEMMA RequestsInv ==
    ASSUME HandlesInv, CacheInv, NEW w \in Workers,
           \/ AnswersAtOnce(w) \/ DocumentPath(w)
           \/ \E name \in Names, method \in Methods : Arrives(w, method, name)
    PROVE  HandlesInv' /\ CacheInv'
<1>0. req[w].at = "idle" /\ req[w] \in Requests /\ req \in [Workers -> Requests] /\ entry \in Seq(Entries)
  BY RequestType DEF AnswersAtOnce, DocumentPath, Arrives, At
<1>1. CASE AnswersAtOnce(w) \/ DocumentPath(w)
  <2>1. HandlesInv' /\ UNCHANGED <<cvars, db>>
    BY <1>1, SameHandles, OtherTrouble DEF AnswersAtOnce, DocumentPath, hvars
  <2>2. CacheInv'
    BY <2>1 DEF cvars, CacheInv, CacheTypeOK, EntriesOwnHandles, HoldsMutex, TableIsRecent, TableSize, Kept,
                Evicting, GivesUp
  <2> QED BY <2>1, <2>2
<1>2. CASE \E name \in Names, method \in Methods : Arrives(w, method, name)
  <2>1. PICK name \in Names, method \in Methods : Arrives(w, method, name)
    BY <1>2
  <2> DEFINE new == [Idle EXCEPT !.at = "lock", !.method = method, !.name = name]
  <2>2. new \in Requests /\ new.at = "lock" /\ new.result = "none"
    BY IdleType DEF Requests, Steps
  <2>3. req' = [req EXCEPT ![w] = new] /\ UNCHANGED <<hvars, cache, entry, mutex, recent>>
    BY <2>1 DEF Arrives
  <2> HIDE DEF new
  <2>4. new.at \notin Inside /\ ~HasFound(new) /\ req[w].at \notin Inside
    BY <1>0, <2>2 DEF Inside, HasFound
  <2>5. CacheInv'
    BY <1>0, <2>2, <2>3, <2>4, OutsideInv DEF hvars
  <2> QED BY <2>3, <2>5, SameHandles
<1> QED BY <1>1, <1>2

(* Creating what is cached is refused, without the mutex.                   *)
LEMMA HitExistsInv ==
    ASSUME HandlesInv, CacheInv, NEW w \in Workers, HitExists(w)
    PROVE  HandlesInv' /\ CacheInv'
<1> DEFINE new == [req[w] EXCEPT !.at = "serve", !.found = 0, !.result = "EXISTS"]
<1>1. req[w].at = "hit" /\ req[w] \in Requests /\ req \in [Workers -> Requests] /\ entry \in Seq(Entries)
  BY RequestType DEF HitExists, At
<1>2. req' = [req EXCEPT ![w] = new] /\ UNCHANGED <<hvars, cache, entry, mutex, recent>>
  BY <1>1 DEF HitExists
<1>3. new \in Requests /\ new.at = "serve" /\ new.result = "EXISTS"
  BY <1>1 DEF Requests, Steps
<1> HIDE DEF new
<1>4. new.at \notin Inside /\ ~HasFound(new) /\ req[w].at \notin Inside
  BY <1>1, <1>3 DEF Inside, HasFound
<1>5. CacheInv'
  BY <1>1, <1>2, <1>3, <1>4, OutsideInv DEF hvars
<1> QED BY <1>2, <1>5, SameHandles

LEMMA IncrefReadsInv ==
    ASSUME HandlesInv, CacheInv, NEW w \in Workers, IncrefReads(w)
    PROVE  HandlesInv' /\ CacheInv'
<1> DEFINE n   == entry[req[w].found].refcount + 1
           new == [req[w] EXCEPT !.at = "incref", !.count = n]
<1>1. req[w].at = "hit" /\ Touches(w) /\ UNCHANGED entry
      /\ req' = [req EXCEPT ![w].at = "incref", ![w].count = n]
  BY DEF IncrefReads, At
<1>2. /\ req[w] \in Requests /\ req \in [Workers -> Requests] /\ entry \in Seq(Entries)
      /\ req[w].found \in 1..Len(entry)
  BY <1>1, RequestType DEF HasFound
<1>3. n \in Int
  <2>1. entry[req[w].found] \in Entries
    BY <1>2
  <2>2. entry[req[w].found].refcount \in Int
    BY <2>1 DEF Entries
  <2> QED BY <2>2
<1> HIDE DEF n
<1>4. req' = [req EXCEPT ![w] = new]
  BY <1>1, <1>2
<1>5. new \in Requests /\ new.at = "incref" /\ new.found = req[w].found
  BY <1>2, <1>3 DEF Requests, Steps
<1> HIDE DEF new
<1>6. HandlesInv' /\ UNCHANGED <<cache, recent, mutex, db>>
  BY <1>1, OtherTrouble DEF Touches
<1>7. new.at \notin Inside /\ req[w].at \notin Inside /\ new.found \in 1..Len(entry) /\ new.at # "serve"
  BY <1>1, <1>2, <1>5 DEF Inside
<1>8. CacheInv'
  BY <1>1, <1>2, <1>4, <1>5, <1>6, <1>7, OutsideInv
<1> QED BY <1>6, <1>8

(* The count may be another worker's by now, but nothing else is touched.   *)
LEMMA IncrefWritesInv ==
    ASSUME HandlesInv, CacheInv, NEW w \in Workers, IncrefWrites(w)
    PROVE  HandlesInv' /\ CacheInv'
<1> DEFINE e   == req[w].found
           n   == req[w].count
           new == [req[w] EXCEPT !.at = "out", !.count = 0, !.result = "OK"]
           ent == [entry[e] EXCEPT !.refcount = n]
<1>1. req[w].at = "incref" /\ Touches(w)
      /\ entry' = [entry EXCEPT ![e].refcount = n]
      /\ req' = [req EXCEPT ![w].at = "out", ![w].count = 0, ![w].result = "OK"]
  BY DEF IncrefWrites, At
<1>2. /\ req[w] \in Requests /\ req \in [Workers -> Requests] /\ entry \in Seq(Entries)
      /\ e \in 1..Len(entry)
  BY <1>1, RequestType DEF HasFound
<1>3. req' = [req EXCEPT ![w] = new]
  BY <1>1, <1>2
<1>4. new \in Requests /\ new.at = "out" /\ new.found = e
  <2>1. 0 \in Int /\ "out" \in Steps
    BY DEF Steps
  <2> QED BY <1>2, <2>1, Zenon DEF Requests
<1>5. n \in Int /\ entry[e] \in Entries
  <2>1. n \in Int
    BY <1>2, Zenon DEF Requests
  <2> QED BY <1>2, <2>1
<1>6. entry' = [entry EXCEPT ![e] = ent]
  BY <1>1, <1>2
<1> HIDE DEF new, e, n
<1>7. ent \in Entries /\ ent.db = entry[e].db /\ ent.live = entry[e].live
  BY <1>5 DEF Entries
<1> HIDE DEF ent
<1>8. /\ entry' \in Seq(Entries) /\ Len(entry') = Len(entry)
      /\ \A i \in 1..Len(entry) : entry'[i] = IF i = e THEN ent ELSE entry[i]
  BY <1>2, <1>6, <1>7, ExceptSeq
<1>9. \A i \in 1..Len(entry) : entry'[i].db = entry[i].db /\ entry'[i].live = entry[i].live
  BY <1>7, <1>8
<1>10. HandlesInv' /\ UNCHANGED <<cache, recent, mutex, db>>
  BY <1>1, OtherTrouble DEF Touches
<1>11. new.at \notin Inside /\ req[w].at \notin Inside /\ new.found \in 1..Len(entry) /\ new.at # "serve"
  BY <1>1, <1>2, <1>4 DEF Inside
<1>12. CacheInv'
  BY <1>3, <1>4, <1>8, <1>9, <1>10, <1>11, OutsideInv
<1> QED BY <1>10, <1>12

LEMMA ReturnsInv ==
    ASSUME HandlesInv, CacheInv, NEW w \in Workers, Returns(w)
    PROVE  HandlesInv' /\ CacheInv'
<1> DEFINE h   == entry[req[w].found].db
           new == [req[w] EXCEPT !.at = "serve", !.db = h]
<1>1. req[w].at = "out" /\ Touches(w) /\ UNCHANGED entry
      /\ req' = [req EXCEPT ![w].at = "serve", ![w].db = h]
  BY DEF Returns, At
<1>2. /\ req[w] \in Requests /\ req \in [Workers -> Requests] /\ entry \in Seq(Entries)
      /\ req[w].found \in 1..Len(entry)
  BY <1>1, RequestType DEF HasFound
<1>3. h \in Nat
  <2>1. entry[req[w].found] \in Entries
    BY <1>2
  <2> QED BY <2>1 DEF Entries
<1>4. req' = [req EXCEPT ![w] = new]
  BY <1>1, <1>2
<1>5. new \in Requests /\ new.at = "serve" /\ new.found = req[w].found /\ new.db = entry[req[w].found].db
  <2> HIDE DEF h
  <2>1. new \in Requests /\ new.at = "serve" /\ new.found = req[w].found /\ new.db = h
    BY <1>2, <1>3 DEF Requests, Steps
  <2> QED BY <2>1 DEF h
<1> HIDE DEF new, h
<1>6. HandlesInv' /\ UNCHANGED <<cache, recent, mutex, db>>
  BY <1>1, OtherTrouble DEF Touches
<1>7. new.at \notin Inside /\ req[w].at \notin Inside /\ new.found \in 1..Len(entry)
  BY <1>1, <1>2, <1>5 DEF Inside
<1>8. CacheInv'
  BY <1>1, <1>2, <1>4, <1>5, <1>6, <1>7, OutsideInv
<1> QED BY <1>6, <1>8

LEMMA ServeInv ==
    ASSUME HandlesInv, CacheInv, NEW w \in Workers, ServeGetOrPut(w) \/ ServeDelete(w)
    PROVE  HandlesInv' /\ CacheInv'
<1> DEFINE h == req[w].db
<1>1. req[w].at = "serve" /\ ub = "none" /\ Answered(w)
  BY DEF ServeGetOrPut, ServeDelete, At, Running
<1>2. \/ req[w].result = "OK" /\ (UseDb(h) \/ la_db_delete_db(h))
      \/ UNCHANGED hvars
  BY DEF ServeGetOrPut, ServeDelete
<1>3. /\ req[w] \in Requests /\ req \in [Workers -> Requests] /\ entry \in Seq(Entries)
      /\ HasFound(req[w]) => req[w].found \in 1..Len(entry)
      /\ req[w].result = "OK" => h = entry[req[w].found].db
  BY <1>1, RequestType
<1>4. HandlesInv' /\ UNCHANGED db
  <2>1. CASE req[w].result = "OK" /\ (UseDb(h) \/ la_db_delete_db(h))
    <3>1. h \in 1..Len(db)
      BY <1>3, <2>1 DEF CacheInv, EntriesOwnHandles, HasFound
    <3> QED BY <1>1, <2>1, <3>1, UseKeeps DEF Running
  <2>2. CASE UNCHANGED hvars
    BY <2>2, SameHandles DEF hvars
  <2> QED BY <1>2, <2>1, <2>2
<1>5. UNCHANGED <<cache, entry, mutex, recent>> /\ req' = IF ub' = "none" THEN [req EXCEPT ![w] = Idle] ELSE req
  BY <1>1 DEF Answered
<1>6. PICK new \in {Idle, req[w]} : req' = [req EXCEPT ![w] = new]
  BY <1>3, <1>5
<1>7. /\ new \in Requests /\ new.at \notin Inside /\ req[w].at \notin Inside
      /\ HasFound(new) => new.found \in 1..Len(entry)
      /\ (new.at = "serve" /\ new.result = "OK") => new.db = entry[new.found].db
  BY <1>1, <1>3, IdleType DEF Inside, HasFound
<1>8. CacheInv'
  BY <1>3, <1>4, <1>5, <1>6, <1>7, OutsideInv
<1> QED BY <1>4, <1>8

-----------------------------------------------------------------------------
(* db_cache_open, with the mutex.                                           *)

LEMMA LockInv ==
    ASSUME HandlesInv, CacheInv, NEW w \in Workers, Lock(w)
    PROVE  HandlesInv' /\ CacheInv'
<1> DEFINE new == [req[w] EXCEPT !.at = "open"]
<1>1. /\ req[w].at = "lock" /\ mutex = Nobody /\ mutex' = w /\ UNCHANGED <<hvars, cache, entry, recent>>
      /\ req' = [req EXCEPT ![w].at = "open"]
  BY DEF Lock, At
<1>2. /\ req \in [Workers -> Requests] /\ req[w] \in Requests /\ Len(entry) \in Nat /\ entry \in Seq(Entries)
      /\ HasFound(req[w]) => req[w].found \in 1..Len(entry)
  BY RequestType
<1>3. /\ new \in Requests /\ new.at = "open" /\ new.found = req[w].found /\ new.result = req[w].result
      /\ req' = [req EXCEPT ![w] = new]
  BY <1>1, <1>2 DEF Requests, Steps
<1> HIDE DEF new
<1>4. \A v \in Workers : req[v].at \notin Inside
  BY <1>1, CacheAssumption DEF CacheInv, HoldsMutex
<1>5. /\ req' \in [Workers -> Requests] /\ HoldsMutex'
      /\ req'[w] = new /\ \A v \in Workers : v # w => req'[v] = req[v]
  <2>1. /\ new.at \in Inside <=> mutex' = w
        /\ \A v \in Workers : v # w => (mutex' = v <=> mutex = v)
        /\ HasFound(new) => new.found \in 1..Len(entry')
        /\ new.at # "serve"
    BY <1>1, <1>2, <1>3, CacheAssumption DEF Inside, HasFound
  <2>2. Len(entry') \in Nat /\ Len(entry) <= Len(entry') /\ \A i \in 1..Len(entry) : entry'[i].db = entry[i].db
    BY <1>1, <1>2
  <2> QED BY <1>3, <2>1, <2>2, MovesInv
<1>6. (Evicting' <=> Evicting) /\ GivesUp'
  BY <1>3, <1>4, <1>5 DEF Evicting, GivesUp, Inside
<1>7. CacheInv'
  BY <1>1, <1>2, <1>5, <1>6, SameTableInv DEF hvars
<1> QED BY <1>1, <1>7, SameHandles

LEMMA MissFailsInv ==
    ASSUME HandlesInv, CacheInv, NEW w \in Workers, MissFails(w)
    PROVE  HandlesInv' /\ CacheInv'
<1>1. req[w].at = "open" /\ UNCHANGED <<cache, entry, recent>>
  BY DEF MissFails, At
<1>2. /\ req[w] \in Requests /\ Len(entry) \in Nat /\ entry \in Seq(Entries) /\ mutex = w
      /\ \A v \in Workers : v # w => req[v].at \notin Inside
  BY <1>1, RequestType DEF Inside
<1>3. PICK code \in {"ERROR", "NO_DRIVER"} :
          /\ Unlocks(w, "serve", 0, code)
          /\ la_db_open(req[w].name, Exclusive(w), Exclusive(w), code) \/ UNCHANGED hvars
  BY DEF MissFails, Codes
<1>4. HandlesInv' /\ UNCHANGED db
  <2>1. CASE la_db_open(req[w].name, Exclusive(w), Exclusive(w), code)
    <3>1. req[w].name \in Names
      BY <1>2 DEF Requests
    <3> QED BY <1>3, <2>1, <3>1, OpenKeeps
  <2>2. CASE UNCHANGED hvars
    BY <2>2, SameHandles DEF hvars
  <2> QED BY <1>3, <2>1, <2>2
<1>5. /\ req' \in [Workers -> Requests] /\ mutex' \in Workers \cup {Nobody} /\ HoldsMutex'
      /\ ~Evicting' /\ GivesUp'
  <2>1. Len(entry') \in Nat /\ Len(entry) <= Len(entry') /\ \A i \in 1..Len(entry) : entry'[i].db = entry[i].db
    BY <1>1, <1>2
  <2>2. code \in {"none", "OK", "ERROR", "NO_DRIVER"} /\ code # "OK" /\ 0 \in Nat /\ "serve" \in {"hit", "out", "serve"}
    OBVIOUS
  <2> QED BY <1>2, <1>3, <2>1, <2>2, UnlocksInv
<1>6. ~Evicting
  BY <1>1, <1>2 DEF Evicting, Inside
<1>7. CacheInv'
  BY <1>1, <1>2, <1>4, <1>5, <1>6, SameTableInv
<1> QED BY <1>4, <1>7

(* A hit: the entry moves to the end of the table, and of `recent'.         *)
LEMMA HitInv ==
    ASSUME HandlesInv, CacheInv, NEW w \in Workers, Hit(w)
    PROVE  HandlesInv' /\ CacheInv'
<1>1. PICK i \in Cached(req[w].name) :
          /\ cache' = MovedToEnd(cache, i) /\ recent' = Reopened(cache[i])
          /\ Unlocks(w, "hit", cache[i], "none")
  BY DEF Hit
<1>2. req[w].at = "open" /\ UNCHANGED <<hvars, entry>>
  BY DEF Hit, At
<1>3. /\ cache \in Seq(Nat) /\ recent \in Seq(Nat) /\ Distinct(recent) /\ entry \in Seq(Entries)
      /\ Len(entry) \in Nat /\ Len(cache) \in Nat /\ Len(recent) \in Nat /\ Len(cache) <= Len(recent)
      /\ mutex = w /\ \A v \in Workers : v # w => req[v].at \notin Inside
  <2>1. mutex = w /\ \A v \in Workers : v # w => req[v].at \notin Inside
    BY <1>2, RequestType DEF Inside
  <2> QED BY <2>1 DEF CacheInv, CacheTypeOK, TableIsRecent, Distinct
<1> DEFINE d == Len(recent) - Len(cache)
           p == d + i
<1>4. /\ d \in Nat /\ d + Len(cache) = Len(recent) /\ p = d + i
      /\ i \in 1..Len(cache) /\ p \in 1..Len(recent)
  <2>1. i \in 1..Len(cache)
    BY <1>1 DEF Cached
  <2> QED BY <1>3, <2>1
<1>5. /\ \A j \in 1..Len(cache) : cache[j] = recent[d + j] /\ entry[cache[j]].live
      /\ \A j \in 1..Len(recent) : recent[j] \in 1..Len(entry)
  BY DEF CacheInv, TableIsRecent
<1> HIDE DEF d, p
<1>6. cache[i] = recent[p] /\ cache[i] \in 1..Len(entry)
  BY <1>4, <1>5
<1>7. /\ cache' \in Seq(Nat) /\ Len(cache') = Len(cache)
      /\ \A j \in 1..Len(cache) :
            cache'[j] = IF j < i THEN cache[j] ELSE IF j < Len(cache) THEN cache[j + 1] ELSE cache[i]
  BY <1>1, <1>3, <1>4, MovedToEndType
<1>8. /\ recent' \in Seq(Nat) /\ Distinct(recent') /\ Len(recent') = Len(recent)
      /\ \A j \in 1..Len(recent) :
            recent'[j] = IF j < p THEN recent[j] ELSE IF j < Len(recent) THEN recent[j + 1] ELSE recent[p]
  BY <1>1, <1>3, <1>4, <1>6, ReopenedType
<1>9. /\ mutex' \in Workers \cup {Nobody} /\ req' \in [Workers -> Requests] /\ HoldsMutex'
      /\ ~Evicting' /\ GivesUp'
  <2>1. Len(entry') \in Nat /\ Len(entry) <= Len(entry') /\ \A j \in 1..Len(entry) : entry'[j].db = entry[j].db
    BY <1>2, <1>3
  <2>2. cache[i] \in Nat /\ cache[i] \in 1..Len(entry')
    BY <1>2, <1>6
  <2>3. "hit" \in {"hit", "out", "serve"} /\ "hit" # "serve" /\ "none" \in {"none", "OK", "ERROR", "NO_DRIVER"} /\ "none" # "OK"
    OBVIOUS
  <2> QED BY <1>1, <1>3, <2>1, <2>2, <2>3, UnlocksInv
<1>10. TableIsRecent'
  <2>1. ASSUME NEW j \in 1..Len(recent) PROVE recent'[j] \in 1..Len(entry)
    <3>1. CASE j < p
      BY <1>5, <1>8, <3>1
    <3>2. CASE ~(j < p) /\ j < Len(recent)
      <4>1. j + 1 \in 1..Len(recent)
        BY <1>3, <3>2
      <4> QED BY <1>5, <1>8, <3>2, <4>1
    <3>3. CASE ~(j < p) /\ ~(j < Len(recent))
      BY <1>4, <1>5, <1>8, <3>3
    <3> QED BY <3>1, <3>2, <3>3
  <2>2. ASSUME NEW j \in 1..Len(cache)
        PROVE  cache'[j] = recent'[d + j] /\ entry[cache'[j]].live
    <3>0. d + j \in 1..Len(recent)
      BY <1>3, <1>4
    <3>1. CASE j < i
      <4>1. d + j < p
        BY <1>3, <1>4, <3>1
      <4> QED BY <1>5, <1>7, <1>8, <3>0, <3>1, <4>1
    <3>2. CASE ~(j < i) /\ j < Len(cache)
      <4>1. ~(d + j < p) /\ d + j < Len(recent) /\ j + 1 \in 1..Len(cache) /\ (d + j) + 1 = d + (j + 1)
        BY <1>3, <1>4, <3>2
      <4>2. cache'[j] = cache[j + 1] /\ recent'[d + j] = recent[d + (j + 1)]
        BY <1>7, <1>8, <3>0, <3>2, <4>1
      <4> QED BY <1>5, <4>1, <4>2
    <3>3. CASE ~(j < i) /\ ~(j < Len(cache))
      <4>1. ~(d + j < p) /\ ~(d + j < Len(recent))
        BY <1>3, <1>4, <3>3
      <4>2. cache'[j] = cache[i] /\ recent'[d + j] = recent[p]
        BY <1>7, <1>8, <3>0, <3>3, <4>1
      <4> QED BY <1>4, <1>5, <1>6, <4>2
    <3> QED BY <3>1, <3>2, <3>3
  <2>3. Len(recent') - Len(cache') = d
    BY <1>7, <1>8 DEF d
  <2> QED BY <1>2, <1>3, <1>7, <1>8, <2>1, <2>2, <2>3 DEF TableIsRecent, Distinct
<1>11. TableSize'
  <2>1. ~Evicting
    BY <1>2, <1>3 DEF Evicting, Inside
  <2> QED BY <1>7, <1>8, <1>9, <2>1 DEF CacheInv, TableSize, Kept
<1>12. EntriesOwnHandles'
  BY <1>2 DEF hvars, CacheInv, EntriesOwnHandles
<1>13. CacheTypeOK'
  BY <1>2, <1>3, <1>7, <1>8, <1>9 DEF CacheTypeOK
<1>14. CacheInv'
  BY <1>9, <1>10, <1>11, <1>12, <1>13 DEF CacheInv
<1> QED BY <1>2, <1>14, SameHandles

(* A miss: a new entry with a new handle, at the end of the table.          *)
LEMMA MissOpensInv ==
    ASSUME HandlesInv, CacheInv, NEW w \in Workers, MissOpens(w)
    PROVE  HandlesInv' /\ CacheInv'
<1> DEFINE name == req[w].name
           new  == Len(entry) + 1
<1>1. /\ req[w].at = "open" /\ recent' = Append(recent, new) /\ cache' = Append(cache, new)
      /\ la_db_open(name, Exclusive(w), Exclusive(w), "OK")
  BY DEF MissOpens, At
<1>2. PICK junk \in JunkRefs, key \in Spells[name] \cup {"none"} :
          entry' = Append(entry, [name |-> name, key |-> key, db |-> Len(db) + 1,
                                  refcount |-> junk + 1, live |-> TRUE])
  BY DEF MissOpens
<1>3. /\ req \in [Workers -> Requests] /\ req[w] \in Requests /\ name \in Names
      /\ Len(entry) \in Nat /\ entry \in Seq(Entries) /\ Len(db) \in Nat /\ db \in Seq(HandleType)
      /\ mutex = w /\ \A v \in Workers : v # w => req[v].at \notin Inside
  BY <1>1, RequestType DEF Requests, Inside
<1>4. /\ cache \in Seq(Nat) /\ recent \in Seq(Nat) /\ Len(cache) \in Nat /\ Len(recent) \in Nat
      /\ Len(cache) <= Len(recent) /\ MaxSize \in Nat
  BY CacheAssumption DEF CacheInv, CacheTypeOK, TableIsRecent
<1>5. /\ HandlesInv'
      /\ \E hd \in HandleType : hd.state # "closed" /\ db' = Append(db, hd)
  BY <1>1, <1>3, OpenKeeps
<1>6. PICK hd \in HandleType : hd.state # "closed" /\ db' = Append(db, hd)
  BY <1>5
<1> DEFINE ent == [name |-> name, key |-> key, db |-> Len(db) + 1, refcount |-> junk + 1, live |-> TRUE]
<1>7. entry' = Append(entry, ent)
  BY <1>2
<1>8. ent \in Entries /\ ent.db = Len(db) + 1 /\ ent.live
  <2>1. TRUE \in BOOLEAN
    OBVIOUS
  <2>2. junk + 1 \in Int /\ Len(db) + 1 \in Nat
    BY <1>3, CacheAssumption
  <2>3. key \in Names \cup {"none"}
    BY <1>3, HandlesAssumption
  <2> HIDE DEF name
  <2> QED BY <1>3, <2>1, <2>2, <2>3, Zenon DEF Entries
<1> HIDE DEF ent, name
<1>9. /\ entry' \in Seq(Entries) /\ Len(entry') = Len(entry) + 1 /\ entry'[Len(entry) + 1] = ent
      /\ \A i \in 1..Len(entry) : entry'[i] = entry[i]
  BY <1>3, <1>7, <1>8, AppendProperties
<1>10. /\ Len(db') = Len(db) + 1 /\ db'[Len(db) + 1] = hd /\ \A i \in 1..Len(db) : db'[i] = db[i]
  BY <1>3, <1>6, AppendProperties
<1>11. /\ new \in Nat /\ new \in 1..Len(entry')
       /\ cache' \in Seq(Nat) /\ Len(cache') = Len(cache) + 1 /\ cache'[Len(cache) + 1] = new
       /\ \A i \in 1..Len(cache) : cache'[i] = cache[i]
       /\ recent' \in Seq(Nat) /\ Len(recent') = Len(recent) + 1 /\ recent'[Len(recent) + 1] = new
       /\ \A i \in 1..Len(recent) : recent'[i] = recent[i]
  <2>1. new \in Nat /\ new \in 1..Len(entry')
    BY <1>3, <1>9
  <2> HIDE DEF new
  <2> QED BY <1>1, <1>4, <2>1, AppendProperties
<1>12. EntriesOwnHandles'
  <2>1. \A i \in 1..Len(entry) :
            /\ entry[i].db \in 1..Len(db)
            /\ entry[i].live <=> db[entry[i].db].state # "closed"
    BY DEF CacheInv, EntriesOwnHandles
  <2>2. ASSUME NEW i \in 1..Len(entry')
        PROVE  /\ entry'[i].db \in 1..Len(db')
               /\ entry'[i].live <=> db'[entry'[i].db].state # "closed"
    <3>1. CASE i \in 1..Len(entry)
      BY <1>3, <1>9, <1>10, <2>1, <3>1, SMTT(30)
    <3>2. CASE i = Len(entry) + 1
      <4>1. entry'[i].db = Len(db) + 1 /\ entry'[i].live
        BY <1>8, <1>9, <3>2
      <4> QED BY <1>3, <1>6, <1>10, <4>1
    <3> QED BY <1>3, <1>9, <3>1, <3>2
  <2>3. ASSUME NEW i \in 1..Len(entry'), NEW j \in 1..Len(entry'), entry'[i].db = entry'[j].db
        PROVE  i = j
    <3>1. \A k \in 1..Len(entry') : k = Len(entry) + 1 <=> entry'[k].db = Len(db) + 1
      <4> SUFFICES ASSUME NEW k \in 1..Len(entry')
                   PROVE  k = Len(entry) + 1 <=> entry'[k].db = Len(db) + 1
        OBVIOUS
      <4>1. CASE k = Len(entry) + 1
        BY <1>8, <1>9, <4>1
      <4>2. CASE k \in 1..Len(entry)
        <5>1. entry'[k].db \in 1..Len(db)
          BY <1>9, <2>1, <4>2
        <5> QED BY <1>3, <4>2, <5>1
      <4> QED BY <1>3, <1>9, <4>1, <4>2
    <3>2. CASE i = Len(entry) + 1 \/ j = Len(entry) + 1
      BY <2>3, <3>1, <3>2
    <3>3. CASE i \in 1..Len(entry) /\ j \in 1..Len(entry)
      BY <1>9, <2>3, <3>3 DEF CacheInv, EntriesOwnHandles
    <3> QED BY <1>3, <1>9, <3>2, <3>3
  <2> QED BY <2>2, <2>3 DEF EntriesOwnHandles
<1>13. TableIsRecent'
  <2>0. /\ \A i \in 1..Len(recent) : recent[i] \in 1..Len(entry)
        /\ \A i, j \in 1..Len(recent) : recent[i] = recent[j] => i = j
        /\ \A i \in 1..Len(cache) :
              cache[i] = recent[Len(recent) - Len(cache) + i] /\ entry[cache[i]].live
    BY DEF CacheInv, TableIsRecent
  <2>1. \A i \in 1..Len(recent') : recent'[i] \in 1..Len(entry') /\ (recent'[i] = new <=> i = Len(recent) + 1)
    <3> SUFFICES ASSUME NEW i \in 1..Len(recent')
                 PROVE  recent'[i] \in 1..Len(entry') /\ (recent'[i] = new <=> i = Len(recent) + 1)
      OBVIOUS
    <3>1. CASE i = Len(recent) + 1
      BY <1>11, <3>1
    <3>2. CASE i \in 1..Len(recent)
      <4>1. recent'[i] = recent[i] /\ recent[i] \in 1..Len(entry)
        BY <1>11, <2>0, <3>2
      <4> QED BY <1>3, <1>4, <1>9, <3>2, <4>1
    <3> QED BY <1>4, <1>11, <3>1, <3>2
  <2>2. ASSUME NEW i \in 1..Len(recent'), NEW j \in 1..Len(recent'), recent'[i] = recent'[j]
        PROVE  i = j
    <3>1. CASE i = Len(recent) + 1 \/ j = Len(recent) + 1
      BY <2>1, <2>2, <3>1
    <3>2. CASE i \in 1..Len(recent) /\ j \in 1..Len(recent)
      BY <1>11, <2>0, <2>2, <3>2
    <3> QED BY <1>4, <1>11, <3>1, <3>2
  <2>3. ASSUME NEW i \in 1..Len(cache')
        PROVE  cache'[i] = recent'[Len(recent') - Len(cache') + i] /\ entry'[cache'[i]].live
    <3>0. Len(recent') - Len(cache') = Len(recent) - Len(cache)
      BY <1>4, <1>11
    <3>1. CASE i \in 1..Len(cache)
      <4> DEFINE k == Len(recent) - Len(cache) + i
      <4>1. k \in 1..Len(recent)
        BY <1>4, <3>1
      <4>2. cache'[i] = recent[k] /\ recent'[k] = recent[k] /\ recent[k] \in 1..Len(entry) /\ entry[recent[k]].live
        <5>1. cache[i] = recent[k] /\ entry[cache[i]].live
          BY <2>0, <3>1
        <5> HIDE DEF k
        <5> QED BY <1>11, <2>0, <3>1, <4>1, <5>1
      <4>3. entry'[recent[k]] = entry[recent[k]]
        <5> HIDE DEF k
        <5> QED BY <1>9, <4>2
      <4> QED BY <3>0, <4>2, <4>3
    <3>2. CASE i = Len(cache) + 1
      <4>1. Len(recent') - Len(cache') + i = Len(recent) + 1
        BY <1>4, <1>11, <3>2
      <4>2. entry'[new] = ent
        BY <1>9
      <4> QED BY <1>8, <1>11, <3>2, <4>1, <4>2
    <3> QED BY <1>4, <1>11, <3>1, <3>2
  <2>4. Len(cache') <= Len(recent')
    BY <1>4, <1>11
  <2> QED BY <2>1, <2>2, <2>3, <2>4 DEF TableIsRecent
<1>14. ~Evicting
  BY <1>1, <1>3 DEF Evicting, Inside
<1>15. /\ req' \in [Workers -> Requests] /\ HoldsMutex' /\ mutex' \in Workers \cup {Nobody} /\ GivesUp'
       /\ Evicting' <=> OverLimit(Len(cache'))
  <2>0. /\ Len(entry') \in Nat /\ Len(entry) <= Len(entry')
        /\ \A i \in 1..Len(entry) : entry'[i].db = entry[i].db
    BY <1>3, <1>9
  <2>1. CASE OverLimit(Len(cache'))
    <3> DEFINE r == [req[w] EXCEPT !.at = "evict", !.found = new]
    <3>1. req' = [req EXCEPT ![w].at = "evict", ![w].found = new] /\ UNCHANGED mutex
      BY <2>1 DEF MissOpens
    <3> HIDE DEF new
    <3>2. req' = [req EXCEPT ![w] = r]
      BY <1>3, <3>1
    <3>3. r \in Requests /\ r.at = "evict" /\ r.found = new
      BY <1>3, <1>11 DEF Requests, Steps
    <3> HIDE DEF r
    <3>4. /\ r.at \in Inside <=> mutex' = w
          /\ HasFound(r) => r.found \in 1..Len(entry')
          /\ r.at # "serve"
      BY <1>3, <1>11, <3>1, <3>3 DEF Inside
    <3>5. /\ req' \in [Workers -> Requests] /\ HoldsMutex' /\ req'[w] = r
          /\ \A v \in Workers : v # w => req'[v] = req[v]
      BY <2>0, <3>1, <3>2, <3>3, <3>4, MovesInv
    <3>6. mutex' \in Workers \cup {Nobody}
      BY <1>3, <3>1
    <3>7. GivesUp' /\ Evicting'
      BY <1>3, <3>3, <3>5 DEF GivesUp, Evicting, Inside
    <3> QED BY <2>1, <3>5, <3>6, <3>7
  <2>2. CASE ~OverLimit(Len(cache'))
    <3>1. Unlocks(w, "out", new, "OK")
      BY <2>2 DEF MissOpens
    <3> HIDE DEF new
    <3>2. "out" \in {"hit", "out", "serve"} /\ "out" # "serve" /\ "OK" \in {"none", "OK", "ERROR", "NO_DRIVER"}
      OBVIOUS
    <3> QED BY <1>3, <1>11, <2>0, <2>2, <3>1, <3>2, UnlocksInv
  <2> QED BY <2>1, <2>2
<1>16. TableSize'
  <2>1. Len(cache) = Kept
    BY <1>14 DEF CacheInv, TableSize
  <2> QED BY <1>4, <1>11, <1>15, <2>1 DEF TableSize, Kept, OverLimit
<1>17. CacheTypeOK'
  BY <1>9, <1>11, <1>15 DEF CacheTypeOK
<1> QED BY <1>5, <1>12, <1>13, <1>15, <1>16, <1>17 DEF CacheInv

(* An eviction: the oldest entry loses its place in the table ...           *)
LEMMA EvictInv ==
    ASSUME HandlesInv, CacheInv, NEW w \in Workers, Evict(w)
    PROVE  HandlesInv' /\ CacheInv'
<1> DEFINE e == Head(cache)
           n == entry[e].refcount - 1
           new == [req[w] EXCEPT !.at = "decref", !.db = e, !.count = n]
<1>1. /\ req[w].at = "evict" /\ cache' = Tail(cache) /\ UNCHANGED <<hvars, entry, mutex, recent>>
      /\ req' = [req EXCEPT ![w].at = "decref", ![w].db = e, ![w].count = n]
  BY DEF Evict, At
<1>2. /\ req \in [Workers -> Requests] /\ req[w] \in Requests /\ req[w].found \in 1..Len(entry)
      /\ Len(entry) \in Nat /\ entry \in Seq(Entries) /\ mutex = w
      /\ \A v \in Workers : v # w => req[v].at \notin Inside
  BY <1>1, RequestType DEF HasFound, Inside
<1>3. /\ cache \in Seq(Nat) /\ Len(cache) = MaxSize + 1 /\ MaxSize \in Nat /\ Len(recent) \in Nat
      /\ Len(cache) <= Len(recent)
  BY <1>1, CacheAssumption DEF CacheInv, CacheTypeOK, TableSize, Evicting, TableIsRecent
<1>4. cache # <<>> /\ e = cache[1]
  <2>1. Len(cache) # 0
    BY <1>3
  <2>2. cache # <<>>
    BY <2>1, EmptySeq
  <2> QED BY <1>3, <2>2
<1>5. cache' \in Seq(Nat) /\ Len(cache') = MaxSize /\ \A i \in 1..MaxSize : cache'[i] = cache[i + 1]
  BY <1>1, <1>3, <1>4, HeadTailProperties
<1> DEFINE d == Len(recent) - Len(cache)
<1>6. /\ \A i \in 1..Len(cache) : cache[i] = recent[d + i] /\ entry[cache[i]].live
      /\ \A i \in 1..Len(recent) : recent[i] \in 1..Len(entry)
      /\ \A i, j \in 1..Len(recent) : recent[i] = recent[j] => i = j
  BY DEF CacheInv, TableIsRecent
<1>7. d \in Nat /\ 1 \in 1..Len(cache) /\ \A i \in 1..Len(cache) : d + i \in 1..Len(recent)
  BY <1>3
<1>8. Len(recent) - MaxSize = d + 1
  BY <1>3
<1> HIDE DEF d
<1>9. e \in 1..Len(entry) /\ entry[e].live
  BY <1>4, <1>6, <1>7
<1>10. \A i \in 1..MaxSize : cache[i + 1] # e
  <2> SUFFICES ASSUME NEW i \in 1..MaxSize, cache[i + 1] = e PROVE FALSE
    OBVIOUS
  <2>1. i + 1 \in 1..Len(cache)
    BY <1>3
  <2>2. recent[d + 1] = recent[d + (i + 1)]
    BY <1>4, <1>6, <1>7, <2>1
  <2>3. d + 1 = d + (i + 1)
    BY <1>6, <1>7, <2>1, <2>2
  <2> QED BY <1>7, <2>3
<1>11. n \in Int /\ e \in Nat
  <2>1. entry[e] \in Entries
    BY <1>2, <1>9
  <2>2. entry[e].refcount \in Int
    BY <2>1 DEF Entries
  <2> QED BY <1>9, <2>2
<1> HIDE DEF e, n
<1>12. req' = [req EXCEPT ![w] = new]
  BY <1>1, <1>2
<1>13. /\ new \in Requests /\ new.at = "decref" /\ new.db = e /\ new.found = req[w].found
  <2>1. "decref" \in Steps
    BY DEF Steps
  <2> QED BY <1>2, <1>11, <2>1, Zenon DEF Requests
<1> HIDE DEF new
<1>14. /\ req' \in [Workers -> Requests] /\ HoldsMutex'
       /\ req'[w] = new /\ \A v \in Workers : v # w => req'[v] = req[v]
  <2>1. Len(entry') \in Nat /\ Len(entry) <= Len(entry') /\ \A i \in 1..Len(entry) : entry'[i].db = entry[i].db
    BY <1>1, <1>2
  <2>2. /\ new.at \in Inside <=> mutex' = w
        /\ \A v \in Workers : v # w => (mutex' = v <=> mutex = v)
        /\ HasFound(new) => new.found \in 1..Len(entry')
        /\ new.at # "serve"
    BY <1>1, <1>2, <1>13 DEF Inside
  <2> QED BY <1>12, <1>13, <2>1, <2>2, MovesInv
<1>15. ~Evicting'
  BY <1>2, <1>13, <1>14 DEF Evicting, Inside
<1>16. GivesUp'
  <2> SUFFICES ASSUME NEW v \in Workers, req'[v].at = "decref"
               PROVE  /\ req'[v].db \in 1..Len(entry') /\ entry'[req'[v].db].live
                      /\ \A i \in 1..Len(cache') : cache'[i] # req'[v].db
    BY DEF GivesUp
  <2>1. v = w
    BY <1>2, <1>14 DEF Inside
  <2>2. req'[v].db = e
    BY <1>13, <1>14, <2>1
  <2>3. \A i \in 1..Len(cache') : cache'[i] # e
    BY <1>5, <1>10
  <2> QED BY <1>1, <1>9, <2>2, <2>3
<1>17. TableIsRecent'
  <2>1. ASSUME NEW i \in 1..MaxSize
        PROVE  cache'[i] = recent[Len(recent) - MaxSize + i] /\ entry[cache'[i]].live
    <3>1. i + 1 \in 1..Len(cache) /\ Len(recent) - MaxSize + i = d + (i + 1)
      BY <1>3, <1>7, <1>8
    <3> QED BY <1>5, <1>6, <3>1
  <2>2. MaxSize <= Len(recent)
    BY <1>3
  <2> QED BY <1>1, <1>5, <1>6, <2>1, <2>2 DEF TableIsRecent
<1>18. TableSize'
  <2>1. Len(recent) > MaxSize
    BY <1>3
  <2> QED BY <1>1, <1>5, <1>15, <2>1 DEF TableSize, Kept
<1>19. CacheTypeOK'
  BY <1>1, <1>5, <1>14 DEF CacheInv, CacheTypeOK
<1>20. EntriesOwnHandles'
  BY <1>1 DEF hvars, CacheInv, EntriesOwnHandles
<1> QED BY <1>1, <1>14, <1>16, <1>17, <1>18, <1>19, <1>20, SameHandles DEF CacheInv

(* ... and its handle, if the count says that nobody has it.                *)
LEMMA DecrefInv ==
    ASSUME HandlesInv, CacheInv, NEW w \in Workers, Decref(w)
    PROVE  HandlesInv' /\ CacheInv'
<1> DEFINE e == req[w].db
<1>1. /\ req[w].at = "decref" /\ Running /\ UNCHANGED <<cache, recent>>
      /\ Unlocks(w, "out", req[w].found, "OK")
  BY DEF Decref, At
<1>2. /\ req \in [Workers -> Requests] /\ req[w] \in Requests /\ req[w].found \in 1..Len(entry)
      /\ Len(entry) \in Nat /\ entry \in Seq(Entries) /\ mutex = w
      /\ \A v \in Workers : v # w => req[v].at \notin Inside
  BY <1>1, RequestType DEF HasFound, Inside
<1>3. e \in 1..Len(entry) /\ entry[e].live /\ \A i \in 1..Len(cache) : cache[i] # e
  BY <1>1 DEF CacheInv, GivesUp
<1>4. entry[e] \in Entries /\ req[w].count \in Int /\ entry[e].db \in 1..Len(db)
  <2>1. entry[e] \in Entries
    BY <1>2, <1>3
  <2>2. req[w].count \in Int
    BY <1>2 DEF Requests
  <2> QED BY <1>3, <2>1, <2>2 DEF CacheInv, EntriesOwnHandles
<1> HIDE DEF e
<1>5. PICK ent \in Entries :
          /\ entry' = [entry EXCEPT ![e] = ent]
          /\ ent.db = entry[e].db
          /\ \/ ~ent.live /\ la_db_close(entry[e].db)
             \/ ent.live /\ UNCHANGED hvars
  <2>1. CASE req[w].count = 0
    <3> DEFINE ent == [entry[e] EXCEPT !.refcount = 0, !.live = FALSE]
    <3>1. la_db_close(entry[e].db) /\ entry' = [entry EXCEPT ![e].refcount = 0, ![e].live = FALSE]
      BY <2>1 DEF Decref, e
    <3>2. entry' = [entry EXCEPT ![e] = ent]
      BY <1>2, <1>3, <3>1
    <3>3. ent \in Entries /\ ent.db = entry[e].db /\ ~ent.live
      <4>1. FALSE \in BOOLEAN /\ 0 \in Int
        OBVIOUS
      <4> QED BY <1>4, <4>1, Zenon DEF Entries
    <3> QED BY <3>1, <3>2, <3>3
  <2>2. CASE req[w].count # 0
    <3> DEFINE ent == [entry[e] EXCEPT !.refcount = req[w].count]
    <3>1. UNCHANGED hvars /\ entry' = [entry EXCEPT ![e].refcount = req[w].count]
      BY <2>2 DEF Decref, e
    <3>2. entry' = [entry EXCEPT ![e] = ent]
      BY <1>2, <1>3, <3>1
    <3>3. ent \in Entries /\ ent.db = entry[e].db /\ ent.live = entry[e].live
      BY <1>4 DEF Entries
    <3> HIDE DEF ent
    <3>4. ent.live
      BY <1>3, <3>3, Zenon
    <3> QED BY <3>1, <3>2, <3>3, <3>4
  <2> QED BY <2>1, <2>2
<1>6. /\ entry' \in Seq(Entries) /\ Len(entry') = Len(entry)
      /\ \A i \in 1..Len(entry) : entry'[i] = IF i = e THEN ent ELSE entry[i]
  BY <1>2, <1>3, <1>5, ExceptSeq
<1>7. /\ HandlesInv' /\ Len(db') = Len(db)
      /\ \A i \in 1..Len(db) : i # entry[e].db => db'[i] = db[i]
      /\ ent.live <=> db'[entry[e].db].state # "closed"
  <2>1. CASE ~ent.live /\ la_db_close(entry[e].db)
    BY <1>1, <1>4, <2>1, CloseKeeps
  <2>2. CASE ent.live /\ UNCHANGED hvars
    <3>1. db[entry[e].db].state # "closed"
      BY <1>3 DEF CacheInv, EntriesOwnHandles
    <3>2. HandlesInv'
      BY <2>2, SameHandles
    <3> QED BY <2>2, <3>1, <3>2 DEF hvars
  <2> QED BY <1>5, <2>1, <2>2
<1>8. EntriesOwnHandles'
  <2>1. /\ \A i \in 1..Len(entry) :
              /\ entry[i].db \in 1..Len(db)
              /\ entry[i].live <=> db[entry[i].db].state # "closed"
        /\ \A i, j \in 1..Len(entry) : entry[i].db = entry[j].db => i = j
    BY DEF CacheInv, EntriesOwnHandles
  <2>2. \A i \in 1..Len(entry) : entry'[i].db = entry[i].db
    BY <1>5, <1>6
  <2>3. ASSUME NEW i \in 1..Len(entry)
        PROVE  entry'[i].live <=> db'[entry'[i].db].state # "closed"
    <3>1. CASE i = e
      BY <1>5, <1>6, <1>7, <2>2, <3>1
    <3>2. CASE i # e
      <4>1. entry[i].db # entry[e].db
        BY <1>3, <2>1, <3>2
      <4> QED BY <1>6, <1>7, <2>1, <2>2, <3>2, <4>1
    <3> QED BY <3>1, <3>2
  <2> QED BY <1>6, <1>7, <2>1, <2>2, <2>3 DEF EntriesOwnHandles
<1>9. TableIsRecent'
  <2>1. Len(cache) \in Nat /\ Len(recent) \in Nat /\ Len(cache) <= Len(recent)
    BY DEF CacheInv, CacheTypeOK, TableIsRecent
  <2>2. ASSUME NEW i \in 1..Len(cache)
        PROVE  cache[i] = recent[Len(recent) - Len(cache) + i] /\ entry'[cache[i]].live
    <3>1. Len(recent) - Len(cache) + i \in 1..Len(recent)
      BY <2>1
    <3>2. /\ cache[i] = recent[Len(recent) - Len(cache) + i] /\ entry[cache[i]].live
          /\ cache[i] \in 1..Len(entry)
      BY <3>1 DEF CacheInv, TableIsRecent
    <3> QED BY <1>3, <1>6, <3>2
  <2> QED BY <1>1, <1>6, <2>1, <2>2 DEF CacheInv, TableIsRecent
<1>10. /\ mutex' \in Workers \cup {Nobody} /\ req' \in [Workers -> Requests] /\ HoldsMutex'
       /\ ~Evicting' /\ GivesUp'
  <2>1. /\ Len(entry') \in Nat /\ Len(entry) <= Len(entry')
        /\ \A i \in 1..Len(entry) : entry'[i].db = entry[i].db
        /\ req[w].found \in Nat /\ req[w].found \in 1..Len(entry')
    BY <1>2, <1>5, <1>6
  <2>2. "out" \in {"hit", "out", "serve"} /\ "out" # "serve" /\ "OK" \in {"none", "OK", "ERROR", "NO_DRIVER"}
    OBVIOUS
  <2> QED BY <1>1, <1>2, <2>1, <2>2, UnlocksInv
<1>11. TableSize'
  <2>1. ~Evicting
    BY <1>1, <1>2 DEF Evicting, Inside
  <2> QED BY <1>1, <1>10, <2>1 DEF CacheInv, TableSize, Kept
<1>12. CacheTypeOK'
  BY <1>1, <1>6, <1>10 DEF CacheInv, CacheTypeOK
<1> QED BY <1>7, <1>8, <1>9, <1>10, <1>11, <1>12 DEF CacheInv

-----------------------------------------------------------------------------
(* Programs and servers.                                                    *)

(* A program has no cache.                                                  *)
NoCache == mode = "app" => entry = <<>>

Inv == HandlesInv /\ CacheInv /\ NoCache

LEMMA InvInit == Init => Inv
<1> SUFFICES ASSUME Init PROVE Inv
  OBVIOUS
<1>1. /\ cache = <<>> /\ entry = <<>> /\ mutex = Nobody /\ req = [w \in Workers |-> Idle] /\ recent = <<>>
      /\ db = <<>> /\ ub = "none" /\ ended = {}
      /\ (env = "none" /\ host = "none") \/ (env = "bdb" /\ host \in BdbNames)
  BY HandlesAssumption DEF Init, HandlesInit, CacheInit
<1>2. Len(<<>>) = 0 /\ <<>> \in Seq(Nat) /\ <<>> \in Seq(Entries) /\ <<>> \in Seq(HandleType)
  OBVIOUS
<1>3. HandlesInv
  BY <1>1, <1>2, HandlesAssumption
     DEF HandlesInv, HandlesTypeOK, InEnv, ClosedEnds, SafeUntilEnded, EnvOpen, Kinds
<1>4. \A w \in Workers : req[w] \in Requests /\ req[w].at = "idle" /\ req[w].result = "none"
  BY <1>1, IdleType
<1>5. CacheTypeOK
  BY <1>1, <1>2, <1>4 DEF CacheTypeOK
<1>6. EntriesOwnHandles /\ TableIsRecent
  BY <1>1, <1>2 DEF EntriesOwnHandles, TableIsRecent
<1>7. HoldsMutex /\ GivesUp /\ ~Evicting
  BY <1>1, <1>4, CacheAssumption DEF HoldsMutex, GivesUp, Evicting, Inside
<1>8. TableSize
  BY <1>1, <1>2, <1>7, CacheAssumption DEF TableSize, Kept
<1> QED BY <1>1, <1>3, <1>5, <1>6, <1>7, <1>8 DEF Inv, CacheInv, NoCache

LEMMA AppInv ==
    ASSUME Inv, mode = "app", AppNext, UNCHANGED <<cvars, mode>>
    PROVE  Inv'
<1>1. entry = <<>> /\ UNCHANGED <<cache, entry, mutex, req, recent>>
  BY DEF Inv, NoCache, cvars
<1>2. HandlesInv'
  <2>1. CASE \E name \in BdbNames \cup SqliteNames : Running /\ la_storage_install_driver(name)
    <3>1. UNCHANGED <<host, env, disk, db, ended>> /\ (ub' = ub \/ ub' = "NULL driver entry")
      BY <2>1 DEF la_storage_install_driver
    <3> QED BY <3>1 DEF Inv, HandlesInv, HandlesTypeOK, InEnv, ClosedEnds, SafeUntilEnded, EnvOpen
  <2>2. CASE \E name \in Names : la_host_open(name)
    <3>1. PICK name \in Names : la_host_open(name)
      BY <2>2
    <3>2. env' \in Kinds /\ host' = name /\ env = "none" /\ UNCHANGED <<db, ub, ended>>
      BY <3>1 DEF la_host_open, Kind, Kinds
    <3>3. db = <<>> /\ ended = {}
      BY <3>2 DEF Inv, HandlesInv, InEnv
    <3>4. name \notin {"none", "freed"} /\ Len(db) = 0
      BY <3>3, HandlesAssumption
    <3> QED BY <3>2, <3>3, <3>4
            DEF Inv, HandlesInv, HandlesTypeOK, InEnv, ClosedEnds, SafeUntilEnded, EnvOpen, Kinds
  <2>3. CASE la_host_close
    <3>1. /\ UNCHANGED db /\ host # "none" /\ host' = "freed" /\ ended' = ended \cup {"host_close"}
          /\ env' = "freed" \/ (env' = env /\ ub' # "none")
      BY <2>3 DEF la_host_close, CloseEnv, UsesFreedHost
    <3> QED BY <3>1 DEF Inv, HandlesInv, HandlesTypeOK, InEnv, ClosedEnds, SafeUntilEnded
  <2>4. CASE \E name \in Names, create, excl \in BOOLEAN, code \in Codes :
                 la_db_open(name, create, excl, code)
    BY <2>4, OpenKeeps DEF Inv
  <2>5. CASE \E h \in 1..Len(db) : /\ Running /\ db[h].state # "closed"
                                   /\ la_db_close(h) \/ la_db_delete_db(h) \/ UseDb(h)
    <3>1. PICK h \in 1..Len(db) : /\ Running /\ db[h].state # "closed"
                                  /\ la_db_close(h) \/ la_db_delete_db(h) \/ UseDb(h)
      BY <2>5
    <3>2. CASE la_db_close(h)
      BY <3>1, <3>2, CloseKeeps DEF Inv
    <3>3. CASE la_db_delete_db(h) \/ UseDb(h)
      BY <3>1, <3>3, UseKeeps DEF Inv
    <3> QED BY <3>1, <3>2, <3>3
  <2> QED BY <2>1, <2>2, <2>3, <2>4, <2>5 DEF AppNext
<1>3. CacheInv'
  <2>1. Len(entry) = 0
    BY <1>1, EmptySeq
  <2>2. EntriesOwnHandles'
    BY <1>1, <2>1 DEF EntriesOwnHandles
  <2>3. CacheTypeOK' /\ HoldsMutex' /\ TableIsRecent' /\ TableSize' /\ GivesUp'
    BY <1>1 DEF Inv, CacheInv, CacheTypeOK, HoldsMutex, TableIsRecent, TableSize, Kept, Evicting, GivesUp
  <2> QED BY <2>2, <2>3 DEF CacheInv
<1> QED BY <1>1, <1>2, <1>3 DEF Inv, NoCache

LEMMA ServerInv ==
    ASSUME Inv, mode = "server", CacheNext, UNCHANGED mode
    PROVE  Inv'
<1>1. HandlesInv' /\ CacheInv'
  <2>1. PICK w \in Workers :
            \/ Work(w) \/ DocumentPath(w) \/ AnswersAtOnce(w)
            \/ \E name \in Names, method \in Methods : Arrives(w, method, name)
    BY DEF CacheNext
  <2>2. HandlesInv /\ CacheInv
    BY DEF Inv
  <2>3. CASE Work(w)
    BY <2>2, <2>3, LockInv, MissFailsInv, MissOpensInv, EvictInv, DecrefInv, HitInv, HitExistsInv,
       IncrefReadsInv, IncrefWritesInv, ReturnsInv, ServeInv DEF Work
  <2> QED BY <2>1, <2>2, <2>3, RequestsInv
<1> QED BY <1>1 DEF Inv, NoCache

LEMMA InvHolds == Spec => []Inv
<1>1. Inv /\ [Next]_vars => Inv'
  <2> SUFFICES ASSUME Inv, [Next]_vars PROVE Inv'
    OBVIOUS
  <2>1. CASE mode = "app" /\ AppNext /\ UNCHANGED cvars /\ UNCHANGED mode
    BY <2>1, AppInv
  <2>2. CASE mode = "server" /\ CacheNext /\ UNCHANGED mode
    BY <2>2, ServerInv
  <2>3. CASE UNCHANGED vars
    <3>1. HandlesInv'
      BY <2>3, SameHandles DEF vars, Inv
    <3>2. CacheInv'
      BY <2>3 DEF vars, hvars, cvars, Inv, CacheInv, CacheTypeOK, EntriesOwnHandles, HoldsMutex,
                  TableIsRecent, TableSize, Kept, Evicting, GivesUp
    <3> QED BY <2>3, <3>1, <3>2 DEF vars, cvars, Inv, NoCache
  <2> QED BY <2>1, <2>2, <2>3 DEF Next
<1> QED BY <1>1, InvInit, PTL DEF Spec

-----------------------------------------------------------------------------
(* The environment that all databases of a host share is open until a call  *)
(* has closed one of them or the host, or an open has answered ERROR        *)
(* (la_storage_close, la_storage_open and la_host_close); until then no     *)
(* call meets freed memory, and after a close no other database has it.     *)
THEOREM EnvironmentSafeUntilEnded == Spec => []SafeUntilEnded
<1>1. Inv => SafeUntilEnded
  BY DEF Inv, HandlesInv
<1> QED BY <1>1, InvHolds, PTL

(* The places of the table are the last places of `recent'.                 *)
LEMMA TableFacts ==
    ASSUME CacheInv
    PROVE  /\ Len(cache) \in Nat /\ Len(recent) \in Nat /\ MaxSize \in Nat /\ Len(cache) <= Len(recent)
           /\ recent \in Seq(Nat) /\ cache \in Seq(Nat)
           /\ \A i \in 1..Len(cache) :
                 cache[i] = recent[Len(recent) - Len(cache) + i] /\ entry[cache[i]].live
           /\ \A i \in 1..Len(recent) : recent[i] \in 1..Len(entry)
           /\ IF Evicting THEN Len(cache) = MaxSize + 1 ELSE Len(cache) = Kept
BY CacheAssumption, SMTT(30) DEF CacheInv, CacheTypeOK, TableIsRecent, TableSize

(* Whatever its workers do, db_cache.c keeps the entries that were added or *)
(* hit most recently, in that order, drops exactly the oldest, and frees    *)
(* none that it keeps.                                                      *)
THEOREM CacheHoldsMostRecent == Spec => []HoldsMostRecent
<1>1. Inv => HoldsMostRecent
  <2> SUFFICES ASSUME CacheInv, mutex = Nobody
               PROVE  /\ cache = SubSeq(recent, Len(recent) - Kept + 1, Len(recent))
                      /\ \A i \in 1..Len(cache) : entry[cache[i]].live
    BY DEF HoldsMostRecent, Inv
  <2> DEFINE d == Len(recent) - Kept
             t == SubSeq(recent, d + 1, Len(recent))
  <2>1. ~Evicting
    BY CacheAssumption DEF CacheInv, HoldsMutex, Evicting, Inside
  <2>2. /\ Len(cache) \in Nat /\ Len(recent) \in Nat /\ Len(cache) <= Len(recent) /\ Len(cache) = Kept
        /\ recent \in Seq(Nat) /\ cache \in Seq(Nat)
    BY <2>1, TableFacts
  <2>3. d \in Nat /\ d = Len(recent) - Len(cache) /\ d + Len(cache) = Len(recent)
    BY <2>2
  <2>4. \A i \in 1..Len(cache) : cache[i] = recent[d + i] /\ entry[cache[i]].live
    BY <2>3, TableFacts
  <2> HIDE DEF d
  <2>5. /\ t \in Seq(Nat) /\ Len(t) = Len(cache)
        /\ \A i \in 1..Len(cache) : t[i] = recent[d + i]
    <3>0. \A i \in d + 1..Len(recent) : recent[i] \in Nat
      BY <2>2, <2>3
    <3>1. /\ t \in Seq(Nat) /\ Len(t) = IF d + 1 <= Len(recent) THEN Len(recent) - (d + 1) + 1 ELSE 0
          /\ \A i \in 1..Len(recent) - (d + 1) + 1 : t[i] = recent[(d + 1) + i - 1]
      <4>1. d + 1 \in Int /\ Len(recent) \in Int
        BY <2>2, <2>3
      <4> QED BY <3>0, <4>1, SubSeqProperties
    <3>2. Len(recent) - (d + 1) + 1 = Len(cache) /\ \A i \in 1..Len(cache) : (d + 1) + i - 1 = d + i
      BY <2>2, <2>3
    <3>3. Len(t) = Len(cache)
      BY <2>2, <2>3, <3>1
    <3> QED BY <3>1, <3>2, <3>3
  <2> HIDE DEF t
  <2>6. cache = t
    BY <2>2, <2>4, <2>5
  <2> QED BY <2>4, <2>6 DEF t, d
<1> QED BY <1>1, InvHolds, PTL

(* For any number of workers, any garbage in the reference counts and any   *)
(* counts lost to the race in cache_incref, db_cache_open frees neither the *)
(* entry nor the handle of a request whose entry is among the MaxSize that  *)
(* were opened last, and the request has the handle of that entry.          *)
THEOREM CacheSafeWhileRecent == Spec => []SafeWhileRecent
<1>1. Inv => SafeWhileRecent
  <2> SUFFICES ASSUME CacheInv, NEW w \in Workers,
                      req[w].at \in {"hit", "incref", "out", "serve"}, AmongRecent(req[w].found)
               PROVE  /\ entry[req[w].found].live
                      /\ db[entry[req[w].found].db].state # "closed"
                      /\ (req[w].at = "serve" /\ req[w].result = "OK") =>
                             req[w].db = entry[req[w].found].db
    BY DEF SafeWhileRecent, Inv
  <2>1. PICK p \in 1..Len(recent) : recent[p] = req[w].found /\ p > Len(recent) - MaxSize
    BY DEF AmongRecent
  <2>2. /\ Len(cache) \in Nat /\ Len(recent) \in Nat /\ MaxSize \in Nat /\ Len(cache) <= Len(recent)
        /\ Len(cache) = MaxSize + 1 \/ Len(cache) = Kept
    BY TableFacts
  <2> DEFINE i == p - (Len(recent) - Len(cache))
  <2>3. i \in 1..Len(cache) /\ Len(recent) - Len(cache) + i = p
    BY <2>1, <2>2 DEF Kept
  <2> HIDE DEF i
  <2>4. cache[i] = req[w].found /\ entry[cache[i]].live
    BY <2>1, <2>3, TableFacts
  <2>5. req[w].found \in 1..Len(entry)
    BY <2>1, TableFacts
  <2>6. entry[req[w].found].live
    BY <2>4, Zenon
  <2>7. db[entry[req[w].found].db].state # "closed"
    BY <2>5, <2>6 DEF CacheInv, EntriesOwnHandles
  <2>8. (req[w].at = "serve" /\ req[w].result = "OK") => req[w].db = entry[req[w].found].db
    BY DEF CacheInv, HoldsMutex
  <2> QED BY <2>6, <2>7, <2>8
<1> QED BY <1>1, InvHolds, PTL
=============================================================================
