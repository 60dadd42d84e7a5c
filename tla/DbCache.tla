------------------------------ MODULE DbCache ------------------------------
(***************************************************************************)
(* The nginx module (ngx_http_loungeact.c) and its cache of open databases  *)
(* (db_cache.c).  Workers handle one request at a time; they share the      *)
(* cache, whose mutex covers the lookup and the eviction, but not the count *)
(* of a reference after a hit nor the read of found->db.                    *)
(*                                                                         *)
(* The hash table is kept in insertion order by uthash, so that its head is *)
(* the entry that was added longest ago; a hit deletes and adds the entry.  *)
(* As in the driver table, an entry is found under its key: what the        *)
(* address of its name spells.                                              *)
(***************************************************************************)
EXTENDS Handles

CONSTANTS
    Workers,
    MaxSize,      \* the cache's maxsize
    JunkRefs,     \* what the refcount of a freshly allocated entry may hold
    Existing,     \* databases that exist when the server starts
    MaxRefs,      \* bound: no request for an entry with this reference count
    Nobody

ASSUME CacheAssumption ==
    /\ MaxSize \in Nat /\ MaxRefs \in Int
    /\ JunkRefs \subseteq Int /\ JunkRefs # {}
    /\ Existing \subseteq Names
    /\ Nobody \notin Workers

VARIABLES
    cache,    \* the entries in the hash table, in its order
    entry,    \* every entry ever added: name, key, handle, refcount, live
    mutex,    \* the worker that holds cache->mutex
    req,      \* each worker's request: where it is, and its locals
    recent    \* history: entries in the order in which they were last opened

cvars == <<cache, entry, mutex, req, recent>>

Methods == {"GET", "PUT", "DELETE"}

Idle == [at |-> "idle", method |-> "GET", name |-> CHOOSE n \in Names : TRUE,
         found |-> 0, count |-> 0, db |-> 0, result |-> "none"]

(* ngx_http_loungeact_init_module, ngx_http_loungeact_command.  Only names  *)
(* whose own address spells them are of use in the driver table.            *)
CacheInit ==
    /\ drivers = {[name |-> n, key |-> n] : n \in {m \in BdbNames : m \in Spells[m]}}
    /\ host = (CHOOSE n \in BdbNames : n \in Spells[n]) /\ env = "bdb"
    /\ disk = Existing /\ db = <<>> /\ ub = "none" /\ ended = {}
    /\ cache = <<>>
    /\ entry = <<>>
    /\ mutex = Nobody
    /\ req = [w \in Workers |-> Idle]
    /\ recent = <<>>

(* HASH_DELETE and HASH_ADD of the i-th element.                            *)
MovedToEnd(s, i) ==
    [j \in 1..Len(s) |-> IF j < i THEN s[j] ELSE IF j < Len(s) THEN s[j + 1] ELSE s[i]]

(* `recent' once an entry that is in it is opened again.                    *)
Reopened(e) == MovedToEnd(recent, CHOOSE p \in 1..Len(recent) : recent[p] = e)

At(w, step) == Running /\ req[w].at = step

-----------------------------------------------------------------------------
(* The handler, up to db_cache_open.                                        *)

(* A request for / is answered with the welcome, and a method that the      *)
(* handler does not know with 405, without touching anything.               *)
AnswersAtOnce(w) ==
    /\ At(w, "idle")
    /\ UNCHANGED <<hvars, cvars>>

(* A path with a document: len is the difference of two pointers the wrong  *)
(* way round, the pool cannot give that much, and NULL is written through.  *)
DocumentPath(w) ==
    /\ At(w, "idle")
    /\ ub' = "length of document path"
    /\ UNCHANGED <<drivers, host, env, disk, db, ended, cvars>>

Arrives(w, method, name) ==
    /\ At(w, "idle")
    /\ \A i \in 1..Len(entry) : entry[i].key = name => entry[i].refcount < MaxRefs
    /\ req' = [req EXCEPT ![w] = [Idle EXCEPT !.at = "lock", !.method = method, !.name = name]]
    /\ UNCHANGED <<hvars, cache, entry, mutex, recent>>

-----------------------------------------------------------------------------
(* db_cache_open, with the mutex                                            *)

Lock(w) ==
    /\ At(w, "lock")
    /\ mutex = Nobody
    /\ mutex' = w
    /\ req' = [req EXCEPT ![w].at = "open"]
    /\ UNCHANGED <<hvars, cache, entry, recent>>

(* HASH_FIND_STR: the places in the table that a lookup may end at.         *)
Cached(name) == {i \in 1..Len(cache) : entry[cache[i]].key = name}

Exclusive(w) == req[w].method = "PUT"

(* Mutant of Unlocks: the mutex is kept when the database cannot be opened. *)
UnlocksAfterOpen(w, step, e, code) ==
    /\ mutex' = IF step = "serve" THEN mutex ELSE Nobody
    /\ req' = [req EXCEPT ![w].at = step, ![w].found = e, ![w].count = 0, ![w].db = 0,
                          ![w].result = code]

(* The mutex is given back, on every path.                                  *)
Unlocks(w, step, e, code) ==
    /\ mutex' = Nobody
    /\ req' = [req EXCEPT ![w].at = step, ![w].found = e, ![w].count = 0, ![w].db = 0,
                          ![w].result = code]

(* Not cached, and la_db_open refuses; or there is no memory for an entry.  *)
MissFails(w) ==
    /\ At(w, "open") /\ Cached(req[w].name) = {}
    /\ \/ \E code \in Codes \ {"OK"} :
             /\ la_db_open(req[w].name, Exclusive(w), Exclusive(w), code)
             /\ Unlocks(w, "serve", 0, code)
       \/ UNCHANGED hvars /\ Unlocks(w, "serve", 0, "ERROR")
    /\ UNCHANGED <<cache, entry, recent>>

(* Mutant of OverLimit: off by one.                                         *)
AtLimit(size) == size >= MaxSize

OverLimit(size) == size > MaxSize

(* Not cached, and opened: the entry is added under what the address of its *)
(* name spells, and counted from what its memory held.                      *)
MissOpens(w) ==
    LET new == Len(entry) + 1 IN
    /\ At(w, "open") /\ Cached(req[w].name) = {}
    /\ la_db_open(req[w].name, Exclusive(w), Exclusive(w), "OK")
    /\ \E junk \in JunkRefs, key \in Spells[req[w].name] \cup {"none"} :
          entry' = Append(entry, [name |-> req[w].name, key |-> key, db |-> Len(db) + 1,
                                  refcount |-> junk + 1, live |-> TRUE])
    /\ cache' = Append(cache, new)
    /\ recent' = Append(recent, new)
    /\ IF OverLimit(Len(cache'))
       THEN req' = [req EXCEPT ![w].at = "evict", ![w].found = new] /\ UNCHANGED mutex
       ELSE Unlocks(w, "out", new, "OK")

(* Over the limit: the head of the table is deleted, and cache_decref reads *)
(* its count ...                                                            *)
Evict(w) ==
    /\ At(w, "evict")
    /\ cache' = Tail(cache)
    /\ req' = [req EXCEPT ![w].at = "decref", ![w].db = Head(cache),
                          ![w].count = entry[Head(cache)].refcount - 1]
    /\ UNCHANGED <<hvars, entry, mutex, recent>>

(* ... and writes it back one less; at zero the database is closed and the  *)
(* entry freed.                                                             *)
Decref(w) ==
    LET e == req[w].db IN
    /\ At(w, "decref")
    /\ \/ /\ req[w].count = 0
          /\ la_db_close(entry[e].db)
          /\ entry' = [entry EXCEPT ![e].refcount = 0, ![e].live = FALSE]
       \/ /\ req[w].count # 0
          /\ entry' = [entry EXCEPT ![e].refcount = req[w].count]
          /\ UNCHANGED hvars
    /\ Unlocks(w, "out", req[w].found, "OK")
    /\ UNCHANGED <<cache, recent>>

(* Mutant of Hit: the entry stays where it is in the table.                 *)
HitStays(w) ==
    /\ At(w, "open")
    /\ \E i \in Cached(req[w].name) :
          /\ UNCHANGED cache
          /\ recent' = Reopened(cache[i])
          /\ Unlocks(w, "hit", cache[i], "none")
    /\ UNCHANGED <<hvars, entry>>

(* Cached: deleted from the table and added again, so that it is evicted    *)
(* last.  What was found need not be the database that was asked for.       *)
Hit(w) ==
    /\ At(w, "open")
    /\ \E i \in Cached(req[w].name) :
          /\ cache' = MovedToEnd(cache, i)
          /\ recent' = Reopened(cache[i])
          /\ Unlocks(w, "hit", cache[i], "none")
    /\ UNCHANGED <<hvars, entry>>

-----------------------------------------------------------------------------
(* db_cache_open, after the unlock                                          *)

(* A step that reads or writes the entry the request has found.             *)
Touches(w) ==
    /\ IF entry[req[w].found].live THEN UNCHANGED ub ELSE ub' = "cache entry used after free"
    /\ UNCHANGED <<drivers, host, env, disk, db, ended, cache, mutex, recent>>

(* Creating a database that is cached is refused.                           *)
HitExists(w) ==
    /\ At(w, "hit") /\ Exclusive(w)
    /\ req' = [req EXCEPT ![w].at = "serve", ![w].found = 0, ![w].result = "EXISTS"]
    /\ UNCHANGED <<hvars, cache, entry, mutex, recent>>

(* cache_incref reads the count ...                                         *)
IncrefReads(w) ==
    /\ At(w, "hit") /\ ~Exclusive(w)
    /\ Touches(w)
    /\ req' = [req EXCEPT ![w].at = "incref", ![w].count = entry[req[w].found].refcount + 1]
    /\ UNCHANGED entry

(* ... and writes it.                                                       *)
IncrefWrites(w) ==
    /\ At(w, "incref")
    /\ Touches(w)
    /\ req' = [req EXCEPT ![w].at = "out", ![w].count = 0, ![w].result = "OK"]
    /\ entry' = [entry EXCEPT ![req[w].found].refcount = req[w].count]

(* *db = found->db, after a hit and after a miss.                           *)
Returns(w) ==
    /\ At(w, "out")
    /\ Touches(w)
    /\ req' = [req EXCEPT ![w].at = "serve", ![w].db = entry[req[w].found].db]
    /\ UNCHANGED entry

-----------------------------------------------------------------------------
(* The rest of the handler.                                                 *)

Answered(w) ==
    /\ req' = IF ub' = "none" THEN [req EXCEPT ![w] = Idle] ELSE req
    /\ UNCHANGED <<cache, entry, mutex, recent>>

(* GET reads the statistics and lastseq, and shares its code with HEAD,     *)
(* which does not; PUT does nothing more.  Nothing gives the reference      *)
(* back.                                                                    *)
ServeGetOrPut(w) ==
    /\ At(w, "serve") /\ req[w].method # "DELETE"
    /\ \/ req[w].result = "OK" /\ req[w].method = "GET" /\ UseDb(req[w].db)
       \/ UNCHANGED hvars
    /\ Answered(w)

ServeDelete(w) ==
    /\ At(w, "serve") /\ req[w].method = "DELETE"
    /\ \/ req[w].result = "OK" /\ la_db_delete_db(req[w].db)
       \/ req[w].result # "OK" /\ UNCHANGED hvars
    /\ Answered(w)

-----------------------------------------------------------------------------
Work(w) == Lock(w) \/ MissFails(w) \/ MissOpens(w) \/ Evict(w) \/ Decref(w) \/ Hit(w)
           \/ HitExists(w) \/ IncrefReads(w) \/ IncrefWrites(w) \/ Returns(w)
           \/ ServeGetOrPut(w) \/ ServeDelete(w)

CacheNext ==
    \E w \in Workers :
        \/ Work(w)
        \/ DocumentPath(w)
        \/ AnswersAtOnce(w)
        \/ \E name \in Names, method \in Methods : Arrives(w, method, name)

-----------------------------------------------------------------------------
(* Properties.                                                              *)

(* The number of entries in `recent' that the cache is to hold.             *)
Kept == IF Len(recent) > MaxSize THEN MaxSize ELSE Len(recent)

(* Whenever no worker is inside db_cache_open, the table is what an LRU     *)
(* cache holds: the MaxSize entries that were added or hit last, in that    *)
(* order, none of them freed.  (Entries, not names: a name whose address    *)
(* does not spell it is added again each time it is opened.)                *)
HoldsMostRecent ==
    (mutex = Nobody /\ ub = "none") =>
        /\ cache = SubSeq(recent, Len(recent) - Kept + 1, Len(recent))
        /\ \A i \in 1..Len(cache) : entry[cache[i]].live

AmongRecent(e) == \E p \in 1..Len(recent) : recent[p] = e /\ p > Len(recent) - MaxSize

(* A request works on live memory, its entry and its database handle, as    *)
(* long as fewer than MaxSize other entries were opened since it found its  *)
(* own, whatever is evicted meanwhile and however the counts are lost: an   *)
(* eviction never frees one of the MaxSize newest entries, although the     *)
(* request counts its reference, and reads its handle, without the mutex.   *)
SafeWhileRecent ==
    \A w \in Workers :
        (req[w].at \in {"hit", "incref", "out", "serve"} /\ AmongRecent(req[w].found)) =>
            /\ entry[req[w].found].live
            /\ db[entry[req[w].found].db].state # "closed"
            /\ (req[w].at = "serve" /\ req[w].result = "OK") => req[w].db = entry[req[w].found].db

(* The cache's mutex is given back on every path, so that no request waits  *)
(* for ever.                                                                *)
MutexComesBack == []<>(mutex = Nobody \/ ub # "none")

-----------------------------------------------------------------------------
(* What makes these properties inductive.                                   *)

Steps == {"idle", "lock", "open", "evict", "decref", "hit", "incref", "out", "serve"}

Inside == {"open", "evict", "decref"}

Entries == [name : Names, key : Names \cup {"none"}, db : Nat, refcount : Int, live : BOOLEAN]

Requests == [at : Steps, method : Methods, name : Names, found : Nat, count : Int, db : Nat,
             result : {"none", "OK", "ERROR", "NO_DRIVER", "EXISTS"}]

CacheTypeOK ==
    /\ cache \in Seq(Nat)
    /\ entry \in Seq(Entries)
    /\ mutex \in Workers \cup {Nobody}
    /\ req \in [Workers -> Requests]
    /\ recent \in Seq(Nat)

(* Every entry has a handle to itself, and lives exactly as long as it.     *)
EntriesOwnHandles ==
    /\ \A i \in 1..Len(entry) :
          /\ entry[i].db \in 1..Len(db)
          /\ entry[i].live <=> db[entry[i].db].state # "closed"
    /\ \A i, j \in 1..Len(entry) : entry[i].db = entry[j].db => i = j

(* The mutex is held in the lookup and in the eviction; later on a worker   *)
(* has only the entry that it found, and then the handle it read from it.   *)
HoldsMutex ==
    \A v \in Workers :
        /\ req[v].at \in Inside <=> mutex = v
        /\ req[v].at \in {"evict", "decref", "hit", "incref", "out"} \/ req[v].result = "OK" =>
               req[v].found \in 1..Len(entry)
        /\ (req[v].at = "serve" /\ req[v].result = "OK") => req[v].db = entry[req[v].found].db

(* The table is a suffix of `recent', during an eviction too.               *)
TableIsRecent ==
    /\ \A i \in 1..Len(recent) : recent[i] \in 1..Len(entry)
    /\ \A i, j \in 1..Len(recent) : recent[i] = recent[j] => i = j
    /\ Len(cache) <= Len(recent)
    /\ \A i \in 1..Len(cache) :
          /\ cache[i] = recent[Len(recent) - Len(cache) + i]
          /\ entry[cache[i]].live

Evicting == \E v \in Workers : req[v].at = "evict"

TableSize ==
    IF Evicting THEN Len(cache) = MaxSize + 1 ELSE Len(cache) = Kept

(* An entry that is being given up is in the table no more, and is live.    *)
GivesUp ==
    \A v \in Workers : req[v].at = "decref" =>
        /\ req[v].db \in 1..Len(entry)
        /\ entry[req[v].db].live
        /\ \A i \in 1..Len(cache) : cache[i] # req[v].db

CacheInv ==
    CacheTypeOK /\ EntriesOwnHandles /\ HoldsMutex /\ TableIsRecent /\ TableSize /\ GivesUp
=============================================================================
