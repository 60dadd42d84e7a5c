------------------------------ MODULE Handles ------------------------------
(***************************************************************************)
(* Hosts, environments and database handles: the driver table and the      *)
(* facade of Storage/ObjectStore.c, la_host_* and la_db_open/close/delete   *)
(* of api.c, and what the two drivers do to open and close.                 *)
(*                                                                         *)
(* A host has one environment, and all its databases share it.  `ub' is the *)
(* first thing the program did that C leaves undefined; nothing follows it. *)
(*                                                                         *)
(* HASH_ADD_STR of the vendored uthash takes the key from &entry->name, and *)
(* `name' is a pointer: an entry is found under what the first strlen(name) *)
(* bytes at that place spell, which are bytes of an address, and not under  *)
(* its name.  `key' is the name they happen to spell, or "none".            *)
(***************************************************************************)
EXTENDS Integers, Sequences

CONSTANTS
    Names,          \* names of databases and of drivers
    BdbNames,       \* names under which the Berkeley DB driver is installed
    SqliteNames,    \* names under which the SQLite driver is installed
    Spells,         \* names of the same length that an address may spell: none
                    \* from seven characters on, for addresses end in zero bytes
    MaxHandles      \* bound: la_db handles that are ever allocated

ASSUME HandlesAssumption ==
    /\ BdbNames \subseteq Names /\ SqliteNames \subseteq Names
    /\ BdbNames \cap SqliteNames = {}
    /\ Spells \in [Names -> SUBSET Names]
    /\ \E name \in BdbNames : name \in Spells[name]
    /\ {"none", "freed"} \cap Names = {}
    /\ MaxHandles \in Nat

VARIABLES
    drivers,   \* the driver table: name and key of its entries
    host,      \* the host: the driver name it was opened with, "none" or "freed"
    env,       \* the host's environment: the driver it belongs to, "none" or "freed"
    disk,      \* the databases that exist on disk
    db,        \* the la_db handles that were ever allocated, in order
    ub,        \* the undefined behaviour the program ran into, or "none"
    ended      \* history: calls that close, and opens that answered ERROR

hvars == <<drivers, host, env, disk, db, ub, ended>>

HandlesInit ==
    /\ drivers = {}
    /\ host = "none"
    /\ env = "none"
    /\ disk = {}
    /\ db = <<>>
    /\ ub = "none"
    /\ ended = {}

-----------------------------------------------------------------------------
(* The drivers.                                                             *)

(* bdb_la_storage_open: what Berkeley DB's open says, by the flags and by   *)
(* what is on disk; any step may fail.  The result and the new `disk'.      *)
BdbOpen(name, create, excl) ==
    {[code |-> "ERROR", disk |-> disk, store |-> "none"]} \cup
    {CASE name \in disk /\ ~excl            -> [code |-> "OK", disk |-> disk, store |-> "open"]
       [] name \in disk /\ excl /\ create   -> [code |-> "EXISTS", disk |-> disk, store |-> "none"]
       [] name \notin disk /\ create        -> [code |-> IF excl THEN "CREATED" ELSE "OK",
                                                disk |-> disk \cup {name}, store |-> "open"]
       [] name \notin disk /\ ~create /\ ~excl ->
              [code |-> "NOT_FOUND", disk |-> disk, store |-> "none"]
       [] OTHER                             -> [code |-> "ERROR", disk |-> disk, store |-> "none"]}

(* sqlite_la_storage_open has the signature of an older driver: it takes no *)
(* flags and returns the store.  The facade reads the pointer as the result *)
(* code and finds its own store pointer NULL; a NULL pointer reads as OK.   *)
SqliteOpen(name) ==
    {[code |-> "POINTER", disk |-> disk \cup {name}, store |-> "none"],
     [code |-> "OK", disk |-> disk, store |-> "null_store"]}

Kinds == {"bdb", "sqlite"}

Kind(e) == IF e.name \in BdbNames THEN "bdb" ELSE "sqlite"

DriverOpen(kind, name, create, excl) ==
    IF kind = "bdb" THEN BdbOpen(name, create, excl) ELSE SqliteOpen(name)

-----------------------------------------------------------------------------
(* The facade.                                                              *)

(* HASH_FIND_STR.  Of several entries with the key, the one that is first   *)
(* in its bucket is found.                                                  *)
Found(name) == {e \in drivers : e.key = name}

(* la_storage_install_driver: EEXIST for a name that is found; otherwise an *)
(* entry under whatever its address spells, written through NULL when there *)
(* is no memory for it.                                                     *)
la_storage_install_driver(name) ==
    /\ \/ Found(name) # {} /\ UNCHANGED <<drivers, ub>>
       \/ /\ Found(name) = {}
          /\ \E key \in Spells[name] \cup {"none"} :
                drivers' = drivers \cup {[name |-> name, key |-> key]}
          /\ UNCHANGED ub
       \/ Found(name) = {} /\ ub' = "NULL driver entry" /\ UNCHANGED drivers
    /\ UNCHANGED <<host, env, disk, db, ended>>

EnvOpen == env \in Kinds

(* close_env of a driver: the environment is closed and freed.  A second    *)
(* time is undefined, and so is another driver's close_env.                 *)
CloseEnv(kind) ==
    \/ env = kind /\ env' = "freed" /\ UNCHANGED ub
    \/ /\ env # kind
       /\ ub' = IF EnvOpen THEN "env of another driver" ELSE "env freed twice"
       /\ UNCHANGED env

(* Mutant of la_storage_open: a missing driver ends the environment too.    *)
StorageOpenClosesAlways(name, create, excl, out) ==
    \/ /\ Found(name) = {}
       /\ out = [code |-> "NO_DRIVER", store |-> "none", kind |-> "none"]
       /\ env' = "freed" /\ UNCHANGED <<disk, ub>>
    \/ \E e \in Found(name) :
          /\ env = Kind(e)
          /\ \E r \in DriverOpen(env, name, create, excl) :
                /\ disk' = r.disk
                /\ \/ /\ r.code = "OK"
                      /\ out = [code |-> "OK", store |-> r.store, kind |-> env]
                      /\ UNCHANGED <<env, ub>>
                   \/ out = [code |-> "ERROR", store |-> "none", kind |-> "none"] /\ CloseEnv(env)

(* la_storage_open.  The driver is looked up under the name of the database *)
(* (line 153), not of the driver.  Whatever the driver answers other than   *)
(* OK, CREATED too, closes the environment and becomes ERROR; so does a     *)
(* failed allocation.  A driver cannot read the environment of another one. *)
la_storage_open(name, create, excl, out) ==
    \/ /\ Found(name) = {}
       /\ out = [code |-> "NO_DRIVER", store |-> "none", kind |-> "none"]
       /\ UNCHANGED <<disk, env, ub>>
    \/ \E e \in Found(name) :
          \/ /\ env = Kind(e)
             /\ \E r \in DriverOpen(env, name, create, excl) :
                   /\ disk' = r.disk
                   /\ \/ /\ r.code = "OK"
                         /\ out = [code |-> "OK", store |-> r.store, kind |-> env]
                         /\ UNCHANGED <<env, ub>>
                      \/ /\ out = [code |-> "ERROR", store |-> "none", kind |-> "none"]
                         /\ CloseEnv(env)
          \/ /\ env # Kind(e)
             /\ out = [code |-> "ERROR", store |-> "none", kind |-> "none"]
             /\ ub' = IF EnvOpen THEN "env of another driver" ELSE "env used after free"
             /\ UNCHANGED <<disk, env>>

(* la_storage_close: the store, then the environment it shares.  A store    *)
(* that was opened in an environment that is gone cannot be closed.         *)
la_storage_close(h) ==
    IF db[h].state = "open" /\ ~EnvOpen
    THEN ub' = "env used after free" /\ UNCHANGED env
    ELSE CloseEnv(db[h].kind)

-----------------------------------------------------------------------------
(* The API.                                                                 *)

Running == ub = "none"

(* la_host_open: NULL, and no host, when the driver is not found or its     *)
(* open_env fails; open_env creates the directory if need be.               *)
la_host_open(driver) ==
    /\ Running /\ env = "none"
    /\ \E e \in Found(driver) : env' = Kind(e)
    /\ host' = driver
    /\ UNCHANGED <<drivers, disk, db, ub, ended>>

UsesFreedHost == host = "freed" /\ ub' = "host used after free"

(* la_host_close: la_storage_close_env looks the driver up again, and the   *)
(* environment goes, whatever is still open in it; then the host.           *)
la_host_close ==
    /\ Running /\ host # "none"
    /\ \/ UsesFreedHost /\ UNCHANGED env
       \/ host # "freed" /\ \E e \in Found(host) : CloseEnv(Kind(e))
    /\ host' = "freed"
    /\ ended' = ended \cup {"host_close"}
    /\ UNCHANGED <<drivers, disk, db>>

Codes == {"OK", "ERROR", "NO_DRIVER"}

(* la_db_open: there is no memory for a handle; or one is made if           *)
(* la_storage_open says OK (it never answers CREATED).  `code' is the       *)
(* result.                                                                  *)
la_db_open(name, create, excl, code) ==
    /\ Running /\ host # "none"
    /\ Len(db) < MaxHandles
    /\ \/ code = "ERROR" /\ UNCHANGED <<env, disk, db, ub>>
       \/ code = "ERROR" /\ UsesFreedHost /\ UNCHANGED <<env, disk, db>>
       \/ /\ host # "freed"
          /\ \E out \in [code : {code}, store : {"none", "open", "null_store"}, kind : Kinds \cup {"none"}] :
                /\ la_storage_open(name, create, excl, out)
                /\ db' = IF code = "OK"
                         THEN Append(db, [name |-> name, state |-> out.store, kind |-> out.kind])
                         ELSE db
    /\ ended' = IF code = "ERROR" THEN ended \cup {"open"} ELSE ended
    /\ UNCHANGED <<drivers, host>>

(* la_db_close *)
la_db_close(h) ==
    /\ db[h].state # "closed"
    /\ la_storage_close(h)
    /\ db' = [db EXCEPT ![h].state = "closed"]
    /\ ended' = ended \cup {"close"}
    /\ UNCHANGED <<drivers, host, disk>>

(* la_db_delete_db: neither driver has a delete_store, and the facade calls *)
(* through the NULL pointer.                                                *)
la_db_delete_db(h) ==
    /\ ub' = IF db[h].state = "closed" THEN "handle used after free" ELSE "NULL delete_store"
    /\ UNCHANGED <<drivers, host, env, disk, db, ended>>

(* Any other operation on a database: through the driver into the           *)
(* environment.                                                             *)
UseDb(h) ==
    /\ ub' = CASE db[h].state = "closed"     -> "handle used after free"
               [] db[h].state = "null_store" -> "NULL store"
               [] ~EnvOpen                   -> "env used after free"
               [] OTHER                      -> "none"
    /\ UNCHANGED <<drivers, host, env, disk, db, ended>>

(* A program that uses the API: it does not use a handle after closing it.  *)
AppNext ==
    \/ \E name \in BdbNames \cup SqliteNames : Running /\ la_storage_install_driver(name)
    \/ \E name \in Names : la_host_open(name)
    \/ la_host_close
    \/ \E name \in Names, create, excl \in BOOLEAN, code \in Codes :
          la_db_open(name, create, excl, code)
    \/ \E h \in 1..Len(db) :
          /\ Running /\ db[h].state # "closed"
          /\ la_db_close(h) \/ la_db_delete_db(h) \/ UseDb(h)

-----------------------------------------------------------------------------
(* Properties.                                                              *)

(* The environment that all databases of a host share is open, and no call  *)
(* meets freed memory, until a database was closed (la_storage_close takes  *)
(* the environment with it), an open answered ERROR (la_storage_open closes *)
(* it whatever the driver said) or the host was closed; an open refused for *)
(* lack of a driver leaves it alone.  Once a database or the host was       *)
(* closed it is gone for all of them.                                       *)
SafeUntilEnded ==
    /\ (ub = "none" /\ env # "none" /\ ended = {}) => EnvOpen
    /\ (ub = "none" /\ ended \cap {"close", "host_close"} # {}) => env = "freed"
    /\ ended = {} => ub \notin {"env used after free", "env freed twice",
                                "handle used after free", "host used after free"}

-----------------------------------------------------------------------------
(* What makes the safety of the environment inductive.                      *)

HandleType == [name : Names, state : {"none", "open", "null_store", "closed"},
               kind : Kinds \cup {"none"}]

HandlesTypeOK ==
    /\ env \in Kinds \cup {"none", "freed"}
    /\ db \in Seq(HandleType)
    /\ ended \in SUBSET {"open", "close", "host_close"}

(* An environment comes with its host, databases are opened in it, and only *)
(* it can be ended.                                                         *)
InEnv ==
    /\ env # "none" <=> host # "none"
    /\ db # <<>> \/ ended # {} => env # "none"
    /\ host = "freed" <=> "host_close" \in ended

(* Closing a database ends the environment for all of them.                 *)
ClosedEnds == ended = {} => \A h \in 1..Len(db) : db[h].state # "closed"

HandlesInv == HandlesTypeOK /\ InEnv /\ ClosedEnds /\ SafeUntilEnded
=============================================================================
