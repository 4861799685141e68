---------------------------- MODULE SettingsCache ----------------------------
(***************************************************************************)
(* The in-memory cache of the system settings (internal/common/settings): *)
(* readers look a key up, fetch it from the database on a miss and store   *)
(* it for a minute; UpdateSetting writes the database and then deletes the *)
(* key.  Several replicas of the server, and operators, also change the    *)
(* table without telling this process.                                     *)
(***************************************************************************)
EXTENDS Integers

CONSTANTS
  Keys, Values, Readers, Writers,
  NoEntry, Idle,
  TTL,        \* one minute
  MaxDelay,   \* longest time between a query and the store of its answer
  MaxTime     \* bound on the clock

(* What the constants are; an instance of the module assumes it. *)
SettingsAssumption ==
  TTL \in Nat \ {0} /\ MaxDelay \in Nat /\ MaxTime \in Nat /\ Idle \notin Keys

VARIABLES
  db,       \* SYSTEM_SETTINGS.setting_value
  cache,    \* the sync.Map: [value, expires], or NoEntry
  reader,   \* reader[r]: the lookup under way, or Idle
  writer,   \* writer[w]: the key it has written and not yet invalidated
  now,
  current,  \* history: when the value was last the one in the database
  raced     \* history: keys changed under a read, or without invalidation

cvars == <<db, cache, reader, writer, now, current, raced>>

\* Mutant: entries do not expire.
AlwaysFresh(k) == TRUE
Fresh(k) == now < cache[k].expires

-----------------------------------------------------------------------------
(* getFromCacheOrDB: a fresh entry is the answer; the others take this way. *)
Lookup(r, k) ==
  /\ reader[r] = Idle
  /\ cache[k] # NoEntry => ~Fresh(k)
  /\ reader' = [reader EXCEPT ![r] =
                  [key |-> k, value |-> NoEntry, at |-> 0,
                   pc |-> IF cache[k] = NoEntry THEN "fetch" ELSE "expired"]]
  /\ UNCHANGED <<db, cache, writer, now, current, raced>>

(* It deletes whatever the key holds by then. *)
DeleteExpired(r) ==
  /\ reader[r] # Idle /\ reader[r].pc = "expired"
  /\ cache' = [cache EXCEPT ![reader[r].key] = NoEntry]
  /\ reader' = [reader EXCEPT ![r].pc = "fetch"]
  /\ UNCHANGED <<db, writer, now, current, raced>>

GetByKey(r) ==
  /\ reader[r] # Idle /\ reader[r].pc = "fetch"
  /\ reader' = [reader EXCEPT ![r].pc = "store", ![r].at = now,
                              ![r].value = db[reader[r].key]]
  /\ UNCHANGED <<db, cache, writer, now, current, raced>>

Store(r) ==
  /\ reader[r] # Idle /\ reader[r].pc = "store"
  /\ cache' = [cache EXCEPT ![reader[r].key] =
                 [value |-> reader[r].value, expires |-> now + TTL]]
  /\ reader' = [reader EXCEPT ![r] = Idle]
  /\ UNCHANGED <<db, writer, now, current, raced>>

(* A failing query is the reader's error; nothing is cached. *)
ReadFails(r) ==
  /\ reader[r] # Idle /\ reader[r].pc = "fetch"
  /\ reader' = [reader EXCEPT ![r] = Idle]
  /\ UNCHANGED <<db, cache, writer, now, current, raced>>

InFlight(k) == \E r \in Readers : reader[r] # Idle /\ reader[r].key = k
                                  /\ reader[r].pc = "store"
Change(k, v) ==
  /\ db[k] # v
  /\ db' = [db EXCEPT ![k] = v]
  /\ current' = [current EXCEPT ![k][db[k]] = now]

(* UpdateSetting: the database first ... *)
Update(w, k, v) ==
  /\ writer[w] = Idle
  /\ Change(k, v)
  /\ writer' = [writer EXCEPT ![w] = k]
  /\ raced' = IF InFlight(k) THEN raced \cup {k} ELSE raced
  /\ UNCHANGED <<cache, reader, now>>

\* Mutant: the key stays cached.
InvalidateNothing(w) ==
  /\ writer[w] # Idle
  /\ writer' = [writer EXCEPT ![w] = Idle]
  /\ UNCHANGED <<db, cache, reader, now, current, raced>>
(* ... then the cache. *)
InvalidateCache(w) ==
  /\ writer[w] # Idle
  /\ cache' = [cache EXCEPT ![writer[w]] = NoEntry]
  /\ writer' = [writer EXCEPT ![w] = Idle]
  /\ UNCHANGED <<db, reader, now, current, raced>>

InvalidateAll ==
  /\ cache' = [k \in Keys |-> NoEntry]
  /\ UNCHANGED <<db, reader, writer, now, current, raced>>

ChangedElsewhere(k, v) ==
  /\ Change(k, v)
  /\ raced' = raced \cup {k}
  /\ UNCHANGED <<cache, reader, writer, now>>

Tick ==
  /\ now < MaxTime
  /\ \A r \in Readers : reader[r] # Idle /\ reader[r].pc = "store"
                          => now < reader[r].at + MaxDelay
  /\ now' = now + 1
  /\ UNCHANGED <<db, cache, reader, writer, current, raced>>

-----------------------------------------------------------------------------
CacheInit ==
  /\ db \in [Keys -> Values]
  /\ cache = [k \in Keys |-> NoEntry]
  /\ reader = [r \in Readers |-> Idle]
  /\ writer = [w \in Writers |-> Idle]
  /\ now = 0
  /\ current = [k \in Keys |-> [v \in Values |-> 0]]
  /\ raced = {}

CacheNext ==
  \/ \E r \in Readers : \/ \E k \in Keys : Lookup(r, k)
                        \/ DeleteExpired(r)
                        \/ GetByKey(r)
                        \/ Store(r)
                        \/ ReadFails(r)
  \/ \E w \in Writers : \/ \E k \in Keys, v \in Values : Update(w, k, v)
                        \/ InvalidateCache(w)
  \/ InvalidateAll
  \/ \E k \in Keys, v \in Values : ChangedElsewhere(k, v)
  \/ Tick

CacheSpec == CacheInit /\ [][CacheNext]_cvars

-----------------------------------------------------------------------------
(* Properties *)

(* However reads, updates and changes made elsewhere interleave, a value   *)
(* that is served was the database's at most a minute, and the duration of *)
(* one query, ago: a read that stores an old value over an invalidation    *)
(* does not keep it alive (getFromCacheOrDB).                              *)
BoundedStaleness ==
  \A k \in Keys :
    cache[k] # NoEntry =>
      \/ ~Fresh(k)
      \/ cache[k].value = db[k]
      \/ now - current[k][cache[k].value] < TTL + MaxDelay

(* After UpdateSetting has returned its value is the one that is served,   *)
(* unless a read was between its query and its store at the time of the    *)
(* write (the test TestSettingsService_InvalidateCache for one client).    *)
UpdateIsServed ==
  \A k \in Keys \ raced :
    cache[k] # NoEntry =>
      \/ ~Fresh(k)
      \/ cache[k].value = db[k]
      \/ \E w \in Writers : writer[w] = k

(* What is served: the two above.                                          *)
SettingsFresh == BoundedStaleness /\ UpdateIsServed
=============================================================================
