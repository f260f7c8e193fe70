---------------------------- MODULE SystemConfig ----------------------------
(***************************************************************************)
(* The system-config client and its cache (src/src/system_config_client.ts)*)
(* over the service: calls of several callers of one client overlap, other *)
(* clients write too, answers are lost, and what a read answers may be     *)
(* kept for ten seconds.                                                   *)
(*                                                                         *)
(* The service numbers the states of a key; a write's kind decides what it *)
(* needs of the key and whether there is a value after it.                 *)
(***************************************************************************)
EXTENDS Naturals, FiniteSets, FiniteSetsExt

CONSTANTS
  Callers,
  Keys,
  Cached,    \* the keys under CACHE_KEY_PREFIXES
  CacheTime, \* CONFIG_CACHE_TIME_SECONDS
  MaxTime,   \* bound: seconds a run takes
  MaxWrites, \* bound: states of a key
  MaxCalls   \* bound: calls of the callers

VARIABLES
  now,
  store,  \* the service: a key's state: its number, and whether it has a value
  cache,  \* configCache; None where there is no entry
  call,   \* what each caller waits for
  calls,
  done,   \* (history) the newest state of a key that an answered write of this client made
  answer  \* (history) the last read that was answered

vars == <<now, store, cache, call, calls, done, answer>>

-----------------------------------------------------------------------------
None == [version |-> 0]
Idle == [at |-> "idle"]
Writes == {"set", "create", "append", "delete", "tx"}

Init ==
  /\ now = 0
  /\ store = [k \in Keys |-> [version |-> 1, exists |-> TRUE]]
  /\ cache = [k \in Keys |-> None]
  /\ call = [c \in Callers |-> Idle] /\ calls = 0
  /\ done = [k \in Keys |-> 0]
  /\ answer = [key |-> "", version |-> 0]

\* Time passes; an entry too old to be used is the same as none: the next read drops it.
Tick ==
  /\ now < MaxTime /\ now' = now + 1
  /\ UNCHANGED <<store, cache, call, calls, done, answer>>

\* getConfigCache
Fresh(k) == cache[k] # None /\ cache[k].at + CacheTime >= now

Answered(k, entry, knew, from) ==
  answer' = [key |-> k, version |-> entry.version, knew |-> knew, from |-> from, began |-> entry.began, put |-> entry.put]

\* get: from the cache, or the service is asked.
Get(c, k) ==
  /\ call[c] = Idle /\ calls < MaxCalls
  /\ calls' = calls + 1
  /\ IF Fresh(k) THEN /\ Answered(k, cache[k], done[k], "cache")
                      /\ UNCHANGED <<call, cache>>
     ELSE /\ call' = [call EXCEPT ![c] = [at |-> "sent", does |-> "get", keys |-> {k}, knew |-> done[k]]]
          /\ cache' = [cache EXCEPT ![k] = None]
          /\ UNCHANGED answer
  /\ UNCHANGED <<now, store, done>>

\* set, setByJsonPath, create, append, delete, and execTx of some keys.
Write(c, kind, keys) ==
  /\ call[c] = Idle /\ calls < MaxCalls
  /\ kind = "tx" \/ Cardinality(keys) = 1
  /\ calls' = calls + 1
  /\ call' = [call EXCEPT ![c] = [at |-> "sent", does |-> kind, keys |-> keys]]
  /\ UNCHANGED <<now, store, cache, done, answer>>

\* The service executes a call: a create of a key that has a value, an append to one that has none and a read of one
\* are refused.
Refused(r) ==
  \/ r.does = "create" /\ \E k \in r.keys : store[k].exists
  \/ r.does \in {"append", "get"} /\ \E k \in r.keys : ~store[k].exists
Execute(c) ==
  /\ call[c].at = "sent"
  /\ LET r == call[c]
     IN IF Refused(r) THEN /\ call' = [call EXCEPT ![c] = [r EXCEPT !.at = "refused"]]
                           /\ UNCHANGED store
        ELSE IF r.does = "get" THEN
          /\ call' = [call EXCEPT ![c] = [at |-> "read", does |-> "get", keys |-> r.keys, knew |-> r.knew,
                                          version |-> store[CHOOSE k \in r.keys : TRUE].version]]
          /\ UNCHANGED store
        ELSE /\ \A k \in r.keys : store[k].version < MaxWrites
             /\ store' = [k \in Keys |-> IF k \in r.keys
                            THEN [version |-> store[k].version + 1, exists |-> r.does # "delete"] ELSE store[k]]
             /\ call' = [call EXCEPT ![c] = [at |-> "written", does |-> r.does, keys |-> r.keys,
                                             version |-> [k \in r.keys |-> store[k].version + 1]]]
  /\ UNCHANGED <<now, cache, calls, done, answer>>

\* Another client writes.
Foreign(k) ==
  /\ store[k].version < MaxWrites
  /\ \E exists \in BOOLEAN : store' = [store EXCEPT ![k] = [version |-> @.version + 1, exists |-> exists]]
  /\ UNCHANGED <<now, cache, call, calls, done, answer>>

\* The answer to a read arrives and is kept, whatever happened to the key meanwhile.
ReadReturns(c) ==
  /\ call[c].at = "read"
  /\ LET k     == CHOOSE x \in call[c].keys : TRUE
         entry == [version |-> call[c].version, at |-> now, began |-> call[c].knew, put |-> done[k]]
     IN /\ cache' = IF k \in Cached THEN [cache EXCEPT ![k] = entry] ELSE cache
        /\ Answered(k, entry, call[c].knew, "service")
  /\ call' = [call EXCEPT ![c] = Idle]
  /\ UNCHANGED <<now, store, calls, done>>

\* (mutant) A transaction drops what is kept of its main key.
MainKey(keys) == {CHOOSE k \in keys : TRUE}
\* The keys an answered write drops from the cache.
Dropped(keys) == keys

WriteReturns(c) ==
  /\ call[c].at = "written"
  /\ cache' = [k \in Keys |-> IF k \in Dropped(call[c].keys) THEN None ELSE cache[k]]
  /\ done' = [k \in Keys |-> IF k \in call[c].keys /\ call[c].version[k] > done[k] THEN call[c].version[k] ELSE done[k]]
  /\ call' = [call EXCEPT ![c] = Idle]
  /\ UNCHANGED <<now, store, calls, answer>>

\* A call fails: refused, never executed, or its answer is lost.  Nothing is dropped.
Fails(c) ==
  /\ call[c] # Idle
  /\ call' = [call EXCEPT ![c] = Idle]
  /\ UNCHANGED <<now, store, cache, calls, done, answer>>

Next ==
  \/ Tick
  \/ \E k \in Keys : Foreign(k)
  \/ \E c \in Callers :
       \/ \E k \in Keys : Get(c, k)
       \/ \E kind \in Writes, keys \in SUBSET Keys \ {{}} : Write(c, kind, keys)
       \/ Execute(c) \/ ReadReturns(c) \/ WriteReturns(c) \/ Fails(c)

Spec == Init /\ [][Next]_vars

-----------------------------------------------------------------------------
(***************************************************************************)
(* A write of this client makes the next get of its key ask the service:   *)
(* what is read after the write was answered is that write or a later      *)
(* state of the key.  It does not hold: an answer that was under way when  *)
(* the write was answered is kept afterwards, as if nothing had been       *)
(* written.                                                                *)
(***************************************************************************)
OwnWritesAreRead == answer.key # "" => answer.version >= answer.knew

(***************************************************************************)
(* That overlap is the only way to read an older state.  The service is    *)
(* never late: what is older comes from the cache, from a read that began  *)
(* before the write was answered and was kept after it.  A write's answer  *)
(* drops all that was kept when it arrived.                                *)
(***************************************************************************)
OnlyOverlapIsStale ==
  answer.key # "" /\ answer.version < answer.knew =>
    answer.from = "cache" /\ answer.began < answer.knew /\ answer.knew <= answer.put
=============================================================================
