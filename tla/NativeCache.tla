----------------------------- MODULE NativeCache ----------------------------
(***************************************************************************)
(* OMemAdapter._native_retrieve: the retrieval results of one run context, *)
(* cached under the query and top_k they were asked for.  Threads share    *)
(* the cache without a lock: between the lookup that misses and the store  *)
(* that follows the native call, other threads look up and store.          *)
(* The native call reads the memory only, so that two calls for one key    *)
(* return the same result: a key stands for its result.                    *)
(***************************************************************************)
EXTENDS Naturals, FiniteSets

CONSTANTS Threads,   \* the threads that share a run context
          Keys,      \* the pairs of query and top_k they ask for
          Requests,  \* the keys each thread may ask for
          NoKey

ASSUME CacheAssumption == /\ IsFiniteSet(Threads)
                          /\ Requests \in [Threads -> SUBSET Keys]
                          /\ NoKey \notin Keys

VARIABLES stored,    \* the keys the cache has a result for
          calling,   \* the key whose native call each thread waits for, or NoKey
          calls,     \* history: native calls begun, per key
          failures   \* history: native calls that raised, per key

cacheVars == <<stored, calling, calls, failures>>

CacheInit == /\ stored = {}
             /\ calling = [t \in Threads |-> NoKey]
             /\ calls = [k \in Keys |-> 0]
             /\ failures = [k \in Keys |-> 0]

MayAsk(t, k) == calling[t] = NoKey /\ k \in Requests[t]

\* cache.get(cache_key) finds a result, which the thread returns at once.
Hit(t, k) == /\ MayAsk(t, k)
             /\ k \in stored
             /\ UNCHANGED cacheVars

\* It finds none: the thread calls the memory manager.
Miss(t, k) == /\ MayAsk(t, k)
              /\ k \notin stored
              /\ calling' = [calling EXCEPT ![t] = k]
              /\ calls' = [calls EXCEPT ![k] = @ + 1]
              /\ UNCHANGED <<stored, failures>>

\* Fault: the result is returned but not stored.
NativeReturnUnstored(t) == /\ calling[t] # NoKey
                           /\ calling' = [calling EXCEPT ![t] = NoKey]
                           /\ UNCHANGED <<stored, calls, failures>>

\* Fault: it is stored under what the thread asks for after it was cleared.
NativeReturnClearing(t) == /\ calling[t] # NoKey
                           /\ calling' = [calling EXCEPT ![t] = NoKey]
                           /\ stored' = stored \cup {calling'[t]}
                           /\ UNCHANGED <<calls, failures>>

\* The native call returns a valid payload, which the thread stores over
\* whatever another thread may have stored meanwhile, and returns.
NativeReturn(t) == /\ calling[t] # NoKey
                   /\ stored' = stored \cup {calling[t]}
                   /\ calling' = [calling EXCEPT ![t] = NoKey]
                   /\ UNCHANGED <<calls, failures>>

\* Fault: the rejected payload is stored before it is looked at.
NativeFailStored(t) == /\ calling[t] # NoKey
                       /\ stored' = stored \cup {calling[t]}
                       /\ failures' = [failures EXCEPT ![calling[t]] = @ + 1]
                       /\ calling' = [calling EXCEPT ![t] = NoKey]
                       /\ UNCHANGED calls

\* It raises, or its payload is rejected: nothing is stored.
NativeFail(t) == /\ calling[t] # NoKey
                 /\ failures' = [failures EXCEPT ![calling[t]] = @ + 1]
                 /\ calling' = [calling EXCEPT ![t] = NoKey]
                 /\ UNCHANGED <<stored, calls>>

CacheNext == \E t \in Threads :
                \/ \E k \in Keys : Hit(t, k) \/ Miss(t, k)
                \/ NativeReturn(t)
                \/ NativeFail(t)

CacheSpec == CacheInit /\ [][CacheNext]_cacheVars

(* ----------------------------- Properties ------------------------------ *)

CacheTypeOK == /\ stored \subseteq Keys
               /\ calling \in [Threads -> Keys \cup {NoKey}]
               /\ calls \in [Keys -> Nat]
               /\ failures \in [Keys -> Nat]

Calling(k) == {t \in Threads : calling[t] = k}

Requesters(k) == {t \in Threads : k \in Requests[t]}

\* The missing lock costs at most one native call per thread that asks for a
\* key: beyond the calls that raised, no key is retrieved more often than it has
\* requesters, however often each of them asks.
BoundedDuplicates ==
    \A k \in Keys : calls[k] <= failures[k] + Cardinality(Requesters(k))

\* The cache holds a result for exactly the keys a native call has returned for:
\* a call that raised leaves nothing behind, and no result is lost.
CacheAccounts ==
    \A k \in Keys :
        k \in stored <=> calls[k] > failures[k] + Cardinality(Calling(k))
=============================================================================
