-------------------------- MODULE NativeCacheProofs -------------------------
(***************************************************************************)
(* NativeCache keeps its accounts and bounds its duplicates for every      *)
(* finite set of threads and whatever each of them asks for.               *)
(***************************************************************************)
EXTENDS NativeCache, FiniteSetTheorems, TLAPS

\* The ledger of one key: before a result is stored every call is under way or
\* has raised; afterwards at least one more call than those has been made.
Ledger(k) ==
    /\ k \notin stored => calls[k] = failures[k] + Cardinality(Calling(k))
    /\ k \in stored    => calls[k] >= failures[k] + Cardinality(Calling(k)) + 1
    /\ calls[k] <= failures[k] + Cardinality(Requesters(k))
    /\ Calling(k) \subseteq Requesters(k)

CacheInv == CacheTypeOK /\ \A k \in Keys : Ledger(k)

LEMMA FiniteCalling ==
    \A k : /\ IsFiniteSet(Calling(k)) /\ Cardinality(Calling(k)) \in Nat
           /\ IsFiniteSet(Requesters(k)) /\ Cardinality(Requesters(k)) \in Nat
<1> TAKE k
<1>1. Calling(k) \in SUBSET Threads /\ Requesters(k) \in SUBSET Threads
  BY DEF Calling, Requesters
<1>2. IsFiniteSet(Calling(k)) /\ IsFiniteSet(Requesters(k))
  BY <1>1, FS_Subset, CacheAssumption
<1> QED  BY <1>2, FS_CardinalityType

LEMMA CacheInitOK == CacheInit => CacheInv
<1> SUFFICES ASSUME CacheInit PROVE CacheInv
  OBVIOUS
<1>1. CacheTypeOK
  BY DEF CacheInit, CacheTypeOK
<1>2. ASSUME NEW k \in Keys PROVE Ledger(k)
  <2>1. Calling(k) = {}
    BY CacheAssumption DEF CacheInit, Calling
  <2>2. Cardinality(Calling(k)) = 0
    BY <2>1, FS_EmptySet
  <2>3. Cardinality(Requesters(k)) \in Nat
    BY FiniteCalling
  <2> QED  BY <2>1, <2>2, <2>3 DEF CacheInit, Ledger
<1> QED  BY <1>1, <1>2 DEF CacheInv

\* A miss adds its thread to the key's callers, and to the calls made.
LEMMA MissOK ==
    ASSUME CacheInv, NEW t \in Threads, NEW j \in Keys, Miss(t, j)
    PROVE  CacheInv'
<1>1. CacheTypeOK'
  BY DEF CacheInv, CacheTypeOK, Miss
<1>2. ASSUME NEW k \in Keys PROVE Ledger(k)'
  <2> Ledger(k) /\ CacheTypeOK
    BY DEF CacheInv
  <2>1. CASE k = j
    <3>1. t \notin Calling(k) /\ t \in Requesters(k)
      BY <2>1, CacheAssumption DEF Miss, MayAsk, Calling, Requesters
    <3>2. Calling(k)' = Calling(k) \cup {t} /\ Requesters(k)' = Requesters(k)
      BY <2>1 DEF Miss, Calling, Requesters, CacheTypeOK
    <3>3. Cardinality(Calling(k)') = Cardinality(Calling(k)) + 1
      BY <3>1, <3>2, FiniteCalling, FS_AddElement
    <3>4. Calling(k)' \in SUBSET Requesters(k)
      BY <3>1, <3>2 DEF Ledger
    <3>5. Cardinality(Calling(k)') <= Cardinality(Requesters(k))
      BY <3>4, FiniteCalling, FS_Subset
    <3>6. /\ k \notin stored /\ stored' = stored /\ failures' = failures
          /\ calls'[k] = calls[k] + 1 /\ calls[k] \in Nat /\ failures[k] \in Nat
      BY <2>1 DEF Miss, CacheTypeOK
    <3> QED  BY <3>2, <3>3, <3>4, <3>5, <3>6, FiniteCalling DEF Ledger
  <2>2. CASE k # j
    <3>1. t \notin Calling(k)
      BY CacheAssumption DEF Miss, MayAsk, Calling
    <3>2. Calling(k)' = Calling(k) /\ Requesters(k)' = Requesters(k)
      BY <2>2, <3>1 DEF Miss, Calling, Requesters, CacheTypeOK
    <3>3. stored' = stored /\ failures' = failures /\ calls'[k] = calls[k]
      BY <2>2 DEF Miss, CacheTypeOK
    <3> QED  BY <3>2, <3>3 DEF Ledger
  <2> QED  BY <2>1, <2>2
<1> QED  BY <1>1, <1>2 DEF CacheInv

\* The end of a native call takes its thread off the callers of its key only.
LEMMA CallEnds ==
    ASSUME CacheInv, NEW t \in Threads, calling[t] # NoKey,
           calling' = [calling EXCEPT ![t] = NoKey]
    PROVE  /\ calling[t] \in Keys
           /\ Cardinality(Calling(calling[t])) >= 1
           /\ \A k \in Keys :
                 /\ Calling(k)' \subseteq Calling(k)
                 /\ Cardinality(Calling(k)') =
                      IF k = calling[t] THEN Cardinality(Calling(k)) - 1
                                        ELSE Cardinality(Calling(k))
<1>1. calling[t] \in Keys
  BY DEF CacheInv, CacheTypeOK
<1>2. ASSUME NEW k \in Keys
      PROVE  Calling(k)' = IF k = calling[t] THEN Calling(k) \ {t} ELSE Calling(k)
  BY CacheAssumption DEF Calling, CacheInv, CacheTypeOK
<1>3. t \in Calling(calling[t])
  BY DEF Calling
<1>4. Cardinality(Calling(calling[t]) \ {t}) = Cardinality(Calling(calling[t])) - 1
  BY <1>3, FiniteCalling, FS_RemoveElement
<1>5. Cardinality(Calling(calling[t]) \ {t}) \in Nat
  BY FiniteCalling, FS_RemoveElement, FS_CardinalityType
<1> QED  BY <1>1, <1>2, <1>4, <1>5, FiniteCalling

LEMMA NativeReturnOK ==
    ASSUME CacheInv, NEW t \in Threads, NativeReturn(t)
    PROVE  CacheInv'
<1>1. /\ calling[t] \in Keys
      /\ \A k \in Keys :
            /\ Calling(k)' \subseteq Calling(k)
            /\ Cardinality(Calling(k)') =
                 IF k = calling[t] THEN Cardinality(Calling(k)) - 1
                                   ELSE Cardinality(Calling(k))
  BY CallEnds DEF NativeReturn
<1>2. CacheTypeOK'
  BY <1>1 DEF CacheInv, CacheTypeOK, NativeReturn
<1>3. ASSUME NEW k \in Keys PROVE Ledger(k)'
  <2>1. Ledger(k) /\ calls[k] \in Nat /\ failures[k] \in Nat
    BY DEF CacheInv, CacheTypeOK
  <2>2. /\ calls' = calls /\ failures' = failures
        /\ k \in stored' <=> k \in stored \/ k = calling[t]
    BY DEF NativeReturn
  <2>3. Requesters(k)' = Requesters(k)
    BY DEF Requesters
  <2> QED  BY <1>1, <2>1, <2>2, <2>3, FiniteCalling DEF Ledger
<1> QED  BY <1>2, <1>3 DEF CacheInv

LEMMA NativeFailOK ==
    ASSUME CacheInv, NEW t \in Threads, NativeFail(t)
    PROVE  CacheInv'
<1>1. /\ calling[t] \in Keys
      /\ \A k \in Keys :
            /\ Calling(k)' \subseteq Calling(k)
            /\ Cardinality(Calling(k)') =
                 IF k = calling[t] THEN Cardinality(Calling(k)) - 1
                                   ELSE Cardinality(Calling(k))
  BY CallEnds DEF NativeFail
<1>2. CacheTypeOK'
  BY <1>1 DEF CacheInv, CacheTypeOK, NativeFail
<1>3. ASSUME NEW k \in Keys PROVE Ledger(k)'
  <2>1. Ledger(k) /\ calls[k] \in Nat /\ failures[k] \in Nat
    BY DEF CacheInv, CacheTypeOK
  <2>2. /\ calls' = calls /\ stored' = stored
        /\ failures'[k] = IF k = calling[t] THEN failures[k] + 1 ELSE failures[k]
    BY <1>1 DEF NativeFail, CacheInv, CacheTypeOK
  <2>3. Requesters(k)' = Requesters(k)
    BY DEF Requesters
  <2> QED  BY <1>1, <2>1, <2>2, <2>3, FiniteCalling DEF Ledger
<1> QED  BY <1>2, <1>3 DEF CacheInv

LEMMA CacheInvariance == CacheSpec => []CacheInv
<1>1. CacheInv /\ [CacheNext]_cacheVars => CacheInv'
  <2> SUFFICES ASSUME CacheInv, [CacheNext]_cacheVars PROVE CacheInv'
    OBVIOUS
  <2>1. CASE UNCHANGED cacheVars
    BY <2>1 DEF cacheVars, CacheInv, CacheTypeOK, Ledger, Calling, Requesters
  <2>2. ASSUME NEW t \in Threads, NEW k \in Keys, Hit(t, k) PROVE CacheInv'
    BY <2>1, <2>2 DEF Hit
  <2> QED  BY <2>1, <2>2, MissOK, NativeReturnOK, NativeFailOK DEF CacheNext
<1> QED  BY <1>1, CacheInitOK, PTL DEF CacheSpec

\* Without a lock around lookup, native call and store in _native_retrieve, a
\* key still costs no more native calls that succeed than it has requesters.
THEOREM DuplicatesAreBounded == CacheSpec => []BoundedDuplicates
<1>1. CacheInv => BoundedDuplicates
  BY DEF CacheInv, Ledger, BoundedDuplicates
<1> QED  BY <1>1, CacheInvariance, PTL

\* The cache of _native_retrieve has a result for a key exactly when a native
\* call for it has returned one.
THEOREM CacheKeepsAccounts == CacheSpec => []CacheAccounts
<1>1. CacheInv => CacheAccounts
  <2> SUFFICES ASSUME CacheInv, NEW k \in Keys
               PROVE  k \in stored <=> calls[k] > failures[k] + Cardinality(Calling(k))
    BY DEF CacheAccounts
  <2> QED  BY FiniteCalling DEF CacheInv, CacheTypeOK, Ledger
<1> QED  BY <1>1, CacheInvariance, PTL
=============================================================================
