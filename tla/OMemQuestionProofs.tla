------------------------- MODULE OMemQuestionProofs -------------------------
(***************************************************************************)
(* The evaluation of an O-Mem question is an evaluation, and its retrieval *)
(* calls use the native retrieval cache as NativeCache describes it, for   *)
(* any top-k values, settings and adapters: what is proved of the engine   *)
(* and of the cache holds of the two together.                             *)
(***************************************************************************)
EXTENDS OMemQuestion, ThreeProbeEngineProofs, NativeCacheProofs

LEMMA ProbesAre == {"enc", "ret", "gen"} \subseteq Probes
BY DEF Probes

\* What a probe asks for is among the keys of its thread.
LEMMA KeyAtRetrieval ==
    ASSUME NEW p \in Probes, AtRetrieval(p)
    PROVE  KeyOf[pc[p]] \in Keys /\ KeyOf[pc[p]] \in Requests[p] /\ p \in Threads
<1>1. KeyOf[pc[p]] \in KeysOf(p)
  BY DEF AtRetrieval, KeysOf
<1> QED
  BY <1>1, OMemAssumption

LEMMA OutcomesAre == \A p : Outcomes(p) \subseteq CallOutcomes
BY DEF Outcomes, CallOutcomes

\* Whatever a retrieval comes back with, the engine has a step for it.
LEMMA CompletionIsStep ==
    ASSUME NEW p \in Probes, NEW out \in CallOutcomes, Completes(p, out)
    PROVE  Next
<1>1. CASE p = "enc" /\ (MergeQuery(out) \/ MergeFKey(out))
  BY <1>1 DEF Next, EncStep
<1>2. CASE p = "ret" /\ RetrieveOriginal(out)
  BY <1>2 DEF Next, RetStep
<1>3. CASE p = "gen" /\ (OnlineAnswer(out) \/ RetrieveContext(out))
  BY <1>3 DEF Next, GenStep
<1> QED
  BY <1>1, <1>2, <1>3 DEF Completes

LEMMA OtherStepIsStep == OtherStep => Next
<1> SUFFICES ASSUME OtherStep PROVE Next
  OBVIOUS
<1>1. CASE MainStep \/ Start
  BY <1>1 DEF Next
<1>2. CASE \E out \in CallOutcomes : \/ ExportMemory(out) \/ HybridRetrieve(out)
                                     \/ FindRecords(out) \/ OracleAnswer(out)
  BY <1>2 DEF Next, EncStep, GenStep
<1>3. CASE CheckOnline
  BY <1>3 DEF Next, GenStep
<1>4. CASE \E p \in Probes : Judge(p)
  BY <1>4 DEF Probes, Next, EncStep, RetStep, GenStep
<1> QED
  BY <1>1, <1>2, <1>3, <1>4 DEF OtherStep

\* A lookup that misses is not seen from outside, any other step is one of the engine.
LEMMA EngineStep == OMemNext => Next \/ UNCHANGED vars
<1>1. ASSUME NEW p \in Probes, LookupHit(p) \/ NativeReturns(p)
      PROVE  Next
  BY <1>1, OutcomesAre, CompletionIsStep DEF LookupHit, NativeReturns
<1>2. ASSUME NEW p \in Probes, LookupMiss(p)
      PROVE  UNCHANGED vars
  BY <1>2 DEF LookupMiss
<1>3. ASSUME NEW p \in Probes, NativeFails(p)
      PROVE  Next
  <2>1. "error" \in CallOutcomes
    BY DEF CallOutcomes
  <2> QED
    BY <1>3, <2>1, CompletionIsStep DEF NativeFails
<1> QED
  BY <1>1, <1>2, <1>3, OtherStepIsStep DEF OMemNext

\* The steps of the probes use the cache, the others leave it alone.
LEMMA CacheStep == OMemNext => CacheNext \/ UNCHANGED cacheVars
<1>1. ASSUME NEW p \in Probes, LookupHit(p) \/ LookupMiss(p)
      PROVE  CacheNext
  <2>1. AtRetrieval(p) /\ (Hit(p, KeyOf[pc[p]]) \/ Miss(p, KeyOf[pc[p]]))
    BY <1>1 DEF LookupHit, LookupMiss
  <2>2. KeyOf[pc[p]] \in Keys /\ p \in Threads
    BY <2>1, KeyAtRetrieval
  <2> QED
    BY <2>1, <2>2 DEF CacheNext
<1>2. ASSUME NEW p \in Probes, NativeReturns(p) \/ NativeFails(p)
      PROVE  CacheNext
  BY <1>2, OMemAssumption DEF NativeReturns, NativeFails, CacheNext
<1> QED
  BY <1>1, <1>2 DEF OMemNext, OtherStep

\* With its cache hidden, the evaluation of an O-Mem question by
\* evaluate_with_adapters is one of the engine.
THEOREM OMemImplementsEngine == OMemSpec => ImplementsEngine
<1>1. OMemInit => Init
  BY DEF OMemInit
<1>2. [OMemNext]_allVars => [Next]_vars
  BY EngineStep DEF allVars
<1> QED
  BY <1>1, <1>2, PTL DEF OMemSpec, ImplementsEngine, Spec

\* With the probes hidden, _native_retrieve is used as NativeCache describes it,
\* by each of the three threads with the keys of its own probe.
THEOREM OMemImplementsCache == OMemSpec => CacheSpec
<1>1. OMemInit => CacheInit
  BY DEF OMemInit
<1>2. [OMemNext]_allVars => [CacheNext]_cacheVars
  BY CacheStep DEF allVars
<1> QED
  BY <1>1, <1>2, PTL DEF OMemSpec, CacheSpec

\* The evaluation of an O-Mem question keeps its shape and its cache that of a cache.
THEOREM OMemTypeCorrect == OMemSpec => []OMemTypeOK
<1>1. EInv /\ CacheInv => OMemTypeOK
  BY DEF EInv, CacheInv, OMemTypeOK
<1> QED
  BY <1>1, OMemImplementsEngine, OMemImplementsCache, EngineInvariance, CacheInvariance, PTL
     DEF ImplementsEngine

\* What _native_retrieve is called for within one question costs no more successful
\* native calls per key than there are probes that ask for it.
THEOREM OMemDuplicatesAreBounded == OMemSpec => []BoundedDuplicates
BY OMemImplementsCache, DuplicatesAreBounded, PTL

\* The cache has a result exactly for what a native call has returned one for,
\* however the three probes interleave.
THEOREM OMemCacheKeepsAccounts == OMemSpec => []CacheAccounts
BY OMemImplementsCache, CacheKeepsAccounts, PTL

\* What is proved of every evaluation holds of one of an O-Mem question: it decides
\* once, after all probes have settled, for the first failure in submission order.
THEOREM OMemQuestionJoins ==
    OMemSpec => /\ Join3!JoinSafety
                /\ [](NoProbeOutlivesCall /\ ErrorIsFirstInOrder /\ StrictSwallowsNothing)
BY OMemImplementsEngine, EngineImplementsJoin, NoProbeOutlivesCallHolds,
   ErrorIsFirstInOrderHolds, StrictSwallowsNothingHolds, PTL DEF ImplementsEngine

(* ------------------------- Calls under way ------------------------------ *)

\* A native call that is under way is the one its probe waits for.
CallIsWanted ==
    \A p \in Probes : calling[p] # NoKey => AtRetrieval(p) /\ calling[p] = KeyOf[pc[p]]

\* A step of the engine that changes what probe q is at leaves the other probes.
Leaves(q) == \A p \in Probes : p # q => status'[p] = status[p] /\ pc'[p] = pc[p]

LEMMA PlainLeaves ==
    ASSUME TypeOK, NEW q \in Probes, NEW step, NEW out, NEW next,
           Plain(q, step, out, next) \/ Guarded(q, step, out, next)
    PROVE  Leaves(q) /\ pc[q] = step
BY DEF TypeOK, Plain, Guarded, At, End, Continue, Leaves

LEMMA CompletionLeaves ==
    ASSUME TypeOK, NEW p \in Probes, NEW out, Completes(p, out)
    PROVE  Leaves(p)
BY PlainLeaves DEF Completes, MergeQuery, MergeFKey, RetrieveOriginal, OnlineAnswer, RetrieveContext

LEMMA NoRetrieval ==
    ASSUME NEW p \in Probes, NEW q \in Probes, AtRetrieval(p),
           pc[q] \in {"judge", "export", "hybrid", "find", "oracle", "check"}
    PROVE  p # q
BY DEF AtRetrieval, StepsOf, Probes

\* A step that is no retrieval is of a probe that is not at one.
LEMMA OtherStepLeaves ==
    ASSUME EInv, OtherStep, NEW p \in Probes, AtRetrieval(p)
    PROVE  status'[p] = status[p] /\ pc'[p] = pc[p]
<1>0. TypeOK
  BY DEF EInv
<1>1. CASE MainStep
  BY <1>1 DEF MainStep, Submit, Join, ExitPool, Attribute
<1>2. CASE Start
  <2>1. started \in 0..2 /\ status[Order[started + 1]] = "waiting"
    BY <1>0, <1>2, OrderOfProbes DEF Start, EInv, TypeOK, PoolInv
  <2>2. p # Order[started + 1]
    BY <2>1 DEF AtRetrieval
  <2> QED
    BY <1>0, <1>2, <2>2 DEF Start, TypeOK
<1>3. ASSUME NEW out \in CallOutcomes,
             ExportMemory(out) \/ HybridRetrieve(out) \/ FindRecords(out)
      PROVE  status'[p] = status[p] /\ pc'[p] = pc[p]
  <2>1. Leaves("enc") /\ pc["enc"] \in {"export", "hybrid", "find"}
    BY <1>0, <1>3, ProbesAre, PlainLeaves DEF ExportMemory, HybridRetrieve, FindRecords
  <2> QED
    BY <2>1, ProbesAre, NoRetrieval DEF Leaves
<1>4. ASSUME NEW out \in CallOutcomes, OracleAnswer(out)
      PROVE  status'[p] = status[p] /\ pc'[p] = pc[p]
  <2>1. Leaves("gen") /\ pc["gen"] = "oracle"
    BY <1>0, <1>4, ProbesAre, PlainLeaves DEF OracleAnswer
  <2> QED
    BY <2>1, ProbesAre, NoRetrieval DEF Leaves
<1>5. CASE CheckOnline
  <2>1. Leaves("gen") /\ pc["gen"] = "check"
    BY <1>0, <1>5 DEF CheckOnline, At, End, Continue, Leaves, TypeOK
  <2> QED
    BY <2>1, ProbesAre, NoRetrieval DEF Leaves
<1>6. ASSUME NEW q \in Probes, Judge(q)
      PROVE  status'[p] = status[p] /\ pc'[p] = pc[p]
  <2>1. Leaves(q) /\ pc[q] = "judge"
    BY <1>0, <1>6 DEF Judge, At, End, Leaves, TypeOK
  <2> QED
    BY <2>1, NoRetrieval DEF Leaves
<1> QED
  BY <1>1, <1>2, <1>3, <1>4, <1>5, <1>6 DEF OtherStep

LEMMA CallIsWantedStep ==
    ASSUME EInv, CacheTypeOK, CallIsWanted, [OMemNext]_allVars
    PROVE  CallIsWanted'
<1>0. TypeOK /\ Threads = Probes
  BY OMemAssumption DEF EInv
<1>1. CASE UNCHANGED allVars
  BY <1>1 DEF allVars, vars, cacheVars, CallIsWanted, AtRetrieval
<1>2. CASE OtherStep
  BY <1>2, OtherStepLeaves DEF OtherStep, cacheVars, CallIsWanted, AtRetrieval
<1>3. ASSUME NEW q \in Probes, LookupHit(q) \/ NativeReturns(q) \/ NativeFails(q)
      PROVE  CallIsWanted'
  <2>1. Leaves(q)
    BY <1>0, <1>3, CompletionLeaves DEF LookupHit, NativeReturns, NativeFails
  <2>2. calling'[q] = NoKey /\ \A p \in Probes : p # q => calling'[p] = calling[p]
    BY <1>0, <1>3 DEF LookupHit, Hit, MayAsk, cacheVars, NativeReturns, NativeReturn,
                      NativeFails, NativeFail, CacheTypeOK
  <2> QED
    BY <2>1, <2>2 DEF Leaves, CallIsWanted, AtRetrieval
<1>4. ASSUME NEW q \in Probes, LookupMiss(q)
      PROVE  CallIsWanted'
  <2>1. /\ AtRetrieval(q) /\ UNCHANGED <<status, pc>>
        /\ calling' = [calling EXCEPT ![q] = KeyOf[pc[q]]]
    BY <1>4 DEF LookupMiss, Miss, vars
  <2> QED
    BY <1>0, <2>1 DEF CallIsWanted, AtRetrieval, CacheTypeOK
<1> QED
  BY <1>1, <1>2, <1>3, <1>4 DEF OMemNext

\* The result that a thread stores is of the key its probe asked for, and when
\* evaluate_with_adapters is over no native call is under way that could still use
\* the run context or store into its cache.
THEOREM NoCallOutlives ==
    OMemSpec => [](CallIsWanted /\ (Over => \A p \in Probes : calling[p] = NoKey))
<1>1. OMemInit => CallIsWanted
  BY OMemAssumption DEF OMemInit, CacheInit, CallIsWanted
<1>2. OMemSpec => [](EInv /\ CacheTypeOK)
  BY OMemImplementsEngine, OMemImplementsCache, EngineInvariance, CacheInvariance, PTL
     DEF ImplementsEngine, CacheInv
<1>3. EInv /\ CacheTypeOK /\ CallIsWanted /\ [OMemNext]_allVars => CallIsWanted'
  BY CallIsWantedStep
<1>4. EInv /\ CallIsWanted => (Over => \A p \in Probes : calling[p] = NoKey)
  BY DEF EInv, MainInv, Over, Settled, CallIsWanted, AtRetrieval
<1> QED
  BY <1>1, <1>2, <1>3, <1>4, PTL DEF OMemSpec
=============================================================================
