----------------------- MODULE ThreeProbeEngineProofs -----------------------
(***************************************************************************)
(* The safety of ThreeProbeEngine for every set of settings (any number of *)
(* workers) and adapters, and that it implements the safety of             *)
(* ThreeWayJoin.                                                           *)
(***************************************************************************)
EXTENDS ThreeProbeEngine, TLAPS

\* The calls whose exceptions a lenient evaluation tolerates.
Tolerable == {"external", "hybrid", "merge_query", "merge_f_key", "online", "context"}

AllProbesOk == \A p \in Probes : status[p] = "ok"

\* The futures joined so far, when none of them has raised, are well.
JoinedOk ==
    error = "none" => /\ joined >= 1 => status["enc"] = "ok"
                      /\ joined >= 2 => status["ret"] = "ok"
                      /\ joined >= 3 => status["gen"] = "ok"

\* What the with statement has been left with.
Outcome ==
    \/ error = "none" /\ joined = 3
    \/ error = "enc" /\ status["enc"] = "failed"
    \/ error = "ret" /\ status["enc"] = "ok" /\ status["ret"] = "failed"
    \/ error = "gen" /\ status["enc"] = "ok" /\ status["ret"] = "ok"
                     /\ status["gen"] = "failed"
    \/ error = "attribution" /\ main = "raised" /\ AllProbesOk

\* Where the calling thread is and what it knows.
MainInv ==
    /\ main = "submitting" <=> submitted < 3
    /\ main \in {"submitting", "joining"} => error = "none" /\ joined < 3
    /\ main = "submitting" => joined = 0
    /\ JoinedOk
    /\ main \in {"exiting", "attributing", "returned", "raised"} => Outcome
    /\ main \in {"attributing", "returned"} => error = "none"
    /\ main = "raised" => error # "none"
    /\ main \in {"attributing", "returned", "raised"} => \A p \in Probes : Settled(p)

\* A probe that no worker has taken is still waiting.
PoolInv == /\ started < 1 => status["enc"] = "waiting"
           /\ started < 2 => status["ret"] = "waiting"
           /\ started < 3 => status["gen"] = "waiting"

\* Every call that raised has cost a probe or was one that may be tolerated.
CallInv == \A x \in raisedAt : \/ x \in Tolerable /\ ~cfg.strictCall
                               \/ \E p \in Probes : status[p] = "failed"

EInv == TypeOK /\ MainInv /\ PoolInv /\ CallInv

LEMMA OrderOfProbes == /\ Order[1] = "enc" /\ Order[2] = "ret" /\ Order[3] = "gen"
                       /\ Probes = {"enc", "ret", "gen"}
BY DEF Order, Probes

LEMMA InitOK == Init => EInv
<1> SUFFICES ASSUME Init PROVE EInv
  OBVIOUS
<1>1. FirstStep \in [Probes -> Steps]
  BY DEF FirstStep, Probes, Steps
<1>2. TypeOK
  <2>1. status \in [Probes -> {"waiting", "running", "ok", "failed"}]
    BY DEF Init
  <2>2. /\ main \in Mains /\ started <= submitted
        /\ submitted \in 0..3 /\ started \in 0..3 /\ joined \in 0..3
    BY DEF Init, Mains
  <2>3. pc \in [Probes -> Steps]
    BY <1>1 DEF Init
  <2>4. /\ cfg \in Settings /\ adapter \in Adapters
        /\ direct \in BOOLEAN /\ keyed \in BOOLEAN
    BY DEF Init
  <2>5. found \in BOOLEAN /\ answered \in BOOLEAN /\ raisedAt \subseteq Steps
    BY DEF Init
  <2>6. error \in Probes \cup {"none", "attribution"}
    BY DEF Init
  <2> QED  BY <2>1, <2>2, <2>3, <2>4, <2>5, <2>6 DEF TypeOK
<1>3. MainInv
  BY DEF Init, MainInv, JoinedOk
<1>4. PoolInv /\ CallInv
  BY DEF Init, PoolInv, CallInv, Probes
<1> QED  BY <1>2, <1>3, <1>4 DEF EInv

----------------------------------------------------------------------------
\* What any step of a running probe does to the shared state: it may settle its
\* own probe, and a call that raises settles it unless it is tolerated.
ProbeStep(p) ==
    /\ status[p] = "running"
    /\ UNCHANGED status \/ \E s \in {"ok", "failed"} : status' = [status EXCEPT ![p] = s]
    /\ UNCHANGED <<inputVars, mainVars, started>>
    /\ pc' \in [Probes -> Steps] /\ found' \in BOOLEAN /\ answered' \in BOOLEAN
    /\ raisedAt' \subseteq Steps
    /\ \A x \in raisedAt' \ raisedAt : \/ x \in Tolerable /\ ~cfg.strictCall
                                       \/ status'[p] = "failed"

LEMMA PlainStep ==
    ASSUME TypeOK, NEW p \in Probes, NEW step \in Steps, NEW out, NEW next \in Steps,
           Plain(p, step, out, next), found' \in BOOLEAN, answered' \in BOOLEAN
    PROVE  ProbeStep(p)
BY DEF TypeOK, Plain, At, Note, End, Continue, ProbeStep, Steps

LEMMA GuardedStep ==
    ASSUME TypeOK, NEW p \in Probes, NEW step \in Tolerable, NEW out, NEW next \in Steps,
           Guarded(p, step, out, next), found' \in BOOLEAN, answered' \in BOOLEAN
    PROVE  ProbeStep(p)
BY DEF TypeOK, Guarded, At, Note, End, Continue, ProbeStep, Steps, Tolerable

LEMMA JudgeStep ==
    ASSUME TypeOK, NEW p \in Probes, Judge(p)
    PROVE  ProbeStep(p)
BY DEF TypeOK, Judge, At, End, ProbeStep, Steps

LEMMA EncSteps ==
    ASSUME TypeOK, EncStep
    PROVE  ProbeStep("enc")
<1> USE DEF TypeOK
<1>1. "enc" \in Probes
  BY DEF Probes
<1>2. \A f \in BOOLEAN : HybridOrFind(f) \in Steps /\ MergeOrJudge \in Steps
  BY DEF HybridOrFind, MergeOrJudge, Steps
<1>3. {"export", "retriever", "external", "find", "merge_f_key", "judge"} \subseteq Steps
  BY DEF Steps
<1>4. {"external", "hybrid", "merge_query", "merge_f_key"} \subseteq Tolerable
  BY DEF Tolerable
<1>5. ASSUME NEW out \in CallOutcomes, ExportMemory(out) PROVE ProbeStep("enc")
  BY <1>1, <1>2, <1>3, <1>5, PlainStep DEF ExportMemory
<1>6. ASSUME NEW out \in CallOutcomes, ExternalRetrieve(out) PROVE ProbeStep("enc")
  BY <1>1, <1>2, <1>4, <1>6, GuardedStep DEF ExternalRetrieve
<1>e. ASSUME NEW out \in CallOutcomes, AskForRetriever(out) PROVE ProbeStep("enc")
  BY <1>1, <1>2, <1>3, <1>e, PlainStep DEF AskForRetriever
<1>7. ASSUME NEW out \in CallOutcomes, HybridRetrieve(out) PROVE ProbeStep("enc")
  BY <1>1, <1>2, <1>3, <1>4, <1>7, GuardedStep DEF HybridRetrieve
<1>8. ASSUME NEW out \in CallOutcomes, FindRecords(out) PROVE ProbeStep("enc")
  BY <1>1, <1>2, <1>3, <1>8, PlainStep DEF FindRecords
<1>9. ASSUME NEW out \in CallOutcomes, MergeQuery(out) PROVE ProbeStep("enc")
  BY <1>1, <1>3, <1>4, <1>9, GuardedStep DEF MergeQuery
<1>10. ASSUME NEW out \in CallOutcomes, MergeFKey(out) PROVE ProbeStep("enc")
  BY <1>1, <1>3, <1>4, <1>10, GuardedStep DEF MergeFKey
<1>11. ASSUME Judge("enc") PROVE ProbeStep("enc")
  BY <1>1, <1>11, JudgeStep
<1> QED  BY <1>5, <1>6, <1>e, <1>7, <1>8, <1>9, <1>10, <1>11 DEF EncStep

LEMMA RetSteps ==
    ASSUME TypeOK, RetStep
    PROVE  ProbeStep("ret")
<1>1. "ret" \in Probes /\ {"retrieve", "judge"} \subseteq Steps
  BY DEF Probes, Steps
<1>2. ASSUME NEW out \in CallOutcomes, RetrieveOriginal(out) PROVE ProbeStep("ret")
  BY <1>1, <1>2, PlainStep DEF RetrieveOriginal, TypeOK
<1>3. ASSUME Judge("ret") PROVE ProbeStep("ret")
  BY <1>1, <1>3, JudgeStep
<1> QED  BY <1>2, <1>3 DEF RetStep

LEMMA GenSteps ==
    ASSUME TypeOK, GenStep
    PROVE  ProbeStep("gen")
<1>1. "gen" \in Probes /\ {"oracle", "online", "check", "context", "judge"} \subseteq Steps
  BY DEF Probes, Steps
<1>2. {"online", "context"} \subseteq Tolerable
  BY DEF Tolerable
<1>3. ASSUME NEW out \in CallOutcomes, OracleAnswer(out) PROVE ProbeStep("gen")
  BY <1>1, <1>3, PlainStep DEF OracleAnswer, TypeOK
<1>4. ASSUME NEW out \in CallOutcomes, OnlineAnswer(out) PROVE ProbeStep("gen")
  BY <1>1, <1>2, <1>4, GuardedStep DEF OnlineAnswer, TypeOK
<1>5. ASSUME NEW out \in CallOutcomes, RetrieveContext(out) PROVE ProbeStep("gen")
  BY <1>1, <1>2, <1>5, GuardedStep DEF RetrieveContext, TypeOK
<1>6. ASSUME CheckOnline PROVE ProbeStep("gen")
  BY <1>1, <1>6 DEF CheckOnline, At, End, Continue, ProbeStep, TypeOK, Steps
<1>7. ASSUME Judge("gen") PROVE ProbeStep("gen")
  BY <1>1, <1>7, JudgeStep
<1> QED  BY <1>3, <1>4, <1>5, <1>6, <1>7 DEF GenStep

LEMMA ProbeStepOK ==
    ASSUME EInv, NEW p \in Probes, ProbeStep(p)
    PROVE  EInv'
<1> USE DEF EInv
<1>1. /\ status' \in [Probes -> {"waiting", "running", "ok", "failed"}]
      /\ \A q \in Probes : status[q] # "running" => status'[q] = status[q]
  BY DEF ProbeStep, TypeOK
<1>2. TypeOK'
  BY <1>1 DEF ProbeStep, TypeOK, inputVars, mainVars
<1>3. \A q \in Probes : Settled(q) => Settled(q)' /\ status'[q] = status[q]
  BY <1>1 DEF Settled
<1>4. MainInv'
  <2>1. JoinedOk'
    BY <1>1, OrderOfProbes DEF ProbeStep, mainVars, MainInv, JoinedOk
  <2>2. Outcome => Outcome'
    BY <1>1, OrderOfProbes DEF ProbeStep, mainVars, Outcome, AllProbesOk
  <2> QED  BY <1>3, <2>1, <2>2 DEF ProbeStep, mainVars, MainInv
<1>5. PoolInv'
  BY <1>1, OrderOfProbes DEF ProbeStep, PoolInv
<1>6. CallInv'
  BY <1>1 DEF ProbeStep, CallInv, inputVars
<1> QED  BY <1>2, <1>4, <1>5, <1>6

LEMMA StartOK == ASSUME EInv, Start PROVE EInv'
<1> USE DEF EInv
<1>1. started \in 0..2 /\ started' = started + 1 /\ started' \in 0..3
  BY DEF Start, TypeOK
<1>2. Order[started + 1] \in Probes /\ status[Order[started + 1]] = "waiting"
  BY <1>1, OrderOfProbes DEF PoolInv
<1>3. /\ status' \in [Probes -> {"waiting", "running", "ok", "failed"}]
      /\ \A q \in Probes : status[q] # "waiting" => status'[q] = status[q]
      /\ \A q \in Probes : q # Order[started + 1] => status'[q] = status[q]
  BY <1>2 DEF Start, TypeOK
<1>4. TypeOK'
  BY <1>1, <1>3 DEF Start, TypeOK, inputVars, mainVars
<1>5. MainInv'
  <2>1. \A q \in Probes : Settled(q) => Settled(q)'
    BY <1>3 DEF Settled
  <2>2. JoinedOk'
    BY <1>3, OrderOfProbes DEF Start, mainVars, MainInv, JoinedOk
  <2>3. Outcome => Outcome'
    BY <1>3, OrderOfProbes DEF Start, mainVars, Outcome, AllProbesOk
  <2> QED  BY <2>1, <2>2, <2>3 DEF Start, mainVars, MainInv
<1>6. PoolInv'
  BY <1>1, <1>3, OrderOfProbes DEF PoolInv
<1>7. CallInv'
  BY <1>3 DEF Start, CallInv, inputVars
<1> QED  BY <1>4, <1>5, <1>6, <1>7

LEMMA MainOK == ASSUME EInv, MainStep PROVE EInv'
<1> USE DEF EInv
<1>1. ASSUME Submit PROVE EInv'
  <2>1. submitted' = submitted + 1 /\ submitted' \in 0..3
    BY <1>1 DEF Submit, TypeOK, MainInv
  <2>2. TypeOK'
    BY <1>1, <2>1 DEF Submit, TypeOK, inputVars, Mains
  <2>3. MainInv'
    BY <1>1, <2>1 DEF Submit, MainInv, JoinedOk, TypeOK
  <2>4. PoolInv' /\ CallInv'
    BY <1>1 DEF Submit, PoolInv, CallInv, inputVars
  <2> QED  BY <2>2, <2>3, <2>4
<1>2. ASSUME Join PROVE EInv'
  <2>1. joined \in 0..2 /\ joined' = joined + 1 /\ joined' \in 0..3 /\ error = "none"
    BY <1>2 DEF Join, TypeOK, MainInv
  <2>2. Order[joined + 1] \in Probes
    BY <2>1, OrderOfProbes
  <2>3. /\ error' \in Probes \cup {"none", "attribution"} /\ main' \in {"joining", "exiting"}
        /\ UNCHANGED <<submitted, started, status, pc, found, answered, raisedAt, inputVars>>
    BY <1>2, <2>2 DEF Join, TypeOK
  <2>4. TypeOK'
    BY <2>1, <2>3 DEF TypeOK, inputVars, Mains
  <2>5. /\ JoinedOk'
        /\ main' = "joining" => error' = "none" /\ joined' < 3
        /\ main' = "exiting" => Outcome'
    BY <1>2, <2>1, OrderOfProbes DEF Join, MainInv, JoinedOk, Outcome, Settled
  <2>6. MainInv'
    BY <1>2, <2>3, <2>5 DEF Join, MainInv
  <2>7. PoolInv' /\ CallInv'
    BY <2>3 DEF PoolInv, CallInv, inputVars
  <2> QED  BY <2>4, <2>6, <2>7
<1>3. ASSUME ExitPool PROVE EInv'
  <2>1. TypeOK'
    BY <1>3 DEF ExitPool, TypeOK, inputVars, Mains
  <2>2. MainInv'
    BY <1>3 DEF ExitPool, MainInv, JoinedOk, Outcome, AllProbesOk, Settled
  <2>3. PoolInv' /\ CallInv'
    BY <1>3 DEF ExitPool, PoolInv, CallInv, inputVars
  <2> QED  BY <2>1, <2>2, <2>3
<1>4. ASSUME Attribute PROVE EInv'
  <2>1. TypeOK'
    BY <1>4 DEF Attribute, TypeOK, inputVars, Mains
  <2>2. AllProbesOk /\ joined = 3
    BY <1>4, OrderOfProbes DEF Attribute, MainInv, JoinedOk, Outcome, AllProbesOk
  <2>3. MainInv'
    BY <1>4, <2>2 DEF Attribute, MainInv, JoinedOk, Outcome, AllProbesOk, Settled
  <2>4. PoolInv' /\ CallInv'
    BY <1>4 DEF Attribute, PoolInv, CallInv, inputVars
  <2> QED  BY <2>1, <2>3, <2>4
<1> QED  BY <1>1, <1>2, <1>3, <1>4 DEF MainStep

LEMMA EngineInvariance == Spec => []EInv
<1>1. EInv /\ [Next]_vars => EInv'
  <2> SUFFICES ASSUME EInv, [Next]_vars PROVE EInv'
    OBVIOUS
  <2>1. {"enc", "ret", "gen"} \subseteq Probes /\ TypeOK
    BY DEF Probes, EInv
  <2>2. CASE UNCHANGED vars
    BY <2>2 DEF vars, inputVars, mainVars, EInv, TypeOK, MainInv, PoolInv, CallInv,
                JoinedOk, Outcome, AllProbesOk, Settled
  <2> QED  BY <2>1, <2>2, MainOK, StartOK, EncSteps, RetSteps, GenSteps, ProbeStepOK
           DEF Next
<1> QED  BY <1>1, InitOK, PTL DEF Spec

\* Whatever the settings and adapters, the evaluation keeps its shape.
THEOREM EngineTypeCorrect == Spec => []TypeOK
BY EngineInvariance, PTL DEF EInv

\* The with statement of evaluate and evaluate_with_adapters leaves no thread
\* behind that still uses the run context, even when a probe raises early.
THEOREM NoProbeOutlivesCallHolds == Spec => []NoProbeOutlivesCall
<1>1. EInv => NoProbeOutlivesCall
  BY DEF EInv, MainInv, NoProbeOutlivesCall, Over
<1> QED  BY <1>1, EngineInvariance, PTL

\* The caller's exception is the first in the order of the result() calls, not
\* in time: what is reported of a question does not depend on the schedule.
THEOREM ErrorIsFirstInOrderHolds == Spec => []ErrorIsFirstInOrder
<1>1. EInv => ErrorIsFirstInOrder
  BY OrderOfProbes DEF EInv, MainInv, JoinedOk, Outcome, AllProbesOk,
                       ErrorIsFirstInOrder, Over, TypeOK
<1> QED  BY <1>1, EngineInvariance, PTL

\* With strict_adapter_call no result is built on a call that raised.
THEOREM StrictSwallowsNothingHolds == Spec => []StrictSwallowsNothing
<1>1. EInv => StrictSwallowsNothing
  <2> SUFFICES ASSUME EInv, main = "returned"
               PROVE  raisedAt \subseteq IF cfg.strictCall THEN {} ELSE Tolerable
    BY DEF StrictSwallowsNothing, Tolerable
  <2>1. AllProbesOk
    BY OrderOfProbes DEF EInv, MainInv, JoinedOk, Outcome, AllProbesOk
  <2> QED  BY <2>1 DEF EInv, CallInv, AllProbesOk
<1> QED  BY <1>1, EngineInvariance, PTL

----------------------------------------------------------------------------
\* What the settled, decision and blamed of ThreeWayJoin stand for.
SettledBar == [p \in Probes |-> IF Settled(p) THEN status[p] ELSE "open"]

DecisionBar == IF Over THEN main ELSE "none"

BlamedBar == IF main = "raised" THEN error ELSE "nobody"

\* A step of a probe settles it or is not seen.
LEMMA ProbeStepJoins ==
    ASSUME EInv, NEW p \in Probes, ProbeStep(p)
    PROVE  [Join3!JoinNext]_(Join3!jvars)
<1>1. DecisionBar' = DecisionBar /\ BlamedBar' = BlamedBar
  BY DEF DecisionBar, BlamedBar, Over, ProbeStep, mainVars
<1>2. CASE UNCHANGED status
  <2>1. SettledBar' = SettledBar
    BY <1>2 DEF SettledBar, Settled
  <2> QED  BY <1>1, <2>1 DEF Join3!jvars, SettledBar, DecisionBar, BlamedBar
<1>3. ASSUME NEW s \in {"ok", "failed"}, status' = [status EXCEPT ![p] = s]
      PROVE  Join3!JoinNext
  <2>1. SettledBar[p] = "open" /\ SettledBar' = [SettledBar EXCEPT ![p] = s]
    BY <1>3 DEF SettledBar, Settled, ProbeStep, EInv, TypeOK
  <2>2. Join3!Settle(p)
    BY <1>1, <2>1 DEF Join3!Settle, SettledBar, DecisionBar, BlamedBar
  <2> QED  BY <2>2 DEF Join3!JoinNext, Join3!Probes, Probes
<1> QED  BY <1>2, <1>3 DEF ProbeStep

\* Of the caller's steps, leaving the pool with an exception and attribution
\* decide; the others are not seen.
LEMMA MainStepJoins ==
    ASSUME EInv, MainStep
    PROVE  [Join3!JoinNext]_(Join3!jvars)
<1>1. SettledBar' = SettledBar
  BY DEF SettledBar, Settled, MainStep, Submit, Join, ExitPool, Attribute
<1>2. ASSUME DecisionBar' = DecisionBar, BlamedBar' = BlamedBar
      PROVE  UNCHANGED Join3!jvars
  BY <1>1, <1>2 DEF Join3!jvars, SettledBar, DecisionBar, BlamedBar
<1>3. CASE Submit
  BY <1>2, <1>3 DEF Submit, DecisionBar, BlamedBar, Over
<1>4. CASE Join
  BY <1>2, <1>4 DEF Join, DecisionBar, BlamedBar, Over
<1>5. CASE ExitPool /\ error = "none"
  BY <1>2, <1>5 DEF ExitPool, DecisionBar, BlamedBar, Over
<1>6. CASE ExitPool /\ error # "none"
  <2>1. /\ DecisionBar = "none" /\ DecisionBar' = "raised"
        /\ BlamedBar' = error
        /\ \A p \in Probes : SettledBar[p] = status[p] /\ SettledBar[p] # "open"
    BY <1>6 DEF ExitPool, DecisionBar, BlamedBar, Over, SettledBar, Settled
  <2>2. /\ \E p \in Probes : SettledBar[p] = "failed"
        /\ error = IF SettledBar["enc"] = "failed" THEN "enc"
                   ELSE IF SettledBar["ret"] = "failed" THEN "ret" ELSE "gen"
    BY <1>6, <2>1, OrderOfProbes DEF ExitPool, EInv, MainInv, Outcome
  <2>3. Join3!Decide
    BY <1>1, <2>1, <2>2 DEF Join3!Decide, Join3!SomeFailed, Join3!FirstFailed,
                            Join3!Probes, Probes, SettledBar, DecisionBar, BlamedBar
  <2> QED  BY <2>3 DEF Join3!JoinNext
<1>7. CASE Attribute
  <2>1. AllProbesOk /\ error = "none"
    BY <1>7, OrderOfProbes DEF Attribute, EInv, MainInv, JoinedOk, Outcome, AllProbesOk
  <2>2. /\ DecisionBar = "none"
        /\ \/ DecisionBar' = "returned" /\ BlamedBar' = "nobody"
           \/ DecisionBar' = "raised" /\ BlamedBar' = "attribution"
        /\ \A p \in Probes : SettledBar[p] = "ok"
    BY <1>7, <2>1 DEF Attribute, DecisionBar, BlamedBar, Over, SettledBar, Settled,
                      AllProbesOk
  <2>3. Join3!Decide
    BY <1>1, <2>2 DEF Join3!Decide, Join3!SomeFailed, Join3!Probes, Probes,
                      SettledBar, DecisionBar, BlamedBar
  <2> QED  BY <2>3 DEF Join3!JoinNext
<1> QED  BY <1>3, <1>4, <1>5, <1>6, <1>7 DEF MainStep

\* Taking a probe from the queue is not seen.
LEMMA StartJoins == ASSUME EInv, Start PROVE UNCHANGED Join3!jvars
<1>1. started \in 0..2 /\ Order[started + 1] \in Probes
      /\ status[Order[started + 1]] = "waiting"
  BY OrderOfProbes DEF Start, EInv, TypeOK, PoolInv
<1>2. SettledBar' = SettledBar
  BY <1>1 DEF Start, SettledBar, Settled, EInv, TypeOK
<1>3. DecisionBar' = DecisionBar /\ BlamedBar' = BlamedBar
  BY DEF Start, mainVars, DecisionBar, BlamedBar, Over
<1> QED  BY <1>2, <1>3 DEF Join3!jvars, SettledBar, DecisionBar, BlamedBar

\* The thread pool, the futures and the adapter calls implement the join that
\* ThreeWayJoin promises: one decision, taken once all three probes have
\* settled, that names the first failure in submission order.
THEOREM EngineImplementsJoin == Spec => Join3!JoinSafety
<1>1. Init => Join3!JoinInit
  BY DEF Init, Join3!JoinInit, Join3!Probes, Probes, Settled, Over
<1>2. EInv /\ [Next]_vars => [Join3!JoinNext]_(Join3!jvars)
  <2> SUFFICES ASSUME EInv, [Next]_vars PROVE [Join3!JoinNext]_(Join3!jvars)
    OBVIOUS
  <2>1. {"enc", "ret", "gen"} \subseteq Probes /\ TypeOK
    BY DEF Probes, EInv
  <2>2. CASE UNCHANGED vars
    BY <2>2 DEF vars, inputVars, mainVars, Join3!jvars, Settled, Over
  <2> QED  BY <2>1, <2>2, MainStepJoins, StartJoins, ProbeStepJoins,
              EncSteps, RetSteps, GenSteps DEF Next
<1> QED  BY <1>1, <1>2, EngineInvariance, PTL DEF Spec, Join3!JoinSafety
=============================================================================
