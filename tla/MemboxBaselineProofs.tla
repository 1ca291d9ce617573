------------------------ MODULE MemboxBaselineProofs ------------------------
(***************************************************************************)
(* A baseline run keeps the accounts of an evaluation run, shows with each *)
(* answer the context it was ranked with, whatever others write meanwhile  *)
(* one after the other, and computes no vector again that the file held    *)
(* since rankings last overlapped or a write failed, for any set of        *)
(* questions, threads, texts and boxes.                                    *)
(***************************************************************************)
EXTENDS MemboxBaseline, FiniteSetTheorems, TLAPS

\* A file or a thread's store has all that another has.
Extends(f, g) == \A k \in DOMAIN g : k \in DOMAIN f /\ f[k] = g[k]

\* While nothing is disturbed at most one thread is between its load and the end of
\* its write; what it holds extends the file, and all vectors that were computed are
\* in its store, or in the file if there is no such thread.
OneAtATime ==
    ~disturbed =>
        /\ \A a, b \in Askers : Flushing(a) /\ Flushing(b) => a = b
        /\ \A a \in Askers : Flushing(a) => /\ Extends(store[a], vectors)
                                            /\ computed \subseteq DOMAIN store[a]
        /\ (\A a \in Askers : ~Flushing(a)) => computed \subseteq DOMAIN vectors
        /\ ~overlap

StoreTypes == /\ step \in [Askers -> {"idle", "flush", "write", "ranked", "failed"}]
              /\ DOMAIN store = Askers
              /\ disturbed \in BOOLEAN /\ overlap \in BOOLEAN

Overlapping == overlap => \E b \in Askers : step[b] = "write"

StoreInv == StoreTypes /\ Overlapping /\ OneAtATime /\ again = {}

\* A step on the store by a thread that ranks for a text.
StoreStep(a) ==
    \/ \E t \in Texts : Rank(a, t)
    \/ FlushStep(a) \/ Return(a) \/ Vanish(a)

LEMMA StoreInvInit == StoreInit => StoreInv
BY DEF StoreInit, StoreInv, StoreTypes, Overlapping, OneAtATime, Flushing

LEMMA StoreTypesKeep ==
    ASSUME StoreTypes, NEW a \in Askers, StoreStep(a)
    PROVE  StoreTypes'
<1>1. CASE \E t \in Texts : Rank(a, t)
  BY <1>1 DEF StoreTypes, Rank, Note
<1>2. CASE FlushStep(a)
  BY <1>2 DEF StoreTypes, FlushStep, Truncate, FinishWrite, WriteFails, Note
<1>3. CASE Return(a) \/ Vanish(a)
  BY <1>3 DEF StoreTypes, Return, Vanish, Note
<1> QED
  BY <1>1, <1>2, <1>3 DEF StoreStep

LEMMA OverlapStep ==
    ASSUME StoreTypes, Overlapping, NEW a \in Askers, StoreStep(a)
    PROVE  Overlapping'
<1>1. \A b \in Askers : b # a => step'[b] = step[b]
  BY DEF StoreStep, StoreTypes, Rank, FlushStep, Truncate, FinishWrite, WriteFails, Return, Vanish
<1>2. CASE Truncate(a)
  BY <1>2 DEF Truncate, StoreTypes, Overlapping
<1>3. CASE FinishWrite(a) \/ WriteFails(a) \/ Vanish(a)
  BY <1>1, <1>3 DEF FinishWrite, WriteFails, Vanish, StoreTypes, Overlapping
<1>4. CASE (\E t \in Texts : Rank(a, t)) \/ Return(a)
  <2>1. step[a] # "write" /\ overlap' = overlap
    BY <1>4 DEF Rank, Return
  <2> QED
    BY <1>1, <2>1 DEF Overlapping
<1> QED
  BY <1>2, <1>3, <1>4 DEF StoreStep, FlushStep

\* Whatever was disturbed: once it is over no thread is between its load and the end
\* of its write, and only what the file holds counts as computed.
LEMMA Disturbed ==
    ASSUME NEW upset, NEW keys, Note(upset, keys), disturbed \/ upset, Overlapping'
    PROVE  again' = {} /\ OneAtATime'
<1>1. again' = {}
  BY DEF Note
<1>2. CASE disturbed'
  BY <1>1, <1>2 DEF OneAtATime
<1>3. CASE ~disturbed'
  <2>1. \A b \in Askers : step'[b] \notin {"flush", "write"}
    BY <1>3 DEF Note
  <2>2. computed' = DOMAIN vectors'
    BY <1>3 DEF Note
  <2>3. ~overlap'
    BY <2>1 DEF Overlapping
  <2> QED
    BY <1>1, <2>1, <2>2, <2>3 DEF OneAtATime, Flushing
<1> QED
  BY <1>2, <1>3

\* As long as nothing is, what is computed for the first time adds up.
LEMMA Undisturbed ==
    ASSUME NEW upset, NEW keys, Note(upset, keys), ~(disturbed \/ upset), again = {},
           computed \cap keys = {}
    PROVE  ~disturbed' /\ again' = {} /\ computed' = computed \cup keys
BY DEF Note

LEMMA RankKeeps ==
    ASSUME StoreInv, NEW a \in Askers, NEW t \in Texts, Rank(a, t)
    PROVE  StoreInv'
<1> DEFINE upset == Missing(t) # {} /\ \E b \in Askers : Flushing(b)
<1>1. StoreTypes' /\ Overlapping'
  BY StoreTypesKeep, OverlapStep DEF StoreInv, StoreStep
<1>n. Note(upset, Missing(t))
  BY DEF Rank
<1>2. again' = {} /\ OneAtATime'
  <2>1. CASE disturbed \/ upset
    <3> HIDE DEF upset
    <3> QED
      BY <1>1, <1>n, <2>1, Disturbed
  <2>2. CASE ~(disturbed \/ upset) /\ Missing(t) = {}
    <3>1. ~disturbed' /\ computed' = computed /\ again' = {}
      <4> HIDE DEF upset
      <4> QED
        BY <1>n, <2>2, Undisturbed DEF StoreInv
    <3>2. /\ vectors' = vectors /\ overlap' = overlap
          /\ step' = [step EXCEPT ![a] = "ranked"]
          /\ \A b \in Askers : b # a => store'[b] = store[b]
      BY <2>2 DEF StoreInv, StoreTypes, Rank
    <3>3. \A b \in Askers : Flushing(b)' <=> Flushing(b)
      BY <3>2 DEF StoreInv, StoreTypes, Rank, Flushing
    <3>4. ~Flushing(a)
      BY DEF Rank, Flushing
    <3> QED
      BY <2>2, <3>1, <3>2, <3>3, <3>4 DEF StoreInv, OneAtATime, Extends
  <2>3. CASE ~(disturbed \/ upset) /\ Missing(t) # {}
    <3>1. ~disturbed /\ \A b \in Askers : ~Flushing(b)
      BY <2>3
    <3>2. computed \subseteq DOMAIN vectors /\ ~overlap
      BY <3>1 DEF StoreInv, OneAtATime
    <3>3. ~disturbed' /\ again' = {} /\ computed' = computed \cup Missing(t)
      <4>1. computed \cap Missing(t) = {}
        BY <3>2 DEF Missing
      <4> HIDE DEF upset
      <4> QED
        BY <1>n, <2>3, <4>1, Undisturbed DEF StoreInv
    <3>4. DOMAIN store'[a] = DOMAIN vectors \cup DOMAIN Wanted(t)
      BY DEF Rank, Filled, StoreInv, StoreTypes
    <3>5. Extends(store'[a], vectors')
      BY DEF Rank, Filled, StoreInv, StoreTypes, Extends
    <3>6. \A b \in Askers : Flushing(b)' <=> b = a
      BY <2>3, <3>1 DEF StoreInv, StoreTypes, Rank, Flushing
    <3>7. computed' \subseteq DOMAIN store'[a]
      BY <3>2, <3>3, <3>4 DEF Missing
    <3>8. ~overlap'
      BY <3>2 DEF Rank
    <3> QED
      BY <3>3, <3>5, <3>6, <3>7, <3>8 DEF OneAtATime, Extends
  <2> QED
    BY <2>1, <2>2, <2>3
<1> QED
  BY <1>1, <1>2 DEF StoreInv

LEMMA FlushKeeps ==
    ASSUME StoreInv, NEW a \in Askers, FlushStep(a)
    PROVE  StoreInv'
<1>0. StoreTypes' /\ Overlapping'
  BY StoreTypesKeep, OverlapStep DEF StoreInv, StoreStep
<1>1. CASE WriteFails(a)
  <2>1. Note(TRUE, {})
    BY <1>1 DEF WriteFails
  <2> QED
    BY <1>0, <2>1, Disturbed DEF StoreInv
<1>2. CASE Truncate(a)
  <2>1. again' = {}
    BY <1>2 DEF StoreInv, Truncate
  <2>2. ASSUME ~disturbed'
        PROVE  OneAtATime'
    <3>1. /\ ~disturbed /\ computed' = computed /\ store' = store /\ Flushing(a)
          /\ vectors' = Nothing
      BY <1>2, <2>2 DEF Truncate, Flushing
    <3>2. \A b \in Askers : Flushing(b)' <=> Flushing(b)
      BY <1>2 DEF StoreInv, StoreTypes, Truncate, Flushing
    <3>3. ~overlap'
      BY <1>2, <3>1 DEF StoreInv, OneAtATime, Truncate, Flushing
    <3>4. \A b \in Askers : Extends(store[b], vectors')
      BY <3>1 DEF Extends, Nothing
    <3> QED
      BY <3>1, <3>2, <3>3, <3>4 DEF StoreInv, OneAtATime, Extends
  <2> QED
    BY <1>0, <2>1, <2>2 DEF StoreInv, OneAtATime
<1>3. CASE FinishWrite(a)
  <2>n. Note(FALSE, {})
    BY <1>3 DEF FinishWrite
  <2>1. CASE disturbed
    BY <1>0, <2>n, <2>1, Disturbed DEF StoreInv
  <2>2. CASE ~disturbed
    <3>1. ~disturbed' /\ again' = {} /\ computed' = computed
      BY <2>n, <2>2, Undisturbed DEF StoreInv
    <3>2. store' = store /\ Flushing(a)
      BY <1>3 DEF FinishWrite, Flushing
    <3>3. ~overlap /\ vectors' = store[a] /\ ~overlap'
      BY <1>3, <2>2 DEF StoreInv, OneAtATime, FinishWrite
    <3>4. \A b \in Askers : Flushing(b) => b = a
      BY <2>2, <3>2 DEF StoreInv, OneAtATime
    <3>5. \A b \in Askers : ~Flushing(b)'
      BY <1>3, <3>4 DEF StoreInv, StoreTypes, FinishWrite, Flushing
    <3>6. computed' \subseteq DOMAIN vectors'
      BY <2>2, <3>1, <3>2, <3>3 DEF StoreInv, OneAtATime
    <3> QED
      BY <1>0, <3>1, <3>3, <3>5, <3>6 DEF StoreInv, OneAtATime
  <2> QED
    BY <2>1, <2>2
<1> QED
  BY <1>1, <1>2, <1>3 DEF FlushStep

LEMMA ReturnKeeps ==
    ASSUME StoreInv, NEW a \in Askers, Return(a)
    PROVE  StoreInv'
<1>0. StoreTypes' /\ Overlapping'
  BY StoreTypesKeep, OverlapStep DEF StoreInv, StoreStep
<1>n. Note(FALSE, {})
  BY DEF Return
<1>1. CASE disturbed
  BY <1>0, <1>n, <1>1, Disturbed DEF StoreInv
<1>2. CASE ~disturbed
  <2>1. ~disturbed' /\ again' = {} /\ computed' = computed
    BY <1>n, <1>2, Undisturbed DEF StoreInv
  <2>2. ~Flushing(a) /\ vectors' = vectors /\ overlap' = overlap
    BY DEF Return, Flushing
  <2>3. \A b \in Askers : Flushing(b)' <=> Flushing(b)
    BY DEF StoreInv, StoreTypes, Return, Flushing
  <2>4. \A b \in Askers : b # a => store'[b] = store[b]
    BY DEF StoreInv, StoreTypes, Return
  <2> QED
    BY <1>0, <1>2, <2>1, <2>2, <2>3, <2>4 DEF StoreInv, OneAtATime, Extends
<1> QED
  BY <1>1, <1>2

LEMMA VanishKeeps ==
    ASSUME StoreInv, NEW a \in Askers, Vanish(a)
    PROVE  StoreInv'
<1>0. StoreTypes' /\ Overlapping'
  BY StoreTypesKeep, OverlapStep DEF StoreInv, StoreStep
<1>n. Note(Flushing(a), {})
  BY DEF Vanish
<1>1. CASE disturbed \/ Flushing(a)
  BY <1>0, <1>n, <1>1, Disturbed DEF StoreInv
<1>2. CASE ~(disturbed \/ Flushing(a))
  <2>1. ~disturbed' /\ again' = {} /\ computed' = computed
    BY <1>n, <1>2, Undisturbed DEF StoreInv
  <2>2. vectors' = vectors /\ ~overlap'
    BY <1>2 DEF StoreInv, OneAtATime, Vanish, Flushing
  <2>3. \A b \in Askers : Flushing(b)' <=> Flushing(b)
    BY <1>2 DEF StoreInv, StoreTypes, Vanish, Flushing
  <2>4. \A b \in Askers : b # a => store'[b] = store[b]
    BY DEF StoreInv, StoreTypes, Vanish
  <2> QED
    BY <1>0, <1>2, <2>1, <2>2, <2>3, <2>4 DEF StoreInv, OneAtATime, Extends
<1> QED
  BY <1>1, <1>2

(* ------------------- The run as an evaluation run ----------------------- *)

\* What is proved of an evaluation run, of the run as Pipeline sees it.
Evaluation == INSTANCE EvalPipelineProofs WITH
                 pc <- IF pc \in {"answer", "show", "judge"} THEN "evaluate" ELSE pc

\* The two see the same run.
LEMMA EvaluationIsPipeline ==
    /\ Evaluation!Init = Pipeline!Init
    /\ Evaluation!Next = Pipeline!Next
    /\ Evaluation!vars = Pipeline!vars
<1>1. Evaluation!Init = Pipeline!Init
  BY DEF Evaluation!Init, Pipeline!Init, Evaluation!Questions, Pipeline!Questions,
         Evaluation!NextUp, Pipeline!NextUp, Evaluation!NoBuilds, Pipeline!NoBuilds,
         Evaluation!NoEntries, Pipeline!NoEntries, Evaluation!Files, Pipeline!Files
<1>2. /\ Evaluation!BuildContext = Pipeline!BuildContext
      /\ Evaluation!ReuseContext = Pipeline!ReuseContext
      /\ Evaluation!AnnounceStart = Pipeline!AnnounceStart
      /\ Evaluation!Evaluate = Pipeline!Evaluate
  BY DEF Evaluation!BuildContext, Pipeline!BuildContext, Evaluation!ReuseContext,
         Pipeline!ReuseContext, Evaluation!AnnounceStart, Pipeline!AnnounceStart,
         Evaluation!Evaluate, Pipeline!Evaluate, Evaluation!Raises, Pipeline!Raises,
         Evaluation!memoryVars, Pipeline!memoryVars
<1>3. /\ Evaluation!WriteRecord = Pipeline!WriteRecord
      /\ Evaluation!EnterIndex = Pipeline!EnterIndex
      /\ Evaluation!RecordError = Pipeline!RecordError
      /\ Evaluation!WriteErrorRecord = Pipeline!WriteErrorRecord
      /\ Evaluation!EnterErrorIndex = Pipeline!EnterErrorIndex
  BY DEF Evaluation!WriteRecord, Pipeline!WriteRecord, Evaluation!EnterIndex,
         Pipeline!EnterIndex, Evaluation!RecordError, Pipeline!RecordError,
         Evaluation!WriteErrorRecord, Pipeline!WriteErrorRecord,
         Evaluation!EnterErrorIndex, Pipeline!EnterErrorIndex,
         Evaluation!Raises, Pipeline!Raises, Evaluation!Written, Pipeline!Written,
         Evaluation!Torn, Pipeline!Torn, Evaluation!NextUp, Pipeline!NextUp,
         Evaluation!memoryVars, Pipeline!memoryVars
<1>4. /\ Evaluation!WriteReport("summary", "index") = Pipeline!WriteReport("summary", "index")
      /\ Evaluation!WriteReport("index", "bundle") = Pipeline!WriteReport("index", "bundle")
      /\ Evaluation!WriteReport("bundle", "done") = Pipeline!WriteReport("bundle", "done")
  BY DEF Evaluation!WriteReport, Pipeline!WriteReport, Evaluation!Raises, Pipeline!Raises,
         Evaluation!memoryVars, Pipeline!memoryVars
<1>5. Evaluation!Kill = Pipeline!Kill /\ Evaluation!Rerun = Pipeline!Rerun
  BY DEF Evaluation!Kill, Pipeline!Kill, Evaluation!Over, Pipeline!Over,
         Evaluation!Torn, Pipeline!Torn, Evaluation!Written, Pipeline!Written,
         Evaluation!Rerun, Pipeline!Rerun, Evaluation!NextUp, Pipeline!NextUp,
         Evaluation!NoBuilds, Pipeline!NoBuilds, Evaluation!NoEntries, Pipeline!NoEntries,
         Evaluation!Questions, Pipeline!Questions, Evaluation!memoryVars, Pipeline!memoryVars
<1>6. Evaluation!Next = Pipeline!Next
  BY <1>2, <1>3, <1>4, <1>5
     DEF Evaluation!Next, Pipeline!Next, Evaluation!RunStep, Pipeline!RunStep
<1>7. Evaluation!vars = Pipeline!vars
  BY DEF Evaluation!vars, Pipeline!vars, Evaluation!memoryVars, Pipeline!memoryVars
<1> QED
  BY <1>1, <1>6, <1>7

LEMMA EvaluationInit == BaselineInit => Evaluation!Init
BY DEF BaselineInit, Init, NextUp, NoBuilds, NoEntries, Files, Questions, Evaluation!Init,
       Evaluation!NextUp, Evaluation!NoBuilds, Evaluation!NoEntries, Evaluation!Files,
       Evaluation!Questions

\* An answer that is written or a ranking that goes on is not seen; what a call
\* raises, and what is judged, is what comes of the evaluation.
LEMMA EvaluationStep ==
    ASSUME Evaluation!IInv, BaselineNext
    PROVE  Evaluation!Next \/ UNCHANGED Evaluation!vars
<1>1. CASE Context
  <2>1. BuildContext => Evaluation!BuildContext
    BY DEF BuildContext, Evaluation!BuildContext, Raises, Evaluation!Raises
  <2>2. ReuseContext => Evaluation!ReuseContext
    BY DEF ReuseContext, Evaluation!ReuseContext, memoryVars, Evaluation!memoryVars
  <2> QED
    BY <1>1, <2>1, <2>2 DEF Context, Evaluation!Next, Evaluation!RunStep
<1>k. Kill => Evaluation!Kill
  <2>1. DOMAIN report = {"summary", "index", "bundle"}
    BY DEF Evaluation!IInv, Evaluation!TypeOK
  <2> QED
    BY <2>1 DEF Kill, Evaluation!Kill, Over, Evaluation!Over, Torn, Evaluation!Torn,
                Written, Evaluation!Written, memoryVars, Evaluation!memoryVars
<1>2. CASE StartQuestion
  <2>1. CASE pc' = "answer" /\ UNCHANGED <<i, memoryVars, run, record, report>>
    <3>1. Evaluation!AnnounceStart
      BY <1>2, <2>1 DEF StartQuestion, Evaluation!AnnounceStart, memoryVars, Evaluation!memoryVars
    <3> QED
      BY <3>1 DEF Evaluation!Next, Evaluation!RunStep
  <2>2. CASE Kill
    BY <1>k, <2>2 DEF Evaluation!Next
  <2> QED
    BY <1>2, <2>1, <2>2 DEF StartQuestion
<1>3. CASE RankForAnswer \/ CallerFlush \/ RankForContext \/ ProbeStep
  BY <1>3 DEF RankForAnswer, CallerFlush, RankForContext, ProbeStep, pipelineVars, vars,
              memoryVars, Evaluation!vars, Evaluation!memoryVars
<1>4. CASE AnswerOnline
  <2>1. CASE pc' = "show"
    BY <1>4, <2>1 DEF AnswerOnline, memoryVars, Evaluation!vars, Evaluation!memoryVars
  <2>2. CASE pc' = "except"
    <3>1. Evaluation!Evaluate
      BY <1>4, <2>2, BaselineAssumption
         DEF AnswerOnline, memoryVars, Evaluation!Evaluate, Evaluation!Raises
    <3> QED
      BY <3>1 DEF Evaluation!Next, Evaluation!RunStep
  <2> QED
    BY <1>4, <2>1, <2>2 DEF AnswerOnline
<1>5. CASE ShowContext
  BY <1>5 DEF ShowContext, memoryVars, Evaluation!vars, Evaluation!memoryVars
<1>6. CASE JudgeAnswer
  <2>1. Evaluation!Evaluate
    BY <1>6 DEF JudgeAnswer, Raises, Evaluation!Evaluate, Evaluation!Raises
  <2> QED
    BY <2>1 DEF Evaluation!Next, Evaluation!RunStep
<1>7. CASE Account
  <2>1. WriteRecord => Evaluation!WriteRecord
    BY DEF WriteRecord, Evaluation!WriteRecord, Raises, Evaluation!Raises, Written,
           Evaluation!Written, Torn, Evaluation!Torn
  <2>2. EnterIndex => Evaluation!EnterIndex
    BY DEF EnterIndex, Evaluation!EnterIndex, Raises, Evaluation!Raises, NextUp, Evaluation!NextUp
  <2>3. RecordError => Evaluation!RecordError
    BY DEF RecordError, Evaluation!RecordError
  <2>4. WriteErrorRecord => Evaluation!WriteErrorRecord
    BY DEF WriteErrorRecord, Evaluation!WriteErrorRecord, Raises, Evaluation!Raises, Written,
           Evaluation!Written, Torn, Evaluation!Torn, memoryVars, Evaluation!memoryVars
  <2>5. EnterErrorIndex => Evaluation!EnterErrorIndex
    BY DEF EnterErrorIndex, Evaluation!EnterErrorIndex, Raises, Evaluation!Raises,
           NextUp, Evaluation!NextUp
  <2> QED
    BY <1>7, <2>1, <2>2, <2>3, <2>4, <2>5 DEF Account, Evaluation!Next, Evaluation!RunStep
<1>8. CASE WriteReports
  <2>1. /\ WriteReport("summary", "index") => Evaluation!WriteReport("summary", "index")
        /\ WriteReport("index", "bundle") => Evaluation!WriteReport("index", "bundle")
        /\ WriteReport("bundle", "done") => Evaluation!WriteReport("bundle", "done")
    BY DEF WriteReport, Evaluation!WriteReport, Raises, Evaluation!Raises,
           memoryVars, Evaluation!memoryVars
  <2> QED
    BY <1>8, <2>1 DEF WriteReports, Evaluation!Next, Evaluation!RunStep
<1>9. CASE KillBaseline
  BY <1>k, <1>9 DEF KillBaseline, Evaluation!Next
<1> QED
  BY <1>1, <1>2, <1>3, <1>4, <1>5, <1>6, <1>7, <1>8, <1>9 DEF BaselineNext, BaselineStep

LEMMA EvaluationInvariance == BaselineSpec => []Evaluation!IInv
<1>0. FaultKinds = Evaluation!FaultKinds
  BY DEF FaultKinds, Evaluation!FaultKinds
<1>1. BaselineInit => Evaluation!IInv
  BY <1>0, EvaluationInit, Evaluation!InitOK, PipelineAssumption
<1>2. Evaluation!IInv /\ [Evaluation!Next]_(Evaluation!vars) => Evaluation!IInv'
  BY <1>0, Evaluation!StepOK, PipelineAssumption
<1>3. UNCHANGED allVars => UNCHANGED Evaluation!vars
  BY DEF allVars, vars, memoryVars, Evaluation!vars, Evaluation!memoryVars
<1>4. Evaluation!IInv /\ [BaselineNext]_allVars => Evaluation!IInv'
  BY <1>2, <1>3, EvaluationStep
<1> QED
  BY <1>1, <1>4, PTL DEF BaselineSpec

\* The baseline keeps the accounts of an evaluation run.
THEOREM BaselineImplementsPipeline == BaselineSpec => ImplementsPipeline
<1>1. BaselineInit => Pipeline!Init
  BY EvaluationInit, EvaluationIsPipeline
<1>2. UNCHANGED allVars => UNCHANGED Pipeline!vars
  BY DEF allVars, vars, memoryVars, Pipeline!vars, Pipeline!memoryVars
<1>3. UNCHANGED Evaluation!vars => UNCHANGED Pipeline!vars
  BY DEF Evaluation!vars, Evaluation!memoryVars, Pipeline!vars, Pipeline!memoryVars
<1>4. Evaluation!IInv /\ BaselineNext => Pipeline!Next \/ UNCHANGED Pipeline!vars
  BY <1>3, EvaluationStep, EvaluationIsPipeline, Zenon
<1>5. Evaluation!IInv /\ [BaselineNext]_allVars => [Pipeline!Next]_(Pipeline!vars)
  BY <1>2, <1>4
<1> QED
  BY <1>1, <1>5, EvaluationInvariance, PTL DEF BaselineSpec, ImplementsPipeline

\* So the baseline keeps the promise of a ledger too, as run_baseline writes it: accounts
\* in order, only the latest revised, and a bundle only when all are there.
THEOREM BaselineImplementsLedger == BaselineSpec => Evaluation!ImplementsLedger
<1>0. FaultKinds = Evaluation!FaultKinds
  BY DEF FaultKinds, Evaluation!FaultKinds
<1>1. BaselineInit => Evaluation!Init
  BY EvaluationInit
<1>2. UNCHANGED allVars => UNCHANGED Evaluation!vars
  BY DEF allVars, vars, memoryVars, Evaluation!vars, Evaluation!memoryVars
<1>3. Evaluation!IInv /\ [BaselineNext]_allVars => [Evaluation!Next]_(Evaluation!vars)
  BY <1>2, EvaluationStep
<1>4. BaselineSpec => Evaluation!Init /\ [][Evaluation!Next]_(Evaluation!vars)
  BY <1>1, <1>3, EvaluationInvariance, PTL DEF BaselineSpec
<1>5. Evaluation!Init /\ [][Evaluation!Next]_(Evaluation!vars) => Evaluation!ImplementsLedger
  BY <1>0, Evaluation!StepsKeepLedger, PipelineAssumption
<1> QED
  BY <1>4, <1>5

(* ------------------------ Types and accounts ---------------------------- *)

\* What is known of a run from its being an evaluation run.
LEMMA RunFacts ==
    ASSUME Evaluation!IInv
    PROVE  /\ pc \in Steps \cup {"answer", "show", "judge"}
           /\ i \in 1..N+1
           /\ pc \in {"answer", "show", "judge"} => i \in Questions /\ Text \in Texts
           /\ pc \in {"judge", "except"} => i \in Questions
           /\ pc = "judge" => i \notin errors
           /\ pc = "except" => (i \in results <=> i \in late)
           /\ results \subseteq Questions /\ errors \subseteq Questions
           /\ late \subseteq Questions
           /\ index \in [Questions -> Entries]
           /\ pc = "done" => i = N + 1
<1>1. Evaluation!TypeOK /\ Evaluation!Places /\ Evaluation!Current
  BY DEF Evaluation!IInv
<1>2. /\ pc \in Steps \cup {"answer", "show", "judge"} /\ i \in 1..N+1
      /\ results \subseteq Questions /\ errors \subseteq Questions /\ late \subseteq Questions
      /\ index \in [Questions -> Entries]
  BY <1>1 DEF Evaluation!TypeOK, Evaluation!Steps, Steps, Evaluation!Questions, Questions,
              Evaluation!Entries, Entries
<1>3. /\ pc \in {"answer", "show", "judge", "except"} => i \in Questions
      /\ pc = "done" => i = N + 1
  BY <1>1 DEF Evaluation!Places, Evaluation!InLoop, Evaluation!Reporting,
              Evaluation!Questions, Questions
<1>4. /\ pc = "judge" => i \notin errors
      /\ pc = "except" => (i \in results <=> i \in late)
  BY <1>1 DEF Evaluation!Current, Evaluation!Untouched
<1>5. i \in Questions => Text \in Texts
  BY BaselineAssumption DEF Questions, Text
<1> QED
  BY <1>2, <1>3, <1>4, <1>5

\* The Caller ranks for the text of the question, the probes for any text.
LEMMA BaselineStoreSteps ==
    ASSUME BaselineNext, Evaluation!IInv
    PROVE  (\E a \in Askers : StoreStep(a)) \/ UNCHANGED storeVars
<1>1. Caller \in Askers
  BY BaselineAssumption
<1>2. CASE Context \/ StartQuestion \/ JudgeAnswer \/ Account \/ WriteReports
  BY <1>2 DEF Context, StartQuestion, JudgeAnswer, Account, WriteReports
<1>3. CASE RankForAnswer \/ RankForContext
  BY <1>1, <1>3, RunFacts DEF RankForAnswer, RankForContext, StoreStep
<1>4. CASE CallerFlush \/ AnswerOnline \/ ShowContext \/ KillBaseline
  BY <1>1, <1>4 DEF CallerFlush, AnswerOnline, ShowContext, KillBaseline, StoreStep
<1>5. CASE ProbeStep
  BY <1>5 DEF ProbeStep, StoreStep
<1> QED
  BY <1>2, <1>3, <1>4, <1>5 DEF BaselineNext, BaselineStep

StoreKeys == Range(KeyOf) \cup Boxes

Vectors == Texts \cup Boxes \cup {Zeros}

\* What a store file, or a thread, may hold.
Stores == UNION {[keys -> Vectors] : keys \in SUBSET StoreKeys}

Types == /\ vectors \in Stores
         /\ store \in [Askers -> Stores]
         /\ step \in [Askers -> {"idle", "flush", "write", "ranked", "failed"}]
         /\ asked \in [Askers -> Texts \cup {NoText}]
         /\ again \subseteq computed /\ computed \subseteq StoreKeys
         /\ overlap \in BOOLEAN /\ disturbed \in BOOLEAN

LEMMA StoresAre ==
    ASSUME NEW f \in Stores
    PROVE  /\ DOMAIN f \subseteq StoreKeys /\ Range(f) \subseteq Vectors
           /\ \A k \in DOMAIN f : f[k] \in Vectors
<1>1. PICK keys \in SUBSET StoreKeys : f \in [keys -> Vectors]
  BY DEF Stores
<1> QED
  BY <1>1 DEF Range

LEMMA TypesSuffice == Types => StoreTypeOK
<1>1. ASSUME Types
      PROVE  /\ DOMAIN vectors \subseteq Range(KeyOf) \cup Boxes
             /\ Range(vectors) \subseteq Texts \cup Boxes \cup {Zeros}
             /\ \A a \in Askers : /\ DOMAIN store[a] \subseteq Range(KeyOf) \cup Boxes
                                  /\ Range(store[a]) \subseteq Texts \cup Boxes \cup {Zeros}
  BY <1>1, StoresAre DEF Types, StoreKeys, Vectors
<1> QED
  BY <1>1 DEF Types, StoreTypeOK, StoreKeys

LEMMA WantedTypes ==
    ASSUME NEW t \in Texts
    PROVE  /\ DOMAIN Wanted(t) \subseteq StoreKeys
           /\ \A k \in DOMAIN Wanted(t) : Wanted(t)[k] \in Vectors
<1>1. KeyOf[t] \in Range(KeyOf)
  BY StoreAssumption DEF Range
<1> QED
  BY <1>1 DEF Wanted, StoreKeys, Vectors

LEMMA FilledTypes ==
    ASSUME NEW t \in Texts, NEW failed, vectors \in Stores
    PROVE  Filled(t, failed) \in Stores
<1> DEFINE keys == DOMAIN vectors \cup DOMAIN Wanted(t)
<1>1. keys \in SUBSET StoreKeys
  BY WantedTypes, StoresAre
<1>2. \A k \in keys : (IF k \in DOMAIN vectors THEN vectors[k]
                       ELSE IF k \in failed THEN Zeros ELSE Wanted(t)[k]) \in Vectors
  <2>1. Zeros \in Vectors
    BY DEF Vectors
  <2> QED
    BY <2>1, WantedTypes, StoresAre
<1>3. Filled(t, failed) \in [keys -> Vectors]
  BY <1>2 DEF Filled
<1> QED
  BY <1>1, <1>3 DEF Stores

LEMMA NothingTypes == Nothing \in Stores
<1>1. Nothing \in [{} -> Vectors]
  BY DEF Nothing
<1> QED
  BY <1>1 DEF Stores

LEMMA NoteTypes ==
    ASSUME Types, NEW upset \in BOOLEAN, NEW keys \in SUBSET StoreKeys, Note(upset, keys),
           vectors' \in Stores
    PROVE  /\ again' \subseteq computed' /\ computed' \subseteq StoreKeys
           /\ disturbed' \in BOOLEAN
<1>1. DOMAIN vectors' \subseteq StoreKeys
  BY StoresAre
<1>2. again \subseteq computed /\ computed \subseteq StoreKeys /\ disturbed \in BOOLEAN
  BY DEF Types
<1> QED
  BY <1>1, <1>2 DEF Note

LEMMA StoreStepTypes ==
    ASSUME Types, NEW a \in Askers, StoreStep(a)
    PROVE  Types'
<1>2. ASSUME NEW t \in Texts, Rank(a, t)
      PROVE  Types'
  <2>1. Missing(t) \subseteq StoreKeys
    BY WantedTypes DEF Missing
  <2>2. store' \in [Askers -> Stores] /\ UNCHANGED <<vectors, overlap>>
    BY <1>2, FilledTypes DEF Rank, Types
  <2>3. /\ again' \subseteq computed' /\ computed' \subseteq StoreKeys
        /\ disturbed' \in BOOLEAN
    <3> DEFINE upset == Missing(t) # {} /\ \E b \in Askers : Flushing(b)
    <3>1. Note(upset, Missing(t)) /\ upset \in BOOLEAN /\ vectors' \in Stores
      BY <1>2, <2>2 DEF Rank, Types
    <3> HIDE DEF upset
    <3> QED
      BY <2>1, <3>1, NoteTypes
  <2>4. /\ step' \in [Askers -> {"idle", "flush", "write", "ranked", "failed"}]
        /\ asked' \in [Askers -> Texts \cup {NoText}]
    BY <1>2 DEF Rank, Types
  <2> QED
    BY <2>2, <2>3, <2>4 DEF Types
<1>3. CASE FlushStep(a)
  <2>1. /\ vectors' \in {Nothing, store[a], vectors}
        /\ UNCHANGED <<store, asked>>
    BY <1>3 DEF FlushStep, Truncate, FinishWrite, WriteFails
  <2>2. vectors' \in Stores
    BY <2>1, NothingTypes DEF Types
  <2>3. /\ again' \subseteq computed' /\ computed' \subseteq StoreKeys
        /\ disturbed' \in BOOLEAN
    <3>1. CASE Truncate(a)
      BY <3>1 DEF Truncate, Types
    <3>2. CASE FinishWrite(a)
      BY <2>2, <3>2, NoteTypes DEF FinishWrite
    <3>3. CASE WriteFails(a)
      BY <2>2, <3>3, NoteTypes DEF WriteFails
    <3> QED
      BY <1>3, <3>1, <3>2, <3>3 DEF FlushStep
  <2>4. /\ step' \in [Askers -> {"idle", "flush", "write", "ranked", "failed"}]
        /\ overlap' \in BOOLEAN
    BY <1>3 DEF FlushStep, Truncate, FinishWrite, WriteFails, Types
  <2> QED
    BY <2>1, <2>2, <2>3, <2>4 DEF Types
<1>4. CASE Return(a) \/ Vanish(a)
  <2>1. vectors' \in Stores /\ store' \in [Askers -> Stores]
    BY <1>4, NothingTypes DEF Return, Vanish, Types
  <2>2. /\ again' \subseteq computed' /\ computed' \subseteq StoreKeys
        /\ disturbed' \in BOOLEAN
    <3>1. PICK upset \in BOOLEAN : Note(upset, {})
      <4>1. Flushing(a) \in BOOLEAN
        BY DEF Flushing
      <4>2. CASE Return(a)
        BY <4>2 DEF Return
      <4>3. CASE Vanish(a)
        BY <4>1, <4>3 DEF Vanish
      <4> QED
        BY <1>4, <4>2, <4>3
    <3> QED
      BY <2>1, <3>1, NoteTypes
  <2>3. /\ step' \in [Askers -> {"idle", "flush", "write", "ranked", "failed"}]
        /\ asked' \in [Askers -> Texts \cup {NoText}]
        /\ overlap' \in BOOLEAN
    BY <1>4 DEF Return, Vanish, Types
  <2> QED
    BY <2>1, <2>2, <2>3 DEF Types
<1> QED
  BY <1>2, <1>3, <1>4 DEF StoreStep

(* ------------------------ Answers and contexts --------------------------- *)

\* Where the Caller ranks and for what, and what it then holds; when there is an
\* answer, and when there may be a context.
Answering ==
    /\ step[Caller] # "idle" => pc \in {"answer", "show"} /\ asked[Caller] = Text
    /\ step[Caller] \in {"flush", "write", "ranked"}
          => DOMAIN Wanted(Text) \subseteq DOMAIN store[Caller]
    /\ pc \in {"show", "judge"} => answered \in [DOMAIN Wanted(Text) -> Vectors]
    /\ pc \notin {"judge", "killed"} => shown = None

Agree(f, g) == \A k \in DOMAIN Wanted(Text) : f[k] = g[k]

\* All that is wanted is there as it is in v.
Has(f, v) == DOMAIN Wanted(Text) \subseteq DOMAIN f /\ Agree(f, v)

\* The file has the vectors of v whenever it is whole: it has them now, unless it is
\* being written, and while nothing is disturbed whoever is about to write has them.
Kept(v) ==
    /\ Undisrupted => Has(vectors, v)
    /\ ~disturbed => \A b \in Askers : Flushing(b) => Has(store[b], v)

\* While an answer is quiet its vectors are kept from when it has been ranked, so
\* that the ranking for the context finds them, all of them. Until then, only the
\* Caller is writing.
Agreeing ==
    quiet =>
        /\ pc = "answer" /\ step[Caller] \in {"flush", "write"} =>
              /\ \A b \in Askers : step[b] = "write" => b = Caller
              /\ ~overlap
        /\ pc = "answer" /\ step[Caller] = "ranked" => Kept(store[Caller])
        /\ pc = "show" => Kept(answered)
        /\ pc = "show" /\ step[Caller] # "idle" =>
              step[Caller] = "ranked" /\ Agree(store[Caller], answered)
        /\ pc = "judge" /\ shown # None => shown = answered

\* The accounts of questions the loop has not passed.
Listed == /\ blind \subseteq Questions
          /\ \A q \in Questions : q \in errors /\ q \in results => q \in late

BaselineInv == StoreInv /\ Types /\ Answering /\ Agreeing /\ Listed

\* A thread's own steps leave what others are at and hold.
LEMMA OneThread ==
    ASSUME Types, NEW a \in Askers, StoreStep(a)
    PROVE  \A b \in Askers : b # a => /\ step'[b] = step[b] /\ store'[b] = store[b]
                                      /\ asked'[b] = asked[b]
BY DEF StoreStep, Types, Rank, FlushStep, Truncate, FinishWrite, WriteFails, Return, Vanish

\* What a ranking holds: what the file has, and everything that is wanted.
LEMMA RankHolds ==
    ASSUME Types, NEW a \in Askers, NEW t \in Texts, Rank(a, t)
    PROVE  /\ step[a] = "idle" /\ step'[a] = (IF Missing(t) = {} THEN "ranked" ELSE "flush")
           /\ asked'[a] = t /\ vectors' = vectors /\ overlap' = overlap
           /\ DOMAIN Wanted(t) \subseteq DOMAIN store'[a]
           /\ \A k \in DOMAIN vectors : store'[a][k] = vectors[k]
           /\ Missing(t) = {} <=> DOMAIN Wanted(t) \subseteq DOMAIN vectors
BY DEF Types, Rank, Filled, Missing

\* Steps of the loop in which nothing is ranked or shown.
LEMMA OtherSteps ==
    ASSUME Context \/ StartQuestion \/ Account \/ WriteReports
    PROVE  /\ pc \notin {"answer", "show", "judge", "killed"} /\ pc' \notin {"show", "judge"}
           /\ UNCHANGED <<storeVars, baselineVars>>
<1>1. CASE Context \/ StartQuestion
  BY <1>1 DEF Context, BuildContext, ReuseContext, StartQuestion, Kill, Over
<1>2. CASE Account
  BY <1>2 DEF Account, WriteRecord, EnterIndex, RecordError, WriteErrorRecord, EnterErrorIndex,
              NextUp
<1>3. CASE WriteReports
  BY <1>3 DEF WriteReports, WriteReport
<1> QED
  BY <1>1, <1>2, <1>3

LEMMA OthersKeep ==
    ASSUME Answering, Agreeing, Context \/ StartQuestion \/ Account \/ WriteReports
    PROVE  Answering' /\ Agreeing'
<1>1. /\ pc \notin {"answer", "show", "judge", "killed"} /\ pc' \notin {"show", "judge"}
      /\ UNCHANGED <<storeVars, baselineVars>>
  BY OtherSteps
<1>2. step[Caller] = "idle" /\ step'[Caller] = "idle" /\ shown' = None
  BY <1>1 DEF Answering, storeVars, baselineVars
<1> QED
  BY <1>1, <1>2 DEF Answering, Agreeing, storeVars

LEMMA RankForAnswerKeeps ==
    ASSUME StoreInv, Types, Answering, Agreeing, Text \in Texts, RankForAnswer
    PROVE  Answering' /\ Agreeing'
<1>0. Caller \in Askers
  BY BaselineAssumption
<1>1. /\ pc = "answer" /\ pc' = pc /\ i' = i /\ Text' = Text
      /\ answered' = answered /\ shown' = shown
      /\ quiet' <=> Undisrupted
      /\ Rank(Caller, Text)
  BY DEF RankForAnswer, Undisrupted, pipelineVars, vars, Text
<1>2. StoreStep(Caller)
  BY <1>1, Text \in Texts DEF StoreStep
<1>3. /\ step'[Caller] = (IF Missing(Text) = {} THEN "ranked" ELSE "flush")
      /\ asked'[Caller] = Text /\ vectors' = vectors /\ overlap' = overlap
      /\ DOMAIN Wanted(Text) \subseteq DOMAIN store'[Caller]
      /\ \A k \in DOMAIN vectors : store'[Caller][k] = vectors[k]
      /\ Missing(Text) = {} <=> DOMAIN Wanted(Text) \subseteq DOMAIN vectors
  BY <1>0, <1>1, RankHolds
<1>4. Answering'
  BY <1>1, <1>3 DEF Answering
<1>5. ASSUME quiet'
      PROVE  Agreeing'
  <2>1. \A b \in Askers : b # Caller => step'[b] = step[b] /\ store'[b] = store[b]
    BY <1>0, <1>2, OneThread
  <2>2. \A b \in Askers : step'[b] # "write"
    BY <1>1, <1>3, <1>5, <2>1 DEF Undisrupted
  <2>3. ~overlap'
    BY <1>1, <1>3, <1>5 DEF Undisrupted, StoreInv, Overlapping
  <2>4. ASSUME step'[Caller] = "ranked"
        PROVE  Kept(store[Caller])'
    <3>1. Has(vectors, store[Caller])'
      BY <1>1, <1>3, <2>4 DEF Has, Agree
    <3>2. ASSUME ~disturbed', NEW b \in Askers, Flushing(b)'
          PROVE  Has(store[b], store[Caller])'
      <4>1. ~disturbed
        BY <1>1, <3>2 DEF Rank, Note, Flushing
      <4>2. b # Caller /\ Flushing(b)
        BY <2>1, <2>4, <3>2 DEF Flushing
      <4>3. Extends(store[b], vectors)
        BY <4>1, <4>2 DEF StoreInv, OneAtATime
      <4> QED
        BY <1>1, <1>3, <2>1, <3>1, <4>2, <4>3 DEF Has, Agree, Extends
    <3> QED
      BY <3>1, <3>2 DEF Kept
  <2> QED
    BY <1>1, <1>3, <2>2, <2>3, <2>4 DEF Agreeing
<1>6. ~quiet' => Agreeing'
  BY DEF Agreeing
<1> QED
  BY <1>4, <1>5, <1>6

LEMMA CallerFlushKeeps ==
    ASSUME StoreInv, Types, Answering, Agreeing, CallerFlush
    PROVE  Answering' /\ Agreeing'
<1>0. Caller \in Askers
  BY BaselineAssumption
<1>1. /\ pc' = pc /\ i' = i /\ Text' = Text
      /\ answered' = answered /\ shown' = shown /\ quiet' = quiet
      /\ FlushStep(Caller) /\ StoreStep(Caller)
  BY DEF CallerFlush, pipelineVars, vars, baselineVars, Text, StoreStep
<1>2. /\ step[Caller] \in {"flush", "write"} /\ store' = store /\ asked' = asked
      /\ step'[Caller] \in {"write", "ranked", "failed"}
  BY <1>0, <1>1 DEF FlushStep, Truncate, FinishWrite, WriteFails, Flushing, Types
<1>3. pc \in {"answer", "show"} /\ DOMAIN Wanted(Text) \subseteq DOMAIN store[Caller]
  BY <1>2 DEF Answering
<1>4. Answering'
  BY <1>1, <1>2, <1>3 DEF Answering
<1>5. ASSUME quiet
      PROVE  Agreeing'
  <2>1. pc = "answer"
    BY <1>2, <1>3, <1>5 DEF Agreeing
  <2>2. /\ \A b \in Askers : step[b] = "write" => b = Caller
        /\ ~overlap
    BY <1>2, <1>5, <2>1 DEF Agreeing
  <2>3. \A b \in Askers : b # Caller => step'[b] = step[b]
    BY <1>0, <1>1, OneThread
  <2>4. \A b \in Askers : step'[b] = "write" => b = Caller
    BY <2>2, <2>3
  <2>5. ~overlap'
    BY <1>1, <2>2 DEF FlushStep, Truncate, FinishWrite, WriteFails
  <2>6. ASSUME step'[Caller] = "ranked"
        PROVE  Kept(store[Caller])'
    <3>1. FinishWrite(Caller)
      BY <1>0, <1>1, <2>6 DEF FlushStep, Truncate, WriteFails, Types
    <3>2. vectors' = store'[Caller]
      BY <1>2, <2>2, <3>1 DEF FinishWrite
    <3>3. Has(vectors, store[Caller])'
      BY <1>1, <1>2, <1>3, <3>2 DEF Has, Agree
    <3>4. ASSUME ~disturbed', NEW b \in Askers
          PROVE  ~Flushing(b)'
      <4>1. CASE disturbed
        BY <3>1, <3>4, <4>1 DEF FinishWrite, Note, Flushing
      <4>2. CASE ~disturbed
        BY <1>0, <1>2, <2>3, <2>6, <4>2 DEF StoreInv, OneAtATime, Flushing
      <4> QED
        BY <4>1, <4>2
    <3> QED
      BY <3>3, <3>4 DEF Kept
  <2> QED
    BY <1>1, <1>2, <2>1, <2>4, <2>5, <2>6 DEF Agreeing
<1>6. ~quiet => Agreeing'
  BY <1>1 DEF Agreeing
<1> QED
  BY <1>4, <1>5, <1>6

\* The answer has the vectors that the file has, or will have again.
LEMMA AnswerOnlineKeeps ==
    ASSUME Types, Answering, Agreeing, Text \in Texts, AnswerOnline
    PROVE  Answering' /\ Agreeing'
<1>0. Caller \in Askers
  BY BaselineAssumption
<1>1. /\ pc = "answer" /\ i' = i /\ Text' = Text
      /\ shown' = shown /\ quiet' = quiet /\ vectors' = vectors
      /\ Return(Caller) /\ StoreStep(Caller) /\ step'[Caller] = "idle"
      /\ \/ step[Caller] = "ranked" /\ answered' = Seen(Caller, Text) /\ pc' = "show"
         \/ UNCHANGED answered /\ pc' = "except"
  BY <1>0 DEF AnswerOnline, Returns, Text, StoreStep, Return, Types
<1>2. Answering'
  <2>1. ASSUME pc' = "show"
        PROVE  answered' \in [DOMAIN Wanted(Text) -> Vectors]
    <3>1. DOMAIN Wanted(Text) \subseteq DOMAIN store[Caller]
      BY <1>1, <2>1 DEF Answering
    <3>2. \A k \in DOMAIN store[Caller] : store[Caller][k] \in Vectors
      BY <1>0, StoresAre DEF Types
    <3> QED
      BY <1>1, <2>1, <3>1, <3>2 DEF Seen
  <2> QED
    BY <1>1, <2>1 DEF Answering
<1>3. Agreeing'
  <2>1. ASSUME quiet, pc' = "show"
        PROVE  Kept(answered)'
    <3>1. Kept(store[Caller])
      BY <1>1, <2>1 DEF Agreeing
    <3>2. Agree(store[Caller], answered')
      BY <1>1, <2>1 DEF Seen, Agree
    <3>3. Undisrupted' => Has(vectors, answered)'
      <4>1. Undisrupted' => Undisrupted
        BY <1>0, <1>1 DEF Undisrupted, Return, Types
      <4> QED
        BY <1>1, <3>1, <3>2, <4>1 DEF Kept, Has, Agree
    <3>4. ASSUME ~disturbed', NEW b \in Askers, Flushing(b)'
          PROVE  Has(store[b], answered)'
      <4>1. ~disturbed
        BY <1>1, <3>4 DEF Return, Note, Flushing
      <4>2. b # Caller
        BY <1>1, <3>4 DEF Flushing
      <4>3. step'[b] = step[b] /\ store'[b] = store[b]
        BY <1>0, <1>1, <4>2, OneThread
      <4>4. Flushing(b)
        BY <3>4, <4>3 DEF Flushing
      <4> QED
        BY <1>1, <3>1, <3>2, <4>1, <4>3, <4>4 DEF Kept, Has, Agree
    <3> QED
      BY <3>3, <3>4 DEF Kept
  <2> QED
    BY <1>1, <2>1 DEF Agreeing
<1> QED
  BY <1>2, <1>3

\* A ranking that needs nothing computed leaves what is kept.
LEMMA RankedKept ==
    ASSUME Types, NEW a \in Askers, NEW t \in Texts, Rank(a, t), Missing(t) = {},
           NEW v, Kept(v), Text' = Text
    PROVE  /\ Undisrupted' => Has(vectors', v)
           /\ ~disturbed' => \A b \in Askers : Flushing(b)' => Has(store'[b], v)
<1>1. /\ vectors' = vectors /\ StoreStep(a)
      /\ step[a] = "idle" /\ step'[a] = "ranked"
  BY DEF StoreStep, Rank, Types
<1>2. \A b \in Askers : b # a => step'[b] = step[b] /\ store'[b] = store[b]
  BY <1>1, OneThread
<1>3. Undisrupted' => Undisrupted
  BY <1>1, <1>2 DEF Undisrupted
<1>4. \A b \in Askers : Flushing(b)' => b # a /\ Flushing(b)
  BY <1>1, <1>2 DEF Flushing
<1>5. ASSUME ~disturbed', NEW b \in Askers, Flushing(b)'
      PROVE  ~disturbed
  BY <1>5 DEF Rank, Note, Flushing
<1> QED
  BY <1>1, <1>2, <1>3, <1>4, <1>5 DEF Kept

\* Everything that is wanted is in the file, so that nothing is computed.
LEMMA RankForContextKeeps ==
    ASSUME Types, Answering, Agreeing, Text \in Texts, RankForContext
    PROVE  Answering' /\ Agreeing'
<1>0. Caller \in Askers
  BY BaselineAssumption
<1>1. /\ pc = "show" /\ pc' = pc /\ i' = i /\ Text' = Text
      /\ answered' = answered /\ shown' = shown /\ quiet' = (quiet /\ Undisrupted)
      /\ Rank(Caller, Text)
  BY DEF RankForContext, pipelineVars, vars, Text
<1>3. /\ step'[Caller] = (IF Missing(Text) = {} THEN "ranked" ELSE "flush")
      /\ asked'[Caller] = Text
      /\ DOMAIN Wanted(Text) \subseteq DOMAIN store'[Caller]
      /\ \A k \in DOMAIN vectors : store'[Caller][k] = vectors[k]
      /\ Missing(Text) = {} <=> DOMAIN Wanted(Text) \subseteq DOMAIN vectors
  BY <1>0, <1>1, RankHolds
<1>4. Answering'
  BY <1>1, <1>3 DEF Answering
<1>5. ASSUME quiet'
      PROVE  Agreeing'
  <2>1. Kept(answered) /\ Has(vectors, answered)
    BY <1>1, <1>5 DEF Agreeing, Kept
  <2>2. Missing(Text) = {} /\ step'[Caller] = "ranked" /\ Agree(store'[Caller], answered)
    BY <1>3, <2>1 DEF Has, Agree
  <2>3. Kept(answered)'
    <3>1. /\ Undisrupted' => Has(vectors', answered)
          /\ ~disturbed' => \A b \in Askers : Flushing(b)' => Has(store'[b], answered)
      BY <1>0, <1>1, <2>1, <2>2, RankedKept
    <3> QED
      BY <1>1, <3>1 DEF Kept, Has, Agree
  <2> QED
    BY <1>1, <2>2, <2>3 DEF Agreeing, Agree
<1>6. ~quiet' => Agreeing'
  BY DEF Agreeing
<1> QED
  BY <1>4, <1>5, <1>6

LEMMA ShowContextKeeps ==
    ASSUME Types, Answering, Agreeing, ShowContext
    PROVE  Answering' /\ Agreeing'
<1>0. Caller \in Askers
  BY BaselineAssumption
<1>1. /\ pc = "show" /\ pc' = "judge" /\ i' = i /\ Text' = Text
      /\ answered' = answered /\ quiet' = quiet
      /\ step[Caller] # "idle" /\ step'[Caller] = "idle"
      /\ shown' = Seen(Caller, asked[Caller]) \/ shown' = None
  BY <1>0 DEF ShowContext, Text, Return, Types, Answering
<1>2. Answering'
  BY <1>1 DEF Answering
<1>3. Agreeing'
  <2>1. ASSUME quiet, shown' = Seen(Caller, asked[Caller])
        PROVE  shown' = answered
    <3>1. asked[Caller] = Text /\ answered \in [DOMAIN Wanted(Text) -> Vectors]
      BY <1>1 DEF Answering
    <3>2. Agree(store[Caller], answered)
      BY <1>1, <2>1 DEF Agreeing
    <3> QED
      BY <2>1, <3>1, <3>2 DEF Seen, Agree
  <2> QED
    BY <1>1, <2>1 DEF Agreeing
<1> QED
  BY <1>2, <1>3

LEMMA JudgeAnswerKeeps ==
    ASSUME Answering, Agreeing, JudgeAnswer
    PROVE  Answering' /\ Agreeing'
<1>1. /\ pc = "judge" /\ pc' \in {"write", "except"} /\ shown' = None
      /\ UNCHANGED storeVars
  BY DEF JudgeAnswer
<1>2. step[Caller] = "idle" /\ step'[Caller] = "idle"
  BY <1>1 DEF Answering, storeVars
<1> QED
  BY <1>1, <1>2 DEF Answering, Agreeing, storeVars

LEMMA KillKeeps ==
    ASSUME Types, Answering, Agreeing, KillBaseline
    PROVE  Answering' /\ Agreeing'
<1>0. Caller \in Askers
  BY BaselineAssumption
<1>1. pc' = "killed" /\ step'[Caller] = "idle"
  BY <1>0 DEF KillBaseline, Kill, Vanish, Types
<1> QED
  BY <1>1 DEF Answering, Agreeing

\* A step of another thread that leaves the answer quiet keeps what was kept: what it
\* writes extends the file it read.
LEMMA ProbeKept ==
    ASSUME StoreInv, Types, NEW a \in Askers, NEW v, Kept(v), Text' = Text,
           \/ \E t \in Texts : Rank(a, t)
           \/ FlushStep(a) /\ ~disturbed /\ ~disturbed'
           \/ Return(a)
    PROVE  /\ Undisrupted' => Has(vectors', v)
           /\ ~disturbed' => \A b \in Askers : Flushing(b)' => Has(store'[b], v)
<1>0. StoreStep(a)
  BY DEF StoreStep
<1>1. \A b \in Askers : b # a => step'[b] = step[b] /\ store'[b] = store[b]
  BY <1>0, OneThread
<1>2. ASSUME NEW t \in Texts, Rank(a, t)
      PROVE  /\ Undisrupted' => Has(vectors', v)
             /\ ~disturbed' => \A b \in Askers : Flushing(b)' => Has(store'[b], v)
  <2>1. CASE Missing(t) = {}
    BY <1>2, <2>1, RankedKept
  <2>2. CASE Missing(t) # {}
    <3>1. /\ step[a] = "idle" /\ step'[a] = "flush" /\ vectors' = vectors
          /\ \A k \in DOMAIN vectors : store'[a][k] = vectors[k]
          /\ DOMAIN vectors \subseteq DOMAIN store'[a]
      BY <1>2, <2>2 DEF Rank, Filled, Types
    <3>2. Undisrupted' => Has(vectors', v)
      BY <1>1, <3>1 DEF Undisrupted, Kept
    <3>3. ASSUME ~disturbed', NEW b \in Askers, Flushing(b)'
          PROVE  Has(store'[b], v)
      <4>1. ~disturbed /\ \A c \in Askers : ~Flushing(c)
        BY <1>2, <2>2, <3>1, <3>3 DEF Rank, Note
      <4>2. b = a
        BY <1>1, <3>3, <4>1 DEF Flushing
      <4>3. Has(vectors, v)
        BY <4>1 DEF Flushing, Kept, Undisrupted
      <4> QED
        BY <3>1, <4>2, <4>3 DEF Has, Agree
    <3> QED
      BY <3>2, <3>3
  <2> QED
    BY <2>1, <2>2
<1>3. CASE Return(a)
  <2>1. /\ vectors' = vectors /\ ~Flushing(a) /\ ~Flushing(a)'
        /\ step[a] # "write"
    BY <1>3 DEF Return, Flushing, Types
  <2>2. Undisrupted' => Undisrupted
    BY <1>1, <2>1 DEF Undisrupted
  <2>3. ASSUME ~disturbed', NEW b \in Askers, Flushing(b)'
        PROVE  ~disturbed /\ Flushing(b) /\ store'[b] = store[b]
    BY <1>1, <1>3, <2>1, <2>3 DEF Return, Note, Flushing
  <2> QED
    BY <2>1, <2>2, <2>3 DEF Kept
<1>4. CASE FlushStep(a) /\ ~disturbed /\ ~disturbed'
  <2>1. Flushing(a) /\ store' = store /\ ~WriteFails(a)
    <3>1. ~WriteFails(a)
      BY <1>4 DEF WriteFails, Note, Types
    <3> QED
      BY <1>4, <3>1 DEF FlushStep, Truncate, FinishWrite, Flushing
  <2>2. Has(store[a], v)
    BY <1>4, <2>1 DEF Kept
  <2>3. \A b \in Askers : Flushing(b) => b = a
    BY <1>4, <2>1 DEF StoreInv, OneAtATime
  <2>4. \A b \in Askers : Flushing(b)' => b = a
    BY <1>1, <2>3 DEF Flushing
  <2>5. Undisrupted' => vectors' = store[a]
    <3>1. CASE Truncate(a)
      BY <3>1 DEF Truncate, Undisrupted, Types
    <3>2. CASE FinishWrite(a)
      BY <1>4, <3>2 DEF FinishWrite, StoreInv, OneAtATime
    <3> QED
      BY <1>4, <2>1, <3>1, <3>2 DEF FlushStep
  <2> QED
    BY <2>1, <2>2, <2>4, <2>5
<1> QED
  BY <1>2, <1>3, <1>4

\* Others may write as long as no ranking overlaps another: what they write has the
\* vectors of the answer.
LEMMA ProbeKeeps ==
    ASSUME StoreInv, Types, Answering, Agreeing, ProbeStep,
           pc \in {"show", "judge"} => Text \in Texts
    PROVE  Answering' /\ Agreeing'
<1>0. Caller \in Askers
  BY BaselineAssumption
<1>1. PICK a \in Askers \ {Caller} :
        \/ \E t \in Texts : Rank(a, t) /\ UNCHANGED quiet
        \/ FlushStep(a) /\ quiet' = (NoAnswerYet \/ (quiet /\ ~disturbed /\ ~disturbed'))
        \/ Return(a) /\ UNCHANGED quiet
  BY DEF ProbeStep
<1>2. /\ pc' = pc /\ i' = i /\ Text' = Text /\ answered' = answered /\ shown' = shown
      /\ StoreStep(a)
  BY <1>1 DEF ProbeStep, pipelineVars, vars, Text, StoreStep
<1>3. \A b \in Askers : b # a => step'[b] = step[b] /\ store'[b] = store[b] /\ asked'[b] = asked[b]
  BY <1>2, OneThread
<1>4. /\ step'[Caller] = step[Caller] /\ store'[Caller] = store[Caller]
      /\ asked'[Caller] = asked[Caller]
  BY <1>0, <1>3
<1>5. Answering'
  BY <1>2, <1>4 DEF Answering
<1>6. ASSUME pc \in {"show", "judge"}
      PROVE  answered # None
  <2>1. answered \in [DOMAIN Wanted(Text) -> Texts \cup Boxes \cup {Zeros}]
    BY <1>6 DEF Answering, Vectors
  <2>2. None \notin [DOMAIN Wanted(Text) -> Texts \cup Boxes \cup {Zeros}]
    BY <1>6, BaselineAssumption
  <2> QED
    BY <2>1, <2>2
<1>7. ASSUME NoAnswerYet
      PROVE  Agreeing'
  <2>1. pc' \notin {"show", "judge"} /\ step'[Caller] = "idle"
    BY <1>2, <1>4, <1>6, <1>7 DEF NoAnswerYet
  <2> QED
    BY <2>1 DEF Agreeing
<1>8. ASSUME ~NoAnswerYet, quiet'
      PROVE  Agreeing'
  <2>1. /\ quiet
        /\ \/ \E t \in Texts : Rank(a, t)
           \/ FlushStep(a) /\ ~disturbed /\ ~disturbed'
           \/ Return(a)
    BY <1>1, <1>8
  <2>2. ASSUME NEW v, Kept(v)
        PROVE  /\ Undisrupted' => Has(vectors', v)
               /\ ~disturbed' => \A b \in Askers : Flushing(b)' => Has(store'[b], v)
    BY <1>2, <2>1, <2>2, ProbeKept
  <2>3. ASSUME step[Caller] \in {"flush", "write"}, pc = "answer"
        PROVE  /\ \A b \in Askers : step'[b] = "write" => b = Caller
               /\ ~overlap'
    <3>1. /\ \A b \in Askers : step[b] = "write" => b = Caller
          /\ ~overlap
      BY <2>1, <2>3 DEF Agreeing
    <3>2. ~FlushStep(a)
      <4>1. ~disturbed => \A b, c \in Askers : Flushing(b) /\ Flushing(c) => b = c
        BY DEF StoreInv, OneAtATime
      <4>2. FlushStep(a) => Flushing(a)
        BY DEF FlushStep, Truncate, FinishWrite, WriteFails, Flushing
      <4>3. Flushing(Caller)
        BY <2>3 DEF Flushing
      <4>4. FlushStep(a) => ~disturbed
        BY <2>1 DEF FlushStep, Truncate, FinishWrite, WriteFails, Flushing, Rank, Return
      <4> QED
        BY <1>0, <4>1, <4>2, <4>3, <4>4
    <3>3. overlap' = overlap /\ step'[a] # "write"
      BY <2>1, <3>2 DEF Rank, Return, Types
    <3> QED
      BY <1>3, <3>1, <3>3
  <2>4. pc = "answer" /\ step[Caller] = "ranked" => Kept(store[Caller])'
    <3>1. ASSUME pc = "answer", step[Caller] = "ranked"
          PROVE  /\ Undisrupted' => Has(vectors', store[Caller])
                 /\ ~disturbed' => \A b \in Askers : Flushing(b)' => Has(store'[b], store[Caller])
      BY <2>1, <2>2, <3>1 DEF Agreeing
    <3> QED
      BY <1>2, <1>4, <3>1 DEF Kept, Has, Agree
  <2>5. pc = "show" => Kept(answered)'
    <3>1. ASSUME pc = "show"
          PROVE  /\ Undisrupted' => Has(vectors', answered)
                 /\ ~disturbed' => \A b \in Askers : Flushing(b)' => Has(store'[b], answered)
      BY <2>1, <2>2, <3>1 DEF Agreeing
    <3> QED
      BY <1>2, <3>1 DEF Kept, Has, Agree
  <2> QED
    BY <1>2, <1>4, <2>1, <2>3, <2>4, <2>5 DEF Agreeing, Agree
<1>9. ~quiet' => Agreeing'
  BY DEF Agreeing
<1> QED
  BY <1>5, <1>7, <1>8, <1>9

(* ----------------------------- The lists -------------------------------- *)

\* Only what fails after it has been counted is both a result and an error.
LEMMA ListedKeeps ==
    ASSUME Listed, Evaluation!IInv, BaselineNext
    PROVE  Listed'
<1>1. /\ pc \in {"show", "judge", "except"} => i \in Questions
      /\ pc = "judge" => i \notin errors
      /\ pc = "except" => (i \in results <=> i \in late)
  BY RunFacts
<1>2. CASE Context \/ RankForAnswer \/ CallerFlush \/ AnswerOnline \/ RankForContext
           \/ WriteReports \/ KillBaseline \/ ProbeStep
  <2>1. UNCHANGED <<results, errors, late, blind>>
    BY <1>2 DEF Context, BuildContext, ReuseContext, RankForAnswer, CallerFlush, AnswerOnline,
                RankForContext, WriteReports, WriteReport, KillBaseline, Kill, ProbeStep,
                pipelineVars, vars, memoryVars, baselineVars
  <2> QED
    BY <2>1 DEF Listed
<1>3. CASE StartQuestion
  BY <1>3 DEF StartQuestion, Kill, memoryVars, baselineVars, Listed
<1>4. CASE ShowContext
  BY <1>1, <1>4 DEF ShowContext, memoryVars, Listed
<1>5. CASE JudgeAnswer
  BY <1>1, <1>5 DEF JudgeAnswer, Listed
<1>6. CASE Account
  <2>1. /\ UNCHANGED <<results, blind>> /\ late \subseteq late'
        /\ errors' = errors \/ (pc = "except" /\ errors' = errors \cup {i})
    BY <1>6 DEF Account, WriteRecord, EnterIndex, RecordError, WriteErrorRecord,
                EnterErrorIndex, memoryVars, baselineVars
  <2> QED
    BY <1>1, <2>1 DEF Listed
<1> QED
  BY <1>2, <1>3, <1>4, <1>5, <1>6 DEF BaselineNext, BaselineStep

(* ---------------------------- Conclusions ------------------------------- *)

LEMMA BaselineInvInit == BaselineInit => BaselineInv
<1> SUFFICES ASSUME BaselineInit PROVE BaselineInv
  OBVIOUS
<1>1. StoreInv
  BY StoreInvInit DEF BaselineInit
<1>2. Types
  BY NothingTypes DEF BaselineInit, StoreInit, Types
<1>3. Answering /\ Agreeing /\ Listed
  <2>1. pc \notin {"answer", "show", "judge"} /\ shown = None /\ errors = {} /\ blind = {}
    BY DEF BaselineInit, Init, NextUp
  <2>2. step[Caller] = "idle"
    BY BaselineAssumption DEF BaselineInit, StoreInit
  <2> QED
    BY <2>1, <2>2 DEF Answering, Agreeing, Listed
<1> QED
  BY <1>1, <1>2, <1>3 DEF BaselineInv

LEMMA BaselineInvStep ==
    ASSUME BaselineInv, Evaluation!IInv, BaselineNext
    PROVE  BaselineInv'
<1>0. StoreInv /\ Types /\ Answering /\ Agreeing /\ Listed
  BY DEF BaselineInv
<1>1. StoreInv' /\ Types'
  <2>1. CASE \E a \in Askers : StoreStep(a)
    BY <1>0, <2>1, RankKeeps, FlushKeeps, ReturnKeeps, VanishKeeps, StoreStepTypes DEF StoreStep
  <2>2. CASE UNCHANGED storeVars
    BY <1>0, <2>2 DEF storeVars, StoreInv, StoreTypes, Overlapping, OneAtATime, Extends,
                      Flushing, Types
  <2> QED
    BY <2>1, <2>2, BaselineStoreSteps
<1>2. /\ pc \in {"answer", "show", "judge"} => Text \in Texts
  BY RunFacts
<1>3. Answering' /\ Agreeing'
  <2>1. CASE Context \/ StartQuestion \/ Account \/ WriteReports
    BY <1>0, <2>1, OthersKeep
  <2>2. CASE RankForAnswer
    BY <1>0, <1>2, <2>2, RankForAnswerKeeps DEF RankForAnswer
  <2>3. CASE CallerFlush
    BY <1>0, <2>3, CallerFlushKeeps
  <2>4. CASE AnswerOnline
    BY <1>0, <1>2, <2>4, AnswerOnlineKeeps DEF AnswerOnline
  <2>5. CASE RankForContext
    BY <1>0, <1>2, <2>5, RankForContextKeeps DEF RankForContext
  <2>6. CASE ShowContext
    BY <1>0, <2>6, ShowContextKeeps
  <2>7. CASE JudgeAnswer
    BY <1>0, <2>7, JudgeAnswerKeeps
  <2>8. CASE KillBaseline
    BY <1>0, <2>8, KillKeeps
  <2>9. CASE ProbeStep
    BY <1>0, <1>2, <2>9, ProbeKeeps
  <2> QED
    BY <2>1, <2>2, <2>3, <2>4, <2>5, <2>6, <2>7, <2>8, <2>9 DEF BaselineNext, BaselineStep
<1>4. Listed'
  BY <1>0, ListedKeeps
<1> QED
  BY <1>1, <1>3, <1>4 DEF BaselineInv

LEMMA BaselineInvariance == BaselineSpec => [](BaselineInv /\ Evaluation!IInv)
<1>1. BaselineInv /\ UNCHANGED allVars => BaselineInv'
  <2> SUFFICES ASSUME BaselineInv, UNCHANGED allVars PROVE BaselineInv'
    OBVIOUS
  <2>1. UNCHANGED <<pc, i, results, errors, late>> /\ UNCHANGED <<storeVars, baselineVars>>
    BY DEF allVars, vars, memoryVars
  <2>2. StoreInv' /\ Types'
    BY <2>1 DEF BaselineInv, storeVars, StoreInv, StoreTypes, Overlapping, OneAtATime, Extends,
                Flushing, Types
  <2>3. Answering' /\ Agreeing' /\ Listed'
    BY <2>1 DEF BaselineInv, storeVars, baselineVars, Answering, Agreeing, Agree, Has, Kept,
                Undisrupted, Flushing, Text, Listed
  <2> QED
    BY <2>2, <2>3 DEF BaselineInv
<1>2. BaselineInv /\ Evaluation!IInv /\ [BaselineNext]_allVars => BaselineInv'
  BY <1>1, BaselineInvStep
<1> QED
  BY <1>2, BaselineInvInit, EvaluationInvariance, PTL DEF BaselineSpec

\* The variables of a baseline run over a Membox sample keep their types, and only
\* an answer or its context has the run at a ranking.
THEOREM BaselineTypeCorrect == BaselineSpec => []BaselineTypeOK
<1>1. BaselineInv /\ Evaluation!IInv => BaselineTypeOK
  BY TypesSuffice, RunFacts DEF BaselineInv, Answering, Listed, BaselineTypeOK
<1> QED
  BY <1>1, BaselineInvariance, PTL

\* run_baseline counts every question once, but for those that failed after they had
\* been counted, also those whose context could not be retrieved.
THEOREM BaselineAccountsHold == BaselineSpec => []BaselineAccounts
<1>1. ASSUME BaselineInv, Evaluation!IInv
      PROVE  BaselineAccounts
  <2>1. /\ results \subseteq Questions /\ errors \subseteq Questions /\ late \subseteq Questions
        /\ index \in [Questions -> Entries]
        /\ pc = "done" => i = N + 1 
        /\ i \in 1..N+1 /\ N \in Nat
    BY <1>1, RunFacts, PipelineAssumption
  <2>2. \A q \in Finished : /\ q \in results \cup errors
                            /\ q \in results /\ q \in errors <=> q \in late
                            /\ index[q] # <<>>
                            /\ index[q][Len(index[q])] = "error" <=> q \in errors
    BY <1>1 DEF Evaluation!IInv, Evaluation!ExactAccounts, Evaluation!RecordsAgree,
                Evaluation!Finished, Finished
  <2>3. ASSUME pc = "done"
        PROVE  Cardinality(results) + Cardinality(errors) = N + Cardinality(late)
    <3>1. Finished = Questions
      BY <2>1, <2>3 DEF Finished, Questions
    <3>2. results \cup errors = Questions /\ results \cap errors = late
      BY <2>1, <2>2, <3>1
    <3>3. IsFiniteSet(Questions) /\ Cardinality(Questions) = N
      BY <2>1, FS_Interval DEF Questions
    <3>4. IsFiniteSet(results) /\ IsFiniteSet(errors) /\ IsFiniteSet(late)
      BY <2>1, <3>3, FS_Subset
    <3>5. Cardinality(Questions) = Cardinality(results) + Cardinality(errors) - Cardinality(late)
      BY <3>2, <3>4, FS_Union
    <3>6. /\ Cardinality(results) \in Nat /\ Cardinality(errors) \in Nat
          /\ Cardinality(late) \in Nat
      BY <3>4, FS_CardinalityType
    <3> QED
      BY <2>1, <3>3, <3>5, <3>6
  <2>4. ASSUME NEW q \in Questions, q \in results \ late, q \in Finished
        PROVE  index[q] = <<"ok">>
    <3>1. index[q] \in Entries /\ index[q] # <<>> /\ index[q][Len(index[q])] # "error"
      BY <2>1, <2>2, <2>4
    <3>2. /\ <<"error">>[Len(<<"error">>)] = "error"
          /\ <<"ok", "error">>[Len(<<"ok", "error">>)] = "error"
      OBVIOUS
    <3> QED
      BY <3>1, <3>2 DEF Entries
  <2> QED
    BY <1>1, <2>2, <2>3, <2>4 DEF BaselineInv, Listed, BaselineAccounts
<1> QED
  BY <1>1, BaselineInvariance, PTL

\* The context shown with an answer was ranked with the vectors of the answer, also
\* when others have written the store meanwhile, as long as each write begins with a
\* ranking that no other overlaps, and ends.
THEOREM ContextMatchesAnswerHolds == BaselineSpec => []ContextMatchesAnswer
<1>1. BaselineInv => ContextMatchesAnswer
  BY DEF BaselineInv, Agreeing, ContextMatchesAnswer
<1> QED
  BY <1>1, BaselineInvariance, PTL

\* Once the rankings that overlapped, or that failed or were killed in a write, are
\* over, EmbeddingStore computes none of the vectors that the file then holds or that
\* are computed from then on again, until it happens anew.
THEOREM ComputedOnceHolds == BaselineSpec => []ComputedOnce
<1>1. BaselineInv => ComputedOnce
  BY DEF BaselineInv, StoreInv, ComputedOnce
<1> QED
  BY <1>1, BaselineInvariance, PTL
=============================================================================
