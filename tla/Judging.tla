------------------------------- MODULE Judging ------------------------------
(***************************************************************************)
(* The judgement of one question: the three probes reach their verdicts in *)
(* any order (they share nothing), and once all three are there the        *)
(* attribution agent reconciles them, or the question fails because one of *)
(* them raised.  How the probes are scheduled is ThreeProbeEngine's        *)
(* subject; this module is about what is concluded from which replies.     *)
(***************************************************************************)
EXTENDS Verdicts

CONSTANTS Configs,       \* the evaluator profiles considered
          EncReplies,    \* replies of the encoding judge
          RetReplies,    \* replies of the retrieval judge
          Views,         \* what the retrieved items may show
          AnswerSets,    \* inputs of the generation probe
          CauseReplies   \* replies of the attribution judge

ASSUME JudgingAssumption ==
    /\ Configs \subseteq Config
    /\ EncReplies \subseteq Reply
    /\ RetReplies \subseteq Reply
    /\ Views \subseteq Retrieved
    /\ AnswerSets \subseteq Answers
    /\ CauseReplies \subseteq CauseReply

VARIABLES cfg, task,       \* the profile and the task type of the question
          enc, ret, gen,   \* the verdicts of the three probes
          answers,         \* the answers the generation probe judged, a set of
                           \* at most one
          result           \* the AttributionResult

vars == <<cfg, task, enc, ret, gen, answers, result>>

Stages == {"judging", "raised", "attributed"}

Result == [stage : Stages, retDefects : SUBSET DefectCodes,
           defects : SUBSET DefectCodes, primary : Layers \cup {"none"},
           secondary : SUBSET Layers, judgement : FinalJudgements,
           overruled : BOOLEAN]   \* llm_payload: the attribution judge was heard

NoResult(stage) == [stage |-> stage, retDefects |-> {}, defects |-> {},
                    primary |-> "none", secondary |-> {},
                    judgement |-> "oracle_answer_incorrect", overruled |-> FALSE]

Init == /\ cfg \in Configs
        /\ task \in TaskTypes
        /\ enc = Pending /\ ret = Pending /\ gen = Pending
        /\ answers = {}
        /\ result = NoResult("judging")

JudgeEncoding(r, match) ==
    /\ enc = Pending
    /\ enc' = EncVerdict(cfg, task, r, match)
    /\ UNCHANGED <<cfg, task, ret, gen, answers, result>>

JudgeRetrieval(r, second, o) ==
    /\ ret = Pending
    /\ ret' = RetVerdict(cfg, task, r, second, o)
    /\ UNCHANGED <<cfg, task, enc, gen, answers, result>>

JudgeGeneration(a) ==
    /\ gen = Pending
    /\ gen' = GenVerdict(cfg, task, a)
    /\ answers' = {a}
    /\ UNCHANGED <<cfg, task, enc, ret, result>>

AllJudged == Pending \notin {enc, ret, gen}

AllOk == enc.ok /\ ret.ok /\ gen.ok

\* f_enc.result(), f_ret.result(), f_gen.result(): the first that raised does.
ProbeError ==
    /\ result.stage = "judging"
    /\ AllJudged
    /\ ~AllOk
    /\ result' = NoResult("raised")
    /\ UNCHANGED <<cfg, task, enc, ret, gen, answers>>

Attribute(j) ==
    /\ result.stage = "judging"
    /\ AllJudged
    /\ AllOk
    /\ LET merged == Reconciled(task, enc, ret)
       IN result' = IF AttributionRaises(cfg, j) THEN NoResult("raised")
                    ELSE [stage      |-> "attributed",
                          retDefects |-> merged.defects,
                          defects    |-> enc.defects \cup merged.defects \cup gen.defects,
                          primary    |-> FinalPrimary(cfg, enc, merged, gen, j),
                          secondary  |-> FinalSecondary(cfg, enc, merged, gen, j),
                          judgement  |-> FinalJudgement(cfg, CHOOSE a \in answers : TRUE),
                          overruled  |-> Asked(cfg, j)]
    /\ UNCHANGED <<cfg, task, enc, ret, gen, answers>>

Next == \/ \E r \in EncReplies, m \in Matches : JudgeEncoding(r, m)
        \/ \E r \in RetReplies, second \in BOOLEAN, o \in Views :
              JudgeRetrieval(r, second, o)
        \/ \E a \in AnswerSets : JudgeGeneration(a)
        \/ ProbeError
        \/ \E j \in CauseReplies : Attribute(j)

Spec == Init /\ [][Next]_vars

(* ----------------------------- Properties ------------------------------ *)

\* Every verdict and the result have their shape; the generation probe has
\* judged exactly one set of answers once it has a verdict.
TypeOK == /\ cfg \in Configs
          /\ task \in TaskTypes
          /\ enc \in Verdict /\ ret \in Verdict /\ gen \in Verdict
          /\ answers \in SUBSET AnswerSets
          /\ (gen = Pending) <=> (answers = {})
          /\ result \in Result

Attributed == result.stage = "attributed"

\* The reconciliation of attribution_agent.attribute: the retrieval layer is
\* never charged with RF when nothing was encoded, and always is when a POS
\* question's fact was encoded but not retrieved, whoever gave the verdicts.
RFGate ==
    Attributed =>
        /\ enc.state = "MISS" => "RF" \notin result.retDefects
        /\ task = "POS" /\ ret.state = "MISS" /\ enc.state # "MISS"
              => "RF" \in result.retDefects

\* With disable_rule_fallback no result rests on a rule verdict of the encoding
\* or the retrieval probe, and in the strict profile none of the three does:
\* a missing or malformed reply costs the question, never its provenance.
NoSilentRule ==
    Attributed /\ cfg.use /\ cfg.noFallback =>
        /\ enc.source = "llm" /\ ret.source = "llm"
        /\ cfg.require => gen.source = "llm"

\* Where only rules decide, a POS question is cleared of any cause exactly when
\* the defect union is empty: no defect goes without a layer to blame, and no
\* layer is blamed without a defect that says why.
BlameMatchesDefects ==
    Attributed /\ ~cfg.use /\ task = "POS" =>
        (result.primary = "none" <=> result.defects = {})

\* The layers that are named as a cause, and those whose verdict lists a defect.
Blamed == result.secondary \cup ({result.primary} \ {"none"})

DefectsOf(layer) == CASE layer = "encoding"  -> enc.defects
                      [] layer = "retrieval" -> result.retDefects
                      [] OTHER               -> gen.defects

Defective == {layer \in Layers : DefectsOf(layer) # {}}

\* Whoever gave the verdicts: unless the attribution judge names the causes, every
\* layer with a defect is named, though the primary cause ignores the defects of a
\* fact that exists; a question without a primary cause has no other defects than
\* these, and only from a judge. And a POS question names no layer without a defect,
\* but for the two the tables make: retrieval when there was nothing to retrieve, so
\* that its RF is suppressed, and an encoding whose judge named a state alone.
DefectsBlamed ==
    Attributed /\ ~result.overruled =>
        /\ Defective \subseteq Blamed
        /\ result.primary = "none" /\ result.defects # {} =>
              Blamed = {"encoding"} /\ result.defects = enc.defects /\ enc.source = "llm"
        /\ task = "POS" => \A layer \in Blamed \ Defective :
              \/ layer = "retrieval" /\ enc.state = "MISS" /\ ret.state = "MISS"
              \/ layer = "encoding" /\ enc.source = "llm"

\* The final judgement agrees with the generation verdict: "wrong but the
\* oracle answer is right" is said of passed oracle answers only, and a passed
\* one is never called incorrect.
JudgementMatchesVerdict ==
    Attributed =>
        /\ result.judgement = "system_answer_wrong_but_oracle_answer_correct"
              => gen.state = "PASS"
        /\ gen.state = "PASS" => result.judgement # "oracle_answer_incorrect"

(* ------------- Statements of the repository the code breaks ------------- *)

\* prompts.py: an oracle answer judged correct with substate NONE is a pass.
CorrectOracleAnswerPasses ==
    \A a \in answers :
        a.judgement.kind = "object" /\ a.judgement.correct
          /\ a.judgement.sub = "NONE" /\ a.comparison.kind = "object"
          /\ a.comparison.defects = {}
        => gen.state = "PASS"

\* prompts.py: on a NEG task an encoding MISS is a correct observation, not a
\* failure; a NEG question all of whose probes are healthy has no cause.
HealthyNegHasNoCause ==
    Attributed /\ task = "NEG" /\ enc.state = "MISS" /\ ret.state = "MISS"
      /\ gen.state = "PASS"
    => result.primary = "none"

\* README.md: with no valid key or a failing call the probes fall back to rules.
MissingJudgeFallsBack == result.stage # "raised"
=============================================================================
