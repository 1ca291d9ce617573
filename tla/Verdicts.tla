------------------------------ MODULE Verdicts ------------------------------
(***************************************************************************)
(* The decision tables of the three probes and of the attribution agent:   *)
(* which verdict each of them reaches from its configuration, the task     *)
(* type, the language-model replies it receives and the matches it finds   *)
(* in the records, and which combinations raise instead.  Everything here  *)
(* is a constant-level operator; Judging.tla runs them as a system.        *)
(*                                                                         *)
(* Abstractions.  A defect list is the set of its codes (the order is only *)
(* cosmetic).  An LLM reply is what the code can tell apart: "none" (no    *)
(* credentials, an HTTP failure, a reply that is not JSON), "array" (JSON, *)
(* but no object), "broken" (an object whose list fields are null or of a  *)
(* wrong type, so that iterating them raises) and "object".  Texts and     *)
(* scores are the comparisons the code makes with them.                    *)
(***************************************************************************)
TaskTypes == {"POS", "NEG"}

EncStates == {"EXIST", "MISS", "CORRUPT_AMBIG", "CORRUPT_WRONG", "DIRTY"}

RetStates == {"HIT", "MISS", "NOISE"}

GenStates == {"PASS", "FAIL"}

DefectCodes == {"EM", "EA", "EW", "DMP", "RF", "LATE", "NOI", "NIR",
                "GH", "GF", "GRF"}

Layers == {"encoding", "retrieval", "generation"}

\* The switches of EvaluatorConfig that decide between a language-model
\* verdict, a rule verdict and an error.
Config == [use        : BOOLEAN,    \* use_llm_assist
           require    : BOOLEAN,    \* require_llm_judgement
           noFallback : BOOLEAN,    \* disable_rule_fallback
           judge      : BOOLEAN,    \* correctness_use_llm_judge
           judgeMust  : BOOLEAN]    \* correctness_require_llm_judge

IsStrict(c) == c.use /\ c.require /\ c.noFallback

(* ------------------------------ Replies -------------------------------- *)

ReplyKinds == {"none", "array", "broken", "object"}

IsDict(r) == r.kind \in {"broken", "object"}

\* A probe judgement: the state it names ("OTHER" for a text the probe does
\* not know) and the defect codes it lists.
Reply == [kind : ReplyKinds, state : EncStates \cup RetStates \cup {"OTHER"},
          defects : SUBSET DefectCodes]

(* ------------------------------ Verdicts ------------------------------- *)

Sources == {"llm", "rule"}

Verdict == [ok : BOOLEAN,
            state : EncStates \cup RetStates \cup GenStates \cup {"PENDING", "RAISED"},
            defects : SUBSET DefectCodes, source : Sources \cup {"none"}]

Reached(s, D, src) == [ok |-> TRUE, state |-> s, defects |-> D, source |-> src]

Raised == [ok |-> FALSE, state |-> "RAISED", defects |-> {}, source |-> "none"]

Pending == [ok |-> FALSE, state |-> "PENDING", defects |-> {}, source |-> "none"]

\* Fault: only a missing reply is rejected, the switch is forgotten.
FallbackRejectedWhenRequired(c, r) == c.use /\ c.require /\ ~IsDict(r)

\* The probe may use neither the reply it got nor a rule in its place.
FallbackRejected(c, r) == c.use /\ (c.noFallback \/ (c.require /\ ~IsDict(r)))

(* ------------------------------ Encoding ------------------------------- *)

\* How much of f_key the candidate records support; an empty f_key and no
\* match lead to the same verdict.
Matches == {"none", "partial", "partial_ambiguous", "all"}

\* Fault: a POS fact that was not found is no defect.
EncByRulesSilentMiss(task, match) ==
    IF match = "none" THEN Reached("MISS", {}, "rule")
    ELSE IF task = "NEG" THEN Reached("DIRTY", {"DMP"}, "rule")
    ELSE CASE match = "partial"           -> Reached("CORRUPT_WRONG", {"EW"}, "rule")
           [] match = "partial_ambiguous" -> Reached("CORRUPT_AMBIG", {"EA"}, "rule")
           [] OTHER                       -> Reached("EXIST", {}, "rule")

EncByRules(task, match) ==
    IF task = "NEG"
    THEN IF match = "none" THEN Reached("MISS", {}, "rule")
                           ELSE Reached("DIRTY", {"DMP"}, "rule")
    ELSE CASE match = "none"              -> Reached("MISS", {"EM"}, "rule")
           [] match = "partial"           -> Reached("CORRUPT_WRONG", {"EW"}, "rule")
           [] match = "partial_ambiguous" -> Reached("CORRUPT_AMBIG", {"EA"}, "rule")
           [] OTHER                       -> Reached("EXIST", {}, "rule")

\* The defects the reply lists are taken over as they are, whatever codes they
\* name; the retrieval probe below filters its own.
EncVerdict(c, task, r, match) ==
    IF c.use /\ IsDict(r) /\ r.state \in EncStates
    THEN IF r.kind = "broken" THEN Raised
                              ELSE Reached(r.state, r.defects, "llm")
    ELSE IF FallbackRejected(c, r) THEN Raised
    ELSE EncByRules(task, match)

(* ------------------------------ Retrieval ------------------------------ *)

\* What the retrieved items show: whether there are any, whether the first one
\* scores above the noise threshold, whether one of them supports a fact of
\* f_key, whether the first such item comes after tau_rank, and whether the
\* signal-to-noise ratio is below tau_snr.
Retrieved == {o \in [items : BOOLEAN, high : BOOLEAN, hit : BOOLEAN,
                     late : BOOLEAN, noisy : BOOLEAN] :
                /\ (o.high \/ o.hit) => o.items
                /\ o.late => o.hit
                /\ ~o.items => o.noisy}

RankDefects(o) == (IF o.late THEN {"LATE"} ELSE {}) \cup
                  (IF o.noisy THEN {"NOI"} ELSE {})

NoiseVerdict(noise, src) == IF noise THEN Reached("NOISE", {"NIR"}, src)
                                     ELSE Reached("MISS", {}, src)

\* second is the answer of the second, optional noise judge: it is consulted
\* whenever rules may decide, even with use_llm_assist off.
RetNegVerdict(c, r, second, o) ==
    IF c.use /\ IsDict(r) THEN NoiseVerdict(r.state = "NOISE", "llm")
    ELSE IF c.use /\ (c.require \/ c.noFallback) THEN Raised
    ELSE NoiseVerdict(o.high \/ (o.items /\ ~c.noFallback /\ second), "rule")

RetPosVerdict(c, r, o) ==
    IF c.use /\ r.kind = "broken" THEN Raised
    ELSE IF c.use /\ r.kind = "object" /\ r.state \in {"HIT", "MISS"}
    THEN Reached(r.state,
                 (r.defects \cap {"RF", "LATE", "NOI"}) \cup
                    (IF IsStrict(c) THEN {} ELSE RankDefects(o)),
                 "llm")
    ELSE IF FallbackRejected(c, r) THEN Raised
    ELSE IF ~o.hit THEN Reached("MISS", {}, "rule")
    ELSE Reached("HIT",
                 RankDefects(o) \cup
                    (IF c.use /\ IsDict(r) THEN r.defects \cap {"LATE", "NOI"}
                                           ELSE {}),
                 "rule")

RetVerdict(c, task, r, second, o) ==
    IF task = "NEG" THEN RetNegVerdict(c, r, second, o)
                    ELSE RetPosVerdict(c, r, o)

(* ------------------------- Answer correctness -------------------------- *)

JudgeReplies == {"none", "array", "right", "wrong"}

JudgeSpoke(c, j) == c.judge /\ j \in {"right", "wrong"}

\* judge_answer_correctness: the call itself raises only when it gets no JSON.
JudgeRaises(c, j) == c.judge /\ c.judgeMust /\ j = "none"

AnswerCorrect(c, j, byRule) == IF JudgeSpoke(c, j) THEN j = "right" ELSE byRule

(* ----------------------------- Generation ------------------------------ *)

SubStates == {"GF", "GRF", "GH", "NONE"}

\* The inputs of the generation probe: the two correctness judges and the rule
\* for the oracle and the online answer, whether the oracle answer is grounded
\* in the oracle context, the answer judgement (with the correctness and the
\* substate it names) and the three-way comparison.
Answers == [oracleJudge : JudgeReplies, onlineJudge : JudgeReplies,
            oracleRule : BOOLEAN, onlineRule : BOOLEAN, grounded : BOOLEAN,
            judgement : [kind : ReplyKinds, correct : BOOLEAN, sub : SubStates],
            comparison : [kind : ReplyKinds, defects : SUBSET {"GH", "GF", "GRF"}]]

OracleCorrect(c, a) == ~IsStrict(c) /\ AnswerCorrect(c, a.oracleJudge, a.oracleRule)

OnlineCorrect(c, a) == ~IsStrict(c) /\ AnswerCorrect(c, a.onlineJudge, a.onlineRule)

GenRaises(c, a) ==
    \/ ~IsStrict(c) /\ (JudgeRaises(c, a.oracleJudge) \/ JudgeRaises(c, a.onlineJudge))
    \/ c.use /\ c.require /\ ~IsDict(a.judgement)
    \/ c.use /\ (c.require \/ c.noFallback) /\ ~IsDict(a.comparison)

\* What the answer judgement names, "NONE" when it was not asked or gave none.
SubState(c, a) == IF c.use /\ IsDict(a.judgement) THEN a.judgement.sub ELSE "NONE"

\* In the strict profile no correctness is judged: only failures are left.
StrictGenVerdict(c, task, a) ==
    IF task = "NEG"
    THEN IF a.comparison.kind # "broken"
            /\ "GH" \in a.comparison.defects \cup {SubState(c, a)}
         THEN Reached("FAIL", {"GH"}, "llm")
         ELSE Raised
    ELSE IF SubState(c, a) \in {"GF", "GRF"}
         THEN Reached("FAIL", {SubState(c, a)}, "llm")
         ELSE Raised

FailVerdict(c, task, a) ==
    IF task = "NEG" THEN Reached("FAIL", {"GH"},
                                 IF JudgeSpoke(c, a.oracleJudge) THEN "llm" ELSE "rule")
    ELSE IF SubState(c, a) \in {"GF", "GRF"}
         THEN Reached("FAIL", {SubState(c, a)}, "llm")
    ELSE Reached("FAIL", {IF a.grounded THEN "GRF" ELSE "GF"}, "rule")

GenVerdict(c, task, a) ==
    IF GenRaises(c, a) THEN Raised
    ELSE IF OracleCorrect(c, a)
         THEN Reached("PASS", {}, IF JudgeSpoke(c, a.oracleJudge) THEN "llm" ELSE "rule")
    ELSE IF IsStrict(c) THEN StrictGenVerdict(c, task, a)
    ELSE FailVerdict(c, task, a)

(* ----------------------------- Attribution ----------------------------- *)

\* The reply of the attribution judge: a primary cause ("OTHER" when it is none
\* the agent knows) and the secondary causes it lists.
CauseReply == [kind : ReplyKinds, primary : Layers \cup {"none", "OTHER"},
               secondary : SUBSET Layers]

\* Fault: RF is added where it is due but never taken back.
ReconciledWithoutSuppression(task, enc, ret) ==
    IF task = "POS" /\ ret.state = "MISS" /\ enc.state # "MISS"
    THEN ret.defects \cup {"RF"} ELSE ret.defects

\* Retrieval defects after the reconciliation of RF with the encoding state.
ReconciledDefects(task, enc, ret) ==
    LET added == IF task = "POS" /\ ret.state = "MISS" /\ enc.state # "MISS"
                 THEN ret.defects \cup {"RF"} ELSE ret.defects
    IN IF enc.state = "MISS" THEN added \ {"RF"} ELSE added

Reconciled(task, enc, ret) ==
    [ret EXCEPT !.defects = ReconciledDefects(task, enc, ret)]

\* Fault: the encoding is judged by its state, as it is for the primary cause.
LayerHasIssueByState(layer, enc, ret, gen) ==
    \/ layer = "encoding"   /\ enc.state # "EXIST"
    \/ layer = "retrieval"  /\ (ret.state \in {"MISS", "NOISE"} \/ ret.defects # {})
    \/ layer = "generation" /\ (gen.state = "FAIL" \/ gen.defects # {})

LayerHasIssue(layer, enc, ret, gen) ==
    \/ layer = "encoding"   /\ (enc.state # "EXIST" \/ enc.defects # {})
    \/ layer = "retrieval"  /\ (ret.state \in {"MISS", "NOISE"} \/ ret.defects # {})
    \/ layer = "generation" /\ (gen.state = "FAIL" \/ gen.defects # {})

\* The encoding state alone decides for the encoding layer here, its defects
\* do not.
PrimaryCause(enc, ret, gen) ==
    IF enc.state # "EXIST" THEN "encoding"
    ELSE IF LayerHasIssue("retrieval", enc, ret, gen) THEN "retrieval"
    ELSE IF LayerHasIssue("generation", enc, ret, gen) THEN "generation"
    ELSE "none"

Asked(c, j) == c.use /\ j.kind = "object"

\* Fault: whatever cause the judge names is taken over.
FinalPrimaryUnchecked(c, enc, ret, gen, j) ==
    IF Asked(c, j) THEN j.primary ELSE PrimaryCause(enc, ret, gen)

FinalPrimary(c, enc, ret, gen, j) ==
    IF Asked(c, j) /\ j.primary # "OTHER" THEN j.primary
                                          ELSE PrimaryCause(enc, ret, gen)

FinalSecondary(c, enc, ret, gen, j) ==
    IF Asked(c, j) THEN j.secondary \ {FinalPrimary(c, enc, ret, gen, j)}
    ELSE {l \in Layers \ {PrimaryCause(enc, ret, gen)} :
            LayerHasIssue(l, enc, ret, gen)}

AttributionRaises(c, j) == c.use /\ j.kind = "broken"

FinalJudgements == {"system_answer_correct",
                    "system_answer_wrong_but_oracle_answer_correct",
                    "oracle_answer_incorrect"}

\* Fault: the oracle answer's own judge is asked, not the probe's conclusion.
FinalJudgementByJudge(c, a) ==
    IF OnlineCorrect(c, a) THEN "system_answer_correct"
    ELSE IF AnswerCorrect(c, a.oracleJudge, a.oracleRule)
         THEN "system_answer_wrong_but_oracle_answer_correct"
    ELSE "oracle_answer_incorrect"

FinalJudgement(c, a) ==
    IF OnlineCorrect(c, a) THEN "system_answer_correct"
    ELSE IF OracleCorrect(c, a) THEN "system_answer_wrong_but_oracle_answer_correct"
    ELSE "oracle_answer_incorrect"
=============================================================================
