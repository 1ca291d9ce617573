---------------------------- MODULE JudgingProofs ---------------------------
(***************************************************************************)
(* Proofs about Judging for every profile and every set of replies: the    *)
(* shape of all verdicts and results, the RF gate, that profiles which     *)
(* reject rules never rest on one, and how causes and defects agree.       *)
(***************************************************************************)
EXTENDS Judging, TLAPS

\* What a probe concludes is a verdict, and never the mark of a probe that has
\* not been judged: EncodingAgent.assess_bundle.
LEMMA EncVerdictType ==
    ASSUME NEW c \in Config, NEW t \in TaskTypes, NEW r \in Reply, NEW m \in Matches
    PROVE  /\ EncVerdict(c, t, r, m) \in Verdict
           /\ EncVerdict(c, t, r, m) # Pending
<1>1. EncByRules(t, m) \in Verdict /\ EncByRules(t, m) # Pending
  BY DEF EncByRules, Verdict, Reached, Pending, TaskTypes, Matches, EncStates,
         DefectCodes, Sources
<1>2. Raised \in Verdict /\ Raised # Pending
  BY DEF Raised, Verdict, Pending
<1>3. r.state \in EncStates =>
        Reached(r.state, r.defects, "llm") \in Verdict
          /\ Reached(r.state, r.defects, "llm") # Pending
  BY DEF Reply, Reached, Verdict, Pending, Sources
<1> QED  BY <1>1, <1>2, <1>3 DEF EncVerdict

\* The same for evaluate_retrieval_probe.
LEMMA RetVerdictType ==
    ASSUME NEW c \in Config, NEW t \in TaskTypes, NEW r \in Reply,
           NEW b \in BOOLEAN, NEW o \in Retrieved
    PROVE  /\ RetVerdict(c, t, r, b, o) \in Verdict
           /\ RetVerdict(c, t, r, b, o) # Pending
<1>1. \A D \in SUBSET DefectCodes, s \in RetStates, src \in Sources :
        Reached(s, D, src) \in Verdict /\ Reached(s, D, src) # Pending
  BY DEF Reached, Verdict, Pending
<1>2. Raised \in Verdict /\ Raised # Pending
  BY DEF Raised, Verdict, Pending
<1>3. RankDefects(o) \in SUBSET DefectCodes
  BY DEF RankDefects, DefectCodes
<1>4. r.defects \in SUBSET DefectCodes
  BY DEF Reply
<1>5. RetPosVerdict(c, r, o) \in Verdict /\ RetPosVerdict(c, r, o) # Pending
  <2> DEFINE said == (r.defects \cap {"RF", "LATE", "NOI"}) \cup
                       (IF IsStrict(c) THEN {} ELSE RankDefects(o))
             found == RankDefects(o) \cup
                       (IF c.use /\ IsDict(r) THEN r.defects \cap {"LATE", "NOI"}
                                              ELSE {})
  <2>1. said \in SUBSET DefectCodes /\ found \in SUBSET DefectCodes
    BY <1>3, <1>4
  <2>2. {"HIT", "MISS"} \subseteq RetStates /\ {"llm", "rule"} \subseteq Sources
    BY DEF RetStates, Sources
  <2>3. r.state \in {"HIT", "MISS"} => Reached(r.state, said, "llm") \in Verdict
                                        /\ Reached(r.state, said, "llm") # Pending
    BY <1>1, <2>1, <2>2
  <2>4. Reached("MISS", {}, "rule") \in Verdict /\ Reached("MISS", {}, "rule") # Pending
    BY <1>1, <2>2
  <2>5. Reached("HIT", found, "rule") \in Verdict /\ Reached("HIT", found, "rule") # Pending
    BY <1>1, <2>1, <2>2
  <2> HIDE DEF said, found
  <2>6. \/ RetPosVerdict(c, r, o) = Raised
        \/ RetPosVerdict(c, r, o) = Reached("MISS", {}, "rule")
        \/ RetPosVerdict(c, r, o) = Reached("HIT", found, "rule")
        \/ /\ r.state \in {"HIT", "MISS"}
           /\ RetPosVerdict(c, r, o) = Reached(r.state, said, "llm")
    BY DEF RetPosVerdict, said, found
  <2> QED  BY <1>2, <2>3, <2>4, <2>5, <2>6
<1>6. RetNegVerdict(c, r, b, o) \in Verdict /\ RetNegVerdict(c, r, b, o) # Pending
  <2>1. \A n \in BOOLEAN, src \in Sources :
          NoiseVerdict(n, src) \in Verdict /\ NoiseVerdict(n, src) # Pending
    BY <1>1 DEF NoiseVerdict, RetStates, DefectCodes
  <2>2. (o.high \/ (o.items /\ ~c.noFallback /\ b)) \in BOOLEAN
    OBVIOUS
  <2> QED  BY <1>2, <2>1, <2>2 DEF RetNegVerdict, Sources
<1> QED  BY <1>5, <1>6 DEF RetVerdict

\* The same for evaluate_generation_probe.
LEMMA GenVerdictType ==
    ASSUME NEW c \in Config, NEW t \in TaskTypes, NEW a \in Answers
    PROVE  /\ GenVerdict(c, t, a) \in Verdict
           /\ GenVerdict(c, t, a) # Pending
<1>1. \A D \in SUBSET DefectCodes, s \in GenStates, src \in Sources :
        Reached(s, D, src) \in Verdict /\ Reached(s, D, src) # Pending
  BY DEF Reached, Verdict, Pending
<1>2. Raised \in Verdict /\ Raised # Pending
  BY DEF Raised, Verdict, Pending
<1>3. \/ GenVerdict(c, t, a) = Raised
      \/ \E s \in GenStates, D \in SUBSET DefectCodes, src \in Sources :
              GenVerdict(c, t, a) = Reached(s, D, src)
  BY DEF GenVerdict, StrictGenVerdict, FailVerdict, GenStates, DefectCodes, Sources
<1> QED  BY <1>1, <1>2, <1>3

\* With the fallback disabled the encoding probe raises rather than conclude by
\* rule: the last two guards of EncodingAgent.assess_bundle.
LEMMA EncSource ==
    ASSUME NEW c \in Config, c.use, c.noFallback, NEW t \in TaskTypes,
           NEW r \in Reply, NEW m \in Matches, EncVerdict(c, t, r, m).ok
    PROVE  EncVerdict(c, t, r, m).source = "llm"
<1>1. EncVerdict(c, t, r, m) \in {Raised, Reached(r.state, r.defects, "llm")}
  BY DEF EncVerdict, FallbackRejected
<1> QED  BY <1>1 DEF Raised, Reached

\* The same for evaluate_retrieval_probe.
LEMMA RetSource ==
    ASSUME NEW c \in Config, c.use, c.noFallback, NEW t \in TaskTypes,
           NEW r \in Reply, NEW b \in BOOLEAN, NEW o \in Retrieved,
           RetVerdict(c, t, r, b, o).ok
    PROVE  RetVerdict(c, t, r, b, o).source = "llm"
<1>1. \/ RetVerdict(c, t, r, b, o) = Raised
      \/ \E s, D : RetVerdict(c, t, r, b, o) = Reached(s, D, "llm")
  BY DEF RetVerdict, RetNegVerdict, RetPosVerdict, NoiseVerdict, FallbackRejected
<1> QED  BY <1>1 DEF Raised, Reached

\* In the strict profile evaluate_generation_probe concludes from the language
\* model or not at all.
LEMMA GenSource ==
    ASSUME NEW c \in Config, c.use, c.require, c.noFallback, NEW t \in TaskTypes,
           NEW a \in Answers, GenVerdict(c, t, a).ok
    PROVE  GenVerdict(c, t, a).source = "llm"
<1>1. \/ GenVerdict(c, t, a) = Raised
      \/ \E s, D : GenVerdict(c, t, a) = Reached(s, D, "llm")
  BY DEF GenVerdict, OracleCorrect, StrictGenVerdict, IsStrict
<1> QED  BY <1>1 DEF Raised, Reached

\* What AttributionAgent.attribute reports has the shape of a result.
LEMMA ResultType ==
    ASSUME NEW c \in Config, NEW t \in TaskTypes, NEW e \in Verdict,
           NEW r \in Verdict, NEW g \in Verdict, NEW j \in CauseReply, NEW a
    PROVE  /\ ReconciledDefects(t, e, r) \in SUBSET DefectCodes
           /\ Reconciled(t, e, r) \in Verdict
           /\ Reconciled(t, e, r).defects = ReconciledDefects(t, e, r)
           /\ FinalPrimary(c, e, r, g, j) \in Layers \cup {"none"}
           /\ FinalSecondary(c, e, r, g, j) \in SUBSET Layers
           /\ FinalJudgement(c, a) \in FinalJudgements
<1>1. ReconciledDefects(t, e, r) \in SUBSET DefectCodes
  BY DEF ReconciledDefects, Verdict, DefectCodes
<1>2. /\ Reconciled(t, e, r) \in Verdict
      /\ Reconciled(t, e, r).defects = ReconciledDefects(t, e, r)
  BY <1>1 DEF Reconciled, Verdict
<1>3. FinalPrimary(c, e, r, g, j) \in Layers \cup {"none"}
  BY DEF FinalPrimary, PrimaryCause, Layers, CauseReply
<1>4. FinalSecondary(c, e, r, g, j) \in SUBSET Layers
  BY DEF FinalSecondary, CauseReply
<1>5. FinalJudgement(c, a) \in FinalJudgements
  BY DEF FinalJudgement, FinalJudgements
<1> QED  BY <1>1, <1>2, <1>3, <1>4, <1>5

----------------------------------------------------------------------------
\* A verdict that stands where rules are rejected came from the language model.
Provenance ==
    cfg.use /\ cfg.noFallback =>
        /\ enc.ok => enc.source = "llm"
        /\ ret.ok => ret.source = "llm"
        /\ cfg.require /\ gen.ok => gen.source = "llm"

\* An attributed result is that of three verdicts, reconciled.
ResultOfVerdicts ==
    Attributed => /\ AllOk
                  /\ result.retDefects = ReconciledDefects(task, enc, ret)

IInv == TypeOK /\ Provenance /\ ResultOfVerdicts

LEMMA InitEstablishes == Init => IInv
BY JudgingAssumption
   DEF Init, IInv, TypeOK, Provenance, ResultOfVerdicts, Attributed, Pending,
       Verdict, Result, NoResult, Stages, FinalJudgements

LEMMA NextPreserves == IInv /\ [Next]_vars => IInv'
<1> SUFFICES ASSUME IInv, [Next]_vars PROVE IInv'
  OBVIOUS
<1> USE JudgingAssumption
<1>0. cfg \in Config /\ task \in TaskTypes
  BY DEF IInv, TypeOK
<1>1. ASSUME NEW r \in EncReplies, NEW m \in Matches, JudgeEncoding(r, m)
      PROVE  IInv'
  <2>1. r \in Reply
    OBVIOUS
  <2>2. enc' \in Verdict /\ enc' # Pending
    BY <1>0, <1>1, <2>1, EncVerdictType DEF JudgeEncoding
  <2>3. TypeOK'
    BY <1>1, <2>2 DEF JudgeEncoding, IInv, TypeOK
  <2>4. cfg.use /\ cfg.noFallback /\ enc'.ok => enc'.source = "llm"
    BY <1>0, <1>1, <2>1, EncSource DEF JudgeEncoding
  <2>5. Provenance'
    BY <1>1, <2>4 DEF JudgeEncoding, IInv, Provenance
  <2>6. ~enc.ok
    BY <1>1 DEF JudgeEncoding, Pending
  <2>7. ResultOfVerdicts'
    BY <1>1, <2>6 DEF JudgeEncoding, IInv, ResultOfVerdicts, Attributed, AllOk
  <2> QED  BY <2>3, <2>5, <2>7 DEF IInv
<1>2. ASSUME NEW r \in RetReplies, NEW b \in BOOLEAN, NEW o \in Views,
             JudgeRetrieval(r, b, o)
      PROVE  IInv'
  <2>1. r \in Reply /\ o \in Retrieved
    OBVIOUS
  <2>2. ret' \in Verdict
    BY <1>0, <1>2, <2>1, RetVerdictType DEF JudgeRetrieval
  <2>3. TypeOK'
    BY <1>2, <2>2 DEF JudgeRetrieval, IInv, TypeOK
  <2>4. cfg.use /\ cfg.noFallback /\ ret'.ok => ret'.source = "llm"
    BY <1>0, <1>2, <2>1, RetSource DEF JudgeRetrieval
  <2>5. Provenance'
    BY <1>2, <2>4 DEF JudgeRetrieval, IInv, Provenance
  <2>6. ~ret.ok
    BY <1>2 DEF JudgeRetrieval, Pending
  <2>7. ResultOfVerdicts'
    BY <1>2, <2>6 DEF JudgeRetrieval, IInv, ResultOfVerdicts, Attributed, AllOk
  <2> QED  BY <2>3, <2>5, <2>7 DEF IInv
<1>3. ASSUME NEW a \in AnswerSets, JudgeGeneration(a)
      PROVE  IInv'
  <2>1. a \in Answers
    OBVIOUS
  <2>2. gen' \in Verdict /\ gen' # Pending
    BY <1>0, <1>3, <2>1, GenVerdictType DEF JudgeGeneration
  <2>3. TypeOK'
    BY <1>3, <2>2 DEF JudgeGeneration, IInv, TypeOK
  <2>4. cfg.use /\ cfg.noFallback /\ cfg.require /\ gen'.ok => gen'.source = "llm"
    BY <1>0, <1>3, <2>1, GenSource DEF JudgeGeneration
  <2>5. Provenance'
    BY <1>3, <2>4 DEF JudgeGeneration, IInv, Provenance
  <2>6. ~gen.ok
    BY <1>3 DEF JudgeGeneration, Pending
  <2>7. ResultOfVerdicts'
    BY <1>3, <2>6 DEF JudgeGeneration, IInv, ResultOfVerdicts, Attributed, AllOk
  <2> QED  BY <2>3, <2>5, <2>7 DEF IInv
<1>4. ASSUME ProbeError PROVE IInv'
  <2>1. NoResult("raised") \in Result
    BY DEF NoResult, Result, Stages, FinalJudgements
  <2>2. TypeOK'
    BY <1>4, <2>1 DEF ProbeError, IInv, TypeOK
  <2>3. Provenance'
    BY <1>4 DEF ProbeError, IInv, Provenance
  <2>4. ~Attributed'
    BY <1>4 DEF ProbeError, Attributed, NoResult
  <2> QED  BY <2>2, <2>3, <2>4 DEF IInv, ResultOfVerdicts
<1>5. ASSUME NEW j \in CauseReplies, Attribute(j) PROVE IInv'
  <2> DEFINE merged == Reconciled(task, enc, ret)
             judged == FinalJudgement(cfg, CHOOSE a \in answers : TRUE)
             attributed == [stage      |-> "attributed",
                            retDefects |-> merged.defects,
                            defects    |-> enc.defects \cup merged.defects \cup gen.defects,
                            primary    |-> FinalPrimary(cfg, enc, merged, gen, j),
                            secondary  |-> FinalSecondary(cfg, enc, merged, gen, j),
                            judgement  |-> judged,
                            overruled  |-> Asked(cfg, j)]
  <2>1. enc \in Verdict /\ ret \in Verdict /\ gen \in Verdict /\ j \in CauseReply
    BY DEF IInv, TypeOK
  <2>2. /\ merged \in Verdict
        /\ merged.defects = ReconciledDefects(task, enc, ret)
        /\ judged \in FinalJudgements
    BY <1>0, <2>1, ResultType
  <2>3. /\ FinalPrimary(cfg, enc, merged, gen, j) \in Layers \cup {"none"}
        /\ FinalSecondary(cfg, enc, merged, gen, j) \in SUBSET Layers
    BY <1>0, <2>1, <2>2, ResultType
  <2>4. enc.defects \cup merged.defects \cup gen.defects \in SUBSET DefectCodes
    BY <2>1, <2>2 DEF Verdict
  <2>a. Asked(cfg, j) \in BOOLEAN
    BY <1>0, <2>1 DEF Asked, Config
  <2>5. attributed \in Result
    BY <2>2, <2>3, <2>4, <2>a DEF Result, Stages, Verdict
  <2>6. NoResult("raised") \in Result
    BY DEF NoResult, Result, Stages, FinalJudgements
  <2>7. result' \in {NoResult("raised"), attributed}
    BY <1>5 DEF Attribute
  <2>8. TypeOK'
    BY <1>5, <2>5, <2>6, <2>7 DEF Attribute, IInv, TypeOK
  <2>9. Provenance'
    BY <1>5 DEF Attribute, IInv, Provenance
  <2>10. ResultOfVerdicts'
    BY <1>5, <2>2, <2>7 DEF Attribute, ResultOfVerdicts, Attributed, AllOk, NoResult
  <2> QED  BY <2>8, <2>9, <2>10 DEF IInv
<1>6. ASSUME UNCHANGED vars PROVE IInv'
  BY <1>6 DEF vars, IInv, TypeOK, Provenance, ResultOfVerdicts, Attributed, AllOk
<1> QED  BY <1>1, <1>2, <1>3, <1>4, <1>5, <1>6 DEF Next

LEMMA Invariance == Spec => []IInv
BY InitEstablishes, NextPreserves, PTL DEF Spec

\* Every verdict and every attribution result of a run is well-formed,
\* whatever the profiles and the replies.
THEOREM TypeCorrect == Spec => []TypeOK
BY Invariance, PTL DEF IInv

\* attribution_agent.attribute never charges RF to a question whose fact was
\* not encoded, and charges it to every POS miss whose fact was.
THEOREM RFGateHolds == Spec => []RFGate
<1>1. IInv => RFGate
  BY DEF IInv, TypeOK, ResultOfVerdicts, RFGate, ReconciledDefects, Verdict
<1> QED  BY <1>1, Invariance, PTL

\* No attribution of a profile without fallback rests on a rule verdict of the
\* encoding or retrieval probe, nor, in the strict profile, of any probe.
THEOREM NoSilentRuleHolds == Spec => []NoSilentRule
<1>1. IInv => NoSilentRule
  BY DEF IInv, Provenance, ResultOfVerdicts, NoSilentRule, AllOk
<1> QED  BY <1>1, Invariance, PTL

(* -------------- What is concluded from which inputs --------------------- *)

\* The result attribute(j) makes of the three verdicts.
ResultOf(j) ==
    LET merged == Reconciled(task, enc, ret)
    IN [stage      |-> "attributed",
        retDefects |-> merged.defects,
        defects    |-> enc.defects \cup merged.defects \cup gen.defects,
        primary    |-> FinalPrimary(cfg, enc, merged, gen, j),
        secondary  |-> FinalSecondary(cfg, enc, merged, gen, j),
        judgement  |-> FinalJudgement(cfg, CHOOSE a \in answers : TRUE),
        overruled  |-> Asked(cfg, j)]

\* Each verdict is the one its table gives for some input, and a result is made
\* of these three and of the answers that were judged.
Grounds ==
    /\ enc # Pending => \E r \in EncReplies, m \in Matches : enc = EncVerdict(cfg, task, r, m)
    /\ ret # Pending => \E r \in RetReplies, b \in BOOLEAN, o \in Views :
                            ret = RetVerdict(cfg, task, r, b, o)
    /\ gen # Pending => \E a \in AnswerSets : /\ answers = {a}
                                              /\ gen = GenVerdict(cfg, task, a)
    /\ Attributed => \E j \in CauseReplies : result = ResultOf(j)

LEMMA GroundsPreserved == IInv /\ Grounds /\ [Next]_vars => Grounds'
<1> SUFFICES ASSUME IInv, Grounds, [Next]_vars PROVE Grounds'
  OBVIOUS
<1>1. Attributed => enc.ok /\ ret.ok /\ gen.ok
  BY DEF IInv, ResultOfVerdicts, AllOk
<1>2. ~Pending.ok
  BY DEF Pending
<1>3. ASSUME NEW r \in EncReplies, NEW m \in Matches, JudgeEncoding(r, m)
      PROVE  Grounds'
  <2>1. ~Attributed /\ UNCHANGED <<cfg, task, ret, gen, answers, result>>
        /\ enc' = EncVerdict(cfg, task, r, m)
    BY <1>1, <1>2, <1>3 DEF JudgeEncoding
  <2> QED
    BY <2>1 DEF Grounds, Attributed
<1>4. ASSUME NEW r \in RetReplies, NEW b \in BOOLEAN, NEW o \in Views,
             JudgeRetrieval(r, b, o)
      PROVE  Grounds'
  <2>1. ~Attributed /\ UNCHANGED <<cfg, task, enc, gen, answers, result>>
        /\ ret' = RetVerdict(cfg, task, r, b, o)
    BY <1>1, <1>2, <1>4 DEF JudgeRetrieval
  <2> QED
    BY <2>1 DEF Grounds, Attributed
<1>5. ASSUME NEW a \in AnswerSets, JudgeGeneration(a)
      PROVE  Grounds'
  <2>1. ~Attributed /\ UNCHANGED <<cfg, task, enc, ret, result>>
        /\ gen' = GenVerdict(cfg, task, a) /\ answers' = {a}
    BY <1>1, <1>2, <1>5 DEF JudgeGeneration
  <2> QED
    BY <2>1 DEF Grounds, Attributed
<1>6. ASSUME ProbeError PROVE Grounds'
  <2>1. UNCHANGED <<cfg, task, enc, ret, gen, answers>> /\ ~Attributed'
    BY <1>6 DEF ProbeError, Attributed, NoResult
  <2> QED
    BY <2>1 DEF Grounds
<1>7. ASSUME NEW j \in CauseReplies, Attribute(j) PROVE Grounds'
  <2>1. UNCHANGED <<cfg, task, enc, ret, gen, answers>>
    BY <1>7 DEF Attribute
  <2>2. ResultOf(j)' = ResultOf(j)
    BY <2>1 DEF ResultOf
  <2>3. ~Attributed' \/ result' = ResultOf(j)
    BY <1>7 DEF Attribute, Attributed, ResultOf, NoResult
  <2> QED
    BY <2>1, <2>2, <2>3 DEF Grounds
<1>8. CASE UNCHANGED vars
  BY <1>8 DEF vars, Grounds, Attributed, ResultOf
<1> QED  BY <1>3, <1>4, <1>5, <1>6, <1>7, <1>8 DEF Next

LEMMA GroundsInvariance == Spec => [](IInv /\ Grounds)
<1>1. Init => Grounds
  BY DEF Init, Grounds, Attributed, NoResult
<1> QED  BY <1>1, InitEstablishes, NextPreserves, GroundsPreserved, PTL DEF Spec

\* Without the language model EncodingAgent concludes by rule.
LEMMA EncByRuleOnly ==
    ASSUME NEW c \in Config, ~c.use, NEW t \in TaskTypes, NEW r \in Reply,
           NEW m \in Matches
    PROVE  EncVerdict(c, t, r, m).source = "rule"
<1>1. EncVerdict(c, t, r, m) = EncByRules(t, m)
  BY DEF EncVerdict, FallbackRejected
<1>2. \E s, D : EncByRules(t, m) = Reached(s, D, "rule")
  BY DEF EncByRules
<1> QED  BY <1>1, <1>2 DEF Reached

\* By rules, a fact that EncodingAgent found has no defect, and on a POS question
\* everything else has one.
LEMMA EncRuleDefects ==
    ASSUME NEW c \in Config, NEW t \in TaskTypes, NEW r \in Reply, NEW m \in Matches,
           EncVerdict(c, t, r, m).ok, EncVerdict(c, t, r, m).source = "rule"
    PROVE  LET v == EncVerdict(c, t, r, m)
           IN /\ v.state = "EXIST" => v.defects = {}
              /\ t = "POS" /\ v.defects = {} => v.state = "EXIST"
<1>1. EncVerdict(c, t, r, m) = EncByRules(t, m)
  <2>1. EncVerdict(c, t, r, m) \in {Raised, Reached(r.state, r.defects, "llm"), EncByRules(t, m)}
    BY DEF EncVerdict
  <2> QED
    BY <2>1 DEF Raised, Reached
<1>2. \/ EncByRules(t, m) = Reached("EXIST", {}, "rule")
      \/ \E s \in {"MISS", "CORRUPT_WRONG", "CORRUPT_AMBIG", "DIRTY"}, d \in DefectCodes :
            EncByRules(t, m) = Reached(s, {d}, "rule")
      \/ t = "NEG" /\ EncByRules(t, m) = Reached("MISS", {}, "rule")
  BY DEF EncByRules, Matches, TaskTypes, DefectCodes
<1>3. \A s, D, src : Reached(s, D, src).state = s /\ Reached(s, D, src).defects = D
  BY DEF Reached
<1>4. CASE EncByRules(t, m) = Reached("EXIST", {}, "rule")
  BY <1>1, <1>3, <1>4
<1>5. ASSUME NEW s \in {"MISS", "CORRUPT_WRONG", "CORRUPT_AMBIG", "DIRTY"},
             NEW d \in DefectCodes, EncByRules(t, m) = Reached(s, {d}, "rule")
      PROVE  /\ EncVerdict(c, t, r, m).state # "EXIST"
             /\ EncVerdict(c, t, r, m).defects # {}
  <2>1. /\ EncVerdict(c, t, r, m).state = s
        /\ EncVerdict(c, t, r, m).defects = {d}
    BY <1>1, <1>3, <1>5
  <2> QED
    BY <2>1
<1>6. CASE t = "NEG" /\ EncByRules(t, m) = Reached("MISS", {}, "rule")
  BY <1>1, <1>3, <1>6
<1> QED
  BY <1>2, <1>4, <1>5, <1>6

\* Whoever concludes, a POS retrieval is a hit or a miss.
LEMMA RetPosStates ==
    ASSUME NEW c \in Config, NEW r \in Reply, NEW b \in BOOLEAN, NEW o \in Retrieved,
           RetVerdict(c, "POS", r, b, o).ok
    PROVE  RetVerdict(c, "POS", r, b, o).state \in {"HIT", "MISS"}
<1>1. \/ RetVerdict(c, "POS", r, b, o) = Raised
      \/ \E s \in {"HIT", "MISS"} : \E D, src :
            RetVerdict(c, "POS", r, b, o) = Reached(s, D, src)
  BY DEF RetVerdict, RetPosVerdict
<1> QED  BY <1>1 DEF Raised, Reached

\* The generation probe passes exactly the answers found correct, without a
\* defect, and has one for every failure.
LEMMA GenPasses ==
    ASSUME NEW c \in Config, NEW t \in TaskTypes, NEW a \in Answers,
           GenVerdict(c, t, a).ok
    PROVE  LET v == GenVerdict(c, t, a)
           IN /\ v.state = "PASS" <=> OracleCorrect(c, a)
              /\ v.state = "FAIL" <=> ~OracleCorrect(c, a)
              /\ v.state = "FAIL" <=> v.defects # {}
<1>1. \A s, D, src : /\ Reached(s, D, src).state = s /\ Reached(s, D, src).defects = D
                     /\ ~Raised.ok
  BY DEF Reached, Raised
<1>2. CASE OracleCorrect(c, a)
  <2>1. \E src : GenVerdict(c, t, a) = Reached("PASS", {}, src)
    BY <1>1, <1>2 DEF GenVerdict
  <2> QED
    BY <1>1, <1>2, <2>1
<1>3. CASE ~OracleCorrect(c, a)
  <2>1. \E d, src : GenVerdict(c, t, a) = Reached("FAIL", {d}, src)
    <3>1. CASE IsStrict(c)
      BY <1>1, <1>3, <3>1 DEF GenVerdict, StrictGenVerdict
    <3>2. CASE ~IsStrict(c)
      BY <1>1, <1>3, <3>2 DEF GenVerdict, FailVerdict
    <3> QED
      BY <3>1, <3>2
  <2>2. PICK d, src : GenVerdict(c, t, a) = Reached("FAIL", {d}, src)
    BY <2>1
  <2>3. GenVerdict(c, t, a).state = "FAIL" /\ GenVerdict(c, t, a).defects = {d}
    BY <1>1, <2>2
  <2> QED
    BY <1>3, <2>3
<1> QED  BY <1>2, <1>3

\* With rules only, attribute clears a POS question of any cause exactly when no
\* probe found a defect.
THEOREM BlameMatchesDefectsHolds == Spec => []BlameMatchesDefects
<1>1. ASSUME IInv, Grounds, Attributed, ~cfg.use, task = "POS"
      PROVE  result.primary = "none" <=> result.defects = {}
  <2> DEFINE merged == Reconciled(task, enc, ret)
  <2>0. cfg \in Config /\ enc \in Verdict /\ ret \in Verdict /\ gen \in Verdict
    BY <1>1, JudgingAssumption DEF IInv, TypeOK
  <2>1. enc.ok /\ ret.ok /\ gen.ok /\ enc # Pending /\ ret # Pending /\ gen # Pending
    BY <1>1 DEF IInv, ResultOfVerdicts, AllOk, Pending
  <2>2. enc.state = "EXIST" <=> enc.defects = {}
    <3>1. PICK r \in EncReplies, m \in Matches : enc = EncVerdict(cfg, task, r, m)
      BY <1>1, <2>1 DEF Grounds
    <3>2. r \in Reply /\ task \in TaskTypes
      BY <1>1, JudgingAssumption DEF TaskTypes
    <3>3. enc.source = "rule"
      BY <1>1, <2>0, <3>1, <3>2, EncByRuleOnly
    <3> QED
      BY <1>1, <2>0, <2>1, <3>1, <3>2, <3>3, EncRuleDefects
  <2>3. ret.state \in {"HIT", "MISS"}
    BY <1>1, <2>0, <2>1, RetPosStates, JudgingAssumption DEF Grounds
  <2>4. gen.state = "FAIL" <=> gen.defects # {}
    BY <1>1, <2>0, <2>1, GenPasses, JudgingAssumption DEF Grounds, TaskTypes
  <2>5. PICK j \in CauseReplies : result = ResultOf(j)
    BY <1>1 DEF Grounds
  <2>6. /\ result.primary = PrimaryCause(enc, merged, gen)
        /\ result.defects = enc.defects \cup merged.defects \cup gen.defects
    BY <1>1, <2>5 DEF ResultOf, FinalPrimary, Asked
  <2>7. /\ merged.state = ret.state
        /\ merged.defects = ReconciledDefects(task, enc, ret)
    BY <2>0 DEF Reconciled, Verdict
  <2>8. enc.state = "EXIST" /\ ret.state = "MISS" => merged.defects # {}
    BY <1>1, <2>7 DEF ReconciledDefects
  <2> HIDE DEF merged
  <2>9. result.primary = "none" <=> /\ enc.state = "EXIST"
                                    /\ merged.state \notin {"MISS", "NOISE"} /\ merged.defects = {}
                                    /\ gen.state # "FAIL" /\ gen.defects = {}
    BY <2>6 DEF PrimaryCause, LayerHasIssue
  <2> QED
    BY <2>2, <2>3, <2>4, <2>6, <2>7, <2>8, <2>9
<1>2. IInv /\ Grounds => BlameMatchesDefects
  BY <1>1 DEF BlameMatchesDefects
<1> QED  BY <1>2, GroundsInvariance, PTL

\* Unless the attribution judge is heard, attribute names a layer for every defect of
\* the union, also for those of a fact that exists, and has a defect for every layer
\* it names, but for a retrieval with nothing to retrieve and a bare encoding state.
THEOREM DefectsBlamedHolds == Spec => []DefectsBlamed
<1>1. ASSUME IInv, Grounds, Attributed, ~result.overruled
      PROVE  DefectsBlamed
  <2> DEFINE merged == Reconciled(task, enc, ret)
  <2>0. /\ cfg \in Config /\ enc \in Verdict /\ ret \in Verdict /\ gen \in Verdict
        /\ task \in TaskTypes
    BY <1>1, JudgingAssumption DEF IInv, TypeOK
  <2>1. enc.ok /\ ret.ok /\ gen.ok /\ enc # Pending /\ ret # Pending /\ gen # Pending
    BY <1>1 DEF IInv, ResultOfVerdicts, AllOk, Pending
  <2>2. /\ result.retDefects = merged.defects
        /\ result.defects = enc.defects \cup merged.defects \cup gen.defects
        /\ result.primary = PrimaryCause(enc, merged, gen)
        /\ result.secondary = {l \in Layers \ {PrimaryCause(enc, merged, gen)} :
                                 LayerHasIssue(l, enc, merged, gen)}
    <3>1. PICK j \in CauseReplies : result = ResultOf(j)
      BY <1>1 DEF Grounds
    <3>2. ~Asked(cfg, j)
      BY <1>1, <3>1 DEF ResultOf
    <3> QED
      BY <3>1, <3>2 DEF ResultOf, FinalPrimary, FinalSecondary
  <2>3. /\ merged.state = ret.state
        /\ merged.defects = ReconciledDefects(task, enc, ret)
    BY <2>0 DEF Reconciled, Verdict
  <2>4. gen.state = "FAIL" <=> gen.defects # {}
    BY <1>1, <2>0, <2>1, GenPasses, JudgingAssumption DEF Grounds
  <2>5. /\ enc.source = "rule" /\ enc.state = "EXIST" => enc.defects = {}
        /\ enc.source = "rule" /\ task = "POS" /\ enc.defects = {} => enc.state = "EXIST"
        /\ enc.source \in {"llm", "rule"}
    <3>1. PICK r \in EncReplies, m \in Matches : enc = EncVerdict(cfg, task, r, m)
      BY <1>1, <2>1 DEF Grounds
    <3>2. r \in Reply
      BY JudgingAssumption
    <3>3. enc.source \in {"llm", "rule"}
      <4>1. \/ enc = Raised
            \/ \E s, D, src : src \in {"llm", "rule"} /\ enc = Reached(s, D, src)
        BY <3>1 DEF EncVerdict, EncByRules
      <4> QED
        BY <2>1, <4>1 DEF Raised, Reached
    <3> QED
      BY <2>0, <2>1, <3>1, <3>2, <3>3, EncRuleDefects
  <2>6. task = "POS" => ret.state \in {"HIT", "MISS"}
    BY <1>1, <2>0, <2>1, RetPosStates, JudgingAssumption DEF Grounds
  <2> HIDE DEF merged
  <2>7. \A l \in Layers : LayerHasIssue(l, enc, merged, gen) => l \in Blamed
    BY <2>2 DEF Blamed, Layers
  <2>8. \A l \in Blamed : l \in Layers /\ LayerHasIssue(l, enc, merged, gen)
    <3>1. ASSUME NEW l, l = PrimaryCause(enc, merged, gen), l # "none"
          PROVE  l \in Layers /\ LayerHasIssue(l, enc, merged, gen)
      BY <3>1 DEF PrimaryCause, LayerHasIssue, Layers
    <3>2. ASSUME NEW l \in result.secondary
          PROVE  l \in Layers /\ LayerHasIssue(l, enc, merged, gen)
      BY <2>2, <3>2
    <3> QED
      BY <2>2, <3>1, <3>2 DEF Blamed
  <2>9. Defective \subseteq Blamed
    <3>1. \A l \in Defective : l \in Layers /\ LayerHasIssue(l, enc, merged, gen)
      BY <2>2 DEF Defective, DefectsOf, Layers, LayerHasIssue
    <3> QED
      BY <2>7, <3>1
  <2>10. ASSUME result.primary = "none", result.defects # {}
         PROVE  Blamed = {"encoding"} /\ result.defects = enc.defects /\ enc.source = "llm"
    <3>1. /\ enc.state = "EXIST"
          /\ ~LayerHasIssue("retrieval", enc, merged, gen)
          /\ ~LayerHasIssue("generation", enc, merged, gen)
      BY <2>2, <2>10 DEF PrimaryCause
    <3>2. merged.defects = {} /\ gen.defects = {}
      BY <3>1 DEF LayerHasIssue
    <3>3. result.defects = enc.defects
      BY <2>2, <3>2
    <3>4. enc.source = "llm"
      BY <2>5, <2>10, <3>1, <3>3
    <3>5. "encoding" \in Blamed
      BY <2>7, <2>10, <3>3 DEF LayerHasIssue, Layers
    <3>6. \A l \in Blamed : l = "encoding"
      BY <2>8, <3>1 DEF Layers
    <3> QED
      BY <3>3, <3>4, <3>5, <3>6
  <2>11. ASSUME task = "POS", NEW l \in Blamed \ Defective
         PROVE  \/ l = "retrieval" /\ enc.state = "MISS" /\ ret.state = "MISS"
                \/ l = "encoding" /\ enc.source = "llm"
    <3>1. LayerHasIssue(l, enc, merged, gen) /\ l \in Layers /\ DefectsOf(l) = {}
      BY <2>8, <2>11 DEF Defective
    <3>2. CASE l = "encoding"
      BY <2>5, <2>11, <3>1, <3>2 DEF LayerHasIssue, DefectsOf
    <3>3. CASE l = "retrieval"
      <4>1. merged.defects = {} /\ merged.state \in {"MISS", "NOISE"}
        BY <2>2, <3>1, <3>3 DEF LayerHasIssue, DefectsOf
      <4>2. ret.state = "MISS"
        BY <2>3, <2>6, <2>11, <4>1
      <4>3. enc.state = "MISS"
        BY <2>3, <2>11, <4>1, <4>2 DEF ReconciledDefects
      <4> QED
        BY <3>3, <4>2, <4>3
    <3>4. CASE l = "generation"
      BY <2>4, <3>1, <3>4 DEF LayerHasIssue, DefectsOf
    <3> QED
      BY <3>1, <3>2, <3>3, <3>4 DEF Layers
  <2> QED
    BY <2>9, <2>10, <2>11 DEF DefectsBlamed
<1>2. IInv /\ Grounds => DefectsBlamed
  BY <1>1 DEF DefectsBlamed
<1> QED  BY <1>2, GroundsInvariance, PTL

\* The final judgement and the generation verdict conclude from one and the same
\* correctness of the oracle answer.
THEOREM JudgementMatchesVerdictHolds == Spec => []JudgementMatchesVerdict
<1>1. ASSUME IInv, Grounds, Attributed
      PROVE  /\ result.judgement = "system_answer_wrong_but_oracle_answer_correct"
                  => gen.state = "PASS"
             /\ gen.state = "PASS" => result.judgement # "oracle_answer_incorrect"
  <2>0. cfg \in Config /\ task \in TaskTypes /\ gen.ok /\ gen # Pending
    BY <1>1, JudgingAssumption DEF IInv, TypeOK, ResultOfVerdicts, AllOk, Pending
  <2>1. PICK a \in AnswerSets : answers = {a} /\ gen = GenVerdict(cfg, task, a)
    BY <2>0, <1>1 DEF Grounds
  <2>2. gen.state = "PASS" <=> OracleCorrect(cfg, a)
    BY <2>0, <2>1, GenPasses, JudgingAssumption
  <2>3. (CHOOSE x \in answers : TRUE) = a
    BY <2>1
  <2>4. PICK j \in CauseReplies : result = ResultOf(j)
    BY <1>1 DEF Grounds
  <2>5. result.judgement = FinalJudgement(cfg, a)
    BY <2>3, <2>4 DEF ResultOf
  <2> QED
    BY <2>2, <2>5 DEF FinalJudgement
<1>2. IInv /\ Grounds => JudgementMatchesVerdict
  BY <1>1 DEF JudgementMatchesVerdict
<1> QED  BY <1>2, GroundsInvariance, PTL
=============================================================================
