SPECIFICATION Spec
CONSTANTS
    Configs <- MCConfigs
    EncReplies <- MCEncReplies
    RetReplies <- MCRetReplies
    Views <- MCViews
    AnswerSets <- MCAnswerSets
    CauseReplies <- MCCauseReplies
INVARIANTS
    TypeOK
    RFGate
    NoSilentRule
    BlameMatchesDefects
    DefectsBlamed
    JudgementMatchesVerdict
\* A judged question stops.
CHECK_DEADLOCK FALSE
