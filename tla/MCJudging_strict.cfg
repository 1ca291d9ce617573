SPECIFICATION Spec
CONSTANTS
    Configs <- DefaultOnly
    EncReplies <- MCEncReplies
    RetReplies <- MCRetReplies
    Views <- MCViews
    AnswerSets <- MCAnswerSets
    CauseReplies <- MCCauseReplies
INVARIANT
    CorrectOracleAnswerPasses
CHECK_DEADLOCK FALSE
