SPECIFICATION Spec
CONSTANTS
    Configs <- RulesOnly
    EncReplies <- SilentOnly
    RetReplies <- SilentOnly
    Views <- MCViews
    AnswerSets <- MCAnswerSets
    CauseReplies <- NoCauseReply
INVARIANT
    HealthyNegHasNoCause
CHECK_DEADLOCK FALSE
