SPECIFICATION Spec
CONSTANTS
    Configs <- DefaultOnly
    EncReplies <- SilentOnly
    RetReplies <- SilentOnly
    Views <- MCViews
    AnswerSets <- NoJudge
    CauseReplies <- NoCauseReply
INVARIANT
    MissingJudgeFallsBack
CHECK_DEADLOCK FALSE
