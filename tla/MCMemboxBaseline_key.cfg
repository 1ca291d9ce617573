SPECIFICATION BaselineSpec
CONSTANTS
    a = a
    f = f
    g = g
    question = question
    other = other
    evidence = evidence
    key = key
    otherKey = otherKey
    caller = caller
    probe = probe
    box = box
    None = None
    Zeros = Zeros
    NoText = NoText
    N = 2
    Samples = {a}
    SampleOf <- MCSampleOf
    FileOf <- MCFileOf
    Faults = {"evaluate", "write", "print"}
    MaxRuns = 1
    Askers = {caller, probe}
    Caller = caller
    Texts = {question, other, evidence}
    KeyOf <- MCKeyOf
    Boxes = {box}
    QuestionText <- MCQuestionText
INVARIANT
    RankedByQuestion
