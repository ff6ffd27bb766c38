SPECIFICATION FairSpec
CONSTANTS
    Class <- TwoClasses
    Main = main
    Thread = {"omission", "prototype", main}
    Garbage = Garbage
    Pool <- EightCandidates
    Answers <- SmallAnswers
    Rounds = 2
    Modes = {"elicitation", "conformance"}
    LabelOrders <- Labels
    JudgeOrders <- Judging
    MaxRuns = 2
    Resumed = {2}
    MaxRemoved = 1
CHECK_DEADLOCK FALSE
INVARIANTS
    TypeOK
    RunDocumented
    NoOrphan
    RefusedNeverReported
    ScoresAttributed
    SelectionAgrees
    PreparedAssembles
PROPERTIES
    EvaluationEnds
