SPECIFICATION Spec
CONSTANTS
    Procs = {p1, p2}
    None = None
    MaxAnswers = 2
    MaxDeletions = 1
    MaxKills = 2
SYMMETRY Symmetry
INVARIANTS
    AnsweredOnce
    AcceptedIsUsable
    OnePost
    EvidenceFirst
CHECK_DEADLOCK FALSE
