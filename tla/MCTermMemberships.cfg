CONSTANTS
    Students = {s1}
    Subjects = {g1}
    Communities = {c1}
    Requests = {q1, q2}
    Admins = {a1, a2}
    Terms = {t1, t2}
    MaxRollovers = 2
    Null = Null
SPECIFICATION Spec
SYMMETRY Symmetry
CONSTRAINT QuietCommunities
CHECK_DEADLOCK FALSE
INVARIANTS
    OnOneRemovalList
    AdmittedByDecision
    NoMemberOfLastTerm
PROPERTIES
    BlockSurvives
    UndoRestores
