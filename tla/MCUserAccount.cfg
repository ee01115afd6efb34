CONSTANTS
    Sessions = {s1}
    Links = {l1, l2, l3}
    Admins = {a1, a2}
    MaxPasswords = 3
    MaxVersion = 3
    MaxInFlight = 2
    Details = {d1, d2}
    Submitters = {p1, p2}
    Forms = {o1}
    NotServed = NotServed
    MaxRequests = 2
    MaxForms = 1
    Null = Null
SPECIFICATION AccountSpec
SYMMETRY Symmetry
CONSTRAINT FewInFlight
CHECK_DEADLOCK FALSE
INVARIANTS
    SessionsEndWithPassword
    WayIn
    ProfileFollowsRequests
PROPERTIES
    LinkIsFinal
    OnlyTearsRevive
