CONSTANTS
    tablet = tablet
    telephone = telephone
    first = first
    second = second
    Devices = {tablet, telephone}
    Marks = {first, second}
    Author <- MCAuthor
    NoMark = NoMark
    Idle = Idle
    MaxItems = 1
    MaxEdits = 3
    MaxSyncs = 4
    Senders = {s1, s2}
    Checks = {k1, k2}
    MaxAttempts = 2
    NoCode = NoCode
    MaxCodes = 2
    Identifiers = {email, phone}
    Requests = {r1, r2}
    Threshold = 2
    NoKey = NoKey
    MaxGuesses = 5
    Tickets = {t1}
    Sockets = {c1, c2}
    TTL = 2
    NoTicket = NoTicket
    MaxVersion = 1
    Messages = {m1, m2, m3}
    MaxDeliveries = 3
    Length = 2
    Editors = {e1}
    MaxForms = 2
    Pdfs = {f1, f2, f3}
    Input = Input
    None = None
    Workers = {w1, w2}
    MaxSent = 3
SPECIFICATION ServicesSpec
SYMMETRY Symmetry
CHECK_DEADLOCK FALSE
INVARIANTS
    NothingMissed
    VersionProtects
    CodeIsSpent
    GuessesBounded
    TicketOpensOnce
    StaleBounded
    NewsIsKept
    BurstIsFolded
    ReadyIsComplete
    FilesMatchRow
