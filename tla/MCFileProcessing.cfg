CONSTANTS
    pdf = pdf
    picture = picture
    virus = virus
    Docs = {pdf, picture, virus}
    Length <- MCLength
    Images = {picture}
    Office = {pdf}
    Infected = {virus}
    NoDoc = NoDoc
    MaxPages = 2
    Workers = {w1, w2}
    Editors = {e1}
    MaxSent = 3
    MaxEdits = 2
SPECIFICATION FairSpec
CHECK_DEADLOCK FALSE
INVARIANTS
    StatusMatchesDocument
    QueuedHasMessage
PROPERTIES
    QuarantineStands
    ProcessingEnds
