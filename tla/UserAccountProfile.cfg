CONSTANTS
    Sessions = {s1}
    Links = {l1}
    Admins = {}
    MaxPasswords = 3
    MaxVersion = 3
    Null = Null
SPECIFICATION Spec
CHECK_DEADLOCK FALSE
PROPERTIES
    EndedForGood
