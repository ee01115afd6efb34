CONSTANTS
    Orders = {o1}
    Jobs = {j1}
    Users = {alice}
    Keys = {k1}
    Contents = {c1}
    Currencies = {syp}
    Null = Null
SPECIFICATION Spec
CHECK_DEADLOCK FALSE
PROPERTIES
    DeliveredStays
