SPECIFICATION Spec
CONSTANTS
    a = a
    b = b
    c = c
    d = d
    Deliveries <- MCDeliveries
    Malformed <- MCMalformed
    Capacity = 2
    MaxRequests = 7
INVARIANTS IndInv RemembersLast OnceInWindow
CHECK_DEADLOCK FALSE
