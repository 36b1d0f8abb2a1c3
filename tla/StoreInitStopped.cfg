\* One old order; the process stops once, during the rebuild of its table.
CONSTANTS
    Orders = {o1}
    Lines = {l1}
    OldStatuses = {"draft"}
    OldPayments = {""}
    LateColumns = {c1}
    Codes = {d1}
    MaxStops = 1
    Stops <- Rebuilding

SPECIFICATION OpenFairSpec
INVARIANT OrdersCarriedOver
