CONSTANTS
    Orders = {o1, o2}
    Lines = {l1}
    OldStatuses = {"paid", "sent", "closed"}
    OldPayments = {"", "partially_paid"}
    LateColumns = {c1}
    Codes = {d1}
    MaxStops = 2
    Stops <- OutsideRebuild
    a = a
    b = b
    ann = ann
    guest = guest
    Null = Null
    Blank = Blank
    Bad = Bad
    Texts = {a, b}
    Numbers <- MCNumbers
    Users = {ann, guest}
    RoleOf <- MCRoles
    Requests = {r1, r2}
    Calls <- MCCalls
    Loaded <- MCLoaded
    MaxRequests = 3
    MaxFaults = 1

SPECIFICATION StoreSpec
INVARIANTS OrdersSurvive LinesSurvive PaidStaysPaid SeededWithAdmin
INVARIANTS AmountsKeepRules AttributedToCreator ImportLandsPrefix
PROPERTIES MigrationCompletes UntouchedColumnsStay CreationsKeepRules
