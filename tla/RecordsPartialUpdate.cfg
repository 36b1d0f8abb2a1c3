\* Two requests in flight, three in all, one client that goes away.
CONSTANTS
  a = a
  b = b
  ann = ann
  guest = guest
  Null = Null
  Blank = Blank
  Bad = Bad
  Texts = {a, b}
  Numbers <- MCNumbers
  Users = {ann, guest}
  RoleOf <- MCRoles
  Requests = {r1, r2}
  Calls <- MCCalls
  Loaded <- MCLoaded
  MaxRequests = 3
  MaxFaults = 1
SPECIFICATION Spec
SYMMETRY Symmetric
INVARIANT RowsKeepRules
