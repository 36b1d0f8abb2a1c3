\* One request at a time and no faults: every operation on two orders and two lines.
CONSTANTS
  r1 = r1
  r2 = r2
  alice = alice
  bob = bob
  NoUser = NoUser
  MinMinor <- MCMinMinor
  Requests = {r1}
  Users = {alice}
  DeletableUsers = {}
  MaxOrders = 2
  MaxLines = 2
  MaxRequests = 3
  MaxInFlight = 1
  MaxFaults = 0
  MaxMinor = 9
  Limits = {0, 2}
  Statuses = {"approved", "issued"}
  Payments = {"paid"}
  StatusRequests = {"", "approved", "issued", "closed"}
  PaymentRequests = {"", "paid"}
  Quantities = {1, 2}
  Prices = {15}
  Receipts = {0, 1}
  LoadedOrders = 1
  LoadedStatuses = {"draft", "issued"}
  LoadedLines = 1
SPECIFICATION Spec
INVARIANTS OneDecisionOneRow HistoryComplete
PROPERTIES DerivationSparesOthers ReceiptStatusFresh CostWithinLimit
