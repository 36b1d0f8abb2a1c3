\* Two requests in flight, no faults: the history has a gap.
CONSTANTS
  r1 = r1
  r2 = r2
  alice = alice
  bob = bob
  NoUser = NoUser
  MinMinor <- MCMinMinor
  Requests = {r1, r2}
  Users = {alice}
  DeletableUsers = {}
  MaxOrders = 1
  MaxLines = 1
  MaxRequests = 3
  MaxInFlight = 2
  MaxFaults = 0
  MaxMinor = 9
  Limits = {0, 2}
  Statuses = {"issued"}
  Payments = {}
  StatusRequests = {"closed"}
  PaymentRequests = {""}
  Quantities = {1}
  Prices = {15}
  Receipts = {0, 1}
  LoadedOrders = 1
  LoadedStatuses = {"draft", "issued"}
  LoadedLines = 1
SPECIFICATION FairSpec
INVARIANT HistoryComplete
