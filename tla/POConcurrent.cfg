\* Two requests in flight, a cancelled request or a restart, a user deleted; one
\* price times a quantity is within the limit, the other past the largest total.
CONSTANTS
  r1 = r1
  r2 = r2
  alice = alice
  bob = bob
  NoUser = NoUser
  MinMinor <- MCMinMinor
  Requests = {r1, r2}
  Users = {alice}
  DeletableUsers = {alice}
  MaxOrders = 1
  MaxLines = 1
  MaxRequests = 3
  MaxInFlight = 2
  MaxFaults = 1
  MaxMinor = 3
  Limits = {0, 2}
  Statuses = {"approved"}
  Payments = {}
  StatusRequests = {"approved", "issued"}
  PaymentRequests = {""}
  Quantities = {1, 3}
  Prices = {15}
  Receipts = {0, 1}
  LoadedOrders = 1
  LoadedStatuses = {"draft"}
  LoadedLines = 1
SPECIFICATION FairSpec
INVARIANTS SignedWithinLimit DecisionsAreRecorded
PROPERTIES ImplementsSigningControl RequestsFinish
