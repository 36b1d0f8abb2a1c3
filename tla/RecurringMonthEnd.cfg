\* The due dates of recurring payments, from the end of a month on.
CONSTANTS
  h1 = h1
  h2 = h2
  t1 = t1
  t2 = t2
  NoToken = NoToken
  Handlers = {h1, h2}
  Tokens = {t1}
  MaxSessions = 1
  PageLimit = 1
  Requests <- MCRequests
  Ledgers <- MCLedgers
  MaxRows = 3
  MaxRuns = 1
  MaxFaults = 1
SPECIFICATION Spec
INVARIANT MonthEndStays
