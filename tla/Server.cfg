\* Both listeners, two starts, one kill or failure, two requests.
CONSTANTS
  Specs <- MCSpecs
  Requests = {r1, r2}
  NoRequest = NoRequest
  MaxStarts = 2
  MaxMishaps = 1
  MaxAccepts = 2
SPECIFICATION Spec
INVARIANTS PairMatches ExitIsTruthful
PROPERTIES GraceKept StopsWhenAsked RequestsEnd
