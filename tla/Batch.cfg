CONSTANTS
  p = p
  q = q
  s = s
  Prs = {p, q, s}
  MaxVersion = 1
  MaxChanges = 1
  Lists <- MCLists
  Number <- MCNumber
  Workers = {w1, w2}
  SaveEvery = 1
  MaxRuns = 2
  MaxEvents = 1
SYMMETRY Threads
SPECIFICATION Spec
INVARIANTS EveryRequestIsAnswered RefreshIsFresh SavedWorkIsUsed
CHECK_DEADLOCK FALSE
