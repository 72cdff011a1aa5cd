SPECIFICATION Spec
CONSTANTS
  Tabs = {a}
  a = a
  Reqs = {r1, r2}
  r1 = r1
  r2 = r2
  MaxIssued = 3
  MaxSends = 2
ACTION_CONSTRAINT Logouts
CHECK_DEADLOCK FALSE
INVARIANTS RefreshIsShared CookieIsLatest
PROPERTIES RequestsSettle SessionIsUsed
