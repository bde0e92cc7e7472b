CONSTANTS
  t1 = t1
  t2 = t2
  u1 = u1
  r1 = r1
  r2 = r2
  r3 = r3
  None = None
  Tabs = {t1, t2}
  Users = {u1}
  Calls = {r1, r2, r3}
  TabOf <- MCTabOf
  Conns = {1, 2}
  MaxTokens = 4
  MaxActs = 4
SPECIFICATION FairSpec
CHECK_DEADLOCK FALSE
INVARIANTS TypeOK OneUsablePerLogin CookieStaysUsable WaitersHaveAPromise
PROPERTIES CallsSettle
