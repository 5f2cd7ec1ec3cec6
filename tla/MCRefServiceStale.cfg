SPECIFICATION Spec
CONSTANTS
  None = None
  c1 = c1
  c2 = c2
  t1 = t1
  t2 = t2
  Corrs = {c1}
  Threads = {t1, t2}
  TTL = 1
  Grace = 1
  MaxTime = 5
  MaxHops = 1
INVARIANTS
  CallbackMatchesSession
