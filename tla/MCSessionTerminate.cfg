CONSTANTS
  Procs = {p1, p2}
  Settle = 3
  Exchanges = {e1, e2}
SPECIFICATION Spec
INVARIANT TerminateSavesSession
