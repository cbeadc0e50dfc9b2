SPECIFICATION FairSpec
CONSTANTS
  c1 = c1
  c2 = c2
  v = v
  Clients = {c1, c2, v}
  Callers = {c1, c2}
  Prio <- MCPrio
  NoOne = NoOne
  Schemes = {http, https}
  Unlearned = Unlearned
  AjaxRetries = 1
  Hops = 2
  MaxMishaps = 2
INVARIANTS TypeOK OvertakenOnce OneBootstrapPerLoss SavedUnlessTorn PostsKnowTheScheme
PROPERTIES EveryCallEnds
CHECK_DEADLOCK FALSE
