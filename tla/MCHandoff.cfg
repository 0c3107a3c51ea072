SPECIFICATION Spec
CONSTANTS
  Callers = {c1, c2, c3}
  Handoffs = {h1, h2, h3, h4}
  NoHandoff = NoHandoff
  c1 = c1
  c2 = c2
  c3 = c3
  h1 = h1
  h2 = h2
  h3 = h3
  h4 = h4
SYMMETRY AnyCaller
INVARIANTS
  OneActive
  ChainsEnd
  LinksResolve
  WhyWalksAll
PROPERTIES
  ClosedOnce
  BeforeIsClosed
