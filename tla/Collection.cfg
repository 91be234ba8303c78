SPECIFICATION Spec
CONSTANTS
  w1 = w1  w2 = w2
  q1 = q1  q2 = q2  q3 = q3  q4 = q4
  None = None
  Workers <- MCWorkers
  Querysets <- MCQuerysets
  MaxVersion = 2
SYMMETRY Alike
INVARIANTS Fresh FreshSource
PROPERTY ImplementsReads
