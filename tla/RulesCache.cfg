CONSTANTS
  Threads = {t1, t2}
  Files = {f1}
  MaxEdits = 2
  MaxLoads = 3
SPECIFICATION Spec
INVARIANTS
  TypeOK
  SameRules
  StaysProtected
PROPERTY
  ImplementsRulesStore
SYMMETRY Symmetry
