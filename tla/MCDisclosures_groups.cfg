CONSTANTS
  Rcepts <- MCRcepts
  Groups = {g1, g2}
  g1 = g1
  g2 = g2
  Txs = {t1, t2}
  t1 = t1
  t2 = t2
  MaxItems = 2
SPECIFICATION Spec
INVARIANTS
  TypeOK
  ExactUnlessTangled
PROPERTY ChangesAreSeen
SYMMETRY Symmetry
