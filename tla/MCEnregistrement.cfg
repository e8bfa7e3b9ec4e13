SPECIFICATION SpecEquitable
CONSTANTS
  d1 = d1
  k1 = k1
  k2 = k2
  k3 = k3
  Libre = libre
  Difs = {d1}
  Connexions = {k1, k2, k3}
  maxDiff = 2
INVARIANTS TypeReg Prevenu
PROPERTIES MortRetire TousServis Averti
