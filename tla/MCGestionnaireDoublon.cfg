SPECIFICATION Spec
CONSTANTS
  d1 = d1
  d2 = d2
  k1 = k1
  k2 = k2
  k3 = k3
  k4 = k4
  Libre = libre
  Difs = {d1}
  Connexions = {k1, k2, k3}
  maxDiff = 2
INVARIANT EnregistrePresent
