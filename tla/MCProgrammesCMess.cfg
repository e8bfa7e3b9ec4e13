SPECIFICATION Spec
CONSTANTS
  Programmes = {"client_alt"}
  Ids = {3, 8, 9}
  Lignes <- LignesMC
  Modulo = 32768
  LongMax = 131071
  MaxDescr = 2
  MaxBruit = 3
  MaxBlocs = 3
INVARIANT MessEnvoye
