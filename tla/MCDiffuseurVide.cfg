SPECIFICATION Spec
CONSTANTS
  t1 = t1
  t2 = t2
  t3 = t3
  c1 = c1
  c2 = c2
  c3 = c3
  Textes = {t1, t2, t3}
  Libre = libre
  Fichier <- Aucun
  Services = {c1, c2, c3}
  Nombres <- Nombres2
  NumMax = 1
  TamponTCP = 1
  ReseauFiable = FALSE
  MaxDiff = 3
SYMMETRY Symetrie
INVARIANTS CompteExact CurseurDansPile
PROPERTY EmissionSpec
