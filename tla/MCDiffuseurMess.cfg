SPECIFICATION Spec
CONSTANTS
  t1 = t1
  t2 = t2
  t3 = t3
  c1 = c1
  c2 = c2
  c3 = c3
  Textes = {t1, t2, t3}
  Libre = libre
  Fichier <- Deux
  Services = {c1, c2}
  Nombres <- Nombres2
  NumMax = 3
  TamponTCP = 1
  ReseauFiable = TRUE
  MaxDiff = 4
INVARIANT AcquitteDevant
