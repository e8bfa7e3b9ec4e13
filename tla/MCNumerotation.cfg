SPECIFICATION SpecRangs
CONSTANTS
  t1 = t1
  t2 = t2
  t3 = t3
  c1 = c1
  c2 = c2
  c3 = c3
  Textes = {t1, t2, t3}
  Libre = libre
  Fichier <- Trois
  Services = {c1, c2, c3}
  Nombres <- Nombres3
  NumMax = 3
  TamponTCP = 1
  ReseauFiable = FALSE
  MaxDiff = 5
SYMMETRY Symetrie
INVARIANTS TypeOK SansException CompteExact SuffixeRecent ReponseLAST Depassement NumerosDistincts
PROPERTY EmissionSpec
