SPECIFICATION SpecEquitable
CONSTANTS
  Programmes = {"LastC", "ListC", "ListAlt", "LastJava", "ListJava"}
  MaxLignes = 2
  Annuaires = {0, 1, 2, 10}
  MaxAccents = 1
  Aleas = {{}, {"accents"}, {"retraits"}, {"pannes"}, {"segments", "accents", "retraits", "pannes"}}
INVARIANTS TypeOK RienNonLu FinDeLigne
PROPERTIES LectureFinit JavaFinit
CHECK_DEADLOCK FALSE
