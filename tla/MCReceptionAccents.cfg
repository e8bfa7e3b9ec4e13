SPECIFICATION SpecEquitable
CONSTANTS
  Programmes = {"LastC"}
  MaxLignes = 2
  Annuaires = {0}
  MaxAccents = 1
  Aleas = {{"accents"}}
PROPERTIES LastAcheve
