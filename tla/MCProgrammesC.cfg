SPECIFICATION SpecEquitable
CONSTANTS
  Programmes = {"client", "client_alt", "client1"}
  Ids = {3, 8, 9}
  Lignes <- LignesMC
  Modulo = 32768
  LongMax = 131071
  MaxDescr = 2
  MaxBruit = 3
  MaxBlocs = 3
INVARIANTS TypeOK Accord AccordAlt NumeroTape NumeroBloc AcquitteFidele SansFuite
PROPERTY CommandeFinit
