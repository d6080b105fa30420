SPECIFICATION Spec
CONSTANTS
  a = a
  b = b
  n1 = n1
  n2 = n2
  U64Max = 1
  MaxCatalogEntries = 2
  Paths = {a, b}
  Credentials <- MCCredentials
  IssuePurposes = {"receive", "change"}
  Nonces <- MCNonces
  MaxFiles = 2
  MaxHandles = 2
  MaxBackups = 2
  MaxRows = 3
SYMMETRY MCSymmetry
INVARIANTS DestinationsSurvive
PROPERTY RestoresAreExact
CHECK_DEADLOCK FALSE
