SPECIFICATION Spec
CONSTANTS
  a = a
  b = b
  Files = {a, b}
  MaxEdit = 1
  MaxOther = 1
  MaxFault = 2
INVARIANTS
  VaultConsistent
PROPERTIES
  AdoptedIsAuthoritative
  ReceiptGuardsTheVault
  Received
CHECK_DEADLOCK FALSE
