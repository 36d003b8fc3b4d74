SPECIFICATION Spec
CONSTANTS
  Alphabet = {0, 1, 2, 46, 97, 200}
  MaxLength = 5
  Repeated = 200
  Wires <- ShortWires
  Sizes = {6, 32}
INVARIANTS
  DnameTypeOK
  ReadsInside
  BufferHoldsBeginning
  TextTellsName
