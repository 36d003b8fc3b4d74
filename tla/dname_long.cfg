SPECIFICATION Spec
CONSTANTS
  Alphabet = {200}
  MaxLength = 0
  Repeated = 200
  Wires <- LongName
  Sizes = {256}
INVARIANTS
  NameFits
