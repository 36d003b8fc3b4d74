SPECIFICATION Spec
CONSTANTS
  Octets = {0, 1, 11, 171}
  Addresses <- SampleAddresses
INVARIANTS
  NamedAsDocumented
PROPERTIES
  QuestionsDiffer
