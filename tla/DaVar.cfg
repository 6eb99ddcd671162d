SPECIFICATION Spec
CONSTANTS
  Names <- MCNames
  Lower <- MCLower
  SIZE = 2
  Hash <- MCHash
  Registrations <- MCRegistrations
  Lines <- MCLines
  Declarations <- MCDeclarations
  Writes <- MCWrites
  Reads <- MCReads
  Patterns <- MCPatterns
  MaxRegs = 2
  MaxLines = 3
  MaxRequests = 1
\* The system stops: registrations, lines and requests come to an end.
CHECK_DEADLOCK FALSE
INVARIANTS
  ValuesKept
  AnswersRight
PROPERTY
  RegistrySpec
