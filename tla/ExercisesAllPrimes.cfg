SPECIFICATION Spec
CONSTANTS
  MaxElements = 7
  Null = Null
  NoInput = NoInput
  NoReturn = NoReturn
  Names = {1, 2}
  Ranges <- Ranges_
  Climates <- Climates_
  Queries <- Queries_
  Largest = 9
  NoFile = NoFile
  NoAnswer = NoAnswer
INVARIANT AllPrimesArePrinted
\* An algorithm has computed.
CHECK_DEADLOCK FALSE
