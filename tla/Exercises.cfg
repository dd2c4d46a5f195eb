SPECIFICATION Spec
CONSTANTS
  MaxElements = 7
  Null = Null
  NoInput = NoInput
  NoReturn = NoReturn
  Names = {1, 2}
  Ranges <- Ranges_
  Climates <- Climates_
  Queries <- Queries_
  Largest = 9
  NoFile = NoFile
  NoAnswer = NoAnswer
INVARIANTS
  ListRestored DifferenceIsDays SortingSorts OptimaFound WalksMeetAll SievesPrintPrimes
  CalculatesLeftToRight StringsAreHandled IndexExact AnswersAreMeant
PROPERTIES MainEnds QueriesLeaveNothing
\* main of the list returns, and an algorithm has computed.
CHECK_DEADLOCK FALSE
