CONSTANTS
  Addresses = {a1}
  Requests = {q1, q2}
  Delays <- DoublingDelays
  ForgetAfter = 1
  MaxDoublings = 2
  MaxTime = 8
  MaxWrong = 10
  None = None
SPECIFICATION Spec
INVARIANTS
  OnlyGuessesCount
PROPERTIES
  Escalates
CONSTRAINT FewGuesses
CHECK_DEADLOCK FALSE
