SPECIFICATION Spec
CONSTANTS
  Second = 3
  MaxAnswers = 2
  MaxErrors = 2
INVARIANTS
  AnswerWithinASecond
  StopWithinASecond
  TimeOutSleeps
