SPECIFICATION Spec
CONSTANTS
  MaxAttempt = 2
  Total = 3
  Deposit = 2
  Faults <- MCLostAnswers
INVARIANTS NeverOvercharged
CHECK_DEADLOCK FALSE
