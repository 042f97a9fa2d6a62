SPECIFICATION FairSpec
CONSTANTS
  MaxAttempt = 2
  Total = 3
  Deposit = 2
  Faults <- MCLostAnswers
INVARIANTS TypeOK CompletedIsCharged ChargesTracked NotOvercharged
PROPERTIES CompletedStays PurchaseSpec ChargedCompletes
CHECK_DEADLOCK FALSE
