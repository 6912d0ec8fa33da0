SPECIFICATION FairSpec
INVARIANTS BorrowIsExclusive StateAssertionsHold WaitingIsArmed NoLostNotification
PROPERTIES FailureIsHandled WaitingEnds CloseEnds
CHECK_DEADLOCK FALSE
