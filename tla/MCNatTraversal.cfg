SPECIFICATION Spec
CONSTANTS
  Types = {"CONE", "ADDRESS_SENSITIVE", "PORT_SENSITIVE"}
  Brute = 1
  StunTimeout = 2
  AttemptTimeout = 4
  MaxAttempts = 5
  MaxEvents = 2
CONSTRAINT OneEventIfBothSymmetric
INVARIANTS FailsOnlyForCause CompletedIsOpen
PROPERTY GetsThrough
CHECK_DEADLOCK FALSE
