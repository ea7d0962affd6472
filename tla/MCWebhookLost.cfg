\* One message, one attempt at a time, one failure of the broker.
CONSTANTS
  Messages = {m1}
  Attempts = {a1}
  Ttl = 2
  Failing = {"broker"}
  MaxExpiries = 1
  MaxOutages = 1
SPECIFICATION Spec
INVARIANT AcknowledgedIsQueued
CHECK_DEADLOCK FALSE
