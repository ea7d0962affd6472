\* Two messages, two attempts at each under way, two failures.
\* All messages may be acknowledged, and then nothing has to happen.
CONSTANTS
  Messages = {m1, m2}
  Attempts = {a1, a2}
  Ttl = 2
  Failing = {"redis", "broker", "process"}
  MaxExpiries = 1
  MaxOutages = 2
SPECIFICATION FairSpec
INVARIANTS TypeOK OncePerKey AcknowledgedIsCarried
PROPERTIES SentIsCarried
CHECK_DEADLOCK FALSE
