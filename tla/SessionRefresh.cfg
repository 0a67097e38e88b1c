SPECIFICATION Spec
CONSTANTS
  r1 = r1
  r2 = r2
  r3 = r3
  Req = {r1, r2, r3}
  Read = {r1, r2}
INVARIANT WaitersHaveARefresh
INVARIANT RefreshesBounded
PROPERTY EveryRequestEnds
CHECK_DEADLOCK FALSE
