SPECIFICATION Spec
CONSTANTS
  Trackers = {0}
  ResponseTime = 2
  MaxRetries = 2
  IdLifetime = 3
  MinInterval = 5
  DefaultInterval = 6
  MaxInterval = 7
  ReplyIntervals = {0, 1, 9}
  ShutdownTime = 1
INVARIANTS NothingToWithdraw
