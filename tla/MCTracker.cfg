SPECIFICATION LoopSpec
CONSTANTS
  Trackers = {0}
  ResponseTime = 1
  MaxRetries = 1
  IdLifetime = 2
  MinInterval = 2
  DefaultInterval = 3
  MaxInterval = 4
  ReplyIntervals = {0, 1, 5}
  ShutdownTime = 1
INVARIANTS TypeOK ReportedIsHeard SocketOpenWhenUsed OnlyStoppedInShutdown
PROPERTIES SilentTrackersLeftAlone ShutdownEnds CompletionHeard
