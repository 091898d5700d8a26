\* Two connections of one resource: commits that go on and stop, a failing read, the shutdown.
SPECIFICATION LiveFairSpec
CONSTANTS
  c1 = c1
  c2 = c2
  c3 = c3
  r1 = r1
  x = x
  y = y
  None = None
  Keys = {1}
  Values = {x}
  Clients = {c1, c2}
  Resources = {r1}
  Want <- MCOneResource
  QueueCap = 2
  CloseCap = 1
  NotifyCap = 1
  FeedCap = 1
  MaxCommits = 2
  MaxFails = 1
PROPERTIES
  PagesCatchUp
  EveryConnectionAnswered
  ShutdownCompletes
