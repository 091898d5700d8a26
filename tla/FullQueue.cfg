\* More connections to one resource than its queue has room for.
SPECIFICATION LiveSpec
CONSTANTS
  c1 = c1
  c2 = c2
  c3 = c3
  r1 = r1
  x = x
  y = y
  None = None
  Keys = {1}
  Values = {x}
  Clients = {c1, c2, c3}
  Resources = {r1}
  Want <- MCThreeOnOne
  QueueCap = 1
  CloseCap = 1
  NotifyCap = 1
  FeedCap = 1
  MaxCommits = 0
  MaxFails = 1
SYMMETRY MCSymmetry
INVARIANTS
  FullQueueIsServed
