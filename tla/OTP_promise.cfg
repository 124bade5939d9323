\* Expected to be violated.
SPECIFICATION Spec
CONSTANTS
  t1 = t1
  t2 = t2
  p1 = p1
  p2 = p2
  Tasks <- TwoTasks
  Posts <- OnePost
  MaxRetry = 1
  Duration = 2
  MaxTime = 3
  NoSecret = NoSecret
PROPERTY GoodUntilItExpires
\* All tasks settled, all requests answered and the clock at its bound.
CHECK_DEADLOCK FALSE
