\* Two tasks with a retry each, two requests, over two intervals.
SPECIFICATION Spec
CONSTANTS
  t1 = t1
  t2 = t2
  p1 = p1
  p2 = p2
  Tasks <- TwoTasks
  Posts <- TwoPosts
  MaxRetry = 1
  Duration = 2
  MaxTime = 3
  NoSecret = NoSecret
SYMMETRY Symmetry
INVARIANTS TypeOK SpentStaysSpent MailedCodeWorks
PROPERTIES ExpiresInTime
\* All tasks settled, all requests answered and the clock at its bound.
CHECK_DEADLOCK FALSE
