\* The same pool; checks that ~ThreadPool returns once it has stored stop_.
CONSTANTS
  NumWorkers = 2
  Tasks = {1, 2}
SPECIFICATION PoolSpec
PROPERTY DestructorReturns
CHECK_DEADLOCK FALSE
