SPECIFICATION BatchFairSpec
CONSTANTS
  Jobs = {j1}
  Items = {i1, i2, i3}
  ProgressEvery = 2
  BatchTtl = 3
PROPERTY SentTaskRuns
CHECK_DEADLOCK FALSE
