CONSTANTS
  Core = {1, 2, 3}
  Primary = 1
  Cluster <- MCCluster
  OffWhileStarting = TRUE
SPECIFICATION MCSpec
PROPERTY RestoredOnlyOnResume
CHECK_DEADLOCK FALSE
