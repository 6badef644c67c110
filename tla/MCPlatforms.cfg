CONSTANTS
  Core = {1, 2, 3}
  Primary = 1
  Cluster <- MCCluster
  OffWhileStarting = FALSE
SPECIFICATION MCSpec
INVARIANTS BootsInOrder PowerControllerInStep 
INVARIANTS ReportsTheTruth StandbyKeepsPower  RequestsAdmitted TreeAsDescribed
PROPERTY StartedCoresBoot
CHECK_DEADLOCK FALSE
