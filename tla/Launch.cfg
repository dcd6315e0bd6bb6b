SPECIFICATION LaunchSpec
CONSTANTS
  Pids = {"p1", "p2"}
  MaxBorn = 2
  MaxLaunchAttempts = 2
  NumStatements = 2
CHECK_DEADLOCK FALSE
INVARIANT LaunchIsSound
INVARIANT SchemaIsWhole
PROPERTY RefusedOnlyByTheLiving
PROPERTY EveryLaunchSettles
