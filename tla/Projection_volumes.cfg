CONSTANTS
  None = None
  N = 2
  Refs <- MCRefs
  Sources = {"cfg"}
  Keys = {"a", "b", "x/y"}
  BadKeys = {"x/y"}
  Contents <- MCContents
  MaxWrites = 2
  MaxFaults = 1
CHECK_DEADLOCK FALSE
SPECIFICATION FairSpec
INVARIANTS
  TypeOK
  VolumeIsSnapshot
  RunningHasVolumes
PROPERTIES
  VolumeConverges
  FailureShown
  StatusConverges
  VolumesReaped
