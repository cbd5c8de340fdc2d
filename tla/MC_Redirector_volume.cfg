SPECIFICATION Spec
CONSTANTS
  Drives = {4, 5, 6}
  MAX_MOUNTS = 2
  Interrupting <- OtherMultiplex
  MaxDepth = 3
INVARIANT VolumeIdOfAskedDrive
