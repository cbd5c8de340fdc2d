SPECIFICATION Spec
CONSTANTS
  Drives = {4, 5, 6}
  Others = {"share", "cache"}
  PciPort = 53280
  ClientId = 11
INVARIANTS
  TypeOK
  HandlersAlive
  OnlyLaterDrivesDangle
  ShellGetsAllBack
  RemovedWholeAndOnce
