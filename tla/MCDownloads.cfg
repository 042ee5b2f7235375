SPECIFICATION Spec
CONSTANTS
  Boards = {"biscuit", "radar", "donut"}
  Releases = {1, 2}
  FirstKernels = 2
  MaxFaults = 2
  MaxCmdline = 6
  MaxDonor = 5
INVARIANTS
  TypeOK
  BuiltIsSigned
  KernelIsTheUnits
  CmdlineClean
  ImageIsOurs
PROPERTIES
  KeepsTrustedImage
  RetriesSucceed
