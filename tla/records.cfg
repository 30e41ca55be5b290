CONSTANTS
  MaxSets = 1
SPECIFICATION Spec
INVARIANTS
  TypeOK
  ReadBack
  UnsetIsDefault
  DispatchFindsType
  UpgradePathsCommute
  AbsentAgrees
  TextFormsAgree
  DtypesMatchLayout
  EnumsRoundTrip
PROPERTY
  HeartbeatKept
CHECK_DEADLOCK FALSE
