\* Lost writes, failed records, contradictions and crashes anywhere.
SPECIFICATION RecoveringSpec
CONSTANTS
  Feedback <- MCFeedback
  Requests <- MCRequests
INVARIANTS
  TypeOK
  AppliedIsPhysical
  GreenOnlyOverOpenRequest
  RedAndGreenExclude
  ShutdownLeavesOneWrite
PROPERTIES
  PermissionIsAudited
  PermissionFollowsFeedback
  LockoutWithdrawsPermission
