\* The audit disk may fail for good; the link does not.
SPECIFICATION FairSpec
CONSTANTS
  Feedback <- MCFeedback
  Requests <- MCRequests
PROPERTY LockoutWithdrawsPermission
