\* Batches of two, with one ticket in the middle that Central refuses for ever.
SPECIFICATION FairSpec
CONSTANTS
  MaxItems = 3
  Batch = 2
  Refused <- MCRefused
  MaxAttempts = 2
  MaxClock = 2
INVARIANTS
  TypeOK
  AckedIsReceived
PROPERTY EveryTicketIsDelivered
