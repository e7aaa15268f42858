\* Frames of every kind, failed dials, reads, writes, syncs and loads, crashes
\* and losses of power anywhere, for either journal.
SPECIFICATION FeedSpec
CONSTANT MaxAppends = 5
INVARIANTS
  FeedTypeOK
  VerifiedMeansComplete
  RestartContinuesTheChain
  ReadingIsOnRecord
  WorkflowKnowsTheScale
  BrokenOnlyAtTheEnd
