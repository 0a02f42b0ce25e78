SPECIFICATION FairSpec
INVARIANT ClosedOnce ThreadOutlived
PROPERTY RunReturns
