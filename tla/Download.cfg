\* Any blob may be asked for; calls fail and the client hangs up at any moment.
CONSTANTS
  a = a  b = b  c = c  d = d  e = e  f = f
  Units = {a, b, c, d, e, f}
  Wanted <- MCWanted
  Store <- Full
  ChannelCapacity = 4
  OverflowChecks = TRUE
  Faults = {"net", "hangup"}
SPECIFICATION FairSpec
INVARIANTS TypeOK InOrder CompleteIsWhole
PROPERTIES NoFetchForNobody TaskEnds Answered
CHECK_DEADLOCK FALSE
