SPECIFICATION FairSpec
CONSTANTS
  Callers = {c1}
  Types = {"GO", "STOP"}
  MaxSession = 1
  MaxSeq = 2
  MaxRetransmit = 2
  QueueLength = 1
  ReplyLength = 1
PROPERTIES CommandsSettle StopArrives
