SPECIFICATION Spec
CONSTANTS
  Callers = {c1, c2}
  Types = {"WAIT", "STOP"}
  MaxSession = 1
  MaxSeq = 2
  MaxRetransmit = 2
  QueueLength = 1
  ReplyLength = 2
SYMMETRY CallerSymmetry
INVARIANTS TypeOK CommandsKeptApart
 
