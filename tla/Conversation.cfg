SPECIFICATION Spec
CONSTANTS
  Polls = {p1, p2}
  Reads = {r1}
  Texts = {x1, x2}
  NoText = NoText
  MaxId = 2
  Flushers = {f1}
  ExtractTasks = {t1, t2}
  Threshold = 2
  MaxEvents = 4
  MaxEpochs = 1
  BufferSize = 2
CHECK_DEADLOCK FALSE
INVARIANTS
  ChatIsAnswered
  MemoryIsKept
  StreamIsWhole
PROPERTIES
  AllIsDelivered
