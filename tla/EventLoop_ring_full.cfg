CONSTANTS
  Callers = {c1}
  NoTask = NoTask
  Requests <- OneSendTimed
  MaxCalls = 1
  SendQueueLen = 1
  ApiQueueLen = 1
  RxCap = 1
  MaxBurst = 2
  UrcBudget = 0
  ResponseMax = 3
  BufLen = 1
  TickMod = 4
  MaxLag = 0
  IntMax = 4
  MayFail = {}
  NullReadTraps = FALSE
  LineAnswers <- OneLineAnswers
  PromptAnswers <- PromptOnly
SPECIFICATION Spec
INVARIANT NoLostRxWakeup
CHECK_DEADLOCK FALSE
