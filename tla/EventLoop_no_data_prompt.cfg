CONSTANTS
  Callers = {c1}
  NoTask = NoTask
  Requests <- OnePromptNoData
  MaxCalls = 1
  SendQueueLen = 1
  ApiQueueLen = 1
  RxCap = 1
  MaxBurst = 1
  UrcBudget = 0
  ResponseMax = 2
  BufLen = 1
  TickMod = 4
  MaxLag = 0
  IntMax = 4
  MayFail = {}
  NullReadTraps = TRUE
  LineAnswers <- OkAnswer
  PromptAnswers <- PromptOnly
SPECIFICATION Spec
INVARIANT NoNullTaskRead
CHECK_DEADLOCK FALSE
