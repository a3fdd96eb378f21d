CONSTANTS
  Callers = {c1, c2}
  NoTask = NoTask
  Requests <- MsgAndCommand
  MaxCalls = 1
  SendQueueLen = 1
  ApiQueueLen = 1
  RxCap = 1
  MaxBurst = 1
  UrcBudget = 0
  ResponseMax = 2
  BufLen = 1
  TickMod = 3
  MaxLag = 0
  IntMax = 4
  MayFail = {"entry alloc", "task alloc", "atc_send"}
  NullReadTraps = FALSE
  LineAnswers <- MaybeOk
  PromptAnswers <- OnePromptAnswers
SPECIFICATION Spec
INVARIANT TimeoutWindow
PROPERTIES MsgCallReturns SyncCallReturns RunningCommandEnds 
CHECK_DEADLOCK FALSE
