CONSTANTS
  Callers = {c1, c2}
  NoTask = NoTask
  Requests <- MixedRequests
  MaxCalls = 1
  SendQueueLen = 1
  ApiQueueLen = 2
  RxCap = 2
  MaxBurst = 1
  UrcBudget = 1
  ResponseMax = 2
  BufLen = 1
  TickMod = 4
  MaxLag = 0
  IntMax = 2
  MayFail = {"api alloc", "entry alloc", "atc_send"}
  NullReadTraps = FALSE
  LineAnswers <- OneLineAnswers
  PromptAnswers <- OnePromptAnswers
SPECIFICATION Spec
INVARIANTS TypeOK CallerFrameAlive HeapOwned ReturnedResult NoLostApiWakeup NoLostRxWakeup
PROPERTY ImplementsCommandService
CHECK_DEADLOCK FALSE
