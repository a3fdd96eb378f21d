CONSTANTS
  Callers = {c1}
  NoTask = NoTask
  Requests <- QueuedRequests
  MaxCalls = 3
  SendQueueLen = 2
  ApiQueueLen = 1
  RxCap = 1
  MaxBurst = 1
  UrcBudget = 0
  ResponseMax = 2
  BufLen = 1
  TickMod = 6
  MaxLag = 1
  IntMax = 4
  MayFail = {}
  NullReadTraps = FALSE
  LineAnswers <- OneLineAnswers
  PromptAnswers <- OnePromptAnswers
SPECIFICATION Spec
INVARIANTS TimeoutWindow NeverOversleeps AnswersMatch
PROPERTY ImplementsCommandService
CHECK_DEADLOCK FALSE
