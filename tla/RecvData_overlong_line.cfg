CONSTANTS
  Bytes = {"x", "k", "n", "0"}
  NL = "n"
  NUL = "0"
  LineEnd = 1
  LineMax = 4
  ResponseMax = 5
  StackDepth = 2
  command_end_markers <- Markers
  UrcPrefixes <- Urcs
  Tasks <- LineTasks
  NoTask = NoTask
  MaxBytes = 7
SPECIFICATION Spec
INVARIANT ReceivedFinalEnds
