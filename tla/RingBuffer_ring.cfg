CONSTANTS
  Bytes = {b1, b2}
  NoByte = NoByte
  Capacity = 4
  Builds <- SafeBuilds
SPECIFICATION Spec
INVARIANT TypeOK
PROPERTY ImplementsFifo
