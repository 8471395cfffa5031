SPECIFICATION Spec
CONSTANTS
  BufferSize = 8
  MaxRetries = 1
  MaxLines = 3
INVARIANTS LinesInOrder EndIsExact
PROPERTIES CutsDoNotFail
