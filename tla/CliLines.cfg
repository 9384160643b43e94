\* Every line of the help but those another branch takes, from any terminal, and a buffer that a stray LF fills.
\* It stops when all is typed and run.
SPECIFICATION Spec
CONSTANTS
  Lines <- OtherLines
  Endings <- AnyEnding
  MaxLines = 2
  BufferSize = 1
CHECK_DEADLOCK FALSE
INVARIANT TypeOK LinesRunAsTyped
