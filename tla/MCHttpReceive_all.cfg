SPECIFICATION Spec
CONSTANTS
  BufSize = 7
  UrlMax = 2
  Streams <- MCStreams
  NoDigit <- NotADigit
  JunkDigits <- MCJunk
CHECK_DEADLOCK FALSE
INVARIANTS TypeOK HandledIsComplete HandledAtLastByte UrlIsSuffix UrlWholeUnlessCut DigitIsRead
