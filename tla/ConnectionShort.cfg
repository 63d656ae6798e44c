SPECIFICATION Spec
CONSTANTS
  ReadBufferLength = 2
  ChannelBuffer = 2
  Windows <- OpenWindows
  MaxBytes = 3
INVARIANT PushInOrder
