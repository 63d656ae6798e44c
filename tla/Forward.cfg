SPECIFICATION FairSpec
CONSTANTS
  Greeting = 2
  ReadBufferLength = 2
  MaxBytes = 2
INVARIANT TypeOK
INVARIANT Intact
INVARIANT BufferPerWrite
PROPERTY BothArePipes
PROPERTY Settles
PROPERTY Delivers
PROPERTY Returns
