SPECIFICATION FairSpec
CONSTANTS
  ReadBufferLength = 2
  ChannelBuffer = 2
  Windows <- AllWindows
  MaxBytes = 3
INVARIANT TypeOK
INVARIANT Conservation
INVARIANT ShortWritesBounded
PROPERTY BothArePipes
PROPERTY Settles
PROPERTY Delivers
PROPERTY PushDrains
PROPERTY EndMeansSpinning
