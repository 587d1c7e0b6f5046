CONSTANTS
  Narrow = 1024
  Wide = 131072
  Classes <- MCClasses
  Samples <- MCSamples
  Strays <- MCStrays
  MaxRepeated = 2
  LenMod = 24
  SerialMod = 3
  PacketLenMod = 11
  Formats = {"packet", "cellnet", "web"}
  Asserts = {TRUE, FALSE}
  StackSize = 11
  Letters <- MCLetters
  Packets <- MCPackets
  LongPackets <- MCLong
  MaxSent <- MCMaxSent
  Server = {1, 2}
  ServerMod = 4
  IncMod = 2
  MaxPings = 1
  MaxWhole = 4
  MaxClock = 1
  MaxRun = 1
  MaxEntered = 3
  MaxIssued = 4
  Endpoints = 3
  TTL = 15
  Period = 5
  Timeout = 5
  Answer = 2
  MaxRounds = 3
SPECIFICATION MCSpec
INVARIANTS
  RoundTrip
  ConcatenationMerges
  ForeignUnderstood
  CutNeverInvents
  StrayRefused
  HandedOver
  FragmentCosts
  AssertsHold
  IdTypeOK
  SharedRuntimeID
  PresentIsFound
  KeyStays
CHECK_DEADLOCK FALSE
