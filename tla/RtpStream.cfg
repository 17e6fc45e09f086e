SPECIFICATION Spec
CONSTANTS
  SeqModulus = 32
  TsModulus = 64
  FrameSamples = 2
  None = None
  CatchUp = 2
  Frames = 4
  Digits <- MCDigits
  EventDurations <- MCEventDurations
  FirstEnd = 2
  EventSamples = 5
  Origins <- MCOrigins
  Stream = "own"
  AudioPayload = 8
  EventPayload = 101
  Endpoint <- MCEndpoint
  ReorderWindow = 1
  MaxRetained = 6
  MaxGap = 2
  Streams = {"own", "other"}
  DefaultMedia <- MCDefaultMedia
  Negotiations <- MCNegotiations
  Strays <- MCStrays
  MaxExtra = 1
  MaxDelay = 2
CHECK_DEADLOCK FALSE
INVARIANTS
  TypeOK
  TimelineKept
  LossIsCountedExactly
  SamplesInPlace
  DigitsReportedOnce
  OneNegotiatedStream
PROPERTIES
  InTimeMeansKept
