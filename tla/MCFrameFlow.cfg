SPECIFICATION FairSpec
CONSTANTS
  MaxFrames = 2
  FrameCap = 1
  AlertCap = 1
  MaxEvents = 2
INVARIANTS FramesConserved SinksAgree CaptureEndDrains
PROPERTIES AllStop Delivers
