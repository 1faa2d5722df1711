SPECIFICATION Spec
CONSTANTS
  VideoCodecs <- MCVideoCodecs
  AudioCodecs <- MCAudioCodecs
  MaxStreams = 2
INVARIANTS
  TypeOK
  FormatsAgree
  EveryChildIsRead
  SomethingIsPublished
