SPECIFICATION MicrophoneSpec
CONSTANTS
  M = {m1}
  None = None
  MaxFrames = 2
  MaxTail = 1
  MaxFaults = 1
  MaxCrashes = 1
  Sessions = {said, next}
  Acts = {swap}
  Copies = {plain, styled}
  Rich = {styled}
  Nothing = Nothing
  MaxFailures = 1
  said = said
  next = next
  swap = swap
  plain = plain
  styled = styled
  Scopes <- DictationScopes
CHECK_DEADLOCK FALSE
INVARIANTS
  AudioIsNamed
  NothingHeardIsLost
  NothingElseIsTouched
  FlagIsRight
PROPERTIES
  OffClearsAudio
  StoppedMeetingEnds
  MicrophoneIsReleased
