\* Two dials, two versions in a channel of two, at most one retry; Close and
\* ResetVersions at any time; fairness.
SPECIFICATION SdkLiveSpec
CONSTANTS
  MaxDials = 2
  MaxVersion = 2
  BufferSize = 2
  MaxAttempts = 1
INVARIANTS SdkTypeOK OneReader EventsInOrder
PROPERTIES LostReconnects CloseEndsAll
CHECK_DEADLOCK FALSE
