\* Two requests on one connection; a window as long as a frame, so that a
\* receiver that lags cuts frames to pieces.
SPECIFICATION FairSpec
CONSTANTS
    r1 = r1 r2 = r2
    Requests = {r1, r2}
    FrameLen = 2
    Window = 2
    RequestFrames <- WithBody
    ResponseFrames <- WithBody
    Leavers = {r1}
    Accepting = Accepting
INVARIANTS
    TypeOK
    CallsFindTheirStream
    CompleteRequestsServedWhole
    FinishedResponsesAreWhole
PROPERTIES
    StreamsKeepPromise
    RequestsEnd
CHECK_DEADLOCK FALSE
