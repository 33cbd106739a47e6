\* One request with a body.
SPECIFICATION Spec
CONSTANTS
    r1 = r1 r2 = r2
    Requests = {r1}
    FrameLen = 2
    Window = 2
    RequestFrames <- WithBody
    ResponseFrames <- WithBody
    Leavers = {r1}
    Accepting = Accepting
INVARIANT EntireRequestBuffered
CHECK_DEADLOCK FALSE
