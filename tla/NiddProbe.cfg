SPECIFICATION FairSpec
CONSTANTS
    Base = 2
    HEADER_DIGITS_MAX = 2
    UINT32_MAX = 2
    TAG_CHARS = 1
    Space = Space
    Newline = Newline
    FRAME_SHADOW = FRAME_SHADOW
    FRAME_STATUS = FRAME_STATUS
    OtherType = OtherType
    Filler = Filler
    FromPlatform <- MCFromPlatform
    Builds = {TRUE, FALSE}
    Fds = {0, 1}
    Byte <- MCByte
    Frames <- MCFrames
    NoFrame = NoFrame
\* main() returns and the shell may stay idle.
CHECK_DEADLOCK FALSE
INVARIANTS
    NonIpOnly
    EndsClean
    OpensOnOwnPdn
    PrintsTrue
PROPERTIES
    TimeoutsAreReal
    Concludes
