CONSTANTS
    NULL = NULL
    a = a
    b = b
    big = big
    Streams = {a, b, big}
    FramesOf <- MCFrames
    H2_HDR = 2
    HdrsLen = 2
    EthMin = 3
    Segs = {0, 1, 3, 4}
    XDP_EVT_OTHER_RAW_MAX = 5
    RingSize = 2
    STREAM_CACHE_MAX = 2
    STREAM_BUF_MAX = 5
    MaxAnomalies = 1
    MaxPackets = 5
SPECIFICATION StreamsSpec
INVARIANTS
    ReassemblyExact
    NoForeignBytes
CHECK_DEADLOCK FALSE
