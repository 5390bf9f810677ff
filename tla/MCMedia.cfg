\* When every packet has been recorded the goroutine waits, and a written file is the end.
SPECIFICATION MCSpec
CONSTANTS
    High = High
    Low = Low
    Layers = {High, Low}
    Priority <- MCPriority
    H264 = H264
    H265 = H265
    Codecs = {H264, H265}
    Unsupported = H265
    None = None
    Sends <- MCSends
    QueueSize = 2
    BufferDuration = 1
    Drift = 1
    MaxInputs = 3
    MaxPublishers = 2
    Times = {0, 3, 300}
    FrameSizes = {3, 123}
    MaxFrames = 4
    MaxDuration = 255
    InfoSize = 100
    TracksSize = 150
    Bytes = {0, 1, 3, 18, 48, 128, 240}
    MaxLength = 3
    MaxZeros = 4
    MaxLEB = 3
    NoPicture = NoPicture
    Writers = {w1, w2}
    Watchers = {v1, v2}
    Modulus = 16
    Numbers = {0, 1, 14, 15}
    NoNumber = NoNumber
    MaxPackets = 3
INVARIANTS
    ClipsPlay
    FileRight
    PayloadsRead
    NumbersKept
PROPERTIES
    BufferKept
CHECK_DEADLOCK FALSE
