\* A draft of a stream whose audio is recorded before its first keyframe.
SPECIFICATION MCSpec
CONSTANTS
    High = High
    Low = Low
    Layers = {High, Low}
    Priority <- MCPriority
    H264 = H264
    H265 = H265
    Codecs = {H264, H265}
    Unsupported = H265
    None = None
    Sends <- MCSends
    QueueSize = 2
    BufferDuration = 1
    Drift = 1
    MaxInputs = 3
    MaxPublishers = 2
    Times = {0, 3, 300}
    FrameSizes = {3, 123}
    MaxFrames = 4
    MaxDuration = 255
    InfoSize = 100
    TracksSize = 150
    Bytes = {0}
    MaxLength = 1
    MaxZeros = 1
    MaxLEB = 1
    NoPicture = NoPicture
    Writers = {w1}
    Watchers = {v1}
    Modulus = 16
    Numbers = {0}
    NoNumber = NoNumber
    MaxPackets = 1
INVARIANTS
    DraftsPlay
CHECK_DEADLOCK FALSE
