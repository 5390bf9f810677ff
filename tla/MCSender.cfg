\* When every packet has been sent the viewer is idle.
SPECIFICATION Spec
CONSTANTS
    High = High
    Low = Low
    Layers = {High, Low}
    Priority <- MCPriority
    NoLayer = NoLayer
    NoPacket = NoPacket
    Audio = Audio
    QueueSize = 2
    MaxPackets <- MCMaxPackets
    HighPackets = 5
    LowPackets = 2
    MaxAudio = 1
    MaxChanges = 1
PROPERTIES
    FirstIsKeyframe
    ResumesAtKeyframe
    NeverToWorseLayer
CHECK_DEADLOCK FALSE
