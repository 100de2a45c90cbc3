SPECIFICATION Spec
CONSTANTS
    Streams = {s1, s2}
    NoStream = NoStream
    InitialBackoff = 1
    MaxBackoff = 2
    Frames <- SomeFrames

    
PROPERTIES
    LostStreamsReconnect
    ShutdownEnds
CHECK_DEADLOCK FALSE
