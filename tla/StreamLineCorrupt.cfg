CONSTANTS
    Byte <- MCByte
    Magic0 = 3
    Magic1 = 2
    Version = 1
    Types = {0, 1, 2}
    HeaderSize = 5
    MaxPayload = 1
    Capacity = 6
    Crc <- ByteSum
    Frames <- MCFrames
SPECIFICATION Spec
PROPERTIES CorruptFrameDisarms
