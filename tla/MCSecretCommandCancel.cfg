SPECIFICATION Spec
CONSTANTS
    Symbols = {"a", "b"}
    Patterns = {}
    Marker = "*"
    MaxInput = 1
    MaxChunk = 2
    QueueSize = 2
PROPERTY CanceledCommandStops
