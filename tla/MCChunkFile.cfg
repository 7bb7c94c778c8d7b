\* Chunks of three bytes, three chunks, writes that touch all of them.
CONSTANTS
    Bytes = {0, 1, 2}
    ChunkSize = 3
    MaxSize = 7
    Payloads <- SomePayloads
SPECIFICATION Spec
INVARIANTS
    HandleReadsContent
    PathReadsDenseContent
PROPERTY ImplementsByteFile
