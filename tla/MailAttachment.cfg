SPECIFICATION ClientsSpec
CONSTANTS
    MaxReq = 4
    Sockets = {s1, s2}
    MaxDownloads = 3
    RespLen = 8
    ChunkSizes = {0, 1, 3, 4}
    Suggested = 16
    Files <- SmallFiles
    IN_BUF_SIZE = 4
    QueueMax = 1
    MaxCount = 1
INVARIANT AttachmentDecodes
CHECK_DEADLOCK FALSE
