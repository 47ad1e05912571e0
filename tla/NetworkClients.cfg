\* curl: one of the two file descriptors is used again.
\* http: a response of eight bytes in any pieces; chunks of 1, 3 and 4 bytes are
\* filled by some pieces and not by others, the default buffer is longer.
\* mail: a buffer of four bytes leaves one over in groups of three, as 4096 does.
\* kafka: twice what the internal queue holds.
SPECIFICATION ClientsSpec
CONSTANTS
    MaxReq = 4
    Sockets = {s1, s2}
    MaxDownloads = 3
    RespLen = 8
    ChunkSizes = {0, 1, 3, 4}
    Suggested = 16
    Files <- SmallFiles
    IN_BUF_SIZE = 4
    QueueMax = 2
    MaxCount = 4
INVARIANTS PollsAreWishes PartsArrive 
PROPERTIES EveryoneAnswered DownloadsEnd LoopReturns
CHECK_DEADLOCK FALSE
