\* epoll: two clients that send twice, more than a buffer or less.
\* thread: three clients, so that the third may get the number the first has left
\* while the second is served; one reset and one thread that cannot be created.
\* eventfd: four tasks through two descriptors and batches of two, so that numbers
\* are used again while a batch is held, and EMFILE happens.
\* timerfd: three timers that expire twice; a batch of two leaves a timer behind.
\* aio: files shorter than, equal to and longer than the first buffer.
\* closefd: any descriptors among 3..5, any of them sockets, and one failing call.
SPECIFICATION DescriptorsSpec
CONSTANTS
    Clients = {c1, c2}
    Listener = listener
    None = none
    MaxSend = 2
    MAX_BUFFER_SIZE = 2
    MaxEvents = 2
    Backlog = 5
    ListenMode = "ET"
    ConnMode = "ET"
    NonBlock = TRUE
    Peers = {a, b, c}
    Chunks = 1
    BufSize = 1
    MaxResets = 1
    MaxCreateFails = 1
    Producers = {p1, p2}
    Consumers = {w1, w2}
    MaxFd = 2
    MAX_EVENTS_SIZE = 2
    MaxTasks = 4
    Timers = {t1, t2, t3}
    MaxTicks = 2
    MaxLen = 6
    LastFd = 5
    MaxErrors = 1
INVARIANTS InputNoticed ServesItsOwn DescriptorsAreCurrent NothingUnnoticed  
PROPERTIES InputRead EveryTaskDone
CHECK_DEADLOCK FALSE
