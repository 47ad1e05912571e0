\* zmq: a pipe smaller than the number of messages.
\* pubsub: enough failing sends to give up a message and to retry the next.
\* echo: an mtext of 9 bytes, so that lines of one character come back and the
\* longest, of 4, are too long for the client's msgrcv; the queue just holds one
\* of everybody.
SPECIFICATION QueuesSpec
CONSTANTS
    HWM = 5
    MaxTests = 8
    TotalMsg = 3
    MaxRetry = 2
    MaxSendFails = 4
    MaxRecvFails = 1
    Clients = {11, 12, 13}
    MSG_MAXLEN = 9
    LineLengths = {1, 4}
    QBytes = 24
    MaxLines = 2
INVARIANTS NoSleepOnEvents SentIsReceived SubscriberInStep
PROPERTIES Served Answered
