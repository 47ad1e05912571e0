\* One object, two descriptor numbers, so that a number is reused while another
\* socket is open, and two calls: one that needs all the heap blocks of a
\* completion and one that sets a watch.
SPECIFICATION FairSpecOnce
CONSTANTS
    Fds = {3, 4}
    Ops = {o1, o2}
    Methods = {"aset_acl", "aw_get"}
    MaxInits = 1
    MaxClosing = 2
INVARIANTS  QuietAfterClose RefHeld Driven
PROPERTIES CloseReleases
CHECK_DEADLOCK FALSE
