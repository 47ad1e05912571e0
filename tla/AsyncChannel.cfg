\* Three producers of two items each: sends coalesce, callbacks find the
\* vector empty, and the spinlock is contended by four threads.  No symmetry:
\* the run checks a temporal property.
SPECIFICATION FairSpec
CONSTANTS
    Producers = {p1, p2, p3}
    TestCount = 2
INVARIANT NoLostWakeup
PROPERTIES FifoSpec AllConsumed
CHECK_DEADLOCK FALSE
