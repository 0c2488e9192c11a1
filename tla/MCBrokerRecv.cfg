\* A spec-conformant subscriber over a connection that splits its bytes
\* into reads of any size from 1 to 8.  recv_buf's capacity is 24
\* (4096 in the code) and a read returns at most 8 bytes (1024).
CONSTANTS
    Stream <- MCSubscriber
    Groups <- MCGroups
    RecvSize = 24
    ReadSize = 8
SPECIFICATION Spec
INVARIANT TypeOK
INVARIANT NoPanic
INVARIANT FramesAnsweredInOrder
\* The connection stops when the peer has nothing more to send, or after
\* onClose: the read loop then waits in conn.Read forever.
CHECK_DEADLOCK FALSE
