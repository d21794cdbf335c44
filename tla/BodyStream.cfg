\* Two answers and one thread: one of them waits for the other.
SPECIFICATION FairSpec
CONSTANTS
    long = long
    empty = empty
    Requests = {long, empty}
    Size <- Files
    BufferSize = 2
    Threads = 1
    NoChunk = NoChunk
    Failure = Failure
INVARIANTS
    TypeOK
    BytesInOrder
    NeverTruncated
    Backpressure
PROPERTIES
    ThreadsComeBack
    BodiesEnd
    StopsForGood
