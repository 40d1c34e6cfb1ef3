\* Pipes and socket pairs: data, blocking, duplication, signals and closes.
CONSTANTS
    r = r
    w = w
    a = a
    b = b
    pipe = pipe
    ab = ab
    ba = ba
    p1 = p1
    p2 = p2
    p3 = p3
    b0 = b0
    b1 = b1
    None = None
    Procs = {p1, p2, p3}
    Pipes = {pipe, ab, ba}
    Descs = {r, w, a, b}
    rd <- Reads
    wr <- Writes
    FS_PIPE_CAPACITY = 2
    Byte = {b0, b1}
    Scenes <- AllScenes
SPECIFICATION Spec
INVARIANTS NoLostWakeup EndsCounted
PROPERTY ImplementsStream
CHECK_DEADLOCK FALSE
