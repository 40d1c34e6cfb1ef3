\* Three processes with shared or copied tables of two slots; and two that
\* make, link, move and remove files under each other, where a disk access may
\* fail.
CONSTANTS
    p1 = p1
    p2 = p2
    p3 = p3
    Procs = {p1, p2, p3}
    None = None
    Tables = {t, u}
    Descs = {d, e}
    FILES_STRUCT_NENTRY = 2
    FirstClosed = 1
    INOS = 3
    FileNames = {"a", "b"}
    Scenes <- AllScenes
    FAULTS = 1
    TOKENS = 2
SPECIFICATION PartSpec
INVARIANTS RefCountExact ReservedSlotsOwned LinksExact NoUseAfterReclaim DirTree
CHECK_DEADLOCK FALSE
