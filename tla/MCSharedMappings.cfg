SPECIFICATION SharedSpec
CONSTANTS
    Boot = s0
    Spaces = {s0, s1, s2}
    Pages = {1}
    NoPage = 0
    Stack = {}
    Frames = {f1, f2}
    NoFrame = NoFrame
    Values = {0}
    Zero = 0
    Unmapped = Unmapped
    MaxRef = 65535
INVARIANT MappedNotFree
CHECK_DEADLOCK FALSE
