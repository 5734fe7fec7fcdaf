SPECIFICATION Spec
CONSTANTS
    Boot = s0
    Spaces = {s0, s1}
    Pages = {1, 2}
    NoPage = 0
    Stack = {2}
    Frames = {f1, f2, f3}
    NoFrame = NoFrame
    Values = {0, 1}
    Zero = 0
    Unmapped = Unmapped
    MaxRef = 65535
SYMMETRY Symmetry
INVARIANTS TypeOK RefsExact WritableAlone 
 
CHECK_DEADLOCK FALSE
