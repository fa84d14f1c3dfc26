\* 12 is the address a call at 8 returns to; MaxSize cuts the longest reports.
CONSTANTS
    self = self
    t1 = t1
    t2 = t2
    Address = {0, 8, 12}
    Adjust = 4
    Thumb = FALSE
    MaxFrames = 3
    MaxThreads = 2
    MaxSize = 8
    HeadSize = 2
    ThreadSize = 1
    FrameSize = 1
    Tid = {self, t1, t2}
    Self = self
    Callers = {"handler", "dump", "terminate"}
    Failures = {"opendir", "fopen"}
    MaxDepth = 5
SPECIFICATION Spec
SYMMETRY MCSymmetry
CHECK_DEADLOCK FALSE
INVARIANTS
    TypeOK
    FramesFaithful
    StackReported
    WholeReport
