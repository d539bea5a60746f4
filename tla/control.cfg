SPECIFICATION Spec
CONSTANTS
  Labels = {"outer"}
  Allocs = {"heap"}
  HeapAlloc = "heap"
  Vals = {"one"}
  Dialects = {{"loop", "label", "defer", "match", "call", "else exit"}, {"catch", "defer", "errdefer", "call", "argument"}}
  MaxFrames = 6
  MaxDefers = 2
  MaxNesting = 1
INVARIANT SamePlace
INVARIANT NoStrayJump
PROPERTY NoCallLost
