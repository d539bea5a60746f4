SPECIFICATION Spec
CONSTANTS
  Labels = {}
  Allocs = {"heap"}
  HeapAlloc = "heap"
  Vals = {"one"}
  Dialects = {{"loop", "defer", "match", "break in switch"}}
  MaxFrames = 6
  MaxDefers = 1
  MaxNesting = 1
INVARIANT SamePlace
