SPECIFICATION FairSpec
CONSTANTS
  Labels = {}
  Allocs = {"heap", "arena"}
  HeapAlloc = "heap"
  Vals = {"one"}
  Dialects = {{"if", "loop", "with", "catch", "defer", "trap"}}
  MaxFrames = 5
  MaxDefers = 2
  MaxNesting = 1
INVARIANT SameAllocator
INVARIANT AllocatorRestored
PROPERTY ExitsEnd
