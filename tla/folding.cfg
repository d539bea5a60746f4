SPECIFICATION DisagreeSpec
CONSTANTS
  WordBits = 6
  Widths = {4, 6}
  CharBits = 5
  LastScalar = 27
  Surrogates = {12, 13}
  EnumCases = {0, 1, 5}
  Fields = {"f", "g"}
  Rounds = 2
  MaxBindings = 3
  MaxDepth = 6
  MaxHandlers = 2
  Questions = {"decided"}
INVARIANT RemovalKeepsMeaning
