SPECIFICATION AlgSpec
CONSTANTS
  WordBits = 6
  Widths = {4, 5, 6}
  CharBits = 5
  LastScalar = 27
  Surrogates = {12, 13}
  EnumCases = {0, 1, 5}
  Fields = {"f", "g"}
  Rounds = 2
  MaxBindings = 3
  MaxDepth = 6
  MaxHandlers = 2
  Questions = {"binary", "unary", "lanes", "fold", "conversion", "index", "slice", "text", "scalar", "constant", "condition", "body", "layout", "views"}
INVARIANT OperatorsMeanIt
INVARIANT CompiledAgrees
INVARIANT ConversionsMeanIt
INVARIANT PlacesAreInside
INVARIANT TextIsWellFormed
INVARIANT ConstantsAreTheirRun
INVARIANT PruningKeepsMeaning
INVARIANT InitBuildsTheWhole
INVARIANT LayoutsAgree
INVARIANT ViewsAreLive
