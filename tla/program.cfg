CONSTANTS
  Worlds <- PlainWorlds
  Builtin <- MCBuiltin
  Embedded <- MCEmbedded
  Spelling <- MCSpelling
SPECIFICATION Spec
INVARIANT WholeProgram
INVARIANT NothingUsedIsPruned
INVARIANT InstancesResolve
INVARIANT DeclaredBefore
INVARIANT ContainmentExact
INVARIANT GlobalsAgree
INVARIANT SymbolsApart
