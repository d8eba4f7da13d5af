CONSTANTS
  Addr <- MCAddr
  Choice = 1
  NameOrder <- MCNames
  Files <- MCFiles
  Strings <- MCStrings
  Packages <- MCPackages
  PackageLists <- MCPackageLists
  FileLists <- MCFileLists
  Expressions <- MCExpressions
  Paths <- MCPaths
  Intrinsics <- MCIntrinsics
  ListFold <- MCListFold
  Declarations <- MCDeclarations
  Careful = TRUE
  Calls = 3
SPECIFICATION Spec
INVARIANTS TypeOK CacheAgrees HandlesResolve NoLeftover PreludeWhole VerdictsSound ResolvesByTheRules
