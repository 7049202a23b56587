SPECIFICATION McSpec
CONSTANTS
  Proj = {1, 2, 3}
  Pkg = {"r", "s"}
  Ver = {1, 2}
  Root = Root
  None = None
  Universe <- MCUniverse
  Versions <- MCVersions
  Tree <- MCTree
  Internal <- MCInternal
  External <- MCExternal
  Rule <- MCRule
  Hint <- MCHint
  Imports <- MCImports
  RootRule <- MCRootRule
  Lock <- MCLock
  Changing <- MCChanging
  Gone <- MCGone
  Devices = {"same", "cross"}
  Path = {a, b}
INVARIANTS SolutionRight StacksAgree  VendorTrue
PROPERTY SearchEnds
CHECK_DEADLOCK FALSE
