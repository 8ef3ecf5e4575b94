SPECIFICATION Spec
CONSTANTS
  None = None
  slash = slash
  work = work
  sub = sub
  outer = outer
  bin = bin
  etc = etc
  file = file
  deep = deep
  private = private
  tool = tool
  hosts = hosts
  made = made
  bounded = bounded
  odd = odd
  decoy = decoy
  out = out
  turn = turn
  Root = slash
  Made = made
  Bounded = bounded
  Kind <- TheKind
  Target <- TheTarget
  Locked <- EmptySet
  Names <- TheNames
  Shown <- TheShown
  MaxLinks = 2
  SystemPaths <- TheSystemPaths
  ResolverFiles <- TheResolverFiles
  Required <- TheRequired
  Owned <- TheOwned
  HomeParents <- TheHomeParents
  SharedParents <- TheHomeParents
  Home <- TheHome
  InitTrees <- TheTrees
  CommandLines <- TheCommandLines
  Kernels <- TheKernels
  Requests <- TheRequests
  Movable <- TheMovable
  Matching <- TheMatching
  Size <- TheSize
  MaxFile = 2
  MaxScanned = 2
  MaxFiles = 2
  MaxMoves = 2
INVARIANTS
  Conceals
  KernelAgrees
PROPERTIES
  ReachesOnlyGranted
