SPECIFICATION Spec
CONSTANTS
  Roots = {here, there}
  Packages = {net}
  Leaves = {x, y}
  App = App
  NoRoot = NoRoot
  MaxRequests = 2
  MaxImports = 2
  MaxChanges = 2
  MaxRoots = 2
  ChosenIds = {1}
  MaxFunctions = 3
  MaxFires = 2
  MaxChains = 3
  MaxResets = 1
  Signals = {sig}
  AnySignal = any
  Contexts = {c1, c2}
  MaxSubscriptions = 3
  MaxUnsubscribes = 2
  MaxPublishes = 2
  MaxItems = 2
  MaxHandlers = 2
  MaxCancelbacks = 1
  MaxCharacters = 3
  MaxOnTheWay = 1
  MaxSwitches = 2
  here = here
  there = there
  net = net
  x = x
  y = y
  sig = sig
  any = any
  c1 = c1
  c2 = c2
INVARIANTS
  RunsOnce
  FinalExports
  PackageFromOneRoot
  CalledOnce
  JoinWaits
  SubscribersHear
  NeverLost
  TextAsWritten
CHECK_DEADLOCK FALSE
