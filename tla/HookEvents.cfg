SPECIFICATION FairSpec
CONSTANTS
  h1 = h1
  h2 = h2
  h3 = h3
  h4 = h4
  h5 = h5
  core = core
  irc = irc
  NoHook = NoHook
  NoPlugin = NoPlugin
  Hook = {h1, h2, h3, h4}
  Plugin = {core, irc}
  Name = {1}
  TypeOf <- EventType
  NameOf <- EventName
  Covers <- AllCover
  Priority <- EventPriority
  WithPrefix = {}
  PluginOf <- EventPlugin
  MaxCalls = 2
  Incomplete = TRUE
  MaxDepth = 2
INVARIANTS ListsWellFormed PointersValid EveryHookCalledOnce
PROPERTIES DeletedAreFreed
