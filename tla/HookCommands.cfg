SPECIFICATION Spec
CONSTANTS
  h1 = h1
  h2 = h2
  h3 = h3
  h4 = h4
  h5 = h5
  core = core
  irc = irc
  NoHook = NoHook
  NoPlugin = NoPlugin
  Hook = {h1, h2, h3, h4, h5}
  Plugin = {core, irc}
  Name = {1, 2}
  TypeOf <- CommandType
  NameOf <- CommandName
  Covers <- CommandCover
  Priority <- CommandPrio
  WithPrefix = {h3}
  PluginOf <- CommandPlugin
  MaxCalls = 1
  Incomplete = TRUE
  MaxDepth = 2
INVARIANTS ReentryBounded ChosenHasTopPriority LoopsAccounted
