\* Three handles; two relays beyond the manager's; two objects with parameters;
\* classes of at most two members; two objects in the store.
SPECIFICATION ObjectsSpec
CONSTANTS
  Handles = {h1, h2, h3}
  MaxThreads = 2
  MaxCalls = 3
  Workers = {"w1", "w2", "w3"}
  ThreadTypes = {"GUI", "ANY"}
  Matrices = {"m"}
  MaxContexts = 3
  SignalSet <- Signals
  SlotSet <- Slots
  VoidSigs = {"v"}
  MaxRelays = 2
  MaxRecords = 1
  o1 = o1
  o2 = o2
  Owners = {o1, o2}
  Outs <- Outputs
  Ins <- Inputs
  Runs <- RunTime
  Contexts = {t1, t2}
  Roots = {"r"}
  MaxMade = 2
  MaxInputs = 2
  MaxNotify = 2
  ClassOrder <- ClassNames
  Members <- HowMany
  Kinds = {"param", "state", "property", "persistent", "input", "slot", "signal"}
  PluginTypes <- PluginFiles
  Interface <- Interfaces
  Plain = {"P"}
  Bare = {"B"}
  Settings = {"x", "y"}
  MaxObjects = 2
SYMMETRY Symmetry
INVARIANTS PoolSound ContextsSound LinksSound ParametersSound ReflectionSound StoreSound
PROPERTIES RecompileKeepsLinks RecompileRestoresInputs RecompileKeepsValues RestoresInPlace
CHECK_DEADLOCK FALSE
