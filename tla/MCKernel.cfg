CONSTANTS
  HeapSize = 28
  Header = 4
  Align = 2
  SizeMod = 64
  Sizes = {1, 2, 4, 7}
  ContextSize = 4
  Window = 3
  OutputSize = 4
  CharMod = 4
  FirstToken = 1
  Models <- MCModels
  Prompts <- MCPrompts
  Budgets = {1, 4}
  Buses = 3
  SlotsPerBus = 2
  Funcs = 3
  MaxDevices = 3
  Machines <- MCMachines
  TestSize = 2
  RequestSize = 4
  ResponseSize = 7
  EmbeddedModel <- MCEmbedded
SPECIFICATION KernelSpec
INVARIANTS NoOverlap LargeEnough Coalesced Accounted NothingLeaks SampleInBounds GeneratedText ScanExact CardIsUsed
