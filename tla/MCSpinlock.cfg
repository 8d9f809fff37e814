CONSTANT MaxDepth = 4
SPECIFICATION Spec
INVARIANTS MutualExclusion CriticalUninterrupted SpinsOnlyInWindow
PROPERTIES RestoresInterrupts
