SPECIFICATION Spec
CONSTANT MaxPollCycles <- MCPollCycles
INVARIANT NotReadyMeansPinged
