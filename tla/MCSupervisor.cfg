SPECIFICATION Spec
CONSTANT Signals = {SIGTERM, SIGINT}
INVARIANTS NoOrphans HooksdFirst
CHECK_DEADLOCK FALSE
