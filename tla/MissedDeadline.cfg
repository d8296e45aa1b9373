SPECIFICATION PulseSpec
CONSTANT MaxQueued = 3
INVARIANT DeadlineIsNoticed
