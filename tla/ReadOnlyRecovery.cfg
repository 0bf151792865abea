SPECIFICATION ScheduledSpec
CONSTANT MaxAttempts = 2
INVARIANT ObservationsAreAdmitted
CHECK_DEADLOCK FALSE
