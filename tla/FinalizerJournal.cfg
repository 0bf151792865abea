SPECIFICATION Spec
CONSTANT MaxAttempts = 3
INVARIANTS TypeOK NothingTwice ReceiptsAreTrue EffectsAreIntended SoleMutator
PROPERTY JournalMovesOn
CHECK_DEADLOCK FALSE
