CONSTANT Plays <- MCPlays
SPECIFICATION WorldSpec
INVARIANTS Consistent LocksHold ShownIsCurrent
