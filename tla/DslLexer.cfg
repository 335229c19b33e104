\* Every text of up to five characters.
SPECIFICATION Spec
CONSTANTS
    MaxLength = 5
    InitialCapacity = 2
INVARIANTS CutsText FitsParser Bounded
CHECK_DEADLOCK FALSE
