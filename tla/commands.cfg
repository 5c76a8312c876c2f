\* Two interactions at a time, any number one after the other, of every command.
SPECIFICATION Spec
CONSTANTS
    Goroutines = {g1, g2}
    g1 = g1
    g2 = g2
SYMMETRY GoroutineSymmetry
INVARIANTS
    TypeOK
    AnswersAreTrue
    RefusedDoNothing
    ReturnedIsTold
    TrackedAreRunning
PROPERTY
    LastWordStands
