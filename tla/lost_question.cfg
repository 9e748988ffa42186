CONSTANTS
    Main = Main
    A = A
    B = B
    C = C
    Session = {Main, A, B}
    Root = Main
    Parent <- Chain
    Cap = 5
    Scripts <- RetriedQuestion
SPECIFICATION Spec
INVARIANTS
    ParkAnswerable
\* a tree that has finished, or waits for its user, stands still
CHECK_DEADLOCK FALSE
