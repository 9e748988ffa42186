CONSTANTS
    Main = Main
    A = A
    B = B
    C = C
    Session = {Main, A, B, C}
    Root = Main
    Parent <- Deep
    Cap = 5
    Scripts <- StopB
SPECIFICATION Spec
INVARIANTS
    AncestorsWoken
\* a tree that has finished, or waits for its user, stands still
CHECK_DEADLOCK FALSE
