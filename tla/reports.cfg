CONSTANTS
    Main = Main
    A = A
    B = B
    C = C
    Session = {Main, A, B, C}
    Root = Main
    Parent <- Fan
    Cap = 5
    Scripts <- Reports
SPECIFICATION Spec
INVARIANTS
    ReportOnce
    ReportsHeld
    StopReachesTurn
PROPERTIES
    TerminalFinal
\* a tree that has finished, or waits for its user, stands still
CHECK_DEADLOCK FALSE
