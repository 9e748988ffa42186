CONSTANTS
    Main = Main
    A = A
    B = B
    C = C
    Session = {Main, A, B}
    Root = Main
    Parent <- Chain
    Cap = 5
    Scripts <- StopB
    SqUser = {u1, u2}
    SqEvents = {t1}
    SqNone = none
    SqCases <- EventTalk
    SqWire = 3
    i1 = i1
    i2 = i2
    PwItems = {i1, i2}
    PwKids = {1, 2, 3}
    PwNone = none
    PwLives = 1
    PwDepends <- Needs
    PwCases <- PlanCases
    TdMembers = {x, y}
    TdNone = none
    TdSent = 4
    TdMax = 1
    TdCases <- TeamCases
SPECIFICATION ProgressSpec
INVARIANTS
    PwOneChild
    PwEndsTold
    TdServed
PROPERTIES
    EveryoneSettles
    ReportsArrive
    SqEventsArrive
\* a tree that has finished, or waits for its user, stands still
CHECK_DEADLOCK FALSE
