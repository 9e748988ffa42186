CONSTANTS
    Foci = {"steer"}
    c0 = c0
    c1 = c1
    c2 = c2
    a = a
    b = b
    w1 = w1
    w2 = w2
    m1 = m1
    m2 = m2
    CpWriters = {w1, w2}
    CpIds = {c0, c1, c2}
    CpNone = none
    CpHistories <- Histories
    CpKinds = {"interrupt"}
    CpDocument <- Document
    CpTears = {"partial"}
    CpBound = 3
    TkTasks = {plain, detached}
    TkDetached = {detached}
    TkTimed = {plain}
    TkNone = none
    TkCap = 2
    TkBoots = 2
    TsKinds = {"interval", "calendar", "once"}
    TsStep = 2
    TsGrace = 1
    TsWindow = 3
    TsDay = 4
    TsHorizon = 6
    TsMaxRuns = 2
    TsAsks = 1
    SqUser = {u1, u2}
    SqEvents = {t1}
    SqNone = none
    SqCases <- AskedTalk
    SqWire = 3
    WfSteps = 2
    WfShapes <- Shapes
    WfMax = 3
    WfAsksLeft = 2
    WfBoots = 1
    WbSubscribers = {s1, s2}
    WbCap = 2
    WbCases <- BusCases
    WbWatches = 2
    WbTurns = 2
    HcHooks = 2
    HcMods = {m1, m2}
    HcOwners <- Owners
    HcCases <- HookCases
    GdTasks = {d1, d2}
    GdAgents = {x, y}
    GdNone = none
    GdUser = user
    GdGoals = 2
    GdCases <- GoalCases
SPECIFICATION Spec
INVARIANTS
    SqOnce
\* every component may come to rest
CHECK_DEADLOCK FALSE
