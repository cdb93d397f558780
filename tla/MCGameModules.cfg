\* Mod keeps its zero value: init() registers nil.
CONSTANTS
    nil = nil
    obj = obj
    Nil = nil
    ModObject = obj
    Mod = nil
    StartUnix = t2023
    FinalUnix = t2100
    RankIds = {1}
    SortTypes = {1, 2}
    e1 = e1
    Events = {e1}
    p1 = p1
    p2 = p2
    Players <- MCPlayers
    GamePlayPlayers = {p1}
    m1 = m1
    m2 = m2
    Messages = {m1, m2}
    MaxHandled = 2
    scLogin = scLogin
    scChat = scChat
    ResponseIds = {scLogin, scChat}
SPECIFICATION Spec
INVARIANT InitDoesNotPanic
\* The panic ends the process: no step follows it.
CHECK_DEADLOCK FALSE
