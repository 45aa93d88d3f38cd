CONSTANTS
    StartCalls = {c1, c2, c3}
    StopCalls = {d1, d2}
    NoCall = NoCall
SPECIFICATION Spec
INVARIANTS SettledOnce NoPromiseLost
PROPERTIES TokenIsolation
