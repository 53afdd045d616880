SPECIFICATION BrowserSpec
CONSTANTS
    Tab = {t1}
    MaxCalls = 2
    Request = {r1, r2}
    MaxToken = 2
    Losses = {"answer", "request"}
    NoRequest = NoRequest
INVARIANTS OneLiveToken ClosedIsDead NoFalseAlarm CallsRaiseNoAlarm SignOutHolds
PROPERTIES DeadStaysDead EveryWaitEnds
