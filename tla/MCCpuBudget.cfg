SPECIFICATION BudgetFairSpec
CONSTANTS
    Thread <- MCThread
    Duty <- MCDuty
    Quota = {"send", "check"}
    MaxCalls = 1
    Starter <- MCStarter
    Request <- MCRequest
    Available = 6
    Unset = Unset
INVARIANTS
    PhasesSound
    OvertakenAtMostOnce
    PlanSound
PROPERTIES
    WalletServed
    CallsReturn
