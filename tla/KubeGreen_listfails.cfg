SPECIFICATION Spec
CONSTANTS
    deployments = deployments
    statefulsets = statefulsets
    web = web
    db = db
    e1 = e1
    e2 = e2
    None = None
    Targets <- MCTargets
    Workloads <- MCWorkloads
    TargetOf <- MCTargetOf
    Controlled = {}
    Unpatchable = {}
    Creatable = {}
    Values = {0, 1}
    SleepValue = 0
    Executions = {}
    OperationOf <- NoOne
    UserEdits = {}
    Workers = {"cron"}
    FaultKinds = {"list"}
    MaxFaults = 1
INVARIANTS
    WakeUpIsComplete
CHECK_DEADLOCK FALSE
