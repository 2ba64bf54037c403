SPECIFICATION Spec
CONSTANTS
    deployments = deployments
    statefulsets = statefulsets
    web = web
    db = db
    e1 = e1
    e2 = e2
    None = None
    Targets <- MCTargets
    Workloads <- MCWorkloads
    TargetOf <- MCTargetOf
    Controlled = {}
    Unpatchable = {}
    Creatable = {}
    Values = {0, 1}
    SleepValue = 0
    Executions = {e1}
    OperationOf <- MCSleepFirst
    UserEdits = {}
    Workers = {"exec"}
    FaultKinds = {"call"}
    MaxFaults = 1
INVARIANTS
    SleepStoresOriginals
CHECK_DEADLOCK FALSE
