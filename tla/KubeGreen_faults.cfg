SPECIFICATION Spec
CONSTANTS
    deployments = deployments
    statefulsets = statefulsets
    web = web
    db = db
    e1 = e1
    e2 = e2
    None = None
    Targets = {deployments}
    Workloads <- MCOneWorkload
    TargetOf <- MCOneTarget
    Controlled = {}
    Unpatchable = {}
    Creatable = {}
    Values = {0, 1}
    SleepValue = 0
    Executions = {e1}
    OperationOf <- MCSleepFirst
    UserEdits = {"targets"}
    Workers = {"cron", "exec"}
    FaultKinds = {"list", "call", "answer", "restart"}
    MaxFaults = 1
INVARIANTS
    OriginalsNotAsleep
PROPERTIES
    PhaseIsFinal
CHECK_DEADLOCK FALSE
