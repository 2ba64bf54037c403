SPECIFICATION Spec
CONSTANTS
    deployments = deployments
    statefulsets = statefulsets
    web = web
    db = db
    e1 = e1
    e2 = e2
    None = None
    Targets = {deployments}
    Workloads <- MCOneWorkload
    TargetOf <- MCOneTarget
    Controlled = {}
    Unpatchable = {}
    Creatable = {}
    Values <- MCValues
    SleepValue = 0
    Executions <- MCExecutions
    OperationOf <- MCOperationOf
    UserEdits = {"workload", "wakeUpAt"}
    Workers = {"exec"}
    FaultKinds = {"call", "answer", "restart"}
    MaxFaults = 1
INVARIANTS
    RestoreDataKept
    AsleepIsRecorded
PROPERTIES
    ImplementsSleepCycle
CHECK_DEADLOCK FALSE
