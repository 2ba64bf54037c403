SPECIFICATION FairSpec
CONSTANTS
    deployments = deployments
    statefulsets = statefulsets
    web = web
    db = db
    e1 = e1
    e2 = e2
    None = None
    Targets = {deployments}
    Workloads <- MCOneWorkload
    TargetOf <- MCOneTarget
    Controlled = {}
    Unpatchable = {}
    Creatable = {}
    Values = {0, 1}
    SleepValue = 0
    Executions <- MCExecutions
    OperationOf <- MCOperationOf
    UserEdits = {"delete"}
    Workers = {"exec"}
    FaultKinds = {"list", "call", "answer", "restart"}
    MaxFaults = 1
PROPERTIES
    ExecutionsEnd
    SecretIsCollected
CHECK_DEADLOCK FALSE
