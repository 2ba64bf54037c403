SPECIFICATION Spec
CONSTANTS
    deployments = deployments
    statefulsets = statefulsets
    web = web
    db = db
    e1 = e1
    e2 = e2
    None = None
    Targets <- MCTargets
    Workloads <- MCWorkloads
    TargetOf <- MCTargetOf
    Controlled = {}
    Unpatchable = {}
    Creatable = {web}
    Values = {0, 1}
    SleepValue = 0
    Executions = {}
    OperationOf <- NoOne
    UserEdits = {"workload", "wakeUpAt"}
    Workers = {"cron"}
    FaultKinds = {"call", "answer", "restart"}
    MaxFaults = 2
INVARIANTS
    TypeOK
    RestoreDataKept
    AsleepIsRecorded
PROPERTIES
    ImplementsSleepCycle
    ScheduledFromCurrentSpec
    RecordedIsNamed
CHECK_DEADLOCK FALSE
