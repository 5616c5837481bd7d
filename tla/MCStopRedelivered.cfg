CONSTANTS
    r1 = r1
    r2 = r2
    aws = aws
    openstack = openstack
    Regions <- MCRegions
    Providers <- MCProviders
    OpenStack = openstack
    AuditLogMandatory = FALSE
    WindowMapConfigured = TRUE
    RuntimeSpecs <- MCSeedStopSpecs
    MaxFailures = 2
    MaxEdits = 1
    MaxRedeliveries = 1
    StopCap = 3
SPECIFICATION Spec
INVARIANT StopCountedOnce
CHECK_DEADLOCK FALSE
