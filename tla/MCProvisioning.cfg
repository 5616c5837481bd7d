\* The refinement of RuntimeProvisioning, with transient failures, edits and
\* events that run an unchanged Runtime again (at-least-once delivery).
CONSTANTS
    r1 = r1
    r2 = r2
    aws = aws
    openstack = openstack
    Regions <- MCRegions
    Providers <- MCProviders
    OpenStack = openstack
    AuditLogMandatory = TRUE
    WindowMapConfigured = TRUE
    RuntimeSpecs <- MCRuntimeSpecs
    MaxFailures = 2
    MaxEdits = 2
    MaxRedeliveries = 2
    StopCap = 3
SPECIFICATION Spec
PROPERTY ImplementsProvisioning
CHECK_DEADLOCK FALSE
