CONSTANTS
    Coordinators = {localhost, remote}
    Own = localhost
    Machines = {me, peer}
    Me = me
    Cpus <- MCCpus
    UsedBy <- MCUsedBy
    None = none
    MaxEvents = 4
SPECIFICATION Spec
CHECK_DEADLOCK FALSE
PROPERTIES
    MonitorConverges
    OfferedServes
