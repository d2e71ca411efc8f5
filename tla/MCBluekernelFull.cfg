CONSTANTS
    MaxProcs = 4
    VersionMask = 2
    HwInts = {101}
    Lengths = {10}
    Timeouts = {0, 1}
    Priorities = {4, 8}
    MaxWakeups = 1
    MaxSleepers = 2
    Scenarios <- Creation
SPECIFICATION Spec
VIEW view
INVARIANT SearchSucceeds
