SPECIFICATION NodeSpec
CONSTANTS
    Value = {0, 1, 2}
    Switchdev = {2}
    MaxReboots = 3
    MaxChanges = 2
    MaxFaults = 2
    Bridge = {b1, b2}
    MaxEvents = 3
    MaxFailures = 1
    KSpec <- KernelSpecs
    KAtStart = {{"iommu=pt"}}
    CpuVendor = {"", "amd"}
    MaxKReboots = 3
    MaxKChanges = 2
    MaxKFaults = 1
    a = a
    b = b
    Nic = {a, b}
    Dual = {a}
    MSpec <- NicSpecs
    MaxMReboots = 3
    MaxMChanges = 3
    MaxMFaults = 1
    MaxGChanges = 2
    MaxGFaults = 1
INVARIANT NodeTypeOK
INVARIANT ManagedIsStored
INVARIANT OneRebootEnough
PROPERTY SucceededMeansConfigured
 
PROPERTY ConfiguredArgsKept
PROPERTY ForeignFirmwareKept
PROPERTY NoPluginMeanwhile
PROPERTY NodeSettles
CHECK_DEADLOCK FALSE
