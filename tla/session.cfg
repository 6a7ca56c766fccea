CONSTANTS
    Devices = {d1, d2}
    Product = Product
    None = None
    Configs <- MCConfigs
    MaxEvents = 2
SPECIFICATION Spec
SYMMETRY Symmetry
INVARIANTS TypeOK DevicesKeptInUse ListKeptInUse
           LeftDevicesUnlisted NewDevicePursued
CHECK_DEADLOCK FALSE
