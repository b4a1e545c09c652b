SPECIFICATION Spec
CONSTANTS
    TcpAddrs = {"t1"}
    BleAddrs = {"b1"}
    Keys = {"192.", "ble"}
    KeyOf <- MCKeyOf
    NvsFails = TRUE
    Sent <- MCSentBoth
    MaxConn = 2
INVARIANTS
    TypeOK
    BleOneShot
    InStep
PROPERTIES
    Proved
    DoorPromise
