SPECIFICATION Spec
CONSTANTS
    TcpAddrs = {"t1", "t2", "t3"}
    BleAddrs = {"b1"}
    Keys = {"192.", "10.0", "ble"}
    KeyOf <- MCKeyOf
    NvsFails = FALSE
    Sent <- MCSentBoth
    MaxConn = 2
INVARIANTS
    LedTells
