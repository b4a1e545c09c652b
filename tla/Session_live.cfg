SPECIFICATION FairSpec
CONSTANTS
    TcpAddrs = {"t1"}
    BleAddrs = {"b1"}
    Keys = {"192.", "ble"}
    KeyOf <- MCKeyOf
    NvsFails = TRUE
    Sent <- MCSentBle
    MaxConn = 2
PROPERTIES
    Answered
