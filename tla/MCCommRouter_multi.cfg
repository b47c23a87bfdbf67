SPECIFICATION FairSpec
CONSTANTS
    main = main
    a = a
    b = b
    Devices = {main, a, b}
    Usb = {main}
    Served <- MultiServed
    Registered <- MultiRegistered
    Targets <- MultiTargets
    Capacity = 4
    Junks = 2
    RxSize = 3
    TxSize = 2
    UsbSize = 3
    MaxBytes <- MultiBytes
INVARIANTS TypeOK NothingLost 
PROPERTIES UsbForwarded
