SPECIFICATION FairSpec
CONSTANTS
    main = main
    a = a
    b = b
    Devices = {main, a}
    Usb = {main}
    Served <- PassOrder
    Registered <- PassOrder
    Targets <- PassTargets
    Capacity = 4
    Junks = 4
    RxSize = 4
    TxSize = 1
    UsbSize = 1
    MaxBytes <- PassBytes
PROPERTIES UartForwarded
