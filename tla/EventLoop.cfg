SPECIFICATION Spec
CONSTANTS
    usb = usb
    key = key
    Drivers = {usb}
    Main = Main
    Program = Program
    Names = {key, Terminate}
    Terminate = Terminate
    NoFilter = NoFilter
    QueueLength = 2
    MaxParam = 2
    Numbered = TRUE
    MaxSeq = 2
INVARIANTS TypeOK InOrder DeviceEventAlone
PROPERTIES PullsFromInbox TerminateReachesIdleProgram
CHECK_DEADLOCK FALSE
