SPECIFICATION QueueSpec
CONSTANTS
    usb = usb
    timers = timers
    Drivers = {usb, timers}
    Main = Main
    Cores = 2
    QueueLength = 2
INVARIANT QueuesBounded
PROPERTY WaitEnds
