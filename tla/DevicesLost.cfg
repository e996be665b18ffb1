SPECIFICATION HalSpec
CONSTANTS
    PageCount = 2
    PageSize = 1
    Drivers = {}
    Sizes = {1}
    DeviceNames = {a, b, c}
    DeviceMax = 3
    NoNode = NoNode
CHECK_DEADLOCK FALSE
INVARIANT DevicesFound
