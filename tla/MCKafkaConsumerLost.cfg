SPECIFICATION Spec
CONSTANTS
    p1 = p1
    Partitions = {p1}
    Records = 2
    MaxConsumers = 2
    MaxFaults = 1
    Main = Main
    None = None
CHECK_DEADLOCK FALSE
INVARIANT RunningMeansLooping
