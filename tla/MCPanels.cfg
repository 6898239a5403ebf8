SPECIFICATION PanelsSpec
CONSTANTS
    Unverified = Unverified
    Movements = 1
    MaxDetections = 1
    MaxStarts = 1
    Watchers = {"requesting"}
PROPERTY FlowsGetOn
CHECK_DEADLOCK FALSE
