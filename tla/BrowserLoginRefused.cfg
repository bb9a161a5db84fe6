SPECIFICATION Spec
CONSTANTS
    Tabs = {"t1"}
    MaxFlows = 2
PROPERTY RefusalsEnd
CHECK_DEADLOCK FALSE
