SPECIFICATION LiveSpec
CONSTANTS
    s1 = s1
    c1 = c1
    Servers <- OneServer
    Calls <- OneCall
    MaxStarts = 3
    MaxCrashes = 1
INVARIANTS StoppedMeansDown 
PROPERTIES DeadServerNoticed
CHECK_DEADLOCK FALSE
