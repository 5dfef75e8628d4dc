SPECIFICATION FairSpec
CONSTANTS
    Files = {f1, f2}
    Placed <- MCPlaced
    MaxTasks = 2
    None = None
    f1 = f1
    f2 = f2
    Orders <- MCOrders
    MaxTries = 2
    MaxFaults = 1

    
    
PROPERTIES
    TasksAnswered
CHECK_DEADLOCK FALSE
