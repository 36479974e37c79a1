SPECIFICATION MaintSpec
CONSTANTS
    Wt = {1}
    Obfs4 = {2, 3}
    Seeds = {3}
    MaxTcp = 2
    MaxCircuit = 1
    MaxActive = 1
    MinAlive = 1
INVARIANT MaintenanceInv
PROPERTY RouteKept
PROPERTY MaintSettles
CHECK_DEADLOCK FALSE
