CONSTANTS
    NProc = 4
    Priority <- MCPriority
    TTY = 1
    HD = 2
    Debt = 1
SPECIFICATION Spec
INVARIANT RunsRunnable
PROPERTIES GreatestChosen RoundsAreFair NoStarvation
