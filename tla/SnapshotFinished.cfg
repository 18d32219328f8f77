SPECIFICATION Spec
CONSTANTS
    NumVdevs = 2
    Total = 1
PROPERTY FinishedIsCompleted
