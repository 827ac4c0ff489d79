SPECIFICATION Spec
CONSTANTS
    N = 4
    MaxNonces = 1
    MaxMsgs = 2
    MaxHeight = 3
    Networks <- Small
INVARIANTS
    TypeOK
    
    
PROPERTY TreeDelivers
CHECK_DEADLOCK FALSE
