SPECIFICATION Spec
CONSTANTS
    a = a  b = b  c = c  d = d  Nobody = Nobody
    Callers <- MCCallers
    Setups <- OrderSetups
PROPERTIES NoOvertaking
CHECK_DEADLOCK FALSE
