\* One request is enough: it waits for itself.
SPECIFICATION Spec
CONSTANT Callers = {c1, c2}
CHECK_DEADLOCK FALSE
PROPERTY ExpiredIsCleanedUp
