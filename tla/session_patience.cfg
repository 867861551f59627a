SPECIFICATION Spec
CONSTANT Wait = 18
CHECK_DEADLOCK FALSE
PROPERTY GivesUpOnlyAfterWait
