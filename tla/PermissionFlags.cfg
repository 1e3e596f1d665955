CONSTANTS
    Entries = {"", "a"}
    MaxLen = 3
SPECIFICATION Spec
INVARIANT NoPanic
\* One call of the function per behaviour.
CHECK_DEADLOCK FALSE
