\* The constructor with the selector and event id constants of the source.
\* Deadlock is not checked: the constructor ends, by returning or exiting.
SPECIFICATION Spec
INVARIANT ConstructorNeverExits
CHECK_DEADLOCK FALSE
