\* Push, get_mut and remove in any interleaving with replication: the element
\* ids stay within the keys handed out and the change sets within the ids.
CONSTANTS
    MaxPushes = 3
    MaxEdits = 2
SPECIFICATION Spec
INVARIANTS TypeOK
\* Gameplay has made its last change and everything is replicated.
CHECK_DEADLOCK FALSE
