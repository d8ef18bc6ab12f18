\* Expected violation: an element pushed or edited, then removed before
\* replication, is counted in changed_count but not written.
CONSTANTS
    MaxPushes = 3
    MaxEdits = 2
SPECIFICATION Spec
INVARIANT WireCountConsistent
\* Gameplay has made its last change and everything is replicated.
CHECK_DEADLOCK FALSE
