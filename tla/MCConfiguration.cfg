CONSTANTS
    Roots <- MCRoots
    Numbers <- MCNumbers

SPECIFICATION Spec
INVARIANT ConfTypeOK
INVARIANT BindingFollowsEntry
\* The program ends: main returns after ParseConfigFile, or panics.
CHECK_DEADLOCK FALSE
