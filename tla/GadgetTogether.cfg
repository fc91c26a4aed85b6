CONSTANTS
    Procs = {p1, p2}
    Modes = {"compose", "attach"}
    Ours = goggles
    Others = {vendor, ffs}
    Theirs = ffs
    NoGadget = none
    Udcs = {otg0}
    NoUdc = nobody
    Sticky = FALSE
SPECIFICATION Spec
INVARIANT NothingLeftBehind
PROPERTY HandBackOnlyToOwner
CHECK_DEADLOCK FALSE
