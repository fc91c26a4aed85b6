CONSTANTS
    Procs = {p1}
    Modes = {"compose", "attach", "lend", "cleanup"}
    Ours = goggles
    Others = {vendor, tools, ffs}
    Theirs = ffs
    NoGadget = none
    Udcs = {otg0, otg1}
    NoUdc = nobody
    Sticky = FALSE
SPECIFICATION Spec
INVARIANTS
    TypeOK
    NothingLeftBehind
PROPERTY ControllerReturned
CHECK_DEADLOCK FALSE
