-------------------------- MODULE GadgetLifecycle --------------------------
(***************************************************************************)
(* The USB gadget of aoa mode: FunctionFsGadget of src/gadget.rs, the      *)
(* configfs tree it builds and takes down, and the device controller (UDC) *)
(* it borrows from whichever gadget owns it.                               *)
(*                                                                         *)
(* A process is one orbit-rs at a time, started again after it ends:       *)
(*   "compose"  setup():  builds the gadget, binds it, undoes it all       *)
(*   "attach"   attach(): uses a FunctionFS somebody mounted, and binds    *)
(*              and unbinds that gadget around the run (--gadget-dir)      *)
(*   "lend"     attach() without --gadget-dir: the UDC is not its business *)
(*   "cleanup"  cleanup_stale(): --cleanup after a killed run              *)
(* It can fail where a system call can, and be killed between any two.     *)
(*                                                                         *)
(* The kernel (configfs, FunctionFS, the gadget core) and the tools that   *)
(* bind other gadgets are modelled from how the code uses them.            *)
(***************************************************************************)
EXTENDS Naturals, Sequences

CONSTANTS
    Procs,     \* orbit-rs processes that may be alive at the same time
    Modes,     \* how they are started
    Ours,      \* the gadget named by --gadget
    Others,    \* the gadgets of somebody else under usb_gadget/
    Theirs,    \* the one of them attach mode is pointed at
    NoGadget,  \* an empty prev_gadget
    Udcs,      \* the board's controllers
    NoUdc,     \* an empty UDC file or name
    Sticky     \* TRUE: a directory may stay busy for more than 20 * 50 ms

ASSUME GadgetAssumption ==
    /\ Modes \subseteq {"compose", "attach", "lend", "cleanup"}
    /\ Ours \notin Others /\ Theirs \in Others
    /\ NoGadget \notin Others \cup {Ours}
    /\ NoUdc \notin Udcs
    /\ Sticky \in BOOLEAN

VARIABLES
    pc,      \* where each process is
    mode,    \* how it was started
    obj,     \* its FunctionFsGadget
    step,    \* position in the list that compose() or teardown() goes through
    toLook,  \* gadgets release_udc() has not looked at yet
    victim,  \* the gadget it is about to unbind
    tree,    \* the parts of our gadget that exist
    mount,   \* our FunctionFS instance is mounted
    ready,   \* gadgets whose FunctionFS has its descriptors
    udcOf,   \* the content of every gadget's UDC file
    taken,   \* history: the gadgets this run took the controller from
    litter   \* history: a run was killed and no --cleanup has ended since

procVars   == <<pc, mode, obj, step, toLook, victim>>
kernelVars == <<tree, mount, ready, udcOf>>
vars == <<procVars, kernelVars, taken, litter>>

-----------------------------------------------------------------------------
Gadgets == Others \cup {Ours}

Parts == {"gadget", "strings", "config", "cfgStrings", "function", "link",
          "mountPoint"}

\* The order in which compose() makes the parts of the tree.
Created == <<"gadget", "strings", "config", "cfgStrings", "function", "link",
             "mountPoint">>

\* The order in which teardown() takes them away. A bug: the configuration
\* goes before what is inside it.
RemovedBug == <<"mountPoint", "config", "link", "cfgStrings", "function",
                "strings", "gadget">>
Removed == <<"mountPoint", "link", "cfgStrings", "config", "function",
             "strings", "gadget">>

\* What a part lives in or points to: mkdir and symlink need it, and rmdir
\* of it fails as long as the part is there.
Needs == [p \in Parts |->
            CASE p \in {"strings", "config", "function"} -> {"gadget"}
              [] p = "cfgStrings" -> {"config"}
              [] p = "link" -> {"config", "function"}
              [] OTHER -> {}]

NewObject(u) == [udc |-> u, prev |-> NoGadget, ep0 |-> FALSE,
                 mounted |-> FALSE, composed |-> FALSE, bound |-> FALSE]

\* What cleanup_stale() pretends to have built.
StaleObject(u, guess) == [udc |-> u, prev |-> guess, ep0 |-> FALSE,
                          mounted |-> TRUE, composed |-> TRUE, bound |-> TRUE]

\* The gadget whose UDC file this run writes: gadget_path.
Target(p) == IF mode[p] \in {"attach", "lend"} THEN Theirs ELSE Ours

Ended == {"off", "exited"}
PcSet == Ended \cup
         {"exists", "compose", "mount", "describe", "look", "release", "bind",
          "up", "unbind", "closeEp0", "umount", "remove", "restore"}

Init ==
    /\ pc = [p \in Procs |-> "off"]
    /\ mode = [p \in Procs |-> "compose"]
    /\ obj = [p \in Procs |-> NewObject(NoUdc)]
    /\ step = [p \in Procs |-> 1]
    /\ toLook = [p \in Procs |-> {}]
    /\ victim = [p \in Procs |-> NoGadget]
    /\ tree = {} /\ mount = FALSE /\ ready = {}
    /\ udcOf \in [Gadgets -> Udcs \cup {NoUdc}]
    /\ udcOf[Ours] = NoUdc /\ udcOf[Theirs] = NoUdc
    /\ \A g, h \in Others : udcOf[g] = udcOf[h] /\ g # h => udcOf[g] = NoUdc
    /\ taken = [p \in Procs |-> {}]
    /\ litter = FALSE

-----------------------------------------------------------------------------
(* The kernel.                                                             *)

\* bind() of a gadget works when it has its function and no controller yet,
\* and the controller is nobody's.
CanBind(g, u) ==
    /\ u # NoUdc /\ udcOf[g] = NoUdc
    /\ \A h \in Gadgets : udcOf[h] # u
    /\ g = Theirs => g \in ready
    /\ g = Ours => g \in ready /\ "link" \in tree

Bound(g, u) == udcOf' = [udcOf EXCEPT ![g] = u]

\* The last descriptor of an ep0 is closed: the function is gone. Whether
\* the gadget core unbinds the gadget with it depends on the kernel.
Ep0Released(p) ==
    LET g == Target(p)
        shared == \E q \in Procs \ {p} : obj[q].ep0 /\ Target(q) = g
    IN  IF obj[p].ep0 /\ ~shared
        THEN /\ ready' = ready \ {g}
             /\ \/ Bound(g, NoUdc)
                \/ UNCHANGED udcOf
        ELSE UNCHANGED <<ready, udcOf>>

-----------------------------------------------------------------------------
(* One action per step of a process.                                       *)

Goto(p, from, to) == pc[p] = from /\ pc' = [pc EXCEPT ![p] = to]

Rest(p) == UNCHANGED <<mode, taken, litter>>

\* setup() and attach() return false: the object is dropped, so teardown()
\* runs; it does nothing when there is nothing to undo.
Failed(p) ==
    pc' = [pc EXCEPT ![p] =
             IF obj'[p].composed \/ obj'[p].bound \/ obj'[p].ep0
             THEN "unbind" ELSE "exited"]

\* run_capture() or --cleanup starts; pick_udc() has chosen the controller.
\* --cleanup goes on without one.
Start(p) ==
    /\ pc[p] \in Ended
    /\ \E m \in Modes, u \in Udcs \cup {NoUdc} :
         /\ m \in {"compose", "attach"} => u # NoUdc
         /\ m = "lend" => u = NoUdc
         /\ mode' = [mode EXCEPT ![p] = m]
         /\ obj' = [obj EXCEPT ![p] = NewObject(u)]
         /\ pc' = [pc EXCEPT ![p] =
                     IF m \in {"attach", "lend"} THEN "describe" ELSE "exists"]
    /\ step' = [step EXCEPT ![p] = 1]
    /\ toLook' = [toLook EXCEPT ![p] = {}]
    /\ victim' = [victim EXCEPT ![p] = NoGadget]
    /\ taken' = [taken EXCEPT ![p] = {}]
    /\ UNCHANGED <<kernelVars, litter>>

\* setup(): a gadget of that name is refused ...
Exists(p) ==
    /\ mode[p] = "compose"
    /\ Goto(p, "exists", IF "gadget" \in tree THEN "exited" ELSE "compose")
    /\ UNCHANGED <<obj, step, toLook, victim, kernelVars>> /\ Rest(p)

\* ... cleanup_stale(): nothing there is all it asked for ...
NothingStale(p) ==
    /\ mode[p] = "cleanup"
    /\ tree \cap {"gadget", "mountPoint"} = {}
    /\ Goto(p, "exists", "exited")
    /\ litter' = FALSE
    /\ UNCHANGED <<mode, obj, step, toLook, victim, kernelVars, taken>>

\* ... otherwise it claims everything, and guesses whose the controller was:
\* the first gadget listed that is left without one.
\* A bug: its own gadget is not skipped.
ClaimStaleBug(p) ==
    /\ mode[p] = "cleanup"
    /\ tree \cap {"gadget", "mountPoint"} # {}
    /\ Goto(p, "exists", "unbind")
    /\ \E guess \in {g \in Gadgets : udcOf[g] = NoUdc} \cup {NoGadget} :
         /\ guess = NoGadget => \A g \in Gadgets : udcOf[g] # NoUdc
         /\ obj' = [obj EXCEPT ![p] = StaleObject(@.udc, guess)]
    /\ UNCHANGED <<step, toLook, victim, kernelVars>> /\ Rest(p)
ClaimStale(p) ==
    /\ mode[p] = "cleanup"
    /\ tree \cap {"gadget", "mountPoint"} # {}
    /\ Goto(p, "exists", "unbind")
    /\ \E guess \in {g \in Others : udcOf[g] = NoUdc} \cup {NoGadget} :
         /\ guess = NoGadget => \A g \in Others : udcOf[g] # NoUdc
         /\ obj' = [obj EXCEPT ![p] = StaleObject(@.udc, guess)]
    /\ UNCHANGED <<step, toLook, victim, kernelVars>> /\ Rest(p)

\* compose(): one part after the other; a part that is there already will do.
Make(p) ==
    LET part == Created[step[p]]
        last == step[p] = Len(Created)
    IN  /\ Goto(p, "compose", IF last THEN "mount" ELSE "compose")
        /\ Needs[part] \subseteq tree
        /\ tree' = tree \cup {part}
        /\ obj' = [obj EXCEPT ![p].composed = TRUE]
        /\ step' = [step EXCEPT ![p] = IF last THEN 1 ELSE @ + 1]
        /\ UNCHANGED <<toLook, victim, mount, ready, udcOf>> /\ Rest(p)

\* A part cannot be made, or an attribute of the identity is refused.
MakeFails(p) ==
    /\ pc[p] = "compose"
    /\ step' = [step EXCEPT ![p] = 1]
    /\ UNCHANGED <<obj, toLook, victim, kernelVars>>
    /\ Failed(p) /\ Rest(p)

\* The instance is paired by name with functions/ffs.<name>, and mounted once.
Mount(p) ==
    /\ Goto(p, "mount", "describe")
    /\ {"function", "mountPoint"} \subseteq tree /\ ~mount
    /\ mount' = TRUE
    /\ obj' = [obj EXCEPT ![p].mounted = TRUE]
    /\ UNCHANGED <<step, toLook, victim, tree, ready, udcOf>> /\ Rest(p)

MountFails(p) ==
    /\ pc[p] = "mount"
    /\ UNCHANGED <<obj, step, toLook, victim, kernelVars>>
    /\ Failed(p) /\ Rest(p)

\* write_descriptors(): ep0 takes them once, from then on the gadget can bind.
Describe(p) ==
    /\ Target(p) \notin ready /\ (Target(p) = Ours => mount)
    /\ Goto(p, "describe", IF mode[p] = "lend" THEN "up" ELSE "look")
    /\ ready' = ready \cup {Target(p)}
    /\ obj' = [obj EXCEPT ![p].ep0 = TRUE]
    /\ toLook' = [toLook EXCEPT ![p] = Others]
    /\ UNCHANGED <<step, victim, tree, mount, udcOf>> /\ Rest(p)

\* ep0 does not open, or does not take them, or there is no such gadget_dir.
DescribeFails(p) ==
    /\ pc[p] = "describe"
    /\ \E opened \in BOOLEAN : obj' = [obj EXCEPT ![p].ep0 = opened]
    /\ UNCHANGED <<step, toLook, victim, kernelVars>>
    /\ Failed(p) /\ Rest(p)

\* release_udc(): reads one UDC file after the other ...
Look(p) ==
    \E g \in toLook[p] :
      /\ toLook' = [toLook EXCEPT ![p] = @ \ {g}]
      /\ IF udcOf[g] = obj[p].udc
         THEN /\ Goto(p, "look", "release")
              /\ victim' = [victim EXCEPT ![p] = g]
         ELSE /\ Goto(p, "look", "look")
              /\ UNCHANGED victim
      /\ UNCHANGED <<obj, step, kernelVars>> /\ Rest(p)

LookedAtAll(p) ==
    /\ toLook[p] = {}
    /\ Goto(p, "look", "bind")
    /\ UNCHANGED <<obj, step, toLook, victim, kernelVars>> /\ Rest(p)

\* ... and unbinds the gadget that has our controller, which may have let go
\* of it since: then the write fails.
\* A bug: the gadget is remembered whether or not it was unbound.
ReleaseBug(p) ==
    /\ pc[p] = "release"
    /\ obj' = [obj EXCEPT ![p].prev = victim[p]]
    /\ IF udcOf[victim[p]] = NoUdc
       THEN /\ Failed(p) /\ UNCHANGED <<udcOf, taken>>
       ELSE /\ Goto(p, "release", "look")
            /\ Bound(victim[p], NoUdc)
            /\ taken' = [taken EXCEPT ![p] = @ \cup {victim[p]}]
    /\ victim' = [victim EXCEPT ![p] = NoGadget]
    /\ UNCHANGED <<mode, step, toLook, tree, mount, ready, litter>>
Release(p) ==
    /\ Goto(p, "release", "look")
    /\ udcOf[victim[p]] # NoUdc
    /\ Bound(victim[p], NoUdc)
    /\ obj' = [obj EXCEPT ![p].prev = victim[p]]
    /\ taken' = [taken EXCEPT ![p] = @ \cup {victim[p]}]
    /\ victim' = [victim EXCEPT ![p] = NoGadget]
    /\ UNCHANGED <<mode, step, toLook, tree, mount, ready, litter>>

ReleaseFails(p) ==
    /\ pc[p] = "release"
    /\ udcOf[victim[p]] = NoUdc
    /\ victim' = [victim EXCEPT ![p] = NoGadget]
    /\ UNCHANGED <<obj, step, toLook, kernelVars>>
    /\ Failed(p) /\ Rest(p)

\* bind(): the gadget gets the controller ...
Bind(p) ==
    /\ Goto(p, "bind", "up")
    /\ CanBind(Target(p), obj[p].udc)
    /\ Bound(Target(p), obj[p].udc)
    /\ obj' = [obj EXCEPT ![p].bound = TRUE]
    /\ UNCHANGED <<step, toLook, victim, tree, mount, ready>> /\ Rest(p)

\* ... or the controller refuses it, or somebody was faster.
BindFails(p) ==
    /\ pc[p] = "bind"
    /\ UNCHANGED <<obj, step, toLook, victim, kernelVars>>
    /\ Failed(p) /\ Rest(p)

\* run_capture() returns and drops the gadget.
Leave(p) ==
    /\ Goto(p, "up", "unbind")
    /\ UNCHANGED <<obj, step, toLook, victim, kernelVars>> /\ Rest(p)

\* teardown(): the controller, ep0, the mount, the tree, in this order; ...
Unbind(p) ==
    /\ Goto(p, "unbind", "closeEp0")
    /\ obj' = [obj EXCEPT ![p].bound = FALSE]
    /\ IF obj[p].bound THEN Bound(Target(p), NoUdc) ELSE UNCHANGED udcOf
    /\ UNCHANGED <<step, toLook, victim, tree, mount, ready>> /\ Rest(p)

\* A bug: with nothing composed there is nothing left to undo.
CloseEp0Bug(p) ==
    /\ Goto(p, "closeEp0", IF obj[p].composed THEN "umount" ELSE "exited")
    /\ Ep0Released(p)
    /\ obj' = [obj EXCEPT ![p].ep0 = FALSE]
    /\ UNCHANGED <<step, toLook, victim, tree, mount>> /\ Rest(p)
CloseEp0(p) ==
    /\ Goto(p, "closeEp0", IF obj[p].composed THEN "umount" ELSE "restore")
    /\ Ep0Released(p)
    /\ obj' = [obj EXCEPT ![p].ep0 = FALSE]
    /\ UNCHANGED <<step, toLook, victim, tree, mount>> /\ Rest(p)

Umount(p) ==
    /\ Goto(p, "umount", "remove")
    /\ mount' = (mount /\ ~obj[p].mounted)
    /\ obj' = [obj EXCEPT ![p].mounted = FALSE]
    /\ UNCHANGED <<step, toLook, victim, tree, ready, udcOf>> /\ Rest(p)

CanRemove(part) ==
    /\ part \in tree
    /\ \A other \in tree : part \notin Needs[other]
    /\ part = "mountPoint" => ~mount

\* A gadget without its function has no controller either.
RemovePart(part) ==
    /\ tree' = tree \ {part}
    /\ IF part = "link" THEN Bound(Ours, NoUdc) ELSE UNCHANGED udcOf

\* One part after the other, whether or not the one before could be removed.
Remove(p) ==
    LET part == Removed[step[p]]
        last == step[p] = Len(Removed)
        busy == Sticky /\ part \notin {"link", "mountPoint"}
    IN  /\ Goto(p, "remove", IF last THEN "restore" ELSE "remove")
        /\ \/ CanRemove(part) /\ RemovePart(part)
           \/ (~CanRemove(part) \/ busy) /\ UNCHANGED <<tree, udcOf>>
        /\ step' = [step EXCEPT ![p] = IF last THEN 1 ELSE @ + 1]
        /\ obj' = [obj EXCEPT ![p].composed = @ /\ ~last]
        /\ UNCHANGED <<toLook, victim, mount, ready>> /\ Rest(p)

\* ... then restore_udc(): back to the gadget release_udc() took it from.
Restore(p) ==
    /\ Goto(p, "restore", "exited")
    /\ IF obj[p].prev # NoGadget /\ CanBind(obj[p].prev, obj[p].udc)
       THEN Bound(obj[p].prev, obj[p].udc)
       ELSE UNCHANGED udcOf
    /\ obj' = [obj EXCEPT ![p].prev = NoGadget]
    /\ litter' = (litter /\ mode[p] # "cleanup")
    /\ UNCHANGED <<mode, step, toLook, victim, tree, mount, ready, taken>>

\* SIGKILL: no destructor runs; the kernel closes ep0 and nothing else.
Kill(p) ==
    /\ pc[p] \notin Ended
    /\ pc' = [pc EXCEPT ![p] = "off"]
    /\ Ep0Released(p)
    /\ obj' = [obj EXCEPT ![p] = NewObject(NoUdc)]
    /\ step' = [step EXCEPT ![p] = 1]
    /\ toLook' = [toLook EXCEPT ![p] = {}]
    /\ victim' = [victim EXCEPT ![p] = NoGadget]
    /\ litter' = (litter \/ Target(p) = Ours)
    /\ UNCHANGED <<mode, tree, mount, taken>>

Run(p) ==
    \/ Start(p) \/ Exists(p) \/ NothingStale(p) \/ ClaimStale(p)
    \/ Make(p) \/ MakeFails(p) \/ Mount(p) \/ MountFails(p)
    \/ Describe(p) \/ DescribeFails(p)
    \/ Look(p) \/ LookedAtAll(p) \/ Release(p) \/ ReleaseFails(p)
    \/ Bind(p) \/ BindFails(p) \/ Leave(p)
    \/ Unbind(p) \/ CloseEp0(p) \/ Umount(p) \/ Remove(p) \/ Restore(p)

\* A vendor daemon, or whoever composed the other gadgets, binds or unbinds.
OtherTool ==
    /\ \E g \in Others :
         \/ \E u \in Udcs : CanBind(g, u) /\ Bound(g, u)
         \/ udcOf[g] # NoUdc /\ Bound(g, NoUdc)
    /\ UNCHANGED <<procVars, tree, mount, ready, taken, litter>>

Next == (\E p \in Procs : Run(p) \/ Kill(p)) \/ OtherTool

Spec == Init /\ [][Next]_vars

-----------------------------------------------------------------------------
TypeOK ==
    /\ pc \in [Procs -> PcSet]
    /\ mode \in [Procs -> {"compose", "attach", "lend", "cleanup"}]
    /\ obj \in [Procs -> [udc : Udcs \cup {NoUdc},
                          prev : Others \cup {NoGadget},
                          ep0 : BOOLEAN, mounted : BOOLEAN,
                          composed : BOOLEAN, bound : BOOLEAN]]
    /\ step \in [Procs -> 1 .. 7]
    /\ toLook \in [Procs -> SUBSET Others]
    /\ victim \in [Procs -> Others \cup {NoGadget}]
    /\ tree \subseteq Parts /\ mount \in BOOLEAN
    /\ ready \subseteq {Ours, Theirs}
    /\ udcOf \in [Gadgets -> Udcs \cup {NoUdc}]
    /\ taken \in [Procs -> SUBSET Others]
    /\ litter \in BOOLEAN

\* However a run ended -- refused, failed half way through compose() or
\* bind(), stopped -- and wherever an earlier one was killed, once --cleanup
\* has ended: nothing of our gadget is left, and it holds no controller
\* (teardown(), gadget.rs:539-583; cleanup_stale(), 587-608).
NothingLeftBehind ==
    (\A p \in Procs : pc[p] \in Ended) /\ ~litter =>
        tree = {} /\ ~mount /\ udcOf[Ours] = NoUdc

\* A run that took the controller from a gadget gives it back to that gadget
\* whichever way it ends by itself, unless somebody took the controller, or
\* bound that gadget, in the meantime (gadget.rs:285-305, 539-583). Theirs is
\* excepted: its function goes with our ep0, so it cannot be bound again.
ControllerReturned ==
    [][\A p \in Procs, g \in Others \ {Theirs} :
         pc[p] \notin Ended /\ pc'[p] = "exited" /\ taken[p] = {g} =>
            \/ udcOf'[g] # NoUdc
            \/ \E h \in Gadgets : udcOf'[h] = obj[p].udc]_vars

\* gadget.rs:307-308: "Only ever hands the UDC to the gadget release_udc()
\* took it from." A run binds nobody else's gadget but the one it was told
\* to use and the one it took the controller from.
HandBackOnlyToOwner ==
    [][\A p \in Procs, g \in Others :
         pc'[p] # pc[p] /\ udcOf[g] = NoUdc /\ udcOf'[g] # NoUdc =>
            g \in taken[p] \/ (g = Target(p) /\ pc[p] = "bind")]_vars
=============================================================================
