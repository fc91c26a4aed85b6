------------------------ MODULE GadgetLifecycleProofs ------------------------
(* Proofs about GadgetLifecycle, for any number of processes, gadgets and  *)
(* controllers.  What a run leaves behind is for directories that let go   *)
(* in time: NothingIsLeft for one process at a time, NothingIsLeftTogether *)
(* for any number of runs without --cleanup.                               *)
EXTENDS GadgetLifecycle, TLAPS

\* The lists that compose() and teardown() go through hold the seven parts.
LEMMA Lists ==
    /\ Len(Created) = 7 /\ \A i \in 1 .. 7 : Created[i] \in Parts
    /\ Len(Removed) = 7 /\ \A i \in 1 .. 7 : Removed[i] \in Parts
<1>1. Len(Created) = 7 /\ Len(Removed) = 7
  BY DEF Created, Removed
<1>2. ASSUME NEW i \in 1 .. 7 PROVE Created[i] \in Parts /\ Removed[i] \in Parts
  <2>1. i = 1 \/ i = 2 \/ i = 3 \/ i = 4 \/ i = 5 \/ i = 6 \/ i = 7
    OBVIOUS
  <2>. QED BY <2>1 DEF Created, Removed, Parts
<1>. QED BY <1>1, <1>2

Objects == [udc : Udcs \cup {NoUdc}, prev : Others \cup {NoGadget},
            ep0 : BOOLEAN, mounted : BOOLEAN, composed : BOOLEAN,
            bound : BOOLEAN]

LEMMA NewObjectType ==
    ASSUME NEW u \in Udcs \cup {NoUdc}
    PROVE  NewObject(u) \in Objects
BY DEF NewObject, Objects

\* Binding or unbinding keeps the UDC files well formed.
LEMMA BoundType ==
    ASSUME TypeOK, NEW g, NEW u \in Udcs \cup {NoUdc}, Bound(g, u)
    PROVE  udcOf' \in [Gadgets -> Udcs \cup {NoUdc}]
BY DEF TypeOK, Bound

LEMMA TargetType ==
    ASSUME NEW p
    PROVE  Target(p) \in {Ours, Theirs} /\ Target(p) \in Gadgets
BY GadgetAssumption DEF Target, Gadgets

\* A failed setup() or attach() goes to teardown() or ends.
LEMMA FailedType ==
    ASSUME TypeOK, NEW p \in Procs, Failed(p)
    PROVE  pc' \in [Procs -> PcSet]
BY DEF TypeOK, Failed, PcSet, Ended

LEMMA Ep0Type ==
    ASSUME TypeOK, NEW p \in Procs, Ep0Released(p)
    PROVE  /\ ready' \subseteq {Ours, Theirs}
           /\ udcOf' \in [Gadgets -> Udcs \cup {NoUdc}]
<1>1. ready \subseteq {Ours, Theirs} /\ udcOf \in [Gadgets -> Udcs \cup {NoUdc}]
  BY DEF TypeOK
<1>2. ready' \subseteq ready
  BY DEF Ep0Released
<1>3. udcOf' = udcOf \/ \E g : Bound(g, NoUdc)
  BY DEF Ep0Released
<1>. QED BY <1>1, <1>2, <1>3, BoundType

\* release_udc() only ever unbinds a gadget it found in the list.
VictimKnown == \A p \in Procs : pc[p] = "release" => victim[p] \in Others

\* restore_udc() only knows a gadget release_udc() unbound in this run, and
\* there is no run that guesses.
PrevIsTaken ==
    \A p \in Procs : /\ mode[p] # "cleanup"
                     /\ obj[p].prev \in taken[p] \cup {NoGadget}

LEMMA InitType == Init => TypeOK /\ VictimKnown
<1>. SUFFICES ASSUME Init PROVE TypeOK /\ VictimKnown
  OBVIOUS
<1>1. obj \in [Procs -> Objects]
  BY NewObjectType DEF Init
<1>2. udcOf \in [Gadgets -> Udcs \cup {NoUdc}]
  BY DEF Init
<1>3. tree \subseteq Parts /\ ready \subseteq {Ours, Theirs}
  BY DEF Init
<1>4. step \in [Procs -> 1 .. 7]
  BY DEF Init
<1>5. /\ pc \in [Procs -> PcSet]
      /\ mode \in [Procs -> {"compose", "attach", "lend", "cleanup"}]
      /\ toLook \in [Procs -> SUBSET Others]
      /\ victim \in [Procs -> Others \cup {NoGadget}]
      /\ taken \in [Procs -> SUBSET Others]
      /\ mount \in BOOLEAN /\ litter \in BOOLEAN
  BY DEF Init, PcSet, Ended
<1>6. VictimKnown
  BY DEF Init, VictimKnown
<1>. QED BY <1>1, <1>2, <1>3, <1>4, <1>5, <1>6 DEF TypeOK, Objects

\* Every step of a process keeps the types.
LEMMA RunType ==
    ASSUME TypeOK, VictimKnown, NEW p \in Procs, Run(p)
    PROVE  TypeOK'
<1>. USE DEF TypeOK, PcSet, Ended, Goto, Rest, kernelVars
<1>1. CASE Start(p)
  <2>1. PICK m \in Modes, u \in Udcs \cup {NoUdc} :
          /\ mode' = [mode EXCEPT ![p] = m]
          /\ obj' = [obj EXCEPT ![p] = NewObject(u)]
          /\ pc' = [pc EXCEPT ![p] =
                      IF m \in {"attach", "lend"} THEN "describe" ELSE "exists"]
    BY <1>1 DEF Start
  <2>2. obj' \in [Procs -> Objects]
    BY <2>1, NewObjectType DEF Objects
  <2>3. mode' \in [Procs -> {"compose", "attach", "lend", "cleanup"}]
    BY <2>1, GadgetAssumption
  <2>. QED BY <1>1, <2>1, <2>2, <2>3 DEF Start, Objects
<1>2. CASE Exists(p)
  BY <1>2 DEF Exists
<1>3. CASE NothingStale(p)
  BY <1>3 DEF NothingStale
<1>4. CASE ClaimStale(p)
  <2>1. PICK g \in Others \cup {NoGadget} :
          obj' = [obj EXCEPT ![p] = StaleObject(obj[p].udc, g)]
    BY <1>4 DEF ClaimStale
  <2>2. StaleObject(obj[p].udc, g) \in Objects
    BY DEF StaleObject, Objects
  <2>3. obj' \in [Procs -> Objects]
    BY <2>1, <2>2 DEF Objects
  <2>. QED BY <1>4, <2>3 DEF ClaimStale, Objects
<1>5. CASE Make(p)
  <2>1. tree' \subseteq Parts
    BY <1>5, Lists DEF Make
  <2>2. step' \in [Procs -> 1 .. 7]
    BY <1>5, Lists DEF Make
  <2>3. pc' \in [Procs -> PcSet]
    BY <1>5 DEF Make
  <2>4. obj' \in [Procs -> Objects]
    BY <1>5 DEF Make, Objects
  <2>. QED BY <1>5, <2>1, <2>2, <2>3, <2>4 DEF Make, Objects
<1>6. CASE MakeFails(p)
  BY <1>6, FailedType DEF MakeFails
<1>7. CASE Mount(p)
  BY <1>7 DEF Mount
<1>8. CASE MountFails(p)
  BY <1>8, FailedType DEF MountFails
<1>9. CASE Describe(p)
  BY <1>9, TargetType DEF Describe
<1>10. CASE DescribeFails(p)
  <2>1. PICK opened \in BOOLEAN : obj' = [obj EXCEPT ![p].ep0 = opened]
    BY <1>10 DEF DescribeFails
  <2>2. obj' \in [Procs -> Objects]
    BY <2>1 DEF Objects
  <2>. QED BY <1>10, <2>2, FailedType DEF DescribeFails, Objects
<1>11. CASE Look(p)
  <2>1. PICK g \in toLook[p] :
          /\ toLook' = [toLook EXCEPT ![p] = @ \ {g}]
          /\ victim' = [victim EXCEPT ![p] = g] \/ victim' = victim
    BY <1>11 DEF Look
  <2>2. g \in Others
    BY <2>1
  <2>3. victim' \in [Procs -> Others \cup {NoGadget}]
    BY <2>1, <2>2
  <2>4. toLook' \in [Procs -> SUBSET Others]
    BY <2>1
  <2>5. pc' \in [Procs -> PcSet]
    BY <1>11 DEF Look
  <2>. QED BY <1>11, <2>3, <2>4, <2>5 DEF Look
<1>12. CASE LookedAtAll(p)
  BY <1>12 DEF LookedAtAll
<1>13. CASE Release(p)
  <2>1. victim[p] \in Others
    BY <1>13 DEF Release, VictimKnown
  <2>. QED BY <1>13, <2>1, BoundType DEF Release
<1>14. CASE ReleaseFails(p)
  BY <1>14, FailedType DEF ReleaseFails
<1>15. CASE Bind(p)
  BY <1>15, BoundType DEF Bind
<1>16. CASE BindFails(p)
  BY <1>16, FailedType DEF BindFails
<1>17. CASE Leave(p)
  BY <1>17 DEF Leave
<1>18. CASE Unbind(p)
  BY <1>18, BoundType DEF Unbind
<1>19. CASE CloseEp0(p)
  BY <1>19, Ep0Type DEF CloseEp0
<1>20. CASE Umount(p)
  BY <1>20 DEF Umount
<1>21. CASE Remove(p)
  <2>1. tree' \subseteq Parts /\ udcOf' \in [Gadgets -> Udcs \cup {NoUdc}]
    BY <1>21, BoundType DEF Remove, RemovePart
  <2>2. step' \in [Procs -> 1 .. 7]
    BY <1>21, Lists DEF Remove
  <2>3. pc' \in [Procs -> PcSet]
    BY <1>21 DEF Remove
  <2>4. PICK c \in BOOLEAN : obj' = [obj EXCEPT ![p].composed = c]
    BY <1>21 DEF Remove
  <2>5. obj' \in [Procs -> Objects]
    BY <2>4 DEF Objects
  <2>. QED BY <1>21, <2>1, <2>2, <2>3, <2>5 DEF Remove, Objects
<1>22. CASE Restore(p)
  BY <1>22, BoundType DEF Restore
<1>. QED BY <1>1, <1>2, <1>3, <1>4, <1>5, <1>6, <1>7, <1>8, <1>9, <1>10,
            <1>11, <1>12, <1>13, <1>14, <1>15, <1>16, <1>17, <1>18, <1>19,
            <1>20, <1>21, <1>22 DEF Run

LEMMA KillType ==
    ASSUME TypeOK, NEW p \in Procs, Kill(p)
    PROVE  TypeOK'
<1>1. ready' \subseteq {Ours, Theirs} /\ udcOf' \in [Gadgets -> Udcs \cup {NoUdc}]
  BY Ep0Type DEF Kill
<1>2. obj' \in [Procs -> Objects]
  BY NewObjectType DEF Kill, TypeOK, Objects
<1>3. litter' \in BOOLEAN
  BY DEF Kill, TypeOK
<1>. QED BY <1>1, <1>2, <1>3 DEF Kill, TypeOK, Objects, PcSet, Ended

LEMMA OtherToolType ==
    ASSUME TypeOK, OtherTool
    PROVE  TypeOK'
<1>1. udcOf' \in [Gadgets -> Udcs \cup {NoUdc}]
  BY BoundType DEF OtherTool
<1>. QED BY <1>1 DEF OtherTool, procVars, TypeOK

\* Only Look() enters "release", with a gadget of the list.
LEMMA VictimStep ==
    ASSUME TypeOK, VictimKnown, [Next]_vars
    PROVE  VictimKnown'
<1>. USE DEF TypeOK, VictimKnown, Goto, Failed, kernelVars
<1>1. ASSUME NEW p \in Procs, Look(p) PROVE VictimKnown'
  <2>1. PICK g \in toLook[p] :
          \/ /\ pc' = [pc EXCEPT ![p] = "release"]
             /\ victim' = [victim EXCEPT ![p] = g]
          \/ /\ pc' = [pc EXCEPT ![p] = "look"]
             /\ victim' = victim
    BY <1>1 DEF Look
  <2>2. g \in Others
    BY <2>1
  <2>. QED BY <2>1, <2>2
<1>2. ASSUME NEW p \in Procs, Run(p) \/ Kill(p), ~Look(p)
      PROVE  VictimKnown'
  <2>1. /\ pc'[p] # "release"
        /\ \A q \in Procs \ {p} : pc'[q] = pc[q] /\ victim'[q] = victim[q]
    BY <1>2 DEF Run, Start, Exists, NothingStale, ClaimStale, Make, MakeFails,
       Mount, MountFails, Describe, DescribeFails, LookedAtAll, Release,
       ReleaseFails, Bind, BindFails, Leave, Unbind, CloseEp0, Umount, Remove,
       Restore, Kill
  <2>. QED BY <2>1
<1>3. CASE OtherTool
  BY <1>3 DEF OtherTool, procVars
<1>4. CASE UNCHANGED vars
  BY <1>4 DEF vars, procVars
<1>. QED BY <1>1, <1>2, <1>3, <1>4 DEF Next

\* prev_gadget is set from a gadget just unbound, and only a new run forgets
\* which ones it unbound.
LEMMA PrevStep ==
    ASSUME TypeOK, PrevIsTaken, "cleanup" \notin Modes, [Next]_vars
    PROVE  PrevIsTaken'
<1>. USE DEF TypeOK, PrevIsTaken, Goto, Rest, kernelVars
<1>1. ASSUME NEW p \in Procs, Start(p) PROVE PrevIsTaken'
  <2>1. PICK m \in Modes, u \in Udcs \cup {NoUdc} :
          /\ mode' = [mode EXCEPT ![p] = m]
          /\ obj' = [obj EXCEPT ![p] = NewObject(u)]
          /\ taken' = [taken EXCEPT ![p] = {}]
    BY <1>1 DEF Start
  <2>2. m # "cleanup" /\ NewObject(u).prev = NoGadget
    BY DEF NewObject
  <2>. QED BY <2>1, <2>2
<1>2. ASSUME NEW p \in Procs, Kill(p) PROVE PrevIsTaken'
  <2>1. /\ obj' = [obj EXCEPT ![p] = NewObject(NoUdc)]
        /\ mode' = mode /\ taken' = taken
    BY <1>2 DEF Kill
  <2>2. NewObject(NoUdc).prev = NoGadget
    BY DEF NewObject
  <2>. QED BY <2>1, <2>2
<1>3. ASSUME NEW p \in Procs, Release(p) PROVE PrevIsTaken'
  BY <1>3 DEF Release
<1>4. ASSUME NEW p \in Procs, Restore(p) PROVE PrevIsTaken'
  BY <1>4 DEF Restore
<1>5. ASSUME NEW p \in Procs, Run(p),
             ~Start(p), ~Release(p), ~Restore(p)
      PROVE  PrevIsTaken'
  <2>1. mode' = mode /\ taken' = taken /\ ~ClaimStale(p)
    BY <1>5 DEF Run, Exists, NothingStale, ClaimStale, Make, MakeFails, Mount,
       MountFails, Describe, DescribeFails, Look, LookedAtAll, ReleaseFails,
       Bind, BindFails, Leave, Unbind, CloseEp0, Umount, Remove
  <2>2. \A q \in Procs : obj'[q].prev = obj[q].prev
    BY <1>5, <2>1 DEF Run, Exists, NothingStale, Make, MakeFails, Mount,
       MountFails, Describe, DescribeFails, Look, LookedAtAll, ReleaseFails,
       Bind, BindFails, Leave, Unbind, CloseEp0, Umount, Remove
  <2>. QED BY <2>1, <2>2
<1>6. CASE OtherTool
  BY <1>6 DEF OtherTool, procVars
<1>7. CASE UNCHANGED vars
  BY <1>7 DEF vars, procVars
<1>. QED BY <1>1, <1>2, <1>3, <1>4, <1>5, <1>6, <1>7 DEF Next

\* A gadget without a controller gets one from bind(), which binds the gadget
\* of the run, from restore_udc(), or from somebody else's tool.
BindsOnlyOwner ==
    \A p \in Procs, g \in Others :
        pc'[p] # pc[p] /\ udcOf[g] = NoUdc /\ udcOf'[g] # NoUdc =>
            g \in taken[p] \/ (g = Target(p) /\ pc[p] = "bind")

LEMMA BindStep ==
    ASSUME TypeOK, VictimKnown, PrevIsTaken, Next
    PROVE  BindsOnlyOwner
<1>. SUFFICES ASSUME NEW p \in Procs, NEW g \in Others,
                     pc'[p] # pc[p], udcOf[g] = NoUdc, udcOf'[g] # NoUdc
              PROVE  g \in taken[p] \/ (g = Target(p) /\ pc[p] = "bind")
  BY DEF BindsOnlyOwner
<1>. g \in Gadgets
  BY DEF Gadgets
<1>. USE DEF TypeOK, Goto, Failed, kernelVars
<1>1. PICK q \in Procs : Run(q) \/ Kill(q)
  BY DEF Next, OtherTool, procVars
<1>2. p = q
  BY <1>1 DEF Run, Start, Exists, NothingStale, ClaimStale, Make, MakeFails,
     Mount, MountFails, Describe, DescribeFails, Look, LookedAtAll, Release,
     ReleaseFails, Bind, BindFails, Leave, Unbind, CloseEp0, Umount, Remove,
     Restore, Kill
<1>3. ASSUME NEW h, Bound(h, NoUdc) PROVE FALSE
  BY <1>3 DEF Bound
<1>4. CASE Bind(q)
  <2>1. udcOf' = [udcOf EXCEPT ![Target(q)] = obj[q].udc] /\ pc[q] = "bind"
    BY <1>4 DEF Bind, Bound
  <2>. QED BY <2>1, <1>2
<1>5. CASE Restore(q)
  <2>1. udcOf' = [udcOf EXCEPT ![obj[q].prev] = obj[q].udc]
    BY <1>5 DEF Restore, Bound
  <2>2. g = obj[q].prev
    BY <2>1
  <2>3. g # NoGadget
    BY GadgetAssumption
  <2>. QED BY <2>2, <2>3, <1>2 DEF PrevIsTaken
<1>6. CASE ~Bind(q) /\ ~Restore(q)
  <2>1. udcOf' = udcOf \/ \E h : Bound(h, NoUdc)
    BY <1>1, <1>6 DEF Run, Start, Exists, NothingStale, ClaimStale, Make,
       MakeFails, Mount, MountFails, Describe, DescribeFails, Look,
       LookedAtAll, Release, ReleaseFails, BindFails, Leave, Unbind, CloseEp0,
       Umount, Remove, RemovePart, Kill, Ep0Released
  <2>. QED BY <2>1, <1>3
<1>. QED BY <1>4, <1>5, <1>6

-----------------------------------------------------------------------------
IInv == TypeOK /\ VictimKnown

THEOREM Invariance == Spec => []IInv
<1>1. Init => IInv
  BY InitType DEF IInv
<1>2. ASSUME IInv, [Next]_vars PROVE IInv'
  <2>1. TypeOK'
    <3>1. CASE UNCHANGED vars
      BY <1>2, <3>1 DEF IInv, TypeOK, vars, procVars, kernelVars
    <3>. QED BY <1>2, <3>1, RunType, KillType, OtherToolType DEF Next, IInv
  <2>2. VictimKnown'
    BY <1>2, VictimStep DEF IInv
  <2>. QED BY <2>1, <2>2 DEF IInv
<1>. QED BY <1>1, <1>2, PTL DEF Spec

\* Every variable keeps its type: in particular no run, however it was
\* started, remembers its own gadget as the previous owner (gadget.rs:291,
\* 619-626).
THEOREM TypeCorrect == Spec => []TypeOK
BY Invariance, PTL DEF IInv

\* gadget.rs:307-308, for every run that is not --cleanup: any number of them
\* at a time, killed and failing anywhere, with other tools moving the
\* controllers about.
THEOREM OnlyToOwner ==
    ASSUME "cleanup" \notin Modes
    PROVE  Spec => HandBackOnlyToOwner
<1>1. ASSUME Init PROVE PrevIsTaken
  <2>1. NewObject(NoUdc).prev = NoGadget
    BY DEF NewObject
  <2>2. \A p \in Procs : mode[p] = "compose" /\ obj[p] = NewObject(NoUdc)
    BY <1>1 DEF Init
  <2>. QED BY <2>1, <2>2 DEF PrevIsTaken
<1>2. TypeOK /\ PrevIsTaken /\ [Next]_vars => PrevIsTaken'
  BY PrevStep
<1>3. ASSUME TypeOK, VictimKnown, PrevIsTaken, [Next]_vars
      PROVE  [BindsOnlyOwner]_vars
  BY <1>3, BindStep
<1>4. ASSUME IInv, PrevIsTaken, [Next]_vars
      PROVE  [BindsOnlyOwner]_vars
  BY <1>3, <1>4 DEF IInv
<1>5. Spec => []PrevIsTaken
  <2>1. IInv /\ PrevIsTaken /\ [Next]_vars => PrevIsTaken'
    BY <1>2 DEF IInv
  <2>. QED BY <1>1, <2>1, Invariance, PTL DEF Spec
<1>6. Spec => [][BindsOnlyOwner]_vars
  BY <1>4, <1>5, Invariance, PTL DEF Spec
<1>. QED BY <1>6 DEF BindsOnlyOwner, HandBackOnlyToOwner

-----------------------------------------------------------------------------
(* Nothing is left behind, with one process at a time.                     *)

\* What the kernel sees to: parts stand on the parts they need, a mount on its
\* mount point, and a gadget has a controller only with its function in it.
Structure ==
    /\ \A part \in tree : Needs[part] \subseteq tree
    /\ mount => "mountPoint" \in tree
    /\ udcOf[Ours] # NoUdc => "link" \in tree

\* A run on somebody else's gadget.
Guest(p) == mode[p] \in {"attach", "lend"}

\* Where a run can be, given how it was started.
Placed(p) ==
    /\ Guest(p) =>
          /\ pc[p] \notin {"exists", "compose", "mount", "umount", "remove"}
          /\ ~obj[p].composed
    /\ mode[p] = "cleanup" =>
          pc[p] \in Ended \cup {"exists", "unbind", "closeEp0", "umount",
                                "remove", "restore"}
    /\ pc[p] \notin {"compose", "remove"} => step[p] = 1

\* The run knows of what is there, so its teardown() will go through all of it.
Owns(p) == (tree # {} => obj[p].composed) /\ (mount => obj[p].mounted)

\* teardown() has been through the first parts of its list.
Gone(n) == ~mount /\ \A i \in 1 .. n - 1 : Removed[i] \notin tree

\* Whatever is there somebody is in charge of: the run that made it, or
\* --cleanup, unless a run was killed and nobody has cleaned up yet.
InCharge(p) ==
    /\ ~litter /\ (pc[p] \in Ended \/ Guest(p)) => tree = {}
    /\ ~litter /\ mode[p] = "compose" /\ pc[p] = "exists" => tree = {}
    /\ ~Guest(p) /\ (~litter \/ mode[p] = "cleanup") =>
          /\ pc[p] \notin Ended \cup {"exists", "remove", "restore"} => Owns(p)
          /\ pc[p] = "remove" => Gone(step[p])
          /\ pc[p] = "restore" => tree = {}

\* What each part needs, and where it is in the list of teardown().
LEMMA PartFacts ==
    /\ Needs["gadget"] = {} /\ Needs["mountPoint"] = {}
    /\ Needs["strings"] = {"gadget"} /\ Needs["config"] = {"gadget"}
    /\ Needs["function"] = {"gadget"} /\ Needs["cfgStrings"] = {"config"}
    /\ Needs["link"] = {"config", "function"}
    /\ Removed[1] = "mountPoint" /\ Removed[2] = "link"
    /\ Removed[3] = "cfgStrings" /\ Removed[4] = "config"
    /\ Removed[5] = "function" /\ Removed[6] = "strings"
    /\ Removed[7] = "gadget"
BY DEF Needs, Removed, Parts

\* Without a gadget there is nothing inside it.
LEMMA NoGadgetNoTree ==
    ASSUME TypeOK, Structure, tree \cap {"gadget", "mountPoint"} = {}
    PROVE  tree = {}
<1>1. "strings" \notin tree /\ "config" \notin tree /\ "function" \notin tree
  BY PartFacts DEF Structure
<1>2. "cfgStrings" \notin tree /\ "link" \notin tree
  BY PartFacts, <1>1 DEF Structure
<1>. QED BY <1>1, <1>2 DEF TypeOK, Parts

\* An empty tree is all there is to leave behind.
LEMMA EmptyIsClean ==
    ASSUME TypeOK, Structure, tree = {}
    PROVE  ~mount /\ udcOf[Ours] = NoUdc
BY DEF Structure

\* Only our own gadget's controller matters to Structure; it goes at any time
\* and comes only with the function in place.
LEMMA UdcOfOurs ==
    ASSUME TypeOK, NEW g, NEW u, Bound(g, u), g # Ours \/ u = NoUdc
    PROVE  udcOf'[Ours] # NoUdc => udcOf[Ours] # NoUdc
BY DEF TypeOK, Bound, Gadgets

LEMMA StructureStep ==
    ASSUME TypeOK, VictimKnown, Structure, [Next]_vars
    PROVE  Structure'
<1>. USE DEF Structure
<1>1. ASSUME UNCHANGED <<tree, mount>>,
             udcOf'[Ours] # NoUdc => udcOf[Ours] # NoUdc
      PROVE  Structure'
  BY <1>1
<1>2. ASSUME NEW p \in Procs, Make(p) PROVE Structure'
  <2>1. PICK part \in Parts : Needs[part] \subseteq tree /\ tree' = tree \cup {part}
    BY <1>2, Lists DEF Make, TypeOK
  <2>2. mount' = mount /\ udcOf' = udcOf
    BY <1>2 DEF Make
  <2>. QED BY <2>1, <2>2
<1>3. ASSUME NEW p \in Procs, Remove(p) PROVE Structure'
  <2>1. /\ mount' = mount
        /\ \/ \E part : CanRemove(part) /\ RemovePart(part)
           \/ tree' = tree /\ udcOf' = udcOf
    BY <1>3 DEF Remove
  <2>2. CASE tree' = tree /\ udcOf' = udcOf
    BY <2>1, <2>2
  <2>3. ASSUME NEW part, CanRemove(part), RemovePart(part) PROVE Structure'
    <3>1. tree' = tree \ {part} /\ \A other \in tree : part \notin Needs[other]
      BY <2>3 DEF CanRemove, RemovePart
    <3>2. \A q \in tree' : Needs[q] \subseteq tree'
      BY <3>1
    <3>3. mount' => "mountPoint" \in tree'
      BY <2>1, <2>3, <3>1 DEF CanRemove
    <3>4. udcOf'[Ours] # NoUdc => "link" \in tree'
      <4>1. CASE part = "link"
        <5>1. udcOf'[Ours] = NoUdc
          BY <2>3, <4>1 DEF RemovePart, Bound, TypeOK, Gadgets
        <5>. QED BY <5>1
      <4>2. CASE part # "link"
        BY <2>3, <3>1, <4>2 DEF RemovePart
      <4>. QED BY <4>1, <4>2
    <3>. QED BY <3>2, <3>3, <3>4
  <2>. QED BY <2>1, <2>2, <2>3
<1>4. ASSUME NEW p \in Procs, Mount(p) PROVE Structure'
  BY <1>4 DEF Mount
<1>5. ASSUME NEW p \in Procs, Umount(p) PROVE Structure'
  BY <1>5 DEF Umount
<1>6. ASSUME NEW p \in Procs, Bind(p) PROVE Structure'
  <2>1. /\ UNCHANGED <<tree, mount>> /\ Bound(Target(p), obj[p].udc)
        /\ Target(p) = Ours => "link" \in tree
    BY <1>6 DEF Bind, CanBind
  <2>2. CASE Target(p) = Ours
    BY <2>1, <2>2
  <2>3. CASE Target(p) # Ours
    BY <2>1, <2>3, UdcOfOurs, <1>1
  <2>. QED BY <2>2, <2>3
<1>7. ASSUME NEW p \in Procs, Restore(p) PROVE Structure'
  <2>1. /\ UNCHANGED <<tree, mount>>
        /\ udcOf' = udcOf \/ (obj[p].prev # NoGadget /\ Bound(obj[p].prev, obj[p].udc))
    BY <1>7 DEF Restore
  <2>2. obj[p].prev # NoGadget => obj[p].prev # Ours
    BY GadgetAssumption DEF TypeOK
  <2>. QED BY <2>1, <2>2, UdcOfOurs, <1>1
<1>8. ASSUME NEW p \in Procs, CloseEp0(p) \/ Kill(p) PROVE Structure'
  <2>1. UNCHANGED <<tree, mount>> /\ (udcOf' = udcOf \/ \E g : Bound(g, NoUdc))
    BY <1>8 DEF CloseEp0, Kill, Ep0Released
  <2>. QED BY <2>1, UdcOfOurs, <1>1
<1>9. ASSUME NEW p \in Procs, Unbind(p) \/ Release(p) PROVE Structure'
  <2>1. UNCHANGED <<tree, mount>> /\ (udcOf' = udcOf \/ \E g : Bound(g, NoUdc))
    BY <1>9 DEF Unbind, Release
  <2>. QED BY <2>1, UdcOfOurs, <1>1
<1>10. ASSUME OtherTool PROVE Structure'
  <2>1. UNCHANGED <<tree, mount>> /\ \E g \in Others : \E u : Bound(g, u)
    BY <1>10 DEF OtherTool
  <2>2. \A g \in Others : g # Ours
    BY GadgetAssumption
  <2>. QED BY <2>1, <2>2, UdcOfOurs, <1>1
<1>11. ASSUME NEW p \in Procs, Run(p), ~Make(p), ~Remove(p), ~Mount(p), ~Umount(p),
              ~Bind(p), ~Restore(p), ~CloseEp0(p), ~Unbind(p), ~Release(p)
       PROVE  Structure'
  <2>1. UNCHANGED <<tree, mount, udcOf>>
    BY <1>11 DEF Run, Start, Exists, NothingStale, ClaimStale, MakeFails,
       MountFails, Describe, DescribeFails, Look, LookedAtAll, ReleaseFails,
       BindFails, Leave, kernelVars
  <2>. QED BY <2>1
<1>12. CASE UNCHANGED vars
  BY <1>12 DEF vars, kernelVars
<1>. QED BY <1>2, <1>3, <1>4, <1>5, <1>6, <1>7, <1>8, <1>9, <1>10, <1>11, <1>12
         DEF Next

\* The steps of a run that leave the tree, the mount and what the run knows of
\* them alone.
Steady(p) ==
    \/ MountFails(p) \/ Describe(p) \/ DescribeFails(p) \/ Look(p)
    \/ LookedAtAll(p) \/ Release(p) \/ ReleaseFails(p) \/ Bind(p)
    \/ BindFails(p) \/ Leave(p) \/ Unbind(p)

LEMMA SteadyStep ==
    ASSUME TypeOK, NEW p \in Procs, Steady(p)
    PROVE  /\ UNCHANGED <<tree, mount, litter, mode, step>>
           /\ obj'[p].composed = obj[p].composed
           /\ obj'[p].mounted = obj[p].mounted
           /\ pc[p] \in {"mount", "describe", "look", "release", "bind", "up",
                         "unbind"}
           /\ \/ pc'[p] \in {"describe", "look", "release", "bind", "up",
                             "unbind", "closeEp0"}
              \/ pc'[p] = "exited" /\ ~obj[p].composed
           /\ pc[p] = "unbind" => pc'[p] = "closeEp0"
<1>. USE DEF TypeOK, Goto, Rest, kernelVars
<1>1. CASE MountFails(p) \/ ReleaseFails(p) \/ BindFails(p)
  BY <1>1 DEF MountFails, ReleaseFails, BindFails, Failed
<1>2. CASE DescribeFails(p)
  BY <1>2 DEF DescribeFails, Failed
<1>3. CASE Describe(p)
  BY <1>3 DEF Describe
<1>4. CASE Look(p)
  BY <1>4 DEF Look
<1>5. CASE LookedAtAll(p) \/ Release(p) \/ Bind(p) \/ Leave(p) \/ Unbind(p)
  BY <1>5 DEF LookedAtAll, Release, Bind, Leave, Unbind
<1>. QED BY <1>1, <1>2, <1>3, <1>4, <1>5 DEF Steady

\* Taking its part of the list away, teardown() keeps to Gone(): the part is
\* not in use any more when its turn comes, and after the last nothing is left.
LEMMA RemoveStep ==
    ASSUME TypeOK, Structure, Sticky = FALSE, NEW p \in Procs, Remove(p),
           Gone(step[p])
    PROVE  /\ UNCHANGED <<mount, mode, litter>>
           /\ \/ pc'[p] = "remove" /\ Gone(step[p])' /\ mode'[p] = mode[p]
              \/ pc'[p] = "restore" /\ tree' = {} /\ step'[p] = 1
<1>. DEFINE n == step[p]
<1>1. n \in 1 .. 7 /\ Len(Removed) = 7
  BY Lists DEF TypeOK
<1>2. UNCHANGED <<mount, mode, litter>> /\ ~mount
  BY DEF Remove, Rest, Gone
<1>3. tree' \subseteq tree
  BY DEF Remove, RemovePart
<1>4. Removed[n] \notin tree'
  <2>1. CASE CanRemove(Removed[n]) /\ RemovePart(Removed[n])
    BY <2>1 DEF RemovePart
  <2>2. CASE ~CanRemove(Removed[n]) /\ UNCHANGED tree
    <3>1. SUFFICES ASSUME Removed[n] \in tree PROVE FALSE
      BY <2>2
    <3>2. PICK other \in tree : Removed[n] \in Needs[other]
      BY <2>2, <3>1, <1>2 DEF CanRemove
    <3>3. other \in Parts /\ \A i \in 1 .. n - 1 : Removed[i] # other
      BY <3>2 DEF TypeOK, Gone
    <3>4. n = 1 \/ n = 2 \/ n = 3 \/ n = 4 \/ n = 5 \/ n = 6 \/ n = 7
      BY <1>1
    <3>5. other \in {"strings", "config", "function", "cfgStrings", "link"}
      BY <3>2, <3>3, PartFacts DEF Parts
    <3>6. CASE n = 1 \/ n = 2 \/ n = 3
      BY <3>2, <3>5, <3>6, PartFacts
    <3>7. CASE n = 4 \/ n = 5
      <4>1. Removed[2] # other /\ Removed[3] # other
        BY <3>3, <3>7
      <4>. QED BY <3>2, <3>5, <3>7, <4>1, PartFacts
    <3>8. CASE n = 6 \/ n = 7
      <4>1. /\ Removed[2] # other /\ Removed[3] # other /\ Removed[4] # other
            /\ Removed[5] # other
        BY <3>3, <3>8
      <4>2. n = 7 => Removed[6] # other
        BY <3>3
      <4>. QED BY <3>2, <3>5, <3>8, <4>1, <4>2, PartFacts
    <3>. QED BY <3>4, <3>6, <3>7, <3>8
  <2>. QED BY <2>1, <2>2 DEF Remove
<1>5. \A i \in 1 .. n : Removed[i] \notin tree'
  <2>1. \A i \in 1 .. n - 1 : Removed[i] \notin tree
    BY DEF Gone
  <2>2. \A i \in 1 .. n : i = n \/ i \in 1 .. n - 1
    BY <1>1
  <2>. QED BY <2>1, <2>2, <1>3, <1>4
<1>6. CASE n = 7
  <2>1. \A part \in Parts : part \notin tree'
    BY <1>5, <1>6, PartFacts DEF Parts
  <2>2. tree' = {}
    BY <2>1, <1>3 DEF TypeOK
  <2>. QED BY <2>2, <1>1, <1>2, <1>6 DEF Remove, Goto, TypeOK
<1>7. CASE n # 7
  <2>1. step'[p] = n + 1 /\ pc'[p] = "remove"
    BY <1>7, <1>1 DEF Remove, Goto, TypeOK
  <2>2. (n + 1) - 1 = n
    BY <1>1
  <2>3. \A i \in 1 .. step'[p] - 1 : Removed[i] \notin tree'
    BY <2>1, <2>2, <1>5
  <2>4. Gone(step[p])'
    BY <2>3, <1>2 DEF Gone
  <2>. QED BY <2>1, <2>4, <1>2
<1>. QED BY <1>6, <1>7

\* The one process there is, its runs, its kills and the other tools keep
\* somebody in charge of what is there.
LEMMA ChargeStep ==
    ASSUME NEW me \in Procs, Procs = {me}, Sticky = FALSE, TypeOK,
           Structure, Placed(me), InCharge(me), [Next]_vars
    PROVE  Placed(me)' /\ InCharge(me)'
<1>. USE DEF Placed, InCharge, Guest, Owns, Ended
<1>1. CASE Start(me)
  <2>1. PICK m \in Modes, u \in Udcs \cup {NoUdc} :
          /\ mode' = [mode EXCEPT ![me] = m]
          /\ obj' = [obj EXCEPT ![me] = NewObject(u)]
          /\ pc' = [pc EXCEPT ![me] =
                      IF m \in {"attach", "lend"} THEN "describe" ELSE "exists"]
    BY <1>1 DEF Start
  <2>2. /\ mode'[me] = m /\ ~obj'[me].composed /\ step'[me] = 1
        /\ pc'[me] = IF m \in {"attach", "lend"} THEN "describe" ELSE "exists"
        /\ UNCHANGED <<tree, mount, litter>> /\ pc[me] \in {"off", "exited"}
    BY <1>1, <2>1 DEF Start, TypeOK, NewObject, kernelVars
  <2>. QED BY <2>2
<1>2. CASE Exists(me)
  <2>1. /\ UNCHANGED <<tree, mount, litter, mode, step, obj>>
        /\ mode[me] = "compose" /\ pc[me] = "exists"
        /\ pc'[me] \in {"exited", "compose"}
    BY <1>2 DEF Exists, Goto, Rest, TypeOK, kernelVars
  <2>2. ~litter => tree = {} /\ ~mount
    BY <2>1 DEF Structure
  <2>. QED BY <2>1, <2>2
<1>3. CASE NothingStale(me)
  <2>1. /\ UNCHANGED <<tree, mount, mode, step, obj>> /\ pc[me] = "exists"
        /\ mode[me] = "cleanup" /\ pc'[me] = "exited"
    BY <1>3 DEF NothingStale, Goto, TypeOK, kernelVars
  <2>2. tree = {}
    BY <1>3, NoGadgetNoTree DEF NothingStale
  <2>. QED BY <2>1, <2>2
<1>4. CASE ClaimStale(me)
  <2>1. PICK g : obj' = [obj EXCEPT ![me] = StaleObject(obj[me].udc, g)]
    BY <1>4 DEF ClaimStale
  <2>2. obj'[me].composed /\ obj'[me].mounted
    BY <2>1 DEF TypeOK, StaleObject
  <2>3. /\ UNCHANGED <<tree, mount, litter, mode, step>> /\ pc[me] = "exists"
        /\ mode[me] = "cleanup" /\ pc'[me] = "unbind"
    BY <1>4 DEF ClaimStale, Goto, Rest, TypeOK, kernelVars
  <2>. QED BY <2>2, <2>3
<1>5. CASE Make(me)
  <2>1. /\ UNCHANGED <<mount, litter, mode>> /\ pc[me] = "compose"
        /\ obj'[me].composed /\ obj'[me].mounted = obj[me].mounted
        /\ \/ pc'[me] = "compose"
           \/ pc'[me] = "mount" /\ step'[me] = 1
    BY <1>5 DEF Make, Goto, Rest, TypeOK
  <2>. QED BY <2>1
<1>6. CASE MakeFails(me)
  <2>1. /\ UNCHANGED <<tree, mount, litter, mode, obj>>
        /\ pc[me] = "compose" /\ step'[me] = 1
        /\ pc'[me] = "unbind" \/ (pc'[me] = "exited" /\ ~obj[me].composed)
    BY <1>6 DEF MakeFails, Failed, Rest, TypeOK, kernelVars
  <2>. QED BY <2>1
<1>7. CASE Mount(me)
  <2>1. /\ UNCHANGED <<tree, litter, mode, step>> /\ pc[me] = "mount"
        /\ obj'[me].mounted /\ obj'[me].composed = obj[me].composed
        /\ pc'[me] = "describe"
    BY <1>7 DEF Mount, Goto, Rest, TypeOK
  <2>. QED BY <2>1
<1>8. CASE Steady(me)
  <2>1. /\ UNCHANGED <<tree, mount, litter, mode, step>>
        /\ obj'[me].composed = obj[me].composed
        /\ obj'[me].mounted = obj[me].mounted
        /\ pc[me] \in {"mount", "describe", "look", "release", "bind", "up",
                       "unbind"}
        /\ \/ pc'[me] \in {"describe", "look", "release", "bind", "up",
                           "unbind", "closeEp0"}
           \/ pc'[me] = "exited" /\ ~obj[me].composed
        /\ pc[me] = "unbind" => pc'[me] = "closeEp0"
    BY <1>8, SteadyStep
  <2>2. Placed(me)'
    BY <2>1
  <2>3. InCharge(me)'
    BY <2>1
  <2>. QED BY <2>2, <2>3
<1>9. CASE CloseEp0(me)
  <2>1. /\ UNCHANGED <<tree, mount, litter, mode, step>>
        /\ pc[me] = "closeEp0"
        /\ obj'[me].composed = obj[me].composed
        /\ obj'[me].mounted = obj[me].mounted
        /\ pc'[me] = IF obj[me].composed THEN "umount" ELSE "restore"
    BY <1>9 DEF CloseEp0, Goto, Rest, TypeOK
  <2>. QED BY <2>1
<1>10. CASE Umount(me)
  <2>1. /\ UNCHANGED <<tree, litter, mode, step>> /\ pc[me] = "umount"
        /\ pc'[me] = "remove" /\ mount' = (mount /\ ~obj[me].mounted)
    BY <1>10 DEF Umount, Goto, Rest, TypeOK
  <2>2. step'[me] = 1
    BY <2>1
  <2>3. \A i \in 1 .. step'[me] - 1 : Removed[i] \notin tree'
    BY <2>2
  <2>4. ~mount' => Gone(step[me])'
    BY <2>3 DEF Gone
  <2>. QED BY <2>1, <2>4
<1>11. CASE Remove(me)
  <2>1. pc[me] = "remove" /\ ~Guest(me) /\ UNCHANGED <<mode, litter>>
    BY <1>11 DEF Remove, Goto, Rest
  <2>2. pc'[me] \in {"remove", "restore"} /\ (pc'[me] = "restore" => step'[me] = 1)
    BY <1>11 DEF Remove, Goto, TypeOK
  <2>3. CASE ~litter \/ mode[me] = "cleanup"
    <3>1. Gone(step[me])
      BY <2>1, <2>3
    <3>2. \/ pc'[me] = "remove" /\ Gone(step[me])'
          \/ pc'[me] = "restore" /\ tree' = {} /\ step'[me] = 1
      BY <1>11, <3>1, RemoveStep
    <3>. QED BY <2>1, <2>2, <3>2
  <2>4. CASE litter /\ mode[me] # "cleanup"
    BY <2>1, <2>2, <2>4
  <2>. QED BY <2>3, <2>4
<1>12. CASE Restore(me)
  <2>1. /\ UNCHANGED <<tree, mount, mode, step>> /\ pc[me] = "restore"
        /\ pc'[me] = "exited" /\ litter' = (litter /\ mode[me] # "cleanup")
        /\ obj'[me].composed = obj[me].composed
    BY <1>12 DEF Restore, Goto, TypeOK
  <2>. QED BY <2>1
<1>13. CASE Kill(me)
  <2>1. /\ UNCHANGED <<tree, mount, mode>> /\ pc'[me] = "off"
        /\ ~obj'[me].composed /\ step'[me] = 1 /\ pc[me] \notin Ended
        /\ litter' = (litter \/ Target(me) = Ours)
    BY <1>13 DEF Kill, TypeOK, NewObject
  <2>2. ~Guest(me) => Target(me) = Ours
    BY DEF Target
  <2>. QED BY <2>1, <2>2
<1>14. CASE OtherTool
  BY <1>14 DEF OtherTool, procVars, Gone
<1>15. CASE UNCHANGED vars
  BY <1>15 DEF vars, procVars, kernelVars, Gone
<1>16. \/ Run(me) \/ Kill(me) \/ OtherTool \/ UNCHANGED vars
  BY DEF Next
<1>. QED BY <1>1, <1>2, <1>3, <1>4, <1>5, <1>6, <1>7, <1>8, <1>9, <1>10,
            <1>11, <1>12, <1>13, <1>14, <1>15, <1>16 DEF Run, Steady

\* However a run of the one process ended, and wherever an earlier one was
\* killed, a --cleanup that ended since included: once it is over there is no
\* tree, no mount and no controller left (gadget.rs:539-583, 587-608), whatever
\* the other tools do, if no directory stays busy for longer than teardown()
\* waits.
THEOREM NothingIsLeft ==
    ASSUME NEW me, Procs = {me}, Sticky = FALSE
    PROVE  Spec => []NothingLeftBehind
<1>. me \in Procs
  OBVIOUS
<1>. DEFINE Charged == Structure /\ Placed(me) /\ InCharge(me)
<1>1. ASSUME Init PROVE Charged
  <2>1. /\ pc[me] = "off" /\ mode[me] = "compose" /\ step[me] = 1
        /\ tree = {} /\ ~mount /\ udcOf[Ours] = NoUdc
    BY <1>1 DEF Init
  <2>. QED BY <2>1 DEF Structure, Placed, InCharge, Guest, Ended
<1>2. ASSUME IInv, Charged, [Next]_vars PROVE Charged'
  BY <1>2, StructureStep, ChargeStep DEF IInv
<1>3. ASSUME IInv, Charged PROVE NothingLeftBehind
  <2>1. pc[me] \in Ended /\ ~litter => tree = {}
    BY <1>3 DEF InCharge
  <2>. QED BY <1>3, <2>1, EmptyIsClean DEF NothingLeftBehind, IInv
<1>. HIDE DEF Charged
<1>. QED BY <1>1, <1>2, <1>3, Invariance, PTL DEF Spec

-----------------------------------------------------------------------------
(* The controller goes back, with any number of processes.                 *)

\* A step of one run is nobody else's.
LEMMA OnlyOwnState ==
    ASSUME TypeOK, NEW p \in Procs, Run(p) \/ Kill(p), NEW q \in Procs \ {p}
    PROVE  /\ pc'[q] = pc[q] /\ mode'[q] = mode[q] /\ obj'[q] = obj[q]
           /\ taken'[q] = taken[q] /\ step'[q] = step[q]
<1>. USE DEF TypeOK, Goto, Rest, kernelVars
<1>1. CASE Start(p) \/ Kill(p)
  BY <1>1 DEF Start, Kill
<1>2. CASE /\ ~Start(p) /\ ~Kill(p)
           /\ \/ Make(p) \/ MakeFails(p) \/ Mount(p) \/ MountFails(p)
              \/ Describe(p) \/ DescribeFails(p) \/ Bind(p) \/ BindFails(p)
  BY <1>2 DEF Make, MakeFails, Mount, MountFails, Describe, DescribeFails,
     Bind, BindFails, Failed
<1>3. CASE /\ ~Start(p) /\ ~Kill(p)
           /\ \/ Look(p) \/ LookedAtAll(p) \/ Release(p) \/ ReleaseFails(p)
              \/ Exists(p) \/ NothingStale(p) \/ ClaimStale(p) \/ Leave(p)
  BY <1>3 DEF Look, LookedAtAll, Release, ReleaseFails, Exists, NothingStale,
     ClaimStale, Leave, Failed
<1>4. CASE Unbind(p) \/ CloseEp0(p) \/ Umount(p) \/ Remove(p) \/ Restore(p)
  BY <1>4 DEF Unbind, CloseEp0, Umount, Remove, Restore
<1>. QED BY <1>1, <1>2, <1>3, <1>4 DEF Run

\* What a run knows of the controller it took: only a run that has one to take
\* looks for its owner, with its ep0 open, and the owner it remembers is one it
\* unbound.
Borrower(p) ==
    /\ mode[p] = "cleanup" =>
          pc[p] \notin {"compose", "mount", "describe", "look", "release",
                        "bind", "up"}
    /\ mode[p] = "lend" => pc[p] \notin {"look", "release", "bind"}
    /\ pc[p] \in {"look", "release", "bind"} => obj[p].ep0
    /\ pc[p] \notin Ended =>
          /\ pc[p] \in {"exists", "compose", "mount", "describe"} => taken[p] = {}
          /\ mode[p] \in {"cleanup", "lend"} => taken[p] = {}
          /\ mode[p] \in {"compose", "attach"} => obj[p].udc # NoUdc
          /\ taken[p] # {} => obj[p].prev \in taken[p]

LEMMA BorrowerRun ==
    ASSUME TypeOK, VictimKnown, NEW p \in Procs, Borrower(p), Run(p)
    PROVE  Borrower(p)'
<1>. USE DEF TypeOK, Borrower, Ended
<1>1. CASE Start(p)
  <2>1. PICK m \in Modes, u \in Udcs \cup {NoUdc} :
          /\ m \in {"compose", "attach"} => u # NoUdc
          /\ mode' = [mode EXCEPT ![p] = m]
          /\ obj' = [obj EXCEPT ![p] = NewObject(u)]
          /\ pc' = [pc EXCEPT ![p] =
                      IF m \in {"attach", "lend"} THEN "describe" ELSE "exists"]
    BY <1>1 DEF Start
  <2>2. /\ mode'[p] = m /\ obj'[p].udc = u /\ taken'[p] = {}
        /\ pc'[p] \in {"describe", "exists"}
        /\ pc'[p] = "describe" => m \in {"attach", "lend"}
    BY <1>1, <2>1 DEF Start, NewObject
  <2>. QED BY <2>1, <2>2
<1>2. CASE ClaimStale(p)
  <2>1. PICK g : obj' = [obj EXCEPT ![p] = StaleObject(obj[p].udc, g)]
    BY <1>2 DEF ClaimStale
  <2>2. pc'[p] = "unbind" /\ mode'[p] = "cleanup" /\ taken'[p] = {}
    BY <1>2 DEF ClaimStale, Goto, Rest
  <2>. QED BY <2>2
<1>3. CASE Exists(p) \/ NothingStale(p)
  BY <1>3 DEF Exists, NothingStale, Goto, Rest
<1>4. CASE Make(p) \/ Mount(p) \/ Umount(p) \/ Unbind(p) \/ Remove(p)
  <2>1. /\ mode' = mode /\ taken' = taken
        /\ obj'[p].udc = obj[p].udc /\ obj'[p].prev = obj[p].prev
        /\ \/ pc[p] \in {"compose", "mount"} /\ pc'[p] \in {"compose", "mount", "describe"}
           \/ /\ pc[p] \in {"umount", "unbind", "remove"}
              /\ pc'[p] \in {"remove", "closeEp0", "restore"}
    BY <1>4 DEF Make, Mount, Umount, Unbind, Remove, Goto, Rest
  <2>. QED BY <2>1
<1>5. CASE MakeFails(p) \/ MountFails(p) \/ BindFails(p) \/ ReleaseFails(p)
  <2>1. /\ mode' = mode /\ taken' = taken /\ obj' = obj
        /\ pc[p] \in {"compose", "mount", "bind", "release"}
        /\ pc'[p] \in {"unbind", "exited"}
    BY <1>5 DEF MakeFails, MountFails, BindFails, ReleaseFails, Failed, Rest, kernelVars
  <2>. QED BY <2>1
<1>6. CASE DescribeFails(p)
  <2>1. /\ mode' = mode /\ taken' = taken /\ obj'[p].udc = obj[p].udc
        /\ pc[p] = "describe" /\ pc'[p] \in {"unbind", "exited"}
    BY <1>6 DEF DescribeFails, Failed, Rest
  <2>. QED BY <2>1
<1>7. CASE Describe(p)
  <2>1. /\ mode' = mode /\ taken' = taken /\ obj'[p].udc = obj[p].udc
        /\ obj'[p].ep0 /\ pc[p] = "describe"
        /\ pc'[p] = IF mode[p] = "lend" THEN "up" ELSE "look"
    BY <1>7 DEF Describe, Goto, Rest
  <2>. QED BY <2>1
<1>8. CASE Look(p) \/ LookedAtAll(p) \/ Leave(p) \/ Bind(p)
  <2>1. /\ mode' = mode /\ taken' = taken
        /\ obj'[p].udc = obj[p].udc /\ obj'[p].prev = obj[p].prev
        /\ obj'[p].ep0 = obj[p].ep0
        /\ \/ pc[p] = "look" /\ pc'[p] \in {"look", "release", "bind"}
           \/ pc[p] = "up" /\ pc'[p] = "unbind"
           \/ pc[p] = "bind" /\ pc'[p] = "up"
    BY <1>8 DEF Look, LookedAtAll, Leave, Bind, Goto, Rest
  <2>. QED BY <2>1
<1>9. CASE Release(p)
  <2>1. /\ mode' = mode /\ taken'[p] = taken[p] \cup {victim[p]}
        /\ obj'[p].udc = obj[p].udc /\ obj'[p].prev = victim[p]
        /\ obj'[p].ep0 = obj[p].ep0 /\ pc[p] = "release" /\ pc'[p] = "look"
    BY <1>9 DEF Release, Goto
  <2>. QED BY <2>1
<1>10. CASE CloseEp0(p)
  <2>1. /\ mode' = mode /\ taken' = taken
        /\ obj'[p].udc = obj[p].udc /\ obj'[p].prev = obj[p].prev
        /\ pc[p] = "closeEp0" /\ pc'[p] \in {"umount", "restore"}
    BY <1>10 DEF CloseEp0, Goto, Rest
  <2>. QED BY <2>1
<1>11. CASE Restore(p)
  BY <1>11 DEF Restore, Goto
<1>. QED BY <1>1, <1>2, <1>3, <1>4, <1>5, <1>6, <1>7, <1>8, <1>9, <1>10,
            <1>11 DEF Run

LEMMA BorrowerStep ==
    ASSUME TypeOK, VictimKnown, \A p \in Procs : Borrower(p), [Next]_vars
    PROVE  (\A p \in Procs : Borrower(p))'
<1>. SUFFICES ASSUME NEW q \in Procs PROVE Borrower(q)'
  OBVIOUS
<1>1. ASSUME NEW p \in Procs, Run(p) \/ Kill(p), p # q PROVE Borrower(q)'
  BY <1>1, OnlyOwnState DEF Borrower
<1>2. CASE Run(q)
  BY <1>2, BorrowerRun
<1>3. CASE Kill(q)
  BY <1>3 DEF Kill, TypeOK, Borrower, Ended
<1>4. CASE OtherTool \/ UNCHANGED vars
  BY <1>4 DEF OtherTool, vars, procVars, Borrower
<1>. QED BY <1>1, <1>2, <1>3, <1>4 DEF Next

\* A run ends by itself in restore_udc(), or before it took anything.
ReturnsController ==
    \A p \in Procs, g \in Others \ {Theirs} :
       pc[p] \notin Ended /\ pc'[p] = "exited" /\ taken[p] = {g} =>
          \/ udcOf'[g] # NoUdc
          \/ \E h \in Gadgets : udcOf'[h] = obj[p].udc

LEMMA ReturnStep ==
    ASSUME TypeOK, VictimKnown, \A p \in Procs : Borrower(p), Next
    PROVE  ReturnsController
<1>. SUFFICES ASSUME NEW p \in Procs, NEW g \in Others \ {Theirs},
                     pc[p] \notin Ended, pc'[p] = "exited", taken[p] = {g}
              PROVE  \/ udcOf'[g] # NoUdc
                     \/ \E h \in Gadgets : udcOf'[h] = obj[p].udc
  BY DEF ReturnsController
<1>. USE DEF TypeOK
<1>0. g \in Gadgets /\ g # Ours /\ g # Theirs /\ g # NoGadget
  BY GadgetAssumption DEF Gadgets
<1>1. obj[p].prev = g /\ obj[p].udc # NoUdc
      /\ pc[p] \notin {"exists", "compose", "mount", "describe"}
      /\ (pc[p] \in {"look", "release", "bind"} => obj[p].ep0)
  BY DEF Borrower
<1>2. pc'[p] # pc[p]
  BY DEF Ended
<1>3. Run(p)
  <2>1. PICK q \in Procs : Run(q) \/ Kill(q)
    BY <1>2 DEF Next, OtherTool, procVars
  <2>2. p = q
    BY <2>1, <1>2, OnlyOwnState
  <2>3. ~Kill(p)
    BY DEF Kill
  <2>. QED BY <2>1, <2>2, <2>3
<1>4. Restore(p)
  <2>1. ~ReleaseFails(p) /\ ~BindFails(p)
    BY <1>1 DEF ReleaseFails, BindFails, Failed, kernelVars
  <2>2. ~MakeFails(p) /\ ~MountFails(p) /\ ~DescribeFails(p)
    BY <1>1 DEF MakeFails, MountFails, DescribeFails
  <2>3. ~Start(p) /\ ~Exists(p) /\ ~NothingStale(p) /\ ~ClaimStale(p)
    BY <1>1 DEF Start, Exists, NothingStale, ClaimStale, Goto
  <2>. QED BY <1>3, <2>1, <2>2, <2>3 DEF Run, Make, Mount, Describe, Look,
           LookedAtAll, Release, Bind, Leave, Unbind, CloseEp0, Umount,
           Remove, Goto
<1>5. CASE CanBind(g, obj[p].udc)
  <2>1. udcOf' = [udcOf EXCEPT ![g] = obj[p].udc]
    BY <1>0, <1>1, <1>4, <1>5 DEF Restore, Bound
  <2>. QED BY <1>0, <1>1, <2>1
<1>6. CASE ~CanBind(g, obj[p].udc)
  <2>1. udcOf' = udcOf
    BY <1>1, <1>4, <1>6 DEF Restore
  <2>2. udcOf[g] # NoUdc \/ \E h \in Gadgets : udcOf[h] = obj[p].udc
    BY <1>0, <1>1, <1>6 DEF CanBind
  <2>. QED BY <2>1, <2>2
<1>. QED BY <1>5, <1>6

\* Whichever way a run ends by itself, the gadget it took the controller from
\* has one again, or somebody else has that controller: for any number of runs
\* at a time, each started in any way, with kills, failing calls and other tools
\* at every step (gadget.rs:285-305, 539-583).
THEOREM GivesBack == Spec => ControllerReturned
<1>. DEFINE B == \A p \in Procs : Borrower(p)
<1>1. ASSUME Init PROVE B
  BY <1>1 DEF Init, Borrower, Ended
<1>2. ASSUME IInv, B, [Next]_vars PROVE B' /\ [ReturnsController]_vars
  BY <1>2, BorrowerStep, ReturnStep DEF IInv
<1>. HIDE DEF B
<1>3. Spec => [][ReturnsController]_vars
  BY <1>1, <1>2, Invariance, PTL DEF Spec
<1>. QED BY <1>3 DEF ReturnsController, ControllerReturned

-----------------------------------------------------------------------------
(* Nothing is left behind, with any number of processes.                   *)

\* Where a run that composes can be.
Composer(p) ==
    /\ pc[p] \in {"exists", "compose", "mount"} => mode[p] = "compose"
    /\ pc[p] = "mount" => obj[p].composed
    /\ pc[p] \notin {"compose", "remove"} => step[p] = 1

\* A run whose teardown() has this part, or the mount, still before it.
Minds(p, part) ==
    /\ mode[p] = "compose" /\ obj[p].composed
    /\ pc[p] \notin Ended \cup {"exists", "restore"}
    /\ pc[p] = "remove" => \A i \in 1 .. step[p] - 1 : Removed[i] # part

MindsMount(p) ==
    /\ mode[p] = "compose" /\ obj[p].composed /\ obj[p].mounted
    /\ pc[p] \in {"describe", "look", "release", "bind", "up", "unbind",
                  "closeEp0", "umount"}

\* Runs that race to build the gadget of one name take over each other's parts;
\* whatever is there, one of them minds it, unless one was killed.
InHand ==
    ~litter => /\ \A part \in tree : \E p \in Procs : Minds(p, part)
               /\ mount => \E p \in Procs : MindsMount(p)

TogetherInv == /\ \A p \in Procs : Composer(p) /\ mode[p] # "cleanup"
               /\ InHand

\* What stands on a part, or in it, comes before it in the list of teardown().
LEMMA RemovedInOrder ==
    ASSUME NEW y \in Parts, NEW n \in 1 .. 7, Removed[n] \in Needs[y]
    PROVE  \E j \in 1 .. n - 1 : Removed[j] = y
<1>1. n = 1 \/ n = 2 \/ n = 3 \/ n = 4 \/ n = 5 \/ n = 6 \/ n = 7
  OBVIOUS
<1>2. \/ y = "link" /\ n \in {4, 5}
      \/ y = "cfgStrings" /\ n = 4
      \/ y \in {"strings", "config", "function"} /\ n = 7
  BY <1>1, PartFacts DEF Parts
<1>3. \/ y = Removed[2] /\ n \in {4, 5}
      \/ y = Removed[3] /\ n = 4
      \/ y = Removed[4] /\ n = 7
      \/ y = Removed[5] /\ n = 7
      \/ y = Removed[6] /\ n = 7
  BY <1>2, PartFacts
<1>. QED BY <1>3

LEMMA ComposerStep ==
    ASSUME TypeOK, \A p \in Procs : Composer(p) /\ mode[p] # "cleanup",
           "cleanup" \notin Modes, [Next]_vars
    PROVE  (\A p \in Procs : Composer(p) /\ mode[p] # "cleanup")'
<1>. SUFFICES ASSUME NEW q \in Procs
              PROVE  Composer(q)' /\ mode'[q] # "cleanup"
  OBVIOUS
<1>. USE DEF TypeOK, Composer, Goto, Rest, kernelVars
<1>1. ASSUME NEW p \in Procs, Run(p) \/ Kill(p), p # q
      PROVE  Composer(q)' /\ mode'[q] # "cleanup"
  BY <1>1, OnlyOwnState
<1>2. CASE Start(q)
  <2>1. PICK m \in Modes, u \in Udcs \cup {NoUdc} :
          /\ mode' = [mode EXCEPT ![q] = m]
          /\ pc' = [pc EXCEPT ![q] =
                      IF m \in {"attach", "lend"} THEN "describe" ELSE "exists"]
    BY <1>2 DEF Start
  <2>2. m \in {"compose", "attach", "lend"} /\ step'[q] = 1
    BY <1>2, GadgetAssumption DEF Start
  <2>. QED BY <2>1, <2>2
<1>3. CASE Kill(q)
  BY <1>3 DEF Kill
<1>4. CASE Make(q)
  <2>1. /\ mode' = mode /\ obj'[q].composed /\ pc[q] = "compose"
        /\ \/ pc'[q] = "compose"
           \/ pc'[q] = "mount" /\ step'[q] = 1
    BY <1>4 DEF Make
  <2>. QED BY <2>1
<1>5. CASE Remove(q)
  <2>1. /\ mode' = mode /\ pc[q] = "remove"
        /\ \/ pc'[q] = "remove"
           \/ pc'[q] = "restore" /\ step'[q] = 1
    BY <1>5 DEF Remove
  <2>. QED BY <2>1
<1>6. CASE MakeFails(q)
  BY <1>6 DEF MakeFails, Failed
<1>7. CASE Steady(q)
  BY <1>7, SteadyStep
<1>8. CASE Exists(q) \/ NothingStale(q) \/ ClaimStale(q) \/ Mount(q)
           \/ CloseEp0(q) \/ Umount(q) \/ Restore(q)
  <2>1. /\ mode' = mode /\ step' = step /\ pc[q] \notin {"compose", "remove"}
        /\ pc'[q] \notin {"exists", "mount"}
        /\ pc'[q] = "compose" => pc[q] = "exists"
    BY <1>8 DEF Exists, NothingStale, ClaimStale, Mount, CloseEp0, Umount, Restore
  <2>. QED BY <2>1
<1>9. CASE OtherTool \/ UNCHANGED vars
  BY <1>9 DEF OtherTool, vars, procVars
<1>. QED BY <1>1, <1>2, <1>3, <1>4, <1>5, <1>6, <1>7, <1>8, <1>9 DEF Next, Run,
         Steady

\* Neither what other runs mind, nor what this one does before it removes parts,
\* changes in any other step.
LEMMA MindsStep ==
    ASSUME TypeOK, \A p \in Procs : Composer(p) /\ mode[p] # "cleanup",
           NEW p \in Procs, Run(p), ~Remove(p), NEW q \in Procs
    PROVE  /\ \A part : Minds(q, part) => Minds(q, part)'
           /\ ~Umount(p) \/ q # p => (MindsMount(q) => MindsMount(q)')
<1>. USE DEF TypeOK, Goto, Rest, kernelVars, Ended
<1>1. CASE p # q
  BY <1>1, OnlyOwnState DEF Minds, MindsMount
<1>2. CASE p = q /\ Steady(p)
  BY <1>2, SteadyStep DEF Minds, MindsMount
<1>3. CASE p = q /\ Make(p)
  <2>1. /\ mode' = mode /\ obj'[p].composed /\ pc[p] = "compose"
        /\ pc'[p] \in {"compose", "mount"}
    BY <1>3 DEF Make
  <2>. QED BY <1>3, <2>1 DEF Minds, MindsMount
<1>4. CASE p = q /\ MakeFails(p)
  <2>1. /\ mode' = mode /\ obj' = obj /\ pc[p] = "compose"
        /\ obj[p].composed => pc'[p] = "unbind"
    BY <1>4 DEF MakeFails, Failed
  <2>. QED BY <1>4, <2>1 DEF Minds, MindsMount
<1>5. CASE p = q /\ Mount(p)
  <2>1. /\ mode' = mode /\ pc[p] = "mount" /\ pc'[p] = "describe"
        /\ obj'[p].composed = obj[p].composed
    BY <1>5 DEF Mount
  <2>. QED BY <1>5, <2>1 DEF Minds, MindsMount
<1>6. CASE p = q /\ CloseEp0(p)
  <2>1. /\ mode' = mode /\ pc[p] = "closeEp0"
        /\ obj[p].composed => pc'[p] = "umount"
        /\ obj'[p].composed = obj[p].composed /\ obj'[p].mounted = obj[p].mounted
    BY <1>6 DEF CloseEp0
  <2>. QED BY <1>6, <2>1 DEF Minds, MindsMount
<1>7. CASE p = q /\ Umount(p)
  <2>1. /\ mode' = mode /\ pc[p] = "umount" /\ pc'[p] = "remove"
        /\ obj'[p].composed = obj[p].composed /\ step'[p] = step[p]
    BY <1>7 DEF Umount
  <2>2. step[p] = 1
    BY <2>1 DEF Composer
  <2>3. \A i : i \notin 1 .. step'[p] - 1
    BY <2>1, <2>2
  <2>. QED BY <1>7, <2>1, <2>3 DEF Minds, MindsMount
<1>8. CASE p = q /\ (Start(p) \/ Exists(p) \/ NothingStale(p) \/ ClaimStale(p)
                     \/ Restore(p))
  <2>1. ~Minds(p, "gadget") /\ ~MindsMount(p) /\ \A part : ~Minds(p, part)
    BY <1>8 DEF Start, Exists, NothingStale, ClaimStale, Restore, Minds, MindsMount
  <2>. QED BY <1>8, <2>1
<1>. QED BY <1>1, <1>2, <1>3, <1>4, <1>5, <1>6, <1>7, <1>8 DEF Run, Steady

\* A part that cannot be removed yet is minded by another run: the one that
\* minds what stands on it, or the mount in it, is not further down the list.
LEMMA RemoveInHand ==
    ASSUME TypeOK, Sticky = FALSE, NEW p \in Procs, Remove(p), Composer(p),
           mode[p] # "cleanup", InHand, ~litter
    PROVE  \A x \in tree' : \E q \in Procs : Minds(q, x)'
<1>. DEFINE n == step[p]
            r == Removed[n]
<1>. SUFFICES ASSUME NEW x \in tree' PROVE \E q \in Procs : Minds(q, x)'
  OBVIOUS
<1>1. n \in 1 .. 7 /\ Len(Removed) = 7 /\ pc[p] = "remove"
  BY Lists DEF TypeOK, Remove, Goto
<1>2. tree' \subseteq tree /\ x \in tree /\ x \in Parts
  BY DEF Remove, RemovePart, TypeOK
<1>3. \A q \in Procs \ {p} : \A y : Minds(q, y) => Minds(q, y)'
  BY OnlyOwnState DEF Run, Minds, Ended
<1>4. SUFFICES ASSUME \A q \in Procs \ {p} : ~Minds(q, x)
               PROVE  Minds(p, x)'
  BY <1>3
<1>5. Minds(p, x)
  BY <1>2, <1>4 DEF InHand
<1>6. x # r
  <2>1. SUFFICES ASSUME x = r PROVE FALSE
    OBVIOUS
  <2>2. ~CanRemove(r)
    BY <2>1 DEF Remove, RemovePart
  <2>3. ASSUME NEW y \in tree, r \in Needs[y] PROVE FALSE
    <3>1. PICK q \in Procs : Minds(q, y)
      BY DEF InHand
    <3>2. y \in Parts
      BY DEF TypeOK
    <3>3. PICK j \in 1 .. n - 1 : Removed[j] = y
      BY <1>1, <2>3, <3>2, RemovedInOrder
    <3>4. q # p
      BY <1>1, <3>1, <3>3 DEF Minds
    <3>5. ASSUME pc[q] = "remove" PROVE \A i \in 1 .. step[q] - 1 : Removed[i] # x
      <4>1. step[q] \in 1 .. 7 /\ ~(j \in 1 .. step[q] - 1)
        BY <3>1, <3>3, <3>5 DEF Minds, TypeOK
      <4>2. step[q] <= j /\ \A i \in 1 .. step[q] - 1 : i \in 1 .. n - 1
        BY <1>1, <4>1
      <4>. QED BY <1>1, <1>5, <4>2 DEF Minds
    <3>6. Minds(q, x)
      BY <3>1, <3>5 DEF Minds
    <3>. QED BY <1>4, <3>4, <3>6
  <2>4. ASSUME mount PROVE FALSE
    <3>1. PICK q \in Procs : MindsMount(q)
      BY <2>4 DEF InHand
    <3>2. Minds(q, x) /\ q # p
      BY <1>1, <3>1 DEF Minds, MindsMount, Ended
    <3>. QED BY <1>4, <3>2
  <2>. QED BY <1>2, <2>1, <2>2, <2>3, <2>4 DEF CanRemove
<1>7. \A i \in 1 .. n : Removed[i] # x
  <2>1. \A i \in 1 .. n : i = n \/ i \in 1 .. n - 1
    BY <1>1
  <2>. QED BY <1>1, <1>5, <1>6, <2>1 DEF Minds
<1>8. n # 7
  BY <1>2, <1>7, PartFacts DEF Parts
<1>9. /\ mode' = mode /\ pc'[p] = "remove" /\ step'[p] = n + 1
      /\ obj'[p].composed = obj[p].composed
  BY <1>1, <1>8 DEF Remove, Goto, Rest, TypeOK
<1>10. (n + 1) - 1 = n
  BY <1>1
<1>. QED BY <1>1, <1>5, <1>7, <1>9, <1>10 DEF Minds

LEMMA InHandStep ==
    ASSUME TypeOK, Sticky = FALSE, TogetherInv, [Next]_vars
    PROVE  InHand'
<1>. USE DEF TogetherInv
<1>1. ASSUME NEW p \in Procs, Kill(p), ~litter' PROVE InHand'
  <2>1. UNCHANGED <<tree, mount>> /\ ~litter /\ Target(p) # Ours
    BY <1>1 DEF Kill, TypeOK
  <2>2. mode[p] # "compose"
    BY <2>1 DEF Target
  <2>3. \A q \in Procs : /\ \A y : Minds(q, y) => Minds(q, y)'
                         /\ MindsMount(q) => MindsMount(q)'
    BY <1>1, <2>2, OnlyOwnState DEF Minds, MindsMount
  <2>. QED BY <2>1, <2>3 DEF InHand
<1>2. ASSUME NEW p \in Procs, Remove(p), ~litter' PROVE InHand'
  <2>1. mount' = mount /\ ~litter /\ pc[p] = "remove"
    BY <1>2 DEF Remove, Rest, Goto
  <2>2. \A q \in Procs : MindsMount(q) => MindsMount(q)'
    BY <1>2, <2>1, OnlyOwnState DEF MindsMount, Run
  <2>3. \A x \in tree' : \E q \in Procs : Minds(q, x)'
    BY <1>2, <2>1, RemoveInHand
  <2>. QED BY <2>1, <2>2, <2>3 DEF InHand
<1>3. ASSUME NEW p \in Procs, Run(p), ~Remove(p), ~litter' PROVE InHand'
  <2>1. \A q \in Procs : /\ \A y : Minds(q, y) => Minds(q, y)'
                         /\ ~Umount(p) \/ q # p => (MindsMount(q) => MindsMount(q)')
    BY <1>3, MindsStep
  <2>2. ~litter
    <3>1. ~NothingStale(p) /\ (Restore(p) => litter' = litter)
      BY DEF NothingStale, Restore, TypeOK
    <3>. QED BY <1>3, <3>1 DEF Run, Start, Exists, ClaimStale, Make, MakeFails,
             Mount, MountFails, Describe, DescribeFails, Look, LookedAtAll,
             Release, ReleaseFails, Bind, BindFails, Leave, Unbind, CloseEp0,
             Umount, Rest
  <2>3. CASE Make(p)
    <3>1. PICK part : tree' = tree \cup {part}
      BY <2>3 DEF Make
    <3>2. Minds(p, part)' /\ mount' = mount
      BY <2>3 DEF Make, Minds, Composer, Goto, Rest, Ended, TypeOK
    <3>. QED BY <2>1, <2>2, <2>3, <3>1, <3>2 DEF InHand, Make, Umount, Goto
  <2>4. CASE Mount(p)
    <3>1. MindsMount(p)' /\ tree' = tree
      BY <2>4 DEF Mount, MindsMount, Composer, Goto, Rest, TypeOK
    <3>. QED BY <2>1, <2>2, <3>1 DEF InHand
  <2>5. CASE Umount(p)
    <3>1. tree' = tree /\ mount' = (mount /\ ~obj[p].mounted)
      BY <2>5 DEF Umount
    <3>2. mount' => ~MindsMount(p)
      BY <3>1 DEF MindsMount
    <3>. QED BY <2>1, <2>2, <3>1, <3>2 DEF InHand
  <2>6. CASE ~Make(p) /\ ~Mount(p) /\ ~Umount(p)
    <3>1. UNCHANGED <<tree, mount>>
      BY <1>3, <2>6 DEF Run, Start, Exists, NothingStale, ClaimStale,
         MakeFails, MountFails, Describe, DescribeFails, Look, LookedAtAll,
         Release, ReleaseFails, Bind, BindFails, Leave, Unbind, CloseEp0,
         Restore, kernelVars
    <3>. QED BY <2>1, <2>2, <2>6, <3>1 DEF InHand
  <2>. QED BY <2>3, <2>4, <2>5, <2>6
<1>4. CASE OtherTool
  BY <1>4 DEF OtherTool, procVars, InHand, Minds, MindsMount
<1>5. CASE UNCHANGED vars
  BY <1>5 DEF vars, procVars, kernelVars, InHand, Minds, MindsMount
<1>6. CASE litter'
  BY <1>6 DEF InHand
<1>. QED BY <1>1, <1>2, <1>3, <1>4, <1>5, <1>6 DEF Next

\* Any number of runs may be started at the same time, before any of them has
\* made a gadget that would be refused, and take each other's parts away or find
\* them busy: when all are over, and none was killed, there is no tree, no mount
\* and no controller left (gadget.rs:475-484, 539-583).
THEOREM NothingIsLeftTogether ==
    ASSUME "cleanup" \notin Modes, Sticky = FALSE
    PROVE  Spec => []NothingLeftBehind
<1>. DEFINE T == TogetherInv /\ Structure
<1>1. ASSUME Init PROVE T
  <2>1. \A p \in Procs : pc[p] = "off" /\ mode[p] = "compose" /\ step[p] = 1
    BY <1>1 DEF Init
  <2>2. tree = {} /\ ~mount /\ udcOf[Ours] = NoUdc
    BY <1>1 DEF Init
  <2>. QED BY <2>1, <2>2 DEF TogetherInv, Composer, InHand, Structure
<1>2. ASSUME IInv, T, [Next]_vars PROVE T'
  <2>1. InHand' /\ Structure'
    BY <1>2, InHandStep, StructureStep DEF IInv
  <2>2. (\A p \in Procs : Composer(p) /\ mode[p] # "cleanup")'
    BY <1>2, ComposerStep DEF IInv, TogetherInv
  <2>. QED BY <2>1, <2>2 DEF TogetherInv
<1>3. ASSUME IInv, T PROVE NothingLeftBehind
  <2>1. (\A p \in Procs : pc[p] \in Ended) /\ ~litter => tree = {}
    BY <1>3 DEF TogetherInv, InHand, Minds
  <2>. QED BY <1>3, <2>1, EmptyIsClean DEF NothingLeftBehind, IInv
<1>. HIDE DEF T
<1>. QED BY <1>1, <1>2, <1>3, Invariance, PTL DEF Spec
=============================================================================
