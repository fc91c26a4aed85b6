--------------------------- MODULE SupervisorProofs ---------------------------
(***************************************************************************)
(* Proofs about Supervisor with GogglesNet and EnvFile: for any renderers, *)
(* start limit, and number of faults and of the operator's commands, and   *)
(* for any files and environments.                                         *)
(*                                                                         *)
(* What the settings are rests on what FoldLeft computes: Folding gives    *)
(* the environments that load() goes through, one for each line, and       *)
(* AfterLines what each of them says of a key.                             *)
(***************************************************************************)
EXTENDS Supervisor, WellFoundedInduction, TLAPS

-----------------------------------------------------------------------------
(* Types, and what NetworkManager can still do.                            *)

\* A run that has not opened its sink is one of fewer than Burst in a row, and
\* past LoadSettings the mode is one that there is.
Counted == pc \in {"load", "sink"} => quick < Burst
ModeKnown == pc \in {"sink", "signals"} => ModeOf(conf) # "bad"

\* An interface that lost its address in a session is known to NetworkManager,
\* and unmanaged before it gets another.
LostOnce ==
    /\ taken \in {0, 1}
    /\ taken = 1 =>
          /\ dev.known
          /\ dev.managed => ~dev.addr /\ pc \notin {"link", "addr"}

IInv == TypeOK /\ Counted /\ ModeKnown /\ LostOnce

LEMMA Constants == /\ Burst \in Nat /\ MaxFaults \in Nat /\ MaxOps \in Nat
                   /\ 0 < Burst
BY BurstAssumption

LEMMA Modes == \A env : ModeOf(env) \in {"aoa", "goggles-net", "bad"}
BY DEF ModeOf

USE DEF NetPc, Running

\* The count of quick ends stays within the limit.
LEMMA EndsInRange ==
    ASSUME quick \in 0 .. Burst, NEW soon, Ends(soon)
    PROVE  quick' \in 0 .. Burst
<1>1. quick' = 0 \/ (quick < Burst /\ quick' = quick + 1)
  BY Zenon DEF Ends
<1>. QED BY <1>1, Constants

\* ... and so do the counts of faults and of commands.
LEMMA CountsInRange ==
    /\ faults \in 0 .. MaxFaults /\ Fault => faults' \in 0 .. MaxFaults
    /\ ops \in 0 .. MaxOps /\ ops < MaxOps => ops + 1 \in 0 .. MaxOps
BY Constants DEF Fault

LEMMA Zeroes == 0 \in 0 .. Burst /\ 0 \in 0 .. MaxFaults /\ 0 \in 0 .. MaxOps
BY Constants

LEMMA InitHolds == Init => IInv
<1>. SUFFICES ASSUME Init PROVE IInv
  OBVIOUS
<1>1. /\ pc = "none" /\ unit = "wait" /\ renderer = "none" /\ taken = 0
      /\ quick = 0 /\ faults = 0 /\ ops = 0
      /\ again = FALSE /\ stop = FALSE /\ stale = FALSE
      /\ env0 \in Environments /\ files \in Files /\ readFrom \in Files
  BY Zenon DEF Init, NetInit
<1>2. dev = [here |-> FALSE, known |-> FALSE, managed |-> TRUE, addr |-> FALSE]
  BY Zenon DEF Init, NetInit, Away
<1>3. TypeOK
  BY <1>1, <1>2, Zeroes DEF TypeOK
<1>. QED BY <1>1, <1>3 DEF IInv, Counted, ModeKnown, LostOnce

LEMMA NetKeeps == IInv /\ RunNet => IInv'
<1>. SUFFICES ASSUME IInv, RunNet PROVE IInv'
  OBVIOUS
<1>. USE DEF IInv, TypeOK, RunNet, mainVars, boardVars, Counted, ModeKnown, LostOnce
<1>1. quick' \in 0 .. Burst
  BY EndsInRange
<1>2. CASE InterfaceFound \/ InterfaceMissing \/ LinkUp \/ OpenSession \/ LinkDies
  BY <1>1, <1>2 DEF InterfaceFound, InterfaceMissing, LinkUp, OpenSession, LinkDies
<1>3. CASE DisableNm
  BY <1>1, <1>3 DEF DisableNm
<1>4. CASE AddAddress
  BY <1>1, <1>4 DEF AddAddress
<1>. QED BY <1>2, <1>3, <1>4 DEF NetStep

LEMMA MainKeeps == IInv /\ MainStep => IInv'
<1>. SUFFICES ASSUME IInv, MainStep PROVE IInv'
  OBVIOUS
<1>. USE DEF IInv, TypeOK, mainVars, boardVars, unitVars, Counted, ModeKnown, LostOnce
<1>1. CASE LoadSettings
  BY <1>1, Constants DEF LoadSettings
<1>2. CASE OpenSink
  <2>1. /\ pc = "sink"
        /\ \/ pc' = "none" /\ quick' = quick + 1 /\ renderer' = renderer
           \/ pc' = "signals" /\ quick' = quick /\ renderer' \in {renderer, "running"}
    BY <1>2 DEF OpenSink
  <2>2. UNCHANGED <<dev, taken, stop, conf, readFrom, unit, again, boardVars>>
    BY <1>2, Zenon DEF OpenSink
  <2>. QED BY <2>1, <2>2, Constants
<1>3. CASE CatchSignals
  <2>1. ModeOf(conf) \in {"aoa", "goggles-net"}
    BY <1>3, Modes DEF CatchSignals
  <2>2. quick' \in 0 .. Burst
    BY <1>3, EndsInRange DEF CatchSignals
  <2>. QED BY <1>3, <2>1, <2>2 DEF CatchSignals
<1>4. CASE RunNet
  BY <1>4, NetKeeps
<1>5. CASE AoaStops
  BY <1>5, EndsInRange DEF AoaStops
<1>6. CASE Reap
  BY <1>6 DEF Reap
<1>. QED BY <1>1, <1>2, <1>3, <1>4, <1>5, <1>6 DEF MainStep

\* systemd and the renderer.
LEMMA UnitKeeps ==
    ASSUME IInv, \/ OutputClosed \/ RendererEnds \/ Start \/ UnitEnded
                 \/ KillUnit \/ StartUnit \/ \E restart \in BOOLEAN : StopUnit(restart)
    PROVE  IInv'
<1>. USE DEF IInv, TypeOK, netVars, mainVars, boardVars, unitVars, Counted, ModeKnown, LostOnce
<1>1. CASE OutputClosed
  BY <1>1, EndsInRange DEF OutputClosed
<1>2. CASE RendererEnds
  BY <1>2 DEF RendererEnds
<1>3. CASE Start
  <2>1. /\ quick = Burst => unit' = "failed" /\ pc' = pc
        /\ quick # Burst => unit' = "active" /\ pc' = "load"
        /\ stop' \in BOOLEAN
    BY <1>3 DEF Start
  <2>2. UNCHANGED <<dev, taken, renderer, conf, readFrom, again, quick, boardVars>>
    BY <1>3, Zenon DEF Start
  <2>3. quick # Burst => quick < Burst
    BY Constants
  <2>. QED BY <2>1, <2>2, <2>3
<1>4. CASE UnitEnded
  BY <1>4 DEF UnitEnded
<1>5. CASE KillUnit
  BY <1>5 DEF KillUnit
<1>6. CASE StartUnit
  BY <1>6, Constants, Zeroes, CountsInRange DEF StartUnit
<1>7. ASSUME NEW restart \in BOOLEAN, StopUnit(restart) PROVE IInv'
  <2>1. ops' \in 0 .. MaxOps
    BY <1>7, CountsInRange DEF StopUnit
  <2>2. pc' = pc \/ pc' = "none" \/ pc' = "done"
    BY <1>7 DEF StopUnit
  <2>. QED BY <1>7, <2>1, <2>2 DEF StopUnit
<1>. QED BY <1>1, <1>2, <1>3, <1>4, <1>5, <1>6, <1>7

LEMMA BoardKeeps ==
    ASSUME IInv, \/ Plugging \/ Nm \/ RendererCrash \/ AoaGivesUp \/ Crash
                 \/ SaveSettings \/ Cleanup
    PROVE  IInv'
<1>. USE DEF IInv, TypeOK, netVars, mainVars, boardVars, unitVars, Counted, ModeKnown, LostOnce
<1>1. CASE Plugging
  <2>1. dev' = [here |-> ~dev.here, known |-> FALSE, managed |-> TRUE, addr |-> FALSE]
    BY <1>1 DEF Plugging, Plug, Away
  <2>2. taken' = 0 /\ pc' = pc /\ faults' \in 0 .. MaxFaults
    BY <1>1, CountsInRange DEF Plugging, Plug
  <2>3. UNCHANGED <<mainVars, unitVars, env0, files, stale, ops>>
    BY <1>1, Zenon DEF Plugging
  <2>. QED BY <2>1, <2>2, <2>3
<1>2. CASE Nm
  <2>1. CASE NmNotices
    <3>1. dev.here /\ ~dev.known /\ taken = 0
      BY <2>1 DEF NmNotices
    <3>2. dev' = [here |-> dev.here, known |-> TRUE, managed |-> dev.managed, addr |-> dev.addr]
      BY <2>1 DEF NmNotices
    <3>3. pc' = pc /\ taken' = 0
      BY <2>1, <3>1 DEF NmNotices
    <3>4. UNCHANGED <<mainVars, unitVars, boardVars>>
      BY <1>2, Zenon DEF Nm
    <3>. QED BY <3>1, <3>2, <3>3, <3>4
  <2>2. CASE NmTakesAddress
    <3>1. /\ dev.known /\ dev.managed /\ dev.addr
          /\ dev' = [here |-> dev.here, known |-> dev.known,
                     managed |-> dev.managed, addr |-> FALSE]
      BY <2>2 DEF NmTakesAddress
    <3>2. /\ taken = 0 /\ taken' \in {0, 1} /\ pc' = pc
          /\ taken' = 1 => pc \in {"open", "loop"}
      BY <2>2, <3>1 DEF NmTakesAddress
    <3>. QED BY <1>2, <3>1, <3>2 DEF Nm
  <2>. QED BY <1>2, <2>1, <2>2 DEF Nm
<1>3. CASE RendererCrash
  BY <1>3, CountsInRange DEF RendererCrash
<1>4. CASE AoaGivesUp
  BY <1>4, EndsInRange, CountsInRange DEF AoaGivesUp
<1>5. CASE Crash
  BY <1>5, EndsInRange, CountsInRange DEF Crash
<1>6. CASE SaveSettings
  BY <1>6, CountsInRange DEF SaveSettings
<1>7. CASE Cleanup
  <2>1. stale' \in BOOLEAN /\ ops' \in 0 .. MaxOps
    BY <1>7, CountsInRange DEF Cleanup
  <2>2. UNCHANGED <<netVars, mainVars, unitVars, env0, files, faults>>
    BY <1>7, Zenon DEF Cleanup
  <2>. QED BY <2>1, <2>2
<1>. QED BY <1>1, <1>2, <1>3, <1>4, <1>5, <1>6, <1>7

\* The inductive invariant of startup and supervision.
THEOREM Invariance == Spec => []IInv
<1>1. IInv /\ [Next]_vars => IInv'
  <2>. SUFFICES ASSUME IInv, [Next]_vars PROVE IInv'
    OBVIOUS
  <2>1. CASE UNCHANGED vars
    BY <2>1 DEF vars, netVars, mainVars, unitVars, boardVars, IInv, TypeOK,
                Counted, ModeKnown, LostOnce
  <2>. QED BY <2>1, MainKeeps, UnitKeeps, BoardKeeps DEF Next
<1>. QED BY InitHolds, <1>1, PTL DEF Spec

\* Every variable keeps its type: no end of a run counts past the start limit,
\* and an interface that is not there has no address (main.rs:163-382,
\* iface.rs:118-182).
THEOREM TypeCorrect == Spec => []TypeOK
<1>1. IInv => TypeOK
  BY DEF IInv
<1>. QED BY <1>1, Invariance, PTL

\* However often orbit-rs is started, killed and stopped, NetworkManager takes
\* the address of an interface from one session at most (iface.rs:144-182).
THEOREM OneSessionIsLost == Spec => []TakenOnce
<1>1. IInv => TakenOnce
  BY DEF IInv, LostOnce, TakenOnce
<1>. QED BY <1>1, Invariance, PTL

-----------------------------------------------------------------------------
(* The fold over the lines of a file.                                      *)

\* A set of naturals that has a member has a least one.
LEMMA LeastNatural ==
    ASSUME NEW S, S \subseteq Nat, S # {}
    PROVE  \E x \in S : \A y \in S : x <= y
<1>. DEFINE R == OpToRel(<, Nat)
<1>1. \A x, y \in Nat : y < x => <<y, x>> \in R
  BY DEF OpToRel
<1>2. PICK x \in S : \A y \in S : <<y, x>> \notin R
  <2>1. IsWellFoundedOn(R, Nat)
    BY NatLessThanWellFounded
  <2>. HIDE DEF R
  <2>. QED BY <2>1, WFMin, Zenon
<1>3. ASSUME NEW y \in S PROVE x <= y
  <2>1. ~(y < x)
    BY <1>1, <1>2
  <2>. QED BY <2>1
<1>. QED BY <1>3

\* Min and Max are what their names say, where there is one.
LEMMA MaxIs ==
    ASSUME NEW S, S \subseteq Int, NEW x \in S, \A y \in S : y <= x
    PROVE  Max(S) = x
<1>1. \A y \in S : x >= y
  OBVIOUS
<1>2. Max(S) \in S /\ \A y \in S : Max(S) >= y
  BY <1>1, Zenon DEF Max
<1>3. Max(S) \in Int /\ x \in Int /\ Max(S) <= x /\ Max(S) >= x
  BY <1>2
<1>. QED BY <1>3

LEMMA MinIn ==
    ASSUME NEW S, S \subseteq Nat, S # {}
    PROVE  Min(S) \in S
<1>1. PICK x \in S : \A y \in S : x <= y
  BY LeastNatural
<1>. QED BY <1>1, Zenon DEF Min

\* What load() makes of an environment and the lines of its file.
Folded(env, lines) == FoldLeft(SetIfAbsent, env, lines)

\* What FoldLeft's recursion gives for a set of line numbers.
Body(it, S, env, lines) ==
    IF S = {} THEN env ELSE SetIfAbsent(it[S \ {Max(S)}], lines[Max(S)])

Iterates(it, m, env, lines) ==
    it = [S \in SUBSET (1 .. m) |-> Body(it, S, env, lines)]

LEMMA IterateOne ==
    ASSUME NEW m \in Nat, NEW env, NEW lines, NEW old, Iterates(old, m, env, lines)
    PROVE  \E it : Iterates(it, m + 1, env, lines)
<1>. DEFINE it == [S \in SUBSET (1 .. m + 1) |->
                      IF m + 1 \in S THEN SetIfAbsent(old[S \ {m + 1}], lines[m + 1])
                                     ELSE old[S]]
<1>1. ASSUME NEW S \in SUBSET (1 .. m + 1)
      PROVE  it[S] = Body(it, S, env, lines)
  <2>1. CASE m + 1 \in S
    <3>1. Max(S) = m + 1
      <4>1. S \subseteq Int /\ \A y \in S : y <= m + 1
        OBVIOUS
      <4>. QED BY <2>1, <4>1, MaxIs
    <3>2. S \ {m + 1} \in SUBSET (1 .. m + 1) /\ m + 1 \notin S \ {m + 1} /\ S # {}
      BY <2>1
    <3>3. it[S \ {m + 1}] = old[S \ {m + 1}]
      BY <3>2, Zenon
    <3>4. it[S] = SetIfAbsent(old[S \ {m + 1}], lines[m + 1])
      BY <2>1, Zenon
    <3>. HIDE DEF it
    <3>. QED BY <3>1, <3>2, <3>3, <3>4, Zenon DEF Body
  <2>2. CASE m + 1 \notin S
    <3>1. S \in SUBSET (1 .. m)
      BY <2>2
    <3>2. it[S] = old[S]
      BY <2>2, Zenon
    <3>3. old[S] = Body(old, S, env, lines)
      BY <3>1, Zenon DEF Iterates
    <3>4. it[S \ {Max(S)}] = old[S \ {Max(S)}]
      <4>1. S \ {Max(S)} \in SUBSET (1 .. m + 1) /\ m + 1 \notin S \ {Max(S)}
        BY <2>2
      <4>. QED BY <4>1, Zenon
    <3>. HIDE DEF it
    <3>. QED BY <3>2, <3>3, <3>4, Zenon DEF Body
  <2>. QED BY <2>1, <2>2
<1>2. it = [S \in SUBSET (1 .. m + 1) |-> it[S]]
  OBVIOUS
<1>3. [S \in SUBSET (1 .. m + 1) |-> it[S]]
      = [S \in SUBSET (1 .. m + 1) |-> Body(it, S, env, lines)]
  <2>. HIDE DEF it
  <2>. QED BY <1>1, Zenon
<1>4. Iterates(it, m + 1, env, lines)
  <2>. HIDE DEF it
  <2>. QED BY <1>2, <1>3, Zenon DEF Iterates
<1>. QED BY <1>4, Zenon

LEMMA IteratesForAll ==
    ASSUME NEW env, NEW lines
    PROVE  \A m \in Nat : \E it : Iterates(it, m, env, lines)
<1>. DEFINE Bad == {m \in Nat : ~ \E it : Iterates(it, m, env, lines)}
<1>. SUFFICES ASSUME Bad # {} PROVE FALSE
  OBVIOUS
<1>1. PICK m \in Bad : \A y \in Bad : m <= y
  BY LeastNatural
<1>2. CASE m = 0
  <2>. DEFINE it == [S \in SUBSET (1 .. 0) |-> env]
  <2>1. \A S \in SUBSET (1 .. 0) : S = {}
    OBVIOUS
  <2>2. it = [S \in SUBSET (1 .. 0) |-> Body(it, S, env, lines)]
    BY <2>1, Zenon DEF Body
  <2>3. Iterates(it, 0, env, lines)
    BY <2>2, Zenon DEF Iterates
  <2>. QED BY <1>1, <1>2, <2>3, Zenon
<1>3. CASE m # 0
  <2>1. m - 1 \in Nat /\ m - 1 \notin Bad /\ (m - 1) + 1 = m
    BY <1>1, <1>3
  <2>2. PICK old : Iterates(old, m - 1, env, lines)
    BY <2>1, Zenon
  <2>3. \E it : Iterates(it, (m - 1) + 1, env, lines)
    BY <2>1, <2>2, IterateOne, Zenon
  <2>. QED BY <1>1, <2>1, <2>3, Zenon
<1>. QED BY <1>2, <1>3

\* load() goes through the lines in order: the environment after each of them
\* is made from the one before it, and the last is what load() leaves.
IsCourse(after, n, env, lines) ==
    /\ after[0] = env /\ after[n] = Folded(env, lines)
    /\ \A k \in 1 .. n : after[k] = SetIfAbsent(after[k - 1], lines[k])

LEMMA Folding ==
    ASSUME NEW env, NEW lines, NEW n \in Nat, DOMAIN lines = 1 .. n
    PROVE  \E after : IsCourse(after, n, env, lines)
<1>. DEFINE it == CHOOSE it : Iterates(it, n, env, lines)
            after == [k \in 0 .. n |-> it[1 .. k]]
<1>1. Folded(env, lines) = it[1 .. n]
  BY DEF Folded, FoldLeft, MapThenFoldSet, Iterates, Body
<1>2. Iterates(it, n, env, lines)
  BY IteratesForAll, Zenon
<1>. HIDE DEF it
<1>3. \A S \in SUBSET (1 .. n) : it[S] = Body(it, S, env, lines)
  BY <1>2, Zenon DEF Iterates
<1>4. after[0] = env
  <2>1. 1 .. 0 = {} /\ 0 \in 0 .. n
    OBVIOUS
  <2>. QED BY <1>3, <2>1, Zenon DEF Body
<1>5. ASSUME NEW k \in 1 .. n
      PROVE  after[k] = SetIfAbsent(after[k - 1], lines[k])
  <2>1. k \in 0 .. n /\ k - 1 \in 0 .. n /\ 1 .. k \in SUBSET (1 .. n) /\ 1 .. k # {}
    OBVIOUS
  <2>2. Max(1 .. k) = k
    <3>1. 1 .. k \subseteq Int /\ k \in 1 .. k /\ \A y \in 1 .. k : y <= k
      OBVIOUS
    <3>. QED BY <3>1, MaxIs
  <2>3. (1 .. k) \ {k} = 1 .. k - 1
    OBVIOUS
  <2>. QED BY <1>3, <2>1, <2>2, <2>3, Zenon DEF Body
<1>6. after[n] = Folded(env, lines)
  <2>1. n \in 0 .. n
    OBVIOUS
  <2>. QED BY <1>1, <2>1, Zenon
<1>7. IsCourse(after, n, env, lines)
  <2>. HIDE DEF after
  <2>. QED BY <1>4, <1>5, <1>6, Zenon DEF IsCourse
<1>. QED BY <1>7, Zenon

-----------------------------------------------------------------------------
(* The settings are those written.                                         *)

\* What an environment says of a key after the first k lines: what it said
\* before, or else what the first of those lines that names the key says.
Says(key, after, env, lines, k) ==
    /\ key \in DOMAIN after <=>
          key \in DOMAIN env \/ \E i \in 1 .. k : lines[i].key = key
    /\ key \in DOMAIN env => after[key] = env[key]
    /\ key \notin DOMAIN env =>
          \A i \in FirstOf(key, lines) : i <= k => after[key] = ParseValue(lines[i])

\* A line that sets a key changes nothing else and hides no earlier value.
LEMMA OneLine ==
    ASSUME NEW key, key # NoKey, NEW env, NEW lines, NEW n \in Nat,
           DOMAIN lines = 1 .. n, NEW k \in Nat, k + 1 \in 1 .. n,
           NEW before, Says(key, before, env, lines, k)
    PROVE  Says(key, SetIfAbsent(before, lines[k + 1]), env, lines, k + 1)
<1>. DEFINE l == lines[k + 1]
            after == SetIfAbsent(before, l)
            Named(j) == \E i \in 1 .. j : lines[i].key = key
<1>1. Named(k + 1) <=> Named(k) \/ l.key = key
  <2>1. \A i : i \in 1 .. k + 1 <=> i \in 1 .. k \/ i = k + 1
    OBVIOUS
  <2>. QED BY <2>1, Zenon
<1>2. ASSUME NEW i \in FirstOf(key, lines), i <= k + 1
      PROVE  i <= k \/ (i = k + 1 /\ ~Named(k) /\ l.key = key)
  <2>1. /\ i \in 1 .. n /\ lines[i].key = key
        /\ \A j \in 1 .. n : lines[j].key = key => i <= j
    BY Zenon DEF FirstOf
  <2>2. CASE i = k + 1
    <3>1. ASSUME NEW j \in 1 .. k PROVE lines[j].key # key
      <4>1. j \in 1 .. n /\ ~(i <= j)
        BY <2>2
      <4>. QED BY <2>1, <4>1, Zenon
    <3>. QED BY <2>1, <2>2, <3>1, Zenon
  <2>. QED BY <1>2, <2>1, <2>2
<1>3. ASSUME NEW i \in FirstOf(key, lines), i <= k PROVE Named(k)
  <2>1. i \in 1 .. n /\ lines[i].key = key
    BY Zenon DEF FirstOf
  <2>2. i \in 1 .. k
    BY <1>3, <2>1
  <2>. QED BY <2>1, <2>2
<1>4. /\ key \in DOMAIN before <=> key \in DOMAIN env \/ Named(k)
      /\ key \in DOMAIN env => before[key] = env[key]
      /\ key \notin DOMAIN env =>
            \A i \in FirstOf(key, lines) : i <= k => before[key] = ParseValue(lines[i])
  BY Zenon DEF Says
<1>5. CASE l.key = key /\ key \notin DOMAIN before
  <2>1. after = Put(before, key, ParseValue(l))
    BY <1>5, Zenon DEF SetIfAbsent
  <2>2. key \in DOMAIN after /\ after[key] = ParseValue(l)
    BY <2>1, Zenon DEF Put
  <2>3. key \notin DOMAIN env /\ ~Named(k)
    BY <1>4, <1>5, Zenon
  <2>. HIDE DEF after, Named
  <2>4. \A i \in FirstOf(key, lines) : i <= k + 1 => i = k + 1
    BY <1>2, <1>3, <2>3, Zenon
  <2>5. \A i \in FirstOf(key, lines) : i <= k + 1 => after[key] = ParseValue(lines[i])
    BY <2>2, <2>4, Zenon
  <2>. QED BY <1>1, <1>5, <2>2, <2>3, <2>5, Zenon DEF Says, Named, after
<1>6. CASE ~(l.key = key /\ key \notin DOMAIN before)
  <2>1. /\ key \in DOMAIN after <=> key \in DOMAIN before
        /\ key \in DOMAIN before => after[key] = before[key]
    <3>1. CASE l.key = NoKey \/ l.key \in DOMAIN before
      <4>1. after = before
        BY <3>1, Zenon DEF SetIfAbsent
      <4>. QED BY <4>1, Zenon
    <3>2. CASE ~(l.key = NoKey \/ l.key \in DOMAIN before)
      <4>1. after = Put(before, l.key, ParseValue(l)) /\ l.key # key
        BY <1>6, <3>2, Zenon DEF SetIfAbsent
      <4>. HIDE DEF after, l
      <4>. QED BY <4>1, Zenon DEF Put
    <3>. QED BY <3>1, <3>2, Zenon
  <2>2. l.key = key => key \in DOMAIN before
    BY <1>6, Zenon
  <2>. HIDE DEF after, Named
  <2>3. key \in DOMAIN after <=> key \in DOMAIN env \/ Named(k + 1)
    BY <1>1, <1>4, <2>1, <2>2, Zenon
  <2>4. ASSUME key \notin DOMAIN env, NEW i \in FirstOf(key, lines), i <= k + 1
        PROVE  after[key] = ParseValue(lines[i])
    <3>1. i <= k
      BY <1>2, <1>4, <2>2, <2>4, Zenon
    <3>2. key \in DOMAIN before
      BY <1>3, <1>4, <3>1, Zenon
    <3>. QED BY <1>4, <2>1, <2>4, <3>1, <3>2, Zenon
  <2>5. key \in DOMAIN env => after[key] = env[key]
    BY <1>4, <2>1, Zenon
  <2>. QED BY <2>3, <2>4, <2>5, Zenon DEF Says, Named, after
<1>. QED BY <1>5, <1>6, Zenon

LEMMA AfterLines ==
    ASSUME NEW key, key # NoKey, NEW env, NEW lines, NEW n \in Nat,
           DOMAIN lines = 1 .. n
    PROVE  Says(key, Folded(env, lines), env, lines, n)
<1>0. PICK after : IsCourse(after, n, env, lines)
  BY Folding, Zenon
<1>1. /\ after[0] = env /\ after[n] = Folded(env, lines)
      /\ \A k \in 1 .. n : after[k] = SetIfAbsent(after[k - 1], lines[k])
  BY <1>0, Zenon DEF IsCourse
<1>. DEFINE Bad == {k \in 0 .. n : ~Says(key, after[k], env, lines, k)}
<1>2. ASSUME Bad # {} PROVE FALSE
  <2>1. PICK k \in Bad : \A y \in Bad : k <= y
    <3>1. Bad \subseteq Nat
      OBVIOUS
    <3>. HIDE DEF Bad
    <3>. QED BY <1>2, <3>1, LeastNatural, Zenon
  <2>2. CASE k = 0
    <3>1. \A i \in FirstOf(key, lines) : ~(i <= 0)
      BY DEF FirstOf
    <3>2. 1 .. 0 = {}
      OBVIOUS
    <3>3. Says(key, env, env, lines, 0)
      BY <3>1, <3>2, Zenon DEF Says
    <3>. QED BY <1>1, <2>1, <2>2, <3>3, Zenon
  <2>3. CASE k # 0
    <3>1. /\ k - 1 \in Nat /\ (k - 1) + 1 = k /\ (k - 1) + 1 \in 1 .. n
          /\ k - 1 \in 0 .. n /\ ~(k <= k - 1)
      BY <2>1, <2>3
    <3>2. Says(key, after[k - 1], env, lines, k - 1)
      BY <2>1, <3>1, Zenon
    <3>3. Says(key, SetIfAbsent(after[k - 1], lines[(k - 1) + 1]), env, lines, (k - 1) + 1)
      BY <3>1, <3>2, OneLine, Zenon
    <3>4. after[k] = SetIfAbsent(after[k - 1], lines[k])
      BY <1>1, <3>1, Zenon
    <3>. QED BY <2>1, <3>1, <3>3, <3>4, Zenon
  <2>. QED BY <2>2, <2>3
<1>3. n \in 0 .. n
  OBVIOUS
<1>. QED BY <1>1, <1>2, <1>3, Zenon

\* load() reads one file or none, and that file is there.
LEMMA OneFile ==
    ASSUME NEW env, NEW fs, NEW path \in FileInForce(env, fs)
    PROVE  FileInForce(env, fs) = {path} /\ path \in DOMAIN fs
<1>1. CASE "ORBIT_ENV_FILE" \in DOMAIN env
  BY <1>1, Zenon DEF FileInForce
<1>2. CASE "ORBIT_ENV_FILE" \notin DOMAIN env
  <2>. DEFINE here == {i \in DOMAIN SearchOrder : SearchOrder[i] \in DOMAIN fs}
  <2>1. FileInForce(env, fs) = IF here = {} THEN {} ELSE {SearchOrder[Min(here)]}
    BY <1>2, Zenon DEF FileInForce
  <2>2. here \subseteq Nat
    BY DEF SearchOrder
  <2>3. here # {} => Min(here) \in here
    <3>. HIDE DEF here
    <3>. QED BY <2>2, MinIn, Zenon
  <2>. QED BY <2>1, <2>3, Zenon
<1>. QED BY <1>1, <1>2

\* No comment follows a quoted or an empty value: load() takes such a value for
\* what it is not (ParseValue).
CommentsStandFree ==
    \A fs \in Files : \A path \in DOMAIN fs : \A i \in DOMAIN fs[path] :
        fs[path][i].comment => ~fs[path][i].quoted /\ fs[path][i].text # ""

\* What load() leaves of a key is what was written for it.
LEMMA LoadedIsWritten ==
    ASSUME CommentsStandFree, TypeOK, conf = Load(env0, readFrom),
           NEW key, key # NoKey
    PROVE  {conf[k] : k \in {key} \cap DOMAIN conf} = Written(key)
<1>. DEFINE Got == {conf[k] : k \in {key} \cap DOMAIN conf}
<1>1. CASE FileInForce(env0, readFrom) = {}
  <2>1. conf = env0
    BY <1>1, Zenon DEF Load
  <2>2. Written(key) = IF key \in DOMAIN env0 THEN {env0[key]} ELSE {}
    BY <1>1 DEF Written
  <2>. QED BY <2>1, <2>2
<1>2. CASE FileInForce(env0, readFrom) # {}
  <2>1. PICK path : /\ FileInForce(env0, readFrom) = {path} /\ path \in DOMAIN readFrom
    BY <1>2, OneFile, Zenon
  <2>. DEFINE lines == readFrom[path]
              n == Len(lines)
  <2>2. lines \in Seq(Lines) /\ n \in Nat /\ DOMAIN lines = 1 .. n
    <3>1. lines \in Seq(Lines)
      BY <2>1, FilesAssumption, Zenon DEF TypeOK
    <3>. HIDE DEF lines
    <3>. QED BY <3>1
  <2>3. conf = Folded(env0, lines)
    <3>1. (CHOOSE f \in FileInForce(env0, readFrom) : TRUE) = path
      BY <2>1, Zenon
    <3>2. Load(env0, readFrom) =
             Folded(env0, readFrom[CHOOSE f \in FileInForce(env0, readFrom) : TRUE])
      BY <1>2 DEF Load, Folded
    <3>. QED BY <3>1, <3>2
  <2>4. \A i \in 1 .. n : ParseValue(lines[i]) = lines[i].text
    <3>1. ASSUME NEW i \in 1 .. n
          PROVE  lines[i].comment => ~lines[i].quoted /\ lines[i].text # ""
      BY <2>1, <2>2, Zenon DEF CommentsStandFree, TypeOK
    <3>. HIDE DEF lines, n
    <3>. QED BY <3>1, Zenon DEF ParseValue
  <2>5. Written(key) = IF key \in DOMAIN env0 THEN {env0[key]}
                       ELSE {lines[i].text : i \in FirstOf(key, lines)}
    BY <2>1 DEF Written
  <2>. HIDE DEF lines, n
  <2>6. Says(key, conf, env0, lines, n)
    BY <2>2, <2>3, AfterLines, Zenon
  <2>7. \A i \in FirstOf(key, lines) : /\ i \in 1 .. n /\ i <= n /\ lines[i].key = key
    BY <2>2 DEF FirstOf
  <2>8. CASE key \in DOMAIN env0
    BY <2>5, <2>6, <2>8 DEF Says
  <2>9. CASE key \notin DOMAIN env0 /\ FirstOf(key, lines) # {}
    <3>1. PICK i : i \in FirstOf(key, lines)
      BY <2>9, Zenon
    <3>2. ASSUME NEW j \in FirstOf(key, lines) PROVE j = i
      <4>1. i \in 1 .. n /\ j \in 1 .. n /\ i <= j /\ j <= i
        BY <2>2, <3>1 DEF FirstOf
      <4>. QED BY <4>1
    <3>3. FirstOf(key, lines) = {i}
      BY <3>1, <3>2
    <3>4. key \in DOMAIN conf /\ conf[key] = lines[i].text
      BY <2>4, <2>6, <2>7, <2>9, <3>1, Zenon DEF Says
    <3>. QED BY <2>5, <2>9, <3>3, <3>4
  <2>10. CASE key \notin DOMAIN env0 /\ FirstOf(key, lines) = {}
    <3>1. \A i \in 1 .. n : lines[i].key # key
      <4>. DEFINE at == {i \in 1 .. n : lines[i].key = key}
      <4>. SUFFICES ASSUME at # {} PROVE FALSE
        BY Zenon
      <4>1. PICK i \in at : \A j \in at : i <= j
        <5>1. at \subseteq Nat
          OBVIOUS
        <5>. HIDE DEF at
        <5>. QED BY <5>1, LeastNatural, Zenon
      <4>2. i \in FirstOf(key, lines)
        BY <2>2, <4>1, Zenon DEF FirstOf
      <4>. QED BY <2>10, <4>2, Zenon
    <3>2. key \notin DOMAIN conf
      BY <2>6, <2>10, <3>1, Zenon DEF Says
    <3>. QED BY <2>5, <2>10, <3>2
  <2>. QED BY <2>8, <2>9, <2>10, Zenon
<1>. QED BY <1>1, <1>2

\* For any file, of any length and with any keys repeated, the settings a run
\* goes by are what was written: in the environment, or else by the first line
\* that names the key (envcfg.rs:4-5, 52-84).
THEOREM SettingsAreThoseWritten ==
    ASSUME CommentsStandFree
    PROVE  Spec => []SettingsAreWritten
<1>. DEFINE Loaded == pc \notin {"none", "load"} => conf = Load(env0, readFrom)
<1>1. Init => Loaded
  BY DEF Init, NetInit
<1>2. Loaded /\ [Next]_vars => Loaded'
  <2>. SUFFICES ASSUME Loaded, [Next]_vars PROVE Loaded'
    OBVIOUS
  <2>1. env0' = env0
    BY DEF Next, MainStep, LoadSettings, OpenSink, CatchSignals, RunNet, AoaStops, Reap,
           OutputClosed, RendererEnds, Start, UnitEnded, KillUnit, StartUnit, StopUnit,
           Plugging, Nm, RendererCrash, AoaGivesUp, Crash, SaveSettings, Cleanup,
           boardVars, vars
  <2>2. CASE LoadSettings
    BY <2>1, <2>2 DEF LoadSettings, boardVars
  <2>3. CASE ~LoadSettings
    <3>1. conf' = conf /\ readFrom' = readFrom
      BY <2>3 DEF Next, MainStep, OpenSink, CatchSignals, RunNet, AoaStops, Reap,
           OutputClosed, RendererEnds, Start, UnitEnded, KillUnit, StartUnit, StopUnit,
           Plugging, Nm, RendererCrash, AoaGivesUp, Crash, SaveSettings, Cleanup,
           mainVars, vars
    <3>2. pc \in {"none", "load"} => pc' \in {"none", "load"}
      BY <2>3 DEF Next, MainStep, OpenSink, CatchSignals, RunNet, AoaStops, Reap,
           OutputClosed, RendererEnds, Start, UnitEnded, KillUnit, StartUnit, StopUnit,
           Plugging, Plug, Nm, NmNotices, NmTakesAddress, RendererCrash, AoaGivesUp, Crash,
           SaveSettings, Cleanup, NetStep, InterfaceFound, InterfaceMissing, DisableNm,
           LinkUp, AddAddress, OpenSession, LinkDies, netVars, vars
    <3>. QED BY <2>1, <3>1, <3>2
  <2>. QED BY <2>2, <2>3
<1>3. TypeOK /\ Loaded => SettingsAreWritten
  <2>. SUFFICES ASSUME TypeOK, Loaded, pc \notin {"none", "load"},
                       NEW key \in {"ORBIT_MODE", "ORBIT_RENDERER", "GOGGLES_NET_IFACE"}
                PROVE  {conf[k] : k \in {key} \cap DOMAIN conf} = Written(key)
    BY Zenon DEF SettingsAreWritten
  <2>1. key # NoKey
    BY DEF NoKey
  <2>. QED BY <2>1, LoadedIsWritten, Zenon
<1>. HIDE DEF Loaded
<1>. QED BY <1>1, <1>2, <1>3, TypeCorrect, PTL DEF Spec
=============================================================================
