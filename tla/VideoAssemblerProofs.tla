------------------------ MODULE VideoAssemblerProofs ------------------------
(***************************************************************************)
(* Proofs about VideoAssembler, for every stream, every width of the       *)
(* header's fields and every link, duplicating and reordering or not.      *)
(*                                                                         *)
(* That the Assembler's fields agree needs nothing of the link.  That an   *)
(* emitted unit is whole needs NoWrap and CountsFit, and an invariant that *)
(* says whose parts are held: those of the unit that arrived last, each    *)
(* under the index its header gave it.  Counting then does the rest: an    *)
(* index below total_parts for each of total_parts parts leaves no room    *)
(* for a part index that wrapped.                                          *)
(*                                                                         *)
(* The second half shows that VideoAssembler implements UnitStream on a    *)
(* link that only loses datagrams: the refinement mapping hands `out' over *)
(* as it is, so a step must either leave `out' alone or append a whole     *)
(* unit (ReceiveWhole) later than all before it, which follows from the    *)
(* order the fragments come in, kept in Ordered, and from every fragment   *)
(* of an emitted unit having arrived before.  The same order gives the two *)
(* other promises of an orderly link: a unit whose fragments all arrive is *)
(* handed on (NoUnitIsWasted), and a unit reported as dropped lost a       *)
(* fragment or was too large (DropsAreLosses).                             *)
(***************************************************************************)
EXTENDS VideoAssembler, FiniteSetTheorems, TLAPS

-----------------------------------------------------------------------------
(* Arithmetic of the header's fields.                                      *)

LEMMA ModRange == \A n \in Nat, m \in Nat \ {0} : n % m \in 0 .. m - 1
  OBVIOUS

LEMMA ModSmall == \A n \in Nat, m \in Nat \ {0} : n < m => n % m = n
  OBVIOUS

\* Two numbers less than m apart and equal modulo m are equal.
LEMMA ModClose ==
    ASSUME NEW m \in Nat \ {0}, NEW u \in Nat, NEW v \in Nat,
           u % m = v % m, u - v < m, v - u < m
    PROVE  u = v
<1>1. /\ u = m * (u \div m) + (u % m) /\ u \div m \in Nat
      /\ v = m * (v \div m) + (v % m) /\ v \div m \in Nat
  OBVIOUS
<1>2. ASSUME NEW q \in Nat, NEW r \in Nat, q > r PROVE m * q - m * r >= m
  <2>1. q - r \in Nat /\ q - r >= 1
    BY <1>2
  <2>2. m * (q - r) >= m
    BY <2>1
  <2>3. m * (q - r) = m * q - m * r
    OBVIOUS
  <2> QED
    BY <2>2, <2>3
<1>3. ~(u \div m > v \div m)
  <2> DEFINE a == m * (u \div m)
             b == m * (v \div m)
  <2>1. u - v = a - b /\ a \in Int /\ b \in Int
    BY <1>1
  <2> QED
    BY <1>1, <1>2, <2>1
<1>4. ~(v \div m > u \div m)
  <2> DEFINE a == m * (u \div m)
             b == m * (v \div m)
  <2>1. v - u = b - a /\ a \in Int /\ b \in Int
    BY <1>1
  <2> QED
    BY <1>1, <1>2, <2>1
<1> QED
  BY <1>1, <1>3, <1>4

-----------------------------------------------------------------------------
(* Fragments and their headers.                                            *)

LEMMA FragmentParts ==
    ASSUME NEW f \in Fragments
    PROVE  /\ f.unit \in Units /\ f.unit \in Nat
           /\ f.part \in Nat /\ f.part < Parts[f.unit]
           /\ Parts[f.unit] \in Nat \ {0}
           /\ f = Fragment(f.unit, f.part)
<1> USE AssemblerAssumption DEF Units
<1>1. PICK u \in Units : f \in [unit : {u}, part : 0 .. Parts[u] - 1]
  BY DEF Fragments
<1>2. Parts[u] \in Nat \ {0}
  OBVIOUS
<1> QED
  BY <1>1, <1>2 DEF Fragment

LEMMA FragmentIn ==
    ASSUME NEW u \in Units, NEW i \in 0 .. Parts[u] - 1
    PROVE  Fragment(u, i) \in Fragments
  BY DEF Fragment, Fragments

LEMMA HeaderType ==
    ASSUME NEW f \in Fragments
    PROVE  /\ Header(f).unit_id \in 0 .. IdMod - 1
           /\ Header(f).total_parts \in 0 .. TotalMod - 1
           /\ Header(f).part_index \in Nat
<1> USE AssemblerAssumption, FragmentParts DEF Header
<1>1. f.unit % IdMod \in 0 .. IdMod - 1
  BY ModRange
<1>2. Parts[f.unit] % TotalMod \in 0 .. TotalMod - 1
  BY ModRange
<1>3. f.part % IndexMod \in Nat
  BY ModRange
<1> QED
  BY <1>1, <1>2, <1>3

LEMMA AfterType ==
    ASSUME NEW f \in Fragments
    PROVE  After(f) \in Fragments \cup {Fragment(LastUnit + 1, 0)}
<1> USE AssemblerAssumption, FragmentParts
<1>1. CASE f.part + 1 < Parts[f.unit]
  BY <1>1, FragmentIn DEF After
<1>2. CASE ~(f.part + 1 < Parts[f.unit]) /\ f.unit < LastUnit
  <2>1. f.unit + 1 \in Units /\ 0 \in 0 .. Parts[f.unit + 1] - 1
    BY <1>2 DEF Units
  <2> QED
    BY <1>2, <2>1, FragmentIn DEF After
<1>3. CASE ~(f.part + 1 < Parts[f.unit]) /\ f.unit = LastUnit
  BY <1>3 DEF After
<1> QED
  BY <1>1, <1>2, <1>3 DEF Units
-----------------------------------------------------------------------------
(* The Assembler's fields agree, whatever arrives.                         *)

Filled(p, n) == {i \in 0 .. n - 1 : p[i] # {}}

\* An assembler state as Opened and Placed give it.
Sound(o) ==
    /\ o = [total |-> o.total, parts |-> o.parts, have |-> o.have]
    /\ o.total \in 0 .. TotalMod - 1
    /\ o.parts \in [0 .. o.total - 1 -> SUBSET Fragments]
    /\ o.have = Cardinality(Filled(o.parts, o.total))

\* The number of parts held lies between none and all of them.
LEMMA FilledCount ==
    ASSUME NEW n \in Nat, NEW p
    PROVE  /\ IsFiniteSet(Filled(p, n))
           /\ Cardinality(Filled(p, n)) \in 0 .. n
           /\ Cardinality(Filled(p, n)) = n => Filled(p, n) = 0 .. n - 1
<1>1. IsFiniteSet(0 .. n - 1) /\ Cardinality(0 .. n - 1) = n
  BY FS_Interval
<1>2. Filled(p, n) \in SUBSET (0 .. n - 1)
  BY DEF Filled
<1> QED
  BY <1>1, <1>2, FS_Subset, FS_CardinalityType

LEMMA OpenedSound ==
    ASSUME TypeOK, NEW f \in Fragments
    PROVE  Sound(Opened(Header(f)))
<1> DEFINE h == Header(f)
<1>1. CASE unit_id = {h.unit_id}
  <2>1. Opened(h) = [total |-> total_parts, parts |-> parts, have |-> have]
    BY <1>1 DEF Opened
  <2>2. /\ total_parts \in 0 .. TotalMod - 1
        /\ parts \in [0 .. total_parts - 1 -> SUBSET Fragments]
        /\ have = Cardinality(Filled(parts, total_parts))
    BY DEF TypeOK, Filled
  <2>3. Sound([total |-> total_parts, parts |-> parts, have |-> have])
    BY <2>2 DEF Sound
  <2> QED
    BY <2>1, <2>3
<1>2. CASE unit_id # {h.unit_id}
  <2> DEFINE e == [i \in 0 .. h.total_parts - 1 |-> {}]
  <2>1. Opened(h) = [total |-> h.total_parts, parts |-> e, have |-> 0]
    BY <1>2 DEF Opened
  <2>2. h.total_parts \in 0 .. TotalMod - 1
    BY HeaderType
  <2>3. Filled(e, h.total_parts) = {}
    BY DEF Filled
  <2>4. e \in [0 .. h.total_parts - 1 -> SUBSET Fragments]
    OBVIOUS
  <2>5. Sound([total |-> h.total_parts, parts |-> e, have |-> 0])
    <3> HIDE DEF e, h
    <3> QED
      BY <2>2, <2>3, <2>4, FS_EmptySet DEF Sound
  <2> QED
    BY <2>1, <2>5
<1> QED
  BY <1>1, <1>2

LEMMA PlacedSound ==
    ASSUME NEW o, Sound(o), NEW f \in Fragments, NEW h,
           h.part_index \in 0 .. o.total - 1
    PROVE  Sound(Placed(o, h, f)) /\ Placed(o, h, f).total = o.total
<1> DEFINE k == h.part_index
<1>1. CASE o.parts[k] # {}
  BY <1>1 DEF Placed
<1>2. CASE o.parts[k] = {}
  <2> DEFINE q == [o.parts EXCEPT ![k] = {f}]
  <2>1. Placed(o, h, f) = [total |-> o.total, parts |-> q, have |-> o.have + 1]
    BY <1>2 DEF Placed, Sound
  <2>2. q \in [0 .. o.total - 1 -> SUBSET Fragments]
    BY DEF Sound
  <2>3. Filled(q, o.total) = Filled(o.parts, o.total) \cup {k}
    BY DEF Filled, Sound
  <2>4. k \notin Filled(o.parts, o.total)
    BY <1>2 DEF Filled
  <2>5. o.total \in Nat
    BY AssemblerAssumption DEF Sound
  <2>6. Cardinality(Filled(q, o.total)) = o.have + 1
    BY <2>3, <2>4, <2>5, FilledCount, FS_AddElement DEF Sound
  <2> HIDE DEF q
  <2> QED
    BY <2>1, <2>2, <2>6 DEF Sound
<1> QED
  BY <1>1, <1>2

LEMMA TypeInit == Init => TypeOK
<1> SUFFICES ASSUME Init PROVE TypeOK
  OBVIOUS
<1> USE AssemblerAssumption DEF Init
<1>1. Fragment(0, 0) \in Fragments
  BY FragmentIn DEF Units
<1>2. 0 \in 0 .. TotalMod - 1
  OBVIOUS
<1>3. parts \in [0 .. total_parts - 1 -> SUBSET Fragments]
  OBVIOUS
<1>4. have = Cardinality({i \in 0 .. total_parts - 1 : parts[i] # {}})
  <2>1. {i \in 0 .. total_parts - 1 : parts[i] # {}} = {}
    OBVIOUS
  <2> QED
    BY <2>1, FS_EmptySet
<1> QED
  BY <1>1, <1>2, <1>3, <1>4 DEF TypeOK

\* Feeding a fragment leaves the Assembler's own fields in agreement.
LEMMA FeedSound ==
    ASSUME TypeOK, NEW f \in Fragments, Feed(f)
    PROVE  /\ unit_id' \in SUBSET (0 .. IdMod - 1)
           /\ Sound([total |-> total_parts', parts |-> parts', have |-> have'])
           /\ unit_id' # {} => have' < total_parts' \/ total_parts' = 0
           /\ dropped' \in BOOLEAN
<1> DEFINE h == Header(f)
           o == Opened(h)
           p == Placed(o, h, f)
<1>1. Sound(o)
  BY OpenedSound
<1>2. h.unit_id \in 0 .. IdMod - 1 /\ h.part_index \in Nat
  BY HeaderType
<1>3. dropped' = (dropped \/ Superseded(h))
  BY DEF Feed
<1>4. dropped' \in BOOLEAN
  BY <1>3 DEF TypeOK
<1>5. CASE /\ h.total_parts = 0 \/ h.part_index >= o.total
           /\ unit_id' = {h.unit_id}
           /\ total_parts' = o.total /\ parts' = o.parts /\ have' = o.have
  <2>1. o.have < o.total \/ o.total = 0
    <3>1. CASE unit_id = {h.unit_id}
      BY <3>1 DEF Opened, TypeOK
    <3>2. CASE unit_id # {h.unit_id}
      BY <3>2, <1>1, AssemblerAssumption DEF Opened, Sound
    <3> QED
      BY <3>1, <3>2
  <2> HIDE DEF h, o
  <2> QED
    BY <1>1, <1>2, <1>4, <1>5, <2>1 DEF Sound
<1>6. CASE /\ h.total_parts # 0 /\ h.part_index < o.total
           /\ total_parts' = p.total /\ parts' = p.parts /\ have' = p.have
           /\ IF p.have < p.total
              THEN unit_id' = {h.unit_id} /\ UNCHANGED out
              ELSE unit_id' = {} /\ out' = Append(out, p.parts)
  <2>1. h.part_index \in 0 .. o.total - 1
    BY <1>1, <1>2, <1>6, AssemblerAssumption DEF Sound
  <2>2. Sound(p)
    BY <1>1, <2>1, PlacedSound
  <2> HIDE DEF h, o, p
  <2> QED
    BY <1>2, <1>4, <1>6, <2>2 DEF Sound
<1> QED
  BY <1>5, <1>6 DEF Feed

LEMMA TypeStep ==
    ASSUME TypeOK, [Next]_vars
    PROVE  TypeOK'
<1> USE AssemblerAssumption
<1>1. CASE Send
  <2>1. next \in Fragments
    BY <1>1 DEF Send, TypeOK, Fragment
  <2>2. next' \in Fragments \cup {Fragment(LastUnit + 1, 0)}
    BY <1>1, <2>1, AfterType DEF Send
  <2>3. link' \in Links /\ net' \subseteq [frag : Fragments, copy : 1 .. link'.copies]
    BY <1>1, <2>1 DEF Send, TypeOK
  <2> QED
    BY <1>1, <2>2, <2>3 DEF Send, TypeOK, assembler
<1>2. ASSUME NEW d \in net, Lose(d) PROVE TypeOK'
  BY <1>2 DEF Lose, TypeOK, assembler
<1>3. ASSUME NEW d \in net, Receive(d) PROVE TypeOK'
  <2>1. d.frag \in Fragments /\ d.frag.unit \in Units
    BY FragmentParts DEF TypeOK
  <2>2. /\ unit_id' \in SUBSET (0 .. IdMod - 1)
        /\ Sound([total |-> total_parts', parts |-> parts', have |-> have'])
        /\ unit_id' # {} => have' < total_parts' \/ total_parts' = 0
        /\ dropped' \in BOOLEAN
    BY <1>3, <2>1, FeedSound DEF Receive
  <2>3. /\ total_parts' \in 0 .. TotalMod - 1
        /\ parts' \in [0 .. total_parts' - 1 -> SUBSET Fragments]
        /\ have' = Cardinality({i \in 0 .. total_parts' - 1 : parts'[i] # {}})
    BY <2>2 DEF Sound, Filled
  <2>4. /\ next' \in Fragments \cup {Fragment(LastUnit + 1, 0)}
        /\ link' \in Links
        /\ net' \subseteq [frag : Fragments, copy : 1 .. link'.copies]
        /\ arrived' \subseteq Fragments
        /\ last' \in SUBSET Units
    BY <1>3, <2>1 DEF Receive, TypeOK, Fragment
  <2> QED
    BY <2>2, <2>3, <2>4 DEF TypeOK
<1>4. CASE UNCHANGED vars
  BY <1>4 DEF TypeOK, vars, assembler
<1> QED
  BY <1>1, <1>2, <1>3, <1>4 DEF Next

\* On any link at all -- lossy, late, duplicating, silent for minutes -- the
\* Assembler's fields agree, and feed() indexes within `parts'.
THEOREM TypeCorrect == Spec => []TypeOK
  BY TypeInit, TypeStep, PTL DEF Spec

-----------------------------------------------------------------------------
(* Whole units.                                                            *)

\* The parts held are unit u's, each at the index its header names.
PartsOf(u, p) ==
    \A i \in 0 .. Parts[u] - 1 :
        \/ p[i] = {}
        \/ \E j \in 0 .. Parts[u] - 1 :
              p[i] = {Fragment(u, j)} /\ j % IndexMod = i

\* What is held belongs to the unit of the fragment that arrived last.
HeldIsLast ==
    unit_id # {} =>
        \E u \in Units : /\ last = {u}
                         /\ unit_id = {u % IdMod}
                         /\ total_parts = Parts[u]
                         /\ PartsOf(u, parts)

OutIsWhole == out \in Seq({Whole(u) : u \in Units})

WholeInv == TypeOK /\ HeldIsLast /\ OutIsWhole

\* Counting: all parts in place, each at an index below the number of parts,
\* and so none of them at an index that wrapped.
LEMMA FullMeansWhole ==
    ASSUME NEW u \in Units, NEW o, Sound(o), o.total = Parts[u],
           PartsOf(u, o.parts), ~(o.have < o.total)
    PROVE  o.parts = Whole(u) /\ o.have = o.total
<1> USE AssemblerAssumption
<1>1. o.total \in Nat \ {0}
  OBVIOUS
<1>2. Filled(o.parts, o.total) = 0 .. o.total - 1 /\ o.have = o.total
  BY <1>1, FilledCount DEF Sound
<1>3. \A i \in 0 .. Parts[u] - 1 :
         \E j \in 0 .. Parts[u] - 1 :
            o.parts[i] = {Fragment(u, j)} /\ j % IndexMod = i
  BY <1>2 DEF PartsOf, Filled
<1>4. Parts[u] <= IndexMod
  <2>1. PICK j \in 0 .. Parts[u] - 1 : j % IndexMod = Parts[u] - 1
    BY <1>1, <1>3
  <2>2. j % IndexMod \in 0 .. IndexMod - 1
    BY ModRange
  <2> QED
    BY <1>1, <2>1, <2>2
<1>5. \A j \in 0 .. Parts[u] - 1 : j % IndexMod = j
  BY <1>4, ModSmall
<1>6. \A i \in 0 .. Parts[u] - 1 : o.parts[i] = {Fragment(u, i)}
  BY <1>3, <1>5
<1>7. o.parts \in [0 .. Parts[u] - 1 -> SUBSET Fragments]
  BY DEF Sound
<1> QED
  BY <1>2, <1>6, <1>7 DEF Whole

\* Without a wrap, a fragment opens or finds the state of its own unit.
LEMMA OpenedIsOwn ==
    ASSUME CountsFit, NoWrap, WholeInv, NEW d \in net, Receive(d)
    PROVE  LET u == d.frag.unit
               o == Opened(Header(d.frag))
           IN  o.total = Parts[u] /\ PartsOf(u, o.parts)
<1> USE AssemblerAssumption
<1> DEFINE f == d.frag
           v == f.unit
           h == Header(f)
           o == Opened(h)
<1>1. f \in Fragments /\ v \in Units /\ v \in Nat /\ Parts[v] \in Nat \ {0}
  BY FragmentParts DEF WholeInv, TypeOK
<1>2. h.unit_id = v % IdMod /\ h.total_parts = Parts[v]
  <2>1. Parts[v] % TotalMod = Parts[v]
    BY <1>1, ModSmall DEF CountsFit
  <2> QED
    BY <2>1 DEF Header
<1>3. CASE unit_id = {h.unit_id}
  <2>1. PICK u \in Units : /\ last = {u}
                           /\ unit_id = {u % IdMod}
                           /\ total_parts = Parts[u]
                           /\ PartsOf(u, parts)
    BY <1>3 DEF WholeInv, HeldIsLast
  <2>2. u % IdMod = v % IdMod
    BY <1>2, <1>3, <2>1
  <2>3. v - u < IdMod /\ u - v < IdMod
    <3>1. v - u < Span /\ u - v < Span
      BY <2>1 DEF Receive
    <3> QED
      BY <1>1, <3>1 DEF NoWrap, Units
  <2>4. u = v
    <3>1. u \in Nat /\ IdMod \in Nat \ {0}
      BY DEF Units
    <3> HIDE DEF v
    <3> QED
      BY <1>1, <2>2, <2>3, <3>1, ModClose
  <2>5. o.total = total_parts /\ o.parts = parts
    BY <1>3 DEF Opened
  <2> QED
    BY <2>1, <2>4, <2>5
<1>4. CASE unit_id # {h.unit_id}
  <2>1. /\ o.total = h.total_parts
        /\ o.parts = [i \in 0 .. h.total_parts - 1 |-> {}]
    BY <1>4 DEF Opened
  <2>2. PartsOf(v, o.parts)
    <3> HIDE DEF o, h, v
    <3> QED
      BY <1>2, <2>1 DEF PartsOf
  <2> QED
    BY <1>2, <2>1, <2>2
<1> QED
  BY <1>3, <1>4

LEMMA WholeInit == Init => WholeInv
<1> SUFFICES ASSUME Init PROVE WholeInv
  OBVIOUS
<1>1. HeldIsLast /\ OutIsWhole
  BY DEF Init, HeldIsLast, OutIsWhole
<1> QED
  BY <1>1, TypeInit DEF WholeInv

\* A fragment leaves the assembler with parts of its own unit only, or
\* completes that unit.
LEMMA ReceiveWhole ==
    ASSUME CountsFit, NoWrap, WholeInv, NEW d \in net, Receive(d)
    PROVE  HeldIsLast' /\ OutIsWhole'
<1> DEFINE f == d.frag
           u == f.unit
           h == Header(f)
           o == Opened(h)
           p == Placed(o, h, f)
<1>1. f \in Fragments /\ u \in Units /\ f.part \in 0 .. Parts[u] - 1
      /\ f = Fragment(u, f.part)
  BY FragmentParts DEF WholeInv, TypeOK
<1>2. Sound(o)
  BY <1>1, OpenedSound DEF WholeInv
<1>3. o.total = Parts[u] /\ PartsOf(u, o.parts)
  BY OpenedIsOwn
<1>4. last' = {u} /\ h.unit_id = u % IdMod
  BY DEF Receive, Header
<1>5. CASE /\ unit_id' = {h.unit_id}
           /\ total_parts' = o.total /\ parts' = o.parts
           /\ UNCHANGED out
  <2>1. HeldIsLast'
    <3> HIDE DEF o, h, u
    <3> QED
      BY <1>1, <1>3, <1>4, <1>5 DEF HeldIsLast
  <2>2. OutIsWhole'
    BY <1>5 DEF OutIsWhole, WholeInv
  <2> QED
    BY <2>1, <2>2
<1>6. CASE /\ h.part_index < o.total
           /\ total_parts' = p.total /\ parts' = p.parts /\ have' = p.have
           /\ IF p.have < p.total
              THEN unit_id' = {h.unit_id} /\ UNCHANGED out
              ELSE unit_id' = {} /\ out' = Append(out, p.parts)
  <2>1. h.part_index \in 0 .. o.total - 1 /\ h.part_index = f.part % IndexMod
    BY <1>1, <1>2, <1>6, HeaderType, AssemblerAssumption DEF Sound, Header
  <2>2. Sound(p) /\ p.total = o.total
    BY <1>1, <1>2, <2>1, PlacedSound
  <2>3. PartsOf(u, p.parts)
    <3>1. CASE o.parts[h.part_index] # {}
      BY <1>3, <3>1 DEF Placed
    <3>2. CASE o.parts[h.part_index] = {}
      <4>1. p.parts = [o.parts EXCEPT ![h.part_index] = {f}]
        BY <1>2, <3>2 DEF Placed, Sound
      <4>2. o.parts \in [0 .. Parts[u] - 1 -> SUBSET Fragments]
        BY <1>2, <1>3 DEF Sound
      <4> HIDE DEF p, o, h, u, f
      <4> QED
        BY <1>1, <1>3, <2>1, <4>1, <4>2 DEF PartsOf
    <3> QED
      BY <3>1, <3>2
  <2>4. CASE p.have < p.total
    <3>1. HeldIsLast'
      <4> HIDE DEF p, o, h, u
      <4> QED
        BY <1>1, <1>3, <1>4, <1>6, <2>2, <2>3, <2>4 DEF HeldIsLast
    <3>2. OutIsWhole'
      BY <1>6, <2>4 DEF OutIsWhole, WholeInv
    <3> QED
      BY <3>1, <3>2
  <2>5. CASE ~(p.have < p.total)
    <3>1. p.parts = Whole(u)
      <4> HIDE DEF p, o, u
      <4> QED
        BY <1>1, <1>3, <2>2, <2>3, <2>5, FullMeansWhole
    <3>2. out' = Append(out, Whole(u)) /\ unit_id' = {}
      BY <1>6, <2>5, <3>1
    <3>3. HeldIsLast'
      BY <3>2 DEF HeldIsLast
    <3>4. OutIsWhole'
      <4> DEFINE W == {Whole(v) : v \in Units}
      <4>1. Whole(u) \in W /\ out \in Seq(W)
        BY <1>1 DEF WholeInv, OutIsWhole
      <4>2. Append(out, Whole(u)) \in Seq(W)
        <5> HIDE DEF W
        <5> QED
          BY <4>1
      <4> QED
        BY <3>2, <4>2 DEF OutIsWhole
    <3> QED
      BY <3>3, <3>4
  <2> QED
    BY <2>4, <2>5
<1>7. Feed(f)
  BY DEF Receive
<1>8. \/ /\ unit_id' = {h.unit_id}
         /\ total_parts' = o.total /\ parts' = o.parts
         /\ UNCHANGED out
      \/ /\ h.part_index < o.total
         /\ total_parts' = p.total /\ parts' = p.parts /\ have' = p.have
         /\ IF p.have < p.total
            THEN unit_id' = {h.unit_id} /\ UNCHANGED out
            ELSE unit_id' = {} /\ out' = Append(out, p.parts)
  BY <1>7 DEF Feed
<1> QED
  BY <1>5, <1>6, <1>8

LEMMA WholeStep ==
    ASSUME CountsFit, NoWrap, WholeInv, [Next]_vars
    PROVE  WholeInv'
<1>1. TypeOK'
  BY TypeStep DEF WholeInv
<1>2. CASE \E d \in net : Receive(d)
  BY <1>1, <1>2, ReceiveWhole DEF WholeInv
<1>3. CASE Send \/ (\E d \in net : Lose(d)) \/ UNCHANGED vars
  <2>1. UNCHANGED <<last, assembler>>
    BY <1>3 DEF Send, Lose, vars
  <2> QED
    BY <1>1, <2>1 DEF WholeInv, HeldIsLast, OutIsWhole, assembler
<1> QED
  BY <1>2, <1>3 DEF Next

\* On a link that loses, repeats and displaces fragments, but is never silent
\* for as long as unit_id takes to come round, every unit that reaches the
\* sink is one unit, complete and in order.
THEOREM UnitsAreWhole ==
    ASSUME CountsFit, NoWrap
    PROVE  Spec => []EmittedUnitsAreWhole
<1>1. WholeInv => EmittedUnitsAreWhole
  BY DEF WholeInv, OutIsWhole, EmittedUnitsAreWhole
<1>2. WholeInv /\ [Next]_vars => WholeInv'
  BY WholeStep
<1> QED
  BY <1>1, <1>2, WholeInit, PTL DEF Spec

-----------------------------------------------------------------------------
(* The order fragments are sent in.                                        *)

LEMMA BeforeTrans ==
    ASSUME NEW f, NEW g, NEW h,
           f.unit \in Nat, g.unit \in Nat, h.unit \in Nat,
           f.part \in Nat, g.part \in Nat, h.part \in Nat,
           Before(f, g), Before(g, h)
    PROVE  Before(f, h)
  BY DEF Before

LEMMA BeforeTotal ==
    ASSUME NEW f \in Fragments, NEW g \in Fragments
    PROVE  /\ f = g \/ Before(f, g) \/ Before(g, f)
           /\ ~Before(f, f)
<1>1. /\ f.unit \in Nat /\ f.part \in Nat /\ f = Fragment(f.unit, f.part)
      /\ g.unit \in Nat /\ g.part \in Nat /\ g = Fragment(g.unit, g.part)
  BY FragmentParts
<1> QED
  BY <1>1 DEF Before

LEMMA BeforeAfter ==
    ASSUME NEW f \in Fragments
    PROVE  /\ Before(f, After(f))
           /\ After(f).unit \in Nat /\ After(f).part \in Nat
<1>1. f.unit \in Nat /\ f.part \in Nat
  BY FragmentParts
<1> QED
  BY <1>1 DEF Before, After, Fragment

-----------------------------------------------------------------------------
\* Nothing is on the wire twice, what has arrived was sent before what is
\* still on it, and both before what is sent next.
Ordered ==
    /\ \A d \in net : d.copy = 1 /\ Before(d.frag, next)
    /\ \A g \in arrived : Before(g, next)
    /\ \A g \in arrived, d \in net : Before(g, d.frag)

\* The parts held have arrived, and so have all parts of a unit emitted.
Arrived(u) == \A i \in 0 .. Parts[u] - 1 : Fragment(u, i) \in arrived

HeldHasArrived == \A i \in 0 .. total_parts - 1 : parts[i] \subseteq arrived

OutHasArrived ==
    \A i \in 1 .. Len(out) : \E u \in Units : out[i] = Whole(u) /\ Arrived(u)

StreamInv ==
    /\ WholeInv
    /\ Orderly => Ordered /\ HeldHasArrived /\ OutHasArrived

LEMMA StreamInit == Init => StreamInv
<1> SUFFICES ASSUME Init PROVE StreamInv
  OBVIOUS
<1>1. Ordered /\ HeldHasArrived /\ OutHasArrived
  BY DEF Init, Ordered, HeldHasArrived, OutHasArrived
<1> QED
  BY <1>1, WholeInit DEF StreamInv

\* The type of what travels.
LEMMA TravelTypes ==
    ASSUME TypeOK
    PROVE  /\ \A d \in net : d.frag \in Fragments
           /\ arrived \subseteq Fragments
           /\ next.unit \in Nat /\ next.part \in Nat
<1>1. Fragment(LastUnit + 1, 0).unit \in Nat /\ Fragment(LastUnit + 1, 0).part \in Nat
  BY AssemblerAssumption DEF Fragment
<1>2. next \in Fragments => next.unit \in Nat /\ next.part \in Nat
  BY FragmentParts
<1> QED
  BY <1>1, <1>2 DEF TypeOK

LEMMA OrderedSend ==
    ASSUME StreamInv, Orderly, Send
    PROVE  Ordered'
<1>1. TypeOK /\ Ordered
  BY DEF StreamInv, WholeInv
<1>2. next \in Fragments
  BY <1>1, AssemblerAssumption DEF Send, TypeOK, Fragment
<1>3. next' = After(next) /\ Before(next, next')
      /\ next'.unit \in Nat /\ next'.part \in Nat
  BY <1>2, BeforeAfter DEF Send
<1>4. net' = net \cup {[frag |-> next, copy |-> 1]}
  <2>1. PICK n \in 1 .. link.copies :
           net' = net \cup {[frag |-> next, copy |-> c] : c \in 1 .. n}
    BY DEF Send
  <2>2. n = 1 /\ 1 .. n = {1}
    BY <2>1 DEF Orderly
  <2> QED
    BY <2>1, <2>2
<1>5. \A f \in Fragments : Before(f, next) => Before(f, next')
  <2>1. next.unit \in Nat /\ next.part \in Nat
    BY <1>2, FragmentParts
  <2> SUFFICES ASSUME NEW f \in Fragments, Before(f, next) PROVE Before(f, next')
    OBVIOUS
  <2>2. f.unit \in Nat /\ f.part \in Nat
    BY FragmentParts
  <2> HIDE DEF Before
  <2> QED
    BY <1>3, <2>1, <2>2, BeforeTrans
<1>6. arrived' = arrived
  BY DEF Send
<1> QED
  BY <1>1, <1>3, <1>4, <1>5, <1>6, TravelTypes DEF Ordered

LEMMA OrderedReceive ==
    ASSUME StreamInv, Orderly, NEW d \in net, Receive(d)
    PROVE  /\ Ordered'
           /\ d.frag \notin arrived
<1>1. TypeOK /\ Ordered
  BY DEF StreamInv, WholeInv
<1>2. /\ net' = net \ {d} /\ arrived' = arrived \cup {d.frag}
      /\ UNCHANGED next
  BY DEF Receive
<1>3. \A e \in net : ~Before(e.frag, d.frag)
  BY DEF Receive, Orderly
<1>4. ASSUME NEW e \in net \ {d} PROVE Before(d.frag, e.frag)
  <2>1. d \in [frag : Fragments, copy : 1 .. link.copies]
        /\ e \in [frag : Fragments, copy : 1 .. link.copies]
    BY <1>1 DEF TypeOK
  <2>2. d.copy = 1 /\ e.copy = 1
    BY <1>1 DEF Ordered
  <2>3. d.frag # e.frag
    BY <2>1, <2>2
  <2> QED
    BY <1>3, <2>1, <2>3, BeforeTotal
<1>5. d.frag \notin arrived
  <2>1. d.frag \in Fragments
    BY <1>1, TravelTypes
  <2> QED
    BY <1>1, <2>1, BeforeTotal DEF Ordered
<1> QED
  BY <1>1, <1>2, <1>4, <1>5 DEF Ordered

\* What feeding a fragment holds and emits has arrived.
LEMMA FeedArrived ==
    ASSUME CountsFit, NoWrap, StreamInv, Orderly, NEW d \in net, Receive(d)
    PROVE  /\ HeldHasArrived'
           /\ OutHasArrived'
           /\ \/ UNCHANGED out
              \/ \E u \in Units : /\ out' = Append(out, Whole(u))
                                  /\ d.frag.unit = u
                                  /\ Arrived(u)'
<1> DEFINE f == d.frag
           u == f.unit
           h == Header(f)
           o == Opened(h)
           p == Placed(o, h, f)
<1>1. /\ WholeInv /\ TypeOK /\ HeldHasArrived /\ OutHasArrived
  BY DEF StreamInv, WholeInv
<1>2. f \in Fragments /\ u \in Units /\ Parts[u] \in Nat \ {0}
  BY <1>1, FragmentParts DEF TypeOK
<1>3. arrived' = arrived \cup {f}
  BY DEF Receive
<1>4. Sound(o) /\ o.total = Parts[u] /\ PartsOf(u, o.parts)
  BY <1>1, <1>2, OpenedSound, OpenedIsOwn
<1>5. \A i \in 0 .. o.total - 1 : o.parts[i] \subseteq arrived
  <2>1. CASE unit_id = {h.unit_id}
    BY <1>1, <2>1 DEF Opened, HeldHasArrived
  <2>2. CASE unit_id # {h.unit_id}
    BY <2>2 DEF Opened
  <2> QED
    BY <2>1, <2>2
<1>6. OutHasArrived' \/ out' # out
  BY <1>1, <1>3 DEF OutHasArrived, Arrived
<1>7. CASE total_parts' = o.total /\ parts' = o.parts /\ UNCHANGED out
  <2>1. HeldHasArrived'
    <3> HIDE DEF o
    <3> QED
      BY <1>3, <1>5, <1>7 DEF HeldHasArrived
  <2> QED
    BY <1>6, <1>7, <2>1
<1>8. CASE /\ h.part_index < o.total
           /\ total_parts' = p.total /\ parts' = p.parts /\ have' = p.have
           /\ IF p.have < p.total
              THEN unit_id' = {h.unit_id} /\ UNCHANGED out
              ELSE unit_id' = {} /\ out' = Append(out, p.parts)
  <2>1. h.part_index \in 0 .. o.total - 1
    BY <1>2, <1>4, <1>8, HeaderType, AssemblerAssumption DEF Sound
  <2>2. Sound(p) /\ p.total = o.total
    BY <1>2, <1>4, <2>1, PlacedSound
  <2>3. \A i \in 0 .. p.total - 1 : p.parts[i] \subseteq arrived'
    <3>1. CASE o.parts[h.part_index] # {}
      BY <1>3, <1>5, <3>1 DEF Placed
    <3>2. CASE o.parts[h.part_index] = {}
      <4>1. p.parts = [o.parts EXCEPT ![h.part_index] = {f}] /\ p.total = o.total
        BY <1>4, <3>2 DEF Placed, Sound
      <4>2. o.parts \in [0 .. o.total - 1 -> SUBSET Fragments]
        BY <1>4 DEF Sound
      <4> HIDE DEF p, o, h, f
      <4> QED
        BY <1>3, <1>5, <2>1, <4>1, <4>2
    <3> QED
      BY <3>1, <3>2
  <2>4. HeldHasArrived'
    <3> HIDE DEF p
    <3> QED
      BY <1>8, <2>3 DEF HeldHasArrived
  <2>5. CASE p.have < p.total
    BY <1>6, <1>8, <2>4, <2>5
  <2>6. CASE ~(p.have < p.total)
    <3>1. out' = Append(out, p.parts) /\ unit_id' = {}
      BY <1>8, <2>6
    <3>2. PartsOf(u, p.parts)
      <4>1. CASE o.parts[h.part_index] # {}
        BY <1>4, <4>1 DEF Placed
      <4>2. CASE o.parts[h.part_index] = {}
        <5>1. p.parts = [o.parts EXCEPT ![h.part_index] = {f}]
          BY <1>4, <4>2 DEF Placed, Sound
        <5>2. o.parts \in [0 .. Parts[u] - 1 -> SUBSET Fragments]
          BY <1>4 DEF Sound
        <5>3. /\ f.part \in 0 .. Parts[u] - 1 /\ f = Fragment(u, f.part)
              /\ h.part_index = f.part % IndexMod
          BY <1>2, FragmentParts DEF Header
        <5> HIDE DEF p, o, h, u, f
        <5> QED
          BY <1>4, <2>1, <5>1, <5>2, <5>3 DEF PartsOf
      <4> QED
        BY <4>1, <4>2
    <3>3. p.parts = Whole(u)
      <4> HIDE DEF p, o, u
      <4> QED
        BY <1>2, <1>4, <2>2, <2>6, <3>2, FullMeansWhole
    <3>4. Arrived(u)'
      <4>1. \A i \in 0 .. Parts[u] - 1 : p.parts[i] = {Fragment(u, i)}
        BY <3>3 DEF Whole
      <4> HIDE DEF p, o, u, f, h
      <4> QED
        BY <1>4, <2>2, <2>3, <4>1 DEF Arrived
    <3>5. out' = Append(out, Whole(u))
      BY <3>1, <3>3
    <3>6. OutHasArrived'
      <4>1. out \in Seq({Whole(v) : v \in Units})
        BY <1>1 DEF WholeInv, OutIsWhole
      <4>2. /\ Len(out') = Len(out) + 1 /\ Len(out) \in Nat
            /\ \A i \in 1 .. Len(out) : out'[i] = out[i]
            /\ out'[Len(out) + 1] = Whole(u)
        <5> HIDE DEF u
        <5> QED
          BY <3>5, <4>1
      <4>3. \A v : Arrived(v) => Arrived(v)'
        BY <1>3 DEF Arrived
      <4>4. ASSUME NEW i \in 1 .. Len(out')
            PROVE \E v \in Units : out'[i] = Whole(v) /\ Arrived(v)'
        <5>1. CASE i = Len(out) + 1
          BY <1>2, <3>4, <4>2, <5>1
        <5>2. CASE i \in 1 .. Len(out)
          BY <1>1, <4>2, <4>3, <5>2 DEF OutHasArrived
        <5> QED
          BY <4>2, <5>1, <5>2
      <4> QED
        BY <4>4 DEF OutHasArrived, Arrived
    <3> QED
      BY <1>2, <2>4, <3>4, <3>5, <3>6
  <2> QED
    BY <2>5, <2>6
<1>9. Feed(f)
  BY DEF Receive
<1> QED
  BY <1>7, <1>8, <1>9 DEF Feed

LEMMA StreamStep ==
    ASSUME CountsFit, NoWrap, StreamInv, [Next]_vars
    PROVE  StreamInv'
<1>1. WholeInv'
  BY WholeStep DEF StreamInv
<1>2. link' = link
  BY DEF Next, Send, Lose, Receive, vars
<1>3. SUFFICES ASSUME Orderly PROVE (Ordered /\ HeldHasArrived /\ OutHasArrived)'
  BY <1>1, <1>2 DEF StreamInv, Orderly
<1>4. CASE Send
  <2>1. HeldHasArrived' /\ OutHasArrived'
    BY <1>3, <1>4 DEF Send, assembler, StreamInv, HeldHasArrived, OutHasArrived, Arrived
  <2> QED
    BY <1>3, <1>4, <2>1, OrderedSend
<1>5. ASSUME NEW d \in net, Lose(d)
      PROVE  (Ordered /\ HeldHasArrived /\ OutHasArrived)'
  BY <1>3, <1>5
  DEF Lose, assembler, StreamInv, Ordered, HeldHasArrived, OutHasArrived, Arrived
<1>6. ASSUME NEW d \in net, Receive(d)
      PROVE  (Ordered /\ HeldHasArrived /\ OutHasArrived)'
  BY <1>3, <1>6, OrderedReceive, FeedArrived
<1>7. CASE UNCHANGED vars
  BY <1>3, <1>7
  DEF vars, assembler, StreamInv, Ordered, HeldHasArrived, OutHasArrived, Arrived
<1> QED
  BY <1>4, <1>5, <1>6, <1>7 DEF Next

-----------------------------------------------------------------------------
\* A step of the assembler is a step of the promised stream, or none of it.
LEMMA StreamSteps ==
    ASSUME CountsFit, NoWrap, StreamInv, [Next]_vars
    PROVE  [Stream!Next]_(IF Orderly THEN out ELSE <<>>)
<1>1. Orderly' = Orderly
  BY DEF Next, Send, Lose, Receive, vars, Orderly
<1>2. CASE ~Orderly \/ UNCHANGED out
  BY <1>1, <1>2
<1>3. ASSUME Orderly, out' # out PROVE Stream!Next
  <2>1. PICK d \in net : Receive(d)
    BY <1>3 DEF Next, Send, Lose, vars, assembler
  <2>2. PICK u \in Units : out' = Append(out, Whole(u)) /\ d.frag.unit = u
    BY <1>3, <2>1, FeedArrived
  <2>3. \A i \in 1 .. Len(out) : \E v \in Units : v < u /\ out[i] = Whole(v)
    <3> SUFFICES ASSUME NEW i \in 1 .. Len(out)
                 PROVE \E v \in Units : v < u /\ out[i] = Whole(v)
      OBVIOUS
    <3>1. PICK v \in Units : out[i] = Whole(v) /\ Arrived(v)
      BY <1>3 DEF StreamInv, OutHasArrived
    <3>2. d.frag \in Fragments /\ d.frag = Fragment(u, d.frag.part)
          /\ d.frag.part \in Nat /\ d.frag.part \in 0 .. Parts[u] - 1
      BY <2>2, FragmentParts, TravelTypes DEF StreamInv, WholeInv
    <3>3. v # u
      BY <1>3, <2>1, <3>1, <3>2, OrderedReceive DEF Arrived
    <3>4. Parts[v] \in Nat \ {0} /\ u \in Nat /\ v \in Nat
      BY AssemblerAssumption DEF Units
    <3>5. Before(Fragment(v, 0), d.frag)
      BY <1>3, <3>1, <3>4 DEF StreamInv, Ordered, Arrived
    <3>6. v < u
      BY <2>2, <3>3, <3>4, <3>5 DEF Before, Fragment
    <3> QED
      BY <3>1, <3>6
  <2>4. Stream!Later(u)
    BY <1>3, <2>3 DEF Stream!Later, Stream!Units, Units
  <2>5. Stream!Hand(u)
    BY <1>1, <1>3, <2>2, <2>4 DEF Stream!Hand
  <2>6. u \in Stream!Units
    BY <2>2 DEF Stream!Units, Units
  <2> QED
    BY <2>5, <2>6 DEF Stream!Next
<1> QED
  BY <1>2, <1>3

\* On a link that only loses datagrams, the goggles-net reassembly gives the
\* sink what UnitStream promises: whole units, in order, each at most once.
THEOREM StreamImplemented ==
    ASSUME CountsFit, NoWrap
    PROVE  Spec => StreamKept
<1>1. Init => Stream!Init
  BY DEF Init, Stream!Init
<1>2. StreamInv /\ [Next]_vars => StreamInv'
  BY StreamStep
<1>3. StreamInv /\ [Next]_vars => [Stream!Next]_(IF Orderly THEN out ELSE <<>>)
  BY StreamSteps
<1> QED
  BY <1>1, <1>2, <1>3, StreamInit, PTL DEF Spec, StreamKept, Stream!Spec

-----------------------------------------------------------------------------
(* Loss elsewhere never costs a unit that came through.                    *)

Countable(u) == Parts[u] <= IndexMod
Emitted(u) == \E i \in 1 .. Len(out) : out[i] = Whole(u)

\* `last' is the unit of the latest fragment, and none is later.
LastIsLatest ==
    /\ \A g \in arrived, u \in last : g.unit <= u
    /\ \A u \in last : \E g \in arrived : g.unit = u
    /\ last = {} => arrived = {}

\* While its unit is open, a part that has arrived is held ...
ArrivedIsHeld ==
    unit_id # {} => \A u \in last : Countable(u) =>
        \A i \in 0 .. Parts[u] - 1 : Fragment(u, i) \in arrived => parts[i] # {}

\* ... and when it no longer is, the unit was emitted; so was every unit
\* before it that arrived whole.
ClosedIsEmitted ==
    /\ unit_id = {} => \A u \in last : Countable(u) => Emitted(u)
    /\ \A u \in Units \ last : Countable(u) /\ Arrived(u) => Emitted(u)

EmitInv ==
    /\ StreamInv
    /\ Orderly => LastIsLatest /\ ArrivedIsHeld /\ ClosedIsEmitted

\* A unit whose parts are all held is not open any more.
LEMMA OpenIsPartial ==
    ASSUME WholeInv, unit_id # {}, NEW u \in last,
           \A i \in 0 .. Parts[u] - 1 : parts[i] # {}
    PROVE  FALSE
<1>1. /\ TypeOK /\ total_parts = Parts[u] /\ u \in Units
  BY DEF WholeInv, HeldIsLast
<1>2. Parts[u] \in Nat \ {0}
  BY <1>1, AssemblerAssumption
<1>3. Filled(parts, total_parts) = 0 .. total_parts - 1
  BY <1>1 DEF Filled
<1>4. have = total_parts
  <2>1. Cardinality(0 .. total_parts - 1) = total_parts
    BY <1>1, <1>2, FS_Interval
  <2> QED
    BY <1>1, <1>3, <2>1 DEF TypeOK, Filled
<1>5. have < total_parts \/ total_parts = 0
  BY <1>1 DEF TypeOK
<1> QED
  BY <1>1, <1>2, <1>4, <1>5

\* An index below the modulus is the header's own.
LEMMA CountableIndex ==
    ASSUME NEW f \in Fragments, Countable(f.unit)
    PROVE  Header(f).part_index = f.part
  BY FragmentParts, ModSmall, AssemblerAssumption DEF Header, Countable

LEMMA EmittedStays ==
    ASSUME CountsFit, NoWrap, StreamInv, Orderly, NEW d \in net, Receive(d),
           NEW u \in Units, Emitted(u)
    PROVE  Emitted(u)'
<1>1. CASE UNCHANGED out
  BY <1>1 DEF Emitted
<1>2. CASE \E v \in Units : out' = Append(out, Whole(v))
  <2>1. PICK v \in Units : out' = Append(out, Whole(v))
    BY <1>2
  <2>2. out \in Seq({Whole(w) : w \in Units})
    BY DEF StreamInv, WholeInv, OutIsWhole
  <2>3. Len(out') = Len(out) + 1 /\ Len(out) \in Nat
        /\ \A i \in 1 .. Len(out) : out'[i] = out[i]
    BY <2>1, <2>2
  <2> QED
    BY <2>3 DEF Emitted
<1> QED
  BY <1>1, <1>2, FeedArrived

\* What feeding a countable fragment does, told apart.
LEMMA FeedCountable ==
    ASSUME CountsFit, NoWrap, StreamInv, Orderly, NEW d \in net, Receive(d),
           Countable(d.frag.unit)
    PROVE  LET u == d.frag.unit
               o == Opened(Header(d.frag))
           IN  \/ /\ unit_id' # {}
                  /\ \A i \in 0 .. Parts[u] - 1 :
                        i = d.frag.part \/ o.parts[i] # {} => parts'[i] # {}
               \/ unit_id' = {} /\ Emitted(u)'
<1> DEFINE f == d.frag
           u == f.unit
           h == Header(f)
           o == Opened(h)
           p == Placed(o, h, f)
<1>1. WholeInv /\ TypeOK
  BY DEF StreamInv, WholeInv
<1>2. /\ f \in Fragments /\ u \in Units /\ Parts[u] \in Nat \ {0}
      /\ f.part \in 0 .. Parts[u] - 1
  BY <1>1, FragmentParts DEF TypeOK
<1>3. Sound(o) /\ o.total = Parts[u] /\ PartsOf(u, o.parts)
  BY <1>1, <1>2, OpenedSound, OpenedIsOwn
<1>4. h.part_index = f.part /\ h.total_parts = Parts[u]
  <2>1. Parts[u] % TotalMod = Parts[u]
    BY <1>2, ModSmall, AssemblerAssumption DEF CountsFit
  <2> QED
    BY <1>2, <2>1, CountableIndex DEF Header
<1>5. /\ parts' = p.parts
      /\ IF p.have < p.total
         THEN unit_id' = {h.unit_id} /\ UNCHANGED out
         ELSE unit_id' = {} /\ out' = Append(out, p.parts)
  <2>1. Feed(f)
    BY DEF Receive
  <2>2. ~(h.total_parts = 0 \/ h.part_index >= o.total)
    <3> HIDE DEF o, h, u
    <3> QED
      BY <1>2, <1>3, <1>4
  <2> QED
    BY <2>1, <2>2 DEF Feed
<1>6. ASSUME NEW i \in 0 .. Parts[u] - 1, i = f.part \/ o.parts[i] # {}
      PROVE  p.parts[i] # {}
  <2>1. CASE o.parts[h.part_index] # {}
    BY <1>4, <1>6, <2>1 DEF Placed
  <2>2. CASE o.parts[h.part_index] = {}
    <3>1. p.parts = [o.parts EXCEPT ![h.part_index] = {f}]
      BY <1>3, <2>2 DEF Placed, Sound
    <3>2. o.parts \in [0 .. Parts[u] - 1 -> SUBSET Fragments]
      BY <1>3 DEF Sound
    <3> HIDE DEF p, o, h, u, f
    <3> QED
      BY <1>4, <1>6, <3>1, <3>2
  <2> QED
    BY <2>1, <2>2
<1>7. CASE p.have < p.total
  BY <1>5, <1>6, <1>7
<1>8. CASE ~(p.have < p.total)
  <2>1. unit_id' = {} /\ out' = Append(out, p.parts)
    BY <1>5, <1>8
  <2>2. out \in Seq({Whole(w) : w \in Units})
    BY <1>1 DEF WholeInv, OutIsWhole
  <2>3. out' # out /\ Len(out') = Len(out) + 1 /\ Len(out) \in Nat
        /\ out'[Len(out) + 1] = p.parts
    <3> HIDE DEF p
    <3> QED
      BY <2>1, <2>2
  <2>4. out' = Append(out, Whole(u))
    BY <2>3, FeedArrived
  <2>5. out'[Len(out) + 1] = Whole(u)
    <3> HIDE DEF p, u
    <3> QED
      BY <2>2, <2>4
  <2> QED
    BY <2>1, <2>3, <2>5 DEF Emitted
<1> QED
  BY <1>7, <1>8

LEMMA EmitReceive ==
    ASSUME CountsFit, NoWrap, EmitInv, Orderly, NEW d \in net, Receive(d)
    PROVE  (LastIsLatest /\ ArrivedIsHeld /\ ClosedIsEmitted)'
<1> DEFINE f == d.frag
           u == f.unit
           h == Header(f)
           o == Opened(h)
<1>1. /\ StreamInv /\ WholeInv /\ TypeOK
      /\ LastIsLatest /\ ArrivedIsHeld /\ ClosedIsEmitted
  BY DEF EmitInv, StreamInv, WholeInv
<1>2. /\ f \in Fragments /\ u \in Units /\ u \in Nat /\ Parts[u] \in Nat \ {0}
      /\ f = Fragment(u, f.part) /\ f.part \in 0 .. Parts[u] - 1
  BY <1>1, FragmentParts DEF TypeOK
<1>3. arrived' = arrived \cup {f} /\ last' = {u}
  BY DEF Receive
<1>4. f \notin arrived /\ \A g \in arrived : Before(g, f)
  BY <1>1, OrderedReceive DEF StreamInv, Ordered
<1>5. \A g \in arrived : g \in Fragments /\ g.unit \in Nat /\ g.unit <= u
  BY <1>1, <1>2, <1>4, FragmentParts, TravelTypes DEF Before
<1>6. LastIsLatest'
  <2> HIDE DEF u, f
  <2> QED
    BY <1>2, <1>3, <1>5 DEF LastIsLatest, u
<1>7. Countable(u) /\ unit_id = {h.unit_id} => last = {u}
  <2> SUFFICES ASSUME unit_id = {h.unit_id} PROVE last = {u}
    OBVIOUS
  <2>1. PICK w \in Units : last = {w} /\ unit_id = {w % IdMod}
    BY <1>1 DEF WholeInv, HeldIsLast
  <2>2. u % IdMod = w % IdMod
    BY <2>1 DEF Header
  <2>3. u - w < IdMod /\ w - u < IdMod
    <3>1. u - w < Span /\ w - u < Span
      BY <2>1 DEF Receive
    <3> QED
      BY <1>2, <2>1, <3>1, AssemblerAssumption DEF NoWrap, Units
  <2>4. w \in Nat /\ IdMod \in Nat \ {0}
    BY AssemblerAssumption DEF Units
  <2> HIDE DEF u
  <2>5. u = w
    BY <1>2, <2>2, <2>3, <2>4, ModClose
  <2> QED
    BY <2>1, <2>5
\* A unit that is opened anew has no part that arrived before.
<1>8. ASSUME Countable(u), unit_id # {h.unit_id}, NEW i \in 0 .. Parts[u] - 1
      PROVE  Fragment(u, i) \notin arrived
  <2> SUFFICES ASSUME Fragment(u, i) \in arrived PROVE FALSE
    OBVIOUS
  <2>1. PICK w \in last : u <= w
    <3>1. last # {}
      BY <1>1 DEF LastIsLatest
    <3> QED
      BY <1>1, <3>1 DEF LastIsLatest, Fragment
  <2>2. PICK g \in arrived : g.unit = w
    BY <1>1 DEF LastIsLatest
  <2>3. w = u
    BY <1>2, <1>5, <2>1, <2>2
  <2>4. CASE unit_id = {}
    <3>1. Emitted(u)
      BY <1>1, <1>8, <2>1, <2>3, <2>4 DEF ClosedIsEmitted
    <3>2. PICK v \in Units : Whole(v) = Whole(u) /\ Arrived(v)
      BY <1>1, <3>1 DEF Emitted, StreamInv, OutHasArrived
    <3>3. Parts[v] \in Nat \ {0} /\ Whole(v)[0] = {Fragment(v, 0)}
          /\ Whole(u)[0] = {Fragment(u, 0)}
      BY <1>2, AssemblerAssumption DEF Whole
    <3>4. Fragment(v, 0) = Fragment(u, 0)
      <4> HIDE DEF u
      <4> QED
        BY <3>2, <3>3
    <3>5. v = u
      BY <3>4 DEF Fragment
    <3> QED
      BY <1>2, <1>4, <3>2, <3>5 DEF Arrived
  <2>5. CASE unit_id # {}
    <3>1. last = {u} /\ unit_id = {u % IdMod}
      BY <1>1, <2>1, <2>3, <2>5 DEF WholeInv, HeldIsLast
    <3> QED
      BY <1>8, <3>1 DEF Header
  <2> QED
    BY <2>4, <2>5
<1>9. ASSUME Countable(u) PROVE ArrivedIsHeld' /\ (unit_id' = {} => Emitted(u)')
  <2>1. \A i \in 0 .. Parts[u] - 1 : Fragment(u, i) \in arrived => o.parts[i] # {}
    <3>1. CASE unit_id = {h.unit_id}
      <4>1. o.parts = parts /\ unit_id # {} /\ last = {u}
        BY <1>7, <1>9, <3>1 DEF Opened
      <4> QED
        BY <1>1, <1>9, <4>1 DEF ArrivedIsHeld
    <3>2. CASE unit_id # {h.unit_id}
      BY <1>8, <1>9, <3>2
    <3> QED
      BY <3>1, <3>2
  <2>2. \/ /\ unit_id' # {}
           /\ \A i \in 0 .. Parts[u] - 1 :
                 i = f.part \/ o.parts[i] # {} => parts'[i] # {}
        \/ unit_id' = {} /\ Emitted(u)'
    BY <1>1, <1>9, FeedCountable
  <2>3. \A i \in 0 .. Parts[u] - 1 : Fragment(u, i) = f => i = f.part
    BY <1>2 DEF Fragment
  <2>4. unit_id' # {} =>
           \A i \in 0 .. Parts[u] - 1 : Fragment(u, i) \in arrived' => parts'[i] # {}
    <3> HIDE DEF u, f, o
    <3> QED
      BY <1>3, <2>1, <2>2, <2>3
  <2> QED
    BY <1>3, <2>2, <2>4 DEF ArrivedIsHeld
<1>10. ASSUME ~Countable(u) PROVE ArrivedIsHeld'
  BY <1>3, <1>10 DEF ArrivedIsHeld, Countable
<1>11. ASSUME NEW v \in Units \ last', Countable(v), Arrived(v)' PROVE Emitted(v)'
  <2>1. v # u
    BY <1>3, <1>11
  <2>2. Arrived(v)
    BY <1>2, <1>3, <1>11, <2>1 DEF Arrived, Fragment
  <2>3. Emitted(v)
    <3>1. CASE v \notin last
      BY <1>1, <1>11, <2>2, <3>1 DEF ClosedIsEmitted
    <3>2. CASE v \in last /\ unit_id = {}
      BY <1>1, <1>11, <3>2 DEF ClosedIsEmitted
    <3>3. CASE v \in last /\ unit_id # {}
      <4>1. \A i \in 0 .. Parts[v] - 1 : parts[i] # {}
        BY <1>1, <1>11, <2>2, <3>3 DEF ArrivedIsHeld, Arrived
      <4> QED
        BY <1>1, <3>3, <4>1, OpenIsPartial
    <3> QED
      BY <3>1, <3>2, <3>3
  <2> QED
    BY <1>1, <1>11, <2>3, EmittedStays
<1>12. ClosedIsEmitted'
  <2>1. unit_id' = {} /\ Countable(u) => Emitted(u)'
    BY <1>9
  <2> HIDE DEF u
  <2> QED
    BY <1>3, <1>11, <2>1 DEF ClosedIsEmitted, Countable
<1> QED
  BY <1>6, <1>9, <1>10, <1>12

LEMMA EmitStep ==
    ASSUME CountsFit, NoWrap, EmitInv, [Next]_vars
    PROVE  EmitInv'
<1>1. StreamInv' /\ Orderly' = Orderly
  BY StreamStep DEF EmitInv, Next, Send, Lose, Receive, vars, Orderly
<1>2. SUFFICES ASSUME Orderly
               PROVE  (LastIsLatest /\ ArrivedIsHeld /\ ClosedIsEmitted)'
  BY <1>1 DEF EmitInv
<1>3. CASE \E d \in net : Receive(d)
  BY <1>2, <1>3, EmitReceive
<1>4. CASE UNCHANGED <<arrived, last, assembler>>
  BY <1>2, <1>4
  DEF EmitInv, LastIsLatest, ArrivedIsHeld, ClosedIsEmitted, Emitted, Arrived,
      Countable, assembler
<1> QED
  BY <1>3, <1>4 DEF Next, Send, Lose, vars

\* On a link that only loses datagrams, a unit all of whose fragments arrived
\* is handed on, whatever was lost before, between and after them.
THEOREM NoUnitIsWasted ==
    ASSUME CountsFit, NoWrap
    PROVE  Spec => []ArrivedUnitsAreEmitted
<1>1. Init => EmitInv
  <2> SUFFICES ASSUME Init PROVE EmitInv
    OBVIOUS
  <2>1. LastIsLatest /\ ArrivedIsHeld
    BY DEF Init, LastIsLatest, ArrivedIsHeld
  <2>2. \A u \in Units : ~Arrived(u)
    BY AssemblerAssumption DEF Init, Arrived
  <2>3. ClosedIsEmitted
    BY <2>2 DEF Init, ClosedIsEmitted
  <2> QED
    BY <2>1, <2>3, StreamInit DEF EmitInv
<1>2. EmitInv /\ [Next]_vars => EmitInv'
  BY EmitStep
<1>3. EmitInv => ArrivedUnitsAreEmitted
  <2> SUFFICES ASSUME EmitInv, Orderly, NEW u \in Units, Countable(u), Arrived(u)
               PROVE  Emitted(u)
    BY DEF ArrivedUnitsAreEmitted, Countable, Arrived, Emitted
  <2>1. CASE u \notin last \/ unit_id = {}
    BY <2>1 DEF EmitInv, ClosedIsEmitted
  <2>2. CASE u \in last /\ unit_id # {}
    <3>1. \A i \in 0 .. Parts[u] - 1 : parts[i] # {}
      BY <2>2 DEF EmitInv, ArrivedIsHeld, Arrived
    <3> QED
      BY <2>2, <3>1, OpenIsPartial DEF EmitInv, StreamInv
  <2> QED
    BY <2>1, <2>2
<1> QED
  BY <1>1, <1>2, <1>3, PTL DEF Spec

-----------------------------------------------------------------------------
(* A drop is never reported for nothing.                                   *)

DropInv == EmitInv /\ DropMeansLoss

\* What is lost stays lost, what is too large stays so.
LEMMA LossStays ==
    ASSUME EmitInv, Orderly, [Next]_vars, dropped, DropMeansLoss
    PROVE  DropMeansLoss'
<1>1. /\ TypeOK /\ Ordered
  BY DEF EmitInv, StreamInv, WholeInv
<1>2. arrived \subseteq arrived'
  BY DEF Next, Send, Lose, Receive, vars
<1>3. CASE \E f \in arrived : Parts[f.unit] > IndexMod
  BY <1>2, <1>3 DEF DropMeansLoss
<1>4. ASSUME NEW f \in Fragments, Lost(f) PROVE Lost(f)'
  <2>1. CASE Send
    <3>1. next \in Fragments
      BY <1>1, <2>1, AssemblerAssumption DEF Send, TypeOK, Fragment
    <3>2. Before(f, next')
      <4>1. /\ Before(next, next') /\ next'.unit \in Nat /\ next'.part \in Nat
            /\ f.unit \in Nat /\ f.part \in Nat /\ next.unit \in Nat /\ next.part \in Nat
        BY <2>1, <3>1, BeforeAfter, FragmentParts DEF Send
      <4> HIDE DEF Before
      <4> QED
        BY <1>4, <4>1, BeforeTrans DEF Lost
    <3>3. f # next
      BY <1>4, <3>1, BeforeTotal DEF Lost
    <3>4. \A e \in net' : e \in net \/ e.frag = next
      BY <2>1 DEF Send
    <3>5. arrived' = arrived
      BY <2>1 DEF Send
    <3> QED
      BY <1>4, <3>2, <3>3, <3>4, <3>5 DEF Lost
  <2>2. CASE \E d \in net : Lose(d)
    BY <1>4, <2>2 DEF Lose, Lost
  <2>3. CASE \E d \in net : Receive(d)
    BY <1>4, <2>3 DEF Receive, Lost
  <2>4. CASE UNCHANGED vars
    BY <1>4, <2>4 DEF vars, Lost
  <2> QED
    BY <2>1, <2>2, <2>3, <2>4 DEF Next
<1> QED
  BY <1>3, <1>4 DEF DropMeansLoss

\* A unit superseded before it was complete lacks a part that will not come.
LEMMA SupersededLost ==
    ASSUME CountsFit, NoWrap, EmitInv, Orderly, NEW d \in net, Receive(d),
           Superseded(Header(d.frag))
    PROVE  DropMeansLoss'
<1> DEFINE f == d.frag
           w == f.unit
<1>1. /\ TypeOK /\ WholeInv /\ Ordered /\ LastIsLatest /\ ArrivedIsHeld
  BY DEF EmitInv, StreamInv, WholeInv
<1>2. PICK u \in Units : last = {u} /\ unit_id = {u % IdMod} /\ total_parts = Parts[u]
  BY <1>1 DEF Superseded, WholeInv, HeldIsLast
<1>3. f \in Fragments /\ w \in Nat /\ f.part \in Nat /\ u \in Nat /\ w # u
  <2>1. w % IdMod # u % IdMod
    BY <1>2 DEF Superseded, Header
  <2> QED
    BY <1>1, <2>1, FragmentParts, TravelTypes DEF Units
<1>4. PICK g \in arrived : g.unit = u
  BY <1>1, <1>2 DEF LastIsLatest
<1>5. u < w
  BY <1>1, <1>3, <1>4 DEF Ordered, Before
<1>6. arrived' = arrived \cup {f} /\ net' = net \ {d} /\ next' = next
  BY DEF Receive
<1>7. CASE ~Countable(u)
  <2>1. Parts[u] > IndexMod
    BY <1>7, AssemblerAssumption DEF Countable
  <2> QED
    BY <1>4, <1>6, <2>1 DEF DropMeansLoss
<1>8. CASE Countable(u)
  <2>1. PICK i \in 0 .. Parts[u] - 1 : parts[i] = {}
    BY <1>1, <1>2, OpenIsPartial
  <2> DEFINE m == Fragment(u, i)
  <2>2. m \in Fragments /\ m.unit = u /\ m.part \in Nat
    BY FragmentIn DEF Fragment
  <2>3. m \notin arrived
    BY <1>1, <1>2, <1>8, <2>1 DEF ArrivedIsHeld
  <2>4. m # f
    BY <1>3, <2>2
  <2>5. Before(m, f)
    BY <1>3, <1>5, <2>2 DEF Before
  <2>6. Before(m, next)
    <3>1. Before(f, next) /\ next.unit \in Nat /\ next.part \in Nat
      BY <1>1, TravelTypes DEF Ordered
    <3> HIDE DEF m, f
    <3> QED
      BY <1>3, <2>2, <2>5, <3>1, BeforeTrans DEF w
  <2>7. \A e \in net' : e.frag # m
    <3> SUFFICES ASSUME NEW e \in net \ {d}, e.frag = m PROVE FALSE
      BY <1>6
    <3>1. ~Before(e.frag, f)
      BY DEF Receive, Orderly
    <3> QED
      BY <2>5, <3>1
  <2>8. Lost(m)'
    BY <1>6, <2>3, <2>4, <2>6, <2>7 DEF Lost
  <2> QED
    BY <2>2, <2>8 DEF DropMeansLoss
<1> QED
  BY <1>7, <1>8

\* On a link that only loses datagrams, a unit is reported dropped only after
\* a fragment was lost, or a unit too large to be numbered was sent.
THEOREM DropsAreLosses ==
    ASSUME CountsFit, NoWrap
    PROVE  Spec => []DropMeansLoss
<1>1. Init => EmitInv /\ DropMeansLoss
  <2> SUFFICES ASSUME Init PROVE EmitInv
    BY DEF Init, DropMeansLoss
  <2>1. LastIsLatest /\ ArrivedIsHeld
    BY DEF Init, LastIsLatest, ArrivedIsHeld
  <2>2. ClosedIsEmitted
    BY AssemblerAssumption DEF Init, ClosedIsEmitted, Arrived
  <2> QED
    BY <2>1, <2>2, StreamInit DEF EmitInv
<1>2. DropInv /\ [Next]_vars => DropInv'
  <2> SUFFICES ASSUME DropInv, [Next]_vars PROVE DropInv'
    OBVIOUS
  <2>1. EmitInv' /\ Orderly' = Orderly
    BY EmitStep DEF DropInv, Next, Send, Lose, Receive, vars, Orderly
  <2>2. CASE ~Orderly
    BY <2>1, <2>2 DEF DropInv, DropMeansLoss
  <2>3. CASE Orderly /\ dropped
    BY <2>1, <2>3, LossStays DEF DropInv
  <2>4. CASE Orderly /\ ~dropped
    <3>1. CASE \E d \in net : Receive(d) /\ Superseded(Header(d.frag))
      BY <2>1, <2>4, <3>1, SupersededLost DEF DropInv
    <3>2. CASE ~dropped'
      BY <2>1, <3>2 DEF DropInv, DropMeansLoss
    <3>3. \A d \in net : Receive(d) /\ ~Superseded(Header(d.frag)) => ~dropped'
      BY <2>4 DEF Receive, Feed
    <3>4. Send \/ (\E d \in net : Lose(d)) \/ UNCHANGED vars => ~dropped'
      BY <2>4 DEF Send, Lose, vars, assembler
    <3> QED
      BY <3>1, <3>2, <3>3, <3>4 DEF Next
  <2> QED
    BY <2>2, <2>3, <2>4
<1> QED
  BY <1>1, <1>2, PTL DEF Spec, DropInv
=============================================================================
