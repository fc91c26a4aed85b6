--------------------------- MODULE OrbitNetProofs ---------------------------
(***************************************************************************)
(* Proofs about OrbitNet, for every set of configurations and any number   *)
(* of kills, reboots, refused commands, edits and runs by hand.            *)
(*                                                                         *)
(* What is up when the script ends well was decided some commands before,  *)
(* while NetworkManager went on bringing profiles up.  UnderWay says what  *)
(* the profile holds at each command; nobody else writes profiles.         *)
(***************************************************************************)
EXTENDS OrbitNet, SequenceTheorems, TLAPS

Names == {AP_CON, CL_CON}
Settings == {"mode", "password"}
Profile == [v : Nat, set : SUBSET Settings]
Connection == [name : {"", "home"} \cup Names, v : Nat, set : SUBSET Settings]

Pcs == {"source", "release", "ap", "ap_delete", "ap_add", "ap_mode", "ap_channel",
        "ap_password", "ap_up", "client", "client_delete", "client_add",
        "client_password", "client_up", "client_undo"} \cup Resting

\* TypeOK in two halves, NetworkManager's and the rest, with the parts of
\* profiles, connections and the sourced values that it leaves open.
NmTypes ==
    /\ profiles \in [Names -> Seq(Profile)]
    /\ \A n \in Names : profiles[n] = <<>> \/ Len(profiles[n]) = 1
    /\ active \in Connection
    /\ blocked \subseteq {"home"} \cup Names

BoardTypes ==
    /\ pc \in Pcs /\ by \in {"unit", "reload", "hand"}
    /\ conf \in Confs /\ src.v \in {c.v : c \in Confs}
    /\ unit \in {"inactive", "activating", "active", "failed"}
    /\ inRange \in BOOLEAN /\ watched \in BOOLEAN /\ skipped \in BOOLEAN
    /\ faults \in 0 .. MaxFaults /\ ops \in 0 .. MaxOps

\* The profile was made by this run, with the values it has sourced.
Made(n) == Len(profiles[n]) = 1 /\ profiles[n][1].v = src.v

\* ... and these of its settings were made, unless a command failed unnoticed.
Has(n, settings) == ~skipped => settings \subseteq profiles[n][1].set

UnderWay ==
    /\ pc = "ap_add" => profiles[AP_CON] = <<>>
    /\ pc \in {"ap_mode", "ap_channel", "ap_password", "ap_up"} => Made(AP_CON)
    /\ pc \in {"ap_channel", "ap_password"} => Has(AP_CON, {"mode"})
    /\ pc = "ap_up" => Has(AP_CON, {"mode", "password"})
    /\ pc = "client_add" => profiles[CL_CON] = <<>>
    /\ pc \in {"client_password", "client_up"} => Made(CL_CON)
    /\ pc = "client_up" => Has(CL_CON, {"password"})
    /\ pc \in {"client", "client_delete", "client_add", "client_password", "client_up"}
          => src.mode = "client"

Inv == NmTypes /\ BoardTypes /\ UnderWay

-----------------------------------------------------------------------------
(* What the nmcli commands do to the types.                                *)

LEMMA DownTyped ==
    ASSUME NmTypes, NEW n \in {"home"} \cup Names, Down(n)
    PROVE  NmTypes' /\ profiles' = profiles
BY DEF NmTypes, Down, NoConn, Connection, Settings

LEMMA DeleteTyped ==
    ASSUME NmTypes, NEW n \in Names, Delete(n)
    PROVE  /\ NmTypes'
           /\ profiles'[n] = <<>>
           /\ \A m \in Names \ {n} : profiles'[m] = profiles[m]
<1>1. <<>> \in Seq(Profile) /\ Len(<<>>) = 0
  BY EmptySeq
<1>2. profiles' \in [Names -> Seq(Profile)] /\ \A m \in Names : profiles'[m] = <<>> \/ Len(profiles'[m]) = 1
  BY <1>1 DEF NmTypes, Delete
<1>3. active' \in Connection /\ blocked' \subseteq {"home"} \cup Names
  BY DEF NmTypes, Delete, NoConn, Connection, Settings
<1> QED
  BY <1>2, <1>3 DEF NmTypes, Delete

LEMMA AddTyped ==
    ASSUME NmTypes, NEW n \in Names, profiles[n] = <<>>, src.v \in Nat, Add(n)
    PROVE  /\ NmTypes'
           /\ Len(profiles'[n]) = 1 /\ profiles'[n][1] = [v |-> src.v, set |-> {}]
           /\ \A m \in Names \ {n} : profiles'[m] = profiles[m]
<1> DEFINE p == [v |-> src.v, set |-> {}]
           s == Append(<<>>, p)
<1>1. p \in Profile
  BY DEF Profile, Settings
<1>2. s \in Seq(Profile) /\ Len(s) = 1 /\ s[1] = p
  BY <1>1, EmptySeq, AppendProperties
<1>3. profiles' = [profiles EXCEPT ![n] = s]
  BY DEF Add
<1> HIDE DEF p, s
<1>4. profiles' \in [Names -> Seq(Profile)]
  BY <1>2, <1>3 DEF NmTypes
<1>5. profiles'[n] = s /\ \A m \in Names \ {n} : profiles'[m] = profiles[m]
  BY <1>3 DEF NmTypes
<1>6. \A m \in Names : profiles'[m] = <<>> \/ Len(profiles'[m]) = 1
  BY <1>2, <1>5 DEF NmTypes
<1> QED
  BY <1>2, <1>4, <1>5, <1>6 DEF NmTypes, Add, p

LEMMA ModifyTyped ==
    ASSUME NmTypes, NEW n \in Names, Len(profiles[n]) = 1,
           NEW what \in Settings, Modify(n, what)
    PROVE  /\ NmTypes'
           /\ Len(profiles'[n]) = 1
           /\ profiles'[n][1].v = profiles[n][1].v
           /\ profiles'[n][1].set = profiles[n][1].set \cup {what}
           /\ \A m \in Names \ {n} : profiles'[m] = profiles[m]
<1> DEFINE old == profiles[n][1]
           new == [old EXCEPT !.set = @ \cup {what}]
           s == [profiles[n] EXCEPT ![1] = new]
<1>1. profiles[n] \in Seq(Profile) /\ 1 \in 1 .. Len(profiles[n])
  BY DEF NmTypes
<1>2. old \in Profile
  BY <1>1, ElementOfSeq
<1>3. new \in Profile /\ new.v = old.v /\ new.set = old.set \cup {what}
  BY <1>2 DEF Profile
<1> HIDE DEF new
<1>4. s \in Seq(Profile) /\ Len(s) = 1 /\ s[1] = new
  BY <1>1, <1>3, ExceptSeq
<1>5. profiles' = [profiles EXCEPT ![n] = s]
  BY DEF Modify, new
<1> HIDE DEF s
<1>6. profiles' \in [Names -> Seq(Profile)]
  BY <1>4, <1>5 DEF NmTypes
<1>7. profiles'[n] = s /\ \A m \in Names \ {n} : profiles'[m] = profiles[m]
  BY <1>5 DEF NmTypes
<1>8. \A m \in Names : profiles'[m] = <<>> \/ Len(profiles'[m]) = 1
  BY <1>4, <1>7 DEF NmTypes
<1> QED
  BY <1>3, <1>4, <1>6, <1>7, <1>8 DEF NmTypes, Modify

\* A copy of a profile that is up.
Copy(n) == [name |-> n, v |-> profiles[n][1].v, set |-> profiles[n][1].set]

LEMMA CopyTyped ==
    ASSUME NmTypes, NEW n \in Names, Len(profiles[n]) = 1
    PROVE  Copy(n) \in Connection
<1>1. profiles[n] \in Seq(Profile) /\ 1 \in 1 .. Len(profiles[n])
  BY DEF NmTypes
<1>2. profiles[n][1] \in Profile
  BY <1>1, ElementOfSeq
<1> QED
  BY <1>2 DEF Profile, Copy, Connection

LEMMA UpTyped ==
    ASSUME NmTypes, NEW n \in Names, Len(profiles[n]) = 1, Up(n)
    PROVE  NmTypes' /\ profiles' = profiles /\ active' = Copy(n)
BY CopyTyped DEF NmTypes, Up, Copy

-----------------------------------------------------------------------------
(* The script.                                                             *)

LEMMA SourceStep == Inv /\ Source => Inv'
<1> SUFFICES ASSUME Inv, Source PROVE Inv'
  OBVIOUS
<1> USE DEF Inv, Source, nm, board, bounds
<1>1. NmTypes'
  BY DEF NmTypes
<1>2. conf \in Confs
  BY DEF BoardTypes
<1>3. src'.v = conf.v
  <2>1. ASSUME NEW m \in {"ap", "client"}, src' = [conf EXCEPT !.mode = m]
        PROVE  src'.v = conf.v
    <3>1. conf = [mode |-> conf.mode, ap |-> conf.ap, client |-> conf.client, v |-> conf.v]
      BY <1>2, OrbitNetAssumption
    <3> QED
      BY <2>1, <3>1
  <2> QED
    BY <2>1
<1>4. BoardTypes'
  BY <1>3 DEF BoardTypes, Pcs
<1>5. UnderWay'
  BY DEF UnderWay
<1> QED
  BY <1>1, <1>4, <1>5

\* A command that is checked, or that does nothing, ends the run or goes on.
LEMMA GoTyped ==
    ASSUME BoardTypes, NEW to \in Pcs, Go(to), skipped' \in BOOLEAN,
           faults' \in 0 .. MaxFaults
    PROVE  BoardTypes'
BY DEF BoardTypes, Go, board

LEMMA FaultTyped == BoardTypes /\ Fault => faults' \in 0 .. MaxFaults
BY OrbitNetAssumption DEF BoardTypes, Fault

LEMMA ApStep ==
    ASSUME Inv,
           ApDown \/ ApDelete \/ ApAdd \/ ApMode \/ ApChannel \/ ApPassword \/ ApUp
    PROVE  Inv'
<1> USE DEF Inv
<1> DEFINE n == AP_CON
<1>0. n \in Names /\ n # CL_CON /\ CL_CON \in Names /\ src.v \in Nat
  BY OrbitNetAssumption DEF Names, AP_CON, CL_CON, BoardTypes
<1>1. BoardTypes'
  BY FaultTyped, GoTyped DEF ApDown, ApDelete, ApAdd, ApMode, ApChannel, ApPassword, ApUp,
     Step, Refused, Ignored, Fault, Pcs, Resting, BoardTypes, Go, board
<1>2. src' = src
  BY DEF ApDown, ApDelete, ApAdd, ApMode, ApChannel, ApPassword, ApUp,
     Step, Refused, Ignored, Go
<1>3. CASE ApDown
  <2>1. NmTypes'
    BY <1>0, <1>3, DownTyped DEF ApDown, nm, NmTypes
  <2>2. UnderWay'
    BY <1>2, <1>3 DEF ApDown, UnderWay, Step, Go
  <2> QED
    BY <1>1, <2>1, <2>2
<1>4. CASE ApDelete
  <2>1. NmTypes' /\ profiles'[n] = <<>>
    BY <1>0, <1>4, DeleteTyped DEF ApDelete
  <2>2. UnderWay'
    BY <1>2, <1>4, <2>1 DEF ApDelete, UnderWay, Step, Go
  <2> QED
    BY <1>1, <2>1, <2>2
<1>5. CASE ApAdd
  <2>1. CASE Step("ap_add", "ap_mode") /\ Add(n)
    <3>1. NmTypes' /\ Len(profiles'[n]) = 1 /\ profiles'[n][1].v = src.v
      BY <1>0, <2>1, AddTyped DEF UnderWay, Step
    <3>2. UnderWay'
      BY <1>2, <2>1, <3>1 DEF UnderWay, Step, Go, Made
    <3> QED
      BY <1>1, <3>1, <3>2
  <2>2. CASE Refused("ap_add")
    BY <1>1, <2>2 DEF Refused, Go, nm, NmTypes, UnderWay
  <2> QED
    BY <1>5, <2>1, <2>2 DEF ApAdd
<1>6. CASE ApMode
  <2>0. pc = "ap_mode" /\ Made(n)
    BY <1>6 DEF ApMode, Step, Ignored, UnderWay
  <2>1. CASE Step("ap_mode", "ap_channel") /\ Modify(n, "mode")
    <3>1. /\ NmTypes' /\ Len(profiles'[n]) = 1
          /\ profiles'[n][1].v = src.v /\ "mode" \in profiles'[n][1].set
      BY <1>0, <2>0, <2>1, ModifyTyped DEF Made, Settings
    <3>2. UnderWay'
      BY <1>2, <2>1, <3>1 DEF UnderWay, Step, Go, Made, Has
    <3> QED
      BY <1>1, <3>1, <3>2
  <2>2. CASE Ignored("ap_mode", "ap_channel")
    BY <1>1, <1>2, <2>0, <2>2 DEF Ignored, Go, nm, NmTypes, UnderWay, Made, Has
  <2> QED
    BY <1>6, <2>1, <2>2 DEF ApMode
<1>7. CASE ApChannel
  <2>1. NmTypes'
    BY <1>7 DEF ApChannel, nm, NmTypes
  <2>2. UnderWay'
    BY <1>2, <1>7 DEF ApChannel, nm, UnderWay, Step, Go, Made, Has
  <2> QED
    BY <1>1, <2>1, <2>2
<1>8. CASE ApPassword
  <2>0. pc = "ap_password" /\ Made(n) /\ Has(n, {"mode"})
    BY <1>8 DEF ApPassword, Step, Ignored, UnderWay
  <2>1. CASE Step("ap_password", "ap_up") /\ Modify(n, "password")
    <3>1. /\ NmTypes' /\ Len(profiles'[n]) = 1 /\ profiles'[n][1].v = src.v
          /\ profiles'[n][1].set = profiles[n][1].set \cup {"password"}
      BY <1>0, <2>0, <2>1, ModifyTyped DEF Made, Settings
    <3>2. UnderWay'
      BY <1>2, <2>0, <2>1, <3>1 DEF UnderWay, Step, Go, Made, Has
    <3> QED
      BY <1>1, <3>1, <3>2
  <2>2. CASE Step("ap_password", "died") /\ UNCHANGED nm
    BY <1>1, <2>2 DEF Step, Go, nm, NmTypes, UnderWay
  <2>3. CASE Ignored("ap_password", "ap_up")
    BY <1>1, <1>2, <2>0, <2>3 DEF Ignored, Go, nm, NmTypes, UnderWay, Made, Has
  <2> QED
    BY <1>8, <2>1, <2>2, <2>3 DEF ApPassword
<1>9. CASE ApUp
  <2>0. Made(n)
    BY <1>9 DEF ApUp, Step, Refused, UnderWay
  <2>1. NmTypes'
    BY <1>0, <1>9, <2>0, UpTyped DEF ApUp, Made, Refused, nm, NmTypes
  <2>2. UnderWay'
    BY <1>9 DEF ApUp, UnderWay, Step, Refused, Go
  <2> QED
    BY <1>1, <2>1, <2>2
<1> QED
  BY <1>3, <1>4, <1>5, <1>6, <1>7, <1>8, <1>9

LEMMA ClientStep ==
    ASSUME Inv,
           ClientDown \/ ClientDelete \/ ClientAdd \/ ClientPassword
              \/ JoinFails \/ Join \/ ClientUndo
    PROVE  Inv'
<1> USE DEF Inv
<1> DEFINE n == CL_CON
<1>0. n \in Names /\ n # AP_CON /\ AP_CON \in Names /\ src.v \in Nat
  BY OrbitNetAssumption DEF Names, AP_CON, CL_CON, BoardTypes
<1>1. BoardTypes'
  BY FaultTyped, GoTyped DEF ClientDown, ClientDelete, ClientAdd, ClientPassword,
     JoinFails, Join, ClientUndo,
     Step, Refused, Ignored, Fault, Pcs, Resting, BoardTypes, Go, board
<1>2. src' = src
  BY DEF ClientDown, ClientDelete, ClientAdd, ClientPassword, JoinFails, Join, ClientUndo,
     Step, Refused, Ignored, Go
<1>3. CASE ClientDown
  <2>1. NmTypes'
    BY <1>0, <1>3, DownTyped DEF ClientDown, nm, NmTypes
  <2>2. UnderWay'
    BY <1>2, <1>3 DEF ClientDown, UnderWay, Step, Go
  <2> QED
    BY <1>1, <2>1, <2>2
<1>4. CASE ClientDelete
  <2>1. NmTypes' /\ profiles'[n] = <<>>
    BY <1>0, <1>4, DeleteTyped DEF ClientDelete
  <2>2. UnderWay'
    BY <1>2, <1>4, <2>1 DEF ClientDelete, UnderWay, Step, Go
  <2> QED
    BY <1>1, <2>1, <2>2
<1>5. CASE ClientAdd
  <2>1. CASE Step("client_add", "client_password") /\ Add(n)
    <3>1. NmTypes' /\ Len(profiles'[n]) = 1 /\ profiles'[n][1].v = src.v
      BY <1>0, <2>1, AddTyped DEF UnderWay, Step
    <3>2. UnderWay'
      BY <1>2, <2>1, <3>1 DEF UnderWay, Step, Go, Made
    <3> QED
      BY <1>1, <3>1, <3>2
  <2>2. CASE Refused("client_add")
    BY <1>1, <2>2 DEF Refused, Go, nm, NmTypes, UnderWay
  <2> QED
    BY <1>5, <2>1, <2>2 DEF ClientAdd
<1>6. CASE ClientPassword
  <2>0. pc = "client_password" /\ Made(n) /\ src.mode = "client"
    BY <1>6 DEF ClientPassword, Step, Ignored, UnderWay
  <2>1. CASE Step("client_password", "client_up") /\ Modify(n, "password")
    <3>1. /\ NmTypes' /\ Len(profiles'[n]) = 1
          /\ profiles'[n][1].v = src.v /\ "password" \in profiles'[n][1].set
      BY <1>0, <2>0, <2>1, ModifyTyped DEF Made, Settings
    <3>2. UnderWay'
      BY <1>2, <2>0, <2>1, <3>1 DEF UnderWay, Step, Go, Made, Has
    <3> QED
      BY <1>1, <3>1, <3>2
  <2>2. CASE Ignored("client_password", "client_up")
    BY <1>1, <1>2, <2>0, <2>2 DEF Ignored, Go, nm, NmTypes, UnderWay, Made, Has
  <2> QED
    BY <1>6, <2>1, <2>2 DEF ClientPassword
<1>7. CASE JoinFails
  BY <1>1, <1>7 DEF JoinFails, nm, NmTypes, UnderWay, Step, Go
<1>8. CASE Join
  <2>0. Made(n)
    BY <1>8 DEF Join, Step, UnderWay
  <2>1. NmTypes'
    BY <1>0, <1>8, <2>0, UpTyped DEF Join, Made
  <2>2. UnderWay'
    BY <1>8 DEF Join, UnderWay, Step, Go
  <2> QED
    BY <1>1, <2>1, <2>2
<1>9. CASE ClientUndo
  <2>1. NmTypes'
    BY <1>0, <1>9, DeleteTyped DEF ClientUndo
  <2>2. UnderWay'
    BY <1>9 DEF ClientUndo, UnderWay, Step, Go
  <2> QED
    BY <1>1, <2>1, <2>2
<1> QED
  BY <1>3, <1>4, <1>5, <1>6, <1>7, <1>8, <1>9

LEMMA ReleaseStep == Inv /\ Release => Inv'
<1> SUFFICES ASSUME Inv, Release PROVE Inv'
  OBVIOUS
<1> USE DEF Inv
<1>1. NmTypes'
  BY DownTyped DEF Release, Home
<1>2. BoardTypes'
  BY DEF Release, Step, Go, board, BoardTypes, Pcs, Resting
<1>3. UnderWay'
  BY DEF Release, Step, Go, UnderWay
<1> QED
  BY <1>1, <1>2, <1>3

-----------------------------------------------------------------------------
(* systemd and the surroundings: between two commands they may bring a     *)
(* connection up or take it down, but leave the profiles alone.            *)

LEMMA SystemdStep ==
    ASSUME Inv, StartUnit \/ UnitEnds \/ PathTriggers \/ RunByHand \/ DownByHand
    PROVE  Inv'
<1> USE DEF Inv
<1>1. NmTypes'
  <2>1. CASE DownByHand
    BY <2>1, DownTyped DEF DownByHand, Names
  <2>2. CASE ~DownByHand
    <3>1. UNCHANGED nm
      BY <2>2 DEF StartUnit, UnitEnds, PathTriggers, RunByHand, Run
    <3> QED
      BY <3>1 DEF nm, NmTypes
  <2> QED
    BY <2>1, <2>2
<1>2. BoardTypes'
  <2> USE DEF BoardTypes, Run, board, bounds, Pcs, Resting
  <2>1. CASE StartUnit \/ UnitEnds
    BY <2>1 DEF StartUnit, UnitEnds
  <2>2. CASE PathTriggers
    BY <2>2 DEF PathTriggers
  <2>3. CASE RunByHand \/ DownByHand
    <3>1. ops' \in 0 .. MaxOps
      BY <2>3, OrbitNetAssumption DEF RunByHand, DownByHand
    <3> QED
      BY <2>3, <3>1 DEF RunByHand, DownByHand
  <2> QED
    BY <2>1, <2>2, <2>3
<1>3. UnderWay'
  BY DEF StartUnit, UnitEnds, PathTriggers, RunByHand, DownByHand, Run, Down, nm, Resting,
     UnderWay, Made, Has
<1> QED
  BY <1>1, <1>2, <1>3

LEMMA SurroundingsStep ==
    ASSUME Inv, EditConf \/ RangeChanges \/ Autoconnect \/ Kill \/ Reboot
    PROVE  Inv'
<1> USE DEF Inv
<1>1. NmTypes'
  <2>1. CASE Autoconnect
    <3>1. PICK n \in Names : profiles[n] # <<>> /\ active' = Copy(n)
      BY <2>1 DEF Autoconnect, Names, Copy
    <3>3. Len(profiles[n]) = 1
      BY <3>1 DEF NmTypes
    <3>4. active' \in Connection
      BY <3>1, <3>3, CopyTyped
    <3>5. profiles' = profiles /\ blocked' = blocked
      BY <2>1 DEF Autoconnect
    <3> QED
      BY <3>4, <3>5 DEF NmTypes
  <2>2. CASE ~Autoconnect
    <3>1. /\ profiles' = profiles
          /\ active' \in {active, NoConn} /\ blocked' \in {blocked, {}}
      BY <2>2 DEF EditConf, RangeChanges, Kill, Reboot, nm
    <3>2. NoConn \in Connection
      BY DEF NoConn, Connection, Settings
    <3> QED
      BY <3>1, <3>2 DEF NmTypes
  <2> QED
    BY <2>1, <2>2
<1>2. BoardTypes'
  <2> USE DEF BoardTypes, board, bounds, Pcs, Resting
  <2>1. CASE EditConf
    <3>1. ops' \in 0 .. MaxOps
      BY <2>1, OrbitNetAssumption DEF EditConf
    <3> QED
      BY <2>1, <3>1 DEF EditConf
  <2>2. CASE RangeChanges \/ Kill \/ Reboot
    <3>1. faults' \in 0 .. MaxFaults
      BY <2>2, FaultTyped DEF RangeChanges, Kill, Reboot
    <3> QED
      BY <2>2, <3>1 DEF RangeChanges, Kill, Reboot
  <2>3. CASE Autoconnect
    BY <2>3 DEF Autoconnect
  <2> QED
    BY <2>1, <2>2, <2>3
<1>3. UnderWay'
  BY DEF EditConf, RangeChanges, Autoconnect, Kill, Reboot, nm, UnderWay, Made, Has
<1> QED
  BY <1>1, <1>2, <1>3

-----------------------------------------------------------------------------
LEMMA InvInit == Init => Inv
<1> SUFFICES ASSUME Init PROVE Inv
  OBVIOUS
<1> USE DEF Init
<1>1. NmTypes
  <2>1. <<>> \in Seq(Profile)
    BY EmptySeq
  <2>2. profiles \in [Names -> Seq(Profile)] /\ \A n \in Names : profiles[n] = <<>>
    BY <2>1 DEF Names
  <2>3. NoConn \in Connection /\ Home \in Connection
    BY DEF NoConn, Home, Connection, Settings
  <2> QED
    BY <2>2, <2>3 DEF NmTypes
<1>2. BoardTypes
  <2>1. src.v \in {c.v : c \in Confs}
    OBVIOUS
  <2>2. 0 \in 0 .. MaxFaults /\ 0 \in 0 .. MaxOps
    BY OrbitNetAssumption
  <2> QED
    BY <2>1, <2>2 DEF BoardTypes, Pcs, Resting
<1>3. UnderWay
  BY DEF UnderWay
<1> QED
  BY <1>1, <1>2, <1>3 DEF Inv

LEMMA InvStep == Inv /\ [Next]_vars => Inv'
<1> SUFFICES ASSUME Inv, [Next]_vars PROVE Inv'
  OBVIOUS
<1>1. CASE Script
  BY <1>1, SourceStep, ReleaseStep, ApStep, ClientStep DEF Script
<1>2. CASE StartUnit \/ UnitEnds \/ PathTriggers \/ RunByHand \/ DownByHand
  BY <1>2, SystemdStep
<1>3. CASE EditConf \/ RangeChanges \/ Autoconnect \/ Kill \/ Reboot
  BY <1>3, SurroundingsStep
<1>4. CASE UNCHANGED vars
  BY <1>4 DEF vars, nm, board, bounds, Inv, NmTypes, BoardTypes, UnderWay, Made, Has
<1> QED
  BY <1>1, <1>2, <1>3, <1>4 DEF Next

\* What holds at every command of the script, whatever NetworkManager, systemd
\* and the operator do between two of them.
THEOREM Invariance == Spec => []Inv
BY InvInit, InvStep, PTL DEF Spec

\* No name ever has two profiles, and none is modified before it is added.
THEOREM TypeCorrect == Spec => []TypeOK
<1>1. ASSUME Inv PROVE TypeOK
  <2>1. \A n \in Names : Len(profiles[n]) <= 1
    <3>1. Len(<<>>) = 0
      OBVIOUS
    <3>2. \A n \in Names : profiles[n] = <<>> \/ Len(profiles[n]) = 1
      BY <1>1 DEF Inv, NmTypes
    <3>3. ASSUME NEW n \in Names PROVE Len(profiles[n]) <= 1
      <4>1. CASE profiles[n] = <<>>
        BY <3>1, <4>1
      <4>2. CASE Len(profiles[n]) = 1
        BY <4>2
      <4> QED
        BY <3>2, <4>1, <4>2
    <3> QED
      BY <3>3
  <2> QED
    BY <1>1, <2>1 DEF Inv, NmTypes, BoardTypes, TypeOK, Pcs, Names, Connection
<1> QED
  BY <1>1, Invariance, PTL

\* A run that succeeds leaves up what it has sourced, with all its settings:
\* the AP, or the network joined.
LEMMA EndsAsSourced ==
    ASSUME Inv, Next, pc # "ok", pc' = "ok", ~skipped
    PROVE  /\ active'.v = src.v /\ "password" \in active'.set
           /\ active'.name = AP_CON => "mode" \in active'.set
           /\ active'.name # AP_CON => active'.name = CL_CON /\ src.mode = "client"
<1>1. ApUp \/ Join
  BY DEF Next, Script, Source, Release, ApDown, ApDelete, ApAdd, ApMode, ApChannel,
     ApPassword, ClientDown, ClientDelete, ClientAdd, ClientPassword, JoinFails, ClientUndo,
     Step, Refused, Ignored, Go, StartUnit, UnitEnds, PathTriggers, RunByHand, DownByHand,
     Run, EditConf, RangeChanges, Autoconnect, Kill, Reboot
<1>2. CASE ApUp
  <2>1. pc = "ap_up" /\ Up(AP_CON)
    BY <1>2 DEF ApUp, Step, Refused, Go
  <2>2. Made(AP_CON) /\ {"mode", "password"} \subseteq profiles[AP_CON][1].set
    BY <2>1 DEF Inv, UnderWay, Has
  <2>3. active' = Copy(AP_CON)
    BY <2>1 DEF Up, Copy
  <2> QED
    BY <2>2, <2>3 DEF Copy, Made
<1>3. CASE Join
  <2>1. pc = "client_up" /\ Up(CL_CON)
    BY <1>3 DEF Join, Step
  <2>2. /\ Made(CL_CON) /\ "password" \in profiles[CL_CON][1].set
        /\ src.mode = "client"
    BY <2>1 DEF Inv, UnderWay, Has
  <2>3. active' = Copy(CL_CON)
    BY <2>1 DEF Up, Copy
  <2> QED
    BY <2>2, <2>3 DEF Copy, Made, AP_CON, CL_CON
<1> QED
  BY <1>1, <1>2, <1>3

THEOREM SourcedIsApplied == Spec => AppliedAsSourced
<1>1. Inv /\ [Next]_vars =>
        (pc # "ok" /\ pc' = "ok" /\ ~skipped =>
            /\ active'.v = src.v /\ "password" \in active'.set
            /\ active'.name = AP_CON => "mode" \in active'.set
            /\ active'.name # AP_CON => active'.name = CL_CON /\ src.mode = "client")
  BY EndsAsSourced DEF vars
<1> QED
  BY <1>1, Invariance, PTL DEF Spec, AppliedAsSourced
=============================================================================
