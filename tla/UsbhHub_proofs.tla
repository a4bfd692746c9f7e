---------------------------- MODULE UsbhHub_proofs ----------------------------
(***************************************************************************)
(* Theorems about the hub's driver, for every number of ports, faults and  *)
(* connections.                                                            *)
(*   TypeCorrect    []TypeOK, with where the loop can stand (Steering)     *)
(*   LiveChildKept  KeepsLiveChild.  It needs what the status the loop     *)
(*                  acts on still says of its port: with a child there, a  *)
(*                  device there is the one the status was read of, and it *)
(*                  is enabled as it was then (Live)                       *)
(*   ChildrenMatch  []ChildIsTheDevice: a difference between a port and    *)
(*                  its child is in the port's changes, or the loop is at  *)
(*                  the port with a status of the device there (Settled)   *)
(***************************************************************************)
EXTENDS UsbhHub, WellFoundedInduction, TLAPS

LEMMA Constants ==
  /\ NumPorts \in Nat \ {0} /\ QueueLen \in Nat \ {0}
  /\ MaxDevices \in Nat /\ MaxFaults \in Nat /\ MaxStalls \in Nat
BY PortsAssumption, QueueAssumption, BoundsAssumption

\* The loop is at a port of its set.
LEMMA LeastType ==
  ASSUME NEW S \in SUBSET Ports, S # {}
  PROVE  Least(S) \in S
<1>1. S \subseteq Nat
  BY Constants DEF Ports
<1>2. PICK x \in S : \A y \in S : ~(<<y, x>> \in OpToRel(<, Nat))
  BY <1>1, WFMin, NatLessThanWellFounded
<1>3. \A y \in S : ~(y < x)
  BY <1>1, <1>2, Zenon DEF OpToRel
<1>4. \A y \in S : x <= y
  BY <1>1, <1>3
<1> QED
  BY <1>4 DEF Least

AtPort == pc \in {"clear", "child", "reset"}

\* The loop runs in a class that is up, and is over when no port is left.
Steering ==
  /\ pc # "sleep" => ClassUp
  /\ AtPort => todo # {}
  /\ ctl = "SET_PORT_POWER" => portIndex <= NumPorts

LEMMA PostType ==
  ASSUME TypeOK, Post
  PROVE  events' \in 0 .. QueueLen
BY Constants DEF TypeOK, Post, PutN

LEMMA PassType ==
  ASSUME TypeOK, NEW n \in Nat, Pass(n)
  PROVE  events' \in 0 .. QueueLen
BY Constants DEF TypeOK, Pass, PutN

LEMMA FaultType ==
  ASSUME TypeOK, Fault \/ NoFault
  PROVE  faults' \in 0 .. MaxFaults
BY Constants DEF TypeOK, Fault, NoFault

LEMMA PortType ==
  ASSUME TypeOK, todo # {}
  PROVE  Port \in Ports
BY LeastType DEF TypeOK, Port

LEMMA ReadingType ==
  ASSUME TypeOK, todo # {}
  PROVE  Reading \in Status
<1>1. Port \in Ports
  BY PortType
<1>2. Port \in 0 .. NumPorts /\ dev[Port] \in Devices /\ chg[Port] \in SUBSET Changes
  BY <1>1, Constants DEF TypeOK, Ports
<1>3. ena[Port] \in BOOLEAN /\ pow[Port] \in BOOLEAN
  BY <1>1 DEF TypeOK
<1>4. (dev[Port] # 0 /\ pow[Port]) \in BOOLEAN
  OBVIOUS
<1> QED
  BY <1>2, <1>3, <1>4 DEF Reading, Status

-----------------------------------------------------------------------------
(* Type correctness, one lemma for each group of actions.                    *)

LEMMA ClassRequestType ==
  ASSUME TypeOK, Steering, ClassRequest
  PROVE  TypeOK' /\ Steering'
<1> USE Constants
<1>1. CASE GetHubDesc
  BY <1>1
  DEF GetHubDesc, TypeOK, Steering, ClassUp, AtPort, CtlStates, thread,
      endpoint, hub, counts
<1>2. CASE SetPortPower
  <2>1. events' \in 0 .. QueueLen
    BY <1>2, PostType DEF SetPortPower, TypeOK
  <2>2. portIndex' \in 1 .. NumPorts + 1 /\ portIndex' = portIndex + 1
    BY <1>2 DEF SetPortPower, Steering, TypeOK
  <2>3. pow' \in [Ports -> BOOLEAN] /\ ctl' \in CtlStates
    BY <1>2 DEF SetPortPower, TypeOK, CtlStates
  <2>4. pc = "sleep" /\ pc' = pc
    BY <1>2 DEF SetPortPower, Steering, ClassUp, thread
  <2>5. Steering'
    BY <1>2, <2>2, <2>4 DEF SetPortPower, Steering, AtPort, TypeOK
  <2> QED
    BY <1>2, <2>1, <2>2, <2>3, <2>5
    DEF SetPortPower, TypeOK, thread, endpoint, counts
<1> QED
  BY <1>1, <1>2 DEF ClassRequest

LEMMA PassesType ==
  ASSUME TypeOK, Steering,
         \/ ScanPort \/ ScanPortDone \/ ScanPortStall \/ ScanPortWait
         \/ ClrFeatureWaits \/ ClrFeatureDone \/ EnumPort
  PROVE  TypeOK' /\ Steering'
<1> DEFINE Passing == \E n \in {0, 1} : Pass(n)
<1>1. Passing
  BY DEF ScanPort, ScanPortDone, ScanPortStall, ScanPortWait, ClrFeatureWaits,
         ClrFeatureDone, EnumPort
<1>2. events' \in 0 .. QueueLen /\ pc = "sleep" /\ ClassUp
  BY <1>1, PassType DEF Pass
<1>3. CASE ScanPort \/ ScanPortDone \/ ScanPortStall \/ ScanPortWait
  BY <1>2, <1>3
  DEF ScanPort, ScanPortDone, ScanPortStall, ScanPortWait, TypeOK, Steering,
      ClassUp, AtPort, CtlStates, thread, endpoint, hub, counts
<1>4. CASE ClrFeatureWaits \/ ClrFeatureDone
  <2>1. faults' \in 0 .. MaxFaults
    BY <1>4, FaultType DEF ClrFeatureWaits, ClrFeatureDone
  <2>2. clrLeft' \in BOOLEAN /\ halted' \in BOOLEAN
    BY <1>4 DEF ClrFeatureWaits, ClrFeatureDone, TypeOK
  <2> QED
    BY <1>2, <1>4, <2>1, <2>2
    DEF ClrFeatureWaits, ClrFeatureDone, ClrFeature, TypeOK, Steering, ClassUp,
        AtPort, CtlStates, hub
<1>5. CASE EnumPort
  BY <1>2, <1>5
  DEF EnumPort, TypeOK, Steering, ClassUp, AtPort, CtlStates, endpoint, hub,
      counts
<1> QED
  BY <1>3, <1>4, <1>5

LEMMA LoopType ==
  ASSUME TypeOK, Steering, Loop
  PROVE  TypeOK' /\ Steering'
<1> DEFINE Goes == {"port", "clear", "child", "reset"}
<1>1. CASE LoopEnd
  <2>1. events' \in 0 .. QueueLen
    BY <1>1, PostType DEF LoopEnd
  <2> QED
    BY <1>1, <2>1
    DEF LoopEnd, TypeOK, Steering, ClassUp, AtPort, CtlStates, endpoint, hub,
        counts
<1>2. CASE ~LoopEnd
  <2>1. todo # {} /\ pc # "sleep" /\ Port \in Ports
    BY <1>2, PortType
    DEF Loop, GetPortStatus, GetPortStatusFails, ClearPort, Decide, NewChild,
        ChildKept, ChildFails, ChildThere, ToReset, ResetPort, RemoveChild,
        Steering, AtPort
  <2>2. LoopFrame /\ UNCHANGED <<dev, pow>>
    BY <1>2
    DEF Loop, GetPortStatus, GetPortStatusFails, ClearPort, NewChild,
        ChildKept, ChildFails, ChildThere, ToReset, ResetPort, RemoveChild
  <2>3. faults' \in 0 .. MaxFaults
    BY <1>2, FaultType
    DEF Loop, GetPortStatus, GetPortStatusFails, ClearPort, NewChild,
        ChildKept, ChildFails, ChildThere, ToReset, ResetPort, RemoveChild
  <2>4. pc' \in Goes /\ todo' \subseteq todo /\ (pc' # "port" => todo' = todo)
    BY <1>2
    DEF Loop, GetPortStatus, GetPortStatusFails, ClearPort, NewChild, Decide,
        ChildKept, ChildFails, ChildThere, ToReset, ResetPort, RemoveChild,
        NextPort
  <2>5. st' \in Status
    <3>1. st.chg \ {Least(st.chg)} \in SUBSET Changes
      BY DEF TypeOK, Status
    <3>2. [st EXCEPT !.chg = @ \ {Least(st.chg)}] \in Status
      BY <3>1 DEF TypeOK, Status
    <3> QED
      BY <1>2, <2>1, <3>2, ReadingType
      DEF Loop, GetPortStatus, GetPortStatusFails, ClearPort, NewChild,
          ChildKept, ChildFails, ChildThere, ToReset, ResetPort, RemoveChild,
          TypeOK
  <2>6. child' \in [Ports -> Devices]
    <3>1. st.dev \in Devices /\ 0 \in Devices
      BY Constants DEF TypeOK, Status, Devices
    <3> QED
      BY <1>2, <3>1
      DEF Loop, GetPortStatus, GetPortStatusFails, ClearPort, NewChild,
          ChildKept, ChildFails, ChildThere, ToReset, ResetPort, RemoveChild,
          TypeOK
  <2>7. missed' \subseteq Ports
    BY <1>2, <2>1
    DEF Loop, GetPortStatus, GetPortStatusFails, ClearPort, NewChild,
        ChildKept, ChildFails, ChildThere, ToReset, ResetPort, RemoveChild,
        TypeOK
  <2>8. clrLeft' \in BOOLEAN /\ halted' \in BOOLEAN
    BY <1>2
    DEF Loop, GetPortStatus, GetPortStatusFails, ClearPort, NewChild,
        ChildKept, ChildFails, ChildThere, ToReset, ResetPort, RemoveChild,
        TypeOK
  <2>9. ena' \in [Ports -> BOOLEAN]
    BY <1>2, <2>1
    DEF Loop, GetPortStatus, GetPortStatusFails, ClearPort, NewChild,
        ChildKept, ChildFails, ChildThere, ToReset, ResetPort, RemoveChild,
        TypeOK
  <2>10. chg' \in [Ports -> SUBSET Changes]
    <3>1. /\ chg[Port] \cup {RESET} \in SUBSET Changes
          /\ chg[Port] \ {Least(st.chg)} \in SUBSET Changes
      BY <2>1 DEF TypeOK, Changes
    <3>2. \/ chg' = chg
          \/ chg' = [chg EXCEPT ![Port] = @ \cup {RESET}]
          \/ chg' = [chg EXCEPT ![Port] = @ \ {Least(st.chg)}]
      BY <1>2
      DEF Loop, GetPortStatus, GetPortStatusFails, ClearPort, NewChild,
          ChildKept, ChildFails, ChildThere, ToReset, ResetPort, RemoveChild
    <3> QED
      BY <2>1, <3>1, <3>2 DEF TypeOK
  <2> QED
    BY <2>1, <2>2, <2>3, <2>4, <2>5, <2>6, <2>7, <2>8, <2>9,
       <2>10
    DEF LoopFrame, TypeOK, Steering, ClassUp, AtPort
<1> QED
  BY <1>1, <1>2

LEMMA EndpointType ==
  ASSUME TypeOK, Steering, Endpoint \/ SOFProcess
  PROVE  TypeOK' /\ Steering'
<1>1. events' \in 0 .. QueueLen
  BY PostType
  DEF Endpoint, IntrDone, IntrNak, IntrError, IntrStall, SOFProcess, TypeOK
<1>2. faults' \in 0 .. MaxFaults /\ stalls' \in 0 .. MaxStalls
  BY FaultType, Constants
  DEF Endpoint, IntrDone, IntrNak, IntrError, IntrStall, SOFProcess, NoFault,
      TypeOK
<1>3. /\ ctl' \in CtlStates
      /\ urb' \in {"IDLE", "DONE", "NOTREADY", "STALL"} /\ buf' \subseteq Ports
  BY DEF Endpoint, IntrDone, IntrNak, IntrError, IntrStall, SOFProcess, TypeOK,
         CtlStates, Changed
<1>4. armed' \in BOOLEAN /\ halted' \in BOOLEAN
  BY DEF Endpoint, IntrDone, IntrNak, IntrError, IntrStall, SOFProcess, TypeOK
<1>5. ctl' = ctl \/ (ctl = "SCAN_PORT" /\ ctl' = "SCAN_PORT_WAIT")
  BY DEF Endpoint, IntrDone, IntrNak, IntrError, IntrStall, SOFProcess
<1>6. EndpointFrame
  BY DEF Endpoint, IntrDone, IntrNak, IntrError, IntrStall, SOFProcess
<1> QED
  BY <1>1, <1>2, <1>3, <1>4, <1>5, <1>6
  DEF EndpointFrame, TypeOK, Steering, ClassUp, AtPort, thread, hub

LEMMA HubPortsType ==
  ASSUME TypeOK, Steering, HubPorts
  PROVE  TypeOK' /\ Steering'
<1>1. PortFrame
  BY DEF HubPorts, Plug, Unplug, PortError, OverCurrent, HubUnplugged
<1>2. faults' \in 0 .. MaxFaults
  BY FaultType
  DEF HubPorts, Plug, Unplug, PortError, OverCurrent, HubUnplugged, TypeOK
<1>3. devices' \in Devices /\ dev' \in [Ports -> Devices]
  BY Constants
  DEF HubPorts, Plug, Unplug, PortError, OverCurrent, HubUnplugged, TypeOK,
      Devices
<1>4. pow' \in [Ports -> BOOLEAN] /\ ena' \in [Ports -> BOOLEAN]
  BY DEF HubPorts, Plug, Unplug, PortError, OverCurrent, HubUnplugged, TypeOK
<1>5. chg' \in [Ports -> SUBSET Changes]
  <2>1. {CONNECTION, ENABLE, OVER_CURRENT} \subseteq Changes
    BY DEF Changes
  <2> QED
    BY <2>1
    DEF HubPorts, Plug, Unplug, PortError, OverCurrent, HubUnplugged, TypeOK
<1>6. gone' \in BOOLEAN
  BY DEF HubPorts, Plug, Unplug, PortError, OverCurrent, HubUnplugged, TypeOK
<1>7. missed' \subseteq Ports
  BY DEF HubPorts, Plug, Unplug, PortError, OverCurrent, HubUnplugged, TypeOK
<1> QED
  BY <1>1, <1>2, <1>3, <1>4, <1>5, <1>6, <1>7
  DEF PortFrame, TypeOK, Steering, ClassUp, AtPort, thread, endpoint

LEMMA TypeStep == TypeOK /\ Steering /\ [Next]_vars => TypeOK' /\ Steering'
<1> SUFFICES ASSUME TypeOK, Steering, Next \/ UNCHANGED vars
             PROVE  TypeOK' /\ Steering'
  OBVIOUS
<1>1. CASE UNCHANGED vars
  BY <1>1
  DEF vars, thread, endpoint, hub, counts, TypeOK, Steering, ClassUp, AtPort
<1> QED
  BY <1>1, ClassRequestType, PassesType, LoopType, EndpointType, HubPortsType
  DEF Next, Process

LEMMA InitType == Init => TypeOK /\ Steering
<1> SUFFICES ASSUME Init PROVE TypeOK /\ Steering
  OBVIOUS
<1> USE Constants
<1>1. st \in Status
  BY DEF Init, Status, Devices
<1>2. 0 \in Devices /\ 1 \in 0 .. QueueLen /\ 1 \in 1 .. NumPorts + 1
  BY DEF Devices
<1>3. /\ ctl \in CtlStates /\ portIndex \in 1 .. NumPorts + 1
      /\ portState \subseteq Ports /\ todo \subseteq Ports
      /\ clrLeft \in BOOLEAN /\ events \in 0 .. QueueLen
      /\ pc \in {"sleep", "port", "clear", "child", "reset"}
  BY <1>2 DEF Init, CtlStates
<1>4. /\ urb \in {"IDLE", "DONE", "NOTREADY", "STALL"} /\ armed \in BOOLEAN
      /\ buf \subseteq Ports /\ halted \in BOOLEAN
      /\ gone \in BOOLEAN /\ missed \subseteq Ports
  BY DEF Init
<1>5. /\ child \in [Ports -> Devices] /\ dev \in [Ports -> Devices]
      /\ pow \in [Ports -> BOOLEAN] /\ ena \in [Ports -> BOOLEAN]
      /\ chg \in [Ports -> SUBSET Changes]
  BY <1>2 DEF Init
<1>6. devices \in Devices /\ faults \in 0 .. MaxFaults /\ stalls \in 0 .. MaxStalls
  BY <1>2 DEF Init
<1>7. Steering
  BY DEF Init, Steering, AtPort, ClassUp
<1> QED
  BY <1>1, <1>3, <1>4, <1>5, <1>6, <1>7 DEF TypeOK

\* The driver's state, the endpoint and the ports always hold values of their
\* types: the loop is at one of the hub's ports, and no port beyond them is
\* switched on.
THEOREM TypeCorrect == Spec => []TypeOK
BY InitType, TypeStep, PTL DEF Spec

-----------------------------------------------------------------------------
(* What the status says of the port the loop is at.                          *)

\* Connections are numbered as they come.
Numbered ==
  /\ st.dev <= devices
  /\ \A p \in Ports : dev[p] <= devices

\* Before the class is up there is no child, and while one is made the port
\* has none.
ChildIsNew ==
  /\ ~ClassUp => \A p \in Ports : child[p] = 0
  /\ pc = "child" => child[Port] = 0 /\ st.conn /\ st.ena
  /\ pc = "reset" /\ child[Port] # 0 => ~st.ena

\* The port of a live child is enabled.
LiveIsEnabled ==
  \A p \in Ports \ missed : child[p] # 0 /\ child[p] = dev[p] /\ pow[p] => ena[p]

\* The status may be of an earlier device only if the port has no child, and
\* else it still holds.
StatusHolds ==
  AtPort /\ Port \notin missed /\ dev[Port] # 0 /\ pow[Port] =>
    /\ child[Port] # 0 => st.dev = dev[Port]
    /\ st.dev = dev[Port] => st.ena = ena[Port] /\ st.conn

Live == Numbered /\ ChildIsNew /\ LiveIsEnabled /\ StatusHolds

\* The step KeepsLiveChild allows.
Keeps ==
  \A p \in Ports \ missed :
    child[p] # 0 /\ child[p] = dev[p] /\ pow[p] =>
      /\ child'[p] = child[p]
      /\ ~(pc = "reset" /\ pc' = "port" /\ Port = p)

Inv == TypeOK /\ Steering /\ Live

\* Steps that leave the ports, the handles, the status and the port the loop is
\* at, or that leave the loop at none.
LEMMA LiveFrame ==
  ASSUME Inv,
         UNCHANGED <<st, child, dev, pow, ena, missed, devices>>,
         \/ UNCHANGED <<todo, pc>> \/ pc' \in {"sleep", "port"},
         ClassUp => ClassUp'
  PROVE  Live'
<1>1. Numbered' /\ LiveIsEnabled'
  BY DEF Inv, Live, Numbered, LiveIsEnabled
<1>2. CASE UNCHANGED <<todo, pc>>
  <2>1. Port' = Port
    BY <1>2 DEF Port, Least
  <2>2. ChildIsNew'
    BY <1>2, <2>1 DEF Inv, Live, ChildIsNew
  <2>3. StatusHolds'
    BY <1>2, <2>1 DEF Inv, Live, StatusHolds, AtPort
  <2> QED
    BY <1>1, <2>2, <2>3 DEF Live
<1>3. CASE pc' \in {"sleep", "port"}
  BY <1>1, <1>3 DEF Inv, Live, ChildIsNew, StatusHolds, AtPort
<1> QED
  BY <1>2, <1>3

\* The loop's steps that neither make nor remove a handle, reset no port and
\* read no status.
LEMMA QuietLoopLive ==
  ASSUME Inv, ChildThere \/ LoopEnd
  PROVE  Live' /\ Keeps
<1>1. UNCHANGED <<st, child, dev, pow, ena, missed, devices>>
  BY DEF ChildThere, LoopEnd, LoopFrame, hub, counts
<1>2. pc # "reset" /\ pc' \in {"sleep", "port"} /\ ClassUp /\ ClassUp'
  BY DEF ChildThere, LoopEnd, LoopFrame, NextPort, Decide, Inv, Steering, ClassUp
<1>3. Live'
  BY <1>1, <1>2, LiveFrame
<1> QED
  BY <1>1, <1>2, <1>3 DEF Keeps

LEMMA GetPortStatusFailsLive ==
  ASSUME Inv, GetPortStatusFails
  PROVE  Live' /\ Keeps
<1>1. UNCHANGED <<st, child, dev, pow, ena, devices>> /\ missed \subseteq missed'
  BY DEF GetPortStatusFails, LoopFrame
<1>2. pc = "port" /\ pc' = "port" /\ ClassUp /\ ClassUp'
  BY DEF GetPortStatusFails, LoopFrame, NextPort, Inv, Steering, ClassUp
<1>3. Live'
  BY <1>1, <1>2
  DEF Inv, Live, Numbered, ChildIsNew, LiveIsEnabled, StatusHolds, AtPort
<1> QED
  BY <1>1, <1>2, <1>3 DEF Keeps

LEMMA GetPortStatusLive ==
  ASSUME Inv, GetPortStatus
  PROVE  Live' /\ Keeps
<1>1. Port \in Ports /\ Port' = Port /\ pc = "port"
  BY PortType DEF Inv, GetPortStatus, Port, Least
<1>2. /\ ClassUp /\ ClassUp' /\ pc' \in {"clear", "port"}
      /\ UNCHANGED <<child, dev, pow, ena, devices>>
  BY <1>1 DEF GetPortStatus, LoopFrame, Inv, Steering, ClassUp
<1>3. \/ st' = st /\ missed' = missed \cup {Port}
      \/ st' = Reading /\ missed' = missed
      \/ /\ st' = Reading /\ missed' = missed \ {Port}
         /\ 0 \in {child[Port], dev[Port]}
  BY DEF GetPortStatus
<1>4. Reading.dev = dev[Port] /\ Reading.conn = (dev[Port] # 0 /\ pow[Port])
      /\ Reading.ena = ena[Port]
  BY DEF Reading
<1>5. Numbered'
  BY <1>1, <1>2, <1>3, <1>4 DEF Inv, Live, Numbered
<1>6. ChildIsNew'
  BY <1>2 DEF ChildIsNew
<1>7. LiveIsEnabled'
  BY <1>1, <1>2, <1>3 DEF Inv, Live, LiveIsEnabled
<1>8. StatusHolds'
  BY <1>1, <1>2, <1>3, <1>4 DEF StatusHolds
<1> QED
  BY <1>1, <1>2, <1>5, <1>6, <1>7, <1>8 DEF Live, Keeps

LEMMA ClearPortLive ==
  ASSUME Inv, ClearPort
  PROVE  Live' /\ Keeps
<1>1. Port' = Port /\ pc = "clear" /\ pc' = pc /\ ClassUp /\ ClassUp'
  BY DEF Inv, ClearPort, LoopFrame, Port, Least, Steering, ClassUp
<1>2. UNCHANGED <<child, dev, pow, ena, devices>> /\ missed \subseteq missed'
  BY DEF ClearPort, LoopFrame
<1>3. st'.dev = st.dev /\ st'.ena = st.ena /\ st'.conn = st.conn
  BY DEF ClearPort, Inv, TypeOK, Status
<1>4. Numbered' /\ ChildIsNew' /\ LiveIsEnabled'
  BY <1>1, <1>2, <1>3 DEF Inv, Live, Numbered, ChildIsNew, LiveIsEnabled
<1>5. StatusHolds'
  BY <1>1, <1>2, <1>3 DEF Inv, Live, StatusHolds, AtPort
<1> QED
  BY <1>1, <1>2, <1>4, <1>5 DEF Live, Keeps

\* Towards a new child, or a reset: the status still holds.
LEMMA DecideLive ==
  ASSUME Inv, NewChild \/ ChildFails \/ ToReset
  PROVE  Live' /\ Keeps
<1>1. Port' = Port /\ pc \in {"clear", "child"} /\ ClassUp /\ ClassUp'
  BY DEF Inv, NewChild, ChildFails, ToReset, Decide, LoopFrame, Port, Least,
         Steering, ClassUp
<1>2. UNCHANGED <<st, child, dev, pow, ena, devices, missed>>
  BY DEF NewChild, ChildFails, ToReset, LoopFrame
<1>3. ChildIsNew'
  BY <1>1, <1>2
  DEF Inv, Live, ChildIsNew, NewChild, ChildFails, ToReset, Decide
<1>4. StatusHolds'
  BY <1>1, <1>2 DEF Inv, Live, StatusHolds, AtPort
<1> QED
  BY <1>1, <1>2, <1>3, <1>4
  DEF Inv, Live, Keeps, Numbered, LiveIsEnabled

LEMMA ChildKeptLive ==
  ASSUME Inv, ChildKept
  PROVE  Live' /\ Keeps
<1>1. Port \in Ports /\ child[Port] = 0 /\ st.ena /\ AtPort
  BY PortType DEF Inv, Steering, AtPort, ChildKept, Live, ChildIsNew
<1>2. /\ UNCHANGED <<st, dev, pow, ena, devices>> /\ missed \subseteq missed'
      /\ child' = [child EXCEPT ![Port] = st.dev]
      /\ ClassUp' /\ pc = "child" /\ pc' = "port"
  BY DEF ChildKept, LoopFrame, NextPort, Inv, Steering, ClassUp
<1>3. LiveIsEnabled'
  <2> SUFFICES ASSUME NEW p \in Ports \ missed', child'[p] # 0,
                      child'[p] = dev[p], pow[p]
               PROVE  ena[p]
    BY <1>2 DEF LiveIsEnabled
  <2>1. CASE p = Port
    BY <1>1, <1>2, <2>1 DEF Inv, TypeOK, Live, StatusHolds
  <2>2. CASE p # Port
    BY <1>2, <2>2 DEF Inv, TypeOK, Live, LiveIsEnabled
  <2> QED
    BY <2>1, <2>2
<1>4. Keeps
  BY <1>1, <1>2 DEF Keeps, Inv, TypeOK
<1> QED
  BY <1>2, <1>3, <1>4
  DEF Inv, Live, Numbered, ChildIsNew, StatusHolds, AtPort

LEMMA RemoveChildLive ==
  ASSUME Inv, RemoveChild
  PROVE  Live' /\ Keeps
<1>1. Port \in Ports /\ AtPort /\ ~st.conn
  BY PortType DEF Inv, Steering, AtPort, RemoveChild, Decide
<1>2. /\ UNCHANGED <<st, dev, pow, ena, devices, missed>>
      /\ child' = [child EXCEPT ![Port] = 0]
      /\ ClassUp' /\ pc = "clear" /\ pc' = "port"
  BY DEF RemoveChild, Decide, LoopFrame, NextPort, Inv, Steering, ClassUp
<1>3. LiveIsEnabled'
  BY <1>2 DEF Inv, TypeOK, Live, LiveIsEnabled
<1>4. Keeps
  BY <1>1, <1>2 DEF Keeps, Inv, TypeOK, Live, StatusHolds
<1> QED
  BY <1>2, <1>3, <1>4
  DEF Inv, Live, Numbered, ChildIsNew, StatusHolds, AtPort

LEMMA ResetPortLive ==
  ASSUME Inv, ResetPort
  PROVE  Live' /\ Keeps
<1>1. Port \in Ports /\ AtPort
  BY PortType DEF Inv, Steering, AtPort, ResetPort
<1>2. /\ UNCHANGED <<st, child, dev, pow, devices, missed>>
      /\ ena' \in {ena, [ena EXCEPT ![Port] = TRUE]}
      /\ ClassUp' /\ pc = "reset" /\ pc' = "port"
  BY DEF ResetPort, LoopFrame, Inv, Steering, ClassUp
<1>3. LiveIsEnabled'
  BY <1>2 DEF Inv, TypeOK, Live, LiveIsEnabled
<1>4. ~(/\ Port \notin missed /\ child[Port] # 0 /\ child[Port] = dev[Port]
        /\ pow[Port])
  BY <1>1, <1>2 DEF Inv, Live, ChildIsNew, StatusHolds, LiveIsEnabled
<1>5. Keeps
  BY <1>2, <1>4 DEF Keeps
<1> QED
  BY <1>2, <1>3, <1>5
  DEF Inv, Live, Numbered, ChildIsNew, StatusHolds, AtPort

LEMMA LoopLive ==
  ASSUME Inv, Loop
  PROVE  Live' /\ Keeps
BY QuietLoopLive, GetPortStatusLive, GetPortStatusFailsLive, ClearPortLive,
   DecideLive, ChildKeptLive, RemoveChildLive, ResetPortLive DEF Loop

LEMMA ClassRequestLive ==
  ASSUME Inv, ClassRequest
  PROVE  Live' /\ Keeps
<1>1. ~ClassUp /\ pc = "sleep" /\ pc' = "sleep"
  BY DEF ClassRequest, GetHubDesc, SetPortPower, ClassUp, Inv, Steering, thread
<1>2. UNCHANGED <<st, child, dev, ena, missed, devices>>
  BY DEF ClassRequest, GetHubDesc, SetPortPower, thread, hub, counts
<1>3. \A p \in Ports : child[p] = 0
  BY <1>1 DEF Inv, Live, ChildIsNew
<1> QED
  BY <1>1, <1>2, <1>3
  DEF Inv, Live, Keeps, Numbered, ChildIsNew, LiveIsEnabled, StatusHolds,
      AtPort

\* A pass with nothing to do for a port, the endpoint and the frames.
LEMMA PassesLive ==
  ASSUME Inv,
         \/ ScanPort \/ ScanPortDone \/ ScanPortStall \/ ScanPortWait
         \/ ClrFeatureWaits \/ ClrFeatureDone \/ EnumPort
         \/ Endpoint \/ SOFProcess
  PROVE  Live' /\ Keeps
<1>1. UNCHANGED <<st, child, dev, pow, ena, missed, devices>>
  BY DEF ScanPort, ScanPortDone, ScanPortStall, ScanPortWait, ClrFeatureWaits,
         ClrFeatureDone, ClrFeature, EnumPort, Endpoint, IntrDone, IntrNak,
         IntrError, IntrStall, SOFProcess, EndpointFrame, thread, hub, counts
<1>2. \/ UNCHANGED <<todo, pc>>
      \/ pc = "sleep" /\ pc' = "port"
  BY DEF ScanPort, ScanPortDone, ScanPortStall, ScanPortWait, ClrFeatureWaits,
         ClrFeatureDone, ClrFeature, Pass, EnumPort, Endpoint, IntrDone, IntrNak,
         IntrError, IntrStall, SOFProcess, EndpointFrame, thread, hub, counts
<1>3. ClassUp => ClassUp'
  BY DEF ScanPort, ScanPortDone, ScanPortStall, ScanPortWait, ClrFeatureWaits,
         ClrFeatureDone, ClrFeature, EnumPort, Endpoint, IntrDone, IntrNak,
         IntrError, IntrStall, SOFProcess, EndpointFrame, ClassUp
<1>4. Live'
  BY <1>1, <1>2, <1>3, LiveFrame
<1> QED
  BY <1>1, <1>2, <1>4 DEF Keeps

LEMMA HubPortsLive ==
  ASSUME Inv, HubPorts
  PROVE  Live' /\ Keeps
<1>1. UNCHANGED <<st, child, pc, todo, ctl>> /\ Port' = Port
  BY DEF HubPorts, Plug, Unplug, PortError, OverCurrent, HubUnplugged,
         PortFrame, thread, Port, Least
<1>2. Keeps /\ ChildIsNew'
  BY <1>1 DEF Keeps, Inv, Live, ChildIsNew, ClassUp
<1>3. AtPort => Port \in Ports
  BY PortType DEF Inv, Steering
<1>4. ASSUME NEW q \in Ports, Plug(q)
      PROVE  Numbered' /\ LiveIsEnabled' /\ StatusHolds'
  <2>1. /\ devices' = devices + 1 /\ dev[q] = 0
        /\ dev' = [dev EXCEPT ![q] = devices + 1]
        /\ missed' = IF child[q] # 0 THEN missed \cup {q} ELSE missed
        /\ UNCHANGED <<pow, ena>>
    BY <1>4 DEF Plug
  <2>2. devices \in Nat /\ st.dev \in Nat /\ \A p \in Ports : dev[p] \in Nat
    BY DEF Inv, TypeOK, Status, Devices
  <2>3. Numbered'
    BY <1>1, <2>1, <2>2 DEF Inv, TypeOK, Live, Numbered
  <2>4. LiveIsEnabled'
    BY <1>1, <2>1 DEF Inv, TypeOK, Live, LiveIsEnabled
  <2>5. StatusHolds'
    BY <1>1, <1>3, <2>1, <2>2
    DEF Inv, TypeOK, Live, StatusHolds, AtPort, Numbered
  <2> QED
    BY <2>3, <2>4, <2>5
<1>5. ASSUME NEW q \in Ports, Unplug(q)
      PROVE  Numbered' /\ LiveIsEnabled' /\ StatusHolds'
  <2>1. /\ dev' = [dev EXCEPT ![q] = 0] /\ ena' = [ena EXCEPT ![q] = FALSE]
        /\ UNCHANGED <<pow, missed, devices>>
    BY <1>5 DEF Unplug
  <2>2. devices \in Nat
    BY DEF Inv, TypeOK, Devices
  <2>3. Numbered'
    BY <1>1, <2>1, <2>2 DEF Inv, TypeOK, Live, Numbered
  <2>4. LiveIsEnabled'
    BY <1>1, <2>1 DEF Inv, TypeOK, Live, LiveIsEnabled
  <2>5. StatusHolds'
    BY <1>1, <1>3, <2>1 DEF Inv, TypeOK, Live, StatusHolds, AtPort
  <2> QED
    BY <2>3, <2>4, <2>5
<1>6. ASSUME NEW q \in Ports, PortError(q) \/ OverCurrent(q)
      PROVE  Numbered' /\ LiveIsEnabled' /\ StatusHolds'
  <2>1. /\ ena' = [ena EXCEPT ![q] = FALSE] /\ UNCHANGED <<dev, devices>>
        /\ \/ pow' = pow /\ missed' = missed \cup {q}
           \/ pow' = [pow EXCEPT ![q] = FALSE] /\ missed' = missed
    BY <1>6 DEF PortError, OverCurrent
  <2>2. Numbered'
    BY <1>1, <2>1 DEF Inv, Live, Numbered
  <2>3. LiveIsEnabled'
    BY <2>1, <1>1 DEF Inv, TypeOK, Live, LiveIsEnabled
  <2>4. StatusHolds'
    BY <1>1, <1>3, <2>1 DEF Inv, TypeOK, Live, StatusHolds, AtPort
  <2> QED
    BY <2>2, <2>3, <2>4
<1>7. CASE HubUnplugged
  <2>1. /\ pow' = [p \in Ports |-> FALSE] /\ dev' = [p \in Ports |-> 0]
        /\ devices' = devices /\ devices \in Nat
    BY <1>7 DEF HubUnplugged, Inv, TypeOK, Devices
  <2> QED
    BY <1>1, <1>2, <1>3, <2>1
    DEF Inv, Live, Numbered, LiveIsEnabled, StatusHolds, AtPort
<1> QED
  BY <1>1, <1>2, <1>4, <1>5, <1>6, <1>7 DEF HubPorts, Live

LEMMA LiveStep == Inv /\ [Next]_vars => Live' /\ [Keeps]_vars
<1> SUFFICES ASSUME Inv, Next \/ UNCHANGED vars
             PROVE  Live' /\ (Keeps \/ UNCHANGED vars)
  OBVIOUS
<1>1. CASE UNCHANGED vars
  BY <1>1, LiveFrame DEF vars, thread, hub, counts, ClassUp
<1> QED
  BY <1>1, ClassRequestLive, PassesLive, LoopLive, HubPortsLive
  DEF Next, Process

LEMMA InitLive == Init => Live
BY Constants
DEF Init, Live, Numbered, ChildIsNew, LiveIsEnabled, StatusHolds, AtPort

\* A device that is still there keeps its handle, and its port is not reset
\* under it, as long as the driver could see every change of the port.
THEOREM LiveChildKept == Spec => KeepsLiveChild
<1>1. Init => Inv
  BY InitType, InitLive DEF Inv
<1>2. Inv /\ [Next]_vars => Inv'
  BY TypeStep, LiveStep DEF Inv
<1>3. Inv /\ [Next]_vars => [Keeps]_vars
  BY LiveStep
<1> QED
  BY <1>1, <1>2, <1>3, PTL DEF Spec, KeepsLiveChild, Keeps

-----------------------------------------------------------------------------
(* Every change is worked off: a difference between a port's device and its   *)
(* child is noted in the port's changes, or the loop is at the port and acts  *)
(* on a status of the device that is there now.                               *)

\* The loop is at the port and will look at it, or has.
Working(p) ==
  /\ todo # {} /\ Port = p
  /\ pc = "port" \/ (AtPort /\ st.dev = dev[p])

\* Nothing is connected to a port without power.
Unpowered == ~ClassUp => \A p \in Ports : ~pow[p] => dev[p] = 0

\* A handle is of the device at the port, or of one that left an empty port.
Fresh == \A p \in Ports \ missed : child[p] # 0 /\ dev[p] # 0 => child[p] = dev[p]

\* A status that is no longer true has its connection change still to come.
StatusCurrent ==
  AtPort /\ Port \notin missed /\ ~gone =>
    /\ st.conn => st.dev # 0
    /\ pow[Port] /\ st.dev # dev[Port] => CONNECTION \in chg[Port]

Noted ==
  \A p \in Ports \ missed :
    pow[p] /\ ~gone /\ child[p] # dev[p] => chg[p] # {} \/ Working(p)

Settled == Unpowered /\ Fresh /\ StatusCurrent /\ Noted

\* Steps that move neither the loop, within its ports, nor the ports.
LEMMA SettledFrame ==
  ASSUME Inv, Settled,
         UNCHANGED <<st, child, dev, pow, chg, gone, missed>>,
         UNCHANGED <<todo, pc>> \/ (pc = "sleep" /\ pc' = "port"),
         ClassUp' = ClassUp
  PROVE  Settled'
<1>1. Unpowered' /\ Fresh'
  BY DEF Settled, Unpowered, Fresh
<1>2. CASE UNCHANGED <<todo, pc>>
  <2>1. Port' = Port
    BY <1>2 DEF Port, Least
  <2>2. StatusCurrent'
    BY <1>2, <2>1 DEF Settled, StatusCurrent, AtPort
  <2>3. Noted'
    BY <1>2, <2>1 DEF Settled, Noted, Working, AtPort
  <2> QED
    BY <1>1, <2>2, <2>3 DEF Settled
<1>3. CASE pc = "sleep" /\ pc' = "port"
  BY <1>1, <1>3 DEF Settled, StatusCurrent, Noted, Working, AtPort
<1> QED
  BY <1>2, <1>3

LEMMA PassesSettled ==
  ASSUME Inv, Settled,
         \/ ScanPort \/ ScanPortDone \/ ScanPortStall \/ ScanPortWait
         \/ ClrFeatureWaits \/ ClrFeatureDone \/ EnumPort
         \/ Endpoint \/ SOFProcess
  PROVE  Settled'
<1>1. UNCHANGED <<st, child, dev, pow, chg, gone, missed>>
  BY DEF ScanPort, ScanPortDone, ScanPortStall, ScanPortWait, ClrFeatureWaits,
         ClrFeatureDone, ClrFeature, EnumPort, Endpoint, IntrDone, IntrNak,
         IntrError, IntrStall, SOFProcess, EndpointFrame, thread, hub, counts
<1>2. \/ UNCHANGED <<todo, pc>>
      \/ pc = "sleep" /\ pc' = "port"
  BY DEF ScanPort, ScanPortDone, ScanPortStall, ScanPortWait, ClrFeatureWaits,
         ClrFeatureDone, ClrFeature, Pass, EnumPort, Endpoint, IntrDone, IntrNak,
         IntrError, IntrStall, SOFProcess, EndpointFrame, thread, hub, counts
<1>3. ClassUp' = ClassUp
  BY DEF ScanPort, ScanPortDone, ScanPortStall, ScanPortWait, ClrFeatureWaits,
         ClrFeatureDone, ClrFeature, Pass, EnumPort, Endpoint, IntrDone, IntrNak,
         IntrError, IntrStall, SOFProcess, EndpointFrame, ClassUp
<1> QED
  BY <1>1, <1>2, <1>3, SettledFrame

LEMMA ClassRequestSettled ==
  ASSUME Inv, Settled, ClassRequest
  PROVE  Settled'
<1>1. ~ClassUp /\ pc = "sleep" /\ pc' = "sleep"
  BY DEF ClassRequest, GetHubDesc, SetPortPower, ClassUp, Inv, Steering, thread
<1>2. /\ UNCHANGED <<child, dev, chg, gone, missed>>
      /\ \/ pow' = pow
         \/ pow' = [pow EXCEPT ![portIndex] = TRUE]
  BY DEF ClassRequest, GetHubDesc, SetPortPower, thread, hub
<1>3. ASSUME NEW p \in Ports, ~pow[p] PROVE dev[p] = 0 /\ child[p] = 0
  BY <1>1, <1>3 DEF Settled, Unpowered, Inv, Live, ChildIsNew
<1>4. Unpowered'
  BY <1>2, <1>3 DEF Unpowered, Inv, TypeOK
<1>5. Noted'
  <2> SUFFICES ASSUME NEW p \in Ports \ missed, pow'[p], ~gone, child[p] # dev[p]
               PROVE  chg[p] # {}
    BY <1>2 DEF Noted
  <2>1. pow[p]
    BY <1>3
  <2> QED
    BY <1>1, <2>1 DEF Settled, Noted, Working, AtPort
<1> QED
  BY <1>1, <1>2, <1>4, <1>5 DEF Settled, Fresh, StatusCurrent, AtPort

\* The loop's steps leave the other ports' notes alone: it is at none of them.
LEMMA NotedElsewhere ==
  ASSUME Inv, Settled, todo # {}, LoopFrame,
         NEW p \in Ports, p # Port, p \notin missed, pow[p], ~gone,
         child[p] # dev[p]
  PROVE  chg[p] # {}
BY DEF Settled, Noted, Working

LEMMA GetPortStatusSettled ==
  ASSUME Inv, Settled, GetPortStatus
  PROVE  Settled'
<1>1. /\ Port \in Ports /\ Port' = Port /\ pc = "port" /\ todo # {} /\ ~gone
      /\ todo' = todo
  BY PortType DEF Inv, GetPortStatus, Request, Port, Least
<1>2. /\ ClassUp /\ ClassUp' /\ LoopFrame
      /\ UNCHANGED <<child, dev, pow, chg, gone>>
  BY <1>1 DEF GetPortStatus, LoopFrame, Inv, Steering, ClassUp
<1>3. \/ missed' = missed \cup {Port}
      \/ /\ st'.dev = dev[Port] /\ (st'.conn => dev[Port] # 0)
         /\ \/ missed' = missed
            \/ missed' = missed \ {Port} /\ 0 \in {child[Port], dev[Port]}
  <2>1. Reading.dev = dev[Port] /\ (Reading.conn => dev[Port] # 0)
    BY DEF Reading
  <2> QED
    BY <2>1 DEF GetPortStatus
<1>4. Unpowered' /\ Fresh' /\ StatusCurrent'
  BY <1>1, <1>2, <1>3 DEF Settled, Unpowered, Fresh, StatusCurrent
<1>5. pc' \in {"clear", "port"}
  BY DEF GetPortStatus
<1>6. Noted'
  <2> SUFFICES ASSUME NEW p \in Ports \ missed', pow[p], child[p] # dev[p]
               PROVE  chg[p] # {} \/ Working(p)'
    BY <1>2 DEF Noted
  <2>1. CASE p = Port
    BY <1>1, <1>2, <1>3, <1>5, <2>1 DEF Working, AtPort
  <2>2. CASE p # Port
    BY <1>1, <1>2, <1>3, <2>2, NotedElsewhere
  <2> QED
    BY <2>1, <2>2
<1> QED
  BY <1>4, <1>6 DEF Settled

LEMMA GetPortStatusFailsSettled ==
  ASSUME Inv, Settled, GetPortStatusFails
  PROVE  Settled'
<1>1. Port \in Ports /\ pc = "port" /\ todo # {} /\ pc' = "port"
  BY PortType DEF Inv, GetPortStatusFails, NextPort
<1>2. /\ ClassUp /\ ClassUp' /\ LoopFrame
      /\ UNCHANGED <<child, dev, pow, chg, gone>>
  BY <1>1 DEF GetPortStatusFails, LoopFrame, Inv, Steering, ClassUp
<1>3. missed' = IF chg[Port] = {} /\ child[Port] # dev[Port]
                THEN missed \cup {Port} ELSE missed
  BY DEF GetPortStatusFails
<1>4. Unpowered' /\ Fresh' /\ StatusCurrent'
  BY <1>1, <1>2, <1>3 DEF Settled, Unpowered, Fresh, StatusCurrent, AtPort
<1>5. Noted'
  <2> SUFFICES ASSUME NEW p \in Ports \ missed', pow[p], ~gone, child[p] # dev[p]
               PROVE  chg[p] # {}
    BY <1>2 DEF Noted
  <2>1. CASE p = Port
    BY <1>3, <2>1
  <2>2. CASE p # Port
    BY <1>1, <1>2, <1>3, <2>2, NotedElsewhere
  <2> QED
    BY <2>1, <2>2
<1> QED
  BY <1>4, <1>5 DEF Settled

\* A change may be cleared that came after the status was read: then the port
\* is one of those the driver cannot see.
LEMMA ClearPortSettled ==
  ASSUME Inv, Settled, ClearPort
  PROVE  Settled'
<1>1. /\ Port' = Port /\ Port \in Ports /\ pc = "clear" /\ pc' = pc
      /\ todo # {} /\ todo' = todo /\ ClassUp /\ ClassUp'
  BY PortType
  DEF Inv, ClearPort, LoopFrame, Port, Least, Steering, AtPort, ClassUp
<1>2. UNCHANGED <<child, dev, pow, gone>> /\ LoopFrame
  BY DEF ClearPort, LoopFrame
<1>3. st'.dev = st.dev /\ st'.conn = st.conn
  BY DEF ClearPort, Inv, TypeOK, Status
<1>4. /\ missed \subseteq missed'
      /\ \A p \in Ports : p # Port => chg'[p] = chg[p]
      /\ \/ chg' = chg
         \/ /\ chg'[Port] = chg[Port] \ {Least(st.chg)}
            /\ Least(st.chg) = CONNECTION /\ dev[Port] # st.dev => Port \in missed'
  BY <1>1 DEF ClearPort, Inv, TypeOK
<1>5. Unpowered' /\ Fresh' /\ StatusCurrent'
  BY <1>1, <1>2, <1>3, <1>4 DEF Settled, Unpowered, Fresh, StatusCurrent, AtPort
<1>6. Noted'
  <2> SUFFICES ASSUME NEW p \in Ports \ missed', pow[p], ~gone, child[p] # dev[p]
               PROVE  chg'[p] # {} \/ Working(p)'
    BY <1>2 DEF Noted
  <2>1. CASE p = Port
    <3>1. st'.dev = dev[p] \/ CONNECTION \in chg'[p]
      BY <1>1, <1>2, <1>5, <2>1 DEF StatusCurrent, AtPort
    <3> QED
      BY <1>1, <1>2, <2>1, <3>1 DEF Working, AtPort
  <2>2. CASE p # Port
    BY <1>1, <1>2, <1>4, <2>2, NotedElsewhere
  <2> QED
    BY <2>1, <2>2
<1> QED
  BY <1>5, <1>6 DEF Settled

\* Steps that stay at the port.
LEMMA DecideSettled ==
  ASSUME Inv, Settled, NewChild \/ ChildFails \/ ToReset \/ ResetPort
  PROVE  Settled'
<1>1. /\ Port' = Port /\ Port \in Ports /\ AtPort /\ todo # {} /\ todo' = todo
      /\ ClassUp /\ ClassUp'
  BY PortType
  DEF Inv, NewChild, ChildFails, ToReset, ResetPort, Decide, LoopFrame, Port,
      Least, Steering, AtPort, ClassUp
<1>2. /\ UNCHANGED <<st, child, dev, pow, gone, missed>> /\ LoopFrame
      /\ pc' \in {"port", "child", "reset"}
  BY DEF NewChild, ChildFails, ToReset, ResetPort, LoopFrame
<1>3. \A p \in Ports : chg[p] \subseteq chg'[p]
  BY <1>1 DEF NewChild, ChildFails, ToReset, ResetPort, Inv, TypeOK
<1>4. Unpowered' /\ Fresh' /\ StatusCurrent'
  BY <1>1, <1>2, <1>3 DEF Settled, Unpowered, Fresh, StatusCurrent, AtPort
<1>5. Noted'
  <2> SUFFICES ASSUME NEW p \in Ports \ missed, pow[p], ~gone, child[p] # dev[p]
               PROVE  chg'[p] # {} \/ Working(p)'
    BY <1>2 DEF Noted
  <2>1. CASE p = Port
    <3>1. st.dev = dev[p] \/ CONNECTION \in chg[p]
      BY <1>1, <2>1 DEF Settled, StatusCurrent
    <3> QED
      BY <1>1, <1>2, <1>3, <2>1, <3>1 DEF Working, AtPort
  <2>2. CASE p # Port
    BY <1>1, <1>2, <1>3, <2>2, NotedElsewhere
  <2> QED
    BY <2>1, <2>2
<1> QED
  BY <1>4, <1>5 DEF Settled

\* Steps that leave the port: its child is the device then, or a change is
\* still to come.
LEMMA LeaveSettled ==
  ASSUME Inv, Settled, ChildKept \/ ChildThere \/ RemoveChild
  PROVE  Settled'
<1>1. /\ Port \in Ports /\ AtPort /\ todo # {} /\ pc' = "port"
      /\ ClassUp /\ ClassUp'
  BY PortType
  DEF Inv, ChildKept, ChildThere, RemoveChild, Decide, LoopFrame, NextPort,
      Steering, AtPort, ClassUp
<1>2. /\ UNCHANGED <<dev, pow, chg, gone>> /\ LoopFrame
      /\ missed \subseteq missed'
      /\ \A p \in Ports : p # Port => child'[p] = child[p]
  BY DEF ChildKept, ChildThere, RemoveChild, LoopFrame, Inv, TypeOK
<1>3. ASSUME Port \notin missed', child'[Port] # 0, dev[Port] # 0
      PROVE  child'[Port] = dev[Port]
  BY <1>1, <1>3
  DEF ChildKept, ChildThere, RemoveChild, Inv, TypeOK, Settled, Fresh
<1>4. ASSUME Port \notin missed', pow[Port], ~gone, child'[Port] # dev[Port]
      PROVE  chg[Port] # {}
  <2> SUFFICES ASSUME chg[Port] = {} PROVE FALSE
    OBVIOUS
  <2>1. st.dev = dev[Port]
    BY <1>1, <1>2, <1>4 DEF Settled, StatusCurrent
  <2>2. CASE ChildKept
    BY <1>1, <1>4, <2>1, <2>2 DEF ChildKept, Inv, TypeOK
  <2>3. CASE ChildThere
    <3>1. dev[Port] = 0
      BY <1>1, <1>2, <1>4, <2>3 DEF ChildThere, Decide, Settled, Fresh
    <3>2. st.dev # 0
      BY <1>1, <1>2, <1>4, <2>3 DEF ChildThere, Decide, Settled, StatusCurrent
    <3> QED
      BY <3>1, <3>2, <2>1
  <2>4. CASE RemoveChild
    <3>1. dev[Port] # 0
      BY <1>1, <1>4, <2>4 DEF RemoveChild, Inv, TypeOK
    <3>2. st.conn
      BY <1>1, <1>2, <1>4, <2>1, <3>1 DEF Inv, Live, StatusHolds
    <3> QED
      BY <2>4, <3>2 DEF RemoveChild, Decide
  <2> QED
    BY <2>2, <2>3, <2>4
<1>5. Unpowered' /\ Fresh' /\ StatusCurrent'
  BY <1>1, <1>2, <1>3 DEF Settled, Unpowered, Fresh, StatusCurrent, AtPort
<1>6. Noted'
  <2> SUFFICES ASSUME NEW p \in Ports \ missed', pow[p], ~gone, child'[p] # dev[p]
               PROVE  chg[p] # {}
    BY <1>2 DEF Noted
  <2>1. CASE p = Port
    BY <1>4, <2>1
  <2>2. CASE p # Port
    BY <1>1, <1>2, <2>2, NotedElsewhere
  <2> QED
    BY <2>1, <2>2
<1> QED
  BY <1>5, <1>6 DEF Settled

LEMMA LoopSettled ==
  ASSUME Inv, Settled, Loop
  PROVE  Settled'
<1>1. CASE LoopEnd
  <2>1. todo = {} /\ pc' = "sleep" /\ ClassUp /\ ClassUp'
    BY <1>1 DEF LoopEnd, Inv, Steering, ClassUp
  <2>2. UNCHANGED <<child, dev, pow, chg, gone, missed>>
    BY <1>1 DEF LoopEnd, hub
  <2> QED
    BY <2>1, <2>2
    DEF Settled, Unpowered, Fresh, StatusCurrent, Noted, Working, AtPort
<1> QED
  BY <1>1, GetPortStatusSettled, GetPortStatusFailsSettled, ClearPortSettled,
     DecideSettled, LeaveSettled DEF Loop

LEMMA HubPortsSettled ==
  ASSUME Inv, Settled, HubPorts
  PROVE  Settled'
<1>1. /\ UNCHANGED <<st, child, pc, todo, ctl>> /\ Port' = Port
      /\ ClassUp' = ClassUp
  BY DEF HubPorts, Plug, Unplug, PortError, OverCurrent, HubUnplugged,
         PortFrame, thread, Port, Least, ClassUp
<1>2. AtPort => Port \in Ports
  BY PortType DEF Inv, Steering
<1>3. ASSUME NEW q \in Ports, Plug(q) PROVE Settled'
  <2>1. /\ pow[q] /\ dev[q] = 0 /\ UNCHANGED <<pow, gone>>
        /\ dev' = [dev EXCEPT ![q] = devices']
        /\ chg' = [chg EXCEPT ![q] = @ \cup {CONNECTION}]
        /\ missed' = IF child[q] # 0 THEN missed \cup {q} ELSE missed
    BY <1>3 DEF Plug
  <2>2. /\ \A p \in Ports : p # q => dev'[p] = dev[p] /\ chg'[p] = chg[p]
        /\ CONNECTION \in chg'[q] /\ missed \subseteq missed'
        /\ child[q] # 0 => q \in missed'
    BY <2>1 DEF Inv, TypeOK
  <2>3. Unpowered' /\ Fresh' /\ StatusCurrent'
    BY <1>1, <1>2, <2>1, <2>2
    DEF Settled, Unpowered, Fresh, StatusCurrent, AtPort
  <2>4. Noted'
    <3> SUFFICES ASSUME NEW p \in Ports \ missed', pow[p], ~gone,
                        child[p] # dev'[p]
                 PROVE  chg'[p] # {} \/ Working(p)'
      BY <1>1, <2>1 DEF Noted
    <3>1. CASE p = q
      BY <2>2, <3>1
    <3>2. CASE p # q
      BY <1>1, <2>2, <3>2 DEF Settled, Noted, Working, AtPort
    <3> QED
      BY <3>1, <3>2
  <2> QED
    BY <2>3, <2>4 DEF Settled
<1>4. ASSUME NEW q \in Ports, Unplug(q) PROVE Settled'
  <2>1. /\ UNCHANGED <<pow, gone, missed>>
        /\ dev' = [dev EXCEPT ![q] = 0]
        /\ chg' = [chg EXCEPT ![q] = @ \cup {CONNECTION}]
    BY <1>4 DEF Unplug
  <2>2. /\ \A p \in Ports : p # q => dev'[p] = dev[p] /\ chg'[p] = chg[p]
        /\ CONNECTION \in chg'[q] /\ dev'[q] = 0
    BY <2>1 DEF Inv, TypeOK
  <2>3. Unpowered' /\ Fresh' /\ StatusCurrent'
    BY <1>1, <1>2, <2>1, <2>2
    DEF Settled, Unpowered, Fresh, StatusCurrent, AtPort
  <2>4. Noted'
    <3> SUFFICES ASSUME NEW p \in Ports \ missed, pow[p], ~gone,
                        child[p] # dev'[p]
                 PROVE  chg'[p] # {} \/ Working(p)'
      BY <1>1, <2>1 DEF Noted
    <3>1. CASE p = q
      BY <2>2, <3>1
    <3>2. CASE p # q
      BY <1>1, <2>2, <3>2 DEF Settled, Noted, Working, AtPort
    <3> QED
      BY <3>1, <3>2
  <2> QED
    BY <2>3, <2>4 DEF Settled
<1>5. ASSUME NEW q \in Ports, PortError(q) \/ OverCurrent(q) PROVE Settled'
  <2>1. /\ UNCHANGED <<dev, gone>> /\ missed \subseteq missed'
        /\ \A p \in Ports : /\ pow'[p] => pow[p]
                            /\ ClassUp \/ pow'[p] = pow[p]
                            /\ chg[p] \subseteq chg'[p]
    BY <1>5 DEF PortError, OverCurrent, Inv, TypeOK
  <2>2. Unpowered' /\ Fresh' /\ StatusCurrent'
    BY <1>1, <1>2, <2>1
    DEF Settled, Unpowered, Fresh, StatusCurrent, AtPort
  <2>3. Noted'
    BY <1>1, <2>1 DEF Settled, Noted, Working, AtPort
  <2> QED
    BY <2>2, <2>3 DEF Settled
<1>6. CASE HubUnplugged
  <2>1. gone' /\ dev' = [p \in Ports |-> 0]
    BY <1>6 DEF HubUnplugged
  <2> QED
    BY <2>1 DEF Settled, Unpowered, Fresh, StatusCurrent, Noted
<1> QED
  BY <1>3, <1>4, <1>5, <1>6 DEF HubPorts

LEMMA SettledStep ==
  ASSUME Inv, Settled, [Next]_vars
  PROVE  Settled'
<1>1. CASE UNCHANGED vars
  BY <1>1, SettledFrame DEF vars, thread, hub, ClassUp
<1> QED
  BY <1>1, ClassRequestSettled, PassesSettled, LoopSettled, HubPortsSettled
  DEF Next, Process

\* When nothing is left to work off, the handles are those of the devices at
\* the ports, for every port whose changes the driver could see.
THEOREM ChildrenMatch == Spec => []ChildIsTheDevice
<1>1. Init => Inv /\ Settled
  <2>1. Init => Settled
    BY DEF Init, Settled, Unpowered, Fresh, StatusCurrent, Noted, AtPort
  <2> QED
    BY <2>1, InitType, InitLive DEF Inv
<1>2. Inv /\ [Next]_vars => Inv'
  BY TypeStep, LiveStep DEF Inv
<1>3. Inv /\ Settled => ChildIsTheDevice
  <2> SUFFICES ASSUME Settled, Quiet, ~gone, NEW p \in Ports \ missed, pow[p],
                      child[p] # dev[p]
               PROVE  FALSE
    BY DEF ChildIsTheDevice
  <2>1. chg[p] = {}
    BY DEF Quiet, Changed
  <2>2. ~Working(p)
    BY DEF Quiet, Working, AtPort
  <2> QED
    BY <2>1, <2>2 DEF Settled, Noted
<1> QED
  BY <1>1, <1>2, <1>3, SettledStep, PTL DEF Spec
=============================================================================
