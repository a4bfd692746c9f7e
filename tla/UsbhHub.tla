------------------------------- MODULE UsbhHub -------------------------------
(***************************************************************************)
(* The hub class driver (usbh_hub.c): powering the ports, the interrupt    *)
(* endpoint that says which ports changed, and the loop that reads and     *)
(* clears each port's status and creates, resets or removes its child.     *)
(* The SOF interrupt submits the endpoint's transfer every so often,       *)
(* whatever the driver does; the ports change at any moment.               *)
(*                                                                         *)
(* A request to the hub, which the driver polls until it is answered or    *)
(* given up, is one step here; UsbhControl has its inside.  A device is    *)
(* the number of its connection, 0 is none.  What the disconnect of the    *)
(* hub itself frees is in UsbhPipes; here its requests fail from then on.  *)
(***************************************************************************)
EXTENDS Integers, FiniteSets

CONSTANTS
  NumPorts,    \* HUB_Desc.bNbrPorts
  QueueLen,    \* osMessageQDef(USBH_Queue, 10, ...)
  MaxDevices,  \* bound: connections of devices to ports
  MaxFaults,   \* bound: failed requests, allocations and enumerations, and
               \* ports disabled by the hub
  MaxStalls    \* bound: stalls of the interrupt endpoint

ASSUME PortsAssumption == NumPorts \in Nat \ {0}
ASSUME QueueAssumption == QueueLen \in Nat \ {0}
ASSUME BoundsAssumption ==
  MaxDevices \in Nat /\ MaxFaults \in Nat /\ MaxStalls \in Nat

Ports == 1 .. NumPorts
Devices == 0 .. MaxDevices

\* The change bits of wPortChange, by their numbers.
CONNECTION == 0
ENABLE == 1
OVER_CURRENT == 3
RESET == 4
Changes == {CONNECTION, ENABLE, OVER_CURRENT, RESET}

VARIABLES
  ctl,         \* ctl_state
  portIndex,   \* port_index
  portState,   \* port_state, as the set of ports
  todo,        \* tmp_port_state; the loop is at the lowest port of it
  st,          \* the port status in device.Data, and the device it was read of
  child,       \* children[]: the device each handle was made for
  clrLeft,     \* RequestState is CMD_WAIT for a ClrFeature that was left
  events,      \* messages in os_event
  pc,          \* the host thread: "sleep"; in the loop "port" (its head),
               \* "clear", "child" or "reset"
  urb, armed, buf,   \* NotifPipe: its URB state, a transfer on its way, and
               \* hub_intr_buf
  halted,      \* the hub's interrupt endpoint is halted
  dev, pow, ena, chg,    \* each port: its device, power, enabled, changes
  gone,        \* the hub is unplugged
  devices, faults, stalls,   \* counted for the bounds
  missed       \* ports with a change the driver cannot see: a device plugged
               \* in before the removal of the last one was worked off, one
               \* that came or went between the reading and the clearing of
               \* its connection change, one whose changes were cleared before
               \* the loop gave the port up, one the hub disabled, or any when
               \* a stale status was taken for the port's

thread == <<todo, st, child, clrLeft, pc>>
endpoint == <<urb, armed, buf, halted>>
hub == <<dev, pow, ena, chg, gone>>
counts == <<devices, faults, stalls>>
vars == <<ctl, portIndex, portState, thread, events, endpoint, hub, counts,
          missed>>

CtlStates == {"GET_HUB_DESC", "SET_PORT_POWER", "SCAN_PORT", "SCAN_PORT_WAIT",
              "CLR_FEATURE", "ENUM_PORT"}
Status == [port : 0 .. NumPorts, dev : Devices, conn : BOOLEAN, ena : BOOLEAN,
           pow : BOOLEAN, chg : SUBSET Changes]

\* The loop is at a port of the hub and no counter passes its bound.
TypeOK ==
  /\ ctl \in CtlStates /\ portIndex \in 1 .. NumPorts + 1
  /\ portState \subseteq Ports /\ todo \subseteq Ports
  /\ st \in Status /\ child \in [Ports -> Devices]
  /\ clrLeft \in BOOLEAN /\ events \in 0 .. QueueLen
  /\ pc \in {"sleep", "port", "clear", "child", "reset"}
  /\ urb \in {"IDLE", "DONE", "NOTREADY", "STALL"} /\ armed \in BOOLEAN
  /\ buf \subseteq Ports /\ halted \in BOOLEAN
  /\ dev \in [Ports -> Devices] /\ pow \in [Ports -> BOOLEAN]
  /\ ena \in [Ports -> BOOLEAN] /\ chg \in [Ports -> SUBSET Changes]
  /\ gone \in BOOLEAN
  /\ devices \in Devices /\ faults \in 0 .. MaxFaults /\ stalls \in 0 .. MaxStalls
  /\ missed \subseteq Ports

\* After USBH_HUB_InterfaceInit.  device.Data holds the hub descriptor, which
\* reads like a connected port that is not enabled.
Init ==
  /\ ctl = "GET_HUB_DESC" /\ portIndex = 1 /\ portState = {}
  /\ todo = {} /\ clrLeft = FALSE /\ pc = "sleep"
  /\ st = [port |-> 0, dev |-> 0, conn |-> TRUE, ena |-> FALSE, pow |-> TRUE,
           chg |-> {}]
  /\ child = [p \in Ports |-> 0]
  /\ events = 1
  /\ urb = "IDLE" /\ armed = FALSE /\ buf = {} /\ halted = FALSE
  /\ dev = [p \in Ports |-> 0] /\ pow = [p \in Ports |-> FALSE]
  /\ ena = [p \in Ports |-> FALSE] /\ chg = [p \in Ports |-> {}]
  /\ gone = FALSE
  /\ devices = 0 /\ faults = 0 /\ stalls = 0
  /\ missed = {}

\* The state of gState = HOST_CLASS.
ClassUp == ctl \notin {"GET_HUB_DESC", "SET_PORT_POWER"}

Least(S) == CHOOSE x \in S : \A y \in S : x <= y
Port == Least(todo)

PutN(n) == IF n > QueueLen THEN QueueLen ELSE n
Post == events' = PutN(events + 1)

Fault == faults < MaxFaults /\ faults' = faults + 1
NoFault == UNCHANGED faults

-----------------------------------------------------------------------------
(* USBH_HUB_ClassRequest.  Its passes need no message of the driver's: the   *)
(* control engine wakes the thread.                                          *)

GetHubDesc ==
  /\ ctl = "GET_HUB_DESC" /\ ~gone
  /\ portIndex' = 1 /\ ctl' = "SET_PORT_POWER"
  /\ UNCHANGED <<portState, thread, events, endpoint, hub, counts, missed>>

SetPortPower ==
  /\ ctl = "SET_PORT_POWER" /\ ~gone
  /\ pow' = [pow EXCEPT ![portIndex] = TRUE]
  /\ portIndex' = portIndex + 1
  /\ IF portIndex' > NumPorts
     THEN ctl' = "SCAN_PORT" /\ Post
     ELSE UNCHANGED <<ctl, events>>
  /\ UNCHANGED <<portState, thread, endpoint, dev, ena, chg, gone, counts,
                 missed>>

-----------------------------------------------------------------------------
(* USBH_HUB_Process: one pass for one message.                               *)

Pass(n) == pc = "sleep" /\ events > 0 /\ ClassUp /\ events' = PutN(events - 1 + n)

\* In HUB_REQ_SCAN_PORT it has nothing to do.
ScanPort ==
  /\ Pass(0) /\ ctl = "SCAN_PORT"
  /\ UNCHANGED <<ctl, portIndex, portState, thread, endpoint, hub, counts,
                 missed>>

ScanPortDone ==
  /\ Pass(1) /\ ctl = "SCAN_PORT_WAIT" /\ urb = "DONE"
  /\ portState' = buf /\ ctl' = "ENUM_PORT"
  /\ UNCHANGED <<portIndex, thread, endpoint, hub, counts, missed>>

\* A mutant: the transfer is submitted again after a stall.
ScanPortStallAgain ==
  /\ Pass(0) /\ ctl = "SCAN_PORT_WAIT" /\ urb = "STALL"
  /\ ctl' = "SCAN_PORT"
  /\ UNCHANGED <<portIndex, portState, thread, endpoint, hub, counts, missed>>

ScanPortStall ==
  /\ Pass(1) /\ ctl = "SCAN_PORT_WAIT" /\ urb = "STALL"
  /\ ctl' = "CLR_FEATURE"
  /\ UNCHANGED <<portIndex, portState, thread, endpoint, hub, counts, missed>>

ScanPortWait ==
  /\ ctl = "SCAN_PORT_WAIT"
  /\ \/ urb = "NOTREADY" /\ Pass(0) /\ ctl' = "SCAN_PORT"
     \/ urb = "IDLE" /\ Pass(1) /\ UNCHANGED ctl
  /\ UNCHANGED <<portIndex, portState, thread, endpoint, hub, counts, missed>>

\* USBH_ClrFeature: the first call only prepares the request, a later one
\* completes it.  There is no break: the loop follows with the bitmap of the
\* last time, and ends in HUB_REQ_SCAN_PORT whatever became of the request.
ClrFeature ==
  /\ ctl = "CLR_FEATURE"
  /\ todo' = portState /\ pc' = "port"
  /\ UNCHANGED <<portIndex, portState, st, child, urb, armed, buf, hub,
                 devices, stalls, missed>>
ClrFeatureWaits ==
  /\ ClrFeature /\ Pass(1) /\ UNCHANGED ctl
  /\ \/ clrLeft' = TRUE /\ NoFault
     \/ clrLeft /\ clrLeft' = FALSE /\ Fault
  /\ UNCHANGED halted
ClrFeatureDone ==
  /\ ClrFeature /\ Pass(0) /\ ctl' = "SCAN_PORT" /\ clrLeft /\ ~gone
  /\ clrLeft' = FALSE /\ halted' = FALSE
  /\ NoFault

EnumPort ==
  /\ Pass(0) /\ ctl = "ENUM_PORT"
  /\ todo' = portState /\ pc' = "port"
  /\ UNCHANGED <<ctl, portIndex, portState, st, child, clrLeft, endpoint, hub,
                 counts, missed>>

-----------------------------------------------------------------------------
(* The loop over the ports.                                                  *)

LoopFrame == UNCHANGED <<ctl, portIndex, portState, events, urb, armed, buf,
                         gone, devices, stalls>>
NextPort == todo' = todo \ {Port} /\ pc' = "port"
Request == pc # "sleep" /\ ~gone

Reading ==
  [port |-> Port, dev |-> dev[Port], conn |-> dev[Port] # 0 /\ pow[Port],
   ena |-> ena[Port], pow |-> pow[Port], chg |-> chg[Port]]

\* USBH_HUB_GetPortStatus.  A ClrFeature in progress is completed in its
\* place, and device.Data is what it was.
GetPortStatus ==
  /\ Request /\ pc = "port" /\ todo # {}
  /\ IF clrLeft
     THEN clrLeft' = FALSE /\ halted' = FALSE /\ UNCHANGED st
     ELSE st' = Reading /\ UNCHANGED <<clrLeft, halted>>
  /\ pc' = IF st'.pow THEN "clear" ELSE "port"
  /\ missed' = IF clrLeft THEN missed \cup {Port}
               ELSE IF 0 \in {child[Port], dev[Port]} THEN missed \ {Port}
               ELSE missed
  /\ NoFault
  /\ LoopFrame /\ UNCHANGED <<todo, child, dev, pow, ena, chg>>

\* A mutant: what the buffer holds is used after a failed request, too.
GetPortStatusFailsUsed ==
  /\ pc = "port" /\ todo # {}
  /\ IF gone THEN NoFault ELSE Fault
  /\ clrLeft' = FALSE
  /\ pc' = "clear"
  /\ LoopFrame
  /\ UNCHANGED <<todo, st, child, halted, dev, pow, ena, chg, missed>>

\* Given up after __TIME_OUT_COUNT__ polls, refused, or the hub is gone.
GetPortStatusFails ==
  /\ pc = "port" /\ todo # {}
  /\ IF gone THEN NoFault ELSE Fault
  /\ clrLeft' = FALSE
  /\ missed' = IF chg[Port] = {} /\ child[Port] # dev[Port]
               THEN missed \cup {Port} ELSE missed
  /\ NextPort
  /\ LoopFrame /\ UNCHANGED <<st, child, halted, dev, pow, ena, chg>>

\* A mutant: the port's changes are cleared with the first one.
ClearPortAll ==
  /\ pc = "clear" /\ st.chg # {} /\ Request
  /\ st' = [st EXCEPT !.chg = {}] /\ chg' = [chg EXCEPT ![Port] = {}]
  /\ missed' = IF CONNECTION \in st.chg /\ dev[Port] # st.dev
               THEN missed \cup {Port} ELSE missed
  /\ NoFault
  /\ LoopFrame
  /\ UNCHANGED <<todo, child, clrLeft, pc, halted, dev, pow, ena>>

\* USBH_HUB_ClearPort for each change bit the status shows, the lowest first;
\* nobody looks at the result.
ClearPort ==
  /\ pc = "clear" /\ st.chg # {}
  /\ st' = [st EXCEPT !.chg = @ \ {Least(st.chg)}]
  /\ \/ /\ Request /\ NoFault
        /\ chg' = [chg EXCEPT ![Port] = @ \ {Least(st.chg)}]
        /\ missed' = IF Least(st.chg) = CONNECTION /\ dev[Port] # st.dev
                     THEN missed \cup {Port} ELSE missed
     \/ /\ IF gone THEN NoFault ELSE Fault
        /\ UNCHANGED <<chg, missed>>
  /\ LoopFrame
  /\ UNCHANGED <<todo, child, clrLeft, pc, halted, dev, pow, ena>>

Decide == pc = "clear" /\ st.chg = {}

\* A child handle is allocated, or the port is tried again.
NewChild ==
  /\ Decide /\ st.conn /\ st.ena /\ child[Port] = 0
  /\ \/ pc' = "child" /\ NoFault
     \/ pc' = "port" /\ Fault
  /\ LoopFrame
  /\ UNCHANGED <<todo, st, child, clrLeft, halted, dev, pow, ena, chg, missed>>

\* The child's passes lead to its class, to HOST_ABORT_STATE, or nowhere in
\* 5000 rounds: its handle is kept.
ChildKept ==
  /\ pc = "child"
  /\ child' = [child EXCEPT ![Port] = st.dev]
  /\ missed' = IF dev[Port] \notin {0, st.dev} THEN missed \cup {Port} ELSE missed
  /\ NextPort
  /\ NoFault
  /\ LoopFrame /\ UNCHANGED <<st, clrLeft, halted, dev, pow, ena, chg>>

\* Its enumeration fails: RESET_PORT.
ChildFails ==
  /\ pc = "child"
  /\ IF gone \/ dev[Port] # st.dev \/ ~ena[Port] THEN NoFault ELSE Fault
  /\ pc' = "reset"
  /\ LoopFrame
  /\ UNCHANGED <<todo, st, child, clrLeft, halted, dev, pow, ena, chg, missed>>

ChildThere ==
  /\ Decide /\ st.conn /\ st.ena /\ child[Port] # 0
  /\ NextPort
  /\ NoFault
  /\ LoopFrame
  /\ UNCHANGED <<st, child, clrLeft, halted, dev, pow, ena, chg, missed>>

ToReset ==
  /\ Decide /\ st.conn /\ ~st.ena
  /\ pc' = "reset"
  /\ NoFault
  /\ LoopFrame
  /\ UNCHANGED <<todo, st, child, clrLeft, halted, dev, pow, ena, chg, missed>>

\* USBH_HUB_SetPort and the delay in which the hub resets the port; then the
\* port is looked at again.
ResetPort ==
  /\ pc = "reset"
  /\ \/ Request /\ NoFault /\ dev[Port] # 0 /\ pow[Port]
        /\ ena' = [ena EXCEPT ![Port] = TRUE]
        /\ chg' = [chg EXCEPT ![Port] = @ \cup {RESET}]
     \/ /\ IF gone \/ dev[Port] = 0 \/ ~pow[Port] THEN NoFault ELSE Fault
        /\ UNCHANGED <<ena, chg>>
  /\ pc' = "port"
  /\ LoopFrame /\ UNCHANGED <<todo, st, child, clrLeft, halted, dev, pow, missed>>

RemoveChild ==
  /\ Decide /\ ~st.conn
  /\ child' = [child EXCEPT ![Port] = 0]
  /\ NextPort
  /\ NoFault
  /\ LoopFrame /\ UNCHANGED <<st, clrLeft, halted, dev, pow, ena, chg, missed>>

LoopEnd ==
  /\ pc = "port" /\ todo = {}
  /\ ctl' = "SCAN_PORT" /\ Post /\ pc' = "sleep"
  /\ UNCHANGED <<portIndex, portState, todo, st, child, clrLeft, endpoint, hub,
                 counts, missed>>

-----------------------------------------------------------------------------
(* Interrupts: start of frame, and the interrupt endpoint.                   *)

EndpointFrame ==
  UNCHANGED <<portIndex, portState, thread, hub, devices, missed>>

\* USBH_HUB_SOFProcess, in each frame in which the poll interval is over.
SOFProcess ==
  /\ ClassUp /\ ~gone
  /\ armed' = TRUE /\ urb' = "IDLE"
  /\ ctl' = IF ctl = "SCAN_PORT" THEN "SCAN_PORT_WAIT" ELSE ctl
  /\ UNCHANGED <<events, buf, halted, stalls, faults>>
  /\ EndpointFrame

Changed == {p \in Ports : chg[p] # {}}

IntrDone ==
  /\ armed /\ ~gone /\ ~halted /\ Changed # {}
  /\ armed' = FALSE /\ urb' = "DONE" /\ buf' = Changed
  /\ Post
  /\ UNCHANGED <<ctl, halted, stalls, faults>>
  /\ EndpointFrame
\* A NAK halts the channel and leaves its URB state.
IntrNak ==
  /\ armed /\ ~gone /\ ~halted /\ Changed = {}
  /\ armed' = FALSE
  /\ Post
  /\ UNCHANGED <<ctl, urb, buf, halted, stalls, faults>>
  /\ EndpointFrame
IntrError ==
  /\ armed /\ urb' = "NOTREADY"
  /\ IF gone THEN NoFault ELSE Fault
  /\ Post
  /\ UNCHANGED <<ctl, armed, buf, halted, stalls>>
  /\ EndpointFrame
IntrStall ==
  /\ armed /\ ~gone
  /\ \/ halted /\ UNCHANGED stalls
     \/ ~halted /\ stalls < MaxStalls /\ stalls' = stalls + 1
  /\ halted' = TRUE /\ armed' = FALSE /\ urb' = "STALL"
  /\ Post
  /\ UNCHANGED <<ctl, buf, faults>>
  /\ EndpointFrame

-----------------------------------------------------------------------------
(* The hub's ports.                                                          *)

PortFrame ==
  UNCHANGED <<ctl, portIndex, portState, thread, events, endpoint, stalls>>

Plug(p) ==
  /\ ~gone /\ pow[p] /\ dev[p] = 0 /\ devices < MaxDevices
  /\ devices' = devices + 1 /\ dev' = [dev EXCEPT ![p] = devices']
  /\ chg' = [chg EXCEPT ![p] = @ \cup {CONNECTION}]
  /\ missed' = IF child[p] # 0 THEN missed \cup {p} ELSE missed
  /\ UNCHANGED <<pow, ena, gone, faults>>
  /\ PortFrame
Unplug(p) ==
  /\ ~gone /\ dev[p] # 0
  /\ dev' = [dev EXCEPT ![p] = 0] /\ ena' = [ena EXCEPT ![p] = FALSE]
  /\ chg' = [chg EXCEPT ![p] = @ \cup {CONNECTION}]
  /\ UNCHANGED <<pow, gone, devices, faults, missed>>
  /\ PortFrame
\* The hub disables a port that babbles.
PortError(p) ==
  /\ ~gone /\ ena[p]
  /\ Fault
  /\ ena' = [ena EXCEPT ![p] = FALSE]
  /\ chg' = [chg EXCEPT ![p] = @ \cup {ENABLE}]
  /\ missed' = missed \cup {p}
  /\ UNCHANGED <<dev, pow, gone, devices>>
  /\ PortFrame
\* It switches off a port that draws too much.
OverCurrent(p) ==
  /\ ~gone /\ pow[p] /\ ClassUp
  /\ Fault
  /\ pow' = [pow EXCEPT ![p] = FALSE] /\ ena' = [ena EXCEPT ![p] = FALSE]
  /\ chg' = [chg EXCEPT ![p] = @ \cup {OVER_CURRENT}]
  /\ UNCHANGED <<dev, gone, devices, missed>>
  /\ PortFrame
\* The ports are gone with the hub.
HubUnplugged ==
  /\ ~gone /\ gone' = TRUE
  /\ dev' = [p \in Ports |-> 0] /\ chg' = [p \in Ports |-> {}]
  /\ pow' = [p \in Ports |-> FALSE] /\ ena' = [p \in Ports |-> FALSE]
  /\ missed' = {}
  /\ UNCHANGED <<devices, faults>>
  /\ PortFrame

-----------------------------------------------------------------------------
ClassRequest == GetHubDesc \/ SetPortPower
Loop ==
  \/ GetPortStatus \/ GetPortStatusFails \/ ClearPort \/ NewChild \/ ChildKept
  \/ ChildFails \/ ChildThere \/ ToReset \/ ResetPort \/ RemoveChild \/ LoopEnd
Process ==
  \/ ScanPort \/ ScanPortDone \/ ScanPortStall \/ ScanPortWait
  \/ ClrFeatureWaits \/ ClrFeatureDone \/ EnumPort \/ Loop
Endpoint == IntrDone \/ IntrNak \/ IntrError \/ IntrStall
HubPorts ==
  \/ \E p \in Ports : Plug(p) \/ Unplug(p) \/ PortError(p) \/ OverCurrent(p)
  \/ HubUnplugged
Next == ClassRequest \/ Process \/ SOFProcess \/ Endpoint \/ HubPorts

Spec == Init /\ [][Next]_vars

\* The thread runs when it has a message, frames go on, and the hub sends what
\* it has, and answers a request, when it is asked again and again.  The next
\* SOF submission resets the URB's state, but the thread needs less than a poll
\* interval to look at it: not each time, but again and again.
FairSpec ==
  /\ Spec
  /\ WF_vars(ClassRequest) /\ WF_vars(Process) /\ WF_vars(SOFProcess)
  /\ SF_vars(ScanPortDone) /\ SF_vars(ScanPortStall) /\ SF_vars(ClrFeatureDone)
  /\ SF_vars(IntrDone) /\ WF_vars(IntrStall /\ halted)

-----------------------------------------------------------------------------
(* Properties.                                                               *)

Quiet == pc = "sleep" /\ ctl \in {"SCAN_PORT", "SCAN_PORT_WAIT"} /\ Changed = {}

\* When no change is left to work off, each port's child is the device at the
\* port, unless the driver could not see that it changed: the status it acts on
\* may be older than the change bits it cleared (usbh_hub.c:618-652).
ChildIsTheDevice ==
  Quiet /\ ~gone =>
    \A p \in Ports \ missed : pow[p] => child[p] = dev[p]

\* The handle of a device that is still there is not taken away, and its port
\* is not reset under it: the loop acts on the status of the port it is at,
\* unless a stalled endpoint made it read a stale one (usbh_hub.c:597-618).
KeepsLiveChild ==
  [][\A p \in Ports \ missed :
       child[p] # 0 /\ child[p] = dev[p] /\ pow[p] =>
         /\ child'[p] = child[p]
         /\ ~(pc = "reset" /\ pc' = "port" /\ Port = p)]_vars

\* A device that comes gets a handle and one that goes loses it, unless a port
\* lost its power: the loop then stays at that port (usbh_hub.c:611-621).
ChangesWorkedOff ==
  \A p \in Ports :
    (dev[p] # child[p] /\ ClassUp) ~>
      \/ child[p] = dev[p] \/ p \in missed
      \/ gone \/ \E q \in Ports : ~pow[q]
=============================================================================
