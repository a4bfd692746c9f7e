------------------------------ MODULE UsbhCore ------------------------------
(***************************************************************************)
(* The host core (usbh_core.c) for the device on the root port: the gState *)
(* and EnumState machines run by the host thread, the port and disconnect  *)
(* interrupts (stm32f1xx_hal_hcd.c, usbh_conf.c), and the control engine   *)
(* of UsbhCtlReq that carries every request of the enumeration.            *)
(*                                                                         *)
(* Interrupts preempt the thread, so a step of the thread is taken only    *)
(* when none is pending.  A pass masks HPRTINT (port) but not DISCINT      *)
(* (disconnect): usbh_core.c:478-482 and 719-723.  A pass is cut into the  *)
(* parts a disconnect can separate: at its delays; between USBH_CtlReq's   *)
(* test of the pipes and its submission; between the end of a request and  *)
(* the write of the next gState; around the write of gState that precedes  *)
(* the allocation of the pipes, or the callback of a selected class.       *)
(***************************************************************************)
EXTENDS UsbhCtlReq

CONSTANTS
  TickPreempts,  \* SysTick preempts the OTG interrupt (HAL_Delay ends there)
  Upsets         \* what may go wrong in a run: a subset of AllUpsets
AllUpsets == {"nak", "slow", "stall", "error", "unplug", "noaddr"}
ASSUME TickAssumption == TickPreempts \in BOOLEAN
ASSUME UpsetAssumption == Upsets \subseteq AllUpsets

GStates == {"IDLE", "WAIT_FOR_ATTACHMENT", "ATTACHED", "DISCONNECTED",
            "ENUMERATION", "INPUT", "SET_CONFIGURATION", "CHECK_CLASS",
            "CLASS_REQUEST", "CLASS", "ABORT"}
EnumStates == {"IDLE", "FULL_DEV", "SET_ADDR", "CFG", "FULL_CFG", "MFC",
               "PRODUCT", "SERIAL"}
PCs == {"sleep", "run", "idleDelay", "attachDelay", "opening", "submit",
        "enumOpen", "enumDelay", "addrDelay", "enumDone", "setcfgDone",
        "classInit", "classUp", "starting", "requestDone", "deInit", "reenum",
        "reenumDelay", "dead"}

VARIABLES
  gState, enumState,   \* phost->gState, phost->EnumState
  last,        \* phost->last_ctrl_status
  isConn,      \* phost->device.is_connected
  cls,         \* phost->pActiveClass: "none", "ec20" or "hub"
  app,         \* phost->app_data: "none", "new" (no thread yet) or "running"
  appClass,    \* phost->app_class is set; nothing clears it
  pc,          \* where the host thread stands; "dead": deleted, or crashed
  isr,         \* "none", "delay": inside USBH_LL_Disconnect's USBH_Delay, or
               \* "spin": in delete_EC20_Application for ever
  masked,      \* HPRTINT is masked in GINTMSK
  dint,        \* DISCINT is pending
  pcdet, penchng, pena,   \* the bits of HPRT0
  vbus,        \* PC9, the power switch of the port
  inserted,    \* a device is in the socket
  strings,     \* that device has string descriptors
  unstopped,   \* the last disconnect left a channel running: it came in the
               \* middle of a submission, or found the HAL locked
  troubled     \* the device met one of Upsets, or was inserted while the
               \* host was not ready for it

portVars == <<dint, pcdet, penchng, pena, vbus, inserted, strings>>
coreVars == <<gState, enumState, last, isConn, cls>>
appVars == <<app, appClass>>
\* What most steps of a pass leave alone.
sideVars == <<portVars, appVars, isr, unstopped, troubled>>
vars == <<ctlVars, coreVars, portVars, appVars, pc, isr, masked, unstopped,
          troubled>>

TypeOK ==
  /\ CtlTypeOK
  /\ gState \in GStates /\ enumState \in EnumStates
  /\ last \in CtrlStates
  /\ isConn \in BOOLEAN
  /\ cls \in {"none", "ec20", "hub"}
  /\ app \in {"none", "new", "running"} /\ appClass \in BOOLEAN
  /\ pc \in PCs /\ isr \in {"none", "delay", "spin"} /\ masked \in BOOLEAN
  /\ dint \in BOOLEAN /\ pcdet \in BOOLEAN /\ penchng \in BOOLEAN
  /\ pena \in BOOLEAN /\ vbus \in BOOLEAN
  /\ inserted \in BOOLEAN /\ strings \in BOOLEAN
  /\ unstopped \in BOOLEAN /\ troubled \in BOOLEAN

Init ==
  /\ CtlInit /\ open = FALSE
  /\ gState = "IDLE" /\ enumState = "IDLE" /\ last = "IDLE"
  /\ isConn = FALSE /\ cls = "none" /\ app = "none" /\ appClass = FALSE
  /\ pc = "sleep" /\ isr = "none" /\ masked = FALSE
  /\ dint = FALSE /\ pcdet = FALSE /\ penchng = FALSE /\ pena = FALSE
  /\ vbus = TRUE /\ inserted = FALSE /\ strings = FALSE
  /\ unstopped = FALSE /\ troubled = FALSE

-----------------------------------------------------------------------------
(* The port. *)

\* PCSTS: a device is there and powered.
Present == inserted /\ vbus

\* The device disappears from the port, and appears on it.
Vanishes ==
  /\ dint' = TRUE
  /\ pena' = FALSE /\ penchng' = (penchng \/ pena)
  /\ UNCHANGED pcdet
Appears == pcdet' = TRUE /\ UNCHANGED <<dint, pena, penchng>>

\* The host can greet a new device: the connect interrupt will find HOST_IDLE.
Ready == pc = "sleep" /\ isr = "none" /\ ~dint /\ gState = "IDLE"

\* A device that has just got its power, or has lost it.
Unpowered == dev' = [kind |-> "get", stage |-> "idle"]

Insert ==
  /\ ~inserted
  /\ inserted' = TRUE /\ strings' \in BOOLEAN
  /\ IF vbus THEN Appears ELSE UNCHANGED <<dint, pcdet, pena, penchng>>
  /\ troubled' = ~Ready
  /\ UNCHANGED <<ctlVars, coreVars, vbus, appVars, pc, isr, masked, unstopped>>

Remove ==
  /\ "unplug" \in Upsets /\ inserted
  /\ inserted' = FALSE /\ strings' = FALSE /\ Unpowered
  /\ IF vbus THEN Vanishes ELSE UNCHANGED <<dint, pcdet, pena, penchng>>
  /\ troubled' = TRUE
  /\ UNCHANGED <<hostVars, open, chanVars, events, coreVars, vbus, appVars, pc,
                 isr, masked, unstopped>>

\* The port interrupt, when it is not masked.
PortPending == pcdet \/ penchng
Post(n) == events' = PutN(n)

\* USBH_LL_Connect and USBH_LL_PortEnabled: both turn the wait for the
\* attachment into HOST_DEV_ATTACHED, and both put a message.
PortISR ==
  /\ isr = "none" /\ ~dint /\ ~masked /\ PortPending
  /\ LET connect == pcdet /\ Present
         enabled == penchng /\ pena
     IN  /\ isConn' = (isConn \/ (connect /\ gState = "IDLE"))
         /\ gState' = IF gState = "WAIT_FOR_ATTACHMENT" /\ (connect \/ enabled)
                      THEN "ATTACHED" ELSE gState
         /\ Post((IF connect THEN 1 ELSE 0) + (IF enabled THEN 1 ELSE 0))
  /\ pcdet' = FALSE /\ penchng' = FALSE
  /\ UNCHANGED <<hostVars, open, chanVars, dev, enumState, last, cls, dint,
                 pena, vbus, inserted, strings, appVars, pc, isr, masked,
                 unstopped, troubled>>

\* HOST_USER_DISCONNECTION, in the interrupt: stop and delete the application
\* of the class that once was selected.  Without a thread of its own the
\* terminated task is the interrupted one; without an application the
\* deletion never ends.  (stop_EC20_Application's waits are part of "delay".)
AppDisconnect ==
  /\ isr' = IF appClass /\ app = "none" THEN "spin" ELSE "delay"
  /\ app' = "none"
  /\ \/ pc' = pc
     \/ app = "new" /\ pc # "sleep" /\ pc' = "dead"

\* The disconnect interrupt up to its delay; it does nothing when the device
\* is back already.
DisconnectBegin ==
  /\ isr = "none" /\ dint
  /\ dint' = FALSE
  /\ IF Present THEN UNCHANGED <<isConn, isr, app, pc>>
                ELSE isConn' = FALSE /\ AppDisconnect
  /\ UNCHANGED <<ctlVars, gState, enumState, last, cls, pcdet, penchng, pena,
                 vbus, inserted, strings, appClass, masked, unstopped, troubled>>

\* The thread is where it calls HAL_HCD_HC_Init or HC_Halt, which hold the lock
\* HAL_HCD_Stop wants (submissions take none, a stop of the thread's own is
\* finished after the interrupt).
MayHoldLock == pc \in {"opening", "enumOpen", "addrDelay", "classInit", "deInit"}

\* After the delay: stop, free the control pipes, start, write gState.
\* USB_StopHost also clears a disconnect that came during the delay.
LLDisconnect(Stop) ==
  /\ isr = "delay" /\ TickPreempts
  /\ Stop /\ open' = FALSE
  /\ gState' = "DISCONNECTED"
  /\ isr' = "none"
  /\ UNCHANGED <<hostVars, dev, enumState, last, isConn, cls, pcdet, penchng,
                 pena, vbus, inserted, strings, appVars, pc, masked, troubled>>
StopAll == LLStop /\ dint' = FALSE /\ unstopped' = (pc = "submit")
StopBusy ==
  /\ MayHoldLock /\ UNCHANGED <<chanVars, dint>>
  /\ unstopped' = (chanIn # "OFF" \/ chanOut # "OFF")

\* Mutants of DisconnectEnd: the channels are not halted; no message is put.
DisconnectNoStop ==
  LLDisconnect(UNCHANGED <<chanVars, unstopped>> /\ dint' = FALSE) /\ Post(1)
DisconnectSilent == LLDisconnect(StopAll \/ StopBusy) /\ UNCHANGED events

DisconnectEnd == LLDisconnect(StopAll \/ StopBusy) /\ Post(1)

-----------------------------------------------------------------------------
(* The host thread. *)

ThreadRuns == isr = "none" /\ ~dint /\ ~(PortPending /\ ~masked)

\* The end of a pass unmasks the port interrupt.
EndPass == pc' = "sleep" /\ masked' = FALSE
Continue(next) == pc' = next /\ UNCHANGED masked

Wake ==
  /\ ThreadRuns /\ pc = "sleep" /\ events > 0
  /\ events' = events - 1
  /\ pc' = "run" /\ masked' = TRUE
  /\ UNCHANGED <<hostVars, open, chanVars, dev, coreVars, sideVars>>

\* The pass finds nothing to do; in HOST_CLASS it runs the class driver.
NothingDue ==
  /\ ThreadRuns /\ pc = "run"
  /\ \/ gState = "IDLE" /\ ~isConn
     \/ gState \in {"WAIT_FOR_ATTACHMENT", "CLASS", "ABORT"}
  /\ EndPass
  /\ UNCHANGED <<ctlVars, coreVars, sideVars>>

\* HOST_IDLE with a device: debounce, then reset the port.
IdleConnected ==
  /\ ThreadRuns /\ pc = "run" /\ gState = "IDLE" /\ isConn
  /\ gState' = "WAIT_FOR_ATTACHMENT"
  /\ Continue("idleDelay")
  /\ UNCHANGED <<ctlVars, enumState, last, isConn, cls, sideVars>>

ResetPort ==
  /\ ThreadRuns /\ pc = "idleDelay"
  /\ pena' = Present /\ penchng' = (penchng \/ Present)
  /\ Post(1) /\ EndPass
  /\ UNCHANGED <<hostVars, open, chanVars, dev, coreVars, dint, pcdet, vbus,
                 inserted, strings, appVars, isr, unstopped, troubled>>

AttachedBegin ==
  /\ ThreadRuns /\ pc = "run" /\ gState = "ATTACHED"
  /\ Continue("attachDelay")
  /\ UNCHANGED <<ctlVars, coreVars, sideVars>>

AttachedEnd ==
  /\ ThreadRuns /\ pc = "attachDelay"
  /\ gState' = "ENUMERATION"
  /\ Continue("opening")
  /\ UNCHANGED <<ctlVars, enumState, last, isConn, cls, sideVars>>

\* The control pipes, also when a disconnect has just freed them.
OpenPipes ==
  /\ ThreadRuns /\ pc = "opening"
  /\ open' = TRUE
  /\ Post(1) /\ EndPass
  /\ UNCHANGED <<hostVars, chanVars, dev, coreVars, sideVars>>

-----------------------------------------------------------------------------
(* USBH_HandleEnum. *)

\* The request of each state, and the state after it.
EnumKind == IF enumState = "SET_ADDR" THEN "set" ELSE "get"
NextEnum ==
  [IDLE |-> "FULL_DEV", FULL_DEV |-> "SET_ADDR", SET_ADDR |-> "CFG",
   CFG |-> "FULL_CFG", FULL_CFG |-> "MFC", MFC |-> "PRODUCT",
   PRODUCT |-> "SERIAL", SERIAL |-> "SERIAL"]
IsString == enumState \in {"MFC", "PRODUCT", "SERIAL"}

\* A mutant of StillAsking: the next pass follows at once.
StillAskingNoDelay(n) ==
  \/ /\ last # "IDLE" /\ last = ctrl'
     /\ last' = "IDLE"
     /\ Post(n + 1) /\ Continue("reenum")
  \/ /\ ~(last # "IDLE" /\ last = ctrl')
     /\ last' = ctrl'
     /\ Post(n) /\ EndPass

\* ENUM_IDLE without an answer: when the engine is still in the state it was in
\* a pass earlier, at least a millisecond ago, the enumeration fails.
StillAsking(n) ==
  \/ /\ last # "IDLE" /\ last = ctrl'
     /\ last' = "IDLE"
     /\ Post(n + 1) /\ Continue("reenum")
  \/ /\ ~(last # "IDLE" /\ last = ctrl')
     /\ last' = ctrl'
     /\ Post(n) /\ Continue("enumDelay")

\* ENUM_IDLE, the first 8 bytes; then the pipes are opened for longer packets.
EnumIdle ==
  /\ enumState = "IDLE" /\ ~Submits
  /\ \E n \in 0 .. 1 :
       /\ CtlReq("get", n)
       /\ \/ /\ status' = "OK"
             /\ enumState' = "FULL_DEV" /\ last' = "IDLE"
             /\ Post(n) /\ Continue("enumOpen")
          \/ status' # "OK" /\ StillAsking(n) /\ UNCHANGED enumState
  /\ UNCHANGED <<gState, isConn, cls, sideVars>>

EnumOpened ==
  /\ ThreadRuns /\ pc = "enumOpen"
  /\ EndPass
  /\ UNCHANGED <<ctlVars, coreVars, sideVars>>

\* The device has the millisecond to answer; a slow one takes longer, and one
\* that is gone never answers.
EnumDelayEnd ==
  /\ ThreadRuns /\ pc = "enumDelay"
  /\ LET answered == chanOut = "OFF" /\ chanIn = "OFF"
     IN  /\ answered \/ ~Present \/ "slow" \in Upsets
         /\ troubled' = (troubled \/ ~answered)
  /\ EndPass
  /\ UNCHANGED <<ctlVars, coreVars, portVars, appVars, isr, unstopped>>

\* The other states: one request each, then the next state.
EnumRequest ==
  /\ enumState # "IDLE" /\ (IsString => strings) /\ ~Submits
  /\ \E n \in 0 .. 1 :
       /\ CtlReq(EnumKind, n)
       /\ \/ /\ status' # "OK"
             /\ Post(n) /\ EndPass /\ UNCHANGED enumState
          \/ /\ status' = "OK" /\ enumState = "SET_ADDR"
             /\ Post(n) /\ Continue("addrDelay") /\ UNCHANGED enumState
          \/ /\ status' = "OK" /\ enumState = "SERIAL"
             /\ Post(n) /\ Continue("enumDone") /\ UNCHANGED enumState
          \/ /\ status' = "OK" /\ enumState \notin {"SET_ADDR", "SERIAL"}
             /\ enumState' = NextEnum[enumState]
             /\ Post(IF enumState = "MFC" THEN n + 1 ELSE n) /\ EndPass
  /\ UNCHANGED <<gState, last, isConn, cls, sideVars>>

\* A mutant: no message when there is no string to ask for.
EnumNoStringSilent ==
  /\ IsString /\ ~strings
  /\ IF enumState = "SERIAL" THEN Continue("enumDone") ELSE EndPass
  /\ enumState' = NextEnum[enumState]
  /\ UNCHANGED <<ctlVars, gState, last, isConn, cls, sideVars>>

\* A device without that string: straight to the next state.
EnumNoString ==
  /\ IsString /\ ~strings
  /\ IF enumState = "SERIAL" THEN Continue("enumDone") ELSE EndPass
  /\ enumState' = NextEnum[enumState]
  /\ Post(1)
  /\ UNCHANGED <<hostVars, open, chanVars, dev, gState, last, isConn, cls, sideVars>>

\* ENUM_SET_ADDR finds no free address.
EnumNoAddress ==
  /\ "noaddr" \in Upsets /\ enumState = "SET_ADDR" /\ reqState = "CMD_SEND"
  /\ troubled' = TRUE
  /\ Continue("reenum")
  /\ UNCHANGED <<ctlVars, coreVars, portVars, appVars, isr, unstopped>>

Enumerate ==
  /\ ThreadRuns /\ pc = "run" /\ gState = "ENUMERATION"
  /\ EnumIdle \/ EnumRequest \/ EnumNoString \/ EnumNoAddress

\* A pass whose call will start a transfer is past the test of the pipes.  Here
\* a disconnect may free them, and the transfer is started all the same; then
\* the pass ends as its caller makes it on USBH_BUSY.
Asks ==
  \/ gState = "ENUMERATION" /\ (IsString => strings)
  \/ gState = "SET_CONFIGURATION"
  \/ gState = "CLASS_REQUEST" /\ cls = "hub"
SubmitBegin ==
  /\ ThreadRuns /\ pc = "run" /\ Asks /\ Submits
  /\ Continue("submit")
  /\ UNCHANGED <<ctlVars, coreVars, sideVars>>
SubmitEnd ==
  /\ ThreadRuns /\ pc = "submit"
  /\ Submission
  /\ IF enumState = "IDLE" THEN StillAsking(0)
                           ELSE Post(0) /\ EndPass /\ UNCHANGED last
  /\ UNCHANGED <<gState, enumState, isConn, cls, sideVars>>

AddressSet ==
  /\ ThreadRuns /\ pc = "addrDelay"
  /\ enumState' = "CFG"
  /\ EndPass
  /\ UNCHANGED <<ctlVars, gState, last, isConn, cls, sideVars>>

\* One configuration, or several for the user to choose from.
EnumDone ==
  /\ ThreadRuns /\ pc = "enumDone"
  /\ gState' \in {"SET_CONFIGURATION", "INPUT"}
  /\ EndPass
  /\ UNCHANGED <<ctlVars, enumState, last, isConn, cls, sideVars>>

-----------------------------------------------------------------------------
(* A new start. *)

\* A mutant: the engine keeps its request.
DeInitKeepsRequest ==
  /\ open' = FALSE
  /\ gState' = "IDLE" /\ enumState' = "IDLE"
  /\ ctrl' = "SETUP" /\ errorcount' = 0
  /\ UNCHANGED <<reqState, setup, status, last>>

\* last_ctrl_status keeps its value.
DeInitStateMachine ==
  /\ open' = FALSE
  /\ gState' = "IDLE" /\ enumState' = "IDLE"
  /\ reqState' = "CMD_SEND" /\ ctrl' = "SETUP" /\ errorcount' = 0
  /\ UNCHANGED <<setup, status, last>>

\* USBH_ReEnumerate: stop, power off, free the control pipes, wait.
ReEnumStop ==
  /\ ThreadRuns /\ pc = "reenum"
  /\ LLStop /\ open' = FALSE /\ unstopped' = FALSE
  /\ vbus' = FALSE /\ Unpowered
  /\ IF Present THEN Vanishes ELSE UNCHANGED <<dint, pcdet, pena, penchng>>
  /\ Continue("reenumDelay")
  /\ UNCHANGED <<hostVars, events, coreVars, inserted, strings, appVars, isr,
                 troubled>>

ReEnumStart ==
  /\ ThreadRuns /\ pc = "reenumDelay"
  /\ DeInitStateMachine
  /\ vbus' = TRUE
  /\ IF inserted THEN Appears ELSE UNCHANGED <<dint, pcdet, pena, penchng>>
  /\ troubled' = ~inserted
  /\ Post(1) /\ EndPass
  /\ UNCHANGED <<chanVars, dev, isConn, cls, inserted, strings, appVars, isr,
                 unstopped>>

-----------------------------------------------------------------------------
(* From the configuration to the class, and back. *)

Input ==
  /\ ThreadRuns /\ pc = "run" /\ gState = "INPUT"
  /\ gState' = "SET_CONFIGURATION"
  /\ Post(1) /\ EndPass
  /\ UNCHANGED <<hostVars, open, chanVars, dev, enumState, last, isConn, cls, sideVars>>

\* A request of the pass: repeated until it is OK, then the pass goes on.
Request(state, k, next) ==
  /\ ThreadRuns /\ pc = "run" /\ gState = state /\ ~Submits
  /\ \E n \in 0 .. 1 :
       /\ CtlReq(k, n) /\ Post(n)
       /\ IF status' = "OK" THEN Continue(next) ELSE EndPass
  /\ UNCHANGED <<coreVars, sideVars>>

SetConfiguration == Request("SET_CONFIGURATION", "set", "setcfgDone")

SetConfigurationDone ==
  /\ ThreadRuns /\ pc = "setcfgDone"
  /\ gState' = "CHECK_CLASS"
  /\ EndPass
  /\ UNCHANGED <<ctlVars, enumState, last, isConn, cls, sideVars>>

CheckClass ==
  /\ ThreadRuns /\ pc = "run" /\ gState = "CHECK_CLASS"
  /\ cls' \in {"none", "ec20", "hub"}
  /\ Continue("classInit")
  /\ UNCHANGED <<ctlVars, gState, enumState, last, isConn, sideVars>>

\* The class driver's Init; its result is written before the user is told.
ClassInit ==
  /\ ThreadRuns /\ pc = "classInit"
  /\ gState' = IF cls = "none" THEN "ABORT" ELSE "CLASS_REQUEST"
  /\ Continue("classUp")
  /\ UNCHANGED <<ctlVars, enumState, last, isConn, cls, sideVars>>

\* HOST_USER_CLASS_SELECTED: the modem has an application, the hub has none.
ClassUp ==
  /\ ThreadRuns /\ pc = "classUp"
  /\ IF cls = "ec20" THEN app' = "new" /\ appClass' = TRUE
                     ELSE UNCHANGED appVars
  /\ Post(1) /\ EndPass
  /\ UNCHANGED <<hostVars, open, chanVars, dev, coreVars, portVars, isr,
                 unstopped, troubled>>

\* The modem's driver has no class request but HOST_USER_CLASS_ACTIVE; the
\* hub's is abstracted to one.
ClassRequest ==
  \/ cls = "hub" /\ Request("CLASS_REQUEST", "get", "requestDone")
  \/ /\ ThreadRuns /\ pc = "run" /\ gState = "CLASS_REQUEST" /\ cls = "ec20"
     /\ Continue("starting")
     /\ UNCHANGED <<ctlVars, coreVars, sideVars>>

\* start_EC20_Application writes through app_data.
StartApp ==
  /\ ThreadRuns /\ pc = "starting"
  /\ IF app = "new" THEN app' = "running" /\ Continue("requestDone")
                    ELSE Continue("dead") /\ UNCHANGED app
  /\ UNCHANGED <<ctlVars, coreVars, portVars, appClass, isr, unstopped, troubled>>

ClassRequestDone ==
  /\ ThreadRuns /\ pc = "requestDone"
  /\ gState' = "CLASS"
  /\ EndPass
  /\ UNCHANGED <<ctlVars, enumState, last, isConn, cls, sideVars>>

\* HOST_DEV_DISCONNECTED: the class DeInit, then the state machines.
DeInitBegin ==
  /\ ThreadRuns /\ pc = "run" /\ gState = "DISCONNECTED"
  /\ Continue("deInit")
  /\ UNCHANGED <<ctlVars, coreVars, sideVars>>

\* The modem's driver waits until its application is gone.
DeInitEnd ==
  /\ ThreadRuns /\ pc = "deInit" /\ (cls = "ec20" => app = "none")
  /\ DeInitStateMachine
  /\ cls' = "none"
  /\ EndPass
  /\ UNCHANGED <<chanVars, dev, events, isConn, sideVars>>

\* The hub's driver calls through the class of a child that has none.
HubDeInitCrash ==
  /\ ThreadRuns /\ pc = "deInit" /\ cls = "hub"
  /\ Continue("dead")
  /\ UNCHANGED <<ctlVars, coreVars, sideVars>>

-----------------------------------------------------------------------------
(* The bus: the device answers only while it is on an enabled port. *)

OnBus ==
  Present /\ pena
  /\ UNCHANGED <<coreVars, portVars, appVars, pc, isr, masked, unstopped>>

OutAnswer == OutDone /\ OnBus /\ UNCHANGED troubled
InAnswer  == InDone /\ OnBus /\ UNCHANGED troubled
Naks   == "nak" \in Upsets /\ (OutNak \/ InNak) /\ OnBus /\ UNCHANGED troubled
Stalls == "stall" \in Upsets /\ (OutStall \/ InStall) /\ OnBus /\ troubled' = TRUE
Errs   == "error" \in Upsets /\ (OutError \/ InError) /\ OnBus /\ troubled' = TRUE

PassStep ==
  \/ NothingDue \/ IdleConnected \/ ResetPort \/ AttachedBegin \/ AttachedEnd
  \/ OpenPipes \/ SubmitBegin \/ SubmitEnd
  \/ Enumerate \/ EnumOpened \/ EnumDelayEnd \/ AddressSet \/ EnumDone
  \/ ReEnumStop \/ ReEnumStart
  \/ Input \/ SetConfiguration \/ SetConfigurationDone
  \/ CheckClass \/ ClassInit \/ ClassUp
  \/ ClassRequest \/ StartApp \/ ClassRequestDone
  \/ DeInitBegin \/ DeInitEnd

Next ==
  \/ Insert \/ Remove \/ PortISR \/ DisconnectBegin \/ DisconnectEnd
  \/ Wake \/ PassStep \/ HubDeInitCrash
  \/ OutAnswer \/ InAnswer \/ Naks \/ Stalls \/ Errs

Spec == Init /\ [][Next]_vars

\* Interrupts are served, the thread runs when it has a message, and a device
\* that is asked again and again takes the transaction in the end.
Fairness ==
  /\ WF_vars(PortISR) /\ WF_vars(DisconnectBegin) /\ WF_vars(DisconnectEnd)
  /\ WF_vars(Wake) /\ WF_vars(PassStep)
  /\ SF_vars(OutAnswer) /\ SF_vars(InAnswer)
FairSpec == Spec /\ Fairness

-----------------------------------------------------------------------------
(* Properties. *)

\* The next pass would change something: a state that acts by itself, a new
\* request to start, or an engine whose outcome is there.  The retry after a
\* bus error is left out: it is known to put no message (UsbhControl).
EngineActs ==
  \/ reqState = "CMD_SEND" /\ ctrl # "ERROR" /\ errorcount = 0
  \/ /\ reqState = "CMD_WAIT"
     /\ \/ ctrl \in {"SETUP", "DATA_IN", "STATUS_IN", "STATUS_OUT"}
        \/ ctrl = "SETUP_WAIT" /\ urbOut = "DONE"
        \/ ctrl \in {"DATA_IN_WAIT", "STATUS_IN_WAIT"} /\ urbIn = "DONE"
        \/ ctrl = "STATUS_OUT_WAIT" /\ urbOut \in {"DONE", "NOTREADY"}
PassDue ==
  \/ gState = "IDLE" /\ isConn
  \/ gState \in {"ATTACHED", "INPUT", "CHECK_CLASS", "DISCONNECTED"}
  \/ gState = "ENUMERATION" /\ IsString /\ ~strings
  \/ gState \in {"ENUMERATION", "SET_CONFIGURATION"} /\ open /\ EngineActs

\* No lost wake-up: when the next pass has something to do, a message is in
\* the queue or an interrupt is about to put one, although most transitions
\* of gState put none themselves and live on the engine's messages.
NoPassForgotten == PassDue /\ pc = "sleep" /\ ThreadRuns => events > 0

\* A channel runs only while its pipe is allocated: no transfer outlives the
\* device it was started for, unless the disconnect could not stop it: it came
\* between USBH_CtlReq's test of the pipes and the submission, or found the
\* HAL locked.
NoStrayTransfer == chanIn # "OFF" \/ chanOut # "OFF" => open \/ unstopped

\* Every enumeration starts from the beginning: no request or error count of
\* the device before is left, and no channel that a disconnect stopped.
FreshEnumeration ==
  [][gState # "ENUMERATION" /\ gState' = "ENUMERATION" =>
       /\ enumState = "IDLE" /\ reqState = "CMD_SEND" /\ errorcount = 0
       /\ unstopped \/ (chanIn = "OFF" /\ chanOut = "OFF")]_vars

\* A device inserted while the host is ready for it, and that meets none of
\* the upsets, reaches its class or is found to have none.
EnumerationCompletes ==
  (inserted /\ ~troubled) ~> (gState \in {"CLASS", "ABORT"} \/ troubled)

\* A disconnect handled between two passes leads back to HOST_IDLE, unless
\* another disconnect comes first (which may find no application and never
\* return).  Not so for a modem whose application was
\* made after the disconnect was handled (its DeInit waits for the
\* application's end), nor for a hub (its DeInit may crash on a child that
\* has no class).
DisconnectHandled ==
  (gState = "DISCONNECTED" /\ pc = "sleep" /\ isr = "none" /\ app = "none"
    /\ cls # "hub") ~> (gState = "IDLE" \/ dint)

\* stm32f1xx_hal.c:226 "The SysTick interrupt must have higher priority
\* (numerically lower) than the peripheral interrupt. Otherwise the caller ISR
\* process will be blocked."  The disconnect interrupt ends.
DisconnectISREnds == (isr = "delay") ~> (isr = "none")

\* usbh_core.c:696 of HOST_DEV_DISCONNECTED: "Re-Initilaize Host for new
\* Enumeration".  A device that stays inserted is enumerated.
\* (The runs look at a host whose thread lives and that has met no modem.)
Sound == [](pc # "dead" /\ ~appClass)
RemovedForGood == Sound /\ <>[]~inserted => <>[](gState = "IDLE")
Settled == inserted /\ gState \in {"CLASS", "ABORT"}
NewEnumeration == Sound => [](inserted => <>(~inserted \/ Settled))
=============================================================================
