----------------------------- MODULE UsbhCtlReq -----------------------------
(***************************************************************************)
(* The control transfer engine of one device handle: USBH_CtlReq and       *)
(* USBH_HandleControl (usbh_ctlreq.c), the two channels it drives and the  *)
(* interrupts of those channels (stm32f1xx_hal_hcd.c), and the queue that  *)
(* wakes the host thread (phost->os_event).  There is no Next here: a      *)
(* caller's module (UsbhControl, UsbhCore) composes the operators.         *)
(*                                                                         *)
(* An entry of the queue carries no information the thread uses: the       *)
(* thread ignores the value (usbh_core.c:1219), so the queue is its length.*)
(***************************************************************************)
EXTENDS Integers

CONSTANTS
  QueueLen,    \* osMessageQDef(USBH_Queue, 10, ...)
  MaxErrors    \* USBH_MAX_ERROR_COUNT

ASSUME QueueAssumption == QueueLen \in Nat \ {0}
ASSUME ErrorAssumption == MaxErrors \in Nat

\* What a request needs: bmRequestType's direction and wLength # 0.  No caller
\* asks for a request to the host without data.
Kinds == {"get",     \* device to host, with data
          "put",     \* host to device, with data
          "set"}     \* host to device, no data
HasData(k)  == k \in {"get", "put"}
IsToHost(k) == k = "get"

CtrlStates == {"IDLE", "SETUP", "SETUP_WAIT", "DATA_IN", "DATA_IN_WAIT",
               "DATA_OUT", "DATA_OUT_WAIT", "STATUS_IN", "STATUS_IN_WAIT",
               "STATUS_OUT", "STATUS_OUT_WAIT", "ERROR", "STALLED", "COMPLETE"}
UrbStates  == {"IDLE", "DONE", "NOTREADY", "ERROR", "STALL"}
Statuses   == {"OK", "BUSY", "FAIL", "NOT_SUPPORTED"}
Tokens     == {"OFF", "SETUP", "DATA", "STATUS"}
Stages     == {"idle", "setup", "data", "status"}

VARIABLES
  reqState,    \* phost->RequestState: "CMD_SEND" or "CMD_WAIT"
  ctrl,        \* phost->Control.state
  setup,       \* phost->Control.setup
  errorcount,  \* phost->Control.errorcount
  status,      \* what the last call of USBH_CtlReq returned
  open,        \* bit 15 of both control pipes is set
  urbIn, urbOut,    \* hc[pipe].urb_state of the two channels
  chanIn, chanOut,  \* what each channel is transferring, "OFF" when halted
  sent,        \* the request in the last SETUP packet given to the channel
  dev,         \* the device: the request it last accepted and its stage
  events       \* messages in phost->os_event

hostVars == <<reqState, ctrl, setup, errorcount, status>>
chanVars == <<urbIn, urbOut, chanIn, chanOut, sent>>
ctlVars  == <<hostVars, open, chanVars, dev, events>>

CtlTypeOK ==
  /\ reqState \in {"CMD_SEND", "CMD_WAIT"}
  /\ ctrl \in CtrlStates
  /\ setup \in Kinds
  /\ errorcount \in 0 .. MaxErrors
  /\ status \in Statuses
  /\ open \in BOOLEAN
  /\ urbIn \in UrbStates /\ urbOut \in UrbStates
  /\ chanIn \in Tokens /\ chanOut \in Tokens
  /\ sent \in Kinds
  /\ dev \in [kind : Kinds, stage : Stages]
  /\ events \in 0 .. QueueLen

CtlInit ==
  /\ reqState = "CMD_SEND"
  /\ ctrl = "SETUP"
  /\ setup = "get"
  /\ errorcount = 0
  /\ status = "BUSY"
  /\ urbIn = "IDLE" /\ urbOut = "IDLE"
  /\ chanIn = "OFF" /\ chanOut = "OFF"
  /\ sent = "get"
  /\ dev = [kind |-> "get", stage |-> "idle"]
  /\ events = 0

-----------------------------------------------------------------------------
(* The queue and the low-level driver. *)

\* The queue after n calls of osMessagePut(..., 0): a put into a full queue is
\* dropped.
PutN(n) == IF events + n > QueueLen THEN QueueLen ELSE events + n

SubmitOut(token) ==
  /\ urbOut' = "IDLE" /\ chanOut' = token
  /\ sent' = IF token = "SETUP" THEN setup ELSE sent
  /\ UNCHANGED <<urbIn, chanIn>>

\* Mutants of SubmitIn: the URB state of the transfer before is left in place;
\* the transfer is started on the OUT channel.
SubmitInStale(token) ==
  /\ chanIn' = token
  /\ UNCHANGED <<urbIn, urbOut, chanOut, sent>>
SubmitInWrongPipe(token) ==
  /\ urbOut' = "IDLE" /\ chanOut' = token
  /\ UNCHANGED <<urbIn, chanIn, sent>>

SubmitIn(token) ==
  /\ urbIn' = "IDLE" /\ chanIn' = token
  /\ UNCHANGED <<urbOut, chanOut, sent>>

\* USBH_LL_Stop halts every channel; the urb_state fields keep their values.
LLStop ==
  /\ chanIn' = "OFF" /\ chanOut' = "OFF"
  /\ UNCHANGED <<urbIn, urbOut, sent>>

-----------------------------------------------------------------------------
(* USBH_HandleControl: one operator per state; n is the number of messages   *)
(* it puts.  Goto is the state it leaves behind and the status it returns,   *)
(* together with what the end of USBH_CtlReq makes of that status.           *)

Goto(next, s) ==
  /\ ctrl' = IF s = "OK" THEN "IDLE" ELSE next
  /\ status' = s
  /\ reqState' = IF s \in {"OK", "FAIL"} THEN "CMD_SEND" ELSE "CMD_WAIT"

\* A state that starts a transfer and a state that waits for one.
Start(state, Submit, next, n) ==
  /\ ctrl = state
  /\ Submit
  /\ Goto(next, "BUSY") /\ n = 0
  /\ UNCHANGED errorcount
Leaves(urb, value, next, s, n) ==
  /\ urb = value
  /\ Goto(next, s) /\ n = 1
Stays(urb, handled, n) ==
  /\ urb \notin handled
  /\ Goto(ctrl, "BUSY") /\ n = 0

\* A mutant: wLength is not looked at.
AfterSetupNoLength == IF IsToHost(setup) THEN "DATA_IN" ELSE "DATA_OUT"

AfterSetup ==
  IF HasData(setup) THEN IF IsToHost(setup) THEN "DATA_IN" ELSE "DATA_OUT"
                    ELSE IF IsToHost(setup) THEN "STATUS_OUT" ELSE "STATUS_IN"

\* A mutant: everything but an error counts as sent.
SetupWaitHasty(n) ==
  /\ ctrl = "SETUP_WAIT"
  /\ \/ Leaves(urbOut, "DONE", AfterSetup, "BUSY", n)
     \/ Leaves(urbOut, "NOTREADY", AfterSetup, "BUSY", n)
     \/ Leaves(urbOut, "ERROR", "ERROR", "BUSY", n)
     \/ Stays(urbOut, {"DONE", "NOTREADY", "ERROR"}, n)
  /\ UNCHANGED <<errorcount, chanVars>>

SetupWait(n) ==
  /\ ctrl = "SETUP_WAIT"
  /\ \/ Leaves(urbOut, "DONE", AfterSetup, "BUSY", n)
     \/ Leaves(urbOut, "ERROR", "ERROR", "BUSY", n)
     \/ Stays(urbOut, {"DONE", "ERROR"}, n)
  /\ UNCHANGED <<errorcount, chanVars>>

DataInWait(n) ==
  /\ ctrl = "DATA_IN_WAIT"
  /\ \/ Leaves(urbIn, "DONE", "STATUS_OUT", "BUSY", n)
     \/ Leaves(urbIn, "STALL", "DATA_IN_WAIT", "NOT_SUPPORTED", n)
     \/ Leaves(urbIn, "ERROR", "ERROR", "BUSY", n)
     \/ Stays(urbIn, {"DONE", "STALL", "ERROR"}, n)
  /\ UNCHANGED <<errorcount, chanVars>>

\* A mutant: after a NAK the data stage is due again, without a message.
DataOutWaitSilent(n) ==
  /\ ctrl = "DATA_OUT_WAIT"
  /\ \/ Leaves(urbOut, "DONE", "STATUS_IN", "BUSY", n)
     \/ Leaves(urbOut, "STALL", "STALLED", "NOT_SUPPORTED", n)
     \/ urbOut = "NOTREADY" /\ Goto("DATA_OUT", "BUSY") /\ n = 0
     \/ Leaves(urbOut, "ERROR", "ERROR", "FAIL", n)
     \/ Stays(urbOut, {"DONE", "STALL", "NOTREADY", "ERROR"}, n)
  /\ UNCHANGED <<errorcount, chanVars>>

DataOutWait(n) ==
  /\ ctrl = "DATA_OUT_WAIT"
  /\ \/ Leaves(urbOut, "DONE", "STATUS_IN", "BUSY", n)
     \/ Leaves(urbOut, "STALL", "STALLED", "NOT_SUPPORTED", n)
     \/ Leaves(urbOut, "NOTREADY", "DATA_OUT", "BUSY", n)
     \/ Leaves(urbOut, "ERROR", "ERROR", "FAIL", n)
     \/ Stays(urbOut, {"DONE", "STALL", "NOTREADY", "ERROR"}, n)
  /\ UNCHANGED <<errorcount, chanVars>>

StatusInWait(n) ==
  /\ ctrl = "STATUS_IN_WAIT"
  /\ \/ Leaves(urbIn, "DONE", "COMPLETE", "OK", n)
     \/ Leaves(urbIn, "ERROR", "ERROR", "BUSY", n)
     \/ Leaves(urbIn, "STALL", "STATUS_IN_WAIT", "NOT_SUPPORTED", n)
     \/ Stays(urbIn, {"DONE", "ERROR", "STALL"}, n)
  /\ UNCHANGED <<errorcount, chanVars>>

\* A mutant: a NAK of the status stage is not repeated.
StatusOutWaitNoNak(n) ==
  /\ ctrl = "STATUS_OUT_WAIT"
  /\ \/ Leaves(urbOut, "DONE", "COMPLETE", "OK", n)
     \/ Leaves(urbOut, "ERROR", "ERROR", "BUSY", n)
     \/ Stays(urbOut, {"DONE", "ERROR"}, n)
  /\ UNCHANGED <<errorcount, chanVars>>

\* No branch for a STALL of the status stage.
StatusOutWait(n) ==
  /\ ctrl = "STATUS_OUT_WAIT"
  /\ \/ Leaves(urbOut, "DONE", "COMPLETE", "OK", n)
     \/ Leaves(urbOut, "NOTREADY", "STATUS_OUT", "BUSY", n)
     \/ Leaves(urbOut, "ERROR", "ERROR", "BUSY", n)
     \/ Stays(urbOut, {"DONE", "NOTREADY", "ERROR"}, n)
  /\ UNCHANGED <<errorcount, chanVars>>

\* A mutant: one try too many.
CtrlErrorOnceMore(n) ==
  /\ ctrl = "ERROR" /\ n = 0
  /\ reqState' = "CMD_SEND"
  /\ IF errorcount <= MaxErrors
     THEN /\ errorcount' = errorcount + 1
          /\ LLStop
          /\ ctrl' = "SETUP" /\ status' = "BUSY"
     ELSE /\ errorcount' = 0
          /\ ctrl' = "ERROR" /\ status' = "FAIL"
          /\ UNCHANGED chanVars

\* CTRL_ERROR: stop the controller and start over, without a message, or give
\* up after MaxErrors tries (counted since the last disconnect or give-up).
CtrlError(n) ==
  /\ ctrl = "ERROR" /\ n = 0
  /\ reqState' = "CMD_SEND"
  /\ IF errorcount < MaxErrors
     THEN /\ errorcount' = errorcount + 1
          /\ LLStop
          /\ ctrl' = "SETUP" /\ status' = "BUSY"
     ELSE /\ errorcount' = 0
          /\ ctrl' = "ERROR" /\ status' = "FAIL"
          /\ UNCHANGED chanVars

StartStage(n) ==
  \/ Start("SETUP", SubmitOut("SETUP"), "SETUP_WAIT", n)
  \/ Start("DATA_IN", SubmitIn("DATA"), "DATA_IN_WAIT", n)
  \/ Start("DATA_OUT", SubmitOut("DATA"), "DATA_OUT_WAIT", n)
  \/ Start("STATUS_IN", SubmitIn("STATUS"), "STATUS_IN_WAIT", n)
  \/ Start("STATUS_OUT", SubmitOut("STATUS"), "STATUS_OUT_WAIT", n)
HandleControl(n) ==
  \/ StartStage(n)
  \/ SetupWait(n) \/ DataInWait(n) \/ DataOutWait(n)
  \/ StatusInWait(n) \/ StatusOutWait(n)
  \/ CtrlError(n)
  \/ /\ ctrl \in {"IDLE", "STALLED", "COMPLETE"}
     /\ Goto(ctrl, "BUSY") /\ n = 0
     /\ UNCHANGED <<errorcount, chanVars>>

\* USBH_CtlReq, with the helper that calls it for a request of kind k: the
\* helper fills Control.setup only in CMD_SEND.
CtlReq(k, n) ==
  /\ setup' = IF reqState = "CMD_SEND" THEN k ELSE setup
  /\ \/ /\ ~open
        /\ reqState' = "CMD_SEND" /\ status' = "FAIL" /\ n = 0
        /\ UNCHANGED <<ctrl, errorcount, chanVars>>
     \/ /\ open /\ reqState = "CMD_SEND"
        /\ Goto("SETUP", "BUSY") /\ n = 1
        /\ UNCHANGED <<errorcount, chanVars>>
     \/ /\ open /\ reqState = "CMD_WAIT"
        /\ HandleControl(n)
  /\ UNCHANGED <<open, dev>>

\* A call that will start a transfer, seen from its test of the pipes; and the
\* rest of that call, which does not look at the pipes again.
Submits ==
  /\ open /\ reqState = "CMD_WAIT"
  /\ ctrl \in {"SETUP", "DATA_IN", "DATA_OUT", "STATUS_IN", "STATUS_OUT"}
Submission == StartStage(0) /\ UNCHANGED <<setup, open, dev>>

-----------------------------------------------------------------------------
(* The device and the channel interrupts.  Every halt of a channel ends in   *)
(* HAL_HCD_HC_NotifyURBChange_Callback, one message.                         *)

\* The device takes the transaction on the channel: a SETUP at any time, the
\* others when they are due; a repeated last transaction is acknowledged
\* again.
TakesSetup == dev' = [kind |-> sent, stage |-> "setup"]
TakesData ==
  /\ HasData(dev.kind) /\ dev.stage \in {"setup", "data"}
  /\ dev' = [dev EXCEPT !.stage = "data"]
TakesStatus ==
  /\ dev.stage \in {"data", "status"} \/ (dev.stage = "setup" /\ ~HasData(dev.kind))
  /\ dev' = [dev EXCEPT !.stage = "status"]

TakesOut ==
  \/ chanOut = "SETUP" /\ TakesSetup
  \/ chanOut = "DATA" /\ ~IsToHost(dev.kind) /\ TakesData
  \/ chanOut = "STATUS" /\ IsToHost(dev.kind) /\ TakesStatus
TakesIn ==
  \/ chanIn = "DATA" /\ IsToHost(dev.kind) /\ dev.stage = "setup" /\ TakesData
  \/ chanIn = "STATUS" /\ ~IsToHost(dev.kind) /\ TakesStatus

UrbEvent == events' = PutN(1)

OutDone ==
  /\ TakesOut
  /\ urbOut' = "DONE" /\ chanOut' = "OFF"
  /\ UrbEvent
  /\ UNCHANGED <<hostVars, open, sent, urbIn, chanIn>>
InDone ==
  /\ TakesIn
  /\ urbIn' = "DONE" /\ chanIn' = "OFF"
  /\ UrbEvent
  /\ UNCHANGED <<hostVars, open, sent, urbOut, chanOut>>

\* NAK: the OUT channel stays halted, the IN channel is enabled again.
OutNak ==
  /\ chanOut \in {"DATA", "STATUS"}
  /\ urbOut' = "NOTREADY" /\ chanOut' = "OFF"
  /\ UrbEvent
  /\ UNCHANGED <<hostVars, open, sent, urbIn, chanIn, dev>>
InNak ==
  /\ chanIn # "OFF"
  /\ urbIn' = "NOTREADY"
  /\ UrbEvent
  /\ UNCHANGED <<hostVars, open, sent, urbOut, chanOut, chanIn, dev>>

OutStall ==
  /\ chanOut \in {"DATA", "STATUS"}
  /\ urbOut' = "STALL" /\ chanOut' = "OFF"
  /\ UrbEvent
  /\ UNCHANGED <<hostVars, open, sent, urbIn, chanIn, dev>>
InStall ==
  /\ chanIn # "OFF"
  /\ urbIn' = "STALL" /\ chanIn' = "OFF"
  /\ UrbEvent
  /\ UNCHANGED <<hostVars, open, sent, urbOut, chanOut, dev>>

\* A bus error, or the answer lost after the device took an OUT transaction:
\* NOTREADY, every fourth time ERROR, and the channel is enabled again.
OutError ==
  /\ chanOut # "OFF"
  /\ TakesOut \/ UNCHANGED dev
  /\ urbOut' \in {"NOTREADY", "ERROR"}
  /\ UrbEvent
  /\ UNCHANGED <<hostVars, open, sent, urbIn, chanIn, chanOut>>
InError ==
  /\ chanIn # "OFF"
  /\ urbIn' \in {"NOTREADY", "ERROR"}
  /\ UrbEvent
  /\ UNCHANGED <<hostVars, open, sent, urbOut, chanOut, chanIn, dev>>
=============================================================================
