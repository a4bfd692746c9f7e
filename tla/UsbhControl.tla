---------------------------- MODULE UsbhControl ----------------------------
(***************************************************************************)
(* The control engine of UsbhCtlReq with its callers: the host thread,     *)
(* woken by the queue, repeats one request until USBH_CtlReq says OK or    *)
(* FAIL; the hub's driver polls in a loop instead and gives up after a     *)
(* count (usbh_hub.c:166-181), also when the engine still holds a request  *)
(* of the same pass that has not ended (the fall-through at usbh_hub.c:605);*)
(* the device may be unplugged at any moment.                              *)
(***************************************************************************)
EXTENDS UsbhCtlReq

\* What may go wrong in a run: a subset of AllFaults.
CONSTANT Faults
AllFaults == {"nak", "stall", "error", "unplug", "poll", "other"}
ASSUME FaultsAssumption == Faults \subseteq AllFaults

VARIABLES
  thread,  \* "sleep" on the queue, "run" a pass, "pollDue" fallen through to
           \* the hub's port loop, "poll" in its call loop, "pollEnd" when the
           \* loop got an answer that is not OK
  asked,   \* the request the caller repeats, "none" between requests
  hurt,    \* that request met a stall, an error or an unplug, or found an
           \* abandoned one in the engine
  taken    \* the loop polls a request that is not its own but one its pass
           \* left half done

vars == <<ctlVars, thread, asked, hurt, taken>>

TypeOK ==
  /\ CtlTypeOK
  /\ thread \in {"sleep", "run", "pollDue", "poll", "pollEnd"}
  /\ asked \in Kinds \cup {"none"}
  /\ hurt \in BOOLEAN /\ taken \in BOOLEAN

Init ==
  /\ CtlInit /\ open = TRUE
  /\ thread = "sleep" /\ asked = "none" /\ hurt = FALSE /\ taken = FALSE

-----------------------------------------------------------------------------
(* The host thread. *)

\* osMessageGet returns: USBH_Process_OS starts a pass.
Wake ==
  /\ thread = "sleep" /\ events > 0
  /\ thread' = "run" /\ events' = events - 1
  /\ UNCHANGED <<hostVars, chanVars, open, dev, asked, hurt, taken>>

\* A new request finds the one its caller walked away from still in the
\* engine or on a channel.
Leftover ==
  asked = "none" /\ (reqState = "CMD_WAIT" \/ chanIn # "OFF" \/ chanOut # "OFF")

MayAsk == IF asked = "none" THEN Kinds ELSE {asked}

\* What a pass makes of the answer to its call.  The callers repeat the request
\* on BUSY and, but for USBH_MSC_ClassRequest, on NOT_SUPPORTED.
Answered(k) ==
  \/ status' \in {"BUSY", "NOT_SUPPORTED"}
     /\ asked' = k /\ hurt' = (hurt \/ Leftover)
  \/ status' \in {"OK", "FAIL", "NOT_SUPPORTED"}
     /\ asked' = "none" /\ hurt' = FALSE

\* A pass: one call of USBH_CtlReq.
Pass ==
  /\ thread = "run"
  /\ \E k \in MayAsk, n \in 0 .. 1 :
       CtlReq(k, n) /\ events' = PutN(n) /\ Answered(k)
  /\ thread' = "sleep"
  /\ UNCHANGED taken

\* HUB_REQ_CLR_FEATURE: one call for the USBH_ClrFeature, a message unless it
\* is done, and whatever the answer on to the port loop: there is no break.
FallThrough ==
  /\ "poll" \in Faults
  /\ thread = "run" /\ "set" \in MayAsk
  /\ \E n \in 0 .. 1 :
       /\ CtlReq("set", n)
       /\ events' = PutN(IF status' = "OK" THEN n ELSE n + 1)
  /\ IF status' \in {"BUSY", "NOT_SUPPORTED"}
     THEN asked' = "set" /\ hurt' = (hurt \/ Leftover)
     ELSE asked' = "none" /\ hurt' = FALSE
  /\ thread' = "pollDue"
  /\ UNCHANGED taken

\* A pass in which no request is due.
IdlePass ==
  /\ thread = "run" /\ asked = "none"
  /\ thread' = "sleep"
  /\ UNCHANGED <<ctlVars, asked, hurt, taken>>

\* The hub's loops: USBH_HUB_GetPortStatus, and USBH_HUB_ClearPort and SetPort
\* for a request without data.  The setup packet is filled before the loop,
\* that of the status only in CMD_SEND: otherwise the loop calls for the
\* request that is in the engine.  (The other two fill it in any case; they
\* follow a status that was OK, or each other.)
PollBegin ==
  /\ "poll" \in Faults
  /\ \/ thread = "run" /\ asked = "none" /\ asked' \in {"get", "set"}
     \/ thread = "pollDue" /\ asked' = "get"
  /\ setup' = IF reqState = "CMD_SEND" THEN asked' ELSE setup
  /\ taken' = (asked # "none" /\ reqState = "CMD_WAIT")
  /\ hurt' = (Leftover \/ taken')
  /\ thread' = "poll"
  /\ UNCHANGED <<reqState, ctrl, errorcount, status, open, chanVars, dev, events>>

LoopEnds == thread' = "sleep" /\ asked' = "none" /\ hurt' = FALSE /\ taken' = FALSE

\* Call until the answer is not BUSY.
PollStep ==
  /\ thread = "poll"
  /\ \E n \in 0 .. 1 : CtlReq(setup, n) /\ events' = PutN(n)
  /\ \/ status' = "BUSY" /\ UNCHANGED <<thread, asked, hurt, taken>>
     \/ status' = "OK" /\ LoopEnds
     \/ status' \in {"FAIL", "NOT_SUPPORTED"} /\ asked = "set" /\ LoopEnds
     \/ /\ status' \in {"FAIL", "NOT_SUPPORTED"} /\ asked = "get"
        /\ thread' = "pollEnd" /\ hurt' = TRUE /\ UNCHANGED <<asked, taken>>

\* The count ran out, or the answer was not OK: the request is dropped where
\* it stands and its channels are left alone.
PollGiveUp ==
  /\ thread \in {"poll", "pollEnd"}
  /\ LoopEnds
  /\ reqState' = "CMD_SEND" /\ status' = "FAIL"
  /\ UNCHANGED <<ctrl, setup, errorcount, open, chanVars, dev, events>>

-----------------------------------------------------------------------------
(* The bus. *)

Kept == UNCHANGED <<thread, asked, taken>>

Answers == (OutDone \/ InDone) /\ Kept /\ UNCHANGED hurt
Naks ==
  /\ "nak" \in Faults
  /\ OutNak \/ InNak
  /\ Kept /\ UNCHANGED hurt
Stalls ==
  /\ "stall" \in Faults
  /\ OutStall \/ InStall
  /\ Kept /\ hurt' = (asked # "none")
Errs ==
  /\ "error" \in Faults
  /\ OutError \/ InError
  /\ Kept /\ hurt' = (asked # "none")

\* The disconnect interrupt: stop the channels, free the control pipes, wake
\* the thread.
Unplug ==
  /\ "unplug" \in Faults /\ open
  /\ LLStop /\ open' = FALSE /\ UrbEvent
  /\ Kept /\ hurt' = (asked # "none")
  /\ UNCHANGED <<hostVars, dev>>

\* The thread finds the device gone, resets the handle and, with the next
\* device attached, allocates the pipes again.
Reattach ==
  /\ thread = "run" /\ ~open
  /\ open' = TRUE
  /\ reqState' = "CMD_SEND" /\ ctrl' = "SETUP" /\ errorcount' = 0
  /\ dev' = [dev EXCEPT !.stage = "idle"]
  /\ thread' = "sleep" /\ asked' = "none" /\ hurt' = FALSE
  /\ UrbEvent
  /\ UNCHANGED <<setup, status, chanVars, taken>>

\* Any other sender of the queue: a port interrupt, a class driver, another
\* device's channel.  It brings the first request, and wake-ups nobody asked.
OtherEvent ==
  /\ "other" \in Faults \/ (thread = "sleep" /\ asked = "none" /\ events = 0)
  /\ UrbEvent
  /\ Kept /\ UNCHANGED <<hostVars, chanVars, open, dev, hurt>>

ThreadStep ==
  \/ Pass \/ FallThrough \/ IdlePass \/ Reattach
  \/ PollBegin \/ PollStep \/ PollGiveUp
Next ==
  \/ Wake \/ ThreadStep
  \/ Answers \/ Naks \/ Stalls \/ Errs
  \/ Unplug \/ OtherEvent

Spec == Init /\ [][Next]_vars

\* The thread runs when it has a message (its priority is above everything
\* that could keep it from running for ever), and a device that is asked
\* again and again takes the transaction in the end.
Fairness ==
  /\ WF_vars(Wake)
  /\ WF_vars(ThreadStep)
  /\ SF_vars(OutDone /\ Kept /\ UNCHANGED hurt)
  /\ SF_vars(InDone /\ Kept /\ UNCHANGED hurt)
FairSpec == Spec /\ Fairness

-----------------------------------------------------------------------------
(* Properties. *)

\* The engine has something to do: it holds a request and either must start a
\* stage, or waits for one whose outcome is there and has a branch.
CanAct ==
  /\ open /\ reqState = "CMD_WAIT" /\ asked # "none"
  /\ \/ ctrl \in {"SETUP", "DATA_IN", "DATA_OUT", "STATUS_IN", "STATUS_OUT",
                   "ERROR"}
     \/ ctrl = "SETUP_WAIT" /\ urbOut \in {"DONE", "ERROR"}
     \/ ctrl \in {"DATA_IN_WAIT", "STATUS_IN_WAIT"}
          /\ urbIn \in {"DONE", "STALL", "ERROR"}
     \/ ctrl = "DATA_OUT_WAIT" /\ urbOut # "IDLE"
     \/ ctrl = "STATUS_OUT_WAIT" /\ urbOut \in {"DONE", "NOTREADY", "ERROR"}

\* No lost wake-up: whenever the engine can go on, a message is in the queue or
\* the thread is in a pass, although messages are dropped when the queue is
\* full and the thread looks at a channel only once per pass.
NoLostWakeup == CanAct /\ thread = "sleep" => events > 0

\* USBH_OK is returned only when the device has acknowledged the status stage
\* of the request in the engine, also after retries, repeated transactions,
\* dropped requests and an unplug in between; and that request is the one its
\* caller asked for, except in the hub's port loop after the fall-through at
\* usbh_hub.c:605, where GetPortStatus is told OK for a half-done ClrFeature.
Returns(s) == reqState = "CMD_WAIT" /\ reqState' = "CMD_SEND" /\ status' = s
OkMeansDone ==
  [][Returns("OK") => /\ dev = [kind |-> setup, stage |-> "status"]
                      /\ setup = asked \/ taken]_vars

\* The host never runs ahead of the device: it is in the data stage only when
\* the device took the SETUP packet of this request, and in the status stage
\* only when the device took the data too.
HostBehindDevice ==
  open /\ reqState = "CMD_WAIT" =>
    /\ ctrl \in {"DATA_IN", "DATA_IN_WAIT", "DATA_OUT", "DATA_OUT_WAIT"} =>
         dev.kind = setup /\ dev.stage # "idle"
    /\ ctrl \in {"STATUS_IN", "STATUS_IN_WAIT", "STATUS_OUT", "STATUS_OUT_WAIT"} =>
         /\ dev.kind = setup
         /\ dev.stage \in {"data", "status"} \/ ~HasData(setup)

\* While the engine waits, the stage it waits for is on the channel it looks
\* at, or that channel already holds an outcome: it never waits for a
\* transfer that nobody runs.
WaitsForSomething ==
  open /\ reqState = "CMD_WAIT" =>
    /\ ctrl = "SETUP_WAIT" => chanOut = "SETUP" \/ urbOut # "IDLE"
    /\ ctrl = "DATA_IN_WAIT" => chanIn = "DATA" \/ urbIn # "IDLE"
    /\ ctrl = "DATA_OUT_WAIT" => chanOut = "DATA" \/ urbOut # "IDLE"
    /\ ctrl = "STATUS_IN_WAIT" => chanIn = "STATUS" \/ urbIn # "IDLE"
    /\ ctrl = "STATUS_OUT_WAIT" => chanOut = "STATUS" \/ urbOut # "IDLE"

\* A request that meets no stall, error, unplug or give-up is answered, however
\* often the device answers NAK and however full the queue is.
RequestsAnswered ==
  (asked # "none" /\ ~hurt) ~> (asked = "none" \/ hurt)

\* The engine implements the control transfer of the USB specification.
AbstractStage ==
  IF reqState = "CMD_SEND" THEN "none" ELSE
  CASE ctrl \in {"SETUP", "SETUP_WAIT"} -> "setup"
    [] ctrl \in {"DATA_IN", "DATA_IN_WAIT"} -> "data in"
    [] ctrl \in {"DATA_OUT", "DATA_OUT_WAIT"} -> "data out"
    [] ctrl \in {"STATUS_IN", "STATUS_IN_WAIT"} -> "status in"
    [] ctrl \in {"STATUS_OUT", "STATUS_OUT_WAIT"} -> "status out"
    [] OTHER -> "halted"
AbstractResult ==
  IF reqState = "CMD_WAIT" THEN "pending"
  ELSE IF status = "OK" THEN "ok" ELSE "failed"
Transfer == INSTANCE UsbControlTransfer
              WITH kind <- setup, stage <- AbstractStage, result <- AbstractResult
ImplementsTransfer == Transfer!Spec

\* usbh_ctlreq.c:852 of the CTRL_ERROR branch: "Do the transmission again,
\* starting from SETUP Packet".  A recovery the engine started leads to a
\* new SETUP packet.
Recovering == reqState = "CMD_SEND" /\ ctrl = "SETUP" /\ asked # "none"
RetryIsSent == Recovering ~> ~Recovering

\* usbh_ctlreq.c:789 of the STALL branch: "Control transfers completed, Exit
\* the State Machine".
Stalled == ctrl = "STATUS_IN_WAIT" /\ urbIn = "STALL"
StallExits == Stalled ~> ~Stalled
=============================================================================
