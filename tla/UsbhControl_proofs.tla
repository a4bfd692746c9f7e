------------------------- MODULE UsbhControl_proofs -------------------------
(***************************************************************************)
(* Theorems about UsbhControl for every length of the queue, every         *)
(* MaxErrors and every set of faults.  The invariant says, for a request   *)
(* in progress, which transfer each state of the engine finds on its       *)
(* channel and how far the device must have come when that channel says    *)
(* DONE; everything else follows from it.                                  *)
(***************************************************************************)
EXTENDS UsbhControl, UsbhCtlReq_proofs, TLAPS

-----------------------------------------------------------------------------
(* The inductive invariant. *)

\* A request is in the engine and the pipes are allocated.
Working == open /\ reqState = "CMD_WAIT"

\* The device took the SETUP packet of the engine's request; its data too.
TookSetup == dev.kind = setup /\ dev.stage # "idle"
TookData  == TookSetup /\ (dev.stage \in {"data", "status"} \/ ~HasData(setup))

DataIn    == {"DATA_IN", "DATA_IN_WAIT"}
DataOut   == {"DATA_OUT", "DATA_OUT_WAIT"}
StatusIn  == {"STATUS_IN", "STATUS_IN_WAIT"}
StatusOut == {"STATUS_OUT", "STATUS_OUT_WAIT"}

SetupInv ==
  ctrl = "SETUP_WAIT" =>
    /\ chanOut \in {"SETUP", "OFF"}
    /\ chanOut = "SETUP" => sent = setup
    /\ urbOut = "DONE" => chanOut = "OFF" /\ TookSetup
DataInv ==
  /\ ctrl \in DataIn => HasData(setup) /\ IsToHost(setup) /\ TookSetup
  /\ ctrl \in DataOut => HasData(setup) /\ ~IsToHost(setup) /\ TookSetup
  /\ ctrl = "DATA_IN_WAIT" =>
       chanIn \in {"DATA", "OFF"} /\ (urbIn = "DONE" => TookData)
  /\ ctrl = "DATA_OUT_WAIT" =>
       chanOut \in {"DATA", "OFF"} /\ (urbOut = "DONE" => TookData)
StatusInv ==
  /\ ctrl \in StatusIn => ~IsToHost(setup) /\ TookData
  /\ ctrl \in StatusOut => IsToHost(setup) /\ TookData
  /\ ctrl = "STATUS_IN_WAIT" =>
       chanIn \in {"STATUS", "OFF"} /\ (urbIn = "DONE" => dev.stage = "status")
  /\ ctrl = "STATUS_OUT_WAIT" =>
       chanOut \in {"STATUS", "OFF"} /\ (urbOut = "DONE" => dev.stage = "status")

\* No SETUP packet is on its way behind the engine's back.
QuietInv ==
  ctrl \in DataIn \cup DataOut \cup StatusIn \cup StatusOut => chanOut # "SETUP"

\* The request in the engine is the one its caller repeats, or it is stuck in
\* a stall that never leads to USBH_OK, or a loop has taken it over.
Stuck ==
  \/ ctrl \in {"DATA_IN_WAIT", "STATUS_IN_WAIT"} /\ urbIn = "STALL"
  \/ ctrl = "STALLED"
StageInv == Working => SetupInv /\ DataInv /\ StatusInv /\ QuietInv
OwnerInv == reqState = "CMD_WAIT" => asked = setup \/ Stuck \/ taken
WaitInv  ==
  /\ reqState = "CMD_WAIT" => status \in {"BUSY", "NOT_SUPPORTED"}
  /\ urbIn = "STALL" => chanIn = "OFF"
PollInv ==
  /\ taken => thread \in {"poll", "pollEnd"}
  /\ thread = "poll" =>
       /\ asked \in Kinds
       /\ asked = setup \/ taken \/ (reqState = "CMD_WAIT" /\ Stuck)

IInv == TypeOK /\ StageInv /\ OwnerInv /\ WaitInv /\ PollInv

-----------------------------------------------------------------------------
(* One call of USBH_CtlReq, and one event of a channel. *)

\* One call keeps the invariant of the stages; it changes the request in the
\* engine only when it starts one, and never frees an engine that is stuck.
LEMMA CallStage ==
  ASSUME CtlTypeOK, StageInv, WaitInv,
         NEW k \in Kinds, NEW n \in 0 .. 1, CtlReq(k, n)
  PROVE  /\ StageInv' /\ WaitInv'
         /\ Working' /\ ~Working => setup' = k
         /\ Working' /\ Working => setup' = setup
         /\ Working /\ Stuck => Working' /\ Stuck'
         /\ status' = "NOT_SUPPORTED" => Stuck'
<1> USE DEF CtlTypeOK, Working
<1>1. CASE ~open
  BY <1>1 DEF CtlReq, StageInv, WaitInv, chanVars
<1>2. CASE open /\ reqState = "CMD_SEND"
  BY <1>2
  DEF CtlReq, Goto, chanVars, StageInv, WaitInv, SetupInv, DataInv, StatusInv,
      QuietInv, DataIn, DataOut, StatusIn, StatusOut
<1>3. CASE open /\ reqState = "CMD_WAIT" /\ HandleControl(n)
  <2>1. setup' = setup /\ UNCHANGED <<open, dev>>
    BY <1>3 DEF CtlReq
  <2>2. SetupInv /\ DataInv /\ StatusInv /\ QuietInv
    BY <1>3 DEF StageInv
  <2>3. WaitInv'
    BY <1>3
    DEF WaitInv, HandleControl, StartStage, Start, SetupWait, DataInWait, DataOutWait,
        StatusInWait, StatusOutWait, CtrlError, Leaves, Stays, Goto, chanVars,
        SubmitIn, SubmitOut, LLStop
  <2>4. /\ Stuck => reqState' = "CMD_WAIT" /\ Stuck'
        /\ status' = "NOT_SUPPORTED" => Stuck'
    BY <1>3
    DEF Stuck, HandleControl, StartStage, Start, SetupWait, DataInWait, DataOutWait,
        StatusInWait, StatusOutWait, CtrlError, Leaves, Stays, Goto, chanVars
  <2>5. ASSUME Start("SETUP", SubmitOut("SETUP"), "SETUP_WAIT", n)
       PROVE  StageInv'
    BY <2>1, <2>2, <2>5
    DEF Start, SubmitOut, Goto, StageInv, SetupInv, DataInv, StatusInv,
        QuietInv, DataIn, DataOut, StatusIn, StatusOut
  <2>6. ASSUME SetupWait(n)
       PROVE  StageInv'
    BY <2>1, <2>2, <2>6
    DEF SetupWait, Leaves, Stays, Goto, AfterSetup, chanVars, StageInv, SetupInv,
        DataInv, StatusInv, QuietInv, DataIn, DataOut, StatusIn, StatusOut,
        TookSetup, TookData
  <2>7. ASSUME Start("DATA_IN", SubmitIn("DATA"), "DATA_IN_WAIT", n)
               \/ Start("DATA_OUT", SubmitOut("DATA"), "DATA_OUT_WAIT", n)
       PROVE  StageInv'
    BY <2>1, <2>2, <2>7
    DEF Start, SubmitIn, SubmitOut, Goto, StageInv, SetupInv, DataInv, StatusInv,
        QuietInv, DataIn, DataOut, StatusIn, StatusOut, TookSetup
  <2>8. ASSUME DataInWait(n) \/ DataOutWait(n)
       PROVE  StageInv'
    BY <2>1, <2>2, <2>8
    DEF DataInWait, DataOutWait, Leaves, Stays, Goto, chanVars, StageInv,
        SetupInv, DataInv, StatusInv, QuietInv, DataIn, DataOut, StatusIn,
        StatusOut, TookSetup, TookData
  <2>9. ASSUME Start("STATUS_IN", SubmitIn("STATUS"), "STATUS_IN_WAIT", n)
               \/ Start("STATUS_OUT", SubmitOut("STATUS"), "STATUS_OUT_WAIT", n)
       PROVE  StageInv'
    BY <2>1, <2>2, <2>9
    DEF Start, SubmitIn, SubmitOut, Goto, StageInv, SetupInv, DataInv, StatusInv,
        QuietInv, DataIn, DataOut, StatusIn, StatusOut, TookSetup, TookData
  <2>10. ASSUME StatusInWait(n) \/ StatusOutWait(n)
       PROVE  StageInv'
    BY <2>1, <2>2, <2>10
    DEF StatusInWait, StatusOutWait, Leaves, Stays, Goto, chanVars, StageInv,
        SetupInv, DataInv, StatusInv, QuietInv, DataIn, DataOut, StatusIn,
        StatusOut, TookSetup, TookData
  <2>11. ASSUME CtrlError(n)
       PROVE  StageInv'
    BY <2>11 DEF CtrlError, StageInv
  <2>12. ASSUME ctrl \in {"IDLE", "STALLED", "COMPLETE"} /\ Goto(ctrl, "BUSY")
       PROVE  StageInv'
    BY <2>12
    DEF Goto, StageInv, SetupInv, DataInv, StatusInv, QuietInv, DataIn, DataOut,
        StatusIn, StatusOut
  <2>13. StageInv'
    BY <1>3, <2>5, <2>6, <2>7, <2>8, <2>9, <2>10, <2>11, <2>12
    DEF HandleControl, StartStage
  <2> QED
    BY <1>3, <2>1, <2>3, <2>4, <2>13
<1> QED
  BY <1>1, <1>2, <1>3 DEF CtlReq

\* A channel event keeps it too: the device only moves on in the request whose
\* SETUP packet it took.
LEMMA BusStage ==
  ASSUME CtlTypeOK, StageInv, WaitInv, BusEvent
  PROVE  /\ StageInv' /\ WaitInv'
         /\ UNCHANGED hostVars /\ Working' = Working
         /\ Stuck => Stuck'
<1>1. UNCHANGED hostVars /\ UNCHANGED <<open, sent>>
  BY DEF BusEvent, OutDone, InDone, OutNak, InNak, OutStall, InStall, OutError,
         InError
<1>2. Working' = Working /\ WaitInv'
  BY <1>1
  DEF Working, WaitInv, hostVars, BusEvent, OutDone, InDone, OutNak, InNak,
      OutStall, InStall, OutError, InError
<1>3. Stuck => Stuck'
  BY <1>1
  DEF Stuck, WaitInv, hostVars, BusEvent, OutDone, InDone, OutNak, InNak, OutStall,
      InStall, OutError, InError, TakesIn
<1>4. SUFFICES ASSUME Working PROVE StageInv'
  BY <1>1, <1>2, <1>3 DEF StageInv
<1>5. SetupInv /\ DataInv /\ StatusInv /\ QuietInv
  BY <1>4 DEF StageInv
<1>6. dev \in [kind : Kinds, stage : Stages]
  BY DEF CtlTypeOK
<1>7. /\ chanOut # "SETUP" /\ TookSetup => TookSetup'
      /\ chanOut # "SETUP" /\ TookData => TookData'
      /\ chanOut # "SETUP" /\ dev.stage = "status" => dev'.stage = "status"
  BY <1>1, <1>6
  DEF hostVars, BusEvent, OutDone, InDone, OutNak, InNak, OutStall, InStall,
      OutError, InError, TakesOut, TakesIn, TakesSetup, TakesData, TakesStatus,
      TookSetup, TookData, Stages
<1>8. SetupInv'
  BY <1>1, <1>5, <1>6, <1>7
  DEF SetupInv, hostVars, BusEvent, OutDone, InDone, OutNak, InNak, OutStall,
      InStall, OutError, InError, TakesOut, TakesSetup, TookSetup
<1>9. QuietInv'
  BY <1>1, <1>5
  DEF QuietInv, hostVars, BusEvent, OutDone, InDone, OutNak, InNak, OutStall,
      InStall, OutError, InError
<1>10. DataInv'
  BY <1>1, <1>5, <1>6, <1>7
  DEF DataInv, QuietInv, DataIn, DataOut, hostVars, BusEvent, OutDone, InDone,
      OutNak, InNak, OutStall, InStall, OutError, InError, TakesOut, TakesIn,
      TakesData, TookSetup, TookData
<1>11. StatusInv'
  BY <1>1, <1>5, <1>6, <1>7
  DEF StatusInv, QuietInv, StatusIn, StatusOut, hostVars, BusEvent, OutDone,
      InDone, OutNak, InNak, OutStall, InStall, OutError, InError, TakesOut,
      TakesIn, TakesStatus, TookSetup, TookData
<1> QED
  BY <1>8, <1>9, <1>10, <1>11 DEF StageInv

-----------------------------------------------------------------------------
(* The steps of the callers. *)

\* The steps that call USBH_CtlReq once.
EngineStep == Pass \/ FallThrough \/ PollStep

\* A pass calls for the caller's request k, and the caller keeps it or is
\* through with it; the loop calls for the request that is in the engine.
OnePass(k) ==
  /\ thread = "run" /\ thread' \in {"sleep", "pollDue"} /\ taken' = taken
  /\ asked \in {k, "none"} /\ asked' \in {k, "none"}
  /\ asked' = "none" => status' \in {"OK", "FAIL", "NOT_SUPPORTED"}
OneTurn(k) ==
  /\ thread = "poll" /\ k = setup
  /\ \/ /\ thread' = "poll" /\ status' = "BUSY"
        /\ asked' = asked /\ taken' = taken
     \/ /\ thread' \in {"pollEnd", "sleep"} /\ status' # "BUSY"
        /\ asked' \in {asked, "none"} /\ taken' \in {taken, FALSE}
        /\ taken' => thread' = "pollEnd"

LEMMA EngineCalls ==
  ASSUME TypeOK, EngineStep
  PROVE  \E k \in Kinds, n \in 0 .. 1 :
           /\ CtlReq(k, n) /\ events' \in {PutN(n), PutN(n + 1)}
           /\ OnePass(k) \/ OneTurn(k)
<1>1. CASE Pass
  <2>1. PICK k \in MayAsk, n \in 0 .. 1 :
          CtlReq(k, n) /\ events' = PutN(n) /\ Answered(k)
    BY <1>1 DEF Pass
  <2>2. k \in Kinds /\ asked \in {k, "none"}
    BY <2>1 DEF MayAsk, TypeOK
  <2>3. OnePass(k)
    BY <1>1, <2>1, <2>2 DEF Pass, Answered, OnePass, Kinds
  <2> QED
    BY <2>1, <2>2, <2>3
<1>2. CASE FallThrough
  <2>1. PICK n \in 0 .. 1 :
          /\ CtlReq("set", n)
          /\ events' = PutN(IF status' = "OK" THEN n ELSE n + 1)
    BY <1>2 DEF FallThrough
  <2>2. "set" \in Kinds /\ asked \in {"set", "none"}
    BY <1>2 DEF FallThrough, MayAsk, Kinds
  <2>3. status' \in Statuses
    BY <2>1
    DEF CtlReq, HandleControl, StartStage, Start, SetupWait, DataInWait, DataOutWait,
        StatusInWait, StatusOutWait, CtrlError, Leaves, Stays, Goto, Statuses
  <2>4. OnePass("set")
    BY <1>2, <2>2, <2>3 DEF FallThrough, Statuses, OnePass
  <2> QED
    BY <2>1, <2>2, <2>4
<1>3. CASE PollStep
  BY <1>3 DEF PollStep, LoopEnds, TypeOK, CtlTypeOK, OneTurn
<1> QED
  BY <1>1, <1>2, <1>3 DEF EngineStep

LEMMA EngineHurt ==
  ASSUME TypeOK, EngineStep
  PROVE  hurt' \in BOOLEAN
BY Zenon DEF TypeOK, EngineStep, Pass, Answered, FallThrough, PollStep, LoopEnds,
             Leftover

\* Such a step keeps the invariant.
LEMMA CallStep ==
  ASSUME IInv, EngineStep
  PROVE  IInv'
<1>1. PICK k \in Kinds, n \in 0 .. 1 :
        /\ CtlReq(k, n) /\ events' \in {PutN(n), PutN(n + 1)}
        /\ OnePass(k) \/ OneTurn(k)
  BY EngineCalls DEF IInv
<1>2. TypeOK'
  <2>1. events' \in 0 .. QueueLen
    BY <1>1, PutGrows DEF IInv, TypeOK
  <2>2. CtlTypeOK'
    BY <1>1, <2>1, CallType DEF IInv, TypeOK
  <2>3. hurt' \in BOOLEAN
    BY EngineHurt DEF IInv
  <2>4. taken' \in BOOLEAN
    BY <1>1, Zenon DEF IInv, TypeOK, OnePass, OneTurn
  <2>5. /\ thread' \in {"sleep", "run", "pollDue", "poll", "pollEnd"}
        /\ asked' \in Kinds \cup {"none"}
    BY <1>1 DEF IInv, TypeOK, OnePass, OneTurn
  <2> QED
    BY <2>2, <2>3, <2>4, <2>5 DEF TypeOK
<1>3. /\ StageInv' /\ WaitInv'
      /\ Working' /\ ~Working => setup' = k
      /\ Working' /\ Working => setup' = setup
      /\ Working /\ Stuck => Working' /\ Stuck'
      /\ status' = "NOT_SUPPORTED" => Stuck'
  BY <1>1, CallStage DEF IInv, TypeOK
<1>4. /\ reqState' = "CMD_WAIT" => Working'
      /\ reqState = "CMD_SEND" => setup' = k
      /\ reqState = "CMD_WAIT" => setup' = setup
      /\ ~open => status' = "FAIL"
  BY <1>1 DEF CtlReq, Working
<1>5. CASE OnePass(k)
  <2>1. PollInv'
    BY <1>5 DEF IInv, PollInv, OnePass
  <2>2. OwnerInv'
    <3>1. SUFFICES ASSUME Working', ~Stuck' PROVE asked' = setup'
      BY <1>4 DEF OwnerInv
    <3>2. asked' = k
      BY <1>3, <1>5, <3>1 DEF WaitInv, Working, OnePass
    <3>3. CASE Working
      BY <1>3, <1>5, <3>1, <3>2, <3>3
      DEF IInv, OwnerInv, PollInv, TypeOK, CtlTypeOK, Kinds, Working, OnePass
    <3> QED
      BY <1>3, <3>1, <3>2, <3>3
  <2> QED
    BY <1>2, <1>3, <2>1, <2>2 DEF IInv
<1>6. CASE OneTurn(k)
  <2>1. setup' = setup
    BY <1>4, <1>6 DEF OneTurn, IInv, TypeOK, CtlTypeOK
  <2>2. asked = setup \/ taken \/ (reqState = "CMD_WAIT" /\ Stuck)
    BY <1>6 DEF IInv, PollInv, OneTurn
  <2>3. CASE thread' = "poll"
    <3>1. status' = "BUSY" /\ asked' = asked /\ taken' = taken /\ open
      BY <1>4, <1>6, <2>3 DEF OneTurn
    <3>2. asked' = setup' \/ taken' \/ (reqState' = "CMD_WAIT" /\ Stuck')
      BY <1>3, <2>1, <2>2, <3>1 DEF Working
    <3>3. PollInv'
      BY <1>6, <2>3, <3>1, <3>2 DEF PollInv, IInv, OneTurn
    <3>4. OwnerInv'
      BY <3>2 DEF OwnerInv
    <3> QED
      BY <1>2, <1>3, <3>3, <3>4 DEF IInv
  <2>4. CASE thread' # "poll"
    <3>1. status' # "BUSY"
      BY <1>6, <2>4 DEF OneTurn
    <3>2. PollInv'
      BY <1>6, <2>4 DEF PollInv, IInv, OneTurn
    <3>3. OwnerInv'
      BY <1>3, <3>1 DEF OwnerInv, WaitInv
    <3> QED
      BY <1>2, <1>3, <3>2, <3>3 DEF IInv
  <2> QED
    BY <2>3, <2>4
<1> QED
  BY <1>1, <1>5, <1>6

\* A step that ends the request in the engine, or leaves it and its caller
\* alone.
LEMMA QuietStep ==
  ASSUME IInv, TypeOK', PollInv', WaitInv',
         \/ reqState' # "CMD_WAIT"
         \/ /\ UNCHANGED <<hostVars, urbIn, urbOut, sent, dev, asked, taken>>
            /\ Working' => UNCHANGED <<open, chanVars>>
  PROVE  IInv'
<1>1. CASE reqState' # "CMD_WAIT"
  BY <1>1 DEF IInv, StageInv, OwnerInv, Working
<1>2. CASE /\ UNCHANGED <<hostVars, urbIn, urbOut, sent, dev, asked, taken>>
           /\ Working' => UNCHANGED <<open, chanVars>>
  <2>1. StageInv'
    BY <1>2
    DEF IInv, StageInv, Working, SetupInv, DataInv, StatusInv, QuietInv,
        TookSetup, TookData, hostVars, chanVars
  <2>2. OwnerInv'
    BY <1>2 DEF IInv, OwnerInv, Stuck, hostVars
  <2> QED
    BY <2>1, <2>2 DEF IInv
<1> QED
  BY <1>1, <1>2

\* The invariant is inductive: one step of it for each action.
THEOREM Invariant == Spec => []IInv
<1>1. Init => IInv
  <2> SUFFICES ASSUME Init PROVE IInv
    OBVIOUS
  <2>1. TypeOK
    <3>1. open \in BOOLEAN /\ hurt \in BOOLEAN
      BY Zenon DEF Init
    <3>2. events \in 0 .. QueueLen /\ errorcount \in 0 .. MaxErrors
      BY QueueAssumption, ErrorAssumption DEF Init, CtlInit
    <3>3. dev \in [kind : Kinds, stage : Stages]
      BY DEF Init, CtlInit, Kinds, Stages
    <3> QED
      BY <3>1, <3>2, <3>3
      DEF Init, CtlInit, TypeOK, CtlTypeOK, Kinds, CtrlStates, UrbStates,
          Statuses, Tokens
  <2> QED
    BY <2>1
    DEF Init, CtlInit, IInv, StageInv, OwnerInv, WaitInv, PollInv, Working
<1>2. IInv /\ [Next]_vars => IInv'
  <2> SUFFICES ASSUME IInv, [Next]_vars PROVE IInv'
    OBVIOUS
  <2>1. CASE Wake \/ IdlePass \/ OtherEvent
    <3>1. UNCHANGED <<hostVars, chanVars, open, dev, asked, taken>>
      BY <2>1 DEF Wake, IdlePass, OtherEvent, Kept, ctlVars
    <3>2. hurt' \in BOOLEAN
      BY <2>1, Zenon DEF IInv, TypeOK, Wake, IdlePass, OtherEvent
    <3>3. events' \in 0 .. QueueLen
      BY <2>1, QueueAssumption
      DEF IInv, TypeOK, CtlTypeOK, Wake, IdlePass, OtherEvent, UrbEvent, PutN,
          ctlVars
    <3>4. thread' \in {"sleep", "run", "pollDue", "poll", "pollEnd"} /\ PollInv'
      BY <2>1, <3>1
      DEF IInv, TypeOK, PollInv, Stuck, Wake, IdlePass, OtherEvent, Kept, hostVars,
          chanVars
    <3>5. TypeOK' /\ WaitInv'
      BY <3>1, <3>2, <3>3, <3>4
      DEF IInv, TypeOK, CtlTypeOK, WaitInv, hostVars, chanVars
    <3> QED
      BY <3>1, <3>4, <3>5, QuietStep DEF chanVars
  <2>2. CASE EngineStep
    BY <2>2, CallStep
  <2>3. CASE PollBegin
    <3>1. /\ UNCHANGED <<reqState, ctrl, errorcount, status, open, chanVars, dev,
                        events>>
          /\ asked' \in Kinds /\ thread' = "poll"
          /\ setup' = IF reqState = "CMD_SEND" THEN asked' ELSE setup
      BY <2>3 DEF PollBegin, Kinds
    <3>2. hurt' \in BOOLEAN /\ taken' \in BOOLEAN
      BY <2>3, Zenon DEF PollBegin
    <3>3. taken' = (asked # "none" /\ reqState = "CMD_WAIT")
      BY <2>3 DEF PollBegin
    <3>4. ~taken /\ reqState \in {"CMD_SEND", "CMD_WAIT"}
      BY <2>3 DEF PollBegin, IInv, PollInv, TypeOK, CtlTypeOK
    <3>5. TypeOK' /\ WaitInv'
      BY <3>1, <3>2 DEF IInv, TypeOK, CtlTypeOK, WaitInv, chanVars
    <3>6. asked' = setup' \/ taken' \/ (reqState' = "CMD_WAIT" /\ Stuck')
      BY <3>1, <3>3, <3>4
      DEF IInv, OwnerInv, Stuck, chanVars, TypeOK, CtlTypeOK, Kinds
    <3>7. PollInv' /\ OwnerInv'
      BY <3>1, <3>6 DEF PollInv, OwnerInv
    <3>8. StageInv'
      BY <3>1
      DEF chanVars, IInv, StageInv, Working, SetupInv, DataInv, StatusInv,
          QuietInv, TookSetup, TookData
    <3> QED
      BY <3>5, <3>7, <3>8 DEF IInv
  <2>6. CASE PollGiveUp \/ Unplug \/ Reattach
    <3>1. open' \in BOOLEAN /\ hurt' \in BOOLEAN /\ taken' \in BOOLEAN
      BY <2>6, Zenon
      DEF IInv, TypeOK, CtlTypeOK, PollGiveUp, Unplug, Reattach, LoopEnds, Kept
    <3>2. events' \in 0 .. QueueLen /\ errorcount' \in 0 .. MaxErrors
      BY <2>6, QueueAssumption, ErrorAssumption
      DEF IInv, TypeOK, CtlTypeOK, PollGiveUp, Unplug, Reattach, UrbEvent, PutN,
          hostVars
    <3>3. /\ reqState' \in {"CMD_SEND", "CMD_WAIT"} /\ ctrl' \in CtrlStates
          /\ setup' \in Kinds /\ status' \in Statuses
          /\ dev' \in [kind : Kinds, stage : Stages]
      BY <2>6
      DEF IInv, TypeOK, CtlTypeOK, PollGiveUp, Unplug, Reattach, hostVars,
          CtrlStates, Statuses, Stages
    <3>4. /\ UNCHANGED <<urbIn, urbOut, sent>>
          /\ chanIn' \in {chanIn, "OFF"} /\ chanOut' \in {chanOut, "OFF"}
      BY <2>6 DEF PollGiveUp, Unplug, Reattach, LLStop, chanVars
    <3>5. /\ thread' \in {"sleep", "run", "pollDue", "poll", "pollEnd"}
          /\ asked' \in Kinds \cup {"none"} /\ PollInv'
      BY <2>6, <3>4
      DEF IInv, TypeOK, PollInv, Stuck, PollGiveUp, Unplug, Reattach, LoopEnds,
          Kept, hostVars
    <3>6. WaitInv'
      BY <2>6, <3>4
      DEF IInv, WaitInv, PollGiveUp, Unplug, Reattach, hostVars
    <3>7. TypeOK'
      BY <3>1, <3>2, <3>3, <3>4, <3>5 DEF IInv, TypeOK, CtlTypeOK, Tokens
    <3>8. \/ reqState' # "CMD_WAIT"
          \/ /\ UNCHANGED <<hostVars, urbIn, urbOut, sent, dev, asked, taken>>
             /\ ~Working'
      BY <2>6, <3>4 DEF PollGiveUp, Unplug, Reattach, Kept, Working
    <3> QED
      BY <3>5, <3>6, <3>7, <3>8, QuietStep
  <2>4. CASE Answers \/ Naks \/ Stalls \/ Errs
    <3>1. BusEvent /\ Kept /\ hurt' \in BOOLEAN
      BY <2>4 DEF Answers, Naks, Stalls, Errs, BusEvent, IInv, TypeOK
    <3>2. TypeOK'
      BY <3>1, BusType DEF IInv, TypeOK, Kept
    <3>3. /\ StageInv' /\ WaitInv'
          /\ UNCHANGED hostVars /\ Working' = Working
          /\ Stuck => Stuck'
      BY <3>1, BusStage DEF IInv, TypeOK
    <3> QED
      BY <3>1, <3>2, <3>3 DEF IInv, OwnerInv, PollInv, Kept, hostVars
  <2>5. CASE UNCHANGED vars
    BY <2>5, QuietStep
    DEF vars, ctlVars, hostVars, chanVars, IInv, TypeOK, CtlTypeOK, PollInv, Stuck,
        WaitInv
  <2> QED
    BY <2>1, <2>2, <2>3, <2>4, <2>5, <2>6 DEF Next, ThreadStep, EngineStep
<1> QED
  BY <1>1, <1>2, PTL DEF Spec

-----------------------------------------------------------------------------
(* What follows from the invariant. *)

\* Every variable keeps the range the code gives it: errorcount never exceeds
\* USBH_MAX_ERROR_COUNT, the queue never its length.
THEOREM TypeCorrect == Spec => []TypeOK
<1>1. IInv => TypeOK
  BY DEF IInv
<1> QED
  BY <1>1, Invariant, PTL

\* USBH_HandleControl is never ahead of the device, for every queue length,
\* every retry limit and every set of faults.
THEOREM HostBehind == Spec => []HostBehindDevice
<1>1. IInv => HostBehindDevice
  BY DEF IInv, StageInv, Working, DataInv, StatusInv, TookData, TookSetup,
         DataIn, DataOut, StatusIn, StatusOut, HostBehindDevice
<1> QED
  BY <1>1, Invariant, PTL

\* USBH_CtlReq returns USBH_OK only for a request whose status stage the device
\* has acknowledged; and the caller that is told so asked for that request,
\* except the hub's loop when it polls the one its pass left half done
\* (usbh_hub.c:605).
THEOREM OkIsDone == Spec => OkMeansDone
<1> DEFINE Done == Returns("OK") => /\ dev = [kind |-> setup, stage |-> "status"]
                                    /\ setup = asked \/ taken
<1>1. IInv /\ [Next]_vars => [Done]_vars
  <2> SUFFICES ASSUME IInv, Next, Returns("OK")
               PROVE  /\ dev = [kind |-> setup, stage |-> "status"]
                      /\ setup = asked \/ taken
    OBVIOUS
  <2>1. CASE EngineStep
    <3>1. PICK k \in Kinds, n \in 0 .. 1 : CtlReq(k, n)
      BY <2>1, EngineCalls DEF IInv
    <3>2. Working /\ HandleControl(n)
      BY <3>1 DEF CtlReq, Returns, Working
    <3>3. /\ \/ ctrl = "STATUS_IN_WAIT" /\ urbIn = "DONE"
             \/ ctrl = "STATUS_OUT_WAIT" /\ urbOut = "DONE"
          /\ ~Stuck
      BY <3>2
      DEF Returns, HandleControl, StartStage, Start, SetupWait, DataInWait, DataOutWait,
          StatusInWait, StatusOutWait, CtrlError, Leaves, Stays, Goto, Stuck
    <3>4. dev.stage = "status" /\ dev.kind = setup
      BY <3>2, <3>3
      DEF IInv, StageInv, StatusInv, StatusIn, StatusOut, TookData, TookSetup
    <3>5. setup = asked \/ taken
      BY <3>2, <3>3 DEF IInv, OwnerInv, Working
    <3> QED
      BY <3>4, <3>5 DEF IInv, TypeOK, CtlTypeOK
  <2>2. CASE ~EngineStep
    <3>1. ~Returns("OK")
      BY <2>2
      DEF IInv, WaitInv, Returns, Next, ThreadStep, EngineStep, Wake, IdlePass,
          PollBegin, PollGiveUp, Reattach, Answers, Naks, Stalls, Errs, Unplug,
          OtherEvent, OutDone, InDone, OutNak, InNak, OutStall, InStall, OutError,
          InError, ctlVars, hostVars
    <3> QED
      BY <3>1
  <2> QED
    BY <2>1, <2>2
<1> QED
  BY <1>1, Invariant, PTL DEF Spec, OkMeansDone

-----------------------------------------------------------------------------
(* Waiting: each of the two is inductive on its own, given the types. *)

\* A waiting engine waits for a transfer that is on its channel or has ended.
THEOREM NeverWaitsForNothing == Spec => []WaitsForSomething
<1> USE DEF WaitsForSomething
<1>1. Init => WaitsForSomething
  BY DEF Init, CtlInit
<1>2. WaitsForSomething /\ IInv /\ [Next]_vars => WaitsForSomething'
  <2> SUFFICES ASSUME WaitsForSomething, IInv, [Next]_vars
               PROVE  WaitsForSomething'
    OBVIOUS
  <2>1. CASE EngineStep
    <3>1. PICK k \in Kinds, n \in 0 .. 1 : CtlReq(k, n)
      BY <2>1, EngineCalls DEF IInv
    <3>2. CASE ~open \/ reqState = "CMD_SEND"
      BY <3>1, <3>2 DEF CtlReq, Goto
    <3>3. CASE Working /\ HandleControl(n)
      BY <3>1, <3>3
      DEF Working, CtlReq, HandleControl, StartStage, Start, SetupWait, DataInWait,
          DataOutWait, StatusInWait, StatusOutWait, CtrlError, Leaves, Stays,
          Goto, AfterSetup, SubmitIn, SubmitOut, chanVars
    <3> QED
      BY <3>1, <3>2, <3>3 DEF CtlReq, Working
  <2>2. CASE PollGiveUp \/ Unplug \/ Reattach
    BY <2>2 DEF PollGiveUp, Unplug, Reattach
  <2>3. CASE Answers \/ Naks \/ Stalls \/ Errs
    BY <2>3
    DEF Answers, Naks, Stalls, Errs, OutDone, InDone, OutNak, InNak, OutStall,
        InStall, OutError, InError, hostVars
  <2>4. CASE Wake \/ IdlePass \/ PollBegin \/ OtherEvent \/ UNCHANGED vars
    BY <2>4
    DEF Wake, IdlePass, PollBegin, OtherEvent, vars, ctlVars, hostVars, chanVars
  <2> QED
    BY <2>1, <2>2, <2>3, <2>4 DEF Next, ThreadStep, EngineStep
<1> QED
  BY <1>1, <1>2, Invariant, PTL DEF Spec

\* The engine is never left with something to do, the thread asleep and the
\* queue empty, although a put into a full queue is dropped.
THEOREM WakeupKept == Spec => []NoLostWakeup
<1> USE DEF NoLostWakeup, CanAct
<1>1. Init => NoLostWakeup
  BY DEF Init, CtlInit
<1>2. NoLostWakeup /\ IInv /\ [Next]_vars => NoLostWakeup'
  <2> SUFFICES ASSUME NoLostWakeup, IInv, [Next]_vars
               PROVE  NoLostWakeup'
    OBVIOUS
  <2>1. events \in Nat /\ PutN(1) > 0
    BY QueueAssumption DEF IInv, TypeOK, CtlTypeOK, PutN
  <2>2. CASE EngineStep
    <3>1. PICK k \in Kinds, n \in 0 .. 1 :
            CtlReq(k, n) /\ events' \in {PutN(n), PutN(n + 1)} 
      BY <2>2, EngineCalls DEF IInv
    <3>2. CASE n = 1
      BY <2>1, <3>1, <3>2, PutGrows DEF IInv, TypeOK
    <3>3. CASE n # 1 /\ ~(open /\ reqState = "CMD_WAIT")
      BY <3>1, <3>3 DEF CtlReq
    <3>4. CASE n # 1 /\ Working /\ HandleControl(n)
      <4>1. urbOut \in UrbStates
        BY DEF IInv, TypeOK, CtlTypeOK
      <4> QED
        BY <3>1, <3>4, <4>1
        DEF UrbStates, Working, CtlReq, HandleControl, StartStage, Start, SetupWait,
            DataInWait, DataOutWait, StatusInWait, StatusOutWait, CtrlError,
            Leaves, Stays, Goto, SubmitIn, SubmitOut, chanVars
    <3> QED
      BY <3>1, <3>2, <3>3, <3>4 DEF CtlReq, Working
  <2>3. CASE PollGiveUp
    BY <2>3 DEF PollGiveUp
  <2>4. CASE Unplug \/ Reattach \/ OtherEvent \/ Answers \/ Naks \/ Stalls \/ Errs
    BY <2>1, <2>4
    DEF Unplug, Reattach, OtherEvent, Answers, Naks, Stalls, Errs, OutDone, InDone,
        OutNak, InNak, OutStall, InStall, OutError, InError, UrbEvent
  <2>5. CASE Wake \/ IdlePass \/ PollBegin \/ UNCHANGED vars
    BY <2>5
    DEF Wake, IdlePass, PollBegin, vars, ctlVars, hostVars, chanVars
  <2> QED
    BY <2>2, <2>3, <2>4, <2>5 DEF Next, ThreadStep, EngineStep
<1> QED
  BY <1>1, <1>2, Invariant, PTL DEF Spec

-----------------------------------------------------------------------------
(* The engine implements the control transfer. *)

\* A call of USBH_CtlReq is one step of the transfer or none.
LEMMA CallRefines ==
  ASSUME IInv, NEW k \in Kinds, NEW n \in 0 .. 1, CtlReq(k, n)
  PROVE  [Transfer!Next]_(Transfer!tvars)
<1> USE DEF Transfer!tvars, Transfer!Next, AbstractStage, AbstractResult
<1>1. CASE ~open
  BY <1>1 DEF CtlReq, Transfer!GiveUp, IInv, TypeOK, CtlTypeOK
<1>2. CASE open /\ reqState = "CMD_SEND"
  BY <1>2 DEF CtlReq, Goto, Transfer!Begin
<1>3. CASE Working /\ HandleControl(n)
  <2>1. setup' = setup /\ setup \in Kinds /\ reqState = "CMD_WAIT"
    BY <1>3 DEF CtlReq, Working, IInv, TypeOK, CtlTypeOK
  <2>2. DataInv /\ StatusInv
    BY <1>3 DEF IInv, StageInv
  <2>3. CASE StartStage(n)
    BY <2>1, <2>3 DEF StartStage, Start, Goto
  <2>4. CASE SetupWait(n)
    BY <2>1, <2>4
    DEF SetupWait, AfterSetup, Leaves, Stays, Goto, Transfer!Data, Transfer!Status,
        Transfer!Halt
  <2>5. CASE DataInWait(n)
    BY <2>1, <2>2, <2>5
    DEF DataInWait, DataInv, DataIn, Leaves, Stays, Goto, Transfer!Status,
        Transfer!Halt
  <2>6. CASE DataOutWait(n)
    BY <2>1, <2>2, <2>6
    DEF DataOutWait, DataInv, DataOut, Leaves, Stays, Goto, Transfer!Status,
        Transfer!Halt, Transfer!GiveUp
  <2>7. CASE StatusInWait(n) \/ StatusOutWait(n)
    BY <2>1, <2>7
    DEF StatusInWait, StatusOutWait, Leaves, Stays, Goto, Transfer!Complete,
        Transfer!Halt
  <2>8. CASE CtrlError(n)
    BY <2>1, <2>8 DEF CtrlError, Transfer!GiveUp
  <2>9. CASE ctrl \in {"IDLE", "STALLED", "COMPLETE"} /\ Goto(ctrl, "BUSY")
    BY <2>1, <2>9 DEF Goto
  <2> QED
    BY <1>3, <2>3, <2>4, <2>5, <2>6, <2>7, <2>8, <2>9
    DEF HandleControl, StartStage
<1> QED
  BY <1>1, <1>2, <1>3 DEF CtlReq, Working

\* Every run of the engine is a run of the transfer of the USB specification:
\* no data before SETUP was acknowledged, a status stage in the direction
\* opposite to the data, completion from there only.
THEOREM Implementation == Spec => ImplementsTransfer
<1>1. Init => Transfer!Init
  BY DEF Init, CtlInit, Transfer!Init, AbstractStage, AbstractResult, Kinds
<1>2. IInv /\ [Next]_vars => [Transfer!Next]_(Transfer!tvars)
  <2> SUFFICES ASSUME IInv, [Next]_vars PROVE [Transfer!Next]_(Transfer!tvars)
    OBVIOUS
  <2>1. CASE EngineStep
    BY <2>1, EngineCalls, CallRefines DEF IInv
  <2>2. CASE PollGiveUp
    BY <2>2
    DEF PollGiveUp, LoopEnds, AbstractStage, AbstractResult, Transfer!Next,
        Transfer!GiveUp, IInv, TypeOK, CtlTypeOK
  <2>3. CASE Reattach
    BY <2>3
    DEF Reattach, AbstractStage, AbstractResult, Transfer!Next, Transfer!GiveUp,
        Transfer!tvars, IInv, WaitInv, TypeOK, CtlTypeOK
  <2>5. CASE PollBegin
    BY <2>5
    DEF PollBegin, AbstractStage, AbstractResult, Transfer!Next, Transfer!Prepare,
        Transfer!tvars, IInv, TypeOK, CtlTypeOK, Kinds
  <2>4. CASE \/ Wake \/ IdlePass \/ Unplug \/ OtherEvent
             \/ Answers \/ Naks \/ Stalls \/ Errs \/ UNCHANGED vars
    <3>1. UNCHANGED hostVars
      BY <2>4
      DEF Wake, IdlePass, Unplug, OtherEvent, Answers, Naks, Stalls,
          Errs, OutDone, InDone, OutNak, InNak, OutStall, InStall, OutError,
          InError, ctlVars, vars
    <3> QED
      BY <3>1 DEF hostVars, AbstractStage, AbstractResult, Transfer!tvars
  <2> QED
    BY <2>1, <2>2, <2>3, <2>4, <2>5 DEF Next, ThreadStep, EngineStep
<1> QED
  BY <1>1, <1>2, Invariant, PTL DEF Spec, ImplementsTransfer, Transfer!Spec
=============================================================================
