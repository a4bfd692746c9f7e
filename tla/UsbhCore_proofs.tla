--------------------------- MODULE UsbhCore_proofs ---------------------------
(***************************************************************************)
(* Proofs about the host core of UsbhCore.  Theorems of Spec, for every    *)
(* queue length, error limit, tick priority and set of upsets:             *)
(*   TypeCorrect        []TypeOK                                           *)
(*   NoneStray          []NoStrayTransfer, from Guarded: while the pipes   *)
(*                      are to be freed or opened no channel runs but one  *)
(*                      the disconnect could not stop; Clean: from the     *)
(*                      reset to the pass that opens the pipes the handle  *)
(*                      is as the reset left it; and Submitting: what a    *)
(*                      disconnect in the middle of a submission leaves    *)
(*   EnumerationsFresh  FreshEnumeration, from Guarded and Clean           *)
(*   NoneForgotten      []NoPassForgotten, from Clean, Submitting, Late,   *)
(*                      Posture and Told: what is due has a message, also  *)
(*                      in the middle of a pass that will put none         *)
(* A step is of one of four sorts: a pass that calls USBH_CtlReq           *)
(* (Calling), the end of a submission, a step of the bus, or a step whose  *)
(* changes are written out in UsbhCore (Plain).                            *)
(***************************************************************************)
EXTENDS UsbhCore, UsbhCtlReq_proofs, TLAPS

-----------------------------------------------------------------------------
(* Type correctness. *)

\* The steps that call USBH_CtlReq, and what they leave alone.
Calling ==
  \/ pc = "run" /\ gState = "ENUMERATION" /\ (EnumIdle \/ EnumRequest)
  \/ SetConfiguration
  \/ cls = "hub" /\ Request("CLASS_REQUEST", "get", "requestDone")

\* The steps that touch the engine only by halting the channels, by resetting
\* the handle or by putting messages.
PlainPass == PassStep /\ ~Calling /\ ~SubmitEnd
PortStep == Insert \/ Remove \/ PortISR \/ DisconnectBegin \/ DisconnectEnd
Plain == PortStep \/ Wake \/ HubDeInitCrash \/ PlainPass

LEMMA CallingCalls ==
  ASSUME TypeOK, Calling
  PROVE  /\ \E k \in Kinds, n \in 0 .. 1 :
              CtlReq(k, n) /\ events' \in {PutN(n), PutN(n + 1)}
         /\ UNCHANGED <<gState, isConn, cls, sideVars>>
         /\ enumState' \in EnumStates /\ last' \in CtrlStates \cup {ctrl'}
         /\ pc' \in {"sleep", "reenum", "enumDelay", "enumOpen", "addrDelay",
                     "enumDone", "setcfgDone", "requestDone"}
         /\ masked' \in {masked, FALSE}
<1>1. CASE EnumIdle
  <2>1. \E n \in 0 .. 1 : CtlReq("get", n) /\ events' \in {PutN(n), PutN(n + 1)}
    BY <1>1 DEF EnumIdle, StillAsking, Post
  <2>2. enumState' \in EnumStates /\ last' \in CtrlStates \cup {ctrl'}
    BY <1>1 DEF EnumIdle, StillAsking, TypeOK, EnumStates, CtrlStates
  <2>3. /\ pc' \in {"enumOpen", "reenum", "enumDelay"} /\ masked' = masked
        /\ UNCHANGED <<gState, isConn, cls, sideVars>>
    BY <1>1 DEF EnumIdle, StillAsking, Continue
  <2> QED
    BY <2>1, <2>2, <2>3 DEF Kinds
<1>2. CASE EnumRequest
  <2>1. EnumKind \in Kinds /\ NextEnum[enumState] \in EnumStates
    BY DEF EnumKind, NextEnum, Kinds, TypeOK, EnumStates
  <2>2. \E n \in 0 .. 1 : CtlReq(EnumKind, n) /\ events' \in {PutN(n), PutN(n + 1)}
    BY <1>2 DEF EnumRequest, Post
  <2>3. enumState' \in EnumStates
    BY <1>2, <2>1 DEF EnumRequest, TypeOK
  <2> QED
    BY <1>2, <2>1, <2>2, <2>3 DEF EnumRequest, EndPass, Continue, TypeOK
<1>3. ASSUME NEW state, NEW k \in Kinds,
             NEW next \in {"setcfgDone", "requestDone"}, Request(state, k, next)
      PROVE  /\ \E n \in 0 .. 1 : CtlReq(k, n) /\ events' = PutN(n)
             /\ UNCHANGED <<coreVars, sideVars>>
             /\ pc' \in {"sleep", next} /\ masked' \in {masked, FALSE}
  BY <1>3 DEF Request, Post, EndPass, Continue
<1>4. CASE SetConfiguration
  BY <1>3, <1>4 DEF SetConfiguration, Kinds, coreVars, TypeOK
<1>5. CASE Request("CLASS_REQUEST", "get", "requestDone")
  BY <1>3, <1>5 DEF Kinds, coreVars, TypeOK
<1> QED
  BY <1>1, <1>2, <1>4, <1>5 DEF Calling

LEMMA CallingType ==
  ASSUME TypeOK, Calling
  PROVE  TypeOK'
<1>1. PICK k \in Kinds, n \in 0 .. 1 :
        CtlReq(k, n) /\ events' \in {PutN(n), PutN(n + 1)}
  BY CallingCalls
<1>2. CtlTypeOK'
  <2>1. events' \in 0 .. QueueLen
    BY <1>1, PutGrows DEF TypeOK
  <2> QED
    BY <1>1, <2>1, CallType DEF TypeOK
<1>3. /\ UNCHANGED <<gState, isConn, cls, sideVars>>
      /\ enumState' \in EnumStates /\ last' \in CtrlStates \cup {ctrl'}
      /\ pc' \in {"sleep", "reenum", "enumDelay", "enumOpen", "addrDelay",
                  "enumDone", "setcfgDone", "requestDone"}
      /\ masked' \in {masked, FALSE}
  BY CallingCalls
<1>4. last' \in CtrlStates /\ pc' \in PCs
  BY <1>2, <1>3 DEF CtlTypeOK, PCs
<1>5. masked' \in BOOLEAN
  BY <1>3 DEF TypeOK
<1> QED
  BY <1>2, <1>3, <1>4, <1>5 DEF TypeOK, sideVars, portVars, appVars

\* The end of a submission, and how its pass ends.
LEMMA SubmitEnds ==
  ASSUME TypeOK, SubmitEnd
  PROVE  /\ Submission /\ ctrl' \notin {"IDLE", "ERROR"}
         /\ pc = "submit" /\ isr = "none"
         /\ UNCHANGED <<gState, enumState, isConn, cls, sideVars>>
         /\ \E n \in 0 .. 1 : events' = PutN(n)
         /\ last' \in {last, "IDLE", ctrl'}
         /\ \/ pc' = "sleep" /\ masked' = FALSE
            \/ enumState = "IDLE" /\ pc' \in {"reenum", "enumDelay"}
               /\ masked' = masked
<1>1. ctrl' \notin {"IDLE", "ERROR"}
  BY DEF SubmitEnd, Submission, StartStage, Start, Goto
<1>2. pc = "submit" /\ isr = "none" /\ Submission
      /\ UNCHANGED <<gState, enumState, isConn, cls, sideVars>>
  BY DEF SubmitEnd, ThreadRuns
<1>3. CASE enumState = "IDLE"
  BY <1>1, <1>2, <1>3 DEF SubmitEnd, StillAsking, Post, Continue, EndPass
<1>4. CASE enumState # "IDLE"
  BY <1>1, <1>2, <1>4 DEF SubmitEnd, Post, EndPass
<1> QED
  BY <1>3, <1>4

LEMMA SubmitType ==
  ASSUME TypeOK, SubmitEnd
  PROVE  TypeOK'
<1>1. PICK n \in 0 .. 1 : events' = PutN(n)
  BY SubmitEnds
<1>2. CtlTypeOK'
  <2>1. events' \in 0 .. QueueLen
    BY <1>1, PutGrows DEF TypeOK
  <2> QED
    BY <2>1, SubmitEnds, SubmissionType DEF TypeOK
<1>3. last' \in CtrlStates /\ pc' \in PCs /\ masked' \in BOOLEAN
  BY <1>2, SubmitEnds DEF TypeOK, CtlTypeOK, CtrlStates, PCs
<1>4. UNCHANGED <<gState, enumState, isConn, cls, sideVars>>
  BY SubmitEnds
<1> QED
  BY <1>2, <1>3, <1>4 DEF TypeOK, sideVars, portVars, appVars

LEMMA PlainType ==
  ASSUME TypeOK, Plain
  PROVE  CtlTypeOK'
<1> USE DEF Plain, PlainPass, PortStep
<1>1. UNCHANGED <<setup, status, urbIn, urbOut, sent>>
  BY DEF Insert, Remove, PortISR, DisconnectBegin, DisconnectEnd, LLDisconnect,
         StopAll, StopBusy, Wake, HubDeInitCrash, PassStep, Calling, NothingDue,
         IdleConnected, ResetPort, AttachedBegin, AttachedEnd, OpenPipes,
         SubmitBegin, Enumerate, EnumNoString, EnumNoAddress, EnumOpened,
         EnumDelayEnd, AddressSet, EnumDone, ReEnumStop, ReEnumStart,
         DeInitStateMachine, LLStop, Input, SetConfigurationDone, CheckClass,
         ClassInit, ClassUp, ClassRequest, StartApp, ClassRequestDone,
         DeInitBegin, DeInitEnd, ctlVars, hostVars, chanVars
<1>2. /\ reqState' \in {reqState, "CMD_SEND"} /\ ctrl' \in {ctrl, "SETUP"}
      /\ errorcount' \in {errorcount, 0} /\ open' \in {open, TRUE, FALSE}
      /\ chanIn' \in {chanIn, "OFF"} /\ chanOut' \in {chanOut, "OFF"}
      /\ dev' \in {dev, [kind |-> "get", stage |-> "idle"]}
  BY DEF Insert, Remove, Unpowered, PortISR, DisconnectBegin, DisconnectEnd,
         LLDisconnect, StopAll, StopBusy, Wake, HubDeInitCrash, PassStep, Calling,
         NothingDue, IdleConnected, ResetPort, AttachedBegin, AttachedEnd,
         OpenPipes, SubmitBegin, Enumerate, EnumNoString, EnumNoAddress,
         EnumOpened, EnumDelayEnd, AddressSet, EnumDone, ReEnumStop, ReEnumStart,
         DeInitStateMachine, LLStop, Input, SetConfigurationDone, CheckClass,
         ClassInit, ClassUp, ClassRequest, StartApp, ClassRequestDone,
         DeInitBegin, DeInitEnd, ctlVars, hostVars, chanVars
<1>3. \/ events' = events \/ (events > 0 /\ events' = events - 1)
      \/ \E n \in 0 .. 2 : events' = PutN(n)
  BY DEF Insert, Remove, PortISR, DisconnectBegin, DisconnectEnd, LLDisconnect,
         Wake, HubDeInitCrash, PassStep, Calling, NothingDue, IdleConnected,
         ResetPort, AttachedBegin, AttachedEnd, OpenPipes, SubmitBegin, Enumerate,
         EnumNoString, EnumNoAddress, EnumOpened, EnumDelayEnd, AddressSet,
         EnumDone, ReEnumStop, ReEnumStart, Input, SetConfigurationDone,
         CheckClass, ClassInit, ClassUp, ClassRequest, StartApp,
         ClassRequestDone, DeInitBegin, DeInitEnd, ctlVars, Post
<1>4. events' \in 0 .. QueueLen
  <2>1. CtlTypeOK /\ events \in 0 .. QueueLen
    BY DEF TypeOK, CtlTypeOK
  <2>2. \A n \in 0 .. 2 : PutN(n) \in 0 .. QueueLen
    BY <2>1, PutGrows
  <2> QED
    BY <1>3, <2>1, <2>2, QueueAssumption
<1>5. dev' \in [kind : Kinds, stage : Stages] /\ errorcount' \in 0 .. MaxErrors
  BY <1>2, ErrorAssumption DEF TypeOK, CtlTypeOK, Kinds, Stages
<1>6. CtlTypeOK
  BY DEF TypeOK
<1>7. /\ reqState' \in {"CMD_SEND", "CMD_WAIT"} /\ ctrl' \in CtrlStates
      /\ chanIn' \in Tokens /\ chanOut' \in Tokens
  BY <1>2, <1>6 DEF CtlTypeOK, CtrlStates, Tokens
<1>8. open' \in BOOLEAN
  BY <1>2, <1>6 DEF CtlTypeOK
<1>9. setup' \in Kinds /\ status' \in Statuses /\ sent' \in Kinds
      /\ urbIn' \in UrbStates /\ urbOut' \in UrbStates
  BY <1>1, <1>6 DEF CtlTypeOK
<1> QED
  BY <1>4, <1>5, <1>7, <1>8, <1>9 DEF CtlTypeOK

LEMMA PlainCoreType ==
  ASSUME TypeOK, Plain
  PROVE  /\ gState' \in GStates /\ enumState' \in EnumStates
         /\ last' = last /\ cls' \in {"none", "ec20", "hub"}
         /\ app' \in {"none", "new", "running"}
         /\ pc' \in PCs /\ isr' \in {"none", "delay", "spin"}
<1>1. CASE PortStep
  <2> USE DEF TypeOK
  <2>1. CASE Insert \/ Remove
    BY <2>1 DEF Insert, Remove, coreVars, appVars
  <2>2. CASE PortISR
    BY <2>2 DEF PortISR, GStates, appVars
  <2>3. CASE DisconnectBegin
    BY <2>3 DEF DisconnectBegin, AppDisconnect, PCs
  <2>4. CASE DisconnectEnd
    BY <2>4 DEF DisconnectEnd, LLDisconnect, GStates, appVars
  <2> QED
    BY <1>1, <2>1, <2>2, <2>3, <2>4 DEF PortStep
<1>2. CASE Wake \/ HubDeInitCrash
  BY <1>2 DEF Wake, HubDeInitCrash, Continue, TypeOK, PCs, coreVars, sideVars, appVars
<1>3. CASE PlainPass
  <2> USE DEF TypeOK, coreVars, sideVars, appVars, EndPass, Continue
  <2>1. CASE NothingDue \/ IdleConnected \/ ResetPort \/ AttachedBegin
             \/ AttachedEnd \/ OpenPipes \/ SubmitBegin
    BY <2>1
    DEF NothingDue, IdleConnected, ResetPort, AttachedBegin, AttachedEnd,
        OpenPipes, SubmitBegin, GStates, PCs
  <2>2. CASE \/ (Enumerate /\ ~Calling)
             \/ EnumOpened \/ EnumDelayEnd \/ AddressSet \/ EnumDone
    BY <2>2
    DEF Enumerate, Calling, EnumNoString, EnumNoAddress, EnumOpened, EnumDelayEnd,
        AddressSet, EnumDone, NextEnum, IsString, GStates, EnumStates, PCs
  <2>3. CASE ReEnumStop \/ ReEnumStart \/ DeInitBegin \/ DeInitEnd
    BY <2>3
    DEF ReEnumStop, ReEnumStart, DeInitBegin, DeInitEnd, DeInitStateMachine,
        GStates, EnumStates, PCs
  <2>4. CASE \/ Input \/ SetConfigurationDone \/ CheckClass \/ ClassInit
             \/ ClassUp \/ (ClassRequest /\ ~Calling) \/ StartApp
             \/ ClassRequestDone
    BY <2>4
    DEF Input, SetConfigurationDone, CheckClass, ClassInit, ClassUp, ClassRequest,
        Calling, StartApp, ClassRequestDone, GStates, PCs
  <2> QED
    BY <1>3, <2>1, <2>2, <2>3, <2>4 DEF PlainPass, PassStep, Calling
<1> QED
  BY <1>1, <1>2, <1>3 DEF Plain

LEMMA PlainFlags ==
  ASSUME TypeOK, Plain
  PROVE  /\ isConn' \in BOOLEAN /\ masked' \in BOOLEAN
         /\ dint' \in BOOLEAN /\ pcdet' \in BOOLEAN /\ penchng' \in BOOLEAN
         /\ pena' \in BOOLEAN /\ vbus' \in BOOLEAN
         /\ inserted' \in BOOLEAN /\ strings' \in BOOLEAN
         /\ appClass' \in BOOLEAN /\ unstopped' \in BOOLEAN
         /\ troubled' \in BOOLEAN
<1> USE DEF TypeOK
<1>1. CASE Insert \/ Remove \/ PortISR
  BY <1>1
  DEF Insert, Remove, PortISR, coreVars, appVars, Vanishes, Appears, Ready
<1>2. CASE DisconnectBegin \/ DisconnectEnd \/ Wake \/ HubDeInitCrash
  <2>1. CASE DisconnectBegin
    BY <2>1 DEF DisconnectBegin
  <2>2. CASE DisconnectEnd
    BY <2>2 DEF DisconnectEnd, LLDisconnect, StopAll, StopBusy, appVars
  <2>3. CASE Wake
    BY <2>3 DEF Wake, coreVars, portVars, appVars, sideVars
  <2>4. CASE HubDeInitCrash
    BY <2>4 DEF HubDeInitCrash, Continue, coreVars, portVars, appVars, sideVars
  <2> QED
    BY <1>2, <2>1, <2>2, <2>3, <2>4
<1>3. CASE PlainPass
  BY <1>3
  DEF PlainPass, PassStep, Calling, NothingDue, IdleConnected, ResetPort,
      AttachedBegin, AttachedEnd, OpenPipes, SubmitBegin, Enumerate, EnumNoString,
      EnumNoAddress, EnumOpened, EnumDelayEnd, AddressSet, EnumDone, ReEnumStop,
      ReEnumStart, Input, SetConfigurationDone, CheckClass, ClassInit, ClassUp,
      ClassRequest, StartApp, ClassRequestDone, DeInitBegin, DeInitEnd, EndPass,
      Continue, Vanishes, Appears, Present, coreVars, portVars, appVars, sideVars
<1> QED
  BY <1>1, <1>2, <1>3 DEF Plain, PortStep

LEMMA BusAnswers ==
  ASSUME TypeOK, OutAnswer \/ InAnswer \/ Naks \/ Stalls \/ Errs
  PROVE  /\ BusEvent
         /\ UNCHANGED <<coreVars, portVars, appVars, pc, isr, masked, unstopped>>
         /\ troubled' \in BOOLEAN
BY DEF TypeOK, OutAnswer, InAnswer, Naks, Stalls, Errs, OnBus, BusEvent

\* Every step is of one of these sorts.
LEMMA Sorts ==
  ASSUME Next
  PROVE  \/ PassStep /\ Calling
         \/ SubmitEnd
         \/ Plain
         \/ OutAnswer \/ InAnswer \/ Naks \/ Stalls \/ Errs
BY DEF Next, Plain, PlainPass, PortStep

LEMMA TypeStep == TypeOK /\ [Next]_vars => TypeOK'
<1> SUFFICES ASSUME TypeOK, Next \/ UNCHANGED vars PROVE TypeOK'
  OBVIOUS
<1>1. CASE PassStep /\ Calling
  BY <1>1, CallingType
<1>2. CASE SubmitEnd
  BY <1>2, SubmitType
<1>3. CASE Plain
  BY <1>3, PlainType, PlainCoreType, PlainFlags DEF TypeOK
<1>4. CASE OutAnswer \/ InAnswer \/ Naks \/ Stalls \/ Errs
  BY <1>4, BusAnswers, BusType DEF TypeOK, coreVars, portVars, appVars
<1>5. CASE UNCHANGED vars
  BY <1>5
  DEF vars, TypeOK, CtlTypeOK, ctlVars, hostVars, chanVars, coreVars, portVars,
      appVars
<1> QED
  BY <1>1, <1>2, <1>3, <1>4, <1>5, Sorts

LEMMA InitType == Init => TypeOK
<1> SUFFICES ASSUME Init PROVE TypeOK
  OBVIOUS
<1>1. events \in 0 .. QueueLen /\ errorcount \in 0 .. MaxErrors
  BY QueueAssumption, ErrorAssumption DEF Init, CtlInit
<1>2. dev \in [kind : Kinds, stage : Stages]
  BY DEF Init, CtlInit, Kinds, Stages
<1>3. open \in BOOLEAN
  BY Zenon DEF Init
<1> QED
  BY <1>1, <1>2, <1>3
  DEF Init, CtlInit, TypeOK, CtlTypeOK, Kinds, CtrlStates, UrbStates, Statuses,
      Tokens, GStates, EnumStates, PCs

\* The engine, the port and the two machines of the core keep their types,
\* whatever the device and the cable do to them.
THEOREM TypeCorrect == Spec => []TypeOK
BY InitType, TypeStep, PTL DEF Spec

-----------------------------------------------------------------------------
(* The start of an enumeration. *)

Fresh == enumState = "IDLE" /\ reqState = "CMD_SEND" /\ errorcount = 0 /\ ~open
Greeting == {"IDLE", "WAIT_FOR_ATTACHMENT", "ATTACHED"}

\* The handle is as a reset leaves it until the pass that opens its pipes,
\* although a disconnect may change gState under that pass.
Clean ==
  /\ gState \in Greeting =>
       Fresh /\ pc \in {"sleep", "run", "idleDelay", "attachDelay", "dead"}
  /\ pc = "attachDelay" => Fresh /\ gState \in {"ATTACHED", "DISCONNECTED"}

\* A submission goes on with the pipes it found, or under a disconnect that
\* could not stop it.
Submitting ==
  pc = "submit" =>
    /\ gState \in {"ENUMERATION", "SET_CONFIGURATION", "CLASS_REQUEST",
                   "DISCONNECTED"}
    /\ unstopped \/ (open /\ gState # "DISCONNECTED")

LEMMA CallingClean ==
  ASSUME TypeOK, Clean, PassStep, Calling
  PROVE  Clean'
<1>1. gState' = gState /\ pc' # "attachDelay"
  BY CallingCalls
<1>2. gState \notin Greeting
  <2>1. pc = "run" /\ gState \in {"ENUMERATION", "SET_CONFIGURATION", "CLASS_REQUEST"}
    BY DEF Calling, SetConfiguration, Request
  <2> QED
    BY <2>1 DEF Greeting
<1> QED
  BY <1>1, <1>2 DEF Clean

LEMMA CleanStep == TypeOK /\ Clean /\ Submitting /\ [Next]_vars => Clean'
<1> SUFFICES ASSUME TypeOK, Clean, Submitting, Next \/ UNCHANGED vars
             PROVE  Clean'
  OBVIOUS
<1>1. CASE PassStep /\ Calling
  BY <1>1, CallingClean
<1>2. CASE SubmitEnd
  BY <1>2, SubmitEnds DEF Clean, Greeting, Submitting
<1> USE DEF Clean, Fresh, Greeting
<1>3. CASE PortStep \/ Wake \/ HubDeInitCrash
  <2>1. CASE Insert \/ Remove \/ PortISR
    BY <2>1 DEF Insert, Remove, PortISR, ctlVars, hostVars, coreVars
  <2>2. CASE DisconnectBegin
    BY <2>2 DEF DisconnectBegin, AppDisconnect, ctlVars, hostVars
  <2>3. CASE DisconnectEnd
    <3>1. /\ gState' = "DISCONNECTED" /\ pc' = pc /\ open' = FALSE
          /\ UNCHANGED <<enumState, hostVars>>
      BY <2>3 DEF DisconnectEnd, LLDisconnect
    <3> QED
      BY <3>1 DEF hostVars
  <2>4. CASE Wake \/ HubDeInitCrash
    BY <2>4 DEF Wake, HubDeInitCrash, Continue, ctlVars, hostVars, coreVars
  <2> QED
    BY <1>3, <2>1, <2>2, <2>3, <2>4 DEF PortStep
<1>4. CASE PlainPass
  <2> USE DEF EndPass, Continue, ctlVars, hostVars, coreVars
  <2>1. CASE NothingDue \/ IdleConnected \/ ResetPort \/ AttachedBegin
    BY <2>1 DEF NothingDue, IdleConnected, ResetPort, AttachedBegin
  <2>2. CASE AttachedEnd \/ OpenPipes \/ SubmitBegin
    BY <2>2 DEF AttachedEnd, OpenPipes, SubmitBegin, Asks
  <2>3. CASE \/ (Enumerate /\ ~Calling)
             \/ EnumOpened \/ EnumDelayEnd \/ AddressSet \/ EnumDone
    BY <2>3
    DEF Enumerate, Calling, EnumNoString, EnumNoAddress, EnumOpened, EnumDelayEnd,
        AddressSet, EnumDone
  <2>4. CASE ReEnumStop \/ ReEnumStart \/ DeInitBegin \/ DeInitEnd
    BY <2>4
    DEF ReEnumStop, ReEnumStart, DeInitBegin, DeInitEnd, DeInitStateMachine
  <2>5. CASE \/ Input \/ SetConfigurationDone \/ CheckClass \/ ClassInit
             \/ ClassUp \/ (ClassRequest /\ ~Calling) \/ StartApp
             \/ ClassRequestDone
    BY <2>5
    DEF Input, SetConfigurationDone, CheckClass, ClassInit, ClassUp, ClassRequest,
        Calling, StartApp, ClassRequestDone
  <2> QED
    BY <1>4, <2>1, <2>2, <2>3, <2>4, <2>5 DEF PlainPass, PassStep, Calling
<1>5. CASE OutAnswer \/ InAnswer \/ Naks \/ Stalls \/ Errs
  BY <1>5, BusAnswers, BusFrame DEF coreVars, hostVars
<1>6. CASE UNCHANGED vars
  BY <1>6 DEF vars, ctlVars, hostVars, coreVars
<1> QED
  BY <1>1, <1>2, <1>3, <1>4, <1>5, <1>6, Sorts DEF Plain

LEMMA SubmittingStep ==
  TypeOK /\ Submitting /\ [Next]_vars => Submitting'
<1> SUFFICES ASSUME TypeOK, Submitting, Next \/ UNCHANGED vars
             PROVE  Submitting'
  OBVIOUS
<1> USE DEF Submitting
<1>1. CASE PassStep /\ Calling
  BY <1>1, CallingCalls
<1>2. CASE SubmitEnd
  BY <1>2, SubmitEnds
<1>3. CASE PortStep \/ Wake \/ HubDeInitCrash
  <2>1. CASE Insert \/ Remove \/ PortISR
    BY <2>1 DEF Insert, Remove, PortISR, ctlVars, coreVars
  <2>2. CASE DisconnectBegin
    BY <2>2 DEF DisconnectBegin, AppDisconnect, ctlVars
  <2>3. CASE DisconnectEnd
    BY <2>3 DEF DisconnectEnd, LLDisconnect, StopAll, StopBusy, MayHoldLock
  <2>4. CASE Wake \/ HubDeInitCrash
    BY <2>4 DEF Wake, HubDeInitCrash, Continue
  <2> QED
    BY <1>3, <2>1, <2>2, <2>3, <2>4 DEF PortStep
<1>4. CASE PlainPass
  <2>1. CASE SubmitBegin
    BY <2>1 DEF SubmitBegin, Asks, Submits, Continue, ctlVars, coreVars
  <2>2. CASE ~SubmitBegin
    BY <1>4, <2>2
    DEF PlainPass, PassStep, Calling, NothingDue, IdleConnected, ResetPort,
        AttachedBegin, AttachedEnd, OpenPipes, Enumerate, EnumNoString,
        EnumNoAddress, EnumOpened, EnumDelayEnd, AddressSet, EnumDone, ReEnumStop,
        ReEnumStart, Input, SetConfigurationDone, CheckClass, ClassInit, ClassUp,
        ClassRequest, StartApp, ClassRequestDone, DeInitBegin, DeInitEnd, EndPass,
        Continue
  <2> QED
    BY <2>1, <2>2
<1>5. CASE OutAnswer \/ InAnswer \/ Naks \/ Stalls \/ Errs
  BY <1>5, BusAnswers, BusFrame DEF coreVars
<1>6. CASE UNCHANGED vars
  BY <1>6 DEF vars, ctlVars, coreVars
<1> QED
  BY <1>1, <1>2, <1>3, <1>4, <1>5, <1>6, Sorts DEF Plain

-----------------------------------------------------------------------------
(* The pipes and the channels. *)

\* While the pipes are to be freed, or about to be opened, no channel runs but
\* one that the last disconnect could not stop.
Halted == chanIn = "OFF" /\ chanOut = "OFF"
Closed ==
  gState = "DISCONNECTED" \/ pc \in {"deInit", "reenumDelay", "opening"} =>
    Halted \/ unstopped
Guarded == NoStrayTransfer /\ Closed

LEMMA CallingGuarded ==
  ASSUME TypeOK, Guarded, Calling
  PROVE  Guarded'
<1>1. /\ open' = open /\ (~open => UNCHANGED chanVars)
      /\ gState' = gState /\ unstopped' = unstopped
  BY CallingCalls, CallKeepsChannels DEF CtlReq, sideVars
<1>2. pc' \notin {"deInit", "reenumDelay", "opening"} /\ gState # "DISCONNECTED"
  BY CallingCalls DEF Calling, SetConfiguration, Request
<1> QED
  BY <1>1, <1>2
  DEF Guarded, NoStrayTransfer, Closed, Halted, chanVars, TypeOK, CtlTypeOK

LEMMA GuardedStep ==
  TypeOK /\ Clean /\ Submitting /\ Guarded /\ [Next]_vars => Guarded'
<1> SUFFICES ASSUME TypeOK, Clean, Submitting, Guarded, Next \/ UNCHANGED vars
             PROVE  Guarded'
  OBVIOUS
<1>1. CASE PassStep /\ Calling
  BY <1>1, CallingGuarded
<1> USE DEF Guarded, NoStrayTransfer, Closed, Halted
<1>2. CASE SubmitEnd
  BY <1>2, SubmitEnds DEF Submission, Submitting, sideVars
<1>3. CASE PortStep \/ Wake \/ HubDeInitCrash
  <2>1. CASE Insert \/ Remove \/ PortISR
    BY <2>1 DEF Insert, Remove, PortISR, ctlVars, chanVars, coreVars
  <2>2. CASE DisconnectBegin
    BY <2>2 DEF DisconnectBegin, AppDisconnect, ctlVars, chanVars
  <2>3. CASE DisconnectEnd
    BY <2>3 DEF DisconnectEnd, LLDisconnect, StopAll, StopBusy, LLStop, chanVars
  <2>4. CASE Wake \/ HubDeInitCrash
    BY <2>4 DEF Wake, HubDeInitCrash, Continue, ctlVars, chanVars, coreVars, sideVars
  <2> QED
    BY <1>3, <2>1, <2>2, <2>3, <2>4 DEF PortStep
<1>4. CASE PlainPass
  <2> USE DEF EndPass, Continue, ctlVars, chanVars, coreVars, sideVars
  <2>1. CASE NothingDue \/ IdleConnected \/ ResetPort \/ AttachedBegin \/ SubmitBegin
    BY <2>1
    DEF NothingDue, IdleConnected, ResetPort, AttachedBegin, SubmitBegin
  <2>2. CASE AttachedEnd \/ OpenPipes
    BY <2>2 DEF AttachedEnd, OpenPipes, Clean, Fresh
  <2>3. CASE \/ (Enumerate /\ ~Calling)
             \/ EnumOpened \/ EnumDelayEnd \/ AddressSet \/ EnumDone
    BY <2>3
    DEF Enumerate, Calling, EnumNoString, EnumNoAddress, EnumOpened, EnumDelayEnd,
        AddressSet, EnumDone
  <2>4. CASE ReEnumStop \/ ReEnumStart \/ DeInitBegin \/ DeInitEnd
    BY <2>4
    DEF ReEnumStop, ReEnumStart, DeInitBegin, DeInitEnd, DeInitStateMachine, LLStop
  <2>5. CASE \/ Input \/ SetConfigurationDone \/ CheckClass \/ ClassInit
             \/ ClassUp \/ (ClassRequest /\ ~Calling) \/ StartApp
             \/ ClassRequestDone
    BY <2>5
    DEF Input, SetConfigurationDone, CheckClass, ClassInit, ClassUp, ClassRequest,
        Calling, StartApp, ClassRequestDone
  <2> QED
    BY <1>4, <2>1, <2>2, <2>3, <2>4, <2>5 DEF PlainPass, PassStep, Calling
<1>5. CASE OutAnswer \/ InAnswer \/ Naks \/ Stalls \/ Errs
  BY <1>5, BusAnswers, BusFrame DEF coreVars
<1>6. CASE UNCHANGED vars
  BY <1>6 DEF vars, ctlVars, chanVars, coreVars
<1> QED
  BY <1>1, <1>2, <1>3, <1>4, <1>5, <1>6, Sorts DEF Plain

\* Whatever part of a pass a disconnect comes into, a channel runs without
\* pipes only when that disconnect left it running: it came between the test of
\* the pipes and the submission (usbh_ctlreq.c:537-606), or HAL_HCD_Stop found
\* the lock taken (stm32f1xx_hal_hcd.c:1022).  No other step of the attachment,
\* the enumeration, its failure and a new start leaves a transfer behind.
THEOREM NoneStray == Spec => []NoStrayTransfer
<1>1. Init => Clean /\ Submitting /\ Guarded
  BY DEF Init, CtlInit, Clean, Fresh, Greeting, Submitting, Guarded,
         NoStrayTransfer, Closed, Halted
<1>2. Guarded => NoStrayTransfer
  BY DEF Guarded
<1> QED
  BY <1>1, <1>2, InitType, TypeStep, CleanStep, SubmittingStep, GuardedStep, PTL
  DEF Spec

-----------------------------------------------------------------------------
(* Every enumeration starts afresh. *)

\* A step that starts an enumeration is the end of the attachment's delay.
LEMMA StartsEnumeration ==
  ASSUME TypeOK, Next, gState # "ENUMERATION", gState' = "ENUMERATION"
  PROVE  AttachedEnd
<1>1. CASE PassStep /\ Calling
  BY <1>1, CallingCalls
<1>2. CASE SubmitEnd
  BY <1>2, SubmitEnds
<1>3. CASE PortStep \/ Wake \/ HubDeInitCrash
  BY <1>3
  DEF PortStep, Insert, Remove, PortISR, DisconnectBegin, DisconnectEnd,
      LLDisconnect, Wake, HubDeInitCrash, coreVars
<1>4. CASE PlainPass
  BY <1>4
  DEF PlainPass, PassStep, Calling, NothingDue, IdleConnected, ResetPort,
      AttachedBegin, OpenPipes, SubmitBegin, Enumerate, EnumNoString,
      EnumNoAddress, EnumOpened, EnumDelayEnd, AddressSet, EnumDone, ReEnumStop,
      ReEnumStart, DeInitStateMachine, Input, SetConfigurationDone, CheckClass,
      ClassInit, ClassUp, ClassRequest, StartApp, ClassRequestDone, DeInitBegin,
      DeInitEnd, coreVars
<1>5. CASE OutAnswer \/ InAnswer \/ Naks \/ Stalls \/ Errs
  BY <1>5, BusAnswers DEF coreVars
<1> QED
  BY <1>1, <1>2, <1>3, <1>4, <1>5, Sorts DEF Plain

\* Every enumeration starts from the beginning, with no request or error count
\* of the device before, and with no channel running but one that the last
\* disconnect left running, also when a disconnect came while the pass that
\* starts it waited (usbh_core.c:503-542).
THEOREM EnumerationsFresh == Spec => FreshEnumeration
<1> DEFINE Begun ==
      gState # "ENUMERATION" /\ gState' = "ENUMERATION" =>
        /\ enumState = "IDLE" /\ reqState = "CMD_SEND" /\ errorcount = 0
        /\ unstopped \/ (chanIn = "OFF" /\ chanOut = "OFF")
<1>1. Init => Clean /\ Submitting /\ Guarded
  BY DEF Init, CtlInit, Clean, Fresh, Greeting, Submitting, Guarded,
         NoStrayTransfer, Closed, Halted
<1>2. TypeOK /\ Guarded /\ Clean /\ [Next]_vars => [Begun]_vars
  <2> SUFFICES ASSUME TypeOK, Guarded, Clean, Next, gState # "ENUMERATION",
                      gState' = "ENUMERATION"
               PROVE  Begun
    OBVIOUS
  <2>1. pc = "attachDelay"
    BY StartsEnumeration DEF AttachedEnd
  <2> QED
    BY <2>1 DEF Clean, Fresh, Guarded, NoStrayTransfer
<1> QED
  BY <1>1, <1>2, InitType, TypeStep, CleanStep, SubmittingStep, GuardedStep, PTL
  DEF Spec, FreshEnumeration

-----------------------------------------------------------------------------
(* No lost wake-up. *)

\* What the place of the thread says of the state, in every interleaving.
LateStates == {"INPUT", "SET_CONFIGURATION", "CHECK_CLASS", "CLASS_REQUEST",
               "CLASS", "ABORT"}
LatePlaces == {"enumDone", "setcfgDone", "classInit", "classUp", "starting",
               "requestDone"}
Late == gState \in LateStates \/ pc \in LatePlaces => enumState # "IDLE"
Posture ==
  /\ masked <=> pc # "sleep"
  /\ ~vbus => pc \in {"reenumDelay", "dead"}
  /\ isr = "delay" \/ gState = "DISCONNECTED" => ~isConn
  /\ pc = "deInit" => gState = "DISCONNECTED"
  /\ pc = "enumDelay" =>
       enumState = "IDLE" /\ gState \in {"ENUMERATION", "DISCONNECTED"}
  /\ pc = "idleDelay" => gState \in {"WAIT_FOR_ATTACHMENT", "DISCONNECTED"}

\* Whose turn it is, and what stands for the message that is still to come.
Due ==
  \/ pc \in {"enumDone", "setcfgDone", "addrDelay", "enumOpen"}
  \/ gState = "DISCONNECTED" /\ pc \notin {"run", "deInit", "dead"}
  \/ pc = "sleep" /\ gState \in {"ATTACHED", "INPUT", "CHECK_CLASS"}
  \/ pc = "sleep" /\ gState = "IDLE" /\ isConn
EngineDue ==
  /\ pc \in {"sleep", "enumDelay"}
  /\ gState \in {"ENUMERATION", "SET_CONFIGURATION"} /\ open /\ EngineActs
StringDue ==
  /\ pc \in {"sleep", "submit"}
  /\ gState = "ENUMERATION" /\ IsString /\ ~strings
PortTells == isr # "none" \/ (dint /\ ~Present) \/ (pcdet /\ Present)
Told ==
  /\ Due \/ EngineDue => events > 0
  /\ StringDue => events > 0 \/ PortTells

\* A started transfer has no outcome yet.
LEMMA StartWaits ==
  ASSUME StartStage(0)
  PROVE  ~EngineActs'
BY DEF StartStage, Start, SubmitIn, SubmitOut, Goto, EngineActs

\* A pass that calls the engine and puts nothing leaves the engine waiting for
\* a channel, or after an error.
LEMMA CallTells ==
  ASSUME CtlTypeOK, NEW k, NEW n \in 0 .. 1, CtlReq(k, n), open, EngineActs'
  PROVE  n = 1
<1> SUFFICES ASSUME n = 0 PROVE FALSE
  OBVIOUS
<1>1. reqState = "CMD_WAIT" /\ HandleControl(0)
  BY DEF CtlReq
<1>2. CASE CtrlError(0)
  BY <1>2, ErrorAssumption DEF CtrlError, EngineActs, CtlTypeOK
<1>3. CASE ~CtrlError(0)
  <2>1. CASE StartStage(0)
    BY <2>1, StartWaits
  <2>2. CASE SetupWait(0) \/ DataInWait(0) \/ DataOutWait(0)
             \/ StatusInWait(0) \/ StatusOutWait(0)
    BY <2>2 DEF SetupWait, DataInWait, DataOutWait, StatusInWait, StatusOutWait,
                Leaves, Stays, Goto, EngineActs, chanVars
  <2>3. CASE /\ ctrl \in {"IDLE", "STALLED", "COMPLETE"}
             /\ Goto(ctrl, "BUSY") /\ UNCHANGED <<errorcount, chanVars>>
    BY <2>3 DEF Goto, EngineActs
  <2> QED
    BY <1>1, <1>3, <2>1, <2>2, <2>3 DEF HandleControl
<1> QED
  BY <1>2, <1>3

\* How a pass that calls the engine ends.
LEMMA CallingEnds ==
  ASSUME TypeOK, Calling
  PROVE  /\ EndPass \/ (masked' = masked /\ pc' # "sleep")
         /\ pc' = "enumDelay" => enumState' = "IDLE" /\ gState = "ENUMERATION"
         /\ pc = "run"
         /\ gState \in {"ENUMERATION", "SET_CONFIGURATION", "CLASS_REQUEST"}
<1> USE DEF EndPass, Continue
<1>1. CASE pc = "run" /\ gState = "ENUMERATION" /\ EnumIdle
  BY <1>1 DEF EnumIdle, StillAsking
<1>2. CASE pc = "run" /\ gState = "ENUMERATION" /\ EnumRequest
  BY <1>2 DEF EnumRequest
<1>3. CASE SetConfiguration
  BY <1>3 DEF SetConfiguration, Request
<1>4. CASE Request("CLASS_REQUEST", "get", "requestDone")
  BY <1>4 DEF Request
<1> QED
  BY <1>1, <1>2, <1>3, <1>4 DEF Calling

\* A pass that calls the engine and has more to do leaves a message.
LEMMA CallingTells ==
  ASSUME TypeOK, Calling, Posture, Told
  PROVE  Told'
<1>1. CASE pc = "run" /\ gState = "ENUMERATION" /\ EnumIdle
  <2>1. PICK n \in 0 .. 1 :
          /\ CtlReq("get", n) /\ events' \in {PutN(n), PutN(n + 1)}
          /\ \/ status' = "OK" /\ pc' = "enumOpen"
             \/ pc' \in {"reenum", "enumDelay"}
    BY <1>1 DEF EnumIdle, StillAsking, Post, Continue
  <2>2. open' = open /\ gState' = "ENUMERATION"
    BY <1>1, CallingCalls, <2>1 DEF CtlReq
  <2>3. n = 1 => events' > 0
    BY <2>1, PutGrows DEF TypeOK
  <2>4. status' = "OK" => n = 1
    BY <2>1, OkTells
  <2>5. open /\ EngineActs' => n = 1
    BY <2>1, CallTells DEF TypeOK
  <2>6. Due' \/ EngineDue' => events' > 0
    BY <2>1, <2>2, <2>3, <2>4, <2>5 DEF Due, EngineDue
  <2>7. ~StringDue'
    BY <2>1 DEF StringDue
  <2> QED
    BY <2>6, <2>7 DEF Told
<1>2. CASE pc = "run" /\ gState = "ENUMERATION" /\ EnumRequest
  <2>1. PICK n \in 0 .. 1 :
          /\ CtlReq(EnumKind, n) /\ events' \in {PutN(n), PutN(n + 1)}
          /\ \/ status' # "OK" /\ pc' = "sleep" /\ enumState' = enumState
             \/ status' = "OK" /\ pc' \in {"sleep", "addrDelay", "enumDone"}
    BY <1>2 DEF EnumRequest, Post, EndPass, Continue
  <2>2. /\ open' = open /\ gState' = "ENUMERATION" /\ strings' = strings
        /\ IsString => strings
    BY <1>2, CallingCalls, <2>1 DEF CtlReq, sideVars, portVars, EnumRequest
  <2>3. n = 1 => events' > 0
    BY <2>1, PutGrows DEF TypeOK
  <2>4. status' = "OK" => n = 1
    BY <2>1, OkTells
  <2>5. open /\ EngineActs' => n = 1
    BY <2>1, CallTells DEF TypeOK
  <2>6. Due' \/ EngineDue' => events' > 0
    BY <2>1, <2>2, <2>3, <2>4, <2>5 DEF Due, EngineDue
  <2>7. StringDue' => events' > 0
    BY <2>1, <2>2, <2>3, <2>4 DEF StringDue, IsString
  <2> QED
    BY <2>6, <2>7 DEF Told
<1>3. ASSUME NEW state \in {"SET_CONFIGURATION", "CLASS_REQUEST"}, NEW k,
             NEW next \in {"setcfgDone", "requestDone"}, Request(state, k, next)
      PROVE  Told'
  <2>1. PICK n \in 0 .. 1 :
          /\ CtlReq(k, n) /\ events' = PutN(n)
          /\ \/ status' # "OK" /\ pc' = "sleep"
             \/ status' = "OK" /\ pc' = next
    BY <1>3 DEF Request, Post, EndPass, Continue
  <2>2. open' = open /\ gState' = state
    BY <1>3, <2>1 DEF CtlReq, Request, coreVars
  <2>3. n = 1 => events' > 0
    BY <2>1, PutGrows DEF TypeOK
  <2>4. status' = "OK" => n = 1
    BY <2>1, OkTells
  <2>5. open /\ EngineActs' => n = 1
    BY <2>1, CallTells DEF TypeOK
  <2>6. Due' \/ EngineDue' => events' > 0
    BY <2>1, <2>2, <2>3, <2>4, <2>5 DEF Due, EngineDue
  <2> QED
    BY <2>2, <2>6 DEF Told, StringDue
<1> QED
  BY <1>1, <1>2, <1>3 DEF Calling, SetConfiguration

\* A submission ends with its engine waiting.
LEMMA SubmitTells ==
  ASSUME TypeOK, Submitting, Told, SubmitEnd
  PROVE  Told'
<1>1. PICK n \in 0 .. 1 : events' = PutN(n)
  BY SubmitEnds
<1>2. events' >= events /\ events' \in Nat /\ events \in Nat
  BY <1>1, PutGrows DEF TypeOK, CtlTypeOK
<1>3. /\ pc = "submit" /\ isr = "none"
      /\ UNCHANGED <<gState, enumState, isConn, cls, sideVars>>
      /\ pc' \in {"sleep", "reenum", "enumDelay"}
  BY SubmitEnds
<1>4. ~EngineActs'
  BY SubmitEnds, StartWaits DEF Submission
<1>5. Due' \/ EngineDue' => events' > 0
  BY <1>2, <1>3, <1>4 DEF Told, Due, EngineDue, Submitting
<1>6. StringDue' => events' > 0 \/ PortTells'
  BY <1>2, <1>3
  DEF Told, StringDue, IsString, PortTells, Present, sideVars, portVars
<1> QED
  BY <1>5, <1>6 DEF Told

\* Only the states of the enumeration move EnumState, away from ENUM_IDLE.
LEMMA LateStep ==
  TypeOK /\ Late /\ [Next]_vars => Late'
<1> SUFFICES ASSUME TypeOK, Late, Next \/ UNCHANGED vars
             PROVE  Late'
  OBVIOUS
<1> USE DEF Late, LateStates, LatePlaces
<1>1. CASE PassStep /\ Calling
  <2>1. CASE pc = "run" /\ gState = "ENUMERATION" /\ EnumIdle
    BY <2>1 DEF EnumIdle, StillAsking, Continue
  <2>2. CASE pc = "run" /\ gState = "ENUMERATION" /\ EnumRequest
    BY <2>2 DEF EnumRequest, Continue, EndPass
  <2>3. CASE SetConfiguration
    BY <2>3 DEF SetConfiguration, Request, coreVars, Continue, EndPass
  <2>4. CASE Request("CLASS_REQUEST", "get", "requestDone")
    BY <2>4 DEF Request, coreVars, Continue, EndPass
  <2> QED
    BY <1>1, <2>1, <2>2, <2>3, <2>4 DEF Calling
<1>2. CASE SubmitEnd
  BY <1>2, SubmitEnds
<1>3. CASE PortStep \/ Wake \/ HubDeInitCrash
  <2>1. CASE Insert \/ Remove \/ PortISR
    BY <2>1 DEF Insert, Remove, PortISR, coreVars
  <2>2. CASE DisconnectBegin \/ DisconnectEnd
    BY <2>2 DEF DisconnectBegin, AppDisconnect, DisconnectEnd, LLDisconnect
  <2>3. CASE Wake \/ HubDeInitCrash
    BY <2>3 DEF Wake, HubDeInitCrash, Continue, coreVars
  <2> QED
    BY <1>3, <2>1, <2>2, <2>3 DEF PortStep
<1>4. CASE PlainPass
  <2> USE DEF EndPass, Continue, coreVars
  <2>1. CASE NothingDue \/ IdleConnected \/ ResetPort \/ AttachedBegin
             \/ AttachedEnd \/ OpenPipes \/ SubmitBegin
    BY <2>1
    DEF NothingDue, IdleConnected, ResetPort, AttachedBegin, AttachedEnd,
        OpenPipes, SubmitBegin
  <2>2. CASE \/ (Enumerate /\ ~Calling)
             \/ EnumOpened \/ EnumDelayEnd \/ AddressSet \/ EnumDone
    BY <2>2
    DEF Enumerate, Calling, EnumNoString, EnumNoAddress, EnumOpened, EnumDelayEnd,
        AddressSet, EnumDone, NextEnum, IsString
  <2>3. CASE ReEnumStop \/ ReEnumStart \/ DeInitBegin \/ DeInitEnd
    BY <2>3
    DEF ReEnumStop, ReEnumStart, DeInitBegin, DeInitEnd, DeInitStateMachine
  <2>4. CASE \/ Input \/ SetConfigurationDone \/ CheckClass \/ ClassInit
             \/ ClassUp \/ (ClassRequest /\ ~Calling) \/ StartApp
             \/ ClassRequestDone
    BY <2>4
    DEF Input, SetConfigurationDone, CheckClass, ClassInit, ClassUp, ClassRequest,
        Calling, StartApp, ClassRequestDone
  <2> QED
    BY <1>4, <2>1, <2>2, <2>3, <2>4 DEF PlainPass, PassStep, Calling
<1>5. CASE OutAnswer \/ InAnswer \/ Naks \/ Stalls \/ Errs
  BY <1>5, BusAnswers DEF coreVars
<1>6. CASE UNCHANGED vars
  BY <1>6 DEF vars, coreVars
<1> QED
  BY <1>1, <1>2, <1>3, <1>4, <1>5, <1>6, Sorts DEF Plain

LEMMA PostureStep ==
  TypeOK /\ Clean /\ Submitting /\ Late /\ Posture /\ [Next]_vars => Posture'
<1> SUFFICES ASSUME TypeOK, Clean, Submitting, Late, Posture,
                    Next \/ UNCHANGED vars
             PROVE  Posture'
  OBVIOUS
<1>1. CASE PassStep /\ Calling
  <2>1. /\ EndPass \/ (masked' = masked /\ pc' # "sleep")
        /\ pc' = "enumDelay" => enumState' = "IDLE" /\ gState = "ENUMERATION"
        /\ pc = "run"
        /\ gState \in {"ENUMERATION", "SET_CONFIGURATION", "CLASS_REQUEST"}
    BY <1>1, CallingEnds
  <2>2. /\ UNCHANGED <<gState, isConn, cls, sideVars>>
        /\ pc' \in {"sleep", "reenum", "enumDelay", "enumOpen", "addrDelay",
                    "enumDone", "setcfgDone", "requestDone"}
    BY <1>1, CallingCalls
  <2>3. isr = "none"
    BY <1>1 DEF Calling, SetConfiguration, Request, ThreadRuns, PassStep, Enumerate,
                NothingDue, IdleConnected, ResetPort, AttachedBegin, AttachedEnd,
                OpenPipes, SubmitBegin, SubmitEnd, EnumOpened, EnumDelayEnd,
                AddressSet, EnumDone, ReEnumStop, ReEnumStart, Input,
                SetConfigurationDone, CheckClass, ClassInit, ClassUp, ClassRequest,
                StartApp, ClassRequestDone, DeInitBegin, DeInitEnd
  <2>4. masked' <=> pc' # "sleep"
    <3>1. masked = TRUE
      BY <2>1 DEF Posture, TypeOK
    <3> QED
      BY <2>1, <3>1 DEF EndPass
  <2>5. vbus' /\ vbus
    BY <2>1, <2>2 DEF Posture, sideVars, portVars
  <2> QED
    BY <2>1, <2>2, <2>3, <2>4, <2>5 DEF Posture, sideVars
<1>2. CASE SubmitEnd
  <2>1. /\ pc = "submit" /\ isr = "none"
        /\ UNCHANGED <<gState, enumState, isConn, cls, sideVars>>
        /\ \/ pc' = "sleep" /\ masked' = FALSE
           \/ enumState = "IDLE" /\ pc' \in {"reenum", "enumDelay"}
              /\ masked' = masked
    BY <1>2, SubmitEnds
  <2>2. masked' <=> pc' # "sleep"
    <3>1. masked = TRUE
      BY <2>1 DEF Posture, TypeOK
    <3> QED
      BY <2>1, <3>1
  <2>3. enumState = "IDLE" => gState \in {"ENUMERATION", "DISCONNECTED"}
    BY <2>1 DEF Submitting, Late, LateStates
  <2>4. vbus' /\ vbus
    BY <2>1 DEF Posture, sideVars, portVars
  <2> QED
    BY <2>1, <2>2, <2>3, <2>4 DEF Posture, sideVars
<1>3. CASE PortStep \/ Wake \/ HubDeInitCrash
  <2>1. CASE Insert \/ Remove
    BY <2>1 DEF Insert, Remove, coreVars, Posture, TypeOK
  <2>2. CASE PortISR
    BY <2>2 DEF PortISR, Posture, TypeOK
  <2>3. CASE DisconnectBegin
    BY <2>3 DEF DisconnectBegin, AppDisconnect, Posture, TypeOK
  <2>4. CASE DisconnectEnd
    BY <2>4 DEF DisconnectEnd, LLDisconnect, Posture, TypeOK
  <2>5. CASE Wake \/ HubDeInitCrash
    BY <2>5 DEF Wake, HubDeInitCrash, Continue, coreVars, sideVars, portVars,
                Posture, TypeOK
  <2> QED
    BY <1>3, <2>1, <2>2, <2>3, <2>4, <2>5 DEF PortStep
<1>4. CASE PlainPass
  <2> USE DEF EndPass, Continue, coreVars, sideVars, portVars, Posture, Clean,
              Greeting, ThreadRuns
  <2>1. CASE NothingDue \/ IdleConnected \/ ResetPort \/ AttachedBegin
             \/ AttachedEnd \/ OpenPipes \/ SubmitBegin
    BY <2>1 DEF NothingDue, IdleConnected, ResetPort, AttachedBegin, AttachedEnd,
                OpenPipes, SubmitBegin
  <2>2. CASE \/ (Enumerate /\ ~Calling)
             \/ EnumOpened \/ EnumDelayEnd \/ AddressSet \/ EnumDone
    BY <2>2 DEF Enumerate, Calling, EnumNoString, EnumNoAddress, EnumOpened,
                EnumDelayEnd, AddressSet, EnumDone
  <2>3. CASE ReEnumStop \/ ReEnumStart
    BY <2>3 DEF ReEnumStop, ReEnumStart, DeInitStateMachine, Vanishes, Appears
  <2>4. CASE \/ Input \/ SetConfigurationDone \/ CheckClass \/ ClassInit
             \/ ClassUp \/ (ClassRequest /\ ~Calling) \/ StartApp
             \/ ClassRequestDone \/ DeInitBegin \/ DeInitEnd
    BY <2>4 DEF Input, SetConfigurationDone, CheckClass, ClassInit, ClassUp,
         ClassRequest, Calling, StartApp, ClassRequestDone, DeInitBegin, DeInitEnd,
         DeInitStateMachine
  <2> QED
    BY <1>4, <2>1, <2>2, <2>3, <2>4 DEF PlainPass, PassStep, Calling
<1>5. CASE OutAnswer \/ InAnswer \/ Naks \/ Stalls \/ Errs
  BY <1>5, BusAnswers DEF coreVars, portVars, Posture
<1>6. CASE UNCHANGED vars
  BY <1>6 DEF vars, coreVars, portVars, Posture
<1> QED
  BY <1>1, <1>2, <1>3, <1>4, <1>5, <1>6, Sorts DEF Plain

\* A step that puts a message leaves nobody forgotten.
LEMMA PutTells ==
  ASSUME TypeOK, NEW n \in 1 .. 2, events' = PutN(n)
  PROVE  Told'
BY PutGrows DEF Told, TypeOK

LEMMA PortTold ==
  ASSUME TypeOK, Posture, Told,
         PortStep \/ Wake
  PROVE  Told'
<1>1. CASE Insert \/ Remove
  <2>1. /\ UNCHANGED <<coreVars, hostVars, open, chanVars, events, pc, vbus>>
    BY <1>1 DEF Insert, Remove, ctlVars
  <2>2. EngineActs' = EngineActs
    BY <2>1 DEF EngineActs, hostVars, chanVars
  <2>3. Due' \/ EngineDue' => events' > 0
    BY <2>1, <2>2 DEF Told, Due, EngineDue, coreVars
  <2>4. StringDue' => PortTells'
    BY <1>1, <2>1 DEF StringDue, Posture, PortTells, Present, Insert, Remove,
                      Appears, Vanishes
  <2> QED
    BY <2>3, <2>4 DEF Told
<1>2. CASE PortISR
  <2> DEFINE connect == pcdet /\ Present
             enabled == penchng /\ pena
             n == (IF connect THEN 1 ELSE 0) + (IF enabled THEN 1 ELSE 0)
  <2>1. /\ n \in 0 .. 2 /\ events' = PutN(n)
        /\ isConn' = (isConn \/ (connect /\ gState = "IDLE"))
        /\ gState' = IF gState = "WAIT_FOR_ATTACHMENT" /\ (connect \/ enabled)
                     THEN "ATTACHED" ELSE gState
        /\ isr = "none" /\ ~dint
    BY <1>2 DEF PortISR, Post
  <2>2. CASE connect \/ enabled
    <3>1. n \in 1 .. 2
      BY <2>2
    <3> QED
      BY <2>1, <3>1, PutTells
  <2>3. CASE ~connect /\ ~enabled
    <3>1. /\ UNCHANGED <<enumState, hostVars, open, chanVars, pc, strings>>
          /\ gState' = gState /\ isConn' = isConn
      BY <1>2, <2>1, <2>3 DEF PortISR, TypeOK
    <3>2. EngineActs' = EngineActs
      BY <3>1 DEF EngineActs, hostVars, chanVars
    <3>3. events' >= events /\ events' \in Nat /\ events \in Nat
      BY <2>1, PutGrows DEF TypeOK, CtlTypeOK
    <3>4. Due' \/ EngineDue' => events' > 0
      BY <3>1, <3>2, <3>3 DEF Told, Due, EngineDue
    <3>5. ~PortTells
      BY <2>1, <2>3 DEF PortTells
    <3>6. StringDue' => events' > 0
      BY <3>1, <3>3, <3>5 DEF Told, StringDue, IsString
    <3> QED
      BY <3>4, <3>6 DEF Told
  <2> QED
    BY <2>2, <2>3
<1>3. CASE DisconnectBegin
  <2>1. /\ UNCHANGED <<gState, enumState, hostVars, open, chanVars, events,
                       strings, pcdet, inserted, vbus>>
        /\ pc' \in {pc, "dead"}
    BY <1>3 DEF DisconnectBegin, AppDisconnect, ctlVars
  <2>2. EngineActs' = EngineActs
    BY <2>1 DEF EngineActs, hostVars, chanVars
  <2>3. Due' \/ EngineDue' => events' > 0
    BY <1>3, <2>1, <2>2 DEF Told, Due, EngineDue, DisconnectBegin
  <2>4. StringDue' => events' > 0 \/ PortTells'
    BY <1>3, <2>1 DEF Told, StringDue, IsString, PortTells, Present,
                      DisconnectBegin, AppDisconnect
  <2> QED
    BY <2>3, <2>4 DEF Told
<1>4. CASE DisconnectEnd
  BY <1>4, PutTells DEF DisconnectEnd, Post
<1>5. CASE Wake
  BY <1>5 DEF Wake, Told, Due, EngineDue, StringDue
<1> QED
  BY <1>1, <1>2, <1>3, <1>4, <1>5 DEF PortStep

LEMMA PassTold ==
  ASSUME TypeOK, Clean, Posture, Told, PlainPass \/ HubDeInitCrash
  PROVE  Told'
<1>1. CASE \/ ResetPort \/ OpenPipes \/ EnumNoString \/ ReEnumStart \/ Input
           \/ ClassUp
  BY <1>1, PutTells
  DEF ResetPort, OpenPipes, EnumNoString, ReEnumStart, Input, ClassUp, Post
<1>2. CASE NothingDue \/ EnumDelayEnd \/ EnumOpened
  <2>1. /\ UNCHANGED <<gState, enumState, isConn, hostVars, open, chanVars, events,
                      strings>>
        /\ pc' = "sleep"
        /\ \/ gState = "IDLE" /\ ~isConn
           \/ gState \in {"WAIT_FOR_ATTACHMENT", "CLASS", "ABORT"}
           \/ pc \in {"enumDelay", "enumOpen"}
    BY <1>2 DEF NothingDue, EnumDelayEnd, EnumOpened, EndPass, ctlVars, coreVars,
                portVars, sideVars
  <2>2. EngineActs' = EngineActs
    BY <2>1 DEF EngineActs, hostVars, chanVars
  <2> QED
    BY <2>1, <2>2 DEF Told, Due, EngineDue, StringDue, IsString, Posture
<1>3. CASE \/ IdleConnected \/ AttachedBegin \/ AttachedEnd \/ ReEnumStop
           \/ CheckClass \/ ClassInit \/ DeInitBegin \/ (ClassRequest /\ ~Calling)
           \/ StartApp \/ HubDeInitCrash
           \/ (Enumerate /\ EnumNoAddress)
  <2>1. /\ pc' \in {"idleDelay", "attachDelay", "opening", "reenumDelay",
                    "classInit", "classUp", "deInit", "reenum", "starting",
                    "requestDone", "dead"}
        /\ events' = events
        /\ gState' = "DISCONNECTED" =>
             \/ pc \in {"reenum", "starting"} /\ gState = "DISCONNECTED"
             \/ pc' \in {"deInit", "dead"}
    BY <1>3 DEF IdleConnected, AttachedBegin, AttachedEnd, ReEnumStop, CheckClass,
                ClassInit, DeInitBegin, EnumNoAddress, Enumerate, ClassRequest,
                Calling, StartApp, HubDeInitCrash, Continue, ctlVars, coreVars
  <2> QED
    BY <2>1 DEF Told, Due, EngineDue, StringDue
<1>4. CASE SubmitBegin
  <2>1. /\ pc' = "submit" /\ UNCHANGED <<gState, enumState, strings>>
        /\ gState # "DISCONNECTED" /\ (gState = "ENUMERATION" /\ IsString => strings)
    BY <1>4 DEF SubmitBegin, Asks, Continue, coreVars, sideVars, portVars
  <2> QED
    BY <2>1 DEF Told, Due, EngineDue, StringDue, IsString
<1>5. CASE AddressSet \/ EnumDone \/ SetConfigurationDone
  <2>1. events' = events /\ pc \in {"addrDelay", "enumDone", "setcfgDone"}
    BY <1>5 DEF AddressSet, EnumDone, SetConfigurationDone, ctlVars
  <2> QED
    BY <2>1 DEF Told, Due
<1>6. CASE ClassRequestDone \/ DeInitEnd
  <2>1. /\ pc' = "sleep" /\ gState' \in {"CLASS", "IDLE"}
        /\ gState' = "IDLE" => isConn' = FALSE
    BY <1>6 DEF ClassRequestDone, DeInitEnd, DeInitStateMachine, EndPass, Posture,
                TypeOK
  <2> QED
    BY <2>1 DEF Told, Due, EngineDue, StringDue
<1>7. PlainPass /\ Enumerate => EnumNoString \/ (Enumerate /\ EnumNoAddress)
  BY DEF PlainPass, Enumerate, Calling
<1>8. PlainPass => ~SetConfiguration /\ ~SubmitEnd /\ ~Calling
  BY DEF PlainPass, Calling
<1> QED
  BY <1>1, <1>2, <1>3, <1>4, <1>5, <1>6, <1>7, <1>8 DEF PlainPass, PassStep

LEMMA ToldStep ==
  TypeOK /\ Clean /\ Submitting /\ Posture /\ Told /\ [Next]_vars => Told'
<1> SUFFICES ASSUME TypeOK, Clean, Submitting, Posture, Told,
                    Next \/ UNCHANGED vars
             PROVE  Told'
  OBVIOUS
<1>1. CASE PassStep /\ Calling
  BY <1>1, CallingTells
<1>2. CASE SubmitEnd
  BY <1>2, SubmitTells
<1>3. CASE PlainPass \/ HubDeInitCrash
  BY <1>3, PassTold
<1>4. CASE PortStep \/ Wake
  BY <1>4, PortTold
<1>5. CASE OutAnswer \/ InAnswer \/ Naks \/ Stalls \/ Errs
  BY <1>5, BusAnswers, BusFrame, PutTells
<1>6. CASE UNCHANGED vars
  <2>1. EngineActs' = EngineActs
    BY <1>6 DEF EngineActs, vars, ctlVars, hostVars, chanVars
  <2> QED
    BY <1>6, <2>1 DEF vars, ctlVars, coreVars, portVars, Told, Due, EngineDue,
                      StringDue, IsString, PortTells, Present
<1> QED
  BY <1>1, <1>2, <1>3, <1>4, <1>5, <1>6, Sorts DEF Plain

\* No lost wake-up: whenever the next pass has something to do, a message is in
\* the queue or an interrupt is about to put one, although most transitions of
\* gState put none and live on the message of the request before, and although
\* the queue drops what it cannot hold (usbh_core.c:475-731).
THEOREM NoneForgotten == Spec => []NoPassForgotten
<1>1. Init => Clean /\ Submitting /\ Late /\ Posture /\ Told
  BY DEF Init, CtlInit, Clean, Fresh, Greeting, Submitting, Late, LateStates,
         LatePlaces, Posture, Told, Due, EngineDue, StringDue
<1>2. Posture /\ Told => NoPassForgotten
  <2> SUFFICES ASSUME Posture, Told, PassDue, pc = "sleep", ThreadRuns
               PROVE  events > 0
    BY DEF NoPassForgotten
  <2>1. isr = "none" /\ ~dint /\ ~pcdet
    BY DEF ThreadRuns, PortPending, Posture
  <2>2. Due \/ EngineDue \/ StringDue
    BY DEF PassDue, Due, EngineDue, StringDue
  <2> QED
    BY <2>1, <2>2 DEF Told, PortTells
<1> QED
  BY <1>1, <1>2, InitType, TypeStep, CleanStep, SubmittingStep, LateStep,
     PostureStep, ToldStep, PTL
  DEF Spec
=============================================================================
