-------------------------- MODULE UsbhCtlReq_proofs --------------------------
(***************************************************************************)
(* Lemmas about the control engine that its two users share: what one call *)
(* of USBH_CtlReq and one event of a channel do to the types, to the       *)
(* channels and to the queue.                                              *)
(***************************************************************************)
EXTENDS UsbhCtlReq, TLAPS

\* A put never shortens the queue, and leaves a message in it.
LEMMA PutGrows ==
  ASSUME CtlTypeOK, NEW n \in 0 .. 2
  PROVE  /\ PutN(n) \in 0 .. QueueLen /\ PutN(n) >= events
         /\ n > 0 => PutN(n) > 0
BY QueueAssumption DEF CtlTypeOK, PutN

\* What one state of USBH_HandleControl may change keeps its type.
LEMMA HandleType ==
  ASSUME CtlTypeOK, NEW n \in 0 .. 1, HandleControl(n), setup' \in Kinds,
         UNCHANGED <<open, dev>>, events' \in 0 .. QueueLen
  PROVE  CtlTypeOK'
<1>1. CASE CtrlError(n)
  BY <1>1, ErrorAssumption
  DEF CtrlError, LLStop, CtlTypeOK, chanVars, CtrlStates, Statuses, Tokens
<1>2. CASE ~CtrlError(n)
  <2>1. UNCHANGED errorcount
    BY <1>2
    DEF HandleControl, StartStage, Start, SetupWait, DataInWait, DataOutWait,
        StatusInWait, StatusOutWait
  <2>2. AfterSetup \in CtrlStates
    BY DEF AfterSetup, CtrlStates
  <2>3. ctrl' \in CtrlStates /\ status' \in Statuses
        /\ reqState' \in {"CMD_SEND", "CMD_WAIT"}
    BY <1>2, <2>2
    DEF HandleControl, StartStage, Start, SetupWait, DataInWait, DataOutWait,
        StatusInWait, StatusOutWait, Leaves, Stays, Goto, CtrlStates, Statuses,
        CtlTypeOK
  <2>4. /\ urbIn' \in UrbStates /\ urbOut' \in UrbStates
        /\ chanIn' \in Tokens /\ chanOut' \in Tokens /\ sent' \in Kinds
    BY <1>2
    DEF HandleControl, StartStage, Start, SetupWait, DataInWait, DataOutWait,
        StatusInWait, StatusOutWait, SubmitIn, SubmitOut, chanVars, UrbStates,
        Tokens, CtlTypeOK
  <2> QED
    BY <2>1, <2>3, <2>4 DEF CtlTypeOK
<1> QED
  BY <1>1, <1>2

\* So does what a call may change.
LEMMA CallType ==
  ASSUME CtlTypeOK, NEW k \in Kinds, NEW n \in 0 .. 1, CtlReq(k, n),
         events' \in 0 .. QueueLen
  PROVE  CtlTypeOK'
<1>1. events' \in 0 .. QueueLen
  OBVIOUS
<1>2. CASE ~open \/ reqState = "CMD_SEND"
  BY <1>1, <1>2 DEF CtlTypeOK, CtlReq, Goto, chanVars, Statuses, CtrlStates
<1>3. CASE open /\ reqState = "CMD_WAIT" /\ HandleControl(n)
  <2>1. setup' \in Kinds /\ UNCHANGED <<open, dev>>
    BY <1>3 DEF CtlReq, CtlTypeOK
  <2> QED
    BY <1>1, <1>3, <2>1, HandleType
<1> QED
  BY <1>2, <1>3 DEF CtlReq

\* The rest of a call that starts a transfer.
LEMMA SubmissionType ==
  ASSUME CtlTypeOK, Submission, events' \in 0 .. QueueLen
  PROVE  CtlTypeOK'
<1>1. HandleControl(0) /\ setup' \in Kinds /\ UNCHANGED <<open, dev>>
  BY DEF Submission, HandleControl, CtlTypeOK
<1> QED
  BY <1>1, HandleType

\* An event of a channel, a retransmission the device took included.
BusEvent ==
  \/ OutDone \/ InDone \/ OutNak \/ InNak
  \/ OutStall \/ InStall \/ OutError \/ InError

LEMMA BusType ==
  ASSUME CtlTypeOK, BusEvent
  PROVE  CtlTypeOK'
<1>1. events' \in 0 .. QueueLen
  BY QueueAssumption
  DEF CtlTypeOK, BusEvent, OutDone, InDone, OutNak, InNak, OutStall, InStall,
      OutError, InError, UrbEvent, PutN
<1>2. dev' \in [kind : Kinds, stage : Stages]
  BY DEF CtlTypeOK, BusEvent, OutDone, InDone, OutNak, InNak, OutStall, InStall,
         OutError, InError, TakesOut, TakesIn, TakesSetup, TakesData,
         TakesStatus, Stages
<1>3. /\ urbIn' \in UrbStates /\ urbOut' \in UrbStates
      /\ chanIn' \in Tokens /\ chanOut' \in Tokens
  BY DEF CtlTypeOK, BusEvent, OutDone, InDone, OutNak, InNak, OutStall, InStall,
         OutError, InError, UrbStates, Tokens
<1> QED
  BY <1>1, <1>2, <1>3
  DEF CtlTypeOK, BusEvent, OutDone, InDone, OutNak, InNak, OutStall, InStall,
      OutError, InError, hostVars

\* A channel is started only while the pipes are allocated.
LEMMA CallKeepsChannels ==
  ASSUME NEW k, NEW n, CtlReq(k, n), ~open
  PROVE  ~open' /\ UNCHANGED chanVars
BY DEF CtlReq

\* A request ends well with a message.
LEMMA OkTells ==
  ASSUME NEW k, NEW n \in 0 .. 1, CtlReq(k, n), status' = "OK"
  PROVE  n = 1
BY DEF CtlReq, HandleControl, StartStage, Start, SetupWait, DataInWait, DataOutWait,
       StatusInWait, StatusOutWait, CtrlError, Leaves, Stays, Goto

\* What a channel's event leaves alone, and the message it puts.
LEMMA BusFrame ==
  ASSUME BusEvent
  PROVE  /\ UNCHANGED <<hostVars, open, sent>> /\ events' = PutN(1)
         /\ chanIn' \in {chanIn, "OFF"} /\ chanOut' \in {chanOut, "OFF"}
BY DEF BusEvent, OutDone, InDone, OutNak, InNak, OutStall, InStall, OutError,
       InError, UrbEvent
=============================================================================
