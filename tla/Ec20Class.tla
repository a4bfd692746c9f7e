----------------------------- MODULE Ec20Class -----------------------------
(***************************************************************************)
(* The bulk transfers of the modem's class driver (usbh_ec20.c): the       *)
(* application submits a buffer (USBH_EC20_Transmit) and keeps one receive *)
(* buffer armed (USBH_EC20_Receive); the host thread, woken by messages,   *)
(* runs the two machines of USBH_EC20_Process; channel interrupts end each *)
(* packet.  A pass is cut between the two machines, for an interrupt can   *)
(* come there.                                                             *)
(*                                                                         *)
(* A byte is <<n, i>>, the i-th byte of the n-th accepted buffer, so lost, *)
(* repeated and joined data show in what the modem has assembled.  The     *)
(* modem ends a transfer at a packet shorter than the endpoint's size and  *)
(* drops a packet whose data PID repeats.                                  *)
(***************************************************************************)
EXTENDS Integers, Sequences

CONSTANTS
  EpSize,      \* DataItf.OutEpSize
  Lengths,     \* lengths of the submitted buffers
  QueueLen,    \* osMessageQDef(USBH_Queue, 10, ...)
  MaxBuffers,  \* bound: buffers submitted
  MaxPackets,  \* bound: packets the modem sends
  MaxErrors    \* bound: bus errors on the OUT channel

ASSUME EpAssumption == EpSize \in Nat \ {0}
ASSUME LengthAssumption == Lengths \subseteq Nat \ {0}
ASSUME QueueAssumption == QueueLen \in Nat \ {0}
ASSUME BoundAssumption ==
  MaxBuffers \in Nat /\ MaxPackets \in Nat /\ MaxErrors \in Nat

TxStates  == {"IDLE", "SEND_DATA", "SEND_DATA_WAIT"}
RxStates  == {"IDLE", "RECEIVE_DATA", "RECEIVE_DATA_WAIT"}
UrbStates == {"IDLE", "DONE", "NOTREADY", "ERROR", "STALL"}

VARIABLES
  txState,     \* data_tx_state
  txData,      \* what pTxData and TxDataLength still describe
  txZero,      \* tx_zero_packet_flag
  rxState,     \* data_rx_state
  urbOut, urbIn,   \* hc[pipe].urb_state
  outOn, outPkt,   \* the OUT channel is enabled, and its packet [data, pid]
  inOn,        \* the IN channel is enabled
  toggle,      \* hc[OutPipe].toggle_out
  events,      \* messages in phost->os_event
  pc,          \* the host thread: "sleep", or "rx" between the two machines
  accepted,    \* the buffers USBH_EC20_Transmit took
  devToggle, partial, got,   \* the modem: expected PID, transfer in
                             \* progress, complete transfers
  nIn,         \* packets the modem has sent
  seen,        \* packets the receive callback was given
  errors       \* bus errors on the OUT channel so far

txVars  == <<txState, txData, txZero, accepted>>
outVars == <<urbOut, outOn, outPkt, toggle>>
inVars  == <<urbIn, inOn>>
devVars == <<devToggle, partial, got>>
vars == <<txVars, outVars, rxState, inVars, events, pc, devVars, nIn, seen,
          errors>>

Bytes == (Nat \ {0}) \X (Nat \ {0})

\* The transfers, the buffers and the queues keep their types.
TypeOK ==
  /\ txState \in TxStates /\ rxState \in RxStates
  /\ txData \in Seq(Bytes) /\ txZero \in BOOLEAN
  /\ urbOut \in UrbStates /\ urbIn \in UrbStates
  /\ outOn \in BOOLEAN /\ inOn \in BOOLEAN
  /\ outPkt \in [data : Seq(Bytes), pid : {0, 1}]
  /\ toggle \in {0, 1} /\ devToggle \in {0, 1}
  /\ events \in 0 .. QueueLen
  /\ pc \in {"sleep", "rx"}
  /\ accepted \in Seq(Seq(Bytes)) /\ got \in Seq(Seq(Bytes))
  /\ partial \in Seq(Bytes)
  /\ nIn \in 0 .. MaxPackets
  /\ seen \in Seq(Nat)
  /\ errors \in 0 .. MaxErrors

\* After USBH_EC20_InterfaceInit, with the receive buffer that
\* start_EC20_Application arms.
Init ==
  /\ txState = "IDLE" /\ txData = <<>> /\ txZero = FALSE
  /\ rxState = "RECEIVE_DATA"
  /\ urbOut = "IDLE" /\ urbIn = "IDLE" /\ outOn = FALSE /\ inOn = FALSE
  /\ outPkt = [data |-> <<>>, pid |-> 0] /\ toggle = 0
  /\ events = 1 /\ pc = "sleep"
  /\ accepted = <<>>
  /\ devToggle = 0 /\ partial = <<>> /\ got = <<>>
  /\ nIn = 0 /\ seen = <<>> /\ errors = 0

\* A full queue drops the message.
PutN(e, n) == IF e + n > QueueLen THEN QueueLen ELSE e + n
Post == events' = PutN(events, 1)

-----------------------------------------------------------------------------
(* The application's thread. *)

Buffer(n, l) == [i \in 1 .. l |-> <<n, i>>]

\* A mutant: no empty packet after a last packet of full size.
TransmitNoZero(l) ==
  /\ Len(accepted) < MaxBuffers
  /\ txState = "IDLE"
  /\ txData' = Buffer(Len(accepted) + 1, l)
  /\ accepted' = Append(accepted, txData')
  /\ txState' = "SEND_DATA"
  /\ Post
  /\ UNCHANGED <<txZero, outVars, rxState, inVars, pc, devVars, nIn, seen,
                 errors>>
\* A mutant: the host thread is not told.
TransmitSilent(l) ==
  /\ Len(accepted) < MaxBuffers
  /\ txState = "IDLE"
  /\ txData' = Buffer(Len(accepted) + 1, l)
  /\ accepted' = Append(accepted, txData')
  /\ txZero' = (txZero \/ l % EpSize = 0)
  /\ txState' = "SEND_DATA"
  /\ UNCHANGED <<events, outVars, rxState, inVars, pc, devVars, nIn, seen,
                 errors>>

\* USBH_EC20_Transmit; it answers USBH_BUSY while a buffer is on its way.
Transmit(l) ==
  /\ Len(accepted) < MaxBuffers
  /\ txState = "IDLE"
  /\ txData' = Buffer(Len(accepted) + 1, l)
  /\ accepted' = Append(accepted, txData')
  /\ txZero' = (txZero \/ l % EpSize = 0)
  /\ txState' = "SEND_DATA"
  /\ Post
  /\ UNCHANGED <<outVars, rxState, inVars, pc, devVars, nIn, seen, errors>>

\* Other senders of os_event: another handle's channels, the port.
Foreign ==
  /\ Post
  /\ UNCHANGED <<txVars, outVars, rxState, inVars, pc, devVars, nIn, seen,
                 errors>>

-----------------------------------------------------------------------------
(* The host thread. *)

\* One message more or less: a pass takes one and puts n.
Pass(n) == events' = PutN(events - 1, n)

First == IF Len(txData) > EpSize THEN SubSeq(txData, 1, EpSize) ELSE txData
Rest  == IF Len(txData) > EpSize
         THEN SubSeq(txData, EpSize + 1, Len(txData)) ELSE <<>>

SendData ==
  /\ txState = "SEND_DATA"
  /\ outPkt' = [data |-> First, pid |-> toggle]
  /\ outOn' = TRUE /\ urbOut' = "IDLE"
  /\ txState' = "SEND_DATA_WAIT"
  /\ Pass(0)
  /\ UNCHANGED <<txData, txZero, toggle>>

\* A mutant: the empty packet is sent in place of the data that is left.
SentFlagFirst ==
  /\ txState = "SEND_DATA_WAIT" /\ urbOut = "DONE"
  /\ txData' = IF txZero THEN <<>> ELSE Rest
  /\ txState' = IF Rest # <<>> \/ txZero THEN "SEND_DATA" ELSE "IDLE"
  /\ txZero' = FALSE
  /\ Pass(1)
  /\ UNCHANGED outVars

\* URB_DONE: the next packet, the empty packet, or the end (TransmitCallback
\* is empty).
Sent ==
  /\ txState = "SEND_DATA_WAIT" /\ urbOut = "DONE"
  /\ txData' = Rest
  /\ txState' = IF Rest # <<>> \/ txZero THEN "SEND_DATA" ELSE "IDLE"
  /\ txZero' = (txZero /\ Rest # <<>>)
  /\ Pass(1)
  /\ UNCHANGED outVars

\* A mutant: the next pass is left to chance.
SendAgainSilent ==
  /\ txState = "SEND_DATA_WAIT" /\ urbOut = "NOTREADY"
  /\ txState' = "SEND_DATA"
  /\ Pass(0)
  /\ UNCHANGED <<txData, txZero, outVars>>

SendAgain ==
  /\ txState = "SEND_DATA_WAIT" /\ urbOut = "NOTREADY"
  /\ txState' = "SEND_DATA"
  /\ Pass(1)
  /\ UNCHANGED <<txData, txZero, outVars>>

\* No branch for URB_ERROR and URB_STALL.
NothingToSend ==
  /\ \/ txState = "IDLE"
     \/ txState = "SEND_DATA_WAIT" /\ urbOut \notin {"DONE", "NOTREADY"}
  /\ Pass(0)
  /\ UNCHANGED <<txState, txData, txZero, outVars>>

ProcessTransmission ==
  /\ pc = "sleep" /\ events > 0
  /\ pc' = "rx"
  /\ SendData \/ Sent \/ SendAgain \/ NothingToSend
  /\ UNCHANGED <<accepted, rxState, inVars, devVars, nIn, seen, errors>>

ReceiveData ==
  /\ rxState = "RECEIVE_DATA"
  /\ inOn' = TRUE /\ urbIn' = "IDLE"
  /\ rxState' = "RECEIVE_DATA_WAIT"
  /\ UNCHANGED <<seen, events>>

\* URB_DONE: EC20_IDLE, then the callback, which uses the packet and calls
\* USBH_EC20_Receive again; both put a message.
Received ==
  /\ rxState = "RECEIVE_DATA_WAIT" /\ urbIn = "DONE"
  /\ seen' = Append(seen, nIn)
  /\ rxState' = "RECEIVE_DATA"
  /\ events' = PutN(events, 2)
  /\ UNCHANGED inVars

\* A mutant: a NAK starts the transfer anew, as in ProcessTransmission.
NotYetRestart ==
  /\ rxState = "RECEIVE_DATA_WAIT" /\ urbIn = "NOTREADY"
  /\ rxState' = "RECEIVE_DATA"
  /\ Post
  /\ UNCHANGED <<seen, inVars>>

NotYet ==
  /\ rxState = "RECEIVE_DATA_WAIT" /\ urbIn = "NOTREADY"
  /\ Post
  /\ UNCHANGED <<seen, rxState, inVars>>

NothingReceived ==
  /\ rxState = "RECEIVE_DATA_WAIT" /\ urbIn \notin {"DONE", "NOTREADY"}
  /\ UNCHANGED <<seen, rxState, inVars, events>>

ProcessReception ==
  /\ pc = "rx" /\ pc' = "sleep"
  /\ ReceiveData \/ Received \/ NotYet \/ NothingReceived
  /\ UNCHANGED <<txVars, outVars, devVars, nIn, errors>>

-----------------------------------------------------------------------------
(* The channels and the modem.  Each halt of a channel puts a message.       *)

\* The modem takes the packet, or only acknowledges one it has already.
ModemTakes ==
  IF outPkt.pid # devToggle THEN UNCHANGED devVars
  ELSE /\ devToggle' = 1 - devToggle
       /\ IF Len(outPkt.data) < EpSize
          THEN /\ got' = Append(got, partial \o outPkt.data)
               /\ partial' = <<>>
          ELSE partial' = partial \o outPkt.data /\ UNCHANGED got

OutDone ==
  /\ outOn /\ ModemTakes
  /\ outOn' = FALSE /\ urbOut' = "DONE" /\ toggle' = 1 - toggle
  /\ Post
  /\ UNCHANGED <<txVars, outPkt, rxState, inVars, pc, nIn, seen, errors>>
OutHalt(urb) ==
  /\ outOn
  /\ outOn' = FALSE /\ urbOut' = urb
  /\ Post
  /\ UNCHANGED <<txVars, outPkt, toggle, rxState, inVars, pc, devVars, nIn,
                 seen, errors>>
OutNak   == OutHalt("NOTREADY")
OutStall == OutHalt("STALL")

\* A bus error, before or after the modem took the packet: every fourth time
\* URB_ERROR, and the channel is enabled again, the packet unchanged.
OutError ==
  /\ outOn /\ errors < MaxErrors
  /\ errors' = errors + 1
  /\ ModemTakes \/ UNCHANGED devVars
  /\ urbOut' \in {"NOTREADY", "ERROR"}
  /\ Post
  /\ UNCHANGED <<txVars, outOn, outPkt, toggle, rxState, inVars, pc, nIn, seen>>

InDone ==
  /\ inOn /\ nIn < MaxPackets
  /\ nIn' = nIn + 1
  /\ inOn' = FALSE /\ urbIn' = "DONE"
  /\ Post
  /\ UNCHANGED <<txVars, outVars, rxState, pc, devVars, seen, errors>>
\* A NAK or an error leaves the channel enabled.
InRetry ==
  /\ inOn
  /\ urbIn' \in {"NOTREADY", "ERROR"}
  /\ Post
  /\ UNCHANGED <<txVars, outVars, rxState, inOn, pc, devVars, nIn, seen, errors>>
InStall ==
  /\ inOn
  /\ inOn' = FALSE /\ urbIn' = "STALL"
  /\ Post
  /\ UNCHANGED <<txVars, outVars, rxState, pc, devVars, nIn, seen, errors>>

-----------------------------------------------------------------------------
HostThread == ProcessTransmission \/ ProcessReception
Channels ==
  OutDone \/ OutNak \/ OutStall \/ OutError \/ InDone \/ InRetry \/ InStall
Next == (\E l \in Lengths : Transmit(l)) \/ Foreign \/ HostThread \/ Channels

Spec == Init /\ [][Next]_vars

\* The thread runs when it has a message; a modem that is asked again and
\* again takes a packet in the end, and sends what it has.
FairSpec ==
  /\ Spec
  /\ WF_vars(ProcessTransmission) /\ WF_vars(ProcessReception)
  /\ SF_vars(OutDone) /\ SF_vars(InDone)

-----------------------------------------------------------------------------
(* Properties. *)

\* Without a bus error the modem gets exactly the accepted buffers, each as
\* one transfer of its own, also when the length is a multiple of the packet
\* size (usbh_ec20.c:229-232, 310-314); and the machine is free for the next
\* one no earlier than that.
BuffersInOrder ==
  errors = 0 =>
    /\ \A n \in 1 .. Len(got) : n <= Len(accepted) /\ got[n] = accepted[n]
    /\ txState = "IDLE" => Len(got) = Len(accepted)

\* Bus errors may repeat data, for the channel is enabled again while the
\* driver submits the packet once more, but they lose none: once the machine is
\* free, every byte it took has arrived.
NoByteLost ==
  txState = "IDLE" =>
    \A n \in 1 .. Len(accepted) : \A i \in 1 .. Len(accepted[n]) :
      \E m \in 1 .. Len(got) : \E j \in 1 .. Len(got[m]) :
        got[m][j] = accepted[n][i]

\* The callback is given every packet of the modem once, in order, and no
\* packet is received over one that was not used yet.
PacketsInOrder ==
  /\ \A n \in 1 .. Len(seen) : seen[n] = n
  /\ nIn = Len(seen) + (IF rxState = "RECEIVE_DATA_WAIT" /\ urbIn = "DONE"
                        THEN 1 ELSE 0)

\* A machine that needs a pass has a message waiting (or its half of the pass
\* still comes), and one that waits has a channel that will answer, unless the
\* modem stalled: the driver has no branch for that.
TxNeedsPass ==
  \/ txState = "SEND_DATA"
  \/ txState = "SEND_DATA_WAIT" /\ urbOut \in {"DONE", "NOTREADY"}
RxNeedsPass ==
  \/ rxState = "RECEIVE_DATA"
  \/ rxState = "RECEIVE_DATA_WAIT" /\ urbIn = "DONE"
NeverStranded ==
  /\ TxNeedsPass => events > 0
  /\ RxNeedsPass => (events > 0 \/ pc = "rx")
  /\ txState = "SEND_DATA_WAIT" =>
       (outOn \/ urbOut \in {"DONE", "NOTREADY", "STALL"})
  /\ rxState = "RECEIVE_DATA_WAIT" => (inOn \/ urbIn \in {"DONE", "STALL"})

\* A buffer is sent, and a packet of the modem reaches the application, unless
\* its endpoint stalled.
TransfersEnd ==
  /\ txState # "IDLE" ~> txState = "IDLE" \/ urbOut = "STALL"
  /\ \A n \in 1 .. MaxPackets :
       nIn >= n ~> Len(seen) >= n \/ urbIn = "STALL"
=============================================================================
