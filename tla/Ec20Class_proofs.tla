--------------------------- MODULE Ec20Class_proofs ---------------------------
(***************************************************************************)
(* Theorems about the modem's class driver, for every endpoint size,       *)
(* buffer length and queue length.                                         *)
(*   TypeCorrect           []TypeOK                                        *)
(*   NoTransferStranded    []NeverStranded, inductive with the types       *)
(*   PacketsOrdered        []PacketsInOrder: the IN channel is enabled     *)
(*                         only while the receiver waits for it            *)
(*                         (InGuarded)                                     *)
(*   BuffersArriveInOrder  []BuffersInOrder, from HostInv (what an enabled *)
(*                         channel carries, when an empty packet is due)   *)
(*                         and WholeInv (modem and driver hold the two     *)
(*                         parts of the newest buffer)                     *)
(*   NoByteIsLost          []NoByteLost, from HostInv and BytesInv: with   *)
(*                         bus errors a packet is taken twice, but by the  *)
(*                         data PIDs the modem is at most one ahead        *)
(***************************************************************************)
EXTENDS Ec20Class, SequenceTheorems, TLAPS

LEMMA Constants ==
  /\ EpSize \in Nat \ {0} /\ Lengths \subseteq Nat \ {0}
  /\ QueueLen \in Nat \ {0} /\ MaxPackets \in Nat /\ MaxErrors \in Nat
BY EpAssumption, LengthAssumption, QueueAssumption, BoundAssumption

\* A message that is put is there or the queue was full: one is waiting.
LEMMA PutType ==
  ASSUME NEW e \in 0 .. QueueLen, NEW n \in Nat
  PROVE  /\ PutN(e, n) \in 0 .. QueueLen
         /\ n > 0 => PutN(e, n) > 0
         /\ PutN(e, n) >= e
BY Constants DEF PutN

LEMMA PassType ==
  ASSUME NEW e \in 1 .. QueueLen, NEW n \in Nat
  PROVE  PutN(e - 1, n) \in 0 .. QueueLen /\ (n > 0 => PutN(e - 1, n) > 0)
BY Constants DEF PutN

LEMMA BufferType ==
  ASSUME NEW n \in Nat \ {0}, NEW l \in Nat
  PROVE  Buffer(n, l) \in Seq(Bytes)
BY DEF Buffer, Bytes

LEMMA SliceType ==
  ASSUME TypeOK
  PROVE  First \in Seq(Bytes) /\ Rest \in Seq(Bytes)
<1>1. Len(txData) \in Nat /\ EpSize \in Nat
  BY Constants DEF TypeOK
<1>2. ASSUME Len(txData) > EpSize
      PROVE  SubSeq(txData, 1, EpSize) \in Seq(Bytes)
  BY <1>1, <1>2, Constants DEF TypeOK
<1>3. ASSUME Len(txData) > EpSize
      PROVE  SubSeq(txData, EpSize + 1, Len(txData)) \in Seq(Bytes)
  BY <1>1, <1>3, Constants DEF TypeOK
<1>4. <<>> \in Seq(Bytes)
  OBVIOUS
<1>5. First \in Seq(Bytes)
  BY <1>2 DEF First, TypeOK
<1>6. Rest \in Seq(Bytes)
  BY <1>3, <1>4 DEF Rest
<1> QED
  BY <1>5, <1>6

\* The modem assembles transfers of bytes.
LEMMA ModemType ==
  ASSUME TypeOK, ModemTakes \/ UNCHANGED devVars
  PROVE  /\ devToggle' \in {0, 1} /\ partial' \in Seq(Bytes)
         /\ got' \in Seq(Seq(Bytes))
<1>1. partial \in Seq(Bytes) /\ outPkt.data \in Seq(Bytes)
  BY DEF TypeOK
<1>2. partial \o outPkt.data \in Seq(Bytes) /\ <<>> \in Seq(Bytes)
  BY <1>1
<1>3. Append(got, partial \o outPkt.data) \in Seq(Seq(Bytes))
  BY <1>2 DEF TypeOK
<1>4. devToggle' \in {0, 1}
  BY DEF TypeOK, ModemTakes, devVars
<1>5. partial' \in Seq(Bytes)
  BY <1>2 DEF TypeOK, ModemTakes, devVars
<1>6. got' \in Seq(Seq(Bytes))
  BY <1>3 DEF TypeOK, ModemTakes, devVars
<1> QED
  BY <1>4, <1>5, <1>6

-----------------------------------------------------------------------------
(* One lemma for each group of actions. *)

LEMMA TransmitType ==
  ASSUME TypeOK, NEW l \in Lengths, Transmit(l)
  PROVE  TypeOK'
<1>1. txData' \in Seq(Bytes)
  <2>1. Len(accepted) + 1 \in Nat \ {0} /\ l \in Nat
    BY Constants DEF TypeOK
  <2> QED
    BY <2>1, BufferType DEF Transmit
<1>2. accepted' \in Seq(Seq(Bytes))
  BY <1>1 DEF Transmit, TypeOK
<1>3. events' \in 0 .. QueueLen
  BY PutType DEF Transmit, Post, TypeOK
<1>4. txZero' \in BOOLEAN
  BY DEF Transmit
<1>5. txState' \in TxStates
  BY DEF Transmit, TxStates
<1> QED
  BY <1>1, <1>2, <1>3, <1>4, <1>5
  DEF Transmit, TypeOK, outVars, inVars, devVars

LEMMA TransmissionType ==
  ASSUME TypeOK, ProcessTransmission
  PROVE  TypeOK'
<1>1. events \in 1 .. QueueLen
  BY DEF ProcessTransmission, TypeOK
<1>2. events' \in 0 .. QueueLen
  BY <1>1, PassType
  DEF ProcessTransmission, SendData, Sent, SendAgain, NothingToSend, Pass
<1>3. /\ txData' \in Seq(Bytes)
      /\ outPkt' \in [data : Seq(Bytes), pid : {0, 1}]
  BY SliceType
  DEF ProcessTransmission, SendData, Sent, SendAgain, NothingToSend, TypeOK,
      outVars
<1>4. txState' \in TxStates /\ urbOut' \in UrbStates /\ toggle' \in {0, 1}
  BY DEF ProcessTransmission, SendData, Sent, SendAgain, NothingToSend, TypeOK,
         outVars, TxStates, UrbStates
<1>5. txZero' \in BOOLEAN /\ outOn' \in BOOLEAN
  BY DEF ProcessTransmission, SendData, Sent, SendAgain, NothingToSend, TypeOK,
         outVars
<1> QED
  BY <1>2, <1>3, <1>4, <1>5 DEF ProcessTransmission, TypeOK, inVars, devVars

LEMMA ReceptionType ==
  ASSUME TypeOK, ProcessReception
  PROVE  TypeOK'
<1>1. events' \in 0 .. QueueLen
  BY PutType
  DEF ProcessReception, ReceiveData, Received, NotYet, NothingReceived, Post,
      TypeOK
<1>2. seen' \in Seq(Nat)
  <2>1. nIn \in Nat /\ seen \in Seq(Nat)
    BY Constants DEF TypeOK
  <2>2. Append(seen, nIn) \in Seq(Nat)
    BY <2>1
  <2>3. seen' = seen \/ seen' = Append(seen, nIn)
    BY DEF ProcessReception, ReceiveData, Received, NotYet, NothingReceived
  <2> QED
    BY <2>1, <2>2, <2>3
<1>3. rxState' \in RxStates /\ urbIn' \in UrbStates
  BY DEF ProcessReception, ReceiveData, Received, NotYet, NothingReceived,
         TypeOK, inVars, RxStates, UrbStates
<1>4. inOn' \in BOOLEAN
  BY DEF ProcessReception, ReceiveData, Received, NotYet, NothingReceived,
         TypeOK, inVars
<1> QED
  BY <1>1, <1>2, <1>3, <1>4
  DEF ProcessReception, TypeOK, txVars, outVars, devVars

LEMMA OutType ==
  ASSUME TypeOK, OutDone \/ OutNak \/ OutStall \/ OutError
  PROVE  TypeOK'
<1>1. ModemTakes \/ UNCHANGED devVars
  BY DEF OutDone, OutNak, OutStall, OutHalt, OutError
<1>2. events' \in 0 .. QueueLen
  BY PutType DEF OutDone, OutNak, OutStall, OutHalt, OutError, Post, TypeOK
<1>3. urbOut' \in UrbStates /\ toggle' \in {0, 1} /\ errors' \in 0 .. MaxErrors
  BY Constants
  DEF OutDone, OutNak, OutStall, OutHalt, OutError, TypeOK, UrbStates
<1>4. outOn' \in BOOLEAN
  BY DEF OutDone, OutNak, OutStall, OutHalt, OutError, TypeOK
<1>5. outPkt' \in [data : Seq(Bytes), pid : {0, 1}]
  BY DEF OutDone, OutNak, OutStall, OutHalt, OutError, TypeOK
<1>6. UNCHANGED <<txVars, rxState, inVars, pc, nIn, seen>>
  BY DEF OutDone, OutNak, OutStall, OutHalt, OutError
<1> QED
  BY <1>1, <1>2, <1>3, <1>4, <1>5, <1>6, ModemType DEF TypeOK, txVars, inVars

LEMMA InType ==
  ASSUME TypeOK, InDone \/ InRetry \/ InStall \/ Foreign
  PROVE  TypeOK'
<1>1. events' \in 0 .. QueueLen
  BY PutType DEF InDone, InRetry, InStall, Foreign, Post, TypeOK
<1>2. urbIn' \in UrbStates /\ nIn' \in 0 .. MaxPackets
  BY Constants DEF InDone, InRetry, InStall, Foreign, TypeOK, UrbStates, inVars
<1>3. inOn' \in BOOLEAN
  BY DEF InDone, InRetry, InStall, Foreign, TypeOK, inVars
<1>4. UNCHANGED <<txVars, outVars, rxState, pc, devVars, seen, errors>>
  BY DEF InDone, InRetry, InStall, Foreign
<1> QED
  BY <1>1, <1>2, <1>3, <1>4 DEF TypeOK, txVars, outVars, devVars

LEMMA TypeStep == TypeOK /\ [Next]_vars => TypeOK'
<1> SUFFICES ASSUME TypeOK, Next \/ UNCHANGED vars PROVE TypeOK'
  OBVIOUS
<1>1. CASE UNCHANGED vars
  BY <1>1 DEF vars, txVars, outVars, inVars, devVars, TypeOK
<1> QED
  BY <1>1, TransmitType, TransmissionType, ReceptionType, OutType, InType
  DEF Next, HostThread, Channels

\* The machines, the channels, the queue and the modem's data always hold
\* values of their types; a packet or a transfer is only made of bytes that
\* were submitted as such.
THEOREM TypeCorrect == Spec => []TypeOK
<1>1. Init => TypeOK
  <2> SUFFICES ASSUME Init PROVE TypeOK
    OBVIOUS
  <2>1. /\ <<>> \in Seq(Bytes) /\ <<>> \in Seq(Seq(Bytes)) /\ <<>> \in Seq(Nat)
        /\ 1 \in 0 .. QueueLen /\ 0 \in 0 .. MaxPackets /\ 0 \in 0 .. MaxErrors
    BY Constants
  <2> QED
    BY <2>1 DEF Init, TypeOK, TxStates, RxStates, UrbStates
<1> QED
  BY <1>1, TypeStep, PTL DEF Spec

-----------------------------------------------------------------------------
LEMMA StrandedStep == TypeOK /\ NeverStranded /\ [Next]_vars => NeverStranded'
<1> SUFFICES ASSUME TypeOK, NeverStranded, Next \/ UNCHANGED vars
             PROVE  NeverStranded'
  OBVIOUS
<1> USE DEF NeverStranded, TxNeedsPass, RxNeedsPass
<1>1. ASSUME Post PROVE events' > 0
  BY <1>1, PutType DEF Post, TypeOK
<1>2. CASE \E l \in Lengths : Transmit(l)
  BY <1>1, <1>2 DEF Transmit, outVars, inVars
<1>3. CASE Foreign
  BY <1>1, <1>3 DEF Foreign, txVars, outVars, inVars
<1>4. CASE ProcessTransmission
  <2>1. events \in 1 .. QueueLen
    BY <1>4 DEF ProcessTransmission, TypeOK
  <2>2. ASSUME Pass(1) PROVE events' > 0
    BY <2>1, <2>2, PassType DEF Pass
  <2>3. pc' = "rx" /\ UNCHANGED <<rxState, inVars>>
    BY <1>4 DEF ProcessTransmission
  <2>4. CASE SendData
    BY <2>3, <2>4 DEF SendData, inVars
  <2>5. CASE Sent
    BY <2>2, <2>3, <2>5 DEF Sent, outVars, inVars
  <2>6. CASE SendAgain
    BY <2>2, <2>3, <2>6 DEF SendAgain, outVars, inVars
  <2>7. CASE NothingToSend
    BY <2>3, <2>7 DEF NothingToSend, outVars, inVars
  <2> QED
    BY <1>4, <2>4, <2>5, <2>6, <2>7 DEF ProcessTransmission
<1>5. CASE ProcessReception
  <2>1. UNCHANGED <<txState, urbOut, outOn>>
    BY <1>5 DEF ProcessReception, txVars, outVars
  <2>2. CASE ReceiveData
    BY <2>1, <2>2 DEF ReceiveData
  <2>3. CASE Received
    <3>1. events' > 0
      BY <2>3, PutType DEF Received, TypeOK
    <3> QED
      BY <2>1, <2>3, <3>1 DEF Received, inVars
  <2>4. CASE NotYet
    BY <1>1, <2>1, <2>4 DEF NotYet, inVars
  <2>5. CASE NothingReceived
    BY <2>1, <2>5 DEF NothingReceived, inVars
  <2> QED
    BY <1>5, <2>2, <2>3, <2>4, <2>5 DEF ProcessReception
<1>6. CASE OutDone \/ OutNak \/ OutStall \/ OutError
  BY <1>1, <1>6
  DEF OutDone, OutNak, OutStall, OutHalt, OutError, txVars, inVars
<1>7. CASE InDone \/ InRetry \/ InStall
  BY <1>1, <1>7 DEF InDone, InRetry, InStall, txVars, outVars
<1>8. CASE UNCHANGED vars
  BY <1>8 DEF vars, txVars, outVars, inVars
<1> QED
  BY <1>2, <1>3, <1>4, <1>5, <1>6, <1>7, <1>8 DEF Next, HostThread, Channels

\* However the messages and the channels' interrupts fall, and however short
\* the queue is, no transfer waits for a pass that nothing will start, nor for
\* a channel that will not answer.
THEOREM NoTransferStranded == Spec => []NeverStranded
<1>1. Init => NeverStranded
  BY DEF Init, NeverStranded, TxNeedsPass, RxNeedsPass
<1> QED
  BY <1>1, StrandedStep, TypeCorrect, PTL DEF Spec

-----------------------------------------------------------------------------
\* The receiver's channel is enabled only while the receiver waits for it.
InGuarded == inOn => rxState = "RECEIVE_DATA_WAIT" /\ urbIn # "DONE"

LEMMA OrderStep ==
  TypeOK /\ InGuarded /\ PacketsInOrder /\ [Next]_vars
    => InGuarded' /\ PacketsInOrder'
<1> SUFFICES ASSUME TypeOK, InGuarded, PacketsInOrder, Next \/ UNCHANGED vars
             PROVE  InGuarded' /\ PacketsInOrder'
  OBVIOUS
<1>1. seen \in Seq(Nat) /\ nIn \in Nat
  BY DEF TypeOK
<1>2. CASE UNCHANGED <<rxState, inVars, nIn, seen>>
  BY <1>2 DEF InGuarded, PacketsInOrder, inVars
<1>3. CASE ReceiveData /\ UNCHANGED nIn
  BY <1>3 DEF ReceiveData, InGuarded, PacketsInOrder
<1>4. CASE Received /\ UNCHANGED nIn
  <2>1. nIn = Len(seen) + 1
    BY <1>4 DEF Received, PacketsInOrder
  <2>2. Len(seen') = Len(seen) + 1 /\ \A n \in 1 .. Len(seen') : seen'[n] = n
    BY <1>1, <1>4, <2>1 DEF Received, PacketsInOrder
  <2>3. rxState' = "RECEIVE_DATA" /\ ~inOn'
    BY <1>4 DEF Received, InGuarded, inVars, TypeOK
  <2> QED
    BY <1>1, <1>4, <2>1, <2>2, <2>3 DEF InGuarded, PacketsInOrder
<1>5. CASE InDone
  BY <1>1, <1>5 DEF InDone, InGuarded, PacketsInOrder
<1>6. CASE InRetry
  BY <1>6 DEF InRetry, InGuarded, PacketsInOrder
<1>7. CASE InStall
  BY <1>7 DEF InStall, InGuarded, PacketsInOrder
<1>8. CASE ProcessReception
  BY <1>2, <1>3, <1>4, <1>8 DEF ProcessReception, NotYet, NothingReceived
<1> QED
  BY <1>2, <1>5, <1>6, <1>7, <1>8
  DEF Next, Transmit, Foreign, HostThread, ProcessTransmission, Channels,
      OutDone, OutNak, OutStall, OutHalt, OutError, vars

\* Every packet of the modem reaches the application once and in order.
THEOREM PacketsOrdered == Spec => []PacketsInOrder
<1>1. Init => InGuarded /\ PacketsInOrder
  BY DEF Init, InGuarded, PacketsInOrder
<1> QED
  BY <1>1, OrderStep, TypeCorrect, PTL DEF Spec

-----------------------------------------------------------------------------
(* The transmit path.  What both properties about the submitted bytes need   *)
(* of the driver's side: an enabled OUT channel carries the packet the       *)
(* machine works at, and the flag for the empty packet says that the data    *)
(* that are left fill whole packets.                                         *)

HostInv ==
  /\ outOn => /\ txState # "IDLE" /\ urbOut # "DONE"
              /\ outPkt = [data |-> First, pid |-> toggle]
  /\ txState = "IDLE" => txData = <<>>
  /\ txState # "IDLE" => accepted # <<>>
  /\ txZero <=> txData # <<>> /\ Len(txData) % EpSize = 0

LEMMA WholePackets ==
  ASSUME NEW m \in Nat \ {0}, NEW x \in Nat, x > m
  PROVE  (x - m) % m = x % m
<1>1. x \div m \in Int /\ x = m * (x \div m) + (x % m) /\ x % m \in 0 .. m - 1
  OBVIOUS
<1>2. PICK k \in Int, r \in 0 .. m - 1 : x = m * k + r /\ r = x % m
  BY <1>1
<1>3. x - m = m * (k - 1) + r /\ k - 1 \in Int
  BY <1>2
<1>4. \A l \in Int : (m * l + r) % m = r
  OBVIOUS
<1> QED
  BY <1>2, <1>3, <1>4

\* The packet and what is left behind it are what there was.
LEMMA Slices ==
  ASSUME TypeOK
  PROVE  /\ First \in Seq(Bytes) /\ Rest \in Seq(Bytes)
         /\ First \o Rest = txData
         /\ Len(txData) > EpSize => /\ Len(First) = EpSize
                                    /\ Len(Rest) = Len(txData) - EpSize
         /\ Len(txData) <= EpSize => First = txData /\ Rest = <<>>
<1>1. txData \in Seq(Bytes) /\ Len(txData) \in Nat /\ EpSize \in Nat \ {0}
  BY Constants DEF TypeOK
<1>2. CASE Len(txData) > EpSize
  <2>1. First = SubSeq(txData, 1, EpSize) /\ Rest = SubSeq(txData, EpSize + 1, Len(txData))
    BY <1>2 DEF First, Rest
  <2>2. Len(First) = EpSize /\ Len(Rest) = Len(txData) - EpSize
    BY <1>1, <1>2, <2>1
  <2>3. SubSeq(txData, 1, EpSize) \o SubSeq(txData, EpSize + 1, Len(txData))
          = SubSeq(txData, 1, Len(txData))
    <3>1. /\ 1 \in 1 .. Len(txData) + 1 /\ EpSize \in 1 - 1 .. Len(txData)
          /\ Len(txData) \in EpSize .. Len(txData)
      BY <1>1, <1>2
    <3> QED
      BY <1>1, <3>1, ConcatAdjacentSubSeq
  <2>4. SubSeq(txData, 1, Len(txData)) = txData
    BY <1>1, SubSeqFull
  <2>5. First \o Rest = txData
    BY <2>1, <2>3, <2>4, Zenon
  <2>6. ~(Len(txData) <= EpSize)
    BY <1>1, <1>2
  <2> QED
    BY <2>2, <2>5, <2>6, SliceType
<1>3. CASE Len(txData) <= EpSize
  <2>1. First = txData /\ Rest = <<>>
    BY <1>1, <1>3 DEF First, Rest
  <2>2. txData \o <<>> = txData
    BY <1>1, ConcatEmptySeq
  <2> QED
    BY <1>1, <1>3, <2>1, <2>2, SliceType
<1> QED
  BY <1>1, <1>2, <1>3

\* What a submitted buffer is.
LEMMA BufferLength ==
  ASSUME NEW n \in Nat \ {0}, NEW l \in Nat \ {0}
  PROVE  Len(Buffer(n, l)) = l /\ Buffer(n, l) # <<>>
BY DEF Buffer

LEMMA HostStep ==
  ASSUME TypeOK, HostInv, [Next]_vars
  PROVE  HostInv'
<1> USE Constants DEF HostInv
<1>1. CASE \E l \in Lengths : Transmit(l)
  <2>1. PICK l \in Lengths : Transmit(l)
    BY <1>1
  <2>2. l \in Nat \ {0} /\ Len(accepted) + 1 \in Nat \ {0}
    BY DEF TypeOK
  <2>3. Len(txData') = l /\ txData' # <<>>
    BY <2>1, <2>2, BufferLength DEF Transmit
  <2>4. ~outOn /\ ~txZero
    BY <2>1 DEF Transmit
  <2>5. txZero' <=> txData' # <<>> /\ Len(txData') % EpSize = 0
    BY <2>1, <2>3, <2>4 DEF Transmit
  <2>6. accepted' # <<>> /\ txState' = "SEND_DATA" /\ ~outOn'
    <3>1. txData' \in Seq(Bytes) /\ accepted \in Seq(Seq(Bytes))
      BY <2>1, <2>2, BufferType DEF Transmit, TypeOK
    <3>2. accepted' # <<>>
      BY <2>1, <3>1, AppendProperties DEF Transmit
    <3> QED
      BY <2>1, <2>4, <3>2 DEF Transmit, outVars
  <2> QED
    BY <2>5, <2>6
<1>2. CASE SendData /\ UNCHANGED accepted
  BY <1>2 DEF SendData, First
<1>3. CASE Sent /\ UNCHANGED accepted
  <2>1. ~outOn' /\ accepted' # <<>>
    BY <1>3 DEF Sent, outVars
  <2>2. CASE Len(txData) > EpSize
    <3>1. Len(Rest) = Len(txData) - EpSize /\ Rest # <<>> /\ txData # <<>>
      BY <2>2, Slices DEF TypeOK
    <3>2. Len(txData) \in Nat
      BY DEF TypeOK
    <3>3. Len(Rest) % EpSize = Len(txData) % EpSize
      BY <2>2, <3>1, <3>2, WholePackets
    <3> QED
      BY <1>3, <2>1, <3>1, <3>3 DEF Sent
  <2>3. CASE Len(txData) <= EpSize
    <3>1. Rest = <<>>
      BY <2>3, Slices
    <3> QED
      BY <1>3, <2>1, <3>1 DEF Sent
  <2> QED
    BY <2>2, <2>3 DEF TypeOK
<1>4. CASE (SendAgain \/ NothingToSend) /\ UNCHANGED accepted
  BY <1>4 DEF SendAgain, NothingToSend, outVars, First
<1>5. CASE OutDone \/ OutNak \/ OutStall \/ OutError
  BY <1>5 DEF OutDone, OutNak, OutStall, OutHalt, OutError, txVars, First
<1>6. CASE UNCHANGED <<txVars, outVars>>
  BY <1>6 DEF txVars, outVars, First
<1> QED
  BY <1>1, <1>2, <1>3, <1>4, <1>5, <1>6
  DEF Next, vars, Foreign, HostThread, ProcessTransmission, ProcessReception,
      Channels, InDone, InRetry, InStall

-----------------------------------------------------------------------------
(* Whole buffers.  Without a bus error the two data PIDs agree, and what the  *)
(* modem has assembled and what the driver still holds make up the buffer.    *)

\* The modem has the packet; the machine has not seen that yet.
Taken == txState = "SEND_DATA_WAIT" /\ urbOut = "DONE"

Complete == txState = "IDLE" \/ (Taken /\ Len(txData) < EpSize)

WholeInv ==
  errors = 0 =>
    /\ devToggle = toggle
    /\ outOn => txState = "SEND_DATA_WAIT" /\ urbOut = "IDLE"
    /\ Len(got) <= Len(accepted)
    /\ \A n \in 1 .. Len(got) : got[n] = accepted[n]
    /\ Complete => partial = <<>> /\ Len(got) = Len(accepted)
    /\ ~Complete =>
         /\ Len(got) + 1 = Len(accepted)
         /\ accepted[Len(accepted)] = partial \o (IF Taken THEN Rest ELSE txData)

LEMMA WholeTransmit ==
  ASSUME TypeOK, HostInv, WholeInv, NEW l \in Lengths, Transmit(l)
  PROVE  WholeInv'
<1> SUFFICES ASSUME errors' = 0 PROVE WholeInv'
  BY DEF WholeInv
<1>1. /\ txState = "IDLE" /\ txState' = "SEND_DATA" /\ errors = 0 /\ ~outOn
      /\ accepted' = Append(accepted, txData')
      /\ UNCHANGED <<urbOut, outOn, toggle, devToggle, partial, got>>
  BY DEF Transmit, outVars, devVars, HostInv
<1>2. txData' \in Seq(Bytes)
  <2>1. Len(accepted) + 1 \in Nat \ {0} /\ l \in Nat
    BY Constants DEF TypeOK
  <2> QED
    BY <2>1, BufferType DEF Transmit
<1>3. accepted \in Seq(Seq(Bytes)) /\ got \in Seq(Seq(Bytes))
  BY DEF TypeOK
<1>4. /\ Len(accepted') = Len(accepted) + 1 /\ accepted'[Len(accepted')] = txData'
      /\ \A n \in 1 .. Len(accepted) : accepted'[n] = accepted[n]
  BY <1>1, <1>2, <1>3, AppendProperties
<1>5. partial = <<>> /\ Len(got) = Len(accepted) /\ Len(got) \in Nat
  BY <1>1, <1>3 DEF WholeInv, Complete
<1>6. ~Taken' /\ ~Complete'
  BY <1>1 DEF Taken, Complete
<1>7. txData' = <<>> \o txData'
  BY <1>2, ConcatEmptySeq
<1> QED
  BY <1>1, <1>4, <1>5, <1>6, <1>7 DEF WholeInv

\* The machine goes on unless the packet is a short one.
LEMMA LastPacket ==
  ASSUME TypeOK, HostInv
  PROVE  Rest = <<>> /\ ~txZero <=> Len(txData) < EpSize
<1>1. Len(txData) \in Nat /\ (txData = <<>> <=> Len(txData) = 0)
  BY DEF TypeOK
<1>2. CASE Len(txData) > EpSize
  <2>1. Rest # <<>>
    BY <1>1, <1>2, Slices, Constants
  <2> QED
    BY <1>1, <1>2, <2>1, Constants
<1>3. CASE Len(txData) = EpSize
  <2>1. EpSize % EpSize = 0
    BY Constants
  <2> QED
    BY <1>1, <1>3, <2>1, Constants DEF HostInv
<1>4. CASE Len(txData) < EpSize
  <2>1. Rest = <<>>
    BY <1>1, <1>4, Slices, Constants
  <2>2. Len(txData) # 0 => Len(txData) % EpSize # 0
    BY <1>1, <1>4, Constants
  <2> QED
    BY <1>1, <1>4, <2>1, <2>2 DEF HostInv
<1> QED
  BY <1>1, <1>2, <1>3, <1>4, Constants

LEMMA WholePass ==
  ASSUME TypeOK, HostInv, WholeInv, ProcessTransmission
  PROVE  WholeInv'
<1> SUFFICES ASSUME errors' = 0 PROVE WholeInv'
  BY DEF WholeInv
<1>1. UNCHANGED <<accepted, devToggle, partial, got>> /\ errors = 0
  BY DEF ProcessTransmission, devVars
<1>2. CASE SendData
  BY <1>1, <1>2 DEF SendData, WholeInv, Complete, Taken
<1>3. CASE Sent
  <2>1. /\ Taken /\ ~Taken' /\ ~outOn' /\ toggle' = toggle /\ txData' = Rest
        /\ txState' = IF Rest # <<>> \/ txZero THEN "SEND_DATA" ELSE "IDLE"
    BY <1>3 DEF Sent, Taken, HostInv, outVars
  <2>2. Complete <=> Complete'
    <3>1. Complete' <=> Rest = <<>> /\ ~txZero
      BY <2>1 DEF Complete
    <3>2. Complete <=> Len(txData) < EpSize
      BY <2>1 DEF Complete, Taken
    <3> QED
      BY <3>1, <3>2, LastPacket
  <2> QED
    BY <1>1, <2>1, <2>2 DEF WholeInv
<1>4. CASE SendAgain
  BY <1>1, <1>4 DEF SendAgain, WholeInv, Complete, Taken, outVars
<1>5. CASE NothingToSend
  BY <1>1, <1>5 DEF NothingToSend, WholeInv, Complete, Taken, outVars, Rest
<1> QED
  BY <1>2, <1>3, <1>4, <1>5 DEF ProcessTransmission

LEMMA WholeDone ==
  ASSUME TypeOK, HostInv, WholeInv, OutDone
  PROVE  WholeInv'
<1> SUFFICES ASSUME errors' = 0 PROVE WholeInv'
  BY DEF WholeInv
<1>1. /\ errors = 0 /\ devToggle = toggle /\ txState = "SEND_DATA_WAIT"
      /\ urbOut = "IDLE" /\ outPkt = [data |-> First, pid |-> toggle]
  BY DEF OutDone, WholeInv, HostInv
<1>2. ~Taken /\ ~Complete /\ Taken' /\ ~outOn'
      /\ UNCHANGED <<txState, txData, accepted>>
  BY <1>1 DEF OutDone, txVars, Taken, Complete
<1>3. /\ devToggle' = 1 - devToggle /\ toggle' = 1 - toggle
      /\ IF Len(First) < EpSize
         THEN got' = Append(got, partial \o First) /\ partial' = <<>>
         ELSE partial' = partial \o First /\ got' = got
  BY <1>1 DEF OutDone, ModemTakes
<1>4. Len(got) + 1 = Len(accepted) /\ accepted[Len(accepted)] = partial \o txData
  BY <1>1, <1>2 DEF WholeInv
<1>5. Len(txData) \in Nat /\ EpSize \in Nat
  BY Constants DEF TypeOK
<1>6. Len(First) < EpSize <=> Len(txData) < EpSize
  BY <1>5, Slices
<1>7. CASE Len(txData) < EpSize
  <2>1. First = txData
    BY <1>5, <1>7, Slices
  <2>2. got' = Append(got, accepted[Len(accepted)]) /\ partial' = <<>>
    BY <1>3, <1>4, <1>6, <1>7, <2>1
  <2>3. accepted[Len(accepted)] \in Seq(Bytes) /\ got \in Seq(Seq(Bytes))
    BY <1>4 DEF TypeOK
  <2>4. /\ Len(got') = Len(got) + 1 /\ got'[Len(got) + 1] = accepted[Len(accepted)]
        /\ \A n \in 1 .. Len(got) : got'[n] = got[n]
    BY <2>2, <2>3, AppendProperties
  <2>5. Complete'
    BY <1>2, <1>7 DEF Complete
  <2>6. \A n \in 1 .. Len(got') : got'[n] = accepted[n]
    <3>1. Len(got) \in Nat /\ \A n \in 1 .. Len(got) : got[n] = accepted[n]
      BY <1>1, <2>3 DEF WholeInv
    <3>2. got'[Len(got) + 1] = accepted[Len(got) + 1]
      BY <1>4, <2>4
    <3>3. \A n \in 1 .. Len(got') : n \in 1 .. Len(got) \/ n = Len(got) + 1
      BY <2>4, <3>1
    <3> QED
      BY <2>4, <3>1, <3>2, <3>3
  <2>7. Len(got') = Len(accepted)
    BY <1>4, <2>4
  <2> QED
    BY <1>1, <1>2, <1>3, <2>2, <2>5, <2>6, <2>7 DEF WholeInv
<1>8. CASE ~(Len(txData) < EpSize)
  <2>1. partial' = partial \o First /\ got' = got
    BY <1>3, <1>6, <1>8
  <2>2. partial \o txData = (partial \o First) \o Rest
    <3>1. partial \in Seq(Bytes) /\ First \in Seq(Bytes) /\ Rest \in Seq(Bytes)
      BY Slices DEF TypeOK
    <3>2. (partial \o First) \o Rest = partial \o (First \o Rest)
      BY <3>1, ConcatAssociative
    <3> QED
      BY <3>2, Slices
  <2>3. ~Complete'
    BY <1>2, <1>8 DEF Complete
  <2>4. Rest' = Rest
    BY <1>2 DEF Rest
  <2>5. accepted[Len(accepted)] = partial' \o Rest'
    BY <1>4, <2>1, <2>2, <2>4
  <2> QED
    BY <1>1, <1>2, <1>3, <1>4, <2>1, <2>3, <2>5 DEF WholeInv
<1> QED
  BY <1>7, <1>8

LEMMA WholeStep ==
  ASSUME TypeOK, HostInv, WholeInv, [Next]_vars
  PROVE  WholeInv'
<1>1. CASE OutNak \/ OutStall
  BY <1>1
  DEF OutNak, OutStall, OutHalt, WholeInv, Complete, Taken, HostInv, txVars,
      devVars
<1>2. CASE OutError
  BY <1>2 DEF OutError, WholeInv, TypeOK
<1>3. CASE UNCHANGED <<txVars, outVars, devVars, errors>>
  BY <1>3 DEF WholeInv, Complete, Taken, Rest, txVars, outVars, devVars
<1> QED
  BY <1>1, <1>2, <1>3, WholeTransmit, WholePass, WholeDone
  DEF Next, vars, Foreign, HostThread, ProcessReception, Channels, InDone,
      InRetry, InStall

\* Without a bus error every buffer reaches the modem as one transfer of its
\* own, whatever its length is a multiple of, and the machine is free again no
\* earlier than that.
THEOREM BuffersArriveInOrder == Spec => []BuffersInOrder
<1>1. Init => HostInv /\ WholeInv
  <2> SUFFICES ASSUME Init PROVE HostInv /\ WholeInv
    OBVIOUS
  <2> QED
    BY DEF Init, HostInv, WholeInv, Complete, Taken
<1>2. TypeOK /\ WholeInv => BuffersInOrder
  <2> SUFFICES ASSUME TypeOK, WholeInv, errors = 0 PROVE BuffersInOrder
    BY DEF BuffersInOrder
  <2>1. Len(got) \in Nat /\ Len(accepted) \in Nat /\ Len(got) <= Len(accepted)
    BY DEF TypeOK, WholeInv
  <2>2. \A n \in 1 .. Len(got) : n <= Len(accepted) /\ got[n] = accepted[n]
    BY <2>1 DEF WholeInv
  <2> QED
    BY <2>2 DEF WholeInv, Complete, BuffersInOrder
<1> QED
  BY <1>1, <1>2, HostStep, WholeStep, TypeCorrect, PTL DEF Spec

-----------------------------------------------------------------------------
(* No byte lost.  With bus errors a packet may be taken twice, so buffers do  *)
(* not stay whole; but a byte is always with the driver or with the modem.    *)

Has(s, b)  == \E j \in 1 .. Len(s) : s[j] = b
Arrived(b) == \E m \in 1 .. Len(got) : Has(got[m], b)
Held(b)    == Has(partial, b)
Left(b)    == Has(txData, b)
Newest     == accepted[Len(accepted)]

\* The modem may be a packet ahead of the driver (the PIDs differ) only with
\* the packet the driver still works at, whose bytes it then has.
BytesInv ==
  /\ txState = "IDLE" \/ Taken => devToggle = toggle
  /\ \A n \in 1 .. Len(accepted) : \A b \in Bytes :
       Has(accepted[n], b) =>
         \/ Arrived(b)
         \/ n = Len(accepted) /\ txState # "IDLE" /\ (Held(b) \/ Left(b))
  /\ Taken \/ devToggle # toggle =>
       \A b \in Bytes :
         /\ Has(First, b) => Arrived(b) \/ Held(b)
         /\ Len(txData) < EpSize /\ Has(Newest, b) => Arrived(b)

\* A byte of a packet, or of what is left behind it, is one of the whole.
LEMMA InConcat ==
  ASSUME NEW s \in Seq(Bytes), NEW t \in Seq(Bytes), NEW b
  PROVE  Has(s \o t, b) <=> Has(s, b) \/ Has(t, b)
<1>1. /\ Len(s \o t) = Len(s) + Len(t) /\ Len(s) \in Nat /\ Len(t) \in Nat
      /\ \A i \in 1 .. Len(s) + Len(t) :
           (s \o t)[i] = IF i <= Len(s) THEN s[i] ELSE t[i - Len(s)]
  BY ConcatProperties
<1>2. ASSUME NEW j \in 1 .. Len(s \o t), (s \o t)[j] = b
      PROVE  Has(s, b) \/ Has(t, b)
  <2>1. CASE j <= Len(s)
    BY <1>1, <1>2, <2>1 DEF Has
  <2>2. CASE j > Len(s)
    <3>1. j - Len(s) \in 1 .. Len(t) /\ (s \o t)[j] = t[j - Len(s)]
      BY <1>1, <2>2
    <3> QED
      BY <1>2, <3>1 DEF Has
  <2> QED
    BY <1>1, <2>1, <2>2
<1>3. ASSUME NEW j \in 1 .. Len(s), s[j] = b
      PROVE  Has(s \o t, b)
  <2>1. j \in 1 .. Len(s \o t) /\ (s \o t)[j] = s[j]
    BY <1>1
  <2> QED
    BY <1>3, <2>1 DEF Has
<1>4. ASSUME NEW j \in 1 .. Len(t), t[j] = b
      PROVE  Has(s \o t, b)
  <2>1. /\ j + Len(s) \in 1 .. Len(s \o t) /\ ~(j + Len(s) <= Len(s))
        /\ (j + Len(s)) - Len(s) = j
    BY <1>1
  <2>2. (s \o t)[j + Len(s)] = t[j]
    BY <1>1, <2>1
  <2> QED
    BY <1>4, <2>1, <2>2 DEF Has
<1> QED
  BY <1>2, <1>3, <1>4 DEF Has

\* What a transmission divides into a packet and a rest, it keeps.
LEMMA LeftDivides ==
  ASSUME TypeOK, NEW b
  PROVE  Left(b) <=> Has(First, b) \/ Has(Rest, b)
<1>1. First \in Seq(Bytes) /\ Rest \in Seq(Bytes) /\ First \o Rest = txData
  BY Slices
<1>2. Has(First \o Rest, b) <=> Has(First, b) \/ Has(Rest, b)
  BY <1>1, InConcat
<1> QED
  BY <1>1, <1>2 DEF Left

\* The modem keeps what it has; a packet it takes is with it, and a short one
\* ends the transfer with all it was holding.
LEMMA ModemKeeps ==
  ASSUME TypeOK, ModemTakes, NEW b
  PROVE  /\ Arrived(b) => Arrived(b)'
         /\ Held(b) => Held(b)' \/ Arrived(b)'
         /\ outPkt.pid = devToggle =>
              /\ Has(outPkt.data, b) => Held(b)' \/ Arrived(b)'
              /\ Len(outPkt.data) < EpSize =>
                   (Held(b) \/ Has(outPkt.data, b) => Arrived(b)')
<1> DEFINE whole == partial \o outPkt.data
<1>1. /\ partial \in Seq(Bytes) /\ outPkt.data \in Seq(Bytes)
      /\ whole \in Seq(Bytes) /\ got \in Seq(Seq(Bytes))
  BY DEF TypeOK
<1>2. Has(whole, b) <=> Held(b) \/ Has(outPkt.data, b)
  BY <1>1, InConcat DEF Held
<1>3. CASE outPkt.pid # devToggle
  BY <1>3 DEF ModemTakes, devVars, Arrived, Held
<1>4. CASE outPkt.pid = devToggle /\ Len(outPkt.data) < EpSize
  <2>1. got' = Append(got, whole)
    BY <1>4 DEF ModemTakes
  <2>2. /\ Len(got') = Len(got) + 1 /\ Len(got) \in Nat
        /\ got'[Len(got) + 1] = whole
        /\ \A m \in 1 .. Len(got) : got'[m] = got[m]
    BY <1>1, <2>1, AppendProperties
  <2>3. Arrived(b) => Arrived(b)'
    BY <2>2 DEF Arrived
  <2>4. Has(whole, b) => Arrived(b)'
    <3> HIDE DEF whole
    <3> QED
      BY <2>2 DEF Arrived
  <2> QED
    BY <1>2, <2>3, <2>4
<1>5. CASE outPkt.pid = devToggle /\ ~(Len(outPkt.data) < EpSize)
  <2>1. partial' = whole /\ got' = got
    BY <1>5 DEF ModemTakes
  <2>2. (Held(b)' <=> Has(whole, b)) /\ (Arrived(b)' <=> Arrived(b))
    BY <2>1 DEF Held, Arrived
  <2> QED
    BY <1>2, <1>5, <2>2
<1> QED
  BY <1>3, <1>4, <1>5

LEMMA BytesTransmit ==
  ASSUME TypeOK, HostInv, BytesInv, NEW l \in Lengths, Transmit(l)
  PROVE  BytesInv'
<1>1. /\ txState = "IDLE" /\ txState' = "SEND_DATA"
      /\ accepted' = Append(accepted, txData')
      /\ UNCHANGED <<urbOut, outOn, toggle, devToggle, partial, got>>
  BY DEF Transmit, outVars, devVars
<1>2. txData' \in Seq(Bytes)
  <2>1. Len(accepted) + 1 \in Nat \ {0} /\ l \in Nat
    BY Constants DEF TypeOK
  <2> QED
    BY <2>1, BufferType DEF Transmit
<1>3. /\ Len(accepted') = Len(accepted) + 1
      /\ accepted'[Len(accepted) + 1] = txData'
      /\ \A n \in 1 .. Len(accepted) : accepted'[n] = accepted[n]
      /\ Len(accepted) \in Nat
  <2>1. accepted \in Seq(Seq(Bytes))
    BY DEF TypeOK
  <2> QED
    BY <1>1, <1>2, <2>1, AppendProperties
<1>4. ~Taken' /\ devToggle' = toggle'
  BY <1>1 DEF Taken, BytesInv
<1>5. ASSUME NEW n \in 1 .. Len(accepted'), NEW b \in Bytes,
             Has(accepted'[n], b)
      PROVE  Arrived(b)' \/ (n = Len(accepted') /\ Left(b)')
  <2>1. CASE n = Len(accepted')
    <3>1. accepted'[n] = txData'
      BY <1>3, <2>1
    <3> QED
      BY <1>5, <2>1, <3>1 DEF Left
  <2>2. CASE n # Len(accepted')
    <3>1. n \in 1 .. Len(accepted) /\ accepted'[n] = accepted[n]
      BY <1>3, <2>2
    <3>2. Arrived(b)
      BY <1>1, <1>5, <3>1 DEF BytesInv
    <3> QED
      BY <1>1, <3>2 DEF Arrived
  <2> QED
    BY <2>1, <2>2
<1>6. txState' # "IDLE"
  BY <1>1
<1> QED
  BY <1>4, <1>5, <1>6 DEF BytesInv

LEMMA BytesPass ==
  ASSUME TypeOK, HostInv, BytesInv, ProcessTransmission
  PROVE  BytesInv'
<1>1. UNCHANGED <<accepted, devToggle, partial, got>>
  BY DEF ProcessTransmission, devVars
<1>2. \A b : (Arrived(b)' <=> Arrived(b)) /\ (Held(b)' <=> Held(b))
  BY <1>1 DEF Arrived, Held
<1>3. CASE SendData \/ SendAgain \/ NothingToSend
  <2>1. UNCHANGED <<txData, toggle>> /\ (txState' = "IDLE" <=> txState = "IDLE")
    BY <1>3 DEF SendData, SendAgain, NothingToSend, outVars
  <2>2. ~Taken'
    BY <1>3 DEF SendData, SendAgain, NothingToSend, Taken, outVars
  <2>3. First' = First /\ Newest' = Newest /\ \A b : Left(b)' <=> Left(b)
    BY <1>1, <2>1 DEF First, Newest, Left
  <2> QED
    BY <1>1, <1>2, <2>1, <2>2, <2>3 DEF BytesInv
<1>4. CASE Sent
  <2>1. /\ Taken /\ ~Taken' /\ toggle' = toggle /\ txData' = Rest
        /\ txState' = IF Rest # <<>> \/ txZero THEN "SEND_DATA" ELSE "IDLE"
    BY <1>4 DEF Sent, Taken, HostInv, outVars
  <2>2. devToggle' = toggle'
    BY <1>1, <2>1 DEF BytesInv
  <2>3. ASSUME NEW b \in Bytes, Left(b) PROVE Arrived(b) \/ Held(b) \/ Left(b)'
    <3>1. Left(b)' <=> Has(Rest, b)
      BY <2>1 DEF Left
    <3>2. Has(First, b) => Arrived(b) \/ Held(b)
      BY <2>1 DEF BytesInv
    <3> QED
      BY <2>3, <3>1, <3>2, LeftDivides
  <2>4. ASSUME txState' = "IDLE", NEW b \in Bytes, Has(Newest, b)
        PROVE  Arrived(b)
    <3>1. Len(txData) < EpSize
      BY <2>1, <2>4, LastPacket
    <3> QED
      BY <2>1, <2>4, <3>1 DEF BytesInv
  <2>5. ASSUME NEW n \in 1 .. Len(accepted), NEW b \in Bytes,
               Has(accepted[n], b)
        PROVE  \/ Arrived(b)
               \/ n = Len(accepted) /\ txState' # "IDLE" /\ (Held(b) \/ Left(b)')
    <3>1. Arrived(b) \/ (n = Len(accepted) /\ (Held(b) \/ Left(b)))
      BY <2>5 DEF BytesInv
    <3>2. n = Len(accepted) => Has(Newest, b)
      BY <2>5 DEF Newest
    <3> QED
      BY <2>3, <2>4, <3>1, <3>2
  <2> QED
    BY <1>1, <1>2, <2>1, <2>2, <2>5 DEF BytesInv
<1> QED
  BY <1>3, <1>4 DEF ProcessTransmission

\* The modem looks at the packet, with or without the driver learning of it.
LEMMA BytesTaken ==
  ASSUME TypeOK, HostInv, BytesInv, outOn, ModemTakes,
         UNCHANGED <<txState, txData, accepted>>,
         devToggle' = toggle' \/ (toggle' = toggle /\ ~Taken')
  PROVE  BytesInv'
<1>1. /\ txState # "IDLE" /\ ~Taken
      /\ outPkt.data = First /\ outPkt.pid = toggle
      /\ First' = First /\ Newest' = Newest
  BY DEF HostInv, Taken, First, Newest
<1>2. \A b : Left(b)' <=> Left(b)
  BY DEF Left
<1>3. ASSUME NEW n \in 1 .. Len(accepted), NEW b \in Bytes, Has(accepted[n], b)
      PROVE  \/ Arrived(b)'
             \/ n = Len(accepted) /\ txState # "IDLE" /\ (Held(b)' \/ Left(b)')
  <2>1. \/ Arrived(b)
        \/ n = Len(accepted) /\ txState # "IDLE" /\ (Held(b) \/ Left(b))
    BY <1>3 DEF BytesInv
  <2>2. (Arrived(b) => Arrived(b)') /\ (Held(b) => Held(b)' \/ Arrived(b)')
    BY ModemKeeps
  <2> QED
    BY <1>2, <2>1, <2>2
\* The packet is with the modem now: it takes it, or has it already.
<1>4. ASSUME NEW b \in Bytes, Has(First, b) PROVE Arrived(b)' \/ Held(b)'
  <2>1. CASE devToggle = toggle
    BY <1>1, <1>4, <2>1, ModemKeeps
  <2>2. CASE devToggle # toggle
    <3>1. Arrived(b) \/ Held(b)
      BY <1>4, <2>2 DEF BytesInv
    <3> QED
      BY <3>1, ModemKeeps
  <2> QED
    BY <2>1, <2>2
<1>5. ASSUME Len(txData) < EpSize, NEW b \in Bytes, Has(Newest, b)
      PROVE  Arrived(b)'
  <2>1. CASE devToggle # toggle
    <3>1. Arrived(b)
      BY <1>5, <2>1 DEF BytesInv
    <3> QED
      BY <3>1, ModemKeeps
  <2>2. CASE devToggle = toggle
    <3>1. First = txData
      BY <1>5, Slices, Constants DEF TypeOK
    <3>2. Len(accepted) \in 1 .. Len(accepted)
      BY <1>1, EmptySeq DEF HostInv, TypeOK
    <3>3. Arrived(b) \/ Held(b) \/ Left(b)
      BY <1>5, <3>2 DEF BytesInv, Newest
    <3>4. Left(b) => Has(outPkt.data, b)
      BY <1>1, <3>1 DEF Left
    <3>5. outPkt.pid = devToggle /\ Len(outPkt.data) < EpSize
      BY <1>1, <1>5, <2>2, <3>1
    <3> QED
      BY <3>3, <3>4, <3>5, ModemKeeps
  <2> QED
    BY <2>1, <2>2
<1> QED
  BY <1>1, <1>3, <1>4, <1>5 DEF BytesInv

\* Neither the modem nor the transmission moves.
LEMMA BytesKept ==
  ASSUME BytesInv, UNCHANGED <<txVars, devVars, toggle>>, Taken' => Taken
  PROVE  BytesInv'
<1>1. UNCHANGED <<txState, txData, accepted, devToggle, partial, got, toggle>>
  BY DEF txVars, devVars
<1>2. First' = First /\ Newest' = Newest
  BY <1>1 DEF First, Newest
<1>3. \A b : /\ Arrived(b)' <=> Arrived(b)
             /\ Held(b)' <=> Held(b)
             /\ Left(b)' <=> Left(b)
  BY <1>1 DEF Arrived, Held, Left
<1> QED
  BY <1>1, <1>2, <1>3 DEF BytesInv

LEMMA BytesStep ==
  ASSUME TypeOK, HostInv, BytesInv, [Next]_vars
  PROVE  BytesInv'
<1>1. CASE OutDone
  <2>1. outPkt.pid = toggle /\ toggle \in {0, 1} /\ devToggle \in {0, 1}
    BY <1>1 DEF OutDone, HostInv, TypeOK
  <2>2. toggle' = 1 - toggle
    BY <1>1 DEF OutDone
  <2>3. devToggle' = IF toggle = devToggle THEN 1 - devToggle ELSE devToggle
    BY <1>1, <2>1 DEF OutDone, ModemTakes, devVars
  <2>4. devToggle' = toggle'
    BY <2>1, <2>2, <2>3
  <2> QED
    BY <1>1, <2>4, BytesTaken DEF OutDone, txVars
<1>2. CASE OutError /\ ModemTakes
  BY <1>2, BytesTaken DEF OutError, txVars, Taken
<1>3. CASE OutNak \/ OutStall \/ (OutError /\ UNCHANGED devVars)
  <2>1. ~Taken /\ ~Taken' /\ UNCHANGED <<txVars, devVars, toggle>>
    BY <1>3 DEF OutNak, OutStall, OutHalt, OutError, Taken, HostInv
  <2> QED
    BY <2>1, BytesKept
<1>4. CASE UNCHANGED <<txVars, outVars, devVars>>
  <2>1. Taken' = Taken
    BY <1>4 DEF Taken, txVars, outVars
  <2> QED
    BY <1>4, <2>1, BytesKept DEF outVars
<1> QED
  BY <1>1, <1>2, <1>3, <1>4, BytesTransmit, BytesPass
  DEF Next, vars, Foreign, HostThread, ProcessReception, Channels, OutError,
      InDone, InRetry, InStall

\* Bus errors may repeat bytes, but once the machine is free, every byte it was
\* given has arrived at the modem.
THEOREM NoByteIsLost == Spec => []NoByteLost
<1>1. Init => HostInv /\ BytesInv
  <2> SUFFICES ASSUME Init PROVE HostInv /\ BytesInv
    OBVIOUS
  <2> QED
    BY DEF Init, HostInv, BytesInv, Taken, First, Has
<1>2. TypeOK /\ BytesInv => NoByteLost
  <2> SUFFICES ASSUME TypeOK, BytesInv, txState = "IDLE",
                      NEW n \in 1 .. Len(accepted),
                      NEW i \in 1 .. Len(accepted[n]),
                      NEW b, b = accepted[n][i]
               PROVE  \E m \in 1 .. Len(got) : \E j \in 1 .. Len(got[m]) :
                        got[m][j] = b
    BY DEF NoByteLost
  <2>1. Has(accepted[n], b)
    BY DEF Has
  <2>2. b \in Bytes
    <3>1. accepted[n] \in Seq(Bytes)
      BY DEF TypeOK
    <3> QED
      BY <3>1
  <2>3. Arrived(b)
    BY <2>1, <2>2 DEF BytesInv
  <2> QED
    BY <2>3 DEF Arrived, Has
<1> QED
  BY <1>1, <1>2, HostStep, BytesStep, TypeCorrect, PTL DEF Spec

=============================================================================
