-------------------------- MODULE UsbhPipes_proofs --------------------------
(***************************************************************************)
(* Theorems about UsbhPipes for every size of the two tables and every set *)
(* of ports.                                                               *)
(*   TypeCorrect        []TypeOK, inductive by itself                      *)
(*   AddressesUnique    []UniqueAddresses, inductive with TypeOK           *)
(*   CleanRestart       []CleanAtIdle, which needs to know where the       *)
(*                      thread can stand while a child exists (Phasing)    *)
(*   PipesExclusive     []ExclusivePipes, which needs what each place of   *)
(*                      the thread says of the handle it works on          *)
(*                      (OwnerInv)                                         *)
(*   OrphansStay, OrphansOfChildren                                        *)
(*                      OrphanAddressesStay and OrphansFromChildrenOnly: a *)
(*                      mark loses its handle only when a child is dropped *)
(*                      before its class was up (AddressInv)               *)
(***************************************************************************)
EXTENDS UsbhPipes, TLAPS

LEMMA Constants ==
  /\ NumPipes \in Nat \ {0} /\ NoPipe \notin Pipes
  /\ Root \in Hosts /\ \A c \in Children : c \in Hosts /\ c # Root
  /\ Zeroed \in PipePair
BY SizeAssumption, RootAssumption DEF Hosts, Pipes, PipeNos, NoPipe, Zeroed, PipePair

-----------------------------------------------------------------------------
(* Type correctness. *)

\* An allocation keeps the table of channels a table of Booleans.
LEMMA AllocType ==
  ASSUME TypeOK, NEW p, AllocPipe(p)
  PROVE  inUse' \in [Pipes -> BOOLEAN]
BY DEF TypeOK, AllocPipe

LEMMA FreeType ==
  ASSUME TypeOK, NEW S
  PROVE  FreePipes(S) \in [Pipes -> BOOLEAN]
BY DEF TypeOK, FreePipes

\* Recording a pipe number in a handle keeps its pair a pair of numbers.
LEMMA RecordType ==
  ASSUME NEW f \in [Hosts -> PipePair], NEW h \in Hosts, NEW p \in PipeNos
  PROVE  /\ [f EXCEPT ![h].out = p] \in [Hosts -> PipePair]
         /\ [f EXCEPT ![h].in = p] \in [Hosts -> PipePair]
<1>1. f[h] \in PipePair
  OBVIOUS
<1>2. [f[h] EXCEPT !.out = p] \in PipePair /\ [f[h] EXCEPT !.in = p] \in PipePair
  BY <1>1 DEF PipePair
<1> QED
  BY <1>2

\* Clearing entries of the address table, and giving up an address, too.
LEMMA ClearType ==
  ASSUME TypeOK, NEW h \in Hosts
  PROVE  /\ [addr EXCEPT ![h] = 0] \in [Hosts -> 0 .. NumAddrs]
         /\ [ctl EXCEPT ![h] = Zeroed] \in [Hosts -> PipePair]
         /\ [cls EXCEPT ![h] = Zeroed] \in [Hosts -> PipePair]
BY Constants, SizeAssumption DEF TypeOK

\* Taking an address keeps both address tables well formed.
LEMMA AddressType ==
  ASSUME TypeOK, NEW h \in Hosts, NEW a, GetOneAddress(h, a)
  PROVE  taken' \in [Addrs -> BOOLEAN] /\ addr' \in [Hosts -> 0 .. NumAddrs]
BY SizeAssumption DEF TypeOK, GetOneAddress, Addrs

\* The tables, the handles and the thread always hold values of their types;
\* in particular no address beyond USBH_MAX_NUM_DEVICE is ever given out.
THEOREM TypeCorrect == Spec => []TypeOK
<1>1. Init => TypeOK
  <2> SUFFICES ASSUME Init PROVE TypeOK
    OBVIOUS
  <2>1. 0 \in 0 .. NumAddrs
    BY SizeAssumption
  <2> QED
    BY <2>1, Constants DEF Init, TypeOK, GStates, Phases, PCs
<1>2. TypeOK /\ [Next]_vars => TypeOK'
  <2> SUFFICES ASSUME TypeOK, [Next]_vars PROVE TypeOK'
    OBVIOUS
  <2> USE DEF TypeOK
  <2>1. CASE Plug
    BY <2>1 DEF Plug
  <2>2. CASE DisconnectISR
    BY <2>2, FreeType DEF DisconnectISR, GStates
  <2>3. CASE Attach
    BY <2>3 DEF Attach, GStates
  <2>4. CASE AttachedBegin
    BY <2>4 DEF AttachedBegin, PCs
  <2>5. CASE AttachedState
    BY <2>5 DEF AttachedState, PCs, GStates
  <2>6. CASE AttachedOut
    <3>1. PICK p \in PipeNos : AllocPipe(p) /\ ctl' = [ctl EXCEPT ![Root].out = p]
      BY <2>6 DEF AttachedOut
    <3>2. inUse' \in [Pipes -> BOOLEAN]
      BY <3>1, AllocType
    <3>3. ctl' \in [Hosts -> PipePair]
      BY <3>1, RecordType, Constants
    <3> QED
      BY <2>6, <3>2, <3>3, Constants DEF AttachedOut, PCs
  <2>7. CASE AttachedIn
    <3>1. PICK p \in PipeNos : AllocPipe(p) /\ ctl' = [ctl EXCEPT ![Root].in = p]
      BY <2>7 DEF AttachedIn
    <3>2. inUse' \in [Pipes -> BOOLEAN]
      BY <3>1, AllocType
    <3>3. ctl' \in [Hosts -> PipePair]
      BY <3>1, RecordType, Constants
    <3> QED
      BY <2>7, <3>2, <3>3, Constants DEF AttachedIn, PCs
  <2>8. CASE RootSetAddr
    BY <2>8, AddressType, Constants DEF RootSetAddr
  <2>9. CASE ReEnumStop
    BY <2>9, FreeType DEF ReEnumStop, PCs
  <2>10. CASE ReEnumRestart
    BY <2>10, ClearType, Constants DEF ReEnumRestart, DeInitStateMachine, PCs, GStates, Addrs
  <2>11. CASE Configure
    BY <2>11 DEF Configure, PCs
  <2>12. CASE Configured
    BY <2>12 DEF Configured, PCs, GStates
  <2>13. CASE CheckClass
    BY <2>13, Constants DEF CheckClass, PCs
  <2>14. CASE InitOut
    <3>1. CASE rootCls = "hub" /\ UNCHANGED <<inUse, cls>>
      BY <2>14, <3>1 DEF InitOut, PCs
    <3>2. CASE \E p \in PipeNos : AllocPipe(p) /\ cls' = [cls EXCEPT ![Root].out = p]
      <4>1. PICK p \in PipeNos : AllocPipe(p) /\ cls' = [cls EXCEPT ![Root].out = p]
        BY <3>2
      <4>2. inUse' \in [Pipes -> BOOLEAN] /\ cls' \in [Hosts -> PipePair]
        BY <4>1, AllocType, RecordType, Constants
      <4> QED
        BY <2>14, <4>2 DEF InitOut, PCs
    <3> QED
      BY <2>14, <3>1, <3>2 DEF InitOut
  <2>15. CASE InitIn
    <3>1. PICK p \in PipeNos : AllocPipe(p) /\ cls' = [cls EXCEPT ![Root].in = p]
      BY <2>15 DEF InitIn
    <3>2. inUse' \in [Pipes -> BOOLEAN]
      BY <3>1, AllocType
    <3>3. cls' \in [Hosts -> PipePair]
      BY <3>1, RecordType, Constants
    <3> QED
      BY <2>15, <3>2, <3>3, Constants DEF InitIn, PCs
  <2>16. CASE InitEnd
    BY <2>16 DEF InitEnd, PCs, GStates
  <2>17. CASE HubBegin
    BY <2>17 DEF HubBegin, PCs
  <2>18. CASE HubEnd
    BY <2>18 DEF HubEnd, PCs
  <2>19. ASSUME NEW c \in Children, NewChildOut(c) PROVE TypeOK'
    BY <2>19, AllocType, Constants, SizeAssumption
    DEF NewChildOut, PCs, PipePair, PipeNos, Pipes, Phases
  <2>20. ASSUME NEW c \in Children, ChildSetAddr(c) PROVE TypeOK'
    BY <2>20, AddressType, Constants DEF ChildSetAddr
  <2>21. ASSUME NEW c \in Children, ChildInitOut(c) PROVE TypeOK'
    <3>1. PICK p \in PipeNos : AllocPipe(p) /\ cls' = [cls EXCEPT ![c].out = p]
      BY <2>21 DEF ChildInitOut
    <3>2. inUse' \in [Pipes -> BOOLEAN]
      BY <3>1, AllocType
    <3>3. cls' \in [Hosts -> PipePair]
      BY <3>1, RecordType, Constants
    <3> QED
      BY <2>21, <3>2, <3>3, Constants DEF ChildInitOut, PCs
  <2>22. ASSUME NEW c \in Children, ChildAbort(c) PROVE TypeOK'
    BY <2>22 DEF ChildAbort, Phases
  <2>23. ASSUME NEW c \in Children, ChildGone(c) PROVE TypeOK'
    BY <2>23, FreeType, ClearType, Constants DEF ChildGone, Forget, Phases, Addrs
  <2>24. CASE NewChildIn
    <3>1. PICK p \in PipeNos : AllocPipe(p) /\ ctl' = [ctl EXCEPT ![who].in = p]
      BY <2>24 DEF NewChildIn
    <3>2. inUse' \in [Pipes -> BOOLEAN]
      BY <3>1, AllocType
    <3>3. ctl' \in [Hosts -> PipePair]
      BY <3>1, RecordType, Constants
    <3> QED
      BY <2>24, <3>2, <3>3, Constants DEF NewChildIn, PCs
  <2>25. CASE ChildInitIn
    <3>1. PICK p \in PipeNos : AllocPipe(p) /\ cls' = [cls EXCEPT ![who].in = p]
      BY <2>25 DEF ChildInitIn
    <3>2. inUse' \in [Pipes -> BOOLEAN]
      BY <3>1, AllocType
    <3>3. cls' \in [Hosts -> PipePair]
      BY <3>1, RecordType, Constants
    <3> QED
      BY <2>25, <3>2, <3>3, Constants DEF ChildInitIn, PCs, Phases
  <2>26. CASE LinkChild
    BY <2>26, Constants DEF LinkChild, PCs
  <2>27. CASE ChildFailed
    BY <2>27, ClearType, Constants DEF ChildFailed, Forget, PCs, Phases
  <2>28. CASE HandleDisconnect
    <3>1. 0 \in 0 .. NumAddrs
      BY SizeAssumption
    <3>2. ctl' \in [Hosts -> PipePair]
      BY <2>28, Constants DEF HandleDisconnect
    <3> QED
      BY <2>28, <3>1, <3>2, Constants
      DEF HandleDisconnect, DeInitStateMachine, GStates, Phases
  <2>29. CASE DisconnectCrash
    BY <2>29 DEF DisconnectCrash, PCs
  <2>30. CASE UNCHANGED vars
    BY <2>30 DEF vars
  <2> QED
    BY <2>1, <2>2, <2>3, <2>4, <2>5, <2>6, <2>7, <2>8, <2>9, <2>10, <2>11,
       <2>12, <2>13, <2>14, <2>15, <2>16, <2>17, <2>18, <2>19, <2>20, <2>21,
       <2>22, <2>23, <2>24, <2>25, <2>26, <2>27, <2>28, <2>29, <2>30 DEF Next
<1> QED
  BY <1>1, <1>2, PTL DEF Spec

-----------------------------------------------------------------------------
(* Addresses. *)

\* Taking the lowest free address keeps the addresses of the handles apart:
\* it was free, and a live address is marked.
LEMMA AddressStep ==
  ASSUME TypeOK, UniqueAddresses, NEW h \in Hosts, NEW a \in Addrs,
         GetOneAddress(h, a)
  PROVE  UniqueAddresses'
<1>1. ~taken[a] /\ a # 0 /\ a \in Addrs
  BY SizeAssumption DEF GetOneAddress, Addrs
<1>2. \A k \in Hosts : addr[k] # a
  BY <1>1 DEF UniqueAddresses
<1>3. \A k \in Hosts : addr'[k] = IF k = h THEN a ELSE addr[k]
  BY DEF GetOneAddress, TypeOK
<1>4. \A b \in Addrs : taken'[b] <=> taken[b] \/ b = a
  BY DEF GetOneAddress, TypeOK
<1>5. \A k \in Hosts : addr[k] # 0 => addr[k] \in Addrs
  BY SizeAssumption DEF TypeOK, Addrs
<1> QED
  BY <1>1, <1>2, <1>3, <1>4, <1>5 DEF UniqueAddresses

\* Giving up addresses is safe when every mark that is cleared belongs to a
\* handle that is given up.
LEMMA ForgetStep ==
  ASSUME TypeOK, UniqueAddresses,
         \A k \in Hosts : addr'[k] = addr[k] \/ addr'[k] = 0,
         \A k \in Hosts : addr'[k] # 0 => (taken[addr[k]] => taken'[addr[k]])
  PROVE  UniqueAddresses'
BY DEF UniqueAddresses

\* No two live devices answer to one address, whatever the disconnect
\* interrupt interrupts, and the address of a live device stays marked.
THEOREM AddressesUnique == Spec => []UniqueAddresses
<1>1. Init => UniqueAddresses
  BY Constants DEF Init, UniqueAddresses
<1>2. TypeOK /\ UniqueAddresses /\ [Next]_vars => UniqueAddresses'
  <2> SUFFICES ASSUME TypeOK, UniqueAddresses, [Next]_vars PROVE UniqueAddresses'
    OBVIOUS
  <2>1. CASE UNCHANGED <<addr, taken>>
    BY <2>1 DEF UniqueAddresses
  <2>2. CASE RootSetAddr
    BY <2>2, AddressStep, Constants DEF RootSetAddr
  <2>3. ASSUME NEW c \in Children, ChildSetAddr(c) PROVE UniqueAddresses'
    BY <2>3, AddressStep, Constants DEF ChildSetAddr
  <2>4. CASE ReEnumRestart
    <3>1. \A k \in Hosts : addr'[k] = IF k = Root THEN 0 ELSE addr[k]
      BY <2>4, Constants DEF ReEnumRestart, TypeOK
    <3>2. \A k \in Hosts : addr[k] # 0 => addr[k] \in Addrs
      BY SizeAssumption DEF TypeOK, Addrs
    <3>3. \A a \in Addrs : taken'[a] = (taken[a] /\ a # addr[Root])
      BY <2>4 DEF ReEnumRestart
    <3>4. \A k \in Hosts : addr'[k] # 0 => addr[k] # addr[Root]
      BY <3>1, Constants DEF UniqueAddresses
    <3> QED
      BY <3>1, <3>2, <3>3, <3>4, ForgetStep
  <2>5. CASE ChildFailed
    <3>1. \A k \in Hosts : addr'[k] = IF k = who THEN 0 ELSE addr[k]
      BY <2>5 DEF ChildFailed, Forget, TypeOK
    <3> QED
      BY <2>5, <3>1, ForgetStep DEF ChildFailed
  <2>6. ASSUME NEW c \in Children, ChildGone(c) PROVE UniqueAddresses'
    <3>1. \A k \in Hosts : addr'[k] = IF k = c THEN 0 ELSE addr[k]
      BY <2>6, Constants DEF ChildGone, Forget, TypeOK
    <3>2. \A k \in Hosts : addr[k] # 0 => addr[k] \in Addrs
      BY SizeAssumption DEF TypeOK, Addrs
    <3>3. \A a \in Addrs : a # addr[c] => taken'[a] = taken[a]
      BY <2>6 DEF ChildGone, TypeOK
    <3>4. \A k \in Hosts : addr'[k] # 0 => addr[k] # addr[c]
      BY <3>1, Constants DEF UniqueAddresses
    <3> QED
      BY <3>1, <3>2, <3>3, <3>4, ForgetStep
  <2>7. CASE HandleDisconnect
    <3>1. \A k \in Hosts : addr'[k] = 0
      BY <2>7 DEF HandleDisconnect
    <3> QED
      BY <3>1, ForgetStep
  <2> QED
    BY <2>1, <2>2, <2>3, <2>4, <2>5, <2>6, <2>7
    DEF Next, vars, Plug, DisconnectISR, Attach, AttachedBegin, AttachedState,
        AttachedOut, AttachedIn, ReEnumStop, Configure, Configured, CheckClass,
        InitOut, InitIn, InitEnd, HubBegin, HubEnd, NewChildOut, ChildInitOut,
        ChildAbort, NewChildIn, ChildInitIn, LinkChild, DisconnectCrash
<1>3. Spec => []TypeOK
  BY TypeCorrect
<1> QED
  BY <1>1, <1>2, <1>3, PTL DEF Spec

-----------------------------------------------------------------------------
(* A clean restart. *)

\* Where no child handle can exist: before the root's class is up, and while
\* the thread is in a pass of that part.
EarlyStates == {"IDLE", "ATTACHED", "ENUMERATION", "CHECK_CLASS"}
EarlyPCs == {"attach", "attachOut", "attachIn", "reenum", "cfg", "initOut",
             "initIn", "initEnd", "abort"}
HubPCs == {"hub", "childIn", "child", "childInitIn"}
NoChildren == \A c \in Children : phase[c] = "none" /\ ~linked[c]

Phasing ==
  /\ gState \in EarlyStates \/ pc \in EarlyPCs => NoChildren
  /\ gState = "IDLE" => pc = "wait"
  /\ pc \in HubPCs => gState \notin EarlyStates

LEMMA PhasingStep ==
  ASSUME TypeOK, Phasing, [Next]_vars
  PROVE  Phasing'
<1> USE DEF Phasing, EarlyStates, EarlyPCs, HubPCs
<1>1. CASE UNCHANGED <<phase, linked>>
  <2>1. NoChildren' <=> NoChildren
    BY <1>1 DEF NoChildren
  <2> QED
    BY <1>1, <2>1
    DEF Next, vars, Plug, DisconnectISR, Attach, AttachedBegin, AttachedState,
        AttachedOut, AttachedIn, RootSetAddr, ReEnumStop, ReEnumRestart,
        DeInitStateMachine, Configure, Configured, CheckClass, InitOut, InitIn,
        InitEnd, HubBegin, HubEnd, NewChildIn, ChildRuns, ChildSetAddr,
        ChildInitOut, DisconnectCrash, HandleDisconnect, NoChildren, ChildInitIn,
        ChildAbort, ChildGone, LinkChild, ChildFailed, NewChildOut
<1>2. ASSUME NEW c \in Children, NewChildOut(c) PROVE Phasing'
  BY <1>2 DEF NewChildOut
<1>3. ASSUME NEW c \in Children, ChildAbort(c) PROVE Phasing'
  \* The child runs, so it is live and the thread is not in an early state.
  <2>1. phase[c] = "enum" /\ UNCHANGED <<gState, pc>>
    BY <1>3 DEF ChildAbort, ChildRuns
  <2>2. ~NoChildren
    BY <2>1 DEF NoChildren
  <2> QED
    BY <2>1, <2>2
<1>4. ASSUME NEW c \in Children, ChildGone(c) PROVE Phasing'
  BY <1>4 DEF ChildGone
<1>5. CASE ChildInitIn
  BY <1>5 DEF ChildInitIn
<1>6. CASE LinkChild
  BY <1>6 DEF LinkChild
<1>7. CASE ChildFailed
  BY <1>7 DEF ChildFailed
<1>8. CASE HandleDisconnect
  BY <1>8 DEF HandleDisconnect, DeInitStateMachine, NoChildren
<1> QED
  BY <1>1, <1>2, <1>3, <1>4, <1>5, <1>6, <1>7, <1>8
  DEF Next, vars, Plug, DisconnectISR, Attach, AttachedBegin, AttachedState,
      AttachedOut, AttachedIn, RootSetAddr, ReEnumStop, ReEnumRestart, Configure,
      Configured, CheckClass, InitOut, InitIn, InitEnd, HubBegin, HubEnd,
      ChildSetAddr, ChildInitOut, NewChildIn, DisconnectCrash

\* Whatever failed or was interrupted, a return to HOST_IDLE leaves no channel
\* allocated, no child and no address with the root.
THEOREM CleanRestart == Spec => []CleanAtIdle
<1>1. Init => Phasing /\ CleanAtIdle
  BY Constants DEF Init, Phasing, CleanAtIdle, NoChildren, HubPCs, EarlyPCs
<1>2. TypeOK /\ Phasing /\ CleanAtIdle /\ [Next]_vars => CleanAtIdle'
  <2> SUFFICES ASSUME TypeOK, Phasing, Phasing', CleanAtIdle, [Next]_vars,
                      gState' = "IDLE"
               PROVE  CleanAtIdle'
    BY PhasingStep DEF CleanAtIdle
  <2>1. NoChildren'
    BY DEF Phasing, EarlyStates
  <2>2. CASE ReEnumRestart
    BY <2>1, <2>2, Constants
    DEF ReEnumRestart, DeInitStateMachine, CleanAtIdle, NoChildren, TypeOK
  <2>3. CASE HandleDisconnect
    BY <2>3, Constants DEF HandleDisconnect, DeInitStateMachine, CleanAtIdle, TypeOK
  <2>4. CASE Plug
    BY <2>4 DEF Plug, CleanAtIdle
  <2>5. CASE UNCHANGED vars
    BY <2>5 DEF vars, CleanAtIdle
  \* No other action starts or ends in HOST_IDLE.
  <2>6. ~(Plug \/ ReEnumRestart \/ HandleDisconnect \/ UNCHANGED vars) => FALSE
    <3>1. (NoChildren /\ pc = "wait") \/ gState # "IDLE"
      BY DEF Phasing, EarlyStates
    <3> QED
      BY <3>1
      DEF Next, NoChildren, DisconnectISR, Attach, AttachedBegin, AttachedState,
          AttachedOut, AttachedIn, RootSetAddr, ReEnumStop, Configure,
          Configured, CheckClass, InitOut, InitIn, InitEnd, HubBegin, HubEnd,
          NewChildOut, ChildRuns, ChildSetAddr, ChildInitOut, ChildAbort,
          ChildGone, NewChildIn, ChildInitIn, LinkChild, ChildFailed,
          DisconnectCrash
  <2> QED
    BY <2>2, <2>3, <2>4, <2>5, <2>6
<1>3. TypeOK /\ Phasing /\ [Next]_vars => Phasing'
  BY PhasingStep
<1>4. Spec => []TypeOK
  BY TypeCorrect
<1> QED
  BY <1>1, <1>2, <1>3, <1>4, PTL DEF Spec

-----------------------------------------------------------------------------
(* Channels.  What has to be known besides ExclusivePipes itself: while no  *)
(* interrupt hit a pass, gState is still what the pass began with; a child   *)
(* the thread works on exists and is linked only when it is complete; and a  *)
(* port without a child has no class pipes on record.                        *)

OwnerInv ==
  /\ ~seen =>
       /\ gState # "DISCONNECTED"
       /\ pc = "cfg" => gState = "ENUMERATION"
       /\ pc \in {"initOut", "initIn", "initEnd", "abort"} => gState = "CHECK_CLASS"
  /\ pc \in {"childIn", "child", "childInitIn"} =>
       who \in Children /\ phase[who] # "none"
  /\ pc \in {"childIn", "child"} => ~linked[who]
  /\ \A c \in Children : linked[c] => phase[c] # "none"
  /\ \A c \in Children : phase[c] = "none" => cls[c] = Zeroed

\* The step leaves the slot's number alone, or the slot is not held after it.
Kept(h, part, dir) ==
  Holds(h, part, dir)' =>
    Holds(h, part, dir) /\ Number(h, part, dir)' = Number(h, part, dir)

Exclusive == HeldAreAllocated /\ HeldOnce

\* A fresh channel may be recorded in one slot.
LEMMA AllocExclusive ==
  ASSUME TypeOK, TypeOK', Exclusive, NEW p \in PipeNos, AllocPipe(p),
         NEW h \in Hosts, NEW s \in Parts, NEW d \in Dirs,
         Number(h, s, d)' = p,
         \A k \in Hosts, t \in Parts, e \in Dirs :
           (k = h /\ t = s /\ e = d) \/ Kept(k, t, e)
  PROVE  Exclusive'
<1>1. ASSUME NEW k \in Hosts, NEW t \in Parts, NEW e \in Dirs,
             Holds(k, t, e)'
      PROVE  Number(k, t, e)' \in Pipes
  <2>1. Number(k, t, e)' \in PipeNos
    BY DEF TypeOK, PipePair, Number
  <2> QED
    BY <1>1, <2>1 DEF Holds, PipeNos
<1>2. ASSUME NEW k \in Hosts, NEW t \in Parts, NEW e \in Dirs,
             Holds(k, t, e)', ~(k = h /\ t = s /\ e = d)
      PROVE  /\ Holds(k, t, e) /\ Number(k, t, e)' = Number(k, t, e)
             /\ inUse[Number(k, t, e)]
  BY <1>2 DEF Kept, Exclusive, HeldAreAllocated
<1>3. \A q \in Pipes : inUse'[q] = (inUse[q] \/ q = p)
  BY DEF AllocPipe
<1>4. p \in Pipes => ~inUse[p]
  BY Constants DEF AllocPipe, GetFreePipe
<1>5. HeldAreAllocated'
  <2> SUFFICES ASSUME NEW k \in Hosts, NEW t \in Parts, NEW e \in Dirs,
                      Holds(k, t, e)'
               PROVE  inUse'[Number(k, t, e)']
    BY DEF HeldAreAllocated
  <2>1. CASE k = h /\ t = s /\ e = d
    BY <1>1, <1>3, <2>1
  <2>2. CASE ~(k = h /\ t = s /\ e = d)
    BY <1>1, <1>2, <1>3, <2>2
  <2> QED
    BY <2>1, <2>2
<1>6. HeldOnce'
  <2> SUFFICES ASSUME NEW k \in Hosts, NEW l \in Hosts, NEW t \in Parts,
                      NEW u \in Parts, NEW e \in Dirs, NEW f \in Dirs,
                      Holds(k, t, e)', Holds(l, u, f)',
                      Number(k, t, e)' = Number(l, u, f)'
               PROVE  k = l /\ t = u /\ e = f
    BY DEF HeldOnce
  <2>1. CASE k = h /\ t = s /\ e = d
    BY <1>1, <1>2, <1>4, <2>1
  <2>2. CASE l = h /\ u = s /\ f = d
    BY <1>1, <1>2, <1>4, <2>2
  <2>3. CASE ~(k = h /\ t = s /\ e = d) /\ ~(l = h /\ u = s /\ f = d)
    BY <1>2, <2>3 DEF Exclusive, HeldOnce
  <2> QED
    BY <2>1, <2>2, <2>3
<1> QED
  BY <1>5, <1>6 DEF Exclusive

\* Channels may be given back when no slot that stays held records them.
LEMMA FreeExclusive ==
  ASSUME Exclusive,
         \A k \in Hosts, t \in Parts, e \in Dirs : Kept(k, t, e),
         \A k \in Hosts, t \in Parts, e \in Dirs :
           Holds(k, t, e)' /\ inUse[Number(k, t, e)] => inUse'[Number(k, t, e)]
  PROVE  Exclusive'
BY DEF Exclusive, HeldAreAllocated, HeldOnce, Kept

LEMMA OwnerStep ==
  ASSUME TypeOK, Phasing, OwnerInv, [Next]_vars
  PROVE  OwnerInv'
<1> USE DEF OwnerInv
<1>1. CASE UNCHANGED <<linked, phase, cls>> /\ pc' \notin {"childIn", "child", "childInitIn"}
  BY <1>1
  DEF Next, vars, Plug, DisconnectISR, Attach, AttachedBegin, AttachedState,
      AttachedOut, AttachedIn, RootSetAddr, ReEnumStop, ReEnumRestart,
      DeInitStateMachine, Configure, Configured, CheckClass, InitOut, InitIn,
      InitEnd, HubBegin, HubEnd, NewChildIn, ChildRuns, ChildSetAddr,
      ChildInitOut, DisconnectCrash, HandleDisconnect, ChildInitIn,
      ChildAbort, ChildGone, LinkChild, ChildFailed, NewChildOut
<1>2. CASE CheckClass \/ InitOut \/ InitIn
  BY <1>2, RootAssumption, Constants DEF CheckClass, InitOut, InitIn, TypeOK
<1>3. CASE Plug \/ DisconnectISR
  BY <1>3 DEF Plug, DisconnectISR
<1>4. ASSUME NEW c \in Children, NewChildOut(c) PROVE OwnerInv'
  BY <1>4, Constants DEF NewChildOut, TypeOK
<1>5. CASE NewChildIn
  BY <1>5 DEF NewChildIn
<1>6. ASSUME NEW c \in Children, ChildSetAddr(c) PROVE OwnerInv'
  BY <1>6 DEF ChildSetAddr
<1>7. ASSUME NEW c \in Children, ChildInitOut(c) PROVE OwnerInv'
  BY <1>7, Constants DEF ChildInitOut, ChildRuns, TypeOK
<1>8. ASSUME NEW c \in Children, ChildAbort(c) PROVE OwnerInv'
  BY <1>8, Constants DEF ChildAbort, ChildRuns, TypeOK
<1>9. ASSUME NEW c \in Children, ChildGone(c) PROVE OwnerInv'
  BY <1>9, Constants DEF ChildGone, Forget, TypeOK
<1>10. CASE ChildInitIn
  BY <1>10, Constants DEF ChildInitIn, TypeOK
<1>11. CASE LinkChild
  BY <1>11, Constants DEF LinkChild, TypeOK
<1>12. CASE ChildFailed
  BY <1>12, Constants DEF ChildFailed, Forget, TypeOK
<1>13. CASE HandleDisconnect
  BY <1>13, Constants DEF HandleDisconnect, DeInitStateMachine, TypeOK
<1>14. CASE UNCHANGED vars
  BY <1>14 DEF vars
<1> QED
  BY <1>1, <1>2, <1>3, <1>4, <1>5, <1>6, <1>7, <1>8, <1>9, <1>10, <1>11,
     <1>12, <1>13, <1>14
  DEF Next, Attach, AttachedBegin, AttachedState, AttachedOut, AttachedIn,
      RootSetAddr, ReEnumStop, ReEnumRestart, Configure, Configured, InitEnd,
      HubBegin, HubEnd, DisconnectCrash

\* The steps of the thread that allocate: each records its channel in one slot.
LEMMA AllocStep ==
  ASSUME TypeOK, TypeOK', OwnerInv, Exclusive, ~seen,
         \/ AttachedOut \/ AttachedIn \/ InitOut \/ InitIn
         \/ NewChildIn \/ ChildInitIn
         \/ \E c \in Children : NewChildOut(c) \/ ChildInitOut(c)
  PROVE  Exclusive'
<1> USE Constants
    DEF Kept, Holds, RootHolds, ChildHolds, Number, Parts, Dirs, TypeOK, PipePair
<1>1. CASE AttachedOut
  <2>1. PICK p \in PipeNos : AllocPipe(p) /\ ctl' = [ctl EXCEPT ![Root].out = p]
    BY <1>1 DEF AttachedOut
  <2>2. \A k \in Hosts, t \in Parts, e \in Dirs :
          (k = Root /\ t = "ctl" /\ e = "out") \/ Kept(k, t, e)
    BY <1>1, <2>1 DEF AttachedOut
  <2> QED
    BY <2>1, <2>2, AllocExclusive
<1>2. CASE AttachedIn
  <2>1. PICK p \in PipeNos : AllocPipe(p) /\ ctl' = [ctl EXCEPT ![Root].in = p]
    BY <1>2 DEF AttachedIn
  <2>2. \A k \in Hosts, t \in Parts, e \in Dirs :
          (k = Root /\ t = "ctl" /\ e = "in") \/ Kept(k, t, e)
    BY <1>2, <2>1 DEF AttachedIn
  <2> QED
    BY <2>1, <2>2, AllocExclusive
<1>3. CASE InitOut
  <2>1. CASE UNCHANGED <<inUse, cls>>
    <3>1. \A k \in Hosts, t \in Parts, e \in Dirs : Kept(k, t, e)
      BY <1>3, <2>1 DEF InitOut
    <3> QED
      BY <2>1, <3>1, FreeExclusive
  <2>2. ASSUME NEW p \in PipeNos, AllocPipe(p), cls' = [cls EXCEPT ![Root].out = p]
        PROVE  Exclusive'
    <3>1. \A k \in Hosts, t \in Parts, e \in Dirs :
            (k = Root /\ t = "cls" /\ e = "out") \/ Kept(k, t, e)
      BY <1>3, <2>2 DEF InitOut
    <3> QED
      BY <2>2, <3>1, AllocExclusive
  <2> QED
    BY <1>3, <2>1, <2>2 DEF InitOut
<1>4. CASE InitIn
  <2>1. PICK p \in PipeNos : AllocPipe(p) /\ cls' = [cls EXCEPT ![Root].in = p]
    BY <1>4 DEF InitIn
  <2>2. \A k \in Hosts, t \in Parts, e \in Dirs :
          (k = Root /\ t = "cls" /\ e = "in") \/ Kept(k, t, e)
    BY <1>4, <2>1 DEF InitIn
  <2> QED
    BY <2>1, <2>2, AllocExclusive
<1>5. CASE NewChildIn
  <2>1. PICK p \in PipeNos : AllocPipe(p) /\ ctl' = [ctl EXCEPT ![who].in = p]
    BY <1>5 DEF NewChildIn
  <2>2. \A k \in Hosts, t \in Parts, e \in Dirs :
          (k = who /\ t = "ctl" /\ e = "in") \/ Kept(k, t, e)
    BY <1>5, <2>1 DEF NewChildIn, OwnerInv
  <2> QED
    BY <2>1, <2>2, AllocExclusive
<1>6. CASE ChildInitIn
  <2>1. PICK p \in PipeNos : AllocPipe(p) /\ cls' = [cls EXCEPT ![who].in = p]
    BY <1>6 DEF ChildInitIn
  <2>2. \A k \in Hosts, t \in Parts, e \in Dirs :
          (k = who /\ t = "cls" /\ e = "in") \/ Kept(k, t, e)
    BY <1>6, <2>1 DEF ChildInitIn, OwnerInv
  <2> QED
    BY <2>1, <2>2, AllocExclusive
<1>7. ASSUME NEW c \in Children, NewChildOut(c) PROVE Exclusive'
  <2>1. PICK p \in PipeNos :
          AllocPipe(p) /\ ctl' = [ctl EXCEPT ![c] = [out |-> p, in |-> 0]]
    BY <1>7 DEF NewChildOut
  <2>2. \A k \in Hosts, t \in Parts, e \in Dirs :
          (k = c /\ t = "ctl" /\ e = "out") \/ Kept(k, t, e)
    BY <1>7, <2>1 DEF NewChildOut, OwnerInv, Zeroed
  <2> QED
    BY <2>1, <2>2, AllocExclusive
<1>8. ASSUME NEW c \in Children, ChildInitOut(c) PROVE Exclusive'
  <2>1. PICK p \in PipeNos : AllocPipe(p) /\ cls' = [cls EXCEPT ![c].out = p]
    BY <1>8 DEF ChildInitOut
  <2>2. \A k \in Hosts, t \in Parts, e \in Dirs :
          (k = c /\ t = "cls" /\ e = "out") \/ Kept(k, t, e)
    BY <1>8, <2>1 DEF ChildInitOut, ChildRuns
  <2> QED
    BY <2>1, <2>2, AllocExclusive
<1> QED
  BY <1>1, <1>2, <1>3, <1>4, <1>5, <1>6, <1>7, <1>8

\* The steps that free: what they free is held, hence nobody else's, until then.
LEMMA FreeStep ==
  ASSUME TypeOK, OwnerInv, Exclusive, ~seen,
         ReEnumStop \/ ChildFailed \/ \E c \in Children : ChildGone(c)
  PROVE  Exclusive'
<1> USE Constants DEF Kept, Holds, RootHolds, ChildHolds, Number, Parts, Dirs
\* No slot that stays held records a channel of one that was held before.
<1>1. ASSUME NEW h \in Hosts, NEW s \in Parts, NEW d \in Dirs,
             NEW k \in Hosts, NEW t \in Parts, NEW e \in Dirs,
             Holds(h, s, d), Holds(k, t, e), ~(k = h /\ t = s)
      PROVE  Number(k, t, e) # Number(h, s, d)
  BY <1>1 DEF Exclusive, HeldOnce
<1>2. ASSUME NEW k \in Hosts, NEW t \in Parts, NEW e \in Dirs, Holds(k, t, e)
      PROVE  Number(k, t, e) \in Pipes
  BY <1>2 DEF TypeOK, PipePair, PipeNos
<1>3. CASE ReEnumStop
  <2>1. ASSUME NEW k \in Hosts, NEW t \in Parts, NEW e \in Dirs, Holds(k, t, e)'
        PROVE  /\ Holds(k, t, e) /\ Number(k, t, e)' = Number(k, t, e)
               /\ ~(k = Root /\ t = "ctl")
    BY <1>3, <2>1 DEF ReEnumStop
  <2>2. ASSUME NEW d \in Dirs, Number(Root, "ctl", d) # NoPipe
        PROVE  Holds(Root, "ctl", d)
    BY <1>3, <2>2 DEF ReEnumStop
  <2>3. ASSUME NEW k \in Hosts, NEW t \in Parts, NEW e \in Dirs, Holds(k, t, e)'
        PROVE  /\ Number(k, t, e) \in Pipes
               /\ \A d \in Dirs : Number(k, t, e) # Number(Root, "ctl", d)
    BY <2>1, <2>2, <2>3, <1>1, <1>2
  <2>4. ASSUME NEW k \in Hosts, NEW t \in Parts, NEW e \in Dirs, Holds(k, t, e)'
        PROVE  Number(k, t, e) \notin CtlPipes(Root)
    BY <2>3, <2>4 DEF CtlPipes
  <2>5. inUse' = FreePipes(CtlPipes(Root))
    BY <1>3 DEF ReEnumStop
  <2>6. ASSUME NEW k \in Hosts, NEW t \in Parts, NEW e \in Dirs,
               Holds(k, t, e)', inUse[Number(k, t, e)]
        PROVE  inUse'[Number(k, t, e)]
    BY <2>3, <2>4, <2>5, <2>6 DEF FreePipes
  <2>7. \A k \in Hosts, t \in Parts, e \in Dirs : Kept(k, t, e)
    BY <2>1
  <2> QED
    BY <2>6, <2>7, FreeExclusive
<1>4. CASE ChildFailed
  <2>1. \A k \in Hosts, t \in Parts, e \in Dirs : Kept(k, t, e)
    BY <1>4 DEF ChildFailed, Forget, OwnerInv, TypeOK
  <2>2. inUse' = inUse
    BY <1>4 DEF ChildFailed
  <2> QED
    BY <2>1, <2>2, FreeExclusive
<1>5. ASSUME NEW c \in Children, ChildGone(c) PROVE Exclusive'
  <2>1. ASSUME NEW k \in Hosts, NEW t \in Parts, NEW e \in Dirs, Holds(k, t, e)'
        PROVE  /\ Holds(k, t, e) /\ Number(k, t, e)' = Number(k, t, e)
               /\ k # c
    BY <1>5, <2>1 DEF ChildGone, Forget, OwnerInv, TypeOK
  <2>2. ASSUME NEW s \in Parts, NEW d \in Dirs, Number(c, s, d) # NoPipe,
               s = "cls" => Number(c, s, d) # 0
        PROVE  Holds(c, s, d)
    BY <1>5, <2>2 DEF ChildGone, OwnerInv
  <2>3. ASSUME NEW k \in Hosts, NEW t \in Parts, NEW e \in Dirs, Holds(k, t, e)'
        PROVE  /\ Number(k, t, e) \in Pipes
               /\ \A d \in Dirs : Number(k, t, e) # Number(c, "ctl", d)
               /\ \A d \in Dirs : Number(c, "cls", d) # 0 =>
                                    Number(k, t, e) # Number(c, "cls", d)
    <3>1. Number(k, t, e) \in Pipes /\ Number(k, t, e) # NoPipe
      BY <2>1, <2>3, <1>2
    <3>2. ASSUME NEW d \in Dirs PROVE Number(k, t, e) # Number(c, "ctl", d)
      BY <2>1, <2>2, <2>3, <3>1, <3>2, <1>1
    <3>3. ASSUME NEW d \in Dirs, Number(c, "cls", d) # 0
          PROVE  Number(k, t, e) # Number(c, "cls", d)
      BY <2>1, <2>2, <2>3, <3>1, <3>3, <1>1
    <3> QED
      BY <3>1, <3>2, <3>3
  <2>4. ASSUME NEW k \in Hosts, NEW t \in Parts, NEW e \in Dirs, Holds(k, t, e)'
        PROVE  Number(k, t, e) \notin CtlPipes(c) \cup ClassPipes(c)
    BY <2>3, <2>4 DEF CtlPipes, ClassPipes
  <2>5. \A q \in Pipes :
          inUse[q] /\ q \notin CtlPipes(c) \cup ClassPipes(c) => inUse'[q]
    BY <1>5 DEF ChildGone, FreePipes
  <2>6. ASSUME NEW k \in Hosts, NEW t \in Parts, NEW e \in Dirs,
               Holds(k, t, e)', inUse[Number(k, t, e)]
        PROVE  inUse'[Number(k, t, e)]
    BY <2>3, <2>4, <2>5, <2>6
  <2>7. \A k \in Hosts, t \in Parts, e \in Dirs : Kept(k, t, e)
    BY <2>1
  <2> QED
    BY <2>6, <2>7, FreeExclusive
<1> QED
  BY <1>3, <1>4, <1>5

\* The steps that touch no channel leave every slot as it was, or let it go.
LEMMA OtherStep ==
  ASSUME TypeOK, Phasing, OwnerInv, Exclusive, ~seen,
         \/ Plug \/ Attach \/ AttachedBegin \/ AttachedState \/ RootSetAddr
         \/ Configure \/ Configured \/ CheckClass \/ InitEnd \/ HubBegin \/ HubEnd
         \/ LinkChild \/ DisconnectCrash \/ UNCHANGED vars
         \/ \E c \in Children : ChildSetAddr(c) \/ ChildAbort(c)
  PROVE  Exclusive'
<1>1. \A k \in Hosts, t \in Parts, e \in Dirs : Kept(k, t, e)
  <2> USE Constants
      DEF Kept, Holds, RootHolds, ChildHolds, Number, Parts, Dirs, TypeOK
  <2>1. CASE CheckClass
    BY <2>1 DEF CheckClass, Zeroed, NoPipe
  <2>2. CASE Plug \/ Attach \/ AttachedBegin \/ AttachedState \/ RootSetAddr
    BY <2>2 DEF Plug, Attach, AttachedBegin, AttachedState, RootSetAddr
  <2>3. CASE Configure \/ Configured \/ InitEnd \/ HubBegin \/ HubEnd
    BY <2>3 DEF Configure, Configured, InitEnd, HubBegin, HubEnd, OwnerInv
  <2>4. CASE LinkChild \/ DisconnectCrash \/ UNCHANGED vars
    BY <2>4 DEF LinkChild, DisconnectCrash, vars
  <2>5. ASSUME NEW c \in Children, ChildSetAddr(c) \/ ChildAbort(c)
        PROVE  \A k \in Hosts, t \in Parts, e \in Dirs : Kept(k, t, e)
    BY <2>5 DEF ChildSetAddr, ChildAbort, ChildRuns, Hosts
  <2> QED
    BY <2>1, <2>2, <2>3, <2>4, <2>5
<1>2. inUse' = inUse
  BY DEF Plug, Attach, AttachedBegin, AttachedState, RootSetAddr, Configure,
         Configured, CheckClass, InitEnd, HubBegin, HubEnd, LinkChild,
         DisconnectCrash, vars, ChildSetAddr, ChildAbort
<1> QED
  BY <1>1, <1>2, FreeExclusive

\* Whatever fails, leaks or runs out, and in whatever order a hub's children
\* come and go, usbh_pipes.c gives a channel to one owner at a time, as long
\* as no disconnect interrupt hits a pass of the thread.
THEOREM PipesExclusive == Spec => []ExclusivePipes
<1>1. Init => Phasing /\ OwnerInv /\ ExclusivePipes
  <2> SUFFICES ASSUME Init PROVE Phasing /\ OwnerInv /\ ExclusivePipes
    OBVIOUS
  <2>1. Phasing /\ OwnerInv
    BY Constants DEF Init, Phasing, OwnerInv, NoChildren, HubPCs, EarlyPCs
  <2>2. \A h \in Hosts, s \in Parts, d \in Dirs : ~Holds(h, s, d)
    BY Constants DEF Init, Holds, RootHolds, ChildHolds, Hosts, Parts
  <2> QED
    BY <2>1, <2>2 DEF ExclusivePipes, HeldAreAllocated, HeldOnce
<1>2. TypeOK /\ Phasing /\ OwnerInv /\ ExclusivePipes /\ TypeOK' /\ [Next]_vars
        => ExclusivePipes'
  <2> SUFFICES ASSUME TypeOK, Phasing, OwnerInv, ExclusivePipes, TypeOK',
                      [Next]_vars, ~seen'
               PROVE  Exclusive'
    BY DEF ExclusivePipes, Exclusive
  <2>1. CASE ReEnumRestart \/ HandleDisconnect
    <3>1. NoChildren' /\ gState' = "IDLE" /\ pc' = "wait"
      BY <2>1, PhasingStep
      DEF ReEnumRestart, HandleDisconnect, DeInitStateMachine, Phasing,
          EarlyStates
    <3>2. \A h \in Hosts, s \in Parts, d \in Dirs : ~Holds(h, s, d)'
      BY <3>1 DEF NoChildren, Holds, RootHolds, ChildHolds, Hosts
    <3> QED
      BY <3>2 DEF Exclusive, HeldAreAllocated, HeldOnce
  <2>2. CASE DisconnectISR
    BY <2>2 DEF DisconnectISR
  <2>3. CASE ~(ReEnumRestart \/ HandleDisconnect \/ DisconnectISR)
    <3>1. ~seen
      BY <2>3
      DEF Next, vars, Plug, Attach, AttachedBegin, AttachedState,
          AttachedOut, AttachedIn, RootSetAddr, ReEnumStop, Configure,
          Configured, CheckClass, InitOut, InitIn, InitEnd, HubBegin, HubEnd,
          NewChildOut, ChildSetAddr, ChildInitOut, ChildAbort, ChildGone,
          NewChildIn, ChildInitIn, LinkChild, ChildFailed, DisconnectCrash
    <3>2. Exclusive
      BY <3>1 DEF ExclusivePipes, Exclusive
    <3> QED
      BY <2>3, <3>1, <3>2, AllocStep, FreeStep, OtherStep DEF Next
  <2> QED
    BY <2>1, <2>2, <2>3
<1>3. TypeOK /\ Phasing /\ OwnerInv /\ [Next]_vars => Phasing' /\ OwnerInv'
  BY PhasingStep, OwnerStep
<1> QED
  BY <1>1, <1>2, <1>3, TypeCorrect, PTL DEF Spec

-----------------------------------------------------------------------------
(* Lost addresses. *)

\* A handle without a child has no address, and a child whose class is up is
\* linked, unless the thread is still in its bring-up loop.
AddressInv ==
  \A c \in Children :
    /\ phase[c] = "none" => addr[c] = 0
    /\ phase[c] = "active" /\ ~linked[c] => pc = "child" /\ who = c

LEMMA AddressInvStep ==
  ASSUME TypeOK, OwnerInv, AddressInv, [Next]_vars
  PROVE  AddressInv'
<1> USE Constants DEF AddressInv, TypeOK
<1>1. CASE UNCHANGED <<addr, phase, linked>> /\ (pc # "child" \/ UNCHANGED <<pc, who>>)
  BY <1>1
<1>2. CASE RootSetAddr \/ ReEnumRestart
  BY <1>2 DEF RootSetAddr, ReEnumRestart, GetOneAddress
<1>3. ASSUME NEW c \in Children, NewChildOut(c) PROVE AddressInv'
  BY <1>3 DEF NewChildOut
<1>4. ASSUME NEW c \in Children, ChildSetAddr(c) PROVE AddressInv'
  BY <1>4 DEF ChildSetAddr, ChildRuns, GetOneAddress
<1>5. ASSUME NEW c \in Children, ChildInitOut(c) PROVE AddressInv'
  BY <1>5 DEF ChildInitOut, ChildRuns
<1>6. ASSUME NEW c \in Children, ChildAbort(c) PROVE AddressInv'
  BY <1>6 DEF ChildAbort, ChildRuns
<1>7. ASSUME NEW c \in Children, ChildGone(c) PROVE AddressInv'
  BY <1>7 DEF ChildGone, Forget
<1>8. CASE ChildInitIn
  BY <1>8 DEF ChildInitIn, OwnerInv
<1>9. CASE LinkChild
  BY <1>9 DEF LinkChild
<1>10. CASE ChildFailed
  BY <1>10 DEF ChildFailed, Forget, OwnerInv
<1>11. CASE HandleDisconnect
  BY <1>11 DEF HandleDisconnect
<1>12. CASE UNCHANGED vars
  BY <1>12 DEF vars
<1> QED
  BY <1>1, <1>2, <1>3, <1>4, <1>5, <1>6, <1>7, <1>8, <1>9, <1>10, <1>11, <1>12
  DEF Next, Plug, DisconnectISR, Attach, AttachedBegin, AttachedState,
      AttachedOut, AttachedIn, ReEnumStop, Configure, Configured, CheckClass,
      InitOut, InitIn, InitEnd, HubBegin, HubEnd, NewChildIn, DisconnectCrash

LostWith(c) == phase[c] \in {"enum", "abort"} /\ phase'[c] = "none"

\* Only a free address is given out, and only a handle's own is given back.
LEMMA OrphanStep ==
  ASSUME TypeOK, OwnerInv, AddressInv, [Next]_vars
  PROVE  /\ Orphans \subseteq Orphans'
         /\ Orphans' \subseteq Orphans \/ \E c \in Children : LostWith(c)
<1> USE DEF Orphans
<1>1. CASE UNCHANGED <<taken, addr>>
  BY <1>1
<1>2. ASSUME NEW h \in Hosts, NEW a \in Addrs, GetOneAddress(h, a)
      PROVE  Orphans = Orphans'
  BY <1>2 DEF GetOneAddress, TypeOK, Addrs
<1>3. CASE ReEnumRestart
  <2>1. \A k \in Hosts : addr'[k] = IF k = Root THEN 0 ELSE addr[k]
    BY <1>3 DEF ReEnumRestart, TypeOK
  <2>2. \A a \in Addrs : taken'[a] = (taken[a] /\ a # addr[Root])
    BY <1>3 DEF ReEnumRestart
  <2>3. Root \in Hosts /\ 0 \notin Addrs
    BY Constants DEF Addrs
  <2>4. \A a \in Addrs : a \in Orphans <=> a \in Orphans'
    BY <2>1, <2>2, <2>3
  <2> QED
    BY <2>4
<1>4. CASE ChildFailed
  <2>1. who \in Children /\ who \in Hosts /\ LostWith(who)
    BY <1>4, Constants DEF ChildFailed, OwnerInv, LostWith, TypeOK
  <2>2. Orphans \subseteq Orphans'
    BY <1>4, <2>1, SizeAssumption DEF ChildFailed, Forget, TypeOK, Addrs
  <2> QED
    BY <2>1, <2>2
<1>5. ASSUME NEW c \in Children, ChildGone(c)
      PROVE  /\ Orphans \subseteq Orphans'
             /\ Orphans' \subseteq Orphans \/ LostWith(c)
  <2>1. \A k \in Hosts : addr'[k] = IF k = c THEN 0 ELSE addr[k]
    BY <1>5 DEF ChildGone, Forget, TypeOK
  <2>2. \A a \in Addrs : taken'[a] = (taken[a] /\ ~(phase[c] = "active" /\ a = addr[c]))
    BY <1>5 DEF ChildGone
  <2>3. c \in Hosts /\ 0 \notin Addrs
    BY Constants DEF Addrs
  <2>4. Orphans \subseteq Orphans'
    BY <2>1, <2>2, <2>3
  <2>5. CASE phase[c] = "active"
    BY <2>1, <2>2, <2>3, <2>4, <2>5
  <2>6. CASE phase[c] # "active"
    BY <1>5, <2>4, <2>6, Constants DEF ChildGone, OwnerInv, LostWith, TypeOK, Phases
  <2> QED
    BY <2>4, <2>5, <2>6
<1>6. CASE HandleDisconnect
  <2>1. /\ \A k \in Hosts : addr'[k] = 0
        /\ \A a \in Addrs : taken'[a] =
             (/\ taken[a] /\ a # addr[Root]
              /\ \A c \in Children : linked[c] => a # addr[c])
    BY <1>6 DEF HandleDisconnect
  <2>2. 0 \notin Addrs
    BY DEF Addrs
  <2>3. Orphans \subseteq Orphans'
    BY <2>1, <2>2, Constants
  <2>4. ASSUME NEW c \in Children, ~linked[c], ~LostWith(c)
        PROVE  addr[c] = 0
    BY <1>6, <2>4 DEF HandleDisconnect, AddressInv, LostWith, TypeOK, Phases
  <2> QED
    <3>1. CASE \E c \in Children : LostWith(c)
      BY <2>3, <3>1
    <3>2. CASE ~ \E c \in Children : LostWith(c)
      <4>1. \A c \in Children : linked[c] \/ addr[c] = 0
        BY <2>4, <3>2
      <4>2. ASSUME NEW a \in Orphans' PROVE a \in Orphans
        <5>1. a \in Addrs /\ taken[a] /\ a # addr[Root]
          BY <2>1
        <5>2. \A c \in Children : a # addr[c]
          BY <2>1, <2>2, <4>1, <5>1
        <5> QED
          BY <5>1, <5>2 DEF Hosts
      <4> QED
        BY <2>3, <4>2
    <3> QED
      BY <3>1, <3>2
<1> QED
  BY <1>1, <1>2, <1>3, <1>4, <1>5, <1>6, Constants
  DEF Next, vars, Plug, DisconnectISR, Attach, AttachedBegin, AttachedState,
      AttachedOut, AttachedIn, RootSetAddr, ReEnumStop, Configure, Configured,
      CheckClass, InitOut, InitIn, InitEnd, HubBegin, HubEnd, NewChildOut,
      ChildSetAddr, ChildInitOut, ChildAbort, NewChildIn, ChildInitIn,
      LinkChild, DisconnectCrash

LEMMA OrphanInvariants ==
  Spec => [](TypeOK /\ OwnerInv /\ AddressInv)
<1>1. Init => Phasing /\ OwnerInv /\ AddressInv
  BY Constants
  DEF Init, Phasing, OwnerInv, AddressInv, NoChildren, HubPCs, EarlyPCs
<1>2. TypeOK /\ Phasing /\ OwnerInv /\ AddressInv /\ [Next]_vars
        => Phasing' /\ OwnerInv' /\ AddressInv'
  BY PhasingStep, OwnerStep, AddressInvStep
<1> QED
  BY <1>1, <1>2, TypeCorrect, PTL DEF Spec

\* An address whose owner is gone without giving it back is never handed out
\* or given back again.
THEOREM OrphansStay == Spec => OrphanAddressesStay
<1>1. TypeOK /\ OwnerInv /\ AddressInv /\ [Next]_vars
        => [Orphans \subseteq Orphans']_vars
  BY OrphanStep
<1> QED
  BY <1>1, OrphanInvariants, PTL DEF Spec, OrphanAddressesStay

\* Addresses get lost only with a child that goes before its class was up:
\* neither a re-enumeration nor the removal of the hub loses one.
THEOREM OrphansOfChildren == Spec => OrphansFromChildrenOnly
<1>1. TypeOK /\ OwnerInv /\ AddressInv /\ [Next]_vars
        => [Orphans' \subseteq Orphans \/
            \E c \in Children : /\ phase[c] \in {"enum", "abort"}
                                 /\ phase'[c] = "none"]_vars
  BY OrphanStep DEF LostWith
<1> QED
  BY <1>1, OrphanInvariants, PTL DEF Spec, OrphansFromChildrenOnly

=============================================================================
