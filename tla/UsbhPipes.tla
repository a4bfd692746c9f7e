----------------------------- MODULE UsbhPipes -----------------------------
(***************************************************************************)
(* The two tables every device handle of the host shares: the channels     *)
(* (phost->Pipes, bit 15 of an entry says "allocated") and the bus         *)
(* addresses (phost->address).  The root handle owns the tables; a hub     *)
(* gives each child handle a pointer to them (usbh_hub.c:672-673).         *)
(*                                                                         *)
(* Two actors write them: the host thread (USBH_Process of the root and of *)
(* the children) and the disconnect interrupt of the root port, which is   *)
(* not masked while the thread runs a pass (usbh_core.c:481 is commented   *)
(* out).  One step of the thread is one access that the interrupt can      *)
(* separate from the next: an allocation is one step because the interrupt *)
(* only clears bits of entries the thread is not about to set.             *)
(***************************************************************************)
EXTENDS Integers

CONSTANTS
  NumPipes,     \* USBH_MAX_PIPES_NBR
  NumAddrs,     \* USBH_MAX_NUM_DEVICE
  Root,         \* the handle of the device on the root port
  Children      \* the ports of the hub, one child handle each

NoPipe == 255   \* what USBH_AllocPipe returns when the table is full

ASSUME SizeAssumption == NumPipes \in 1 .. NoPipe /\ NumAddrs \in Nat
ASSUME RootAssumption == Root \notin Children

Hosts    == {Root} \cup Children
Pipes    == 0 .. (NumPipes - 1)
PipeNos  == Pipes \cup {NoPipe}
Addrs    == 1 .. NumAddrs

\* A pair of pipe numbers as a handle stores it; zeroed memory reads 0.
PipePair == [out : PipeNos, in : PipeNos]
Zeroed   == [out |-> 0, in |-> 0]

\* Where the host thread stands.
PCs == {"wait",                                   \* between two passes
        "attach", "attachOut", "attachIn",        \* HOST_DEV_ATTACHED
        "reenum",                                 \* USBH_ReEnumerate, in its delay
        "cfg",                                    \* SET_CONFIGURATION completed
        "initOut", "initIn", "initEnd", "abort",  \* HOST_CHECK_CLASS
        "hub",                                    \* the hub's port loop
        "childIn", "child",                       \* a new child of the port loop
        "childInitIn",                            \* a child's class Init
        "crashed"}                                \* NULL class pointer followed

GStates == {"IDLE", "ATTACHED", "ENUMERATION", "CHECK_CLASS", "CLASS",
            "DISCONNECTED", "ABORT"}

VARIABLES
  inUse,    \* [Pipes -> BOOLEAN]   bit 15 of phost->Pipes[p]
  taken,    \* [Addrs -> BOOLEAN]   phost->address[a - 1]
  addr,     \* [Hosts -> 0..NumAddrs]  device.address
  ctl,      \* [Hosts -> PipePair]  Control.pipe_out, Control.pipe_in
  cls,      \* [Hosts -> PipePair]  the pipes in the class handle
  gState,   \* the root handle's gState
  rootCls,  \* the root handle's pActiveClass: "none", "hub" or "function"
  phase,    \* [Children -> ...] what the child handle has reached
  linked,   \* [Children -> BOOLEAN] phost->children[port - 1] is set
  pc, who,  \* where the thread stands, and the child it works on
  plugged,  \* a device is on the root port
  seen      \* a disconnect interrupt came since the last DeInitStateMachine

vars == <<inUse, taken, addr, ctl, cls, gState, rootCls, phase, linked,
          pc, who, plugged, seen>>

Phases == {"none", "enum", "active", "abort"}

TypeOK ==
  /\ inUse \in [Pipes -> BOOLEAN]
  /\ taken \in [Addrs -> BOOLEAN]
  /\ addr \in [Hosts -> 0 .. NumAddrs]
  /\ ctl \in [Hosts -> PipePair]
  /\ cls \in [Hosts -> PipePair]
  /\ gState \in GStates
  /\ rootCls \in {"none", "hub", "function"}
  /\ phase \in [Children -> Phases]
  /\ linked \in [Children -> BOOLEAN]
  /\ pc \in PCs
  /\ who \in Hosts
  /\ plugged \in BOOLEAN
  /\ seen \in BOOLEAN

Init ==
  /\ inUse = [p \in Pipes |-> FALSE]
  /\ taken = [a \in Addrs |-> FALSE]
  /\ addr = [h \in Hosts |-> 0]
  /\ ctl = [h \in Hosts |-> Zeroed]
  /\ cls = [h \in Hosts |-> Zeroed]
  /\ gState = "IDLE"
  /\ rootCls = "none"
  /\ phase = [c \in Children |-> "none"]
  /\ linked = [c \in Children |-> FALSE]
  /\ pc = "wait"
  /\ who = Root
  /\ plugged = FALSE
  /\ seen = FALSE

-----------------------------------------------------------------------------
(* The table operations. *)

\* A mutant: the scan does not test bit 15 of the entry it returns.
GetFreePipeNoTest(p) ==
  \/ p \in Pipes /\ \A q \in 0 .. (p - 1) : inUse[q]
  \/ p = NoPipe /\ \A q \in Pipes : inUse[q]

\* USBH_GetFreePipe finds p: the lowest free entry, or 0xFFFF cut to a byte.
GetFreePipe(p) ==
  \/ p \in Pipes /\ ~inUse[p] /\ \A q \in 0 .. (p - 1) : inUse[q]
  \/ p = NoPipe /\ \A q \in Pipes : inUse[q]

AllocPipe(p) ==
  /\ GetFreePipe(p)
  /\ inUse' = [q \in Pipes |-> inUse[q] \/ q = p]

\* The table after USBH_FreePipe of every pipe in S; a number that is not an
\* entry is ignored (idx < USBH_MAX_PIPES_NBR).
FreePipes(S) == [q \in Pipes |-> inUse[q] /\ q \notin S]

\* The class drivers free a pipe only when the number is not 0.
ClassPipes(h) == {cls[h].out, cls[h].in} \ {0}
CtlPipes(h)   == {ctl[h].out, ctl[h].in}

\* Mutants: the mark is not set; the address is one too high.
GetOneAddressNoMark(h, a) ==
  /\ addr[h] = 0
  /\ a \in Addrs /\ ~taken[a] /\ \A b \in 1 .. (a - 1) : taken[b]
  /\ taken' = taken
  /\ addr' = [addr EXCEPT ![h] = a]
GetOneAddressPlusOne(h, a) ==
  /\ addr[h] = 0
  /\ a \in Addrs /\ ~taken[a] /\ \A b \in 1 .. (a - 1) : taken[b]
  /\ taken' = [taken EXCEPT ![a] = TRUE]
  /\ addr' = [addr EXCEPT ![h] = a + 1]

\* USBH_Get_One_Address for a handle that has none.
GetOneAddress(h, a) ==
  /\ addr[h] = 0
  /\ a \in Addrs /\ ~taken[a] /\ \A b \in 1 .. (a - 1) : taken[b]
  /\ taken' = [taken EXCEPT ![a] = TRUE]
  /\ addr' = [addr EXCEPT ![h] = a]

\* USBH_CtlReq goes ahead only when both control pipes carry bit 15.  For the
\* number 255 it reads past the table, so either answer is possible.
CtlPipesOpen(h) == \A p \in CtlPipes(h) \ {NoPipe} : inUse[p]

\* A mutant: the flags of the pipes are not cleared.
DeInitKeepsPipes ==
  /\ inUse' = inUse
  /\ gState' = "IDLE"
  /\ seen' = FALSE

\* DeInitStateMachine of the root.  With address 0 the code clears a byte in
\* front of the address table, which no entry of the table sees.
DeInitStateMachine ==
  /\ inUse' = [p \in Pipes |-> FALSE]
  /\ gState' = "IDLE"
  /\ seen' = FALSE

-----------------------------------------------------------------------------
(* The root port. *)

Plug ==
  /\ pc # "crashed" /\ ~plugged
  /\ plugged' = TRUE
  /\ UNCHANGED <<inUse, taken, addr, ctl, cls, gState, rootCls, phase, linked,
                 pc, who, seen>>

\* The disconnect interrupt, at any point of the thread: it frees the numbers
\* found in the root's Control, whether or not they still belong to it.
DisconnectISR ==
  /\ pc # "crashed" /\ plugged
  /\ plugged' = FALSE
  /\ inUse' = FreePipes(CtlPipes(Root))
  /\ gState' = "DISCONNECTED"
  /\ seen' = TRUE
  /\ UNCHANGED <<taken, addr, ctl, cls, rootCls, phase, linked, pc, who>>

\* HOST_IDLE up to the port-enable interrupt.
Attach ==
  /\ pc = "wait" /\ gState = "IDLE" /\ plugged
  /\ gState' = "ATTACHED"
  /\ UNCHANGED <<inUse, taken, addr, ctl, cls, rootCls, phase, linked, pc, who,
                 plugged, seen>>

\* HOST_DEV_ATTACHED: the 100 ms delay, the new gState, then both allocations.
AttachedBegin ==
  /\ pc = "wait" /\ gState = "ATTACHED"
  /\ pc' = "attach"
  /\ UNCHANGED <<inUse, taken, addr, ctl, cls, gState, rootCls, phase, linked,
                 who, plugged, seen>>

AttachedState ==
  /\ pc = "attach"
  /\ gState' = "ENUMERATION"
  /\ pc' = "attachOut"
  /\ UNCHANGED <<inUse, taken, addr, ctl, cls, rootCls, phase, linked, who,
                 plugged, seen>>

AttachedOut ==
  /\ pc = "attachOut"
  /\ \E p \in PipeNos :
       AllocPipe(p) /\ ctl' = [ctl EXCEPT ![Root].out = p]
  /\ pc' = "attachIn"
  /\ UNCHANGED <<taken, addr, cls, gState, rootCls, phase, linked, who,
                 plugged, seen>>

AttachedIn ==
  /\ pc = "attachIn"
  /\ \E p \in PipeNos :
       AllocPipe(p) /\ ctl' = [ctl EXCEPT ![Root].in = p]
  /\ pc' = "wait"
  /\ UNCHANGED <<taken, addr, cls, gState, rootCls, phase, linked, who,
                 plugged, seen>>

\* ENUM_SET_ADDR of the root.
RootSetAddr ==
  /\ pc = "wait" /\ gState = "ENUMERATION"
  /\ \E a \in Addrs : GetOneAddress(Root, a)
  /\ UNCHANGED <<inUse, ctl, cls, gState, rootCls, phase, linked, pc, who,
                 plugged, seen>>

\* Enumeration failed: USBH_ReEnumerate, stop ... delay ... start again.
ReEnumStop ==
  /\ pc = "wait" /\ gState = "ENUMERATION"
  /\ inUse' = FreePipes(CtlPipes(Root))
  /\ pc' = "reenum"
  /\ UNCHANGED <<taken, addr, ctl, cls, gState, rootCls, phase, linked, who,
                 plugged, seen>>

\* Mutants of ReEnumRestart: the address is not given back; the whole address
\* table is cleared.
ReEnumKeepsAddress ==
  /\ pc = "reenum"
  /\ DeInitStateMachine
  /\ addr' = [addr EXCEPT ![Root] = 0]
  /\ pc' = "wait"
  /\ UNCHANGED <<taken, ctl, cls, rootCls, phase, linked, who, plugged>>
ReEnumClearsTable ==
  /\ pc = "reenum"
  /\ DeInitStateMachine
  /\ taken' = [a \in Addrs |-> FALSE]
  /\ addr' = [addr EXCEPT ![Root] = 0]
  /\ pc' = "wait"
  /\ UNCHANGED <<ctl, cls, rootCls, phase, linked, who, plugged>>

ReEnumRestart ==
  /\ pc = "reenum"
  /\ DeInitStateMachine
  /\ taken' = [a \in Addrs |-> taken[a] /\ a # addr[Root]]
  /\ addr' = [addr EXCEPT ![Root] = 0]
  /\ pc' = "wait"
  /\ UNCHANGED <<ctl, cls, rootCls, phase, linked, who, plugged>>

\* The last control transfer of the configuration completes, and the pass
\* writes the next gState over whatever the interrupt wrote in between.
Configure ==
  /\ pc = "wait" /\ gState = "ENUMERATION"
  /\ addr[Root] # 0 /\ CtlPipesOpen(Root)
  /\ pc' = "cfg"
  /\ UNCHANGED <<inUse, taken, addr, ctl, cls, gState, rootCls, phase, linked,
                 who, plugged, seen>>

Configured ==
  /\ pc = "cfg"
  /\ gState' = "CHECK_CLASS"
  /\ pc' = "wait"
  /\ UNCHANGED <<inUse, taken, addr, ctl, cls, rootCls, phase, linked, who,
                 plugged, seen>>

\* HOST_CHECK_CLASS: choose the class, run its Init, write gState.
CheckClass ==
  /\ pc = "wait" /\ gState = "CHECK_CLASS"
  /\ \/ rootCls' \in {"hub", "function"} /\ pc' = "initOut"
     \/ rootCls' = "none" /\ pc' = "abort"
  /\ cls' = [cls EXCEPT ![Root] = Zeroed]
  /\ UNCHANGED <<inUse, taken, addr, ctl, gState, phase, linked, who, plugged,
                 seen>>

\* A function's driver allocates its OUT pipe, then its IN pipe; the hub only
\* its interrupt IN pipe.
InitOut ==
  /\ pc = "initOut"
  /\ \/ rootCls = "hub" /\ UNCHANGED <<inUse, cls>>
     \/ /\ rootCls = "function"
        /\ \E p \in PipeNos :
             AllocPipe(p) /\ cls' = [cls EXCEPT ![Root].out = p]
  /\ pc' = "initIn"
  /\ UNCHANGED <<taken, addr, ctl, gState, rootCls, phase, linked, who,
                 plugged, seen>>

InitIn ==
  /\ pc = "initIn"
  /\ \E p \in PipeNos : AllocPipe(p) /\ cls' = [cls EXCEPT ![Root].in = p]
  /\ pc' = "initEnd"
  /\ UNCHANGED <<taken, addr, ctl, gState, rootCls, phase, linked, who,
                 plugged, seen>>

InitEnd ==
  /\ pc \in {"initEnd", "abort"}
  /\ gState' = IF pc = "abort" THEN "ABORT" ELSE "CLASS"
  /\ pc' = "wait"
  /\ UNCHANGED <<inUse, taken, addr, ctl, cls, rootCls, phase, linked, who,
                 plugged, seen>>

-----------------------------------------------------------------------------
(* The hub's port loop and its children. *)

HubBegin ==
  /\ pc = "wait" /\ gState = "CLASS" /\ rootCls = "hub"
  /\ pc' = "hub"
  /\ UNCHANGED <<inUse, taken, addr, ctl, cls, gState, rootCls, phase, linked,
                 who, plugged, seen>>

HubEnd ==
  /\ pc = "hub"
  /\ pc' = "wait"
  /\ UNCHANGED <<inUse, taken, addr, ctl, cls, gState, rootCls, phase, linked,
                 who, plugged, seen>>

\* An enabled port without a child: a zeroed handle and its two control pipes.
NewChildOut(c) ==
  /\ pc = "hub" /\ ~linked[c]
  /\ \E p \in PipeNos :
       AllocPipe(p) /\ ctl' = [ctl EXCEPT ![c] = [out |-> p, in |-> 0]]
  /\ phase' = [phase EXCEPT ![c] = "enum"]
  /\ pc' = "childIn" /\ who' = c
  /\ UNCHANGED <<taken, addr, cls, gState, rootCls, linked, plugged, seen>>

NewChildIn ==
  /\ pc = "childIn"
  /\ \E p \in PipeNos :
       AllocPipe(p) /\ ctl' = [ctl EXCEPT ![who].in = p]
  /\ pc' = "child"
  /\ UNCHANGED <<taken, addr, cls, gState, rootCls, phase, linked, who, plugged,
                 seen>>

\* USBH_Process(child): in the port loop for a new child, from
\* USBH_Children_Process_OS for one that is linked.
ChildRuns(c) ==
  /\ phase[c] = "enum"
  /\ \/ pc = "child" /\ who = c
     \/ pc = "wait" /\ linked[c]

ChildSetAddr(c) ==
  /\ ChildRuns(c)
  /\ \E a \in Addrs : GetOneAddress(c, a)
  /\ UNCHANGED <<inUse, ctl, cls, gState, rootCls, phase, linked, pc, who,
                 plugged, seen>>

ChildInitOut(c) ==
  /\ ChildRuns(c) /\ addr[c] # 0 /\ CtlPipesOpen(c)
  /\ \E p \in PipeNos : AllocPipe(p) /\ cls' = [cls EXCEPT ![c].out = p]
  /\ pc' = "childInitIn" /\ who' = c
  /\ UNCHANGED <<taken, addr, ctl, gState, rootCls, phase, linked, plugged,
                 seen>>

ChildInitIn ==
  /\ pc = "childInitIn"
  /\ \E p \in PipeNos : AllocPipe(p) /\ cls' = [cls EXCEPT ![who].in = p]
  /\ phase' = [phase EXCEPT ![who] = "active"]
  /\ \/ linked[who] /\ pc' = "wait" /\ who' = Root
     \/ ~linked[who] /\ pc' = "child" /\ who' = who
  /\ UNCHANGED <<taken, addr, ctl, gState, rootCls, linked, plugged, seen>>

\* No driver for the child, or its Init failed: HOST_ABORT_STATE.
ChildAbort(c) ==
  /\ ChildRuns(c) /\ addr[c] # 0 /\ CtlPipesOpen(c)
  /\ phase' = [phase EXCEPT ![c] = "abort"]
  /\ UNCHANGED <<inUse, taken, addr, ctl, cls, gState, rootCls, linked, pc, who,
                 plugged, seen>>

\* The bring-up loop ends (HOST_CLASS, HOST_ABORT_STATE or 5000 turns).
LinkChild ==
  /\ pc = "child"
  /\ linked' = [linked EXCEPT ![who] = TRUE]
  /\ pc' = "hub" /\ who' = Root
  /\ UNCHANGED <<inUse, taken, addr, ctl, cls, gState, rootCls, phase, plugged,
                 seen>>

\* The handle h is freed or unreachable, and its fields with it.
Forget(h) ==
  /\ addr' = [addr EXCEPT ![h] = 0]
  /\ ctl' = [ctl EXCEPT ![h] = Zeroed]
  /\ cls' = [cls EXCEPT ![h] = Zeroed]

\* Enumeration failed: goto RESET_PORT drops the only pointer to the handle,
\* with the pipes and the address it holds.
ChildFailed ==
  /\ pc = "child" /\ phase[who] = "enum"
  /\ phase' = [phase EXCEPT ![who] = "none"]
  /\ Forget(who)
  /\ pc' = "hub" /\ who' = Root
  /\ UNCHANGED <<inUse, taken, gState, rootCls, linked, plugged, seen>>

\* The hub reports the port empty: USBH_LL_Disconnect of the child, DeInit of
\* its class if it has one (only that gives the address back), free.
ChildGone(c) ==
  /\ pc = "hub" /\ linked[c]
  /\ inUse' = FreePipes(CtlPipes(c) \cup
                        IF phase[c] = "active" THEN ClassPipes(c) ELSE {})
  /\ taken' = [a \in Addrs |->
                 taken[a] /\ ~(phase[c] = "active" /\ a = addr[c])]
  /\ Forget(c)
  /\ phase' = [phase EXCEPT ![c] = "none"]
  /\ linked' = [linked EXCEPT ![c] = FALSE]
  /\ UNCHANGED <<gState, rootCls, pc, who, plugged, seen>>

-----------------------------------------------------------------------------
(* HOST_DEV_DISCONNECTED of the root. *)

\* The hub's DeInit calls pActiveClass->DeInit of every child.
ChildrenHaveClass == \A c \in Children : linked[c] => phase[c] = "active"

HandleDisconnect ==
  /\ pc = "wait" /\ gState = "DISCONNECTED"
  /\ rootCls = "hub" => ChildrenHaveClass
  /\ DeInitStateMachine
  /\ taken' = [a \in Addrs |->
                 /\ taken[a]
                 /\ a # addr[Root]
                 /\ \A c \in Children : linked[c] => a # addr[c]]
  /\ addr' = [h \in Hosts |-> 0]
  /\ ctl' = [h \in Hosts |-> IF h = Root THEN ctl[h] ELSE Zeroed]
  /\ cls' = [h \in Hosts |-> Zeroed]
  /\ rootCls' = "none"
  /\ phase' = [c \in Children |-> "none"]
  /\ linked' = [c \in Children |-> FALSE]
  /\ UNCHANGED <<pc, who, plugged>>

DisconnectCrash ==
  /\ pc = "wait" /\ gState = "DISCONNECTED"
  /\ rootCls = "hub" /\ ~ChildrenHaveClass
  /\ pc' = "crashed"
  /\ UNCHANGED <<inUse, taken, addr, ctl, cls, gState, rootCls, phase, linked,
                 who, plugged, seen>>

Next ==
  \/ Plug \/ DisconnectISR \/ Attach
  \/ AttachedBegin \/ AttachedState \/ AttachedOut \/ AttachedIn
  \/ RootSetAddr \/ ReEnumStop \/ ReEnumRestart \/ Configure \/ Configured
  \/ CheckClass \/ InitOut \/ InitIn \/ InitEnd
  \/ HubBegin \/ HubEnd
  \/ \E c \in Children :
       \/ NewChildOut(c) \/ ChildSetAddr(c) \/ ChildInitOut(c)
       \/ ChildAbort(c) \/ ChildGone(c)
  \/ NewChildIn \/ ChildInitIn \/ LinkChild \/ ChildFailed
  \/ HandleDisconnect \/ DisconnectCrash

Spec == Init /\ [][Next]_vars
-----------------------------------------------------------------------------
(* Properties. *)

\* A slot <<h, part, dir>> is one place that records a pipe number: the
\* control or the class part of handle h, OUT or IN.
Parts == {"ctl", "cls"}
Dirs  == {"out", "in"}
Number(h, part, dir) ==
  LET pair == IF part = "ctl" THEN ctl[h] ELSE cls[h]
  IN  IF dir = "out" THEN pair.out ELSE pair.in

RootHolds(part, dir) ==
  IF part = "ctl"
  THEN /\ gState \notin {"IDLE", "ATTACHED", "DISCONNECTED"}
       /\ pc \notin {"attachOut", "reenum"}
       /\ pc = "attachIn" => dir = "out"
  ELSE gState = "CLASS" \/ pc \in {"initOut", "initIn", "initEnd"}
ChildHolds(c, part, dir) ==
  /\ phase[c] # "none"
  /\ ~(pc = "childIn" /\ who = c /\ part = "ctl" /\ dir = "in")

\* The slot's number is a channel its handle owns now: it was allocated and
\* not yet given back (a class slot that reads 0 was never filled).
Holds(h, part, dir) ==
  /\ IF h = Root THEN RootHolds(part, dir) ELSE ChildHolds(h, part, dir)
  /\ Number(h, part, dir) # NoPipe
  /\ part = "cls" => Number(h, part, dir) # 0

\* As long as no disconnect interrupt hit a pass, every channel recorded in a
\* live handle is allocated, and no channel is recorded twice, in two handles
\* or in two places of one: usbh_pipes.c hands a channel to one owner at a
\* time, whatever fails or leaks on the way.
HeldAreAllocated ==
  \A h \in Hosts, part \in Parts, dir \in Dirs :
    Holds(h, part, dir) => inUse[Number(h, part, dir)]
HeldOnce ==
  \A h, k \in Hosts, s, t \in Parts, d, e \in Dirs :
    Holds(h, s, d) /\ Holds(k, t, e) /\ Number(h, s, d) = Number(k, t, e)
      => h = k /\ s = t /\ d = e
ExclusivePipes == ~seen => HeldAreAllocated /\ HeldOnce

\* Back in HOST_IDLE nothing survives: every channel is free and no child
\* handle is left, whatever the disconnect interrupt interrupted.  This is
\* what lets the next enumeration start from a full table.
CleanAtIdle ==
  gState = "IDLE" => /\ \A p \in Pipes : ~inUse[p]
                     /\ \A c \in Children : phase[c] = "none" /\ ~linked[c]
                     /\ addr[Root] = 0

\* No two live devices answer to one bus address, and the address of a live
\* device is marked taken, in every interleaving with the interrupt.
UniqueAddresses ==
  /\ \A h, k \in Hosts : h # k /\ addr[h] = addr[k] => addr[h] = 0
  /\ \A h \in Hosts : addr[h] # 0 => taken[addr[h]]

\* An address without a live owner was left by a child that failed to
\* enumerate or went away before its class was up, and it is never handed
\* out again: the marks of such addresses only accumulate.
Orphans == {a \in Addrs : taken[a] /\ \A h \in Hosts : addr[h] # a}
OrphanAddressesStay == [][Orphans \subseteq Orphans']_vars
OrphansFromChildrenOnly ==
  [][Orphans' \subseteq Orphans \/
     \E c \in Children : /\ phase[c] \in {"enum", "abort"}
                          /\ phase'[c] = "none"]_vars
=============================================================================
