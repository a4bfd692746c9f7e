# Verification of the STM32F107 USB host firmware

The repository is the firmware of an STM32F107 board: FreeRTOS, lwIP on the
Ethernet port, and a USB host that drives a hub, mass storage and, through a
class driver of its own, an EC20 4G modem. It has no README and no tests; the
reference for everything here is the code and its comments. `src/` paths below
are shortened to the file name where that is unique.

## 1. Inventory

What the project calls its own code: the USB host library under
`Middle/STM32_USB_Host_Library` (ST's library, changed throughout: event-driven
control engine, hubs with child handles, re-enumeration, the EC20 class), and
`User/` and `Library/myLib`. Vendored and left aside: `Driver/` (ST HAL),
`FreeRTOS/`, `Middle/LwIP`, `Middle/FatFs`, `Core/` (CMSIS) and the class drivers
`test_usbh.c` never registers (CDC, CH340, HID, AUDIO, MTP, Template).

| Part | State it keeps | Operations | Interacts with |
| --- | --- | --- | --- |
| Channel and address tables (`usbh_pipes.c`, `USBH_Get_One_Address`) | `Pipes[]` (bit 15 = allocated), `address[]` | alloc, free, clear, hand out and release an address | every handle, from the host thread and from the disconnect interrupt |
| Control engine (`usbh_ctlreq.c`, `usbh_ioreq.c`) | `RequestState`, `Control.state`, `errorcount`, URB states | `USBH_CtlReq`, `USBH_HandleControl`, submit on a channel | channel interrupts set URB states and put messages; callers repeat the call |
| Host core (`usbh_core.c`, `usbh_conf.c`) | `gState`, `EnumState`, `last_ctrl_status`, `is_connected`, `os_event` | one pass per message; connect, port-enabled and disconnect interrupts; re-enumeration | control engine, class drivers, port, VBUS switch |
| Hub driver (`usbh_hub.c`) | port loop state, child handles, interrupt endpoint | port requests in busy loops, creation, run and removal of children, SOF submit | tables, control engine, core on each child |
| EC20 class (`usbh_ec20.c`) | transmit and receive machines, application pointer | submit, process, DeInit waiting for the application | URB events, SOF interrupt, application |
| EC20 application (`app_ec20.c`) | AT state, time-out count, one-entry queue, send thread | events from the class, time-outs, start, stop, delete | class driver, threads |
| Log ring (`fputc`, `tcp_send_thread`) | `tx_buffer`, 16-bit `p_write`, `p_read` | print a character (any context), send what is pending | `lwIP`, the thread that owns the connection |
| Network link (`test_lwip_seq_api.c`) | `connect_status`, `txbuf`, connection | create and end the sender, receive, close | lwIP, log ring |
| lwIP port (`sys_arch.c`) | mailboxes, semaphores | post, fetch, wait | CMSIS-RTOS |
| Start-up (`main.c`, `systemclockset.c`, `stm32f1xx_it.c`) | none | register set-up, thread creation | facts: OTG interrupt priority 5, SysTick 15 |

Behaviours that are hard here:

* Two writers of the host's state. The OTG interrupt preempts a pass of the
  host thread; a pass masks the port interrupt (`HPRTINT`) but the line that
  would mask the disconnect interrupt is commented out (usbh_core.c:481), so
  `USBH_LL_Disconnect` frees pipes and writes `gState` in the middle of a pass.
* Wake-ups. The thread sleeps on a queue of 10 messages that are put with
  time-out 0 (a full queue drops them) and looks at every state once per pass;
  a state that needs another pass must leave a message behind.
* Failure paths: NAK, STALL, transaction error, late answers, exhausted tables,
  children that fail half-way.
* Busy loops and delays, in the thread and in an interrupt handler.

What makes each part correct: a channel and an address have one owner and a
new start finds the tables empty; a control transfer completes only if the
device completed it, stages keep their order and no request sleeps for ever; an
undisturbed device reaches its class, a removed one leads back to `HOST_IDLE`;
each child's resources follow its handle; the modem's transfers are delivered
once and the stop protocol ends; every printed character goes out once, in
order, unless more are pending than the ring holds; the connection is not
closed under its sender. `PROJECT.json` lists the hazards, line by line.

## 2. Plan

Order of the modules, the most important behaviour first. All are written.

1. `UsbhPipes`, `UsbhPipes_proofs`: the shared tables.
2. `UsbhCtlReq` (operators), `UsbhControl` (engine, callers, faults), with the
   abstract `UsbControlTransfer` it implements, `UsbhControl_proofs`, and
   `UsbhCtlReq_proofs`, the lemmas that both users of the engine need.
3. `UsbhCore`, `UsbhCore_proofs`: the root port, composed with the operators of
   `UsbhCtlReq`.
4. `TxRing`: the log ring, its producers and its sender.
5. `LwipLink`: the two threads of the network link, composed with the ring, which
   they implement; `LwipLink_proofs` is about the ring and the link.
6. `Ec20Class`, `Ec20Class_proofs`: the modem's bulk transfers.
7. `Ec20App`, `Ec20App_proofs`: AT sequence, time-outs, one-entry queue, power
   cycle, stop protocol.
8. `UsbhHub`, `UsbhHub_proofs`: the hub's port loop and interrupt endpoint.

What could follow: one module with the channels of several devices, in which
`USBH_LL_Stop` for one of them halts those of all (usbh_conf.c:224); the
mass-storage transport. Proofs still worth doing: that `Ec20Class` implements a
reliable channel for the submitted buffers (now two invariants), that
`UsbhCore` goes through the enumeration's requests in their order, and the safety
halves of the liveness properties (what a progress step of the hub's loop and of
the disconnect can never undo).

## 3. The modules and the code

**`UsbhPipes`** is everything that happens to the two global tables.
`inUse[p]` is bit 15 of `Pipes[p]`, `taken[a]` is `address[a-1]`; `ctl[h]` and
`cls[h]` are the pipe numbers in a handle's `Control` and class data (a failed
allocation records 255, `NoPipe`, as the code does); `addr[h]` is
`device.address`. `phase` and `linked` follow a child's life and the hub's list.
`pc` cuts a pass of the thread wherever two table accesses are apart, and
`DisconnectISR` may come at each cut; its C code frees whatever numbers it finds
in the root's `Control`. `seen` remembers that it hit a pass. `Crash`
(`DisconnectCrash`) is the call through a NULL `pActiveClass`
(usbh_hub.c:365), after which nothing is promised.

**`UsbhCtlReq`** has the operators of the control engine and no next-state
relation of its own. Each state of `USBH_HandleControl` is an operator of the
same name; `Goto` is the assignment to `Control.state` with the end of
`USBH_CtlReq` (RequestState, `CTRL_IDLE` after OK), `n` the number of messages
the call puts. `chanIn`/`chanOut` is what a host channel carries, `urbIn`/`urbOut`
its `urb_state`; the eight channel events are the outcomes of
`HCD_HC_IN_IRQHandler` and `HCD_HC_OUT_IRQHandler`, with `ErrCnt` abstracted to
a choice between `URB_NOTREADY` and `URB_ERROR`. `dev` is the device as USB
defines it: a SETUP packet always starts a request, data and status are taken
only when due, a repeated transaction is acknowledged again. `events` is the
length of `os_event`, for the thread ignores what the message says.

**`UsbhControl`** adds the callers: the pass of the host thread that repeats a
request, a hub's port request that polls and gives up (usbh_hub.c:166-186), the
disconnect interrupt, the re-attachment, and other senders of the queue.
`FallThrough` is the hub's `HUB_REQ_CLR_FEATURE`, which goes on to the port loop
with its request half done (usbh_hub.c:605); `PollBegin` then finds the engine in
`CMD_WAIT`, fills no setup packet and polls for that request instead of its own,
which `taken` records.
`asked` is the request its caller repeats; `hurt` marks one that met a fault, or
the leftovers of an abandoned one, and is read by `RequestsAnswered` only.
**`UsbControlTransfer`** is the abstract specification: three stages in order,
completion from the status stage only. `ImplementsTransfer` is the refinement,
with `AbstractStage` and `AbstractResult` as the mapping.

**`UsbhCore`** composes the operators of `UsbhCtlReq` with `gState`, `EnumState`,
`last_ctrl_status` and the port. A pass starts at `Wake` (which masks
`HPRTINT`), does the branch of its `gState` and ends at `EndPass`; the branches
that wait (`HAL_Delay`, `USBH_Delay`), or write `gState` after a call that the
disconnect interrupt can come into, are cut there (`pc`). So are the write of
`gState` and the opening of the pipes (`AttachedEnd`, `OpenPipes`), the write and
the user's callback (`ClassInit`, `ClassUp`), and a call of `USBH_CtlReq` that starts
a transfer: `SubmitBegin` is past the test of the pipes (usbh_ctlreq.c:537),
`SubmitEnd` starts the transfer whatever has become of them. An interrupt that is
pending and not masked runs before the thread goes on (`ThreadRuns`).
`DisconnectBegin` and `DisconnectEnd` are the handler before and after its own
delay. `StopBusy` is its `HAL_HCD_Stop` when the thread holds the HAL's lock;
`unstopped` says that the last disconnect left a channel running, for that reason
or because it came into a submission. `app` is the modem's application as far as
the core depends on it: made by `ClassUp`, started by `StartApp`, deleted in the
disconnect interrupt. `DeInitEnd` of the modem's class waits until it is gone; an
interrupt that finds none to delete never ends (`isr = "spin"`), one that deletes an
application whose thread is not there deletes the interrupted host thread, and a
hub's `DeInit` may crash (both `pc = "dead"`).
`troubled` marks a device that met something a run allows to go wrong.

**`TxRing`** is `fputc` against `tcp_send_thread`. `Fputc` is one critical
section; the sender's accesses are separate steps: `See` tests the indices,
`Snapshot` copies them (the second read of `p_write` may reuse the first, the
field is not volatile), `Copy` sends one character, `Update` advances `p_read`.
The n-th printed character is the number n and a zeroed slot is 0, so `sent`
shows loss, repetition and invention.

**`LwipLink`** extends `TxRing` with the life around it. `main` is where
`start_lwip_thread_seq` stands, from `netconn_new` (`Open`) to `netconn_delete`
(`Close`); `thread` the sender's life, `status` is `connect_status`, and `txbuf` is
NULL exactly when the ring's `pc` is `"none"`. `SenderSends` is a step of the ring
while the connection is there. A sender ends itself with
`osThreadTerminate(NULL)` and is freed by the idle task; the main thread's
`osThreadTerminate(id)` on such a sender leads to `main = "undefined"`, from where
only the rest goes on.

**`Ec20Class`** has the two machines of `USBH_EC20_Process`. A pass is
`ProcessTransmission`, then `ProcessReception` (`pc` is between them, for an
interrupt can come there). Each channel outcome is an action (`OutDone`, `OutNak`,
`OutStall`, `OutError`, `InDone`, `InRetry`, `InStall`); an OUT channel is halted by a
NAK, but enabled again by an error, with the packet unchanged. The modem checks
the data PID, so a repeated packet shows as such. A byte is named by its buffer
and place.

**`Ec20App`** is three contexts over `AppliEvent`: the send thread (`spc` its
place), the host thread, which calls `new_app`, `start_app` and the receive callback,
and the disconnect handler (`dpc`), which on the root port is an interrupt (no
thread moves while it waits in `HAL_Delay`) and behind a hub part of the host
thread. `recv` is the function pointer `ec20_recvdata`: after `Select` the next
packet, whatever it is, goes to the selected command's function. `start_app` is
cut where the interrupt of the root port can come (`start`): `ClassActive` creates the
thread, `StoreId` stores its id, `Arm` puts READY; a disconnect before the second
finds no thread to terminate (`StopMisses`). `PowerCycle`, `ReleaseKey`, `PowerIsOff`
and `PowerIsOn` are `ec20PowerInit` cut at its pulses on the power key and its waits
for the status pin; a thread terminated while it holds the key leaves it down,
which the modem may take for a pulse or not.
`said`, `overlap` and `cut` are ghosts: which results the modem really gave,
whether a command went out before the answer to an earlier one, whether a
power cycle was cut off before the end of its second pulse.

**`UsbhHub`** is one hub. `ctl` is `ctl_state`, a pass of `USBH_HUB_Process` takes one
message (`Pass`), and the loop over the ports is cut at every request (`pc`): the
head with `GetPortStatus`, the clearing of each change bit, the making of a child,
the reset. `st` is the status the loop acts on, which is what `device.Data` held
when it was last read; `dev`, `pow`, `ena` and `chg` are the port as it is. A device
is the number of its connection, so an old handle and a new device differ.
`SOFProcess` may come between any two steps. The ghost `missed` is the set of
ports at which something happened that the driver cannot see (its comment in
the module lists them); the properties are about the others.

## 4. What TLC checks

| Run | Instance | Shows |
| --- | --- | --- |
| `pipes` | 7 channels, 3 addresses, root with hub and two children, symmetric ports; 8.7 million states | a channel has one owner (`ExclusivePipes`, while no disconnect hit a pass), `HOST_IDLE` finds the tables clean, addresses are unique, and only failed children leak them |
| `control` | queue of one entry, `MaxErrors` 2, all faults; 275 000 states | `NoLostWakeup`, `HostBehindDevice`, `WaitsForSomething`, `OkMeansDone`, `RequestsAnswered`, `ImplementsTransfer` |
| `core` | queue of one, `MaxErrors` 1, all upsets; 1.0 million states | no state is left that needs a pass nobody will make, a transfer runs without its pipe only after the two disconnects that `unstopped` marks, each enumeration starts fresh (but for such a channel), an untroubled device reaches its class, a disconnect without a living application or hub is worked off |
| `txring` | ring of 4, indices modulo 8, characters up to the bound, any number of connections; 200 000 states | in order and complete without an overrun, nothing invented with one, everything sent in the end, no working sender terminated |
| `ec20_class` | packets of 2, buffers of 1 to 4 bytes, short queue, one bus error; 117 000 states | each buffer is one transfer of the modem's, no byte lost, packets handed up once, no machine asleep on work, transfers end |
| `ec20_app` | one query state, 3 attempts, 2 sessions, 2 unanswered commands; 1.8 million states | states follow results, no sender outlives its application (but one whose id is not stored yet); behind a hub the modem is switched on again and a sequence leads on |
| `hub` | 2 ports, 2 connections, queue of one, one fault, one stall; 389 000 states | a handle belongs to the device at its port, live handles are kept, changes are worked off |

Why the bounds are enough. Seven channels and three addresses are fewer than
the hub, its interrupt pipe and two children ask for, so both tables run out;
two children suffice for any pair of owners. The control engine has one request
at a time, so a queue of one entry already drops messages and makes the
lost-wake-up question hardest; two retries reach both branches of `CTRL_ERROR`
and its counter's end. In `core` one retry and one message keep the state space
small while every branch of the pass stays reachable; with two messages all its
properties hold as well. A ring of four gives
wrapped and unwrapped rounds, an overrun by one and by many, and the characters
pass the end of the index type. Packets of two bytes have buffers shorter than,
as long as and longer than a packet, which is what the empty packet depends on.
In `ec20_app` one query between "SMS DONE" and RUNNING has every kind of state in
the sequence; the second session shows what the first leaves; two unanswered
commands are what a late answer needs. In `hub` two ports let the loop work at
one while the other changes, and two connections make a replug; with three
devices and a queue of two, or with two faults, the safety properties hold as
well (13 and 1.9 million states), but the liveness takes too long for a regular run. The real sizes (8 to 12 channels, a queue of
10, a ring of 128, 16-bit indices) differ only in number.

Each passing property is also run against a plausible bug in the code, kept
beside the definition it changes and called a mutant there (a missing message,
a stale URB state, an unmarked address, ...): every one of them is found.

### Where the code and its comments disagree

Five runs look for a behaviour that contradicts a comment, and find it.

* `control_retry`: `CTRL_ERROR` prepares a new SETUP but puts no message, the only
  branch that leaves work without one; after `USBH_LL_Stop` no channel interrupt
  can come, so the retry waits for an unrelated wake-up (usbh_ctlreq.c:847-855).
* `control_stall`: a stalled status stage never leaves its state, though the
  comment says it exits (usbh_ctlreq.c:787-795).
* `core_tick`: the disconnect interrupt (priority 5) waits for the HAL tick, whose
  interrupt has priority 15: it never returns (usbh_core.c:1136).
* `core_reconnect`: a device back in the socket before the disconnect was worked
  off is never enumerated (usbh_core.c:1088).
* `core_removed`: a pass overwrites the `HOST_DEV_DISCONNECTED` the interrupt has
  just written (usbh_core.c:554 and its like).

The other `core` runs assume that the disconnect handler's delay ends
(`TickPreempts = TRUE`); otherwise nothing could be said of what follows it.

## 5. Fairness

* `Wake` and the thread's step are weakly fair: the host thread is woken by a
  message and the delays end. Nothing of higher priority runs for ever: the
  interrupt handlers are short, and FreeRTOS always gives the processor to the
  ready thread of the highest priority.
* The device's acceptance of a transaction on an OUT or IN channel is strongly
  fair, for a NAK disables it: a device that is asked again and again answers
  in the end. NAKs, stalls, errors, unplugging and foreign events have no
  fairness, they only may happen. USB allows a device to answer NAK for ever;
  `RequestsAnswered` and `EnumerationCompletes` are about devices that do not.
* Pending interrupts in `UsbhCore` are weakly fair: the interrupt controller
  delivers them. The class's `DeInit` ends only once the modem's application is gone
  (usbh_ec20.c:151): weak fairness of the pass does not help before. That a hub's
  `DeInit` crashes is a step without fairness. `DisconnectHandled` says what is left:
  a disconnect that finds no application, and no hub, leads back to `HOST_IDLE`
  unless another disconnect comes first.
* In `LwipLink` the main thread and the sender are weakly fair: their loops poll,
  and a call of the stack ends, in time or with an error.
* In `Ec20Class` the two halves of a pass are weakly fair; the modem takes a packet
  and sends one with strong fairness, as above.
* In `Ec20App` the send thread, its time-out (30 s without a message), the tick a
  put waits and the rest of `start_app` are weakly fair, and so is the
  modem's reaction to a pulse on its power key. It is never obliged to answer a
  command, nor to be enumerated again. Nothing obliges the stop protocol's waits to
  end: on the root port they are `HAL_Delay(500)` in the interrupt
  (app_ec20.c:319-324), which never ends by `core_tick`, and the send thread is
  frozen under it. `SwitchedOnAgain` and `SequenceLeadsOn` are therefore about a modem
  behind a hub, where the thread goes on beside the waits. `SequenceLeadsOn`
  assumes that from some time on no message is lost in a full queue.
* In `UsbhHub` passes and frames are weakly fair. The answers of the hub, and the
  passes that see the URB states DONE and STALL, are strongly fair: the next
  frame's submission resets the URB state, but a poll interval (tens of
  milliseconds at the least) is long for a thread of normal priority, so the
  thread sees the state in time again and again, though not each time.

## 6. What is proved

All theorems hold for every value of the constants under the named assumptions
of the modules, which are sizes only (at least one queue entry, a natural retry
limit, non-empty tables, an index range that is a multiple of the ring, the
root not among the children).

`UsbhPipes_proofs`
* `TypeCorrect`: `TypeOK` is inductive. The lemmas before it say that an
  allocation, a release or a cleared entry keeps the tables' types.
* `AddressesUnique`: `UniqueAddresses` is inductive with `TypeOK`. The lowest free
  address was free, hence nobody's, because every live address is marked.
* `PipesExclusive` (`ExclusivePipes`): an allocated channel was free, so nobody's.
  What makes it hard is the record in the handle: `OwnerInv` ties each place of the
  thread to the handle it works on (it exists, it is not linked yet, its `gState`
  is the one the pass began with), so that an allocation goes to a slot that is
  not held, and a handle that is freed takes its pipes along. It ends where a
  disconnect hit a pass (`seen`), for there the code does free a channel under
  its new owner.
* `OrphansStay`, `OrphansOfChildren`: an address loses its handle only when a child
  is dropped in its bring-up, and is not released afterwards; needs that a free
  child handle has no address (`AddressInv`).
* `CleanRestart`: `CleanAtIdle` is not inductive: a child created in a pass would
  survive if the root could reach `HOST_IDLE` meanwhile. `Phasing` says where
  the thread stands while a child handle exists and which `gState` that needs.

`UsbhControl_proofs` rests on one inductive invariant, `IInv`:
* `StageInv`: for a request in progress, which token each state's channel
  carries, and how far the device must have come once that channel says
  `URB_DONE`. Without it `URB_DONE` could be an older transfer's. `QuietInv`, a
  part of it, excludes a SETUP packet behind the engine's back: such a packet
  would turn the device to another request.
* `OwnerInv`: the engine's request is its caller's, unless it is the half-done one
  the hub's port loop found (`taken`), or is `Stuck` in a
  stalled stage. `USBH_MSC_ClassRequest` goes on to another request after
  `NOT_SUPPORTED`, so this exception is real, and the proof shows that a stuck
  engine never answers OK.
* `WaitInv` and `PollInv`: a pending request has answered BUSY or NOT_SUPPORTED; a
  stalled IN channel is halted; a polling caller has a request.

From it follow `TypeCorrect`, `HostBehind` (`HostBehindDevice`), `OkIsDone`
(`OkMeansDone`: OK is returned from a status stage whose channel says DONE, and
then `StatusInv` says that the device has finished the engine's request, and
`OwnerInv` whose it is: the caller's, or after the fall-through not) and
`Implementation` (`ImplementsTransfer`: each call of `USBH_CtlReq` is one step of
the transfer or none, a dropped request is a given-up transfer; the direction
of the status stage needs `DataInv`). `NeverWaitsForNothing` and `WakeupKept`
(`WaitsForSomething`, `NoLostWakeup`) are inductive by themselves, given `IInv`
for the types.

`UsbhCore_proofs`. The steps of `UsbhCore` are of three sorts: a pass that calls
`USBH_CtlReq` (`Calling`), an answer on the bus, and the rest. What the engine does
in the first two is in the lemmas of `UsbhCtlReq_proofs`, which `UsbhControl_proofs`
uses as well.
* `TypeCorrect`: `TypeOK` is inductive.
* `NoneStray` (`NoStrayTransfer`): an engine without pipes starts no transfer unless
  it was past their test already (`Submitting` says where that is), and every step
  that frees the pipes halts the channels unless the HAL's lock is taken; after
  both, `unstopped` is set. `Closed` adds that a handle which waits for its reset has
  no pipes, so that the reset may skip them.
* `EnumerationsFresh` (`FreshEnumeration`): `Clean` follows the handle from its reset
  to the pass that opens its pipes. It cannot be stated by `gState` alone: a
  disconnect during that pass's delay makes it DISCONNECTED, and the pass then
  overwrites that (the disagreement of `core_removed`) with a handle that still is
  as the reset left it. A channel still running at that time is one a disconnect
  could not stop (`unstopped`); the request and the error count are fresh even then.
* `NoneForgotten` (`NoPassForgotten`): `Told` says what is due, and that a message
  stands for it, also while a pass is on its way that will put none: after
  SET_ADDRESS, the last string or SET_CONFIGURATION the message of the request that
  just ended is the one the next `gState` lives on. A missing string may also be
  told by an interrupt that is still to come (`PortTells`). `Posture` says what
  each place of the thread excludes; `CallTells` is the heart: a call of the engine
  without a message leaves it waiting for a channel or after a bus error. The
  retry after an error is left out of `NoPassForgotten`: it is the disagreement of
  `control_retry`.

`LwipLink_proofs`, on the ring: `TypeCorrect`, and `NoInvention` for `NothingInvented`.
Its invariant says which slots have been written: all of them once as many
characters as the ring has slots were printed, before that the first ones, and
that a round's snapshot lies among them. The indices have a width that is a
multiple of the ring's size (`IndexAssumption`), which makes a slot of an index
the same before and after it wraps. `OrderKept` (`SentInOrder`) counts: the last `Size` characters are in the
ring at their number modulo `Size` (`Written`), and `p_read` is the number of
characters whose round is over, which while the ring has not overrun is less than
`Size` behind what is printed (`Accounted`, `InOrder`). The lemmas on the way are
about `%`: sums and differences modulo two sizes one of which divides the other,
and that fewer than `Size` consecutive indices have different slots.

`LwipLink_proofs`, on the two threads: `SenderOver` rests on `Phasing`: a sender
without a ring exists only while `connect_status` is LINK_WAITING. `LinkImplementsRing` maps each step
of the two threads to a step of the ring or none, so `LinkInventsNothing` and
`LinkKeepsOrder` follow from `NoInvention` and `OrderKept`.

`Ec20Class_proofs`: `TypeCorrect`; `NoTransferStranded` (`NeverStranded` is inductive
with the types); `PacketsOrdered`, which needs that an enabled IN channel belongs
to a waiting machine that has no packet in hand. `BuffersArriveInOrder`
(`BuffersInOrder`) and `NoByteIsLost` (`NoByteLost`) share `HostInv`, the driver's
side: what an enabled channel carries, and that the flag for the empty packet is
set exactly when whole packets are left. Without a bus error what the modem has
assembled and what the driver still holds make up the newest buffer (`WholeInv`).
With errors that is false, for a packet is taken twice; then each byte is
followed by itself (`BytesInv`), and the data PIDs tell that the modem is at most
the one packet ahead that the driver still works at.

`Ec20App_proofs`: `TypeCorrect`, where the counts stay within their limit because
the thread looks at it first (`Paced`). `SenderGuards` (`SenderUsesLiveApp`): the
invariant ties a running thread to its handle's `app_class`, which is what makes
the disconnect stop it (`Guarded`), until the handler itself is dead: `Launch` says
that a thread being started still waits for its first message, and that only on
the root port a disconnect comes before its id is stored. `StatesReached` (`StatesInOrder`) has two layers.
`Ready` says that a session starts from nothing: no command, answer or message of
the session before is under way and a modem without power is not on the bus
(`Supply`, `Afresh`), and "SMS DONE" comes once for a start of the modem
(`SaidOnce`). On it, `Order` is the protocol: while no command overlaps
another, the modem, the function that waits for the answer and the messages on
their way agree on the state the sequence is in, and a result in the queue was
really given (`Lawfully`, `Exchange`, `Early`, `Late`).

`UsbhHub_proofs`: `TypeCorrect` (with `Steering`, where the loop can stand), and
`LiveChildKept` for `KeepsLiveChild`. Its invariant `Live` has four parts: connections
are numbered as they come; a child is made only for a port without one; the
port of a live child is enabled; and `StatusHolds`, what the status the loop acts
on still tells of its port. The last is the heart: the status may be of an
earlier device only if the port has no child.
`ChildrenMatch` (`ChildIsTheDevice`) needs the opposite direction, that a change is
not forgotten: `Settled` says that a difference between a port and its child is
in the port's changes, or the loop is at that port and has read the status of the
device that is there (`Noted`, `StatusCurrent`), that a replug is seen as a removal
first (`Fresh`), and that a port without power has no device before the ports are
powered (`Unpowered`). The proof first failed at `GetPortStatusFails`, and rightly:
when two requests fail, the loop can clear a port's changes, give the port up and
so forget a device, which the run's single fault never reached. `missed` now counts
such a port among those whose change the driver cannot see.

Every safety property of the passing runs, invariant or action property, is now
also a theorem. Only model-checked are:

* the liveness properties (`RequestsAnswered`, `EnumerationCompletes`,
  `DisconnectHandled`, `PrintedIsSent`, `TransfersEnd`, `SwitchedOnAgain`,
  `SequenceLeadsOn`, `ChangesWorkedOff`): fairness and ENABLED are out of the
  prover's reach;
* the five disagreements of section 4, for which a counterexample is the result.

### What the models show beside the properties

Behaviours met while modelling that no comment contradicts, so no run is stated
for them; each is a hazard in `PROJECT.json`:

* Hub: the port loop never leaves a port without power, one that does not enable,
  or one for which `malloc` fails; while it spins no other child is served. A
  device that comes or goes between the reading of the status and the clearing
  of its change bit is not noticed. After a stall of the interrupt endpoint the
  fall-through at usbh_hub.c:605 acts on an old status.
* Network link: `osThreadTerminate(id)` (test_lwip_seq_api.c:469) also hits a sender
  that has already ended itself, although the kernel may have freed it.
* Hub, in the control engine: after the fall-through `GetPortStatus` is told OK for the
  half-done `ClrFeature`, whether its own request was ever sent or not.
* Host core: a disconnect between `USBH_CtlReq`'s test of the pipes and its submission
  (usbh_ctlreq.c:537-606), or one that finds the HAL locked
  (stm32f1xx_hal_hcd.c:1022), leaves a channel running whose pipe is free.
* Host core and modem: if the disconnect comes after the write of `gState` but before
  `new_app` (usbh_core.c:629-633), the application is made for a handle that is
  gone already, and its class's `DeInit` waits for ever (usbh_ec20.c:151).
* Application: a disconnect before `new_app` succeeded never returns
  (app_ec20.c:349); stopping an application without a thread deletes the caller,
  and one whose thread ended itself deletes it twice (app_ec20.c:329). On the root
  port an interrupt between the creation of the thread and the storing of its id
  (app_ec20.c:278) deletes the thread it interrupted, frees the application and
  leaves the send thread with it.
* Application: a disconnect caused by the power cycle can end the thread between the
  two pulses, or with the power key held down, and the modem stays off
  (test_usbh.c:149-171).

## 7. What is not modelled

* Vendored code (HAL, FreeRTOS, lwIP, FatFs, the class drivers never
  registered); of the HAL only the outcomes of the channel interrupts appear.
* The parsers and checks of descriptors, and every print-out.
* The interrupt between `USBH_CtlReq`'s test of the pipes and its submission in
  `UsbhControl`, where one call is one step; `UsbhCore` has it.
* The HAL's lock held by the thread while it stops the host itself
  (`USBH_ReEnumerate`, `CTRL_ERROR`): its own stop is finished after the interrupt.
* `USBH_HUB_ClearPort` and `SetPort` fill the setup packet without a look at
  `RequestState`; they follow a status that was OK, or each other, so the engine is
  in `CMD_SEND` then.
* In `UsbhCore` `new_app` finds its memory, and the 500 ms waits of `stop_app` are part of
  the interrupt's one delay; `Ec20App` has both.
* What a power key that stays down does to the modem: any of the two pulses, or
  nothing.
* The byte in front of `address[]` that `DeInitStateMachine` clears when the
  address is 0.
* Hubs behind hubs, mass storage's own pipes (it allocates like any function
  driver), remote wake-up.
* The channels of several devices at once: `UsbhHub` takes a request as one step,
  `UsbhControl` has one engine, `Ec20Class` one function's channels.
* `test_lwip.c` and the echo server, which no thread starts; DHCP and the inside of
  the `netconn` calls; the lwIP port (`sys_arch.c`), whose functions keep no state.
* The texts of AT commands and answers: a packet names a command, or not, and
  has the wanted result, or not.

By far most lines under `src/` are vendored (HAL, kernel, stacks, register and code
page tables): the models cover the firmware's own control code, which is a
small part of the repository.
