------------------------------- MODULE Ec20App -------------------------------
(***************************************************************************)
(* The application of the EC20 modem (app_ec20.c, with test_usbh.c): the   *)
(* AT sequence, driven by the send thread through a queue of one message   *)
(* and by the receive callback in the host thread; its time-outs and the   *)
(* power cycle of the modem (ec20PowerInit); and its life: new_app and     *)
(* start_app from the enumeration, stop_app and delete_app from            *)
(* USBH_LL_Disconnect.  Behind a hub the disconnect is worked off in the   *)
(* host thread; on the root port it runs in the interrupt, where neither   *)
(* thread can move while it waits.  HAL_Delay is a busy loop.              *)
(*                                                                         *)
(* The class driver below is the one of Ec20Class: one buffer at a time is *)
(* accepted and reaches the modem once; every packet reaches the callback, *)
(* the segments of a long one as one.  The modem echoes a command before   *)
(* it answers.  A command is the number of the state that sends it.        *)
(***************************************************************************)
EXTENDS Integers, Sequences

CONSTANTS
  Queries,      \* number of the states QUERY_CARD .. ACTIVATE_PDP
  MaxTimeOutNum,  \* MAX_TIME_OUT_NUM
  Sessions,     \* bound: enumerations of the modem
  MaxAsked      \* bound: commands the modem takes before it answers

ASSUME QueriesAssumption == Queries \in Nat
ASSUME TimeOutAssumption == MaxTimeOutNum \in Nat \ {0}
ASSUME BoundsAssumption == Sessions \in Nat /\ MaxAsked \in Nat

\* ApplicationTypeDef
IDLE == 0
READY == 2
SMS_DONE == 3
RUNNING == 4 + Queries
DISCONNECT == RUNNING + 1
States == IDLE .. DISCONNECT
Commands == {READY} \cup (SMS_DONE + 1 .. RUNNING)   \* the states that send
None == -1                                           \* no message

VARIABLES
  place,       \* "hub" or "root": where the modem is plugged in
  link,        \* its handle: "none", "enumeration", "selected", "class"
  start,       \* start_EC20_Application: "no", "created": it has created the
               \* send thread, or "stored": it has stored the thread's id
  session,     \* enumerations so far
  appClass,    \* phost->app_class is set
  app,         \* phost->app_data: "null" or "live"
  appli, timeouts, stopFlag,   \* Appli_state, timeout_times, g_stop_flag
  recv,        \* ec20_recvdata: None for cmd_select, or the command whose
               \* recv function takes the next packet
  mbox, pend,  \* AppliEvent: a message, or None; the message the host thread
               \* is putting into the full queue
  sender,      \* the send thread: "none", "running", "ended" (it deleted
               \* itself) or "killed"
  spc,         \* where the send thread stands
  msg, status, \* its event.value.v, and Status = USBH_OK
  dpc,         \* the disconnect handler: "none", "wait", "spin" or "dead"
  tx, txCmd,   \* the class driver: "free", "busy" or "stuck"
  power, pulse,    \* the modem's supply, and a pulse on PWRKEY to follow
  onBus,       \* the modem is on the bus
  asked, echoed,   \* commands it has not answered, and whether it has echoed
               \* the first of them
  due,         \* messages it sends by itself after a start and has not sent:
               \* "SMS DONE", then another
  said,        \* states before RUNNING whose command it answered in this
               \* session with the result the table cmd[] looks for, and
               \* SMS_DONE when it said so; not kept after an overlap
  overlap,     \* in this session a command was sent before the answer to an
               \* earlier one was worked off
  cut          \* a send thread was terminated after it had pressed the power
               \* key to switch the modem off, before it had released it the
               \* second time

handleVars == <<place, link, session, appClass, start>>
appVars == <<app, appli, timeouts, stopFlag, recv, mbox, pend>>
senderVars == <<sender, spc, msg, status>>
txVars == <<tx, txCmd>>
modemVars == <<power, pulse, onBus, asked, echoed, due>>
ghosts == <<said, overlap, cut>>
vars == <<handleVars, appVars, senderVars, dpc, txVars, modemVars, ghosts>>

Names == Commands \cup {SMS_DONE, None}

\* The handle, the queue and the sequence keep their types; the attempts at a
\* state are counted up to MAX_TIME_OUT_NUM + 1.
TypeOK ==
  /\ place \in {"hub", "root"}
  /\ link \in {"none", "enumeration", "selected", "class"}
  /\ session \in 0 .. Sessions /\ start \in {"no", "created", "stored"}
  /\ appClass \in BOOLEAN /\ app \in {"null", "live"}
  /\ appli \in States /\ timeouts \in 0 .. MaxTimeOutNum + 1
  /\ stopFlag \in BOOLEAN
  /\ recv \in Names
  /\ mbox \in States \cup {DISCONNECT + 1, None}
  /\ pend \in States \cup {DISCONNECT + 1, None}
  /\ sender \in {"none", "running", "ended", "killed"}
  /\ spc \in {"get", "timeout", "handle", "end", "offKey", "offWait", "onKey",
              "onWait"}
  /\ msg \in States \cup {DISCONNECT + 1} /\ status \in BOOLEAN
  /\ dpc \in {"none", "wait", "spin", "dead"}
  /\ tx \in {"free", "busy", "stuck"} /\ txCmd \in Commands
  /\ power \in BOOLEAN /\ pulse \in {"none", "off", "on"} /\ onBus \in BOOLEAN
  /\ asked \in Seq(Commands) /\ echoed \in BOOLEAN
  /\ due \in 0 .. 2
  /\ said \subseteq States
  /\ overlap \in BOOLEAN /\ cut \in BOOLEAN

\* start_usbh_thread has switched the modem on (test_usbh.c:234).
Init ==
  /\ place \in {"hub", "root"}
  /\ link = "none" /\ session = 0 /\ appClass = FALSE /\ start = "no"
  /\ app = "null" /\ appli = IDLE /\ timeouts = 0 /\ stopFlag = FALSE
  /\ recv = None /\ mbox = None /\ pend = None
  /\ sender = "none" /\ spc = "get" /\ msg = IDLE /\ status = FALSE
  /\ dpc = "none"
  /\ tx = "free" /\ txCmd = READY
  /\ power = TRUE /\ pulse = "none" /\ onBus = TRUE
  /\ asked = <<>> /\ echoed = FALSE /\ due = 2
  /\ said = {} /\ overlap = FALSE /\ cut = FALSE

-----------------------------------------------------------------------------
(* The queue.  osMessagePut with time-out 0 waits one tick for room, except  *)
(* in an interrupt; the sender waits for nobody, it alone takes messages.    *)
PutNow(m) == mbox' = IF mbox = None THEN m ELSE mbox
PutFromHost(m) ==
  IF mbox = None THEN mbox' = m /\ UNCHANGED pend
                 ELSE pend' = m /\ UNCHANGED mbox

\* While the handler of a disconnect waits, the host thread is in it, or is
\* preempted by it; in the interrupt the send thread is, too.
HostRuns   == dpc = "none" /\ pend = None /\ start = "no"
HostStarts == dpc = "none" /\ pend = None /\ app = "live"
SenderRuns == sender = "running" /\ (dpc = "none" \/ place = "hub")

PutEnds ==
  /\ pend # None /\ pend' = None
  /\ dpc = "none" \/ place = "hub"
  /\ PutNow(pend)
  /\ UNCHANGED <<handleVars, app, appli, timeouts, stopFlag, recv, senderVars,
                 dpc, txVars, modemVars, ghosts>>

-----------------------------------------------------------------------------
(* The enumeration, in the host thread.                                      *)

Enumerate ==
  /\ HostRuns /\ link = "none" /\ onBus /\ session < Sessions
  /\ link' = "enumeration" /\ session' = session + 1
  /\ appClass' = (appClass /\ place = "root")    \* a child's handle is new
  /\ UNCHANGED <<place, start, appVars, senderVars, dpc, txVars, modemVars,
                 ghosts>>

\* HOST_USER_CLASS_SELECTED: app_class is set, then new_EC20_Application,
\* which may find no memory.
ClassSelected ==
  /\ HostRuns /\ link = "enumeration"
  /\ link' = "selected" /\ appClass' = TRUE
  /\ \/ /\ app' = "live" /\ appli' = IDLE /\ timeouts' = 0
        /\ stopFlag' = FALSE /\ recv' = None /\ mbox' = None
        /\ sender' = "none"
     \/ UNCHANGED <<app, appli, timeouts, stopFlag, recv, mbox, sender>>
  /\ UNCHANGED <<place, session, start, pend, spc, msg, status, dpc, txVars,
                 modemVars, ghosts>>

\* HOST_USER_CLASS_ACTIVE: start_EC20_Application creates the send thread,
\* stores its id, then arms the receive buffer and puts READY.  On the root port
\* a disconnect comes between.  Without an application it would write through a
\* null pointer, or into what was freed: the model stops there.
ClassActive ==
  /\ HostRuns /\ link = "selected" /\ app = "live"
  /\ \/ /\ sender' = "running" /\ spc' = "get" /\ status' = FALSE
        /\ start' = "created" /\ UNCHANGED link
     \/ link' = "class" /\ UNCHANGED <<start, sender, spc, status>>  \* it failed
  /\ UNCHANGED <<place, session, appClass, appVars, msg, dpc, txVars, modemVars,
                 ghosts>>

StoreId ==
  /\ HostStarts /\ start = "created"
  /\ start' = "stored"
  /\ UNCHANGED <<place, link, session, appClass, appVars, senderVars, dpc, txVars,
                 modemVars, ghosts>>
Arm ==
  /\ HostStarts /\ start = "stored"
  /\ start' = "no" /\ link' = "class"
  /\ PutFromHost(READY)
  /\ UNCHANGED <<place, session, appClass, app, appli, timeouts, stopFlag, recv,
                 senderVars, dpc, txVars, modemVars, ghosts>>

-----------------------------------------------------------------------------
(* The send thread.                                                          *)

SenderFrame == UNCHANGED <<handleVars, app, recv, pend, dpc, cut>>

Get ==
  /\ SenderRuns /\ spc = "get" /\ mbox # None
  /\ msg' = mbox /\ mbox' = None
  /\ spc' = "handle"
  /\ SenderFrame
  /\ UNCHANGED <<appli, timeouts, stopFlag, sender, status, txVars, modemVars,
                 said, overlap>>

\* osMessageGet returns after 30 s without a message; the tick of a put and
\* start_app are over long before.
GetTimesOut ==
  /\ SenderRuns /\ spc = "get" /\ mbox = None /\ pend = None /\ start = "no"
  /\ spc' = "timeout"
  /\ SenderFrame
  /\ UNCHANGED <<appli, timeouts, stopFlag, mbox, sender, msg, status, txVars,
                 modemVars,
                 said, overlap>>

\* A mutant: nothing is repeated.
TimedOutSilent ==
  /\ SenderRuns /\ spc = "timeout"
  /\ UNCHANGED <<timeouts, mbox>>
  /\ spc' = "end"
  /\ SenderFrame
  /\ UNCHANGED <<appli, stopFlag, sender, msg, status, txVars, modemVars,
                 said, overlap>>

\* Repeat the state; a packet may have come in the meantime.
TimedOut ==
  /\ SenderRuns /\ spc = "timeout"
  /\ IF timeouts <= MaxTimeOutNum
     THEN timeouts' = timeouts + 1 /\ PutNow(appli)
     ELSE UNCHANGED <<timeouts, mbox>>
  /\ spc' = "end"
  /\ SenderFrame
  /\ UNCHANGED <<appli, stopFlag, sender, msg, status, txVars, modemVars,
                 said, overlap>>

\* An answer, or the message it led to, is on its way to the thread.
InProgress == asked # <<>> \/ recv # None \/ mbox # None \/ pend # None

\* EC20_send_data.  The answer of USBH_EC20_Transmit is not looked at in READY.
Send(command) ==
  /\ IF tx = "free"
     THEN /\ tx' = "busy" /\ txCmd' = command
          /\ overlap' = (overlap \/ InProgress)
          /\ said' = IF overlap' THEN {} ELSE said
     ELSE UNCHANGED <<txVars, overlap, said>>
  /\ status' = (tx = "free" \/ command = READY)

\* The switch on the message.
Handle ==
  /\ SenderRuns /\ spc = "handle"
  /\ IF msg \in Commands \cup {SMS_DONE}
     THEN appli' = msg /\ timeouts' = timeouts + 1
     ELSE /\ appli' = IF msg = DISCONNECT THEN DISCONNECT ELSE appli
          /\ UNCHANGED timeouts
  /\ IF msg \in Commands
     THEN Send(msg)
     ELSE status' = TRUE /\ UNCHANGED <<txVars, overlap, said>>
  /\ spc' = "end" /\ msg' = IDLE                        \* not read again
  /\ SenderFrame
  /\ UNCHANGED <<stopFlag, mbox, sender, modemVars>>

\* The thread's last statements.
Exit == stopFlag' = FALSE /\ sender' = "ended" /\ UNCHANGED spc

\* The end of an iteration: a refused command is repeated at once.
EndOfLoop ==
  /\ SenderRuns /\ spc = "end" /\ timeouts <= MaxTimeOutNum
  /\ IF status THEN UNCHANGED mbox ELSE PutNow(appli)
  /\ IF stopFlag /\ appli = DISCONNECT
     THEN Exit
     ELSE spc' = "get" /\ UNCHANGED <<stopFlag, sender>>
  /\ SenderFrame
  /\ UNCHANGED <<appli, timeouts, msg, status, txVars, modemVars,
                 said, overlap>>

\* Too many attempts: ec20PowerInit presses the power key, to switch the modem
\* off or on, as the status pin says; after it the thread leaves its loop.
PowerCycle ==
  /\ SenderRuns /\ spc = "end" /\ timeouts > MaxTimeOutNum
  /\ timeouts' = 0
  /\ spc' = IF power THEN "offKey" ELSE "onKey"
  /\ SenderFrame
  /\ UNCHANGED <<appli, stopFlag, mbox, sender, msg, status, txVars, modemVars,
                 said, overlap>>

\* The key is released after 700 ms: that is the pulse.
ReleaseKey ==
  /\ SenderRuns
  /\ \/ spc = "offKey" /\ spc' = "offWait" /\ pulse' = "off"
     \/ spc = "onKey" /\ spc' = "onWait" /\ pulse' = "on"
  /\ SenderFrame
  /\ UNCHANGED <<appli, timeouts, stopFlag, mbox, sender, msg, status, txVars,
                 power, onBus, asked, echoed, due, said, overlap>>

\* A mutant: the second pulse on the power key is missing.
PowerIsOffNoPulse ==
  /\ SenderRuns /\ spc = "offWait" /\ ~power
  /\ spc' = "onWait"
  /\ SenderFrame
  /\ UNCHANGED <<appli, timeouts, stopFlag, mbox, sender, msg, status, txVars,
                 modemVars, said, overlap>>

PowerIsOff ==
  /\ SenderRuns /\ spc = "offWait" /\ ~power
  /\ spc' = "onKey"
  /\ SenderFrame
  /\ UNCHANGED <<appli, timeouts, stopFlag, mbox, sender, msg, status, txVars,
                 modemVars, said, overlap>>
PowerIsOn ==
  /\ SenderRuns /\ spc = "onWait" /\ power
  /\ Exit
  /\ SenderFrame
  /\ UNCHANGED <<appli, timeouts, mbox, msg, status, txVars, modemVars,
                 said, overlap>>

Sender ==
  \/ Get \/ TimedOut \/ Handle \/ EndOfLoop
  \/ PowerCycle \/ ReleaseKey \/ PowerIsOff \/ PowerIsOn

-----------------------------------------------------------------------------
(* The receive callback, in the host thread, with what the modem sends.  A   *)
(* packet is the command it names, or None, and whether it holds the result  *)
(* the table cmd[] looks for.                                                *)

\* cmd_select finds the command a packet names, in whatever state; the next
\* packet, whatever it is, goes to that command's recv function.
Select(name) ==
  recv = None /\ recv' = name /\ UNCHANGED <<timeouts, mbox, pend>>

MoveTo(state) == recv' = None /\ timeouts' = 0 /\ PutFromHost(state)

\* ec20_recv_ati and ec20_recv_init_done, ec20_recv_general, ec20_recv_running.
RecvNext == recv \in {READY, SMS_DONE} /\ MoveTo(appli + 1)

\* A mutant: a result is believed whatever it says.
RecvGeneralTrusting(good) == recv \in SMS_DONE + 1 .. RUNNING - 1 /\ MoveTo(appli + 1)

RecvGeneral(good) ==
  /\ recv \in SMS_DONE + 1 .. RUNNING - 1
  /\ IF good THEN MoveTo(appli + 1)
             ELSE recv' = None /\ PutFromHost(appli) /\ UNCHANGED timeouts
RecvRunning == recv = RUNNING /\ MoveTo(RUNNING)

Callback(name, good) ==
  /\ HostRuns /\ link = "class" /\ app = "live"
  /\ Select(name) \/ RecvNext \/ RecvGeneral(good) \/ RecvRunning
  /\ UNCHANGED <<handleVars, app, appli, stopFlag, senderVars, dpc, txVars,
                 power, pulse, onBus, overlap, cut>>

Says(k) ==
  said' = IF ~overlap /\ k \in SMS_DONE .. RUNNING - 1 THEN said \cup {k} ELSE said

Echo ==
  /\ onBus /\ asked # <<>> /\ ~echoed
  /\ Callback(Head(asked), FALSE)
  /\ echoed' = TRUE
  /\ UNCHANGED <<asked, due, said>>
Result(good) ==
  /\ onBus /\ asked # <<>> /\ echoed
  /\ Callback(None, good)
  /\ IF good THEN Says(Head(asked)) ELSE UNCHANGED said
  /\ asked' = Tail(asked) /\ echoed' = FALSE
  /\ UNCHANGED due

\* "SMS DONE" when the SIM is ready, then other messages, come once after a
\* start, at any moment ...
Unsolicited ==
  /\ onBus /\ due > 0 /\ due' = due - 1
  /\ Callback(IF due = 2 THEN SMS_DONE ELSE None, FALSE)
  /\ IF due = 2 THEN Says(SMS_DONE) ELSE UNCHANGED said
  /\ UNCHANGED <<asked, echoed>>
\* ... and are lost while nobody receives.
UnsolicitedLost ==
  /\ onBus /\ due > 0 /\ due' = due - 1
  /\ link # "class"
  /\ UNCHANGED <<handleVars, appVars, senderVars, dpc, txVars, power, pulse,
                 onBus, asked, echoed, ghosts>>

-----------------------------------------------------------------------------
(* Disconnect: USBH_LL_Disconnect's HOST_USER_DISCONNECTION.                 *)

\* The handle's device is gone, and who works it off can: the host thread
\* between two messages, or the interrupt at any time.
Gone == link # "none" /\ ~onBus
Interrupts == place = "root" \/ (pend = None /\ start = "no")

\* No application of this kind was ever chosen for the handle.
DisconnectBare ==
  /\ dpc = "none" /\ Interrupts /\ Gone /\ ~appClass
  /\ link' = "none"
  /\ UNCHANGED <<place, session, appClass, start, appVars, senderVars, dpc, txVars,
                 modemVars, ghosts>>

\* stop_EC20_Application up to its wait.
Disconnect ==
  /\ dpc = "none" /\ Interrupts /\ Gone /\ appClass
  /\ app = "live"
  /\ stopFlag' = TRUE
  /\ IF place = "hub" THEN PutFromHost(DISCONNECT)
                      ELSE PutNow(DISCONNECT) /\ UNCHANGED pend
  /\ dpc' = "wait"
  /\ UNCHANGED <<handleVars, app, appli, timeouts, recv, senderVars, txVars,
                 modemVars, ghosts>>

\* With no application left, delete_EC20_Application never returns.
DisconnectSpins ==
  /\ dpc = "none" /\ Interrupts /\ Gone /\ appClass
  /\ app = "null"
  /\ dpc' = "spin"
  /\ UNCHANGED <<handleVars, appVars, senderVars, txVars, modemVars, ghosts>>

\* stop_EC20_Application goes on when g_stop_flag is cleared, or after ten
\* waits, and terminates the thread if it is still there.  Then
\* delete_EC20_Application, and the class driver's DeInit may proceed: what
\* they free has no value any more.
Deleted ==
  /\ link' = "none"
  /\ app' = "null" /\ appli' = IDLE /\ timeouts' = 0 /\ stopFlag' = FALSE
  /\ recv' = None /\ mbox' = None /\ pend' = None
  /\ tx' = "free" /\ txCmd' = READY
  /\ spc' = "get" /\ msg' = IDLE /\ status' = FALSE
  /\ said' = {} /\ overlap' = FALSE
  /\ UNCHANGED <<place, session, appClass, start, power, onBus, asked, echoed, due>>

\* A mutant: the thread is left to end by itself.
StopAndDeleteNoKill ==
  /\ dpc = "wait" /\ Interrupts /\ sender # "none" /\ start # "created"
  /\ Deleted /\ dpc' = "none"
  /\ UNCHANGED <<sender, pulse, cut>>

\* The thread is terminated wherever it stands.  When it holds the power key
\* down the key stays down; the modem may take that for a pulse, or not.
Holding == sender = "running" /\ spc \in {"offKey", "onKey"}
StopAndDelete ==
  /\ dpc = "wait" /\ Interrupts /\ sender # "none" /\ start # "created"
  /\ Deleted /\ dpc' = "none"
  /\ sender' = "killed"
  /\ \/ UNCHANGED pulse
     \/ Holding /\ pulse' = IF spc = "offKey" THEN "off" ELSE "on"
  /\ cut' = (cut \/ (sender = "running" /\ spc \in {"offKey", "offWait", "onKey"}))

\* No thread was created: its id is NULL, and the caller deletes itself.  Or the
\* thread has ended by itself: its handle is no thread's, and what the kernel
\* does to its lists is open.
StopDies ==
  /\ dpc = "wait" /\ Interrupts
  /\ sender \in {"none", "ended"}
  /\ dpc' = "dead"
  /\ UNCHANGED <<handleVars, appVars, senderVars, txVars, modemVars, ghosts>>

\* The interrupt came before the id was stored: the thread it interrupted is
\* deleted instead, the application is freed, and the send thread would go on
\* with it: the model stops there.
StopMisses ==
  /\ dpc = "wait" /\ start = "created"
  /\ Deleted /\ dpc' = "dead"
  /\ UNCHANGED <<sender, pulse, cut>>

-----------------------------------------------------------------------------
(* The modem and the cable.                                                  *)

ModemFrame == UNCHANGED <<handleVars, appVars, senderVars, dpc, overlap, cut>>

\* The modem takes the command and a pass of the host thread sees it.
TakeCommand ==
  /\ HostRuns /\ onBus /\ tx = "busy" /\ Len(asked) < MaxAsked
  /\ tx' = "free" /\ asked' = Append(asked, txCmd)
  /\ txCmd' = READY                     \* not read again
  /\ UNCHANGED <<power, pulse, onBus, echoed, due, said>>
  /\ ModemFrame
\* The endpoint stalls: the transmit machine has no branch for it.
StallOut ==
  /\ onBus /\ tx = "busy" /\ tx' = "stuck"
  /\ UNCHANGED <<txCmd, modemVars, said>>
  /\ ModemFrame
SwitchOff ==
  /\ pulse = "off" /\ power
  /\ power' = FALSE /\ pulse' = "none"
  /\ onBus' = FALSE /\ asked' = <<>> /\ echoed' = FALSE
  /\ UNCHANGED <<txVars, due, said>>
  /\ ModemFrame
SwitchOn ==
  /\ pulse = "on" /\ ~power
  /\ power' = TRUE /\ pulse' = "none"
  /\ onBus' = TRUE /\ due' = 2
  /\ UNCHANGED <<txVars, asked, echoed, said>>
  /\ ModemFrame
\* Unplugged, it forgets what it was asked.
Unplug ==
  /\ onBus /\ onBus' = FALSE
  /\ asked' = <<>> /\ echoed' = FALSE
  /\ UNCHANGED <<txVars, power, pulse, due, said>>
  /\ ModemFrame
\* The cable is put back only when the handle is closed.
Plug ==
  /\ ~onBus /\ power /\ link = "none" /\ onBus' = TRUE
  /\ UNCHANGED <<txVars, power, pulse, asked, echoed, due, said>>
  /\ ModemFrame

-----------------------------------------------------------------------------
HostThread ==
  \/ Enumerate \/ ClassSelected \/ ClassActive \/ StoreId \/ Arm
  \/ Echo \/ (\E good \in BOOLEAN : Result(good)) \/ Unsolicited
Stop == Disconnect \/ StopAndDelete \/ StopDies \/ StopMisses
Modem ==
  \/ TakeCommand \/ StallOut \/ UnsolicitedLost
  \/ SwitchOff \/ SwitchOn
Next ==
  \/ HostThread \/ PutEnds \/ Sender \/ GetTimesOut
  \/ Stop \/ DisconnectBare \/ DisconnectSpins
  \/ Modem \/ Unplug \/ Plug

Spec == Init /\ [][Next]_vars

\* The threads run, a time-out comes when no message does, and the modem
\* follows a pulse on its power key.  Nothing obliges it to answer, and no wait
\* of the stop protocol needs to end.
FairSpec ==
  /\ Spec
  /\ WF_vars(Sender) /\ WF_vars(GetTimesOut)
  /\ WF_vars(StoreId \/ Arm) /\ WF_vars(PutEnds)
  /\ WF_vars(SwitchOff) /\ WF_vars(SwitchOn)

-----------------------------------------------------------------------------
(* Properties.                                                               *)

\* A state is reached through the results of the ones before it, and the
\* thread leaves the sequence only when it is told to stop, unless a command
\* was sent while an earlier one was still being answered: the receive
\* functions take any result for the current state's (app_ec20.c:517).
StatesInOrder ==
  sender = "running" /\ ~overlap =>
    /\ \A k \in SMS_DONE .. RUNNING - 1 : k < appli /\ appli # DISCONNECT => k \in said
    /\ appli = DISCONNECT => dpc = "wait"

\* A thread that runs has its application and its modem's class: stop_app
\* waits, or ends it wherever it stands, before delete_app frees what it uses
\* (app_ec20.c:319-329).  Not so when the interrupt of the root port comes
\* before the thread's id is stored (app_ec20.c:278).
SenderUsesLiveApp ==
  sender = "running" /\ dpc # "dead" =>
    app = "live" /\ link \in {"selected", "class"} /\ dpc # "spin"

\* Behind a hub, a modem switched off is switched on again ("reset ec20 will
\* lead to usb disconnect and connect again", app_ec20.c:242), unless the
\* disconnect this causes ended the thread before the end of its second pulse
\* (app_ec20.c:329).  On the root port the interrupt that waits for the thread
\* keeps it from running (app_ec20.c:319-324).
SwitchedOnAgain == place = "hub" /\ ~power ~> power \/ cut

\* Behind a hub, a sequence leads to RUNNING or to a power cycle, whatever the
\* modem answers, or its thread ends; for an answer that leads nowhere counts
\* like a time-out (app_ec20.c:169-238).  Not so if the message of each good
\* answer is lost in the queue a time-out has filled, for the answer restarts
\* the count; nor on the root port, where a disconnect stops the thread.
PutLost == pend # None /\ pend' = None /\ mbox # None
SequenceLeadsOn ==
  <>[][~PutLost]_vars =>
    (place = "hub" /\ sender = "running" ~>
       \/ appli = RUNNING
       \/ spc \in {"offKey", "offWait", "onKey", "onWait"}
       \/ sender # "running")
=============================================================================
