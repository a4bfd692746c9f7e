---------------------------- MODULE Ec20App_proofs ----------------------------
(***************************************************************************)
(* The safety of the modem's application for every length of the sequence, *)
(* every limit of the time-outs and any number of enumerations.            *)
(*   SenderGuards   SenderUsesLiveApp.  A handle with a running thread has *)
(*                  its app_class set: otherwise a disconnect would not    *)
(*                  stop the thread (Guarded).  The theorem leaves out     *)
(*                  the thread whose id was not stored when the interrupt  *)
(*                  of the root port came.                                 *)
(*   TypeCorrect    TypeOK; the counts stay within the limit because the   *)
(*                  thread looks at it before it goes on (Paced), and it   *)
(*                  has nothing to do while it is being started (Launch).  *)
(*   StatesReached  StatesInOrder.  Nothing of a session is left for the   *)
(*                  next one (Supply, Afresh, SaidOnce), and while no      *)
(*                  command overlaps another, the modem, the recv function *)
(*                  that waits and the messages on their way agree on the  *)
(*                  state the sequence is in (Order).                      *)
(***************************************************************************)
EXTENDS Ec20App, SequenceTheorems, TLAPS

Guarded ==
  /\ sender = "running" /\ dpc # "dead" =>
       /\ app = "live" /\ link \in {"selected", "class"}
       /\ appClass /\ dpc # "spin"
  /\ link = "selected" => appClass

LEMMA HostThreadGuarded == Guarded /\ HostThread => Guarded'
<1> SUFFICES ASSUME Guarded, HostThread PROVE Guarded'
  OBVIOUS
<1> USE DEF Guarded
<1>1. CASE Enumerate
  BY <1>1 DEF Enumerate, HostRuns, appVars, senderVars
<1>2. CASE ClassSelected
  BY <1>2 DEF ClassSelected, HostRuns
<1>3. CASE ClassActive \/ StoreId \/ Arm
  BY <1>3 DEF ClassActive, StoreId, Arm, HostRuns, HostStarts, appVars, senderVars
<1>4. ASSUME NEW k, NEW good, Callback(k, good) PROVE Guarded'
  BY <1>4 DEF Callback, handleVars, senderVars
<1>5. CASE Echo
  BY <1>4, <1>5 DEF Echo
<1>6. CASE \E good \in BOOLEAN : Result(good)
  BY <1>4, <1>6 DEF Result
<1>7. CASE Unsolicited
  BY <1>4, <1>7 DEF Unsolicited
<1> QED
  BY <1>1, <1>2, <1>3, <1>5, <1>6, <1>7 DEF HostThread

LEMMA SenderGuarded == Guarded /\ (Sender \/ GetTimesOut) => Guarded'
BY DEF Guarded, Sender, GetTimesOut, Get, TimedOut, Handle, EndOfLoop,
       PowerCycle, ReleaseKey, PowerIsOff, PowerIsOn, Exit, SenderFrame, handleVars

LEMMA StopGuarded ==
  Guarded /\ (Stop \/ DisconnectBare \/ DisconnectSpins) => Guarded'
<1> SUFFICES ASSUME Guarded, Stop \/ DisconnectBare \/ DisconnectSpins
             PROVE  Guarded'
  OBVIOUS
<1> USE DEF Guarded
<1>1. CASE Disconnect
  BY <1>1 DEF Disconnect, handleVars, senderVars
<1>2. CASE StopAndDelete
  BY <1>2 DEF StopAndDelete, Deleted
<1>3. CASE StopDies \/ StopMisses
  BY <1>3 DEF StopDies, StopMisses, Deleted, handleVars, appVars, senderVars
<1>4. CASE DisconnectBare
  BY <1>4 DEF DisconnectBare, appVars, senderVars
<1>5. CASE DisconnectSpins
  BY <1>5 DEF DisconnectSpins, handleVars, appVars, senderVars
<1> QED
  BY <1>1, <1>2, <1>3, <1>4, <1>5 DEF Stop

LEMMA GuardedStep == Guarded /\ [Next]_vars => Guarded'
<1> SUFFICES ASSUME Guarded, Next \/ UNCHANGED vars PROVE Guarded'
  OBVIOUS
<1>1. CASE PutEnds
  BY <1>1 DEF PutEnds, Guarded, handleVars, senderVars
<1>2. CASE Modem \/ Unplug \/ Plug
  BY <1>2
  DEF Modem, TakeCommand, StallOut, UnsolicitedLost, SwitchOff, SwitchOn,
      Unplug, Plug, ModemFrame, Guarded, handleVars, appVars, senderVars
<1>3. CASE UNCHANGED vars
  BY <1>3 DEF vars, Guarded, handleVars, appVars, senderVars
<1> QED
  BY <1>1, <1>2, <1>3, HostThreadGuarded, SenderGuarded, StopGuarded DEF Next

\* However the disconnect, the time-outs and the power cycle interleave, no
\* send thread outlives its application, and none starts without one, unless the
\* interrupt of the root port came before the thread's id was stored
\* (app_ec20.c:278, 329).
THEOREM SenderGuards == Spec => []SenderUsesLiveApp
<1>1. Init => Guarded
  BY DEF Init, Guarded
<1>2. Guarded => SenderUsesLiveApp
  BY DEF Guarded, SenderUsesLiveApp
<1> QED
  BY <1>1, <1>2, GuardedStep, PTL DEF Spec

-----------------------------------------------------------------------------
(* Type correctness.                                                         *)

LEMMA Constants ==
  /\ Queries \in Nat /\ MaxTimeOutNum \in Nat \ {0}
  /\ Sessions \in Nat /\ MaxAsked \in Nat
BY QueriesAssumption, TimeOutAssumption, BoundsAssumption

LEMMA Numbers ==
  /\ IDLE = 0 /\ READY = 2 /\ SMS_DONE = 3 /\ None = -1
  /\ RUNNING \in Nat /\ RUNNING >= 4 /\ DISCONNECT = RUNNING + 1
  /\ Commands = {2} \cup (4 .. RUNNING)
  /\ States = 0 .. DISCONNECT
BY Constants DEF IDLE, READY, SMS_DONE, None, RUNNING, DISCONNECT, Commands, States

Messages == States \cup {DISCONNECT + 1, None}
Posts == {"get", "timeout", "handle", "end", "offKey", "offWait", "onKey", "onWait"}

LEMMA Members ==
  /\ IDLE \in States /\ Commands \subseteq States /\ SMS_DONE \in States
  /\ DISCONNECT \in States
  /\ READY \in Commands /\ RUNNING \in Commands
  /\ States \subseteq Messages /\ None \in Messages
  /\ Commands \subseteq Names /\ None \in Names /\ SMS_DONE \in Names
  /\ <<>> \in Seq(Commands) /\ 0 \in 0 .. MaxTimeOutNum + 1
BY Numbers, Constants, EmptySeq DEF Messages, Names

\* There is an application only for a handle that has chosen it, and no state
\* is tried more often than the limit: the thread looks at the count before it
\* goes on.
Paced ==
  /\ app = "live" => link \in {"selected", "class"} /\ appClass
  /\ spc \in {"get", "timeout", "handle"} => timeouts <= MaxTimeOutNum
  /\ link = "selected" /\ app = "live" /\ dpc = "none" => timeouts = 0

\* A thread that is being started waits for its first message, which only
\* start_app puts; and only on the root port does a disconnect come before it.
Launch ==
  /\ start # "no" /\ place = "hub" => dpc = "none"
  /\ sender = "running" /\ link = "selected" => start # "no" /\ spc = "get"
  /\ start # "no" /\ app = "live" => sender = "running" /\ link = "selected"
  /\ link = "selected" /\ app = "live" /\ dpc = "none" =>
       mbox = None /\ pend = None
  /\ sender = "running" /\ dpc = "dead" => place = "root"
  /\ dpc = "wait" => app = "live"

\* The sender moves only when it has been started.
LEMMA SenderOn ==
  ASSUME Guarded, Launch, Sender \/ GetTimesOut
  PROVE  /\ sender = "running" /\ link = "class" /\ appClass /\ app = "live"
         /\ start = "no" /\ SenderFrame
<1>1. sender = "running" /\ SenderFrame /\ (dpc = "none" \/ place = "hub")
  BY DEF Sender, GetTimesOut, Get, TimedOut, Handle, EndOfLoop, PowerCycle,
         ReleaseKey, PowerIsOff, PowerIsOn, SenderRuns
<1>2. app = "live" /\ link \in {"selected", "class"} /\ appClass
  BY <1>1 DEF Guarded, Launch
<1>3. link # "selected"
  <2>1. SUFFICES ASSUME link = "selected" PROVE FALSE
    OBVIOUS
  <2>2. start # "no" /\ spc = "get" /\ dpc = "none" /\ mbox = None
    BY <1>1, <1>2, <2>1 DEF Launch
  <2> QED
    BY <2>2 DEF Sender, GetTimesOut, Get, TimedOut, Handle, EndOfLoop, PowerCycle,
         ReleaseKey, PowerIsOff, PowerIsOn
<1> QED
  BY <1>1, <1>2, <1>3 DEF Launch

LEMMA LaunchStep ==
  ASSUME TypeOK, Guarded, Paced, Launch, [Next]_vars
  PROVE  Launch'
<1>1. CASE Enumerate \/ ClassSelected
  BY <1>1 DEF Enumerate, ClassSelected, HostRuns, Launch, Guarded, Paced,
              appVars, senderVars
<1>2. CASE ClassActive \/ StoreId \/ Arm
  BY <1>2 DEF ClassActive, StoreId, Arm, HostRuns, HostStarts, Launch, appVars,
              senderVars
<1>3. CASE Echo \/ (\E good \in BOOLEAN : Result(good)) \/ Unsolicited
  <2>1. /\ UNCHANGED <<handleVars, app, senderVars, dpc>>
        /\ link = "class" /\ dpc = "none"
    BY <1>3 DEF Echo, Result, Unsolicited, Callback, HostRuns
  <2> QED
    BY <2>1 DEF Launch, handleVars, senderVars
<1>4. CASE Sender \/ GetTimesOut
  <2>1. link = "class" /\ start = "no" /\ UNCHANGED <<handleVars, app, dpc>>
        /\ sender = "running"
    BY <1>4, SenderOn DEF SenderFrame
  <2> QED
    BY <2>1 DEF Launch, handleVars
<1>5. CASE Stop
  <2>1. CASE Disconnect
    <3>1. /\ UNCHANGED <<handleVars, app, senderVars>> /\ dpc = "none"
          /\ dpc' = "wait" /\ app = "live" /\ (place = "root" \/ start = "no")
      BY <2>1 DEF Disconnect, Interrupts
    <3> QED
      BY <3>1 DEF Launch, handleVars, senderVars
  <2>2. CASE StopAndDelete \/ StopMisses
    <3>1. /\ app' = "null" /\ link' = "none" /\ UNCHANGED <<place, start>>
          /\ dpc = "wait"
          /\ \/ dpc' = "none" /\ sender' = "killed"
             \/ dpc' = "dead" /\ start = "created"
      BY <2>2 DEF StopAndDelete, StopMisses, Deleted
    <3>2. place \in {"hub", "root"}
      BY DEF TypeOK
    <3> QED
      BY <3>1, <3>2 DEF Launch
  <2>3. CASE StopDies
    <3>1. /\ UNCHANGED <<handleVars, appVars, senderVars>> /\ dpc = "wait"
          /\ dpc' = "dead" /\ sender # "running"
      BY <2>3 DEF StopDies
    <3> QED
      BY <3>1 DEF Launch, handleVars, appVars, senderVars
  <2> QED
    BY <1>5, <2>1, <2>2, <2>3 DEF Stop
<1>6. CASE DisconnectBare
  <2>1. /\ UNCHANGED <<place, start, appVars, senderVars, dpc>> /\ ~appClass
        /\ link' = "none" /\ dpc = "none"
    BY <1>6 DEF DisconnectBare
  <2> QED
    BY <2>1 DEF Launch, Paced, Guarded, appVars, senderVars
<1>9. CASE DisconnectSpins
  <2>1. /\ UNCHANGED <<handleVars, appVars, senderVars>> /\ dpc' = "spin"
        /\ place = "root" \/ start = "no"
    BY <1>9 DEF DisconnectSpins, Interrupts
  <2> QED
    BY <2>1 DEF Launch, handleVars, appVars, senderVars
<1>7. CASE PutEnds
  BY <1>7 DEF PutEnds, PutNow, Launch, handleVars, senderVars
<1>8. CASE Modem \/ Unplug \/ Plug \/ UNCHANGED vars
  BY <1>8
  DEF Modem, TakeCommand, StallOut, UnsolicitedLost, SwitchOff, SwitchOn,
      Unplug, Plug, ModemFrame, Launch, vars, handleVars, appVars, senderVars
<1>10. Next \/ UNCHANGED vars
  OBVIOUS
<1>11. CASE HostThread
  BY <1>1, <1>2, <1>3, <1>11 DEF HostThread
<1> QED
  BY <1>4, <1>5, <1>6, <1>7, <1>8, <1>9, <1>10, <1>11 DEF Next

LEMMA PutNowType ==
  ASSUME TypeOK, NEW m \in Messages, PutNow(m)
  PROVE  mbox' \in Messages
BY DEF TypeOK, Messages, PutNow

LEMMA PutFromHostType ==
  ASSUME TypeOK, NEW m \in Messages, PutFromHost(m)
  PROVE  mbox' \in Messages /\ pend' \in Messages
BY DEF TypeOK, Messages, PutFromHost

LEMMA EnumerationType ==
  ASSUME TypeOK, Paced,
         Enumerate \/ ClassSelected \/ ClassActive \/ StoreId \/ Arm
  PROVE  TypeOK' /\ Paced'
<1> USE Constants, Numbers
<1>1. CASE Enumerate
  BY <1>1
  DEF Enumerate, TypeOK, Paced, appVars, senderVars, txVars, modemVars, ghosts
<1>2. CASE ClassSelected
  <2>1. /\ app' \in {"null", "live"} /\ appli' \in States
        /\ timeouts' \in 0 .. MaxTimeOutNum + 1 /\ stopFlag' \in BOOLEAN
        /\ recv' \in Names /\ mbox' \in Messages
        /\ sender' \in {"none", "running", "ended", "killed"}
    BY <1>2, Members DEF ClassSelected, TypeOK, Messages
  <2>2. TypeOK'
    BY <1>2, <2>1
    DEF ClassSelected, TypeOK, Messages, txVars, modemVars, ghosts
  <2>3. Paced'
    BY <1>2 DEF ClassSelected, TypeOK, Paced
  <2> QED
    BY <2>2, <2>3
<1>3. CASE ClassActive
  <2>1. timeouts = 0 /\ UNCHANGED <<app, timeouts, dpc, appClass>>
    BY <1>3 DEF ClassActive, HostRuns, Paced, appVars
  <2>2. /\ link' \in {"selected", "class"}
        /\ spc' \in {spc, "get"}
    BY <1>3 DEF ClassActive
  <2>3. Paced'
    BY <1>3, <2>1, <2>2 DEF ClassActive, Paced
  <2>4. /\ sender' \in {"none", "running", "ended", "killed"}
        /\ spc' \in Posts /\ status' \in BOOLEAN
        /\ start' \in {"no", "created", "stored"}
    BY <1>3, <2>2 DEF ClassActive, TypeOK, Posts
  <2>5. TypeOK'
    BY <1>3, <2>1, <2>2, <2>4
    DEF ClassActive, TypeOK, Posts, appVars, txVars, modemVars, ghosts
  <2> QED
    BY <2>3, <2>5
<1>4. CASE StoreId
  BY <1>4
  DEF StoreId, TypeOK, Paced, appVars, senderVars, txVars, modemVars, ghosts
<1>5. CASE Arm
  <2>1. mbox' \in Messages /\ pend' \in Messages
    BY <1>5, PutFromHostType DEF Arm, Messages, TypeOK
  <2> QED
    BY <1>5, <2>1
    DEF Arm, TypeOK, Paced, Messages, senderVars, txVars, modemVars, ghosts
<1> QED
  BY <1>1, <1>2, <1>3, <1>4, <1>5

LEMMA CallbackType ==
  ASSUME TypeOK, Paced, NEW name \in Names, NEW good \in BOOLEAN,
         Callback(name, good)
  PROVE  /\ recv' \in Names /\ timeouts' \in {0, timeouts}
         /\ mbox' \in Messages /\ pend' \in Messages
<1> USE Constants, Numbers
<1>1. appli \in Messages /\ appli + 1 \in Messages /\ RUNNING \in Messages
  BY DEF TypeOK, Messages
<1>2. CASE Select(name)
  BY <1>2 DEF Select, TypeOK, Messages
<1>3. ASSUME NEW v \in Messages, MoveTo(v)
      PROVE  /\ recv' = None /\ timeouts' = 0
             /\ mbox' \in Messages /\ pend' \in Messages
  BY <1>3, PutFromHostType DEF MoveTo
<1>4. CASE RecvGeneral(good)
  BY <1>1, <1>3, <1>4, PutFromHostType DEF RecvGeneral, Names
<1> QED
  BY <1>1, <1>2, <1>3, <1>4 DEF Callback, RecvNext, RecvRunning, Names

LEMMA PacketType ==
  ASSUME TypeOK, Paced, Echo \/ (\E good \in BOOLEAN : Result(good)) \/ Unsolicited
  PROVE  TypeOK' /\ Paced'
<1> USE Constants, Numbers
<1>1. \E name \in Names, good \in BOOLEAN : Callback(name, good)
  <2>1. CASE Echo
    <3>1. Head(asked) \in Names
      BY <2>1, HeadTailProperties DEF Echo, TypeOK, Names
    <3> QED
      BY <2>1, <3>1 DEF Echo
  <2>2. CASE ~Echo
    BY <2>2 DEF Result, Unsolicited, Names
  <2> QED
    BY <2>1, <2>2
<1>2. /\ recv' \in Names /\ timeouts' \in {0, timeouts}
      /\ mbox' \in Messages /\ pend' \in Messages
  BY <1>1, CallbackType
<1>3. UNCHANGED <<handleVars, app, appli, stopFlag, senderVars, dpc, txVars,
                  power, pulse, onBus, overlap, cut>>
  BY <1>1 DEF Callback
<1>4. /\ asked' \in Seq(Commands) /\ echoed' \in BOOLEAN /\ due' \in 0 .. 2
      /\ said' \subseteq States
  <2>1. asked # <<>> => Head(asked) \in Commands /\ Tail(asked) \in Seq(Commands)
    BY HeadTailProperties DEF TypeOK
  <2>2. ASSUME NEW k, Says(k) PROVE said' \subseteq States
    <3>1. k \in SMS_DONE .. RUNNING - 1 => k \in States
      OBVIOUS
    <3>2. said' = said \/ (k \in States /\ said' = said \cup {k})
      BY <2>2, <3>1 DEF Says
    <3> QED
      BY <3>2 DEF TypeOK
  <2>3. said' \subseteq States
    BY <2>2 DEF Echo, Result, Unsolicited, TypeOK
  <2>4. due' \in 0 .. 2
    <3>1. due' = due \/ (due > 0 /\ due' = due - 1)
      BY DEF Echo, Result, Unsolicited
    <3> QED
      BY <3>1 DEF TypeOK
  <2>5. echoed' \in BOOLEAN
    BY DEF Echo, Result, Unsolicited, TypeOK
  <2>6. asked' = asked \/ (asked # <<>> /\ asked' = Tail(asked))
    BY DEF Echo, Result, Unsolicited
  <2>7. asked' \in Seq(Commands)
    BY <2>1, <2>6 DEF TypeOK
  <2> QED
    BY <2>3, <2>4, <2>5, <2>7
<1>5. TypeOK'
  BY <1>2, <1>3, <1>4
  DEF TypeOK, Messages, handleVars, senderVars, txVars
<1>6. Paced'
  BY <1>2, <1>3 DEF Paced, TypeOK, handleVars, senderVars
<1> QED
  BY <1>5, <1>6

LEMMA SenderType ==
  ASSUME TypeOK, Paced, Guarded, Launch, Sender \/ GetTimesOut
  PROVE  TypeOK' /\ Paced'
<1> USE Constants, Numbers
<1>1. SenderFrame /\ sender = "running"
  BY SenderOn
<1>2. appli \in Messages
  BY DEF TypeOK, Messages
<1>3. mbox' \in Messages
  BY <1>2, PutNowType
  DEF Sender, GetTimesOut, Get, TimedOut, Handle, EndOfLoop, PowerCycle,
      ReleaseKey, PowerIsOff, PowerIsOn, TypeOK, Messages
<1>4. timeouts' \in 0 .. MaxTimeOutNum + 1
  BY DEF Sender, GetTimesOut, Get, TimedOut, Handle, EndOfLoop, PowerCycle,
         ReleaseKey, PowerIsOff, PowerIsOn, TypeOK, Paced
<1>5. Paced'
  <2>1. link = "class" /\ UNCHANGED <<link, app, appClass>>
    BY <1>1, SenderOn DEF SenderFrame, handleVars
  <2>2. spc' \in {"get", "timeout", "handle"} => timeouts' <= MaxTimeOutNum
    BY DEF Sender, GetTimesOut, Get, TimedOut, Handle, EndOfLoop, PowerCycle,
           ReleaseKey, PowerIsOff, PowerIsOn, Exit, TypeOK, Paced
  <2> QED
    BY <2>1, <2>2 DEF Paced
<1>6. /\ stopFlag' \in BOOLEAN /\ sender' \in {"running", "ended"}
      /\ spc' \in Posts
  BY <1>1
  DEF Sender, GetTimesOut, Get, TimedOut, Handle, EndOfLoop, PowerCycle,
      ReleaseKey, PowerIsOff, PowerIsOn, Exit, TypeOK, Posts
<1>7. appli' \in States /\ msg' \in States \cup {DISCONNECT + 1}
  <2>1. CASE Handle
    BY <2>1, Members DEF Handle, TypeOK
  <2>2. CASE Get
    BY <2>2 DEF Get, TypeOK, Messages
  <2> QED
    BY <2>1, <2>2
    DEF Sender, GetTimesOut, TimedOut, EndOfLoop, PowerCycle, ReleaseKey,
        PowerIsOff, PowerIsOn, TypeOK
<1>8. /\ tx' \in {"free", "busy", "stuck"} /\ txCmd' \in Commands
      /\ overlap' \in BOOLEAN /\ said' \subseteq States
  BY DEF Sender, GetTimesOut, Get, TimedOut, Handle, EndOfLoop, PowerCycle,
         ReleaseKey, PowerIsOff, PowerIsOn, Send, InProgress, TypeOK, txVars
<1>9. status' \in BOOLEAN
  BY DEF Sender, GetTimesOut, Get, TimedOut, Handle, EndOfLoop, PowerCycle,
         ReleaseKey, PowerIsOff, PowerIsOn, Send, TypeOK
<1>10. /\ power' \in BOOLEAN /\ pulse' \in {"none", "off", "on"}
      /\ onBus' \in BOOLEAN /\ asked' \in Seq(Commands) /\ echoed' \in BOOLEAN
      /\ due' \in 0 .. 2
  BY DEF Sender, GetTimesOut, Get, TimedOut, Handle, EndOfLoop, PowerCycle,
         ReleaseKey, PowerIsOff, PowerIsOn, TypeOK, modemVars
<1> QED
  BY <1>1, <1>3, <1>4, <1>6, <1>8, <1>9, <1>10, <1>7, <1>5
  DEF SenderFrame, TypeOK, Messages, Posts, handleVars

LEMMA StopType ==
  ASSUME TypeOK, Paced,
         Stop \/ DisconnectBare \/ DisconnectSpins \/ PutEnds
  PROVE  TypeOK' /\ Paced'
<1> USE Constants, Numbers
<1>1. CASE Disconnect
  <2>1. mbox' \in Messages /\ pend' \in Messages
    BY <1>1, PutFromHostType, PutNowType DEF Disconnect, Messages, TypeOK
  <2> QED
    BY <1>1, <2>1
    DEF Disconnect, TypeOK, Paced, Messages, handleVars, senderVars, txVars,
        modemVars, ghosts
<1>2. CASE StopAndDelete \/ StopMisses
  <2>1. Paced'
    BY <1>2 DEF StopAndDelete, StopMisses, Deleted, Paced
  <2>2. /\ pulse' \in {pulse, "off", "on"} /\ sender' \in {sender, "killed"}
        /\ dpc' \in {"none", "dead"} /\ cut' \in BOOLEAN /\ Deleted
    BY <1>2 DEF StopAndDelete, StopMisses, TypeOK
  <2>3. /\ link' = "none" /\ app' = "null" /\ appli' \in States
        /\ timeouts' \in 0 .. MaxTimeOutNum + 1 /\ stopFlag' \in BOOLEAN
        /\ recv' \in Names /\ mbox' \in Messages /\ pend' \in Messages
        /\ tx' = "free" /\ txCmd' \in Commands
        /\ spc' = "get" /\ msg' \in States /\ status' \in BOOLEAN
        /\ said' \subseteq States /\ overlap' \in BOOLEAN
        /\ UNCHANGED <<place, session, appClass, start, power, onBus, asked,
                       echoed, due>>
    BY <2>2, Members DEF Deleted
  <2>4. TypeOK'
    BY <2>2, <2>3 DEF TypeOK, Messages
  <2> QED
    BY <2>1, <2>4
<1>3. CASE StopDies \/ DisconnectSpins
  <2>1. /\ dpc' \in {"dead", "spin"}
        /\ UNCHANGED <<handleVars, appVars, senderVars, txVars, modemVars, ghosts>>
    BY <1>3 DEF StopDies, DisconnectSpins
  <2>2. Paced'
    BY <2>1 DEF Paced, handleVars, appVars, senderVars
  <2>3. TypeOK'
    BY <2>1
    DEF TypeOK, handleVars, appVars, senderVars, txVars, modemVars, ghosts
  <2> QED
    BY <2>2, <2>3
<1>4. CASE DisconnectBare
  BY <1>4
  DEF DisconnectBare, TypeOK, Paced, appVars, senderVars, txVars, modemVars,
      ghosts
<1>5. CASE PutEnds
  <2>1. mbox' \in Messages
    BY <1>5, PutNowType DEF PutEnds, Messages, TypeOK
  <2> QED
    BY <1>5, <2>1
    DEF PutEnds, TypeOK, Paced, Messages, handleVars, senderVars, txVars,
        modemVars, ghosts
<1> QED
  BY <1>1, <1>2, <1>3, <1>4, <1>5 DEF Stop

LEMMA ModemType ==
  ASSUME TypeOK, Paced, Modem \/ Unplug \/ Plug
  PROVE  TypeOK' /\ Paced'
<1> USE Constants, Numbers
<1>1. asked' \in Seq(Commands)
  <2>1. txCmd \in Commands => Append(asked, txCmd) \in Seq(Commands)
    BY AppendProperties DEF TypeOK
  <2>2. asked' \in {asked, <<>>, Append(asked, txCmd)}
    BY DEF Modem, TakeCommand, StallOut, UnsolicitedLost, SwitchOff, SwitchOn,
           Unplug, Plug, modemVars
  <2> QED
    BY <2>1, <2>2, Members DEF TypeOK
<1>2. /\ tx' \in {tx, "free", "stuck"} /\ txCmd' \in {txCmd, READY}
      /\ pulse' \in {pulse, "none"} /\ said' = said
      /\ due' = due \/ (due > 0 /\ due' = due - 1) \/ due' = 2
  BY DEF Modem, TakeCommand, StallOut, UnsolicitedLost, SwitchOff, SwitchOn,
         Unplug, Plug, modemVars, txVars, ghosts
<1>3. power' \in BOOLEAN /\ onBus' \in BOOLEAN /\ echoed' \in BOOLEAN
  BY DEF Modem, TakeCommand, StallOut, UnsolicitedLost, SwitchOff, SwitchOn,
         Unplug, Plug, TypeOK, modemVars
<1>4. txCmd' \in Commands /\ due' \in 0 .. 2
  BY <1>2, Members DEF TypeOK
<1>5. /\ tx' \in {"free", "busy", "stuck"}
      /\ pulse' \in {"none", "off", "on"} /\ said' \subseteq States
  BY <1>2 DEF TypeOK
<1>6. UNCHANGED <<handleVars, appVars, senderVars, dpc, overlap, cut>>
  BY DEF Modem, TakeCommand, StallOut, UnsolicitedLost, SwitchOff, SwitchOn,
         Unplug, Plug, ModemFrame, ghosts
<1> QED
  BY <1>1, <1>6, <1>4, <1>5, <1>3
  DEF TypeOK, Paced, handleVars, appVars, senderVars

LEMMA TypeStep ==
  ASSUME TypeOK, Paced, Guarded, Launch, [Next]_vars
  PROVE  TypeOK' /\ Paced' /\ Launch'
<1>1. Launch'
  BY LaunchStep
<1>2. CASE HostThread
  BY <1>1, <1>2, EnumerationType, PacketType DEF HostThread
<1>3. CASE Sender \/ GetTimesOut
  BY <1>1, <1>3, SenderType
<1>4. CASE Stop \/ DisconnectBare \/ DisconnectSpins \/ PutEnds
  BY <1>1, <1>4, StopType
<1>5. CASE Modem \/ Unplug \/ Plug
  BY <1>1, <1>5, ModemType
<1>6. CASE UNCHANGED vars
  BY <1>1, <1>6
  DEF vars, TypeOK, Paced, handleVars, appVars, senderVars, txVars, modemVars,
      ghosts
<1> QED
  BY <1>1, <1>2, <1>3, <1>4, <1>5, <1>6 DEF Next

LEMMA InitType == Init => TypeOK /\ Paced /\ Guarded /\ Launch
<1> SUFFICES ASSUME Init PROVE TypeOK /\ Paced /\ Guarded /\ Launch
  OBVIOUS
<1>1. Paced /\ Guarded /\ Launch
  BY Constants DEF Init, Paced, Guarded, Launch
<1>2. 0 \in 0 .. Sessions
  BY Constants
<1>3. /\ session \in 0 .. Sessions /\ appli \in States
      /\ timeouts \in 0 .. MaxTimeOutNum + 1 /\ recv \in Names
      /\ mbox \in Messages /\ pend \in Messages
      /\ msg \in States \cup {DISCONNECT + 1} /\ txCmd \in Commands
      /\ asked \in Seq(Commands) /\ due \in 0 .. 2 /\ said \subseteq States
  BY <1>2, Members DEF Init
<1>4. TypeOK
  BY <1>3 DEF Init, TypeOK, Messages
<1> QED
  BY <1>1, <1>4

\* The sequence, the queue and the counts keep their types: no state beyond the
\* table's, and the attempts at a state are counted up to MAX_TIME_OUT_NUM + 1.
THEOREM TypeCorrect == Spec => []TypeOK
BY InitType, TypeStep, GuardedStep, PTL DEF Spec

-----------------------------------------------------------------------------
(* What a session starts with.                                               *)

Waits == {"offKey", "offWait", "onKey", "onWait"}

\* A modem without power is not on the bus, and it is switched on by a thread
\* that waits for that, or was terminated, before the next enumeration.
Supply ==
  /\ ~power => ~onBus
  /\ pulse = "on" => ~power
  /\ sender = "running" /\ spc = "onKey" => ~power
  /\ pulse = "on" /\ sender = "running" => spc = "onWait"
  /\ link \in {"enumeration", "selected"} => pulse # "on"

\* Nothing is left of the session before.
Afresh ==
  /\ link = "class" => appClass
  /\ ~onBus \/ dpc = "wait" \/ link # "class" => asked = <<>> /\ ~echoed
  /\ link # "class" => tx = "free" /\ said = {} /\ ~overlap
  /\ link = "selected" /\ app = "live" /\ dpc = "none" =>
       appli = IDLE /\ recv = None /\ mbox = None /\ pend = None

\* "SMS DONE" comes once for a start of the modem.
SaidOnce ==
  sender = "running" /\ spc \notin Waits /\ SMS_DONE \in said => due < 2

Ready == TypeOK /\ Paced /\ Guarded /\ Launch /\ Supply /\ Afresh /\ SaidOnce

LEMMA EnumerationReady ==
  ASSUME Ready, Enumerate \/ ClassSelected \/ ClassActive \/ StoreId \/ Arm
  PROVE  Supply' /\ Afresh' /\ SaidOnce'
<1>1. UNCHANGED <<modemVars, ghosts, tx, dpc>> /\ dpc = "none"
  BY DEF Enumerate, ClassSelected, ClassActive, StoreId, Arm, HostRuns, HostStarts,
         txVars
<1>2. CASE Enumerate
  <2>1. UNCHANGED <<app, appli, recv, mbox, sender, spc>> /\ link = "none" /\ onBus
        /\ link' = "enumeration"
    BY <1>2 DEF Enumerate, appVars, senderVars
  <2> QED
    BY <1>1, <2>1
    DEF Ready, Supply, Afresh, SaidOnce, modemVars, ghosts
<1>3. CASE ClassSelected
  <2>1. /\ link = "enumeration" /\ link' = "selected" /\ appClass' = TRUE
        /\ app # "live" /\ sender # "running" /\ spc' = spc
        /\ \/ appli' = IDLE /\ recv' = None /\ mbox' = None /\ sender' = "none"
           \/ UNCHANGED <<app, sender>>
        /\ pend' = None
    BY <1>3 DEF ClassSelected, HostRuns, Ready, Paced, Guarded
  <2>2. app' = "live" =>
          appli' = IDLE /\ recv' = None /\ mbox' = None /\ pend' = None
    BY <2>1
  <2>3. sender' # "running"
    BY <2>1
  <2> QED
    BY <1>1, <2>1, <2>2, <2>3
    DEF Ready, Supply, Afresh, SaidOnce, modemVars, ghosts
<1>4. CASE ClassActive
  <2>1. /\ link = "selected" /\ appClass' = appClass /\ app = "live"
        /\ link' \in {"selected", "class"}
        /\ UNCHANGED <<app, appli, recv, mbox, pend>>
        /\ UNCHANGED <<sender, spc>> \/ spc' = "get"
    BY <1>4 DEF ClassActive, appVars
  <2>2. Supply'
    BY <1>1, <2>1 DEF Ready, Supply, modemVars
  <2>3. Afresh' /\ SaidOnce'
    BY <1>1, <2>1 DEF Ready, Guarded, Afresh, SaidOnce, modemVars, ghosts
  <2> QED
    BY <2>2, <2>3
<1>5. CASE StoreId
  BY <1>1, <1>5
  DEF StoreId, Ready, Supply, Afresh, SaidOnce, appVars, senderVars, modemVars,
      ghosts
<1>6. CASE Arm
  <2>1. /\ link = "selected" /\ link' = "class" /\ appClass' = appClass
        /\ UNCHANGED senderVars
    BY <1>6 DEF Arm, HostStarts, Ready, Launch
  <2> QED
    BY <1>1, <2>1
    DEF Ready, Guarded, Supply, Afresh, SaidOnce, senderVars, modemVars, ghosts
<1> QED
  BY <1>2, <1>3, <1>4, <1>5, <1>6

LEMMA PacketReady ==
  ASSUME Ready, Echo \/ (\E good \in BOOLEAN : Result(good)) \/ Unsolicited
  PROVE  Supply' /\ Afresh' /\ SaidOnce'
<1>1. /\ UNCHANGED <<handleVars, app, senderVars, dpc, txVars, power, pulse,
                     onBus, overlap>>
      /\ dpc = "none" /\ link = "class" /\ onBus
  BY DEF Echo, Result, Unsolicited, Callback, HostRuns
<1>2. Supply'
  BY <1>1 DEF Ready, Supply, handleVars, senderVars
<1>3. Afresh'
  BY <1>1 DEF Ready, Afresh, handleVars, txVars
<1>4. /\ due' \in Int /\ due' <= due /\ due \in 0 .. 2
      /\ \/ due' < 2
         \/ SMS_DONE \in said' => SMS_DONE \in said
  <2>1. CASE Unsolicited
    BY <2>1 DEF Unsolicited, Ready, TypeOK
  <2>2. CASE Echo
    BY <2>2 DEF Echo, Ready, TypeOK
  <2>3. ASSUME NEW good \in BOOLEAN, Result(good)
        PROVE  due' = due /\ (SMS_DONE \in said' => SMS_DONE \in said)
    <3>1. due' = due /\ due \in 0 .. 2
      BY <2>3 DEF Result, Ready, TypeOK
    <3>2. Head(asked) # SMS_DONE
      BY <2>3, HeadTailProperties, Numbers DEF Result, Ready, TypeOK
    <3> QED
      BY <2>3, <3>1, <3>2 DEF Result, Says
  <2> QED
    BY <2>1, <2>2, <2>3 DEF Ready, TypeOK
<1>5. SaidOnce'
  BY <1>1, <1>4 DEF Ready, SaidOnce, TypeOK, senderVars
<1> QED
  BY <1>2, <1>3, <1>5

LEMMA SenderReady ==
  ASSUME Ready, Sender \/ GetTimesOut
  PROVE  Supply' /\ Afresh' /\ SaidOnce'
<1>1. /\ sender = "running" /\ link = "class" /\ appClass
      /\ UNCHANGED <<handleVars, app, dpc>>
  BY SenderOn DEF SenderFrame, Ready
<1>2. UNCHANGED <<power, onBus, asked, echoed, due>>
  BY DEF Sender, GetTimesOut, Get, TimedOut, Handle, EndOfLoop, PowerCycle,
         ReleaseKey, PowerIsOff, PowerIsOn, modemVars
<1>3. /\ pulse' = "on" => pulse = "on" \/ (spc = "onKey" /\ spc' = "onWait")
      /\ sender' = "running" /\ spc' = "onKey" => ~power
      /\ spc # "onWait" \/ spc' = "onWait"
      /\ spc \in Waits => spc' \in Waits
      /\ sender' # "running" \/ spc' = spc \/ spc # "onWait"
  BY DEF Sender, GetTimesOut, Get, TimedOut, Handle, EndOfLoop, PowerCycle,
         ReleaseKey, PowerIsOff, PowerIsOn, Exit, modemVars, Waits
<1>4. said' \in {said, {}}
  BY DEF Sender, GetTimesOut, Get, TimedOut, Handle, EndOfLoop, PowerCycle,
         ReleaseKey, PowerIsOff, PowerIsOn, Send
<1>5. Supply'
  BY <1>1, <1>2, <1>3 DEF Ready, Supply, handleVars
<1>6. Afresh'
  BY <1>1, <1>2 DEF Ready, Afresh, handleVars
<1>7. SaidOnce'
  BY <1>1, <1>2, <1>3, <1>4 DEF Ready, SaidOnce
<1> QED
  BY <1>5, <1>6, <1>7

LEMMA StopReady ==
  ASSUME Ready, Stop \/ DisconnectBare \/ DisconnectSpins \/ PutEnds
  PROVE  Supply' /\ Afresh' /\ SaidOnce'
<1>1. CASE Disconnect
  <2>1. /\ UNCHANGED <<handleVars, app, senderVars, txVars, modemVars, ghosts>>
        /\ dpc' = "wait" /\ ~onBus
    BY <1>1 DEF Disconnect, Gone
  <2> QED
    BY <2>1
    DEF Ready, Supply, Afresh, SaidOnce, handleVars, senderVars, txVars,
        modemVars, ghosts
<1>2. CASE StopAndDelete
  <2>1. /\ dpc = "wait" /\ dpc' = "none" /\ link' = "none" /\ sender' = "killed"
        /\ tx' = "free" /\ said' = {} /\ overlap' = FALSE
        /\ UNCHANGED <<power, onBus, asked, echoed>>
        /\ pulse' = "on" => pulse = "on" \/ (sender = "running" /\ spc = "onKey")
    BY <1>2 DEF StopAndDelete, Deleted, Holding
  <2> QED
    BY <2>1 DEF Ready, Supply, Afresh, SaidOnce
<1>6. CASE StopMisses
  <2>1. /\ dpc = "wait" /\ dpc' = "dead" /\ link' = "none"
        /\ spc' = "get" /\ tx' = "free" /\ said' = {} /\ overlap' = FALSE
        /\ UNCHANGED <<sender, power, pulse, onBus, asked, echoed>>
        /\ start = "created"
    BY <1>6 DEF StopMisses, Deleted
  <2>2. link = "selected" /\ sender = "running"
    BY <2>1 DEF Ready, Launch
  <2> QED
    BY <2>1, <2>2 DEF Ready, Supply, Afresh, SaidOnce
<1>3. CASE StopDies \/ DisconnectSpins
  <2>1. /\ UNCHANGED <<handleVars, appVars, senderVars, txVars, modemVars, ghosts>>
        /\ dpc' \in {"dead", "spin"}
    BY <1>3 DEF StopDies, DisconnectSpins
  <2> QED
    BY <2>1
    DEF Ready, Supply, Afresh, SaidOnce, handleVars, appVars, senderVars,
        txVars, modemVars, ghosts
<1>4. CASE DisconnectBare
  <2>1. /\ UNCHANGED <<appVars, senderVars, dpc, txVars, modemVars, ghosts>>
        /\ link' = "none" /\ ~appClass
    BY <1>4 DEF DisconnectBare
  <2> QED
    BY <2>1
    DEF Ready, Supply, Afresh, SaidOnce, appVars, senderVars, txVars,
        modemVars, ghosts
<1>5. CASE PutEnds
  <2>1. /\ UNCHANGED <<handleVars, app, appli, recv, senderVars, dpc, txVars,
                       modemVars, ghosts>>
        /\ pend # None
    BY <1>5 DEF PutEnds
  <2> QED
    BY <2>1
    DEF Ready, Supply, Afresh, SaidOnce, handleVars, senderVars, txVars,
        modemVars, ghosts
<1> QED
  BY <1>1, <1>2, <1>3, <1>4, <1>5, <1>6 DEF Stop

LEMMA ModemReady ==
  ASSUME Ready, Modem \/ Unplug \/ Plug
  PROVE  Supply' /\ Afresh' /\ SaidOnce'
<1>1. UNCHANGED <<handleVars, appVars, senderVars, dpc, overlap, said>>
  BY DEF Modem, TakeCommand, StallOut, UnsolicitedLost, SwitchOff, SwitchOn,
         Unplug, Plug, ModemFrame, ghosts
<1>2. CASE TakeCommand \/ StallOut
  <2>1. tx = "busy" /\ onBus /\ UNCHANGED <<power, pulse, onBus, due>>
    BY <1>2 DEF TakeCommand, StallOut, modemVars
  <2>2. link = "class"
    BY <2>1 DEF Ready, Afresh
  <2>3. (asked' = asked /\ echoed' = echoed) \/ dpc = "none"
    BY <1>2 DEF TakeCommand, StallOut, HostRuns, modemVars
  <2> QED
    BY <1>1, <2>1, <2>2, <2>3
    DEF Ready, Supply, Afresh, SaidOnce, handleVars, appVars, senderVars
<1>3. CASE UnsolicitedLost \/ SwitchOff \/ Unplug \/ Plug
  BY <1>1, <1>3
  DEF UnsolicitedLost, SwitchOff, Unplug, Plug, Ready, Supply, Afresh, SaidOnce,
      handleVars, appVars, senderVars, txVars, TypeOK
<1>4. CASE SwitchOn
  BY <1>1, <1>4
  DEF SwitchOn, Ready, Supply, Afresh, SaidOnce, Waits, handleVars, appVars,
      senderVars, txVars
<1> QED
  BY <1>2, <1>3, <1>4 DEF Modem

LEMMA ReadyStep == Ready /\ [Next]_vars => Ready'
<1> SUFFICES ASSUME Ready, Next \/ UNCHANGED vars PROVE Ready'
  OBVIOUS
<1>1. TypeOK' /\ Paced' /\ Guarded' /\ Launch'
  BY TypeStep, GuardedStep DEF Ready
<1>2. CASE UNCHANGED vars
  <2>1. Supply' /\ Afresh' /\ SaidOnce'
    BY <1>2
    DEF vars, Ready, Supply, Afresh, SaidOnce, handleVars, appVars, senderVars,
        txVars, modemVars, ghosts
  <2> QED
    BY <1>1, <2>1 DEF Ready
<1> QED
  BY <1>1, <1>2, EnumerationReady, PacketReady, SenderReady, StopReady, ModemReady
  DEF Next, HostThread, Ready

-----------------------------------------------------------------------------
(* The sequence.  Without an overlap one command is with the modem at a time, *)
(* and every message for the thread names a state that has been reached.      *)

Query == SMS_DONE + 1        \* the first state that looks for a result

OnTheWay(v) ==
  v # None /\ (mbox = v \/ pend = v \/ (spc = "handle" /\ msg = v))

Reached(v) == \A k \in SMS_DONE .. RUNNING - 1 : k < v => k \in said
Lawful(v) ==
  \/ v \in IDLE .. RUNNING /\ Reached(v)
  \/ v = DISCONNECT /\ dpc = "wait"

Lawfully ==
  sender = "running" /\ ~overlap =>
    /\ Lawful(appli)
    /\ spc \notin Waits => \A v : OnTheWay(v) => Lawful(v)

Active ==
  sender = "running" /\ ~overlap /\ dpc = "none" /\ onBus /\ spc \notin Waits

\* The recv function that waits is that of the command the modem answers, or
\* that of "SMS DONE".
Exchange ==
  Active =>
    /\ tx # "free" => asked = <<>>
    /\ Len(asked) <= 1
    /\ echoed => asked # <<>>
    /\ \/ recv \in {None, SMS_DONE}
       \/ asked # <<>> /\ recv = Head(asked) /\ echoed
    /\ recv = SMS_DONE => SMS_DONE \in said

\* READY does not wait behind a message, and nothing waits behind the first
\* query.
Apart ==
  /\ pend # READY
  /\ mbox = READY /\ spc = "handle" => msg # SMS_DONE
  /\ mbox = Query => pend = None
  /\ spc = "handle" /\ msg = Query => mbox = None /\ pend = None

\* Before the first query only READY is sent.  Its recv function and that of
\* "SMS DONE" both lead to the next state; but what leads to the first query
\* comes after SMS DONE, and when READY has been answered.
Asking == tx = "busy" \/ asked # <<>>
SmsKnown == OnTheWay(SMS_DONE) \/ appli = SMS_DONE
Early ==
  Active /\ appli < Query =>
    /\ appli \in {IDLE, READY, SMS_DONE}
    /\ tx = "busy" => txCmd = READY
    /\ asked # <<>> => Head(asked) = READY
    /\ \A v : OnTheWay(v) => v <= Query
    /\ OnTheWay(READY) => appli # SMS_DONE
    /\ SmsKnown /\ Asking =>
         /\ due < 2 /\ recv # SMS_DONE
         /\ tx = "busy" \/ ~echoed \/ recv = READY =>
              due = 0 /\ SMS_DONE \in said
    /\ OnTheWay(Query) => appli = SMS_DONE /\ ~Asking /\ recv = None
    /\ Apart

\* From then on the modem is asked the current state's command only, and the
\* next state is on its way only when that is answered.
Late ==
  Active /\ appli >= Query =>
    /\ recv # SMS_DONE
    /\ tx = "busy" => txCmd = appli
    /\ asked # <<>> => Head(asked) = appli
    /\ \A v : OnTheWay(v) =>
         v = appli \/ (v = appli + 1 /\ tx = "free" /\ asked = <<>>)

Order == Lawfully /\ Exchange /\ Early /\ Late

LEMMA QueryNumber == Query = 4 /\ Query \in Nat
BY Numbers DEF Query

LEMMA LawfulKept ==
  ASSUME said \subseteq said', dpc' \in {dpc, "wait"}
  PROVE  \A v : Lawful(v) => Lawful(v)'
BY DEF Lawful, Reached

\* Steps after which no thread runs.
LEMMA OrderNone ==
  ASSUME sender' # "running"
  PROVE  Order'
BY DEF Order, Lawfully, Exchange, Early, Late, Active

\* Steps after which the modem is away, or the thread only waits for it.
LEMMA OrderIdle ==
  ASSUME Order, ~Active', UNCHANGED <<appli, sender, overlap, said>>,
         dpc' \in {dpc, "wait"},
         \/ spc' \in Waits
         \/ UNCHANGED spc /\ \A v : OnTheWay(v)' =>
               OnTheWay(v) \/ (v = DISCONNECT /\ dpc' = "wait")
  PROVE  Order'
<1>1. \A v : Lawful(v) => Lawful(v)'
  BY LawfulKept
<1>2. dpc' = "wait" => Lawful(DISCONNECT)'
  BY DEF Lawful
<1>3. Lawfully'
  BY <1>1, <1>2 DEF Order, Lawfully
<1> QED
  BY <1>3 DEF Order, Exchange, Early, Late

\* Steps that only take a message, or put the current state.
LEMMA OrderQuiet ==
  ASSUME Ready, Order, spc \notin Waits, spc' \notin Waits,
         UNCHANGED <<appli, recv, sender, onBus, asked, echoed, due, tx, txCmd,
                     said, overlap, dpc>>,
         \A v : OnTheWay(v)' => OnTheWay(v) \/ v = appli,
         appli < Query /\ Active /\ Apart => Apart'
  PROVE  Order'
<1> USE Numbers, QueryNumber
<1>1. appli \in Int
  BY DEF Ready, TypeOK
<1>2. Active' = Active
  BY DEF Active
<1>3. Lawfully'
  BY LawfulKept DEF Order, Lawfully
<1>4. Exchange'
  BY <1>2 DEF Order, Exchange
<1>5. Asking' = Asking /\ (SmsKnown' => SmsKnown)
  BY DEF Asking, SmsKnown
<1>6. Early'
  BY <1>1, <1>2, <1>5 DEF Order, Early
<1>7. Late'
  BY <1>1, <1>2 DEF Order, Late
<1> QED
  BY <1>3, <1>4, <1>6, <1>7 DEF Order

LEMMA OrderStart ==
  ASSUME Ready, Order,
         Enumerate \/ ClassSelected \/ ClassActive \/ StoreId \/ Arm
  PROVE  Order'
<1> USE Numbers, QueryNumber
<1>1. dpc = "none" /\ pend = None
  BY DEF Enumerate, ClassSelected, ClassActive, StoreId, Arm, HostRuns, HostStarts
<1>2. CASE Enumerate \/ ClassSelected
  <2>1. sender # "running"
    BY <1>1, <1>2 DEF Enumerate, ClassSelected, Ready, Guarded
  <2> QED
    BY <1>2, <2>1, OrderNone DEF Enumerate, ClassSelected, senderVars
<1>3. CASE (ClassActive \/ StoreId \/ Arm) /\ sender' = "running"
  <2>0. link = "selected" /\ app = "live" /\ (ClassActive \/ spc = "get")
    BY <1>3 DEF ClassActive, StoreId, Arm, HostStarts, senderVars, Ready, Launch
  <2>1. /\ appli' = IDLE /\ recv' = None /\ mbox' \in {None, READY} /\ pend' = None
        /\ asked' = <<>> /\ ~echoed' /\ spc' = "get" /\ tx' = "free"
        /\ said' = {} /\ ~overlap'
    <3>1. /\ appli = IDLE /\ recv = None /\ mbox = None
          /\ asked = <<>> /\ ~echoed /\ tx = "free" /\ said = {} /\ ~overlap
      BY <1>1, <2>0 DEF Ready, Afresh
    <3>2. /\ UNCHANGED <<appli, recv, asked, echoed, tx, said, overlap>>
          /\ UNCHANGED <<mbox, pend>> \/ PutFromHost(READY)
      BY <1>3 DEF ClassActive, StoreId, Arm, appVars, modemVars, ghosts, txVars
    <3>3. spc' = "get"
      BY <1>3, <2>0 DEF ClassActive, StoreId, Arm, Ready, Launch, senderVars
    <3> QED
      BY <1>1, <3>1, <3>2, <3>3 DEF PutFromHost
  <2>2. \A v : OnTheWay(v)' => v = READY
    BY <2>1 DEF OnTheWay
  <2>3. \A v \in {IDLE, READY} : Lawful(v)'
    BY DEF Lawful, Reached
  <2>4. Lawfully'
    BY <2>1, <2>2, <2>3 DEF Lawfully
  <2>5. Exchange' /\ Early' /\ Late'
    BY <2>1, <2>2 DEF Exchange, Early, Late, Apart, Asking
  <2> QED
    BY <2>4, <2>5 DEF Order
<1> QED
  BY <1>2, <1>3, OrderNone

LEMMA OrderPutEnds ==
  ASSUME Ready, Order, PutEnds
  PROVE  Order'
<1> USE Numbers, QueryNumber
<1>1. /\ pend # None /\ pend' = None
      /\ mbox' = IF mbox = None THEN pend ELSE mbox
      /\ UNCHANGED <<appli, recv, sender, spc, msg, onBus, asked, echoed, due,
                     tx, txCmd, said, overlap, dpc>>
  BY DEF PutEnds, PutNow, senderVars, modemVars, txVars, ghosts
<1>2. \A v : OnTheWay(v)' => OnTheWay(v)
  BY <1>1 DEF OnTheWay
<1>3. CASE spc \in Waits
  BY <1>1, <1>3, OrderIdle DEF Active
<1>4. CASE spc \notin Waits
  <2>1. Apart => Apart'
    BY <1>1 DEF Apart
  <2> QED
    BY <1>1, <1>2, <1>4, <2>1, OrderQuiet
<1> QED
  BY <1>3, <1>4

LEMMA OrderGet ==
  ASSUME Ready, Order, Get \/ GetTimesOut \/ TimedOut \/ EndOfLoop
  PROVE  Order'
<1> USE Numbers, QueryNumber
<1>1. CASE sender' # "running"
  BY <1>1, OrderNone
<1>2. CASE sender' = "running"
  <2>1. /\ UNCHANGED <<appli, recv, sender, onBus, asked, echoed, due, tx,
                       txCmd, said, overlap, dpc, pend>>
        /\ spc \notin Waits /\ spc' \notin Waits
    BY <1>2
    DEF Get, GetTimesOut, TimedOut, EndOfLoop, Exit, SenderFrame, SenderRuns,
        txVars, modemVars, Waits
  <2>2. CASE Get
    <3>1. msg' = mbox /\ mbox' = None /\ spc' = "handle" /\ spc = "get"
      BY <2>2 DEF Get
    <3>2. \A v : OnTheWay(v)' => OnTheWay(v)
      BY <2>1, <3>1 DEF OnTheWay
    <3>3. Apart => Apart'
      BY <2>1, <3>1 DEF Apart
    <3> QED
      BY <2>1, <3>2, <3>3, OrderQuiet
  <2>3. CASE GetTimesOut \/ TimedOut \/ EndOfLoop
    <3>1. /\ mbox' = mbox \/ (mbox = None /\ mbox' = appli)
          /\ spc # "handle" /\ spc' # "handle"
      BY <2>3, <1>2 DEF GetTimesOut, TimedOut, EndOfLoop, Exit, PutNow
    <3>2. \A v : OnTheWay(v)' => OnTheWay(v) \/ v = appli
      BY <2>1, <3>1 DEF OnTheWay
    <3>3. appli < Query /\ Apart => Apart'
      BY <2>1, <3>1 DEF Apart
    <3> QED
      BY <2>1, <3>2, <3>3, OrderQuiet
  <2> QED
    BY <2>2, <2>3
<1> QED
  BY <1>1, <1>2

LEMMA OrderPower ==
  ASSUME Ready, Order, PowerCycle \/ ReleaseKey \/ PowerIsOff \/ PowerIsOn
  PROVE  Order'
<1>1. CASE PowerIsOn
  BY <1>1, OrderNone DEF PowerIsOn, Exit
<1>2. CASE PowerCycle \/ ReleaseKey \/ PowerIsOff
  <2>1. spc' \in Waits /\ UNCHANGED <<appli, sender, overlap, said, dpc>>
    BY <1>2 DEF PowerCycle, ReleaseKey, PowerIsOff, SenderFrame, Waits
  <2> QED
    BY <2>1, OrderIdle DEF Active
<1> QED
  BY <1>1, <1>2

LEMMA OrderStop ==
  ASSUME Ready, Order, Stop \/ DisconnectBare \/ DisconnectSpins
  PROVE  Order'
<1> USE Numbers
<1>1. CASE Disconnect
  <2>1. /\ UNCHANGED <<appli, sender, spc, msg, overlap, said>> /\ dpc' = "wait"
        /\ mbox' \in {mbox, DISCONNECT} /\ pend' \in {pend, DISCONNECT}
    BY <1>1
    DEF Disconnect, PutFromHost, PutNow, senderVars, ghosts
  <2>2. \A v : OnTheWay(v)' => OnTheWay(v) \/ v = DISCONNECT
    BY <2>1 DEF OnTheWay
  <2> QED
    BY <2>1, <2>2, OrderIdle DEF Active
<1>3. CASE StopMisses
  <2>1. /\ appli' = IDLE /\ dpc' = "dead" /\ spc' = "get" /\ mbox' = None
        /\ pend' = None
    BY <1>3 DEF StopMisses, Deleted
  <2>2. Lawful(appli)' /\ \A v : ~OnTheWay(v)'
    BY <2>1 DEF Lawful, Reached, OnTheWay
  <2> QED
    BY <2>1, <2>2 DEF Order, Lawfully, Exchange, Early, Late, Active
<1>2. CASE ~Disconnect /\ ~StopMisses
  <2>1. sender' # "running"
    BY <1>2
    DEF Stop, StopAndDelete, StopDies, DisconnectBare, DisconnectSpins, Gone,
        Ready, Guarded, senderVars
  <2> QED
    BY <2>1, OrderNone
<1> QED
  BY <1>1, <1>2, <1>3

LEMMA OrderModem ==
  ASSUME Ready, Order, Modem \/ Unplug \/ Plug
  PROVE  Order'
<1> USE Numbers, QueryNumber
<1>1. UNCHANGED <<handleVars, appVars, senderVars, dpc, overlap, said>>
  BY DEF Modem, TakeCommand, StallOut, UnsolicitedLost, SwitchOff, SwitchOn,
         Unplug, Plug, ModemFrame, ghosts
<1>2. /\ UNCHANGED <<appli, recv, sender, spc, msg, mbox, pend>>
      /\ \A v : OnTheWay(v)' <=> OnTheWay(v)
  BY <1>1 DEF appVars, senderVars, OnTheWay
<1>3. CASE ~Active'
  BY <1>1, <1>2, <1>3, OrderIdle
<1>4. CASE Active' /\ TakeCommand
  <2>1. /\ Active /\ tx = "busy" /\ asked = <<>> /\ ~echoed
        /\ recv \in {None, SMS_DONE}
    BY <1>1, <1>2, <1>4 DEF Active, TakeCommand, Order, Exchange
  <2>2. /\ asked' = Append(asked, txCmd) /\ txCmd \in Commands /\ tx' = "free"
        /\ UNCHANGED <<echoed, due>>
    BY <1>4 DEF TakeCommand, Ready, TypeOK
  <2>3. asked' # <<>> /\ Len(asked') = 1 /\ Head(asked') = txCmd
    BY <2>1, <2>2
  <2> HIDE DEF Commands
  <2>4. Lawfully'
    BY <1>1, <1>2, LawfulKept DEF Order, Lawfully
  <2>5. Exchange'
    BY <1>1, <1>2, <2>1, <2>2, <2>3 DEF Order, Exchange
  <2>6. Asking /\ (SmsKnown' <=> SmsKnown) /\ (Apart => Apart')
    BY <1>2, <2>1 DEF Asking, SmsKnown, Apart
  <2>7. Early'
    BY <1>1, <1>2, <2>1, <2>2, <2>3, <2>6 DEF Order, Early
  <2>8. Late'
    BY <1>1, <1>2, <2>1, <2>2, <2>3 DEF Order, Late
  <2> QED
    BY <2>4, <2>5, <2>7, <2>8 DEF Order
<1>5. CASE Active' /\ StallOut
  <2>1. /\ Active /\ tx = "busy" /\ asked = <<>> /\ ~echoed /\ tx' = "stuck"
        /\ UNCHANGED <<txCmd, asked, echoed, due, onBus>>
    BY <1>1, <1>2, <1>5 DEF Active, StallOut, Order, Exchange, modemVars
  <2>2. Lawfully'
    BY <1>1, <1>2, LawfulKept DEF Order, Lawfully
  <2>3. Exchange'
    BY <1>1, <1>2, <2>1 DEF Order, Exchange
  <2>4. Asking /\ ~Asking' /\ (Apart => Apart')
    BY <1>2, <2>1 DEF Asking, Apart
  <2>5. Early'
    BY <1>1, <1>2, <2>1, <2>4 DEF Order, Early
  <2>6. Late'
    BY <1>1, <1>2, <2>1 DEF Order, Late
  <2> QED
    BY <2>2, <2>3, <2>5, <2>6 DEF Order
<1>6. CASE SwitchOn
  BY <1>2, <1>3, <1>6 DEF SwitchOn, Ready, Supply, Active, Waits
<1>7. CASE SwitchOff \/ Unplug
  BY <1>3, <1>7 DEF SwitchOff, Unplug, Active
<1>8. CASE Active' /\ UnsolicitedLost
  <2>1. /\ link # "class" /\ UNCHANGED <<tx, txCmd, asked, echoed, onBus>>
        /\ due' \in Int /\ due' <= due /\ due \in Int
    BY <1>8 DEF UnsolicitedLost, txVars, Ready, TypeOK
  <2>2. ~Asking /\ ~Asking' /\ asked = <<>> /\ tx = "free"
    BY <2>1 DEF Ready, Afresh, Asking
  <2>3. Active /\ (Apart => Apart')
    BY <1>1, <1>2, <1>8, <2>1 DEF Active, Apart
  <2>4. Lawfully'
    BY <1>1, <1>2, LawfulKept DEF Order, Lawfully
  <2>5. Exchange' /\ Early' /\ Late'
    BY <1>1, <1>2, <2>1, <2>2, <2>3 DEF Order, Exchange, Early, Late
  <2> QED
    BY <2>4, <2>5 DEF Order
<1>9. CASE Plug
  <2>1. ~Active'
    BY <1>1, <1>2, <1>9 DEF Plug, Ready, Guarded, Active
  <2> QED
    BY <1>3, <2>1
<1> QED
  BY <1>3, <1>4, <1>5, <1>6, <1>7, <1>8, <1>9 DEF Modem

\* A command that is sent while the modem, or the thread, has nothing else to
\* do is not overlapped.
LEMMA HandleWays ==
  ASSUME Ready, Order, Handle, ~overlap'
  PROVE  /\ UNCHANGED <<recv, sender, onBus, asked, echoed, due, said, overlap,
                        dpc, mbox, pend>>
         /\ spc = "handle" /\ spc' = "end" /\ ~overlap /\ OnTheWay(msg)
         /\ \A v : OnTheWay(v)' => OnTheWay(v)
         /\ \/ appli' = appli /\ msg \notin Commands \cup {SMS_DONE}
            \/ appli' = msg /\ msg \in Commands \cup {SMS_DONE}
            \/ appli' = DISCONNECT /\ msg = DISCONNECT
         /\ \/ UNCHANGED txVars /\ (msg \in Commands => tx # "free")
            \/ /\ msg \in Commands /\ tx = "free" /\ tx' = "busy"
               /\ txCmd' = msg /\ ~InProgress
<1> USE Numbers
<1>1. /\ UNCHANGED <<recv, sender, onBus, asked, echoed, due, dpc, mbox, pend>>
      /\ spc = "handle" /\ spc' = "end"
  BY DEF Handle, SenderRuns, SenderFrame, modemVars
<1>2. msg # None
  BY DEF Ready, TypeOK
<1>3. \A v : OnTheWay(v)' => OnTheWay(v)
  BY <1>1 DEF OnTheWay
<1>4. UNCHANGED <<said, overlap>> /\ ~overlap /\ OnTheWay(msg)
  <2>1. CASE UNCHANGED <<overlap, said>>
    BY <1>1, <1>2, <2>1 DEF OnTheWay
  <2>2. CASE overlap' = (overlap \/ InProgress) /\ said' = IF overlap' THEN {} ELSE said
    <3>1. overlap \in BOOLEAN
      BY DEF Ready, TypeOK
    <3> QED
      BY <1>1, <1>2, <2>2, <3>1 DEF OnTheWay
  <2> QED
    BY <2>1, <2>2 DEF Handle, Send
<1>5. \/ appli' = appli /\ msg \notin Commands \cup {SMS_DONE}
      \/ appli' = msg /\ msg \in Commands \cup {SMS_DONE}
      \/ appli' = DISCONNECT /\ msg = DISCONNECT
  BY DEF Handle
<1>6. \/ UNCHANGED txVars /\ (msg \in Commands => tx # "free")
      \/ /\ msg \in Commands /\ tx = "free" /\ tx' = "busy"
         /\ txCmd' = msg /\ ~InProgress
  BY DEF Handle, Send, txVars
<1> QED
  BY <1>1, <1>3, <1>4, <1>5, <1>6

LEMMA OrderHandle ==
  ASSUME Ready, Order, Handle
  PROVE  Order'
<1> USE Numbers, QueryNumber
<1>1. CASE overlap'
  BY <1>1 DEF Order, Lawfully, Exchange, Early, Late, Active
<1>2. CASE ~overlap'
  <2> DEFINE Sent == /\ msg \in Commands /\ tx = "free" /\ tx' = "busy"
                     /\ txCmd' = msg /\ ~InProgress
  <2>1. /\ UNCHANGED <<recv, sender, onBus, asked, echoed, due, said, overlap,
                       dpc, mbox, pend>>
        /\ spc = "handle" /\ spc' = "end" /\ ~overlap /\ OnTheWay(msg)
        /\ \A v : OnTheWay(v)' => OnTheWay(v)
    BY <1>2, HandleWays
  <2>2. \/ appli' = appli /\ msg \notin Commands \cup {SMS_DONE}
        \/ appli' = msg /\ msg \in Commands \cup {SMS_DONE}
        \/ appli' = DISCONNECT /\ msg = DISCONNECT
    BY <1>2, HandleWays
  <2>3. (UNCHANGED txVars /\ (msg \in Commands => tx # "free")) \/ Sent
    BY <1>2, HandleWays
  <2>4. /\ appli \in States /\ msg \in States \cup {DISCONNECT + 1}
        /\ appli' \in States
    BY <2>2, Members DEF Ready, TypeOK
  <2>5. Active' = Active /\ sender = "running"
    BY <2>1 DEF Active, Waits, Handle, SenderRuns
  <2>6. Sent => /\ asked = <<>> /\ recv = None /\ mbox = None /\ pend = None
                /\ \A v : ~OnTheWay(v)'
    BY <2>1 DEF InProgress, OnTheWay
  <2>7. Lawful(appli') /\ \A v : OnTheWay(v)' => Lawful(v)
    BY <2>1, <2>2, <2>5 DEF Order, Lawfully, Waits
  <2>8. \A v : Lawful(v) <=> Lawful(v)'
    BY <2>1 DEF Lawful, Reached
  <2>9. Lawfully'
    BY <2>7, <2>8 DEF Lawfully
  <2>10. Exchange'
    BY <2>1, <2>3, <2>5, <2>6 DEF Order, Exchange, txVars
  <2>11. Active => appli' # DISCONNECT
    BY <2>7 DEF Lawful, Active
  <2>12. ASSUME Active, appli' < Query
         PROVE  appli < Query /\ appli' \in {appli, msg}
    BY <2>1, <2>2, <2>4, <2>11, <2>12 DEF Order, Late
  <2>13. ASSUME Active, appli' < Query
         PROVE  /\ Apart' /\ (SmsKnown' => SmsKnown)
                /\ appli' \in {IDLE, READY, SMS_DONE}
                /\ OnTheWay(READY)' => appli' # SMS_DONE
                /\ Sent => appli' = READY
                /\ OnTheWay(Query)' => appli' = SMS_DONE
    BY <2>1, <2>2, <2>4, <2>12, <2>13
    DEF Order, Early, Apart, SmsKnown, OnTheWay
  <2>14. CASE Sent
    <3>1. Early'
      BY <2>1, <2>5, <2>6, <2>12, <2>13, <2>14 DEF Order, Early, SmsKnown
    <3>2. Late'
      BY <2>1, <2>2, <2>4, <2>5, <2>6, <2>11, <2>14 DEF Order, Late
    <3> QED
      BY <2>9, <2>10, <3>1, <3>2 DEF Order
  <2>15. CASE UNCHANGED txVars /\ (msg \in Commands => tx # "free")
    <3>1. Asking' = Asking
      BY <2>1, <2>15 DEF Asking, txVars
    <3>2. Early'
      BY <2>1, <2>5, <2>12, <2>13, <2>15, <3>1 DEF Order, Early, txVars
    <3>3. Late'
      <4>1. CASE appli < Query /\ Active /\ appli' >= Query
        <5>1. appli' = msg
          BY <2>2, <2>4, <2>11, <4>1
        <5>2. msg <= Query
          BY <2>1, <4>1 DEF Order, Early
        <5>3. msg = Query /\ OnTheWay(Query)
          BY <2>1, <2>4, <4>1, <5>1, <5>2
        <5>4. Apart /\ ~Asking /\ recv = None
          BY <4>1, <5>3 DEF Order, Early
        <5>5. \A v : ~OnTheWay(v)'
          BY <2>1, <5>3, <5>4 DEF Apart, OnTheWay
        <5> QED
          BY <2>1, <2>15, <4>1, <5>1, <5>3, <5>4, <5>5 DEF Late, Asking, txVars
      <4>2. CASE ~(appli < Query /\ Active /\ appli' >= Query)
        <5>1. Active /\ appli' >= Query => appli >= Query /\ appli' = appli
          BY <2>1, <2>2, <2>4, <2>11, <2>15, <4>2 DEF Order, Late
        <5> QED
          BY <2>1, <2>5, <2>15, <5>1 DEF Order, Late, txVars
      <4> QED
        BY <4>1, <4>2
    <3> QED
      BY <2>9, <2>10, <3>2, <3>3 DEF Order
  <2> QED
    BY <2>3, <2>14, <2>15
<1> QED
  BY <1>1, <1>2

\* What a packet does: its command is looked up; or the command that waits for
\* it takes it.
LEMMA CallbackWays ==
  ASSUME NEW name, NEW good \in BOOLEAN, Callback(name, good)
  PROVE  \/ recv = None /\ recv' = name /\ UNCHANGED <<mbox, pend>>
         \/ /\ recv' = None
            /\ \/ recv \in {READY, SMS_DONE} /\ PutFromHost(appli + 1)
               \/ /\ recv \in Query .. RUNNING - 1
                  /\ PutFromHost(IF good THEN appli + 1 ELSE appli)
               \/ recv = RUNNING /\ PutFromHost(RUNNING)
BY DEF Callback, Select, RecvNext, RecvGeneral, RecvRunning, MoveTo, Query

LEMMA CallbackFrame ==
  ASSUME NEW name, NEW good \in BOOLEAN, Callback(name, good)
  PROVE  /\ UNCHANGED <<appli, sender, spc, msg, onBus, tx, txCmd, overlap, dpc>>
         /\ dpc = "none" /\ pend = None
BY DEF Callback, HostRuns, senderVars, txVars

\* The host thread puts one message more.
LEMMA OnTheWayPut ==
  ASSUME NEW v \in Nat, pend = None, PutFromHost(v), UNCHANGED <<spc, msg>>
  PROVE  /\ \A w : OnTheWay(w)' <=> OnTheWay(w) \/ w = v
         /\ v # READY /\ ~OnTheWay(Query) /\ Apart => Apart'
<1> USE Numbers, QueryNumber
<1>1. \/ mbox = None /\ mbox' = v /\ pend' = pend
      \/ mbox # None /\ pend' = v /\ mbox' = mbox
  BY DEF PutFromHost
<1>2. v # None
  OBVIOUS
<1>3. \A w : OnTheWay(w)' <=> OnTheWay(w) \/ w = v
  BY <1>1, <1>2 DEF OnTheWay
<1>4. v # READY /\ ~OnTheWay(Query) /\ Apart => Apart'
  BY <1>1 DEF Apart, OnTheWay
<1> QED
  BY <1>3, <1>4

\* The messages of a packet are lawful if its own is.
LEMMA PacketLawful ==
  ASSUME Ready, Order, UNCHANGED <<appli, sender, spc, overlap, dpc>>,
         said \subseteq said',
         Active => \A v : OnTheWay(v)' => OnTheWay(v) \/ Lawful(v)',
         onBus, dpc = "none"
  PROVE  Lawfully'
BY LawfulKept DEF Order, Lawfully, Active

LEMMA OrderEcho ==
  ASSUME Ready, Order, Echo
  PROVE  Order'
<1> USE Numbers, QueryNumber
<1>1. /\ UNCHANGED <<appli, sender, spc, msg, onBus, tx, txCmd, overlap, dpc>>
      /\ dpc = "none" /\ pend = None
  BY CallbackFrame DEF Echo
<1>2. /\ asked # <<>> /\ ~echoed /\ echoed' = TRUE /\ onBus
      /\ UNCHANGED <<asked, due, said>>
  BY DEF Echo
<1>3. Head(asked) \in Commands /\ appli \in Nat
  BY <1>2, HeadTailProperties DEF Ready, TypeOK
<1>4. Active' = Active
  BY <1>1 DEF Active
<1>5. CASE ~Active
  <2>1. Lawfully'
    BY <1>1, <1>2, <1>5, PacketLawful
  <2> QED
    BY <1>4, <1>5, <2>1 DEF Order, Exchange, Early, Late
<1>6. CASE Active
  <2>1. tx = "free" /\ recv \in {None, SMS_DONE} /\ Asking /\ Asking'
    BY <1>1, <1>2, <1>6 DEF Order, Exchange, Asking
  <2>2. CASE recv = None
    <3>1. recv' = Head(asked) /\ UNCHANGED <<mbox, pend>>
      BY <2>2
      DEF Echo, Callback, Select, RecvNext, RecvGeneral, RecvRunning, MoveTo
    <3>2. \A w : OnTheWay(w)' <=> OnTheWay(w)
      BY <1>1, <3>1 DEF OnTheWay
    <3>3. Lawfully'
      BY <1>1, <1>2, <3>2, PacketLawful
    <3>4. Exchange'
      BY <1>1, <1>2, <1>3, <1>4, <2>1, <3>1 DEF Order, Exchange
    <3>5. (SmsKnown' => SmsKnown) /\ (Apart => Apart')
      BY <1>1, <3>1, <3>2 DEF SmsKnown, Apart
    <3>6. Early'
      BY <1>1, <1>2, <1>3, <1>4, <2>1, <3>1, <3>2, <3>5 DEF Order, Early
    <3>7. Late'
      BY <1>1, <1>2, <1>3, <1>4, <2>1, <3>1, <3>2 DEF Order, Late
    <3> QED
      BY <3>3, <3>4, <3>6, <3>7 DEF Order
  <2>3. CASE recv = SMS_DONE
    <3>1. recv' = None /\ PutFromHost(appli + 1)
      BY <2>3
      DEF Echo, Callback, Select, RecvNext, RecvGeneral, RecvRunning, MoveTo
    <3>2. appli < Query /\ appli \in {IDLE, READY, SMS_DONE} /\ SMS_DONE \in said
      BY <1>3, <1>6, <2>3 DEF Order, Early, Late, Exchange
    <3>3. ~SmsKnown /\ ~OnTheWay(Query)
      BY <1>6, <2>1, <2>3, <3>2 DEF Order, Early
    <3>4. appli + 1 \in {1, 3} /\ appli + 1 \in Nat
      BY <3>2, <3>3 DEF SmsKnown
    <3>5. /\ \A w : OnTheWay(w)' <=> OnTheWay(w) \/ w = appli + 1
          /\ Apart => Apart'
      BY <1>1, <3>1, <3>3, <3>4, OnTheWayPut
    <3>6. Lawful(appli + 1)'
      BY <1>1, <3>4 DEF Lawful, Reached
    <3>7. Lawfully'
      BY <1>1, <1>2, <3>5, <3>6, PacketLawful
    <3>8. Exchange'
      BY <1>1, <1>2, <1>4, <2>1, <3>1 DEF Order, Exchange
    <3>9. due < 2
      BY <1>6, <3>2 DEF Ready, SaidOnce, Active
    <3>10. Early'
      BY <1>1, <1>2, <1>4, <1>6, <2>1, <3>1, <3>2, <3>3, <3>4, <3>5, <3>9
      DEF Order, Early
    <3>11. Late'
      BY <1>1, <3>2 DEF Late
    <3> QED
      BY <3>7, <3>8, <3>10, <3>11 DEF Order
  <2> QED
    BY <2>1, <2>2, <2>3
<1> QED
  BY <1>5, <1>6

\* Without an overlap a command's result is taken by its own recv function, and
\* the message it leads to is lawful.
LEMMA OrderResult ==
  ASSUME Ready, Order, NEW good \in BOOLEAN, Result(good)
  PROVE  Order'
<1> USE Numbers, QueryNumber
<1> DEFINE h == Head(asked)
<1>1. /\ UNCHANGED <<appli, sender, spc, msg, onBus, tx, txCmd, overlap, dpc>>
      /\ dpc = "none" /\ pend = None
  BY DEF Result, Callback, HostRuns, senderVars, txVars
<1>2. /\ asked # <<>> /\ echoed /\ onBus /\ due' = due
      /\ asked' = Tail(asked) /\ ~echoed'
  BY DEF Result
<1>3. h \in Commands /\ appli \in Nat
  BY <1>2, HeadTailProperties DEF Ready, TypeOK
<1>4. Active' = Active
  BY <1>1 DEF Active
<1>5. /\ said \subseteq said'
      /\ \/ said' = said
         \/ said' = said \cup {h} /\ h \in SMS_DONE .. RUNNING - 1
      /\ good /\ ~overlap /\ h \in SMS_DONE .. RUNNING - 1 => h \in said'
  BY DEF Result, Says
<1>6. CASE ~Active
  <2>1. Lawfully'
    BY <1>1, <1>2, <1>5, <1>6, PacketLawful
  <2> QED
    BY <1>4, <1>6, <2>1 DEF Order, Exchange, Early, Late
<1>7. CASE Active
  <2>1. /\ tx = "free" /\ recv \in {None, SMS_DONE, h} /\ Asking
        /\ asked' = <<>> /\ ~Asking'
    <3>1. asked \in Seq(Commands) /\ Len(asked) <= 1 /\ asked # <<>>
      BY <1>2, <1>7 DEF Order, Exchange, Ready, TypeOK
    <3>2. Tail(asked) \in Seq(Commands) /\ Len(Tail(asked)) = Len(asked) - 1
      BY <3>1, HeadTailProperties
    <3>3. Len(Tail(asked)) = 0
      BY <3>1, <3>2, LenProperties
    <3>4. Tail(asked) = <<>>
      BY <3>2, <3>3, EmptySeq
    <3>5. tx = "free" /\ recv \in {None, SMS_DONE, h}
      BY <1>2, <1>7 DEF Order, Exchange
    <3> QED
      BY <1>1, <1>2, <3>4, <3>5 DEF Asking
  <2>2. recv' = None
    BY DEF Result, Callback, Select, RecvNext, RecvGeneral, RecvRunning, MoveTo
  <2>3. Exchange'
    BY <1>1, <1>2, <2>1, <2>2 DEF Exchange
  <2>4. CASE UNCHANGED <<mbox, pend>>
    <3>1. \A w : OnTheWay(w)' <=> OnTheWay(w)
      BY <1>1, <2>4 DEF OnTheWay
    <3>2. Lawfully'
      BY <1>1, <1>2, <1>5, <3>1, PacketLawful
    <3>3. Apart => Apart'
      BY <1>1, <2>4 DEF Apart
    <3>4. Early'
      BY <1>1, <1>2, <1>4, <2>1, <2>2, <3>1, <3>3 DEF Order, Early
    <3>5. Late'
      BY <1>1, <1>2, <1>4, <2>1, <2>2, <3>1 DEF Order, Late
    <3> QED
      BY <2>3, <3>2, <3>4, <3>5 DEF Order
  <2>5. CASE appli < Query /\ ~UNCHANGED <<mbox, pend>>
    <3>1. h = READY /\ appli \in {IDLE, READY, SMS_DONE} /\ ~OnTheWay(Query)
      BY <1>2, <1>7, <2>1, <2>5 DEF Order, Early
    <3>2. recv \in {READY, SMS_DONE} /\ PutFromHost(appli + 1)
      BY <2>1, <2>5, <3>1
      DEF Result, Callback, Select, RecvNext, RecvGeneral, RecvRunning, MoveTo
    <3>3. appli + 1 \in {1, 3, 4} /\ appli + 1 \in Nat
      BY <3>1
    <3>4. /\ \A w : OnTheWay(w)' <=> OnTheWay(w) \/ w = appli + 1
          /\ Apart => Apart'
      BY <1>1, <3>1, <3>2, <3>3, OnTheWayPut
    <3>5. appli = SMS_DONE => SMS_DONE \in said
      BY <1>2, <1>7, <2>1, <2>5, <3>2 DEF Order, Early, SmsKnown
    <3>6. Lawful(appli + 1)'
      BY <1>1, <1>5, <3>1, <3>3, <3>5 DEF Lawful, Reached
    <3>7. Lawfully'
      BY <1>1, <1>2, <1>5, <3>4, <3>6, PacketLawful
    <3>8. Early'
      BY <1>1, <1>2, <1>4, <1>7, <2>1, <2>2, <2>5, <3>1, <3>3, <3>4
      DEF Order, Early
    <3>9. Late'
      BY <1>1, <1>3, <2>5 DEF Late
    <3> QED
      BY <2>3, <3>7, <3>8, <3>9 DEF Order
  <2>6. CASE appli >= Query /\ ~UNCHANGED <<mbox, pend>>
    <3>1. h = appli /\ recv = appli /\ Lawful(appli)
      BY <1>2, <1>7, <2>1, <2>6
      DEF Order, Late, Lawfully, Active, Result, Callback, Select, RecvNext,
          RecvGeneral, RecvRunning, MoveTo
    <3>2. \/ PutFromHost(appli)
          \/ PutFromHost(appli + 1) /\ good /\ appli <= RUNNING - 1
      BY <2>6, <3>1
      DEF Result, Callback, Select, RecvNext, RecvGeneral, RecvRunning, MoveTo,
          Query
    <3>3. PICK v \in {appli, appli + 1} :
            PutFromHost(v) /\ (v = appli \/ (good /\ appli <= RUNNING - 1))
      BY <3>2
    <3>4. \A w : OnTheWay(w)' <=> OnTheWay(w) \/ w = v
      BY <1>1, <1>3, <3>3, OnTheWayPut
    <3>5. v = appli => Lawful(v)'
      BY <1>1, <1>5, <3>1, LawfulKept
    <3>6. v = appli + 1 => Lawful(v)'
      <4>1. SUFFICES ASSUME v = appli + 1 PROVE Lawful(v)'
        OBVIOUS
      <4>2. good /\ appli \in Query .. RUNNING - 1 /\ ~overlap
        BY <1>3, <1>7, <2>6, <3>3, <4>1 DEF Active
      <4>3. appli \in said'
        BY <1>5, <3>1, <4>2
      <4>4. Reached(appli)
        BY <3>1, <4>2 DEF Lawful
      <4> QED
        BY <1>5, <4>1, <4>2, <4>3, <4>4 DEF Lawful, Reached
    <3>7. Lawfully'
      BY <1>1, <1>2, <1>5, <3>3, <3>4, <3>5, <3>6, PacketLawful
    <3>8. Early'
      BY <1>1, <1>3, <2>6 DEF Early
    <3>9. Late'
      BY <1>1, <1>2, <1>3, <1>4, <1>7, <2>1, <2>2, <2>6, <3>1, <3>3, <3>4
      DEF Order, Late
    <3> QED
      BY <2>3, <3>7, <3>8, <3>9 DEF Order
  <2> QED
    BY <1>3, <2>4, <2>5, <2>6
<1> QED
  BY <1>6, <1>7

LEMMA OrderUnsolicited ==
  ASSUME Ready, Order, Unsolicited
  PROVE  Order'
<1> USE Numbers, QueryNumber
<1>1. /\ UNCHANGED <<appli, sender, spc, msg, onBus, tx, txCmd, overlap, dpc,
                     asked, echoed>>
      /\ dpc = "none" /\ pend = None /\ onBus
  BY DEF Unsolicited, Callback, HostRuns, senderVars, txVars
<1>2. due \in {1, 2} /\ due' = due - 1
  BY DEF Unsolicited, Ready, TypeOK
<1>3. appli \in Nat
  BY DEF Ready, TypeOK
<1>4. Active' = Active /\ Asking' = Asking
  BY <1>1 DEF Active, Asking
<1>5. /\ said \subseteq said'
      /\ due = 2 /\ ~overlap => SMS_DONE \in said'
  BY DEF Unsolicited, Says
<1>6. CASE ~Active
  <2>1. Lawfully'
    BY <1>1, <1>5, <1>6, PacketLawful
  <2> QED
    BY <1>4, <1>6, <2>1 DEF Order, Exchange, Early, Late
<1>7. CASE Active
  <2>1. SMS_DONE \in said => due = 1
    BY <1>2, <1>7 DEF Active, Ready, SaidOnce
  <2>2. \A v \in Query .. RUNNING : Lawful(v) => due = 1
    BY <2>1 DEF Lawful, Reached
  <2>3. recv' = None \/ (recv = None /\ recv' = SMS_DONE /\ due = 2)
    BY DEF Unsolicited, Callback, Select, RecvNext, RecvGeneral, RecvRunning,
           MoveTo
  <2>4. Exchange'
    BY <1>1, <1>4, <1>5, <1>7, <2>3 DEF Order, Exchange, Active
  <2>5. CASE UNCHANGED <<mbox, pend>>
    <3>1. \A w : OnTheWay(w)' <=> OnTheWay(w)
      BY <1>1, <2>5 DEF OnTheWay
    <3>2. recv = None /\ recv' = (IF due = 2 THEN SMS_DONE ELSE None)
      BY <1>1, <1>3, <2>5
      DEF Unsolicited, Callback, Select, RecvNext, RecvGeneral, RecvRunning,
          MoveTo, PutFromHost
    <3>3. Lawfully'
      BY <1>1, <1>5, <3>1, PacketLawful
    <3>4. (Apart => Apart') /\ (SmsKnown' <=> SmsKnown)
      BY <1>1, <2>5, <3>1 DEF Apart, SmsKnown
    <3>5. OnTheWay(Query) => due = 1
      BY <1>7, <2>2 DEF Order, Lawfully, Active
    <3>6. Early'
      BY <1>1, <1>2, <1>4, <3>1, <3>2, <3>4, <3>5 DEF Order, Early
    <3>7. appli >= Query => due = 1
      BY <1>1, <1>3, <1>7, <2>2 DEF Order, Lawfully, Lawful, Active
    <3>8. Late'
      BY <1>1, <1>2, <1>4, <3>1, <3>2, <3>7 DEF Order, Late
    <3> QED
      BY <2>4, <3>3, <3>6, <3>8 DEF Order
  <2>6. CASE appli < Query /\ ~UNCHANGED <<mbox, pend>>
    <3>1. /\ appli \in {IDLE, READY, SMS_DONE} /\ recv' = None
          /\ asked # <<>> => Head(asked) = READY
      BY <1>7, <2>3, <2>6
      DEF Order, Early, Unsolicited, Callback, Select, RecvNext, RecvGeneral,
          RecvRunning, MoveTo
    <3>2. recv \in {READY, SMS_DONE} /\ PutFromHost(appli + 1)
      BY <1>7, <2>6, <3>1
      DEF Order, Exchange, Unsolicited, Callback, Select, RecvNext, RecvGeneral,
          RecvRunning, MoveTo
    <3>3. ~OnTheWay(Query)
      BY <1>7, <2>6, <3>2 DEF Order, Early
    <3>4. recv = SMS_DONE => SMS_DONE \in said /\ due = 1
      BY <1>7, <2>1 DEF Order, Exchange
    <3>5. recv = READY => Asking /\ tx = "free" /\ echoed /\ ~SmsKnown
      BY <1>2, <1>7, <2>6 DEF Order, Exchange, Early, Asking
    <3>6. appli = SMS_DONE => recv = SMS_DONE /\ ~Asking
      BY <1>7, <2>6, <3>2, <3>5 DEF Order, Early, SmsKnown
    <3>7. appli + 1 \in {1, 3, 4} /\ appli + 1 \in Nat
      BY <3>1
    <3>8. /\ \A w : OnTheWay(w)' <=> OnTheWay(w) \/ w = appli + 1
          /\ Apart => Apart'
      BY <1>1, <3>2, <3>3, <3>7, OnTheWayPut
    <3>9. Lawful(appli + 1)'
      BY <1>1, <1>5, <3>1, <3>4, <3>6, <3>7 DEF Lawful, Reached
    <3>10. Lawfully'
      BY <1>1, <1>5, <3>8, <3>9, PacketLawful
    <3>11. Early'
      BY <1>1, <1>2, <1>4, <1>5, <1>7, <2>6, <3>1, <3>2, <3>3, <3>4, <3>5,
         <3>6, <3>7, <3>8
      DEF Order, Early
    <3>12. Late'
      BY <1>1, <1>3, <2>6 DEF Late
    <3> QED
      BY <2>4, <3>10, <3>11, <3>12 DEF Order
  <2>7. CASE appli >= Query /\ ~UNCHANGED <<mbox, pend>>
    <3>1. asked # <<>> /\ recv = appli /\ Lawful(appli) /\ recv' = None
      BY <1>3, <1>7, <2>3, <2>7
      DEF Order, Exchange, Late, Lawfully, Active, Unsolicited, Callback, Select,
          RecvNext, RecvGeneral, RecvRunning, MoveTo
    <3>2. PutFromHost(appli)
      BY <2>7, <3>1
      DEF Unsolicited, Callback, Select, RecvNext, RecvGeneral, RecvRunning,
          MoveTo, Query
    <3>3. \A w : OnTheWay(w)' <=> OnTheWay(w) \/ w = appli
      BY <1>1, <1>3, <3>2, OnTheWayPut
    <3>4. Lawful(appli)'
      BY <1>1, <1>5, <3>1 DEF Lawful, Reached
    <3>5. Lawfully'
      BY <1>1, <1>5, <3>3, <3>4, PacketLawful
    <3>6. Early'
      BY <1>1, <1>3, <2>7 DEF Early
    <3>7. Late'
      BY <1>1, <1>3, <1>4, <1>7, <2>7, <3>1, <3>3 DEF Order, Late
    <3> QED
      BY <2>4, <3>5, <3>6, <3>7 DEF Order
  <2> QED
    BY <1>3, <2>5, <2>6, <2>7
<1> QED
  BY <1>6, <1>7

LEMMA OrderStep == Ready /\ Order /\ [Next]_vars => Order'
<1> SUFFICES ASSUME Ready, Order, Next \/ UNCHANGED vars PROVE Order'
  OBVIOUS
<1>1. CASE UNCHANGED vars
  BY <1>1
  DEF vars, Order, Lawfully, Lawful, Reached, OnTheWay, Exchange, Early, Late,
      Active, Apart, Asking, SmsKnown, handleVars, appVars, senderVars, txVars,
      modemVars, ghosts
<1>2. CASE Sender \/ GetTimesOut
  BY <1>2, OrderGet, OrderHandle, OrderPower DEF Sender
<1>3. CASE HostThread
  BY <1>3, OrderStart, OrderEcho, OrderResult, OrderUnsolicited DEF HostThread
<1> QED
  BY <1>1, <1>2, <1>3, OrderPutEnds, OrderStop, OrderModem DEF Next

\* A state of the sequence is reached through the results of all the ones
\* before it, and the thread leaves the sequence only when it is told to stop,
\* however time-outs, repeated commands, unsolicited messages and power cycles
\* interleave, as long as no command is sent while an earlier one is still
\* being answered (app_ec20.c:169-238, 517).
THEOREM StatesReached == Spec => []StatesInOrder
<1>1. Init => Ready /\ Order
  <2> SUFFICES ASSUME Init PROVE Ready /\ Order
    OBVIOUS
  <2>1. Supply /\ Afresh /\ SaidOnce
    BY DEF Init, Supply, Afresh, SaidOnce
  <2>2. Order
    BY DEF Init, Order, Lawfully, Exchange, Early, Late, Active
  <2> QED
    BY <2>1, <2>2, InitType DEF Ready
<1>2. Ready /\ Order /\ [Next]_vars => (Ready /\ Order)'
  BY ReadyStep, OrderStep
<1>3. Ready /\ Order => StatesInOrder
  BY Numbers DEF Order, Lawfully, Lawful, Reached, StatesInOrder, Ready, TypeOK
<1> QED
  BY <1>1, <1>2, <1>3, PTL DEF Spec
=============================================================================
