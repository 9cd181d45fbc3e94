---------------------------- MODULE ModPro_proofs ---------------------------
(***************************************************************************)
(* For any ports, routes and settings and any bound of the event list: the *)
(* type invariant, that neither a route nor the end of JACK is lost, and   *)
(* what can end the program, at which places of it.  The inductive         *)
(* invariant relates the main thread's place in start-up to the client's   *)
(* standing with the server, and says that only a dead server can have     *)
(* caused a shutdown notification or anything that follows from it, and    *)
(* only a change of a setting a notification of one.                       *)
(***************************************************************************)
EXTENDS ModPro, TLAPS

\* The main thread once the client is active.
Started == Serving \union {"return"}

\* What main has behind it at each place of start-up.
PhaseInv ==
  /\ life # "running" => pc["main"] = "open"
  /\ pc["main"] = "open" =>
       session = "none" /\ notices = <<>> /\ pc["notify"] = "idle"
  /\ pc["main"] \in Opened => session \in {"open", "zombie"}
  /\ pc["main"] \in Started => session \in {"active", "zombie"}
  /\ pc["main"] \notin {"open", "callbacks", "routes"} => auto_connect = Routes
  /\ pc["main"] \notin {"open", "callbacks", "routes", "init_dsp"} =>
       /\ initialized
       /\ session \in {"open", "active"} => OwnPorts \subseteq ports
  /\ pc["main"] \in Started \union {"jack_activate"} => activated
  /\ pc["process"] # "idle" => pc["main"] \in Started

\* The news of a shutdown, wherever it is on its way, comes from a dead server.
ShutdownInv ==
  /\ Has(notices, "shutdown") => session = "zombie"
  /\ pc["notify"] # "idle" /\ notice = "shutdown" => session = "zombie"
  /\ Has(pending_events, "audio_stopped") => session = "zombie"
  /\ pc["main"] = "return" => session = "zombie"

\* The news of a setting, wherever it is on its way, comes from a change since open().
SettingInv ==
  \A s \in Setting :
    Has(notices, s) \/ (pc["notify"] # "idle" /\ notice = s) => s \in changed

\* Who holds jack_mutex is where the code holds it, and the other way round.
MutexInv ==
  /\ jack_mutex = "main" <=> pc["main"] = "activate"
  /\ jack_mutex = "process" <=> pc["process"] \in {"init", "run", "send"}
  /\ jack_mutex = "notify" <=> pc["notify"] = "handle"
  /\ jack_mutex # "dbus"

IInv ==
  TypeOK /\ PhaseInv /\ ShutdownInv /\ SettingInv /\ NoLostRoute /\ NoLostEnd

\* The process ends, of whatever cause.
Death == \E cause \in Life : Die(cause)

\* The steps that end the process whenever they are taken.
Dies ==
  \/ JackFails \/ Return \/ DbusRace \/ SendFails \/ SettingRefused
  \/ \E t \in {"main", "dbus"} : KnownPortsFails(t)

-----------------------------------------------------------------------------
(* What appending and taking do to the members of a sequence.              *)

LEMMA HasNothing == \A x : ~ Has(<<>>, x)
  BY DEF Has

LEMMA HasAppend ==
  ASSUME NEW S, NEW s \in Seq(S), NEW e \in S, NEW x
  PROVE  Has(Append(s, e), x) <=> Has(s, x) \/ e = x
  <1>1. Len(Append(s, e)) = Len(s) + 1 /\ Len(s) \in Nat
    OBVIOUS
  <1>2. \A i \in 1 .. Len(s) : Append(s, e)[i] = s[i]
    OBVIOUS
  <1>3. Append(s, e)[Len(s) + 1] = e
    OBVIOUS
  <1>4. QED
    BY <1>1, <1>2, <1>3 DEF Has

LEMMA HasHeadTail ==
  ASSUME NEW S, NEW s \in Seq(S), s # <<>>, NEW x
  PROVE  Has(s, x) <=> Head(s) = x \/ Has(Tail(s), x)
  <1>1. Len(s) \in Nat /\ Len(s) # 0 /\ Len(Tail(s)) = Len(s) - 1
    OBVIOUS
  <1>2. Head(s) = s[1] /\ \A i \in 1 .. Len(s) - 1 : Tail(s)[i] = s[i + 1]
    OBVIOUS
  <1>3. ASSUME Has(s, x) PROVE Head(s) = x \/ Has(Tail(s), x)
    <2>1. PICK i \in 1 .. Len(s) : s[i] = x
      BY <1>3 DEF Has
    <2>2. CASE i = 1
      BY <2>1, <2>2, <1>2
    <2>3. CASE i # 1
      <3>1. i - 1 \in 1 .. Len(Tail(s)) /\ Tail(s)[i - 1] = x
        BY <2>1, <2>3, <1>1, <1>2
      <3>2. QED
        BY <3>1 DEF Has
    <2>4. QED
      BY <2>2, <2>3
  <1>4. ASSUME Head(s) = x \/ Has(Tail(s), x) PROVE Has(s, x)
    BY <1>4, <1>1, <1>2 DEF Has
  <1>5. QED
    BY <1>3, <1>4

-----------------------------------------------------------------------------
(* The steps that end the process.                                         *)

LEMMA DiesIsDeath == Dies \/ (ProcessRun /\ ~(initialized /\ activated)) => Death
  BY DEF Dies, JackFails, Return, DbusRace, SendFails, SettingRefused,
         KnownPortsFails, ProcessRun, Death, Life

\* Nothing is on its way to the program, and nothing of it is anywhere.
LEMMA DeathResets ==
  ASSUME Death
  PROVE  /\ life = "running"
         /\ pc' = [t \in Thread |-> IF t = "main" THEN "open" ELSE "idle"]
         /\ pc'["main"] = "open" /\ pc'["process"] = "idle"
         /\ pc'["notify"] = "idle" /\ pc'["dbus"] = "idle"
         /\ jack_mutex' = "free"
         /\ session' = "none"
         /\ notices' = <<>> /\ pending_events' = <<>>
         /\ \A x : ~ Has(notices, x)' /\ ~ Has(pending_events, x)'
  BY DEF Death, Die, Begin, Thread, Has

-----------------------------------------------------------------------------
(* The type invariant.                                                     *)

LEMMA InitTypeOK == Init => TypeOK
  <1> SUFFICES ASSUME Init PROVE TypeOK
    OBVIOUS
  <1> USE DEF Init, Begin, Thread
  <1>1. pc = [t \in Thread |-> IF t = "main" THEN "open" ELSE "idle"]
    OBVIOUS
  <1>2. /\ pc \in [Thread -> MainLabel \union ProcessLabel \union NotifyLabel
                                \union DbusLabel]
        /\ pc["main"] \in MainLabel
        /\ pc["process"] \in ProcessLabel
        /\ pc["notify"] \in NotifyLabel
        /\ pc["dbus"] \in DbusLabel
    BY <1>1 DEF MainLabel, ProcessLabel, NotifyLabel, DbusLabel
  <1>3. todo \in [{"main", "dbus"} -> SUBSET Routes]
    BY DEF NothingToDo
  <1>4. /\ pending_events \in Seq(Event) /\ Len(pending_events) <= Capacity
        /\ notices \in Seq(Notice)
    BY ModProAssumption
  <1>5. ports \subseteq Port
    BY DEF Port
  <1>6. QED
    BY <1>2, <1>3, <1>4, <1>5 DEF TypeOK, Life, Notice

\* Every step keeps the values in their types: in particular no send makes the
\* list longer than its bound.
LEMMA NextTypeOK == TypeOK /\ [Next]_vars => TypeOK'
  <1> SUFFICES ASSUME TypeOK, [Next]_vars PROVE TypeOK'
    OBVIOUS
  <1> USE ModProAssumption DEF TypeOK, Goto, Lock, Life, Thread, MainLabel,
        ProcessLabel, NotifyLabel, DbusLabel, Serving, Opened, processor, jack
  <1>1. CASE OpenClient
    BY <1>1 DEF OpenClient
  <1>2. ASSUME NEW r \in Routes, SetAutoConnect(r) PROVE TypeOK'
    BY <1>2 DEF SetAutoConnect
  <1>3. CASE RoutesSet
    BY <1>3 DEF RoutesSet
  <1>4. CASE InitDsp
    BY <1>4 DEF InitDsp, Port
  <1>5. CASE ActivateChains
    BY <1>5 DEF ActivateChains
  <1>6. CASE JackActivate
    BY <1>6 DEF JackActivate
  <1>7. CASE SetCallbacks
    BY <1>7 DEF SetCallbacks
  <1>8. CASE Activated
    BY <1>8 DEF Activated
  <1>9. CASE InitLock
    BY <1>9 DEF InitLock
  <1>10. CASE InitDone
    BY <1>10 DEF InitDone
  <1>11. ASSUME NEW t \in {"main", "dbus"}, NEW from, NEW to,
                KnownPorts(t, from, to),
                <<t, to>> \in {<<"main", "start_connect">>, <<"main", "connect">>,
                              <<"dbus", "connect">>}
        PROVE  TypeOK'
    BY <1>11 DEF KnownPorts
  <1>12. ASSUME NEW t \in {"main", "dbus"}, NEW at, ConnectPort(t, at)
        PROVE  TypeOK'
    <2>1. PICK r \in todo[t] :
            /\ todo' = [todo EXCEPT ![t] = @ \ {r}]
            /\ connections' = connections \union
                                (IF Connectable(r) THEN {r} ELSE {})
      BY <1>12 DEF ConnectPort
    <2>2. r \in Port \X Port
      OBVIOUS
    <2>3. QED
      BY <1>12, <2>1, <2>2 DEF ConnectPort
  <1>13. ASSUME NEW t \in {"main", "dbus"}, NEW at, NEW to,
                AllConnected(t, at, to),
                <<t, to>> \in {<<"main", "started">>, <<"main", "get_event">>,
                               <<"dbus", "idle">>}
         PROVE  TypeOK'
    BY <1>13 DEF AllConnected
  <1>14. CASE SendStarted
    BY <1>14 DEF SendStarted, Broker!Send, Broker!Full, Event
  <1>15. CASE HandleEvent
    BY <1>15 DEF HandleEvent, Broker!Get, Handler
  <1>16. CASE Death
    <2>1. /\ pc' = [t \in Thread |-> IF t = "main" THEN "open" ELSE "idle"]
          /\ pc'["main"] = "open" /\ pc'["process"] = "idle"
          /\ pc'["notify"] = "idle" /\ pc'["dbus"] = "idle"
          /\ notices' = <<>> /\ pending_events' = <<>>
      BY <1>16, DeathResets
    <2>2. pc' \in [Thread -> MainLabel \union ProcessLabel \union NotifyLabel
                              \union DbusLabel]
      BY <2>1
    <2>3. todo' \in [{"main", "dbus"} -> SUBSET Routes]
      BY <1>16 DEF Death, Die, NothingToDo
    <2>4. connections' \subseteq Port \X Port /\ ports' \subseteq Port
      BY <1>16 DEF Death, Die, ConnectionsWithout
    <2>5. life' \in Life /\ notice' \in Notice
      BY <1>16 DEF Death, Die, Notice
    <2>6. /\ notices' \in Seq(Notice) /\ pending_events' \in Seq(Event)
          /\ Len(pending_events') <= Capacity
      BY <2>1
    <2>7. /\ jack_mutex' = "free" /\ initialized' = FALSE /\ activated' = FALSE
          /\ auto_connect' = {} /\ server_up' = server_up /\ session' = "none"
          /\ changed' = {}
      BY <1>16 DEF Death, Die
    <2>8. QED
      BY <2>1, <2>2, <2>3, <2>4, <2>5, <2>6, <2>7
  <1>17. CASE ProcessRun
    BY <1>16, <1>17, DiesIsDeath DEF ProcessRun
  <1>18. CASE StartLock
    BY <1>18 DEF StartLock
  <1>19. CASE DbusCall
    BY <1>19 DEF DbusCall
  <1>20. CASE ClientChange
    BY <1>20 DEF ClientChange, Notify, Notice
  <1>21. CASE ProcessCall
    BY <1>21 DEF ProcessCall
  <1>22. CASE ProcessLock
    BY <1>22 DEF ProcessLock
  <1>23. CASE NotifyLock
    BY <1>23 DEF NotifyLock
  <1>24. ASSUME NEW s \in Setting, ChangeSetting(s) PROVE TypeOK'
    BY <1>24 DEF ChangeSetting, Notify, Notice
  <1>25. CASE ProcessSend
    BY <1>25 DEF ProcessSend, Broker!Send, Broker!Full, Event
  <1>26. CASE NotifyCall
    BY <1>26 DEF NotifyCall
  <1>27. CASE NotifyHandle
    <2>1. Sends(notice) \subseteq Event
      BY DEF Sends, Event
    <2>2. /\ pending_events' \in Seq(Event)
          /\ Len(pending_events') <= Capacity
      <3>1. CASE Sends(notice) = {}
        BY <1>27, <3>1 DEF NotifyHandle
      <3>2. CASE \E e \in Event : Broker!Send(e)
        BY <3>2 DEF Broker!Send, Broker!Full
      <3>3. QED
        BY <1>27, <2>1, <3>1, <3>2 DEF NotifyHandle
    <2>3. QED
      BY <1>27, <2>2 DEF NotifyHandle
  <1>28. ASSUME NEW p \in ForeignPorts, RegisterPort(p) PROVE TypeOK'
    BY <1>28 DEF RegisterPort, Notify, Port, Notice
  <1>29. ASSUME NEW p \in ForeignPorts, UnregisterPort(p) PROVE TypeOK'
    BY <1>29 DEF UnregisterPort, Notify, ConnectionsWithout, Notice
  <1>30. CASE ServerStop
    <2>1. /\ session' \in {"none", "open", "active", "zombie"}
          /\ notices' \in Seq(Notice)
      <3>1. CASE session \in {"open", "active"}
        <4>1. /\ notices' = Append(notices, "shutdown") \/ notices' = notices
              /\ session' = "zombie"
          BY <1>30, <3>1 DEF ServerStop
        <4>2. notices \in Seq(Notice) /\ "shutdown" \in Notice
          BY DEF Notice
        <4>3. Append(notices, "shutdown") \in Seq(Notice)
          BY <4>2
        <4>4. QED
          BY <4>1, <4>2, <4>3
      <3>2. CASE session \notin {"open", "active"}
        BY <1>30, <3>2 DEF ServerStop
      <3>3. QED
        BY <3>1, <3>2
    <2>2. ports' \subseteq Port /\ connections' \subseteq Port \X Port
      BY <1>30 DEF ServerStop
    <2>3. server_up' \in BOOLEAN
      BY <1>30 DEF ServerStop
    <2>4. UNCHANGED <<life, pc, jack_mutex, processor, todo, notice,
                      pending_events, changed>>
      BY <1>30 DEF ServerStop
    <2>5. QED
      BY <2>1, <2>2, <2>3, <2>4
  <1>31. CASE ServerStart
    BY <1>31 DEF ServerStart
  <1>32. CASE Restart
    BY <1>32 DEF Restart
  <1>33. CASE UNCHANGED vars
    BY <1>33 DEF vars
  <1> HIDE DEF TypeOK, Goto, Lock, Life, Thread, MainLabel, ProcessLabel, NotifyLabel,
               DbusLabel, Serving, Opened, processor, jack
  <1>34. QED
    BY <1>1, <1>2, <1>3, <1>4, <1>5, <1>6, <1>7, <1>8, <1>9, <1>10, <1>11,
       <1>12, <1>13, <1>14, <1>15, <1>16, <1>17, <1>18, <1>19, <1>20, <1>21,
       <1>22, <1>23, <1>24, <1>25, <1>26, <1>27, <1>28, <1>29, <1>30, <1>31,
       <1>32, <1>33, DiesIsDeath
       DEF Next, Dies, MainStep, StartCheck, EventCheck, DbusStep, DbusCheck,
           CallbackStep, Environment

-----------------------------------------------------------------------------
(* What the main thread has behind it.                                     *)

LEMMA InitPhaseInv == Init => PhaseInv
  BY DEF Init, Begin, Thread, PhaseInv, Opened, Started, Serving

\* Each place of start-up is entered with what it presupposes, and neither the
\* callbacks nor the server take any of that away.
LEMMA NextPhaseInv == TypeOK /\ PhaseInv /\ [Next]_vars => PhaseInv'
  <1> SUFFICES ASSUME TypeOK, PhaseInv, [Next]_vars PROVE PhaseInv'
    OBVIOUS
  <1>0. /\ pc \in [Thread -> MainLabel \union ProcessLabel \union NotifyLabel
                                \union DbusLabel]
        /\ auto_connect \subseteq Routes
        /\ session \in {"none", "open", "active", "zombie"}
    BY DEF TypeOK
  <1> USE <1>0 DEF PhaseInv, Opened, Started, Serving, Goto, Lock, Thread,
                   processor, jack
  <1>1. CASE OpenClient
    BY <1>1 DEF OpenClient
  <1>2. ASSUME NEW r \in Routes, SetAutoConnect(r) PROVE PhaseInv'
    BY <1>2 DEF SetAutoConnect
  <1>3. CASE RoutesSet
    BY <1>3 DEF RoutesSet
  <1>4. CASE InitDsp
    BY <1>4 DEF InitDsp
  <1>5. CASE ActivateChains
    BY <1>5 DEF ActivateChains
  <1>6. CASE JackActivate
    BY <1>6 DEF JackActivate
  <1>7. CASE StartCheck
    BY <1>7 DEF StartCheck, KnownPorts, ConnectPort, AllConnected
  <1>8. CASE EventCheck
    BY <1>8 DEF EventCheck, KnownPorts, ConnectPort, AllConnected
  <1>9. CASE DbusCheck
    BY <1>9 DEF DbusCheck, KnownPorts, ConnectPort, AllConnected
  <1>10. CASE SendStarted
    BY <1>10 DEF SendStarted
  <1>11. CASE HandleEvent
    BY <1>11 DEF HandleEvent, Handler
  <1>12. CASE StartLock
    BY <1>12 DEF StartLock
  <1>13. CASE DbusCall
    BY <1>13 DEF DbusCall
  <1>14. CASE ProcessCall
    BY <1>14 DEF ProcessCall, TypeOK, MainLabel
  <1>15. CASE ProcessLock \/ ProcessSend \/ InitLock \/ InitDone
    BY <1>15 DEF ProcessLock, ProcessSend, InitLock, InitDone
  <1>16. CASE Death
    BY <1>16, DeathResets
  <1>17. CASE ProcessRun
    BY <1>16, <1>17, DiesIsDeath DEF ProcessRun
  <1>18. CASE NotifyCall \/ NotifyLock \/ NotifyHandle
    BY <1>18 DEF NotifyCall, NotifyLock, NotifyHandle
  <1>19. ASSUME NEW p \in ForeignPorts, RegisterPort(p) PROVE PhaseInv'
    BY <1>19 DEF RegisterPort, Notify
  <1>20. ASSUME NEW p \in ForeignPorts, UnregisterPort(p) PROVE PhaseInv'
    BY <1>20, ModProAssumption DEF UnregisterPort, Notify
  <1>21. CASE ClientChange \/ \E s \in Setting : ChangeSetting(s)
    BY <1>21 DEF ClientChange, ChangeSetting, Notify
  <1>22. CASE ServerStop
    BY <1>22 DEF ServerStop
  <1>23. CASE ServerStart
    BY <1>23 DEF ServerStart
  <1>24. CASE Restart
    BY <1>24 DEF Restart
  <1>25. CASE UNCHANGED vars
    BY <1>25 DEF vars
  <1>26. CASE SetCallbacks \/ Activated
    BY <1>26 DEF SetCallbacks, Activated
  <1> HIDE DEF PhaseInv, Opened, Started, Serving, Goto, Lock, Thread, processor, jack
  <1>27. QED
    BY <1>1, <1>2, <1>3, <1>4, <1>5, <1>6, <1>7, <1>8, <1>9, <1>10, <1>11,
       <1>12, <1>13, <1>14, <1>15, <1>16, <1>17, <1>18, <1>19, <1>20, <1>21,
       <1>22, <1>23, <1>24, <1>25, <1>26, DiesIsDeath
       DEF Next, Dies, MainStep, DbusStep, CallbackStep, Environment

-----------------------------------------------------------------------------
(* The way of a notification: from the server to the notification thread,  *)
(* through the broker's list, to the main loop.                            *)

LEMMA SendKeeps ==
  ASSUME TypeOK, NEW e \in Event, NEW x, Broker!Send(e)
  PROVE  Has(pending_events, x)' <=> Has(pending_events, x) \/ e = x
  <1>1. pending_events \in Seq(Event)
    BY DEF TypeOK
  <1>2. pending_events' = Append(pending_events, e)
    BY DEF Broker!Send
  <1>3. Has(pending_events', x) <=> Has(pending_events, x) \/ e = x
    BY <1>1, <1>2, HasAppend
  <1>4. QED
    BY <1>3 DEF Has

LEMMA GetKeeps ==
  ASSUME TypeOK, NEW e \in Event, NEW x, Broker!Get(e)
  PROVE  Has(pending_events, x) <=> e = x \/ Has(pending_events, x)'
  <1>1. pending_events \in Seq(Event) /\ pending_events # <<>>
    BY DEF TypeOK, Broker!Get
  <1>2. e = Head(pending_events) /\ pending_events' = Tail(pending_events)
    BY DEF Broker!Get
  <1>3. Has(pending_events, x) <=> e = x \/ Has(pending_events', x)
    BY <1>1, <1>2, HasHeadTail
  <1>4. QED
    BY <1>3 DEF Has

LEMMA NotifyCallKeeps ==
  ASSUME TypeOK, NEW x, NotifyCall
  PROVE  Has(notices, x) <=> notice' = x \/ Has(notices, x)'
  <1>1. notices \in Seq(Notice) /\ notices # <<>>
    BY DEF TypeOK, NotifyCall
  <1>2. notice' = Head(notices) /\ notices' = Tail(notices)
    BY DEF NotifyCall
  <1>3. Has(notices, x) <=> notice' = x \/ Has(notices', x)
    BY <1>1, <1>2, HasHeadTail
  <1>4. QED
    BY <1>3 DEF Has

LEMMA NotifyKeeps ==
  ASSUME TypeOK, NEW n \in Notice, NEW x, Notify(n)
  PROVE  Has(notices, x)' <=> Has(notices, x) \/ (session = "active" /\ n = x)
  <1>1. notices \in Seq(Notice)
    BY DEF TypeOK
  <1>2. notices' = IF session = "active" THEN Append(notices, n) ELSE notices
    BY DEF Notify
  <1>3. Has(notices', x) <=> Has(notices, x) \/ (session = "active" /\ n = x)
    BY <1>1, <1>2, HasAppend
  <1>4. QED
    BY <1>3 DEF Has

LEMMA NotifyHandleKeeps ==
  ASSUME TypeOK, NEW x, NotifyHandle
  PROVE  Has(pending_events, x)' <=> Has(pending_events, x) \/ x \in Sends(notice)
  <1>1. CASE Sends(notice) = {}
    BY <1>1 DEF NotifyHandle, Has
  <1>2. CASE Sends(notice) # {}
    <2>1. PICK e \in Sends(notice) : Broker!Send(e)
      BY <1>2 DEF NotifyHandle
    <2>2. Sends(notice) = {e} /\ e \in Event
      BY <2>1 DEF Sends, Event
    <2>3. QED
      BY <2>1, <2>2, SendKeeps
  <1>3. QED
    BY <1>1, <1>2

LEMMA HasUnchanged ==
  /\ UNCHANGED notices => \A x : Has(notices, x)' <=> Has(notices, x)
  /\ UNCHANGED pending_events =>
       \A x : Has(pending_events, x)' <=> Has(pending_events, x)
  BY DEF Has

-----------------------------------------------------------------------------
(* Only a dead server makes the loop end.                                  *)

LEMMA InitShutdownInv == Init => ShutdownInv
  BY HasNothing DEF Init, Begin, Thread, ShutdownInv

LEMMA NextShutdownInv ==
  TypeOK /\ PhaseInv /\ ShutdownInv /\ [Next]_vars => ShutdownInv'
  <1> SUFFICES ASSUME TypeOK, PhaseInv, ShutdownInv, [Next]_vars
               PROVE  ShutdownInv'
    OBVIOUS
  <1>0. /\ pc \in [Thread -> MainLabel \union ProcessLabel \union NotifyLabel
                                \union DbusLabel]
        /\ pc["main"] = "open" => session = "none"
        /\ session \in {"none", "open", "active", "zombie"}
    BY DEF TypeOK, PhaseInv
  <1> USE <1>0, HasUnchanged DEF ShutdownInv, Goto, Lock, Thread, processor, jack
  <1>1. ASSUME NEW e \in {"audio_started", "audio_processed"}, Broker!Send(e)
        PROVE  Has(pending_events, "audio_stopped")' =>
                 Has(pending_events, "audio_stopped")
    BY <1>1, SendKeeps DEF Event
  <1>2. CASE OpenClient
    BY <1>2 DEF OpenClient
  <1>3. ASSUME NEW r \in Routes, SetAutoConnect(r) PROVE ShutdownInv'
    BY <1>3 DEF SetAutoConnect
  <1>4. CASE RoutesSet \/ InitDsp \/ StartLock \/ ActivateChains
    BY <1>4 DEF RoutesSet, InitDsp, StartLock, ActivateChains
  <1>5. CASE SetCallbacks \/ JackActivate \/ Activated
    BY <1>5 DEF SetCallbacks, JackActivate, Activated
  <1>6. CASE StartCheck \/ EventCheck \/ DbusCheck \/ DbusCall
    BY <1>6 DEF StartCheck, EventCheck, DbusCheck, DbusCall, KnownPorts,
                ConnectPort, AllConnected
  <1>7. CASE SendStarted
    BY <1>1, <1>7 DEF SendStarted
  <1>8. CASE HandleEvent
    <2>1. PICK e \in Event :
            /\ Broker!Get(e)
            /\ Goto("main", "get_event", Handler(e))
            /\ UNCHANGED <<life, jack_mutex, processor, todo, notice, jack>>
      BY <1>8 DEF HandleEvent
    <2>2. Has(pending_events, "audio_stopped") <=>
            e = "audio_stopped" \/ Has(pending_events, "audio_stopped")'
      BY <2>1, GetKeeps
    <2>3. pc'["main"] = "return" => e = "audio_stopped"
      BY <2>1 DEF Handler
    <2>4. QED
      BY <2>1, <2>2, <2>3
  <1>9. CASE InitLock \/ InitDone \/ ProcessCall \/ ProcessLock \/ NotifyLock
    BY <1>9 DEF InitLock, InitDone, ProcessCall, ProcessLock, NotifyLock
  <1>10. CASE ProcessSend
    BY <1>1, <1>10 DEF ProcessSend
  <1>11. CASE NotifyCall
    <2>1. Has(notices, "shutdown") <=>
            notice' = "shutdown" \/ Has(notices, "shutdown")'
      BY <1>11, NotifyCallKeeps
    <2>2. QED
      BY <1>11, <2>1 DEF NotifyCall
  <1>12. CASE NotifyHandle
    <2>1. Has(pending_events, "audio_stopped")' <=>
            \/ Has(pending_events, "audio_stopped")
            \/ "audio_stopped" \in Sends(notice)
      BY <1>12, NotifyHandleKeeps
    <2>2. "audio_stopped" \in Sends(notice) => notice = "shutdown"
      BY DEF Sends
    <2>3. QED
      BY <1>12, <2>1, <2>2 DEF NotifyHandle
  <1>13. CASE Death
    BY <1>13, DeathResets
  <1>14. CASE ProcessRun
    BY <1>13, <1>14, DiesIsDeath DEF ProcessRun
  <1>15. ASSUME NEW n \in Notice \ {"shutdown"}, Notify(n)
         PROVE  Has(notices, "shutdown")' => Has(notices, "shutdown")
    BY <1>15, NotifyKeeps
  <1>16. ASSUME NEW p \in ForeignPorts, RegisterPort(p) PROVE ShutdownInv'
    BY <1>15, <1>16 DEF RegisterPort, Notice
  <1>17. ASSUME NEW p \in ForeignPorts, UnregisterPort(p) PROVE ShutdownInv'
    BY <1>15, <1>17 DEF UnregisterPort, Notice
  <1>18. CASE ClientChange \/ \E s \in Setting : ChangeSetting(s)
    BY <1>15, <1>18, ModProAssumption DEF ClientChange, ChangeSetting, Notice
  <1>19. CASE ServerStop
    BY <1>19 DEF ServerStop
  <1>20. CASE ServerStart
    BY <1>20 DEF ServerStart
  <1>21. CASE Restart
    BY <1>21 DEF Restart
  <1>22. CASE UNCHANGED vars
    BY <1>22 DEF vars
  <1> HIDE DEF ShutdownInv, Goto, Lock, Thread, processor, jack
  <1>23. QED
    BY <1>2, <1>3, <1>4, <1>5, <1>6, <1>7, <1>8, <1>9, <1>10, <1>11, <1>12,
       <1>13, <1>14, <1>16, <1>17, <1>18, <1>19, <1>20, <1>21, <1>22, DiesIsDeath
       DEF Next, Dies, MainStep, DbusStep, CallbackStep, Environment

-----------------------------------------------------------------------------
(* Only a change of a setting is told as one.                              *)

LEMMA InitSettingInv == Init => SettingInv
  BY HasNothing DEF Init, Begin, Thread, SettingInv

\* open() reads the settings when no notification of an earlier change is left.
LEMMA NextSettingInv ==
  TypeOK /\ PhaseInv /\ SettingInv /\ [Next]_vars => SettingInv'
  <1> SUFFICES ASSUME TypeOK, PhaseInv, SettingInv, [Next]_vars, NEW s \in Setting
               PROVE  (Has(notices, s) \/ (pc["notify"] # "idle" /\ notice = s)
                         => s \in changed)'
    BY DEF SettingInv
  <1> DEFINE Kept == (Has(notices, s) \/ (pc["notify"] # "idle" /\ notice = s)
                         => s \in changed)'
  <1>0. /\ pc \in [Thread -> MainLabel \union ProcessLabel \union NotifyLabel
                                \union DbusLabel]
        /\ Has(notices, s) \/ (pc["notify"] # "idle" /\ notice = s) => s \in changed
        /\ s \notin {"port_register", "port_unregister", "client_change", "shutdown"}
    BY ModProAssumption DEF TypeOK, SettingInv
  <1> USE <1>0, HasUnchanged DEF Goto, Lock, Thread, processor, jack
  <1>1. CASE OpenClient
    <2>1. pc["main"] = "open" /\ notices' = <<>> /\ pc'["notify"] = "idle"
      BY <1>1 DEF OpenClient, PhaseInv
    <2>2. ~ Has(notices, s)'
      BY <2>1 DEF Has
    <2>3. QED
      BY <2>1, <2>2
  <1>2. CASE \/ SetCallbacks \/ RoutesSet \/ InitDsp \/ StartLock \/ ActivateChains
             \/ JackActivate \/ Activated \/ SendStarted \/ HandleEvent
             \/ \E r \in Routes : SetAutoConnect(r)
    BY <1>2 DEF SetCallbacks, SetAutoConnect, RoutesSet, InitDsp, StartLock,
                ActivateChains, JackActivate, Activated, SendStarted, HandleEvent
  <1>3. CASE StartCheck \/ EventCheck \/ DbusCheck \/ DbusCall
    BY <1>3 DEF StartCheck, EventCheck, DbusCheck, DbusCall, KnownPorts,
                ConnectPort, AllConnected
  <1>4. CASE Death
    BY <1>4, DeathResets
  <1>5. CASE \/ InitLock \/ InitDone \/ ProcessCall \/ ProcessLock \/ ProcessRun
             \/ ProcessSend
    BY <1>4, <1>5, DiesIsDeath
       DEF InitLock, InitDone, ProcessCall, ProcessLock, ProcessRun, ProcessSend
  <1>6. CASE NotifyCall
    <2>1. Has(notices, s) <=> notice' = s \/ Has(notices, s)'
      BY <1>6, NotifyCallKeeps
    <2>2. QED
      BY <1>6, <2>1 DEF NotifyCall
  <1>7. CASE NotifyLock \/ NotifyHandle
    BY <1>7 DEF NotifyLock, NotifyHandle
  <1>8. ASSUME NEW n \in Notice, Notify(n)
        PROVE  Has(notices, s)' => Has(notices, s) \/ n = s
    BY <1>8, NotifyKeeps
  <1>9. ASSUME NEW p \in ForeignPorts, RegisterPort(p) PROVE Kept
    BY <1>8, <1>9 DEF RegisterPort, Notice
  <1>10. ASSUME NEW p \in ForeignPorts, UnregisterPort(p) PROVE Kept
    BY <1>8, <1>10 DEF UnregisterPort, Notice
  <1>11. CASE ClientChange
    BY <1>8, <1>11 DEF ClientChange, Notice
  <1>12. ASSUME NEW c \in Setting, ChangeSetting(c) PROVE Kept
    BY <1>8, <1>12 DEF ChangeSetting, Notice
  <1>13. CASE ServerStop
    <2>1. \/ notices' = notices
          \/ notices' = Append(notices, "shutdown")
      BY <1>13 DEF ServerStop
    <2>2. notices \in Seq(Notice) /\ "shutdown" \in Notice
      BY DEF TypeOK, Notice
    <2>3. Has(Append(notices, "shutdown"), s) => Has(notices, s)
      BY <2>2, HasAppend
    <2>4. Has(notices', s) => Has(notices, s)
      BY <2>1, <2>3
    <2>5. Has(notices, s)' => Has(notices, s)
      BY <2>4 DEF Has
    <2>6. QED
      BY <1>13, <2>5 DEF ServerStop
  <1>14. CASE ServerStart \/ Restart \/ UNCHANGED vars
    BY <1>14 DEF ServerStart, Restart, vars
  <1> HIDE DEF Goto, Lock, Thread, processor, jack
  <1>15. QED
    BY <1>1, <1>2, <1>3, <1>4, <1>5, <1>6, <1>7, <1>9, <1>10, <1>11, <1>12, <1>13,
       <1>14, DiesIsDeath
       DEF Next, Dies, MainStep, DbusStep, CallbackStep, Environment

-----------------------------------------------------------------------------
(* No route is lost.                                                       *)

LEMMA InitNoLostRoute == Init => NoLostRoute
  BY DEF Init, NoLostRoute

\* A step leaves a route connected, hands on what will connect it, or is the
\* very attempt to connect it, made with both ports there.
LEMMA NextNoLostRoute ==
  TypeOK /\ PhaseInv /\ ShutdownInv /\ NoLostRoute /\ [Next]_vars => NoLostRoute'
  <1> SUFFICES ASSUME TypeOK, PhaseInv, ShutdownInv, NoLostRoute, [Next]_vars,
                      session' = "active",
                      NEW r \in Routes, Ends(r) \subseteq ports'
               PROVE  r \in connections' \/ Owed(r)'
    BY DEF NoLostRoute, Ends
  <1>0. /\ pc \in [Thread -> MainLabel \union ProcessLabel \union NotifyLabel
                                \union DbusLabel]
        /\ pc["main"] \in MainLabel
        /\ todo \in [{"main", "dbus"} -> SUBSET Routes]
    BY DEF TypeOK
  <1>a. session = "active" /\ Ends(r) \subseteq ports =>
          r \in connections \/ Owed(r)
    BY DEF NoLostRoute
  <1>b. session = "active" =>
          /\ pc["main"] \in Serving
          /\ auto_connect = Routes
    BY <1>0 DEF PhaseInv, ShutdownInv, Opened, Started, MainLabel, Serving
  <1> USE <1>0, <1>a, HasUnchanged DEF Owed, Goto, Lock, Thread, processor, jack
  <1>1. CASE OpenClient
    BY <1>1 DEF OpenClient
  <1>2. CASE \/ SetCallbacks \/ RoutesSet \/ InitDsp \/ StartLock \/ ActivateChains
             \/ \E q \in Routes : SetAutoConnect(q)
    BY <1>2, <1>b
       DEF SetCallbacks, RoutesSet, InitDsp, StartLock, ActivateChains, SetAutoConnect,
           Serving
  <1>3. CASE JackActivate \/ Activated
    BY <1>3 DEF JackActivate, Activated
  <1>4. ASSUME NEW from, NEW to,
               KnownPorts("main", from, to), to \in {"start_connect", "connect"}
        PROVE  r \in connections' \/ Owed(r)'
    <2>1. ports' = ports /\ session = "active"
      BY <1>4 DEF KnownPorts
    <2>2. r[1] \in ports
      BY <2>1 DEF Ends
    <2>3. r \in todo'["main"] /\ pc'["main"] = to
      BY <1>4, <1>b, <2>1, <2>2 DEF KnownPorts
    <2>4. QED
      BY <1>4, <2>3
  <1>5. ASSUME NEW t \in {"main", "dbus"}, NEW at, ConnectPort(t, at)
        PROVE  r \in connections' \/ Owed(r)'
    <2>1. PICK q \in todo[t] :
            /\ todo' = [todo EXCEPT ![t] = @ \ {q}]
            /\ connections' = connections \union
                                (IF Connectable(q) THEN {q} ELSE {})
      BY <1>5 DEF ConnectPort
    <2>2. /\ UNCHANGED <<session, ports, notices, notice, pending_events>>
          /\ pc' = [pc EXCEPT ![t] = at] /\ pc[t] = at
      BY <1>5 DEF ConnectPort
    <2>3. pc' = pc
      BY <2>2
    <2>4. CASE q = r
      <3>1. Connectable(r)
        BY <2>2 DEF Connectable
      <3>2. QED
        BY <2>1, <2>4, <3>1
    <2>5. CASE q # r
      <3>1. r \in todo["main"] => r \in todo'["main"]
        BY <2>1, <2>5
      <3>2. r \in connections => r \in connections'
        BY <2>1
      <3>3. QED
        BY <2>2, <2>3, <3>1, <3>2
    <2>6. QED
      BY <2>4, <2>5
  <1>6. ASSUME NEW at, NEW to, AllConnected("main", at, to),
               at \in {"start_connect", "connect"}
        PROVE  r \in connections' \/ Owed(r)'
    BY <1>6 DEF AllConnected
  <1>7. CASE StartCheck \/ EventCheck
    BY <1>4, <1>5, <1>6, <1>7 DEF StartCheck, EventCheck
  <1>8. ASSUME NEW from, NEW to, KnownPorts("dbus", from, to)
        PROVE  r \in connections' \/ Owed(r)'
    BY <1>8 DEF KnownPorts
  <1>9. CASE DbusCheck
    BY <1>5, <1>8, <1>9 DEF DbusCheck, AllConnected
  <1>10. CASE SendStarted
    <2>1. Has(pending_events, "audio_client_change") =>
            Has(pending_events, "audio_client_change")'
      BY <1>10, SendKeeps DEF SendStarted, Event
    <2>2. QED
      BY <1>10, <2>1 DEF SendStarted
  <1>11. CASE HandleEvent
    <2>1. PICK e \in Event :
            /\ Broker!Get(e)
            /\ Goto("main", "get_event", Handler(e))
            /\ UNCHANGED <<life, jack_mutex, processor, todo, notice, jack>>
      BY <1>11 DEF HandleEvent
    <2>2. Has(pending_events, "audio_client_change") =>
            \/ e = "audio_client_change"
            \/ Has(pending_events, "audio_client_change")'
      BY <2>1, GetKeeps
    <2>3. e = "audio_client_change" => pc'["main"] = "check"
      BY <2>1 DEF Handler
    <2>4. QED
      BY <2>1, <2>2, <2>3
  <1>12. CASE Death
    BY <1>12, DeathResets
  <1>13. CASE \/ DbusCall \/ InitLock \/ InitDone \/ ProcessCall \/ ProcessLock
              \/ ProcessRun \/ NotifyLock
    BY <1>12, <1>13, DiesIsDeath
       DEF DbusCall, InitLock, InitDone, ProcessCall, ProcessLock, ProcessRun, NotifyLock
  <1>14. CASE ProcessSend
    <2>1. Has(pending_events, "audio_client_change") =>
            Has(pending_events, "audio_client_change")'
      BY <1>14, SendKeeps DEF ProcessSend, Event
    <2>2. QED
      BY <1>14, <2>1 DEF ProcessSend
  <1>15. CASE NotifyCall
    <2>1. Has(notices, "port_register") =>
            notice' = "port_register" \/ Has(notices, "port_register")'
      BY <1>15, NotifyCallKeeps
    <2>2. QED
      BY <1>15, <2>1 DEF NotifyCall
  <1>16. CASE NotifyHandle
    <2>1. Has(pending_events, "audio_client_change")' <=>
            \/ Has(pending_events, "audio_client_change")
            \/ "audio_client_change" \in Sends(notice)
      BY <1>16, NotifyHandleKeeps
    <2>2. notice = "port_register" => "audio_client_change" \in Sends(notice)
      BY DEF Sends
    <2>3. QED
      BY <1>16, <2>1, <2>2 DEF NotifyHandle
  <1>17. ASSUME NEW p \in ForeignPorts, RegisterPort(p)
         PROVE  r \in connections' \/ Owed(r)'
    <2>1. Has(notices, "port_register")'
      BY <1>17, NotifyKeeps DEF RegisterPort, Notice
    <2>2. QED
      BY <2>1
  <1>18. ASSUME NEW n \in Notice, Notify(n), Has(notices, "port_register")
         PROVE  Has(notices, "port_register")'
    BY <1>18, NotifyKeeps
  <1>19. ASSUME NEW p \in ForeignPorts, UnregisterPort(p)
         PROVE  r \in connections' \/ Owed(r)'
    <2>1. r \in connections => r \in connections'
      BY <1>19 DEF UnregisterPort, ConnectionsWithout
    <2>2. Has(notices, "port_register") => Has(notices, "port_register")'
      BY <1>18, <1>19 DEF UnregisterPort, Notice
    <2>3. QED
      BY <1>19, <2>1, <2>2 DEF UnregisterPort
  <1>20. CASE ClientChange \/ \E s \in Setting : ChangeSetting(s)
    BY <1>18, <1>20 DEF ClientChange, ChangeSetting, Notice
  <1>21. CASE ServerStop
    BY <1>21 DEF ServerStop
  <1>22. CASE ServerStart
    BY <1>22 DEF ServerStart
  <1>23. CASE Restart
    BY <1>23 DEF Restart
  <1>24. CASE UNCHANGED vars
    BY <1>24 DEF vars
  <1> HIDE DEF Owed, Goto, Lock, Thread, processor, jack
  <1>25. QED
    BY <1>1, <1>2, <1>3, <1>7, <1>9, <1>10, <1>11, <1>12, <1>13, <1>14, <1>15,
       <1>16, <1>17, <1>19, <1>20, <1>21, <1>22, <1>23, <1>24, DiesIsDeath
       DEF Next, Dies, MainStep, DbusStep, CallbackStep, Environment

-----------------------------------------------------------------------------
(* The mutex of the JACK client.                                           *)

LEMMA NextMutexInv ==
  TypeOK /\ PhaseInv /\ MutexInv /\ [Next]_vars => MutexInv'
  <1> SUFFICES ASSUME TypeOK, PhaseInv, MutexInv, [Next]_vars PROVE MutexInv'
    OBVIOUS
  <1>0. pc \in [Thread -> MainLabel \union ProcessLabel \union NotifyLabel
                                \union DbusLabel]
    BY DEF TypeOK
  <1> USE <1>0 DEF MutexInv, Goto, Lock, Thread, processor, jack
  <1>1. CASE OpenClient \/ SetCallbacks \/ RoutesSet \/ \E r \in Routes : SetAutoConnect(r)
    BY <1>1 DEF OpenClient, SetCallbacks, SetAutoConnect, RoutesSet
  <1>2. CASE InitDsp \/ Activated \/ SendStarted
    BY <1>2 DEF InitDsp, Activated, SendStarted
  <1>3. CASE JackActivate
    <2>1. /\ pc["main"] = "jack_activate" /\ pc["process"] = "idle"
          /\ pc'["main"] = "activating" /\ pc'["process"] = "init_lock"
          /\ pc'["notify"] = pc["notify"] /\ jack_mutex' = jack_mutex
      BY <1>3 DEF JackActivate, PhaseInv, Started, Serving
    <2>2. QED
      BY <2>1
  <1>4. CASE StartLock \/ ActivateChains
    BY <1>4 DEF StartLock, ActivateChains
  <1>5. CASE StartCheck \/ EventCheck \/ DbusCheck \/ DbusCall
    BY <1>5 DEF StartCheck, EventCheck, DbusCheck, DbusCall, KnownPorts, ConnectPort,
                AllConnected
  <1>6. CASE HandleEvent
    BY <1>6 DEF HandleEvent, Handler
  <1>7. CASE Death
    BY <1>7, DeathResets
  <1>8. CASE \/ InitLock \/ InitDone \/ ProcessCall \/ ProcessLock \/ ProcessRun
             \/ ProcessSend
    BY <1>7, <1>8, DiesIsDeath
       DEF InitLock, InitDone, ProcessCall, ProcessLock, ProcessRun, ProcessSend
  <1>9. CASE NotifyCall \/ NotifyLock \/ NotifyHandle
    BY <1>9 DEF NotifyCall, NotifyLock, NotifyHandle
  <1>10. CASE \/ \E p \in ForeignPorts : RegisterPort(p) \/ UnregisterPort(p)
              \/ \E s \in Setting : ChangeSetting(s)
              \/ ClientChange \/ ServerStop \/ ServerStart
    BY <1>10 DEF RegisterPort, UnregisterPort, ClientChange, ChangeSetting, ServerStop,
                ServerStart
  <1>11. CASE Restart
    BY <1>11 DEF Restart
  <1>12. CASE UNCHANGED vars
    BY <1>12 DEF vars
  <1> HIDE DEF MutexInv, Goto, Lock, Thread, processor, jack
  <1>13. QED
    BY <1>1, <1>2, <1>3, <1>4, <1>5, <1>6, <1>7, <1>8, <1>9, <1>10, <1>11, <1>12,
       DiesIsDeath
       DEF Next, Dies, MainStep, DbusStep, CallbackStep, Environment

-----------------------------------------------------------------------------
(* The end of JACK is not lost.                                            *)

LEMMA InitNoLostEnd == Init => NoLostEnd
  BY DEF Init, NoLostEnd

LEMMA NextNoLostEnd ==
  TypeOK /\ PhaseInv /\ NoLostEnd /\ [Next]_vars => NoLostEnd'
  <1> SUFFICES ASSUME TypeOK, PhaseInv, NoLostEnd, [Next]_vars,
                      session' = "zombie", life' = "running"
               PROVE  NoLostEnd'
    BY DEF NoLostEnd
  <1>0. /\ pc \in [Thread -> MainLabel \union ProcessLabel \union NotifyLabel
                                \union DbusLabel]
        /\ notices \in Seq(Notice)
    BY DEF TypeOK
  <1> USE <1>0, HasUnchanged DEF NoLostEnd, Opened, Goto, Lock, Thread, processor, jack
  <1>1. ASSUME NEW e \in Event, Broker!Send(e)
        PROVE  Has(pending_events, "audio_stopped") =>
                 Has(pending_events, "audio_stopped")'
    BY <1>1, SendKeeps
  <1>2. CASE OpenClient \/ JackActivate \/ Restart
    BY <1>2 DEF OpenClient, JackActivate, Restart, PhaseInv
  <1>3. ASSUME NEW r \in Routes, SetAutoConnect(r) PROVE NoLostEnd'
    BY <1>3 DEF SetAutoConnect
  <1>4. CASE SetCallbacks \/ RoutesSet \/ InitDsp \/ StartLock \/ ActivateChains
    BY <1>4 DEF SetCallbacks, RoutesSet, InitDsp, StartLock, ActivateChains
  <1>5. CASE StartCheck \/ EventCheck \/ DbusCheck \/ DbusCall
    BY <1>5 DEF StartCheck, EventCheck, DbusCheck, DbusCall, KnownPorts,
                ConnectPort, AllConnected
  <1>6. CASE SendStarted
    BY <1>1, <1>6 DEF SendStarted, Event
  <1>7. CASE HandleEvent
    <2>1. PICK e \in Event :
            /\ Broker!Get(e)
            /\ Goto("main", "get_event", Handler(e))
            /\ UNCHANGED <<life, jack_mutex, processor, todo, notice, jack>>
      BY <1>7 DEF HandleEvent
    <2>2. Has(pending_events, "audio_stopped") =>
            e = "audio_stopped" \/ Has(pending_events, "audio_stopped")'
      BY <2>1, GetKeeps
    <2>3. e = "audio_stopped" => pc'["main"] = "return"
      BY <2>1 DEF Handler
    <2>4. QED
      BY <2>1, <2>2, <2>3
  <1>8. CASE Death
    BY <1>8, DeathResets
  <1>9. CASE \/ Activated \/ InitLock \/ InitDone \/ ProcessCall \/ ProcessLock
             \/ ProcessRun \/ NotifyLock
    BY <1>8, <1>9, DiesIsDeath
       DEF Activated, InitLock, InitDone, ProcessCall, ProcessLock, ProcessRun, NotifyLock
  <1>10. CASE ProcessSend
    BY <1>1, <1>10 DEF ProcessSend, Event
  <1>11. CASE NotifyCall
    <2>1. Has(notices, "shutdown") => notice' = "shutdown" \/ Has(notices, "shutdown")'
      BY <1>11, NotifyCallKeeps
    <2>2. QED
      BY <1>11, <2>1 DEF NotifyCall
  <1>12. CASE NotifyHandle
    <2>1. Has(pending_events, "audio_stopped")' <=>
            \/ Has(pending_events, "audio_stopped")
            \/ "audio_stopped" \in Sends(notice)
      BY <1>12, NotifyHandleKeeps
    <2>2. notice = "shutdown" => "audio_stopped" \in Sends(notice)
      BY DEF Sends
    <2>3. QED
      BY <1>12, <2>1, <2>2 DEF NotifyHandle
  <1>13. ASSUME NEW n \in Notice, Notify(n), Has(notices, "shutdown")
         PROVE  Has(notices, "shutdown")'
    BY <1>13, NotifyKeeps
  <1>14. ASSUME NEW p \in ForeignPorts, RegisterPort(p) PROVE NoLostEnd'
    BY <1>13, <1>14 DEF RegisterPort, Notice
  <1>15. ASSUME NEW p \in ForeignPorts, UnregisterPort(p) PROVE NoLostEnd'
    BY <1>13, <1>15 DEF UnregisterPort, Notice
  <1>16. CASE ClientChange \/ \E s \in Setting : ChangeSetting(s)
    BY <1>13, <1>16 DEF ClientChange, ChangeSetting, Notice
  <1>17. CASE ServerStop
    <2>1. CASE session \in {"open", "active"} /\ HearsOfEnd
      <3>1. notices' = Append(notices, "shutdown")
        BY <1>17, <2>1 DEF ServerStop
      <3>2. Has(notices', "shutdown")
        BY <3>1, HasAppend DEF Notice
      <3>3. QED
        BY <3>2 DEF Has
    <2>2. CASE session \in {"open", "active"} /\ ~HearsOfEnd
      BY <1>17, <2>2 DEF ServerStop, HearsOfEnd, PhaseInv
    <2>3. CASE session \notin {"open", "active"}
      BY <1>17, <2>3 DEF ServerStop
    <2>4. QED
      BY <2>1, <2>3, <2>2
  <1>18. CASE ServerStart
    BY <1>18 DEF ServerStart
  <1>19. CASE UNCHANGED vars
    BY <1>19 DEF vars
  <1> HIDE DEF NoLostEnd, Opened, Goto, Lock, Thread, processor, jack
  <1>20. QED
    BY <1>2, <1>3, <1>4, <1>5, <1>6, <1>7, <1>8, <1>9, <1>10, <1>11, <1>12,
       <1>14, <1>15, <1>16, <1>17, <1>18, <1>19, DiesIsDeath
       DEF Next, Dies, MainStep, DbusStep, CallbackStep, Environment

-----------------------------------------------------------------------------
LEMMA Inductive == Spec => []IInv
  <1>1. Init => IInv
    BY InitTypeOK, InitPhaseInv, InitShutdownInv, InitSettingInv, InitNoLostRoute, InitNoLostEnd DEF IInv
  <1>2. IInv /\ [Next]_vars => IInv'
    BY NextTypeOK, NextPhaseInv, NextShutdownInv, NextSettingInv, NextNoLostRoute,
       NextNoLostEnd
       DEF IInv
  <1>3. QED
    BY <1>1, <1>2, PTL DEF Spec

\* Every variable keeps its type, the event list its bound.
THEOREM TypeCorrect == Spec => []TypeOK
  <1>1. IInv => TypeOK
    BY DEF IInv
  <1>2. QED
    BY <1>1, Inductive, PTL

\* Whatever ports come and go while the lists of ports are walked, a route
\* whose ports exist is connected or has something under way that connects it.
THEOREM RoutesKept == Spec => []NoLostRoute
  <1>1. IInv => NoLostRoute
    BY DEF IInv
  <1>2. QED
    BY <1>1, Inductive, PTL

\* Whatever else is queued, and for any bound of the list, the end of JACK is on its
\* way to the main loop until the program ends; where it is not, since the server ended
\* before open() had set the callback of the shutdown, start-up has not got beyond the
\* activation of the client (src/audio.cxx:237-240, src/jackaudio.cxx:79-138, 188-195,
\* src/main.cxx:53-62).
THEOREM EndKept == Spec => []NoLostEnd
  <1>1. IInv => NoLostEnd
    BY DEF IInv
  <1>2. QED
    BY <1>1, Inductive, PTL

\* What the comment over the handlers says, "inside jack audio thread - jack is
\* already locked" (src/audio.cxx:236, 277): a period is processed, a notification is
\* handled and the chains are activated one at a time, whenever the program starts,
\* ends and starts again.
THEOREM HandlersLocked ==
  Spec => []( /\ pc["process"] \in {"init", "run", "send"} => pc["notify"] # "handle"
              /\ pc["main"] = "activate" => /\ pc["process"] \notin {"init", "run", "send"}
                                            /\ pc["notify"] # "handle")
  <1> DEFINE Exclusive ==
        /\ pc["process"] \in {"init", "run", "send"} => pc["notify"] # "handle"
        /\ pc["main"] = "activate" => /\ pc["process"] \notin {"init", "run", "send"}
                                      /\ pc["notify"] # "handle"
  <1>1. Init => MutexInv
    BY DEF Init, Begin, Thread, MutexInv
  <1>2. IInv => TypeOK /\ PhaseInv
    BY DEF IInv
  <1>3. MutexInv => Exclusive
    BY DEF MutexInv
  <1> HIDE DEF Exclusive
  <1>4. Spec => []Exclusive
    BY <1>1, <1>2, <1>3, NextMutexInv, Inductive, PTL DEF Spec
  <1>5. QED
    BY <1>4 DEF Exclusive

\* Each way to end the program is possible at its places only, as the main thread's
\* standing with the server has it.
LEMMA DeathStep ==
  ASSUME TypeOK, PhaseInv, ShutdownInv, SettingInv, Next,
         life = "running", life' # "running"
  PROVE  \/ life' = "queue_full"
         \/ life' = "setting_changed" /\ changed # {}
         \/ life' \in {"jack_error", "exited"} /\ session = "zombie"
         \/ /\ pc["main"] \in Opened \union {"open"}
            /\ life' \in {"jack_error"} \union
                          (IF pc["dbus"] = "idle" THEN {} ELSE {"no_client", "data_race"})
  <1> DEFINE Explained ==
         \/ life' = "queue_full"
         \/ life' = "setting_changed" /\ changed # {}
         \/ life' \in {"jack_error", "exited"} /\ session = "zombie"
         \/ /\ pc["main"] \in Opened \union {"open"}
            /\ life' \in {"jack_error"} \union
                          (IF pc["dbus"] = "idle" THEN {} ELSE {"no_client", "data_race"})
  <1>1. /\ pc["main"] \in Started \/ pc["main"] \in Opened \/ pc["main"] = "open"
        /\ session = "none" => pc["main"] = "open"
        /\ session = "active" => pc["main"] \in Started
    BY DEF TypeOK, PhaseInv, MainLabel, Started, Opened, Serving
  <1>2. pc["main"] \in Started /\ session = "active" => ports # {}
    BY ModProAssumption DEF PhaseInv, Started, Serving
  <1>3. CASE JackFails
    BY <1>3 DEF JackFails, Die, Opened
  <1>4. CASE Return
    BY <1>4 DEF Return, Die, ShutdownInv
  <1>5. CASE DbusRace
    BY <1>5 DEF DbusRace, Die, Opened
  <1>6. CASE SendFails
    BY <1>6 DEF SendFails, Die
  <1>7. CASE SettingRefused
    <2>1. changed # {}
      BY <1>7 DEF SettingRefused, SettingInv
    <2>2. QED
      BY <1>7, <2>1 DEF SettingRefused, Die
  <1>8. CASE KnownPortsFails("main")
    <2>1. pc["main"] \in Started /\ session # "none"
      BY <1>8 DEF KnownPortsFails, PhaseInv, Started, Serving
    <2>2. session = "zombie"
      BY <1>2, <1>8, <2>1 DEF KnownPortsFails, PhaseInv
    <2>3. QED
      BY <1>8, <2>1, <2>2 DEF KnownPortsFails, Die
  <1>9. CASE KnownPortsFails("dbus")
    <2>1. pc["dbus"] # "idle"
      BY <1>9 DEF KnownPortsFails
    <2>2. CASE session = "none"
      BY <1>1, <1>9, <2>1, <2>2 DEF KnownPortsFails, Die
    <2>3. CASE session # "none"
      BY <1>1, <1>2, <1>9, <2>3 DEF KnownPortsFails, Die, PhaseInv
    <2>4. QED
      BY <2>2, <2>3
  <1>10. ~ (ProcessRun /\ ~(initialized /\ activated))
    BY DEF ProcessRun, PhaseInv, Started, Serving
  <1>11. CASE MainStep \/ StartLock
    BY <1>3, <1>4, <1>8, <1>11
       DEF MainStep, OpenClient, SetCallbacks, SetAutoConnect, RoutesSet, InitDsp,
           StartLock, ActivateChains, JackActivate, Activated, StartCheck, SendStarted,
           HandleEvent, EventCheck, KnownPorts, ConnectPort, AllConnected, Lock
  <1>12. CASE DbusCall \/ DbusStep
    BY <1>5, <1>9, <1>12 DEF DbusCall, DbusStep, DbusCheck, KnownPorts, ConnectPort,
                             AllConnected
  <1>13. CASE InitLock \/ ProcessCall \/ ProcessLock \/ NotifyLock \/ CallbackStep
    BY <1>10, <1>13
       DEF InitLock, ProcessCall, ProcessLock, NotifyLock, Lock, CallbackStep, InitDone,
           ProcessRun, ProcessSend, NotifyCall, NotifyHandle
  <1>14. CASE Environment
    BY <1>14 DEF Environment, RegisterPort, UnregisterPort, ClientChange, ChangeSetting,
                 ServerStop, ServerStart, Restart
  <1>15. QED
    BY <1>6, <1>7, <1>11, <1>12, <1>13, <1>14 DEF Next

\* The program ends because its event list is full, because the server has changed a
\* setting since open() read it, because the server has gone, or before it serves: a
\* period never fails the assertions of handle_process, a serving program always has a
\* client and ports to list, and its loop is left for the end of the server only
\* (src/audio.cxx:210-229, 244, 280-281, 305-315, src/main.cxx:53-62).
THEOREM DeathExplained == Spec => EndsForAReason
  <1>1. IInv /\ [Next]_vars =>
          [life = "running" /\ life' # "running" =>
             \/ life' = "queue_full"
             \/ life' = "setting_changed" /\ changed # {}
             \/ life' \in {"jack_error", "exited"} /\ session = "zombie"
             \/ /\ pc["main"] \in Opened \union {"open"}
                /\ life' \in {"jack_error"} \union
                              (IF pc["dbus"] = "idle" THEN {}
                               ELSE {"no_client", "data_race"})]_vars
    BY DeathStep DEF IInv
  <1>2. QED
    BY <1>1, Inductive, PTL DEF Spec, EndsForAReason

=============================================================================
