------------------------------- MODULE ModPro -------------------------------
(***************************************************************************)
(* The running program: the main thread (start-up, then the event loop),   *)
(* JACK's process thread and notification thread calling back into         *)
(* audio::processor, the D-Bus dispatcher thread, and the JACK server with *)
(* the ports and connections of everybody.  The program restores the       *)
(* configured routes whenever ports come and go, ends when JACK ends, and  *)
(* is started again by systemd.                                            *)
(*                                                                         *)
(* send_event and get_event are single steps here: EventBroker shows that  *)
(* they are.  What a chain computes in a period, the D-Bus methods of an   *)
(* effect, and the values of the server's settings are not part of this    *)
(* module: a setting that has changed may have changed back.               *)
(***************************************************************************)
EXTENDS Naturals, Sequences

CONSTANTS
  OwnPorts,      \* the ports that init_dsp registers for the chains
  ForeignPorts,  \* ports of other JACK clients, which come and go
  Routes,        \* the routes of the config file: pairs <<source, dest>>
  Setting,       \* the settings that the server may change
  Capacity,      \* the bound asserted in send_event
  MaxNotices     \* bound of the model: undelivered JACK notifications

Port == OwnPorts \union ForeignPorts

\* Some chain has an input or an output: with no port anywhere the first
\* check_auto_connect would be given no list of ports at all.
ASSUME ModProAssumption ==
  /\ OwnPorts # {}
  /\ OwnPorts \intersect ForeignPorts = {}
  /\ Routes \subseteq Port \X Port
  /\ Setting \subseteq {"sample_rate", "buffer_size"}
  /\ Capacity \in Nat \ {0}
  /\ MaxNotices \in Nat \ {0}

Thread == {"main", "process", "notify", "dbus"}

\* event::name, and what JACK tells a client's notification thread.
Event == {"audio_started", "audio_stopped", "audio_processed",
          "audio_client_change"}

Notice == Setting \union {"port_register", "port_unregister", "client_change",
                          "shutdown"}

\* How a run of the program stands: it runs, it returned from main, or it
\* died of the named cause.
Life == {"running", "exited", "queue_full", "assert_failed", "no_client",
         "data_race", "jack_error", "setting_changed"}

VARIABLES
  life,            \* how this run of the program stands
  pc,              \* where each thread is
  jack_mutex,      \* the thread that holds it, or "free"
  initialized,     \* processor::initialized
  activated,       \* processor::activated
  auto_connect,    \* processor::auto_connect, as a set of routes
  todo,            \* the connections a check_auto_connect has yet to make
  notice,          \* the notification the notification thread handles
  pending_events,  \* the broker's list
  server_up,       \* the JACK server runs
  session,         \* the client's standing with the server that it opened
  changed,         \* the settings that have changed since open() read them
  ports,           \* the ports registered at the server
  connections,     \* the pairs of ports the server has connected
  notices          \* notifications the server has yet to deliver

processor == <<initialized, activated, auto_connect>>
jack == <<server_up, session, changed, ports, connections, notices>>
vars == <<life, pc, jack_mutex, processor, todo, notice, pending_events, jack>>

\* The main thread from jack_activate on, while its loop runs.
Serving == {"activating", "start_check", "start_connect", "started", "get_event",
            "check", "connect"}

\* Before that: init(), and start() up to the activation of the client.
Opened == {"callbacks", "routes", "init_dsp", "start", "activate", "jack_activate"}

MainLabel == Serving \union Opened \union {"open", "return"}

ProcessLabel == {"idle", "init_lock", "init", "lock", "run", "send"}

NotifyLabel == {"idle", "lock", "handle"}

DbusLabel == {"idle", "check", "connect"}

Broker == INSTANCE EventQueue WITH
  Event <- Event, Capacity <- Capacity, pending_events <- pending_events

Ends(r) == {r[1], r[2]}

\* open() has set the shutdown callback.
HearsOfEnd == pc["main"] \notin {"open", "callbacks"}

\* The connections that remain when the ports S disappear.
ConnectionsWithout(S) == {c \in connections : Ends(c) \intersect S = {}}

Goto(t, from, to) ==
  /\ life = "running"
  /\ pc[t] = from
  /\ pc' = [pc EXCEPT ![t] = to]

Lock(t, from, to) ==
  /\ jack_mutex = "free"
  /\ Goto(t, from, to)
  /\ jack_mutex' = t
  /\ UNCHANGED <<life, processor, todo, notice, pending_events, jack>>

\* A run begins with the D-Bus dispatcher running and the processor exported
\* on the bus, its client not made yet.
Begin == [t \in Thread |-> IF t = "main" THEN "open" ELSE "idle"]

NothingToDo == [t \in {"main", "dbus"} |-> {}]

\* The process goes, with all its threads, and the server drops what it had there:
\* nothing is left of it to the next run.
Die(cause) ==
  /\ life = "running"
  /\ life' = cause
  /\ pc' = Begin
  /\ jack_mutex' = "free"
  /\ initialized' = FALSE
  /\ activated' = FALSE
  /\ auto_connect' = {}
  /\ todo' = NothingToDo
  /\ notice' = "port_register"
  /\ pending_events' = <<>>
  /\ session' = "none"
  /\ changed' = {}
  /\ ports' = ports \ OwnPorts
  /\ connections' = ConnectionsWithout(OwnPorts)
  /\ notices' = <<>>
  /\ UNCHANGED server_up

-----------------------------------------------------------------------------

Init ==
  /\ life = "running"
  /\ pc = Begin
  /\ jack_mutex = "free"
  /\ initialized = FALSE
  /\ activated = FALSE
  /\ auto_connect = {}
  /\ todo = NothingToDo
  /\ notice = "port_register"
  /\ pending_events = <<>>
  /\ server_up \in BOOLEAN
  /\ session = "none"
  /\ changed = {}
  /\ ports \in SUBSET (IF server_up THEN ForeignPorts ELSE {})
  /\ connections = {}
  /\ notices = <<>>

-----------------------------------------------------------------------------
(* audio::processor::init and start, in the main thread.                   *)

\* init_jack makes the client; open() opens it and reads the server's settings.
OpenClient ==
  /\ server_up
  /\ Goto("main", "open", "callbacks")
  /\ session' = "open"
  /\ changed' = {}
  /\ UNCHANGED <<life, jack_mutex, processor, todo, notice, pending_events,
                 server_up, ports, connections, notices>>

\* open() sets the callbacks, of which that of the sample rate is called at once;
\* until then the server may end without telling the client.
SetCallbacks ==
  /\ Goto("main", "callbacks", "routes")
  /\ UNCHANGED <<life, jack_mutex, processor, todo, notice, pending_events, jack>>

SetAutoConnect(r) ==
  /\ Goto("main", "routes", "routes")
  /\ r \notin auto_connect
  /\ auto_connect' = auto_connect \union {r}
  /\ UNCHANGED <<life, jack_mutex, initialized, activated, todo, notice,
                 pending_events, jack>>

RoutesSet ==
  /\ auto_connect = Routes
  /\ Goto("main", "routes", "init_dsp")
  /\ UNCHANGED <<life, jack_mutex, processor, todo, notice, pending_events,
                 jack>>

\* init_dsp: registering a port throws when the server has gone.
InitDsp ==
  /\ session = "open"
  /\ Goto("main", "init_dsp", "start")
  /\ initialized' = TRUE
  /\ ports' = ports \union OwnPorts
  /\ UNCHANGED <<life, jack_mutex, activated, auto_connect, todo, notice,
                 pending_events, server_up, session, changed, connections, notices>>

\* start(): the chains are activated and the flag is set under the lock.
StartLock == Lock("main", "start", "activate")

\* Mutant of ActivateChains: the flag is forgotten.
ActivateSilently ==
  /\ Goto("main", "activate", "jack_activate")
  /\ jack_mutex' = "free"
  /\ UNCHANGED <<life, processor, todo, notice, pending_events, jack>>

ActivateChains ==
  /\ Goto("main", "activate", "jack_activate")
  /\ activated' = TRUE
  /\ jack_mutex' = "free"
  /\ UNCHANGED <<life, initialized, auto_connect, todo, notice,
                 pending_events, jack>>

\* JACK activates the client and has the buffer size callback called, in the
\* process thread; jack_activate returns when that has returned.
JackActivate ==
  /\ session = "open"
  /\ life = "running"
  /\ pc["main"] = "jack_activate"
  /\ pc' = [pc EXCEPT !["main"] = "activating", !["process"] = "init_lock"]
  /\ session' = "active"
  /\ UNCHANGED <<life, jack_mutex, processor, todo, notice, pending_events,
                 server_up, changed, ports, connections, notices>>

\* Mutant of Activated: start() leaves out its own check_auto_connect.
ActivatedOnly ==
  /\ pc["process"] \notin {"init_lock", "init"}
  /\ Goto("main", "activating", "started")
  /\ UNCHANGED <<life, jack_mutex, processor, todo, notice, pending_events, jack>>

Activated ==
  /\ pc["process"] \notin {"init_lock", "init"}
  /\ Goto("main", "activating", "start_check")
  /\ UNCHANGED <<life, jack_mutex, processor, todo, notice, pending_events, jack>>

\* open(), register_port() and activate() throw what JACK refuses: all of it once
\* the server has gone.
JackFails ==
  /\ \/ pc["main"] \in {"open", "callbacks", "init_dsp", "jack_activate"}
     \/ pc["main"] = "activating" /\ session = "zombie"
  /\ Die("jack_error")

SendStarted ==
  /\ Goto("main", "started", "get_event")
  /\ Broker!Send("audio_started")
  /\ UNCHANGED <<life, jack_mutex, processor, todo, notice, jack>>

-----------------------------------------------------------------------------
(* check_auto_connect, in the main thread and in the dispatcher's: take    *)
(* the names of all ports, then connect one route after the other.         *)

\* jack_connect succeeds, or finds the pair connected already, when both
\* ports exist and belong to active clients; otherwise the error is logged.
Connectable(r) ==
  /\ Ends(r) \subseteq ports
  /\ session = "active" \/ (session = "open" /\ Ends(r) \intersect OwnPorts = {})

\* A server that has gone shows no port.
KnownPorts(t, from, to) ==
  /\ session # "none"
  /\ session # "zombie" => ports # {}
  /\ Goto(t, from, to)
  /\ todo' = [todo EXCEPT ![t] =
                {r \in auto_connect : session # "zombie" /\ r[1] \in ports}]
  /\ UNCHANGED <<life, jack_mutex, processor, notice, pending_events, jack>>

\* jack_get_ports returns no list at all when there is no port to list, and
\* may return none for a dead server; there is no client before open().
KnownPortsFails(t) ==
  /\ pc[t] \in {"start_check", "check"}
  /\ \/ session = "none" /\ Die("no_client")
     \/ session # "none" /\ (session = "zombie" \/ ports = {}) /\ Die("jack_error")

ConnectPort(t, at) ==
  /\ Goto(t, at, at)
  /\ \E r \in todo[t] :
       /\ todo' = [todo EXCEPT ![t] = @ \ {r}]
       /\ connections' = connections \union (IF Connectable(r) THEN {r} ELSE {})
  /\ UNCHANGED <<life, jack_mutex, processor, notice, pending_events,
                 server_up, session, changed, ports, notices>>

AllConnected(t, at, to) ==
  /\ todo[t] = {}
  /\ Goto(t, at, to)
  /\ UNCHANGED <<life, jack_mutex, processor, todo, notice, pending_events, jack>>

StartCheck ==
  \/ KnownPorts("main", "start_check", "start_connect")
  \/ ConnectPort("main", "start_connect")
  \/ AllConnected("main", "start_connect", "started")

EventCheck ==
  \/ KnownPorts("main", "check", "connect")
  \/ ConnectPort("main", "connect")
  \/ AllConnected("main", "connect", "get_event")

DbusCall ==
  /\ Goto("dbus", "idle", "check")
  /\ UNCHANGED <<life, jack_mutex, processor, todo, notice, pending_events, jack>>

DbusCheck ==
  \/ KnownPorts("dbus", "check", "connect")
  \/ ConnectPort("dbus", "connect")
  \/ AllConnected("dbus", "connect", "idle")

\* The dispatcher reads auto_connect while set_auto_connect inserts into it.
DbusRace ==
  /\ pc["dbus"] = "connect"
  /\ pc["main"] = "routes"
  /\ Die("data_race")

-----------------------------------------------------------------------------
(* The event loop of process_audio.                                        *)

\* Where the loop goes with each event.
Handler(e) ==
  CASE e = "audio_stopped" -> "return"
    [] e = "audio_client_change" -> "check"
    [] OTHER -> "get_event"

HandleEvent ==
  \E e \in Event :
    /\ Broker!Get(e)
    /\ Goto("main", "get_event", Handler(e))
    /\ UNCHANGED <<life, jack_mutex, processor, todo, notice, jack>>

\* The program ends though other threads still run: the cycle of shared pointers
\* keeps their objects alive until the process goes.
Return ==
  /\ pc["main"] = "return"
  /\ Die("exited")

-----------------------------------------------------------------------------
(* JACK's callbacks.  Each takes jack_mutex, calls the processor's handler *)
(* and gives the mutex back when the handler returns.                      *)

InitLock == Lock("process", "init_lock", "init")

\* The buffer size is still the one that open() has read.
InitDone ==
  /\ Goto("process", "init", "idle")
  /\ jack_mutex' = "free"
  /\ UNCHANGED <<life, processor, todo, notice, pending_events, jack>>

ProcessCall ==
  /\ session = "active"
  /\ Goto("process", "idle", "lock")
  /\ UNCHANGED <<life, jack_mutex, processor, todo, notice, pending_events, jack>>

ProcessLock == Lock("process", "lock", "run")

\* handle_process: the assertions, then the chains run.
ProcessRun ==
  IF initialized /\ activated
  THEN /\ Goto("process", "run", "send")
       /\ UNCHANGED <<life, jack_mutex, processor, todo, notice,
                      pending_events, jack>>
  ELSE pc["process"] = "run" /\ Die("assert_failed")

ProcessSend ==
  /\ Goto("process", "send", "idle")
  /\ Broker!Send("audio_processed")
  /\ jack_mutex' = "free"
  /\ UNCHANGED <<life, processor, todo, notice, jack>>

NotifyCall ==
  /\ notices # <<>>
  /\ Goto("notify", "idle", "lock")
  /\ notice' = Head(notices)
  /\ notices' = Tail(notices)
  /\ UNCHANGED <<life, jack_mutex, processor, todo, pending_events, server_up,
                 session, changed, ports, connections>>

NotifyLock == Lock("notify", "lock", "handle")

\* Mutants of Sends: a handler of port registrations that is commented out
\* like its neighbours, and one of the shutdown.
SendsNoPortChange(n) == IF n = "shutdown" THEN {"audio_stopped"} ELSE {}

SendsNoStop(n) == IF n = "port_register" THEN {"audio_client_change"} ELSE {}

\* The events that the handler of a notification sends, one at most.
Sends(n) ==
  CASE n = "port_register" -> {"audio_client_change"}
    [] n = "shutdown" -> {"audio_stopped"}
    [] OTHER -> {}

\* A setting that is what it was when open() read it is passed over.
NotifyHandle ==
  /\ Goto("notify", "handle", "idle")
  /\ IF Sends(notice) = {}
     THEN UNCHANGED pending_events
     ELSE \E e \in Sends(notice) : Broker!Send(e)
  /\ jack_mutex' = "free"
  /\ UNCHANGED <<life, processor, todo, notice, jack>>

\* The callbacks of the settings pass one that is not what was noted to handlers
\* that throw, through JACK's C code: that ends the program.
SettingRefused ==
  /\ \/ pc["main"] = "callbacks" /\ "sample_rate" \in changed
     \/ pc["process"] = "init" /\ "buffer_size" \in changed
     \/ pc["notify"] = "handle" /\ notice \in Setting
  /\ Die("setting_changed")

\* The assertion of send_event fails, whoever sends.
SendFails ==
  /\ \/ pc["process"] = "send"
     \/ pc["notify"] = "handle" /\ Sends(notice) # {}
     \/ pc["main"] = "started"
  /\ Broker!Full
  /\ Die("queue_full")

-----------------------------------------------------------------------------
(* The JACK server and its other clients.  Only an active client is told   *)
(* of ports, clients and settings; the shutdown reaches every client that  *)
(* has set the callback.                                                   *)

Notify(n) ==
  /\ Len(notices) < MaxNotices
  /\ notices' = IF session = "active" THEN Append(notices, n) ELSE notices

RegisterPort(p) ==
  /\ server_up
  /\ p \notin ports
  /\ ports' = ports \union {p}
  /\ Notify("port_register")
  /\ UNCHANGED <<life, pc, jack_mutex, processor, todo, notice,
                 pending_events, server_up, session, changed, connections>>

UnregisterPort(p) ==
  /\ p \in ports
  /\ ports' = ports \ {p}
  /\ connections' = ConnectionsWithout({p})
  /\ Notify("port_unregister")
  /\ UNCHANGED <<life, pc, jack_mutex, processor, todo, notice,
                 pending_events, server_up, session, changed>>

\* Another client comes or goes: both handlers are empty.
ClientChange ==
  /\ session = "active"
  /\ Notify("client_change")
  /\ UNCHANGED <<life, pc, jack_mutex, processor, todo, notice,
                 pending_events, server_up, session, changed, ports, connections>>

\* Settings matter from the moment that open() reads them.
ChangeSetting(s) ==
  /\ session \in {"open", "active"}
  /\ changed' = changed \union {s}
  /\ Notify(s)
  /\ UNCHANGED <<life, pc, jack_mutex, processor, todo, notice,
                 pending_events, server_up, session, ports, connections>>

ServerStop ==
  /\ server_up
  /\ server_up' = FALSE
  /\ ports' = {}
  /\ connections' = {}
  /\ Len(notices) < MaxNotices
  /\ IF session \in {"open", "active"}
     THEN /\ session' = "zombie"
          /\ notices' = IF HearsOfEnd THEN Append(notices, "shutdown") ELSE notices
     ELSE UNCHANGED <<session, notices>>
  /\ UNCHANGED <<life, pc, jack_mutex, processor, todo, notice, pending_events,
                 changed>>

ServerStart ==
  /\ ~server_up
  /\ server_up' = TRUE
  /\ UNCHANGED <<life, pc, jack_mutex, processor, todo, notice,
                 pending_events, session, changed, ports, connections, notices>>

\* Restart=always: systemd starts a new run.
Restart ==
  /\ life # "running"
  /\ life' = "running"
  /\ UNCHANGED <<pc, jack_mutex, processor, todo, notice, pending_events, jack>>

-----------------------------------------------------------------------------
MainStep ==
  \/ OpenClient
  \/ SetCallbacks
  \/ \E r \in Routes : SetAutoConnect(r)
  \/ RoutesSet
  \/ InitDsp
  \/ ActivateChains
  \/ JackActivate
  \/ Activated
  \/ JackFails
  \/ StartCheck
  \/ SendStarted
  \/ HandleEvent
  \/ EventCheck
  \/ KnownPortsFails("main")
  \/ Return

DbusStep == DbusCheck \/ KnownPortsFails("dbus") \/ DbusRace

CallbackStep == InitDone \/ ProcessRun \/ ProcessSend \/ NotifyCall \/ NotifyHandle

Environment ==
  \/ \E p \in ForeignPorts : RegisterPort(p) \/ UnregisterPort(p)
  \/ ClientChange
  \/ \E s \in Setting : ChangeSetting(s)
  \/ ServerStop
  \/ ServerStart
  \/ Restart

Next ==
  \/ MainStep
  \/ StartLock
  \/ DbusCall
  \/ DbusStep
  \/ InitLock
  \/ ProcessCall
  \/ ProcessLock
  \/ NotifyLock
  \/ CallbackStep
  \/ SettingRefused
  \/ SendFails
  \/ Environment

Spec == Init /\ [][Next]_vars

\* The threads are scheduled, and one that waits for jack_mutex gets it in one
\* of the gaps that the process thread leaves between two periods.  Nobody has
\* to call over D-Bus, no port has to appear, no setting to change, no period and no
\* restart to come.
Fairness ==
  /\ WF_vars(MainStep)
  /\ WF_vars(InitDone \/ ProcessRun \/ ProcessSend)
  /\ WF_vars(NotifyCall \/ NotifyHandle)
  /\ WF_vars(SendFails)
  /\ SF_vars(StartLock)
  /\ SF_vars(InitLock)
  /\ SF_vars(NotifyLock)
  /\ WF_vars(ProcessLock)

FairSpec == Spec /\ Fairness

-----------------------------------------------------------------------------
\* The values of the variables, and who is where in the code.
TypeOK ==
  /\ life \in Life
  /\ pc \in [Thread -> MainLabel \union ProcessLabel \union NotifyLabel
                                \union DbusLabel]
  /\ pc["main"] \in MainLabel
  /\ pc["process"] \in ProcessLabel
  /\ pc["notify"] \in NotifyLabel
  /\ pc["dbus"] \in DbusLabel
  /\ jack_mutex \in Thread \union {"free"}
  /\ initialized \in BOOLEAN
  /\ activated \in BOOLEAN
  /\ auto_connect \subseteq Routes
  /\ todo \in [{"main", "dbus"} -> SUBSET Routes]
  /\ notice \in Notice
  /\ pending_events \in Seq(Event)
  /\ Len(pending_events) <= Capacity
  /\ server_up \in BOOLEAN
  /\ session \in {"none", "open", "active", "zombie"}
  /\ changed \subseteq Setting
  /\ ports \subseteq Port
  /\ connections \subseteq Port \X Port
  /\ notices \in Seq(Notice)

Has(s, x) == \E i \in 1 .. Len(s) : s[i] = x

\* Something is under way that will make the route r.
Owed(r) ==
  \/ Has(notices, "port_register")
  \/ pc["notify"] # "idle" /\ notice = "port_register"
  \/ Has(pending_events, "audio_client_change")
  \/ pc["main"] \in {"activating", "start_check", "check"}
  \/ pc["main"] \in {"start_connect", "connect"} /\ r \in todo["main"]

\* While the program serves a live server, every route whose two ports exist
\* is connected, or a notification, a queued event or a check in progress will
\* still get to it.  A port may come while the list of ports is being walked,
\* go and come again, or have been there before the client was active
\* (src/audio.cxx:225-226, 242-255, 267-270).
NoLostRoute ==
  session = "active" =>
    \A r \in Routes : Ends(r) \subseteq ports => r \in connections \/ Owed(r)

\* The end of JACK is never forgotten: until the program ends, its one shutdown
\* is with the server, with the notification thread, in the event list or has
\* made the loop return, whatever else is queued.  Only start-up may not be told,
\* between the opening of the client and its shutdown callback; it goes no further
\* than to the activation of the client (src/audio.cxx:237-240,
\* src/jackaudio.cxx:79-138, 188-195, src/main.cxx:53-62).
NoLostEnd ==
  session = "zombie" /\ life = "running" =>
    \/ Has(notices, "shutdown")
    \/ pc["notify"] # "idle" /\ notice = "shutdown"
    \/ Has(pending_events, "audio_stopped")
    \/ pc["main"] = "return"
    \/ pc["main"] \in Opened

\* What ends a program: its event list is full; the server has changed a setting;
\* the server has gone; or, before it serves, JACK refuses something or a D-Bus
\* call finds no client, half of the routes or no port.  A program that serves is
\* thus ended by nothing but the list and what the server does, the loop is not
\* left while the server lives, and the assertions of handle_process hold for
\* every period (src/audio.cxx:210-229, 244, 280-281, 305-315).
EndsForAReason ==
  [][life = "running" /\ life' # "running" =>
       \/ life' = "queue_full"
       \/ life' = "setting_changed" /\ changed # {}
       \/ life' \in {"jack_error", "exited"} /\ session = "zombie"
       \/ /\ pc["main"] \in Opened \union {"open"}
          /\ life' \in {"jack_error"} \union
                        (IF pc["dbus"] = "idle" THEN {} ELSE {"no_client", "data_race"})]_vars

\* A route whose ports have come to stay is connected at last and stays so, if
\* the program keeps running: whatever the order of ports, start-up and calls.
Converges ==
  \A r \in Routes :
    <>[](life = "running" /\ Ends(r) \subseteq ports) => <>[](r \in connections)

\* When JACK ends under a running program the program ends too, so that systemd
\* can start it again: the shutdown reaches the main loop behind whatever is
\* queued, or start-up fails (src/audio.cxx:237-240, src/main.cxx:30-34).
StopsWithJack == session = "zombie" ~> life # "running"

\* What the assertion in send_event says (src/event.cxx:29): no event is ever
\* sent to a list that holds 50 events.
ListNeverFull == life # "queue_full"
=============================================================================
