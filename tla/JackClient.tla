----------------------------- MODULE JackClient -----------------------------
(***************************************************************************)
(* The JACK client and what it stands on.  open() reads the server's       *)
(* sample rate and buffer size before JACK can tell the client that they   *)
(* change; init_dsp makes effects for the one and wires' buffers for the   *)
(* other; start() activates the chains under jack_mutex and the client     *)
(* without it.  A change that the client is told of ends the program.      *)
(*                                                                         *)
(* process_audio returns when JACK has ended, and drops its shared         *)
(* pointers while JACK's threads and the D-Bus dispatcher may be in a      *)
(* handler: the objects live as long as the pointers between them say.     *)
(*                                                                         *)
(* Of JACK: the sample rate callback is called in the thread that sets it; *)
(* jack_activate has the buffer size callback called in the process thread *)
(* and waits for it; only active clients are told of a change, and no      *)
(* period begins until they were.  What handlers do to ports and events,   *)
(* and the other callbacks, are in ModPro, the chains in Dsp.              *)
(***************************************************************************)
EXTENDS Naturals, Sequences

CONSTANTS
  Value,       \* sample rates and buffer sizes
  Chains,      \* how many chains init_dsp makes
  MaxChanges   \* bound of the model: changes of the server's settings

ASSUME JackClientAssumption ==
  /\ Value \subseteq Nat \ {0}
  /\ Chains \in Nat
  /\ MaxChanges \in Nat

VARIABLES
  life,        \* "running", or how this run of the program has ended
  pc,          \* where each thread is
  jack_mutex,  \* the thread that holds it, or "free"
  registered,  \* how many callbacks open() has set
  seen,        \* client::sample_rate and client::buffer_size
  made,        \* the settings that each chain was made with
  refs,        \* the shared pointers: who owns what
  stopped,     \* audio_stopped was sent
  client,      \* how the client stands with the server
  server,      \* the server's settings
  changes,     \* how often the server has changed one
  told,        \* what the client has yet to be told
  untold,      \* settings changed between open() and jack_activate
  period       \* the settings that the process thread was called with

program == <<registered, seen, made, refs, stopped>>
jack == <<client, server, changes, told, untold, period>>
vars == <<life, pc, jack_mutex, program, jack>>

Setting == {"sample_rate", "buffer_size"}

\* In the order of open(); the shutdown callback cannot fail to be set.
Callbacks == <<"process", "sample_rate", "buffer_size", "shutdown", "client", "port">>

IsSet(c) == \E i \in 1 .. registered : Callbacks[i] = c

\* The chains stand for their effects and ports too.
Object == {"dbus", "broker", "processor", "client", "ladspa", "chains"}

\* The local variables of process_audio, in the order of their destruction.
Locals == <<"processor", "broker", "dbus">>

\* An object lives while something that lives owns it, if only in a circle.
Alive ==
  LET Owned(x, S) == \E o \in S \union {"main"} : <<o, x>> \in refs
  IN  UNION {S \in SUBSET Object : \A x \in S : Owned(x, S)}

Init ==
  /\ life = "running"
  /\ pc = [main |-> "open", process |-> "none", notify |-> "idle", dbus |-> "idle"]
  /\ jack_mutex = "free"
  /\ registered = 0
  /\ seen = [s \in Setting |-> 0]
  /\ made = <<>>
  /\ refs = {<<"main", "dbus">>, <<"main", "broker">>, <<"main", "processor">>,
             <<"processor", "dbus">>, <<"processor", "broker">>}
  /\ stopped = FALSE
  /\ client = "closed"
  /\ server \in [Setting -> Value]
  /\ changes = 0
  /\ told = {}
  /\ untold = {}
  /\ period = server

Goto(t, from, to) ==
  /\ life = "running"
  /\ pc[t] = from
  /\ pc' = [pc EXCEPT ![t] = to]

Die(t, at, how) ==
  /\ life = "running"
  /\ pc[t] = at
  /\ life' = how
  /\ UNCHANGED <<pc, jack_mutex, program, jack>>

\* Mutant of Free: nobody waits.
FreeAlways == TRUE

Free == jack_mutex = "free"

-----------------------------------------------------------------------------
(* init_jack and init_dsp, in the main thread.                             *)

\* Mutant of HandlerRef: the client does not own its handler.
WeakHandlerRef == {}

HandlerRef == {<<"client", "processor">>}

Open ==
  /\ Goto("main", "open", "sample_rate")
  /\ client' = "open"
  /\ refs' = refs \union {<<"processor", "client">>} \union HandlerRef
  /\ UNCHANGED <<life, jack_mutex, registered, seen, made, stopped, server,
                 changes, told, untold, period>>

ReadSetting(s, to) ==
  /\ Goto("main", s, to)
  /\ seen' = [seen EXCEPT ![s] = server[s]]
  /\ UNCHANGED <<life, jack_mutex, registered, made, refs, stopped, jack>>

\* Mutant of Refuses: the buffer size handler lets the change pass.
RefusesRate(s, v) == s = "sample_rate" /\ v # seen[s]

\* The callbacks of both settings: a value that is not the noted one is passed to
\* the processor's handler, which throws.
Refuses(s, v) == v # seen[s]

\* The sample rate callback is called at once, and takes the mutex.
SetCallback ==
  /\ registered < Len(Callbacks)
  /\ Callbacks[registered + 1] = "sample_rate" =>
       Free /\ ~Refuses("sample_rate", server["sample_rate"])
  /\ Goto("main", "register", "register")
  /\ registered' = registered + 1
  /\ UNCHANGED <<life, jack_mutex, seen, made, refs, stopped, jack>>

RateChanged ==
  /\ registered + 1 = 2
  /\ Free
  /\ Refuses("sample_rate", server["sample_rate"])
  /\ Die("main", "register", "terminated")

CallbacksSet ==
  /\ registered = Len(Callbacks)
  /\ Goto("main", "register", "init_dsp")
  /\ refs' = refs \union {<<"processor", "ladspa">>}
  /\ UNCHANGED <<life, jack_mutex, registered, seen, made, stopped, jack>>

\* A chain, with its effects and buffers.
MakeChain ==
  /\ Len(made) < Chains
  /\ Goto("main", "init_dsp", "init_dsp")
  /\ made' = Append(made, seen)
  /\ refs' = refs \union {<<"processor", "chains">>, <<"chains", "client">>}
  /\ UNCHANGED <<life, jack_mutex, registered, seen, stopped, jack>>

ChainsMade ==
  /\ Len(made) = Chains
  /\ Goto("main", "init_dsp", "start")
  /\ UNCHANGED <<life, jack_mutex, program, jack>>

\* What JACK refuses throws: opening, a callback, a port, and activation, which
\* fails when the server has gone.
Refused ==
  \/ Die("main", "open", "refused")
  \/ /\ registered < Len(Callbacks)
     /\ Callbacks[registered + 1] # "shutdown"
     /\ Die("main", "register", "refused")
  \/ Die("main", "init_dsp", "refused")
  \/ Die("main", "jack_activate", "refused")

-----------------------------------------------------------------------------
(* start(), the loop and the end, in the main thread.                      *)

StartLock ==
  /\ Free
  /\ Goto("main", "start", "activate")
  /\ jack_mutex' = "main"
  /\ UNCHANGED <<life, program, jack>>

\* Mutant of GiveBack: start() keeps the lock until its end.
GiveBackLater == UNCHANGED jack_mutex

GiveBack == jack_mutex' = "free"

ActivateChains ==
  /\ Goto("main", "activate", "jack_activate")
  /\ GiveBack
  /\ UNCHANGED <<life, program, jack>>

JackActivate ==
  /\ client = "open"
  /\ life = "running"
  /\ pc["main"] = "jack_activate"
  /\ pc' = [pc EXCEPT !["main"] = "activating", !["process"] = "init_lock"]
  /\ client' = "active"
  /\ period' = server
  /\ UNCHANGED <<life, jack_mutex, program, server, changes, told, untold>>

Activated ==
  /\ pc["process"] \notin {"init_lock", "init"}
  /\ Goto("main", "activating", "loop")
  /\ UNCHANGED <<life, jack_mutex, program, jack>>

Return ==
  /\ stopped
  /\ Goto("main", "loop", "return")
  /\ UNCHANGED <<life, jack_mutex, program, jack>>

Held == {i \in DOMAIN Locals : <<"main", Locals[i]>> \in refs}

DropLocal ==
  /\ Goto("main", "return", "return")
  /\ \E i \in Held :
       /\ \A j \in Held : i <= j
       /\ refs' = refs \ {<<"main", Locals[i]>>}
  /\ UNCHANGED <<life, jack_mutex, registered, seen, made, stopped, jack>>

Exit ==
  /\ Held = {}
  /\ Die("main", "return", "exited")

-----------------------------------------------------------------------------
(* JACK's process thread.                                                  *)

Lock(t, at, to) ==
  /\ Free
  /\ Goto(t, at, to)
  /\ jack_mutex' = t
  /\ UNCHANGED <<life, program, jack>>

\* The callback of a setting, with the mutex held.  What is not refused leaves the
\* noted value as it is.
Accept(t, at, s, v) ==
  /\ Goto(t, at, "idle")
  /\ ~Refuses(s, v)
  /\ seen' = [seen EXCEPT ![s] = v]
  /\ jack_mutex' = "free"
  /\ UNCHANGED <<life, registered, made, refs, stopped, client, server, changes,
                 untold, period>>

Terminate(t, at, s, v) ==
  /\ Refuses(s, v)
  /\ life = "running"
  /\ pc[t] = at
  /\ life' = "terminated"
  /\ seen' = [seen EXCEPT ![s] = v]
  /\ UNCHANGED <<pc, jack_mutex, registered, made, refs, stopped, jack>>

InitHandle ==
  \/ /\ Accept("process", "init", "buffer_size", period["buffer_size"])
     /\ UNCHANGED told
  \/ Terminate("process", "init", "buffer_size", period["buffer_size"])

ProcessCall ==
  /\ client = "active"
  /\ told \intersect Setting = {}
  /\ Goto("process", "idle", "lock")
  /\ period' = server
  /\ UNCHANGED <<life, jack_mutex, program, client, server, changes, told, untold>>

ProcessDone ==
  /\ Goto("process", "run", "idle")
  /\ jack_mutex' = "free"
  /\ UNCHANGED <<life, program, jack>>

ProcessStep ==
  \/ Lock("process", "init_lock", "init")
  \/ InitHandle
  \/ Lock("process", "lock", "run")
  \/ ProcessDone

-----------------------------------------------------------------------------
(* JACK's notification thread and the D-Bus dispatcher.                    *)

NotifyCall ==
  /\ told # {}
  /\ Goto("notify", "idle", "lock")
  /\ UNCHANGED <<life, jack_mutex, program, jack>>

NotifySetting(s) ==
  /\ s \in told
  /\ \/ /\ Accept("notify", "handle", s, server[s])
        /\ told' = told \ {s}
     \/ Terminate("notify", "handle", s, server[s])

\* handle_shutdown sends audio_stopped.
NotifyShutdown ==
  /\ told = {"shutdown"}
  /\ Goto("notify", "handle", "idle")
  /\ jack_mutex' = "free"
  /\ stopped' = TRUE
  /\ told' = {}
  /\ UNCHANGED <<life, registered, seen, made, refs, client, server, changes,
                 untold, period>>

NotifyStep ==
  \/ NotifyCall
  \/ Lock("notify", "lock", "handle")
  \/ \E s \in Setting : NotifySetting(s)
  \/ NotifyShutdown

\* A method of the processor, while it is on the bus.
DbusCall ==
  /\ "processor" \in Alive
  /\ Goto("dbus", "idle", "handle")
  /\ UNCHANGED <<life, jack_mutex, program, jack>>

DbusReturn ==
  /\ Goto("dbus", "handle", "idle")
  /\ UNCHANGED <<life, jack_mutex, program, jack>>

-----------------------------------------------------------------------------
(* The server.                                                             *)

ServerSets(s, v) ==
  /\ life = "running"
  /\ changes < MaxChanges
  /\ client # "zombie"
  /\ told \intersect Setting = {}
  /\ v # server[s]
  /\ server' = [server EXCEPT ![s] = v]
  /\ changes' = changes + 1
  /\ told' = IF client = "active" THEN told \union {s} ELSE told
  /\ untold' = IF client = "open" /\ IsSet(s) THEN untold \union {s} ELSE untold
  /\ UNCHANGED <<life, pc, jack_mutex, program, client, period>>

ServerEnds ==
  /\ life = "running"
  /\ client \in {"open", "active"}
  /\ client' = "zombie"
  /\ told' = IF IsSet("shutdown") THEN told \union {"shutdown"} ELSE told
  /\ UNCHANGED <<life, pc, jack_mutex, program, server, changes, untold, period>>

-----------------------------------------------------------------------------
MainStep ==
  \/ Open
  \/ ReadSetting("sample_rate", "buffer_size")
  \/ ReadSetting("buffer_size", "register")
  \/ SetCallback
  \/ RateChanged
  \/ CallbacksSet
  \/ MakeChain
  \/ ChainsMade
  \/ Refused
  \/ StartLock
  \/ ActivateChains
  \/ JackActivate
  \/ Activated
  \/ Return
  \/ DropLocal
  \/ Exit

Next ==
  \/ MainStep
  \/ ProcessCall
  \/ ProcessStep
  \/ NotifyStep
  \/ DbusCall
  \/ DbusReturn
  \/ \E s \in Setting, v \in Value : ServerSets(s, v)
  \/ ServerEnds

Spec == Init /\ [][Next]_vars

\* The threads are scheduled.  Nobody waits for the mutex for ever before the
\* periods begin: the others take it a few times only.
Fairness ==
  /\ WF_vars(MainStep)
  /\ WF_vars(ProcessStep)
  /\ WF_vars(NotifyStep)

FairSpec == Spec /\ Fairness

-----------------------------------------------------------------------------
Label(t) ==
  CASE t = "main" -> {"open", "sample_rate", "buffer_size", "register", "init_dsp",
                      "start", "activate", "jack_activate", "activating", "loop",
                      "return"}
    [] t = "process" -> {"none", "init_lock", "init", "idle", "lock", "run"}
    [] t = "notify" -> {"idle", "lock", "handle"}
    [] t = "dbus" -> {"idle", "handle"}

\* Where a thread has jack_mutex.
Holds(t) == pc[t] \in {"activate", "init", "run"} \/ (t = "notify" /\ pc[t] = "handle")

\* The values of the variables; the mutex is held by the thread that is where it
\* needs it, and by no other.
TypeOK ==
  /\ life \in {"running", "refused", "terminated", "exited"}
  /\ DOMAIN pc = {"main", "process", "notify", "dbus"}
  /\ \A t \in DOMAIN pc : pc[t] \in Label(t) /\ (Holds(t) <=> jack_mutex = t)
  /\ jack_mutex \in DOMAIN pc \union {"free"}
  /\ registered \in 0 .. Len(Callbacks)
  /\ seen \in [Setting -> Value \union {0}]
  /\ made \in Seq([Setting -> Value])
  /\ refs \subseteq (Object \union {"main"}) \X Object
  /\ stopped \in BOOLEAN
  /\ client \in {"closed", "open", "active", "zombie"}
  /\ server \in [Setting -> Value]
  /\ changes \in 0 .. MaxChanges
  /\ told \subseteq Setting \union {"shutdown"}
  /\ untold \subseteq Setting
  /\ period \in [Setting -> Value]

\* No period is longer than the buffers of the wires, and none is at another rate
\* than the effects were made for, unless the rate has changed in the one gap
\* that nothing covers, between its callback and jack_activate
\* (src/jackaudio.cxx:85-128, 188-195, src/audio.cxx:305-328).
PeriodsFit ==
  pc["process"] = "run" =>
    \A k \in DOMAIN made :
      /\ period["buffer_size"] <= made[k]["buffer_size"]
      /\ period["sample_rate"] = made[k]["sample_rate"] \/ "sample_rate" \in untold

Needs(t) ==
  CASE t = "process" /\ pc[t] \notin {"none", "idle"} ->
         {"client", "processor", "broker"} \union (IF made = <<>> THEN {} ELSE {"chains"})
    [] t = "notify" /\ pc[t] # "idle" -> {"client", "processor", "broker"}
    [] t = "dbus" /\ pc[t] # "idle" -> {"dbus", "processor"}
    [] OTHER -> {}

\* Whatever a callback or a D-Bus method works on lives until it returns, also
\* when process_audio has returned meanwhile: the client and its handler own each
\* other, so that nothing is destroyed under them, and nothing ever is
\* (src/jackaudio.h:53, src/audio.h:63, src/main.cxx:45-63, src/dbus.cxx:38-48).
HandlersAlive == \A t \in {"process", "notify", "dbus"} : Needs(t) \subseteq Alive

\* start() does not wait for ever for JACK, which calls back while it activates
\* the client (src/audio.cxx:210-229, src/jackaudio.cxx:116-125, 188-195).
StartsUp == <>(pc["main"] = "loop" \/ life # "running")
=============================================================================
