# modpro, specified

modpro is a C++ program that connects radio equipment to loudspeakers and
microphones: it is a client of the JACK audio server, runs the samples of each
period through chains of LADSPA effects, keeps the configured connections
between JACK ports in place, and lets other programs read and write the
effects' controls over D-Bus.  `keyboard-ptt` is a Perl script that keys the
transmitter while a key is held.  This directory holds TLA+ specifications of
the program, their TLC configurations, and proofs checked by TLAPS.

Paths below are relative to the repository; line numbers are those of the
commit the modules were written from.

## The parts of the system

| component | state | operations | talks to |
|---|---|---|---|
| event broker (`src/event.*`) | list of event names, mutex, condition variable | `send_event`, `get_event` | called by every JACK thread and by the main thread |
| processor (`src/audio.*`, `src/main.cxx`) | `initialized`, `activated`, `auto_connect`, `chains`, `buffers` | `init`, `start`, `check_auto_connect`, the JACK handlers, the event loop of `process_audio` | JACK client, broker, chains; exported on D-Bus |
| JACK client (`src/jackaudio.*`) | `client_p`, `jack_mutex`, rate and buffer size | `open`, `activate`, `shutdown`, register, connect and list ports, the callback wrappers | the JACK server; calls the processor's handlers under `jack_mutex` |
| chains (`src/chain.*`) | effects by name, run list, routes to JACK ports | `add_effect`, `add_route`, `activate`, `run` | effects, JACK ports |
| effects (`src/effect.*`, `ladspa::instance`) | control buffers, which ports are connected, `effect_mutex` | `connect`, `disconnect`, `activate`, `run`, `read`, `read_all`, `write`, `knudge`, `set_control`, `get_control_names` | the LADSPA plug-in; exported on D-Bus |
| LADSPA registry (`src/ladspa.*`) | loaded files, types by id, ids by name | `open`, `get_type`, `instantiate` | `dlopen` |
| D-Bus glue (`src/dbus.*`) | connection, dispatcher thread | `init`, `start`, destructor | calls the exported objects in the dispatcher thread |
| `keyboard-ptt` | `last_sent_value`, the alarm, the socket | polling loop, `ptt_on`, `ptt_off`, `END` block | rigctld over TCP, X11 keyboard |
| supervision (`systemd/`) | - | `Restart=always` for jackd, modpro, alsa_in, alsa_out | - |

Four kinds of threads meet: the **main** thread (start-up, then the event
loop), JACK's **process** thread (one `handle_process` per period) and
**notification** thread (ports, clients, settings, shutdown), both of which take
`jack_mutex` around the processor's handlers, and the **D-Bus dispatcher**,
which takes no lock of the processor at all.  The broker carries events from
JACK's threads and the main thread itself to the main loop.

What is hard here: sends that race with the receiver's sleep, a bounded list
between a realtime thread and a main thread that makes server round trips,
ports that come and go while their list is being walked or before the client
is active, callbacks that start before `start()` returns, D-Bus calls at any
moment, and the end of the JACK server at any moment, after which only an
event that gets through makes the program end and be restarted.
`PROJECT.json` lists these hazards, each at its line.

What makes each part correct: the broker is a FIFO queue that neither loses a
wake-up nor exceeds its bound; the processor forgets no configured route, runs
no period before it is set up, ends with its server, and serves until its event
list is full or the server changes or ends; a process cycle runs with every port connected and leaves no JACK buffer behind;
a control that D-Bus reads is the one that was written, and a name that is not
a control is refused; the registry finds a type by a unique id and name; the
transmitter is on only while the key is down.

## The modules

| module | what it is |
|---|---|
| `EventQueue` | abstract: what the broker promises, a bounded FIFO list with indivisible `Send` and `Get` |
| `EventBroker` | the broker at the grain of its mutex and condition variable |
| `EventBroker_proofs` | theorems about `EventBroker`, and that it implements `EventQueue` |
| `MCEventBroker` | the instance for TLC |
| `ModPro` | the running program: main, process, notification and dispatcher threads, the JACK server, restarts; uses `EventQueue` for the broker |
| `ModPro_proofs` | theorems about `ModPro` |
| `MCModPro`, `MCModProLive`, `MCModProFull` | its instances for TLC |
| `Dsp` | a chain of effects: how the config file builds it, and what each period does to it |
| `Dsp_proofs` | theorems about `Dsp` |
| `MCDsp` | its instance for TLC: well-wired configs and arbitrary ones |
| `Controls` | abstract: what the D-Bus methods of the effects promise, one register per control and calls that take one step |
| `EffectControl` | the effects' controls: `init_dsp`, the D-Bus methods and `run`, at the grain of each effect's mutex |
| `EffectControl_proofs` | theorems about `EffectControl`, and that it implements `Controls` |
| `MCEffectControl` | its instance for TLC |
| `LadspaRegistry` | start-up's way through the config file and the registry of plug-in types |
| `LadspaRegistry_proofs` | theorems about `LadspaRegistry` |
| `MCLadspaRegistry` | its instance for TLC |
| `JackClient` | the order of calls by which the JACK client is opened and activated, changes of the server's settings, who owns whom |
| `JackClient_proofs` | theorems about `JackClient` |
| `MCJackClient` | its instance for TLC |
| `Extremes` | a non-empty set of numbers has a least member and, if bounded, a greatest; for the proofs about `CHOOSE` |
| `KeyboardPtt` | the script `keyboard-ptt`, its alarm and its dialogue with rigctld |
| `KeyboardPtt_proofs` | theorems about `KeyboardPtt` |
| `MCKeyboardPtt` | its instance for TLC |

### EventBroker

One action per step of `send_event` and `get_event` that another thread can
see: `Lock`, `Check` (the assertion), `PushBack`, `NotifyOne`, `Unlock`,
`TestPredicate`, `Sleep` (release and wait in one step, as
`condition_variable::wait` does), `SpuriousWake`, `PopFront`.  `pc` says where
each thread is.  Any thread may send, the receiver (the main thread, which
sends `audio_started` itself) included.  A failed assertion sets `aborted`,
after which nothing moves.

### ModPro

| code | action |
|---|---|
| `jackaudio::client::open`: open the client, read the settings; set the callbacks | `OpenClient`, `SetCallbacks` (or `JackFails`) |
| `set_auto_connect`, once per route | `SetAutoConnect`, `RoutesSet` |
| `init_dsp` (registers the ports) and the end of `init` | `InitDsp` (or `JackFails`) |
| `start`: lock, activate the chains, set `activated`, unlock | `StartLock`, `ActivateChains` |
| `jack->activate()`, which waits for the size callback in the process thread | `JackActivate`, `InitLock`, `InitDone`, `Activated` (or `JackFails`) |
| `check_auto_connect` in `start`, in the event loop, over D-Bus | `StartCheck`, `EventCheck`, `DbusCall` and `DbusCheck`: `KnownPorts` takes the list, `ConnectPort` makes one connection, `AllConnected` returns |
| a NULL list of ports, or a client not made yet | `KnownPortsFails` |
| the event loop and its handlers | `HandleEvent`, `Return` |
| process callback: lock, assertions and chains, send, unlock | `ProcessCall`, `ProcessLock`, `ProcessRun`, `ProcessSend` |
| the other callbacks: lock, handler, unlock | `NotifyCall`, `NotifyLock`, `NotifyHandle` |
| the handlers of rate and size, which throw | `SettingRefused` |
| the assertion of `send_event` | `SendFails` |
| JACK and its other clients (external) | `RegisterPort`, `UnregisterPort`, `ClientChange`, `ChangeSetting`, `ServerStop`, `ServerStart` |
| systemd | `Restart` |

`life` records how a run of the program ended; what a process leaves behind is
gone when it ends (`Die`), and `Restart` starts the next.  `changed` holds the
settings that the server has changed since `open` read them.  Their values are not
kept: a callback that is told of a change may find the value that it knows, since
it may have changed back, and passes it over, or another one, and throws through
JACK's C code.  A list walk connects the
sources that were in the list in any order, because JACK promises none; the
destinations of one source likewise.  A data race (`DbusRace`) may kill the
program or go unnoticed.

What is assumed of JACK (version 2, as the README of the repository asks):
only an active client is told of ports, clients and settings; the rate callback is
called when it is set and the size callback, in the process thread, during
`jack_activate`; a connection needs two
existing ports of active clients and is refused otherwise; the callbacks of
one client other than the process callback come one at a time; the shutdown
callback is called once when the server goes, if it is set by then, also for a
client that is not active; `jack_get_ports` gives NULL when
nothing matches, and nothing or NULL once the server has gone.  A port of
another client in the model is a port that can be connected: it appears when
its client is active.  JACK also tells a client of its own ports when it is
activated; that extra notification is left out, since it could only help.
Nobody else removes connections.

`ProcessRun` is where `Dsp` has its steps from `Period` to
`RoutesDisconnected`: the process thread holds `jack_mutex` during all of them
and touches nothing that `ModPro` models.  The two modules share no variable
and are not composed.

### Dsp

| code | action |
|---|---|
| `init_dsp`: make the effects of the config, `add_effect` | `AddEffect`, `EffectsAdded` |
| `init_dsp`: JACK ports and `add_route` | `AddRoutes` |
| `init_dsp`: `make_buffer`, `connect` the source and its destinations | `MakeWires` for each source, `WiresMade` |
| `chain::activate`, `ladspa::instance::activate` | `Activate` |
| the process callback, JACK's buffers of the period | `Period` |
| `handle_process`: connect a route | `ConnectRoute`, `RoutesConnected` |
| `chain::run`, `ladspa::instance::run` | `RunEffect`, `EffectsRun` |
| `handle_process`: disconnect a route | `DisconnectRoute`, `RoutesDisconnected` |

`ConnectAll` and `DisconnectAll` are `connect` and `disconnect`, which both end
in `connect_port` and `port_is_connected[...] = true`.  The config file is a
constant of the behaviour, chosen among `Configs`.  The ways to fail are values
of `phase`: an exception during start-up (`refused`), one in the callback
(`terminated`), a plug-in run on a null pointer (`undefined`).

Samples are sets of origins: which JACK buffer of which period a buffer was
computed from.  A plug-in computes each output from all its inputs and from
nothing it remembers.  `Heard` is what an effect's outputs should then hold, by
the config alone: the JACK inputs of this period that wires lead to it from
(`Leads`).  One chain stands for all, since chains share nothing.
A config that names a control port as the end of a wire or route is not
considered.  Wires of different sources are made in any order, where the code
follows the config; it matters only for two wires to one port, of which the
last one made is heard, and which `WellWired` excludes, as it does loops.

### KeyboardPtt

| code | action |
|---|---|
| connect, set up, the first `alarm(1)` | `Start` |
| key query, `ptt_on` or `ptt_off`, `should_send`, the first write | `Query` |
| `network_write` reads its answer, `get_freq` writes | `SetAnswered` |
| `get_freq` reads, `get_ptt` writes | `FreqAnswered` |
| `get_ptt` reads, the line is shown | `PttAnswered` |
| `select` returns, the next `alarm(1)` | `Wake` |
| the handlers of SIGALRM and SIGINT; other signals | `Alarm`, `Interrupt`; `Kill` |
| rigctld, the rig, its other clients, the user's key, time (external) | `Serve`, `Close`, `Reset`, `OtherClient`, `KeyChange`, `Tick` |

Each `say $net` belongs to the action before the wait for its answer.  `Write`
tells a connection that is open, closed by the peer, closed and written to, and
reset: the last kills the script by SIGPIPE.  Signals come at any wait, which is
where the script spends its time.  The X server is taken to answer at once: a
hanging one would keep the handler of the alarm from running.  A new run of the
script starts when rigctld has dealt with what the last one sent.

### EffectControl

| code | action |
|---|---|
| `effect::effect` exports the object, `ladspa::instance::instance` makes the buffers | `Export`, `Construct` |
| `init_dsp`: `set_control` of each setting, by name; the next effect | `SetConfigured`, `EffectDone` |
| the dispatcher calls a method of an exported object (external) | `Receive` |
| the test of the name in `read`, `write`, `knudge` | `CheckName` |
| `get_control(id)` under the mutex: in `read`, for each control in `read_all`, in `knudge` | `Read`, `ReadNext` and `ReadAllDone`, `KnudgeRead` |
| `set_control(id)` under the mutex, in `write` and `knudge` | `SetControl` |
| the assertions of `get_control(id)` and `set_control(id)` | `NotAControl` |
| main inserts a name while the dispatcher looks one up | `NameRace` |
| `ladspa::instance::run`: lock; the plug-in and unlock | `RunLock`, `RunEnd` |

`Found` is `operator[]` of `port_name_to_id`: it inserts port 0 for a name that
is not there, so that one misspelt setting of the config file makes the
misspelt name an alias of port 0 for all effects of the type.  `IdsOf` is the
table that the constructor makes, in which the last port of a name stays.  A
call to an object that is exported but not constructed calls a pure virtual
function or reads members that are not there: `life` becomes `undefined`.
Numbers are what the properties tell apart: `Rounded` is the conversion of a
D-Bus double to the `float` of a control buffer, `Plus` the addition in
`knudge`.  The dispatcher handles one call after the other.

`Controls` is the promise after start-up: each of `read`, `write` and `knudge`
is one step on a register, `read_all` shows the inputs of one moment.  That it
holds although `knudge` and `read_all` take the mutex several times rests on
there being one dispatcher thread and on plug-ins that leave their inputs
alone.  The mapping is the identity on the buffers; the calls that began during
start-up are not promised anything (`Settled`).

### LadspaRegistry

| code | action |
|---|---|
| `get_routes`, `get_plugins`, `get_chains` of the config file | `GetRoutes`, `GetPlugins`, `GetChains` |
| `ladspa::open`: already loaded, `dlopen` and `dlsym`, note the file | `Open` |
| the loop of `ladspa::open` over the types, and `import_type` | `Import`, `Imported` |
| `init_dsp`: the loop over plug-ins ends | `AllOpen` |
| `init_dsp`: `instantiate`, `get_type` for each effect; its end | `Instantiate`, `NoHandle`, `Ready` |

What is installed and the config file are constants of the behaviour, chosen
among `Libraries` and `Documents`.  Only the sections' presence and kind, the
list of plug-ins and the effects' types are kept of the config file.  All
exceptions end start-up (`refused`).  `Outcomes` has one more end: the text of
the exception for a duplicate id is made by `"..." + id`, which adds the id to a
pointer; an id beyond the text's length reads past it.  `ladspa::instance` uses
the plug-in's handle without looking at it (`NoHandle`).

### JackClient

| code | action |
|---|---|
| `client::open`: `jack_client_open`; the rate, the size; the six callbacks | `Open`; `ReadSetting`; `SetCallback`, `RateChanged`, `CallbacksSet` |
| `init_dsp`: a chain with effects for the rate and buffers of the size | `MakeChain`, `ChainsMade` |
| `start`: lock, activate the chains, unlock | `StartLock`, `ActivateChains` |
| `jack_activate`, which waits for the process thread's size callback | `JackActivate`, `Activated` |
| what JACK refuses throws | `Refused` |
| the event loop ends; the locals of `process_audio` go; `main` returns | `Return`, `DropLocal`, `Exit` |
| the process thread: the size callback, then periods | `InitHandle`, `ProcessCall`, `ProcessDone`, `Lock` |
| the notification thread: rate, size, shutdown | `NotifyCall`, `NotifySetting`, `NotifyShutdown`, `Lock` |
| a D-Bus method of the processor | `DbusCall`, `DbusReturn` |
| the server changes a setting, the server ends (external) | `ServerSets`, `ServerEnds` |

`Refuses` is the test in both callbacks: a value other than the noted one goes
to `handle_sample_rate_change` or `handle_buffer_size_change`, which throw
through JACK's C code and end the program (`terminated`).  `refs` holds the
shared pointers, and `Alive` is what reference counting keeps: an object that
something living owns, also in a circle.

What is assumed of JACK (version 2): `jack_set_sample_rate_callback` calls the
callback at once, in the caller's thread; `jack_activate` has the size callback
called in the process thread and waits for it; changes are told to active
clients only, before the next period; the server changes one setting at a time.
A size that changed before `jack_activate` is therefore seen by the size
callback; a rate that changed between `jack_set_sample_rate_callback` and
`jack_activate` is seen by nobody: `untold` marks that gap, and `PeriodsFit`
excepts it for the rate.

`ModPro` goes through the same start-up with the values of the settings and the
single calls of `open` left out: what it knows of a setting is that it has changed,
and what it knows of a callback is whether all of them are set.  `JackClient` has
no ports, events or restarts.  The two are not composed.

## The runs

| run | instance | what it shows |
|---|---|---|
| `broker` | 2 senders and the receiver, list of 2, 4 sends | types; `PopFindsEvent`; `NoLostWakeup`; `ImplementsQueue` (refinement of `EventQueue`); `Delivered` |
| `program` | 2 own ports, 2 foreign ports, 2 routes (one in each direction), both settings, list of 2, 1 undelivered notification | types; `NoLostRoute`; `NoLostEnd`; `EndsForAReason` |
| `program_live` | 1 own port, 1 foreign port, 1 route, no setting that changes, list of 2 | `Converges`; `StopsWithJack` |
| `dsp` | all well-wired configs of 3 effects with 4 inputs and 3 outputs, up to 2 JACK inputs and outputs; all configs of 1 or 2 effects with up to 2 wires and 2 routes, unknown names included; 2 periods | types; `NoStaleBuffer`; `WellWiredRuns`; `FollowsTheWires`; `Fate` |
| `dsp_unconnected` | the same configs | `ActivateRefusesUnconnected` is **violated** |
| `keyboard_ptt` | an alarm of 4 ticks, a poll of 1 | types; `AnswersMatch`; `MemoTrue`; `FollowsInTime`; `KeepsPolling`; `GoneEnds` |
| `ptt_at_end` | the same | `PttOffAtEnd` is **violated** |
| `ptt_errors` | the same | `HamlibErrorsEnd` is **violated** |
| `event_list_bound` | the real bound of 50, no routes | `ListNeverFull` is **violated** |
| `effect_control` | 4 effects of 3 types, 5 config files of 2 effects, 3 numbers | types; `StrangersArePortZero`; `StableInRun`; `ImplementsRegisters` (refinement of `Controls`); `DiesOfWrongPort`; `Answered` |
| `registry` | 2 files with up to 2 descriptors, ids 1 to 3, 2 names, every list of plug-ins and effects of up to 2 | types; `OneToOne`; `DecidedByContents`; `RightTypes` |
| `jack_client` | 2 chains, 2 values of each setting, 2 changes | types; `PeriodsFit`; `HandlersAlive`; `StartsUp` |

**Bounds.**  A list of 2 already lets the list be empty, partly full and full,
with two events of different threads in either order; nothing in the code
depends on its length but the assertion.  4 sends let the list fill, drain and
fill again, and the receiver sleep in between.  In `ModPro` the list is not
bounded otherwise: the program dies when it overflows, and starts again.  One
undelivered notification, plus the one being handled and the events in the
list, is enough for notifications to overtake a walk of the port list; the
proofs hold for any number.  One port per end of a route suffices because
routes do not interact, two routes show that one walk serves several.  Settings
change in `program` only: a change ends the program or does nothing, both of which
the other two runs have from other causes.

In `Dsp` two periods are enough to see what one leaves to the next, since a
period starts from the buffers that the last one left and from nothing else;
the proofs hold for any number.  Three effects with a side chain have forks
and joins of wires; all orders of the effects and all wirings of them are
initial states.

In `KeyboardPtt` the alarm is 4 times as long as the poll, not 20 times: room
for an iteration that ends in time, late, and not at all.  `since` counts up to
one tick more than `FollowsInTime` speaks of.  The bound of two alarms is tight:
TLC refutes it with `>=` for `>`.

In `EffectControl` two amplifiers share a type and its table, the gate's port 0
is audio and two of its controls have one name, the mixer has one name for a
control and an audio port; the config files set what they should, misspell a
name for one effect or for two, and set an output.  The number 1 is one that a
`float` does not hold, 2 is the largest: rounding and saturation tell the orders
of writes apart.

In `LadspaRegistry` two files with two descriptors each are what it takes for
ids and names to clash within a file and across files; `MessageLength` is 1
where the program has 35, so that ids of 1 to 3 lie on both sides of it.  In
`JackClient` two changes suffice for a setting to go away and come back, or for
both to change; the chains are made at different moments.

**Deadlock** is not checked in `broker`, where sends run out, nor in the runs
of `Dsp`, where periods run out or the chain has failed, nor in
`effect_control`, `registry` and `jack_client`, where the program may end; it is
checked in the other runs: a program that has stopped is restarted, and one that runs can
always receive a port.

**Fairness.**  Each thread inside an operation takes its next step (weak
fairness).  A mutex that is free again and again is obtained at last (strong
fairness on `Lock` of the broker and on `StartLock`, `InitLock`, `NotifyLock`): the process thread, the only
one that keeps coming back, holds it for part of a period only.  Nothing is
assumed of D-Bus callers, ports, periods, spurious wake-ups, the server or
systemd.

In `EffectControl` a call gets the mutex at last (strong fairness on
`CallStep`), in one of the gaps between two runs of the plug-in, and a run ends;
nobody has to call, and no period has to come.  In `JackClient` each of the
three threads takes its next step (weak fairness); that is enough for
`StartsUp`, because the mutex is contended only by steps that come a bounded
number of times before the loop.

In `KeyboardPtt` the script takes the steps it can, time passes, and the system
delivers the alarm's signal and the peer's reset; nothing is assumed of
rigctld, the user or other clients.

**The violations.**  `event_list_bound`: `assert(pending_events.size() < 50)` (`src/event.cxx:29`)
states that no event is sent to a list of 50.  From `jack_activate` on the
process thread sends one `audio_processed` per period, though the main loop
ignores it; the main thread consumes nothing while it is inside `start()` or a
`check_auto_connect`, both sequences of server round trips.  At 128 frames and
48 kHz, as in `systemd/jackd.service`, 50 periods pass in 133 ms.  TLC's
counterexample is exactly that: the assertion ends the program.

`dsp_unconnected`: `activate` throws "port is not connected to anything"
(`src/ladspa.cxx:376`), under a comment that doubts it ("FIXME this isn't
working?", line 374).  The constructor calls `disconnect` on every audio port;
that clears the mark and then calls `connect(nullptr)`, which sets it (lines
357-358, 338).  So the test never fails, and the plug-in is run on a null
pointer in the first period.

`ptt_at_end`: the END block of `keyboard-ptt` says "unconditionally turn off PTT
when exiting" (line 40); the call is commented out (line 42).  SIGINT while the
key is held leaves the transmitter on.

`ptt_errors`: `get_ptt` dies of a negative number (`keyboard-ptt:113`), as hamlib
gave it; rigctld answers with a line of text, `RPRT` and a negative number, which
compares like 0.  It passes for a state and is shown as `*TRANSMIT*`.

## The proofs

`EventBroker_proofs`, for every set of senders, every bound and number of
sends.  `TypeOK`, `PopFindsEvent` and `NoLostWakeup` are not inductive alone:
`MutexInv` (a thread is between its lock and its unlock exactly if it owns the
mutex) gives that no one else changes the list between a test and the step
that relies on it (`CheckedInv`).  `Refinement` maps every step to a step of
`EventQueue` or to a stutter; it is what allows `ModPro` to treat `send_event`
and `get_event` as indivisible.

`ModPro_proofs`, for every set of ports, routes and settings, every bound.
`PhaseInv` says what the main thread has behind it at each place of start-up: the
client's standing, the routes, the ports, the flags, and that no callback runs
before `jack_activate`.  `ShutdownInv` says that a shutdown notification,
wherever it is on its way, comes from a dead server, and `SettingInv` that the
notification of a setting comes from a change since `open`.  With the first two,
`NoLostRoute` is inductive; with all three, each way to end is possible at its
places only (`DeathStep`), which is `EndsForAReason`: the assertions of
`handle_process` never fail, a serving program always has a client and ports to
list, and only a dead server makes the loop return.

`NoLostEnd` is the converse of `ShutdownInv`: once the server has gone, the news of
it is somewhere on its way, and only the main loop takes it off the list.  It has
one exception, a server that ends after `jack_client_open` and before
`jack_on_shutdown` (`src/jackaudio.cxx:79-132`) and tells nobody; the main thread is
then in start-up still, before `jack_activate`, which fails.  `NoLostEnd` is the part
of `StopsWithJack` that does not need fairness.  `HandlersLocked` is
proved from `MutexInv` (who holds `jack_mutex` is where the code holds it) and
is what the comment over the handlers claims.  The constants are assumed to be
what `ModProAssumption` says: there is at least one own port, own and foreign
ports are distinct, routes connect known ports.

`Dsp_proofs`, for any effects, config files and number of periods.
`NoStaleBuffer` needs that a port holding a JACK buffer has a route that
disconnecting has not come to yet (`LentInv`), and everything else what each
part of a period establishes (`CycleInv`): after connecting, every route is
known and its port has a buffer; after running, every port of the chain had
one.

What becomes of a config is proved for all of them, sensible or not.
`BuiltInv` says that the chain is built as the config is written; `HeldInv` says
which ports have a buffer at least (the ends of the wires that are made, unless
they are routed too) and at most (the ends of wires and routes).  `Fate` follows:
a chain is refused only for an effect named twice or a wire that ends nowhere,
ends the program in the callback only for a route that ends nowhere, and runs a
plug-in on a null pointer only for a port that has neither wire nor route; a
chain past the point where a defect shows does not have it.
`FirstPeriodDecides`, that only the first period can fail, is a consequence
(theorem `Decided`).  `BuiltInv` also has that every port is marked as connected
from the start, so that the test in `activate` never refuses anything
(`ActivateAlwaysPasses`): the run `dsp_unconnected` shows one config that it
lets through, the theorem says that it lets all through.

For a config that is well wired, `WellWiredFacts` takes the definition apart
port by port.  `WiredInv` (both ends of a made wire hold its buffer, for good)
and `RoutedInv` (the routes that connecting has got to hold the buffers of this
period) give what every port holds while the effects run (`Held`), hence
`WellWiredRuns`.  `FollowsTheWires` adds `MemoryInv`: the effects that have run
have left what they should hear.  It is inductive because no two outputs share
a buffer (`OutputsApart`), because wires go to effects that run later, and
because what an effect should hear is what its inputs hold (`InputsHeard`).
`LeadsStep` is the one fact about reachability that this takes: whatever leads to
an effect is the effect itself or leads to the source of a wire that ends at it.
`Leads` is defined without paths, by the sets that no wire leaves; `LeadsIsPath`
proves that it is `AreConnectedIn` of the community module `Graphs`, one
direction with the least position of a path outside such a set (`Extremes`).

Constants are assumed to be what `DspAssumption` says: port names differ from
JACK ports, each port has an effect, no port is an input and an output
(LADSPA requires it, and `src/ladspa.cxx:189-197` asks for either), the configs have the shape of a config file.

`KeyboardPtt_proofs`, for any alarm longer than the poll.  `LockStep` says what
can be on the wire at each wait: the one request, its answer, or nothing and a
connection that has ended; `AnswersMatch` follows.  `MemoInv` adds that the note
is right from rigctld's answer on.  `TimeInv` bounds `since` by the alarm that is
running, or by it and the one before, while the rig has not been told;
`FollowsInTime` follows from both.

`EffectControl_proofs`, for any types, effects, config files and numbers.
`TableInv` says that each table has at least the names of the type, and what it
has beyond them; it gives `StrangersArePortZero`.  `StageInv` says which
effects are made at each place of start-up, and that no plug-in runs before its
end.  `CallInv` says what a call that is under way has established: the name it
has tested is still there, and, if it began after start-up, the part that
`read_all` has got is what the inputs hold now and the sum that `knudge` has got
is that of the control as it is now.  It is inductive because no one else
changes an input while a call is under way after start-up, and it is what the
refinement needs: `ImplementsRegisters` is proved as a theorem of `Spec`.
`DiesOfWrongPort` follows from the same invariants (that only a misspelt name of the
config file is ever inserted into a table that calls read is `TableInv`), and so does `CallsAdvance`: no
step of another thread sets a call back or replaces it, and each of its own
leaves `read_all` a port less to ask for, or takes the others from the test of
the name to the control and on to its new value.  Constants are assumed to be what `ControlAssumption` says: ports
are numbered from 0, a config file names each effect once.

`LadspaRegistry_proofs`, for any libraries and config files.  `OneToOne` is
inductive with `TypeOK` and `StageInv` (where start-up is, and what is left to
import).  `DecidedByContents` goes in two directions: what is registered comes
from the files opened so far (`OneToOne`), and all of what they have is
registered (`CoverInv`), so that a clash with the registry is a clash in the
list, and a list that got through has none (`DistinctInv`).  That the refusal reads
beyond its text only for a large id that two plug-ins share is part of it.  The order of
import is a `CHOOSE` of the least id, for which `Extremes` has the lemma, by
well-founded induction.

`JackClient_proofs`, for any settings, chains and number of changes.
`PhaseInv` says what the main thread has behind it, and where the process thread
can be; `SettingsInv` relates what was noted, what the chains were made with,
what the server has, and what the client has yet to be told: where they differ,
a callback is due that will refuse it, or it is the gap.  `RefsInv` is the circle
of pointers between client and processor, from which `HandlersAlive` follows by
the definition of `Alive`.

Every invariant and every safety property of a step that a passing run checks
is proved.  Model-checked only: the liveness properties (`Delivered`,
`Converges`, `StopsWithJack`, `KeepsPolling`, `GoneEnds`, `Answered`,
`StartsUp`), which need fairness and so `ENABLED`, which the prover does not
have; for several of them the safety they rest on is proved (`NoLostWakeup`,
`NoLostRoute`, `NoLostEnd`, `FollowsInTime`, `CallsAdvance`).  The violations are
counterexamples of TLC.

## Plan

1. `EventQueue`, `EventBroker`, `ModPro`, `Dsp`, `KeyboardPtt` with their
   proofs (done).
2. `EffectControl` with `Controls`, `LadspaRegistry`, `JackClient` with their
   proofs (done; what was planned as a module of its own about who owns whom is
   part of `JackClient`).
3. `WellWiredRuns` and `FollowsTheWires` proved, `Fate` and `NoLostEnd` stated
   and proved (done).
4. `CallsAdvance`, the safety that `Answered` rests on (done).  What is left: the
   same for `KeepsPolling` and `GoneEnds`.

## Not modelled

- The samples themselves and what a plug-in computes: `Dsp` keeps their origin.
- YAML parsing, beyond the sections' presence and kind.
- `get_control_names` and the other look-ups of an effect: they read what
  never changes.  `get_control_names` returns as many empty names as there are
  ports before the real ones (`src/ladspa.cxx:317`), since it makes a vector of that
  size and appends to it.
- Control ports as ends of wires and routes: `connect` takes any port, and a
  control that is wired no longer reads its control buffer; the sample config
  has none.
- Destructors of the client, the registry and the D-Bus object: `HandlersAlive`
  shows the circle of pointers by which they are not reached; the dispatcher's
  join in `dbus.cxx` would only matter to a program without it.
- D-Bus itself: name requests, introspection, what the library does on a lost
  bus.
- The sample copying helpers and `get_known_client_names`, which have no
  caller; console output and terminal echo.
