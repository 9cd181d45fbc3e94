--------------------------------- MODULE Dsp --------------------------------
(***************************************************************************)
(* One chain of LADSPA effects: how init_dsp builds it from the config     *)
(* file, what activate() tests, and what handle_process does to it in each *)
(* period: connect the effects' routed ports to JACK's buffers, run the    *)
(* effects in the order of the config, disconnect.                         *)
(*                                                                         *)
(* All of it happens in one thread at a time: the main thread builds and   *)
(* activates, and JACK's process thread takes over when the client is      *)
(* active (ModPro).  Chains share neither effects nor buffers, so one      *)
(* stands for all.  Control ports keep the buffers that the constructor    *)
(* gave them and are left out.                                             *)
(*                                                                         *)
(* A buffer is a pair of what it belongs to (the source port of a wire, or *)
(* a JACK port) and the period for which JACK lent it, 0 for a wire's.     *)
(* Samples are modelled by their origins: the buffers of JACK, with their  *)
(* periods, that they were computed from.                                  *)
(***************************************************************************)
EXTENDS Naturals, Sequences

CONSTANTS
  Effect,      \* effects, by name
  InPort,      \* the audio inputs of all effects' types
  OutPort,     \* the audio outputs of all effects' types
  Owner,       \* the effect of each port
  PortName,    \* the effect ports that a config file may name
  JackIn,      \* the chain's JACK input ports
  JackOut,     \* the chain's JACK output ports
  Configs,     \* the config files considered
  NULL,        \* the null pointer
  MaxPeriods   \* bound of the model: how many periods are processed

AudioPort == InPort \union OutPort

JackPort == JackIn \union JackOut

\* The chain's part of a config file.  Nothing checks the names of ports
\* before they are used.
ConfigFile ==
  [effects : Seq(Effect),
   wires   : SUBSET (PortName \X PortName),
   routes  : Seq(PortName \X JackPort)]

ASSUME DspAssumption ==
  /\ AudioPort \subseteq PortName
  /\ InPort \intersect OutPort = {}
  /\ PortName \intersect JackPort = {}
  /\ Owner \in [AudioPort -> Effect]
  /\ Configs \subseteq ConfigFile
  /\ NULL \notin (PortName \union JackPort) \X Nat
  /\ MaxPeriods \in Nat

VARIABLES
  config,             \* the config file
  phase,              \* what is being done to the chain
  run_list,           \* chain::run_list
  jack_connections,   \* chain::jack_connections
  unwired,            \* the source ports whose wires are not made yet
  port_is_connected,  \* ladspa::instance::port_is_connected, of all effects
  buffer,             \* what connect_port was last given for each port
  memory,             \* the samples in each wire's and JACK port's buffer
  period,             \* how many periods have begun
  k                   \* position in the list that a period walks

chain == <<run_list, jack_connections, unwired>>
vars == <<config, phase, chain, port_is_connected, buffer, memory, period, k>>

Building == {"effects", "routes", "wires", "activate"}

Processing == {"connect", "run", "disconnect"}

\* An exception ended start-up; an exception left the process callback; a
\* plug-in was run on a null pointer.
Failed == {"refused", "terminated", "undefined"}

Elements(s) == {s[i] : i \in DOMAIN s}

\* get_effect and the look-up of the port both find the name.
Known(n) == n \in AudioPort /\ Owner[n] \in Elements(run_list)

PortsOf(e) == {p \in AudioPort : Owner[p] = e}

\* The ports of the effects in the chain.
ChainPort == {p \in AudioPort : Owner[p] \in Elements(run_list)}

Wire(src) == <<src, 0>>

Sources(c) == {w[1] : w \in c.wires}

Destinations(c, src) == {w[2] : w \in {v \in c.wires : v[1] = src}}

Fail(how) ==
  /\ phase' = how
  /\ UNCHANGED <<config, chain, port_is_connected, buffer, memory, period, k>>

\* connect_port of the plug-in, and the note that the port is connected.
ConnectAll(P, b) ==
  /\ buffer' = [p \in AudioPort |-> IF p \in P THEN b ELSE buffer[p]]
  /\ port_is_connected' =
       [p \in AudioPort |-> p \in P \/ port_is_connected[p]]

\* disconnect notes that the port is not connected, then calls connect with a
\* null pointer, which notes that it is.
DisconnectAll(P) == ConnectAll(P, NULL)

-----------------------------------------------------------------------------
Init ==
  /\ config \in Configs
  /\ phase = "effects"
  /\ run_list = <<>>
  /\ jack_connections = <<>>
  /\ unwired = Sources(config)
  /\ port_is_connected = [p \in AudioPort |-> FALSE]
  /\ buffer = [p \in AudioPort |-> NULL]
  /\ memory = [b \in PortName \union JackPort |-> {}]
  /\ period = 0
  /\ k = 1

-----------------------------------------------------------------------------
(* init_dsp.                                                               *)

\* Mutants of AddEffect: a taken name is not noticed; the run list is built
\* from its front.
AddEffectUnchecked ==
  /\ phase = "effects"
  /\ Len(run_list) < Len(config.effects)
  /\ LET e == config.effects[Len(run_list) + 1]
     IN  /\ run_list' = Append(run_list, e)
         /\ DisconnectAll(PortsOf(e))
         /\ UNCHANGED <<config, phase, jack_connections, unwired, memory,
                        period, k>>

AddEffectInFront ==
  /\ phase = "effects"
  /\ Len(run_list) < Len(config.effects)
  /\ LET e == config.effects[Len(run_list) + 1]
     IN  IF e \in Elements(run_list)
         THEN Fail("refused")
         ELSE /\ run_list' = <<e>> \o run_list
              /\ DisconnectAll(PortsOf(e))
              /\ UNCHANGED <<config, phase, jack_connections, unwired, memory,
                             period, k>>

\* The constructor disconnects the audio ports; then add_effect, which throws
\* if the name is taken.
AddEffect ==
  /\ phase = "effects"
  /\ Len(run_list) < Len(config.effects)
  /\ LET e == config.effects[Len(run_list) + 1]
     IN  IF e \in Elements(run_list)
         THEN Fail("refused")
         ELSE /\ run_list' = Append(run_list, e)
              /\ DisconnectAll(PortsOf(e))
              /\ UNCHANGED <<config, phase, jack_connections, unwired, memory,
                             period, k>>

EffectsAdded ==
  /\ phase = "effects"
  /\ Len(run_list) = Len(config.effects)
  /\ phase' = "routes"
  /\ UNCHANGED <<config, chain, port_is_connected, buffer, memory, period, k>>

\* One JACK port and one add_route for each input, then for each output.
AddRoutes ==
  /\ phase = "routes"
  /\ jack_connections' = config.routes
  /\ phase' = "wires"
  /\ UNCHANGED <<config, run_list, unwired, port_is_connected, buffer, memory,
                 period, k>>

\* Mutant of MakeWires: the source is left out of its own wire.
MakeWiresOneEnded(src) ==
  /\ phase = "wires"
  /\ src \in unwired
  /\ LET ends == Destinations(config, src)
     IN  IF \A n \in ends : Known(n)
         THEN /\ ConnectAll(ends, Wire(src))
              /\ unwired' = unwired \ {src}
              /\ UNCHANGED <<config, phase, run_list, jack_connections, memory,
                             period, k>>
         ELSE Fail("refused")

\* All wires from one source share one new, silent buffer.
MakeWires(src) ==
  /\ phase = "wires"
  /\ src \in unwired
  /\ LET ends == {src} \union Destinations(config, src)
     IN  IF \A n \in ends : Known(n)
         THEN /\ ConnectAll(ends, Wire(src))
              /\ unwired' = unwired \ {src}
              /\ UNCHANGED <<config, phase, run_list, jack_connections, memory,
                             period, k>>
         ELSE Fail("refused")

WiresMade ==
  /\ phase = "wires"
  /\ unwired = {}
  /\ phase' = "activate"
  /\ UNCHANGED <<config, chain, port_is_connected, buffer, memory, period, k>>

\* chain::activate, from start(): each effect tests that all its ports are
\* connected.
Activate ==
  /\ phase = "activate"
  /\ IF \A p \in ChainPort : port_is_connected[p]
     THEN phase' = "idle"
     ELSE phase' = "refused"
  /\ UNCHANGED <<config, chain, port_is_connected, buffer, memory, period, k>>

-----------------------------------------------------------------------------
(* handle_process.                                                         *)

\* JACK calls with new contents in the buffers of its ports, which need not be
\* the buffers of the period before.
Period ==
  /\ phase = "idle"
  /\ period < MaxPeriods
  /\ period' = period + 1
  /\ memory' = [b \in DOMAIN memory |->
                  IF b \in JackPort THEN {<<b, period'>>} ELSE memory[b]]
  /\ phase' = "connect"
  /\ k' = 1
  /\ UNCHANGED <<config, chain, port_is_connected, buffer>>

\* Mutant of ConnectRoute: the JACK buffer of the first period is kept.
ConnectRouteCached ==
  /\ phase = "connect"
  /\ k <= Len(jack_connections)
  /\ LET name == jack_connections[k][1]
     IN  IF Known(name)
         THEN /\ ConnectAll({name}, <<jack_connections[k][2], 1>>)
              /\ k' = k + 1
              /\ UNCHANGED <<config, phase, chain, memory, period>>
         ELSE Fail("terminated")

\* An unknown name throws, and nothing catches what leaves the callback.
ConnectRoute ==
  /\ phase = "connect"
  /\ k <= Len(jack_connections)
  /\ LET name == jack_connections[k][1]
     IN  IF Known(name)
         THEN /\ ConnectAll({name}, <<jack_connections[k][2], period>>)
              /\ k' = k + 1
              /\ UNCHANGED <<config, phase, chain, memory, period>>
         ELSE Fail("terminated")

RoutesConnected ==
  /\ phase = "connect"
  /\ k > Len(jack_connections)
  /\ phase' = "run"
  /\ k' = 1
  /\ UNCHANGED <<config, chain, port_is_connected, buffer, memory, period>>

\* Each output of the effect is computed from all its inputs.
Computed(e) ==
  LET In  == PortsOf(e) \intersect InPort
      Out == PortsOf(e) \intersect OutPort
  IN  [b \in DOMAIN memory |->
         IF \E p \in Out : buffer[p][1] = b
         THEN UNION {memory[buffer[p][1]] : p \in In}
         ELSE memory[b]]

RunEffect ==
  /\ phase = "run"
  /\ k <= Len(run_list)
  /\ IF \A p \in PortsOf(run_list[k]) : buffer[p] # NULL
     THEN /\ memory' = Computed(run_list[k])
          /\ k' = k + 1
          /\ UNCHANGED <<config, phase, chain, port_is_connected, buffer, period>>
     ELSE Fail("undefined")

EffectsRun ==
  /\ phase = "run"
  /\ k > Len(run_list)
  /\ phase' = "disconnect"
  /\ k' = 1
  /\ UNCHANGED <<config, chain, port_is_connected, buffer, memory, period>>

\* Mutant of DisconnectRoute: the whole effect is disconnected.
DisconnectEffect ==
  /\ phase = "disconnect"
  /\ k <= Len(jack_connections)
  /\ DisconnectAll(PortsOf(Owner[jack_connections[k][1]]))
  /\ k' = k + 1
  /\ UNCHANGED <<config, phase, chain, memory, period>>

DisconnectRoute ==
  /\ phase = "disconnect"
  /\ k <= Len(jack_connections)
  /\ DisconnectAll({jack_connections[k][1]})
  /\ k' = k + 1
  /\ UNCHANGED <<config, phase, chain, memory, period>>

\* The end of the callback.
RoutesDisconnected ==
  /\ phase = "disconnect"
  /\ k > Len(jack_connections)
  /\ phase' = "idle"
  /\ UNCHANGED <<config, chain, port_is_connected, buffer, memory, period, k>>

-----------------------------------------------------------------------------
Next ==
  \/ AddEffect
  \/ EffectsAdded
  \/ AddRoutes
  \/ \E src \in unwired : MakeWires(src)
  \/ WiresMade
  \/ Activate
  \/ Period
  \/ ConnectRoute
  \/ RoutesConnected
  \/ RunEffect
  \/ EffectsRun
  \/ DisconnectRoute
  \/ RoutesDisconnected

Spec == Init /\ [][Next]_vars

-----------------------------------------------------------------------------
\* The values of the variables; no effect is in the chain twice.
TypeOK ==
  /\ config \in Configs
  /\ phase \in Building \union {"idle"} \union Processing \union Failed
  /\ run_list \in Seq(Effect)
  /\ \A i, j \in DOMAIN run_list : run_list[i] = run_list[j] => i = j
  /\ jack_connections \in Seq(PortName \X JackPort)
  /\ unwired \subseteq PortName
  /\ port_is_connected \in [AudioPort -> BOOLEAN]
  /\ buffer \in [AudioPort -> ((PortName \union JackPort) \X Nat) \union {NULL}]
  /\ memory \in [PortName \union JackPort -> SUBSET (JackPort \X Nat)]
  /\ period \in Nat
  /\ k \in Nat \ {0}

Lent(b) == b # NULL /\ b[1] \in JackPort

\* No plug-in is ever left holding, or run on, a buffer that JACK lent for
\* another period, whatever the config file routes and wires
\* (src/audio.cxx:293-299).
NoStaleBuffer ==
  \A p \in AudioPort :
    Lent(buffer[p]) => phase \notin Building \union {"idle"}
                       /\ buffer[p][2] = period

\* The name is that of a port of an effect in the config.
Named(c, n) == n \in AudioPort /\ Owner[n] \in Elements(c.effects)

\* No effect is named twice, and the ends of all wires are ports of effects.
Acceptable(c) ==
  /\ \A i, j \in DOMAIN c.effects : c.effects[i] = c.effects[j] => i = j
  /\ \A w \in c.wires : Named(c, w[1]) /\ Named(c, w[2])

RoutesNamed(c) == \A i \in DOMAIN c.routes : Named(c, c.routes[i][1])

InWire(c, p) == \E w \in c.wires : p \in {w[1], w[2]}

InRoute(c, p) == \E i \in DOMAIN c.routes : c.routes[i][1] = p

\* Every port of an effect of the config is the end of a wire or of a route.
NoneLeftOut(c) == \A p \in AudioPort : Named(c, p) => InWire(c, p) \/ InRoute(c, p)

\* Each way for a chain to fail has its own defect of the config, and a chain that
\* is past the point where the defect shows does not have it.  Hence a chain that
\* gets through one period gets through all: in particular disconnecting the routes
\* takes no wire away that a later period needs (src/chain.cxx:50-67,
\* src/ladspa.cxx:346-353, src/audio.cxx:144-200, 285-299).
Fate ==
  /\ phase = "refused" => ~ Acceptable(config)
  /\ phase = "terminated" => Acceptable(config) /\ ~ RoutesNamed(config)
  /\ phase = "undefined" =>
       Acceptable(config) /\ RoutesNamed(config) /\ ~ NoneLeftOut(config)
  /\ phase \in {"activate", "idle"} \union Processing => Acceptable(config)
  /\ phase \in {"run", "disconnect"} => RoutesNamed(config)
  /\ phase = "disconnect" \/ (phase = "idle" /\ period >= 1) \/ period >= 2 =>
       RoutesNamed(config) /\ NoneLeftOut(config)

\* A config as it is meant: every input has one wire or one JACK input, every
\* output has wires or one JACK output, and wires go from an effect to a later
\* one.
WellWired(c) ==
  LET Routed(S)   == {i \in DOMAIN c.routes : c.routes[i][2] \in S}
      Place(p)    == CHOOSE i \in DOMAIN c.effects : c.effects[i] = Owner[p]
      RoutesOf(p) == {i \in DOMAIN c.routes : c.routes[i][1] = p}
      WiresTo(p)  == {w \in c.wires : w[2] = p}
  IN  /\ \A i, j \in DOMAIN c.effects : c.effects[i] = c.effects[j] => i = j
      /\ Elements(c.effects) = Effect
      /\ \A w \in c.wires : /\ w \in OutPort \X InPort
                            /\ Place(w[1]) < Place(w[2])
      /\ \A i \in Routed(JackIn) : c.routes[i][1] \in InPort
      /\ \A i \in Routed(JackOut) : c.routes[i][1] \in OutPort
      /\ \A i, j \in DOMAIN c.routes :
           c.routes[i][1] = c.routes[j][1] \/ c.routes[i][2] = c.routes[j][2]
             => i = j
      /\ \A p \in InPort :
           \/ RoutesOf(p) = {} /\ \E w \in c.wires : WiresTo(p) = {w}
           \/ RoutesOf(p) # {} /\ WiresTo(p) = {}
      /\ \A p \in OutPort : RoutesOf(p) = {} <=> p \in Sources(c)

\* Whether the wires lead from the effect e to the effect f: it is in every set
\* that e is in and that no wire leaves.
Leads(c, e, f) ==
  \A S \in SUBSET Effect :
    e \in S /\ (\A w \in c.wires : Owner[w[1]] \in S => Owner[w[2]] \in S) => f \in S

\* A config that is well wired neither is refused nor fails in a callback, and
\* every plug-in is run with all its ports connected (src/chain.cxx:50-67,
\* src/ladspa.cxx:346-353, 371-389).
WellWiredRuns == WellWired(config) => phase \notin Failed

\* The samples of this period from those JACK inputs that wires lead to the
\* effect e from.
Heard(e) ==
  {<<config.routes[j][2], period>> :
     j \in {j \in DOMAIN config.routes :
              /\ config.routes[j][2] \in JackIn
              /\ Leads(config, Owner[config.routes[j][1]], e)}}

\* The chain computes what the config draws: when the effects have run, each
\* JACK output holds what its effect should hear, and nothing else.  The order
\* of run_list, the sharing of buffers and the connecting in each period add up
\* to that (src/chain.cxx:43-48, src/audio.cxx:183-200, 283-291).
FollowsTheWires ==
  WellWired(config) /\ phase = "disconnect" /\ k = 1 =>
    \A i \in DOMAIN config.routes :
      config.routes[i][2] \in JackOut =>
        memory[config.routes[i][2]] = Heard(Owner[config.routes[i][1]])

\* What the exception in activate() says (src/ladspa.cxx:373-377): once it has
\* returned, every port of the chain is connected to something, that is to say
\* wired, or routed to a port of JACK for each period to come.
ActivateRefusesUnconnected ==
  phase = "idle" =>
    \A p \in ChainPort :
      \/ \E w \in config.wires : p \in {w[1], w[2]}
      \/ \E r \in Elements(jack_connections) : r[1] = p
=============================================================================
