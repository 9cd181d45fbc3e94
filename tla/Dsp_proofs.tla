----------------------------- MODULE Dsp_proofs -----------------------------
(***************************************************************************)
(* For any effects, any config files and any number of periods: types; no  *)
(* buffer of JACK is kept beyond its period; what defects of a config a    *)
(* chain fails of, and when; that a well-wired config has none; and that   *)
(* what is at the outputs of a well-wired chain comes from those inputs    *)
(* that wires lead to them from.                                           *)
(***************************************************************************)
EXTENDS Dsp, Extremes, TLAPS

Buffer == (PortName \union JackPort) \X Nat

Routed(p) == \E i \in DOMAIN jack_connections : jack_connections[i][1] = p

\* A port that holds a buffer of JACK is routed, and disconnecting has not come
\* to its route yet.
LentInv ==
  \A p \in AudioPort :
    Lent(buffer[p]) =>
      /\ phase \notin Building \union {"idle"}
      /\ buffer[p][2] = period
      /\ \E i \in DOMAIN jack_connections :
           /\ jack_connections[i][1] = p
           /\ phase = "disconnect" => i >= k

\* Where a period is, and what it has connected and run so far.
CycleInv ==
  /\ phase \in Building => period = 0
  /\ phase \in Processing => period >= 1
  /\ phase = "connect" =>
       \A i \in DOMAIN jack_connections :
         i < k => /\ Known(jack_connections[i][1])
                  /\ buffer[jack_connections[i][1]] # NULL
  /\ phase = "run" =>
       \A i \in DOMAIN jack_connections :
         /\ Known(jack_connections[i][1])
         /\ buffer[jack_connections[i][1]] # NULL
  /\ phase = "run" =>
       \A j \in DOMAIN run_list :
         j < k => \A p \in PortsOf(run_list[j]) : buffer[p] # NULL

IInv == TypeOK /\ LentInv /\ CycleInv

-----------------------------------------------------------------------------
\* The config that was chosen is a config file.
LEMMA ConfigType ==
  ASSUME config \in Configs
  PROVE  /\ config.effects \in Seq(Effect)
         /\ config.wires \subseteq PortName \X PortName
         /\ config.routes \in Seq(PortName \X JackPort)
  BY DspAssumption DEF ConfigFile

\* What connecting the ports P to b leaves in the ports.
LEMMA ConnectAllType ==
  ASSUME TypeOK, NEW P, NEW b \in Buffer \union {NULL}, ConnectAll(P, b)
  PROVE  /\ port_is_connected' \in [AudioPort -> BOOLEAN]
         /\ buffer' \in [AudioPort -> Buffer \union {NULL}]
         /\ \A p \in AudioPort : buffer'[p] = IF p \in P THEN b ELSE buffer[p]
  BY DEF TypeOK, ConnectAll, Buffer

LEMMA InitTypeOK == Init => TypeOK
  <1> SUFFICES ASSUME Init PROVE TypeOK
    OBVIOUS
  <1>1. unwired \subseteq PortName
    BY ConfigType DEF Init, Sources
  <1>2. port_is_connected \in [AudioPort -> BOOLEAN]
    BY DEF Init
  <1>3. buffer \in [AudioPort -> ((PortName \union JackPort) \X Nat) \union {NULL}]
    BY DEF Init
  <1>4. memory \in [PortName \union JackPort -> SUBSET (JackPort \X Nat)]
    BY DEF Init
  <1>5. run_list = <<>> /\ jack_connections = <<>>
    BY DEF Init
  <1>6. QED
    BY <1>1, <1>2, <1>3, <1>4, <1>5 DEF Init, TypeOK, Building

\* Every step keeps the values in their types, and no effect enters the chain
\* twice.
LEMMA NextTypeOK == TypeOK /\ [Next]_vars => TypeOK'
  <1> SUFFICES ASSUME TypeOK, [Next]_vars PROVE TypeOK'
    OBVIOUS
  <1> USE DEF chain, Building, Processing, Failed
  <1>0. /\ config.effects \in Seq(Effect)
        /\ config.routes \in Seq(PortName \X JackPort)
    BY ConfigType DEF TypeOK
  <1>1. ASSUME NEW how \in Failed, Fail(how), UNCHANGED unwired PROVE TypeOK'
    BY <1>1 DEF Fail, TypeOK
  <1>2. CASE AddEffect
    <2> DEFINE e == config.effects[Len(run_list) + 1]
    <2>1. CASE e \in Elements(run_list)
      BY <1>1, <1>2, <2>1 DEF AddEffect, Fail
    <2>2. CASE e \notin Elements(run_list)
      <3>1. /\ run_list' = Append(run_list, e)
            /\ DisconnectAll(PortsOf(e))
            /\ UNCHANGED <<config, phase, jack_connections, unwired, memory,
                           period, k>>
        BY <1>2, <2>2 DEF AddEffect
      <3>2. e \in Effect
        BY <1>0, <1>2 DEF AddEffect, TypeOK
      <3>3. \A i \in DOMAIN run_list : run_list[i] # e
        BY <2>2 DEF Elements
      <3>4. /\ run_list' \in Seq(Effect)
            /\ \A i, j \in DOMAIN run_list' : run_list'[i] = run_list'[j] => i = j
        BY <3>1, <3>2, <3>3 DEF TypeOK
      <3>5. /\ port_is_connected' \in [AudioPort -> BOOLEAN]
            /\ buffer' \in [AudioPort -> Buffer \union {NULL}]
        BY <3>1, ConnectAllType DEF DisconnectAll
      <3>6. QED
        BY <3>1, <3>4, <3>5 DEF TypeOK, Buffer
    <2>3. QED
      BY <2>1, <2>2
  <1>3. CASE EffectsAdded \/ WiresMade \/ Activate
    BY <1>3 DEF EffectsAdded, WiresMade, Activate, TypeOK
  <1>4. CASE AddRoutes
    BY <1>0, <1>4 DEF AddRoutes, TypeOK
  <1>5. ASSUME NEW src \in unwired, MakeWires(src) PROVE TypeOK'
    <2> DEFINE ends == {src} \union Destinations(config, src)
    <2>1. CASE \A n \in ends : Known(n)
      <3>1. /\ ConnectAll(ends, Wire(src))
            /\ unwired' = unwired \ {src}
            /\ UNCHANGED <<config, phase, run_list, jack_connections, memory,
                           period, k>>
        BY <1>5, <2>1 DEF MakeWires
      <3>2. Wire(src) \in Buffer
        BY DEF Wire, Buffer, TypeOK
      <3>3. /\ port_is_connected' \in [AudioPort -> BOOLEAN]
            /\ buffer' \in [AudioPort -> Buffer \union {NULL}]
        BY <3>1, <3>2, ConnectAllType
      <3>4. QED
        BY <3>1, <3>3 DEF TypeOK, Buffer
    <2>2. CASE ~ \A n \in ends : Known(n)
      BY <1>1, <1>5, <2>2 DEF MakeWires, Fail
    <2>3. QED
      BY <2>1, <2>2
  <1>6. CASE Period
    <2>1. period' \in Nat
      BY <1>6 DEF Period, TypeOK
    <2>2. memory' \in [PortName \union JackPort -> SUBSET (JackPort \X Nat)]
      BY <1>6, <2>1 DEF Period, TypeOK
    <2>3. QED
      BY <1>6, <2>1, <2>2 DEF Period, TypeOK
  <1>7. CASE ConnectRoute
    <2> DEFINE name == jack_connections[k][1]
               b    == <<jack_connections[k][2], period>>
    <2>1. CASE Known(name)
      <3>1. /\ ConnectAll({name}, b)
            /\ k' = k + 1
            /\ UNCHANGED <<config, phase, chain, memory, period>>
        BY <1>7, <2>1 DEF ConnectRoute
      <3>2. b \in Buffer
        BY <1>7 DEF ConnectRoute, TypeOK, Buffer
      <3>3. /\ port_is_connected' \in [AudioPort -> BOOLEAN]
            /\ buffer' \in [AudioPort -> Buffer \union {NULL}]
        BY <3>1, <3>2, ConnectAllType
      <3>4. QED
        BY <3>1, <3>3 DEF TypeOK, Buffer
    <2>2. CASE ~ Known(name)
      BY <1>1, <1>7, <2>2 DEF ConnectRoute, Fail
    <2>3. QED
      BY <2>1, <2>2
  <1>8. CASE RoutesConnected \/ EffectsRun \/ RoutesDisconnected
    BY <1>8 DEF RoutesConnected, EffectsRun, RoutesDisconnected, TypeOK
  <1>9. CASE RunEffect
    <2> DEFINE e == run_list[k]
    <2>1. CASE \A p \in PortsOf(e) : buffer[p] # NULL
      <3>1. /\ memory' = Computed(e)
            /\ k' = k + 1
            /\ UNCHANGED <<config, phase, chain, port_is_connected, buffer,
                           period>>
        BY <1>9, <2>1 DEF RunEffect
      <3>2. \A p \in PortsOf(e) :
              memory[buffer[p][1]] \subseteq JackPort \X Nat
        <4>1. \A p \in PortsOf(e) : buffer[p] \in Buffer
          BY <2>1 DEF TypeOK, PortsOf, Buffer
        <4>2. QED
          BY <4>1 DEF TypeOK, Buffer
      <3>3. UNION {memory[buffer[p][1]] : p \in PortsOf(e) \intersect InPort}
              \subseteq JackPort \X Nat
        BY <3>2
      <3>4. Computed(e) \in [PortName \union JackPort -> SUBSET (JackPort \X Nat)]
        BY <3>3 DEF Computed, TypeOK
      <3>5. QED
        BY <3>1, <3>4 DEF TypeOK
    <2>2. CASE ~ \A p \in PortsOf(e) : buffer[p] # NULL
      BY <1>1, <1>9, <2>2 DEF RunEffect, Fail
    <2>3. QED
      BY <2>1, <2>2
  <1>10. CASE DisconnectRoute
    <2>1. /\ port_is_connected' \in [AudioPort -> BOOLEAN]
          /\ buffer' \in [AudioPort -> Buffer \union {NULL}]
      BY <1>10, ConnectAllType DEF DisconnectRoute, DisconnectAll
    <2>2. QED
      BY <1>10, <2>1 DEF DisconnectRoute, TypeOK, Buffer
  <1>11. CASE UNCHANGED vars
    BY <1>11 DEF vars, TypeOK
  <1>12. QED
    BY <1>2, <1>3, <1>4, <1>5, <1>6, <1>7, <1>8, <1>9, <1>10, <1>11 DEF Next

-----------------------------------------------------------------------------
(* JACK's buffers.                                                         *)

LEMMA InitLentInv == Init => LentInv
  BY DEF Init, LentInv, Lent

\* Only ConnectRoute hands out a buffer of JACK, and DisconnectRoute comes to
\* every port that was given one.
LEMMA NextLentInv == TypeOK /\ LentInv /\ [Next]_vars => LentInv'
  <1> SUFFICES ASSUME TypeOK, LentInv, [Next]_vars,
                      NEW p \in AudioPort, Lent(buffer'[p])
               PROVE  /\ phase' \notin Building \union {"idle"}
                      /\ buffer'[p][2] = period'
                      /\ \E i \in DOMAIN jack_connections' :
                           /\ jack_connections'[i][1] = p
                           /\ phase' = "disconnect" => i >= k'
    BY DEF LentInv, Lent
  <1> DEFINE Goal == /\ phase' \notin Building \union {"idle"}
                     /\ buffer'[p][2] = period'
                     /\ \E i \in DOMAIN jack_connections' :
                          /\ jack_connections'[i][1] = p
                          /\ phase' = "disconnect" => i >= k'
  <1> USE DEF chain, Building
  <1>a. ASSUME Lent(buffer[p])
        PROVE  /\ phase \notin Building \union {"idle"}
               /\ buffer[p][2] = period
               /\ \E i \in DOMAIN jack_connections :
                    /\ jack_connections[i][1] = p
                    /\ phase = "disconnect" => i >= k
    BY <1>a DEF LentInv
  <1>b. ~ Lent(NULL)
    BY DEF Lent
  <1>1. CASE AddEffect
    <2>1. buffer'[p] \in {buffer[p], NULL} /\ phase = "effects"
      BY <1>1 DEF AddEffect, Fail, DisconnectAll, ConnectAll
    <2>2. QED
      BY <1>a, <1>b, <2>1
  <1>2. CASE EffectsAdded \/ AddRoutes \/ WiresMade \/ Activate
    BY <1>a, <1>2 DEF EffectsAdded, AddRoutes, WiresMade, Activate
  <1>3. ASSUME NEW src \in unwired, MakeWires(src) PROVE Goal
    <2>1. buffer'[p] \in {buffer[p], Wire(src)} /\ phase = "wires"
      BY <1>3 DEF MakeWires, Fail, ConnectAll
    <2>2. ~ Lent(Wire(src))
      BY DspAssumption DEF Lent, Wire, TypeOK
    <2>3. QED
      BY <1>a, <2>1, <2>2
  <1>4. CASE Period
    BY <1>a, <1>4 DEF Period
  <1>5. CASE ConnectRoute
    <2> DEFINE name == jack_connections[k][1]
    <2>1. CASE Known(name)
      <3>1. /\ ConnectAll({name}, <<jack_connections[k][2], period>>)
            /\ UNCHANGED <<phase, jack_connections, period>>
            /\ phase = "connect" /\ k \in DOMAIN jack_connections
        BY <1>5, <2>1 DEF ConnectRoute, TypeOK
      <3>2. CASE p = name
        <4>1. buffer'[p] = <<jack_connections[k][2], period>>
          BY <3>1, <3>2 DEF ConnectAll
        <4>2. QED
          BY <3>1, <3>2, <4>1
      <3>3. CASE p # name
        <4>1. buffer'[p] = buffer[p]
          BY <3>1, <3>3 DEF ConnectAll
        <4>2. QED
          BY <1>a, <3>1, <4>1
      <3>4. QED
        BY <3>2, <3>3
    <2>2. CASE ~ Known(name)
      BY <1>a, <1>5, <2>2 DEF ConnectRoute, Fail
    <2>3. QED
      BY <2>1, <2>2
  <1>6. CASE RoutesConnected
    BY <1>a, <1>6 DEF RoutesConnected
  <1>7. CASE RunEffect
    BY <1>a, <1>7 DEF RunEffect, Fail
  <1>8. CASE EffectsRun
    <2>1. \A i \in DOMAIN jack_connections : i >= 1
      BY DEF TypeOK
    <2>2. QED
      BY <1>a, <1>8, <2>1 DEF EffectsRun
  <1>9. CASE DisconnectRoute
    <2> DEFINE name == jack_connections[k][1]
    <2>1. buffer'[p] = (IF p = name THEN NULL ELSE buffer[p])
      BY <1>9 DEF DisconnectRoute, DisconnectAll, ConnectAll
    <2>2. p # name /\ Lent(buffer[p])
      BY <1>b, <2>1
    <2>3. PICK i \in DOMAIN jack_connections :
                 jack_connections[i][1] = p /\ i >= k
      BY <1>a, <1>9, <2>2 DEF DisconnectRoute
    <2>4. i >= k + 1
      BY <2>2, <2>3 DEF TypeOK
    <2>5. QED
      BY <1>a, <1>9, <2>1, <2>2, <2>3, <2>4 DEF DisconnectRoute
  <1>10. CASE RoutesDisconnected
    <2>1. ~ \E i \in DOMAIN jack_connections : i >= k
      BY <1>10 DEF RoutesDisconnected, TypeOK
    <2>2. QED
      BY <1>a, <1>10, <2>1 DEF RoutesDisconnected
  <1>11. CASE UNCHANGED vars
    BY <1>a, <1>11 DEF vars
  <1>12. QED
    BY <1>1, <1>2, <1>3, <1>4, <1>5, <1>6, <1>7, <1>8, <1>9, <1>10, <1>11
       DEF Next

-----------------------------------------------------------------------------
(* A period.                                                               *)

LEMMA InitCycleInv == Init => CycleInv
  BY DEF Init, CycleInv, Building, Processing

\* What is known of a port while routes are connected or disconnected, and what
\* the end of each part of a period establishes.
LEMMA NextCycleInv == TypeOK /\ CycleInv /\ [Next]_vars => CycleInv'
  <1> SUFFICES ASSUME TypeOK, CycleInv, [Next]_vars PROVE CycleInv'
    OBVIOUS
  <1> USE DEF chain, Building, Processing, Failed
  <1>1. ASSUME NEW how \in Failed, phase' = how PROVE CycleInv'
    BY <1>1 DEF CycleInv
  <1>2. CASE AddEffect
    BY <1>1, <1>2 DEF AddEffect, Fail, CycleInv
  <1>3. CASE EffectsAdded \/ AddRoutes \/ WiresMade \/ Activate
    BY <1>3 DEF EffectsAdded, AddRoutes, WiresMade, Activate, CycleInv
  <1>4. ASSUME NEW src \in unwired, MakeWires(src) PROVE CycleInv'
    BY <1>1, <1>4 DEF MakeWires, Fail, CycleInv
  <1>5. CASE Period
    <2>1. /\ phase' = "connect" /\ k' = 1 /\ period' >= 1
          /\ UNCHANGED <<jack_connections, run_list>>
      BY <1>5 DEF Period, TypeOK
    <2>2. \A i \in DOMAIN jack_connections' : ~ i < k'
      BY <2>1 DEF TypeOK
    <2>3. QED
      BY <2>1, <2>2 DEF CycleInv
  <1>6. CASE ConnectRoute
    <2> DEFINE name == jack_connections[k][1]
               b    == <<jack_connections[k][2], period>>
    <2>1. CASE Known(name)
      <3>1. /\ ConnectAll({name}, b)
            /\ k' = k + 1
            /\ UNCHANGED <<phase, jack_connections, run_list, period>>
            /\ phase = "connect"
        BY <1>6, <2>1 DEF ConnectRoute
      <3>2. name \in AudioPort /\ k \in DOMAIN jack_connections
        BY <1>6, <2>1 DEF Known, ConnectRoute, TypeOK
      <3>3. b # NULL
        BY <3>2, DspAssumption DEF TypeOK
      <3>4. \A p \in AudioPort : buffer'[p] = IF p = name THEN b ELSE buffer[p]
        BY <3>1 DEF ConnectAll
      <3>5. \A n : Known(n) => Known(n)' /\ n \in AudioPort
        BY <3>1 DEF Known
      <3>6. ASSUME NEW i \in DOMAIN jack_connections, i < k + 1
            PROVE  /\ Known(jack_connections[i][1])'
                   /\ buffer'[jack_connections[i][1]] # NULL
        <4>1. CASE i = k
          BY <2>1, <3>1, <3>3, <3>4, <3>5, <4>1
        <4>2. CASE i < k
          <5>1. /\ Known(jack_connections[i][1])
                /\ buffer[jack_connections[i][1]] # NULL
            BY <3>1, <4>2 DEF CycleInv
          <5>2. QED
            BY <3>1, <3>3, <3>4, <3>5, <5>1
        <4>3. QED
          BY <3>6, <4>1, <4>2 DEF TypeOK
      <3>7. QED
        BY <3>1, <3>6 DEF CycleInv
    <2>2. CASE ~ Known(name)
      BY <1>1, <1>6, <2>2 DEF ConnectRoute, Fail
    <2>3. QED
      BY <2>1, <2>2
  <1>7. CASE RoutesConnected
    <2>1. /\ phase = "connect" /\ phase' = "run" /\ k' = 1
          /\ UNCHANGED <<jack_connections, run_list, buffer, period>>
      BY <1>7 DEF RoutesConnected
    <2>2. \A i \in DOMAIN jack_connections : i < k
      BY <1>7 DEF RoutesConnected, TypeOK
    <2>3. \A j \in DOMAIN run_list : ~ j < k'
      BY <2>1 DEF TypeOK
    <2>4. QED
      BY <2>1, <2>2, <2>3 DEF CycleInv, Known
  <1>8. CASE RunEffect
    <2>1. CASE \A p \in PortsOf(run_list[k]) : buffer[p] # NULL
      <3>1. /\ phase = "run" /\ k' = k + 1
            /\ UNCHANGED <<phase, jack_connections, run_list, buffer, period>>
        BY <1>8, <2>1 DEF RunEffect
      <3>2. \A j \in DOMAIN run_list :
              j < k + 1 => \A p \in PortsOf(run_list[j]) : buffer[p] # NULL
        <4>1. \A j \in DOMAIN run_list : j < k + 1 => j < k \/ j = k
          BY DEF TypeOK
        <4>2. QED
          BY <2>1, <3>1, <4>1 DEF CycleInv
      <3>3. QED
        BY <3>1, <3>2 DEF CycleInv, Known, PortsOf
    <2>2. CASE ~ \A p \in PortsOf(run_list[k]) : buffer[p] # NULL
      BY <1>1, <1>8, <2>2 DEF RunEffect, Fail
    <2>3. QED
      BY <2>1, <2>2
  <1>9. CASE EffectsRun \/ DisconnectRoute \/ RoutesDisconnected
    BY <1>9 DEF EffectsRun, DisconnectRoute, RoutesDisconnected, CycleInv
  <1>10. CASE UNCHANGED vars
    BY <1>10 DEF vars, CycleInv, Known, PortsOf
  <1>11. QED
    BY <1>2, <1>3, <1>4, <1>5, <1>6, <1>7, <1>8, <1>9, <1>10 DEF Next

-----------------------------------------------------------------------------
\* The invariant behind the theorems below holds in every reachable state.
THEOREM Inductive == Spec => []IInv
  <1>1. Init => IInv
    BY InitTypeOK, InitLentInv, InitCycleInv DEF IInv
  <1>2. IInv /\ [Next]_vars => IInv'
    BY NextTypeOK, NextLentInv, NextCycleInv DEF IInv
  <1>3. QED
    BY <1>1, <1>2, PTL DEF Spec

\* The variables of a chain keep their types and no effect is in a chain twice,
\* for any effects and config files (src/audio.cxx:144-200, 278-300).
THEOREM TypeCorrect == Spec => []TypeOK
  <1>1. IInv => TypeOK
    BY DEF IInv
  <1>2. QED
    BY <1>1, Inductive, PTL

\* No plug-in is left holding, or run on, a buffer of JACK of another period,
\* for any routes and any number of them (src/audio.cxx:293-299).
THEOREM BuffersReturned == Spec => []NoStaleBuffer
  <1>1. IInv => NoStaleBuffer
    BY DEF IInv, LentInv, NoStaleBuffer
  <1>2. QED
    BY <1>1, Inductive, PTL

-----------------------------------------------------------------------------
(* What a well-wired config becomes.                                       *)

\* The chain is built from the config as it is written there, and all of it.
BuiltInv ==
  /\ Len(run_list) <= Len(config.effects)
  /\ \A i \in DOMAIN run_list : run_list[i] = config.effects[i]
  /\ phase \notin {"effects"} \union Failed => Len(run_list) = Len(config.effects)
  /\ phase \in {"effects", "routes"} =>
       jack_connections = <<>> /\ unwired = Sources(config)
  /\ phase \notin {"effects", "routes"} \union Failed =>
       jack_connections = config.routes
  /\ phase \notin {"effects", "routes", "wires"} \union Failed => unwired = {}
  /\ unwired \subseteq Sources(config)
  /\ \A p \in ChainPort : port_is_connected[p]

\* Both ends of a wire that is made hold its buffer, for good.
WiredInv ==
  WellWired(config) /\ phase \notin {"effects", "routes"} =>
    \A w \in config.wires :
      w[1] \notin unwired => buffer[w[1]] = Wire(w[1]) /\ buffer[w[2]] = Wire(w[1])

\* The routes that connecting has got to hold JACK's buffers of this period.
RoutedInv ==
  WellWired(config) =>
    \A i \in DOMAIN config.routes :
      phase = "run" \/ (phase = "connect" /\ i < k) =>
        buffer[config.routes[i][1]] = <<config.routes[i][2], period>>

\* JACK's inputs stay as they are while the effects run, and each effect that has
\* run has left what it should hear in all its outputs.
MemoryInv ==
  WellWired(config) =>
    /\ phase \in {"connect", "run"} =>
         \A i \in DOMAIN config.routes :
           config.routes[i][2] \in JackIn =>
             memory[config.routes[i][2]] = {<<config.routes[i][2], period>>}
    /\ phase = "run" =>
         \A p \in OutPort, i \in DOMAIN run_list :
           run_list[i] = Owner[p] /\ i < k => memory[buffer[p][1]] = Heard(Owner[p])
    /\ phase = "disconnect" =>
         \A i \in DOMAIN config.routes :
           config.routes[i][2] \in JackOut =>
             memory[config.routes[i][2]] = Heard(Owner[config.routes[i][1]])

\* What it means for a config to be well wired, port by port.
LEMMA WellWiredFacts ==
  ASSUME config \in Configs, WellWired(config)
  PROVE  /\ \A i, j \in DOMAIN config.effects :
              config.effects[i] = config.effects[j] => i = j
         /\ Elements(config.effects) = Effect
         /\ \A w \in config.wires :
              /\ w[1] \in OutPort /\ w[2] \in InPort
              /\ \A i, j \in DOMAIN config.effects :
                   config.effects[i] = Owner[w[1]] /\ config.effects[j] = Owner[w[2]]
                     => i < j
         /\ \A i \in DOMAIN config.routes :
              /\ config.routes[i][2] \in JackIn => config.routes[i][1] \in InPort
              /\ config.routes[i][2] \in JackOut => config.routes[i][1] \in OutPort
         /\ \A i, j \in DOMAIN config.routes :
              config.routes[i][1] = config.routes[j][1]
                \/ config.routes[i][2] = config.routes[j][2] => i = j
         /\ \A w \in config.wires, i \in DOMAIN config.routes :
              config.routes[i][1] \notin {w[1], w[2]}
         /\ \A v, w \in config.wires : v[2] = w[2] => v = w
         /\ \A p \in AudioPort :
              \/ \E i \in DOMAIN config.routes : config.routes[i][1] = p
              \/ \E w \in config.wires : p = IF p \in InPort THEN w[2] ELSE w[1]
  <1> DEFINE Place(p)    == CHOOSE i \in DOMAIN config.effects : config.effects[i] = Owner[p]
             RoutesOf(p) == {i \in DOMAIN config.routes : config.routes[i][1] = p}
             WiresTo(p)  == {w \in config.wires : w[2] = p}
  <1>1. /\ \A i, j \in DOMAIN config.effects :
             config.effects[i] = config.effects[j] => i = j
        /\ Elements(config.effects) = Effect
        /\ \A w \in config.wires : w \in OutPort \X InPort /\ Place(w[1]) < Place(w[2])
        /\ \A i \in {i \in DOMAIN config.routes : config.routes[i][2] \in JackIn} :
             config.routes[i][1] \in InPort
        /\ \A i \in {i \in DOMAIN config.routes : config.routes[i][2] \in JackOut} :
             config.routes[i][1] \in OutPort
        /\ \A i, j \in DOMAIN config.routes :
             config.routes[i][1] = config.routes[j][1]
               \/ config.routes[i][2] = config.routes[j][2] => i = j
        /\ \A p \in InPort :
             \/ RoutesOf(p) = {} /\ \E w \in config.wires : WiresTo(p) = {w}
             \/ RoutesOf(p) # {} /\ WiresTo(p) = {}
        /\ \A p \in OutPort : RoutesOf(p) = {} <=> p \in Sources(config)
    BY DEF WellWired
  <1>2. ASSUME NEW p, NEW i \in DOMAIN config.effects, config.effects[i] = Owner[p]
        PROVE  Place(p) = i
    BY <1>1, <1>2
  <1>3. ASSUME NEW w \in config.wires PROVE w[1] \in OutPort /\ w[2] \in InPort
    BY <1>1
  <1>4. ASSUME NEW w \in config.wires,
               NEW i \in DOMAIN config.effects, NEW j \in DOMAIN config.effects,
               config.effects[i] = Owner[w[1]], config.effects[j] = Owner[w[2]]
        PROVE  i < j
    <2>1. Place(w[1]) = i /\ Place(w[2]) = j
      BY <1>2, <1>4
    <2> HIDE DEF Place
    <2>2. QED
      BY <1>1, <2>1
  <1>5. ASSUME NEW p, NEW i \in DOMAIN config.routes, config.routes[i][1] = p
        PROVE  RoutesOf(p) # {}
    BY <1>5
  <1>6. ASSUME NEW w \in config.wires, NEW i \in DOMAIN config.routes
        PROVE  config.routes[i][1] \notin {w[1], w[2]}
    <2>1. w[1] \in Sources(config) /\ w \in WiresTo(w[2])
      BY DEF Sources
    <2> HIDE DEF RoutesOf, WiresTo
    <2>2. RoutesOf(w[1]) = {} /\ RoutesOf(w[2]) = {}
      BY <1>1, <1>3, <2>1
    <2>3. QED
      BY <1>5, <2>2
  <1>7. ASSUME NEW v \in config.wires, NEW w \in config.wires, v[2] = w[2]
        PROVE  v = w
    <2>1. v \in WiresTo(w[2]) /\ w \in WiresTo(w[2])
      BY <1>7
    <2> HIDE DEF RoutesOf, WiresTo
    <2>2. PICK u \in config.wires : WiresTo(w[2]) = {u}
      BY <1>1, <1>3, <2>1
    <2>3. QED
      BY <2>1, <2>2
  <1>8. ASSUME NEW p \in AudioPort, RoutesOf(p) = {}
        PROVE  \E w \in config.wires : p = IF p \in InPort THEN w[2] ELSE w[1]
    <2>1. CASE p \in InPort
      <3>1. PICK w \in config.wires : WiresTo(p) = {w}
        BY <1>1, <1>8, <2>1
      <3>2. w[2] = p
        BY <3>1
      <3>3. QED
        BY <2>1, <3>2
    <2>2. CASE p \notin InPort
      <3>1. p \in Sources(config)
        BY <1>1, <1>8, <2>2 DEF AudioPort
      <3>2. QED
        BY <2>2, <3>1 DEF Sources
    <2>3. QED
      BY <2>1, <2>2
  <1>9. ASSUME NEW p \in AudioPort, RoutesOf(p) # {}
        PROVE  \E i \in DOMAIN config.routes : config.routes[i][1] = p
    BY <1>9
  <1>10. \A i \in DOMAIN config.routes :
           /\ config.routes[i][2] \in JackIn => config.routes[i][1] \in InPort
           /\ config.routes[i][2] \in JackOut => config.routes[i][1] \in OutPort
    BY <1>1
  <1> HIDE DEF Place, RoutesOf, WiresTo
  <1>11. \A p \in AudioPort :
           \/ \E i \in DOMAIN config.routes : config.routes[i][1] = p
           \/ \E w \in config.wires : p = IF p \in InPort THEN w[2] ELSE w[1]
    BY <1>8, <1>9
  <1>12. QED
    BY <1>1, <1>3, <1>4, <1>6, <1>7, <1>10, <1>11

\* An effect leads to itself and to whatever the wires of those effects end at that
\* it leads to.
LEMMA LeadsStep ==
  ASSUME NEW c, NEW e \in Effect, NEW f \in Effect,
         \A w \in c.wires : Owner[w[1]] \in Effect /\ Owner[w[2]] \in Effect
  PROVE  Leads(c, e, f) <=>
           e = f \/ \E w \in c.wires : Owner[w[2]] = f /\ Leads(c, e, Owner[w[1]])
  <1> DEFINE Closed(S) == \A w \in c.wires : Owner[w[1]] \in S => Owner[w[2]] \in S
             T == {g \in Effect :
                     e = g \/ \E w \in c.wires : Owner[w[2]] = g /\ Leads(c, e, Owner[w[1]])}
  <1>1. ASSUME NEW w \in c.wires, Leads(c, e, Owner[w[1]]) PROVE Leads(c, e, Owner[w[2]])
    <2>1. SUFFICES ASSUME NEW S \in SUBSET Effect, e \in S, Closed(S)
                   PROVE  Owner[w[2]] \in S
      BY DEF Leads
    <2>2. Owner[w[1]] \in S
      BY <1>1, <2>1 DEF Leads
    <2>3. QED
      BY <2>1, <2>2
  <1>2. Leads(c, e, e)
    BY DEF Leads
  <1>3. Closed(T) /\ e \in T /\ T \in SUBSET Effect
    <2>1. ASSUME NEW w \in c.wires, Owner[w[1]] \in T PROVE Owner[w[2]] \in T
      <3>1. Leads(c, e, Owner[w[1]])
        BY <1>1, <1>2, <2>1
      <3>2. QED
        BY <3>1
    <2>2. QED
      BY <2>1
  <1>4. ASSUME Leads(c, e, f) PROVE f \in T
    <2> HIDE DEF T
    <2>1. QED
      BY <1>3, <1>4 DEF Leads
  <1>5. QED
    BY <1>1, <1>2, <1>4

LEMMA InitWInv == Init => BuiltInv /\ WiredInv /\ RoutedInv /\ MemoryInv /\ WellWiredRuns
  <1> SUFFICES ASSUME Init
               PROVE  BuiltInv /\ WiredInv /\ RoutedInv /\ MemoryInv /\ WellWiredRuns
    OBVIOUS
  <1>1. config.effects \in Seq(Effect)
    BY ConfigType DEF Init
  <1>2. ChainPort = {}
    BY DEF Init, ChainPort, Elements
  <1>3. BuiltInv
    BY <1>1, <1>2 DEF Init, BuiltInv, Failed, Sources
  <1>4. QED
    BY <1>3 DEF Init, WiredInv, RoutedInv, MemoryInv, WellWiredRuns, Failed

\* Whatever is connected, the list of effects and the flags grow together.
LEMMA NextBuiltInv == TypeOK /\ BuiltInv /\ [Next]_vars => BuiltInv'
  <1> SUFFICES ASSUME TypeOK, BuiltInv, [Next]_vars PROVE BuiltInv'
    OBVIOUS
  <1> USE DEF chain, Failed
  <1>0. config.effects \in Seq(Effect) /\ config.routes \in Seq(PortName \X JackPort)
    BY ConfigType DEF TypeOK
  <1>1. ASSUME NEW how \in Failed, phase' = how,
               UNCHANGED <<config, chain, port_is_connected>>
        PROVE  BuiltInv'
    BY <1>1 DEF BuiltInv, ChainPort, Elements, Sources
  <1>2. ASSUME NEW P, NEW b, ConnectAll(P, b), UNCHANGED run_list
        PROVE  \A p \in ChainPort' : port_is_connected'[p]
    BY <1>2 DEF BuiltInv, ConnectAll, ChainPort, Elements, TypeOK
  <1>3. CASE AddEffect
    <2> DEFINE e == config.effects[Len(run_list) + 1]
    <2>1. CASE e \in Elements(run_list)
      BY <1>1, <1>3, <2>1 DEF AddEffect, Fail
    <2>2. CASE e \notin Elements(run_list)
      <3>1. /\ phase = "effects" /\ Len(run_list) < Len(config.effects)
            /\ run_list' = Append(run_list, e)
            /\ ConnectAll(PortsOf(e), NULL)
            /\ UNCHANGED <<config, phase, jack_connections, unwired, memory, period, k>>
        BY <1>3, <2>2 DEF AddEffect, DisconnectAll
      <3>2. /\ Len(run_list') = Len(run_list) + 1
            /\ DOMAIN run_list' = 1 .. Len(run_list) + 1
            /\ \A i \in 1 .. Len(run_list) : run_list'[i] = run_list[i]
            /\ run_list'[Len(run_list) + 1] = e
            /\ DOMAIN run_list = 1 .. Len(run_list)
            /\ Len(run_list) \in Nat
        BY <3>1 DEF TypeOK
      <3>3. Len(run_list') <= Len(config'.effects)
        BY <1>0, <3>1, <3>2
      <3>4. \A i \in DOMAIN run_list' : run_list'[i] = config'.effects[i]
        BY <3>1, <3>2 DEF BuiltInv, Sources
      <3>5. Elements(run_list') = Elements(run_list) \union {e}
        BY <3>2 DEF Elements
      <3>6. \A p \in ChainPort' : p \in ChainPort \/ p \in PortsOf(e)
        BY <3>5 DEF ChainPort, PortsOf
      <3>7. \A p \in ChainPort' : port_is_connected'[p]
        BY <3>1, <3>6 DEF BuiltInv, ConnectAll, ChainPort, TypeOK
      <3>8. QED
        BY <3>1, <3>3, <3>4, <3>7 DEF BuiltInv, Sources
    <2>3. QED
      BY <2>1, <2>2
  <1>4. CASE EffectsAdded
    BY <1>0, <1>4 DEF EffectsAdded, BuiltInv, ChainPort, Elements, Sources
  <1>5. CASE AddRoutes
    BY <1>5 DEF AddRoutes, BuiltInv, ChainPort, Elements, Sources
  <1>6. ASSUME NEW src \in unwired, MakeWires(src) PROVE BuiltInv'
    <2> DEFINE ends == {src} \union Destinations(config, src)
    <2>1. CASE \A n \in ends : Known(n)
      <3>1. /\ ConnectAll(ends, Wire(src))
            /\ phase = "wires" /\ UNCHANGED <<config, phase, run_list, jack_connections>>
            /\ unwired' \subseteq unwired
        BY <1>6, <2>1 DEF MakeWires
      <3>2. \A p \in ChainPort' : port_is_connected'[p]
        BY <1>2, <3>1
      <3>3. QED
        BY <3>1, <3>2 DEF BuiltInv, Sources
    <2>2. CASE ~ \A n \in ends : Known(n)
      BY <1>1, <1>6, <2>2 DEF MakeWires, Fail
    <2>3. QED
      BY <2>1, <2>2
  <1>7. CASE WiresMade \/ Activate
    BY <1>7 DEF WiresMade, Activate, BuiltInv, ChainPort, Elements, Sources
  <1>8. CASE Period \/ RoutesConnected \/ EffectsRun \/ RoutesDisconnected
    BY <1>8 DEF Period, RoutesConnected, EffectsRun, RoutesDisconnected, BuiltInv,
                ChainPort, Elements, Sources
  <1>9. CASE ConnectRoute
    <2> DEFINE name == jack_connections[k][1]
    <2>1. CASE Known(name)
      <3>1. /\ ConnectAll({name}, <<jack_connections[k][2], period>>)
            /\ UNCHANGED <<config, phase, chain>> /\ phase = "connect"
        BY <1>9, <2>1 DEF ConnectRoute
      <3>2. \A p \in ChainPort' : port_is_connected'[p]
        BY <1>2, <3>1
      <3>3. QED
        BY <3>1, <3>2 DEF BuiltInv, Sources
    <2>2. CASE ~ Known(name)
      BY <1>1, <1>9, <2>2 DEF ConnectRoute, Fail
    <2>3. QED
      BY <2>1, <2>2
  <1>10. CASE RunEffect
    <2>1. CASE phase' = "undefined"
      BY <1>1, <1>10, <2>1 DEF RunEffect, Fail
    <2>2. CASE phase' # "undefined"
      <3>1. UNCHANGED <<config, phase, chain, port_is_connected>>
        BY <1>10, <2>2 DEF RunEffect, Fail
      <3>2. QED
        BY <3>1 DEF BuiltInv, ChainPort, Elements, Sources
    <2>3. QED
      BY <2>1, <2>2
  <1>11. CASE DisconnectRoute
    <2>1. /\ ConnectAll({jack_connections[k][1]}, NULL)
          /\ UNCHANGED <<config, phase, chain>>
      BY <1>11 DEF DisconnectRoute, DisconnectAll
    <2>2. \A p \in ChainPort' : port_is_connected'[p]
      BY <1>2, <2>1
    <2>3. QED
      BY <2>1, <2>2 DEF BuiltInv, Sources
  <1>12. CASE UNCHANGED vars
    BY <1>12 DEF vars, BuiltInv, ChainPort, Elements, Sources
  <1>13. QED
    BY <1>3, <1>4, <1>5, <1>6, <1>7, <1>8, <1>9, <1>10, <1>11, <1>12 DEF Next

\* In a well-wired config, what a wire connects is not routed, and the other way
\* round; the whole chain is known when the wires are made.
LEMMA AllKnown ==
  ASSUME TypeOK, BuiltInv, WellWired(config), phase \notin {"effects"} \union Failed
  PROVE  \A p \in AudioPort : Known(p)
  <1>1. config.effects \in Seq(Effect) /\ Len(run_list) = Len(config.effects)
    BY ConfigType DEF TypeOK, BuiltInv
  <1>2. DOMAIN run_list = DOMAIN config.effects
    BY <1>1 DEF TypeOK
  <1>3. Elements(config.effects) = Effect
    BY WellWiredFacts DEF TypeOK
  <1>4. Elements(run_list) = Effect
    BY <1>2, <1>3 DEF BuiltInv, Elements
  <1>5. QED
    BY <1>4, DspAssumption DEF Known

\* Making a wire connects its two ends; only routes and new effects are
\* connected otherwise.
LEMMA NextWiredInv ==
  TypeOK /\ BuiltInv /\ WiredInv /\ [Next]_vars => WiredInv'
  <1> SUFFICES ASSUME TypeOK, BuiltInv, WiredInv, [Next]_vars,
                      WellWired(config'), phase' \notin {"effects", "routes"},
                      NEW w \in config'.wires, w[1] \notin unwired'
               PROVE  buffer'[w[1]] = Wire(w[1]) /\ buffer'[w[2]] = Wire(w[1])
    BY DEF WiredInv, Wire
  <1> DEFINE Goal == buffer'[w[1]] = Wire(w[1]) /\ buffer'[w[2]] = Wire(w[1])
  <1> USE DEF chain, Failed
  <1>1. config' = config
    BY DEF Next, vars, AddEffect, EffectsAdded, AddRoutes, MakeWires, WiresMade,
           Activate, Period, ConnectRoute, RoutesConnected, RunEffect, EffectsRun,
           DisconnectRoute, RoutesDisconnected, Fail
  <1>2. w \in config.wires /\ WellWired(config) /\ w[1] \in Sources(config)
    BY <1>1 DEF Sources
  <1>3. w[1] \in AudioPort /\ w[2] \in AudioPort
    BY <1>2, WellWiredFacts DEF TypeOK, AudioPort
  <1>4. ASSUME phase \notin {"effects", "routes"}, w[1] \notin unwired,
               UNCHANGED buffer
        PROVE  Goal
    BY <1>2, <1>4 DEF WiredInv
  <1>5. ASSUME NEW i \in DOMAIN config.routes, NEW b,
               ConnectAll({config.routes[i][1]}, b),
               phase \notin {"effects", "routes"}, w[1] \notin unwired
        PROVE  Goal
    <2>1. w[1] # config.routes[i][1] /\ w[2] # config.routes[i][1]
      BY <1>2, WellWiredFacts DEF TypeOK
    <2>2. buffer'[w[1]] = buffer[w[1]] /\ buffer'[w[2]] = buffer[w[2]]
      BY <1>3, <1>5, <2>1 DEF ConnectAll
    <2>3. QED
      BY <1>2, <1>5, <2>2 DEF WiredInv
  <1>6. CASE AddEffect
    BY <1>1, <1>2, <1>6 DEF AddEffect, Fail, BuiltInv
  <1>7. CASE EffectsAdded \/ AddRoutes
    BY <1>1, <1>2, <1>7 DEF EffectsAdded, AddRoutes, BuiltInv
  <1>8. ASSUME NEW src \in unwired, MakeWires(src) PROVE Goal
    <2> DEFINE ends == {src} \union Destinations(config, src)
    <2>1. CASE \A n \in ends : Known(n)
      <3>1. ConnectAll(ends, Wire(src)) /\ phase = "wires" /\ unwired' = unwired \ {src}
        BY <1>8, <2>1 DEF MakeWires
      <3>2. CASE w[1] = src
        <4>1. w[1] \in ends /\ w[2] \in ends
          BY <1>2, <3>2 DEF Destinations
        <4>2. QED
          BY <1>3, <3>1, <3>2, <4>1 DEF ConnectAll
      <3>3. CASE w[1] # src
        <4>1. w[1] \notin ends /\ w[2] \notin ends
          <5>1. \A v \in config.wires : v[1] \in OutPort /\ v[2] \in InPort
            BY <1>2, WellWiredFacts DEF TypeOK
          <5>2. \A v \in config.wires : v[2] = w[2] => v = w
            BY <1>2, WellWiredFacts DEF TypeOK
          <5>3. src \in OutPort
            <6>1. src \in Sources(config)
              BY DEF BuiltInv
            <6>2. QED
              BY <5>1, <6>1 DEF Sources
          <5>4. w[1] \notin Destinations(config, src) /\ w[2] # src
            BY <1>2, <5>1, <5>3, DspAssumption DEF Destinations
          <5>5. w[2] \notin Destinations(config, src)
            BY <5>2, <3>3 DEF Destinations
          <5>6. QED
            BY <3>3, <5>4, <5>5
        <4>2. buffer'[w[1]] = buffer[w[1]] /\ buffer'[w[2]] = buffer[w[2]]
          BY <1>3, <3>1, <4>1 DEF ConnectAll
        <4>3. QED
          BY <1>2, <3>1, <3>3, <4>2 DEF WiredInv
      <3>4. QED
        BY <3>2, <3>3
    <2>2. CASE ~ \A n \in ends : Known(n)
      BY <1>4, <1>8, <2>2 DEF MakeWires, Fail
    <2>3. QED
      BY <2>1, <2>2
  <1>9. CASE WiresMade \/ Activate \/ Period \/ RoutesConnected \/ EffectsRun
             \/ RoutesDisconnected
    BY <1>4, <1>9 DEF WiresMade, Activate, Period, RoutesConnected, EffectsRun,
                      RoutesDisconnected
  <1>10. CASE ConnectRoute
    <2> DEFINE name == jack_connections[k][1]
    <2>1. phase = "connect" /\ k <= Len(jack_connections) /\ unwired' = unwired
      BY <1>10 DEF ConnectRoute, Fail
    <2>2. CASE Known(name)
      <3>1. jack_connections = config.routes /\ k \in DOMAIN config.routes
        BY <2>1 DEF BuiltInv, TypeOK
      <3>2. ConnectAll({name}, <<jack_connections[k][2], period>>)
        BY <1>10, <2>2 DEF ConnectRoute
      <3>3. QED
        BY <1>5, <2>1, <3>1, <3>2
    <2>3. CASE ~ Known(name)
      BY <1>4, <1>10, <2>1, <2>3 DEF ConnectRoute, Fail
    <2>4. QED
      BY <2>2, <2>3
  <1>11. CASE RunEffect
    BY <1>4, <1>11 DEF RunEffect, Fail
  <1>12. CASE DisconnectRoute
    <2>1. phase = "disconnect" /\ k <= Len(jack_connections) /\ unwired' = unwired
          /\ ConnectAll({jack_connections[k][1]}, NULL)
      BY <1>12 DEF DisconnectRoute, DisconnectAll
    <2>2. jack_connections = config.routes /\ k \in DOMAIN config.routes
      BY <2>1 DEF BuiltInv, TypeOK
    <2>3. QED
      BY <1>5, <2>1, <2>2
  <1>13. CASE UNCHANGED vars
    BY <1>4, <1>13 DEF vars
  <1>14. QED
    BY <1>6, <1>7, <1>8, <1>9, <1>10, <1>11, <1>12, <1>13 DEF Next

\* Each route is connected to its own JACK port, and nothing takes it away before
\* the effects have run.
LEMMA NextRoutedInv ==
  TypeOK /\ CycleInv /\ BuiltInv /\ RoutedInv /\ [Next]_vars => RoutedInv'
  <1> SUFFICES ASSUME TypeOK, CycleInv, BuiltInv, RoutedInv, [Next]_vars,
                      WellWired(config'), NEW i \in DOMAIN config'.routes,
                      phase' = "run" \/ (phase' = "connect" /\ i < k')
               PROVE  buffer'[config'.routes[i][1]] = <<config'.routes[i][2], period'>>
    BY DEF RoutedInv
  <1> USE DEF chain, Building, Failed
  <1>1. config' = config
    BY DEF Next, vars, AddEffect, EffectsAdded, AddRoutes, MakeWires, WiresMade,
           Activate, Period, ConnectRoute, RoutesConnected, RunEffect, EffectsRun,
           DisconnectRoute, RoutesDisconnected, Fail
  <1>2. i \in DOMAIN config.routes /\ WellWired(config) /\ i \in Nat \ {0}
    BY <1>1, ConfigType DEF TypeOK
  <1>3. CASE AddEffect \/ EffectsAdded \/ AddRoutes \/ (\E src \in unwired : MakeWires(src))
             \/ WiresMade \/ Activate
    BY <1>3 DEF AddEffect, EffectsAdded, AddRoutes, MakeWires, WiresMade, Activate, Fail
  <1>4. CASE Period
    BY <1>2, <1>4 DEF Period
  <1>5. CASE ConnectRoute
    <2> DEFINE name == jack_connections[k][1]
    <2>1. /\ phase = "connect" /\ Known(name) /\ jack_connections = config.routes
          /\ k \in DOMAIN config.routes /\ k' = k + 1 /\ UNCHANGED <<phase, period>>
          /\ ConnectAll({name}, <<jack_connections[k][2], period>>)
      BY <1>5 DEF ConnectRoute, Fail, BuiltInv, TypeOK
    <2>2. CASE i = k
      BY <1>1, <2>1, <2>2 DEF ConnectAll, Known
    <2>3. CASE i # k
      <3>1. i < k
        BY <1>2, <2>1, <2>3 DEF TypeOK
      <3>2. config.routes[i][1] # name
        BY <1>2, <2>1, <2>3, WellWiredFacts DEF TypeOK
      <3>3. buffer[config.routes[i][1]] = <<config.routes[i][2], period>>
        BY <1>2, <2>1, <3>1 DEF RoutedInv
      <3>4. config.routes[i][1] \in AudioPort
        BY <1>2, <2>1, <3>1 DEF CycleInv, Known
      <3>5. QED
        BY <1>1, <2>1, <3>2, <3>3, <3>4 DEF ConnectAll
    <2>4. QED
      BY <2>2, <2>3
  <1>6. CASE RoutesConnected
    <2>1. jack_connections = config.routes /\ i < k /\ phase = "connect"
      BY <1>2, <1>6 DEF RoutesConnected, BuiltInv, TypeOK
    <2>2. QED
      BY <1>1, <1>2, <1>6, <2>1 DEF RoutesConnected, RoutedInv
  <1>7. CASE RunEffect
    BY <1>1, <1>2, <1>7 DEF RunEffect, Fail, RoutedInv
  <1>8. CASE EffectsRun \/ DisconnectRoute \/ RoutesDisconnected
    BY <1>8 DEF EffectsRun, DisconnectRoute, RoutesDisconnected
  <1>9. CASE UNCHANGED vars
    BY <1>1, <1>2, <1>9 DEF vars, RoutedInv
  <1>10. QED
    BY <1>3, <1>4, <1>5, <1>6, <1>7, <1>8, <1>9 DEF Next

\* While the effects run each port holds what its route or its wire gives it.
LEMMA Held ==
  ASSUME TypeOK, BuiltInv, WiredInv, RoutedInv, WellWired(config), phase = "run",
         NEW p \in AudioPort
  PROVE  \/ \E i \in DOMAIN config.routes :
              config.routes[i][1] = p /\ buffer[p] = <<config.routes[i][2], period>>
         \/ \E w \in config.wires :
              p = (IF p \in InPort THEN w[2] ELSE w[1]) /\ buffer[p] = Wire(w[1])
  <1>1. CASE \E i \in DOMAIN config.routes : config.routes[i][1] = p
    BY <1>1 DEF RoutedInv
  <1>2. CASE \E w \in config.wires : p = IF p \in InPort THEN w[2] ELSE w[1]
    <2>1. PICK w \in config.wires : p = IF p \in InPort THEN w[2] ELSE w[1]
      BY <1>2
    <2>2. unwired = {}
      BY DEF BuiltInv, Failed
    <2>3. buffer[w[1]] = Wire(w[1]) /\ buffer[w[2]] = Wire(w[1])
      BY <2>2 DEF WiredInv
    <2>4. QED
      BY <2>1, <2>3
  <1>3. QED
    BY <1>1, <1>2, WellWiredFacts DEF TypeOK

\* The ends of the wires and of the routes are ports of effects.
LEMMA EndsAreAudioPorts ==
  ASSUME config \in Configs, WellWired(config)
  PROVE  /\ \A w \in config.wires : w[1] \in AudioPort /\ w[2] \in AudioPort
         /\ \A i \in DOMAIN config.routes : config.routes[i][1] \in AudioPort
  <1>1. \A i \in DOMAIN config.routes : config.routes[i][2] \in JackPort
    BY ConfigType
  <1>2. QED
    BY <1>1, WellWiredFacts DEF AudioPort, JackPort

LEMMA NextWellWiredRuns ==
  TypeOK /\ BuiltInv /\ WiredInv /\ RoutedInv /\ WellWiredRuns /\ [Next]_vars
    => WellWiredRuns'
  <1> SUFFICES ASSUME TypeOK, BuiltInv, WiredInv, RoutedInv, WellWiredRuns, [Next]_vars,
                      WellWired(config')
               PROVE  phase' \notin Failed
    BY DEF WellWiredRuns
  <1> USE DEF chain
  <1>1. config' = config
    BY DEF Next, vars, AddEffect, EffectsAdded, AddRoutes, MakeWires, WiresMade,
           Activate, Period, ConnectRoute, RoutesConnected, RunEffect, EffectsRun,
           DisconnectRoute, RoutesDisconnected, Fail
  <1>2. WellWired(config) /\ phase \notin Failed /\ config \in Configs
    BY <1>1 DEF WellWiredRuns, TypeOK
  <1>3. CASE AddEffect
    <2> DEFINE e == config.effects[Len(run_list) + 1]
    <2>1. phase = "effects" /\ Len(run_list) < Len(config.effects)
      BY <1>3 DEF AddEffect
    <2>2. e \notin Elements(run_list)
      <3>1. SUFFICES ASSUME NEW i \in DOMAIN run_list, run_list[i] = e PROVE FALSE
        BY DEF Elements
      <3>2. config.effects \in Seq(Effect)
        BY <1>2, ConfigType
      <3>3. /\ i \in DOMAIN config.effects /\ Len(run_list) + 1 \in DOMAIN config.effects
            /\ i < Len(run_list) + 1
        BY <2>1, <3>2 DEF TypeOK
      <3>4. config.effects[i] = config.effects[Len(run_list) + 1]
        BY <3>1 DEF BuiltInv
      <3>5. i = Len(run_list) + 1
        BY <1>2, <3>3, <3>4, WellWiredFacts
      <3>6. QED
        BY <3>3, <3>5
    <2>3. QED
      BY <1>2, <1>3, <2>2 DEF AddEffect
  <1>4. ASSUME NEW src \in unwired, MakeWires(src) PROVE phase' \notin Failed
    <2>1. phase = "wires" /\ src \in Sources(config)
      BY <1>4 DEF MakeWires, BuiltInv
    <2>2. {src} \union Destinations(config, src) \subseteq AudioPort
      BY <1>2, <2>1, EndsAreAudioPorts DEF Sources, Destinations
    <2>3. \A n \in {src} \union Destinations(config, src) : Known(n)
      BY <1>2, <2>1, <2>2, AllKnown
    <2>4. QED
      BY <1>2, <1>4, <2>3 DEF MakeWires
  <1>5. CASE Activate
    BY <1>5 DEF Activate, BuiltInv, Failed
  <1>6. CASE ConnectRoute
    <2>1. phase = "connect" /\ jack_connections = config.routes /\ k \in DOMAIN config.routes
      BY <1>2, <1>6 DEF ConnectRoute, BuiltInv, TypeOK
    <2>2. Known(jack_connections[k][1])
      BY <1>2, <2>1, EndsAreAudioPorts, AllKnown
    <2>3. QED
      BY <1>2, <1>6, <2>2 DEF ConnectRoute
  <1>7. CASE RunEffect
    <2>1. phase = "run"
      BY <1>7 DEF RunEffect
    <2>2. ASSUME NEW p \in AudioPort PROVE buffer[p] # NULL
      <3>1. CASE \E i \in DOMAIN config.routes :
                   config.routes[i][1] = p /\ buffer[p] = <<config.routes[i][2], period>>
        BY <1>2, <3>1, ConfigType, DspAssumption DEF TypeOK
      <3>2. CASE \E w \in config.wires :
                   p = (IF p \in InPort THEN w[2] ELSE w[1]) /\ buffer[p] = Wire(w[1])
        BY <1>2, <3>2, EndsAreAudioPorts, DspAssumption DEF Wire
      <3>3. QED
        BY <1>2, <2>1, <3>1, <3>2, Held
    <2>3. QED
      BY <1>2, <1>7, <2>2 DEF RunEffect, PortsOf
  <1>8. CASE EffectsAdded \/ AddRoutes \/ WiresMade \/ Period \/ RoutesConnected
             \/ EffectsRun \/ DisconnectRoute \/ RoutesDisconnected
    BY <1>2, <1>8 DEF EffectsAdded, AddRoutes, WiresMade, Period, RoutesConnected,
                EffectsRun, DisconnectRoute, RoutesDisconnected, Failed
  <1>9. CASE UNCHANGED vars
    BY <1>2, <1>9 DEF vars
  <1>10. QED
    BY <1>3, <1>4, <1>5, <1>6, <1>7, <1>8, <1>9 DEF Next

-----------------------------------------------------------------------------
(* What the effects hear.                                                  *)

\* No two outputs write the same buffer, and no output writes that of an input of
\* JACK.
LEMMA OutputsApart ==
  ASSUME TypeOK, BuiltInv, WiredInv, RoutedInv, WellWired(config), phase = "run",
         NEW p \in OutPort
  PROVE  /\ \A q \in OutPort : buffer[p][1] = buffer[q][1] => p = q
         /\ \A i \in DOMAIN config.routes :
              config.routes[i][2] \in JackIn => buffer[p][1] # config.routes[i][2]
  <1> DEFINE From(q) == \/ buffer[q][1] = q
                        \/ \E i \in DOMAIN config.routes :
                             config.routes[i][1] = q /\ buffer[q][1] = config.routes[i][2]
  <1>1. ASSUME NEW q \in OutPort PROVE From(q)
    <2>1. q \in AudioPort /\ q \notin InPort
      BY DspAssumption DEF AudioPort
    <2>2. QED
      BY <2>1, Held DEF Wire
  <1>2. \A i \in DOMAIN config.routes : config.routes[i][2] \in JackPort
    BY ConfigType DEF TypeOK
  <1>3. OutPort \subseteq PortName /\ PortName \intersect JackPort = {}
    BY DspAssumption DEF AudioPort
  <1>4. /\ \A i, j \in DOMAIN config.routes :
             config.routes[i][2] = config.routes[j][2] => i = j
        /\ \A i \in DOMAIN config.routes :
             config.routes[i][2] \in JackIn => config.routes[i][1] \in InPort
    BY WellWiredFacts DEF TypeOK
  <1>5. ASSUME NEW q \in OutPort, buffer[p][1] = buffer[q][1] PROVE p = q
    BY <1>1, <1>2, <1>3, <1>4, <1>5
  <1>6. ASSUME NEW i \in DOMAIN config.routes, config.routes[i][2] \in JackIn,
               buffer[p][1] = config.routes[i][2]
        PROVE  FALSE
    <2>1. p # config.routes[i][2]
      BY <1>2, <1>3
    <2>2. p = config.routes[i][1]
      BY <1>1, <1>4, <1>6, <2>1
    <2>3. QED
      BY <1>4, <1>6, <2>2, DspAssumption
  <1>7. QED
    BY <1>5, <1>6

\* What an effect computes from is what it should hear: its inputs are those of JACK
\* and the outputs of effects that ran before it.
LEMMA InputsHeard ==
  ASSUME TypeOK, BuiltInv, WiredInv, RoutedInv, MemoryInv, WellWired(config),
         phase = "run", k \in DOMAIN run_list
  PROVE  UNION {memory[buffer[p][1]] : p \in PortsOf(run_list[k]) \intersect InPort}
           = Heard(run_list[k])
  <1> DEFINE e     == run_list[k]
             In    == PortsOf(e) \intersect InPort
             r(j)  == config.routes[j]
             Hears(j, f) == r(j)[2] \in JackIn /\ Leads(config, Owner[r(j)[1]], f)
  <1>1. \A f : Heard(f) =
          {<<r(j)[2], period>> : j \in {j \in DOMAIN config.routes : Hears(j, f)}}
    BY DEF Heard
  <1>2. e \in Effect
    BY DEF TypeOK
  <1>3. \A w \in config.wires : Owner[w[1]] \in Effect /\ Owner[w[2]] \in Effect
    BY EndsAreAudioPorts, DspAssumption DEF TypeOK
  <1>4. \A j \in DOMAIN config.routes : r(j)[1] \in AudioPort /\ Owner[r(j)[1]] \in Effect
    BY EndsAreAudioPorts, DspAssumption DEF TypeOK
  <1>5. ASSUME NEW j \in DOMAIN config.routes
        PROVE  Hears(j, e) <=>
                 /\ r(j)[2] \in JackIn
                 /\ \/ Owner[r(j)[1]] = e
                    \/ \E w \in config.wires : Owner[w[2]] = e /\ Hears(j, Owner[w[1]])
    BY <1>2, <1>3, <1>4, LeadsStep
  <1>6. ASSUME NEW w \in config.wires, Owner[w[2]] = e
        PROVE  memory[w[1]] = Heard(Owner[w[1]]) /\ w[2] \in In /\ buffer[w[2]][1] = w[1]
    <2>1. buffer[w[1]] = Wire(w[1]) /\ buffer[w[2]] = Wire(w[1])
      BY DEF BuiltInv, WiredInv, Failed
    <2>2. w[1] \in OutPort /\ w[2] \in InPort
      BY WellWiredFacts DEF TypeOK
    <2>3. \E i \in DOMAIN run_list : run_list[i] = Owner[w[1]] /\ i < k
      <3>1. Known(w[1])
        BY <2>2, AllKnown DEF AudioPort, Failed
      <3>2. PICK i \in DOMAIN run_list : run_list[i] = Owner[w[1]]
        BY <3>1 DEF Known, Elements
      <3>3. /\ DOMAIN run_list = DOMAIN config.effects
            /\ config.effects[i] = Owner[w[1]] /\ config.effects[k] = Owner[w[2]]
        BY <1>6, <3>2, ConfigType DEF BuiltInv, TypeOK, Failed
      <3>4. i < k
        BY <3>3, WellWiredFacts DEF TypeOK
      <3>5. QED
        BY <3>2, <3>4
    <2>4. memory[buffer[w[1]][1]] = Heard(Owner[w[1]])
      BY <2>2, <2>3 DEF MemoryInv
    <2>5. QED
      BY <1>6, <2>1, <2>2, <2>4 DEF Wire, PortsOf, AudioPort
  <1>7. ASSUME NEW j \in DOMAIN config.routes, r(j)[1] \in In
        PROVE  /\ r(j)[2] \in JackIn
               /\ buffer[r(j)[1]][1] = r(j)[2]
               /\ memory[r(j)[2]] = {<<r(j)[2], period>>}
    <2>1. r(j)[2] \in JackIn
      <3>1. r(j)[2] \in JackIn \/ r(j)[2] \in JackOut
        BY ConfigType DEF TypeOK, JackPort
      <3>2. QED
        BY <1>7, <3>1, WellWiredFacts, DspAssumption DEF TypeOK
    <2>2. buffer[r(j)[1]] = <<r(j)[2], period>>
      BY DEF RoutedInv
    <2>3. memory[r(j)[2]] = {<<r(j)[2], period>>}
      BY <2>1 DEF MemoryInv
    <2>4. QED
      BY <2>1, <2>2, <2>3
  <1>8. ASSUME NEW p \in In, NEW x \in memory[buffer[p][1]] PROVE x \in Heard(e)
    <2>1. p \in AudioPort /\ p \in InPort /\ Owner[p] = e
      BY DEF PortsOf
    <2>2. CASE \E i \in DOMAIN config.routes :
                 config.routes[i][1] = p /\ buffer[p] = <<config.routes[i][2], period>>
      <3>1. PICK j \in DOMAIN config.routes : r(j)[1] = p
        BY <2>2
      <3>2. x = <<r(j)[2], period>> /\ r(j)[2] \in JackIn
        BY <1>7, <1>8, <3>1
      <3>3. Hears(j, e)
        BY <1>5, <2>1, <3>1, <3>2
      <3>4. QED
        BY <1>1, <3>2, <3>3
    <2>3. CASE \E w \in config.wires :
                 p = (IF p \in InPort THEN w[2] ELSE w[1]) /\ buffer[p] = Wire(w[1])
      <3>1. PICK w \in config.wires : p = w[2] /\ buffer[p] = Wire(w[1])
        BY <2>1, <2>3
      <3>2. x \in Heard(Owner[w[1]])
        BY <1>6, <1>8, <2>1, <3>1
      <3>3. PICK j \in DOMAIN config.routes :
              Hears(j, Owner[w[1]]) /\ x = <<r(j)[2], period>>
        BY <1>1, <3>2
      <3>4. Hears(j, e)
        BY <1>5, <2>1, <3>1, <3>3
      <3>5. QED
        BY <1>1, <3>3, <3>4
    <2>4. QED
      BY <2>1, <2>2, <2>3, Held
  <1>9. ASSUME NEW x \in Heard(e) PROVE \E p \in In : x \in memory[buffer[p][1]]
    <2>1. PICK j \in DOMAIN config.routes : Hears(j, e) /\ x = <<r(j)[2], period>>
      BY <1>1
    <2>2. CASE Owner[r(j)[1]] = e
      <3>1. r(j)[1] \in In
        BY <1>4, <2>1, <2>2, WellWiredFacts DEF TypeOK, PortsOf
      <3>2. QED
        BY <1>7, <2>1, <3>1
    <2>3. CASE \E w \in config.wires : Owner[w[2]] = e /\ Hears(j, Owner[w[1]])
      <3>1. PICK w \in config.wires : Owner[w[2]] = e /\ Hears(j, Owner[w[1]])
        BY <2>3
      <3>2. x \in Heard(Owner[w[1]])
        BY <1>1, <2>1, <3>1
      <3>3. QED
        BY <1>6, <3>1, <3>2
    <2>4. QED
      BY <1>5, <2>1, <2>2, <2>3
  <1> HIDE DEF In
  <1>10. \A x : (\E p \in In : x \in memory[buffer[p][1]]) <=> x \in Heard(e)
    BY <1>8, <1>9
  <1>11. UNION {memory[buffer[p][1]] : p \in In} = Heard(e)
    BY <1>10
  <1>12. QED
    BY <1>11 DEF In

\* Running an effect leaves what it should hear in its outputs, and touches neither
\* the inputs of JACK nor what other effects have left.
LEMMA RunMemoryInv ==
  ASSUME TypeOK, BuiltInv, WiredInv, RoutedInv, MemoryInv, WellWired(config),
         phase = "run", k \in DOMAIN run_list, memory' = Computed(run_list[k]),
         k' = k + 1, UNCHANGED <<config, phase, run_list, buffer, period>>
  PROVE  MemoryInv'
  <1> DEFINE e   == run_list[k]
             Out == PortsOf(e) \intersect OutPort
  <1>1. /\ \A b \in DOMAIN memory :
             (\E p \in Out : buffer[p][1] = b) => memory'[b] = Heard(e)
        /\ \A b \in DOMAIN memory :
             ~ (\E p \in Out : buffer[p][1] = b) => memory'[b] = memory[b]
    BY InputsHeard DEF Computed
  <1>2. \A f : Heard(f)' = Heard(f)
    BY DEF Heard, Leads
  <1>3. DOMAIN memory = PortName \union JackPort
    BY DEF TypeOK
  <1>4. ASSUME NEW i \in DOMAIN config.routes, config.routes[i][2] \in JackIn
        PROVE  memory'[config.routes[i][2]] = {<<config.routes[i][2], period>>}
    <2>1. ~ \E p \in Out : buffer[p][1] = config.routes[i][2]
      BY <1>4, OutputsApart
    <2>2. config.routes[i][2] \in DOMAIN memory
      BY <1>3, <1>4 DEF JackPort
    <2>3. memory[config.routes[i][2]] = {<<config.routes[i][2], period>>}
      BY <1>4 DEF MemoryInv
    <2>4. QED
      BY <1>1, <2>1, <2>2, <2>3
  <1>5. ASSUME NEW p \in OutPort, NEW i \in DOMAIN run_list, run_list[i] = Owner[p],
               i < k + 1
        PROVE  memory'[buffer[p][1]] = Heard(Owner[p])
    <2>1. p \in AudioPort
      BY DEF AudioPort
    <2>2. buffer[p][1] \in DOMAIN memory
      <3>1. CASE \E j \in DOMAIN config.routes :
                   config.routes[j][1] = p /\ buffer[p] = <<config.routes[j][2], period>>
        BY <1>3, <3>1, ConfigType DEF TypeOK
      <3>2. CASE \E w \in config.wires :
                   p = (IF p \in InPort THEN w[2] ELSE w[1]) /\ buffer[p] = Wire(w[1])
        <4>1. PICK w \in config.wires : buffer[p] = Wire(w[1])
          BY <3>2
        <4>2. w[1] \in PortName
          BY EndsAreAudioPorts, DspAssumption DEF TypeOK
        <4>3. QED
          BY <1>3, <4>1, <4>2 DEF Wire
      <3>3. QED
        BY <2>1, <3>1, <3>2, Held
    <2>3. CASE i = k
      <3>1. p \in Out
        BY <1>5, <2>1, <2>3 DEF PortsOf
      <3>2. QED
        BY <1>1, <1>5, <2>2, <2>3, <3>1
    <2>4. CASE i # k
      <3>1. i < k
        BY <1>5, <2>4 DEF TypeOK
      <3>2. Owner[p] # e
        BY <1>5, <2>4 DEF TypeOK
      <3>3. ~ \E q \in Out : buffer[q][1] = buffer[p][1]
        <4>1. ASSUME NEW q \in Out, buffer[q][1] = buffer[p][1] PROVE FALSE
          <5>1. q \in OutPort /\ Owner[q] = e
            BY DEF PortsOf
          <5>2. p = q
            BY <4>1, <5>1, OutputsApart
          <5>3. QED
            BY <3>2, <5>1, <5>2
        <4>2. QED
          BY <4>1
      <3>4. memory[buffer[p][1]] = Heard(Owner[p])
        BY <1>5, <3>1 DEF MemoryInv
      <3>5. QED
        BY <1>1, <2>2, <3>3, <3>4
    <2>5. QED
      BY <2>3, <2>4
  <1>6. QED
    BY <1>2, <1>4, <1>5 DEF MemoryInv

LEMMA NextMemoryInv ==
  TypeOK /\ BuiltInv /\ WiredInv /\ RoutedInv /\ MemoryInv /\ [Next]_vars => MemoryInv'
  <1> SUFFICES ASSUME TypeOK, BuiltInv, WiredInv, RoutedInv, MemoryInv, [Next]_vars
               PROVE  MemoryInv'
    OBVIOUS
  <1> USE DEF chain, Building, Failed
  <1>1. config' = config
    BY DEF Next, vars, AddEffect, EffectsAdded, AddRoutes, MakeWires, WiresMade,
           Activate, Period, ConnectRoute, RoutesConnected, RunEffect, EffectsRun,
           DisconnectRoute, RoutesDisconnected, Fail
  <1>2. ASSUME phase' \notin Processing PROVE MemoryInv'
    BY <1>2 DEF MemoryInv, Processing
  <1>3. SUFFICES ASSUME WellWired(config) PROVE MemoryInv'
    BY <1>1 DEF MemoryInv
  <1>4. UNCHANGED period => \A f : Heard(f)' = Heard(f)
    BY <1>1 DEF Heard, Leads
  <1>5. CASE AddEffect \/ EffectsAdded \/ AddRoutes \/ (\E src \in unwired : MakeWires(src))
             \/ WiresMade \/ Activate \/ RoutesDisconnected
    BY <1>2, <1>5 DEF AddEffect, EffectsAdded, AddRoutes, MakeWires, WiresMade, Activate,
                      RoutesDisconnected, Fail, Processing
  <1>6. CASE Period
    <2>1. phase' = "connect"
      BY <1>6 DEF Period
    <2>2. ASSUME NEW i \in DOMAIN config.routes, config.routes[i][2] \in JackIn
          PROVE  memory'[config.routes[i][2]] = {<<config.routes[i][2], period'>>}
      BY <1>6, <2>2 DEF Period, TypeOK, JackPort
    <2>3. QED
      BY <1>1, <2>1, <2>2 DEF MemoryInv
  <1>7. CASE ConnectRoute
    <2>1. CASE phase' = "terminated"
      BY <1>2, <2>1 DEF Processing
    <2>2. CASE phase' # "terminated"
      <3>1. phase = "connect" /\ phase' = "connect" /\ UNCHANGED <<memory, period>>
        BY <1>7, <2>2 DEF ConnectRoute, Fail
      <3>2. QED
        BY <1>1, <1>3, <3>1 DEF MemoryInv
    <2>3. QED
      BY <2>1, <2>2
  <1>8. CASE RoutesConnected
    <2>1. phase = "connect" /\ phase' = "run" /\ k' = 1 /\ UNCHANGED <<memory, period, run_list>>
      BY <1>8 DEF RoutesConnected
    <2>2. \A i \in DOMAIN run_list' : ~ (i < k')
      BY <2>1 DEF TypeOK
    <2>3. QED
      BY <1>1, <1>3, <2>1, <2>2 DEF MemoryInv
  <1>9. CASE RunEffect
    <2>1. CASE phase' = "undefined"
      BY <1>2, <2>1 DEF Processing
    <2>2. CASE phase' # "undefined"
      <3>1. k \in DOMAIN run_list
        BY <1>9 DEF RunEffect, TypeOK
      <3>2. /\ phase = "run" /\ memory' = Computed(run_list[k]) /\ k' = k + 1
            /\ UNCHANGED <<config, phase, run_list, buffer, period>>
        BY <1>9, <2>2 DEF RunEffect, Fail
      <3>3. QED
        BY <1>3, <3>1, <3>2, RunMemoryInv
    <2>3. QED
      BY <2>1, <2>2
  <1>10. CASE EffectsRun
    <2>1. phase = "run" /\ k > Len(run_list) /\ phase' = "disconnect" /\ UNCHANGED <<memory, period>>
      BY <1>10 DEF EffectsRun
    <2>2. ASSUME NEW i \in DOMAIN config.routes, config.routes[i][2] \in JackOut
          PROVE  memory[config.routes[i][2]] = Heard(Owner[config.routes[i][1]])
      <3> DEFINE p == config.routes[i][1]
      <3>1. p \in OutPort /\ p \in AudioPort
        BY <1>3, <2>2, WellWiredFacts DEF TypeOK, AudioPort
      <3>2. PICK j \in DOMAIN run_list : run_list[j] = Owner[p]
        <4>1. Known(p)
          BY <1>3, <2>1, <3>1, AllKnown
        <4>2. QED
          BY <4>1 DEF Known, Elements
      <3>3. j < k
        BY <2>1 DEF TypeOK
      <3>4. memory[buffer[p][1]] = Heard(Owner[p])
        BY <1>3, <2>1, <3>1, <3>2, <3>3 DEF MemoryInv
      <3>5. buffer[p] = <<config.routes[i][2], period>>
        BY <1>3, <2>1 DEF RoutedInv
      <3>6. QED
        BY <3>4, <3>5
    <2>3. QED
      BY <1>1, <1>4, <2>1, <2>2 DEF MemoryInv
  <1>11. CASE DisconnectRoute
    <2>1. phase = "disconnect" /\ phase' = "disconnect" /\ UNCHANGED <<memory, period>>
      BY <1>11 DEF DisconnectRoute
    <2>2. QED
      BY <1>1, <1>3, <1>4, <2>1 DEF MemoryInv
  <1>12. CASE UNCHANGED vars
    <2>1. UNCHANGED <<config, phase, run_list, buffer, memory, period, k>>
      BY <1>12 DEF vars
    <2>2. QED
      BY <1>3, <1>4, <2>1 DEF MemoryInv
  <1>13. QED
    BY <1>5, <1>6, <1>7, <1>8, <1>9, <1>10, <1>11, <1>12 DEF Next

-----------------------------------------------------------------------------
\* What a well-wired config becomes, and what its effects hear, holds in every
\* reachable state.
THEOREM WiredInductive ==
  Spec => [](BuiltInv /\ WiredInv /\ RoutedInv /\ MemoryInv /\ WellWiredRuns)
  <1> DEFINE WInv == BuiltInv /\ WiredInv /\ RoutedInv /\ MemoryInv /\ WellWiredRuns
  <1>1. Init => WInv
    BY InitWInv
  <1>2. IInv /\ WInv /\ [Next]_vars => WInv'
    <2>1. SUFFICES ASSUME IInv, WInv, [Next]_vars PROVE WInv'
      OBVIOUS
    <2>2. TypeOK /\ CycleInv
      BY <2>1 DEF IInv
    <2>3. QED
      BY <2>1, <2>2, NextBuiltInv, NextWiredInv, NextRoutedInv, NextMemoryInv,
         NextWellWiredRuns
  <1> HIDE DEF WInv
  <1>3. Spec => []WInv
    BY <1>1, <1>2, Inductive, PTL DEF Spec
  <1>4. QED
    BY <1>3 DEF WInv

\* For any effects, any number of them, of wires and of routes, a config that is
\* well wired is neither refused, nor does it fail in a callback, nor is a plug-in
\* run on a port that nothing is connected to (src/chain.cxx:50-67,
\* src/ladspa.cxx:346-353, 371-389).
THEOREM WellWiredWorks == Spec => []WellWiredRuns
  BY WiredInductive, PTL

\* For any effects and any config that is well wired, each JACK output gets in each
\* period the samples of that period from those JACK inputs that wires lead to it
\* from, and no others (src/chain.cxx:43-48, src/audio.cxx:183-200, 283-291).
THEOREM WiresFollowed == Spec => []FollowsTheWires
  <1>1. MemoryInv => FollowsTheWires
    BY DEF MemoryInv, FollowsTheWires
  <1>2. QED
    BY <1>1, WiredInductive, PTL

-----------------------------------------------------------------------------
(* What it means that wires lead from one effect to another.               *)

Paths == INSTANCE Graphs

\* The graph of a config: an edge for each wire, between the effects of its ends.
Drawn(c) ==
  [node |-> Effect, edge |-> {<<Owner[w[1]], Owner[w[2]]>> : w \in c.wires}]

\* The effects that a path from e ends at are a set that no wire leaves.
LEMMA PathsExtend ==
  ASSUME NEW c, NEW e, NEW w \in c.wires, Owner[w[2]] \in Effect,
         Paths!AreConnectedIn(e, Owner[w[1]], Drawn(c))
  PROVE  Paths!AreConnectedIn(e, Owner[w[2]], Drawn(c))
  <1> DEFINE f == Owner[w[2]]
  <1>1. PICK p \in Paths!Path(Drawn(c)) : p[1] = e /\ p[Len(p)] = Owner[w[1]]
    BY DEF Paths!AreConnectedIn
  <1>2. /\ p \in Seq(Effect) /\ p # <<>>
        /\ \A i \in 1 .. Len(p) - 1 : <<p[i], p[i + 1]>> \in Drawn(c).edge
    BY DEF Paths!Path, Drawn
  <1> DEFINE q == Append(p, f)
  <1>3. /\ q \in Seq(Effect) /\ q # <<>> /\ Len(q) = Len(p) + 1 /\ Len(p) \in Nat \ {0}
        /\ q[Len(p) + 1] = f /\ \A i \in 1 .. Len(p) : q[i] = p[i]
    BY <1>2
  <1>4. <<Owner[w[1]], f>> \in Drawn(c).edge
    BY DEF Drawn
  <1> HIDE DEF q, f
  <1>5. ASSUME NEW i \in 1 .. Len(q) - 1 PROVE <<q[i], q[i + 1]>> \in Drawn(c).edge
    <2>1. CASE i = Len(p)
      BY <1>1, <1>3, <1>4, <2>1
    <2>2. CASE i # Len(p)
      <3>1. i \in 1 .. Len(p) - 1 /\ i \in 1 .. Len(p) /\ i + 1 \in 1 .. Len(p)
        BY <1>3, <2>2
      <3>2. q[i] = p[i] /\ q[i + 1] = p[i + 1]
        BY <1>3, <3>1
      <3>3. QED
        BY <1>2, <3>1, <3>2
    <2>3. QED
      BY <2>1, <2>2
  <1>6. q \in Paths!Path(Drawn(c))
    BY <1>3, <1>5 DEF Paths!Path, Drawn
  <1>7. q[1] = e /\ q[Len(q)] = f
    BY <1>1, <1>3
  <1>8. QED
    BY <1>6, <1>7 DEF Paths!AreConnectedIn, f

\* A set that no wire leaves and that a path begins in holds its end.
LEMMA PathsStay ==
  ASSUME NEW c, NEW S \in SUBSET Effect,
         \A w \in c.wires : Owner[w[1]] \in S => Owner[w[2]] \in S,
         NEW p \in Paths!Path(Drawn(c)), p[1] \in S
  PROVE  p[Len(p)] \in S
  <1>1. /\ p \in Seq(Effect) /\ Len(p) \in Nat \ {0}
        /\ \A i \in 1 .. Len(p) - 1 : <<p[i], p[i + 1]>> \in Drawn(c).edge
    BY DEF Paths!Path, Drawn
  <1> DEFINE Out == {i \in 1 .. Len(p) : p[i] \notin S}
  <1>2. SUFFICES ASSUME Out # {} PROVE FALSE
    BY <1>1
  <1>3. PICK i \in Out : \A j \in Out : i <= j
    <2>1. Out \subseteq Nat
      BY <1>1
    <2> HIDE DEF Out
    <2>2. QED
      BY <1>2, <2>1, Least
  <1>4. i \in 2 .. Len(p) /\ i - 1 \in 1 .. Len(p) - 1 /\ i - 1 \notin Out /\ (i - 1) + 1 = i
    BY <1>1, <1>3
  <1>5. p[i - 1] \in S
    BY <1>1, <1>4
  <1>6. PICK w \in c.wires : p[i - 1] = Owner[w[1]] /\ p[i] = Owner[w[2]]
    BY <1>1, <1>4 DEF Drawn
  <1>7. QED
    BY <1>3, <1>5, <1>6

\* Leads, which is stated with sets that wires do not leave, is what it should mean:
\* the wires of the config draw a path from the one effect to the other.
THEOREM LeadsIsPath ==
  ASSUME NEW c, NEW e \in Effect, NEW f \in Effect,
         \A w \in c.wires : Owner[w[1]] \in Effect /\ Owner[w[2]] \in Effect
  PROVE  Leads(c, e, f) <=> Paths!AreConnectedIn(e, f, Drawn(c))
  <1>1. ASSUME Leads(c, e, f) PROVE Paths!AreConnectedIn(e, f, Drawn(c))
    <2> DEFINE S == {g \in Effect : Paths!AreConnectedIn(e, g, Drawn(c))}
    <2>1. e \in S
      <3>1. <<e>> \in Paths!Path(Drawn(c))
        BY DEF Paths!Path, Drawn
      <3>2. QED
        BY <3>1 DEF Paths!AreConnectedIn
    <2>2. \A w \in c.wires : Owner[w[1]] \in S => Owner[w[2]] \in S
      BY PathsExtend
    <2> HIDE DEF S
    <2>3. f \in S
      BY <1>1, <2>1, <2>2 DEF Leads, S
    <2>4. QED
      BY <2>3 DEF S
  <1>2. ASSUME Paths!AreConnectedIn(e, f, Drawn(c)) PROVE Leads(c, e, f)
    BY <1>2, PathsStay DEF Paths!AreConnectedIn, Leads
  <1>3. QED
    BY <1>1, <1>2

-----------------------------------------------------------------------------
(* What becomes of any config.                                             *)

\* What has no wire and no route has no buffer; what has a wire that is made and no
\* route has one.
HeldInv ==
  /\ phase \notin {"effects", "refused"} =>
       \A i, j \in DOMAIN config.effects :
         config.effects[i] = config.effects[j] => i = j
  /\ \A w \in config.wires :
       w[1] \notin unwired => Named(config, w[1]) /\ Named(config, w[2])
  /\ \A p \in AudioPort :
       buffer[p] # NULL => InWire(config, p) \/ InRoute(config, p)
  /\ phase \notin {"effects", "routes"} =>
       \A w \in config.wires, p \in AudioPort :
         w[1] \notin unwired /\ p \in {w[1], w[2]} /\ ~ InRoute(config, p)
           => buffer[p] # NULL

LEMMA KnownNamed ==
  ASSUME TypeOK, BuiltInv, phase \notin {"effects"} \union Failed, NEW n
  PROVE  Known(n) <=> Named(config, n)
  <1>1. config.effects \in Seq(Effect) /\ Len(run_list) = Len(config.effects)
    BY ConfigType DEF TypeOK, BuiltInv
  <1>2. DOMAIN run_list = DOMAIN config.effects
    BY <1>1 DEF TypeOK
  <1>3. Elements(run_list) = Elements(config.effects)
    BY <1>2 DEF BuiltInv, Elements
  <1>4. QED
    BY <1>3 DEF Known, Named

LEMMA ConfigUnchanged == [Next]_vars => UNCHANGED config
  BY DEF Next, vars, chain, AddEffect, EffectsAdded, AddRoutes, MakeWires, WiresMade,
         Activate, Period, ConnectRoute, RoutesConnected, RunEffect, EffectsRun,
         DisconnectRoute, RoutesDisconnected, Fail

LEMMA InitHeldInv == Init => HeldInv /\ Fate
  BY DEF Init, HeldInv, Fate, Processing, Sources

\* Only making a wire and connecting a route give a port a buffer, and only
\* disconnecting a route takes one away.
LEMMA NextHeldInv == TypeOK /\ BuiltInv /\ HeldInv /\ [Next]_vars => HeldInv'
  <1> SUFFICES ASSUME TypeOK, BuiltInv, HeldInv, [Next]_vars PROVE HeldInv'
    OBVIOUS
  <1> USE DEF chain, Failed
  <1>1. config' = config
    BY ConfigUnchanged
  <1>2. \A p : (InWire(config, p) <=> InWire(config, p)')
               /\ (InRoute(config, p) <=> InRoute(config, p)')
               /\ (Named(config, p) <=> Named(config, p)')
    BY <1>1 DEF InWire, InRoute, Named
  <1>3. ASSUME phase' \in {phase} \union Failed, phase # "effects", UNCHANGED <<buffer, unwired>>,
               phase = "routes" => phase' = phase, phase = "refused" => phase' = phase
        PROVE  HeldInv'
    BY <1>1, <1>2, <1>3 DEF HeldInv
  <1>4. CASE AddEffect
    <2>1. unwired' = Sources(config)
      BY <1>4 DEF AddEffect, Fail, BuiltInv
    <2>2. phase' \in {"effects", "refused"}
      BY <1>4 DEF AddEffect, Fail
    <2>3. \A p \in AudioPort : buffer'[p] # NULL => buffer[p] # NULL
      BY <1>4 DEF AddEffect, Fail, DisconnectAll, ConnectAll
    <2>4. \A w \in config.wires : w[1] \in unwired'
      BY <2>1 DEF Sources
    <2>5. QED
      BY <1>1, <1>2, <2>2, <2>3, <2>4 DEF HeldInv
  <1>5. CASE EffectsAdded
    <2>1. config.effects \in Seq(Effect)
      BY ConfigType DEF TypeOK
    <2>2. phase = "effects" /\ phase' = "routes" /\ Len(run_list) = Len(config.effects)
          /\ UNCHANGED <<buffer, unwired>>
      BY <1>5 DEF EffectsAdded
    <2>3. DOMAIN config.effects = DOMAIN run_list
      BY <2>1, <2>2 DEF TypeOK
    <2>4. \A i, j \in DOMAIN config.effects : config.effects[i] = config.effects[j] => i = j
      BY <2>3 DEF TypeOK, BuiltInv
    <2>5. QED
      BY <1>1, <1>2, <2>2, <2>4 DEF HeldInv
  <1>6. CASE AddRoutes
    <2>1. phase = "routes" /\ phase' = "wires" /\ UNCHANGED <<buffer, unwired>>
      BY <1>6 DEF AddRoutes
    <2>2. \A w \in config.wires : w[1] \in unwired'
      BY <2>1 DEF BuiltInv, Sources
    <2>3. QED
      BY <1>1, <1>2, <2>1, <2>2 DEF HeldInv
  <1>7. ASSUME NEW src \in unwired, MakeWires(src) PROVE HeldInv'
    <2> DEFINE ends == {src} \union Destinations(config, src)
    <2>1. CASE \A n \in ends : Known(n)
      <3>1. /\ ConnectAll(ends, Wire(src)) /\ phase = "wires" /\ phase' = "wires"
            /\ unwired' = unwired \ {src}
        BY <1>7, <2>1 DEF MakeWires
      <3>2. \A n \in ends : Named(config, n) /\ InWire(config, n)
        <4>1. \A n \in ends : Named(config, n)
          BY <2>1, <3>1, KnownNamed
        <4>2. src \in Sources(config)
          BY DEF BuiltInv
        <4>3. \A n \in ends : InWire(config, n)
          BY <4>2 DEF Sources, Destinations, InWire
        <4>4. QED
          BY <4>1, <4>3
      <3>3. \A w \in config.wires : w[1] = src => w[1] \in ends /\ w[2] \in ends
        BY DEF Destinations
      <3>4. Wire(src) # NULL
        <4>1. src \in PortName
          BY DEF TypeOK
        <4>2. QED
          BY <4>1, DspAssumption DEF Wire
      <3>5. \A p \in AudioPort : buffer'[p] = IF p \in ends THEN Wire(src) ELSE buffer[p]
        BY <3>1 DEF ConnectAll
      <3> HIDE DEF ends
      <3>6. \A w \in config.wires :
              w[1] \notin unwired' => Named(config, w[1]) /\ Named(config, w[2])
        BY <3>1, <3>2, <3>3 DEF HeldInv
      <3>7. \A p \in AudioPort : buffer'[p] # NULL => InWire(config, p) \/ InRoute(config, p)
        BY <3>2, <3>5 DEF HeldInv
      <3>8. \A w \in config.wires, p \in AudioPort :
              w[1] \notin unwired' /\ p \in {w[1], w[2]} /\ ~ InRoute(config, p)
                => buffer'[p] # NULL
        BY <3>1, <3>3, <3>4, <3>5 DEF HeldInv
      <3>9. QED
        BY <1>1, <1>2, <3>1, <3>6, <3>7, <3>8 DEF HeldInv
    <2>2. CASE ~ \A n \in ends : Known(n)
      BY <1>3, <1>7, <2>2 DEF MakeWires, Fail
    <2>3. QED
      BY <2>1, <2>2
  <1>8. CASE WiresMade \/ Activate \/ Period \/ RoutesConnected \/ EffectsRun
             \/ RoutesDisconnected
    <2>1. /\ phase \notin {"effects", "routes", "refused"} /\ UNCHANGED <<buffer, unwired>>
          /\ phase' \notin {"effects", "routes"}
      BY <1>8 DEF WiresMade, Activate, Period, RoutesConnected, EffectsRun,
                  RoutesDisconnected
    <2>2. QED
      BY <1>1, <1>2, <2>1 DEF HeldInv
  <1>9. ASSUME NEW i \in DOMAIN config.routes, NEW b,
               ConnectAll({config.routes[i][1]}, b),
               phase \notin {"effects", "routes", "refused"}, UNCHANGED <<phase, unwired>>
        PROVE  HeldInv'
    <2>1. InRoute(config, config.routes[i][1])
      BY DEF InRoute
    <2>2. \A p \in AudioPort : ~ InRoute(config, p) => buffer'[p] = buffer[p]
      BY <1>9, <2>1 DEF ConnectAll
    <2>3. QED
      BY <1>1, <1>2, <1>9, <2>2 DEF HeldInv
  <1>10. CASE ConnectRoute
    <2>1. phase = "connect" /\ jack_connections = config.routes /\ k \in DOMAIN config.routes
      BY <1>10 DEF ConnectRoute, BuiltInv, TypeOK
    <2>2. QED
      BY <1>3, <1>9, <1>10, <2>1 DEF ConnectRoute, Fail
  <1>11. CASE RunEffect
    BY <1>3, <1>11 DEF RunEffect, Fail
  <1>12. CASE DisconnectRoute
    <2>1. /\ phase = "disconnect" /\ jack_connections = config.routes
          /\ k \in DOMAIN config.routes
      BY <1>12 DEF DisconnectRoute, BuiltInv, TypeOK
    <2>2. QED
      BY <1>9, <1>12, <2>1 DEF DisconnectRoute, DisconnectAll
  <1>13. CASE UNCHANGED vars
    BY <1>1, <1>2, <1>13 DEF vars, HeldInv
  <1>14. QED
    BY <1>4, <1>5, <1>6, <1>7, <1>8, <1>10, <1>11, <1>12, <1>13 DEF Next

LEMMA NextFate ==
  TypeOK /\ CycleInv /\ BuiltInv /\ HeldInv /\ Fate /\ [Next]_vars => Fate'
  <1> SUFFICES ASSUME TypeOK, CycleInv, BuiltInv, HeldInv, Fate, [Next]_vars PROVE Fate'
    OBVIOUS
  <1> USE DEF chain, Failed, Building, Processing
  <1>1. config' = config
    BY ConfigUnchanged
  <1>2. /\ Acceptable(config) <=> Acceptable(config)'
        /\ RoutesNamed(config) <=> RoutesNamed(config)'
        /\ NoneLeftOut(config) <=> NoneLeftOut(config)'
    BY <1>1 DEF Acceptable, RoutesNamed, NoneLeftOut, InWire, InRoute, Named
  <1>3. CASE AddEffect
    <2> DEFINE e == config.effects[Len(run_list) + 1]
    <2>1. phase = "effects" /\ Len(run_list) < Len(config.effects) /\ period' = period
          /\ period = 0
      BY <1>3 DEF AddEffect, Fail, CycleInv
    <2>2. CASE e \in Elements(run_list)
      <3>1. PICK i \in DOMAIN run_list : run_list[i] = e
        BY <2>2 DEF Elements
      <3>2. config.effects \in Seq(Effect)
        BY ConfigType DEF TypeOK
      <3>3. /\ i \in DOMAIN config.effects /\ Len(run_list) + 1 \in DOMAIN config.effects
            /\ i # Len(run_list) + 1
        BY <2>1, <3>2 DEF TypeOK
      <3>4. config.effects[i] = config.effects[Len(run_list) + 1]
        BY <3>1 DEF BuiltInv
      <3>5. ~ Acceptable(config)
        BY <3>3, <3>4 DEF Acceptable
      <3>6. phase' = "refused"
        BY <1>3, <2>2 DEF AddEffect, Fail
      <3>7. QED
        BY <1>2, <2>1, <3>5, <3>6 DEF Fate
    <2>3. CASE e \notin Elements(run_list)
      <3>1. phase' = "effects"
        BY <1>3, <2>3 DEF AddEffect
      <3>2. QED
        BY <1>2, <2>1, <3>1 DEF Fate
    <2>4. QED
      BY <2>2, <2>3
  <1>4. CASE EffectsAdded \/ AddRoutes
    <2>1. phase' \in {"routes", "wires"} /\ period' = period /\ period = 0
      BY <1>4 DEF EffectsAdded, AddRoutes, CycleInv
    <2>2. QED
      BY <2>1 DEF Fate
  <1>5. ASSUME NEW src \in unwired, MakeWires(src) PROVE Fate'
    <2> DEFINE ends == {src} \union Destinations(config, src)
    <2>1. phase = "wires" /\ period' = period /\ period = 0
      BY <1>5 DEF MakeWires, Fail, CycleInv
    <2>2. CASE \A n \in ends : Known(n)
      <3>1. phase' = "wires"
        BY <1>5, <2>2 DEF MakeWires
      <3>2. QED
        BY <2>1, <3>1 DEF Fate
    <2>3. CASE ~ \A n \in ends : Known(n)
      <3>1. PICK n \in ends : ~ Named(config, n)
        BY <2>1, <2>3, KnownNamed
      <3>2. PICK w \in config.wires : w[1] = src
        BY DEF BuiltInv, Sources
      <3>3. \E v \in config.wires : n \in {v[1], v[2]}
        BY <3>1, <3>2 DEF Destinations
      <3>4. ~ Acceptable(config)
        BY <3>1, <3>3 DEF Acceptable
      <3>5. phase' = "refused"
        BY <1>5, <2>3 DEF MakeWires, Fail
      <3>6. QED
        BY <1>2, <2>1, <3>4, <3>5 DEF Fate
    <2>4. QED
      BY <2>2, <2>3
  <1>6. CASE WiresMade
    <2>1. phase = "wires" /\ phase' = "activate" /\ unwired = {} /\ period' = period
          /\ period = 0
      BY <1>6 DEF WiresMade, CycleInv
    <2>2. Acceptable(config)
      BY <2>1 DEF HeldInv, Acceptable
    <2>3. QED
      BY <1>2, <2>1, <2>2 DEF Fate
  <1>7. CASE Activate
    <2>1. phase = "activate" /\ phase' = "idle" /\ period' = period /\ period = 0
      BY <1>7 DEF Activate, BuiltInv, CycleInv
    <2>2. QED
      BY <1>2, <2>1 DEF Fate
  <1>8. CASE Period
    <2>1. phase = "idle" /\ phase' = "connect" /\ period' = period + 1 /\ period \in Nat
      BY <1>8 DEF Period, TypeOK
    <2>2. QED
      BY <1>2, <2>1 DEF Fate
  <1>9. CASE ConnectRoute
    <2> DEFINE name == jack_connections[k][1]
    <2>1. /\ phase = "connect" /\ jack_connections = config.routes
          /\ k \in DOMAIN config.routes /\ period' = period
      BY <1>9 DEF ConnectRoute, Fail, BuiltInv, TypeOK
    <2>2. CASE Known(name)
      <3>1. phase' = "connect"
        BY <1>9, <2>1, <2>2 DEF ConnectRoute
      <3>2. QED
        BY <1>2, <2>1, <3>1 DEF Fate
    <2>3. CASE ~ Known(name)
      <3>1. phase' = "terminated"
        BY <1>9, <2>3 DEF ConnectRoute, Fail
      <3>2. ~ Named(config, config.routes[k][1])
        BY <2>1, <2>3, KnownNamed
      <3>3. ~ RoutesNamed(config)
        BY <2>1, <3>2 DEF RoutesNamed
      <3>4. QED
        BY <1>2, <2>1, <3>1, <3>3 DEF Fate
    <2>4. QED
      BY <2>2, <2>3
  <1>10. CASE RoutesConnected
    <2>1. /\ phase = "connect" /\ phase' = "run" /\ period' = period
          /\ jack_connections = config.routes /\ k > Len(jack_connections)
      BY <1>10 DEF RoutesConnected, BuiltInv
    <2>2. \A i \in DOMAIN config.routes : Known(config.routes[i][1])
      BY <2>1 DEF CycleInv, TypeOK
    <2>3. RoutesNamed(config)
      BY <2>1, <2>2, KnownNamed DEF RoutesNamed
    <2>4. QED
      BY <1>2, <2>1, <2>3 DEF Fate
  <1>11. CASE RunEffect
    <2>1. phase = "run" /\ period' = period /\ k \in DOMAIN run_list
      BY <1>11 DEF RunEffect, Fail, TypeOK
    <2>2. CASE \A p \in PortsOf(run_list[k]) : buffer[p] # NULL
      <3>1. phase' = "run"
        BY <1>11, <2>1, <2>2 DEF RunEffect
      <3>2. QED
        BY <1>2, <2>1, <3>1 DEF Fate
    <2>3. CASE ~ \A p \in PortsOf(run_list[k]) : buffer[p] # NULL
      <3>1. PICK p \in PortsOf(run_list[k]) : buffer[p] = NULL
        BY <2>3
      <3>2. p \in AudioPort /\ Named(config, p)
        <4>1. p \in AudioPort /\ Known(p)
          BY <2>1 DEF PortsOf, Known, Elements
        <4>2. QED
          BY <2>1, <4>1, KnownNamed
      <3>3. ~ InRoute(config, p)
        <4>1. \A i \in DOMAIN config.routes : buffer[config.routes[i][1]] # NULL
          BY <2>1 DEF CycleInv, BuiltInv
        <4>2. QED
          BY <3>1, <4>1 DEF InRoute
      <3>4. ~ InWire(config, p)
        <4>1. unwired = {}
          BY <2>1 DEF BuiltInv
        <4>2. QED
          BY <2>1, <3>1, <3>2, <3>3, <4>1 DEF HeldInv, InWire
      <3>5. ~ NoneLeftOut(config)
        BY <3>2, <3>3, <3>4 DEF NoneLeftOut
      <3>6. phase' = "undefined"
        BY <1>11, <2>3 DEF RunEffect, Fail
      <3>7. QED
        BY <1>2, <2>1, <3>5, <3>6 DEF Fate
    <2>4. QED
      BY <2>2, <2>3
  <1>12. CASE EffectsRun
    <2>1. phase = "run" /\ phase' = "disconnect" /\ period' = period /\ k > Len(run_list)
      BY <1>12 DEF EffectsRun
    <2>2. ASSUME NEW p \in AudioPort, Named(config, p)
          PROVE  InWire(config, p) \/ InRoute(config, p)
      <3>1. Known(p)
        BY <2>1, <2>2, KnownNamed
      <3>2. PICK j \in DOMAIN run_list : run_list[j] = Owner[p]
        BY <3>1 DEF Known, Elements
      <3>3. j < k
        BY <2>1 DEF TypeOK
      <3>4. p \in PortsOf(run_list[j])
        BY <3>2 DEF PortsOf
      <3>5. buffer[p] # NULL
        BY <2>1, <3>3, <3>4 DEF CycleInv
      <3>6. QED
        BY <3>5 DEF HeldInv
    <2>3. NoneLeftOut(config)
      BY <2>2 DEF NoneLeftOut
    <2>4. QED
      BY <1>2, <2>1, <2>3 DEF Fate
  <1>13. CASE DisconnectRoute \/ RoutesDisconnected
    <2>1. phase = "disconnect" /\ phase' \in {"disconnect", "idle"} /\ period' = period
      BY <1>13 DEF DisconnectRoute, RoutesDisconnected
    <2>2. QED
      BY <1>2, <2>1 DEF Fate
  <1>14. CASE UNCHANGED vars
    <2>1. phase' = phase /\ period' = period
      BY <1>14 DEF vars
    <2>2. QED
      BY <1>2, <2>1 DEF Fate
  <1>15. QED
    BY <1>3, <1>4, <1>5, <1>6, <1>7, <1>8, <1>9, <1>10, <1>11, <1>12, <1>13, <1>14 DEF Next

\* For any config, whatever it wires and routes: start-up refuses it only if an
\* effect is named twice or a wire ends at no port of its effects, and takes it only
\* if neither is so; the callback ends the program only for a route to no such port;
\* a plug-in is run on a null pointer only if one of its ports has neither a wire nor
\* a route; and a chain that has got through a period has none of these defects
\* (src/chain.cxx:25-67, src/ladspa.cxx:346-353, src/audio.cxx:144-200, 283-300).
THEOREM FateDecided == Spec => []Fate
  <1>1. IInv /\ BuiltInv /\ HeldInv /\ Fate /\ [Next]_vars => HeldInv' /\ Fate'
    BY NextHeldInv, NextFate DEF IInv
  <1>2. Spec => []BuiltInv
    BY WiredInductive, PTL
  <1>3. Spec => [](HeldInv /\ Fate)
    BY <1>1, <1>2, InitHeldInv, Inductive, PTL DEF Spec
  <1>4. QED
    BY <1>3, PTL

\* What fails in a callback fails in the first period.
FirstPeriodDecides ==
  [][phase # phase' /\ phase' \in {"terminated", "undefined"} => period = 1]_vars

\* For any config file and any number of periods, a chain that gets through its
\* first period fails in none (src/audio.cxx:285-299).
THEOREM Decided == Spec => FirstPeriodDecides
  <1> DEFINE Failing == phase # phase' /\ phase' \in {"terminated", "undefined"}
  <1>1. ASSUME IInv, Fate', [Next]_vars, Failing PROVE period = 1
    <2>1. phase \in Processing /\ period' = period
      BY <1>1 DEF Next, vars, chain, Processing, AddEffect, EffectsAdded, AddRoutes,
                  MakeWires, WiresMade, Activate, Period, ConnectRoute, RoutesConnected,
                  RunEffect, EffectsRun, DisconnectRoute, RoutesDisconnected, Fail
    <2>2. period \in Nat /\ period >= 1
      BY <1>1, <2>1 DEF IInv, TypeOK, CycleInv
    <2>3. ~ period >= 2
      BY <1>1, <2>1 DEF Fate
    <2>4. QED
      BY <2>2, <2>3
  <1>2. IInv /\ Fate' /\ [Next]_vars => [Failing => period = 1]_vars
    BY <1>1
  <1>3. QED
    BY <1>2, Inductive, FateDecided, PTL DEF Spec, FirstPeriodDecides

\* The test in activate() never refuses a chain, whatever its config: every port is
\* marked as connected from the moment its effect is made, by the constructor's
\* disconnect (src/ladspa.cxx:200-209, 335-339, 355-359, 371-378).
THEOREM ActivateAlwaysPasses ==
  Spec => [](phase = "activate" => \A p \in ChainPort : port_is_connected[p])
  <1>1. BuiltInv => (phase = "activate" => \A p \in ChainPort : port_is_connected[p])
    BY DEF BuiltInv
  <1>2. QED
    BY <1>1, WiredInductive, PTL
=============================================================================
