-------------------------------- MODULE MCDsp -------------------------------
(***************************************************************************)
(* An amplifier, a gate with a side chain and a second amplifier, as in    *)
(* the sample config.yml.  The config files: every way to wire the three   *)
(* up as it is meant, with at most two JACK inputs and two JACK outputs;   *)
(* and all with up to two wires and two routes between the amplifiers,     *)
(* whether they make sense or not: names that nobody has, effects named    *)
(* twice or not at all, ports wired twice, wired and routed, or forgotten. *)
(***************************************************************************)
EXTENDS Dsp

MCEffect == {"gain", "gate", "tube"}

MCInPort == {"gain.Input", "gate.Sidechain", "gate.Input", "tube.Input"}

MCOutPort == {"gain.Output", "gate.Output", "tube.Output"}

MCOwner ==
  [p \in MCInPort \union MCOutPort |->
     CASE p \in {"gain.Input", "gain.Output"} -> "gain"
       [] p \in {"tube.Input", "tube.Output"} -> "tube"
       [] OTHER -> "gate"]

MCPortName == MCInPort \union MCOutPort \union {"misspelt"}

MCJackIn == {"in_1", "in_2"}

MCJackOut == {"out_1", "out_2"}

-----------------------------------------------------------------------------
\* Routes, in the order of the JACK ports.
MeantRoutes ==
  {<<<<i, "in_1">>>> \o j \o <<<<o, "out_1">>>> \o q :
     i \in MCInPort,
     j \in {<<>>} \union {<<<<p, "in_2">>>> : p \in MCInPort},
     o \in MCOutPort,
     q \in {<<>>} \union {<<<<p, "out_2">>>> : p \in MCOutPort}}

\* The source of each input that has a wire, and none for the others.
MeantWires ==
  {{w \in MCOutPort \X MCInPort : source[w[2]] = w[1]} :
     source \in [MCInPort -> MCOutPort \union {"none"}]}

Orders == {s \in [1 .. 3 -> MCEffect] : \A i, j \in 1 .. 3 : s[i] = s[j] => i = j}

Meant ==
  {c \in [effects : Orders, wires : MeantWires, routes : MeantRoutes] :
     WellWired(c)}

-----------------------------------------------------------------------------
Some == {p \in MCPortName : p = "misspelt" \/ Owner[p] # "gate"}

AnyWires == {{v, w} : v, w \in Some \X Some} \union {{}}

AnyRoutes ==
  {<<>>} \union {<<<<m, "in_1">>>> : m \in Some}
         \union {<<<<m, "in_1">>, <<n, "out_1">>>> : m, n \in Some}

\* A wire starts at an effect of the config, as it is written there.
Arbitrary ==
  {c \in [effects : {<<"gain">>, <<"gain", "tube">>, <<"gain", "gain">>},
          wires : AnyWires, routes : AnyRoutes] :
     \A src \in Sources(c) \intersect AudioPort : Owner[src] \in Elements(c.effects)}

MCConfigs == Meant \union Arbitrary
=============================================================================
