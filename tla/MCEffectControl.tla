--------------------------- MODULE MCEffectControl --------------------------
(***************************************************************************)
(* Two amplifiers, whose port 0 is a control, a gate, whose port 0 is      *)
(* audio and which has two controls with one name, and a mixer, where a    *)
(* control and an audio port have one name.                                *)
(***************************************************************************)
EXTENDS EffectControl

MCEffect == {"in_gain", "out_gain", "gate", "mixer"}

MCType == {"amp", "gate", "mixer"}

MCTypeOf == [e \in MCEffect |-> IF e \in {"gate", "mixer"} THEN e ELSE "amp"]

Port(n, k) == [name |-> n, kind |-> k]

MCPorts ==
  [t \in MCType |->
     [p \in 0 .. IF t = "mixer" THEN 1 ELSE 2 |->
        CASE t = "amp" /\ p = 0 -> Port("level", "input")
          [] t = "amp" /\ p = 1 -> Port("meter", "output")
          [] t = "amp" /\ p = 2 -> Port("audio", "audio")
          [] t = "gate" /\ p = 0 -> Port("audio", "audio")
          [] t = "gate" /\ p = 1 -> Port("level", "output")
          [] t = "gate" /\ p = 2 -> Port("level", "input")
          [] t = "mixer" /\ p = 0 -> Port("level", "input")
          [] t = "mixer" /\ p = 1 -> Port("level", "audio")]]

MCName == {"level", "meter", "audio", "misspelt"}

\* A float does not hold 1, and 2 is the largest number.
MCDouble == 0 .. 2

MCRounded == [d \in MCDouble |-> IF d = 1 THEN 0 ELSE d]

MCPlus == [s \in MCDouble \X MCDouble |-> IF s[1] + s[2] > 2 THEN 2 ELSE s[1] + s[2]]

Two(e, s, f, u) ==
  <<[effect |-> e, controls |-> s], [effect |-> f, controls |-> u]>>

Set(n) == <<<<n, 2>>>>

\* As it is meant; with a control misspelt, for each type; with an output set;
\* with a mixer.
MCConfigs ==
  {Two("in_gain", Set("level"), "gate", Set("level")),
   Two("in_gain", <<>>, "out_gain", Set("misspelt")),
   Two("in_gain", Set("misspelt"), "gate", Set("misspelt")),
   Two("in_gain", <<>>, "out_gain", Set("meter")),
   Two("in_gain", <<>>, "mixer", <<>>)}
=============================================================================
