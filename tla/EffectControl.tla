---------------------------- MODULE EffectControl ---------------------------
(***************************************************************************)
(* The controls of the effects: how init_dsp makes the effects and sets    *)
(* what the config file says, while other programs already call read,      *)
(* read_all, write and knudge over D-Bus, and how the process thread later *)
(* runs the plug-ins on the same control buffers.                          *)
(*                                                                         *)
(* Three threads: main, the D-Bus dispatcher, which handles one call after *)
(* the other, and JACK's process thread.  The mutex of an effect is held   *)
(* by the process thread while the plug-in runs, and by the others only    *)
(* inside get_control(id) and set_control(id), which are therefore single  *)
(* steps that need the mutex free.  Effects of one type share its table of *)
(* port names.                                                             *)
(***************************************************************************)
EXTENDS Integers, Sequences

CONSTANTS
  Effect,   \* effects, by D-Bus path
  Type,     \* the LADSPA types
  TypeOf,   \* the type of each effect
  Ports,    \* ladspa::type::ports of each type: name and kind, by number
  Name,     \* names that a caller or a config file may use
  Configs,  \* the config files considered: effects and their settings
  Double,   \* numbers, as D-Bus carries them
  Rounded,  \* the number that a float keeps of each
  Plus,     \* the sum of two numbers
  Zero,     \* the number in a new control buffer
  None      \* no effect

Number(t) == DOMAIN Ports[t]

\* LADSPA's kinds of ports: a control that is input or output, or audio.
ASSUME ControlAssumption ==
  /\ TypeOf \in [Effect -> Type]
  /\ \A t \in Type :
       /\ Number(t) \subseteq Nat
       /\ \E last \in Number(t) : Number(t) = 0 .. last
       /\ Ports[t] \in [Number(t) -> [name : Name,
                                      kind : {"input", "output", "audio"}]]
  /\ Configs \subseteq Seq([effect : Effect, controls : Seq(Name \X Double)])
  /\ \A c \in Configs : \A i, j \in DOMAIN c : c[i].effect = c[j].effect => i = j
  /\ Rounded \in [Double -> Double]
  /\ Plus \in [Double \X Double -> Double]
  /\ Zero \in Double
  /\ None \notin Effect

VARIABLES
  life,             \* "running", "aborted" by an assertion, or "undefined"
  config,           \* the effects of the config file
  done,             \* how many of them main has finished
  stage,            \* what main does with the next one
  set,              \* how many of its settings main has made
  made,             \* the effects whose constructor has returned
  port_name_to_id,  \* ladspa::type::port_name_to_id of each type
  control_buffers,  \* ladspa::instance::control_buffers of all effects
  running,          \* the effect that the process thread runs, or None
  call,             \* the call that the dispatcher handles
  reply             \* what the last call has returned, by effect and port

main == <<config, done, stage, set, made>>
vars == <<life, main, port_name_to_id, control_buffers, running, call, reply>>

Cell == {c \in Effect \X UNION {Number(t) : t \in Type} :
           c[2] \in Number(TypeOf[c[1]])}

KindOf(c) == Ports[TypeOf[c[1]]][c[2]].kind

Input == {c \in Cell : KindOf(c) = "input"}

Output == {c \in Cell : KindOf(c) = "output"}

IsReply(r) == DOMAIN r \subseteq Cell /\ r \in [DOMAIN r -> Double]

Nothing == [c \in {} |-> Zero]

\* The dispatcher waits for a call.
NoCall == [at |-> "none"]

Method == {"read", "read_all", "write", "knudge"}

\* early is no state of the program: the call came before start-up was over.
IsCall(c) ==
  /\ c = [at |-> c.at, method |-> c.method, effect |-> c.effect, name |-> c.name,
          value |-> c.value, rest |-> c.rest, got |-> c.got, early |-> c.early]
  /\ c.at \in {"check", "get", "set"} /\ c.method \in Method
  /\ c.effect \in made /\ c.name \in Name /\ c.value \in Double
  /\ c.rest \subseteq Number(TypeOf[c.effect]) /\ IsReply(c.got)
  /\ c.early \in BOOLEAN

Die(how) ==
  /\ life = "running"
  /\ life' = how
  /\ UNCHANGED <<main, port_name_to_id, control_buffers, running, call, reply>>

\* The table that the constructor of a type makes: of two ports with one name
\* the later one has it.
IdsOf(t) ==
  LET Named(n) == {p \in Number(t) : Ports[t][p].name = n}
  IN  [n \in {Ports[t][p].name : p \in Number(t)} |->
         CHOOSE p \in Named(n) : \A q \in Named(n) : q <= p]

Init ==
  /\ life = "running"
  /\ config \in Configs
  /\ done = 0
  /\ stage = IF config = <<>> THEN "serve" ELSE "export"
  /\ set = 0
  /\ made = {}
  /\ port_name_to_id = [t \in Type |-> IdsOf(t)]
  /\ control_buffers = [c \in Cell |-> Zero]
  /\ running = None
  /\ call = NoCall
  /\ reply = Nothing

-----------------------------------------------------------------------------
(* init_dsp, in the main thread.                                           *)

Making == config[done + 1].effect

Settings == config[done + 1].controls

\* The constructor of the base class effect: D-Bus can call from now on.
Export ==
  /\ life = "running"
  /\ stage = "export"
  /\ stage' = "construct"
  /\ UNCHANGED <<life, config, done, set, made, port_name_to_id,
                 control_buffers, running, call, reply>>

\* The constructor of ladspa::instance makes the buffers.
Construct ==
  /\ life = "running"
  /\ stage = "construct"
  /\ stage' = "configure"
  /\ made' = made \union {Making}
  /\ UNCHANGED <<life, config, done, set, port_name_to_id, control_buffers, running,
                 call, reply>>

\* What operator[] of a map finds: a name that is not there is put in, with 0.
Found(ids, n) ==
  [m \in DOMAIN ids \union {n} |-> IF m \in DOMAIN ids THEN ids[m] ELSE 0]

\* set_control of a setting, by name.
SetConfigured ==
  /\ life = "running"
  /\ stage = "configure"
  /\ set < Len(Settings)
  /\ LET t   == TypeOf[Making]
         n   == Settings[set + 1][1]
         ids == Found(port_name_to_id[t], n)
         c   == <<Making, ids[n]>>
     IN  IF KindOf(c) = "input"
         THEN /\ port_name_to_id' = [port_name_to_id EXCEPT ![t] = ids]
              /\ control_buffers' =
                   [control_buffers EXCEPT ![c] = Rounded[Settings[set + 1][2]]]
              /\ set' = set + 1
              /\ UNCHANGED <<life, config, done, stage, made, running, call, reply>>
         ELSE Die("aborted")

\* Mutant of More: the last effect is left out.
MoreButOne == done + 2 < Len(config)

\* There is an effect after this one.
More == done + 1 < Len(config)

EffectDone ==
  /\ life = "running"
  /\ stage = "configure"
  /\ set = Len(Settings)
  /\ done' = done + 1
  /\ set' = 0
  /\ stage' = IF More THEN "export" ELSE "serve"
  /\ UNCHANGED <<life, config, made, port_name_to_id,
                 control_buffers, running, call, reply>>

-----------------------------------------------------------------------------
(* The methods, in the dispatcher thread.                                  *)

Exported(e) == e \in made \/ (stage = "construct" /\ e = Making)

\* Mutant of ControlsOf: read_all does not pass over audio ports.
PortsOf(e) == Number(TypeOf[e])

\* The ports that read_all asks for.
ControlsOf(e) == {p \in Number(TypeOf[e]) : KindOf(<<e, p>>) # "audio"}

\* A call to an object whose constructor has not returned calls a function
\* that is not there yet, or one that reads members that are not.
Receive(e, m, n, v) ==
  /\ call = NoCall
  /\ Exported(e)
  /\ IF e \in made
     THEN /\ life = "running"
          /\ call' = [at     |-> IF m = "read_all" THEN "get" ELSE "check",
                      method |-> m, effect |-> e, name |-> n, value |-> v,
                      rest   |-> ControlsOf(e),
                      got    |-> Nothing,
                      early  |-> stage # "serve"]
          /\ reply' = Nothing
          /\ UNCHANGED <<life, main, port_name_to_id, control_buffers, running>>
     ELSE Die("undefined")

Ids == port_name_to_id[TypeOf[call.effect]]

\* Mutant of CheckName: operator[] instead of count.
CheckNameInserting ==
  /\ life = "running"
  /\ call.at = "check"
  /\ port_name_to_id' =
       [port_name_to_id EXCEPT ![TypeOf[call.effect]] = Found(Ids, call.name)]
  /\ call' = [call EXCEPT !.at = IF call.method = "write" THEN "set" ELSE "get"]
  /\ UNCHANGED <<life, main, control_buffers, running, reply>>

\* The tests of the name; one that fails is answered with an error.
CheckName ==
  /\ life = "running"
  /\ call.at = "check"
  /\ call' = IF call.name \in DOMAIN Ids
             THEN [call EXCEPT !.at = IF call.method = "write" THEN "set" ELSE "get"]
             ELSE NoCall
  /\ UNCHANGED <<life, main, port_name_to_id, control_buffers, running, reply>>

\* Mutant of Free: the mutex is not taken.
FreeAlways(e) == TRUE

Free(e) == running # e

\* Mutant of Answer: the reply is lost.
AnswerNothing(r) ==
  /\ call' = NoCall
  /\ UNCHANGED reply

Answer(r) ==
  /\ call' = NoCall
  /\ reply' = r

Only(c, v) == [x \in {c} |-> v]

With(f, c, v) == [x \in DOMAIN f \union {c} |-> IF x = c THEN v ELSE f[x]]

\* The control that get_control or set_control finds next; read_all asks for
\* all of them in the order of their numbers, but by name.
Target ==
  LET p == CHOOSE p \in call.rest : \A q \in call.rest : p <= q
      n == IF call.method = "read_all" THEN Ports[TypeOf[call.effect]][p].name
                                       ELSE call.name
  IN  <<call.effect, Ids[n]>>

Getting(m) ==
  /\ life = "running"
  /\ call.at = "get"
  /\ call.method = m
  /\ m = "read_all" => call.rest # {}
  /\ Free(call.effect)

Read ==
  /\ Getting("read")
  /\ KindOf(Target) # "audio"
  /\ Answer(Only(Target, control_buffers[Target]))
  /\ UNCHANGED <<life, main, port_name_to_id, control_buffers, running>>

ReadNext ==
  /\ Getting("read_all")
  /\ KindOf(Target) # "audio"
  /\ call' = [call EXCEPT
                !.rest = {p \in call.rest : \E q \in call.rest : q < p},
                !.got  = With(call.got, Target, control_buffers[Target])]
  /\ UNCHANGED <<life, main, port_name_to_id, control_buffers, running, reply>>

ReadAllDone ==
  /\ life = "running"
  /\ call.at = "get"
  /\ call.method = "read_all"
  /\ call.rest = {}
  /\ Answer(call.got)
  /\ UNCHANGED <<life, main, port_name_to_id, control_buffers, running>>

\* knudge adds to what it got and gives the mutex back before it sets the sum.
KnudgeRead ==
  /\ Getting("knudge")
  /\ KindOf(Target) # "audio"
  /\ call' = [call EXCEPT
                !.at  = "set",
                !.got = Only(Target, Plus[<<control_buffers[Target], call.value>>])]
  /\ UNCHANGED <<life, main, port_name_to_id, control_buffers, running, reply>>

NewValue == IF call.method = "knudge" THEN call.got[Target] ELSE call.value

SetControl ==
  /\ life = "running"
  /\ call.at = "set"
  /\ Free(call.effect)
  /\ KindOf(Target) = "input"
  /\ control_buffers' = [control_buffers EXCEPT ![Target] = Rounded[NewValue]]
  /\ Answer(call.got)
  /\ UNCHANGED <<life, main, port_name_to_id, running>>

\* The assertions of get_control(id) and set_control(id).
NotAControl ==
  /\ \/ /\ \E m \in {"read", "read_all", "knudge"} : Getting(m)
        /\ KindOf(Target) = "audio"
     \/ /\ call.at = "set"
        /\ Free(call.effect)
        /\ KindOf(Target) # "input"
  /\ Die("aborted")

\* The dispatcher looks a name up while main puts one in.
NameRace ==
  /\ stage = "configure"
  /\ set < Len(Settings)
  /\ Settings[set + 1][1] \notin DOMAIN port_name_to_id[TypeOf[Making]]
  /\ call # NoCall
  /\ TypeOf[call.effect] = TypeOf[Making]
  /\ Die("undefined")

-----------------------------------------------------------------------------
(* ladspa::instance::run, in the process thread.                           *)

RunLock(e) ==
  /\ life = "running"
  /\ stage = "serve"
  /\ running = None
  /\ e \in made
  /\ running' = e
  /\ UNCHANGED <<life, main, port_name_to_id, control_buffers, call, reply>>

\* Mutant of Unlock: the lock object is kept.
Keep == UNCHANGED running

Unlock == running' = None

\* The plug-in has set its output controls.
RunEnd ==
  /\ life = "running"
  /\ running # None
  /\ \E out \in [{c \in Output : c[1] = running} -> {Rounded[d] : d \in Double}] :
       control_buffers' =
         [c \in Cell |-> IF c \in DOMAIN out THEN out[c] ELSE control_buffers[c]]
  /\ Unlock
  /\ UNCHANGED <<life, main, port_name_to_id, call, reply>>

-----------------------------------------------------------------------------
MainStep == Export \/ Construct \/ SetConfigured \/ EffectDone

CallStep ==
  \/ CheckName
  \/ Read
  \/ ReadNext
  \/ ReadAllDone
  \/ KnudgeRead
  \/ SetControl
  \/ NotAControl

Next ==
  \/ MainStep
  \/ \E e \in Effect :
       \/ Receive(e, "read_all", CHOOSE n \in Name : TRUE, Zero)
       \/ \E n \in Name : Receive(e, "read", n, Zero)
       \/ \E n \in Name, v \in Double :
            Receive(e, "write", n, v) \/ Receive(e, "knudge", n, v)
  \/ CallStep
  \/ NameRace
  \/ \E e \in Effect : RunLock(e)
  \/ RunEnd

Spec == Init /\ [][Next]_vars

\* The threads are scheduled; a call gets the mutex in one of the gaps that the
\* process thread leaves between two runs.  Nobody has to call.
Fairness ==
  /\ WF_vars(MainStep)
  /\ SF_vars(CallStep)
  /\ WF_vars(RunEnd)

FairSpec == Spec /\ Fairness

-----------------------------------------------------------------------------
\* The values of the variables, and how far main has come.
TypeOK ==
  /\ life \in {"running", "aborted", "undefined"}
  /\ config \in Configs
  /\ done \in 0 .. Len(config)
  /\ stage \in {"export", "construct", "configure", "serve"}
  /\ stage = "serve" <=> done = Len(config)
  /\ set \in Nat
  /\ stage = "configure" => set <= Len(Settings) /\ Making \in made
  /\ made \subseteq Effect
  /\ DOMAIN port_name_to_id = Type
  /\ \A t \in Type :
       port_name_to_id[t] \in [DOMAIN port_name_to_id[t] -> Number(t)]
  /\ control_buffers \in [Cell -> Double]
  /\ running \in made \union {None}
  /\ call = NoCall \/ IsCall(call)
  /\ IsReply(reply)

Misspelt(t) ==
  {n \in Name : \E i \in DOMAIN config :
     /\ TypeOf[config[i].effect] = t
     /\ \E j \in DOMAIN config[i].controls : config[i].controls[j][1] = n}
  \ DOMAIN IdsOf(t)

\* A name that is not a port of the type stays refused, whatever is called,
\* unless the config file sets it for some effect of the type: then it has
\* become a name of port 0 for all of them (src/ladspa.cxx:233-239, 289-292).
StrangersArePortZero ==
  \A t \in Type : \A n \in DOMAIN port_name_to_id[t] :
    \/ n \in DOMAIN IdsOf(t) /\ port_name_to_id[t][n] = IdsOf(t)[n]
    \/ n \in Misspelt(t) /\ port_name_to_id[t][n] = 0

\* While a plug-in runs none of its inputs changes, whatever is called
\* (src/ladspa.cxx:279-287, 385-389).
StableInRun ==
  [][\A c \in Input : running = c[1] => control_buffers'[c] = control_buffers[c]]_vars

\* Start-up is over, and so are the calls that began before.
Settled == stage = "serve" /\ (call = NoCall \/ ~call.early)

\* The controls that a call is about: none if it names nothing that is known.
Addressed ==
  LET Named == IF call.method = "read_all"
               THEN {Ports[TypeOf[call.effect]][p].name : p \in ControlsOf(call.effect)}
               ELSE {call.name} \intersect DOMAIN Ids
  IN  {<<call.effect, Ids[n]>> : n \in Named}

Registers == INSTANCE Controls WITH
  Control <- Cell,
  value <- control_buffers,
  request <- IF call = NoCall
             THEN [method |-> "none"]
             ELSE [method |-> call.method, controls |-> Addressed, value |-> call.value],
  settled <- Settled

\* From then on the controls are registers, and each call is one step:
\* although knudge takes the mutex twice, read_all once for each control, and
\* run comes in between (src/ladspa.cxx:243-256, 268-277).
ImplementsRegisters == Registers!Spec

\* The kind of port that a name leads to.
Reached(e, n) == KindOf(<<e, Found(port_name_to_id[TypeOf[e]], n)[n]>>)

\* One name for a control and for an audio port.
Ambiguous(t) ==
  \E p, q \in Number(t) :
    /\ Ports[t][p].name = Ports[t][q].name
    /\ Ports[t][p].kind # "audio" /\ Ports[t][q].kind = "audio"

\* A program that has started dies of a call that names something that is not
\* an input and of nothing else; read_all, which looks every name up again, is
\* no such call unless a plug-in has one name for a control and an audio port.
\* Start-up may also die of a setting that is not one of an input, of a call of an
\* effect on the bus while that effect is being constructed, and of a name that no
\* port of the type has, set while a call of an effect of that type is under way: a
\* config file without misspelt names has no such race
\* (src/ladspa.cxx:200-213, 219, 243-256, 283, 291).
DiesOfWrongPort ==
  [][life = "running" /\ life' # "running" =>
       \/ stage = "construct" /\ life' = "undefined"
       \/ /\ stage = "configure" /\ set < Len(Settings) /\ life' = "undefined"
          /\ Settings[set + 1][1] \in Misspelt(TypeOf[Making])
          /\ call # NoCall /\ TypeOf[call.effect] = TypeOf[Making]
       \/ stage = "configure" /\ set < Len(Settings)
          /\ Reached(Making, Settings[set + 1][1]) # "input"
       \/ call # NoCall /\ call.method = "read_all" /\ Ambiguous(TypeOf[call.effect])
       \/ call # NoCall /\ call.method # "read_all"
          /\ Reached(call.effect, call.name) # "input"]_vars

\* Every call is answered, unless the program dies.
Answered == call # NoCall ~> (call = NoCall \/ life # "running")
=============================================================================
