------------------------ MODULE EffectControl_proofs ------------------------
(***************************************************************************)
(* Theorems about EffectControl, for any plug-ins, config files and calls: *)
(* what the shared table of names can contain, that inputs are stable      *)
(* during a run, what a program dies of, and that the controls are         *)
(* registers once start-up has settled.                                    *)
(***************************************************************************)
EXTENDS EffectControl, Extremes, TLAPS

\* The ports that a type has by its table of names are those it was made with,
\* and names that the config file has misspelt.
TableInv ==
  /\ StrangersArePortZero
  /\ \A t \in Type : DOMAIN IdsOf(t) \subseteq DOMAIN port_name_to_id[t]

\* No plug-in runs before start-up is over, and each effect begins with its
\* first setting.
StageInv ==
  /\ running # None => stage = "serve"
  /\ stage # "configure" => set = 0

\* The control that a call by name is about.
ByName == <<call.effect, Ids[call.name]>>

\* The controls that read_all has got, or still has to get.
Asked(ports) == {<<call.effect, Ids[Ports[TypeOf[call.effect]][p].name]>> : p \in ports}

\* How far a call has come, and what it holds from the steps it has made.
CallInv ==
  call # NoCall =>
    /\ ~call.early => stage = "serve"
    /\ call.method = "read_all" =>
         /\ call.at = "get"
         /\ call.rest \subseteq ControlsOf(call.effect)
         /\ DOMAIN call.got = Asked(ControlsOf(call.effect) \ call.rest)
         /\ ~call.early => \A c \in DOMAIN call.got \intersect Input :
              call.got[c] = control_buffers[c]
    /\ call.method # "read_all" /\ call.at # "check" => call.name \in DOMAIN Ids
    /\ call.at = "set" => call.method \in {"write", "knudge"}
    /\ call.at = "get" => call.method # "write"
    /\ call.method \in {"read", "write"} \/ call.at = "check" => call.got = Nothing
    /\ call.method = "knudge" /\ call.at = "set" =>
         /\ DOMAIN call.got = {ByName}
         /\ ~call.early /\ ByName \in Input =>
              call.got[ByName] = Plus[<<control_buffers[ByName], call.value>>]

IInv == TypeOK /\ TableInv /\ StageInv /\ CallInv

-----------------------------------------------------------------------------
(* Ports, names and cells.                                                 *)

LEMMA CellFacts ==
  /\ \A e \in Effect : \A p \in Number(TypeOf[e]) : <<e, p>> \in Cell
  /\ \A c \in Cell : /\ c[1] \in Effect /\ c[2] \in Number(TypeOf[c[1]])
                     /\ TypeOf[c[1]] \in Type /\ c = <<c[1], c[2]>>
<1>1. \A e \in Effect : TypeOf[e] \in Type
  BY ControlAssumption
<1>2. ASSUME NEW e \in Effect, NEW p \in Number(TypeOf[e]) PROVE <<e, p>> \in Cell
  <2>1. p \in UNION {Number(t) : t \in Type}
    BY <1>1, <1>2
  <2> QED
    BY <2>1 DEF Cell
<1>3. ASSUME NEW c \in Cell
      PROVE  /\ c[1] \in Effect /\ c[2] \in Number(TypeOf[c[1]])
             /\ TypeOf[c[1]] \in Type /\ c = <<c[1], c[2]>>
  BY <1>1 DEF Cell
<1> QED
  BY <1>2, <1>3

\* The table that a type is made with leads each name to a port of that name.
LEMMA IdsFacts ==
  ASSUME NEW t \in Type
  PROVE  /\ 0 \in Number(t) /\ Number(t) \subseteq Nat
         /\ DOMAIN IdsOf(t) = {Ports[t][p].name : p \in Number(t)}
         /\ \A n \in DOMAIN IdsOf(t) :
              IdsOf(t)[n] \in Number(t) /\ Ports[t][IdsOf(t)[n]].name = n
<1> DEFINE Named(n) == {p \in Number(t) : Ports[t][p].name = n}
           Names == {Ports[t][p].name : p \in Number(t)}
           Last(n) == CHOOSE p \in Named(n) : \A q \in Named(n) : q <= p
<1>1. PICK last \in Number(t) : Number(t) = 0 .. last
  BY ControlAssumption
<1>2. Number(t) \subseteq Nat /\ last \in Nat /\ 0 \in Number(t)
  BY <1>1, ControlAssumption
<1>3. IdsOf(t) = [n \in Names |-> Last(n)]
  BY DEF IdsOf
<1>4. ASSUME NEW n \in Names
      PROVE  Last(n) \in Number(t) /\ Ports[t][Last(n)].name = n
  <2>1. Named(n) \subseteq 0 .. last /\ Named(n) # {}
    BY <1>1
  <2>2. \E q \in Named(n) : \A r \in Named(n) : r <= q
    BY <1>2, <2>1, Greatest
  <2>3. Last(n) \in Named(n)
    BY <2>2
  <2> QED
    BY <2>3
<1> HIDE DEF Last
<1> QED
  BY <1>2, <1>3, <1>4

LEMMA FoundFacts ==
  ASSUME NEW t \in Type, NEW ids, ids \in [DOMAIN ids -> Number(t)], NEW n
  PROVE  /\ Found(ids, n) \in [DOMAIN ids \union {n} -> Number(t)]
         /\ DOMAIN Found(ids, n) = DOMAIN ids \union {n}
         /\ \A m \in DOMAIN ids : Found(ids, n)[m] = ids[m]
         /\ n \notin DOMAIN ids => Found(ids, n)[n] = 0
  BY IdsFacts DEF Found

LEMMA KindFacts ==
  ASSUME NEW c \in Cell
  PROVE  KindOf(c) \in {"input", "output", "audio"}
  BY CellFacts, ControlAssumption DEF KindOf

-----------------------------------------------------------------------------
(* The call that is being handled, and the control it is about.            *)

LEMMA CallFacts ==
  ASSUME TypeOK, call # NoCall
  PROVE  /\ IsCall(call) /\ call.effect \in Effect /\ TypeOf[call.effect] \in Type
         /\ call.at \in {"check", "get", "set"}
         /\ Ids \in [DOMAIN Ids -> Number(TypeOf[call.effect])]
<1>1. IsCall(call) /\ call.effect \in made /\ made \subseteq Effect
  BY DEF TypeOK, IsCall
<1>2. TypeOf[call.effect] \in Type
  BY <1>1, ControlAssumption
<1> QED
  BY <1>1, <1>2 DEF IsCall, TypeOK, Ids

LEMMA Waiting == call.at \in {"check", "get", "set"} => call # NoCall
  BY DEF NoCall

\* A call by name is about what the name leads to; read_all is about the least of
\* the ports that are left, by its name.
LEMMA TargetFacts ==
  ASSUME IInv, call.at \in {"get", "set"},
         call.method = "read_all" => call.rest # {}
  PROVE  /\ Target \in Cell
         /\ Target[1] = call.effect
         /\ call.method # "read_all" => Target = ByName
         /\ call.method = "read_all" =>
              \E p \in call.rest :
                /\ \A q \in call.rest : p <= q
                /\ p \in ControlsOf(call.effect)
                /\ Ports[TypeOf[call.effect]][p].name \in DOMAIN Ids
                /\ Target = <<call.effect, Ids[Ports[TypeOf[call.effect]][p].name]>>
<1>1. /\ call # NoCall /\ IsCall(call) /\ call.effect \in Effect
      /\ TypeOf[call.effect] \in Type
      /\ Ids \in [DOMAIN Ids -> Number(TypeOf[call.effect])]
  BY CallFacts, Waiting DEF IInv
<1>2. CASE call.method # "read_all"
  <2>1. call.name \in DOMAIN Ids
    BY <1>1, <1>2 DEF IInv, CallInv
  <2>2. Target = ByName
    BY <1>2 DEF Target, ByName
  <2> QED
    BY <1>1, <1>2, <2>1, <2>2, CellFacts DEF ByName
<1>3. CASE call.method = "read_all"
  <2> DEFINE p == CHOOSE p \in call.rest : \A q \in call.rest : p <= q
             t == TypeOf[call.effect]
  <2>1. call.rest \subseteq Number(t) /\ call.rest \subseteq ControlsOf(call.effect) /\ call.rest # {}
    BY <1>1, <1>3 DEF IInv, CallInv, IsCall
  <2>2. call.rest \subseteq Nat
    BY <1>1, <2>1, IdsFacts
  <2>3. \E q \in call.rest : \A r \in call.rest : q <= r
    BY <2>1, <2>2, Least
  <2>4. p \in call.rest /\ \A q \in call.rest : p <= q
    BY <2>3
  <2>5. Target = <<call.effect, Ids[Ports[t][p].name]>>
    BY <1>3 DEF Target
  <2> HIDE DEF p
  <2>6. Ports[t][p].name \in DOMAIN IdsOf(t)
    BY <1>1, <2>1, <2>4, IdsFacts
  <2>7. Ports[t][p].name \in DOMAIN Ids
    BY <1>1, <2>6 DEF IInv, TableInv, Ids
  <2> QED
    BY <1>1, <1>3, <2>1, <2>4, <2>5, <2>7, CellFacts
<1> QED
  BY <1>2, <1>3

-----------------------------------------------------------------------------
(* Types.                                                                  *)

\* What TypeOK says of the main thread, of the table and buffers, and of calls.
MainOK ==
  /\ life \in {"running", "aborted", "undefined"}
  /\ config \in Configs
  /\ done \in 0 .. Len(config)
  /\ stage \in {"export", "construct", "configure", "serve"}
  /\ stage = "serve" <=> done = Len(config)
  /\ set \in Nat
  /\ stage = "configure" => set <= Len(Settings) /\ Making \in made
  /\ made \subseteq Effect

TableOK ==
  /\ DOMAIN port_name_to_id = Type
  /\ \A t \in Type :
       port_name_to_id[t] \in [DOMAIN port_name_to_id[t] -> Number(t)]
  /\ control_buffers \in [Cell -> Double]

CallOK ==
  /\ running \in made \union {None}
  /\ call = NoCall \/ IsCall(call)
  /\ IsReply(reply)

LEMMA Parts == TypeOK <=> MainOK /\ TableOK /\ CallOK
  BY DEF TypeOK, MainOK, TableOK, CallOK

\* The effect that main is at, and its settings.
LEMMA ConfigFacts ==
  ASSUME MainOK, stage # "serve"
  PROVE  /\ done + 1 \in DOMAIN config /\ Making \in Effect /\ TypeOf[Making] \in Type
         /\ Settings \in Seq(Name \X Double)
         /\ \A j \in 1 .. Len(Settings) : Settings[j][1] \in Name /\ Settings[j][2] \in Double
         /\ \A j \in 1 .. Len(Settings) : Settings[j] \in Name \X Double
<1> DEFINE R == [effect : Effect, controls : Seq(Name \X Double)]
<1>1. config \in Seq(R)
  BY ControlAssumption DEF MainOK
<1>2. done + 1 \in 1 .. Len(config)
  BY <1>1 DEF MainOK
<1>3. config[done + 1] \in R
  <2> HIDE DEF R
  <2> QED
    BY <1>1, <1>2
<1>4. Making \in Effect /\ Settings \in Seq(Name \X Double)
  BY <1>3 DEF Making, Settings
<1>5. \A j \in 1 .. Len(Settings) : Settings[j] \in Name \X Double
  BY <1>4
<1> QED
  BY <1>1, <1>2, <1>4, <1>5, ControlAssumption

LEMMA TypesInit ==
  ASSUME Init
  PROVE  TypeOK
<1>1. config \in Seq([effect : Effect, controls : Seq(Name \X Double)])
  BY ControlAssumption DEF Init
<1>2. MainOK
  <2>1. config = <<>> <=> Len(config) = 0
    BY <1>1
  <2>2. Len(config) \in Nat
    BY <1>1
  <2> QED
    BY <2>1, <2>2 DEF Init, MainOK
<1>3. TableOK
  <2>1. \A t \in Type : IdsOf(t) \in [DOMAIN IdsOf(t) -> Number(t)]
    <3>1. ASSUME NEW t \in Type PROVE IdsOf(t) \in [DOMAIN IdsOf(t) -> Number(t)]
      <4>1. \A n \in DOMAIN IdsOf(t) : IdsOf(t)[n] \in Number(t)
        BY IdsFacts
      <4>2. IdsOf(t) = [n \in DOMAIN IdsOf(t) |-> IdsOf(t)[n]]
        BY DEF IdsOf
      <4> QED
        BY <4>1, <4>2
    <3> QED
      BY <3>1
  <2> QED
    BY <2>1, ControlAssumption DEF Init, TableOK
<1>4. CallOK
  <2>1. IsReply(Nothing)
    BY DEF IsReply, Nothing
  <2> QED
    BY <2>1 DEF Init, CallOK
<1> QED
  BY <1>2, <1>3, <1>4, Parts

-----------------------------------------------------------------------------
(* The steps, by what they leave alone.                                    *)

\* The program dies, and leaves all else as it is.
Halt ==
  /\ life' \in {"aborted", "undefined"}
  /\ UNCHANGED <<main, port_name_to_id, control_buffers, running, call, reply>>

\* A call to an effect that is made.
Receiving(e, m, n, v) ==
  /\ life = "running" /\ call = NoCall /\ e \in made
  /\ call' = [at     |-> IF m = "read_all" THEN "get" ELSE "check",
              method |-> m, effect |-> e, name |-> n, value |-> v,
              rest   |-> ControlsOf(e),
              got    |-> Nothing,
              early  |-> stage # "serve"]
  /\ reply' = Nothing
  /\ UNCHANGED <<life, main, port_name_to_id, control_buffers, running>>

\* A setting that is one of an input.
Setting == SetConfigured /\ life' = life

LEMMA Steps ==
  ASSUME [Next]_vars
  PROVE  \/ Export
         \/ Construct
         \/ Setting
         \/ EffectDone
         \/ Halt
         \/ \E e \in Effect, m \in Method, n \in Name, v \in Double : Receiving(e, m, n, v)
         \/ CheckName
         \/ Read
         \/ ReadNext
         \/ ReadAllDone
         \/ KnudgeRead
         \/ SetControl
         \/ \E e \in Effect : RunLock(e)
         \/ RunEnd
         \/ UNCHANGED vars
<1>1. CASE MainStep
  <2>1. CASE SetConfigured
    BY <2>1 DEF SetConfigured, Setting, Die, Halt
  <2> QED
    BY <1>1, <2>1 DEF MainStep
<1>2. ASSUME NEW e \in Effect, NEW m \in Method, NEW n \in Name, NEW v \in Double,
             Receive(e, m, n, v)
      PROVE  Receiving(e, m, n, v) \/ Halt
  <2>1. CASE e \in made
    BY <1>2, <2>1 DEF Receive, Receiving
  <2>2. CASE e \notin made
    BY <1>2, <2>2 DEF Receive, Die, Halt
  <2> QED
    BY <2>1, <2>2
<1>3. ASSUME NEW e \in Effect PROVE (CHOOSE n \in Name : TRUE) \in Name
  <2>1. Ports[TypeOf[e]][0].name \in Name
    <3>1. TypeOf[e] \in Type
      BY ControlAssumption
    <3>2. 0 \in Number(TypeOf[e])
      BY <3>1, IdsFacts
    <3> QED
      BY <3>1, <3>2, ControlAssumption
  <2> QED
    BY <2>1
<1>4. CASE \E e \in Effect :
             \/ Receive(e, "read_all", CHOOSE n \in Name : TRUE, Zero)
             \/ \E n \in Name : Receive(e, "read", n, Zero)
             \/ \E n \in Name, v \in Double :
                  Receive(e, "write", n, v) \/ Receive(e, "knudge", n, v)
  <2>1. Zero \in Double /\ {"read", "read_all", "write", "knudge"} = Method
    BY ControlAssumption DEF Method
  <2> QED
    BY <1>2, <1>3, <1>4, <2>1
<1>5. CASE NotAControl \/ NameRace
  BY <1>5 DEF NotAControl, NameRace, Die, Halt
<1> QED
  BY <1>1, <1>4, <1>5 DEF Next, CallStep, MainStep

LEMMA MainTypes ==
  ASSUME TypeOK, StageInv, [Next]_vars
  PROVE  MainOK'
<1>0. MainOK
  BY Parts
<1>1. CASE UNCHANGED <<life, main>>
  BY <1>0, <1>1 DEF main, MainOK, Settings, Making
<1>2. CASE Halt
  BY <1>0, <1>2 DEF Halt, main, MainOK, Settings, Making
<1>3. CASE Export
  BY <1>0, <1>3 DEF Export, MainOK, Settings, Making
<1>4. CASE Construct
  <2>1. stage = "construct" /\ Making \in Effect /\ Settings \in Seq(Name \X Double)
    BY <1>0, <1>4, ConfigFacts DEF Construct
  <2>2. set <= Len(Settings)
    BY <2>1 DEF StageInv
  <2> QED
    BY <1>0, <1>4, <2>1, <2>2 DEF Construct, MainOK, Settings, Making
<1>5. CASE Setting
  <2>1. stage = "configure" /\ Settings \in Seq(Name \X Double)
    BY <1>0, <1>5, ConfigFacts DEF Setting, SetConfigured
  <2>2. set < Len(Settings) /\ set' = set + 1 /\ UNCHANGED <<life, config, done, stage, made>>
    BY <1>0, <1>5 DEF Setting, SetConfigured, Die, MainOK
  <2> QED
    BY <1>0, <2>1, <2>2 DEF MainOK, Settings, Making
<1>6. CASE EffectDone
  <2>1. stage = "configure" /\ config \in Seq([effect : Effect, controls : Seq(Name \X Double)])
    BY <1>0, <1>6, ControlAssumption DEF EffectDone, MainOK
  <2>2. Len(config) \in Nat
    BY <2>1
  <2>3. done \in 0 .. Len(config) /\ done # Len(config)
    BY <1>0, <2>1 DEF MainOK
  <2>4. /\ done' = done + 1 /\ set' = 0 /\ UNCHANGED <<life, config, made>>
        /\ stage' = IF done + 1 < Len(config) THEN "export" ELSE "serve"
    BY <1>6 DEF EffectDone, More
  <2> QED
    BY <1>0, <2>2, <2>3, <2>4 DEF MainOK
<1>7. CASE UNCHANGED vars
  BY <1>1, <1>7 DEF vars
<1> QED
  BY <1>1, <1>2, <1>3, <1>4, <1>5, <1>6, <1>7, Steps
     DEF Receiving, CheckName, Read, ReadNext, ReadAllDone, KnudgeRead, SetControl, RunLock, RunEnd

\* A setting of an input control.
LEMMA SettingStep ==
  ASSUME TypeOK, Setting
  PROVE  \E t \in Type, n \in Name, c \in Cell, v \in Double :
           /\ stage = "configure" /\ set \in 0 .. Len(Settings) - 1
           /\ t = TypeOf[Making] /\ n = Settings[set + 1][1]
           /\ c = <<Making, Found(port_name_to_id[t], n)[n]>> /\ KindOf(c) = "input"
           /\ port_name_to_id' =
                [port_name_to_id EXCEPT ![t] = Found(port_name_to_id[t], n)]
           /\ control_buffers' = [control_buffers EXCEPT ![c] = Rounded[v]]
           /\ UNCHANGED <<life, config, done, stage, made, running, call, reply>>
<1> DEFINE t == TypeOf[Making]
           n == Settings[set + 1][1]
           ids == Found(port_name_to_id[t], n)
           c == <<Making, ids[n]>>
<1>1. MainOK /\ TableOK
  BY Parts
<1>2. stage = "configure" /\ set < Len(Settings) /\ set \in Nat
  BY <1>1 DEF Setting, SetConfigured, MainOK
<1>3. Settings \in Seq(Name \X Double)
  BY <1>1, <1>2, ConfigFacts
<1>4. set + 1 \in 1 .. Len(Settings)
  BY <1>2, <1>3
<1>5. Making \in Effect /\ t \in Type /\ n \in Name /\ Settings[set + 1][2] \in Double
  BY <1>1, <1>2, <1>4, ConfigFacts
<1>6. ids[n] \in Number(t)
  <2>1. port_name_to_id[t] \in [DOMAIN port_name_to_id[t] -> Number(t)]
    BY <1>1, <1>5 DEF TableOK
  <2> HIDE DEF t, n
  <2>2. ids \in [DOMAIN port_name_to_id[t] \union {n} -> Number(t)]
    BY <1>5, <2>1, FoundFacts
  <2> HIDE DEF ids
  <2> QED
    BY <2>2
<1>7. c \in Cell
  BY <1>5, <1>6, CellFacts
<1>8. KindOf(c) = "input"
  BY <1>1, <1>2 DEF Setting, SetConfigured, Die, MainOK
<1>9. /\ port_name_to_id' = [port_name_to_id EXCEPT ![t] = ids]
      /\ control_buffers' = [control_buffers EXCEPT ![c] = Rounded[Settings[set + 1][2]]]
      /\ UNCHANGED <<life, config, done, stage, made, running, call, reply>>
  BY <1>8 DEF Setting, SetConfigured
<1>10. set \in 0 .. Len(Settings) - 1
  BY <1>2, <1>3
<1> HIDE DEF t, n, c
<1>11. \E v \in Double : v = Settings[set + 1][2]
  BY <1>5
<1> QED
  BY <1>2, <1>5, <1>7, <1>8, <1>9, <1>10, <1>11 DEF t, n, c

LEMMA BufferFacts ==
  ASSUME TableOK, NEW c \in Cell, NEW v \in Double
  PROVE  [control_buffers EXCEPT ![c] = Rounded[v]] \in [Cell -> Double]
<1>1. Rounded[v] \in Double
  BY ControlAssumption
<1> QED
  BY <1>1 DEF TableOK

\* What SetControl writes, and where.
LEMMA SetControlStep ==
  ASSUME IInv, SetControl
  PROVE  /\ Target \in Input /\ Target = ByName /\ Target[1] = call.effect
         /\ call # NoCall /\ running # call.effect
         /\ NewValue \in Double
         /\ control_buffers' = [control_buffers EXCEPT ![Target] = Rounded[NewValue]]
         /\ call' = NoCall /\ reply' = call.got
         /\ UNCHANGED <<life, main, port_name_to_id, running>>
<1>1. /\ call.at = "set" /\ KindOf(Target) = "input" /\ running # call.effect
      /\ control_buffers' = [control_buffers EXCEPT ![Target] = Rounded[NewValue]]
      /\ call' = NoCall /\ reply' = call.got
      /\ UNCHANGED <<life, main, port_name_to_id, running>>
  BY DEF SetControl, Free, Answer
<1>2. call # NoCall /\ IsCall(call)
  BY <1>1, Waiting, CallFacts DEF IInv
<1>3. call.method \in {"write", "knudge"}
  BY <1>1, <1>2 DEF IInv, CallInv
<1>4. Target \in Cell /\ Target = ByName /\ Target[1] = call.effect
  BY <1>1, <1>3, TargetFacts
<1>5. NewValue \in Double
  <2>1. CASE call.method = "write"
    BY <1>2, <2>1 DEF NewValue, IsCall
  <2>2. CASE call.method = "knudge"
    <3>1. Target \in DOMAIN call.got
      BY <1>1, <1>2, <1>4, <2>2 DEF IInv, CallInv
    <3>2. call.got[Target] \in Double
      BY <1>2, <3>1 DEF IsCall, IsReply
    <3> QED
      BY <2>2, <3>2 DEF NewValue
  <2> QED
    BY <1>3, <2>1, <2>2
<1> QED
  BY <1>1, <1>2, <1>4, <1>5 DEF Input

\* A run of a plug-in changes outputs of its effect only.
LEMMA RunEndStep ==
  ASSUME TableOK, RunEnd
  PROVE  /\ control_buffers' \in [Cell -> Double]
         /\ \A c \in Input : control_buffers'[c] = control_buffers[c]
         /\ running # None /\ running' = None
         /\ UNCHANGED <<life, main, port_name_to_id, call, reply>>
<1>1. PICK out \in [{c \in Output : c[1] = running} -> {Rounded[d] : d \in Double}] :
        control_buffers' =
          [c \in Cell |-> IF c \in DOMAIN out THEN out[c] ELSE control_buffers[c]]
  BY DEF RunEnd
<1>2. \A c \in DOMAIN out : c \in Output /\ out[c] \in Double
  BY <1>1, ControlAssumption
<1>3. \A c \in Input : c \in Cell /\ c \notin Output
  BY DEF Input, Output
<1> QED
  BY <1>1, <1>2, <1>3 DEF RunEnd, Unlock, TableOK

LEMMA TableTypes ==
  ASSUME IInv, [Next]_vars
  PROVE  TableOK'
<1>0. TypeOK /\ TableOK
  BY Parts DEF IInv
<1>1. CASE UNCHANGED <<port_name_to_id, control_buffers>>
  BY <1>0, <1>1 DEF TableOK
<1>2. CASE Setting
  <2>1. PICK t \in Type, n \in Name, c \in Cell, v \in Double :
           /\ port_name_to_id' =
                [port_name_to_id EXCEPT ![t] = Found(port_name_to_id[t], n)]
           /\ control_buffers' = [control_buffers EXCEPT ![c] = Rounded[v]]
    BY <1>0, <1>2, SettingStep
  <2>2. \A u \in Type : port_name_to_id[u] \in [DOMAIN port_name_to_id[u] -> Number(u)]
    BY <1>0 DEF TableOK
  <2>3. Found(port_name_to_id[t], n) \in
          [DOMAIN Found(port_name_to_id[t], n) -> Number(t)]
    BY <2>2, FoundFacts
  <2>4. \A u \in Type : port_name_to_id'[u] \in [DOMAIN port_name_to_id'[u] -> Number(u)]
    BY <1>0, <2>1, <2>2, <2>3 DEF TableOK
  <2> QED
    BY <1>0, <2>1, <2>4, BufferFacts DEF TableOK
<1>3. CASE SetControl
  BY <1>0, <1>1, <1>3, SetControlStep, BufferFacts DEF Input, TableOK
<1>4. CASE RunEnd
  BY <1>0, <1>4, RunEndStep DEF TableOK
<1> QED
  BY <1>1, <1>2, <1>3, <1>4, Steps
     DEF Halt, Export, Construct, EffectDone, Receiving, CheckName, Read, ReadNext,
         ReadAllDone, KnudgeRead, RunLock, vars

LEMMA NothingIsReply == IsReply(Nothing) /\ DOMAIN Nothing = {}
  BY DEF IsReply, Nothing

LEMMA OnlyFacts ==
  ASSUME NEW c \in Cell, NEW v \in Double
  PROVE  IsReply(Only(c, v)) /\ DOMAIN Only(c, v) = {c} /\ Only(c, v)[c] = v
  BY DEF IsReply, Only

LEMMA WithFacts ==
  ASSUME NEW r, IsReply(r), NEW c \in Cell, NEW v \in Double
  PROVE  /\ IsReply(With(r, c, v)) /\ DOMAIN With(r, c, v) = DOMAIN r \union {c}
         /\ \A d \in DOMAIN With(r, c, v) : With(r, c, v)[d] = IF d = c THEN v ELSE r[d]
  BY DEF IsReply, With

\* A call whose step leaves the effect, the name and so on as they are.
LEMMA CallKept ==
  ASSUME TypeOK, call # NoCall, made' = made,
         NEW a \in {"get", "set"}, NEW s, s \subseteq call.rest, NEW g, IsReply(g),
         call' = [call EXCEPT !.at = a, !.rest = s, !.got = g]
  PROVE  /\ IsCall(call)' /\ call' # NoCall
         /\ call'.at = a /\ call'.rest = s /\ call'.got = g
         /\ call'.method = call.method /\ call'.effect = call.effect
         /\ call'.name = call.name /\ call'.value = call.value
         /\ call'.early = call.early
<1>1. IsCall(call)
  BY CallFacts
<1>2. call' = [at |-> a, method |-> call.method, effect |-> call.effect,
               name |-> call.name, value |-> call.value, rest |-> s, got |-> g,
               early |-> call.early]
  BY <1>1 DEF IsCall
<1>3. IsCall(call)'
  BY <1>1, <1>2 DEF IsCall, IsReply
<1>4. call' # NoCall
  BY <1>2 DEF NoCall
<1> QED
  BY <1>2, <1>3, <1>4

\* The steps of a call, in that form.
LEMMA CheckNameStep ==
  ASSUME TypeOK, CheckName
  PROVE  /\ call # NoCall /\ call.at = "check"
         /\ UNCHANGED <<life, main, port_name_to_id, control_buffers, running, reply>>
         /\ \/ call.name \notin DOMAIN Ids /\ call' = NoCall
            \/ /\ call.name \in DOMAIN Ids
               /\ call' = [call EXCEPT
                    !.at = IF call.method = "write" THEN "set" ELSE "get",
                    !.rest = call.rest, !.got = call.got]
<1>1. call.at = "check" /\ call # NoCall /\ IsCall(call)
  BY Waiting, CallFacts DEF CheckName
<1>2. \A a : [call EXCEPT !.at = a]
               = [call EXCEPT !.at = a, !.rest = call.rest, !.got = call.got]
  BY <1>1 DEF IsCall
<1> QED
  BY <1>1, <1>2 DEF CheckName

LEMMA ReadNextStep ==
  ASSUME IInv, ReadNext
  PROVE  /\ call # NoCall /\ call.at = "get" /\ call.method = "read_all"
         /\ UNCHANGED <<life, main, port_name_to_id, control_buffers, running, reply>>
         /\ control_buffers[Target] \in Double
         /\ \E p \in call.rest :
              /\ p \in ControlsOf(call.effect)
              /\ Ports[TypeOf[call.effect]][p].name \in DOMAIN Ids
              /\ Target = <<call.effect, Ids[Ports[TypeOf[call.effect]][p].name]>>
              /\ call' = [call EXCEPT !.at = "get", !.rest = call.rest \ {p},
                            !.got = With(call.got, Target, control_buffers[Target])]
<1>1. call.at = "get" /\ call.method = "read_all" /\ call.rest # {}
  BY DEF ReadNext, Getting
<1>2. call # NoCall /\ IsCall(call) /\ TypeOf[call.effect] \in Type
  BY <1>1, Waiting, CallFacts DEF IInv
<1>3. call.rest \subseteq Nat
  BY <1>2, IdsFacts DEF IsCall
<1>4. PICK p \in call.rest :
        /\ \A q \in call.rest : p <= q
        /\ p \in ControlsOf(call.effect)
        /\ Ports[TypeOf[call.effect]][p].name \in DOMAIN Ids
        /\ Target = <<call.effect, Ids[Ports[TypeOf[call.effect]][p].name]>>
  BY <1>1, TargetFacts
<1>5. {r \in call.rest : \E q \in call.rest : q < r} = call.rest \ {p}
  BY <1>3, <1>4
<1>6. control_buffers[Target] \in Double
  BY <1>1, TargetFacts DEF IInv, TypeOK
<1>7. call' = [call EXCEPT !.at = "get", !.rest = call.rest \ {p},
                 !.got = With(call.got, Target, control_buffers[Target])]
  BY <1>1, <1>2, <1>5 DEF ReadNext, IsCall
<1> QED
  BY <1>1, <1>2, <1>4, <1>6, <1>7 DEF ReadNext

LEMMA KnudgeReadStep ==
  ASSUME IInv, KnudgeRead
  PROVE  /\ call # NoCall /\ call.at = "get" /\ call.method = "knudge"
         /\ UNCHANGED <<life, main, port_name_to_id, control_buffers, running, reply>>
         /\ ByName \in Cell
         /\ Plus[<<control_buffers[ByName], call.value>>] \in Double
         /\ call' = [call EXCEPT !.at = "set", !.rest = call.rest,
                       !.got = Only(ByName, Plus[<<control_buffers[ByName], call.value>>])]
<1>1. call.at = "get" /\ call.method = "knudge"
  BY DEF KnudgeRead, Getting
<1>2. call # NoCall /\ IsCall(call)
  BY <1>1, Waiting, CallFacts DEF IInv
<1>3. Target = ByName /\ ByName \in Cell
  BY <1>1, TargetFacts
<1>4. Plus[<<control_buffers[ByName], call.value>>] \in Double
  <2>1. control_buffers[ByName] \in Double /\ call.value \in Double
    BY <1>2, <1>3 DEF IInv, TypeOK, IsCall
  <2> QED
    BY <2>1, ControlAssumption
<1>5. call' = [call EXCEPT !.at = "set", !.rest = call.rest,
                 !.got = Only(ByName, Plus[<<control_buffers[ByName], call.value>>])]
  BY <1>2, <1>3 DEF KnudgeRead, IsCall
<1> QED
  BY <1>1, <1>2, <1>3, <1>4, <1>5 DEF KnudgeRead

LEMMA ReadStep ==
  ASSUME IInv, Read
  PROVE  /\ call # NoCall /\ call.method = "read" /\ call.at = "get"
         /\ ByName \in Cell /\ control_buffers[ByName] \in Double
         /\ call' = NoCall /\ reply' = Only(ByName, control_buffers[ByName])
         /\ UNCHANGED <<life, main, port_name_to_id, control_buffers, running>>
<1>1. call.at = "get" /\ call.method = "read"
  BY DEF Read, Getting
<1>2. Target = ByName /\ ByName \in Cell
  BY <1>1, TargetFacts
<1>3. control_buffers[ByName] \in Double
  BY <1>2 DEF IInv, TypeOK
<1> QED
  BY <1>1, <1>2, <1>3, Waiting DEF Read, Answer

LEMMA CallTypes ==
  ASSUME IInv, [Next]_vars
  PROVE  CallOK'
<1>0. TypeOK /\ CallOK /\ made \subseteq Effect /\ (call # NoCall => IsReply(call.got))
  BY Parts DEF IInv, TypeOK, IsCall
<1>1. CASE UNCHANGED <<made, running, call, reply>>
  BY <1>0, <1>1 DEF CallOK, IsCall, IsReply
<1>2. CASE Construct
  BY <1>0, <1>2 DEF Construct, CallOK, IsCall, IsReply
<1>3. ASSUME NEW e \in Effect, NEW m \in Method, NEW n \in Name, NEW v \in Double,
             Receiving(e, m, n, v)
      PROVE  CallOK'
  <2>1. ControlsOf(e) \subseteq Number(TypeOf[e])
    BY DEF ControlsOf
  <2>2. IsCall(call)'
    BY <1>3, <2>1, NothingIsReply DEF Receiving, IsCall, IsReply, main
  <2>3. IsReply(reply)'
    BY <1>3, NothingIsReply DEF Receiving, IsReply
  <2> QED
    BY <1>0, <1>3, <2>2, <2>3 DEF Receiving, CallOK, main
<1>4. CASE CheckName
  <2>1. CASE call' = NoCall
    BY <1>0, <1>4, <2>1, CheckNameStep DEF CallOK, IsReply, main
  <2>2. CASE call' # NoCall
    <3>1. IsCall(call)'
      BY <1>0, <1>4, <2>2, CheckNameStep, CallKept DEF main
    <3> QED
      BY <1>0, <1>4, <3>1, CheckNameStep DEF CallOK, IsReply, main
  <2> QED
    BY <2>1, <2>2
<1>5. CASE Read
  <2>1. IsReply(reply)'
    <3>1. IsReply(Only(ByName, control_buffers[ByName]))
      BY <1>5, ReadStep, OnlyFacts
    <3> QED
      BY <1>5, <3>1, ReadStep DEF IsReply
  <2> QED
    BY <1>0, <1>5, <2>1, ReadStep DEF CallOK, main
<1>6. CASE ReadNext
  <2>1. Target \in Cell
    BY <1>6, TargetFacts DEF ReadNext, Getting
  <2>2. control_buffers[Target] \in Double /\ IsReply(call.got)
    BY <1>0, <1>6, ReadNextStep
  <2>3. IsReply(With(call.got, Target, control_buffers[Target]))
    BY <2>1, <2>2, WithFacts
  <2>4. IsCall(call)'
    BY <1>0, <1>6, <2>3, ReadNextStep, CallKept DEF main
  <2> QED
    BY <1>0, <1>6, <2>4, ReadNextStep DEF CallOK, IsReply, main
<1>7. CASE ReadAllDone
  <2>1. call # NoCall
    BY <1>7, Waiting DEF ReadAllDone
  <2> QED
    BY <1>0, <1>7, <2>1 DEF ReadAllDone, Answer, CallOK, IsReply, main
<1>8. CASE KnudgeRead
  <2>1. IsReply(Only(ByName, Plus[<<control_buffers[ByName], call.value>>]))
    BY <1>8, KnudgeReadStep, OnlyFacts
  <2>2. IsCall(call)'
    BY <1>0, <1>8, <2>1, KnudgeReadStep, CallKept DEF main
  <2> QED
    BY <1>0, <1>8, <2>2, KnudgeReadStep DEF CallOK, IsReply, main
<1>9. CASE SetControl
  BY <1>0, <1>9, SetControlStep DEF CallOK, IsReply, main
<1>10. CASE \E e \in Effect : RunLock(e)
  BY <1>0, <1>10 DEF RunLock, CallOK, IsCall, IsReply, main
<1>11. CASE RunEnd
  BY <1>0, <1>11 DEF RunEnd, Unlock, CallOK, IsCall, IsReply, main
<1>12. CASE Setting
  BY <1>1, <1>12 DEF Setting, SetConfigured, Die, main
<1> QED
  BY <1>1, <1>2, <1>3, <1>4, <1>5, <1>6, <1>7, <1>8, <1>9, <1>10, <1>11, <1>12, Steps
     DEF Halt, Export, EffectDone, main, vars

-----------------------------------------------------------------------------
(* The invariant.                                                          *)

\* Names keep what they lead to; settled inputs change by SetControl alone; and
\* start-up does not begin again.
LEMMA Kept ==
  ASSUME IInv, [Next]_vars
  PROVE  /\ config' = config
         /\ \A t \in Type : \A n \in DOMAIN port_name_to_id[t] :
              n \in DOMAIN port_name_to_id'[t] /\ port_name_to_id'[t][n] = port_name_to_id[t][n]
         /\ stage = "serve" => stage' = "serve" /\ UNCHANGED <<main, port_name_to_id>>
         /\ stage = "serve" /\ ~SetControl =>
              \A c \in Input : control_buffers'[c] = control_buffers[c]
<1>0. TypeOK /\ TableOK /\ MainOK
  BY Parts DEF IInv
<1>1. CASE UNCHANGED <<port_name_to_id, control_buffers, config, stage>> /\ UNCHANGED main
  BY <1>1
<1>2. CASE Export \/ Construct \/ EffectDone
  BY <1>2 DEF Export, Construct, EffectDone
<1>3. CASE Setting
  <2>1. PICK t \in Type, n \in Name, c \in Cell, v \in Double :
           /\ stage = "configure"
           /\ port_name_to_id' =
                [port_name_to_id EXCEPT ![t] = Found(port_name_to_id[t], n)]
           /\ UNCHANGED <<life, config, done, stage, made, running, call, reply>>
    BY <1>0, <1>3, SettingStep
  <2>2. \A u \in Type : \A m \in DOMAIN port_name_to_id[u] :
          m \in DOMAIN port_name_to_id'[u] /\ port_name_to_id'[u][m] = port_name_to_id[u][m]
    <3>1. \A u \in Type : u # t => port_name_to_id'[u] = port_name_to_id[u]
      BY <1>0, <2>1 DEF TableOK
    <3>2. port_name_to_id'[t] = Found(port_name_to_id[t], n)
      BY <1>0, <2>1 DEF TableOK
    <3>4. \A m \in DOMAIN port_name_to_id[t] :
            m \in DOMAIN port_name_to_id'[t] /\ port_name_to_id'[t][m] = port_name_to_id[t][m]
      BY <3>2 DEF Found
    <3> QED
      BY <3>1, <3>4
  <2> QED
    BY <2>1, <2>2
<1>4. CASE SetControl
  BY <1>4 DEF SetControl, main
<1>5. CASE RunEnd
  BY <1>0, <1>5, RunEndStep DEF main
<1> QED
  BY <1>1, <1>2, <1>3, <1>4, <1>5, Steps
     DEF Halt, Receiving, CheckName, Read, ReadNext, ReadAllDone, KnudgeRead, RunLock, vars, main

\* A setting that the shared table does not know is misspelt in the config file.
LEMMA UnknownIsMisspelt ==
  ASSUME IInv, stage = "configure", set < Len(Settings),
         Settings[set + 1][1] \notin DOMAIN port_name_to_id[TypeOf[Making]]
  PROVE  Settings[set + 1][1] \in Misspelt(TypeOf[Making])
<1>1. MainOK /\ set \in Nat
  BY Parts DEF IInv, TypeOK
<1>2. /\ done + 1 \in DOMAIN config /\ Settings \in Seq(Name \X Double)
      /\ TypeOf[Making] \in Type
      /\ \A j \in 1 .. Len(Settings) : Settings[j][1] \in Name
  BY <1>1, ConfigFacts
<1>3. set + 1 \in DOMAIN Settings
  BY <1>1, <1>2
<1>4. DOMAIN IdsOf(TypeOf[Making]) \subseteq DOMAIN port_name_to_id[TypeOf[Making]]
  BY <1>2 DEF IInv, TableInv
<1> QED
  BY <1>2, <1>3, <1>4 DEF Misspelt, Settings, Making

LEMMA TableStep ==
  ASSUME IInv, [Next]_vars
  PROVE  TableInv'
<1>0. TypeOK /\ TableOK /\ MainOK /\ TableInv /\ config' = config
  BY Parts, Kept DEF IInv
<1>1. CASE UNCHANGED port_name_to_id
  BY <1>0, <1>1 DEF TableInv, StrangersArePortZero, Misspelt
<1>2. CASE Setting
  <2>1. PICK t \in Type, n \in Name, c \in Cell, v \in Double :
           /\ stage = "configure" /\ set \in 0 .. Len(Settings) - 1
           /\ t = TypeOf[Making] /\ n = Settings[set + 1][1]
           /\ port_name_to_id' =
                [port_name_to_id EXCEPT ![t] = Found(port_name_to_id[t], n)]
    BY <1>0, <1>2, SettingStep
  <2>2. \A u \in Type : u # t => port_name_to_id'[u] = port_name_to_id[u]
    BY <1>0, <2>1 DEF TableOK
  <2>3. port_name_to_id'[t] = Found(port_name_to_id[t], n)
    BY <1>0, <2>1 DEF TableOK
  <2>5. /\ DOMAIN port_name_to_id'[t] = DOMAIN port_name_to_id[t] \union {n}
        /\ n \notin DOMAIN port_name_to_id[t] => port_name_to_id'[t][n] = 0
        /\ \A m \in DOMAIN port_name_to_id[t] : port_name_to_id'[t][m] = port_name_to_id[t][m]
    BY <2>3 DEF Found
  <2>6. n \notin DOMAIN port_name_to_id[t] => n \in Misspelt(t)
    BY <2>1, UnknownIsMisspelt
  <2>7. \A u \in Type : Misspelt(u)' = Misspelt(u)
    BY <1>0 DEF Misspelt
  <2>8. ASSUME NEW u \in Type, NEW m \in DOMAIN port_name_to_id'[u]
        PROVE  \/ m \in DOMAIN IdsOf(u) /\ port_name_to_id'[u][m] = IdsOf(u)[m]
               \/ m \in Misspelt(u) /\ port_name_to_id'[u][m] = 0
    <3>1. CASE u # t \/ m \in DOMAIN port_name_to_id[t]
      BY <1>0, <2>2, <2>5, <3>1 DEF TableInv, StrangersArePortZero
    <3>2. CASE u = t /\ m \notin DOMAIN port_name_to_id[t]
      BY <2>5, <2>6, <3>2
    <3> QED
      BY <3>1, <3>2
  <2>9. \A u \in Type : DOMAIN IdsOf(u) \subseteq DOMAIN port_name_to_id'[u]
    BY <1>0, <2>2, <2>5 DEF TableInv
  <2> QED
    BY <2>7, <2>8, <2>9 DEF TableInv, StrangersArePortZero
<1> QED
  BY <1>1, <1>2, Steps
     DEF Halt, Export, Construct, EffectDone, Receiving, CheckName, Read, ReadNext,
         ReadAllDone, KnudgeRead, SetControl, RunLock, RunEnd, vars

LEMMA StageStep ==
  ASSUME IInv, [Next]_vars
  PROVE  StageInv'
<1>0. StageInv /\ MainOK
  BY Parts DEF IInv
<1>1. CASE UNCHANGED <<stage, set, running>>
  BY <1>0, <1>1 DEF StageInv
<1>2. CASE Export \/ Construct \/ EffectDone
  BY <1>0, <1>2 DEF Export, Construct, EffectDone, StageInv
<1>3. CASE Setting
  BY <1>0, <1>3 DEF Setting, SetConfigured, Die, StageInv, MainOK
<1>4. CASE RunEnd \/ \E e \in Effect : RunLock(e)
  BY <1>0, <1>4 DEF RunEnd, RunLock, Unlock, StageInv, main
<1> QED
  BY <1>1, <1>2, <1>3, <1>4, Steps
     DEF Halt, Receiving, CheckName, Read, ReadNext, ReadAllDone, KnudgeRead, SetControl, vars, main

\* Nothing that is known of a call depends on what others do meanwhile.
LEMMA CallLeft ==
  ASSUME IInv, [Next]_vars, ~SetControl, call' = call
  PROVE  CallInv'
<1> SUFFICES ASSUME call # NoCall PROVE CallInv'
  BY DEF CallInv
<1>1. /\ IsCall(call) /\ call.effect \in Effect /\ TypeOf[call.effect] \in Type
  BY CallFacts DEF IInv
<1>2. \A n \in DOMAIN Ids : n \in DOMAIN Ids' /\ Ids'[n] = Ids[n]
  BY <1>1, Kept DEF Ids
<1>3. \A p \in Number(TypeOf[call.effect]) : Ports[TypeOf[call.effect]][p].name \in DOMAIN Ids
  BY <1>1, IdsFacts DEF IInv, TableInv, Ids
<1>4. \A P : P \subseteq Number(TypeOf[call.effect]) => Asked(P)' = Asked(P)
  BY <1>2, <1>3 DEF Asked
<1>5. ~call.early => stage' = "serve" /\ \A c \in Input : control_buffers'[c] = control_buffers[c]
  BY Kept DEF IInv, CallInv
<1>6. ControlsOf(call.effect) \subseteq Number(TypeOf[call.effect])
  BY DEF ControlsOf
<1>7. call.method = "read_all" => DOMAIN call.got = Asked(ControlsOf(call.effect) \ call.rest)'
  BY <1>4, <1>6 DEF IInv, CallInv
<1>8. call.method # "read_all" /\ call.at # "check" => ByName' = ByName
  BY <1>2 DEF ByName, IInv, CallInv
<1> QED
  BY <1>2, <1>5, <1>7, <1>8 DEF IInv, CallInv

LEMMA ReadNextKeeps ==
  ASSUME IInv, ReadNext
  PROVE  CallInv'
<1>1. /\ call # NoCall /\ call.at = "get" /\ call.method = "read_all"
      /\ UNCHANGED <<life, main, port_name_to_id, control_buffers, running, reply>>
      /\ control_buffers[Target] \in Double /\ Target \in Cell
  BY ReadNextStep, TargetFacts DEF ReadNext, Getting
<1>2. PICK p \in call.rest :
        /\ p \in ControlsOf(call.effect)
        /\ Ports[TypeOf[call.effect]][p].name \in DOMAIN Ids
        /\ Target = <<call.effect, Ids[Ports[TypeOf[call.effect]][p].name]>>
        /\ call' = [call EXCEPT !.at = "get", !.rest = call.rest \ {p},
                      !.got = With(call.got, Target, control_buffers[Target])]
  BY ReadNextStep
<1>3. IsCall(call) /\ IsReply(call.got)
  BY <1>1, CallFacts DEF IInv, IsCall
<1>4. /\ IsReply(With(call.got, Target, control_buffers[Target]))
      /\ DOMAIN With(call.got, Target, control_buffers[Target]) = DOMAIN call.got \union {Target}
      /\ \A d \in DOMAIN With(call.got, Target, control_buffers[Target]) :
           With(call.got, Target, control_buffers[Target])[d]
             = IF d = Target THEN control_buffers[Target] ELSE call.got[d]
  BY <1>1, <1>3, WithFacts
<1>5. /\ call'.at = "get" /\ call'.rest = call.rest \ {p}
      /\ call'.got = With(call.got, Target, control_buffers[Target])
      /\ call'.method = "read_all" /\ call'.effect = call.effect
      /\ call'.name = call.name /\ call'.value = call.value /\ call'.early = call.early
  BY <1>1, <1>2, <1>4, CallKept DEF IInv, main
<1>6. Ids' = Ids
  BY <1>1, <1>5 DEF Ids
<1>7. call.rest \subseteq ControlsOf(call.effect) /\ DOMAIN call.got = Asked(ControlsOf(call.effect) \ call.rest)
  BY <1>1 DEF IInv, CallInv
<1>8. DOMAIN call'.got = Asked(ControlsOf(call.effect) \ call'.rest)
  <2>1. ControlsOf(call.effect) \ call'.rest = (ControlsOf(call.effect) \ call.rest) \union {p}
    BY <1>2, <1>5
  <2>2. Asked((ControlsOf(call.effect) \ call.rest) \union {p})
          = Asked(ControlsOf(call.effect) \ call.rest) \union {Target}
    BY <1>2 DEF Asked
  <2> QED
    BY <1>4, <1>5, <1>7, <2>1, <2>2
<1>9. DOMAIN call'.got = Asked(ControlsOf(call.effect) \ call.rest)'
  BY <1>5, <1>6, <1>8 DEF Asked, ControlsOf
<1>10. ~call'.early => \A c \in DOMAIN call'.got \intersect Input :
         call'.got[c] = control_buffers'[c]
  BY <1>1, <1>4, <1>5 DEF IInv, CallInv
<1>11. ~call'.early => stage' = "serve"
  BY <1>1, <1>5 DEF IInv, CallInv, main
<1>12. call'.rest \subseteq ControlsOf(call.effect)'
  BY <1>5, <1>7 DEF ControlsOf
<1> QED
  BY <1>5, <1>9, <1>10, <1>11, <1>12 DEF CallInv

LEMMA CallInvStep ==
  ASSUME IInv, [Next]_vars
  PROVE  CallInv'
<1>0. TypeOK
  BY DEF IInv
<1>1. CASE call' = NoCall
  BY <1>1 DEF CallInv
<1>2. ASSUME NEW e \in Effect, NEW m \in Method, NEW n \in Name, NEW v \in Double,
             Receiving(e, m, n, v)
      PROVE  CallInv'
  <2>1. /\ call'.at = IF m = "read_all" THEN "get" ELSE "check"
        /\ call'.method = m /\ call'.effect = e /\ call'.rest = ControlsOf(e)
        /\ call'.got = Nothing /\ call'.early = (stage # "serve")
        /\ stage' = stage
    BY <1>2 DEF Receiving, main
  <2>2. Asked(ControlsOf(call.effect) \ call.rest)' = {}
    BY <2>1 DEF Asked, ControlsOf
  <2>3. call'.rest = ControlsOf(call.effect)'
    BY <2>1 DEF ControlsOf
  <2>4. m \in {"read", "read_all", "write", "knudge"}
    BY DEF Method
  <2> QED
    BY <2>1, <2>2, <2>3, <2>4, NothingIsReply DEF CallInv
<1>3. CASE CheckName
  <2>1. CASE call.name \in DOMAIN Ids /\ call' # NoCall
    <3>1. PICK a \in {"get", "set"} : a = IF call.method = "write" THEN "set" ELSE "get"
      OBVIOUS
    <3>2. /\ call # NoCall /\ call.at = "check" /\ IsCall(call)
          /\ UNCHANGED <<life, main, port_name_to_id, control_buffers, running, reply>>
          /\ call' = [call EXCEPT !.at = a, !.rest = call.rest, !.got = call.got]
      BY <1>0, <1>3, <2>1, <3>1, CheckNameStep, CallFacts
    <3>3. /\ call'.at = a /\ call'.rest = call.rest /\ call'.got = call.got
          /\ call'.method = call.method /\ call'.effect = call.effect
          /\ call'.name = call.name /\ call'.value = call.value
          /\ call'.early = call.early
      BY <1>0, <3>2, CallKept DEF IsCall, main
    <3>4. call.method # "read_all" /\ call.got = Nothing /\ (~call.early => stage' = "serve")
      BY <3>2 DEF IInv, CallInv, main
    <3>5. call'.name \in DOMAIN Ids'
      BY <2>1, <3>2, <3>3 DEF Ids
    <3>6. a = "set" => call.method = "write"
      BY <3>1
    <3>7. a = "get" => call.method # "write"
      BY <3>1
    <3> QED
      BY <3>3, <3>4, <3>5, <3>6, <3>7 DEF CallInv
  <2> QED
    BY <1>0, <1>1, <1>3, <2>1, CheckNameStep
<1>4. CASE ReadNext
  BY <1>4, ReadNextKeeps
<1>5. CASE KnudgeRead
  <2> DEFINE sum == Plus[<<control_buffers[ByName], call.value>>]
  <2>1. /\ call # NoCall /\ call.at = "get" /\ call.method = "knudge"
        /\ UNCHANGED <<life, main, port_name_to_id, control_buffers, running, reply>>
        /\ ByName \in Cell /\ sum \in Double
        /\ call' = [call EXCEPT !.at = "set", !.rest = call.rest, !.got = Only(ByName, sum)]
    BY <1>5, KnudgeReadStep
  <2>2. IsReply(Only(ByName, sum)) /\ DOMAIN Only(ByName, sum) = {ByName} /\ Only(ByName, sum)[ByName] = sum
    BY <2>1, OnlyFacts
  <2>3. /\ call'.at = "set" /\ call'.rest = call.rest /\ call'.got = Only(ByName, sum)
        /\ call'.method = call.method /\ call'.effect = call.effect
        /\ call'.name = call.name /\ call'.value = call.value
        /\ call'.early = call.early
    <3> HIDE DEF sum
    <3> QED
      BY <1>0, <2>1, <2>2, CallKept DEF main
  <2>4. ByName' = ByName /\ Ids' = Ids
    BY <2>1, <2>3 DEF ByName, Ids
  <2>5. call.name \in DOMAIN Ids /\ (~call.early => stage' = "serve")
    BY <2>1 DEF IInv, CallInv, main
  <2> QED
    BY <2>1, <2>2, <2>3, <2>4, <2>5 DEF CallInv
<1>6. CASE SetControl
  BY <1>1, <1>6, SetControlStep
<1>7. CASE call' = call /\ ~SetControl
  BY <1>7, CallLeft
<1>8. CASE Read \/ ReadAllDone
  BY <1>1, <1>8 DEF Read, ReadAllDone, Answer
<1> QED
  BY <1>2, <1>3, <1>4, <1>5, <1>6, <1>7, <1>8, Steps
     DEF Halt, Export, Construct, Setting, SetConfigured, Die, EffectDone, RunLock, RunEnd, vars

LEMMA Inductive ==
  ASSUME IInv, [Next]_vars
  PROVE  IInv'
<1>1. TypeOK /\ StageInv
  BY DEF IInv
<1>2. MainOK' /\ TableOK' /\ CallOK'
  BY <1>1, MainTypes, TableTypes, CallTypes
<1>3. TypeOK'
  BY <1>2, Parts DEF TypeOK, MainOK, TableOK, CallOK
<1> QED
  BY <1>3, TableStep, StageStep, CallInvStep DEF IInv

LEMMA Invariance == Spec => []IInv
<1>1. Init => IInv
  <2>1. ASSUME Init PROVE TableInv /\ StageInv /\ CallInv
    BY <2>1 DEF Init, TableInv, StrangersArePortZero, StageInv, CallInv
  <2> QED
    BY <2>1, TypesInit DEF IInv
<1>2. IInv /\ [Next]_vars => IInv'
  BY Inductive
<1> QED
  BY <1>1, <1>2, PTL DEF Spec

\* The variables keep their types, whatever is called and however often.
THEOREM TypeCorrect == Spec => []TypeOK
<1>1. IInv => TypeOK
  BY DEF IInv
<1> QED
  BY <1>1, Invariance, PTL

\* No call puts a name into the table that effects of one type share; only a
\* setting of the config file does, and then as port 0 (src/ladspa.cxx:289-292).
THEOREM StrangersKeptOut == Spec => []StrangersArePortZero
<1>1. IInv => StrangersArePortZero
  BY DEF IInv, TableInv
<1> QED
  BY <1>1, Invariance, PTL

\* While a plug-in runs, none of its inputs changes (src/ladspa.cxx:385-389).
THEOREM InputsStable == Spec => StableInRun
<1>1. ASSUME IInv, [Next]_vars, NEW c \in Input, running = c[1]
      PROVE  control_buffers'[c] = control_buffers[c]
  <2>1. c \in Cell /\ running # None
    BY <1>1, CellFacts, ControlAssumption DEF Input
  <2>2. stage = "serve"
    BY <1>1, <2>1 DEF IInv, StageInv
  <2>3. CASE ~SetControl
    BY <1>1, <2>2, <2>3, Kept
  <2>4. CASE SetControl
    <3>1. c # Target /\ control_buffers' = [control_buffers EXCEPT ![Target] = Rounded[NewValue]]
      BY <1>1, <2>4, SetControlStep
    <3>2. control_buffers \in [Cell -> Double]
      BY <1>1 DEF IInv, TypeOK
    <3> QED
      BY <2>1, <3>1, <3>2
  <2> QED
    BY <2>3, <2>4
<1>2. IInv /\ [Next]_vars =>
        [\A c \in Input : running = c[1] => control_buffers'[c] = control_buffers[c]]_vars
  BY <1>1
<1> QED
  BY <1>2, Invariance, PTL DEF Spec, StableInRun

-----------------------------------------------------------------------------
(* What a program dies of.                                                 *)

\* A name that is known leads where the table says.
LEMMA ReachedFacts ==
  ASSUME call.name \in DOMAIN Ids
  PROVE  Reached(call.effect, call.name) = KindOf(ByName)
  BY DEF Reached, Found, ByName, Ids

LEMMA WrongPort ==
  ASSUME IInv, NotAControl
  PROVE  /\ call # NoCall
         /\ \/ call.method = "read_all" /\ Ambiguous(TypeOf[call.effect])
            \/ call.method # "read_all" /\ Reached(call.effect, call.name) # "input"
<1>1. /\ call.at \in {"get", "set"} /\ KindOf(Target) # "input"
      /\ call.at = "get" => KindOf(Target) = "audio"
      /\ call.method = "read_all" => call.rest # {}
  <2>1. call.at = "set" => call.method # "read_all"
    BY Waiting DEF IInv, CallInv
  <2> QED
    BY <2>1 DEF NotAControl, Getting
<1>2. /\ call # NoCall /\ TypeOf[call.effect] \in Type /\ IsCall(call)
  BY <1>1, Waiting, CallFacts DEF IInv
<1>3. CASE call.method # "read_all"
  <2>1. call.name \in DOMAIN Ids /\ Target = ByName
    BY <1>1, <1>2, <1>3, TargetFacts DEF IInv, CallInv
  <2> QED
    BY <1>1, <1>2, <1>3, <2>1, ReachedFacts
<1>4. CASE call.method = "read_all"
  <2> DEFINE t == TypeOf[call.effect]
  <2>1. PICK p \in call.rest :
           /\ p \in ControlsOf(call.effect)
           /\ Ports[t][p].name \in DOMAIN Ids
           /\ Target = <<call.effect, Ids[Ports[t][p].name]>>
    BY <1>1, <1>4, TargetFacts
  <2>2. p \in Number(t) /\ Ports[t][p].kind # "audio"
    BY <2>1 DEF ControlsOf, KindOf
  <2>3. call.at = "get"
    BY <1>2, <1>4 DEF IInv, CallInv
  <2>4. Ports[t][p].name \in DOMAIN IdsOf(t)
    BY <1>2, <2>2, IdsFacts
  <2>5. Ids[Ports[t][p].name] = IdsOf(t)[Ports[t][p].name]
    BY <1>2, <2>1, <2>4 DEF IInv, TableInv, StrangersArePortZero, Misspelt, Ids
  <2>6. PICK q \in Number(t) : q = IdsOf(t)[Ports[t][p].name] /\ Ports[t][q].name = Ports[t][p].name
    BY <1>2, <2>4, IdsFacts
  <2>7. Ports[t][q].kind = "audio"
    BY <1>1, <2>1, <2>3, <2>5, <2>6 DEF KindOf
  <2>8. Ambiguous(t)
    BY <2>2, <2>6, <2>7 DEF Ambiguous
  <2> QED
    BY <1>2, <1>4, <2>8
<1> QED
  BY <1>3, <1>4

\* A program that has started dies of a call by name that leads to a port of the
\* wrong kind, or of a plug-in with one name for a control and an audio port, and
\* of nothing else; start-up dies of an undefined behaviour only while an effect is
\* constructed or a misspelt name is set (src/ladspa.cxx:200-213, 219, 243-256, 283,
\* 291).
THEOREM DeathExplained == Spec => DiesOfWrongPort
<1> DEFINE Explained ==
             \/ stage = "construct" /\ life' = "undefined"
             \/ /\ stage = "configure" /\ set < Len(Settings) /\ life' = "undefined"
                /\ Settings[set + 1][1] \in Misspelt(TypeOf[Making])
                /\ call # NoCall /\ TypeOf[call.effect] = TypeOf[Making]
             \/ stage = "configure" /\ set < Len(Settings)
                /\ Reached(Making, Settings[set + 1][1]) # "input"
             \/ call # NoCall /\ call.method = "read_all" /\ Ambiguous(TypeOf[call.effect])
             \/ call # NoCall /\ call.method # "read_all"
                /\ Reached(call.effect, call.name) # "input"
<1>1. ASSUME IInv, [Next]_vars, life = "running", life' # "running" PROVE Explained
  <2>1. CASE SetConfigured
    BY <1>1, <2>1 DEF SetConfigured, Reached
  <2>2. ASSUME NEW e, NEW m, NEW n, NEW v, Receive(e, m, n, v) PROVE Explained
    BY <1>1, <2>2 DEF Receive, Exported, Die
  <2>3. CASE NotAControl
    BY <1>1, <2>3, WrongPort
  <2>4. CASE NameRace
    <3>1. Settings[set + 1][1] \in Misspelt(TypeOf[Making])
      BY <1>1, <2>4, UnknownIsMisspelt DEF NameRace
    <3> QED
      BY <1>1, <2>4, <3>1 DEF NameRace, Die
  <2> HIDE DEF Explained
  <2> QED
    BY <1>1, <2>1, <2>2, <2>3, <2>4
       DEF Next, MainStep, CallStep, Export, Construct, EffectDone, CheckName, Read, ReadNext,
           ReadAllDone, KnudgeRead, SetControl, RunLock, RunEnd, vars
<1>2. IInv /\ [Next]_vars => [life = "running" /\ life' # "running" => Explained]_vars
  BY <1>1
<1> QED
  BY <1>2, Invariance, PTL DEF Spec, DiesOfWrongPort

-----------------------------------------------------------------------------
(* The registers.                                                          *)

\* The call as the registers see it.
Req ==
  IF call = NoCall
  THEN [method |-> "none"]
  ELSE [method |-> call.method, controls |-> Addressed, value |-> call.value]

LEMMA AddressedFacts ==
  ASSUME IInv, call # NoCall
  PROVE  /\ Addressed \subseteq Cell
         /\ call.method = "read_all" => Addressed = Asked(ControlsOf(call.effect))
         /\ call.method # "read_all" =>
              Addressed = IF call.name \in DOMAIN Ids THEN {ByName} ELSE {}
<1>1. /\ IsCall(call) /\ call.effect \in Effect /\ TypeOf[call.effect] \in Type
      /\ Ids \in [DOMAIN Ids -> Number(TypeOf[call.effect])]
  BY CallFacts DEF IInv
<1>2. ControlsOf(call.effect) \subseteq Number(TypeOf[call.effect])
  BY DEF ControlsOf
<1>3. \A p \in Number(TypeOf[call.effect]) : Ports[TypeOf[call.effect]][p].name \in DOMAIN Ids
  BY <1>1, IdsFacts DEF IInv, TableInv, Ids
<1>4. CASE call.method = "read_all"
  <2>1. Addressed = Asked(ControlsOf(call.effect))
    BY <1>4 DEF Addressed, Asked
  <2>2. Asked(ControlsOf(call.effect)) \subseteq Cell
    BY <1>1, <1>2, <1>3, CellFacts DEF Asked
  <2> QED
    BY <1>4, <2>1, <2>2
<1>5. CASE call.method # "read_all"
  <2>1. Addressed = {<<call.effect, Ids[n]>> : n \in {call.name} \intersect DOMAIN Ids}
    BY <1>5 DEF Addressed
  <2>2. Addressed = IF call.name \in DOMAIN Ids THEN {ByName} ELSE {}
    BY <2>1 DEF ByName
  <2>3. call.name \in DOMAIN Ids => ByName \in Cell
    BY <1>1, CellFacts DEF ByName
  <2> QED
    BY <1>5, <2>2, <2>3
<1> QED
  BY <1>4, <1>5

ReqOK ==
  /\ Req \in Registers!Request \union {Registers!NoRequest}
  /\ Registers!IsReply(reply)
  /\ control_buffers \in [Cell -> Double]
  /\ Settled \in BOOLEAN

LEMMA ReqFacts == IInv => ReqOK
<1> SUFFICES ASSUME IInv PROVE ReqOK
  OBVIOUS
<1>1. Req \in Registers!Request \union {Registers!NoRequest}
  <2>1. CASE call = NoCall
    BY <2>1 DEF Req, Registers!NoRequest
  <2>2. CASE call # NoCall
    <3>1. IsCall(call)
      BY <2>2, CallFacts DEF IInv
    <3>2. Addressed \subseteq Cell
      BY <2>2, AddressedFacts
    <3> QED
      BY <2>2, <3>1, <3>2 DEF Req, Registers!Request, IsCall, Method
  <2> QED
    BY <2>1, <2>2
<1> QED
  BY <1>1 DEF ReqOK, IInv, TypeOK, IsReply, Registers!IsReply, Settled

LEMMA SettledFacts ==
  ASSUME IInv, [Next]_vars, Settled
  PROVE  /\ stage = "serve" /\ stage' = "serve"
         /\ call # NoCall => ~call.early
         /\ call' = NoCall => Settled'
         /\ call' # NoCall /\ ~call'.early => Settled'
         /\ port_name_to_id' = port_name_to_id
  BY Kept DEF Settled

\* A step that neither ends the call nor changes a control is none of the
\* registers.
LEMMA Stutter ==
  ASSUME Settled, Settled', Req' = Req, UNCHANGED <<control_buffers, reply>>
  PROVE  UNCHANGED Registers!vars
  BY DEF Registers!vars, Req, Settled

LEMMA Called ==
  ASSUME IInv, Settled, IInv', [Next]_vars,
         NEW e \in Effect, NEW m \in Method, NEW n \in Name, NEW v \in Double,
         Receiving(e, m, n, v)
  PROVE  Registers!Next
<1>1. call = NoCall /\ call' # NoCall /\ ~call'.early /\ Settled' /\ Settled
  <2>1. call'.at # "none" /\ ~call'.early
    BY SettledFacts DEF Receiving
  <2> QED
    BY <2>1, SettledFacts DEF Receiving, NoCall
<1>2. Req' \in Registers!Request
  <2>1. ReqOK'
    BY ReqFacts, PTL
  <2>2. Req' # Registers!NoRequest
    BY <1>1 DEF Req, Registers!NoRequest, Receiving
  <2> QED
    BY <2>1, <2>2 DEF ReqOK
<1>3. reply' \in [{} -> Double] /\ control_buffers' = control_buffers
  BY DEF Receiving, Nothing
<1>4. Registers!Call
  BY <1>1, <1>2, <1>3 DEF Registers!Call, Registers!NoRequest, Req
<1> QED
  BY <1>1, <1>4 DEF Registers!Next, Settled

\* The ways to answer a call that the registers promise.
Refused == Addressed = {} /\ UNCHANGED <<control_buffers, reply>>

Shown ==
  /\ call.method \in {"read", "read_all"}
  /\ IsReply(reply') /\ DOMAIN reply' = Addressed
  /\ \A c \in DOMAIN reply' : c \in Input \/ call.method = "read" =>
       reply'[c] = control_buffers[c]
  /\ UNCHANGED control_buffers

Written ==
  /\ call.method = "write"
  /\ \E c \in Input :
       /\ Addressed = {c}
       /\ control_buffers' = [control_buffers EXCEPT ![c] = Rounded[call.value]]
  /\ reply' \in [{} -> Double]

Knudged ==
  /\ call.method = "knudge"
  /\ \E c \in Input :
       /\ Addressed = {c}
       /\ control_buffers' = [control_buffers EXCEPT
            ![c] = Rounded[Plus[<<control_buffers[c], call.value>>]]]
       /\ reply' = Only(c, Plus[<<control_buffers[c], call.value>>])

LEMMA Promised ==
  ASSUME IInv, Settled, [Next]_vars, call # NoCall, call' = NoCall,
         Refused \/ Shown \/ Written \/ Knudged
  PROVE  Registers!Next
<1>1. Req = [method |-> call.method, controls |-> Addressed, value |-> call.value]
  BY DEF Req
<1>2. Req' = Registers!NoRequest
  BY DEF Req, Registers!NoRequest
<1>3. Req # Registers!NoRequest
  BY <1>1 DEF Registers!NoRequest
<1>4. Refused => Registers!Refuse
  BY <1>1, <1>3 DEF Refused, Registers!Refuse, Registers!NoRequest, Req
<1>5. Shown => Registers!Show
  BY <1>1 DEF Shown, Registers!Show, Registers!IsReply, IsReply, Req
<1>6. Written => Registers!Write
  BY <1>1 DEF Written, Registers!Write, Req
<1>7. Knudged => Registers!Knudge
  BY <1>1 DEF Knudged, Registers!Knudge, Registers!Only, Only, Req
<1>8. Registers!Answer
  BY <1>2, <1>4, <1>5, <1>6, <1>7 DEF Registers!Answer, Registers!NoRequest, Req
<1>9. Settled' = Settled
  BY SettledFacts DEF Settled
<1> QED
  BY <1>8, <1>9 DEF Registers!Next, Settled

\* Once start-up has settled, each step is one of the registers or none.
LEMMA SettledStep ==
  ASSUME IInv, IInv', Settled, [Next]_vars
  PROVE  Registers!Next \/ UNCHANGED Registers!vars
<1>0. /\ TypeOK /\ TableOK /\ stage = "serve" /\ stage' = "serve"
      /\ call # NoCall => ~call.early /\ IsCall(call) /\ IsReply(call.got)
      /\ port_name_to_id' = port_name_to_id
  BY Parts, CallFacts, SettledFacts DEF IInv, IsCall
<1>1. CASE UNCHANGED <<call, reply, control_buffers>>
  <2>1. Req' = Req /\ Settled'
    BY <1>0, <1>1, SettledFacts DEF Req, Addressed, Ids, ControlsOf
  <2> QED
    BY <1>1, <2>1, Stutter
<1>2. ASSUME NEW e \in Effect, NEW m \in Method, NEW n \in Name, NEW v \in Double,
             Receiving(e, m, n, v)
      PROVE  Registers!Next
  BY <1>2, Called
<1>3. ASSUME call # NoCall, call' # NoCall, UNCHANGED <<control_buffers, reply>>,
             call'.method = call.method, call'.effect = call.effect,
             call'.name = call.name, call'.value = call.value, call'.early = call.early
      PROVE  UNCHANGED Registers!vars
  <2>1. Req' = Req /\ Settled'
    BY <1>0, <1>3, SettledFacts DEF Req, Addressed, Ids, ControlsOf
  <2> QED
    BY <1>3, <2>1, Stutter
<1>4. CASE CheckName
  <2>1. CASE call' = NoCall
    <3>1. call # NoCall /\ call.name \notin DOMAIN Ids /\ call.method # "read_all"
          /\ UNCHANGED <<control_buffers, reply>>
      <4>1. call # NoCall /\ call.at = "check" /\ UNCHANGED <<control_buffers, reply>>
        BY <1>0, <1>4, CheckNameStep
      <4>2. call.method # "read_all"
        BY <4>1 DEF IInv, CallInv
      <4>3. call.name \notin DOMAIN Ids
        <5>1. \A a : [call EXCEPT !.at = a] # NoCall
          BY <1>0, <4>1 DEF IsCall, NoCall
        <5> QED
          BY <1>4, <2>1, <5>1 DEF CheckName
      <4> QED
        BY <4>1, <4>2, <4>3
    <3>2. Refused
      BY <3>1, AddressedFacts DEF Refused
    <3> QED
      BY <2>1, <3>1, <3>2, Promised
  <2>2. CASE call' # NoCall
    <3>1. PICK a \in {"get", "set"} : a = IF call.method = "write" THEN "set" ELSE "get"
      OBVIOUS
    <3>2. /\ call # NoCall /\ UNCHANGED <<control_buffers, reply>> /\ made' = made
          /\ call' = [call EXCEPT !.at = a, !.rest = call.rest, !.got = call.got]
      BY <1>0, <1>4, <2>2, <3>1, CheckNameStep DEF main
    <3>3. /\ call'.method = call.method /\ call'.effect = call.effect
          /\ call'.name = call.name /\ call'.value = call.value
          /\ call'.early = call.early
      BY <1>0, <3>2, CallKept
    <3> QED
      BY <1>3, <2>2, <3>2, <3>3
  <2> QED
    BY <2>1, <2>2
<1>5. CASE Read
  <2>1. /\ call # NoCall /\ call' = NoCall /\ call.method = "read" /\ call.at = "get"
        /\ ByName \in Cell /\ control_buffers[ByName] \in Double
        /\ reply' = Only(ByName, control_buffers[ByName]) /\ UNCHANGED control_buffers
    BY <1>5, ReadStep
  <2>2. Addressed = {ByName}
    BY <2>1, AddressedFacts DEF IInv, CallInv
  <2>3. /\ IsReply(Only(ByName, control_buffers[ByName]))
        /\ DOMAIN Only(ByName, control_buffers[ByName]) = {ByName}
        /\ Only(ByName, control_buffers[ByName])[ByName] = control_buffers[ByName]
    BY <2>1, OnlyFacts
  <2>4. Shown
    BY <2>1, <2>2, <2>3 DEF Shown, IsReply
  <2> QED
    BY <2>1, <2>4, Promised
<1>6. CASE ReadNext
  <2>1. call # NoCall /\ UNCHANGED <<control_buffers, reply>> /\ made' = made
    BY <1>6, ReadNextStep DEF main
  <2>2. PICK p \in call.rest :
          call' = [call EXCEPT !.at = "get", !.rest = call.rest \ {p},
                     !.got = With(call.got, Target, control_buffers[Target])]
    BY <1>6, ReadNextStep
  <2>3. IsReply(With(call.got, Target, control_buffers[Target]))
    <3>1. Target \in Cell /\ control_buffers[Target] \in Double
      BY <1>6, ReadNextStep, TargetFacts DEF ReadNext, Getting
    <3> QED
      BY <1>0, <2>1, <3>1, WithFacts
  <2>4. /\ call' # NoCall /\ call'.method = call.method /\ call'.effect = call.effect
        /\ call'.name = call.name /\ call'.value = call.value
        /\ call'.early = call.early
    BY <1>0, <2>1, <2>2, <2>3, CallKept
  <2> QED
    BY <1>3, <2>1, <2>4
<1>7. CASE ReadAllDone
  <2>1. /\ call # NoCall /\ call' = NoCall /\ call.method = "read_all" /\ call.rest = {}
        /\ reply' = call.got /\ UNCHANGED control_buffers
    BY <1>7, Waiting DEF ReadAllDone, Answer
  <2>2. Addressed = Asked(ControlsOf(call.effect)) /\ DOMAIN call.got = Asked(ControlsOf(call.effect))
    <3>1. ControlsOf(call.effect) \ call.rest = ControlsOf(call.effect)
      BY <2>1
    <3> QED
      BY <2>1, <3>1, AddressedFacts DEF IInv, CallInv
  <2>3. \A c \in DOMAIN call.got : c \in Input => call.got[c] = control_buffers[c]
    BY <1>0, <2>1 DEF IInv, CallInv
  <2>4. Shown
    BY <1>0, <2>1, <2>2, <2>3 DEF Shown, IsReply
  <2> QED
    BY <2>1, <2>4, Promised
<1>8. CASE KnudgeRead
  <2> DEFINE sum == Plus[<<control_buffers[ByName], call.value>>]
  <2>1. /\ call # NoCall /\ UNCHANGED <<control_buffers, reply>> /\ made' = made
        /\ ByName \in Cell /\ sum \in Double
        /\ call' = [call EXCEPT !.at = "set", !.rest = call.rest, !.got = Only(ByName, sum)]
    BY <1>8, KnudgeReadStep DEF main
  <2>2. IsReply(Only(ByName, sum))
    BY <2>1, OnlyFacts
  <2> HIDE DEF sum
  <2>3. /\ call' # NoCall /\ call'.method = call.method /\ call'.effect = call.effect
        /\ call'.name = call.name /\ call'.value = call.value
        /\ call'.early = call.early
    BY <1>0, <2>1, <2>2, CallKept
  <2> QED
    BY <1>3, <2>1, <2>3
<1>9. CASE SetControl
  <2>1. /\ ByName \in Input /\ Target = ByName /\ call # NoCall /\ call' = NoCall
        /\ control_buffers' = [control_buffers EXCEPT ![ByName] = Rounded[NewValue]]
        /\ reply' = call.got
    BY <1>9, SetControlStep
  <2>2. call.at = "set" /\ call.method \in {"write", "knudge"} /\ ~call.early
    BY <1>0, <1>9, <2>1 DEF SetControl, IInv, CallInv
  <2>3. Addressed = {ByName}
    BY <2>1, <2>2, AddressedFacts DEF IInv, CallInv
  <2>4. CASE call.method = "write"
    <3>1. NewValue = call.value /\ call.got = Nothing
      BY <2>1, <2>4 DEF NewValue, IInv, CallInv
    <3>2. reply' \in [{} -> Double]
      BY <2>1, <3>1 DEF Nothing
    <3>3. Written
      BY <2>1, <2>3, <2>4, <3>1, <3>2 DEF Written
    <3> QED
      BY <2>1, <3>3, Promised
  <2>5. CASE call.method = "knudge"
    <3>1. /\ DOMAIN call.got = {ByName}
          /\ call.got[ByName] = Plus[<<control_buffers[ByName], call.value>>]
      BY <2>1, <2>2, <2>5 DEF IInv, CallInv
    <3>2. NewValue = Plus[<<control_buffers[ByName], call.value>>]
      BY <2>1, <2>5, <3>1 DEF NewValue
    <3>3. call.got = Only(ByName, Plus[<<control_buffers[ByName], call.value>>])
      BY <1>0, <2>1, <3>1 DEF Only, IsReply
    <3>4. Knudged
      BY <2>1, <2>3, <2>5, <3>2, <3>3 DEF Knudged
    <3> QED
      BY <2>1, <3>4, Promised
  <2> QED
    BY <2>2, <2>4, <2>5
<1>10. CASE RunEnd
  <2>1. /\ control_buffers' \in [Cell -> Double]
        /\ \A c \in Input : control_buffers'[c] = control_buffers[c]
        /\ UNCHANGED <<call, reply>>
    BY <1>0, <1>10, RunEndStep
  <2>2. Req' = Req /\ Settled' /\ Settled
    BY <1>0, <2>1, SettledFacts DEF Req, Addressed, Ids, ControlsOf
  <2>3. Registers!Run
    BY <2>1, <2>2 DEF Registers!Run, Req
  <2> QED
    BY <2>2, <2>3 DEF Registers!Next, Settled
<1> QED
  BY <1>0, <1>1, <1>2, <1>4, <1>5, <1>6, <1>7, <1>8, <1>9, <1>10, Steps
     DEF Halt, Export, Construct, Setting, SetConfigured, EffectDone, RunLock, vars

\* Before that there is no promise.
LEMMA StartUpStep ==
  ASSUME IInv', ~Settled
  PROVE  Registers!Next
<1>1. ReqOK'
  BY ReqFacts, PTL
<1> QED
  BY <1>1 DEF ReqOK, Req, Settled, Registers!Next, Registers!StartUp, Registers!IsReply,
              Registers!NoRequest

\* From the end of start-up on the controls are registers and each call is one
\* step, although knudge takes the mutex twice, read_all once for each control,
\* and plug-ins run in between (src/ladspa.cxx:243-256, 268-277).
THEOREM Refinement == Spec => ImplementsRegisters
<1>1. Init => Registers!Init
  <2>1. SUFFICES ASSUME Init PROVE Registers!Init
    OBVIOUS
  <2>2. control_buffers \in [Cell -> Double]
    BY <2>1, ControlAssumption DEF Init
  <2>3. Registers!IsReply(reply)
    BY <2>1, NothingIsReply DEF Init, Registers!IsReply, IsReply
  <2> QED
    BY <2>1, <2>2, <2>3 DEF Init, Registers!Init, Registers!NoRequest, Settled
<1>2. IInv /\ IInv' /\ [Next]_vars => [Registers!Next]_(Registers!vars)
  BY SettledStep, StartUpStep
<1> QED
  BY <1>1, <1>2, Invariance, PTL DEF Spec, ImplementsRegisters, Registers!Spec

-----------------------------------------------------------------------------
(* A call comes to its end.                                                *)

\* A step of a call brings it nearer to its end: read_all has a port less to ask
\* for, the others go from the test of the name to the controls and do not turn
\* back.
Nearer ==
  IF call.method = "read_all"
  THEN call'.at = "get" /\ call'.rest \subseteq call.rest /\ call'.rest # call.rest
  ELSE <<call.at, call'.at>>
         \in {<<"check", "get">>, <<"check", "set">>, <<"get", "set">>}

SameCall ==
  /\ call'.method = call.method /\ call'.effect = call.effect
  /\ call'.name = call.name /\ call'.value = call.value

\* Nothing that is done meanwhile sets a call back or puts another one in its
\* place, and no call can go on for ever: what keeps it from being answered is the
\* mutex or a thread that is not scheduled (src/ladspa.cxx:233-287).
THEOREM CallsAdvance ==
  Spec => [][call # NoCall /\ call' \notin {NoCall, call} => SameCall /\ Nearer]_vars
<1> DEFINE Advances == call # NoCall /\ call' \notin {NoCall, call} => SameCall /\ Nearer
<1>1. ASSUME IInv, [Next]_vars, call # NoCall, call' \notin {NoCall, call}
      PROVE  SameCall /\ Nearer
  <2>1. IsCall(call) /\ IsReply(call.got) /\ call.rest \subseteq call.rest /\ TypeOK
    BY <1>1, CallFacts DEF IInv, IsCall
  <2>2. CASE CheckName
    <3> DEFINE to == IF call.method = "write" THEN "set" ELSE "get"
    <3>1. /\ call.at = "check" /\ made' = made /\ to \in {"get", "set"}
          /\ call' = [call EXCEPT !.at = to, !.rest = call.rest, !.got = call.got]
      BY <1>1, <2>1, <2>2, CheckNameStep DEF main
    <3> HIDE DEF to
    <3>2. SameCall /\ call'.at = to
      BY <1>1, <2>1, <3>1, CallKept DEF SameCall
    <3>3. call.method # "read_all"
      BY <1>1, <3>1 DEF IInv, CallInv
    <3> QED
      BY <3>1, <3>2, <3>3 DEF Nearer
  <2>3. CASE ReadNext
    <3> DEFINE got == With(call.got, Target, control_buffers[Target])
    <3>1. call.method = "read_all" /\ made' = made /\ control_buffers[Target] \in Double
      BY <1>1, <2>3, ReadNextStep DEF main
    <3>2. PICK p \in call.rest :
            call' = [call EXCEPT !.at = "get", !.rest = call.rest \ {p}, !.got = got]
      BY <1>1, <2>3, ReadNextStep
    <3>3. IsReply(got)
      <4>1. Target \in Cell
        BY <1>1, <2>3, TargetFacts DEF ReadNext, Getting
      <4> QED
        BY <2>1, <3>1, <4>1, WithFacts
    <3> HIDE DEF got
    <3>4. SameCall /\ call'.at = "get" /\ call'.rest = call.rest \ {p}
      BY <1>1, <2>1, <3>1, <3>2, <3>3, CallKept DEF SameCall
    <3> QED
      BY <3>1, <3>4 DEF Nearer
  <2>4. CASE KnudgeRead
    <3> DEFINE got == Only(ByName, Plus[<<control_buffers[ByName], call.value>>])
    <3>1. /\ call.at = "get" /\ call.method = "knudge" /\ made' = made
          /\ call' = [call EXCEPT !.at = "set", !.rest = call.rest, !.got = got]
          /\ IsReply(got)
      BY <1>1, <2>4, KnudgeReadStep, OnlyFacts DEF main
    <3> HIDE DEF got
    <3>2. SameCall /\ call'.at = "set"
      BY <1>1, <2>1, <3>1, CallKept DEF SameCall
    <3> QED
      BY <3>1, <3>2 DEF Nearer
  <2>5. CheckName \/ ReadNext \/ KnudgeRead
    <3>1. ~(Read \/ ReadAllDone \/ SetControl)
      BY <1>1 DEF Read, ReadAllDone, SetControl, Answer
    <3>2. ~(Export \/ Construct \/ Setting \/ EffectDone \/ Halt)
      BY <1>1, SettingStep DEF Halt, Export, Construct, EffectDone, IInv
    <3>3. ~(RunEnd \/ UNCHANGED vars \/ \E e \in Effect : RunLock(e))
      BY <1>1 DEF RunLock, RunEnd, vars
    <3>4. ~\E e \in Effect, m \in Method, n \in Name, v \in Double : Receiving(e, m, n, v)
      BY <1>1 DEF Receiving
    <3> QED
      BY <1>1, <3>1, <3>2, <3>3, <3>4, Steps
  <2> QED
    BY <2>2, <2>3, <2>4, <2>5
<1>2. IInv /\ [Next]_vars => [Advances]_vars
  BY <1>1
<1> QED
  BY <1>2, Invariance, PTL DEF Spec
=============================================================================
