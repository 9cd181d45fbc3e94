-------------------------- MODULE JackClient_proofs -------------------------
(***************************************************************************)
(* Proofs about JackClient: types and the mutex, that periods fit, and     *)
(* that no object is destroyed under a thread that works on it.            *)
(***************************************************************************)
EXTENDS JackClient, TLAPS

Thread == {"main", "process", "notify", "dbus"}

Serving == {"activating", "loop", "return"}

\* What main has behind it at each place of start-up, and that no thread of JACK
\* is at work before it has to do with the client.
PhaseInv ==
  /\ pc["main"] = "open" <=> client = "closed"
  /\ pc["main"] = "open" => told = {} /\ pc["notify"] = "idle"
  /\ pc["main"] \in {"open", "sample_rate", "buffer_size"} => registered = 0
  /\ pc["main"] \in {"open", "sample_rate", "buffer_size", "register"} => made = <<>>
  /\ pc["main"] \notin {"open", "sample_rate", "buffer_size", "register"} =>
       registered = Len(Callbacks)
  /\ pc["main"] \notin {"open", "sample_rate"} => seen["sample_rate"] \in Value
  /\ pc["main"] \notin {"open", "sample_rate", "buffer_size"} =>
       seen["buffer_size"] \in Value
  /\ client = "active" => pc["main"] \in Serving
  /\ pc["process"] # "none" => pc["main"] \in Serving /\ client \in {"active", "zombie"}

\* While the program runs, the chains were made with what the client has noted,
\* and the server's settings are that too unless the client has yet to be told,
\* or, of the rate, will not be.
SettingsInv ==
  life = "running" =>
    /\ \A k \in DOMAIN made : made[k] = seen
    /\ registered >= 2 /\ "sample_rate" \notin told \union untold =>
         server["sample_rate"] = seen["sample_rate"]
    /\ pc["process"] \in {"init_lock", "init"} /\ "buffer_size" \notin told =>
         server["buffer_size"] \in {period["buffer_size"], seen["buffer_size"]}
    /\ pc["process"] \in {"idle", "lock", "run"} /\ "buffer_size" \notin told =>
         server["buffer_size"] = seen["buffer_size"]
    /\ pc["process"] \in {"lock", "run"} =>
         /\ period["buffer_size"] = seen["buffer_size"]
         /\ period["sample_rate"] = seen["sample_rate"] \/ "sample_rate" \in untold

\* The circle of pointers is closed as soon as there is a client, and main holds
\* the processor until then.
RefsInv ==
  /\ {<<"processor", "dbus">>, <<"processor", "broker">>} \subseteq refs
  /\ pc["main"] = "open" => <<"main", "processor">> \in refs
  /\ pc["main"] # "open" =>
       {<<"processor", "client">>, <<"client", "processor">>} \subseteq refs
  /\ made # <<>> => <<"processor", "chains">> \in refs

IInv == TypeOK /\ PhaseInv /\ SettingsInv /\ PeriodsFit /\ RefsInv

\* What TypeOK says of the threads and of the other variables.
Threads ==
  /\ DOMAIN pc = Thread
  /\ \A t \in Thread : pc[t] \in Label(t) /\ (Holds(t) <=> jack_mutex = t)

Types ==
  /\ life \in {"running", "refused", "terminated", "exited"}
  /\ jack_mutex \in Thread \union {"free"}
  /\ registered \in 0 .. 6
  /\ seen \in [Setting -> Value \union {0}]
  /\ made \in Seq([Setting -> Value])
  /\ refs \subseteq (Object \union {"main"}) \X Object
  /\ stopped \in BOOLEAN
  /\ client \in {"closed", "open", "active", "zombie"}
  /\ server \in [Setting -> Value]
  /\ changes \in 0 .. MaxChanges
  /\ told \subseteq Setting \union {"shutdown"}
  /\ untold \subseteq Setting
  /\ period \in [Setting -> Value]

LEMMA Constants ==
  /\ Value \subseteq Nat \ {0}
  /\ Chains \in Nat
  /\ MaxChanges \in Nat
  /\ Len(Callbacks) = 6
  /\ Callbacks[2] = "sample_rate"
  BY JackClientAssumption DEF Callbacks

LEMMA TypeParts == TypeOK <=> Types /\ Threads
  BY Constants DEF TypeOK, Types, Threads, Thread

\* What moving a thread does to pc.
LEMMA Moved ==
  ASSUME Threads, NEW t \in Thread, NEW from, NEW to, Goto(t, from, to)
  PROVE  /\ life = "running" /\ pc[t] = from
         /\ DOMAIN pc' = Thread
         /\ \A u \in Thread : pc'[u] = IF u = t THEN to ELSE pc[u]
  BY DEF Goto, Threads

-----------------------------------------------------------------------------
\* Every step keeps the types.
LEMMA NextTypes ==
  ASSUME Types, Threads, PhaseInv, [Next]_vars
  PROVE  Types'
  <1> USE Constants DEF Types, program, jack, Setting, Object, Thread, Goto
  <1>1. CASE Open
    BY <1>1 DEF Open, HandlerRef
  <1>2. ASSUME NEW s \in Setting, NEW to \in {"buffer_size", "register"}, ReadSetting(s, to),
             s = "sample_rate" <=> to = "buffer_size"
      PROVE  Types'
    BY <1>2 DEF ReadSetting
  <1>3. CASE SetCallback
    BY <1>3 DEF SetCallback
  <1>4. CASE CallbacksSet
    BY <1>4 DEF CallbacksSet
  <1>5. CASE MakeChain
    <2>1. seen \in [Setting -> Value]
      BY <1>5 DEF MakeChain, PhaseInv
    <2>2. QED
      BY <1>5, <2>1 DEF MakeChain
  <1>6. CASE StartLock
    BY <1>6 DEF StartLock
  <1>7. CASE ActivateChains
    BY <1>7 DEF ActivateChains, GiveBack
  <1>8. CASE JackActivate
    BY <1>8 DEF JackActivate
  <1>9. CASE ChainsMade \/ Activated \/ Return
    BY <1>9 DEF ChainsMade, Activated, Return
  <1>10. CASE DropLocal
    BY <1>10 DEF DropLocal, Held
  <1>11. CASE RateChanged \/ Refused \/ Exit
    BY <1>11 DEF RateChanged, Refused, Exit, Die
  <1>12. CASE ProcessCall
    BY <1>12 DEF ProcessCall
  <1>13. CASE \/ Lock("process", "init_lock", "init")
             \/ Lock("process", "lock", "run")
             \/ Lock("notify", "lock", "handle")
    BY <1>13 DEF Lock
  <1>14. CASE InitHandle
    BY <1>14 DEF InitHandle, Accept, Terminate
  <1>15. CASE ProcessDone
    BY <1>15 DEF ProcessDone
  <1>16. CASE NotifyCall
    BY <1>16 DEF NotifyCall
  <1>17. ASSUME NEW s \in Setting, NotifySetting(s) PROVE Types'
    BY <1>17 DEF NotifySetting, Accept, Terminate
  <1>18. CASE NotifyShutdown
    BY <1>18 DEF NotifyShutdown
  <1>19. CASE DbusCall \/ DbusReturn
    BY <1>19 DEF DbusCall, DbusReturn
  <1>20. ASSUME NEW s \in Setting, NEW v \in Value, ServerSets(s, v) PROVE Types'
    BY <1>20 DEF ServerSets
  <1>21. CASE ServerEnds
    BY <1>21 DEF ServerEnds
  <1>22. CASE UNCHANGED vars
    BY <1>22 DEF vars
  <1>23. QED
    BY <1>1, <1>2, <1>3, <1>4, <1>5, <1>6, <1>7, <1>8, <1>9, <1>10, <1>11,
       <1>12, <1>13, <1>14, <1>15, <1>16, <1>17, <1>18, <1>19, <1>20, <1>21,
       <1>22
       DEF Next, MainStep, ProcessStep, NotifyStep, Setting

\* Every step leaves the threads where they can be, and the mutex to the one that
\* needs it.
LEMMA NextThreads ==
  ASSUME Types, Threads, PhaseInv, [Next]_vars
  PROVE  Threads'
  <1> USE DEF Threads, Types, Thread, Label, Holds, Goto, program, jack
  <1>1. CASE Open
    BY <1>1 DEF Open, HandlerRef
  <1>2. ASSUME NEW s \in Setting, NEW to \in {"buffer_size", "register"}, ReadSetting(s, to),
             s = "sample_rate" <=> to = "buffer_size"
      PROVE  Threads'
    BY <1>2 DEF ReadSetting, Setting
  <1>3. CASE SetCallback
    BY <1>3 DEF SetCallback
  <1>4. CASE CallbacksSet
    BY <1>4 DEF CallbacksSet
  <1>5. CASE MakeChain
    BY <1>5 DEF MakeChain
  <1>6. CASE StartLock
    BY <1>6 DEF StartLock, Free
  <1>7. CASE ActivateChains
    BY <1>7 DEF ActivateChains, GiveBack
  <1>8. CASE JackActivate
    <2>1. /\ DOMAIN pc' = Thread
          /\ pc'["main"] = "activating" /\ pc'["process"] = "init_lock"
          /\ pc'["notify"] = pc["notify"] /\ pc'["dbus"] = pc["dbus"]
      BY <1>8 DEF JackActivate
    <2>2. /\ pc["main"] = "jack_activate" /\ pc["process"] = "none"
          /\ UNCHANGED jack_mutex
      BY <1>8 DEF JackActivate, PhaseInv, Serving
    <2>3. QED
      BY <2>1, <2>2
  <1>9. CASE ChainsMade \/ Activated \/ Return
    BY <1>9 DEF ChainsMade, Activated, Return
  <1>10. CASE DropLocal
    BY <1>10 DEF DropLocal, Held
  <1>11. CASE RateChanged \/ Refused \/ Exit
    BY <1>11 DEF RateChanged, Refused, Exit, Die
  <1>12. CASE ProcessCall
    BY <1>12 DEF ProcessCall
  <1>13. CASE \/ Lock("process", "init_lock", "init")
             \/ Lock("process", "lock", "run")
             \/ Lock("notify", "lock", "handle")
    BY <1>13 DEF Lock, Free
  <1>14. CASE InitHandle
    BY <1>14 DEF InitHandle, Accept, Terminate
  <1>15. CASE ProcessDone
    BY <1>15 DEF ProcessDone
  <1>16. CASE NotifyCall
    BY <1>16 DEF NotifyCall
  <1>17. ASSUME NEW s \in Setting, NotifySetting(s) PROVE Threads'
    BY <1>17 DEF NotifySetting, Accept, Terminate
  <1>18. CASE NotifyShutdown
    BY <1>18 DEF NotifyShutdown
  <1>19. CASE DbusCall \/ DbusReturn
    BY <1>19 DEF DbusCall, DbusReturn
  <1>20. ASSUME NEW s \in Setting, NEW v \in Value, ServerSets(s, v) PROVE Threads'
    BY <1>20 DEF ServerSets
  <1>21. CASE ServerEnds
    BY <1>21 DEF ServerEnds
  <1>22. CASE UNCHANGED vars
    BY <1>22 DEF vars
  <1>23. QED
    BY <1>1, <1>2, <1>3, <1>4, <1>5, <1>6, <1>7, <1>8, <1>9, <1>10, <1>11,
       <1>12, <1>13, <1>14, <1>15, <1>16, <1>17, <1>18, <1>19, <1>20, <1>21,
       <1>22
       DEF Next, MainStep, ProcessStep, NotifyStep, Setting

\* Every step keeps the order of start-up.
LEMMA NextPhase ==
  ASSUME Types, Threads, PhaseInv, [Next]_vars
  PROVE  PhaseInv'
  <1> USE Constants DEF PhaseInv, Threads, Types, Thread, Serving, Goto, program, jack,
             Setting
  <1>1. CASE Open
    BY <1>1 DEF Open, HandlerRef
  <1>2. ASSUME NEW s \in Setting, NEW to \in {"buffer_size", "register"}, ReadSetting(s, to),
             s = "sample_rate" <=> to = "buffer_size"
      PROVE  PhaseInv'
    BY <1>2 DEF ReadSetting, Setting
  <1>3. CASE SetCallback
    BY <1>3 DEF SetCallback
  <1>4. CASE CallbacksSet
    BY <1>4 DEF CallbacksSet
  <1>5. CASE MakeChain
    BY <1>5 DEF MakeChain
  <1>6. CASE StartLock
    BY <1>6 DEF StartLock, Free
  <1>7. CASE ActivateChains
    BY <1>7 DEF ActivateChains, GiveBack
  <1>8. CASE JackActivate
    BY <1>8 DEF JackActivate
  <1>9. CASE ChainsMade \/ Activated \/ Return
    BY <1>9 DEF ChainsMade, Activated, Return
  <1>10. CASE DropLocal
    BY <1>10 DEF DropLocal, Held
  <1>11. CASE RateChanged \/ Refused \/ Exit
    BY <1>11 DEF RateChanged, Refused, Exit, Die
  <1>12. CASE ProcessCall
    BY <1>12 DEF ProcessCall
  <1>13. CASE \/ Lock("process", "init_lock", "init")
             \/ Lock("process", "lock", "run")
             \/ Lock("notify", "lock", "handle")
    BY <1>13 DEF Lock, Free
  <1>14. CASE InitHandle
    BY <1>14 DEF InitHandle, Accept, Terminate
  <1>15. CASE ProcessDone
    BY <1>15 DEF ProcessDone
  <1>16. CASE NotifyCall
    BY <1>16 DEF NotifyCall
  <1>17. ASSUME NEW s \in Setting, NotifySetting(s) PROVE PhaseInv'
    BY <1>17 DEF NotifySetting, Accept, Terminate
  <1>18. CASE NotifyShutdown
    BY <1>18 DEF NotifyShutdown
  <1>19. CASE DbusCall \/ DbusReturn
    BY <1>19 DEF DbusCall, DbusReturn
  <1>20. ASSUME NEW s \in Setting, NEW v \in Value, ServerSets(s, v) PROVE PhaseInv'
    BY <1>20 DEF ServerSets
  <1>21. CASE ServerEnds
    BY <1>21 DEF ServerEnds
  <1>22. CASE UNCHANGED vars
    BY <1>22 DEF vars
  <1>23. QED
    BY <1>1, <1>2, <1>3, <1>4, <1>5, <1>6, <1>7, <1>8, <1>9, <1>10, <1>11,
       <1>12, <1>13, <1>14, <1>15, <1>16, <1>17, <1>18, <1>19, <1>20, <1>21,
       <1>22
       DEF Next, MainStep, ProcessStep, NotifyStep, Setting

\* Every step keeps the chains, the settings and the periods in line.
LEMMA NextSettings ==
  ASSUME Types, Threads, PhaseInv, SettingsInv, PeriodsFit, [Next]_vars
  PROVE  SettingsInv' /\ PeriodsFit'
  <1> USE Constants DEF SettingsInv, PeriodsFit, PhaseInv, Threads, Types, Thread,
             Serving, Goto, program, jack, Setting
  <1>1. CASE Open
    BY <1>1 DEF Open, HandlerRef
  <1>2. ASSUME NEW s \in Setting, NEW to \in {"buffer_size", "register"}, ReadSetting(s, to),
             s = "sample_rate" <=> to = "buffer_size"
      PROVE  SettingsInv' /\ PeriodsFit'
    BY <1>2 DEF ReadSetting
  <1>3. CASE SetCallback
    BY <1>3 DEF SetCallback, Refuses, Free
  <1>4. CASE CallbacksSet
    BY <1>4 DEF CallbacksSet
  <1>5. CASE MakeChain
    BY <1>5 DEF MakeChain
  <1>6. CASE StartLock
    BY <1>6 DEF StartLock
  <1>7. CASE ActivateChains
    BY <1>7 DEF ActivateChains, GiveBack
  <1>8. CASE JackActivate
    BY <1>8 DEF JackActivate
  <1>9. CASE ChainsMade \/ Activated \/ Return
    BY <1>9 DEF ChainsMade, Activated, Return
  <1>10. CASE DropLocal
    BY <1>10 DEF DropLocal, Held
  <1>11. CASE RateChanged \/ Refused \/ Exit
    BY <1>11 DEF RateChanged, Refused, Exit, Die
  <1>12. CASE ProcessCall
    BY <1>12 DEF ProcessCall
  <1>13. CASE \/ Lock("process", "init_lock", "init")
             \/ Lock("process", "lock", "run")
             \/ Lock("notify", "lock", "handle")
    <2>1. CASE Lock("process", "init_lock", "init")
      BY <2>1 DEF Lock
    <2>2. CASE Lock("process", "lock", "run")
      <3>1. /\ life = "running" /\ pc["process"] = "lock" /\ pc'["process"] = "run"
            /\ UNCHANGED <<life, program, jack>>
        BY <2>2 DEF Lock
      <3>2. SettingsInv'
        BY <3>1
      <3>3. /\ \A k \in DOMAIN made : made[k] = seen
            /\ period["buffer_size"] = seen["buffer_size"]
            /\ period["sample_rate"] = seen["sample_rate"] \/ "sample_rate" \in untold
            /\ period["buffer_size"] \in Nat
        BY <3>1
      <3>4. PeriodsFit'
        <4>1. \A k \in DOMAIN made : period["buffer_size"] <= made[k]["buffer_size"]
          BY <3>3
        <4>2. QED
          BY <3>1, <3>3, <4>1
      <3>5. QED
        BY <3>2, <3>4
    <2>3. CASE Lock("notify", "lock", "handle")
      BY <2>3 DEF Lock
    <2>4. QED
      BY <1>13, <2>1, <2>2, <2>3
  <1>14. CASE InitHandle
    BY <1>14 DEF InitHandle, Accept, Terminate, Refuses
  <1>15. CASE ProcessDone
    BY <1>15 DEF ProcessDone
  <1>16. CASE NotifyCall
    BY <1>16 DEF NotifyCall
  <1>17. ASSUME NEW s \in Setting, NotifySetting(s) PROVE SettingsInv' /\ PeriodsFit'
    BY <1>17 DEF NotifySetting, Accept, Terminate, Refuses
  <1>18. CASE NotifyShutdown
    BY <1>18 DEF NotifyShutdown
  <1>19. CASE DbusCall \/ DbusReturn
    BY <1>19 DEF DbusCall, DbusReturn
  <1>20. ASSUME NEW s \in Setting, NEW v \in Value, ServerSets(s, v) PROVE SettingsInv' /\ PeriodsFit'
    BY <1>20 DEF ServerSets, IsSet
  <1>21. CASE ServerEnds
    BY <1>21 DEF ServerEnds
  <1>22. CASE UNCHANGED vars
    BY <1>22 DEF vars
  <1>23. QED
    BY <1>1, <1>2, <1>3, <1>4, <1>5, <1>6, <1>7, <1>8, <1>9, <1>10, <1>11,
       <1>12, <1>13, <1>14, <1>15, <1>16, <1>17, <1>18, <1>19, <1>20, <1>21,
       <1>22
       DEF Next, MainStep, ProcessStep, NotifyStep, Setting

\* Every step keeps the circle of pointers.
LEMMA NextRefs ==
  ASSUME Types, Threads, PhaseInv, RefsInv, [Next]_vars
  PROVE  RefsInv'
  <1> USE DEF RefsInv, PhaseInv, Threads, Types, Thread, Goto, program, jack
  <1>1. CASE Open
    BY <1>1 DEF Open, HandlerRef
  <1>2. ASSUME NEW s \in Setting, NEW to \in {"buffer_size", "register"}, ReadSetting(s, to),
             s = "sample_rate" <=> to = "buffer_size"
      PROVE  RefsInv'
    BY <1>2 DEF ReadSetting, Setting
  <1>3. CASE SetCallback
    BY <1>3 DEF SetCallback
  <1>4. CASE CallbacksSet
    BY <1>4 DEF CallbacksSet
  <1>5. CASE MakeChain
    BY <1>5 DEF MakeChain
  <1>6. CASE StartLock
    BY <1>6 DEF StartLock, Free
  <1>7. CASE ActivateChains
    BY <1>7 DEF ActivateChains, GiveBack
  <1>8. CASE JackActivate
    BY <1>8 DEF JackActivate
  <1>9. CASE ChainsMade \/ Activated \/ Return
    BY <1>9 DEF ChainsMade, Activated, Return
  <1>10. CASE DropLocal
    BY <1>10 DEF DropLocal, Held
  <1>11. CASE RateChanged \/ Refused \/ Exit
    BY <1>11 DEF RateChanged, Refused, Exit, Die
  <1>12. CASE ProcessCall
    BY <1>12 DEF ProcessCall
  <1>13. CASE \/ Lock("process", "init_lock", "init")
             \/ Lock("process", "lock", "run")
             \/ Lock("notify", "lock", "handle")
    BY <1>13 DEF Lock, Free
  <1>14. CASE InitHandle
    BY <1>14 DEF InitHandle, Accept, Terminate
  <1>15. CASE ProcessDone
    BY <1>15 DEF ProcessDone
  <1>16. CASE NotifyCall
    BY <1>16 DEF NotifyCall
  <1>17. ASSUME NEW s \in Setting, NotifySetting(s) PROVE RefsInv'
    BY <1>17 DEF NotifySetting, Accept, Terminate
  <1>18. CASE NotifyShutdown
    BY <1>18 DEF NotifyShutdown
  <1>19. CASE DbusCall \/ DbusReturn
    BY <1>19 DEF DbusCall, DbusReturn
  <1>20. ASSUME NEW s \in Setting, NEW v \in Value, ServerSets(s, v) PROVE RefsInv'
    BY <1>20 DEF ServerSets
  <1>21. CASE ServerEnds
    BY <1>21 DEF ServerEnds
  <1>22. CASE UNCHANGED vars
    BY <1>22 DEF vars
  <1>23. QED
    BY <1>1, <1>2, <1>3, <1>4, <1>5, <1>6, <1>7, <1>8, <1>9, <1>10, <1>11,
       <1>12, <1>13, <1>14, <1>15, <1>16, <1>17, <1>18, <1>19, <1>20, <1>21,
       <1>22
       DEF Next, MainStep, ProcessStep, NotifyStep, Setting

-----------------------------------------------------------------------------
LEMMA InitIInv == Init => IInv
  <1> SUFFICES ASSUME Init PROVE IInv
    OBVIOUS
  <1> USE Constants DEF Init, Thread
  <1>1. Types
    <2>1. seen \in [Setting -> Value \union {0}] /\ made \in Seq([Setting -> Value])
      OBVIOUS
    <2>2. refs \subseteq (Object \union {"main"}) \X Object
      BY DEF Object
    <2>3. /\ told \subseteq Setting \union {"shutdown"} /\ untold \subseteq Setting
          /\ registered \in 0 .. 6 /\ changes \in 0 .. MaxChanges
      OBVIOUS
    <2>4. QED
      BY <2>1, <2>2, <2>3 DEF Types
  <1>2. Threads
    BY DEF Threads, Label, Holds
  <1>3. PhaseInv /\ SettingsInv /\ PeriodsFit /\ RefsInv
    BY DEF PhaseInv, SettingsInv, PeriodsFit, RefsInv, Serving
  <1>4. QED
    BY <1>1, <1>2, <1>3, TypeParts DEF IInv

LEMMA NextIInv == IInv /\ [Next]_vars => IInv'
  <1> SUFFICES ASSUME IInv, [Next]_vars PROVE IInv'
    OBVIOUS
  <1>1. Types /\ Threads /\ PhaseInv /\ SettingsInv /\ PeriodsFit /\ RefsInv
    BY TypeParts DEF IInv
  <1>2. Types' /\ Threads' /\ PhaseInv'
    BY <1>1, NextTypes, NextThreads, NextPhase
  <1>3. SettingsInv' /\ PeriodsFit' /\ RefsInv'
    BY <1>1, NextSettings, NextRefs
  <1>4. TypeOK'
    <2>1. Types' /\ Threads' => TypeOK'
      BY Constants DEF TypeOK, Types, Threads, Thread
    <2>2. QED
      BY <1>2, <2>1
  <1>5. QED
    BY <1>2, <1>3, <1>4 DEF IInv

LEMMA Inductive == Spec => []IInv
  BY InitIInv, NextIInv, PTL DEF Spec

\* What owns each other, or is owned by such, is alive.
LEMMA Circle ==
  ASSUME NEW S \in SUBSET Object,
         \A x \in S : \E o \in S \union {"main"} : <<o, x>> \in refs
  PROVE  S \subseteq Alive
  BY DEF Alive

\* The places where a thread works on objects come after the client was made,
\* except for the dispatcher's.
LEMMA NeedsMet == IInv => HandlersAlive
  <1> SUFFICES ASSUME IInv PROVE HandlersAlive
    OBVIOUS
  <1> USE DEF Object
  <1>1. Types /\ Threads /\ PhaseInv /\ RefsInv
    BY TypeParts DEF IInv
  <1>2. CASE pc["main"] = "open"
    <2>1. {"processor", "dbus"} \subseteq Alive
      BY <1>1, <1>2, Circle DEF RefsInv
    <2>2. pc["process"] = "none" /\ pc["notify"] = "idle"
      BY <1>1, <1>2 DEF PhaseInv, Serving
    <2>3. QED
      BY <2>1, <2>2 DEF HandlersAlive, Needs
  <1>3. CASE pc["main"] # "open"
    <2> DEFINE S == {"processor", "client", "dbus", "broker"}
                    \union (IF made = <<>> THEN {} ELSE {"chains"})
    <2>1. \A x \in S : <<"processor", x>> \in refs \/ x = "processor"
      BY <1>1, <1>3 DEF RefsInv
    <2>2. \A x \in S : \E o \in S \union {"main"} : <<o, x>> \in refs
      BY <1>1, <1>3, <2>1 DEF RefsInv
    <2>3. S \subseteq Alive
      BY <2>2, Circle
    <2>4. QED
      BY <2>3 DEF HandlersAlive, Needs
  <1>4. QED
    BY <1>2, <1>3

-----------------------------------------------------------------------------
\* Types are kept, and jack_mutex is held by the thread that is where it needs
\* it, for any settings and number of chains.
THEOREM TypeCorrect == Spec => []TypeOK
  <1>1. IInv => TypeOK
    BY DEF IInv
  <1>2. QED
    BY <1>1, Inductive, PTL

\* However the server changes its settings while the program starts up and runs,
\* every period fits the buffers of the wires and the effects.
THEOREM PeriodsAlwaysFit == Spec => []PeriodsFit
  <1>1. IInv => PeriodsFit
    BY DEF IInv
  <1>2. QED
    BY <1>1, Inductive, PTL

\* Nothing is destroyed under a callback or a D-Bus method, also after
\* process_audio has dropped its pointers.
THEOREM NothingDestroyed == Spec => []HandlersAlive
  BY NeedsMet, Inductive, PTL

=============================================================================
