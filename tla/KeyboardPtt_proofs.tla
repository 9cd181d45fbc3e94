------------------------- MODULE KeyboardPtt_proofs -------------------------
(***************************************************************************)
(* For any alarm and any polling delay shorter than it: answers match      *)
(* their questions, the note of should_send is what the rig does, and the  *)
(* rig follows the key within two alarms.                                  *)
(***************************************************************************)
EXTENDS KeyboardPtt, TLAPS

\* The request r has been sent and its answer not been read: it is with
\* rigctld, or answered, or lost with the connection.
Outstanding(r) ==
  \/ requests = <<r>> /\ answers = <<>> /\ conn = "open"
  \/ requests = <<>> /\ \E a \in AnswersTo(r) : answers = <<a>>
  \/ requests = <<>> /\ answers = <<>> /\ conn # "open"

\* Where the script waits says what is on the wire.
LockStep ==
  /\ pc \in {"query", "sleep"} => requests = <<>> /\ answers = <<>>
  /\ pc = "set" => last_sent_value \in Value /\ Outstanding(last_sent_value)
  /\ pc = "freq" => Outstanding("f")
  /\ pc = "ptt" => Outstanding("t")

\* The note holds from the moment that rigctld has answered.
MemoInv ==
  /\ MemoTrue
  /\ pc = "set" /\ answers = <<"done">> /\ ~ foreign => ptt = last_sent_value

\* How long the key may have been as it is without the rig being told: since
\* this iteration has looked, or since the one before has.
TimeInv ==
  /\ pc = "query" => \/ last_sent_value = key
                     \/ since <= 2 * AlarmTicks - alarm
  /\ pc = "set" => \/ last_sent_value = key /\ since <= 2 * AlarmTicks - alarm
                   \/ since <= AlarmTicks - alarm
  /\ pc \in {"freq", "ptt", "sleep"} => \/ last_sent_value = key
                                        \/ since <= AlarmTicks - alarm

IInv == TypeOK /\ LockStep /\ MemoInv /\ TimeInv

-----------------------------------------------------------------------------
LEMMA InitIInv == Init => IInv
  <1> SUFFICES ASSUME Init PROVE IInv
    OBVIOUS
  <1>1. requests \in Seq(Request) /\ answers \in Seq(Answer)
    BY DEF Init
  <1>2. alarm \in 0 .. AlarmTicks /\ since \in 0 .. MaxSince
    BY KeyboardPttAssumption DEF Init, MaxSince
  <1>3. TypeOK
    BY <1>1, <1>2 DEF Init, TypeOK, Running, Down, Value
  <1>4. LockStep /\ MemoInv /\ TimeInv
    BY DEF Init, LockStep, MemoInv, MemoTrue, TimeInv, Running
  <1>5. QED
    BY <1>3, <1>4 DEF IInv

\* Reading a line leaves a sequence of answers, and the line is one or the end.
LEMMA LineType ==
  ASSUME TypeOK, HasLine
  PROVE  /\ Line \in Answer \union {"eof"}
         /\ LineRead => answers' \in Seq(Answer)
  BY DEF TypeOK, Line, LineRead

\* What a write does to the connection and the requests.
LEMMA WriteType ==
  ASSUME TypeOK, NEW text \in Request, NEW next \in Running, Write(text, next)
  PROVE  /\ pc' \in Running \union Down
         /\ requests' \in Seq(Request)
         /\ conn' \in {"open", "closed", "written", "reset"}
  BY DEF TypeOK, Write, Down

\* Every step keeps the values in their types.
LEMMA NextTypeOK == TypeOK /\ [Next]_vars => TypeOK'
  <1> SUFFICES ASSUME TypeOK, [Next]_vars PROVE TypeOK'
    OBVIOUS
  <1> USE KeyboardPttAssumption DEF script, wire, world
  <1>0. AlarmTicks \in 0 .. AlarmTicks /\ 0 \in 0 .. MaxSince
    BY DEF MaxSince
  <1>a. ASSUME NEW how \in Down, Stop(how), UNCHANGED <<key, ptt, foreign, since>>
        PROVE  TypeOK'
    BY <1>a DEF Stop, TypeOK
  <1>1. CASE Start
    BY <1>0, <1>1 DEF Start, NewIteration, TypeOK, Running
  <1>2. CASE Query
    <2>1. PICK text \in Request, next \in Running : Write(text, next)
      BY <1>2 DEF Query, ShouldSend, TypeOK, Request, Running
    <2>2. QED
      BY <1>2, <2>1, WriteType DEF Query, ShouldSend, TypeOK
  <1>3. CASE SetAnswered
    <2>1. CASE Line = "done"
      <3>1. Write("f", "freq") /\ LineRead /\ HasLine
            /\ UNCHANGED <<key, last_sent_value, alarm, ptt_state, ptt, foreign, since>>
        BY <1>3, <2>1 DEF SetAnswered
      <3>2. QED
        BY <3>1, WriteType, LineType DEF TypeOK, Request, Running
    <2>2. CASE Line # "done"
      BY <1>3, <1>a, <2>2 DEF SetAnswered, Die, Down
    <2>3. QED
      BY <2>1, <2>2
  <1>4. CASE FreqAnswered
    <2>1. Write("t", "ptt") /\ LineRead /\ HasLine
      BY <1>4 DEF FreqAnswered
    <2>2. QED
      BY <1>4, <2>1, WriteType, LineType DEF FreqAnswered, TypeOK, Request, Running
  <1>5. CASE PttAnswered
    BY <1>5, LineType DEF PttAnswered, TypeOK, Running
  <1>6. CASE Wake
    BY <1>0, <1>6 DEF Wake, NewIteration, TypeOK, Running
  <1>7. CASE Alarm \/ Interrupt \/ Kill
    BY <1>7, <1>a DEF Alarm, Interrupt, Kill, Die, Down
  <1>8. CASE KeyChange
    BY <1>0, <1>8 DEF KeyChange, TypeOK
  <1>9. CASE Tick
    BY <1>9 DEF Tick, TypeOK, MaxSince
  <1>10. CASE Serve
    <2>1. Head(requests) \in Request /\ requests' \in Seq(Request)
      BY <1>10 DEF Serve, TypeOK
    <2>2. PICK a \in Answer : Reply(a)
      BY <1>10 DEF Serve, TypeOK, Answer
    <2>3. answers' \in Seq(Answer)
      BY <2>2 DEF Reply, TypeOK
    <2>4. ptt' \in Value /\ foreign' \in BOOLEAN
      BY <1>10, <2>1 DEF Serve, TypeOK
    <2>5. QED
      BY <1>10, <2>1, <2>3, <2>4 DEF Serve, TypeOK
  <1>11. CASE Close \/ Reset
    <2>1. conn' \in {"open", "closed", "written", "reset"}
      BY <1>11 DEF Close, Reset
    <2>2. requests' \in Seq(Request) /\ answers' \in Seq(Answer)
      <3>1. <<>> \in Seq(Request) /\ <<>> \in Seq(Answer)
        OBVIOUS
      <3>2. CASE Close
        <4>1. requests' = <<>> /\ (answers' = answers \/ answers' = <<>>)
          BY <3>2 DEF Close
        <4>2. QED
          BY <3>1, <4>1 DEF TypeOK
      <3>3. CASE Reset
        BY <3>3 DEF Reset, TypeOK
      <3>4. QED
        BY <1>11, <3>2, <3>3
    <2>3. UNCHANGED <<key, script, ptt, foreign, since>>
      BY <1>11 DEF Close, Reset
    <2>4. QED
      BY <2>1, <2>2, <2>3 DEF TypeOK
  <1>12. CASE OtherClient
    BY <1>12 DEF OtherClient, TypeOK
  <1>13. CASE UNCHANGED vars
    BY <1>13 DEF vars, TypeOK
  <1>14. QED
    BY <1>1, <1>2, <1>3, <1>4, <1>5, <1>6, <1>7, <1>8, <1>9, <1>10, <1>11, <1>12,
       <1>13 DEF Next

-----------------------------------------------------------------------------
(* One question at a time.                                                 *)

\* A write with an empty wire leaves its request outstanding, or ends the
\* script.
LEMMA WriteOutstanding ==
  ASSUME TypeOK, NEW text, NEW next, Write(text, next),
         requests = <<>>, answers' = <<>>
  PROVE  pc' = "killed" \/ (pc' = next /\ Outstanding(text)')
  BY DEF TypeOK, Write, Outstanding

\* Reading an outstanding answer leaves the wire empty.
LEMMA ReadEmpties ==
  ASSUME TypeOK, NEW r, Outstanding(r), HasLine
  PROVE  /\ requests = <<>>
         /\ LineRead => answers' = <<>>
         /\ Line \in AnswersTo(r) \union {"eof"}
  BY DEF TypeOK, Outstanding, HasLine, Line, LineRead

\* The server turns an outstanding request into its answer, and losing the
\* connection leaves it outstanding.
LEMMA WireSteps ==
  ASSUME TypeOK, pc \in Running, NEW r \in Request, Outstanding(r),
         Serve \/ Close \/ Reset
  PROVE  Outstanding(r)'
  <1>1. CASE Serve
    <2>1. requests = <<r>> /\ answers = <<>>
      BY <1>1 DEF Serve, Outstanding
    <2>2. Head(requests) = r /\ requests' = <<>>
      BY <1>1, <2>1 DEF Serve
    <2>3. PICK a \in AnswersTo(r) : Reply(a)
      BY <1>1, <2>2 DEF Serve, AnswersTo, Value, Request, TypeOK
    <2>4. answers' = <<a>>
      BY <2>1, <2>3 DEF Reply
    <2>5. QED
      BY <2>2, <2>4 DEF Outstanding, AnswersTo
  <1>2. CASE Close
    BY <1>2 DEF Close, Outstanding, AnswersTo
  <1>3. CASE Reset
    BY <1>3 DEF Reset, Outstanding, AnswersTo
  <1>4. QED
    BY <1>1, <1>2, <1>3

LEMMA NextLockStep == TypeOK /\ LockStep /\ [Next]_vars => LockStep'
  <1> SUFFICES ASSUME TypeOK, LockStep, [Next]_vars PROVE LockStep'
    OBVIOUS
  <1> USE DEF script, wire, world, Running, Down
  <1>a. ASSUME pc' \in Down PROVE LockStep'
    BY <1>a DEF LockStep
  <1>b. ASSUME UNCHANGED <<pc, last_sent_value, wire>> PROVE LockStep'
    BY <1>b DEF LockStep, Outstanding
  <1>1. CASE Start \/ Wake
    BY <1>1 DEF Start, Wake, NewIteration, LockStep
  <1>2. CASE Query
    <2>1. requests = <<>> /\ answers' = <<>> /\ last_sent_value' = key
      BY <1>2 DEF Query, ShouldSend, LockStep
    <2>2. CASE last_sent_value # key
      <3>1. PICK v \in Value : v = key
        BY DEF TypeOK
      <3>2. Write(v, "set")
        BY <1>2, <2>2, <3>1 DEF Query, ShouldSend
      <3>3. pc' = "killed" \/ (pc' = "set" /\ Outstanding(v)')
        BY <2>1, <3>2, WriteOutstanding
      <3>4. last_sent_value' = v
        BY <2>1, <3>1
      <3>5. QED
        BY <1>a, <3>3, <3>4 DEF LockStep, Outstanding
    <2>3. CASE last_sent_value = key
      <3>1. Write("f", "freq")
        BY <1>2, <2>3 DEF Query, ShouldSend
      <3>2. pc' = "killed" \/ (pc' = "freq" /\ Outstanding("f")')
        BY <2>1, <3>1, WriteOutstanding
      <3>3. QED
        BY <1>a, <3>2 DEF LockStep
    <2>4. QED
      BY <2>2, <2>3
  <1>3. CASE SetAnswered
    <2>1. CASE Line = "done"
      <3>1. Write("f", "freq") /\ LineRead /\ HasLine
            /\ Outstanding(last_sent_value)
        BY <1>3, <2>1 DEF SetAnswered, LockStep
      <3>2. requests = <<>> /\ answers' = <<>>
        BY <3>1, ReadEmpties
      <3>3. pc' = "killed" \/ (pc' = "freq" /\ Outstanding("f")')
        BY <3>1, <3>2, WriteOutstanding
      <3>4. QED
        BY <1>a, <3>3 DEF LockStep
    <2>2. CASE Line # "done"
      BY <1>3, <1>a, <2>2 DEF SetAnswered, Die, Stop
    <2>3. QED
      BY <2>1, <2>2
  <1>4. CASE FreqAnswered
    <2>1. Write("t", "ptt") /\ LineRead /\ HasLine /\ Outstanding("f")
      BY <1>4 DEF FreqAnswered, LockStep
    <2>2. requests = <<>> /\ answers' = <<>>
      BY <2>1, ReadEmpties
    <2>3. pc' = "killed" \/ (pc' = "ptt" /\ Outstanding("t")')
      BY <2>1, <2>2, WriteOutstanding
    <2>4. QED
      BY <1>a, <2>3 DEF LockStep
  <1>5. CASE PttAnswered
    <2>1. LineRead /\ HasLine /\ Outstanding("t")
      BY <1>5 DEF PttAnswered, LockStep
    <2>2. requests = <<>> /\ answers' = <<>>
      BY <2>1, ReadEmpties
    <2>3. QED
      BY <1>5, <2>2 DEF PttAnswered, LockStep
  <1>6. CASE Alarm \/ Interrupt \/ Kill
    BY <1>6, <1>a DEF Alarm, Interrupt, Kill, Die, Stop
  <1>7. CASE KeyChange \/ Tick \/ OtherClient
    BY <1>7, <1>b DEF KeyChange, Tick, OtherClient
  <1>8. CASE Serve \/ Close \/ Reset
    <2>1. UNCHANGED <<pc, last_sent_value>>
      BY <1>8 DEF Serve, Close, Reset
    <2>2. CASE pc \in {"query", "sleep"}
      BY <1>8, <2>1, <2>2 DEF Serve, Close, Reset, LockStep
    <2>3. CASE pc = "set"
      <3>1. last_sent_value \in Value /\ Outstanding(last_sent_value)
        BY <2>3 DEF LockStep
      <3>2. \A r \in Request : Outstanding(r) => Outstanding(r)'
        BY <1>8, <2>3, WireSteps
      <3>3. Outstanding(last_sent_value)'
        BY <2>1, <3>1, <3>2 DEF Request, Outstanding
      <3>4. QED
        BY <2>1, <2>3, <3>1, <3>3 DEF LockStep
    <2>4. CASE pc = "freq" \/ pc = "ptt"
      <3>1. \A r \in Request : Outstanding(r) => Outstanding(r)'
        BY <1>8, <2>4, WireSteps
      <3>2. QED
        BY <2>1, <2>4, <3>1 DEF LockStep, Request
    <2>5. CASE pc \in Down
      BY <1>a, <2>1, <2>5
    <2>6. QED
      BY <2>2, <2>3, <2>4, <2>5 DEF TypeOK
  <1>9. CASE UNCHANGED vars
    BY <1>9, <1>b DEF vars
  <1>10. QED
    BY <1>1, <1>2, <1>3, <1>4, <1>5, <1>6, <1>7, <1>8, <1>9 DEF Next

-----------------------------------------------------------------------------
(* The note and the rig.                                                   *)

LEMMA NextMemoInv == TypeOK /\ LockStep /\ MemoInv /\ [Next]_vars => MemoInv'
  <1> SUFFICES ASSUME TypeOK, LockStep, MemoInv, [Next]_vars PROVE MemoInv'
    OBVIOUS
  <1> USE DEF script, wire, world, Running, Down, MemoTrue
  <1>a. ASSUME pc' \in Down PROVE MemoInv'
    BY <1>a DEF MemoInv
  <1>1. CASE Start
    BY <1>1 DEF Start, NewIteration, MemoInv
  <1>2. CASE Query
    BY <1>2 DEF Query, ShouldSend, Write, LockStep, MemoInv
  <1>3. CASE SetAnswered
    <2>1. CASE Line = "done"
      <3>1. answers = <<"done">>
        BY <1>3, <2>1 DEF SetAnswered, Line, LockStep, Outstanding
      <3>2. QED
        BY <1>3, <2>1, <3>1 DEF SetAnswered, Write, MemoInv
    <2>2. CASE Line # "done"
      BY <1>3, <1>a, <2>2 DEF SetAnswered, Die, Stop
    <2>3. QED
      BY <2>1, <2>2
  <1>4. CASE FreqAnswered
    BY <1>4 DEF FreqAnswered, Write, MemoInv
  <1>5. CASE PttAnswered \/ Wake
    BY <1>5 DEF PttAnswered, Wake, NewIteration, MemoInv
  <1>6. CASE Alarm \/ Interrupt \/ Kill
    BY <1>6, <1>a DEF Alarm, Interrupt, Kill, Die, Stop
  <1>7. CASE KeyChange \/ Tick \/ OtherClient \/ Reset
    BY <1>7 DEF KeyChange, Tick, OtherClient, Reset, MemoInv
  <1>8. CASE Close
    BY <1>8 DEF Close, MemoInv
  <1>9. CASE Serve
    <2>1. UNCHANGED <<pc, last_sent_value>>
      BY <1>9 DEF Serve
    <2>2. CASE pc \in Down
      BY <1>a, <2>1, <2>2
    <2>3. CASE pc = "set"
      <3>1. requests = <<last_sent_value>> /\ answers = <<>>
            /\ last_sent_value \in Value
        BY <1>9, <2>3 DEF Serve, LockStep, Outstanding
      <3>2. \/ ptt' = last_sent_value
            \/ answers' = <<"error">>
        BY <1>9, <2>3, <3>1 DEF Serve, Reply
      <3>3. QED
        BY <2>1, <2>3, <3>2 DEF MemoInv
    <2>4. CASE pc \in {"freq", "ptt"}
      <3>1. requests = <<"f">> \/ requests = <<"t">>
        BY <1>9, <2>4 DEF Serve, LockStep, Outstanding
      <3>2. UNCHANGED <<ptt, foreign>>
        BY <1>9, <3>1 DEF Serve, Value
      <3>3. QED
        BY <2>1, <2>4, <3>2 DEF MemoInv
    <2>5. CASE pc \in {"query", "sleep"}
      BY <1>9, <2>5 DEF Serve, LockStep
    <2>6. QED
      BY <2>2, <2>3, <2>4, <2>5 DEF TypeOK
  <1>10. CASE UNCHANGED vars
    BY <1>10 DEF vars, MemoInv
  <1>11. QED
    BY <1>1, <1>2, <1>3, <1>4, <1>5, <1>6, <1>7, <1>8, <1>9, <1>10 DEF Next

-----------------------------------------------------------------------------
(* Time.                                                                   *)

LEMMA NextTimeInv == TypeOK /\ TimeInv /\ [Next]_vars => TimeInv'
  <1> SUFFICES ASSUME TypeOK, TimeInv, [Next]_vars PROVE TimeInv'
    OBVIOUS
  <1> USE KeyboardPttAssumption DEF script, wire, world, Running, Down
  <1>0. /\ alarm \in Nat /\ alarm <= AlarmTicks
        /\ since \in Nat
    BY DEF TypeOK
  <1>a. ASSUME pc' \in Down PROVE TimeInv'
    BY <1>a DEF TimeInv
  <1>1. CASE Start
    BY <1>0, <1>1 DEF Start, NewIteration, TimeInv
  <1>2. CASE Query
    BY <1>0, <1>2 DEF Query, ShouldSend, Write, TimeInv
  <1>3. CASE SetAnswered
    BY <1>0, <1>3 DEF SetAnswered, Write, Die, Stop, TimeInv
  <1>4. CASE FreqAnswered \/ PttAnswered
    BY <1>4 DEF FreqAnswered, Write, PttAnswered, TimeInv
  <1>5. CASE Wake
    BY <1>0, <1>5 DEF Wake, NewIteration, TimeInv
  <1>6. CASE Alarm \/ Interrupt \/ Kill
    BY <1>6, <1>a DEF Alarm, Interrupt, Kill, Die, Stop
  <1>7. CASE KeyChange
    BY <1>0, <1>7 DEF KeyChange, TimeInv
  <1>8. CASE Tick
    <2>1. alarm' = alarm - 1 /\ since' <= since + 1 /\ since' \in Nat
          /\ UNCHANGED <<pc, last_sent_value, key>>
      BY <1>0, <1>8 DEF Tick
    <2>2. QED
      BY <1>0, <2>1 DEF TimeInv
  <1>9. CASE Serve \/ Close \/ Reset \/ OtherClient
    BY <1>9 DEF Serve, Close, Reset, OtherClient, TimeInv
  <1>10. CASE UNCHANGED vars
    BY <1>10 DEF vars, TimeInv
  <1>11. QED
    BY <1>1, <1>2, <1>3, <1>4, <1>5, <1>6, <1>7, <1>8, <1>9, <1>10 DEF Next

-----------------------------------------------------------------------------
\* The invariant behind the theorems below holds in every reachable state.
THEOREM Inductive == Spec => []IInv
  <1>1. IInv /\ [Next]_vars => IInv'
    BY NextTypeOK, NextLockStep, NextMemoInv, NextTimeInv DEF IInv
  <1>2. QED
    BY <1>1, InitIInv, PTL DEF Spec

\* The variables keep their types, for any alarm and polling delay
\* (keyboard-ptt:47-176).
THEOREM TypeCorrect == Spec => []TypeOK
  <1>1. IInv => TypeOK
    BY DEF IInv
  <1>2. QED
    BY <1>1, Inductive, PTL

\* Answers are taken for the question that they answer
\* (keyboard-ptt:90-108).
THEOREM Matching == Spec => []AnswersMatch
  <1>1. IInv => AnswersMatch
    BY DEF IInv, LockStep, Outstanding, AnswersMatch, Line
  <1>2. QED
    BY <1>1, Inductive, PTL

\* What should_send noted is what the rig does (keyboard-ptt:154-176).
THEOREM MemoKept == Spec => []MemoTrue
  <1>1. IInv => MemoTrue
    BY DEF IInv, MemoInv
  <1>2. QED
    BY <1>1, Inductive, PTL

\* The rig follows the key within two alarms, for any alarm
\* (keyboard-ptt:47-88).
THEOREM Following == Spec => []FollowsInTime
  <1>1. ASSUME IInv, pc \in Running, since > 2 * AlarmTicks, ~ foreign
        PROVE  ptt = key
    <2>1. alarm \in Nat /\ since \in Nat
      BY <1>1 DEF IInv, TypeOK
    <2>2. ~ since <= 2 * AlarmTicks - alarm /\ ~ since <= AlarmTicks - alarm
      BY <1>1, <2>1, KeyboardPttAssumption
    <2>3. pc # "set" /\ last_sent_value = key
      BY <1>1, <2>2 DEF IInv, TimeInv, Running
    <2>4. key # "undef"
      BY <1>1 DEF IInv, TypeOK, Value
    <2>5. QED
      BY <1>1, <2>3, <2>4 DEF IInv, MemoInv, MemoTrue
  <1>2. IInv => FollowsInTime
    BY <1>1 DEF FollowsInTime
  <1>3. QED
    BY <1>2, Inductive, PTL
=============================================================================
