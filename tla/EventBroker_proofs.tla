------------------------- MODULE EventBroker_proofs -------------------------
(***************************************************************************)
(* For any set of senders, any capacity and any number of sends: the type  *)
(* invariant, the absence of lost wake-ups, and the refinement of          *)
(* EventQueue.  All rest on one inductive invariant, at whose centre is    *)
(* that a thread between its lock and its unlock is the mutex's owner.     *)
(***************************************************************************)
EXTENDS EventBroker, TLAPS

MutexInv ==
  \A t \in Thread : pc[t] \in Holding <=> pending_events_mutex = t

\* What the assertion and the predicate established still holds when the list
\* is changed, or slept on, because the mutex was not released in between.
CheckedInv ==
  /\ \A t \in Thread : pc[t] = "append" => Len(pending_events) < Capacity
  /\ pc[Receiver] = "sleep" => pending_events = <<>>

IInv == TypeOK /\ MutexInv /\ CheckedInv /\ PopFindsEvent /\ NoLostWakeup

\* At the start no thread is inside the broker, and the list is empty.
LEMMA InitIInv == Init => IInv
  <1> SUFFICES ASSUME Init PROVE IInv
    OBVIOUS
  <1> USE BrokerAssumption DEF Init
  <1>1. TypeOK
    <2>1. pc \in [Thread -> Label] /\ \A t \in Thread : pc[t] \notin Receiving
      BY DEF Label, Holding, Receiving
    <2>2. pending_events \in Seq(Event) /\ Len(pending_events) <= Capacity
      OBVIOUS
    <2>3. QED
      BY <2>1, <2>2 DEF TypeOK
  <1>2. MutexInv
    BY DEF MutexInv, Holding
  <1>3. CheckedInv /\ PopFindsEvent /\ NoLostWakeup
    BY DEF CheckedInv, PopFindsEvent, NoLostWakeup, Thread
  <1>4. QED
    BY <1>1, <1>2, <1>3 DEF IInv

\* Every step of every thread keeps the invariant.
LEMMA NextIInv == IInv /\ [Next]_vars => IInv'
  <1> SUFFICES ASSUME IInv, [Next]_vars PROVE IInv'
    OBVIOUS
  <1> USE BrokerAssumption DEF IInv, TypeOK, MutexInv, CheckedInv,
                               PopFindsEvent, NoLostWakeup
  <1> USE DEF Goto, Label, Holding, Receiving
  <1>0. Receiver \in Thread
    BY DEF Thread
  <1>1. ASSUME NEW t \in Thread, NEW e \in Event, SendCall(t, e) PROVE IInv'
    BY <1>0, <1>1 DEF SendCall
  <1>2. CASE GetCall
    BY <1>0, <1>2 DEF GetCall
  <1>3. ASSUME NEW t \in Thread, Lock(t) PROVE IInv'
    BY <1>0, <1>3 DEF Lock
  <1>4. ASSUME NEW t \in Thread, Check(t) PROVE IInv'
    BY <1>0, <1>4 DEF Check
  <1>5. ASSUME NEW t \in Thread, PushBack(t) PROVE IInv'
    BY <1>0, <1>5 DEF PushBack
  <1>6. ASSUME NEW t \in Thread, NotifyOne(t) PROVE IInv'
    BY <1>0, <1>6 DEF NotifyOne
  <1>7. ASSUME NEW t \in Thread, Unlock(t) PROVE IInv'
    BY <1>0, <1>7 DEF Unlock
  <1>8. CASE TestPredicate
    BY <1>0, <1>8 DEF TestPredicate
  <1>9. CASE Sleep
    BY <1>0, <1>9 DEF Sleep
  <1>10. CASE PopFront
    BY <1>0, <1>10 DEF PopFront
  <1>11. CASE SpuriousWake
    BY <1>0, <1>11 DEF SpuriousWake
  <1>12. CASE UNCHANGED vars
    BY <1>12 DEF vars
  <1>13. QED
    BY <1>1, <1>2, <1>3, <1>4, <1>5, <1>6, <1>7, <1>8, <1>9, <1>10, <1>11,
       <1>12 DEF Next, SendStep, GetStep

LEMMA Inductive == Spec => []IInv
  BY InitIInv, NextIInv, PTL DEF Spec

\* The list never exceeds the bound of the assertion, whatever the senders
\* do, and nobody but the main loop is ever inside get_event.
THEOREM TypeCorrect == Spec => []TypeOK
  <1>1. IInv => TypeOK
    BY DEF IInv
  <1>2. QED
    BY <1>1, Inductive, PTL

\* pop_front always finds an event, spurious wake-ups included.
THEOREM PopSafe == Spec => []PopFindsEvent
  <1>1. IInv => PopFindsEvent
    BY DEF IInv
  <1>2. QED
    BY <1>1, Inductive, PTL

\* No event waits in the list for a receiver that nobody will wake.
THEOREM WakeupsKept == Spec => []NoLostWakeup
  <1>1. IInv => NoLostWakeup
    BY DEF IInv
  <1>2. QED
    BY <1>1, Inductive, PTL

-----------------------------------------------------------------------------
\* A step of the broker is a step of the abstract queue or leaves the list
\* alone: only PushBack and PopFront touch it.
LEMMA StepSimulation == IInv /\ [Next]_vars => [Queue!Next]_pending_events
  <1> SUFFICES ASSUME IInv, [Next]_vars PROVE [Queue!Next]_pending_events
    OBVIOUS
  <1> USE DEF IInv, TypeOK
  <1>1. ASSUME NEW t \in Thread, PushBack(t) PROVE Queue!Next
    <2>1. event_name_in[t] \in Event /\ Len(pending_events) < Capacity
      BY <1>1 DEF PushBack, Goto, CheckedInv
    <2>2. Queue!Send(event_name_in[t])
      BY <1>1, <2>1, BrokerAssumption DEF PushBack, Queue!Send, Queue!Full
    <2>3. QED
      BY <2>1, <2>2 DEF Queue!Next
  <1>2. CASE PopFront
    <2>1. pending_events # <<>>
      BY <1>2 DEF PopFront, Goto, PopFindsEvent
    <2>2. Head(pending_events) \in Event
      BY <2>1
    <2>3. Queue!Get(Head(pending_events))
      BY <1>2, <2>1 DEF PopFront, Queue!Get
    <2>4. QED
      BY <2>2, <2>3 DEF Queue!Next
  <1>3. CASE ~ (PopFront \/ \E t \in Thread : PushBack(t))
    BY <1>3 DEF Next, SendStep, GetStep, vars, SendCall, GetCall, Lock, Check,
                NotifyOne, Unlock, TestPredicate, Sleep, SpuriousWake
  <1>4. QED
    BY <1>1, <1>2, <1>3

\* send_event and get_event are what EventQueue says they are, which is what
\* the model of the whole program takes them to be.
THEOREM Refinement == Spec => ImplementsQueue
  <1>1. Init => Queue!Init
    BY DEF Init, Queue!Init
  <1>2. QED
    BY <1>1, StepSimulation, Inductive, PTL
       DEF Spec, ImplementsQueue, Queue!Spec
=============================================================================
