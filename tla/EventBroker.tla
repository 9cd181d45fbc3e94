----------------------------- MODULE EventBroker ----------------------------
(***************************************************************************)
(* event::broker at the grain of its mutex and condition variable.         *)
(*                                                                         *)
(* Any thread may send; one thread, the caller of get_event, receives (the *)
(* main loop, which also sends audio_started itself).  A thread moves      *)
(* through                                                                 *)
(*                                                                         *)
(*   send_event:  send -> check -> append -> notify -> unlock              *)
(*   get_event:   get -> test -> (sleep -> wait -> relock -> test)*        *)
(*                    -> pop -> unlock                                     *)
(*                                                                         *)
(* wait(lock, pred) tests the predicate, releases the mutex and joins the  *)
(* waiters in one step, is woken by notify_one or for no reason at all,    *)
(* takes the mutex again and tests again.  A failed assertion ends the     *)
(* process: no thread takes a step once aborted is TRUE.                   *)
(***************************************************************************)
EXTENDS Naturals, Sequences

CONSTANTS
  Sender,     \* the threads that call send_event
  Receiver,   \* the thread that calls get_event
  Event,      \* event::name
  Capacity,   \* the bound asserted in send_event
  MaxSends,   \* bound of the model: how many sends are started
  Free        \* the value of the mutex when no thread holds it

Thread == Sender \union {Receiver}

ASSUME BrokerAssumption ==
  /\ Capacity \in Nat \ {0}
  /\ MaxSends \in Nat
  /\ Free \notin Thread
  /\ Event # {}

VARIABLES
  pending_events,        \* the list
  pending_events_mutex,  \* the thread that holds the mutex, or Free
  pc,                    \* where each thread is
  event_name_in,         \* the argument of each thread's latest send_event
  aborted,               \* the assertion in send_event has failed
  sends,                 \* how many sends were started
  receipts               \* how many events get_event has taken

vars == <<pending_events, pending_events_mutex, pc, event_name_in, aborted,
          sends, receipts>>

\* Where a thread is between taking the mutex and giving it back.
Holding == {"check", "append", "notify", "test", "sleep", "pop", "unlock"}

Label == Holding \union {"idle", "send", "get", "wait", "relock"}

\* Where only the caller of get_event can be.
Receiving == {"get", "test", "sleep", "wait", "relock", "pop"}

-----------------------------------------------------------------------------
Init ==
  /\ pending_events = <<>>
  /\ pending_events_mutex = Free
  /\ pc = [t \in Thread |-> "idle"]
  /\ event_name_in \in [Thread -> Event]
  /\ aborted = FALSE
  /\ sends = 0
  /\ receipts = 0

Goto(t, from, to) ==
  /\ ~aborted
  /\ pc[t] = from
  /\ pc' = [pc EXCEPT ![t] = to]

SendCall(t, e) ==
  /\ sends < MaxSends
  /\ Goto(t, "idle", "send")
  /\ event_name_in' = [event_name_in EXCEPT ![t] = e]
  /\ sends' = sends + 1
  /\ UNCHANGED <<pending_events, pending_events_mutex, aborted, receipts>>

GetCall ==
  /\ Goto(Receiver, "idle", "get")
  /\ UNCHANGED <<pending_events, pending_events_mutex, event_name_in, aborted,
                 sends, receipts>>

\* Mutant of Lock: the mutex is taken whoever holds it.
LockBlindly(t) ==
  /\ \/ Goto(t, "send", "check")
     \/ Goto(t, "get", "test")
     \/ Goto(t, "relock", "test")
  /\ pending_events_mutex' = t
  /\ UNCHANGED <<pending_events, event_name_in, aborted, sends, receipts>>

\* Mutant of Lock: a woken receiver does not test the predicate again.
LockWithoutRetest(t) ==
  /\ pending_events_mutex = Free
  /\ \/ Goto(t, "send", "check")
     \/ Goto(t, "get", "test")
     \/ Goto(t, "relock", "pop")
  /\ pending_events_mutex' = t
  /\ UNCHANGED <<pending_events, event_name_in, aborted, sends, receipts>>

\* get_pending_events_lock, and taking the mutex again at the end of a wait.
Lock(t) ==
  /\ pending_events_mutex = Free
  /\ \/ Goto(t, "send", "check")
     \/ Goto(t, "get", "test")
     \/ Goto(t, "relock", "test")
  /\ pending_events_mutex' = t
  /\ UNCHANGED <<pending_events, event_name_in, aborted, sends, receipts>>

\* The lock object's destructor.
Unlock(t) ==
  /\ Goto(t, "unlock", "idle")
  /\ pending_events_mutex' = Free
  /\ UNCHANGED <<pending_events, event_name_in, aborted, sends, receipts>>

\* Mutant of Check: the bound is off by one.
CheckOffByOne(t) ==
  /\ IF Len(pending_events) <= Capacity
     THEN Goto(t, "check", "append") /\ UNCHANGED aborted
     ELSE Goto(t, "check", "check") /\ aborted' = TRUE
  /\ UNCHANGED <<pending_events, pending_events_mutex, event_name_in, sends,
                 receipts>>

\* assert(pending_events.size() < 50)
Check(t) ==
  /\ IF Len(pending_events) < Capacity
     THEN Goto(t, "check", "append") /\ UNCHANGED aborted
     ELSE Goto(t, "check", "check") /\ aborted' = TRUE
  /\ UNCHANGED <<pending_events, pending_events_mutex, event_name_in, sends,
                 receipts>>

PushBack(t) ==
  /\ Goto(t, "append", "notify")
  /\ pending_events' = Append(pending_events, event_name_in[t])
  /\ UNCHANGED <<pending_events_mutex, event_name_in, aborted, sends, receipts>>

\* Mutant of NotifyOne: the sender leaves without waking anybody.
NotifyNobody(t) ==
  /\ Goto(t, "notify", "unlock")
  /\ UNCHANGED <<pending_events, pending_events_mutex, event_name_in, aborted,
                 sends, receipts>>

NotifyOne(t) ==
  LET Waiters == {w \in Thread : pc[w] = "wait"}
  IN  /\ ~aborted
      /\ pc[t] = "notify"
      /\ \/ /\ Waiters = {}
            /\ pc' = [pc EXCEPT ![t] = "unlock"]
         \/ \E w \in Waiters :
              pc' = [pc EXCEPT ![t] = "unlock", ![w] = "relock"]
      /\ UNCHANGED <<pending_events, pending_events_mutex, event_name_in,
                     aborted, sends, receipts>>

\* pending_events.size() > 0, at every turn of the wait.
TestPredicate ==
  /\ Goto(Receiver, "test", IF Len(pending_events) > 0 THEN "pop" ELSE "sleep")
  /\ UNCHANGED <<pending_events, pending_events_mutex, event_name_in, aborted,
                 sends, receipts>>

\* The wait itself: give the mutex back and join the waiters, in one step.
Sleep ==
  /\ Goto(Receiver, "sleep", "wait")
  /\ pending_events_mutex' = Free
  /\ UNCHANGED <<pending_events, event_name_in, aborted, sends, receipts>>

\* A condition variable may wake a waiter that nobody notified.
SpuriousWake ==
  /\ Goto(Receiver, "wait", "relock")
  /\ UNCHANGED <<pending_events, pending_events_mutex, event_name_in, aborted,
                 sends, receipts>>

\* Mutant of PopFront: the newest event is taken, not the oldest.
PopBack ==
  /\ Goto(Receiver, "pop", "unlock")
  /\ pending_events' = SubSeq(pending_events, 1, Len(pending_events) - 1)
  /\ receipts' = receipts + 1
  /\ UNCHANGED <<pending_events_mutex, event_name_in, aborted, sends>>

PopFront ==
  /\ Goto(Receiver, "pop", "unlock")
  /\ pending_events' = Tail(pending_events)
  /\ receipts' = receipts + 1
  /\ UNCHANGED <<pending_events_mutex, event_name_in, aborted, sends>>

SendStep(t) == Check(t) \/ PushBack(t) \/ NotifyOne(t) \/ Unlock(t)

GetStep == TestPredicate \/ Sleep \/ PopFront

Next ==
  \/ \E t \in Thread :
       \/ \E e \in Event : SendCall(t, e)
       \/ Lock(t)
       \/ SendStep(t)
  \/ GetCall
  \/ GetStep
  \/ SpuriousWake

\* A thread inside an operation is scheduled, and a thread that keeps finding
\* the mutex free in between gets it at last; the main loop calls get_event
\* again after every event.  Nobody has to send, nothing has to wake early.
Fairness ==
  /\ \A t \in Thread : WF_vars(SendStep(t)) /\ SF_vars(Lock(t))
  /\ WF_vars(GetCall)
  /\ WF_vars(GetStep)

Spec == Init /\ [][Next]_vars

FairSpec == Spec /\ Fairness

-----------------------------------------------------------------------------
\* The values of the variables; the list keeps the bound that send_event
\* asserts (src/event.cxx:29), and only the main loop is inside get_event.
TypeOK ==
  /\ pending_events \in Seq(Event)
  /\ Len(pending_events) <= Capacity
  /\ pending_events_mutex \in Thread \union {Free}
  /\ pc \in [Thread -> Label]
  /\ \A t \in Thread : pc[t] \in Receiving => t = Receiver
  /\ event_name_in \in [Thread -> Event]
  /\ aborted \in BOOLEAN
  /\ sends \in Nat
  /\ receipts \in Nat

\* front() and pop_front() are never reached with an empty list, although the
\* receiver may have been woken for no reason (src/event.cxx:37-40).
PopFindsEvent == pc[Receiver] = "pop" => pending_events # <<>>

\* The receiver never sleeps on a list that holds an event, unless a sender
\* still has its notify_one to do: no wake-up is lost between the receiver's
\* test and its wait (src/event.cxx:30-31 against 37).
NoLostWakeup ==
  pc[Receiver] = "wait" /\ pending_events # <<>> =>
    \E t \in Thread : pc[t] = "notify"

\* Seen through its list alone, the broker is the queue of EventQueue: first
\* in, first out, one element at a time, never longer than the asserted bound.
Queue == INSTANCE EventQueue WITH
  Event <- Event, Capacity <- Capacity, pending_events <- pending_events

ImplementsQueue == Queue!Spec

\* The n-th send_event is answered by an n-th return of get_event, unless the
\* assertion ends the program: no event is stranded in the list.
Delivered ==
  \A n \in 1 .. MaxSends : sends >= n ~> (receipts >= n \/ aborted)
=============================================================================
