----------------------------- MODULE EventQueue -----------------------------
(***************************************************************************)
(* What event::broker promises its callers: a FIFO list of event names to  *)
(* which send_event appends and from which get_event takes the oldest,     *)
(* each in one indivisible step.  send_event asserts that the list is      *)
(* shorter than Capacity (50 in the code), so a send to a full list is not *)
(* a step of the queue: the assertion ends the program instead.            *)
(***************************************************************************)
EXTENDS Naturals, Sequences

CONSTANTS
  Event,     \* event::name
  Capacity   \* the bound that send_event asserts

VARIABLE pending_events

\* Mutant of Full: the assertion tolerates one event too many.
FullOffByOne == Len(pending_events) > Capacity

\* pending_events.size() < 50 does not hold.
Full == Len(pending_events) >= Capacity

Init == pending_events = <<>>

Send(e) ==
  /\ ~Full
  /\ pending_events' = Append(pending_events, e)

Get(e) ==
  /\ pending_events # <<>>
  /\ e = Head(pending_events)
  /\ pending_events' = Tail(pending_events)

Next == \E e \in Event : Send(e) \/ Get(e)

Spec == Init /\ [][Next]_pending_events
=============================================================================
