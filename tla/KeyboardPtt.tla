----------------------------- MODULE KeyboardPtt ----------------------------
(***************************************************************************)
(* The script keyboard-ptt: twenty times a second it looks whether a key   *)
(* is held, tells rigctld to key the transmitter or not when that has      *)
(* changed, asks for the frequency and the PTT state and shows them.       *)
(*                                                                         *)
(* Requests and answers go over one TCP connection, one at a time.  The    *)
(* alarm of each iteration is the only thing that ends a wait for an       *)
(* answer.  Nothing the script calls catches a die, so every die ends it.  *)
(*                                                                         *)
(* Time is counted in ticks, which pass only while the script runs.  The   *)
(* X server is taken to answer at once.  rigctld, the rig, its other       *)
(* clients and the signals are external.                                   *)
(***************************************************************************)
EXTENDS Naturals, Sequences

CONSTANTS
  AlarmTicks,  \* the alarm, in ticks
  PollTicks    \* KEY_POLL_DELAY, in ticks

ASSUME KeyboardPttAssumption ==
  /\ AlarmTicks \in Nat
  /\ PollTicks \in Nat
  /\ PollTicks < AlarmTicks

Value == {"off", "on"}

\* "T 0" and "T 1", "f" and "t".
Request == Value \union {"f", "t"}

\* "RPRT 0", a frequency, a PTT state, or "RPRT" with a negative number.
Answer == {"done", "freq", "error"} \union Value

VARIABLES
  key,              \* whether the key is held
  pc,               \* where the script waits, or how it stopped
  last_sent_value,  \* state of should_send, "undef" at first
  alarm,            \* ticks until SIGALRM
  ptt_state,        \* what get_ptt returned last, "eof" for undef
  conn,             \* the connection as the script finds it
  requests,         \* sent and not served
  answers,          \* answered and not read
  ptt,              \* whether the rig transmits
  foreign,          \* another client set ptt after the script last did
  since             \* ticks that the key has been as it is while the script ran

script == <<pc, last_sent_value, alarm, ptt_state>>
wire == <<conn, requests, answers>>
world == <<key, ptt, foreign, since>>
vars == <<script, wire, world>>

\* In the loop: before XQueryKeymap, in getline for one of the three answers,
\* in select.
Running == {"query", "set", "freq", "ptt", "sleep"}

\* Not started, after the END block, or dead without one.
Down == {"no", "ended", "killed"}

Init ==
  /\ key = "off"
  /\ pc = "no"
  /\ last_sent_value = "undef"
  /\ alarm = 0
  /\ ptt_state = "eof"
  /\ conn = "closed"
  /\ requests = <<>>
  /\ answers = <<>>
  /\ ptt = "off"
  /\ foreign = FALSE
  /\ since = 0

-----------------------------------------------------------------------------
(* The script.                                                             *)

\* Ends the script; the connection goes with it, but not what rigctld has
\* received.
Stop(how) ==
  /\ pc' = how
  /\ answers' = <<>>
  /\ UNCHANGED <<last_sent_value, alarm, ptt_state, conn, requests>>

\* The END block runs.  Its set_ptt is commented out.
Die == Stop("ended")

\* Mutant of Write: SIGPIPE is ignored and so is the failed write.
WriteIgnoringPipe(text, next) ==
  /\ pc' = next
  /\ requests' = IF conn = "open" THEN Append(requests, text) ELSE requests
  /\ conn' = IF conn = "closed" THEN "written" ELSE conn

\* say $net, then wait for the answer at next.  A peer that has closed takes
\* the first write and resets the connection; a write after that is SIGPIPE,
\* for which the script has no handler, and no END block runs.
Write(text, next) ==
  /\ pc' = IF conn = "reset" THEN "killed" ELSE next
  /\ requests' = IF conn = "open" THEN Append(requests, text) ELSE requests
  /\ conn' = IF conn = "closed" THEN "written" ELSE conn

\* getline returns: an answer, or undef when the connection is at its end.
HasLine == answers # <<>> \/ conn # "open"

Line == IF answers # <<>> THEN Head(answers) ELSE "eof"

LineRead == answers' = IF answers # <<>> THEN Tail(answers) ELSE answers

\* Mutant of NewIteration: alarm(2).
NewIterationLate == pc' = "query" /\ alarm' = AlarmTicks + 1

NewIteration == pc' = "query" /\ alarm' = AlarmTicks

\* A user starts the script when rigctld has dealt with what the run before
\* had sent.
Start ==
  /\ pc \in Down
  /\ requests = <<>>
  /\ NewIteration
  /\ conn' = "open"
  /\ answers' = <<>>
  /\ last_sent_value' = "undef"
  /\ ptt_state' = "eof"
  /\ since' = 0
  /\ UNCHANGED <<key, requests, ptt, foreign>>

\* should_send, for the value of the key.
ShouldSend(value) == last_sent_value # value

\* Mutant of Query: a release is noted and not sent.
QueryForgetsRelease ==
  /\ pc = "query"
  /\ last_sent_value' = key
  /\ IF ShouldSend(key) /\ key = "on"
     THEN Write(key, "set")
     ELSE Write("f", "freq")
  /\ UNCHANGED <<alarm, ptt_state, answers, world>>

\* XQueryKeymap; ptt_on or ptt_off, which send if should_send notes a new
\* value; otherwise get_freq sends.
Query ==
  /\ pc = "query"
  /\ last_sent_value' = key
  /\ IF ShouldSend(key)
     THEN Write(key, "set")
     ELSE Write("f", "freq")
  /\ UNCHANGED <<alarm, ptt_state, answers, world>>

\* Mutants of SetAnswered: any answer will do; the answer is left unread.
SetUnchecked ==
  /\ pc = "set"
  /\ HasLine
  /\ Write("f", "freq")
  /\ LineRead
  /\ UNCHANGED <<last_sent_value, alarm, ptt_state, world>>

SetUnread ==
  /\ pc = "set"
  /\ Write("f", "freq")
  /\ UNCHANGED <<last_sent_value, alarm, ptt_state, answers, world>>

\* network_write dies of an answer that is not RPRT with a number from 0 up;
\* then get_freq sends.
SetAnswered ==
  /\ pc = "set"
  /\ HasLine
  /\ \/ /\ Line = "done"
        /\ Write("f", "freq")
        /\ LineRead
        /\ UNCHANGED <<last_sent_value, alarm, ptt_state>>
     \/ /\ Line # "done"
        /\ Die
  /\ UNCHANGED world

\* What network_read returns to get_freq is compared with 0 as a number: no
\* answer is negative, for "RPRT -1" and undef both count as 0.
FreqAnswered ==
  /\ pc = "freq"
  /\ HasLine
  /\ Write("t", "ptt")
  /\ LineRead
  /\ UNCHANGED <<last_sent_value, alarm, ptt_state, world>>

\* The same in get_ptt.  What it returns is shown as *TRANSMIT* unless it is 0
\* or undef.
PttAnswered ==
  /\ pc = "ptt"
  /\ HasLine
  /\ ptt_state' = Line
  /\ LineRead
  /\ pc' = "sleep"
  /\ UNCHANGED <<last_sent_value, alarm, conn, requests, world>>

\* select returns when KEY_POLL_DELAY has passed since the iteration began, or
\* at once if it has already.
Wake ==
  /\ pc = "sleep"
  /\ AlarmTicks - alarm >= PollTicks
  /\ NewIteration
  /\ UNCHANGED <<last_sent_value, ptt_state, wire, world>>

\* Mutant of Alarm: the handler does not die.
AlarmIgnored ==
  /\ pc \in Running
  /\ alarm = 0
  /\ alarm' = AlarmTicks
  /\ UNCHANGED <<pc, last_sent_value, ptt_state, wire, world>>

\* SIGALRM: its handler dies, also inside getline and select.
Alarm ==
  /\ pc \in Running
  /\ alarm = 0
  /\ Die
  /\ UNCHANGED world

\* SIGINT: its handler dies.
Interrupt ==
  /\ pc \in Running
  /\ Die
  /\ UNCHANGED world

\* SIGTERM or SIGHUP: no END block.
Kill ==
  /\ pc \in Running
  /\ Stop("killed")
  /\ UNCHANGED world

-----------------------------------------------------------------------------
(* The key, time, rigctld and its other clients.                           *)

\* The bound of since: more than a key change may take to reach the rig.
MaxSince == 2 * AlarmTicks + 1

KeyChange ==
  /\ key' \in Value \ {key}
  /\ since' = 0
  /\ UNCHANGED <<script, wire, ptt, foreign>>

\* No time passes between the expiry of the alarm and its signal.
Tick ==
  /\ pc \in Running
  /\ alarm > 0
  /\ alarm' = alarm - 1
  /\ since' = IF since < MaxSince THEN since + 1 ELSE since
  /\ UNCHANGED <<key, pc, last_sent_value, ptt_state, wire, ptt, foreign>>

Reply(a) == answers' = IF pc \in Running THEN Append(answers, a) ELSE answers

\* rigctld does what is asked; if that fails, the rig may have done it or not.
Serve ==
  /\ requests # <<>>
  /\ requests' = Tail(requests)
  /\ LET r == Head(requests)
     IN  \/ /\ r \in Value
            /\ ptt' = r
            /\ foreign' = FALSE
            /\ Reply("done")
         \/ /\ r \in Value
            /\ ptt' \in {ptt, r}
            /\ Reply("error")
            /\ UNCHANGED foreign
         \/ /\ r \notin Value
            /\ \E a \in {IF r = "f" THEN "freq" ELSE ptt, "error"} : Reply(a)
            /\ UNCHANGED <<ptt, foreign>>
  /\ UNCHANGED <<key, script, conn, since>>

\* rigctld goes, and maybe an answer on the way with it.
Close ==
  /\ conn = "open"
  /\ conn' = "closed"
  /\ requests' = <<>>
  /\ answers' \in {answers, <<>>}
  /\ UNCHANGED <<script, world>>

Reset ==
  /\ conn = "written"
  /\ conn' = "reset"
  /\ UNCHANGED <<script, requests, answers, world>>

\* Another client of rigctld, the rig's own PTT switch or its time-out.
OtherClient ==
  /\ ptt' \in Value \ {ptt}
  /\ foreign' = TRUE
  /\ UNCHANGED <<key, script, wire, since>>

-----------------------------------------------------------------------------
Next ==
  \/ Start \/ Query \/ SetAnswered \/ FreqAnswered \/ PttAnswered \/ Wake
  \/ Alarm \/ Interrupt \/ Kill
  \/ KeyChange \/ Tick \/ Serve \/ Close \/ Reset \/ OtherClient

\* The script goes on when it can, time passes, the system delivers SIGALRM
\* and the peer's reset.  Nothing is assumed of rigctld, users and other
\* clients.
Fairness ==
  /\ WF_vars(Query)
  /\ WF_vars(SetAnswered)
  /\ WF_vars(FreqAnswered)
  /\ WF_vars(PttAnswered)
  /\ WF_vars(Wake)
  /\ WF_vars(Alarm)
  /\ WF_vars(Tick)
  /\ WF_vars(Reset)

Spec == Init /\ [][Next]_vars /\ Fairness

-----------------------------------------------------------------------------
\* The values of the variables.
TypeOK ==
  /\ key \in Value
  /\ pc \in Running \union Down
  /\ last_sent_value \in Value \union {"undef"}
  /\ alarm \in 0 .. AlarmTicks
  /\ ptt_state \in Answer \union {"eof"}
  /\ conn \in {"open", "closed", "written", "reset"}
  /\ requests \in Seq(Request)
  /\ answers \in Seq(Answer)
  /\ ptt \in Value
  /\ foreign \in BOOLEAN
  /\ since \in 0 .. MaxSince

\* What can be read while the script waits for the answer to r.
AnswersTo(r) ==
  CASE r = "f" -> {"freq", "error"}
    [] r = "t" -> Value \union {"error"}
    [] OTHER   -> {"done", "error"}

\* The script never takes an answer for that to another question, however
\* late answers are and whichever of them are errors (keyboard-ptt:90-108).
AnswersMatch ==
  /\ pc = "set" /\ answers # <<>> => Line \in AnswersTo(last_sent_value)
  /\ pc = "freq" /\ answers # <<>> => Line \in AnswersTo("f")
  /\ pc = "ptt" /\ answers # <<>> => Line \in AnswersTo("t")

\* should_send notes a value before it is sent and never looks at the rig:
\* still, outside network_write, the note is what the rig does, unless another
\* client meddled (keyboard-ptt:154-176).
MemoTrue ==
  /\ pc \in Running \ {"set"}
  /\ last_sent_value # "undef"
  /\ ~ foreign
  => ptt = last_sent_value

\* While the script runs, the rig does what the key says at most two alarms
\* after the key has changed, however slow or silent rigctld is: one for the
\* iteration that looked too early and one for the answer to the next
\* (keyboard-ptt:47-88).
FollowsInTime ==
  pc \in Running /\ since > 2 * AlarmTicks /\ ~ foreign => ptt = key

\* The script never waits for ever: it comes round to its select again and
\* again, or stops (keyboard-ptt:36, 49).
KeepsPolling == []<>(pc \in Down \union {"sleep"})

\* A script whose rigctld has gone stops, though network_read takes the end of
\* the connection for an answer (keyboard-ptt:90-97).
GoneEnds == conn # "open" ~> pc \in Down

\* "unconditionally turn off PTT when exiting" (keyboard-ptt:40): after the END
\* block, and when rigctld has served what was sent, the rig does not transmit,
\* unless another client asked it to.
PttOffAtEnd ==
  pc = "ended" /\ requests = <<>> /\ ~ foreign => ptt = "off"

\* get_ptt dies of an error of hamlib and so never returns one
\* (keyboard-ptt:113-115).
HamlibErrorsEnd == ptt_state # "error"
=============================================================================
