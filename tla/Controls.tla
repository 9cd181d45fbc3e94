------------------------------ MODULE Controls ------------------------------
(***************************************************************************)
(* What the D-Bus methods of the effects promise once start-up has         *)
(* settled: every control is a register, and each call to read, write or   *)
(* knudge takes effect in one step.  A read_all shows what all inputs held *)
(* at one moment; the outputs that it shows may be of different moments,   *)
(* because a plug-in sets them when it runs.  Before that there is no      *)
(* promise.                                                                *)
(***************************************************************************)
CONSTANTS
  Control,  \* one per effect and port
  Input,    \* those that can be written; a plug-in sets the others
  Double,   \* numbers
  Rounded,  \* the number that a float keeps of each
  Plus      \* the sum of two numbers

VARIABLES
  value,    \* what each control holds
  request,  \* the call that is being handled, with the controls it is about
  reply,    \* what the last call has returned, by control
  settled   \* start-up and the calls that began before its end are over

vars == <<value, request, reply, settled>>

NoRequest == [method |-> "none"]

Request ==
  [method : {"read", "read_all", "write", "knudge"}, controls : SUBSET Control,
   value : Double]

IsReply(r) == DOMAIN r \subseteq Control /\ r \in [DOMAIN r -> Double]

Only(c, v) == [x \in {c} |-> v]

Init ==
  /\ value \in [Control -> Double]
  /\ request = NoRequest
  /\ IsReply(reply)
  /\ settled \in BOOLEAN

StartUp ==
  /\ ~settled
  /\ value' \in [Control -> Double]
  /\ request' \in Request \union {NoRequest}
  /\ IsReply(reply')
  /\ settled' \in BOOLEAN

Call ==
  /\ request = NoRequest
  /\ request' \in Request
  /\ reply' \in [{} -> Double]
  /\ UNCHANGED value

\* A name that nothing is known by.
Refuse ==
  /\ request # NoRequest
  /\ request.controls = {}
  /\ UNCHANGED <<value, reply>>

Show ==
  /\ request.method \in {"read", "read_all"}
  /\ IsReply(reply')
  /\ DOMAIN reply' = request.controls
  /\ \A c \in DOMAIN reply' :
       c \in Input \/ request.method = "read" => reply'[c] = value[c]
  /\ UNCHANGED value

Write ==
  /\ request.method = "write"
  /\ \E c \in Input :
       /\ request.controls = {c}
       /\ value' = [value EXCEPT ![c] = Rounded[request.value]]
  /\ reply' \in [{} -> Double]

Knudge ==
  /\ request.method = "knudge"
  /\ \E c \in Input :
       LET sum == Plus[<<value[c], request.value>>]
       IN  /\ request.controls = {c}
           /\ value' = [value EXCEPT ![c] = Rounded[sum]]
           /\ reply' = Only(c, sum)

Answer ==
  /\ Refuse \/ Show \/ Write \/ Knudge
  /\ request' = NoRequest

Run ==
  /\ value' \in [Control -> Double]
  /\ \A c \in Input : value'[c] = value[c]
  /\ UNCHANGED <<request, reply>>

Next ==
  \/ StartUp
  \/ /\ settled
     /\ UNCHANGED settled
     /\ Call \/ Answer \/ Run

Spec == Init /\ [][Next]_vars
=============================================================================
