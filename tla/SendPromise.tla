----------------------------- MODULE SendPromise -----------------------------
(***************************************************************************)
(* What send_to_tokens promises to notification_service, with no           *)
(* semaphore, deadline, thread or queue in sight.                          *)
(*                                                                         *)
(* A call asks for a set of sends.  It tells each of them once and for     *)
(* all, and is answered when it has told all of them.  A send is delivered *)
(* once at most, only if it was asked for, and no longer once its outcome  *)
(* has been told; only of a TIMEOUT it is open what becomes of it.         *)
(* FcmSend, the detailed specification, implements this one.               *)
(***************************************************************************)

CONSTANTS
  Call,   \* calls of send_to_tokens
  Token   \* device tokens

VARIABLES
  stage,     \* stage[c]: "idle", "sending", "returned"
  asked,     \* sends a call has been asked for
  told,      \* told[s]: "none", or the code in the call's result
  delivered  \* sends whose notification has gone out

promise == <<stage, asked, told, delivered>>

Send == Call \X Token

Init ==
  /\ stage = [c \in Call |-> "idle"]
  /\ asked = {}
  /\ told = [s \in Send |-> "none"]
  /\ delivered = {}

Ask(c, T) ==
  /\ stage[c] = "idle"
  /\ stage' = [stage EXCEPT ![c] = "sending"]
  /\ asked' = asked \cup ({c} \X T)
  /\ UNCHANGED <<told, delivered>>

\* A notification of a send that was given up may still go out, one of a call
\* that has returned, too.
Deliver(s) ==
  /\ s \in asked \ delivered
  /\ told[s] \in {"none", "TIMEOUT"}
  /\ delivered' = delivered \cup {s}
  /\ UNCHANGED <<stage, asked, told>>

\* Success is what was delivered, a dead token what was not; an error and a
\* TIMEOUT say nothing of it.
Tell(s, x) ==
  /\ s \in asked /\ stage[s[1]] = "sending" /\ told[s] = "none"
  /\ x = "success" => s \in delivered
  /\ x = "dead" => s \notin delivered
  /\ told' = [told EXCEPT ![s] = x]
  /\ UNCHANGED <<stage, asked, delivered>>

Answer(c) ==
  /\ stage[c] = "sending"
  /\ \A s \in asked : s[1] = c => told[s] # "none"
  /\ stage' = [stage EXCEPT ![c] = "returned"]
  /\ UNCHANGED <<asked, told, delivered>>

Next ==
  \/ \E c \in Call, T \in SUBSET Token : Ask(c, T)
  \/ \E c \in Call : Answer(c)
  \/ \E s \in Send : Deliver(s) \/ \E x \in {"success", "dead", "error", "TIMEOUT"} : Tell(s, x)

Spec == Init /\ [][Next]_promise
==============================================================================
