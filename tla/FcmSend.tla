------------------------------- MODULE FcmSend -------------------------------
(***************************************************************************)
(* Sending one message to many devices: send_to_tokens, send_to_token and  *)
(* _send_one_sync of app/services/fcm_service.py.                          *)
(*                                                                         *)
(* Three things run apart from each other: the event loop, which starts    *)
(* sends under a semaphore and gives each a deadline; the default thread   *)
(* pool of the process, in which the blocking firebase-admin calls run;    *)
(* and Firebase.  asyncio.wait_for that runs out cancels a job that is     *)
(* still queued in the pool, and abandons one that a thread already runs:  *)
(* the thread goes on, and what it returns is dropped.  The pool is shared *)
(* by all calls in flight.                                                 *)
(*                                                                         *)
(* Left out: the payload, the credentials (a server without them rejects   *)
(* every call before it sends anything) and the wording of error codes.    *)
(***************************************************************************)
EXTENDS Naturals, FiniteSets

CONSTANTS
  Call,         \* calls of send_to_tokens
  Token,        \* device tokens
  Concurrency,  \* the semaphore of a call (5)
  Workers       \* threads of the default executor

ASSUME ConcurrencyAssumption == Concurrency \in Nat \ {0}

ASSUME WorkersAssumption == Workers \in Nat

VARIABLES
  call,      \* "idle", "sending", "returned"
  send,      \* one send of a call: "none", "waiting" (semaphore), "held", "done"
  job,       \* its job: "none", "queued", "running", "ended", "cancelled"
  reply,     \* what the job returns: "none", "success", "dead", "error"
  result,    \* the error code the call reports: a reply or "TIMEOUT"
  pushed     \* sends Firebase has accepted: their notification is delivered

vars == <<call, send, job, reply, result, pushed>>

Send == Call \X Token
Of(c) == {c} \X Token

Init ==
  /\ call = [c \in Call |-> "idle"]
  /\ send = [s \in Send |-> "none"]
  /\ job = [s \in Send |-> "none"]
  /\ reply = [s \in Send |-> "none"]
  /\ result = [s \in Send |-> "none"]
  /\ pushed = {}
------------------------------------------------------------------------------
(* The event loop *)

\* gather starts one _bounded per token.
Begin(c, T) ==
  /\ call[c] = "idle"
  /\ call' = [call EXCEPT ![c] = "sending"]
  /\ send' = [s \in Send |-> IF s \in {c} \X T THEN "waiting" ELSE send[s]]
  /\ UNCHANGED <<job, reply, result, pushed>>

Held(c) == {s \in Of(c) : send[s] = "held"}

\* Mutation: one send too many.
AcquireOneMore(s) ==
  /\ send[s] = "waiting"
  /\ Cardinality(Held(s[1])) <= Concurrency
  /\ send' = [send EXCEPT ![s] = "held"]
  /\ job' = [job EXCEPT ![s] = "queued"]
  /\ UNCHANGED <<call, reply, result, pushed>>

\* The semaphore lets a send through; to_thread submits its job.
Acquire(s) ==
  /\ send[s] = "waiting"
  /\ Cardinality(Held(s[1])) < Concurrency
  /\ send' = [send EXCEPT ![s] = "held"]
  /\ job' = [job EXCEPT ![s] = "queued"]
  /\ UNCHANGED <<call, reply, result, pushed>>

\* The job has returned before the deadline.
Take(s) ==
  /\ send[s] = "held"
  /\ job[s] = "ended"
  /\ send' = [send EXCEPT ![s] = "done"]
  /\ result' = [result EXCEPT ![s] = reply[s]]
  /\ UNCHANGED <<call, job, reply, pushed>>

\* Mutation: the deadline counts from the start of the thread.
TimeoutOfThread(s) ==
  /\ send[s] = "held"
  /\ job[s] # "queued"
  /\ send' = [send EXCEPT ![s] = "done"]
  /\ result' = [result EXCEPT ![s] = "TIMEOUT"]
  /\ UNCHANGED <<call, job, reply, pushed>>

\* Mutation: the deadline fires although the result has been taken.
TimeoutAfterAll(s) ==
  /\ send[s] \in {"held", "done"}
  /\ send' = [send EXCEPT ![s] = "done"]
  /\ result' = [result EXCEPT ![s] = "TIMEOUT"]
  /\ job' = [job EXCEPT ![s] = IF @ = "queued" THEN "cancelled" ELSE @]
  /\ UNCHANGED <<call, reply, pushed>>

\* The deadline, counted from the submission, has passed first.  A reply that
\* is on its way to the loop is lost, too.
Timeout(s) ==
  /\ send[s] = "held"
  /\ send' = [send EXCEPT ![s] = "done"]
  /\ result' = [result EXCEPT ![s] = "TIMEOUT"]
  /\ job' = [job EXCEPT ![s] = IF @ = "queued" THEN "cancelled" ELSE @]
  /\ UNCHANGED <<call, reply, pushed>>

\* gather has all results.
Return(c) ==
  /\ call[c] = "sending"
  /\ \A s \in Of(c) : send[s] \in {"none", "done"}
  /\ call' = [call EXCEPT ![c] = "returned"]
  /\ UNCHANGED <<send, job, reply, result, pushed>>
------------------------------------------------------------------------------
(* Threads and Firebase *)

Running == {s \in Send : job[s] = "running"}

Start(s) ==
  /\ job[s] = "queued"
  /\ Cardinality(Running) < Workers
  /\ job' = [job EXCEPT ![s] = "running"]
  /\ UNCHANGED <<call, send, reply, result, pushed>>

\* messaging.send has reached Firebase, which delivers.
Accept(s) ==
  /\ job[s] = "running"
  /\ s \notin pushed
  /\ pushed' = pushed \cup {s}
  /\ UNCHANGED <<call, send, job, reply, result>>

\* Mutation: an exception of the transport counts as a dead token.
ReplyErrorAsDead(s, x) ==
  /\ job[s] = "running"
  /\ x = "success" <=> (s \in pushed /\ x # "dead")
  /\ job' = [job EXCEPT ![s] = "ended"]
  /\ reply' = [reply EXCEPT ![s] = x]
  /\ UNCHANGED <<call, send, result, pushed>>

\* messaging.send returns an id for what was accepted, or raises: a token error
\* for what was refused, or anything else (quota, the network) in either case.
Reply(s, x) ==
  /\ job[s] = "running"
  /\ x = "success" => s \in pushed
  /\ x = "dead" => s \notin pushed
  /\ job' = [job EXCEPT ![s] = "ended"]
  /\ reply' = [reply EXCEPT ![s] = x]
  /\ UNCHANGED <<call, send, result, pushed>>

LoopOf(c) ==
  \/ Return(c)
  \/ \E s \in Of(c) : Acquire(s) \/ Take(s) \/ Timeout(s)

Next ==
  \/ \E c \in Call, T \in SUBSET Token : Begin(c, T)
  \/ \E c \in Call : LoopOf(c)
  \/ \E s \in Send : Start(s) \/ Accept(s)
  \/ \E s \in Send, x \in {"success", "dead", "error"} : Reply(s, x)

\* The loop goes on running and its timers fire.  Threads owe nothing: Firebase
\* may not answer at all.
Spec == Init /\ [][Next]_vars /\ \A c \in Call : WF_vars(LoopOf(c))
------------------------------------------------------------------------------
(* Properties *)

\* send_to_tokens returns, even if Firebase never answers and every thread of
\* the pool is stuck: a send waits for the semaphore, for a thread and for
\* Firebase, and only the deadline bounds it.
CallReturns == \A c \in Call : call[c] = "sending" ~> call[c] = "returned"

\* What is reported is what happened: a success was delivered, a dead token was
\* not (so the row may be revoked), and after a dead token nothing is delivered
\* later.  A timeout says nothing either way.
ReportTrue ==
  \A s \in Send : /\ result[s] = "success" => s \in pushed
                  /\ result[s] = "dead" => s \notin pushed /\ job[s] = "ended"

\* The semaphore limits the sends of a call that are waited for, not the threads
\* that send: those above the limit have been given up at their deadline and go
\* on without a slot.  (The docstring of send_to_tokens promises the limit for all,
\* "동시성 제한 — FCM rate limit 회피 + EC2 메모리 보호".)
SendsBound ==
  \A c \in Call :
    LET sending == {s \in Of(c) : job[s] = "running"} IN
    Cardinality(sending)
      <= Concurrency + Cardinality({s \in sending : result[s] = "TIMEOUT"})

\* What send_to_tokens promises, whatever becomes of slots, threads and deadlines: each send
\* asked for is told once, truly and for good, before the call returns, and delivered once
\* at most, never after its outcome was told.
Promise == INSTANCE SendPromise WITH
  stage <- call, asked <- {s \in Send : send[s] # "none"}, told <- result, delivered <- pushed

PromiseSpec == Promise!Spec

\* What the refinement needs beyond ReportInv: a send is told when it is done, those under
\* way belong to a call that has not returned, and a reported outcome ends its job.
PromiseInv ==
  \A s \in Send :
    /\ send[s] = "done" <=> result[s] # "none"
    /\ send[s] \in {"waiting", "held"} => call[s[1]] = "sending"
    /\ result[s] \in {"success", "dead", "error"} => job[s] = "ended"

\* The inductive invariant behind ReportTrue: what each job can still do, and
\* what it has done.  A job that was cancelled, or that has not started, has not
\* been sent; a result is the reply of a job that has ended.
ReportInv ==
  /\ call \in [Call -> {"idle", "sending", "returned"}]
  /\ send \in [Send -> {"none", "waiting", "held", "done"}]
  /\ job \in [Send -> {"none", "queued", "running", "ended", "cancelled"}]
  /\ reply \in [Send -> {"none", "success", "dead", "error"}]
  /\ result \in [Send -> {"none", "success", "dead", "error", "TIMEOUT"}]
  /\ pushed \subseteq Send
  /\ \A c \in Call, t \in Token : call[c] = "idle" => send[<<c, t>>] = "none"
  /\ \A s \in Send :
       /\ send[s] \in {"none", "waiting"} => job[s] = "none"
       /\ job[s] \in {"none", "queued", "cancelled"} => s \notin pushed
       /\ job[s] = "ended" <=> reply[s] # "none"
       /\ reply[s] = "success" => s \in pushed
       /\ reply[s] = "dead" => s \notin pushed
       /\ result[s] \in {"success", "dead"} => job[s] = "ended" /\ result[s] = reply[s]
==============================================================================
