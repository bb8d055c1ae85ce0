----------------------------- MODULE LimitProofs -----------------------------
(***************************************************************************)
(* The two components that count against a limit, for any number of users, *)
(* tickers, devices and requests: the sends to the devices under a         *)
(* semaphore (FcmSend), and the watchlist and its cap (Watchlist).  The    *)
(* two share nothing but the facts about finite sets.  Of FcmSend also:    *)
(* its reports are true, it implements SendPromise, and a call goes on.    *)
(***************************************************************************)
EXTENDS FcmSend, Watchlist, FiniteSetTheorems, TLAPS

(* The reports of a call *)

\* The initial state satisfies the invariant.
LEMMA ReportInit == Init => ReportInv
BY DEF Init, ReportInv, Send

\* Every step keeps the invariant; a reply fixes what Firebase may do, since
\* only a running job can be accepted.
LEMMA ReportStep == ReportInv /\ [Next]_vars => ReportInv'
<1> SUFFICES ASSUME ReportInv, [Next]_vars PROVE ReportInv'
  OBVIOUS
<1> USE DEF ReportInv
<1>1. ASSUME NEW c \in Call, NEW T \in SUBSET Token, Begin(c, T) PROVE ReportInv'
  <2>1. \A s \in {c} \X T : s \in Send /\ send[s] = "none" /\ job[s] = "none"
    BY <1>1 DEF Begin, Send
  <2>2. \A s \in Send : send'[s] = IF s \in {c} \X T THEN "waiting" ELSE send[s]
    BY <1>1 DEF Begin
  <2>3. \A d \in Call, t \in Token : call'[d] = "idle" => send'[<<d, t>>] = "none"
    <3> SUFFICES ASSUME NEW d \in Call, NEW t \in Token, call'[d] = "idle"
                 PROVE  send'[<<d, t>>] = "none"
      OBVIOUS
    <3>1. d # c /\ call[d] = "idle"
      BY <1>1 DEF Begin
    <3>2. <<d, t>> \in Send /\ <<d, t>> \notin {c} \X T
      BY <3>1 DEF Send
    <3> QED BY <3>1, <3>2, <2>2
  <2> QED BY <1>1, <2>1, <2>2, <2>3 DEF Begin
<1>2. ASSUME NEW c \in Call, Return(c) PROVE ReportInv'
  BY <1>2 DEF Return
<1>3. ASSUME NEW s \in Send, Acquire(s) PROVE ReportInv'
  BY <1>3 DEF Acquire
<1>4. ASSUME NEW s \in Send, Take(s) PROVE ReportInv'
  BY <1>4 DEF Take
<1>5. ASSUME NEW s \in Send, Timeout(s) PROVE ReportInv'
  BY <1>5 DEF Timeout
<1>6. ASSUME NEW s \in Send, Start(s) PROVE ReportInv'
  BY <1>6 DEF Start
<1>7. ASSUME NEW s \in Send, Accept(s) PROVE ReportInv'
  BY <1>7 DEF Accept
<1>8. ASSUME NEW s \in Send, NEW x \in {"success", "dead", "error"}, Reply(s, x) PROVE ReportInv'
  BY <1>8 DEF Reply
<1>9. CASE UNCHANGED vars
  BY <1>9 DEF vars
<1> HIDE DEF ReportInv
<1>10. ASSUME NEW c \in Call, NEW s \in Of(c) PROVE s \in Send
  BY DEF Of, Send
<1> QED BY <1>1, <1>2, <1>3, <1>4, <1>5, <1>6, <1>7, <1>8, <1>9, <1>10 DEF Next, LoopOf

\* What send_to_tokens reports of a token is what happened to it, for every
\* limit of the semaphore, size of the pool and order of deadlines and replies.
THEOREM ReportsAreTrue == Spec => []ReportTrue
<1>1. ReportInv => ReportTrue
  BY DEF ReportInv, ReportTrue
<1> QED BY <1>1, ReportInit, ReportStep, PTL DEF Spec
------------------------------------------------------------------------------
(* The promise of a call *)

\* Nothing is asked for, under way or told at first.
LEMMA PromiseInit == Init => PromiseInv
BY DEF Init, PromiseInv, Send

\* Sends of a call, and a call that begins has none under way.
LEMMA BeginFrame ==
  ASSUME ReportInv, NEW c \in Call, NEW T \in SUBSET Token, Begin(c, T)
  PROVE  /\ \A s \in {c} \X T : s \in Send /\ s[1] = c
         /\ \A s \in Send : s[1] = c => send[s] = "none"
         /\ \A s \in Send : send'[s] = IF s \in {c} \X T THEN "waiting" ELSE send[s]
         /\ \A d \in Call : call'[d] = IF d = c THEN "sending" ELSE call[d]
         /\ UNCHANGED <<job, reply, result, pushed>>
<1>1. \A s \in Send : s[1] = c => send[s] = "none"
  BY DEF Begin, ReportInv, Send
<1>2. call \in [Call -> {"idle", "sending", "returned"}]
  BY DEF ReportInv
<1> QED BY <1>1, <1>2 DEF Begin, Send

\* Every step keeps PromiseInv: the deadline and the reply each end the one wait of a send.
LEMMA PromiseStep == ReportInv /\ PromiseInv /\ [Next]_vars => PromiseInv'
<1> SUFFICES ASSUME ReportInv, PromiseInv, [Next]_vars PROVE PromiseInv'
  OBVIOUS
<1>t. /\ call \in [Call -> {"idle", "sending", "returned"}]
      /\ send \in [Send -> {"none", "waiting", "held", "done"}]
      /\ job \in [Send -> {"none", "queued", "running", "ended", "cancelled"}]
      /\ reply \in [Send -> {"none", "success", "dead", "error"}]
      /\ result \in [Send -> {"none", "success", "dead", "error", "TIMEOUT"}]
      /\ \A s \in Send : s[1] \in Call /\ (job[s] = "ended" <=> reply[s] # "none")
  BY DEF ReportInv, Send
<1> USE DEF PromiseInv
<1>1. ASSUME NEW c \in Call, NEW T \in SUBSET Token, Begin(c, T) PROVE PromiseInv'
  <2>1. \A s \in Send : s \in {c} \X T => send[s] = "none" /\ s[1] = c
    BY <1>1, BeginFrame
  <2>2. \A s \in Send : /\ send'[s] = IF s \in {c} \X T THEN "waiting" ELSE send[s]
                        /\ call'[s[1]] = IF s[1] = c THEN "sending" ELSE call[s[1]]
    BY <1>1, <1>t, BeginFrame
  <2> QED BY <1>1, <1>t, <2>1, <2>2, BeginFrame
<1>2. ASSUME NEW c \in Call, Return(c) PROVE PromiseInv'
  <2>1. ASSUME NEW s \in Send, send[s] \in {"waiting", "held"} PROVE s[1] # c
    BY <1>2, <2>1 DEF Return, Of, Send
  <2> QED BY <1>2, <1>t, <2>1 DEF Return
<1>3. ASSUME NEW s \in Send, Acquire(s) PROVE PromiseInv'
  <2>1. job[s] = "none"
    BY <1>3 DEF Acquire, ReportInv
  <2> QED BY <1>3, <1>t, <2>1 DEF Acquire
<1>4. ASSUME NEW s \in Send, Take(s) PROVE PromiseInv'
  BY <1>4, <1>t DEF Take
<1>5. ASSUME NEW s \in Send, Timeout(s) PROVE PromiseInv'
  BY <1>5, <1>t DEF Timeout
<1>6. ASSUME NEW s \in Send, Start(s) PROVE PromiseInv'
  BY <1>6, <1>t DEF Start
<1>7. ASSUME NEW s \in Send, Accept(s) PROVE PromiseInv'
  BY <1>7 DEF Accept
<1>8. ASSUME NEW s \in Send, NEW x \in {"success", "dead", "error"}, Reply(s, x) PROVE PromiseInv'
  BY <1>8, <1>t DEF Reply
<1>9. CASE UNCHANGED vars
  BY <1>9 DEF vars
<1> HIDE DEF PromiseInv
<1>10. ASSUME NEW c \in Call, NEW s \in Of(c) PROVE s \in Send
  BY DEF Of, Send
<1> QED BY <1>1, <1>2, <1>3, <1>4, <1>5, <1>6, <1>7, <1>8, <1>9, <1>10 DEF Next, LoopOf

\* What the promise calls asked.
Asked == {s \in Send : send[s] # "none"}

\* Every step of a call is a step of the promise, or is not seen by it.
LEMMA PromiseMaps == ReportInv /\ PromiseInv /\ [Next]_vars => [Promise!Next]_(Promise!promise)
<1> SUFFICES ASSUME ReportInv, PromiseInv, [Next]_vars
             PROVE  Promise!Next \/ UNCHANGED Promise!promise
  OBVIOUS
<1> USE DEF Promise!Send
<1>t. /\ call \in [Call -> {"idle", "sending", "returned"}]
      /\ send \in [Send -> {"none", "waiting", "held", "done"}]
      /\ result \in [Send -> {"none", "success", "dead", "error", "TIMEOUT"}]
      /\ reply \in [Send -> {"none", "success", "dead", "error"}]
      /\ \A s \in Send : s[1] \in Call
  BY DEF ReportInv, Send
<1>s. ASSUME \A s \in Send : send'[s] = "none" <=> send[s] = "none", UNCHANGED <<call, result, pushed>>
      PROVE  UNCHANGED Promise!promise
  BY <1>s DEF Promise!promise
<1>1. ASSUME NEW c \in Call, NEW T \in SUBSET Token, Begin(c, T) PROVE Promise!Next
  <2>1. Asked' = Asked \cup ({c} \X T)
    BY <1>1, BeginFrame DEF Asked
  <2>2. Promise!Ask(c, T)
    BY <1>1, <2>1 DEF Promise!Ask, Begin, Asked
  <2> QED BY <2>2 DEF Promise!Next
<1>2. ASSUME NEW c \in Call, Return(c) PROVE Promise!Next
  <2>1. ASSUME NEW s \in Asked, s[1] = c PROVE result[s] # "none"
    <3>1. s \in Of(c) /\ s \in Send
      BY <2>1 DEF Asked, Of, Send
    <3> QED BY <1>2, <3>1 DEF Return, Asked, PromiseInv
  <2>2. Asked' = Asked
    BY <1>2 DEF Return, Asked
  <2>3. Promise!Answer(c)
    BY <1>2, <2>1, <2>2 DEF Promise!Answer, Return, Asked
  <2> QED BY <2>3 DEF Promise!Next
<1>3. ASSUME NEW s \in Send, Acquire(s) PROVE UNCHANGED Promise!promise
  BY <1>3, <1>s, <1>t DEF Acquire
<1>4. ASSUME NEW s \in Send, Take(s) PROVE Promise!Next
  <2>1. Asked' = Asked /\ s \in Asked
    BY <1>4, <1>t DEF Take, Asked
  <2>2. call[s[1]] = "sending" /\ result[s] = "none"
    BY <1>4 DEF Take, PromiseInv
  <2>3. /\ reply[s] \in {"success", "dead", "error"}
        /\ reply[s] = "success" => s \in pushed
        /\ reply[s] = "dead" => s \notin pushed
    BY <1>4, <1>t DEF Take, ReportInv
  <2>4. Promise!Tell(s, reply[s])
    BY <1>4, <2>1, <2>2, <2>3 DEF Promise!Tell, Take, Asked
  <2> QED BY <2>3, <2>4 DEF Promise!Next, Send
<1>5. ASSUME NEW s \in Send, Timeout(s) PROVE Promise!Next
  <2>1. Asked' = Asked /\ s \in Asked
    BY <1>5, <1>t DEF Timeout, Asked
  <2>2. call[s[1]] = "sending" /\ result[s] = "none"
    BY <1>5 DEF Timeout, PromiseInv
  <2>3. Promise!Tell(s, "TIMEOUT")
    BY <1>5, <2>1, <2>2 DEF Promise!Tell, Timeout, Asked
  <2> QED BY <2>3 DEF Promise!Next, Send
<1>6. ASSUME NEW s \in Send, Start(s) PROVE UNCHANGED Promise!promise
  BY <1>6, <1>s DEF Start
<1>7. ASSUME NEW s \in Send, Accept(s) PROVE Promise!Next
  <2>1. s \in Asked
    BY <1>7, <1>t DEF Accept, Asked, ReportInv
  <2>2. result[s] \in {"none", "TIMEOUT"}
    BY <1>7, <1>t DEF Accept, PromiseInv
  <2>3. Promise!Deliver(s)
    BY <1>7, <2>1, <2>2 DEF Promise!Deliver, Accept, Asked
  <2> QED BY <2>3 DEF Promise!Next, Send
<1>8. ASSUME NEW s \in Send, NEW x \in {"success", "dead", "error"}, Reply(s, x)
      PROVE  UNCHANGED Promise!promise
  BY <1>8, <1>s DEF Reply
<1>9. CASE UNCHANGED vars
  BY <1>9, <1>s DEF vars
<1>10. ASSUME NEW c \in Call, NEW s \in Of(c) PROVE s \in Send
  BY DEF Of, Send
<1> QED BY <1>1, <1>2, <1>3, <1>4, <1>5, <1>6, <1>7, <1>8, <1>9, <1>10 DEF Next, LoopOf

\* send_to_tokens keeps its promise for any number of calls and tokens, every limit of the
\* semaphore and size of the pool: each send asked for is told once, truly and for good, before
\* the call returns, and is delivered once at most, never after its outcome was told.
THEOREM PromiseKept == Spec => PromiseSpec
<1>1. Init => Promise!Init
  BY DEF Init, Promise!Init, Promise!Send, Send
<1>2. QED
  BY <1>1, ReportInit, ReportStep, PromiseInit, PromiseStep, PromiseMaps, PTL
     DEF Spec, PromiseSpec, Promise!Spec
------------------------------------------------------------------------------
(* A call goes on *)

\* What the event loop can do for a call without any thread: return, give up a send that holds
\* a slot, or let one that waits have a free slot.
Able(c) ==
  \/ \A s \in Of(c) : send[s] \in {"none", "done"}
  \/ \E s \in Of(c) : send[s] = "held" \/ (send[s] = "waiting" /\ Cardinality(Held(c)) < Concurrency)

Place(x) == IF x = "none" THEN 0 ELSE IF x = "waiting" THEN 1 ELSE IF x = "held" THEN 2 ELSE 3

\* A slot is free if no send holds one.
LEMMA CallAble == ReportInv => \A c \in Call : Able(c)
<1> SUFFICES ASSUME ReportInv, NEW c \in Call, \A s \in Of(c) : send[s] # "held" PROVE Able(c)
  BY DEF Able
<1>1. Held(c) = {}
  BY DEF Held
<1>2. Cardinality(Held(c)) < Concurrency
  BY <1>1, FS_EmptySet, ConcurrencyAssumption
<1>3. \A s \in Of(c) : send[s] \in {"none", "waiting", "done"}
  BY DEF ReportInv, Of, Send
<1> QED BY <1>2, <1>3 DEF Able

\* A send under way only goes forward.
LEMMA SendsForward ==
  ReportInv /\ [Next]_vars =>
    \A c \in Call : call[c] = "sending" =>
      /\ call'[c] \in {"sending", "returned"}
      /\ \A s \in Of(c) : send'[s] = send[s] \/ Place(send'[s]) > Place(send[s])
<1> SUFFICES ASSUME ReportInv, [Next]_vars, NEW c \in Call, call[c] = "sending"
             PROVE  /\ call'[c] \in {"sending", "returned"}
                    /\ \A s \in Of(c) : send'[s] = send[s] \/ Place(send'[s]) > Place(send[s])
  OBVIOUS
<1>t. /\ call \in [Call -> {"idle", "sending", "returned"}]
      /\ send \in [Send -> {"none", "waiting", "held", "done"}]
      /\ \A s \in Of(c) : s \in Send /\ s[1] = c
  BY DEF ReportInv, Of, Send
<1>1. ASSUME NEW d \in Call, NEW T \in SUBSET Token, Begin(d, T)
      PROVE  call'[c] = "sending" /\ \A s \in Of(c) : send'[s] = send[s]
  <2>1. d # c
    BY <1>1 DEF Begin
  <2>2. \A s \in Of(c) : s \notin {d} \X T
    BY <1>t, <2>1
  <2> QED BY <1>1, <1>t, <2>1, <2>2 DEF Begin
<1>2. ASSUME NEW d \in Call, Return(d)
      PROVE  call'[c] \in {"sending", "returned"} /\ send' = send
  BY <1>2, <1>t DEF Return
<1>3. ASSUME NEW p \in Send, Acquire(p) \/ Take(p) \/ Timeout(p)
      PROVE  /\ call' = call
             /\ \A s \in Of(c) : send'[s] = send[s] \/ Place(send'[s]) > Place(send[s])
  BY <1>3, <1>t DEF Acquire, Take, Timeout, Place
<1>4. CASE UNCHANGED <<call, send>>
  BY <1>4
<1>5. ASSUME NEW d \in Call, NEW p \in Of(d) PROVE p \in Send
  BY DEF Of, Send
<1> QED BY <1>1, <1>2, <1>3, <1>4, <1>5 DEF Next, LoopOf, vars, Start, Accept, Reply

\* A call of send_to_tokens is never without a step of its own, even if every thread is stuck,
\* and its sends only go forward: what is left of CallReturns is that the event loop runs.
THEOREM CallsGoOn ==
  Spec => /\ [](\A c \in Call : Able(c))
          /\ [][\A c \in Call : call[c] = "sending" =>
                 /\ call'[c] \in {"sending", "returned"}
                 /\ \A s \in Of(c) : send'[s] = send[s] \/ Place(send'[s]) > Place(send[s])]_vars
<1>1. ReportInv /\ [Next]_vars =>
        [\A c \in Call : call[c] = "sending" =>
           /\ call'[c] \in {"sending", "returned"}
           /\ \A s \in Of(c) : send'[s] = send[s] \/ Place(send'[s]) > Place(send[s])]_vars
  BY SendsForward
<1> QED BY <1>1, CallAble, ReportInit, ReportStep, PTL DEF Spec
------------------------------------------------------------------------------
(* The limit of the semaphore *)

\* A job that runs is waited for under a slot, or its send has timed out.
Slotted(s) ==
  /\ job[s] = "queued" => send[s] = "held"
  /\ job[s] = "running" => send[s] = "held" \/ result[s] = "TIMEOUT"

\* The inductive invariant behind SendsBound.
LimitInv ==
  /\ send \in [Send -> {"none", "waiting", "held", "done"}]
  /\ job \in [Send -> {"none", "queued", "running", "ended", "cancelled"}]
  /\ result \in [Send -> {"none", "success", "dead", "error", "TIMEOUT"}]
  /\ \A s \in Send : Slotted(s)
  /\ IsFiniteSet(Running)
  /\ \A c \in Call : IsFiniteSet(Held(c)) /\ Cardinality(Held(c)) <= Concurrency

\* Nobody holds a slot at first.
LEMMA LimitInit == Init => LimitInv
<1> SUFFICES ASSUME Init PROVE LimitInv
  OBVIOUS
<1>1. Running = {} /\ \A c \in Call : Held(c) = {}
  BY DEF Init, Running, Held, Of, Send
<1>2. IsFiniteSet({}) /\ Cardinality({}) = 0
  BY FS_EmptySet
<1> QED BY <1>1, <1>2, ConcurrencyAssumption DEF Init, LimitInv, Slotted

\* A call whose sends give slots back, or change nothing, stays within the limit.
LEMMA FewerHeld ==
  ASSUME LimitInv, NEW c \in Call, Held(c)' \subseteq Held(c)
  PROVE  IsFiniteSet(Held(c)') /\ Cardinality(Held(c)') <= Concurrency
<1>1. IsFiniteSet(Held(c)) /\ Cardinality(Held(c)) <= Concurrency
  BY DEF LimitInv
<1>2. IsFiniteSet(Held(c)') /\ Cardinality(Held(c)') <= Cardinality(Held(c))
  BY <1>1, FS_Subset
<1>3. Cardinality(Held(c)) \in Nat /\ Cardinality(Held(c)') \in Nat
  BY <1>1, <1>2, FS_CardinalityType
<1> QED BY <1>1, <1>2, <1>3, ConcurrencyAssumption

\* Every step keeps the invariant: a slot is taken only below the limit, and one given up
\* leaves its job cancelled, ended or timed out.
LEMMA LimitStep == ReportInv /\ LimitInv /\ [Next]_vars => LimitInv'
<1> SUFFICES ASSUME ReportInv, LimitInv, [Next]_vars PROVE LimitInv'
  OBVIOUS
<1> USE DEF LimitInv, Slotted
<1>h. \A c \in Call : Held(c) = {s \in Send : s[1] = c /\ send[s] = "held"}
  BY DEF Held, Of, Send
<1>g. \A c \in Call : Held(c)' = {s \in Send : s[1] = c /\ send'[s] = "held"}
  BY DEF Held, Of, Send
<1>f. ASSUME \A s \in Send : send'[s] = "held" => send[s] = "held", NEW c \in Call
      PROVE  IsFiniteSet(Held(c)') /\ Cardinality(Held(c)') <= Concurrency
  BY <1>f, <1>h, <1>g, FewerHeld
<1>r. ASSUME \A s \in Send : job'[s] = "running" => job[s] = "running" PROVE IsFiniteSet(Running')
  <2>1. Running' \subseteq Running
    BY <1>r DEF Running
  <2> QED BY <2>1, FS_Subset
<1>1. ASSUME NEW c \in Call, NEW T \in SUBSET Token, Begin(c, T) PROVE LimitInv'
  <2>1. \A s \in Send : send'[s] = IF s \in {c} \X T THEN "waiting" ELSE send[s]
    BY <1>1 DEF Begin
  <2>2. \A s \in {c} \X T : s \in Send /\ send[s] = "none" /\ job[s] = "none"
    BY <1>1 DEF Begin, Send, ReportInv
  <2>3. send' \in [Send -> {"none", "waiting", "held", "done"}]
    BY <1>1 DEF Begin
  <2>4. \A s \in Send : Slotted(s)'
    BY <1>1, <2>1, <2>2 DEF Begin
  <2> QED BY <1>1, <1>f, <1>r, <2>1, <2>3, <2>4 DEF Begin
<1>2. ASSUME NEW c \in Call, Return(c) PROVE LimitInv'
  BY <1>2, <1>f, <1>r DEF Return
<1>3. ASSUME NEW s \in Send, Acquire(s) PROVE LimitInv'
  <2>1. \A p \in Send : Slotted(p)'
    BY <1>3 DEF Acquire
  <2>2. ASSUME NEW c \in Call PROVE IsFiniteSet(Held(c)') /\ Cardinality(Held(c)') <= Concurrency
    <3>1. CASE c # s[1]
      <4>1. Held(c)' \subseteq Held(c)
        BY <1>3, <1>h, <1>g, <3>1 DEF Acquire
      <4> QED BY <4>1, FewerHeld
    <3>2. CASE c = s[1]
      <4>1. Held(c)' = Held(c) \cup {s} /\ s \notin Held(c)
        BY <1>3, <1>h, <1>g, <3>2 DEF Acquire
      <4>2. IsFiniteSet(Held(c)) /\ Cardinality(Held(c)) < Concurrency
        BY <1>3, <3>2 DEF Acquire
      <4>3. IsFiniteSet(Held(c)') /\ Cardinality(Held(c)') = Cardinality(Held(c)) + 1
        BY <4>1, <4>2, FS_AddElement
      <4>4. Cardinality(Held(c)) \in Nat
        BY <4>2, FS_CardinalityType
      <4> QED BY <4>2, <4>3, <4>4, ConcurrencyAssumption
    <3> QED BY <3>1, <3>2
  <2>3. IsFiniteSet(Running')
    BY <1>3, <1>r DEF Acquire
  <2> QED BY <1>3, <2>1, <2>2, <2>3 DEF Acquire
<1>4. ASSUME NEW s \in Send, Take(s) PROVE LimitInv'
  <2>1. result' \in [Send -> {"none", "success", "dead", "error", "TIMEOUT"}]
    BY <1>4 DEF Take, ReportInv
  <2> QED BY <1>4, <1>f, <1>r, <2>1 DEF Take
<1>5. ASSUME NEW s \in Send, Timeout(s) PROVE LimitInv'
  BY <1>5, <1>f, <1>r DEF Timeout
<1>6. ASSUME NEW s \in Send, Start(s) PROVE LimitInv'
  <2>1. Running' = Running \cup {s}
    BY <1>6 DEF Start, Running
  <2>2. IsFiniteSet(Running')
    BY <2>1, FS_AddElement
  <2> QED BY <1>6, <1>f, <2>2 DEF Start
<1>7. ASSUME NEW s \in Send, Accept(s) PROVE LimitInv'
  BY <1>7, <1>f, <1>r DEF Accept
<1>8. ASSUME NEW s \in Send, NEW x \in {"success", "dead", "error"}, Reply(s, x) PROVE LimitInv'
  BY <1>8, <1>f, <1>r DEF Reply
<1>9. CASE UNCHANGED vars
  BY <1>9, <1>f, <1>r DEF vars
<1> HIDE DEF LimitInv
<1>10. ASSUME NEW c \in Call, NEW s \in Of(c) PROVE s \in Send
  BY DEF Of, Send
<1> QED BY <1>1, <1>2, <1>3, <1>4, <1>5, <1>6, <1>7, <1>8, <1>9, <1>10 DEF Next, LoopOf

\* Of the sends of a call that run, all but the timed out hold a slot.
LEMMA LimitBounds == LimitInv => SendsBound
<1> SUFFICES ASSUME LimitInv, NEW c \in Call
             PROVE  Cardinality({s \in Of(c) : job[s] = "running"})
                      <= Concurrency + Cardinality({s \in {p \in Of(c) : job[p] = "running"} : result[s] = "TIMEOUT"})
  BY DEF SendsBound
<1> DEFINE A == {s \in Of(c) : job[s] = "running"}
           B == {s \in A : result[s] = "TIMEOUT"}
           H == Held(c)
<1>1. \A s \in Of(c) : s \in Send
  BY DEF Of, Send
<1>2. A \subseteq H \cup B
  BY <1>1 DEF LimitInv, Slotted, Held
<1>3. B \subseteq Running
  BY <1>1 DEF Running
<1>4. IsFiniteSet(H) /\ Cardinality(H) <= Concurrency /\ IsFiniteSet(Running)
  BY DEF LimitInv
<1>5. IsFiniteSet(B)
  BY <1>3, <1>4, FS_Subset
<1> HIDE DEF A, B, H
<1>6. /\ IsFiniteSet(H \cup B) /\ IsFiniteSet(H \cap B)
      /\ Cardinality(H \cup B) = Cardinality(H) + Cardinality(B) - Cardinality(H \cap B)
  <2>1. H \cap B \subseteq H
    OBVIOUS
  <2> QED BY <1>4, <1>5, <2>1, FS_Union, FS_Subset
<1>7. IsFiniteSet(A) /\ Cardinality(A) <= Cardinality(H \cup B)
  BY <1>2, <1>6, FS_Subset
<1>8. /\ Cardinality(A) \in Nat /\ Cardinality(B) \in Nat /\ Cardinality(H) \in Nat
      /\ Cardinality(H \cap B) \in Nat /\ Cardinality(H \cup B) \in Nat
  BY <1>4, <1>5, <1>6, <1>7, FS_CardinalityType
<1>9. Cardinality(A) <= Concurrency + Cardinality(B)
  BY <1>4, <1>6, <1>7, <1>8, ConcurrencyAssumption
<1> QED BY <1>9 DEF A, B

\* The sends of a call that run at one time are at most the semaphore's slots and those that
\* have been given up at their deadline, for any number of tokens and threads (send_to_tokens).
THEOREM SendsAreBounded == Spec => []SendsBound
<1>1. Init => ReportInv /\ LimitInv
  BY ReportInit, LimitInit
<1>2. ReportInv /\ LimitInv /\ [Next]_vars => ReportInv' /\ LimitInv'
  BY ReportStep, LimitStep
<1>3. ReportInv /\ LimitInv => SendsBound
  BY LimitBounds
<1> QED BY <1>1, <1>2, <1>3, PTL DEF Spec
------------------------------------------------------------------------------
(* The cap of a watchlist: OvershootInv is inductive and implies Overshoot *)

\* The sets that the invariant counts are finite: a list is a set of tickers,
\* the pending adds a set of request slots.
LEMMA FiniteSides ==
  ASSUME NEW L \in SUBSET Ticker, NEW P \in SUBSET Req
  PROVE  /\ IsFiniteSet(L) /\ Cardinality(L) \in Nat
         /\ IsFiniteSet(P) /\ Cardinality(P) \in Nat
         /\ Cardinality(Req) \in Nat /\ Cardinality(P) <= Cardinality(Req)
BY FS_Subset, FS_CardinalityType, TickerAssumption, SlotAssumption

\* Every step keeps the types.
LEMMA TypeStep == TypeOK /\ [ListNext]_listVars => TypeOK'
<1> SUFFICES ASSUME TypeOK, [ListNext]_listVars PROVE TypeOK'
  OBVIOUS
<1>1. ASSUME NEW r \in Req, NEW u \in User, NEW t \in Ticker, AddCheck(r, u, t) PROVE TypeOK'
  BY <1>1 DEF TypeOK, AddCheck
<1>2. ASSUME NEW r \in Req, AddCount(r) PROVE TypeOK'
  BY <1>2 DEF TypeOK, AddCount
<1>3. ASSUME NEW r \in Req, AddCommit(r) PROVE TypeOK'
  BY <1>3 DEF TypeOK, AddCommit, Idle
<1>4. ASSUME NEW r \in Req, Reject(r) PROVE TypeOK'
  BY <1>4 DEF TypeOK, Reject, Idle
<1>5. ASSUME NEW u \in User, NEW t \in Ticker, Remove(u, t) PROVE TypeOK'
  BY <1>5 DEF TypeOK, Remove
<1>6. CASE UNCHANGED listVars
  BY <1>6 DEF TypeOK, listVars
<1> QED BY <1>1, <1>2, <1>3, <1>4, <1>5, <1>6 DEF ListNext

\* An add that passes the comparison becomes pending while there is room.
LEMMA CountStep ==
  ASSUME TypeOK, TypeOK', NEW u \in User, NEW r \in Req, AddCount(r), req[r].user = u
  PROVE  Cardinality(rows'[u]) + Cardinality(Pending(u)') <= Limit + Cardinality(Req) - 1
<1>1. rows'[u] = rows[u] /\ Cardinality(rows[u]) < Limit /\ rows[u] \in SUBSET Ticker
  BY DEF AddCount, TypeOK
<1>2. Pending(u)' \in SUBSET Req
  BY DEF Pending
<1> QED BY <1>1, <1>2, FiniteSides, LimitAssumption

\* An insert takes its request out of the pending ones.
LEMMA CommitStep ==
  ASSUME TypeOK, TypeOK', NEW u \in User, NEW r \in Req, AddCommit(r), req[r].user = u
  PROVE  Cardinality(rows'[u]) + Cardinality(Pending(u)')
           <= Cardinality(rows[u]) + Cardinality(Pending(u))
<1>1. Pending(u)' = Pending(u) \ {r} /\ r \in Pending(u) /\ Pending(u) \in SUBSET Req
  BY DEF AddCommit, Pending, Idle, TypeOK
<1>2. rows'[u] = rows[u] \cup {req[r].ticker} /\ rows[u] \in SUBSET Ticker
  BY DEF AddCommit, TypeOK
<1>3. Cardinality(Pending(u)') = Cardinality(Pending(u)) - 1
  BY <1>1, FiniteSides, FS_RemoveElement
<1>4. Cardinality(rows'[u]) <= Cardinality(rows[u]) + 1
  <2> DEFINE L == rows[u]
  <2>1. IsFiniteSet(L) /\ Cardinality(L) \in Nat
    BY <1>2, FiniteSides
  <2>2. Cardinality(L \cup {req[r].ticker}) <= Cardinality(L) + 1
    <3> HIDE DEF L
    <3> QED BY <2>1, FS_AddElement
  <2> QED BY <1>2, <2>2
<1>5. rows'[u] \in SUBSET Ticker
  BY DEF TypeOK
<1> QED BY <1>1, <1>2, <1>3, <1>4, <1>5, FiniteSides

\* Any other step leaves no more rows and no more pending adds than there were.
LEMMA OtherStep ==
  ASSUME TypeOK, TypeOK', NEW u \in User,
         rows'[u] \subseteq rows[u], Pending(u)' \subseteq Pending(u)
  PROVE  Cardinality(rows'[u]) + Cardinality(Pending(u)')
           <= Cardinality(rows[u]) + Cardinality(Pending(u))
<1>1. rows[u] \in SUBSET Ticker /\ rows'[u] \in SUBSET Ticker
  BY DEF TypeOK
<1>2. Pending(u) \in SUBSET Req /\ Pending(u)' \in SUBSET Req
  BY DEF Pending
<1>3. Cardinality(rows'[u]) <= Cardinality(rows[u])
  BY <1>1, FiniteSides, FS_Subset
<1>4. Cardinality(Pending(u)') <= Cardinality(Pending(u))
  BY <1>2, FiniteSides, FS_Subset
<1> QED BY <1>1, <1>2, <1>3, <1>4, FiniteSides

\* OvershootInv is inductive: only the comparison adds to rows and pending adds
\* together, and it does so below the cap.
LEMMA OvershootStep == OvershootInv /\ [ListNext]_listVars => OvershootInv'
<1> SUFFICES ASSUME OvershootInv, [ListNext]_listVars PROVE OvershootInv'
  OBVIOUS
<1> TypeOK /\ TypeOK'
  BY TypeStep DEF OvershootInv
<1> SUFFICES ASSUME NEW u \in User
             PROVE  Cardinality(rows'[u]) + Cardinality(Pending(u)') <= Limit + Cardinality(Req) - 1
  BY DEF OvershootInv
<1>old. Cardinality(rows[u]) + Cardinality(Pending(u)) <= Limit + Cardinality(Req) - 1
  BY DEF OvershootInv
<1>nat. /\ Cardinality(rows[u]) \in Nat /\ Cardinality(Pending(u)) \in Nat
        /\ Cardinality(rows'[u]) \in Nat /\ Cardinality(Pending(u)') \in Nat
        /\ Cardinality(Req) \in Nat
  <2>1. rows[u] \in SUBSET Ticker /\ rows'[u] \in SUBSET Ticker
    BY DEF TypeOK
  <2>2. Pending(u) \in SUBSET Req /\ Pending(u)' \in SUBSET Req
    BY DEF Pending
  <2> QED BY <2>1, <2>2, FiniteSides
<1> DEFINE Shrinks == rows'[u] \subseteq rows[u] /\ Pending(u)' \subseteq Pending(u)
<1>other. CASE Shrinks
  BY <1>other, <1>old, <1>nat, OtherStep, LimitAssumption
<1>1. ASSUME NEW r \in Req, NEW v \in User, NEW t \in Ticker, AddCheck(r, v, t) PROVE Shrinks
  BY <1>1 DEF AddCheck, Pending, TypeOK
<1>2. ASSUME NEW r \in Req, AddCount(r)
      PROVE  Cardinality(rows'[u]) + Cardinality(Pending(u)') <= Limit + Cardinality(Req) - 1
  <2>1. CASE req[r].user = u
    BY <1>2, <2>1, CountStep
  <2>2. CASE req[r].user # u
    <3>1. Shrinks
      BY <1>2, <2>2 DEF AddCount, Pending, TypeOK
    <3> QED BY <3>1, <1>other
  <2> QED BY <2>1, <2>2
<1>3. ASSUME NEW r \in Req, AddCommit(r)
      PROVE  Cardinality(rows'[u]) + Cardinality(Pending(u)') <= Limit + Cardinality(Req) - 1
  <2>1. CASE req[r].user = u
    BY <1>3, <2>1, CommitStep, <1>old, <1>nat, LimitAssumption
  <2>2. CASE req[r].user # u
    <3>1. Shrinks
      BY <1>3, <2>2 DEF AddCommit, Pending, Idle, TypeOK
    <3> QED BY <3>1, <1>other
  <2> QED BY <2>1, <2>2
<1>4. ASSUME NEW r \in Req, Reject(r) PROVE Shrinks
  BY <1>4 DEF Reject, Pending, Idle, TypeOK
<1>5. ASSUME NEW v \in User, NEW t \in Ticker, Remove(v, t) PROVE Shrinks
  BY <1>5 DEF Remove, Pending, TypeOK
<1>6. CASE UNCHANGED listVars
  <2>1. Shrinks
    BY <1>6 DEF listVars, Pending
  <2> QED BY <2>1, <1>other
<1> QED BY <1>other, <1>1, <1>2, <1>3, <1>4, <1>5, <1>6 DEF ListNext

\* In the initial state there is nothing to count.
LEMMA OvershootInit == ListInit => OvershootInv
<1> SUFFICES ASSUME ListInit PROVE OvershootInv
  OBVIOUS
<1>1. TypeOK
  BY DEF ListInit, TypeOK, Idle
<1>2. ASSUME NEW u \in User PROVE rows[u] = {} /\ Pending(u) = {}
  BY DEF ListInit, Pending, Idle
<1>3. Cardinality({}) = 0
  BY FS_EmptySet
<1>4. Cardinality(Req) \in Nat /\ Cardinality(Req) # 0
  BY FS_CardinalityType, FS_EmptySet, SlotAssumption
<1> QED BY <1>1, <1>2, <1>3, <1>4, LimitAssumption DEF OvershootInv

\* Whatever the number of users, tickers and requests in flight and whatever
\* the cap, add_watchlist never lets a list exceed the cap by more than the
\* requests that can validate together, less one.
THEOREM CapOvershoot == ListSpec => []Overshoot
<1>1. OvershootInv => Overshoot
  <2> SUFFICES ASSUME OvershootInv, NEW u \in User
               PROVE  Cardinality(rows[u]) <= Limit + Cardinality(Req) - 1
    BY DEF Overshoot
  <2>1. rows[u] \in SUBSET Ticker /\ Pending(u) \in SUBSET Req
    BY DEF OvershootInv, TypeOK, Pending
  <2> QED BY <2>1, FiniteSides, LimitAssumption DEF OvershootInv
<1> QED BY <1>1, OvershootInit, OvershootStep, PTL DEF ListSpec

\* One request at a time keeps every list within the cap.
COROLLARY SerialCap ==
  ASSUME NEW r0, Req = {r0}
  PROVE  ListSpec => [](\A u \in User : Cardinality(rows[u]) <= Limit)
<1>1. Cardinality(Req) = 1
  BY FS_Singleton
<1>2. Overshoot => \A u \in User : Cardinality(rows[u]) <= Limit
  BY <1>1, LimitAssumption DEF Overshoot
<1> QED BY <1>2, CapOvershoot, PTL
==============================================================================
