------------------------------- MODULE MetaGate -------------------------------
(***************************************************************************)
(* What stands between a request and Meta in internals/metaclient: the     *)
(* slots for concurrent calls, the gate with its circuit breaker, usage    *)
(* block, pacing and token bucket, what each answer teaches the gate, and  *)
(* the retry loop that comes back to it.  Time is counted down in ticks:   *)
(* a delay is what is left of it.                                          *)
(***************************************************************************)
EXTENDS Integers, FiniteSets

CONSTANTS
    Callers,        \* goroutines
    Tokens,         \* access tokens, as tokenKey tells them apart
    NoToken,
    MaxConcurrent,  \* calls in flight, over all tokens
    MaxRetries,     \* attempts after the first
    Burst,          \* capacity of a token bucket, refilled by one per tick
    BackoffAtUsage, BlockAtUsage, Decay,
    BaseCooldown, MaxCooldown, MaxShift,
    Usages,         \* what Meta's usage headers may say; 0: no header
    RetryAfters     \* what its Retry-After may say; 0: no header

ASSUME GateAssumption ==
    /\ IsFiniteSet(Callers)
    /\ {MaxConcurrent, Burst, BaseCooldown, MaxCooldown} \subseteq Nat \ {0}
    /\ {MaxRetries, MaxShift, BackoffAtUsage, BlockAtUsage, Decay} \subseteq Nat
    /\ BaseCooldown <= MaxCooldown
    /\ Usages \subseteq Nat /\ IsFiniteSet(Usages) /\ Usages # {}
    /\ RetryAfters \subseteq Nat
    /\ NoToken \notin Tokens

VARIABLES
    keys,       \* Client.keys: the keyState of each token
    slots,      \* the filled places of Client.slots
    pc, call,   \* each caller's position and local variables
    leaked      \* history: calls of a token that reached Meta while it was
                \* shut, since one last passed its gate

vars == <<keys, slots, pc, call, leaked>>

Least(a, b) == IF a < b THEN a ELSE b
Most(a, b) == IF a < b THEN b ELSE a

MaxUsage == CHOOSE u \in Usages : \A v \in Usages : v <= u

\* tokens      of the bucket, as if lastRefill were always now
\* blockedFor  what is left of blockedUntil
\* throttles   consecThrottle, as far as the shift looks at it
KeyStates ==
    [tokens : 0..Burst, usage : 0..MaxUsage,
     blockedFor : 0..MaxCooldown, throttles : 0..MaxShift + 1]

Answers == {"none", "ok", "throttled", "failed", "rejected", "refused"}

\* safe   the method is GET or DELETE
\* pace   what is left of the delay before the request goes out
Calls == [token : Tokens \cup {NoToken}, safe : BOOLEAN, tries : 0..MaxRetries, pace : 0..1,
          answer : Answers]

Positions == {"idle", "slot", "queue", "gate", "send", "learn", "backoff"}

stateLocked ==
    [tokens |-> Burst, usage |-> 0, blockedFor |-> 0, throttles |-> 0]

Blank == [token |-> NoToken, safe |-> TRUE, tries |-> 0, pace |-> 0,
          answer |-> "none"]

Init ==
    /\ keys = [t \in Tokens |-> stateLocked]
    /\ slots = 0
    /\ pc = [w \in Callers |-> "idle"]
    /\ call = [w \in Callers |-> Blank]
    /\ leaked = [t \in Tokens |-> 0]

\* Closed to new calls.
Shut(t) == keys[t].blockedFor > 0 \/ keys[t].usage >= BlockAtUsage
-----------------------------------------------------------------------------
(* The retry loop. *)

request(w, t, safe) ==
    /\ pc[w] = "idle"
    /\ call' = [call EXCEPT ![w] = [token |-> t, safe |-> safe, tries |-> 0,
                                    pace |-> 0, answer |-> "none"]]
    /\ pc' = [pc EXCEPT ![w] = "slot"]
    /\ UNCHANGED <<keys, slots, leaked>>

\* An error of the gate counts as any other.
Retryable(w, answer) ==
    \/ answer = "throttled"
    \/ answer \in {"failed", "refused"} /\ call[w].safe

Again(w) ==
    /\ call' = [call EXCEPT ![w] = [token |-> @.token, safe |-> @.safe,
                                    tries |-> @.tries + 1,
                                    pace |-> 0, answer |-> "none"]]
    /\ pc' = [pc EXCEPT ![w] = "backoff"]

Return(w) ==
    /\ call' = [call EXCEPT ![w] = Blank]
    /\ pc' = [pc EXCEPT ![w] = "idle"]

\* Mutant: the attempts are not counted.
NeverGiveUp(w, answer) ==
    IF Retryable(w, answer)
    THEN /\ pc' = [pc EXCEPT ![w] = "backoff"]
         /\ call' = [call EXCEPT ![w].answer = "none"]
    ELSE Return(w)

\* An attempt is over: once more after sleepBackoff, or return.
AttemptEnds(w, answer) ==
    IF Retryable(w, answer) /\ call[w].tries < MaxRetries THEN Again(w) ELSE Return(w)

sleepBackoff(w) ==
    /\ pc[w] = "backoff"
    /\ pc' = [pc EXCEPT ![w] = "slot"]
    /\ UNCHANGED <<keys, slots, call, leaked>>
-----------------------------------------------------------------------------
(* Slots. *)

TakeSlot(w) ==
    /\ pc[w] \in {"slot", "queue"}
    /\ slots < MaxConcurrent
    /\ slots' = slots + 1
    /\ pc' = [pc EXCEPT ![w] = "gate"]
    /\ UNCHANGED <<keys, call, leaked>>

WaitForSlot(w) ==
    /\ pc[w] = "slot"
    /\ slots = MaxConcurrent
    /\ pc' = [pc EXCEPT ![w] = "queue"]
    /\ UNCHANGED <<keys, slots, call, leaked>>

\* The timer may win although a slot was freed at the same moment.
SlotTimeout(w) ==
    /\ pc[w] = "queue"
    /\ AttemptEnds(w, "failed")
    /\ UNCHANGED <<keys, slots, leaked>>

\* Mutant: a refused attempt keeps its slot.
KeepSlot == UNCHANGED slots

ReleaseSlot == slots' = slots - 1
-----------------------------------------------------------------------------
(* The gate. *)

CircuitOpen(w) ==
    /\ pc[w] = "gate"
    /\ keys[call[w].token].blockedFor > 0
    /\ ReleaseSlot
    /\ AttemptEnds(w, "refused")
    /\ UNCHANGED <<keys, leaked>>

\* Usage at the hard line: pause before Meta asks for it.
UsageBlock(w) ==
    LET t == call[w].token IN
    /\ pc[w] = "gate"
    /\ keys[t].blockedFor = 0 /\ keys[t].usage >= BlockAtUsage
    /\ keys' = [keys EXCEPT ![t].blockedFor = BaseCooldown,
                            ![t].throttles = Least(@ + 1, MaxShift + 1)]
    /\ ReleaseSlot
    /\ AttemptEnds(w, "refused")
    /\ UNCHANGED leaked

\* A fifth of a second to 1.2 seconds above the soft line, otherwise the time
\* until the bucket holds a token, rounded up to ticks.
Pace(t) ==
    IF keys[t].usage >= BackoffAtUsage THEN 1
    ELSE IF keys[t].tokens < 1 THEN 1
    ELSE 0

\* Nothing is taken out of the bucket.
Through(w) ==
    LET t == call[w].token IN
    /\ call' = [call EXCEPT ![w].pace = Pace(t)]
    /\ pc' = [pc EXCEPT ![w] = "send"]
    /\ leaked' = [leaked EXCEPT ![t] = IF Shut(t) THEN @ ELSE 0]
    /\ UNCHANGED <<keys, slots>>

\* Mutant: the usage is not looked at.
PassBusy(w) ==
    /\ pc[w] = "gate"
    /\ keys[call[w].token].blockedFor = 0
    /\ Through(w)

Pass(w) ==
    /\ pc[w] = "gate"
    /\ ~Shut(call[w].token)
    /\ Through(w)
-----------------------------------------------------------------------------
(* The call and what the gate learns from it. *)

\* A request on the wire.
Sent(w) ==
    LET t == call[w].token IN
    leaked' = [leaked EXCEPT ![t] = IF Shut(t) THEN @ + 1 ELSE @]

\* No answer, or one whose body cannot be read: nothing is learned.
NoAnswer(w, answer) ==
    /\ pc[w] = "send" /\ call[w].pace = 0
    /\ answer \in {"failed", "throttled"}
    /\ Sent(w)
    /\ ReleaseSlot
    /\ AttemptEnds(w, answer)
    /\ UNCHANGED keys

\* The worst usage so far, nudged down; an answer without headers says nothing.
\* A 5xx or a plain 4xx teaches no more and ends the attempt.
trackUsage(w, worst, answer) ==
    /\ pc[w] = "send" /\ call[w].pace = 0
    /\ answer \in {"ok", "throttled", "failed", "rejected"}
    /\ Sent(w)
    /\ keys' = IF worst = 0 THEN keys
               ELSE [keys EXCEPT ![call[w].token].usage =
                       Most(Most(@, worst) - Decay, 0)]
    /\ IF answer \in {"ok", "throttled"}
       THEN /\ call' = [call EXCEPT ![w].answer = answer]
            /\ pc' = [pc EXCEPT ![w] = "learn"]
            /\ UNCHANGED slots
       ELSE ReleaseSlot /\ AttemptEnds(w, answer)

\* The cooldown doubles with every throttle in a row.
Cooldown(throttles) ==
    Least(BaseCooldown * 2^Least(throttles - 1, MaxShift), MaxCooldown)

\* Mutant: Retry-After counts also when it is longer.
ObeyRetryAfter(w, after) ==
    LET t == call[w].token
        n == Least(keys[t].throttles + 1, MaxShift + 1)
    IN
    /\ pc[w] = "learn" /\ call[w].answer = "throttled"
    /\ keys' = [keys EXCEPT ![t].throttles = n,
                            ![t].blockedFor = IF after > 0 THEN after ELSE Cooldown(n)]
    /\ ReleaseSlot
    /\ AttemptEnds(w, "throttled")
    /\ UNCHANGED leaked

\* Retry-After counts when it is shorter.
registerThrottle(w, after) ==
    LET t == call[w].token
        n == Least(keys[t].throttles + 1, MaxShift + 1)
    IN
    /\ pc[w] = "learn" /\ call[w].answer = "throttled"
    /\ keys' = [keys EXCEPT ![t].throttles = n,
                            ![t].blockedFor =
                              IF after > 0 THEN Least(after, Cooldown(n))
                              ELSE Cooldown(n)]
    /\ ReleaseSlot
    /\ AttemptEnds(w, "throttled")
    /\ UNCHANGED leaked

registerSuccess(w) ==
    /\ pc[w] = "learn" /\ call[w].answer = "ok"
    /\ keys' = [keys EXCEPT ![call[w].token].throttles = 0]
    /\ ReleaseSlot
    /\ AttemptEnds(w, "ok")
    /\ UNCHANGED leaked
-----------------------------------------------------------------------------
Down(n) == IF n > 0 THEN n - 1 ELSE n

Tick ==
    /\ keys' = [t \in Tokens |->
                  [tokens |-> Least(keys[t].tokens + 1, Burst),
                   usage |-> keys[t].usage,
                   blockedFor |-> Down(keys[t].blockedFor),
                   throttles |-> keys[t].throttles]]
    /\ call' = [w \in Callers |-> [call[w] EXCEPT !.pace = Down(@)]]
    /\ UNCHANGED <<slots, pc, leaked>>

Attempt(w) ==
    \/ TakeSlot(w) \/ WaitForSlot(w) \/ SlotTimeout(w)
    \/ CircuitOpen(w) \/ UsageBlock(w) \/ Pass(w)
    \/ \E answer \in {"failed", "throttled"} : NoAnswer(w, answer)
    \/ \E worst \in Usages, answer \in Answers : trackUsage(w, worst, answer)
    \/ \E after \in RetryAfters : registerThrottle(w, after)
    \/ registerSuccess(w) \/ sleepBackoff(w)

Request(w) == \E t \in Tokens, safe \in BOOLEAN : request(w, t, safe)

Next == Tick \/ \E w \in Callers : Request(w) \/ Attempt(w)

Spec == Init /\ [][Next]_vars

\* Sleeps end, requests time out, time passes; callers keep coming.
FairSpec ==
    /\ Spec
    /\ WF_vars(Tick)
    /\ \A w \in Callers : WF_vars(Attempt(w)) /\ WF_vars(Request(w))
-----------------------------------------------------------------------------
(* Properties. *)

\* Every variable has its type.
TypeOK ==
    /\ keys \in [Tokens -> KeyStates]
    /\ slots \in 0..MaxConcurrent
    /\ pc \in [Callers -> Positions]
    /\ call \in [Callers -> Calls]
    /\ \A w \in Callers : pc[w] # "idle" => call[w].token \in Tokens
    /\ leaked \in [Tokens -> Nat]

\* The callers that hold a slot.
Holders == {w \in Callers : pc[w] \in {"gate", "send", "learn"}}

\* Every filled slot belongs to a call that will free it: however attempts
\* end, no slot is lost and none is taken twice.
SlotsAccounted == slots = Cardinality(Holders)

\* Once a token is throttled or its usage crosses the hard line, only the calls
\* already past the gate reach Meta, fewer than the slots, before it reopens.
LeakBounded == \A t \in Tokens : leaked[t] < MaxConcurrent

\* "stale highs don't linger forever": as long as requests keep coming, a token
\* that crossed the hard line is used again some day.
BlockLifts ==
    \A t \in Tokens : keys[t].usage >= BlockAtUsage ~> keys[t].usage < BlockAtUsage

-----------------------------------------------------------------------------
(* What makes the properties inductive. *)

\* The calls of a token that are past its gate and not yet at Meta.
Past(t) == {w \in Callers : pc[w] = "send" /\ call[w].token = t}

\* Those and the ones that leaked fit in the slots, and in one less once the
\* token shut: the call that shut it has a slot, or had one.
LeakInv ==
    \A t \in Tokens :
      LET n == leaked[t] + Cardinality(Past(t)) IN
      /\ n <= MaxConcurrent
      /\ Shut(t) \/ leaked[t] > 0 => n < MaxConcurrent
===============================================================================
