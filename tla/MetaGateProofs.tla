---------------------------- MODULE MetaGateProofs ----------------------------
(***************************************************************************)
(* Proofs about MetaGate, for any number of callers, tokens and slots and  *)
(* whatever Meta answers.                                                  *)
(***************************************************************************)
EXTENDS MetaGate, SumTheorems

USE GateAssumption

-----------------------------------------------------------------------------
(* Slots. *)

\* Slots and positions are as they should be.  This much of the type
\* invariant is all that the counting needs.
Shape ==
    /\ slots \in Int
    /\ pc \in [Callers -> Positions]
    /\ call \in [Callers -> Calls]
    /\ leaked \in [Tokens -> Nat]
    /\ \A w \in Callers : pc[w] # "idle" => call[w].token \in Tokens

\* How an attempt that ends leaves its caller.
LEMMA EndsOutside ==
  ASSUME Shape, NEW w \in Callers, NEW a \in Answers, pc[w] # "idle",
         AttemptEnds(w, a)
  PROVE  /\ pc' \in [Callers -> Positions]
         /\ call' \in [Callers -> Calls]
         /\ pc'[w] \in {"idle", "backoff"}
         /\ pc'[w] # "idle" => call'[w].token \in Tokens
         /\ \A v \in Callers : v # w => pc'[v] = pc[v] /\ call'[v] = call[v]
<1>1. Blank \in Calls
  BY DEF Blank, Calls, Answers
<1>2. CASE Return(w)
  BY <1>1, <1>2 DEF Return, Shape, Positions
<1>3. CASE Again(w) /\ call[w].tries < MaxRetries
  <2> DEFINE c == [token |-> call[w].token, safe |-> call[w].safe,
                   tries |-> call[w].tries + 1, pace |-> 0, answer |-> "none"]
  <2>1. call[w].token \in Tokens /\ call[w] \in Calls
    BY DEF Shape
  <2>2. c \in Calls
    BY <1>3, <2>1 DEF Calls, Answers
  <2>3. call' = [call EXCEPT ![w] = c] /\ pc' = [pc EXCEPT ![w] = "backoff"]
    BY <1>3 DEF Again, Shape
  <2>4. c.token \in Tokens
    BY <2>1
  <2> HIDE DEF c
  <2>5. QED
    BY <2>2, <2>3, <2>4 DEF Shape, Positions
<1>4. QED
  BY <1>2, <1>3 DEF AttemptEnds

\* A caller that takes a slot, leaves one, or does neither.
LEMMA HoldersFinite == IsFiniteSet(Holders) /\ Cardinality(Holders) \in Nat
<1>1. IsFiniteSet(Holders)
  BY FS_Subset DEF Holders
<1>2. QED
  BY <1>1, FS_CardinalityType

LEMMA SlotTaken ==
  ASSUME SlotsAccounted, NEW w \in Callers, w \notin Holders, w \in Holders',
         \A v \in Callers : v # w => pc'[v] = pc[v],
         slots' = slots + 1
  PROVE  SlotsAccounted'
<1>1. Holders' = Holders \cup {w}
  BY DEF Holders
<1>2. Cardinality(Holders \cup {w}) = Cardinality(Holders) + 1
  BY HoldersFinite, FS_AddElement
<1>3. QED
  BY <1>1, <1>2 DEF SlotsAccounted

LEMMA SlotFreed ==
  ASSUME SlotsAccounted, NEW w \in Callers, w \in Holders, w \notin Holders',
         \A v \in Callers : v # w => pc'[v] = pc[v],
         slots' = slots - 1
  PROVE  SlotsAccounted'
<1>1. Holders' = Holders \ {w}
  BY DEF Holders
<1>2. Cardinality(Holders \ {w}) = Cardinality(Holders) - 1
  BY HoldersFinite, FS_RemoveElement
<1>3. QED
  BY <1>1, <1>2 DEF SlotsAccounted

LEMMA SlotKept ==
  ASSUME SlotsAccounted, NEW w \in Callers, w \in Holders <=> w \in Holders',
         \A v \in Callers : v # w => pc'[v] = pc[v],
         slots' = slots
  PROVE  SlotsAccounted'
<1>1. Holders' = Holders
  BY DEF Holders
<1>2. QED
  BY <1>1 DEF SlotsAccounted

\* Slots never exceed their number.
CapInv == Shape /\ SlotsAccounted /\ slots <= MaxConcurrent

\* What one step of a caller does to its position and to the slots.
Freed(w) == /\ w \in Holders /\ w \notin Holders'
            /\ slots' = slots - 1
Kept(w) == /\ w \in Holders <=> w \in Holders'
           /\ slots' = slots
Taken(w) == /\ w \notin Holders /\ w \in Holders'
            /\ slots < MaxConcurrent /\ slots' = slots + 1

LEMMA Moves ==
  ASSUME Shape, NEW w \in Callers, Request(w) \/ Attempt(w)
  PROVE  /\ Shape'
         /\ \A v \in Callers : v # w => pc'[v] = pc[v] /\ call'[v] = call[v]
         /\ Freed(w) \/ Kept(w) \/ Taken(w)
<1> DEFINE Goal ==
             /\ Shape'
             /\ \A v \in Callers : v # w => pc'[v] = pc[v] /\ call'[v] = call[v]
             /\ Freed(w) \/ Kept(w) \/ Taken(w)
<1> SUFFICES Goal
  OBVIOUS
<1> HIDE DEF Goal
<1>0. call[w] \in Calls /\ slots \in Int
  BY DEF Shape
<1>1. ASSUME NEW t \in Tokens, NEW safe \in BOOLEAN, request(w, t, safe)
      PROVE  Goal
  <2> DEFINE c == [token |-> t, safe |-> safe, tries |-> 0, pace |-> 0,
                   answer |-> "none"]
  <2>1. c \in Calls /\ c.token = t
    BY DEF Calls, Answers
  <2>2. /\ call' = [call EXCEPT ![w] = c] /\ pc' = [pc EXCEPT ![w] = "slot"]
        /\ pc[w] = "idle" /\ slots' = slots /\ leaked' = leaked
    BY <1>1 DEF request
  <2> HIDE DEF c
  <2>3. Shape'
    BY <2>1, <2>2 DEF Shape, Positions
  <2>4. Kept(w)
    BY <2>2, <2>3 DEF Kept, Holders, Shape
  <2>5. QED
    BY <2>2, <2>3, <2>4 DEF Shape, Goal
<1>2. CASE sleepBackoff(w) \/ WaitForSlot(w)
  <2>1. /\ pc[w] \in {"backoff", "slot"} /\ slots' = slots /\ leaked' = leaked
        /\ call' = call
        /\ \E p \in {"slot", "queue"} : pc' = [pc EXCEPT ![w] = p]
    BY <1>2 DEF sleepBackoff, WaitForSlot
  <2>2. Shape' /\ Kept(w)
    BY <2>1 DEF Shape, Positions, Kept, Holders
  <2>3. QED
    BY <2>1, <2>2 DEF Shape, Goal
<1>3. CASE TakeSlot(w)
  <2>1. Shape'
    BY <1>0, <1>3 DEF TakeSlot, Shape, Positions
  <2>2. Taken(w)
    BY <1>3 DEF TakeSlot, Taken, Holders, Shape
  <2>3. QED
    BY <1>3, <2>1, <2>2 DEF TakeSlot, Shape, Goal
<1>4. CASE SlotTimeout(w)
  <2>1. /\ pc[w] = "queue" /\ slots' = slots /\ leaked' = leaked
        /\ AttemptEnds(w, "failed")
    BY <1>4 DEF SlotTimeout
  <2>2. QED
    BY <2>1, EndsOutside DEF Answers, Shape, Kept, Holders, Goal
<1>5. ASSUME NEW a \in Answers, w \in Holders, AttemptEnds(w, a), ReleaseSlot,
             leaked' \in [Tokens -> Nat]
      PROVE  Goal
  <2>1. pc[w] # "idle" /\ slots' = slots - 1 /\ slots' \in Int
    BY <1>0, <1>5 DEF Holders, ReleaseSlot
  <2>2. /\ pc' \in [Callers -> Positions] /\ call' \in [Callers -> Calls]
        /\ pc'[w] \in {"idle", "backoff"}
        /\ pc'[w] # "idle" => call'[w].token \in Tokens
        /\ \A v \in Callers : v # w => pc'[v] = pc[v] /\ call'[v] = call[v]
    BY <1>5, <2>1, EndsOutside
  <2>3. Shape'
    BY <1>5, <2>1, <2>2 DEF Shape
  <2>4. Freed(w)
    BY <1>5, <2>1, <2>2 DEF Freed, Holders
  <2>5. QED
    BY <2>2, <2>3, <2>4 DEF Goal
<1>6. CASE CircuitOpen(w) \/ UsageBlock(w)
  <2>1. /\ pc[w] = "gate" /\ ReleaseSlot /\ AttemptEnds(w, "refused")
        /\ leaked' = leaked
    BY <1>6 DEF CircuitOpen, UsageBlock
  <2>2. /\ w \in Holders /\ "refused" \in Answers
        /\ leaked' \in [Tokens -> Nat]
    BY <2>1 DEF Holders, Answers, Shape
  <2>3. QED
    BY <1>5, <2>1, <2>2
<1>7. CASE Pass(w)
  <2>1. /\ pc[w] = "gate" /\ pc' = [pc EXCEPT ![w] = "send"] /\ slots' = slots
        /\ call' = [call EXCEPT ![w].pace = Pace(call[w].token)]
        /\ leaked' = [leaked EXCEPT ![call[w].token] =
                        IF Shut(call[w].token) THEN @ ELSE 0]
    BY <1>7 DEF Pass, Through
  <2>2. /\ [call[w] EXCEPT !.pace = Pace(call[w].token)] \in Calls
        /\ [call[w] EXCEPT !.pace = Pace(call[w].token)].token = call[w].token
    BY <1>0 DEF Calls, Pace
  <2>3. Shape'
    BY <2>1, <2>2 DEF Shape, Positions
  <2>4. Kept(w)
    BY <2>1 DEF Kept, Holders, Shape
  <2>5. QED
    BY <2>1, <2>3, <2>4 DEF Shape, Goal
<1>8. ASSUME pc[w] = "send", Sent(w)
      PROVE  leaked' \in [Tokens -> Nat]
  BY <1>8 DEF Sent, Shape
<1>9. ASSUME NEW a \in {"failed", "throttled"}, NoAnswer(w, a)
      PROVE  Goal
  BY <1>5, <1>8, <1>9 DEF NoAnswer, Holders, Answers
<1>10. ASSUME NEW u \in Usages, NEW a \in Answers, trackUsage(w, u, a)
       PROVE  Goal
  <2>1. CASE a \in {"ok", "throttled"}
    <3>1. /\ pc[w] = "send" /\ pc' = [pc EXCEPT ![w] = "learn"]
          /\ call' = [call EXCEPT ![w].answer = a] /\ slots' = slots
          /\ leaked' \in [Tokens -> Nat]
      BY <1>8, <1>10, <2>1 DEF trackUsage
    <3>2. /\ [call[w] EXCEPT !.answer = a] \in Calls
          /\ [call[w] EXCEPT !.answer = a].token = call[w].token
      BY <1>0 DEF Calls
    <3>3. Shape'
      BY <3>1, <3>2 DEF Shape, Positions
    <3>4. Kept(w)
      BY <3>1 DEF Kept, Holders, Shape
    <3>5. QED
      BY <3>1, <3>3, <3>4 DEF Shape, Goal
  <2>2. CASE a \notin {"ok", "throttled"}
    BY <1>5, <1>8, <1>10, <2>2 DEF trackUsage, Holders
  <2>3. QED
    BY <2>1, <2>2
<1>11. ASSUME NEW r \in RetryAfters, registerThrottle(w, r)
       PROVE  Goal
  <2>1. /\ pc[w] = "learn" /\ ReleaseSlot /\ AttemptEnds(w, "throttled")
        /\ leaked' = leaked
    BY <1>11 DEF registerThrottle
  <2>2. /\ w \in Holders /\ "throttled" \in Answers
        /\ leaked' \in [Tokens -> Nat]
    BY <2>1 DEF Holders, Answers, Shape
  <2>3. QED
    BY <1>5, <2>1, <2>2
<1>12. CASE registerSuccess(w)
  <2>1. /\ pc[w] = "learn" /\ ReleaseSlot /\ AttemptEnds(w, "ok")
        /\ leaked' = leaked
    BY <1>12 DEF registerSuccess
  <2>2. /\ w \in Holders /\ "ok" \in Answers
        /\ leaked' \in [Tokens -> Nat]
    BY <2>1 DEF Holders, Answers, Shape
  <2>3. QED
    BY <1>5, <2>1, <2>2
<1>13. QED
  BY <1>1, <1>2, <1>3, <1>4, <1>6, <1>7, <1>9, <1>10, <1>11, <1>12
    DEF Request, Attempt

\* Time changes no position and no slot.
LEMMA TickMoves ==
  ASSUME Shape, Tick
  PROVE  /\ Shape' /\ pc' = pc /\ slots' = slots /\ leaked' = leaked
         /\ \A w \in Callers : call'[w].token = call[w].token
<1>1. \A w \in Callers : call[w] \in Calls
  BY DEF Shape
<1>2. ASSUME NEW w \in Callers
      PROVE  call'[w] \in Calls /\ call'[w].token = call[w].token
  <2> DEFINE p == Down(call[w].pace)
  <2>1. p \in 0..1
    BY <1>1 DEF Calls, Down
  <2>2. call'[w] = [call[w] EXCEPT !.pace = p]
    BY DEF Tick
  <2> HIDE DEF p
  <2>3. QED
    BY <1>1, <2>1, <2>2 DEF Calls
<1>3. call' \in [Callers -> Calls]
  <2>1. call' = [w \in Callers |-> call'[w]]
    BY DEF Tick
  <2>2. QED
    BY <1>2, <2>1
<1>4. QED
  BY <1>2, <1>3 DEF Tick, Shape

LEMMA CapStep == CapInv /\ [Next]_vars => CapInv'
<1> SUFFICES ASSUME CapInv, [Next]_vars
             PROVE  CapInv'
  OBVIOUS
<1>0. MaxConcurrent \in Nat
  OBVIOUS
<1>1. ASSUME NEW w \in Callers, Request(w) \/ Attempt(w)
      PROVE  CapInv'
  <2>1. /\ Shape' /\ slots \in Int
        /\ \A v \in Callers : v # w => pc'[v] = pc[v]
        /\ Freed(w) \/ Kept(w) \/ Taken(w)
    BY <1>1, Moves DEF CapInv, Shape
  <2>2. SlotsAccounted'
    BY <2>1, SlotTaken, SlotFreed, SlotKept DEF CapInv, Freed, Kept, Taken
  <2>3. slots' <= MaxConcurrent
    BY <1>0, <2>1 DEF CapInv, Freed, Kept, Taken
  <2>4. QED
    BY <2>1, <2>2, <2>3 DEF CapInv
<1>2. CASE Tick
  BY <1>2, TickMoves DEF CapInv, SlotsAccounted, Holders
<1>3. CASE UNCHANGED vars
  BY <1>3 DEF vars, CapInv, Shape, SlotsAccounted, Holders
<1>4. QED
  BY <1>1, <1>2, <1>3 DEF Next

LEMMA CapCorrect == Spec => []CapInv
<1>1. Init => CapInv
  <2> SUFFICES ASSUME Init
               PROVE  CapInv
    OBVIOUS
  <2>1. Blank \in Calls
    BY DEF Blank, Calls, Answers
  <2>2. Shape
    BY <2>1 DEF Init, Shape, Positions
  <2>3. Holders = {}
    BY DEF Init, Holders
  <2>4. SlotsAccounted /\ slots <= MaxConcurrent
    BY <2>3, FS_EmptySet DEF Init, SlotsAccounted
  <2>5. QED
    BY <2>2, <2>4 DEF CapInv
<1>2. QED
  BY <1>1, CapStep, PTL DEF Spec

\* However attempts end, the filled slots are those of the calls that hold one.
THEOREM SlotsNeverLost == Spec => []SlotsAccounted
<1>1. CapInv => SlotsAccounted
  BY DEF CapInv
<1>2. QED
  BY <1>1, CapCorrect, PTL
-----------------------------------------------------------------------------
(* Calls that leak through a shut gate. *)

\* What LeakInv says of one token.
Leak(t) ==
    /\ leaked[t] + Cardinality(Past(t)) <= MaxConcurrent
    /\ Shut(t) \/ leaked[t] > 0 => leaked[t] + Cardinality(Past(t)) < MaxConcurrent

\* There is a greatest usage Meta may report.
LEMMA MaxUsageBounds == MaxUsage \in Nat /\ \A u \in Usages : u <= MaxUsage
<1>1. \E u \in Usages : \A v \in Usages : v <= u
  <2>1. Usages \in SUBSET Int /\ IsFiniteSet(Usages) /\ Usages # {}
    OBVIOUS
  <2>2. QED
    BY <2>1, GreatestExists
<1>2. QED
  BY <1>1 DEF MaxUsage

\* A cooldown is positive and at most the longest.
LEMMA CooldownBounds ==
  ASSUME NEW n \in 1..MaxShift + 1
  PROVE  Cooldown(n) \in 1..MaxCooldown
<1> DEFINE e == Least(n - 1, MaxShift)
<1>1. e \in Nat
  BY DEF Least
<1> HIDE DEF e
<1>2. PICK p \in Nat \ {0} : p = 2^e
  BY <1>1, PowerOfTwo
<1>3. BaseCooldown * p \in Nat \ {0}
  <2>1. BaseCooldown \in Nat \ {0}
    OBVIOUS
  <2>2. \A a, b \in Nat \ {0} : a * b \in Nat \ {0}
    OBVIOUS
  <2>3. QED
    BY <2>1, <2>2
<1>4. Cooldown(n) = Least(BaseCooldown * p, MaxCooldown)
  BY <1>2 DEF Cooldown, e
<1>5. QED
  BY <1>3, <1>4 DEF Least

\* The keyStates have their types.
KeyShape == keys \in [Tokens -> KeyStates]

LEMMA KeyStep ==
  ASSUME Shape, KeyShape, [Next]_vars
  PROVE  KeyShape'
<1> DEFINE S == KeyStates
<1>0. /\ keys \in [Tokens -> S]
      /\ Burst \in Nat \ {0} /\ MaxShift \in Nat /\ Decay \in Nat
      /\ BaseCooldown \in 1..MaxCooldown /\ MaxCooldown \in Nat /\ MaxUsage \in Nat
  BY MaxUsageBounds DEF KeyShape
<1> USE DEF KeyStates
<1>1. ASSUME NEW w \in Callers, UsageBlock(w)
      PROVE  KeyShape'
  <2>1. PICK s : s = call[w].token
    OBVIOUS
  <2>2. s \in Tokens /\ keys[s] \in S
    BY <1>0, <1>1, <2>1 DEF UsageBlock, Shape
  <2> DEFINE n == Least(keys[s].throttles + 1, MaxShift + 1)
  <2>3. n \in 0..MaxShift + 1
    BY <1>0, <2>2 DEF Least
  <2>4. keys' = [keys EXCEPT ![s] = [keys[s] EXCEPT !.blockedFor = BaseCooldown,
                                                    !.throttles = n]]
    BY <1>0, <1>1, <2>1, <2>2 DEF UsageBlock
  <2> HIDE DEF n
  <2>5. [keys[s] EXCEPT !.blockedFor = BaseCooldown, !.throttles = n] \in S
    <3>1. BaseCooldown \in 0..MaxCooldown
      BY <1>0
    <3>2. QED
      BY <2>2, <2>3, <3>1
  <2>6. QED
    BY <1>0, <2>2, <2>4, <2>5 DEF KeyShape
<1>2. ASSUME NEW w \in Callers, NEW u \in Usages, NEW a \in Answers,
             trackUsage(w, u, a)
      PROVE  KeyShape'
  <2>1. PICK s : s = call[w].token
    OBVIOUS
  <2>2. s \in Tokens /\ keys[s] \in S
    BY <1>0, <1>2, <2>1 DEF trackUsage, Shape
  <2> DEFINE m == Most(Most(keys[s].usage, u) - Decay, 0)
  <2>3. m \in 0..MaxUsage
    BY <1>0, <2>2, MaxUsageBounds DEF Most
  <2>4. keys' = keys \/ keys' = [keys EXCEPT ![s] = [keys[s] EXCEPT !.usage = m]]
    BY <1>0, <1>2, <2>1, <2>2 DEF trackUsage
  <2> HIDE DEF m
  <2>5. [keys[s] EXCEPT !.usage = m] \in S
    BY <2>2, <2>3
  <2>6. QED
    BY <1>0, <2>2, <2>4, <2>5 DEF KeyShape
<1>3. ASSUME NEW w \in Callers, NEW r \in RetryAfters, registerThrottle(w, r)
      PROVE  KeyShape'
  <2>1. PICK s : s = call[w].token
    OBVIOUS
  <2>2. s \in Tokens /\ keys[s] \in S
    BY <1>0, <1>3, <2>1 DEF registerThrottle, Shape
  <2> DEFINE n == Least(keys[s].throttles + 1, MaxShift + 1)
             b == IF r > 0 THEN Least(r, Cooldown(n)) ELSE Cooldown(n)
  <2>3. n \in 1..MaxShift + 1
    BY <1>0, <2>2 DEF Least
  <2>4. Cooldown(n) \in 1..MaxCooldown
    <3> HIDE DEF n
    <3>1. QED
      BY <2>3, CooldownBounds
  <2>5. b \in 0..MaxCooldown
    <3> HIDE DEF n
    <3>1. r \in Nat
      OBVIOUS
    <3>2. QED
      BY <1>0, <2>4, <3>1 DEF Least
  <2>6. keys' = [keys EXCEPT ![s] = [keys[s] EXCEPT !.throttles = n, !.blockedFor = b]]
    BY <1>0, <1>3, <2>1, <2>2 DEF registerThrottle
  <2> HIDE DEF n, b
  <2>7. [keys[s] EXCEPT !.throttles = n, !.blockedFor = b] \in S
    <3>1. n \in 0..MaxShift + 1
      BY <1>0, <2>3
    <3>2. QED
      BY <2>2, <2>5, <3>1
  <2>8. QED
    BY <1>0, <2>2, <2>6, <2>7 DEF KeyShape
<1>4. ASSUME NEW w \in Callers, registerSuccess(w)
      PROVE  KeyShape'
  <2>1. PICK s : s = call[w].token
    OBVIOUS
  <2>2. s \in Tokens /\ keys[s] \in S
    BY <1>0, <1>4, <2>1 DEF registerSuccess, Shape
  <2>3. [keys[s] EXCEPT !.throttles = 0] \in S
    BY <2>2
  <2>4. QED
    BY <1>0, <1>4, <2>1, <2>2, <2>3 DEF registerSuccess, KeyShape
<1>5. CASE Tick
  <2>1. ASSUME NEW t \in Tokens
        PROVE  [tokens |-> Least(keys[t].tokens + 1, Burst), usage |-> keys[t].usage,
                blockedFor |-> Down(keys[t].blockedFor),
                throttles |-> keys[t].throttles] \in S
    BY <1>0 DEF Least, Down
  <2>2. QED
    BY <1>5, <2>1 DEF Tick, KeyShape
<1>6. CASE keys' = keys
  BY <1>0, <1>6 DEF KeyShape
<1>7. QED
  BY <1>1, <1>2, <1>3, <1>4, <1>5, <1>6 DEF Next, Request, Attempt, request, vars,
    TakeSlot, WaitForSlot, SlotTimeout, CircuitOpen, Pass, Through, NoAnswer,
    sleepBackoff

LEMMA KeysCorrect == Spec => []KeyShape
<1>1. Init => KeyShape
  BY MaxUsageBounds DEF Init, KeyShape, KeyStates, stateLocked
<1>2. CapInv /\ KeyShape /\ [Next]_vars => KeyShape'
  BY KeyStep DEF CapInv
<1>3. QED
  BY <1>1, <1>2, CapCorrect, PTL DEF Spec

LEMMA PastFinite ==
  ASSUME NEW t \in Tokens
  PROVE  IsFiniteSet(Past(t)) /\ Cardinality(Past(t)) \in Nat
<1>1. IsFiniteSet(Past(t))
  BY FS_Subset DEF Past
<1>2. QED
  BY <1>1, FS_CardinalityType

\* The calls past a gate all hold slots; fewer, if another holder is not one.
LEMMA PastHold ==
  ASSUME CapInv, NEW t \in Tokens
  PROVE  /\ Cardinality(Past(t)) <= MaxConcurrent
         /\ \A w \in Holders \ Past(t) : Cardinality(Past(t)) < MaxConcurrent
<1>0. /\ Past(t) \subseteq Holders /\ Cardinality(Holders) <= MaxConcurrent
      /\ MaxConcurrent \in Nat
  BY DEF Past, Holders, CapInv, SlotsAccounted
<1>1. Cardinality(Past(t)) <= Cardinality(Holders)
  BY <1>0, HoldersFinite, FS_Subset
<1>2. ASSUME NEW w \in Holders \ Past(t)
      PROVE  Cardinality(Past(t)) < Cardinality(Holders)
  <2>1. Past(t) \subseteq Holders \ {w}
    BY <1>0, <1>2
  <2>2. /\ IsFiniteSet(Holders \ {w})
        /\ Cardinality(Holders \ {w}) = Cardinality(Holders) - 1
    BY <1>2, HoldersFinite, FS_RemoveElement
  <2>3. Cardinality(Past(t)) <= Cardinality(Holders \ {w})
    BY <2>1, <2>2, FS_Subset
  <2>4. QED
    BY <2>2, <2>3, HoldersFinite, PastFinite
<1>3. QED
  BY <1>0, <1>1, <1>2, HoldersFinite, PastFinite

\* A step that neither passes nor sends a call of the token, nor shuts it.
LEMMA LeakKept ==
  ASSUME NEW t \in Tokens, Leak(t), Past(t)' = Past(t),
         leaked'[t] = leaked[t], Shut(t)' => Shut(t)
  PROVE  Leak(t)'
  BY DEF Leak

\* A call that goes out is past the gate no more.
LEMMA LeakSent ==
  ASSUME Shape, \A t \in Tokens : Leak(t), NEW w \in Callers, pc[w] = "send",
         pc'[w] # "send", Sent(w),
         \A v \in Callers : v # w => pc'[v] = pc[v] /\ call'[v] = call[v],
         \A t \in Tokens : t # call[w].token => keys'[t] = keys[t]
  PROVE  \A t \in Tokens : Leak(t)'
<1>s. PICK s \in Tokens : s = call[w].token
  BY DEF Shape
<1>0. s \in Tokens /\ MaxConcurrent \in Nat
  OBVIOUS
<1>1. Leak(s)'
  <2>1. Past(s)' = Past(s) \ {w} /\ w \in Past(s)
    BY <1>s DEF Past
  <2>2. Cardinality(Past(s)') = Cardinality(Past(s)) - 1
    BY <1>0, <2>1, PastFinite, FS_RemoveElement
  <2>3. leaked'[s] = (IF Shut(s) THEN leaked[s] + 1 ELSE leaked[s])
    BY <1>s DEF Sent, Shape
  <2>4. leaked[s] \in Nat /\ Cardinality(Past(s)) \in Nat /\ Leak(s)
    BY <1>0, PastFinite DEF Shape
  <2>5. leaked'[s] + Cardinality(Past(s)') < MaxConcurrent
    <3>1. CASE Shut(s)
      BY <1>0, <2>2, <2>3, <2>4, <3>1 DEF Leak
    <3>2. CASE ~Shut(s)
      BY <1>0, <2>2, <2>3, <2>4, <3>2 DEF Leak
    <3>3. QED
      BY <3>1, <3>2
  <2>6. leaked'[s] + Cardinality(Past(s)') \in Int
    BY <2>2, <2>3, <2>4
  <2>7. QED
    BY <1>0, <2>5, <2>6 DEF Leak
<1>2. ASSUME NEW t \in Tokens, t # s
      PROVE  Leak(t)'
  <2>1. Past(t)' = Past(t)
    BY <1>s, <1>2 DEF Past
  <2>2. leaked'[t] = leaked[t]
    BY <1>s, <1>2 DEF Sent, Shape
  <2>3. Shut(t)' <=> Shut(t)
    BY <1>s, <1>2 DEF Shut
  <2>4. QED
    BY <2>1, <2>2, <2>3, LeakKept
<1>3. QED
  BY <1>1, <1>2

LEMMA LeakStep == CapInv /\ KeyShape /\ LeakInv /\ [Next]_vars => LeakInv'
<1> SUFFICES ASSUME CapInv, KeyShape, LeakInv, [Next]_vars
             PROVE  \A t \in Tokens : Leak(t)'
  BY DEF LeakInv, Leak
<1>0. /\ \A t \in Tokens : Leak(t)
      /\ Shape
      /\ CapInv'
      /\ MaxConcurrent \in Nat
  BY CapStep DEF LeakInv, Leak, CapInv
<1>1. ASSUME NEW w \in Callers, Request(w) \/ Attempt(w)
      PROVE  \A t \in Tokens : Leak(t)'
  <2>0. /\ \A v \in Callers : v # w => pc'[v] = pc[v] /\ call'[v] = call[v]
        /\ pc[w] # "idle" => call[w].token \in Tokens
    BY <1>0, <1>1, Moves DEF Shape
  <2>1. CASE /\ pc[w] # "send" /\ pc'[w] # "send"
             /\ leaked' = leaked /\ keys' = keys
    <3>1. \A t \in Tokens : Past(t)' = Past(t)
      BY <2>0, <2>1 DEF Past
    <3>2. \A t \in Tokens : Shut(t)' <=> Shut(t)
      BY <2>1 DEF Shut
    <3>3. QED
      BY <1>0, <2>1, <3>1, <3>2, LeakKept
  <2>2. CASE UsageBlock(w)
    <3>1. pc[w] = "gate" /\ leaked' = leaked
      BY <2>2 DEF UsageBlock
    <3>2. pc'[w] # "send"
      BY <1>0, <2>2, <3>1, EndsOutside DEF UsageBlock, Answers
    <3>3. \A t \in Tokens : Past(t)' = Past(t)
      BY <2>0, <3>1, <3>2 DEF Past
    <3>4. \A t \in Tokens : Shut(t)' => Shut(t)
      <4> TAKE t \in Tokens
      <4>1. CASE t = call[w].token
        BY <2>2, <4>1 DEF UsageBlock, Shut, KeyShape
      <4>2. CASE t # call[w].token
        BY <2>2, <4>2 DEF UsageBlock, Shut, KeyShape
      <4>3. QED
        BY <4>1, <4>2
    <3>5. QED
      BY <1>0, <3>1, <3>3, <3>4, LeakKept
  <2>3. CASE Pass(w)
    <3>0. PICK s \in Tokens : s = call[w].token
      BY <2>0, <2>3 DEF Pass
    <3>1. /\ pc[w] = "gate" /\ pc'[w] = "send" /\ ~Shut(s)
          /\ keys' = keys /\ call'[w].token = s
          /\ leaked' = [leaked EXCEPT ![s] = 0]
      BY <1>0, <2>3, <3>0 DEF Pass, Through, Shape, Calls
    <3>2. Leak(s)'
      <4>0. Past(s)' \subseteq Holders' /\ IsFiniteSet(Holders')
        BY FS_Subset DEF Past, Holders
      <4>1. Cardinality(Past(s)') <= MaxConcurrent
        <5>1. /\ Cardinality(Past(s)') <= Cardinality(Holders')
              /\ Cardinality(Past(s)') \in Nat
          BY <4>0, FS_Subset, FS_CardinalityType
        <5>2. Cardinality(Holders') = slots' /\ slots' <= MaxConcurrent /\ slots' \in Int
          BY <1>0 DEF CapInv, SlotsAccounted, Shape
        <5>3. QED
          BY <1>0, <5>1, <5>2
      <4>2. leaked'[s] = 0 /\ ~Shut(s)'
        BY <1>0, <3>1 DEF Shape, Shut
      <4>3. Cardinality(Past(s)') \in Nat
        BY <4>0, FS_Subset, FS_CardinalityType
      <4>4. QED
        BY <1>0, <4>1, <4>2, <4>3 DEF Leak
    <3>3. ASSUME NEW t \in Tokens, t # s
          PROVE  Leak(t)'
      <4>1. Past(t)' = Past(t) /\ leaked'[t] = leaked[t]
        BY <1>0, <2>0, <3>1, <3>3 DEF Past, Shape
      <4>2. Shut(t)' <=> Shut(t)
        BY <3>1 DEF Shut
      <4>3. QED
        BY <1>0, <4>1, <4>2, LeakKept
    <3>4. QED
      BY <3>2, <3>3
  <2>4. ASSUME NEW a \in {"failed", "throttled"}, NoAnswer(w, a)
        PROVE  \A t \in Tokens : Leak(t)'
    <3>1. pc[w] = "send" /\ Sent(w) /\ keys' = keys /\ AttemptEnds(w, a)
      BY <2>4 DEF NoAnswer
    <3>2. pc'[w] # "send"
      BY <1>0, <3>1, EndsOutside DEF Answers
    <3>3. QED
      BY <1>0, <2>0, <3>1, <3>2, LeakSent
  <2>5. ASSUME NEW u \in Usages, NEW a \in Answers, trackUsage(w, u, a)
        PROVE  \A t \in Tokens : Leak(t)'
    <3>1. pc[w] = "send" /\ Sent(w)
      BY <2>5 DEF trackUsage
    <3>2. \A t \in Tokens : t # call[w].token => keys'[t] = keys[t]
      BY <2>5 DEF trackUsage, KeyShape
    <3>3. pc'[w] # "send"
      <4>1. CASE a \in {"ok", "throttled"}
        BY <1>0, <2>5, <4>1 DEF trackUsage, Shape
      <4>2. CASE a \notin {"ok", "throttled"}
        BY <1>0, <2>5, <3>1, <4>2, EndsOutside DEF trackUsage
      <4>3. QED
        BY <4>1, <4>2
    <3>4. QED
      BY <1>0, <2>0, <3>1, <3>2, <3>3, LeakSent
  <2>6. ASSUME NEW r \in RetryAfters, registerThrottle(w, r)
        PROVE  \A t \in Tokens : Leak(t)'
    <3>0. PICK s \in Tokens : s = call[w].token
      BY <2>0, <2>6 DEF registerThrottle
    <3>1. /\ pc[w] = "learn" /\ leaked' = leaked
          /\ AttemptEnds(w, "throttled")
          /\ \A t \in Tokens : t # s => keys'[t] = keys[t]
      BY <2>6, <3>0 DEF registerThrottle, KeyShape
    <3>2. pc'[w] # "send"
      BY <1>0, <3>1, EndsOutside DEF Answers
    <3>3. \A t \in Tokens : Past(t)' = Past(t)
      BY <2>0, <3>1, <3>2 DEF Past
    <3>4. Leak(s)'
      <4>1. w \in Holders \ Past(s)
        BY <3>0, <3>1 DEF Holders, Past
      <4>2. Cardinality(Past(s)) < MaxConcurrent
        BY <3>1, <4>1, PastHold
      <4>3. leaked[s] \in Nat /\ Cardinality(Past(s)) \in Nat
        BY <1>0, <3>1, PastFinite DEF Shape
      <4>4. leaked[s] + Cardinality(Past(s)) < MaxConcurrent
        BY <1>0, <3>1, <4>2, <4>3 DEF Leak
      <4>5. leaked[s] + Cardinality(Past(s)) \in Int
        BY <4>3
      <4>6. QED
        BY <1>0, <3>1, <3>3, <4>4, <4>5 DEF Leak
    <3>5. ASSUME NEW t \in Tokens, t # s
          PROVE  Leak(t)'
      <4>1. Shut(t)' <=> Shut(t)
        BY <3>1, <3>5 DEF Shut
      <4>2. QED
        BY <1>0, <3>1, <3>3, <4>1, LeakKept
    <3>6. QED
      BY <3>4, <3>5
  <2>7. CASE registerSuccess(w)
    <3>1. /\ pc[w] = "learn" /\ leaked' = leaked /\ AttemptEnds(w, "ok")
      BY <2>7 DEF registerSuccess
    <3>2. pc'[w] # "send"
      BY <1>0, <3>1, EndsOutside DEF Answers
    <3>3. \A t \in Tokens : Past(t)' = Past(t)
      BY <2>0, <3>1, <3>2 DEF Past
    <3>4. \A t \in Tokens : Shut(t)' => Shut(t)
      <4> TAKE t \in Tokens
      <4>1. CASE t = call[w].token
        BY <2>7, <4>1 DEF registerSuccess, Shut, KeyShape
      <4>2. CASE t # call[w].token
        BY <2>7, <4>2 DEF registerSuccess, Shut, KeyShape
      <4>3. QED
        BY <4>1, <4>2
    <3>5. QED
      BY <1>0, <3>1, <3>3, <3>4, LeakKept
  <2>8. CASE Request(w) \/ TakeSlot(w) \/ WaitForSlot(w) \/ sleepBackoff(w)
    <3>1. /\ pc[w] # "send" /\ pc'[w] # "send"
          /\ leaked' = leaked /\ keys' = keys
      BY <1>0, <2>8 DEF Request, request, TakeSlot, WaitForSlot, sleepBackoff, Shape
    <3>2. QED
      BY <2>1, <3>1
  <2>9. CASE SlotTimeout(w) \/ CircuitOpen(w)
    <3>1. /\ pc[w] \in {"queue", "gate"} /\ leaked' = leaked /\ keys' = keys
          /\ AttemptEnds(w, "failed") \/ AttemptEnds(w, "refused")
      BY <2>9 DEF SlotTimeout, CircuitOpen
    <3>2. pc'[w] # "send"
      BY <1>0, <3>1, EndsOutside DEF Answers
    <3>3. QED
      BY <2>1, <3>1, <3>2
  <2>10. QED
    BY <1>1, <2>2, <2>3, <2>4, <2>5, <2>6, <2>7, <2>8, <2>9 DEF Attempt
<1>2. CASE Tick
  <2>1. /\ pc' = pc /\ leaked' = leaked
        /\ \A w \in Callers : call'[w].token = call[w].token
    BY <1>0, <1>2, TickMoves
  <2>2. \A t \in Tokens : Past(t)' = Past(t)
    BY <2>1 DEF Past
  <2>3. \A t \in Tokens : Shut(t)' => Shut(t)
    BY <1>2 DEF Tick, Shut, Down, KeyShape
  <2>4. QED
    BY <1>0, <2>1, <2>2, <2>3, LeakKept
<1>3. CASE UNCHANGED vars
  <2>1. \A t \in Tokens : /\ Past(t)' = Past(t)
                          /\ Shut(t)' <=> Shut(t)
                          /\ leaked'[t] = leaked[t]
    BY <1>3 DEF vars, Past, Shut
  <2>2. QED
    BY <1>0, <2>1, LeakKept
<1>4. QED
  BY <1>1, <1>2, <1>3 DEF Next

\* Once a token is shut, fewer calls than there are slots still reach Meta
\* before one passes its gate again.
THEOREM LeaksBounded == Spec => []LeakBounded
<1>1. Init => LeakInv
  <2> SUFFICES ASSUME Init, NEW t \in Tokens
               PROVE  Leak(t)
    BY DEF LeakInv, Leak
  <2>1. Past(t) = {} /\ leaked[t] = 0
    BY DEF Init, Past
  <2>2. MaxConcurrent \in Nat \ {0}
    OBVIOUS
  <2>3. QED
    BY <2>1, <2>2, FS_EmptySet DEF Leak
<1>2. CapInv /\ KeyShape /\ LeakInv /\ [Next]_vars => LeakInv'
  BY LeakStep
<1>3. CapInv /\ LeakInv => LeakBounded
  <2> SUFFICES ASSUME CapInv, LeakInv, NEW t \in Tokens
               PROVE  leaked[t] < MaxConcurrent
    BY DEF LeakBounded
  <2>1. /\ leaked[t] \in Nat /\ Cardinality(Past(t)) \in Nat
        /\ MaxConcurrent \in Nat \ {0}
    BY PastFinite DEF CapInv, Shape
  <2>2. QED
    BY <2>1 DEF LeakInv
<1>4. QED
  BY <1>1, <1>2, <1>3, KeysCorrect, CapCorrect, PTL DEF Spec
-----------------------------------------------------------------------------
\* Slots, positions, buckets, usages, cooldowns and counts of throttles stay
\* within their bounds, whatever Meta's headers say and however long tokens are
\* throttled in a row.
THEOREM GateTypeCorrect == Spec => []TypeOK
<1>1. CapInv /\ KeyShape => TypeOK
  <2> SUFFICES ASSUME CapInv, KeyShape PROVE TypeOK
    OBVIOUS
  <2>1. slots \in 0..MaxConcurrent
    BY HoldersFinite DEF CapInv, Shape, SlotsAccounted
  <2>2. QED
    BY <2>1 DEF CapInv, Shape, KeyShape, TypeOK
<1>2. QED
  BY <1>1, KeysCorrect, CapCorrect, PTL
===============================================================================
