--------------------------- MODULE MetaReadsProofs ---------------------------
(***************************************************************************)
(* Proofs about MetaReads, for any number of callers, keys and retries.    *)
(***************************************************************************)
EXTENDS MetaReads, TLAPS

USE ReadsAssumption

\* A request starts, and ends, with well-typed locals.
LEMMA CallTypes ==
  ASSUME TypeOK
  PROVE  /\ Blank \in Calls
         /\ \A m \in Methods, k \in Keys : NewCall(m, k) \in Calls
         /\ \A c \in Calls, r \in Results : Returned(c, r) \in Calls
<1>1. Blank \in Calls
  BY DEF Blank, Calls, Methods, Versions, Results
<1>2. ASSUME NEW m \in Methods, NEW k \in Keys
      PROVE  NewCall(m, k) \in Calls
  BY DEF NewCall, Calls, TypeOK, Versions, Results
<1>3. ASSUME NEW c \in Calls, NEW r \in Results
      PROVE  Returned(c, r) \in Calls
  <2> DEFINE o == r # "error" /\ c.overtaken
             d == IF r = "error" THEN 0 ELSE c.data
             f == IF r = "error" THEN 0 ELSE c.floor
  <2>1. o \in BOOLEAN
    OBVIOUS
  <2>2. d \in Versions /\ f \in Versions
    BY DEF Calls, Versions
  <2>3. c.method \in Methods /\ c.changes \in Nat
    BY DEF Calls
  <2>4. Returned(c, r) = [method |-> c.method, key |-> Nobody, tries |-> 0,
                          data |-> d, overtaken |-> o, floor |-> f,
                          changes |-> c.changes, result |-> r]
    BY DEF Returned
  <2> HIDE DEF o, d, f
  <2>5. QED
    BY <2>1, <2>2, <2>3, <2>4 DEF Calls
<1>4. QED
  BY <1>1, <1>2, <1>3

\* Type correctness is inductive.
LEMMA TypeStep == TypeOK /\ [Next]_vars => TypeOK'
<1> SUFFICES ASSUME TypeOK, [Next]_vars
             PROVE  TypeOK'
  OBVIOUS
<1>0. \A w \in Callers : call[w] \in Calls
  BY DEF TypeOK
<1>1. ASSUME NEW w \in Callers, NEW k \in Keys, RequestGet(w, k)
      PROVE  TypeOK'
  <2> DEFINE c == [NewCall("GET", k) EXCEPT !.data = cache[k].data,
                                            !.overtaken = cache[k].overtaken]
  <2>1. NewCall("GET", k) \in Calls /\ NewCall("GET", k).key = k
    BY CallTypes DEF Methods, NewCall
  <2>2. cache[k].data \in Versions /\ cache[k].overtaken \in BOOLEAN
    BY DEF TypeOK, Entries
  <2>3. c \in Calls
    BY <2>1, <2>2 DEF Calls
  <2>4. Returned(c, "ok") \in Calls
    BY <2>3, CallTypes DEF Results
  <2>5. CASE /\ call' = [call EXCEPT ![w] = Returned(c, "ok")]
             /\ UNCHANGED <<cache, pc>>
    <3> HIDE DEF c
    <3>1. call' \in [Callers -> Calls]
      BY <2>4, <2>5 DEF TypeOK
    <3>2. \A v \in Callers : pc'[v] # "idle" => call'[v].key \in Keys
      BY <1>1, <2>5 DEF RequestGet, TypeOK
    <3>3. QED
      BY <1>1, <2>5, <3>1, <3>2 DEF RequestGet, TypeOK
  <2>6. CASE /\ call' = [call EXCEPT ![w] = NewCall("GET", k)]
             /\ cache' = [cache EXCEPT ![k] = Absent]
             /\ pc' = [pc EXCEPT ![w] = "join"]
    <3>1. Absent \in Entries
      BY DEF Absent, Entries, Versions
    <3>2. QED
      BY <1>1, <2>1, <2>6, <3>1 DEF RequestGet, TypeOK, Positions
  <2>7. QED
    BY <1>1, <2>5, <2>6 DEF RequestGet
<1>2. ASSUME NEW w \in Callers, NEW m \in Methods, NEW k \in Keys,
             RequestWrite(w, m, k)
      PROVE  TypeOK'
  <2>1. NewCall(m, k) \in Calls /\ NewCall(m, k).key = k
    BY CallTypes DEF NewCall
  <2>2. /\ call' \in [Callers -> Calls]
        /\ pc' \in [Callers -> Positions]
        /\ \A v \in Callers : pc'[v] # "idle" => call'[v].key \in Keys
    BY <1>2, <2>1 DEF RequestWrite, TypeOK, Positions
  <2>3. /\ remote' = remote /\ cache' = cache
        /\ inflight' = inflight /\ acked' = acked
    BY <1>2 DEF RequestWrite
  <2>4. QED
    BY <2>2, <2>3 DEF TypeOK
<1>3. ASSUME NEW w \in Callers, Step(w)
      PROVE  TypeOK'
  <2>0. pc[w] # "idle" => call[w].key \in Keys
    BY DEF TypeOK
  <2>1. CASE joinInflight(w)
    <3>1. /\ pc' \in [Callers -> Positions]
          /\ inflight' \in [Keys -> Callers \cup {Nobody}]
      BY <2>1 DEF joinInflight, TypeOK, Positions
    <3>2. \A v \in Callers : pc'[v] # "idle" => pc[v] # "idle"
      BY <2>1 DEF joinInflight, TypeOK
    <3>3. QED
      BY <2>1, <3>1, <3>2 DEF joinInflight, TypeOK
  <2>2. CASE Fetch(w)
    <3>1. remote[call[w].key].version \in Versions
      BY <2>0, <2>2 DEF Fetch, TypeOK
    <3>2. [call[w] EXCEPT !.data = remote[call[w].key].version,
                          !.overtaken = FALSE] \in Calls
      BY <3>1, <1>0 DEF Calls
    <3>3. QED
      BY <2>2, <3>1, <3>2, <1>0 DEF Fetch, TypeOK, Positions, Calls
  <2>3. CASE cachePut(w)
    <3>1. [here |-> TRUE, data |-> call[w].data, overtaken |-> call[w].overtaken]
            \in Entries
      BY <1>0 DEF Calls, Entries
    <3>2. Absent \in Entries
      BY DEF Absent, Entries, Versions
    <3>3. cache' \in [Keys -> Entries]
      BY <2>3, <3>1, <3>2 DEF cachePut, TypeOK
    <3>4. [call[w] EXCEPT !.result = "ok"] \in Calls
      BY <1>0 DEF Calls, Results
    <3>5. QED
      BY <2>3, <3>3, <3>4, <1>0 DEF cachePut, TypeOK, Positions, Calls
  <2>4. CASE finishInflight(w)
    <3>1. call[w].result \in Results
      BY <1>0 DEF Calls
    <3>2. Returned(call[w], call[w].result) \in Calls
      BY <1>0, <3>1, CallTypes
    <3>3. ASSUME NEW v \in Callers, NEW r \in Results
          PROVE  Returned([call[v] EXCEPT !.data = call[w].data,
                                          !.overtaken = call[w].overtaken], r)
                   \in Calls
      <4> DEFINE c == [call[v] EXCEPT !.data = call[w].data,
                                      !.overtaken = call[w].overtaken]
      <4>1. call[w].data \in Versions /\ call[w].overtaken \in BOOLEAN
        BY <1>0 DEF Calls
      <4>2. c \in Calls
        BY <1>0, <4>1 DEF Calls
      <4> HIDE DEF c
      <4>3. Returned(c, r) \in Calls
        BY <4>2, CallTypes
      <4>4. QED
        BY <4>3 DEF c
    <3>4. "zero" \in Results /\ "error" \in Results
      BY DEF Results
    <3>5. call' \in [Callers -> Calls]
      BY <1>0, <2>4, <3>2, <3>3, <3>4 DEF finishInflight
    <3>6. \A v \in Callers : pc'[v] # "idle" => pc[v] # "idle" /\ call'[v] = call[v]
      BY <2>4 DEF finishInflight
    <3>7. pc' \in [Callers -> Positions]
      BY <2>4 DEF finishInflight, TypeOK, Positions
    <3>8. QED
      BY <2>4, <3>5, <3>6, <3>7 DEF finishInflight, TypeOK
  <2>5. CASE WriteOK(w)
    <3> DEFINE k == call[w].key
    <3>1. k \in Keys /\ remote[k] \in [version : Versions, gone : BOOLEAN]
      BY <2>0, <2>5 DEF WriteOK, TypeOK
    <3>2. remote[k].version + 1 \in Versions
      BY <2>5, <3>1 DEF WriteOK, Change, Versions
    <3>3. /\ remote' \in [Keys -> [version : Versions, gone : BOOLEAN]]
          /\ remote'[k].version \in Versions
      BY <2>5, <3>1, <3>2 DEF WriteOK, Change, TypeOK
    <3>4. [call[w] EXCEPT !.data = remote'[k].version, !.changes = @ + 1] \in Calls
      <4> DEFINE d == remote'[k].version
                 n == call[w].changes + 1
      <4>1. d \in Versions /\ n \in Nat
        BY <1>0, <3>3 DEF Calls
      <4>2. [call[w] EXCEPT !.data = d, !.changes = @ + 1]
              = [call[w] EXCEPT !.data = d, !.changes = n]
        BY <1>0 DEF Calls
      <4> HIDE DEF d, n, k
      <4>3. [call[w] EXCEPT !.data = d, !.changes = n] \in Calls
        BY <1>0, <4>1 DEF Calls
      <4>4. QED
        BY <4>2, <4>3 DEF d, k
    <3>5. call' = [call EXCEPT ![w] = [call[w] EXCEPT
                     !.data = remote'[k].version, !.changes = @ + 1]]
      BY <2>5 DEF WriteOK, TypeOK
    <3>6. call'[w].key = k
      BY <3>5, <1>0 DEF TypeOK, Calls
    <3>7. QED
      BY <2>5, <3>1, <3>3, <3>4, <3>5, <3>6 DEF WriteOK, TypeOK, Positions
  <2>6. CASE WriteLost(w)
    <3> DEFINE k == call[w].key
               c == [call[w] EXCEPT !.changes = @ + 1]
    <3>1. k \in Keys /\ remote[k] \in [version : Versions, gone : BOOLEAN]
      BY <2>0, <2>6 DEF WriteLost, TypeOK
    <3>2. remote[k].version + 1 \in Versions
      BY <2>6, <3>1 DEF WriteLost, Change, Versions
    <3>3. remote' \in [Keys -> [version : Versions, gone : BOOLEAN]]
      BY <2>6, <3>1, <3>2 DEF WriteLost, Change, TypeOK
    <3>4. c \in Calls /\ c.key = k /\ c.tries = call[w].tries
      BY <1>0 DEF Calls
    <3>5. CASE /\ call[w].tries < MaxRetries
               /\ call' = [call EXCEPT ![w] = [c EXCEPT !.tries = @ + 1]]
               /\ UNCHANGED pc
      <4> HIDE DEF c
      <4>1. /\ [c EXCEPT !.tries = @ + 1] \in Calls
            /\ [c EXCEPT !.tries = @ + 1].key = k
        BY <1>0, <3>4, <3>5 DEF Calls
      <4>2. QED
        BY <2>6, <3>1, <3>3, <3>5, <4>1 DEF WriteLost, TypeOK
    <3>6. CASE /\ call' = [call EXCEPT ![w] = Returned(c, "error")]
               /\ pc' = [pc EXCEPT ![w] = "idle"]
      <4> HIDE DEF c
      <4>1. Returned(c, "error") \in Calls
        BY <3>4, CallTypes DEF Results
      <4>2. QED
        BY <2>6, <3>3, <3>6, <4>1 DEF WriteLost, TypeOK, Positions
    <3>7. QED
      BY <2>6, <3>5, <3>6 DEF WriteLost, TypeOK
  <2>7. CASE (Unanswered(w) \/ Throttled(w) \/ Refused(w)) /\ Fail(w)
    <3>1. /\ [call[w] EXCEPT !.result = "error"] \in Calls
          /\ [call[w] EXCEPT !.result = "error"].key = call[w].key
          /\ Returned(call[w], "error") \in Calls
      <4>1. Returned(call[w], "error") \in Calls
        BY <1>0, CallTypes DEF Results
      <4>2. /\ [call[w] EXCEPT !.result = "error"] \in Calls
            /\ [call[w] EXCEPT !.result = "error"].key = call[w].key
        BY <1>0 DEF Calls, Results
      <4>3. QED
        BY <4>1, <4>2
    <3>2. /\ call' \in [Callers -> Calls]
          /\ pc' \in [Callers -> Positions]
          /\ \A v \in Callers : pc'[v] # "idle" => call'[v].key \in Keys
      BY <2>0, <2>7, <3>1 DEF Fail, Unanswered, Throttled, Refused, TypeOK, Positions
    <3>3. QED
      BY <2>7, <3>2 DEF Unanswered, Throttled, Refused, TypeOK
  <2>8. CASE (Unanswered(w) \/ Throttled(w)) /\ TryAgain(w)
    <3>1. /\ [call[w] EXCEPT !.tries = @ + 1] \in Calls
          /\ [call[w] EXCEPT !.tries = @ + 1].key = call[w].key
      BY <1>0, <2>8 DEF Calls, TryAgain
    <3>2. QED
      BY <2>8, <3>1 DEF Unanswered, Throttled, TryAgain, TypeOK
  <2>9. CASE flushCache(w)
    <3>1. Absent \in Entries
      BY DEF Absent, Entries, Versions
    <3>2. acked' \in [Keys -> Versions]
      BY <1>0, <2>9 DEF flushCache, TypeOK, Calls
    <3>3. \A v \in Callers : /\ Returned(call[v], "ok") \in Calls
                            /\ [call[v] EXCEPT !.overtaken = TRUE] \in Calls
                            /\ [call[v] EXCEPT !.overtaken = TRUE].key = call[v].key
      <4> SUFFICES ASSUME NEW c \in Calls
                   PROVE  /\ Returned(c, "ok") \in Calls
                          /\ [c EXCEPT !.overtaken = TRUE] \in Calls
                          /\ [c EXCEPT !.overtaken = TRUE].key = c.key
        BY <1>0
      <4>1. Returned(c, "ok") \in Calls
        BY CallTypes DEF Results
      <4>2. /\ [c EXCEPT !.overtaken = TRUE] \in Calls
            /\ [c EXCEPT !.overtaken = TRUE].key = c.key
        BY DEF Calls
      <4>3. QED
        BY <4>1, <4>2
    <3>4. call' \in [Callers -> Calls]
      BY <1>0, <2>9, <3>3 DEF flushCache
    <3>5. \A v \in Callers : pc'[v] # "idle" => call'[v].key \in Keys
      BY <2>9, <3>3 DEF flushCache, TypeOK
    <3>6. QED
      BY <2>9, <3>1, <3>2, <3>4, <3>5 DEF flushCache, TypeOK, Positions
  <2>10. QED
    BY <1>3, <2>1, <2>2, <2>3, <2>4, <2>5, <2>6, <2>7, <2>8, <2>9 DEF Step,
      Unanswered, Throttled, Refused, LastTry
<1>4. CASE UNCHANGED vars
  BY <1>4 DEF vars, TypeOK
<1>5. QED
  BY <1>1, <1>2, <1>3, <1>4 DEF Next, Methods

\* Every reachable state is well typed.
THEOREM ReadsTypeCorrect == Spec => []TypeOK
<1>1. Init => TypeOK
  BY CallTypes DEF Init, TypeOK, Versions, Entries, Absent, Positions, Blank,
    Calls, Methods, Results
<1>2. QED
  BY <1>1, TypeStep, PTL DEF Spec
-----------------------------------------------------------------------------
(* The table of flights. *)

\* A step of one caller that leaves the table alone keeps it right when the
\* caller neither begins nor stops to lead, nor starts to wait.
LEMMA OwnStep ==
  ASSUME FlightInv, NEW w \in Callers,
         inflight' = inflight,
         \A v \in Callers : v # w => /\ pc'[v] = pc[v]
                                     /\ call'[v].method = call[v].method
                                     /\ call'[v].key = call[v].key,
         pc'[w] \in {"join", "put", "finish"} => call'[w].method = "GET",
         pc'[w] # "wait",
         Leads(w)' <=> Leads(w),
         Leads(w) => call'[w].key = call[w].key
  PROVE  FlightInv'
<1>1. \A v \in Callers :
        pc'[v] \in {"join", "wait", "put", "finish"} => call'[v].method = "GET"
  BY DEF FlightInv
<1>2. ASSUME NEW v \in Callers
      PROVE  /\ Leads(v)' <=> Leads(v)
             /\ Leads(v) => call'[v].key = call[v].key
  BY DEF Leads
<1>3. \A k \in Keys, v \in Callers :
        inflight'[k] = v <=> Leads(v)' /\ call'[v].key = k
  BY <1>2 DEF FlightInv
<1>4. \A v \in Callers : pc'[v] = "wait" => inflight'[call'[v].key] # Nobody
  BY DEF FlightInv
<1>5. QED
  BY <1>1, <1>3, <1>4 DEF FlightInv

\* The table of flights is right after every step.
LEMMA FlightStep == TypeOK /\ FlightInv /\ [Next]_vars => FlightInv'
<1> SUFFICES ASSUME TypeOK, FlightInv, [Next]_vars
             PROVE  FlightInv'
  OBVIOUS
<1>1. ASSUME NEW w \in Callers, NEW k \in Keys, RequestGet(w, k)
      PROVE  FlightInv'
  <2>1. /\ inflight' = inflight
        /\ pc[w] = "idle" /\ pc'[w] \in {"idle", "join"}
        /\ pc'[w] = "join" => call'[w].method = "GET"
        /\ \A v \in Callers : v # w => pc'[v] = pc[v] /\ call'[v] = call[v]
    BY <1>1 DEF RequestGet, TypeOK, NewCall
  <2>2. QED
    BY <2>1, OwnStep DEF Leads
<1>2. ASSUME NEW w \in Callers, NEW m \in {"POST", "DELETE"}, NEW k \in Keys,
             RequestWrite(w, m, k)
      PROVE  FlightInv'
  <2>1. /\ inflight' = inflight
        /\ pc[w] = "idle" /\ pc'[w] = "attempt"
        /\ call'[w].method # "GET"
        /\ \A v \in Callers : v # w => pc'[v] = pc[v] /\ call'[v] = call[v]
    BY <1>2 DEF RequestWrite, TypeOK, NewCall
  <2>2. QED
    BY <2>1, OwnStep DEF Leads
<1>3. ASSUME NEW w \in Callers, Step(w)
      PROVE  FlightInv'
  <2>1. CASE joinInflight(w)
    <3> DEFINE k == call[w].key
    <3>0. /\ k \in Keys /\ pc[w] = "join" /\ call[w].method = "GET"
          /\ call' = call
          /\ \A v \in Callers : v # w => pc'[v] = pc[v]
      BY <2>1 DEF joinInflight, TypeOK, FlightInv
    <3>1. CASE inflight[k] # Nobody /\ pc'[w] = "wait" /\ inflight' = inflight
      <4>1. \A v \in Callers : Leads(v)' <=> Leads(v)
        BY <3>0, <3>1 DEF Leads
      <4>2. QED
        BY <3>0, <3>1, <4>1 DEF FlightInv
    <3>2. CASE /\ inflight[k] = Nobody /\ pc'[w] = "attempt"
               /\ inflight' = [inflight EXCEPT ![k] = w]
      <4>1. \A v \in Callers : v # w => (Leads(v)' <=> Leads(v))
        BY <3>0 DEF Leads
      <4>2. Leads(w)' /\ ~Leads(w)
        BY <3>0, <3>2 DEF Leads
      <4>3. \A v \in Callers : Leads(v) => call[v].key # k
        BY <3>0, <3>2 DEF FlightInv
      <4>4. \A l \in Keys, v \in Callers :
              inflight'[l] = v <=> Leads(v)' /\ call'[v].key = l
        <5> TAKE l \in Keys, v \in Callers
        <5>1. CASE l = k
          BY <3>0, <3>2, <4>1, <4>2, <4>3, <5>1 DEF TypeOK
        <5>2. CASE l # k
          BY <3>0, <3>2, <4>1, <4>2, <5>2 DEF TypeOK, FlightInv
        <5>3. QED
          BY <5>1, <5>2
      <4>5. \A v \in Callers : pc'[v] = "wait" => inflight'[call'[v].key] # Nobody
        BY <3>0, <3>2 DEF TypeOK, FlightInv
      <4>6. \A v \in Callers :
              pc'[v] \in {"join", "wait", "put", "finish"} => call'[v].method = "GET"
        BY <3>0, <3>2 DEF FlightInv
      <4>7. QED
        BY <4>4, <4>5, <4>6 DEF FlightInv
    <3>3. QED
      BY <2>1, <3>1, <3>2 DEF joinInflight, TypeOK
  <2>2. CASE Fetch(w) \/ cachePut(w)
    <3>1. /\ inflight' = inflight
          /\ pc[w] \in {"attempt", "put"} /\ pc'[w] \in {"put", "finish"}
          /\ call[w].method = "GET" /\ call'[w].method = "GET"
          /\ call'[w].key = call[w].key
          /\ \A v \in Callers : v # w => pc'[v] = pc[v] /\ call'[v] = call[v]
      BY <2>2 DEF Fetch, cachePut, TypeOK, FlightInv, Calls
    <3>2. QED
      BY <3>1, OwnStep DEF Leads
  <2>3. CASE finishInflight(w)
    <3> DEFINE k == call[w].key
    <3>0. k \in Keys /\ pc[w] = "finish" /\ call[w].method = "GET"
      BY <2>3 DEF finishInflight, TypeOK, FlightInv
    <3>1. inflight[k] = w
      BY <3>0 DEF FlightInv, Leads
    <3>2. inflight' = [inflight EXCEPT ![k] = Nobody]
      BY <2>3 DEF finishInflight
    <3>3. \A v \in Callers :
            IF v = w \/ (pc[v] = "wait" /\ call[v].key = k)
            THEN pc'[v] = "idle"
            ELSE pc'[v] = pc[v] /\ call'[v] = call[v]
      BY <2>3 DEF finishInflight, Followers
    <3>4. \A v \in Callers :
            v # w => /\ Leads(v)' <=> Leads(v)
                     /\ Leads(v) => call'[v].key = call[v].key
      BY <3>3 DEF Leads
    <3>5. Leads(w) /\ ~Leads(w)'
      BY <3>0, <3>3 DEF Leads
    <3>6. \A l \in Keys, v \in Callers :
            inflight'[l] = v <=> Leads(v)' /\ call'[v].key = l
      <4> TAKE l \in Keys, v \in Callers
      <4>1. CASE l = k
        <5>1. inflight'[l] # v
          BY <3>0, <3>2, <4>1 DEF TypeOK
        <5>2. Leads(v)' => call'[v].key # l
          BY <3>1, <3>4, <3>5, <4>1 DEF FlightInv
        <5>3. QED
          BY <5>1, <5>2
      <4>2. CASE l # k
        <5>1. inflight'[l] = inflight[l]
          BY <3>0, <3>2, <4>2 DEF TypeOK
        <5>2. QED
          BY <3>4, <3>5, <4>2, <5>1 DEF FlightInv
      <4>3. QED
        BY <4>1, <4>2
    <3>7. \A v \in Callers : pc'[v] = "wait" => inflight'[call'[v].key] # Nobody
      <4> SUFFICES ASSUME NEW v \in Callers, pc'[v] = "wait"
                   PROVE  inflight'[call'[v].key] # Nobody
        OBVIOUS
      <4>1. pc[v] = "wait" /\ call'[v] = call[v] /\ call[v].key # k
        BY <3>3
      <4>2. call[v].key \in Keys /\ inflight[call[v].key] # Nobody
        BY <4>1 DEF TypeOK, FlightInv
      <4>3. QED
        BY <3>0, <3>2, <4>1, <4>2 DEF TypeOK
    <3>8. \A v \in Callers :
            pc'[v] \in {"join", "wait", "put", "finish"} => call'[v].method = "GET"
      BY <3>3 DEF FlightInv
    <3>9. QED
      BY <3>6, <3>7, <3>8 DEF FlightInv
  <2>4. CASE WriteOK(w)
    <3>1. /\ inflight' = inflight
          /\ pc'[w] = "flush"
          /\ call[w].method # "GET" /\ call'[w].method # "GET"
          /\ \A v \in Callers : v # w => pc'[v] = pc[v] /\ call'[v] = call[v]
      BY <2>4 DEF WriteOK, Change, TypeOK, Calls
    <3>2. QED
      BY <3>1, OwnStep DEF Leads
  <2>5. CASE WriteLost(w)
    <3>1. /\ inflight' = inflight
          /\ pc'[w] \in {"attempt", "idle"}
          /\ call[w].method # "GET" /\ call'[w].method # "GET"
          /\ \A v \in Callers : v # w => pc'[v] = pc[v] /\ call'[v] = call[v]
      BY <2>5 DEF WriteLost, Change, TypeOK, Calls, Returned
    <3>2. QED
      BY <3>1, OwnStep DEF Leads
  <2>6. CASE (Unanswered(w) \/ Throttled(w) \/ Refused(w)) /\ Fail(w)
    <3>1. /\ inflight' = inflight
          /\ pc[w] = "attempt"
          /\ \A v \in Callers : v # w => pc'[v] = pc[v] /\ call'[v] = call[v]
      BY <2>6 DEF Unanswered, Throttled, Refused, Fail, TypeOK
    <3>2. CASE call[w].method = "GET"
      <4>1. pc'[w] = "finish" /\ call'[w].method = "GET" /\ call'[w].key = call[w].key
        BY <2>6, <3>2 DEF Fail, TypeOK, Calls
      <4>2. QED
        BY <3>1, <3>2, <4>1, OwnStep DEF Leads
    <3>3. CASE call[w].method # "GET"
      <4>1. pc'[w] = "idle"
        BY <2>6, <3>3 DEF Fail, TypeOK
      <4>2. QED
        BY <3>1, <3>3, <4>1, OwnStep DEF Leads
    <3>4. QED
      BY <3>2, <3>3
  <2>7. CASE (Unanswered(w) \/ Throttled(w)) /\ TryAgain(w)
    <3>1. /\ inflight' = inflight /\ pc' = pc
          /\ pc[w] = "attempt"
          /\ call'[w].method = call[w].method /\ call'[w].key = call[w].key
          /\ \A v \in Callers : v # w => call'[v] = call[v]
      BY <2>7 DEF Unanswered, Throttled, TryAgain, TypeOK, Calls
    <3>2. QED
      BY <3>1, OwnStep DEF Leads
  <2>8. CASE flushCache(w)
    <3>1. /\ inflight' = inflight
          /\ pc[w] = "flush" /\ pc'[w] = "idle"
          /\ \A v \in Callers : v # w => pc'[v] = pc[v]
      BY <2>8 DEF flushCache, TypeOK
    <3>2. \A v \in Callers : v # w => /\ call'[v].method = call[v].method
                                     /\ call'[v].key = call[v].key
      BY <2>8 DEF flushCache, TypeOK, Calls
    <3>3. QED
      BY <3>1, <3>2, OwnStep DEF Leads
  <2>9. QED
    BY <1>3, <2>1, <2>2, <2>3, <2>4, <2>5, <2>6, <2>7, <2>8 DEF Step,
      Unanswered, Throttled, Refused, LastTry
<1>4. CASE UNCHANGED vars
  BY <1>4 DEF vars, FlightInv, Leads
<1>5. QED
  BY <1>1, <1>2, <1>3, <1>4 DEF Next

\* The table of flights is right in every reachable state.
LEMMA FlightCorrect == Spec => []FlightInv
<1>1. Init => FlightInv
  BY DEF Init, FlightInv, Leads
<1>2. TypeOK /\ FlightInv /\ [Next]_vars => FlightInv'
  BY FlightStep
<1>3. QED
  BY <1>1, <1>2, ReadsTypeCorrect, PTL DEF Spec

\* Two callers are never on their way to Meta with the same GET.
THEOREM OneFlightPerKey == Spec => []SingleFlight
<1>1. TypeOK /\ FlightInv => SingleFlight
  BY DEF TypeOK, FlightInv, SingleFlight, Leads
<1>2. QED
  BY <1>1, FlightCorrect, ReadsTypeCorrect, PTL

\* A caller that waits for a flight always has one to wait for.
THEOREM NoOrphans == Spec => []NeverOrphaned
<1>1. TypeOK /\ FlightInv => NeverOrphaned
  <2> SUFFICES ASSUME TypeOK, FlightInv, NEW v \in Callers, pc[v] = "wait"
               PROVE  \E w \in Callers : Leads(w) /\ call[w].key = call[v].key
    BY DEF NeverOrphaned
  <2>1. call[v].key \in Keys /\ inflight[call[v].key] \in Callers
    BY DEF TypeOK, FlightInv
  <2>2. QED
    BY <2>1 DEF FlightInv
<1>2. QED
  BY <1>1, FlightCorrect, ReadsTypeCorrect, PTL
-----------------------------------------------------------------------------
(* What a request changed, and what it says. *)

\* What ChangeInv says of one caller.
Honest(v) ==
    /\ pc[v] \in {"join", "wait", "put", "finish"} => call[v].method = "GET"
    /\ pc[v] \notin {"idle", "finish"} => call[v].result = "pending"
    /\ call[v].method = "GET" => call[v].changes = 0
    /\ pc[v] = "attempt" /\ call[v].changes > 0 => remote[call[v].key].gone
    /\ pc[v] = "flush" => call[v].changes = 1 /\ call[v].method # "GET"
    /\ call[v].changes <= 1
    /\ call[v].method # "GET" /\ call[v].result = "ok" => call[v].changes = 1

LEMMA HonestInv == ChangeInv <=> \A v \in Callers : Honest(v)
  BY DEF ChangeInv, ChangedAsTold, Honest

\* An object that is gone stays gone.
LEMMA GoneStays ==
  ASSUME TypeOK, [Next]_vars
  PROVE  \A k \in Keys : remote[k].gone => remote'[k].gone
<1>1. ASSUME NEW w \in Callers, Change(w)
      PROVE  \A k \in Keys : remote[k].gone => remote'[k].gone
  BY <1>1 DEF Change, TypeOK
<1>2. CASE remote' = remote
  BY <1>2
<1>3. (\E w \in Callers : Change(w)) \/ remote' = remote
  BY DEF Next, Step, vars, RequestGet, RequestWrite, joinInflight, Fetch, cachePut,
    finishInflight, WriteOK, WriteLost, flushCache, Unanswered, Throttled, Refused
<1>4. QED
  BY <1>1, <1>2, <1>3

\* A caller whose position and account of itself do not change stays honest.
LEMMA StaysHonest ==
  ASSUME TypeOK, ChangeInv, [Next]_vars, NEW v \in Callers,
         pc'[v] = pc[v], call'[v].method = call[v].method,
         call'[v].key = call[v].key, call'[v].changes = call[v].changes,
         call'[v].result = call[v].result
  PROVE  Honest(v)'
<1>1. Honest(v)
  BY HonestInv
<1>2. pc[v] = "attempt" /\ call[v].changes > 0 => remote'[call[v].key].gone
  BY <1>1, GoneStays DEF Honest, TypeOK
<1>3. QED
  BY <1>1, <1>2 DEF Honest

\* No step makes a caller change Meta twice, or claim a change it did not make.
LEMMA ChangeStep == TypeOK /\ ChangeInv /\ [Next]_vars => ChangeInv'
<1> SUFFICES ASSUME TypeOK, ChangeInv, [Next]_vars
             PROVE  \A v \in Callers : Honest(v)'
  BY DEF ChangeInv, ChangedAsTold, Honest
<1>0. \A v \in Callers : Honest(v) /\ call[v] \in Calls
  BY HonestInv DEF TypeOK
<1>1. ASSUME NEW w \in Callers, NEW k \in Keys, RequestGet(w, k)
      PROVE  \A v \in Callers : Honest(v)'
  <2>1. /\ pc'[w] \in {"idle", "join"}
        /\ call'[w].method = "GET" /\ call'[w].changes = 0
        /\ pc'[w] = "join" => call'[w].result = "pending"
        /\ \A v \in Callers : v # w => pc'[v] = pc[v] /\ call'[v] = call[v]
    BY <1>1 DEF RequestGet, TypeOK, NewCall, Returned
  <2>2. Honest(w)'
    BY <2>1 DEF Honest
  <2>3. QED
    BY <2>1, <2>2, StaysHonest
<1>2. ASSUME NEW w \in Callers, NEW m \in {"POST", "DELETE"}, NEW k \in Keys,
             RequestWrite(w, m, k)
      PROVE  \A v \in Callers : Honest(v)'
  <2>1. /\ pc'[w] = "attempt" /\ call'[w].changes = 0
        /\ call'[w].result = "pending" /\ call'[w].method # "GET"
        /\ \A v \in Callers : v # w => pc'[v] = pc[v] /\ call'[v] = call[v]
    BY <1>2 DEF RequestWrite, TypeOK, NewCall
  <2>2. Honest(w)'
    BY <2>1 DEF Honest
  <2>3. QED
    BY <2>1, <2>2, StaysHonest
<1>3. ASSUME NEW w \in Callers, Step(w)
      PROVE  \A v \in Callers : Honest(v)'
  <2>0. Honest(w) /\ call[w] \in Calls
    BY <1>0
  <2>1. CASE joinInflight(w)
    <3>1. /\ pc[w] = "join" /\ pc'[w] \in {"wait", "attempt"} /\ call' = call
          /\ \A v \in Callers : v # w => pc'[v] = pc[v]
      BY <2>1 DEF joinInflight, TypeOK
    <3>2. Honest(w)'
      BY <2>0, <3>1 DEF Honest
    <3>3. QED
      BY <3>1, <3>2, StaysHonest
  <2>2. CASE Fetch(w) \/ cachePut(w)
    <3>1. /\ pc'[w] \in {"put", "finish"}
          /\ call[w].method = "GET" /\ call'[w].method = "GET"
          /\ call'[w].changes = call[w].changes
          /\ pc'[w] = "put" => call'[w].result = "pending"
          /\ \A v \in Callers : v # w => pc'[v] = pc[v] /\ call'[v] = call[v]
      BY <2>0, <2>2 DEF Fetch, cachePut, TypeOK, Honest, Calls
    <3>2. Honest(w)'
      BY <2>0, <3>1 DEF Honest
    <3>3. QED
      BY <3>1, <3>2, StaysHonest
  <2>3. CASE finishInflight(w)
    <3> SUFFICES ASSUME NEW v \in Callers
                 PROVE  Honest(v)'
      OBVIOUS
    <3>1. CASE v = w \/ v \in Followers(w)
      <4>1. call[v].method = "GET" /\ call[v].changes = 0
        BY <1>0, <2>3, <3>1 DEF Honest, finishInflight, Followers
      <4>2. pc'[v] = "idle" /\ call'[v].method = "GET" /\ call'[v].changes = 0
        BY <1>0, <2>3, <3>1, <4>1 DEF finishInflight, Returned, Calls
      <4>3. QED
        BY <4>2 DEF Honest
    <3>2. CASE ~(v = w \/ v \in Followers(w))
      <4>1. pc'[v] = pc[v] /\ call'[v] = call[v]
        BY <2>3, <3>2 DEF finishInflight
      <4>2. QED
        BY <4>1, StaysHonest
    <3>3. QED
      BY <3>1, <3>2
  <2>4. CASE WriteOK(w)
    <3>1. call[w].key \in Keys /\ ~remote[call[w].key].gone
      BY <2>4 DEF WriteOK, Change, TypeOK
    <3>2. call[w].changes = 0
      BY <2>0, <2>4, <3>1 DEF Honest, WriteOK, Calls
    <3>3. /\ pc'[w] = "flush"
          /\ call[w].method # "GET" /\ call'[w].method # "GET"
          /\ call'[w].changes = 1 /\ call'[w].result = "pending"
          /\ \A v \in Callers : v # w => pc'[v] = pc[v] /\ call'[v] = call[v]
      BY <2>0, <2>4, <3>2 DEF WriteOK, Change, TypeOK, Calls, Honest
    <3>4. Honest(w)'
      BY <3>3 DEF Honest
    <3>5. QED
      BY <3>3, <3>4, StaysHonest
  <2>5. CASE WriteLost(w)
    <3> DEFINE k == call[w].key
               c == [call[w] EXCEPT !.changes = @ + 1]
    <3>1. /\ k \in Keys /\ ~remote[k].gone /\ pc[w] = "attempt"
          /\ call[w].method # "GET"
          /\ remote'[k].gone <=> call[w].method = "DELETE"
          /\ \A v \in Callers : v # w => pc'[v] = pc[v] /\ call'[v] = call[v]
      BY <2>5 DEF WriteLost, Change, TypeOK
    <3>2. call[w].changes = 0 /\ call[w].result = "pending"
      BY <2>0, <3>1 DEF Honest, Calls
    <3>3. /\ c \in Calls /\ c.changes = 1 /\ c.key = k
          /\ c.method = call[w].method /\ c.result = "pending"
      BY <2>0, <3>2 DEF Calls
    <3>4. CASE /\ Repeatable(w)
               /\ call' = [call EXCEPT ![w] = [c EXCEPT !.tries = @ + 1]]
               /\ UNCHANGED pc
      <4> HIDE DEF c
      <4>1. /\ call'[w].key = k /\ call'[w].changes = 1
            /\ call'[w].method = call[w].method /\ call'[w].result = "pending"
        BY <3>3, <3>4 DEF TypeOK, Calls
      <4>2. call[w].method = "DELETE"
        BY <3>1, <3>4 DEF Repeatable
      <4>3. Honest(w)'
        BY <3>1, <3>4, <4>1, <4>2 DEF Honest
      <4>4. QED
        BY <3>1, <4>3, StaysHonest
    <3>5. CASE /\ call' = [call EXCEPT ![w] = Returned(c, "error")]
               /\ pc' = [pc EXCEPT ![w] = "idle"]
      <4> HIDE DEF c
      <4>1. /\ pc'[w] = "idle" /\ call'[w].changes = 1
            /\ call'[w].method = call[w].method /\ call'[w].result = "error"
        BY <3>3, <3>5 DEF TypeOK, Returned
      <4>2. Honest(w)'
        BY <3>1, <4>1 DEF Honest
      <4>3. QED
        BY <3>1, <4>2, StaysHonest
    <3>6. QED
      BY <2>5, <3>4, <3>5 DEF WriteLost, TypeOK
  <2>6. CASE (Unanswered(w) \/ Throttled(w) \/ Refused(w)) /\ Fail(w)
    <3>1. /\ \A v \in Callers : v # w => pc'[v] = pc[v] /\ call'[v] = call[v]
      BY <2>6 DEF Unanswered, Throttled, Refused, Fail, TypeOK
    <3>2. /\ pc'[w] \in {"idle", "finish"}
          /\ pc'[w] = "finish" => call[w].method = "GET"
          /\ call'[w].method = call[w].method
          /\ call'[w].changes = call[w].changes
          /\ call'[w].result = "error"
      BY <2>0, <2>6 DEF Fail, TypeOK, Calls, Returned
    <3>3. Honest(w)'
      BY <2>0, <3>2 DEF Honest
    <3>4. QED
      BY <3>1, <3>3, StaysHonest
  <2>7. CASE (Unanswered(w) \/ Throttled(w)) /\ TryAgain(w)
    <3>1. /\ pc' = pc
          /\ call'[w].method = call[w].method /\ call'[w].key = call[w].key
          /\ call'[w].changes = call[w].changes
          /\ call'[w].result = call[w].result
          /\ \A v \in Callers : v # w => call'[v] = call[v]
      BY <2>0, <2>7 DEF Unanswered, Throttled, TryAgain, TypeOK, Calls
    <3>2. QED
      BY <3>1, StaysHonest
  <2>8. CASE flushCache(w)
    <3>1. /\ pc[w] = "flush" /\ pc'[w] = "idle"
          /\ call'[w] = Returned(call[w], "ok")
          /\ \A v \in Callers : v # w => pc'[v] = pc[v]
      BY <2>8 DEF flushCache, TypeOK
    <3>2. \A v \in Callers : v # w => /\ call'[v].method = call[v].method
                                     /\ call'[v].key = call[v].key
                                     /\ call'[v].changes = call[v].changes
                                     /\ call'[v].result = call[v].result
      BY <2>8 DEF flushCache, TypeOK, Calls
    <3>3. Honest(w)'
      BY <2>0, <3>1 DEF Honest, Returned
    <3>4. QED
      BY <3>1, <3>2, <3>3, StaysHonest
  <2>9. QED
    BY <1>3, <2>1, <2>2, <2>3, <2>4, <2>5, <2>6, <2>7, <2>8 DEF Step,
      Unanswered, Throttled, Refused, LastTry
<1>4. CASE UNCHANGED vars
  BY <1>4, StaysHonest DEF vars
<1>5. QED
  BY <1>1, <1>2, <1>3, <1>4 DEF Next

\* However a write is retried, it changes Meta at most once, and one that
\* reports success did change it.
THEOREM NoDoubleChange == Spec => []ChangedAsTold
<1>1. Init => ChangeInv
  BY HonestInv DEF Init, Honest, Blank
<1>2. TypeOK /\ ChangeInv /\ [Next]_vars => ChangeInv'
  BY ChangeStep
<1>3. ChangeInv => ChangedAsTold
  BY DEF ChangeInv
<1>4. QED
  BY <1>1, <1>2, <1>3, ReadsTypeCorrect, PTL DEF Spec
-----------------------------------------------------------------------------
(* How old a read may be. *)

\* What FreshInv says of one caller ...
Recent(v) ==
    /\ pc[v] = "flush" => call[v].data <= remote[call[v].key].version
    /\ pc[v] # "idle" => call[v].floor <= acked[call[v].key]
    /\ Leads(v) /\ pc[v] \in {"put", "finish"} /\ call[v].result # "error"
         => call[v].overtaken \/ call[v].data >= acked[call[v].key]
    /\ call[v].method = "GET" /\ call[v].result \in {"ok", "zero"}
         => call[v].overtaken \/ call[v].data >= call[v].floor

\* ... and of one object.
Current(k) ==
    /\ acked[k] <= remote[k].version
    /\ cache[k].here => cache[k].overtaken \/ cache[k].data >= acked[k]

LEMMA RecentInv ==
    FreshInv <=> (\A v \in Callers : Recent(v)) /\ (\A k \in Keys : Current(k))
  BY DEF FreshInv, FreshUnlessOvertaken, Recent, Current

\* Versions are integers.
LEMMA VersionTypes ==
  ASSUME TypeOK
  PROVE  /\ \A k \in Keys : remote[k].version \in Int /\ acked[k] \in Int
         /\ \A k \in Keys : cache[k].data \in Int /\ cache[k].overtaken \in BOOLEAN
         /\ \A v \in Callers : /\ call[v].data \in Int /\ call[v].floor \in Int
                               /\ call[v].overtaken \in BOOLEAN
                               /\ call[v] \in Calls
<1>1. \A v \in Callers : call[v] \in Calls
  BY DEF TypeOK
<1>2. \A v \in Callers : /\ call[v].data \in Int /\ call[v].floor \in Int
                         /\ call[v].overtaken \in BOOLEAN
  BY <1>1 DEF Calls, Versions
<1>3. \A k \in Keys : remote[k].version \in Int /\ acked[k] \in Int
  BY DEF TypeOK, Versions
<1>4. \A k \in Keys : cache[k].data \in Int /\ cache[k].overtaken \in BOOLEAN
  BY DEF TypeOK, Entries, Versions
<1>5. QED
  BY <1>1, <1>2, <1>3, <1>4

\* Objects only get newer.
LEMMA VersionsGrow ==
  ASSUME TypeOK, [Next]_vars
  PROVE  \A k \in Keys : /\ remote[k].version <= remote'[k].version
                         /\ remote'[k].version \in Int
<1>1. ASSUME NEW w \in Callers, Change(w)
      PROVE  \A k \in Keys : /\ remote[k].version <= remote'[k].version
                             /\ remote'[k].version \in Int
  BY <1>1, VersionTypes DEF Change, TypeOK
<1>2. CASE remote' = remote
  BY <1>2, VersionTypes
<1>3. (\E w \in Callers : Change(w)) \/ remote' = remote
  BY DEF Next, Step, vars, RequestGet, RequestWrite, joinInflight, Fetch, cachePut,
    finishInflight, WriteOK, WriteLost, flushCache, Unanswered, Throttled, Refused
<1>4. QED
  BY <1>1, <1>2, <1>3

\* A step of one caller that confirms no write leaves the rest as recent as
\* it was.
LEMMA OthersStayRecent ==
  ASSUME TypeOK, FreshInv, [Next]_vars, acked' = acked, NEW w \in Callers,
         \A v \in Callers : v # w => pc'[v] = pc[v] /\ call'[v] = call[v],
         Recent(w)',
         \/ cache' = cache
         \/ \A k \in Keys : cache'[k].here =>
              \/ cache'[k] = cache[k]
              \/ cache'[k].overtaken
              \/ cache'[k].data >= acked[k]
  PROVE  FreshInv'
<1>1. ASSUME NEW v \in Callers, v # w
      PROVE  Recent(v)'
  <2>1. Recent(v) /\ pc'[v] = pc[v] /\ call'[v] = call[v]
    BY <1>1, RecentInv
  <2>2. pc[v] = "flush" => call[v].data <= remote'[call[v].key].version
    <3> SUFFICES ASSUME pc[v] = "flush"
                 PROVE  call[v].data <= remote'[call[v].key].version
      OBVIOUS
    <3>1. call[v].key \in Keys
      BY DEF TypeOK
    <3>2. QED
      BY <2>1, <3>1, VersionsGrow, VersionTypes DEF Recent
  <2>3. QED
    BY <2>1, <2>2 DEF Recent, Leads
<1>2. ASSUME NEW k \in Keys
      PROVE  Current(k)'
  <2>1. Current(k)
    BY RecentInv
  <2>2. acked'[k] <= remote'[k].version
    BY <2>1, VersionsGrow, VersionTypes DEF Current
  <2>3. cache'[k].here => cache'[k].overtaken \/ cache'[k].data >= acked'[k]
    BY <2>1 DEF Current
  <2>4. QED
    BY <2>2, <2>3 DEF Current
<1>3. QED
  BY <1>1, <1>2 DEF FreshInv, FreshUnlessOvertaken, Recent, Current

\* A request that returns without an error returns its locals.
LEMMA ReturnedLocals ==
  ASSUME NEW c \in Calls, NEW r \in Results
  PROVE  /\ Returned(c, r).result = r
         /\ r # "error" => /\ Returned(c, r).data = c.data
                           /\ Returned(c, r).floor = c.floor
                           /\ Returned(c, r).overtaken = c.overtaken
<1>1. Returned(c, r).result = r
  BY DEF Returned
<1>2. r # "error" => Returned(c, r).data = c.data /\ Returned(c, r).floor = c.floor
  BY DEF Returned
<1>3. Returned(c, r).overtaken = (r # "error" /\ c.overtaken)
  BY DEF Returned
<1>4. c.overtaken \in BOOLEAN
  BY DEF Calls
<1>5. r # "error" => Returned(c, r).overtaken = c.overtaken
  BY <1>3, <1>4
<1>6. QED
  BY <1>1, <1>2, <1>5

\* Every step leaves reads, cached or on their way, recent.
LEMMA FreshStep == TypeOK /\ ChangeInv /\ FreshInv /\ [Next]_vars => FreshInv'
<1> SUFFICES ASSUME TypeOK, ChangeInv, FreshInv, [Next]_vars
             PROVE  FreshInv'
  OBVIOUS
<1>0. /\ \A v \in Callers : Recent(v) /\ Honest(v)
      /\ \A k \in Keys : Current(k)
  BY RecentInv, HonestInv
<1>1. ASSUME NEW w \in Callers, NEW k \in Keys, RequestGet(w, k)
      PROVE  FreshInv'
  <2> DEFINE c == [NewCall("GET", k) EXCEPT !.data = cache[k].data,
                                            !.overtaken = cache[k].overtaken]
  <2>1. /\ acked' = acked
        /\ \A v \in Callers : v # w => pc'[v] = pc[v] /\ call'[v] = call[v]
    BY <1>1 DEF RequestGet, TypeOK
  <2>2. CASE /\ cache[k].here
             /\ call' = [call EXCEPT ![w] = Returned(c, "ok")]
             /\ UNCHANGED <<cache, pc>>
    <3>1. /\ call'[w].data = cache[k].data
          /\ call'[w].overtaken = cache[k].overtaken
          /\ call'[w].floor = acked[k]
      BY <2>2, VersionTypes DEF TypeOK, Returned, NewCall
    <3>2. pc'[w] = "idle"
      BY <1>1, <2>2 DEF RequestGet
    <3>3. call'[w].overtaken \/ call'[w].data >= call'[w].floor
      BY <1>0, <2>2, <3>1 DEF Current
    <3>4. Recent(w)'
      BY <3>2, <3>3 DEF Recent, Leads
    <3>5. QED
      BY <2>1, <2>2, <3>4, OthersStayRecent
  <2>3. CASE /\ call' = [call EXCEPT ![w] = NewCall("GET", k)]
             /\ cache' = [cache EXCEPT ![k] = Absent]
             /\ pc' = [pc EXCEPT ![w] = "join"]
    <3>1. /\ pc'[w] = "join" /\ call'[w].floor = acked[k]
          /\ call'[w].key = k /\ call'[w].result = "pending"
      BY <2>3 DEF TypeOK, NewCall
    <3>2. Recent(w)'
      BY <2>1, <3>1, VersionTypes DEF Recent, Leads
    <3>3. \A l \in Keys : cache'[l].here => cache'[l] = cache[l]
      BY <2>3 DEF TypeOK, Absent
    <3>4. QED
      BY <2>1, <3>2, <3>3, OthersStayRecent
  <2>4. QED
    BY <1>1, <2>2, <2>3 DEF RequestGet
<1>2. ASSUME NEW w \in Callers, NEW m \in {"POST", "DELETE"}, NEW k \in Keys,
             RequestWrite(w, m, k)
      PROVE  FreshInv'
  <2>1. /\ acked' = acked /\ cache' = cache
        /\ \A v \in Callers : v # w => pc'[v] = pc[v] /\ call'[v] = call[v]
        /\ pc'[w] = "attempt" /\ call'[w].floor = acked[k]
        /\ call'[w].key = k /\ call'[w].result = "pending"
    BY <1>2 DEF RequestWrite, TypeOK, NewCall
  <2>2. Recent(w)'
    BY <2>1, VersionTypes DEF Recent, Leads
  <2>3. QED
    BY <2>1, <2>2, OthersStayRecent
<1>3. ASSUME NEW w \in Callers, Step(w)
      PROVE  FreshInv'
  <2> DEFINE k == call[w].key
  <2>0. /\ Recent(w) /\ Honest(w) /\ call[w] \in Calls
        /\ pc[w] # "idle" => k \in Keys
    BY <1>0 DEF TypeOK
  <2>1. CASE joinInflight(w)
    <3>1. /\ acked' = acked /\ cache' = cache /\ call' = call
          /\ pc[w] = "join" /\ pc'[w] \in {"wait", "attempt"}
          /\ \A v \in Callers : v # w => pc'[v] = pc[v]
      BY <2>1 DEF joinInflight, TypeOK
    <3>2. Recent(w)'
      BY <2>0, <3>1 DEF Recent, Leads
    <3>3. QED
      BY <3>1, <3>2, OthersStayRecent
  <2>2. CASE Fetch(w)
    <3>1. /\ acked' = acked /\ cache' = cache /\ remote' = remote
          /\ k \in Keys /\ pc[w] = "attempt" /\ pc'[w] = "put"
          /\ call'[w].data = remote[k].version
          /\ call'[w].floor = call[w].floor /\ call'[w].key = k
          /\ call'[w].result = call[w].result
          /\ \A v \in Callers : v # w => pc'[v] = pc[v] /\ call'[v] = call[v]
      BY <2>0, <2>2 DEF Fetch, TypeOK, Calls
    <3>2. call[w].result = "pending" /\ call[w].floor <= acked[k]
      BY <2>0, <3>1 DEF Honest, Recent
    <3>3. call'[w].data >= acked[k]
      BY <1>0, <3>1, VersionTypes DEF Current
    <3>4. Recent(w)'
      BY <3>1, <3>2, <3>3 DEF Recent, Leads
    <3>5. QED
      BY <3>1, <3>4, OthersStayRecent
  <2>3. CASE cachePut(w)
    <3>1. /\ acked' = acked
          /\ k \in Keys /\ pc[w] = "put" /\ pc'[w] = "finish"
          /\ call'[w].data = call[w].data
          /\ call'[w].overtaken = call[w].overtaken
          /\ call'[w].floor = call[w].floor /\ call'[w].key = k
          /\ \A v \in Callers : v # w => pc'[v] = pc[v] /\ call'[v] = call[v]
      BY <2>0, <2>3 DEF cachePut, TypeOK, Calls
    <3>2. call[w].overtaken \/ call[w].data >= acked[k]
      BY <2>0, <3>1 DEF Recent, Honest, Leads
    <3>3. Recent(w)'
      BY <2>0, <3>1, <3>2, VersionTypes DEF Recent, Leads
    <3>4. \A l \in Keys : cache'[l].here =>
            \/ cache'[l] = cache[l]
            \/ cache'[l].overtaken
            \/ cache'[l].data >= acked[l]
      <4> SUFFICES ASSUME NEW l \in Keys, cache'[l].here
                   PROVE  \/ cache'[l] = cache[l]
                          \/ cache'[l].overtaken
                          \/ cache'[l].data >= acked[l]
        OBVIOUS
      <4>1. CASE l = k
        <5>1. cache'[l] = [here |-> TRUE, data |-> call[w].data,
                           overtaken |-> call[w].overtaken]
          BY <2>3, <4>1 DEF cachePut
        <5>2. QED
          BY <3>2, <4>1, <5>1
      <4>2. CASE l # k
        BY <2>3, <4>2 DEF cachePut, Absent
      <4>3. QED
        BY <4>1, <4>2
    <3>5. QED
      BY <3>1, <3>3, <3>4, OthersStayRecent
  <2>4. CASE finishInflight(w)
    <3>1. /\ acked' = acked /\ cache' = cache /\ remote' = remote
          /\ k \in Keys /\ pc[w] = "finish" /\ call[w].method = "GET"
      BY <2>0, <2>4 DEF finishInflight, Honest
    <3>2. ASSUME NEW v \in Callers
          PROVE  Recent(v)'
      <4>0. Recent(v) /\ call[v] \in Calls
        BY <1>0 DEF TypeOK
      <4>1. CASE v = w
        <5>1. pc'[v] = "idle" /\ call'[v] = Returned(call[w], call[w].result)
          BY <2>4, <4>1 DEF finishInflight
        <5>2. call[w].result \in {"ok", "zero"} =>
                call[w].overtaken \/ call[w].data >= call[w].floor
          BY <2>0, <3>1 DEF Recent
        <5>3. call'[v].result = call[w].result
              /\ (call[w].result # "error" =>
                    /\ call'[v].data = call[w].data
                    /\ call'[v].floor = call[w].floor
                    /\ call'[v].overtaken = call[w].overtaken)
          BY <2>0, <5>1, ReturnedLocals DEF Calls
        <5>4. QED
          BY <5>1, <5>2, <5>3 DEF Recent, Leads
      <4>2. CASE v # w /\ v \in Followers(w)
        <5> DEFINE r == IF call[w].result = "ok" THEN "zero" ELSE "error"
                   c == [call[v] EXCEPT !.data = call[w].data,
                                        !.overtaken = call[w].overtaken]
        <5>1. pc'[v] = "idle" /\ call'[v] = Returned(c, r)
          BY <2>4, <4>2 DEF finishInflight
        <5>2. pc[v] = "wait" /\ call[v].key = k /\ call[v].floor <= acked[k]
          BY <4>0, <4>2 DEF Followers, Recent
        <5>3. call[w].result = "ok" => call[w].overtaken \/ call[w].data >= acked[k]
          BY <2>0, <3>1 DEF Recent, Leads
        <5>4. /\ c.data = call[w].data /\ c.floor = call[v].floor
              /\ c.overtaken = call[w].overtaken
          BY <4>0 DEF Calls
        <5>4a. c \in Calls /\ r \in Results
          BY <4>0, VersionTypes DEF Calls, Versions, Results
        <5> HIDE DEF c, r
        <5>5. /\ call'[v].result = r
              /\ r # "error" => /\ call'[v].data = c.data
                                /\ call'[v].floor = c.floor
                                /\ call'[v].overtaken = c.overtaken
          BY <5>1, <5>4a, ReturnedLocals
        <5>6. call'[v].result \in {"ok", "zero"}
                => call'[v].overtaken \/ call'[v].data >= call'[v].floor
          BY <3>1, <5>2, <5>3, <5>4, <5>5, VersionTypes DEF r
        <5>7. QED
          BY <5>1, <5>6 DEF Recent, Leads
      <4>3. CASE v # w /\ v \notin Followers(w)
        <5>1. pc'[v] = pc[v] /\ call'[v] = call[v]
          BY <2>4, <4>3 DEF finishInflight
        <5>2. QED
          BY <3>1, <4>0, <5>1 DEF Recent, Leads
      <4>4. QED
        BY <4>1, <4>2, <4>3
    <3>3. \A l \in Keys : Current(l)'
      BY <1>0, <3>1 DEF Current
    <3>4. QED
      BY <3>2, <3>3 DEF FreshInv, FreshUnlessOvertaken, Recent, Current
  <2>5. CASE WriteOK(w)
    <3>1. /\ acked' = acked /\ cache' = cache
          /\ k \in Keys /\ pc[w] = "attempt" /\ pc'[w] = "flush"
          /\ call[w].method # "GET" /\ call'[w].method # "GET"
          /\ call'[w].data = remote'[k].version
          /\ call'[w].floor = call[w].floor /\ call'[w].key = k
          /\ \A v \in Callers : v # w => pc'[v] = pc[v] /\ call'[v] = call[v]
      BY <2>0, <2>5 DEF WriteOK, Change, TypeOK, Calls
    <3>2. call'[w].data <= remote'[k].version
      BY <3>1, VersionsGrow
    <3>3. Recent(w)'
      BY <2>0, <3>1, <3>2 DEF Recent, Leads
    <3>4. QED
      BY <3>1, <3>3, OthersStayRecent
  <2>6. CASE WriteLost(w)
    <3>1. /\ acked' = acked /\ cache' = cache
          /\ k \in Keys /\ pc[w] = "attempt" /\ pc'[w] \in {"attempt", "idle"}
          /\ call[w].method # "GET" /\ call'[w].method # "GET"
          /\ pc'[w] = "attempt" =>
               call'[w].floor = call[w].floor /\ call'[w].key = k
          /\ \A v \in Callers : v # w => pc'[v] = pc[v] /\ call'[v] = call[v]
      BY <2>0, <2>6 DEF WriteLost, Change, TypeOK, Calls, Returned
    <3>2. Recent(w)'
      BY <2>0, <3>1 DEF Recent, Leads
    <3>3. QED
      BY <3>1, <3>2, OthersStayRecent
  <2>7. CASE (Unanswered(w) \/ Throttled(w) \/ Refused(w)) /\ Fail(w)
    <3>1. /\ acked' = acked /\ cache' = cache
          /\ pc[w] = "attempt" /\ pc'[w] \in {"finish", "idle"}
          /\ call'[w].result = "error"
          /\ pc'[w] = "finish" =>
               call'[w].floor = call[w].floor /\ call'[w].key = k
          /\ \A v \in Callers : v # w => pc'[v] = pc[v] /\ call'[v] = call[v]
      BY <2>0, <2>7 DEF Unanswered, Throttled, Refused, Fail, TypeOK, Calls, Returned
    <3>2. Recent(w)'
      BY <2>0, <3>1 DEF Recent, Leads
    <3>3. QED
      BY <3>1, <3>2, OthersStayRecent
  <2>8. CASE (Unanswered(w) \/ Throttled(w)) /\ TryAgain(w)
    <3>1. /\ acked' = acked /\ cache' = cache
          /\ pc[w] = "attempt" /\ pc' = pc
          /\ call'[w].floor = call[w].floor /\ call'[w].key = k
          /\ call'[w].result = call[w].result
          /\ \A v \in Callers : v # w => call'[v] = call[v]
      BY <2>0, <2>8 DEF Unanswered, Throttled, TryAgain, TypeOK, Calls
    <3>2. Recent(w)'
      BY <2>0, <3>1 DEF Recent, Honest, Leads
    <3>3. QED
      BY <3>1, <3>2, OthersStayRecent
  <2>9. CASE flushCache(w)
    <3>1. /\ remote' = remote /\ k \in Keys /\ pc[w] = "flush"
          /\ call[w].method # "GET"
      BY <2>0, <2>9 DEF flushCache, Honest
    <3>2. acked' = [acked EXCEPT ![k] = IF @ < call[w].data THEN call[w].data ELSE @]
      BY <2>9 DEF flushCache
    <3>3. \A l \in Keys : acked[l] <= acked'[l] /\ acked'[l] \in Int
      BY <3>1, <3>2, VersionTypes DEF TypeOK
    <3>4. \A l \in Keys : acked'[l] <= remote'[l].version
      <4> SUFFICES ASSUME NEW l \in Keys
                   PROVE  acked'[l] <= remote[l].version
        BY <3>1
      <4>1. acked[l] <= remote[l].version
        BY <1>0 DEF Current
      <4>2. call[w].data <= remote[k].version
        BY <2>0, <3>1 DEF Recent
      <4>3. acked'[l] = acked[l] \/ (l = k /\ acked'[l] = call[w].data)
        BY <3>2 DEF TypeOK
      <4>4. QED
        BY <4>1, <4>2, <4>3
    <3>5. \A l \in Keys : Current(l)'
      BY <2>9, <3>4 DEF flushCache, Current, Absent
    <3>6. ASSUME NEW v \in Callers
          PROVE  Recent(v)'
      <4>0. Recent(v) /\ call[v] \in Calls /\ (pc[v] # "idle" => call[v].key \in Keys)
        BY <1>0 DEF TypeOK
      <4>1. CASE v = w
        <5>1. pc'[v] = "idle" /\ call'[v].method # "GET"
          BY <2>9, <3>1, <4>1 DEF flushCache, Returned, TypeOK
        <5>2. QED
          BY <5>1 DEF Recent, Leads
      <4>2. CASE v # w
        <5>1. /\ pc'[v] = pc[v] /\ call'[v].key = call[v].key
              /\ call'[v].method = call[v].method
              /\ call'[v].data = call[v].data /\ call'[v].floor = call[v].floor
              /\ call'[v].result = call[v].result
              /\ Leads(v) => call'[v].overtaken
              /\ call[v].overtaken => call'[v].overtaken
          BY <2>9, <4>0, <4>2 DEF flushCache, OnItsWay, TypeOK, Calls
        <5>2. pc[v] # "idle" => call[v].floor <= acked'[call[v].key]
          BY <3>3, <4>0, VersionTypes DEF Recent
        <5>3. QED
          BY <3>1, <4>0, <5>1, <5>2 DEF Recent, Leads
      <4>3. QED
        BY <4>1, <4>2
    <3>7. QED
      BY <3>5, <3>6 DEF FreshInv, FreshUnlessOvertaken, Recent, Current
  <2>10. QED
    BY <1>3, <2>1, <2>2, <2>3, <2>4, <2>5, <2>6, <2>7, <2>8, <2>9 DEF Step,
      Unanswered, Throttled, Refused, LastTry
<1>4. CASE UNCHANGED vars
  BY <1>4, <1>0 DEF vars, FreshInv, FreshUnlessOvertaken, Recent, Current, Leads
<1>5. QED
  BY <1>1, <1>2, <1>3, <1>4 DEF Next

\* A read is as new as the last write confirmed before it began, unless it owes
\* its data to a read that a flush overtook.
THEOREM ReadsFresh == Spec => []FreshUnlessOvertaken
<1>1. Init => FreshInv /\ ChangeInv
  BY DEF Init, FreshInv, FreshUnlessOvertaken, Leads, Blank, Absent, ChangeInv,
    ChangedAsTold
<1>2. TypeOK /\ ChangeInv /\ FreshInv /\ [Next]_vars => ChangeInv' /\ FreshInv'
  BY ChangeStep, FreshStep
<1>3. FreshInv => FreshUnlessOvertaken
  BY DEF FreshInv
<1>4. QED
  BY <1>1, <1>2, <1>3, ReadsTypeCorrect, PTL DEF Spec
===============================================================================
