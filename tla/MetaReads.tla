------------------------------ MODULE MetaReads ------------------------------
(***************************************************************************)
(* Requests through the shared Meta client, internals/metaclient: the TTL  *)
(* cache of GETs, the singleflight of identical GETs, the retry loop of    *)
(* every method and the flush after a write.  One action is one section of *)
(* code under the client's mutex or one round-trip to Meta.  Whether an    *)
(* attempt is let through is the business of the gate; here it may always  *)
(* fail unsent.                                                            *)
(***************************************************************************)
EXTENDS Integers, FiniteSets

CONSTANTS
    Callers,    \* goroutines
    Nobody,     \* no leader, no key
    Keys,       \* cache keys, one per object that is read
    MaxRetries, \* attempts after the first
    Capacity,   \* entries the cache holds
    MaxVersion  \* bound on the changes of one object

ASSUME ReadsAssumption ==
    /\ MaxRetries \in Nat
    /\ Capacity \in Nat \ {0}
    /\ MaxVersion \in Nat
    /\ Nobody \notin Callers \cup Keys

VARIABLES
    remote,     \* the version of each object at Meta, and whether it is gone
    cache,      \* Client.cache
    inflight,   \* Client.inflight: the leader of each key's flight
    pc, call,   \* each caller's position and local variables
    acked       \* history: the last version of each object a write confirmed

vars == <<remote, cache, inflight, pc, call, acked>>

Methods == {"GET", "POST", "DELETE"}
Versions == 0..MaxVersion
Absent == [here |-> FALSE, data |-> 0, overtaken |-> FALSE]
Entries == [here : BOOLEAN, data : Versions, overtaken : BOOLEAN]

\* What request returns: 200, the zero of statusFromErr, or an error.
Results == {"pending", "ok", "zero", "error"}

Positions == {"idle", "join", "wait", "attempt", "put", "finish", "flush"}

\* data      the version a GET returns, or the version a write made
\* overtaken a write was flushed while this read was on its way
\* floor     the last confirmed version when the request began
\* changes   how often this request changed Meta
Calls == [method : Methods, key : Keys \cup {Nobody}, tries : 0..MaxRetries, data : Versions,
          overtaken : BOOLEAN, floor : Versions, changes : Nat,
          result : Results]

NewCall(m, k) ==
    [method |-> m, key |-> k, tries |-> 0, data |-> 0, overtaken |-> FALSE,
     floor |-> acked[k], changes |-> 0, result |-> "pending"]

\* What is left of a request that returned.
Returned(c, r) ==
    [method |-> c.method, key |-> Nobody, tries |-> 0,
     data |-> IF r = "error" THEN 0 ELSE c.data,
     overtaken |-> r # "error" /\ c.overtaken,
     floor |-> IF r = "error" THEN 0 ELSE c.floor,
     changes |-> c.changes, result |-> r]

Blank ==
    [method |-> "GET", key |-> Nobody, tries |-> 0, data |-> 0,
     overtaken |-> FALSE, floor |-> 0, changes |-> 0, result |-> "pending"]

Init ==
    /\ remote = [k \in Keys |-> [version |-> 0, gone |-> FALSE]]
    /\ cache = [k \in Keys |-> Absent]
    /\ inflight = [k \in Keys |-> Nobody]
    /\ pc = [w \in Callers |-> "idle"]
    /\ acked = [k \in Keys |-> 0]
    /\ call = [w \in Callers |-> Blank]

\* A caller on its way to Meta with a GET that others may join.
Leads(w) == call[w].method = "GET" /\ pc[w] \in {"attempt", "put", "finish"}
-----------------------------------------------------------------------------
(* Reads. *)

\* cacheGet: an entry answers; an expired one is dropped and missed.
RequestGet(w, k) ==
    /\ pc[w] = "idle"
    /\ \/ /\ cache[k].here
          /\ call' = [call EXCEPT ![w] =
                        Returned([NewCall("GET", k) EXCEPT
                                    !.data = cache[k].data,
                                    !.overtaken = cache[k].overtaken], "ok")]
          /\ UNCHANGED <<cache, pc>>
       \/ /\ call' = [call EXCEPT ![w] = NewCall("GET", k)]
          /\ cache' = [cache EXCEPT ![k] = Absent]
          /\ pc' = [pc EXCEPT ![w] = "join"]
    /\ UNCHANGED <<remote, inflight, acked>>

\* Mutant: the call in flight is not looked for.
AlwaysLead(w) ==
    /\ pc[w] = "join"
    /\ inflight' = [inflight EXCEPT ![call[w].key] = w]
    /\ pc' = [pc EXCEPT ![w] = "attempt"]
    /\ UNCHANGED <<remote, cache, call, acked>>

joinInflight(w) ==
    LET k == call[w].key IN
    /\ pc[w] = "join"
    /\ \/ /\ inflight[k] # Nobody
          /\ pc' = [pc EXCEPT ![w] = "wait"]
          /\ UNCHANGED inflight
       \/ /\ inflight[k] = Nobody
          /\ inflight' = [inflight EXCEPT ![k] = w]
          /\ pc' = [pc EXCEPT ![w] = "attempt"]
    /\ UNCHANGED <<remote, cache, call, acked>>

\* Meta answers a GET with the object as it is.
Fetch(w) ==
    LET k == call[w].key IN
    /\ pc[w] = "attempt" /\ call[w].method = "GET"
    /\ ~remote[k].gone
    /\ call' = [call EXCEPT ![w].data = remote[k].version,
                            ![w].overtaken = FALSE]
    /\ pc' = [pc EXCEPT ![w] = "put"]
    /\ UNCHANGED <<remote, cache, inflight, acked>>

Cached == {k \in Keys : cache[k].here}

\* A full cache first drops an arbitrary entry, also to replace one it holds.
cachePut(w) ==
    /\ pc[w] = "put"
    /\ \E dropped \in SUBSET Cached :
         /\ Cardinality(dropped) = IF Cardinality(Cached) >= Capacity THEN 1 ELSE 0
         /\ cache' = [k \in Keys |->
                        IF k = call[w].key
                        THEN [here |-> TRUE, data |-> call[w].data,
                              overtaken |-> call[w].overtaken]
                        ELSE IF k \in dropped THEN Absent ELSE cache[k]]
    /\ call' = [call EXCEPT ![w].result = "ok"]
    /\ pc' = [pc EXCEPT ![w] = "finish"]
    /\ UNCHANGED <<remote, inflight, acked>>

Followers(w) == {v \in Callers : pc[v] = "wait" /\ call[v].key = call[w].key}

\* Mutant: the flight is forgotten, its channel never closed.
FinishSilently(w) ==
    /\ pc[w] = "finish"
    /\ inflight' = [inflight EXCEPT ![call[w].key] = Nobody]
    /\ pc' = [pc EXCEPT ![w] = "idle"]
    /\ UNCHANGED <<remote, cache, call, acked>>

\* completeInflight and finishInflight: the leader returns; its followers get
\* data and error, and a status that statusFromErr makes zero of anything.
finishInflight(w) ==
    /\ pc[w] = "finish"
    /\ inflight' = [inflight EXCEPT ![call[w].key] = Nobody]
    /\ call' = [v \in Callers |->
                  IF v = w THEN Returned(call[w], call[w].result)
                  ELSE IF v \in Followers(w)
                  THEN Returned([call[v] EXCEPT
                                   !.data = call[w].data,
                                   !.overtaken = call[w].overtaken],
                                IF call[w].result = "ok" THEN "zero" ELSE "error")
                  ELSE call[v]]
    /\ pc' = [v \in Callers |->
                IF v = w \/ v \in Followers(w) THEN "idle" ELSE pc[v]]
    /\ UNCHANGED <<remote, cache, acked>>

-----------------------------------------------------------------------------
(* Writes and failed attempts. *)

RequestWrite(w, m, k) ==
    /\ pc[w] = "idle"
    /\ m \in {"POST", "DELETE"}
    /\ call' = [call EXCEPT ![w] = NewCall(m, k)]
    /\ pc' = [pc EXCEPT ![w] = "attempt"]
    /\ UNCHANGED <<remote, cache, inflight, acked>>

\* Meta takes the change.
Change(w) ==
    LET k == call[w].key IN
    /\ call[w].method # "GET"
    /\ ~remote[k].gone /\ remote[k].version < MaxVersion
    /\ remote' = [remote EXCEPT ![k] =
                    [version |-> @.version + 1,
                     gone |-> call[w].method = "DELETE"]]

\* ... and says so.
WriteOK(w) ==
    /\ pc[w] = "attempt"
    /\ Change(w)
    /\ call' = [call EXCEPT ![w].data = remote'[call[w].key].version,
                            ![w].changes = @ + 1]
    /\ pc' = [pc EXCEPT ![w] = "flush"]
    /\ UNCHANGED <<cache, inflight, acked>>

\* A failed attempt ends the loop, or starts another after sleepBackoff.
Fail(w) ==
    IF call[w].method = "GET"
    THEN /\ call' = [call EXCEPT ![w].result = "error"]
         /\ pc' = [pc EXCEPT ![w] = "finish"]
    ELSE /\ call' = [call EXCEPT ![w] = Returned(@, "error")]
         /\ pc' = [pc EXCEPT ![w] = "idle"]

\* Mutant: off by one.
TryOnceMore(w) ==
    /\ call[w].tries <= MaxRetries
    /\ call' = [call EXCEPT ![w].tries = @ + 1]
    /\ UNCHANGED pc

TryAgain(w) ==
    /\ call[w].tries < MaxRetries
    /\ call' = [call EXCEPT ![w].tries = @ + 1]
    /\ UNCHANGED pc

LastTry(w) == call[w].tries = MaxRetries /\ Fail(w)

\* Mutant: every method is retried after an error or a 5xx.
AllRepeatable(w) == TRUE

\* An error or a 5xx may hide a change: only GET and DELETE are repeated.
Repeatable(w) == call[w].method \in {"GET", "DELETE"}

\* Meta takes the change and the answer is lost or a 5xx.
WriteLost(w) ==
    /\ pc[w] = "attempt"
    /\ Change(w)
    /\ LET counted == [call EXCEPT ![w].changes = @ + 1] IN
       IF Repeatable(w) /\ call[w].tries < MaxRetries
       THEN /\ call' = [counted EXCEPT ![w].tries = @ + 1]
            /\ UNCHANGED pc
       ELSE /\ call' = [counted EXCEPT ![w] = Returned(@, "error")]
            /\ pc' = [pc EXCEPT ![w] = "idle"]
    /\ UNCHANGED <<cache, inflight, acked>>

\* No answer and no change: a 5xx, no connection, no slot, the gate.
Unanswered(w) ==
    /\ pc[w] = "attempt"
    /\ IF Repeatable(w) THEN TryAgain(w) \/ LastTry(w) ELSE Fail(w)
    /\ UNCHANGED <<remote, cache, inflight, acked>>

\* 429, or one of Meta's throttle codes in a 400: nothing was done.
Throttled(w) ==
    /\ pc[w] = "attempt"
    /\ TryAgain(w) \/ LastTry(w)
    /\ UNCHANGED <<remote, cache, inflight, acked>>

\* Any other 4xx is final; an object that is gone is one.
Refused(w) ==
    /\ pc[w] = "attempt"
    /\ Fail(w)
    /\ UNCHANGED <<remote, cache, inflight, acked>>

\* Every read that has not returned yet is older than this write, or may be.
OnItsWay(v) == Leads(v)

\* Mutant: a write leaves the cache alone.
FlushNothing(w) ==
    /\ pc[w] = "flush"
    /\ acked' = [acked EXCEPT ![call[w].key] =
                   IF @ < call[w].data THEN call[w].data ELSE @]
    /\ call' = [v \in Callers |->
                  IF v = w THEN Returned(call[v], "ok")
                  ELSE IF OnItsWay(v) THEN [call[v] EXCEPT !.overtaken = TRUE]
                  ELSE call[v]]
    /\ pc' = [pc EXCEPT ![w] = "idle"]
    /\ UNCHANGED <<remote, cache, inflight>>

\* The write drops every cached GET and returns.
flushCache(w) ==
    /\ pc[w] = "flush"
    /\ cache' = [k \in Keys |-> Absent]
    /\ acked' = [acked EXCEPT ![call[w].key] =
                   IF @ < call[w].data THEN call[w].data ELSE @]
    /\ call' = [v \in Callers |->
                  IF v = w THEN Returned(call[v], "ok")
                  ELSE IF OnItsWay(v) THEN [call[v] EXCEPT !.overtaken = TRUE]
                  ELSE call[v]]
    /\ pc' = [pc EXCEPT ![w] = "idle"]
    /\ UNCHANGED <<remote, inflight>>

Step(w) ==
    \/ joinInflight(w)
    \/ Fetch(w) \/ cachePut(w) \/ finishInflight(w)
    \/ WriteOK(w) \/ WriteLost(w) \/ flushCache(w)
    \/ Unanswered(w) \/ Throttled(w) \/ Refused(w)

Next ==
    \E w \in Callers :
      \/ \E k \in Keys : RequestGet(w, k)
      \/ \E k \in Keys, m \in {"POST", "DELETE"} : RequestWrite(w, m, k)
      \/ Step(w)

Spec == Init /\ [][Next]_vars
-----------------------------------------------------------------------------
(* Properties. *)

\* Every variable has its type.
TypeOK ==
    /\ remote \in [Keys -> [version : Versions, gone : BOOLEAN]]
    /\ cache \in [Keys -> Entries]
    /\ inflight \in [Keys -> Callers \cup {Nobody}]
    /\ pc \in [Callers -> Positions]
    /\ call \in [Callers -> Calls]
    /\ \A w \in Callers : pc[w] # "idle" => call[w].key \in Keys
    /\ acked \in [Keys -> Versions]

\* Identical concurrent reads cost Meta one call: no two callers are on their
\* way with the same GET.
SingleFlight ==
    \A v, w \in Callers :
      v # w /\ Leads(v) /\ Leads(w) => call[v].key # call[w].key

\* Whatever is retried, one request changes Meta at most once, and a write
\* that reports success changed it.
ChangedAsTold ==
    \A w \in Callers :
      /\ call[w].changes <= 1
      /\ call[w].method # "GET" /\ call[w].result = "ok" => call[w].changes = 1

\* A read returns at least the last version confirmed before it began, or it
\* is owed to a read that was on its way when a write was flushed.
FreshUnlessOvertaken ==
    \A w \in Callers :
      call[w].method = "GET" /\ call[w].result \in {"ok", "zero"}
        => call[w].overtaken \/ call[w].data >= call[w].floor

\* "drops cached GETs so reads never see stale data".
NeverStale ==
    \A w \in Callers :
      call[w].method = "GET" /\ call[w].result = "ok"
        => call[w].data >= call[w].floor

\* Followers wait without a timeout: as long as one waits, a leader of its key
\* is on its way to closing the flight.
NeverOrphaned ==
    \A v \in Callers :
      pc[v] = "wait" => \E w \in Callers : Leads(w) /\ call[w].key = call[v].key

-----------------------------------------------------------------------------
(* What makes the properties inductive. *)

\* The table of flights names exactly the callers that lead one, and every
\* follower has its flight in the table.
FlightInv ==
    /\ \A w \in Callers :
         pc[w] \in {"join", "wait", "put", "finish"} => call[w].method = "GET"
    /\ \A k \in Keys, w \in Callers :
         inflight[k] = w <=> Leads(w) /\ call[w].key = k
    /\ \A w \in Callers : pc[w] = "wait" => inflight[call[w].key] # Nobody

\* A request that may still be sent has changed nothing, or deleted its object.
ChangeInv ==
    /\ \A w \in Callers :
         /\ pc[w] \in {"join", "wait", "put", "finish"} => call[w].method = "GET"
         /\ pc[w] \notin {"idle", "finish"} => call[w].result = "pending"
         /\ call[w].method = "GET" => call[w].changes = 0
         /\ pc[w] = "attempt" /\ call[w].changes > 0 => remote[call[w].key].gone
         /\ pc[w] = "flush" => call[w].changes = 1 /\ call[w].method # "GET"
    /\ ChangedAsTold

\* Everything younger than the last flush is at least as new as the last
\* confirmed write, in the cache, on its way, or answered.
FreshInv ==
    /\ \A k \in Keys : acked[k] <= remote[k].version
    /\ \A w \in Callers :
         pc[w] = "flush" => call[w].data <= remote[call[w].key].version
    /\ \A k \in Keys :
         cache[k].here => cache[k].overtaken \/ cache[k].data >= acked[k]
    /\ \A w \in Callers :
         /\ pc[w] # "idle" => call[w].floor <= acked[call[w].key]
         /\ Leads(w) /\ pc[w] \in {"put", "finish"} /\ call[w].result # "error"
              => call[w].overtaken \/ call[w].data >= acked[call[w].key]
    /\ FreshUnlessOvertaken
===============================================================================
