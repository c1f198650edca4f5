---------------------------- MODULE ProposalsProofs ----------------------------
(***************************************************************************)
(* Proofs about Proposals, for any account, goals and requests.            *)
(*   - What the model's operators do: stable sorting and selection, the    *)
(*     rules of the decision engine, the scores of the analytics engine.   *)
(*   - TypeInv: the types, and that ids are unique.  TypeOK and            *)
(*     ActionOutranksKeep follow.                                          *)
(*   - UrgentInv: what is planned and stored is sound advice in the order  *)
(*     of urgency.  UrgentFirst and ApprovedAsWritten follow.              *)
(*   - RepeatInv: between its look and its INSERT a request is overtaken   *)
(*     only by others.  NoRepeat follows.                                  *)
(*   - That scores and verdicts are monotone in the spend, and Chebyshev's *)
(*     inequality for the outliers: CheaperIsNoWorse, OutliersAreFew.      *)
(***************************************************************************)
EXTENDS Proposals, SumTheorems, TLAPS
-----------------------------------------------------------------------------
(* Sequences: enumeration, selection and stable sorting. *)

\* The elements of a finite set, enumerated in a total order of it: every one of
\* them, and in that order.
LEMMA Enumerated ==
    ASSUME NEW I, IsFiniteSet(I), NEW R,
           \A i \in I : <<i, i>> \in R,
           \A i, j \in I : <<i, j>> \in R \/ <<j, i>> \in R,
           \A i, j \in I : <<i, j>> \in R /\ <<j, i>> \in R => i = j,
           \A i, j, k \in I : <<i, j>> \in R /\ <<j, k>> \in R => <<i, k>> \in R
    PROVE  /\ Cardinality(I) \in Nat
           /\ Enumerate(I, R) \in [1..Cardinality(I) -> I]
           /\ \A i \in I : \E k \in 1..Cardinality(I) : Enumerate(I, R)[k] = i
           /\ \A k, l \in 1..Cardinality(I) :
                k <= l => <<Enumerate(I, R)[k], Enumerate(I, R)[l]>> \in R
  <1> DEFINE n == Cardinality(I)
             Below(i) == {j \in I : <<j, i>> \in R}
             rank == [i \in I |-> Cardinality(Below(i))]
             e == Enumerate(I, R)
  <1>1. n \in Nat /\ IsFiniteSet(1..n) /\ Cardinality(1..n) = n
    <2>1. n \in Nat
      BY FS_CardinalityType
    <2> HIDE DEF n
    <2> QED
      BY <2>1, FS_Interval
  <1>2. \A i \in I : /\ IsFiniteSet(Below(i)) /\ rank[i] \in 1..n
    <2> TAKE i \in I
    <2>1. IsFiniteSet(Below(i)) /\ Cardinality(Below(i)) <= n
      BY FS_Subset
    <2>2. i \in Below(i)
      OBVIOUS
    <2>3. Cardinality(Below(i)) \in Nat /\ Cardinality(Below(i)) # 0
      BY <2>1, <2>2, FS_CardinalityType, FS_EmptySet
    <2> QED
      BY <1>1, <2>1, <2>3
  <1>3. \A i, j \in I : <<i, j>> \in R => rank[i] <= rank[j]
    <2> SUFFICES ASSUME NEW i \in I, NEW j \in I, <<i, j>> \in R PROVE rank[i] <= rank[j]
      OBVIOUS
    <2>1. Below(i) \in SUBSET Below(j)
      OBVIOUS
    <2> HIDE DEF Below
    <2> QED
      BY <1>2, <2>1, FS_Subset
  <1>4. \A i, j \in I : rank[i] = rank[j] => i = j
    <2>1. ASSUME NEW i \in I, NEW j \in I, rank[i] = rank[j], <<i, j>> \in R PROVE i = j
      <3>1. Below(i) \in SUBSET Below(j) /\ j \in Below(j)
        BY <2>1
      <3>2. j \in Below(i) => i = j
        BY <2>1
      <3> HIDE DEF Below
      <3>3. Below(i) = Below(j)
        BY <1>2, <2>1, <3>1, FS_Subset
      <3> QED
        BY <3>1, <3>2, <3>3
    <2> HIDE DEF rank
    <2> QED
      BY <2>1
  <1> HIDE DEF Below
  <1>5. rank \in Surjection(I, 1..n)
    <2>1. rank \in Injection(I, 1..n)
      BY <1>2, <1>4 DEF Injection, IsInjective
    <2> HIDE DEF rank, n
    <2>2. Cardinality(I) = Cardinality(1..n)
      BY <1>1 DEF n
    <2> QED
      BY <1>1, <2>1, <2>2, FS_Injection
  <1>6. ASSUME NEW k \in 1..n PROVE e[k] \in I /\ rank[e[k]] = k
    <2>1. \E i \in I : rank[i] = k
      BY <1>5 DEF Surjection
    <2>2. e[k] = CHOOSE i \in I : Cardinality(Below(i)) = k
      BY DEF Enumerate, Below
    <2> QED
      BY <2>1, <2>2
  <1>7. e = [k \in 1..n |-> e[k]]
    <2> DEFINE at(k) == CHOOSE i \in I : Cardinality({j \in I : <<j, i>> \in R}) = k
    <2>1. e = [k \in 1..n |-> at(k)]
      BY DEF Enumerate
    <2> HIDE DEF e, n, at
    <2> QED
      BY <2>1
  <1>8. e \in [1..n -> I]
    <2> HIDE DEF e, n
    <2> QED
      BY <1>6, <1>7
  <1>9. \A i \in I : \E k \in 1..n : e[k] = i
    <2> TAKE i \in I
    <2> HIDE DEF rank, e, n
    <2>1. rank[i] \in 1..n
      BY <1>2
    <2>2. e[rank[i]] = i
      BY <1>4, <1>6, <2>1
    <2> QED
      BY <2>1, <2>2
  <1>10. \A k, l \in 1..n : k <= l => <<e[k], e[l]>> \in R
    <2> SUFFICES ASSUME NEW k \in 1..n, NEW l \in 1..n, k <= l, <<e[l], e[k]>> \in R
                 PROVE  <<e[k], e[l]>> \in R
      BY <1>6
    <2>1. rank[e[l]] <= rank[e[k]]
      BY <1>3, <1>6
    <2>2. k = l
      BY <1>1, <1>6, <2>1
    <2> QED
      BY <2>2
  <1> QED
    BY <1>1, <1>8, <1>9, <1>10

\* A subsequence has elements of the sequence, in its order.
LEMMA Subsequences ==
    ASSUME NEW S, NEW s \in Seq(S), NEW I \in SUBSET DOMAIN s
    PROVE  /\ Subsequence(s, I) \in Seq(S)
           /\ \A k, l \in DOMAIN Subsequence(s, I) : k <= l =>
                \E i, j \in I : /\ i <= j
                                /\ Subsequence(s, I)[k] = s[i] /\ Subsequence(s, I)[l] = s[j]
  <1> DEFINE R == {p \in I \X I : p[1] <= p[2]}
             e == Enumerate(I, R)
             t == Subsequence(s, I)
             n == Cardinality(I)
  <1>1. IsFiniteSet(I) /\ \A i \in I : i \in Nat /\ s[i] \in S
    <2>1. DOMAIN s = 1..Len(s) /\ Len(s) \in Nat /\ \A i \in DOMAIN s : s[i] \in S
      OBVIOUS
    <2>2. IsFiniteSet(DOMAIN s)
      BY <2>1, FS_Interval
    <2>3. IsFiniteSet(I)
      BY <2>2, FS_Subset
    <2> QED
      BY <2>1, <2>3
  <1>2. \A i, j \in I : <<i, j>> \in R <=> i <= j
    OBVIOUS
  <1>3. /\ n \in Nat /\ e \in [1..n -> I]
        /\ \A k, l \in 1..n : k <= l => <<e[k], e[l]>> \in R
    <2> HIDE DEF R
    <2> QED
      BY <1>1, <1>2, Enumerated
  <1>4. t = [k \in 1..n |-> s[e[k]]]
    <2>1. t = [k \in DOMAIN e |-> s[e[k]]]
      BY DEF Subsequence
    <2> HIDE DEF t, e, n
    <2> QED
      BY <1>3, <2>1
  <1> HIDE DEF t, e, n, R
  <1>5. t \in Seq(S) /\ DOMAIN t = 1..n
    BY <1>1, <1>3, <1>4
  <1>6. ASSUME NEW k \in 1..n, NEW l \in 1..n, k <= l
        PROVE  \E i, j \in I : i <= j /\ t[k] = s[i] /\ t[l] = s[j]
    BY <1>2, <1>3, <1>4, <1>6
  <1> QED
    BY <1>5, <1>6 DEF t

\* Sorting analyses by spend keeps them, whichever of equals comes first.
LEMMA SortedBySpend ==
    ASSUME NEW s \in Seq(Analyses), NEW t \in BySpend(s)
    PROVE  t \in Seq(Analyses) /\ DOMAIN t = DOMAIN s
  <1> DEFINE I == DOMAIN s
  <1>1. I = 1..Len(s) /\ Len(s) \in Nat /\ \A i \in I : s[i] \in Analyses
    OBVIOUS
  <1>2. PICK p \in Bijection(I, I) : t = [i \in I |-> s[p[i]]]
    BY DEF BySpend
  <1>3. p \in [I -> I]
    BY <1>2 DEF Bijection, Injection
  <1>4. \A i \in I : t[i] \in Analyses
    BY <1>1, <1>2, <1>3
  <1> QED
    BY <1>1, <1>2, <1>4
-----------------------------------------------------------------------------
(* Sorting by urgency, and the confidences of the rules. *)

\* Sorting recommendations keeps them and puts the most urgent ones first.
LEMMA SortedByUrgency ==
    ASSUME NEW S, NEW s \in Seq(S), \A d \in S : d.confidence \in Int
    PROVE  /\ StableSort(s, Ahead) \in Seq(S)
           /\ \A k, l \in DOMAIN StableSort(s, Ahead) : k <= l =>
                actionUrgency(StableSort(s, Ahead)[k].action)
                  <= actionUrgency(StableSort(s, Ahead)[l].action)
  <1> DEFINE I == DOMAIN s
             R == {p \in I \X I : \/ Ahead(s[p[1]], s[p[2]])
                                  \/ p[1] <= p[2] /\ ~Ahead(s[p[2]], s[p[1]])}
             e == Enumerate(I, R)
             t == StableSort(s, Ahead)
             n == Cardinality(I)
             urgency(i) == actionUrgency(s[i].action)
             conf(i) == s[i].confidence
  <1>1. /\ IsFiniteSet(I) /\ n = Len(s) /\ I = 1..Len(s) /\ Len(s) \in Nat
        /\ \A i \in I : i \in Nat /\ s[i] \in S
    <2>1. I = 1..Len(s) /\ Len(s) \in Nat /\ \A i \in I : s[i] \in S
      OBVIOUS
    <2>2. IsFiniteSet(I) /\ n = Len(s)
      BY <2>1, FS_Interval
    <2> QED
      BY <2>1, <2>2
  <1>2. \A i \in I : urgency(i) \in Nat /\ conf(i) \in Int
    BY <1>1 DEF actionUrgency
  <1> HIDE DEF n
  <1>3. \A i, j \in I : <<i, j>> \in R <=>
          \/ urgency(i) < urgency(j)
          \/ urgency(i) = urgency(j) /\ conf(i) > conf(j)
          \/ urgency(i) = urgency(j) /\ conf(i) = conf(j) /\ i <= j
    <2> SUFFICES ASSUME NEW i \in I, NEW j \in I
                 PROVE  <<i, j>> \in R <=>
                   \/ urgency(i) < urgency(j)
                   \/ urgency(i) = urgency(j) /\ conf(i) > conf(j)
                   \/ urgency(i) = urgency(j) /\ conf(i) = conf(j) /\ i <= j
      OBVIOUS
    <2>1. <<i, j>> \in R <=>
            \/ urgency(i) < urgency(j)
            \/ urgency(i) = urgency(j) /\ conf(i) > conf(j)
            \/ /\ i <= j /\ ~(urgency(j) < urgency(i))
               /\ ~(urgency(j) = urgency(i) /\ conf(j) > conf(i))
      BY DEF Ahead
    <2>2. /\ i \in Nat /\ urgency(i) \in Nat /\ conf(i) \in Int
          /\ j \in Nat /\ urgency(j) \in Nat /\ conf(j) \in Int
      BY <1>1, <1>2
    <2> HIDE DEF R, urgency, conf
    <2> QED
      BY <2>1, <2>2
  <1> HIDE DEF R, urgency, conf
  <1>4. /\ n \in Nat /\ e \in [1..n -> I]
        /\ \A k, l \in 1..n : k <= l => <<e[k], e[l]>> \in R
    <2>1. /\ \A i \in I : <<i, i>> \in R
          /\ \A i, j \in I : <<i, j>> \in R \/ <<j, i>> \in R
      <3>1. ASSUME NEW i \in I, NEW j \in I
            PROVE  <<i, j>> \in R \/ <<j, i>> \in R
        <4>1. /\ i \in Nat /\ urgency(i) \in Nat /\ conf(i) \in Int
              /\ j \in Nat /\ urgency(j) \in Nat /\ conf(j) \in Int
          BY <1>1, <1>2
        <4> QED
          BY <1>3, <4>1
      <3> QED
        BY <3>1
    <2>2. \A i, j \in I : <<i, j>> \in R /\ <<j, i>> \in R => i = j
      <3> SUFFICES ASSUME NEW i \in I, NEW j \in I, <<i, j>> \in R, <<j, i>> \in R
                   PROVE  i = j
        OBVIOUS
      <3>1. /\ i \in Nat /\ urgency(i) \in Nat /\ conf(i) \in Int
            /\ j \in Nat /\ urgency(j) \in Nat /\ conf(j) \in Int
        BY <1>1, <1>2
      <3> QED
        BY <1>3, <3>1
    <2>3. \A i, j, k \in I : <<i, j>> \in R /\ <<j, k>> \in R => <<i, k>> \in R
      <3> SUFFICES ASSUME NEW i \in I, NEW j \in I, NEW k \in I,
                          <<i, j>> \in R, <<j, k>> \in R
                   PROVE  <<i, k>> \in R
        OBVIOUS
      <3>1. /\ urgency(i) \in Nat /\ urgency(j) \in Nat /\ urgency(k) \in Nat
            /\ conf(i) \in Int /\ conf(j) \in Int /\ conf(k) \in Int
        BY <1>2
      <3>2. i \in Nat /\ j \in Nat /\ k \in Nat
        BY <1>1
      <3>3. /\ \/ urgency(i) < urgency(j)
               \/ urgency(i) = urgency(j) /\ conf(i) > conf(j)
               \/ urgency(i) = urgency(j) /\ conf(i) = conf(j) /\ i <= j
            /\ \/ urgency(j) < urgency(k)
               \/ urgency(j) = urgency(k) /\ conf(j) > conf(k)
               \/ urgency(j) = urgency(k) /\ conf(j) = conf(k) /\ j <= k
        BY <1>3
      <3>4. \/ urgency(i) < urgency(k)
            \/ urgency(i) = urgency(k) /\ conf(i) > conf(k)
            \/ urgency(i) = urgency(k) /\ conf(i) = conf(k) /\ i <= k
        BY <3>1, <3>2, <3>3
      <3> QED
        BY <1>3, <3>4
    <2> HIDE DEF I
    <2> QED
      BY <1>1, <2>1, <2>2, <2>3, Enumerated DEF n
  <1>5. t = [k \in 1..n |-> s[e[k]]]
    BY <1>1 DEF StableSort, R
  <1> HIDE DEF t, e
  <1>6. t \in Seq(S) /\ DOMAIN t = 1..n
    BY <1>1, <1>4, <1>5
  <1>7. ASSUME NEW k \in 1..n, NEW l \in 1..n, k <= l
        PROVE  actionUrgency(t[k].action) <= actionUrgency(t[l].action)
    <2>1. e[k] \in I /\ e[l] \in I /\ <<e[k], e[l]>> \in R
      BY <1>4, <1>7
    <2>2. urgency(e[k]) <= urgency(e[l])
      BY <1>2, <1>3, <2>1
    <2> QED
      BY <1>5, <2>2 DEF urgency
  <1> QED
    BY <1>6, <1>7 DEF t
-----------------------------------------------------------------------------
(* What the rules can say. *)

\* What is at least k times the divisor is at least k when divided.
LEMMA QuotientAtLeast ==
    ASSUME NEW n \in Nat, NEW d \in Nat \ {0}, NEW k \in Nat, n >= k * d
    PROVE  n \div d \in Nat /\ n \div d >= k
  <1> DEFINE q == n \div d
             r == n % d
  <1>1. n = d * q + r /\ r \in 0..(d - 1) /\ q \in Int
    OBVIOUS
  <1> HIDE DEF q, r
  <1>2. q >= k
    <2> SUFFICES ASSUME q + 1 <= k PROVE FALSE
      BY <1>1
    <2>1. PICK c \in Nat : k = q + 1 + c
      <3>1. k - (q + 1) \in Nat /\ k = q + 1 + (k - (q + 1))
        BY <1>1
      <3> QED
        BY <3>1
    <2>2. k * d = d * q + d + d * c
      BY <1>1, <2>1
    <2>3. d * c \in Nat
      BY <2>1
    <2> QED
      BY <1>1, <2>2, <2>3
  <1> QED
    BY <1>1, <1>2 DEF q

LEMMA RoundAtLeast ==
    ASSUME NEW n \in Nat, NEW d \in Nat \ {0}, NEW k \in Nat, n >= k * d
    PROVE  Round(n, d) \in Nat /\ Round(n, d) >= k
  <1>1. 2 * n + d \in Nat /\ 2 * d \in Nat \ {0} /\ 2 * n + d >= k * (2 * d)
    <2>1. k * (2 * d) = 2 * (k * d) /\ k * d \in Nat
      OBVIOUS
    <2> QED
      BY <2>1
  <1> QED
    BY <1>1, QuotientAtLeast DEF Round

\* A confidence reaches what its fraction reaches.
LEMMA ConfidenceAtLeast ==
    ASSUME NEW n \in Nat, NEW d \in Nat \ {0}, NEW k \in 0..99, n >= k * d
    PROVE  Confidence(n, d) \in k..99
  BY RoundAtLeast DEF Confidence, Clamp
-----------------------------------------------------------------------------
(* The decision engine: what the rules and Optimize recommend. *)

\* What the rules are given: the set's totals count the object too.
Inputs == {in \in
          [object : Objects, type : ObjectTypes, figures : Figures, score : 0..100,
           health : HealthStatuses, fatigue : FatigueLevels \cup {Absent}, goal : Goals,
           totals : Figures, days : Nat] :
             in.totals.conversions >= in.figures.conversions}

\* A recommendation keeping the object says so with less confidence than any that
\* acts on it; a percentage has the sign of its action and is one of three.
Sound(d) ==
    /\ Acts(d) => d.confidence >= 55
    /\ ~Acts(d) => d.confidence <= 45
    /\ d.action = "INCREASE_BUDGET" => d.pct = 20
    /\ d.action = "DECREASE_BUDGET" => d.pct \in {-30, -20}
    /\ d.action \in PauseActions => d.action = PauseActionFor(d.type)

Advice == {d \in [object : Objects, type : ObjectTypes, rule : RuleIDs, action : ValidAction,
                  pct : {-30, -20, 0, 20}, confidence : 0..99] : Sound(d)}

LEMMA AdviceGiven ==
    ASSUME NEW in \in Inputs, NEW rule \in RuleIDs, NEW action \in ValidAction,
           NEW pct \in {-30, -20, 0, 20}, NEW confidence \in 0..99,
           action # "NO_ACTION" => confidence >= 55,
           action = "NO_ACTION" => confidence <= 45,
           action = "INCREASE_BUDGET" => pct = 20,
           action = "DECREASE_BUDGET" => pct \in {-30, -20},
           action \in PauseActions => action = PauseActionFor(in.type)
    PROVE  Decision(in, rule, action, pct, confidence) \in Advice
  <1> DEFINE d == Decision(in, rule, action, pct, confidence)
  <1>1. in.object \in Objects /\ in.type \in ObjectTypes
    BY DEF Inputs
  <1>2. d \in [object : Objects, type : ObjectTypes, rule : RuleIDs, action : ValidAction,
                  pct : {-30, -20, 0, 20}, confidence : 0..99]
    BY <1>1 DEF Decision
  <1>3. Sound(d)
    BY DEF Sound, Decision, Acts
  <1> QED
    BY <1>2, <1>3 DEF Advice

LEMMA PauseAdvised ==
    ASSUME NEW in \in Inputs, NEW rule \in RuleIDs, NEW confidence \in 55..99
    PROVE  Decision(in, rule, PauseActionFor(in.type), 0, confidence) \in Advice
  BY AdviceGiven DEF PauseActionFor, ValidAction, PauseActions, BudgetActions

LEMMA CutAdvised ==
    ASSUME NEW in \in Inputs, NEW rule \in RuleIDs, NEW confidence \in 55..99,
           NEW pct \in {-30, -20}
    PROVE  Decision(in, rule, "DECREASE_BUDGET", pct, confidence) \in Advice
  BY AdviceGiven DEF ValidAction, PauseActions, BudgetActions

LEMMA OneOrNone ==
    ASSUME NEW S, NEW condition, NEW decision, condition => decision \in S
    PROVE  If(condition, decision) \in Seq(S)
  BY DEF If

LEMMA OneAfterTheOther ==
    ASSUME NEW S, NEW s \in Seq(S), NEW t \in Seq(S)
    PROVE  s \o t \in Seq(S)
  OBVIOUS

LEMMA ProductPositive ==
    ASSUME NEW a \in Nat \ {0}, NEW b \in Nat \ {0}
    PROVE  a * b \in Nat \ {0}
  OBVIOUS

\* What acts is advised with a confidence of 55 or more.
LEMMA Confident ==
    ASSUME NEW n, NEW d, n \in Nat /\ d \in Nat \ {0} /\ n >= 55 * d
    PROVE  Confidence(n, d) \in 55..99
  <1>1. n \in Nat /\ d \in Nat \ {0} /\ n >= 55 * d /\ 55 \in 0..99
    OBVIOUS
  <1> QED
    BY ONLY <1>1, ConfidenceAtLeast

LEMMA CostAdvice ==
    ASSUME NEW in \in Inputs, NEW rule \in RuleIDs, NEW target \in Nat \cup {NoTarget},
           NEW results \in Nat
    PROVE  CostRule(in, rule, target, results) \in Seq(Advice)
  <1> DEFINE n == IF target > 0 THEN in.figures.spend ELSE 0
             d == IF target > 0 THEN target * results ELSE 1
             applies == target # NoTarget /\ results > 0
             pause == n >= 2 * d /\ in.figures.spend > minSpendForPause
             pct == IF 5 * n >= 8 * d THEN -30 ELSE -20
             paused == Decision(in, rule, PauseActionFor(in.type), 0,
                                Confidence(70 * d + 5 * n, d))
             cut == Decision(in, rule, "DECREASE_BUDGET", pct,
                             Confidence(35 * d + 60 * n, 2 * d))
  <1>1. in.figures.spend \in Nat
    BY DEF Inputs, Figures
  <1>2. ASSUME applies PROVE n \in Nat /\ d \in Nat \ {0}
    BY <1>1, <1>2, ProductPositive DEF NoTarget
  <1> HIDE DEF n, d
  <1>3. ASSUME applies, pause PROVE paused \in Advice
    <2> DEFINE x == 70 * d + 5 * n
    <2>1. x \in Nat /\ x >= 55 * d /\ d \in Nat \ {0}
      BY <1>2, <1>3
    <2>2. Confidence(x, d) \in 55..99
      <3> HIDE DEF x
      <3> QED
        BY ONLY <2>1, Confident
    <2> QED
      BY <2>2, PauseAdvised
  <1>4. ASSUME applies, 4 * n >= 5 * d PROVE cut \in Advice
    <2> DEFINE x == 35 * d + 60 * n
               y == 2 * d
    <2>1. x \in Nat /\ y \in Nat \ {0} /\ x >= 55 * y
      BY <1>2, <1>4
    <2>2. Confidence(x, y) \in 55..99
      <3> HIDE DEF x, y
      <3> QED
        BY ONLY <2>1, Confident
    <2> QED
      BY <2>2, CutAdvised
  <1>5. CostRule(in, rule, target, results)
          = If(applies /\ pause, paused) \o If(applies /\ ~pause /\ 4 * n >= 5 * d, cut)
    BY DEF CostRule, n, d
  <1> HIDE DEF applies, pause, paused, cut
  <1>6. /\ If(applies /\ pause, paused) \in Seq(Advice)
        /\ If(applies /\ ~pause /\ 4 * n >= 5 * d, cut) \in Seq(Advice)
    BY <1>3, <1>4, OneOrNone
  <1> QED
    BY <1>5, <1>6, OneAfterTheOther

LEMMA ReturnAdvice ==
    ASSUME NEW in \in Inputs
    PROVE  roasBelowTargetRule(in) \in Seq(Advice)
  <1> DEFINE target == in.goal.roas
             n == IF target > 0 THEN in.figures.value ELSE 0
             d == IF target > 0 THEN target * in.figures.spend ELSE 1
             applies == target # NoTarget /\ in.figures.spend > 0 /\ in.figures.value > 0
             pause == 2 * n < d /\ in.figures.spend > minSpendForPause
             paused == Decision(in, "roas_below_target", PauseActionFor(in.type), 0,
                                Confidence(88 * d - 20 * n, d))
             cut == Decision(in, "roas_below_target", "DECREASE_BUDGET", -20,
                             Confidence(94 * d - 40 * n, d))
  <1>1. in.figures.spend \in Nat /\ in.figures.value \in Nat /\ target \in Nat \cup {NoTarget}
    BY DEF Inputs, Figures, Goals
  <1>0. "roas_below_target" \in RuleIDs
    BY DEF RuleIDs
  <1> HIDE DEF target
  <1>2. ASSUME applies PROVE n \in Nat /\ d \in Nat \ {0}
    BY <1>1, <1>2, ProductPositive DEF NoTarget
  <1> HIDE DEF n, d
  <1>3. ASSUME applies, pause PROVE paused \in Advice
    <2> DEFINE x == 88 * d - 20 * n
    <2>1. x \in Nat /\ d \in Nat \ {0} /\ x >= 55 * d
      BY <1>2, <1>3
    <2>2. Confidence(x, d) \in 55..99
      <3> HIDE DEF x
      <3> QED
        BY ONLY <2>1, Confident
    <2> QED
      BY <1>0, <2>2, PauseAdvised
  <1>4. ASSUME applies, 100 * n < 85 * d PROVE cut \in Advice
    <2> DEFINE x == 94 * d - 40 * n
    <2>1. x \in Nat /\ d \in Nat \ {0} /\ x >= 55 * d
      BY <1>2, <1>4
    <2>2. Confidence(x, d) \in 55..99
      <3> HIDE DEF x
      <3> QED
        BY ONLY <2>1, Confident
    <2> QED
      BY <1>0, <2>2, CutAdvised
  <1>5. roasBelowTargetRule(in)
          = If(applies /\ pause, paused) \o If(applies /\ ~pause /\ 100 * n < 85 * d, cut)
    BY DEF roasBelowTargetRule, target, n, d
  <1> HIDE DEF applies, pause, paused, cut
  <1>6. /\ If(applies /\ pause, paused) \in Seq(Advice)
        /\ If(applies /\ ~pause /\ 100 * n < 85 * d, cut) \in Seq(Advice)
    BY <1>3, <1>4, OneOrNone
  <1> QED
    BY <1>5, <1>6, OneAfterTheOther

LEMMA BarrenAdvice ==
    ASSUME NEW in \in Inputs
    PROVE  zeroResultSpendRule(in) \in Seq(Advice)
  <1> DEFINE c == Clamp(in.figures.spend, 0, 1000)
             cut == Decision(in, "zero_result_spend", "DECREASE_BUDGET", -30,
                             Confidence(60000 + 20 * c, 1000))
  <1>1. in.figures.spend \in Nat /\ "zero_result_spend" \in RuleIDs
    BY DEF Inputs, Figures, RuleIDs
  <1>2. c \in Nat
    BY <1>1 DEF Clamp
  <1> HIDE DEF c
  <1> DEFINE x == 60000 + 20 * c
             y == 1000
  <1>3. x \in Nat /\ y \in Nat \ {0} /\ x >= 55 * y
    BY <1>2
  <1>4. Confidence(x, y) \in 55..99
    <2> HIDE DEF x, y
    <2> QED
      BY ONLY <1>3, Confident
  <1>5. cut \in Advice
    BY <1>1, <1>4, CutAdvised
  <1>6. zeroResultSpendRule(in) = If(/\ in.figures.spend >= minSpendForPause
                                     /\ in.figures.conversions = 0
                                     /\ in.days >= 7, cut)
    BY DEF zeroResultSpendRule, c
  <1> HIDE DEF cut
  <1> QED
    BY <1>5, <1>6, OneOrNone

LEMMA ScaleAdvice ==
    ASSUME NEW in \in Inputs
    PROVE  highPerformerScaleRule(in) \in Seq(Advice)
  <1> DEFINE m == in.figures
             n == m.conversions * in.totals.spend
             d == m.spend * in.totals.conversions
             c == Clamp(10 * n - 13 * d, 0, 7 * d)
             condition == /\ m.conversions > 0 /\ in.score >= 70
                          /\ in.totals.spend > 0 /\ m.spend > 0
                          /\ 10 * n >= 13 * d
             scaled == Decision(in, "high_performer_underpaced", "INCREASE_BUDGET", 20,
                                Confidence(60 * d + 3 * c, d))
  <1>1. /\ m.conversions \in Nat /\ m.spend \in Nat /\ "high_performer_underpaced" \in RuleIDs
        /\ in.totals.conversions \in Nat /\ in.totals.spend \in Nat
        /\ in.totals.conversions >= m.conversions
    BY DEF Inputs, Figures, RuleIDs
  <1>2. ASSUME condition PROVE scaled \in Advice
    <2>1. n \in Nat /\ d \in Nat \ {0}
      BY <1>1, <1>2, ProductPositive
    <2> HIDE DEF n, d
    <2>2. c \in Nat
      BY <2>1 DEF Clamp
    <2> HIDE DEF c
    <2> DEFINE x == 60 * d + 3 * c
    <2>3. x \in Nat /\ d \in Nat \ {0} /\ x >= 55 * d
      BY <2>1, <2>2
    <2>4. Confidence(x, d) \in 55..99
      <3> HIDE DEF x
      <3> QED
        BY ONLY <2>3, Confident
    <2> QED
      BY <1>1, <2>4, AdviceGiven DEF ValidAction, PauseActions, BudgetActions
  <1>3. highPerformerScaleRule(in) = If(condition, scaled)
    BY DEF highPerformerScaleRule
  <1> HIDE DEF condition, scaled
  <1> QED
    BY <1>2, <1>3, OneOrNone

\* Whatever the figures, the rules give sound advice.
LEMMA RulesAdvise ==
    ASSUME NEW in \in Inputs
    PROVE  Fired(in) \in Seq(Advice)
  <1>1. notDeliveringRule(in) \in Seq(Advice)
    <2>1. "not_delivering" \in RuleIDs
      BY DEF RuleIDs
    <2>2. (IF in.days >= 7 THEN 90 ELSE 75) \in 55..99
      OBVIOUS
    <2> QED
      BY <2>1, <2>2, PauseAdvised, OneOrNone DEF notDeliveringRule
  <1>2. cpaAboveTargetRule(in) \in Seq(Advice) /\ cplAboveTargetRule(in) \in Seq(Advice)
    <2>1. /\ in.goal.cpa \in Nat \cup {NoTarget} /\ in.goal.cpl \in Nat \cup {NoTarget}
          /\ in.figures.conversions \in Nat /\ in.figures.leads \in Nat
          /\ "cpa_above_target" \in RuleIDs /\ "cpl_above_target" \in RuleIDs
      BY DEF Inputs, Goals, Figures, RuleIDs
    <2> QED
      BY <2>1, CostAdvice DEF cpaAboveTargetRule, cplAboveTargetRule
  <1>3. fatigueRefreshRule(in) \in Seq(Advice)
    <2> DEFINE d == Decision(in, "creative_fatigue", "REFRESH_CREATIVE", 0,
                             IF in.fatigue = "high" THEN 80 ELSE 60)
    <2>1. d \in Advice
      <3>1. "creative_fatigue" \in RuleIDs
        BY DEF RuleIDs
      <3>2. (IF in.fatigue = "high" THEN 80 ELSE 60) \in 55..99
        OBVIOUS
      <3> QED
        BY <3>1, <3>2, AdviceGiven DEF ValidAction, PauseActions, BudgetActions
    <2> HIDE DEF d
    <2> QED
      BY <2>1, OneOrNone DEF fatigueRefreshRule, d
  <1>4. keepHealthyRule(in) \in Seq(Advice)
    <2> DEFINE d == Decision(in, "healthy_keep", "NO_ACTION", 0, 45)
    <2>1. d \in Advice
      <3>1. "healthy_keep" \in RuleIDs /\ "NO_ACTION" \in ValidAction
        BY DEF RuleIDs, ValidAction
      <3>2. "NO_ACTION" \notin PauseActions
        BY DEF PauseActions
      <3> QED
        BY <3>1, <3>2, AdviceGiven
    <2> HIDE DEF d
    <2> QED
      BY <2>1, OneOrNone DEF keepHealthyRule, d
  <1> QED
    BY <1>1, <1>2, <1>3, <1>4, ReturnAdvice, BarrenAdvice, ScaleAdvice, OneAfterTheOther
    DEF Fired

LEMMA AdviceConfidence ==
    ASSUME NEW d \in Advice
    PROVE  d.confidence \in Int /\ d.confidence >= 0
  <1>1. d.confidence \in 0..99
    BY DEF Advice
  <1> HIDE DEF Advice
  <1> QED
    BY <1>1

\* Some decision is the strongest: none is more confident.
LEMMA StrongestOfThem ==
    ASSUME NEW ds \in Seq(Advice), ds # <<>>
    PROVE  /\ Strongest(ds) \in Advice
           /\ \A j \in DOMAIN ds : ds[j].confidence <= Strongest(ds).confidence
  <1> DEFINE I == DOMAIN ds
             conf(i) == ds[i].confidence
  <1>1. I = 1..Len(ds) /\ Len(ds) \in Nat /\ I # {} /\ \A i \in I : ds[i] \in Advice
    OBVIOUS
  <1>2. \A i \in I : conf(i) \in Int
    <2> SUFFICES ASSUME NEW i \in I PROVE ds[i].confidence \in Int
      OBVIOUS
    <2>1. ds[i] \in Advice
      BY <1>1
    <2> QED
      BY <2>1, AdviceConfidence
  <1> HIDE DEF conf
  <1>3. PICK u \in I : \A j \in I : conf(j) <= conf(u)
    <2> DEFINE f == [i \in I |-> conf(i)]
    <2>1. \A i \in I : f[i] = conf(i) /\ f[i] \in Int
      BY <1>2
    <2>2. IsFiniteSet(I)
      BY <1>1, FS_Interval
    <2> HIDE DEF f, I
    <2>3. \E u \in I : \A j \in I : f[j] <= f[u]
      BY <1>1, <2>1, <2>2, GreatestOf
    <2> QED
      BY <2>1, <2>3
  <1> DEFINE M == {i \in I : conf(i) = conf(u)}
  <1>4. PICK i \in M : \A j \in M : -j <= -i
    <2> DEFINE f == [i \in M |-> -i]
    <2>1. \A i \in M : f[i] = -i /\ f[i] \in Int
      BY <1>1
    <2>5. IsFiniteSet(I)
      BY <1>1, FS_Interval
    <2>6. u \in M
      BY <1>3
    <2>2. M # {} /\ M \in SUBSET I /\ IsFiniteSet(I)
      BY <2>5, <2>6
    <2>3. IsFiniteSet(M)
      BY <2>2, FS_Subset
    <2> HIDE DEF f, M
    <2>4. \E i \in M : \A j \in M : f[j] <= f[i]
      BY <2>1, <2>2, <2>3, GreatestOf
    <2> QED
      BY <2>1, <2>4
  <1>6. \A j \in I : conf(j) <= conf(i)
    BY <1>3, <1>4
  <1>7. \A j \in 1..(i - 1) : conf(j) < conf(i)
    <2> SUFFICES ASSUME NEW j \in 1..(i - 1), ~(conf(j) < conf(i)) PROVE FALSE
      OBVIOUS
    <2>1. i \in I /\ j \in I /\ j < i
      BY <1>1, <1>4
    <2>2. conf(j) = conf(i)
      <3>1. conf(j) \in Int /\ conf(i) \in Int /\ conf(j) <= conf(i)
        BY <1>2, <1>6, <2>1
      <3> QED
        BY <3>1
    <2>3. j \in M
      BY <1>4, <2>1, <2>2
    <2> QED
      BY <1>1, <1>4, <2>1, <2>3
  <1> DEFINE chosen == CHOOSE k \in DOMAIN ds :
                /\ \A j \in DOMAIN ds : ds[j].confidence <= ds[k].confidence
                /\ \A j \in 1..(k - 1) : ds[j].confidence < ds[k].confidence
  <1>8. chosen \in I /\ \A j \in I : conf(j) <= conf(chosen)
    <2>1. i \in I
      BY <1>4
    <2> QED
      BY <1>6, <1>7, <2>1 DEF conf
  <1>9. Strongest(ds) = ds[chosen]
    BY DEF Strongest
  <1> HIDE DEF chosen
  <1> QED
    BY <1>1, <1>8, <1>9 DEF conf

\* What the engine recommends is sound advice, and it leaves an object alone only
\* when no rule wants it changed.
LEMMA EngineAdvises ==
    ASSUME NEW in \in Inputs
    PROVE  /\ Optimize(in) \in Advice
           /\ ~Acts(Optimize(in)) => \A j \in DOMAIN Fired(in) : ~Acts(Fired(in)[j])
  <1> DEFINE ds == Fired(in)
  <1>1. ds \in Seq(Advice)
    BY RulesAdvise
  <1> HIDE DEF ds
  <1>2. CASE ds = <<>>
    <2>1. Decision(in, "monitor", "NO_ACTION", 0, 30) \in Advice
      <3>1. "monitor" \in RuleIDs /\ "NO_ACTION" \in ValidAction
        BY DEF RuleIDs, ValidAction
      <3>2. "NO_ACTION" \notin PauseActions
        BY DEF PauseActions
      <3> QED
        BY <3>1, <3>2, AdviceGiven
    <2>2. DOMAIN ds = {}
      BY <1>2
    <2> QED
      BY <1>2, <2>1, <2>2 DEF Optimize, ds
  <1>3. CASE ds # <<>>
    <2> DEFINE best == Strongest(ds)
    <2>1. best \in Advice /\ \A j \in DOMAIN ds : ds[j].confidence <= best.confidence
      BY <1>1, <1>3, StrongestOfThem
    <2>2. Optimize(in) = best
      BY <1>3 DEF Optimize, ds
    <2> HIDE DEF best
    <2>3. ASSUME ~Acts(best), NEW j \in DOMAIN ds, Acts(ds[j]) PROVE FALSE
      <3>1. ds[j] \in Advice
        BY <1>1
      <3>2. /\ best.confidence \in Int /\ ds[j].confidence \in Int
            /\ best.confidence <= 45 /\ ds[j].confidence >= 55
        BY <2>1, <2>3, <3>1 DEF Advice, Sound
      <3> QED
        BY <2>1, <3>2
    <2> QED
      BY <2>1, <2>2, <2>3 DEF ds
  <1> QED
    BY <1>2, <1>3

\* The figures of a set are figures, and count those of each of its members.
LEMMA FiguresAdded ==
    ASSUME NEW s \in Seq(Figures)
    PROVE  /\ SumFigures(s) \in Figures
           /\ \A i \in DOMAIN s : SumFigures(s).conversions >= s[i].conversions
  <1> DEFINE of(f) == [i \in DOMAIN s |-> s[i][f]]
             F == DOMAIN NoFigures
  <1>1. F = {"spend", "impressions", "reach", "clicks", "leads", "purchases",
             "conversions", "value"}
    BY DEF NoFigures
  <1>2. IsFiniteSet(DOMAIN s) /\ \A i \in DOMAIN s : s[i] \in Figures
    <2>1. DOMAIN s = 1..Len(s) /\ Len(s) \in Nat /\ \A i \in DOMAIN s : s[i] \in Figures
      OBVIOUS
    <2> QED
      BY <2>1, FS_Interval
  <1>3. ASSUME NEW f \in F
        PROVE  /\ SumFunction(of(f)) \in Nat
               /\ \A i \in DOMAIN s : s[i][f] <= SumFunction(of(f))
    <2>1. DOMAIN of(f) = DOMAIN s
      OBVIOUS
    <2>2. \A i \in DOMAIN s : of(f)[i] = s[i][f] /\ of(f)[i] \in Nat
      BY <1>1, <1>2 DEF Figures
    <2> HIDE DEF of
    <2> QED
      BY <1>2, <2>1, <2>2, SumNat DEF SumFunction
  <1>4. SumFigures(s) = [f \in F |-> SumFunction(of(f))]
    BY DEF SumFigures
  <1> DEFINE sum(f) == SumFunction(of(f))
  <1>5. SumFigures(s) = [spend |-> sum("spend"), impressions |-> sum("impressions"),
                         reach |-> sum("reach"), clicks |-> sum("clicks"),
                         leads |-> sum("leads"), purchases |-> sum("purchases"),
                         conversions |-> sum("conversions"), value |-> sum("value")]
    <2> HIDE DEF sum
    <2> QED
      BY <1>1, <1>4 DEF sum
  <1>6. \A f \in F : sum(f) \in Nat
    BY <1>3
  <1>7. \A i \in DOMAIN s : s[i].conversions <= sum("conversions")
    BY <1>1, <1>3
  <1> HIDE DEF sum, F
  <1> QED
    BY <1>1, <1>5, <1>6, <1>7 DEF Figures
-----------------------------------------------------------------------------
(* The analytics engine: figures, scores, and what the rules are given. *)

LEMMA TruncInt ==
    ASSUME NEW n \in Int, NEW d \in Nat \ {0}
    PROVE  Trunc(n, d) \in Int
  BY DEF Trunc

LEMMA PointsInt ==
    ASSUME NEW k \in Nat, NEW n \in Int, NEW d \in Nat
    PROVE  Points(k, n, d) \in Int
  <1>1. CASE d = 0
    BY <1>1, AnalyticsAssumption DEF Points
  <1>2. CASE d # 0
    <2>1. k * n \in Int
      OBVIOUS
    <2>2. Trunc(k * n, d) \in Int
      BY <1>2, <2>1, TruncInt
    <2> QED
      BY <1>2, <2>2 DEF Points, Clamp
  <1> QED
    BY <1>1, <1>2

\* A score is one, whatever the figures and the goal.
LEMMA ScoreInRange ==
    ASSUME NEW m \in Figures, NEW goal \in Goals
    PROVE  ScorePerformance(m, goal) \in 0..100
  <1>1. /\ m.spend \in Nat /\ m.impressions \in Nat /\ m.clicks \in Nat /\ m.leads \in Nat
        /\ m.conversions \in Nat /\ m.value \in Nat
        /\ goal.cpl \in Nat \cup {NoTarget} /\ goal.roas \in Nat \cup {NoTarget}
    BY DEF Figures, Goals
  <1>2. CTRPoints(m) \in Int
    <2>1. 100 * m.clicks - m.impressions \in Int
      BY <1>1
    <2> QED
      BY <1>1, <2>1, PointsInt DEF CTRPoints
  <1>3. CPCPoints(m) \in Int
    <2>1. m.clicks - m.spend \in Int
      BY <1>1
    <2> QED
      BY <1>1, <2>1, PointsInt DEF CPCPoints
  <1>4. CVRPoints(m) \in Int
    <2>1. 50 * m.conversions - m.clicks \in Int
      BY <1>1
    <2> QED
      BY <1>1, <2>1, PointsInt DEF CVRPoints
  <1>5. CPLPoints(m, goal) \in Int
    <2>1. CASE goal.cpl = NoTarget
      BY <2>1 DEF CPLPoints
    <2>2. CASE goal.cpl # NoTarget
      <3>1. goal.cpl * m.leads \in Nat
        BY <1>1, <2>2
      <3>2. goal.cpl * m.leads - m.spend \in Int
        BY <1>1, <3>1
      <3>3. Points(20, goal.cpl * m.leads - m.spend, goal.cpl * m.leads) \in Int
        BY <3>1, <3>2, PointsInt
      <3> QED
        BY <3>3 DEF CPLPoints
    <2> QED
      BY <2>1, <2>2
  <1>6. ROASPoints(m, goal) \in Int
    <2> DEFINE target == IF goal.roas = NoTarget THEN DefaultROAS ELSE goal.roas
    <2>1. target \in Nat
      BY <1>1 DEF DefaultROAS
    <2> HIDE DEF target
    <2>2. target * m.spend \in Nat
      BY <1>1, <2>1
    <2>3. m.value - target * m.spend \in Int
      BY <1>1, <2>2
    <2>4. Points(20, m.value - target * m.spend, target * m.spend) \in Int
      BY <2>2, <2>3, PointsInt
    <2> QED
      BY <2>4 DEF ROASPoints, target
  <1>7. NothingToShow(m) \in Int
    BY DEF NothingToShow
  <1> QED
    BY <1>2, <1>3, <1>4, <1>5, <1>6, <1>7 DEF ScorePerformance, Clamp

LEMMA HealthKnown ==
    ASSUME NEW m, NEW status, NEW score
    PROVE  AssessHealth(m, status, score) \in HealthStatuses
  BY DEF AssessHealth, HealthStatuses

LEMMA FatigueKnown ==
    ASSUME NEW days, NEW m
    PROVE  AssessFatigue(days, m) \in FatigueLevels
  BY DEF AssessFatigue, FatigueLevels

LEMMA CountedNat ==
    ASSUME NEW actions \in Counts, NEW types
    PROVE  Counted(actions, types) \in Nat
  <1> DEFINE I == {i \in DOMAIN actions : actions[i].type \in types}
             f == [i \in DOMAIN actions |-> actions[i].value]
  <1>1. /\ DOMAIN actions = 1..Len(actions) /\ Len(actions) \in Nat
        /\ \A i \in DOMAIN actions : actions[i].value \in Nat
    <2> DEFINE R == [type : STRING, value : Nat]
    <2>1. actions \in Seq(R) /\ \A r \in R : r.value \in Nat
      BY DEF Counts
    <2> HIDE DEF R
    <2> QED
      BY <2>1
  <1>2. \A i \in I : f[i] \in Nat
    BY <1>1
  <1>3. IsFiniteSet(DOMAIN actions)
    BY <1>1, FS_Interval
  <1>4. IsFiniteSet(I)
    BY <1>3, FS_Subset
  <1> HIDE DEF I, f
  <1>5. SumFunctionOnSet(f, I) \in Nat
    BY <1>2, <1>4, SumNat
  <1> QED
    BY <1>5 DEF Counted, I, f

LEMMA Normalized ==
    ASSUME NEW row \in InsightRows
    PROVE  NormalizeInsight(row) \in Figures
  <1>1. /\ row.spend \in Nat /\ row.impressions \in Nat /\ row.reach \in Nat
        /\ row.clicks \in Nat /\ row.actions \in Counts /\ row.values \in Counts
    BY DEF InsightRows
  <1>2. /\ Counted(row.actions, LeadTypes) \in Nat
        /\ Counted(row.actions, PurchaseTypes) \in Nat
        /\ Counted(row.values, PurchaseTypes) \in Nat
    BY <1>1, CountedNat
  <1> QED
    BY <1>1, <1>2 DEF NormalizeInsight, Figures

\* What the rules look at is what they are written for.
LEMMA InputsGiven ==
    ASSUME NEW request \in Requests, NEW sorted \in BySpend(request.analyses)
    PROVE  /\ InputsOf(request, sorted) \in Seq(Inputs)
           /\ DOMAIN InputsOf(request, sorted) = DOMAIN sorted
  <1> DEFINE figures == [j \in DOMAIN sorted |-> sorted[j].figures]
  <1>1. request.analyses \in Seq(Analyses) /\ request.goal \in Goals
    BY DEF Requests
  <1>2. presetDaysInt(request.preset) \in Nat
    BY DEF presetDaysInt
  <1>3. sorted \in Seq(Analyses)
    BY <1>1, SortedBySpend
  <1>4. InputsOf(request, sorted) =
          [i \in DOMAIN sorted |->
             [object |-> sorted[i].object, type |-> sorted[i].type,
              figures |-> sorted[i].figures, score |-> sorted[i].score,
              health |-> sorted[i].health, fatigue |-> sorted[i].fatigue,
              goal |-> request.goal, totals |-> SumFigures(figures),
              days |-> presetDaysInt(request.preset)]]
    BY DEF InputsOf
  <1>5. DOMAIN sorted = 1..Len(sorted) /\ Len(sorted) \in Nat
    BY <1>3
  <1>6. \A i \in DOMAIN sorted : sorted[i] \in Analyses
    BY <1>3
  <1>7. figures \in Seq(Figures)
    <2>1. \A i \in DOMAIN sorted : sorted[i].figures \in Figures
      BY <1>6 DEF Analyses
    <2> QED
      BY <1>5, <2>1
  <1>8. DOMAIN figures = DOMAIN sorted /\ \A i \in DOMAIN sorted : figures[i] = sorted[i].figures
    OBVIOUS
  <1> HIDE DEF figures
  <1>9. /\ SumFigures(figures) \in Figures
        /\ \A i \in DOMAIN sorted : SumFigures(figures).conversions >= sorted[i].figures.conversions
    BY <1>7, <1>8, FiguresAdded
  <1> DEFINE totals == SumFigures(figures)
             days == presetDaysInt(request.preset)
  <1> HIDE DEF totals, days
  <1>10. ASSUME NEW i \in DOMAIN sorted
         PROVE  [object |-> sorted[i].object, type |-> sorted[i].type,
                 figures |-> sorted[i].figures, score |-> sorted[i].score,
                 health |-> sorted[i].health, fatigue |-> sorted[i].fatigue,
                 goal |-> request.goal, totals |-> totals, days |-> days] \in Inputs
    <2>1. sorted[i] \in Analyses
      BY <1>6
    <2>2. totals \in Figures /\ totals.conversions >= sorted[i].figures.conversions
      BY <1>9 DEF totals
    <2>3. days \in Nat
      BY <1>2 DEF days
    <2>4. /\ sorted[i].object \in Objects /\ sorted[i].type \in ObjectTypes
          /\ sorted[i].figures \in Figures /\ sorted[i].score \in 0..100
          /\ sorted[i].health \in HealthStatuses
          /\ sorted[i].fatigue \in FatigueLevels \cup {Absent}
      BY <2>1 DEF Analyses
    <2> QED
      BY <1>1, <2>2, <2>3, <2>4 DEF Inputs
  <1> QED
    BY <1>4, <1>5, <1>10 DEF totals, days
-----------------------------------------------------------------------------
(* Types. *)

\* What may be planned: sound advice that acts.
Plans == {d \in Decisions : Sound(d)}

InOrder(plan) ==
    \A k, l \in DOMAIN plan : k <= l =>
      actionUrgency(plan[k].action) <= actionUrgency(plan[l].action)

\* A plan is sound advice in the order of urgency.
LEMMA PlanMade ==
    ASSUME NEW request \in Requests, NEW sorted \in BySpend(request.analyses), NEW acting,
           acting = {i \in DOMAIN OptimizeReport(InputsOf(request, sorted)) :
                       Acts(OptimizeReport(InputsOf(request, sorted))[i])}
    PROVE  LET plan == Subsequence(OptimizeReport(InputsOf(request, sorted)), acting)
           IN  plan \in Seq(Plans) /\ InOrder(plan)
  <1> DEFINE ins == InputsOf(request, sorted)
             advice == [i \in DOMAIN ins |-> Optimize(ins[i])]
             decisions == StableSort(advice, Ahead)
             plan == Subsequence(decisions, acting)
  <1>1. ins \in Seq(Inputs)
    BY InputsGiven
  <1>2. OptimizeReport(InputsOf(request, sorted)) = decisions
    BY DEF OptimizeReport
  <1> HIDE DEF ins
  <1>3. advice \in Seq(Advice)
    <2>1. \A i \in DOMAIN ins : ins[i] \in Inputs
      BY <1>1
    <2>2. \A i \in DOMAIN ins : Optimize(ins[i]) \in Advice
      BY <2>1, EngineAdvises
    <2>3. DOMAIN ins = 1..Len(ins) /\ Len(ins) \in Nat
      BY <1>1
    <2> QED
      BY <2>2, <2>3
  <1> HIDE DEF advice
  <1>4. /\ decisions \in Seq(Advice)
        /\ \A k, l \in DOMAIN decisions : k <= l =>
             actionUrgency(decisions[k].action) <= actionUrgency(decisions[l].action)
    BY <1>3, AdviceConfidence, SortedByUrgency
  <1> HIDE DEF decisions
  <1>5. acting = {i \in DOMAIN decisions : Acts(decisions[i])} /\ acting \in SUBSET DOMAIN decisions
    BY <1>2
  <1>6. /\ plan \in Seq(Advice)
        /\ \A k, l \in DOMAIN plan : k <= l =>
             \E i, j \in acting : i <= j /\ plan[k] = decisions[i] /\ plan[l] = decisions[j]
    <2> HIDE DEF plan
    <2>1. decisions \in Seq(Advice) /\ acting \in SUBSET DOMAIN decisions
      BY <1>4, <1>5
    <2>2. plan = Subsequence(decisions, acting)
      BY DEF plan
    <2>3. /\ Subsequence(decisions, acting) \in Seq(Advice)
          /\ \A k, l \in DOMAIN Subsequence(decisions, acting) : k <= l =>
               \E i, j \in acting : /\ i <= j
                                    /\ Subsequence(decisions, acting)[k] = decisions[i]
                                    /\ Subsequence(decisions, acting)[l] = decisions[j]
      BY ONLY <2>1, Subsequences
    <2> QED
      BY <2>2, <2>3
  <1> HIDE DEF plan
  <1>7. DOMAIN plan = 1..Len(plan) /\ Len(plan) \in Nat /\ \A k \in DOMAIN plan : plan[k] \in Advice
    BY <1>6
  <1>8. \A k \in DOMAIN plan : plan[k] \in Plans
    <2> SUFFICES ASSUME NEW k \in DOMAIN plan PROVE plan[k] \in Plans
      OBVIOUS
    <2>1. k <= k
      BY <1>7
    <2>2. PICK i \in acting : plan[k] = decisions[i]
      BY <1>6, <2>1
    <2>3. plan[k] \in Advice /\ plan[k].action # "NO_ACTION"
      BY <1>5, <1>7, <2>2 DEF Acts
    <2> QED
      BY <2>3 DEF Advice, Plans, Decisions
  <1>9. plan \in Seq(Plans)
    BY <1>6, <1>8
  <1>10. InOrder(plan)
    <2> SUFFICES ASSUME NEW k \in DOMAIN plan, NEW l \in DOMAIN plan, k <= l
                 PROVE  actionUrgency(plan[k].action) <= actionUrgency(plan[l].action)
      BY DEF InOrder
    <2>1. PICK i, j \in acting : i <= j /\ plan[k] = decisions[i] /\ plan[l] = decisions[j]
      BY <1>6
    <2> QED
      BY <1>4, <1>5, <2>1
  <1> QED
    BY <1>2, <1>9, <1>10 DEF plan

Listed == [object : Objects, status : STRING]

\* A request of which one local variable changes is still one.
LEMMA RequestLocals ==
    ASSUME NEW q \in Requests
    PROVE  /\ \A left \in Seq(Listed) : [q EXCEPT !.left = left] \in Requests
           /\ \A figures \in Figures : [q EXCEPT !.figures = figures] \in Requests
           /\ \A plan \in Seq(Decisions) : [q EXCEPT !.plan = plan] \in Requests
           /\ \A analyses \in Seq(Analyses) : [q EXCEPT !.analyses = analyses] \in Requests
  <1> DEFINE A == Seq(Analyses)
             P == Seq(Decisions)
             L == Seq(Listed)
  <1>1. Requests = [run : Nat, level : {"CAMPAIGN", "ADSET"}, goal : Goals,
                    preset : DatePresets, left : L, figures : Figures, analyses : A, plan : P]
    BY DEF Requests, Listed
  <1> HIDE DEF A, P, L
  <1>2. \A left \in L : [q EXCEPT !.left = left] \in Requests
    BY <1>1
  <1>3. \A figures \in Figures : [q EXCEPT !.figures = figures] \in Requests
    BY <1>1
  <1>4. \A plan \in P : [q EXCEPT !.plan = plan] \in Requests
    BY <1>1
  <1>5. \A analyses \in A : [q EXCEPT !.analyses = analyses] \in Requests
    BY <1>1
  <1> QED
    BY <1>2, <1>3, <1>4, <1>5 DEF A, P, L

LEMMA IdleRequest == Idle \in Requests
  <1> DEFINE A == Seq(Analyses)
             P == Seq(Decisions)
             L == Seq(Listed)
  <1>1. Requests = [run : Nat, level : {"CAMPAIGN", "ADSET"}, goal : Goals,
                    preset : DatePresets, left : L, figures : Figures, analyses : A, plan : P]
    BY DEF Requests, Listed
  <1>2. <<>> \in A /\ <<>> \in P /\ <<>> \in L
    OBVIOUS
  <1> HIDE DEF A, P, L
  <1>3. NoFigures \in Figures
    BY DEF NoFigures, Figures
  <1>4. NoGoal \in Goals /\ "last_30d" \in DatePresets
    BY DEF NoGoal, Goals, DatePresets
  <1> QED
    BY <1>1, <1>2, <1>3, <1>4 DEF Idle

LEMMA RequestMade ==
    ASSUME NEW run \in Nat, NEW level \in {"CAMPAIGN", "ADSET"}, NEW goal \in Goals,
           NEW preset \in DatePresets
    PROVE  [Idle EXCEPT !.run = run, !.level = level, !.goal = goal, !.preset = preset]
             \in Requests
  BY IdleRequest DEF Requests

\* An id names one row.
IdsInv == \A r, s \in rows : r.id = s.id => r = s

TypeInv == TypeOK /\ IdsInv

Pointed(g) == /\ pc[g] \in {"metrics", "daily"} => gen[g].left # <<>>
              /\ pc[g] = "insert" => gen[g].plan # <<>>

LEMMA InitTyped == Init => TypeInv
  <1> SUFFICES ASSUME Init PROVE TypeInv
    OBVIOUS
  <1>1. world \in Worlds /\ report \in [Objects -> Reports]
    BY ProposalsAssumption DEF Init
  <1>2. rows = {} /\ rows \subseteq Rows /\ IsFiniteSet(rows)
    BY FS_EmptySet DEF Init
  <1>3. Idle \in Requests
    BY IdleRequest
  <1>4. pc \in [Generators -> Positions] /\ \A g \in Generators : pc[g] = "idle"
    BY DEF Init, Positions
  <1>5. reply \in [Generators -> Replies]
    BY DEF Init, Replies
  <1>6. gen \in [Generators -> Requests]
    BY <1>3 DEF Init
  <1> QED
    BY <1>1, <1>2, <1>4, <1>5, <1>6 DEF TypeInv, TypeOK, IdsInv

\* A step of one request, that touches neither the table nor the surroundings.
LEMMA LocalStep ==
    ASSUME TypeInv, NEW g \in Generators, NEW q \in Requests, NEW p \in Positions,
           UNCHANGED <<world, report, rows>>,
           pc' = [pc EXCEPT ![g] = p], gen' = [gen EXCEPT ![g] = q],
           reply' \in [Generators -> Replies],
           p \in {"metrics", "daily"} => q.left # <<>>,
           p = "insert" => q.plan # <<>>
    PROVE  TypeInv'
  <1>1. /\ pc' \in [Generators -> Positions] /\ gen' \in [Generators -> Requests]
        /\ pc'[g] = p /\ gen'[g] = q
        /\ \A h \in Generators \ {g} : pc'[h] = pc[h] /\ gen'[h] = gen[h]
    BY DEF TypeInv, TypeOK
  <1>2. \A h \in Generators : Pointed(h)'
    BY <1>1 DEF TypeInv, TypeOK, Pointed
  <1>3. rows' \subseteq Rows' /\ IsFiniteSet(rows')
    BY DEF TypeInv, TypeOK, Rows
  <1>4. IdsInv'
    BY DEF TypeInv, IdsInv
  <1> QED
    BY <1>1, <1>2, <1>3, <1>4 DEF TypeInv, TypeOK, Pointed

LEMMA RequestTyped ==
    ASSUME TypeInv, NEW g \in Generators
    PROVE  /\ gen[g] \in Requests /\ gen[g].run \in Nat /\ gen[g].goal \in Goals
           /\ gen[g].left \in Seq(Listed) /\ gen[g].figures \in Figures
           /\ gen[g].plan \in Seq(Decisions) /\ gen[g].analyses \in Seq(Analyses)
           /\ gen[g].preset \in DatePresets
           /\ pc[g] \in Positions /\ Pointed(g) /\ gen[g] = [gen[g] EXCEPT !.left = gen[g].left]
           /\ gen = [gen EXCEPT ![g] = gen[g]]
  <1>1. gen[g] \in Requests /\ pc[g] \in Positions /\ Pointed(g)
    BY DEF TypeInv, TypeOK, Pointed
  <1>2. gen = [gen EXCEPT ![g] = gen[g]]
    BY DEF TypeInv, TypeOK
  <1>3. /\ gen[g].run \in Nat /\ gen[g].goal \in Goals
        /\ gen[g].left \in Seq(Listed) /\ gen[g].figures \in Figures
        /\ gen[g].plan \in Seq(Decisions) /\ gen[g].analyses \in Seq(Analyses)
        /\ gen[g].preset \in DatePresets
        /\ gen[g] = [gen[g] EXCEPT !.left = gen[g].left]
    <2> DEFINE A == Seq(Analyses)
               P == Seq(Decisions)
               L == Seq(Listed)
    <2>1. Requests = [run : Nat, level : {"CAMPAIGN", "ADSET"}, goal : Goals,
                      preset : DatePresets, left : L, figures : Figures, analyses : A, plan : P]
      BY DEF Requests, Listed
    <2> HIDE DEF A, P, L
    <2>2. /\ gen[g].run \in Nat /\ gen[g].goal \in Goals
          /\ gen[g].left \in L /\ gen[g].figures \in Figures
          /\ gen[g].plan \in P /\ gen[g].analyses \in A
          /\ gen[g].preset \in DatePresets
          /\ gen[g] = [gen[g] EXCEPT !.left = gen[g].left]
      BY <1>1, <2>1
    <2> QED
      BY <2>2 DEF A, P, L
  <1> QED
    BY <1>1, <1>2, <1>3

LEMMA GenerateTyped ==
    ASSUME TypeInv, NEW g \in Generators, GenerateOptimizationActions(g)
    PROVE  TypeInv'
  <1>1. PICK level \in world.levels, goal \in world.goals, preset \in world.presets :
          gen' = [gen EXCEPT ![g] = [Idle EXCEPT !.run = gen[g].run + 1, !.level = level,
                                                 !.goal = goal, !.preset = preset]]
    BY DEF GenerateOptimizationActions
  <1> DEFINE q == [Idle EXCEPT !.run = gen[g].run + 1, !.level = level, !.goal = goal,
                               !.preset = preset]
  <1>2. level \in {"CAMPAIGN", "ADSET"} /\ goal \in Goals /\ preset \in DatePresets
    BY ProposalsAssumption DEF TypeInv, TypeOK
  <1>3. gen[g].run + 1 \in Nat
    <2>1. gen[g].run \in Nat
      BY RequestTyped
    <2> QED
      BY <2>1
  <1>4. q \in Requests
    BY <1>2, <1>3, RequestMade
  <1>5. gen' = [gen EXCEPT ![g] = q]
    BY <1>1
  <1> HIDE DEF q
  <1>6. /\ pc' = [pc EXCEPT ![g] = "list"] /\ "list" \in Positions
        /\ reply' \in [Generators -> Replies]
        /\ UNCHANGED <<world, report, rows>>
    BY DEF GenerateOptimizationActions, Positions, TypeInv, TypeOK, Replies
  <1> QED
    BY <1>4, <1>5, <1>6, LocalStep

LEMMA ListTyped ==
    ASSUME TypeInv, NEW g \in Generators, ListObjects(g)
    PROVE  TypeInv'
  <1> DEFINE I == {i \in DOMAIN Listing : TypeOf[Listing[i]] = gen[g].level}
             listed == Subsequence(Listing, I)
             left == [i \in DOMAIN listed |->
                        [object |-> listed[i], status |-> report[listed[i]].status]]
             q == [gen[g] EXCEPT !.left = left]
  <1>1. listed \in Seq(Objects)
    BY ProposalsAssumption, Subsequences
  <1>2. /\ pc' = [pc EXCEPT ![g] = NextObject(left)]
        /\ gen' = [gen EXCEPT ![g] = q]
        /\ UNCHANGED <<world, report, rows, reply>>
    BY RequestTyped DEF ListObjects
  <1> HIDE DEF listed
  <1>3. left \in Seq(Listed)
    <2>1. \A o \in Objects : report[o].status \in STRING
      BY DEF TypeInv, TypeOK, Reports
    <2>2. DOMAIN listed = 1..Len(listed) /\ Len(listed) \in Nat
          /\ \A i \in DOMAIN listed : listed[i] \in Objects
      BY <1>1
    <2>3. \A i \in DOMAIN listed :
            [object |-> listed[i], status |-> report[listed[i]].status] \in Listed
      BY <2>1, <2>2 DEF Listed
    <2> QED
      BY <2>2, <2>3
  <1> HIDE DEF left
  <1>4. q \in Requests /\ q.left = left
    <2>1. gen[g] \in Requests
      BY RequestTyped
    <2>2. q \in Requests
      BY <1>3, <2>1, RequestLocals
    <2> QED
      BY <2>1, <2>2 DEF Requests
  <1> HIDE DEF q
  <1>5. /\ NextObject(left) \in Positions
        /\ NextObject(left) \in {"metrics", "daily"} => q.left # <<>>
        /\ NextObject(left) # "insert"
    BY <1>4 DEF NextObject, Positions
  <1>6. reply' \in [Generators -> Replies]
    BY <1>2 DEF TypeInv, TypeOK
  <1> QED
    BY <1>2, <1>4, <1>5, <1>6, LocalStep

LEMMA MetricsTyped ==
    ASSUME TypeInv, NEW g \in Generators, FetchMetrics(g)
    PROVE  TypeInv'
  <1> DEFINE figures == NormalizeInsight(report[gen[g].left[1].object].row)
             q == [gen[g] EXCEPT !.figures = figures]
  <1>1. /\ pc' = [pc EXCEPT ![g] = "daily"] /\ pc[g] = "metrics"
        /\ gen' = [gen EXCEPT ![g] = q]
        /\ UNCHANGED <<world, report, rows, reply>>
    BY RequestTyped DEF FetchMetrics
  <1>2. gen[g] \in Requests /\ gen[g].left \in Seq(Listed) /\ gen[g].left # <<>>
    BY <1>1, RequestTyped DEF Pointed
  <1>3. figures \in Figures
    <2>1. gen[g].left[1] \in Listed
      BY <1>2
    <2>2. gen[g].left[1].object \in Objects
      BY <2>1 DEF Listed
    <2>3. report[gen[g].left[1].object].row \in InsightRows
      BY <2>2 DEF TypeInv, TypeOK, Reports
    <2> QED
      BY <2>3, Normalized
  <1> HIDE DEF figures
  <1>4. q \in Requests
    BY <1>2, <1>3, RequestLocals
  <1>5. q.left = gen[g].left
    BY <1>2 DEF Requests
  <1> HIDE DEF q
  <1>6. "daily" \in Positions /\ reply' \in [Generators -> Replies]
    BY <1>1 DEF TypeInv, TypeOK, Positions
  <1> QED
    BY <1>1, <1>2, <1>4, <1>5, <1>6, LocalStep

LEMMA AnalysisTyped ==
    ASSUME NEW listed \in Listed, NEW figures \in Figures,
           NEW goal \in Goals, NEW fatigue \in FatigueLevels \cup {Absent}
    PROVE  Analysis(listed, figures, goal, fatigue) \in Analyses
  <1> DEFINE score == ScorePerformance(figures, goal)
             health == AssessHealth(figures, listed.status, score)
             type == TypeOf[listed.object]
  <1>1. score \in 0..100
    BY ScoreInRange
  <1> HIDE DEF score
  <1>2. health \in HealthStatuses
    BY HealthKnown
  <1>3. listed.object \in Objects
    BY DEF Listed
  <1>4. type \in ObjectTypes
    BY <1>3, ProposalsAssumption DEF ObjectTypes
  <1>5. Analysis(listed, figures, goal, fatigue) =
          [object |-> listed.object, type |-> type, figures |-> figures,
           score |-> score, health |-> health, fatigue |-> fatigue]
    BY DEF Analysis, score
  <1> HIDE DEF health, type
  <1> QED
    BY <1>1, <1>2, <1>3, <1>4, <1>5 DEF Analyses

LEMMA DailyTyped ==
    ASSUME TypeInv, NEW g \in Generators, FetchDaily(g)
    PROVE  TypeInv'
  <1> DEFINE listed == gen[g].left[1]
             days == report[listed.object].days
  <1>1. PICK fatigue \in (IF Fault("meta_error") THEN {Absent} ELSE {})
                            \cup {IF days = <<>> THEN Absent
                                  ELSE AssessFatigue(days, gen[g].figures)} :
          gen' = [gen EXCEPT ![g].left = Tail(@), ![g].figures = NoFigures,
                             ![g].analyses = Append(@, Analysis(listed, gen[g].figures,
                                                                gen[g].goal, fatigue))]
    BY DEF FetchDaily
  <1>2. /\ pc' = [pc EXCEPT ![g] = NextObject(Tail(gen[g].left))] /\ pc[g] = "daily"
        /\ UNCHANGED <<world, report, rows, reply>>
    BY DEF FetchDaily
  <1>3. /\ gen[g] \in Requests /\ gen[g].left \in Seq(Listed) /\ gen[g].left # <<>>
        /\ gen[g].figures \in Figures /\ gen[g].goal \in Goals
        /\ gen[g].analyses \in Seq(Analyses) /\ gen = [gen EXCEPT ![g] = gen[g]]
    BY <1>2, RequestTyped DEF Pointed
  <1>4. fatigue \in FatigueLevels \cup {Absent}
    BY <1>1, FatigueKnown
  <1>5. listed \in Listed
    BY <1>3
  <1> DEFINE analysis == Analysis(listed, gen[g].figures, gen[g].goal, fatigue)
             left == Tail(gen[g].left)
             analyses == Append(gen[g].analyses, analysis)
  <1>6. analysis \in Analyses
    BY <1>3, <1>4, <1>5, AnalysisTyped
  <1> HIDE DEF analysis
  <1>7. left \in Seq(Listed) /\ analyses \in Seq(Analyses)
    BY <1>3, <1>6
  <1> DEFINE q == [run |-> gen[g].run, level |-> gen[g].level, goal |-> gen[g].goal,
                   preset |-> gen[g].preset, left |-> left, figures |-> NoFigures,
                   analyses |-> analyses, plan |-> gen[g].plan]
             A == Seq(Analyses)
             P == Seq(Decisions)
             L == Seq(Listed)
  <1>8. Requests = [run : Nat, level : {"CAMPAIGN", "ADSET"}, goal : Goals,
                    preset : DatePresets, left : L, figures : Figures, analyses : A, plan : P]
    BY DEF Requests, Listed
  <1>9. gen \in [Generators -> Requests]
    BY DEF TypeInv, TypeOK
  <1>10. gen' = [gen EXCEPT ![g].left = Tail(@), ![g].figures = NoFigures,
                            ![g].analyses = Append(@, analysis)]
    BY <1>1 DEF analysis
  <1> HIDE DEF A, P, L
  <1>11. gen'[g] = q
    BY ONLY <1>8, <1>9, <1>10, g \in Generators DEF q
  <1>12. gen' = [gen EXCEPT ![g] = q]
    <2>1. gen' = [gen EXCEPT ![g] = gen'[g]]
      BY <1>9, <1>10
    <2> HIDE DEF q
    <2> QED
      BY <1>11, <2>1
  <1>13. q \in Requests /\ q.left = left
    <2>2. NoFigures \in Figures
      BY DEF NoFigures, Figures
    <2>3. gen[g] \in Requests /\ left \in L /\ analyses \in A
      BY <1>3, <1>7 DEF L, A
    <2> HIDE DEF left, analyses
    <2> QED
      BY <1>8, <2>2, <2>3
  <1> HIDE DEF q
  <1> HIDE DEF left, analyses
  <1>14. /\ NextObject(left) \in Positions
         /\ NextObject(left) \in {"metrics", "daily"} => q.left # <<>>
         /\ NextObject(left) # "insert"
    BY <1>13 DEF NextObject, Positions
  <1>15. reply' \in [Generators -> Replies]
    BY <1>2 DEF TypeInv, TypeOK
  <1>16. pc' = [pc EXCEPT ![g] = NextObject(left)]
    BY <1>2 DEF left
  <1> QED
    BY <1>2, <1>12, <1>13, <1>14, <1>15, <1>16, LocalStep

\* A request that ends keeps its locals.
LEMMA EndTyped ==
    ASSUME TypeInv, NEW g \in Generators, MetaFails(g) \/ DatabaseFails(g) \/ Answer(g)
    PROVE  TypeInv'
  <1>1. pc' = [pc EXCEPT ![g] = "idle"] /\ gen' = gen /\ UNCHANGED <<world, report, rows>>
    BY DEF MetaFails, DatabaseFails, Answer
  <1>2. gen[g] \in Requests /\ gen' = [gen EXCEPT ![g] = gen[g]] /\ "idle" \in Positions
    BY <1>1, RequestTyped DEF Positions
  <1>3. reply' \in [Generators -> Replies]
    BY DEF MetaFails, DatabaseFails, Answer, TypeInv, TypeOK, Replies
  <1> QED
    BY <1>1, <1>2, <1>3, LocalStep

LEMMA PlanTyped ==
    ASSUME TypeInv, NEW g \in Generators, Plan(g)
    PROVE  TypeInv'
  <1>0. PICK sorted \in BySpend(gen[g].analyses) :
          LET decisions == OptimizeReport(InputsOf(gen[g], sorted))
              acting == {i \in DOMAIN decisions : Acts(decisions[i])}
          IN  gen' = [gen EXCEPT ![g].plan = Subsequence(decisions, acting),
                                 ![g].analyses = <<>>]
    BY DEF Plan
  <1> DEFINE decisions == OptimizeReport(InputsOf(gen[g], sorted))
             acting == {i \in DOMAIN decisions : Acts(decisions[i])}
             plan == Subsequence(decisions, acting)
             q1 == [gen[g] EXCEPT !.plan = plan]
             q == [q1 EXCEPT !.analyses = <<>>]
  <1>1. gen[g] \in Requests /\ gen = [gen EXCEPT ![g] = gen[g]]
    BY RequestTyped
  <1>2. plan \in Seq(Plans)
    BY <1>1, PlanMade
  <1>3. /\ pc' = [pc EXCEPT ![g] = "select"]
        /\ UNCHANGED <<world, report, rows, reply>>
    BY DEF Plan
  <1>4. gen' = [gen EXCEPT ![g] = q]
    <2>1. gen' = [gen EXCEPT ![g] = [@ EXCEPT !.plan = plan, !.analyses = <<>>]]
      BY <1>0
    <2> HIDE DEF plan
    <2> QED
      BY <1>1, <2>1
  <1> HIDE DEF plan
  <1>5. plan \in Seq(Decisions)
    BY <1>2 DEF Plans
  <1>6. q1 \in Requests
    BY <1>1, <1>5, RequestLocals
  <1> HIDE DEF q1
  <1>7. q \in Requests
    <2>1. <<>> \in Seq(Analyses)
      OBVIOUS
    <2> QED
      BY <1>6, <2>1, RequestLocals
  <1> HIDE DEF q
  <1>8. "select" \in Positions /\ reply' \in [Generators -> Replies]
    BY <1>3 DEF TypeInv, TypeOK, Positions
  <1> QED
    BY <1>3, <1>4, <1>7, <1>8, LocalStep

LEMMA SelectTyped ==
    ASSUME TypeInv, NEW g \in Generators, SelectExisting(g)
    PROVE  TypeInv'
  <1>1. /\ gen[g] \in Requests /\ gen[g].plan \in Seq(Decisions)
        /\ gen = [gen EXCEPT ![g] = gen[g]] /\ pc \in [Generators -> Positions]
    BY RequestTyped DEF TypeInv, TypeOK
  <1>2. /\ pc[g] = "select" /\ gen[g].plan # <<>> /\ UNCHANGED <<world, report, rows, reply>>
        /\ reply' \in [Generators -> Replies] /\ {"select", "insert"} \subseteq Positions
    BY DEF SelectExisting, TypeInv, TypeOK, Positions
  <1> DEFINE q == [gen[g] EXCEPT !.plan = Tail(@)]
  <1>3. CASE gen' = [gen EXCEPT ![g] = q] /\ pc' = pc
    <2>1. Tail(gen[g].plan) \in Seq(Decisions)
      BY <1>1, <1>2
    <2>2. q \in Requests
      BY <1>1, <2>1, RequestLocals
    <2>3. pc' = [pc EXCEPT ![g] = "select"]
      BY <1>1, <1>2, <1>3
    <2> HIDE DEF q
    <2> QED
      BY <1>2, <1>3, <2>2, <2>3, LocalStep
  <1>4. CASE gen' = gen /\ pc' = [pc EXCEPT ![g] = "insert"]
    BY <1>1, <1>2, <1>4, LocalStep
  <1>5. \/ gen' = [gen EXCEPT ![g] = q] /\ pc' = pc
        \/ gen' = gen /\ pc' = [pc EXCEPT ![g] = "insert"]
    BY DEF SelectExisting
  <1> QED
    BY <1>3, <1>4, <1>5

\* A proposal is a row, and its id is new.
LEMMA InsertTyped ==
    ASSUME TypeInv, NEW g \in Generators, InsertProposal(g)
    PROVE  TypeInv'
  <1> DEFINE d == gen[g].plan[1]
             new == Proposal(g, d)
             n == Cardinality(rows)
             q == [gen[g] EXCEPT !.plan = Tail(gen[g].plan)]
  <1>1. /\ gen[g] \in Requests /\ gen[g].plan \in Seq(Decisions) /\ gen[g].plan # <<>>
        /\ gen[g].preset \in DatePresets /\ gen[g].run \in Nat
    BY RequestTyped DEF InsertProposal, Pointed
  <1>2. d \in Decisions /\ Tail(gen[g].plan) \in Seq(Decisions)
    BY <1>1
  <1>3. /\ rows' = rows \cup {new} /\ pc[g] = "insert" /\ pc' = [pc EXCEPT ![g] = "select"]
        /\ gen' = [gen EXCEPT ![g] = q]
        /\ UNCHANGED <<world, report, reply>>
    BY DEF InsertProposal, TypeInv, TypeOK
  <1>4. rows \subseteq Rows /\ IsFiniteSet(rows) /\ n \in Nat
    BY FS_CardinalityType DEF TypeInv, TypeOK
  <1>5. new.id = n + 1
    BY DEF Proposal
  <1>6. \A r \in rows : r.id \in 1..n
    BY <1>4 DEF Rows
  <1> HIDE DEF n
  <1>7. new \notin rows
    BY <1>4, <1>5, <1>6
  <1>8. IsFiniteSet(rows') /\ Cardinality(rows') = n + 1
    BY <1>3, <1>4, <1>7, FS_AddElement DEF n
  <1>9. new \in Rows'
    <2>1. /\ d.object \in Objects /\ d.type \in ObjectTypes /\ d.rule \in RuleIDs
          /\ d.action \in ValidAction \ {"NO_ACTION"} /\ d.pct \in {-30, -20, 0, 20}
          /\ d.confidence \in 0..99
      BY <1>2 DEF Decisions
    <2>2. "PENDING" \in Statuses /\ n + 1 \in 1..(n + 1)
      BY <1>4 DEF Statuses
    <2>3. new = [id |-> n + 1, user |-> UserOf[g], object |-> d.object,
                 type |-> d.type, action |-> d.action, pct |-> d.pct, rule |-> d.rule,
                 confidence |-> d.confidence, preset |-> gen[g].preset, status |-> "PENDING",
                 by |-> g, run |-> gen[g].run]
      BY DEF Proposal, n
    <2> HIDE DEF new, d
    <2> QED
      BY <1>1, <1>8, <2>1, <2>2, <2>3 DEF Rows
  <1>10. rows \subseteq Rows'
    <2>1. 1..n \subseteq 1..(n + 1)
      BY <1>4
    <2> QED
      BY <1>4, <1>8, <2>1 DEF Rows, n
  <1>11. IdsInv'
    <2> HIDE DEF new
    <2>1. \A r \in rows : r.id # new.id
      BY <1>4, <1>5, <1>6
    <2> QED
      BY <1>3, <2>1 DEF TypeInv, IdsInv
  <1>12. q \in Requests
    BY <1>1, <1>2, RequestLocals
  <1> HIDE DEF new, q
  <1>13. /\ pc' \in [Generators -> Positions] /\ gen' \in [Generators -> Requests]
         /\ \A h \in Generators : Pointed(h)'
    BY <1>3, <1>12 DEF TypeInv, TypeOK, Pointed, Positions
  <1> QED
    BY <1>3, <1>8, <1>9, <1>10, <1>11, <1>13 DEF TypeInv, TypeOK, Pointed

\* A decided row is a row with the id it had.
LEMMA DecisionTyped ==
    ASSUME TypeInv, NEW r \in rows, NEW decision \in {"APPROVED", "REJECTED"},
           decideOptimizationAction(r, decision)
    PROVE  TypeInv'
  <1> DEFINE decided == [r EXCEPT !.status = decision]
             others == rows \ {r}
  <1>1. /\ rows' = others \cup {decided}
        /\ UNCHANGED <<world, report, pc, gen, reply>>
    BY DEF decideOptimizationAction
  <1>2. rows \subseteq Rows /\ IsFiniteSet(rows) /\ r \in Rows
    BY DEF TypeInv, TypeOK
  <1>3. decided \in Rows /\ decided.id = r.id
    BY <1>2 DEF Rows, Statuses
  <1>4. \A s \in others : s.id # r.id
    BY DEF TypeInv, IdsInv
  <1> HIDE DEF decided
  <1>5. decided \notin others
    BY <1>3, <1>4
  <1>6. IsFiniteSet(others) /\ Cardinality(others) = Cardinality(rows) - 1
    BY <1>2, FS_RemoveElement
  <1>7. IsFiniteSet(rows') /\ Cardinality(rows') = Cardinality(rows)
    <2>1. IsFiniteSet(rows') /\ Cardinality(rows') = Cardinality(others) + 1
      BY <1>1, <1>5, <1>6, FS_AddElement
    <2>2. Cardinality(rows) \in Nat
      BY <1>2, FS_CardinalityType
    <2> QED
      BY <1>6, <2>1, <2>2
  <1>8. Rows' = Rows
    BY <1>7 DEF Rows
  <1>9. rows' \subseteq Rows'
    BY <1>1, <1>2, <1>3, <1>8
  <1>10. IdsInv'
    BY <1>1, <1>3, <1>4 DEF TypeInv, IdsInv
  <1> QED
    BY <1>1, <1>7, <1>9, <1>10 DEF TypeInv, TypeOK

LEMMA NextTyped == TypeInv /\ [Next]_vars => TypeInv'
  <1> SUFFICES ASSUME TypeInv, [Next]_vars PROVE TypeInv'
    OBVIOUS
  <1>1. CASE UNCHANGED <<world, rows, pc, gen, reply>> /\ report' \in [Objects -> Reports]
    BY <1>1 DEF TypeInv, TypeOK, IdsInv, Rows
  <1>2. CASE Drift
    <2>1. report' \in [Objects -> Reports]
      BY <1>2, ProposalsAssumption DEF Drift, TypeInv, TypeOK
    <2> QED
      BY <1>1, <1>2, <2>1 DEF Drift
  <1>3. CASE UNCHANGED vars
    BY <1>1, <1>3 DEF vars, TypeInv, TypeOK
  <1>4. ASSUME NEW g \in Generators, Generate(g) PROVE TypeInv'
    BY <1>4, GenerateTyped, ListTyped, MetricsTyped, DailyTyped, EndTyped, PlanTyped,
       SelectTyped, InsertTyped DEF Generate
  <1> QED
    BY <1>2, <1>3, <1>4, DecisionTyped DEF Next

THEOREM ProposalsTypeCorrect == Spec => []TypeOK
  <1>1. TypeInv => TypeOK
    BY DEF TypeInv
  <1> QED
    BY <1>1, InitTyped, NextTyped, PTL DEF Spec
-----------------------------------------------------------------------------
(* What is stored: sound advice, the most urgent first. *)

\* An object is left alone only when no rule wants it changed, for any account,
\* any figures and any goal.
THEOREM EngineActsFirst == Spec => []ActionOutranksKeep
  <1>1. TypeInv => ActionOutranksKeep
    <2> SUFFICES ASSUME TypeInv, NEW g \in Generators,
                        NEW sorted \in BySpend(gen[g].analyses), NEW i \in DOMAIN sorted
                 PROVE  LET in == InputsOf(gen[g], sorted)[i] IN
                        ~Acts(Optimize(in)) => \A j \in DOMAIN Fired(in) : ~Acts(Fired(in)[j])
      BY DEF ActionOutranksKeep
    <2> DEFINE in == InputsOf(gen[g], sorted)[i]
    <2>1. /\ InputsOf(gen[g], sorted) \in Seq(Inputs)
          /\ DOMAIN InputsOf(gen[g], sorted) = DOMAIN sorted
      BY RequestTyped, InputsGiven
    <2>2. in \in Inputs
      BY <2>1
    <2> HIDE DEF in
    <2>3. ~Acts(Optimize(in)) => \A j \in DOMAIN Fired(in) : ~Acts(Fired(in)[j])
      BY <2>2, EngineAdvises
    <2> QED
      BY <2>3 DEF in
  <1> QED
    BY <1>1, InitTyped, NextTyped, PTL DEF Spec

Analysing == {"list", "metrics", "daily", "plan"}
Storing == {"select", "insert"}

\* What is stored and what is to be stored is sound; it is stored in order.
AdviceInv ==
    /\ \A r \in rows : Sound(r)
    /\ \A g \in Generators :
         /\ gen[g].plan \in Seq(Plans)
         /\ pc[g] \in Storing => InOrder(gen[g].plan)

\* A request stores nothing before it has its plan.
RunsInv ==
    \A r \in rows :
      /\ r.run <= gen[r.by].run
      /\ pc[r.by] \in Analysing => r.run < gen[r.by].run

UrgentInv == TypeInv /\ AdviceInv /\ RunsInv /\ UrgentFirst

LEMMA InitUrgent == Init => UrgentInv
  <1> SUFFICES ASSUME Init PROVE UrgentInv
    OBVIOUS
  <1>1. TypeInv
    BY InitTyped
  <1>2. rows = {} /\ \A g \in Generators : pc[g] = "idle" /\ gen[g].plan = <<>>
    BY DEF Init, Idle
  <1>3. <<>> \in Seq(Plans)
    OBVIOUS
  <1> QED
    BY <1>1, <1>2, <1>3 DEF UrgentInv, AdviceInv, RunsInv, UrgentFirst, Storing

\* What a request does with its plan: it drops it, makes it, or takes its head.
LEMMA PlanSteps ==
    ASSUME TypeInv, NEW g \in Generators, Generate(g)
    PROVE  /\ \A h \in Generators \ {g} : pc'[h] = pc[h] /\ gen'[h] = gen[h]
           /\ \/ /\ rows' = rows /\ pc'[g] = "list"
                 /\ gen'[g].run = gen[g].run + 1 /\ gen'[g].plan = <<>>
              \/ /\ rows' = rows /\ pc'[g] \in {"metrics", "daily", "plan"} /\ pc[g] \in Analysing
                 /\ gen'[g].run = gen[g].run /\ gen'[g].plan = gen[g].plan
              \/ rows' = rows /\ pc'[g] = "idle" /\ gen'[g] = gen[g]
              \/ Plan(g)
              \/ SelectExisting(g) \/ InsertProposal(g)
  <1> DEFINE A == Seq(Analyses)
             P == Seq(Decisions)
             L == Seq(Listed)
  <1>1. Requests = [run : Nat, level : {"CAMPAIGN", "ADSET"}, goal : Goals,
                    preset : DatePresets, left : L, figures : Figures, analyses : A, plan : P]
    BY DEF Requests, Listed
  <1>2. pc \in [Generators -> Positions] /\ gen \in [Generators -> Requests]
    BY DEF TypeInv, TypeOK
  <1> HIDE DEF A, P, L
  <1>3. CASE GenerateOptimizationActions(g)
    BY <1>1, <1>2, <1>3 DEF GenerateOptimizationActions, Idle
  <1>4. CASE ListObjects(g)
    BY <1>1, <1>2, <1>4 DEF ListObjects, NextObject, Analysing
  <1>5. CASE FetchMetrics(g)
    BY <1>1, <1>2, <1>5 DEF FetchMetrics, Analysing
  <1>6. CASE FetchDaily(g)
    BY <1>1, <1>2, <1>6 DEF FetchDaily, NextObject, Analysing
  <1>7. CASE MetaFails(g) \/ DatabaseFails(g) \/ Answer(g)
    BY <1>2, <1>7 DEF MetaFails, DatabaseFails, Answer
  <1>8. CASE Plan(g)
    BY <1>2, <1>8 DEF Plan
  <1>9. CASE SelectExisting(g)
    BY <1>2, <1>9 DEF SelectExisting
  <1>10. CASE InsertProposal(g)
    BY <1>2, <1>10 DEF InsertProposal
  <1> QED
    BY <1>3, <1>4, <1>5, <1>6, <1>7, <1>8, <1>9, <1>10 DEF Generate

LEMMA UrgencyNat ==
    ASSUME NEW action
    PROVE  actionUrgency(action) \in Nat
  BY DEF actionUrgency

\* The tail of a plan in order is one, and not more urgent than the head.
LEMMA TailInOrder ==
    ASSUME NEW plan \in Seq(Plans), plan # <<>>, InOrder(plan)
    PROVE  /\ Tail(plan) \in Seq(Plans) /\ InOrder(Tail(plan))
           /\ plan[1] \in Plans
           /\ \A i \in DOMAIN Tail(plan) :
                /\ i + 1 \in DOMAIN plan /\ Tail(plan)[i] = plan[i + 1]
                /\ actionUrgency(plan[1].action) <= actionUrgency(Tail(plan)[i].action)
  <1>1. /\ Tail(plan) \in Seq(Plans) /\ plan[1] \in Plans /\ 1 \in DOMAIN plan
        /\ \A i \in DOMAIN Tail(plan) :
             i \in Nat \ {0} /\ i + 1 \in DOMAIN plan /\ Tail(plan)[i] = plan[i + 1]
    OBVIOUS
  <1>2. InOrder(Tail(plan))
    <2> SUFFICES ASSUME NEW k \in DOMAIN Tail(plan), NEW l \in DOMAIN Tail(plan), k <= l
                 PROVE  actionUrgency(Tail(plan)[k].action) <= actionUrgency(Tail(plan)[l].action)
      BY DEF InOrder
    <2>1. k + 1 <= l + 1
      BY <1>1
    <2> QED
      BY <1>1, <2>1 DEF InOrder
  <1>3. \A i \in DOMAIN Tail(plan) :
          actionUrgency(plan[1].action) <= actionUrgency(Tail(plan)[i].action)
    <2> SUFFICES ASSUME NEW i \in DOMAIN Tail(plan)
                 PROVE  actionUrgency(plan[1].action) <= actionUrgency(Tail(plan)[i].action)
      OBVIOUS
    <2>1. 1 <= i + 1
      BY <1>1
    <2> QED
      BY <1>1, <2>1 DEF InOrder
  <1> QED
    BY <1>1, <1>2, <1>3

\* A step that leaves the table alone and gives a request the plan it had, a part
\* of it, or none.
LEMMA UrgentStep ==
    ASSUME UrgentInv, TypeInv', NEW g \in Generators, rows' = rows,
           \A h \in Generators \ {g} : pc'[h] = pc[h] /\ gen'[h] = gen[h],
           gen'[g].plan \in Seq(Plans),
           pc'[g] \in Storing => InOrder(gen'[g].plan),
           \A r \in rows : r.by = g => /\ r.run <= gen'[g].run
                                       /\ pc'[g] \in Analysing => r.run < gen'[g].run,
           pc'[g] \in Storing =>
             \A r \in rows, i \in DOMAIN gen'[g].plan :
               r.by = g /\ r.run = gen'[g].run
                 => actionUrgency(r.action) <= actionUrgency(gen'[g].plan[i].action)
    PROVE  UrgentInv'
  <1>1. AdviceInv'
    BY DEF UrgentInv, AdviceInv
  <1>2. \A r \in rows : r.by \in Generators
    BY DEF UrgentInv, TypeInv, TypeOK, Rows
  <1>3. RunsInv'
    BY <1>2 DEF UrgentInv, RunsInv
  <1>4. UrgentFirst'
    BY DEF UrgentInv, UrgentFirst, Storing
  <1> QED
    BY <1>1, <1>3, <1>4 DEF UrgentInv

LEMMA PlanUrgent ==
    ASSUME UrgentInv, TypeInv', NEW g \in Generators, Plan(g),
           \A h \in Generators \ {g} : pc'[h] = pc[h] /\ gen'[h] = gen[h]
    PROVE  UrgentInv'
  <1>0. PICK sorted \in BySpend(gen[g].analyses) :
          LET decisions == OptimizeReport(InputsOf(gen[g], sorted))
              acting == {i \in DOMAIN decisions : Acts(decisions[i])}
          IN  gen' = [gen EXCEPT ![g].plan = Subsequence(decisions, acting),
                                 ![g].analyses = <<>>]
    BY DEF Plan
  <1> DEFINE decisions == OptimizeReport(InputsOf(gen[g], sorted))
             acting == {i \in DOMAIN decisions : Acts(decisions[i])}
             plan == Subsequence(decisions, acting)
  <1>1. gen[g] \in Requests /\ pc \in [Generators -> Positions] /\ gen \in [Generators -> Requests]
    BY DEF UrgentInv, TypeInv, TypeOK
  <1>2. plan \in Seq(Plans) /\ InOrder(plan)
    BY <1>1, PlanMade
  <1>3. /\ rows' = rows /\ pc[g] = "plan" /\ pc'[g] = "select"
        /\ gen' = [gen EXCEPT ![g].plan = plan, ![g].analyses = <<>>]
    BY <1>0, <1>1 DEF Plan
  <1> HIDE DEF plan
  <1>4. gen'[g].plan = plan /\ gen'[g].run = gen[g].run
    <2> DEFINE A == Seq(Analyses)
               P == Seq(Decisions)
               L == Seq(Listed)
    <2>1. Requests = [run : Nat, level : {"CAMPAIGN", "ADSET"}, goal : Goals,
                      preset : DatePresets, left : L, figures : Figures, analyses : A, plan : P]
      BY DEF Requests, Listed
    <2> HIDE DEF A, P, L
    <2> QED
      BY <1>1, <1>3, <2>1
  <1>5. \A r \in rows : r.by = g => r.run < gen[g].run /\ r.run \in Nat
    BY <1>3 DEF UrgentInv, RunsInv, TypeInv, TypeOK, Rows, Analysing
  <1>6. gen[g].run \in Nat
    BY <1>1, RequestTyped DEF UrgentInv
  <1>7. \A r \in rows : r.by = g => r.run # gen'[g].run /\ r.run <= gen'[g].run
    BY <1>4, <1>5, <1>6
  <1> QED
    BY <1>2, <1>3, <1>4, <1>7, UrgentStep DEF Analysing

LEMMA SelectUrgent ==
    ASSUME UrgentInv, TypeInv', NEW g \in Generators, SelectExisting(g),
           \A h \in Generators \ {g} : pc'[h] = pc[h] /\ gen'[h] = gen[h]
    PROVE  UrgentInv'
  <1> DEFINE plan == gen[g].plan
  <1>1. /\ gen[g] \in Requests /\ pc \in [Generators -> Positions]
        /\ gen \in [Generators -> Requests]
    BY DEF UrgentInv, TypeInv, TypeOK
  <1>2. /\ rows' = rows /\ pc[g] = "select" /\ pc'[g] \in Storing /\ plan # <<>>
        /\ \/ gen' = [gen EXCEPT ![g].plan = Tail(@)]
           \/ gen' = gen
    BY <1>1 DEF SelectExisting, Storing
  <1>3. gen'[g].run = gen[g].run /\ gen'[g].plan \in {plan, Tail(plan)}
    <2> DEFINE A == Seq(Analyses)
               P == Seq(Decisions)
               L == Seq(Listed)
    <2>1. Requests = [run : Nat, level : {"CAMPAIGN", "ADSET"}, goal : Goals,
                      preset : DatePresets, left : L, figures : Figures, analyses : A, plan : P]
      BY DEF Requests, Listed
    <2> HIDE DEF A, P, L
    <2> QED
      BY <1>1, <1>2, <2>1
  <1>4. plan \in Seq(Plans) /\ InOrder(plan)
    BY <1>2 DEF UrgentInv, AdviceInv, Storing
  <1>5. /\ Tail(plan) \in Seq(Plans) /\ InOrder(Tail(plan))
        /\ \A i \in DOMAIN Tail(plan) : i + 1 \in DOMAIN plan /\ Tail(plan)[i] = plan[i + 1]
    BY <1>2, <1>4, TailInOrder
  <1>6. \A r \in rows, i \in DOMAIN plan : r.by = g /\ r.run = gen[g].run
          => actionUrgency(r.action) <= actionUrgency(plan[i].action)
    BY <1>2 DEF UrgentInv, UrgentFirst
  <1>7. \A r \in rows, i \in DOMAIN gen'[g].plan : r.by = g /\ r.run = gen'[g].run
          => actionUrgency(r.action) <= actionUrgency(gen'[g].plan[i].action)
    <2>1. CASE gen'[g].plan = plan
      BY <1>3, <1>6, <2>1
    <2>2. CASE gen'[g].plan = Tail(plan)
      BY <1>3, <1>5, <1>6, <2>2
    <2> QED
      BY <1>3, <2>1, <2>2
  <1>8. \A r \in rows : r.by = g => r.run <= gen'[g].run
    BY <1>3 DEF UrgentInv, RunsInv
  <1>9. pc'[g] \notin Analysing
    BY <1>2 DEF Storing, Analysing
  <1> QED
    BY <1>2, <1>3, <1>4, <1>5, <1>7, <1>8, <1>9, UrgentStep

LEMMA InsertUrgent ==
    ASSUME UrgentInv, TypeInv', NEW g \in Generators, InsertProposal(g),
           \A h \in Generators \ {g} : pc'[h] = pc[h] /\ gen'[h] = gen[h]
    PROVE  UrgentInv'
  <1> DEFINE plan == gen[g].plan
             new == Proposal(g, plan[1])
  <1>1. /\ gen[g] \in Requests /\ pc \in [Generators -> Positions]
        /\ gen \in [Generators -> Requests]
    BY DEF UrgentInv, TypeInv, TypeOK
  <1>2. /\ rows' = rows \cup {new} /\ pc[g] = "insert" /\ pc'[g] = "select"
        /\ gen' = [gen EXCEPT ![g].plan = Tail(@)]
    BY <1>1 DEF InsertProposal
  <1>3. gen'[g].run = gen[g].run /\ gen'[g].plan = Tail(plan) /\ gen[g].run \in Nat
    <2> DEFINE A == Seq(Analyses)
               P == Seq(Decisions)
               L == Seq(Listed)
    <2>1. Requests = [run : Nat, level : {"CAMPAIGN", "ADSET"}, goal : Goals,
                      preset : DatePresets, left : L, figures : Figures, analyses : A, plan : P]
      BY DEF Requests, Listed
    <2> HIDE DEF A, P, L
    <2> QED
      BY <1>1, <1>2, <2>1
  <1>4. plan \in Seq(Plans) /\ InOrder(plan) /\ plan # <<>>
    BY <1>2 DEF UrgentInv, AdviceInv, Storing, TypeInv, TypeOK
  <1>5. /\ Tail(plan) \in Seq(Plans) /\ InOrder(Tail(plan)) /\ plan[1] \in Plans
        /\ \A i \in DOMAIN Tail(plan) :
             /\ i + 1 \in DOMAIN plan /\ Tail(plan)[i] = plan[i + 1]
             /\ actionUrgency(plan[1].action) <= actionUrgency(Tail(plan)[i].action)
    BY <1>4, TailInOrder
  <1>6. /\ new.by = g /\ new.run = gen[g].run /\ new.action = plan[1].action
        /\ new.type = plan[1].type /\ new.pct = plan[1].pct
        /\ new.confidence = plan[1].confidence
    BY DEF Proposal
  <1> HIDE DEF new
  <1>7. Sound(new)
    BY <1>5, <1>6 DEF Plans, Sound, Acts
  <1>8. AdviceInv'
    BY <1>2, <1>3, <1>5, <1>7 DEF UrgentInv, AdviceInv
  <1>9. \A r \in rows : r.by \in Generators
    BY DEF UrgentInv, TypeInv, TypeOK, Rows
  <1>10. RunsInv'
    BY <1>2, <1>3, <1>6, <1>9 DEF UrgentInv, RunsInv, Analysing
  <1>11. UrgentFirst'
    <2> SUFFICES ASSUME NEW h \in Generators, pc'[h] \in {"select", "insert"},
                        NEW r \in rows', NEW i \in DOMAIN gen'[h].plan,
                        r.by = h, r.run = gen'[h].run
                 PROVE  actionUrgency(r.action) <= actionUrgency(gen'[h].plan[i].action)
      BY DEF UrgentFirst
    <2>1. CASE h # g
      BY <1>2, <1>6, <2>1 DEF UrgentInv, UrgentFirst
    <2>2. CASE h = g /\ r \in rows
      BY <1>2, <1>3, <1>5, <2>2 DEF UrgentInv, UrgentFirst
    <2>3. CASE h = g /\ r = new
      BY <1>3, <1>5, <1>6, <2>3
    <2> QED
      BY <1>2, <2>1, <2>2, <2>3
  <1> QED
    BY <1>8, <1>10, <1>11 DEF UrgentInv

LEMMA GenerateUrgent ==
    ASSUME UrgentInv, TypeInv', NEW g \in Generators, Generate(g)
    PROVE  UrgentInv'
  <1> DEFINE others == \A h \in Generators \ {g} : pc'[h] = pc[h] /\ gen'[h] = gen[h]
  <1>1. /\ others
        /\ \/ /\ rows' = rows /\ pc'[g] = "list"
              /\ gen'[g].run = gen[g].run + 1 /\ gen'[g].plan = <<>>
           \/ /\ rows' = rows /\ pc'[g] \in {"metrics", "daily", "plan"} /\ pc[g] \in Analysing
              /\ gen'[g].run = gen[g].run /\ gen'[g].plan = gen[g].plan
           \/ rows' = rows /\ pc'[g] = "idle" /\ gen'[g] = gen[g]
           \/ Plan(g)
           \/ SelectExisting(g) \/ InsertProposal(g)
    BY PlanSteps DEF UrgentInv
  <1>2. gen[g].plan \in Seq(Plans) /\ <<>> \in Seq(Plans)
    BY DEF UrgentInv, AdviceInv
  <1>3. gen[g].run \in Nat
    BY RequestTyped DEF UrgentInv
  <1>4. \A r \in rows : r.by = g =>
          /\ r.run \in Nat /\ r.run <= gen[g].run
          /\ pc[g] \in Analysing => r.run < gen[g].run
    BY DEF UrgentInv, RunsInv, TypeInv, TypeOK, Rows
  <1>5. CASE /\ rows' = rows /\ pc'[g] = "list"
             /\ gen'[g].run = gen[g].run + 1 /\ gen'[g].plan = <<>>
    <2>1. \A r \in rows : r.by = g => r.run <= gen'[g].run /\ r.run < gen'[g].run
      BY <1>3, <1>4, <1>5
    <2> QED
      BY <1>1, <1>2, <1>5, <2>1, UrgentStep DEF Storing
  <1>6. CASE /\ rows' = rows /\ pc'[g] \in {"metrics", "daily", "plan"} /\ pc[g] \in Analysing
             /\ gen'[g].run = gen[g].run /\ gen'[g].plan = gen[g].plan
    BY <1>1, <1>2, <1>4, <1>6, UrgentStep DEF Storing
  <1>7. CASE rows' = rows /\ pc'[g] = "idle" /\ gen'[g] = gen[g]
    BY <1>1, <1>2, <1>4, <1>7, UrgentStep DEF Storing, Analysing
  <1> QED
    BY <1>1, <1>5, <1>6, <1>7, PlanUrgent, SelectUrgent, InsertUrgent

LEMMA DecisionUrgent ==
    ASSUME UrgentInv, TypeInv', NEW r \in rows, NEW decision \in {"APPROVED", "REJECTED"},
           decideOptimizationAction(r, decision)
    PROVE  UrgentInv'
  <1> DEFINE decided == [r EXCEPT !.status = decision]
  <1>1. rows' = (rows \ {r}) \cup {decided} /\ UNCHANGED <<pc, gen>>
    BY DEF decideOptimizationAction
  <1>2. r \in Rows
    BY DEF UrgentInv, TypeInv, TypeOK
  <1>3. /\ decided.by = r.by /\ decided.run = r.run /\ decided.action = r.action
        /\ decided.type = r.type /\ decided.pct = r.pct /\ decided.confidence = r.confidence
    BY <1>2 DEF Rows
  <1> HIDE DEF decided
  <1>4. AdviceInv'
    BY <1>1, <1>3 DEF UrgentInv, AdviceInv, Sound, Acts
  <1>5. RunsInv'
    BY <1>1, <1>3 DEF UrgentInv, RunsInv
  <1>6. UrgentFirst'
    BY <1>1, <1>3 DEF UrgentInv, UrgentFirst
  <1> QED
    BY <1>4, <1>5, <1>6 DEF UrgentInv

LEMMA NextUrgent == UrgentInv /\ [Next]_vars => UrgentInv'
  <1> SUFFICES ASSUME UrgentInv, [Next]_vars PROVE UrgentInv'
    OBVIOUS
  <1>1. TypeInv'
    BY NextTyped DEF UrgentInv
  <1>2. CASE UNCHANGED <<rows, pc, gen>>
    BY <1>1, <1>2 DEF UrgentInv, AdviceInv, RunsInv, UrgentFirst
  <1> QED
    BY <1>1, <1>2, GenerateUrgent, DecisionUrgent DEF Next, Drift, vars

\* Whatever a request has stored when it fails, nothing more urgent is left out.
THEOREM StoredInOrder == Spec => []UrgentFirst
  <1>1. UrgentInv => UrgentFirst
    BY DEF UrgentInv
  <1> QED
    BY <1>1, InitUrgent, NextUrgent, PTL DEF Spec

\* With limits no lower than the shipped ones, the executor grants every stored
\* percentage as it was approved, whatever Meta reports and people decide.
THEOREM ProposedWithinPolicy ==
    ASSUME MaxIncreasePct >= 20, MaxDecreasePct >= 30
    PROVE  Spec => []ApprovedAsWritten
  <1>1. UrgentInv => ApprovedAsWritten
    <2> SUFFICES ASSUME UrgentInv, NEW r \in rows
                 PROVE  /\ r.action \in BudgetActions
                             => /\ ClampedPct(r.action, r.pct) = r.pct
                                /\ r.pct # 0 /\ (r.action = "INCREASE_BUDGET" <=> r.pct > 0)
                        /\ r.action \in PauseActions => r.action = PauseActionFor(r.type)
      BY DEF ApprovedAsWritten
    <2>1. Sound(r)
      BY DEF UrgentInv, AdviceInv
    <2> QED
      BY <2>1, PolicyAssumption DEF Sound, BudgetActions, ClampedPct
  <1> QED
    BY <1>1, InitUrgent, NextUrgent, PTL DEF Spec
-----------------------------------------------------------------------------
(* Repeated proposals. *)

\* Tables of locals keep their domain; a row has a status.
ShapeInv ==
    /\ pc \in [Generators -> Positions]
    /\ DOMAIN gen = Generators
    /\ \A r \in rows : "status" \in DOMAIN r

\* Requests take turns unless they may overlap.
TurnsInv ==
    ~Fault("overlap") =>
      \A g, h \in Generators : pc[g] # "idle" /\ pc[h] # "idle" => g = h

\* Between its look and its INSERT a request is overtaken only by others.
InsertInv ==
    \A g \in Generators : pc[g] = "insert" =>
      \A r \in rows : Twin(r, UserOf[g], gen[g].plan[1]) => Fault("overlap") /\ r.by # g

RepeatInv == ShapeInv /\ TurnsInv /\ InsertInv /\ NoRepeat

LEMMA InitRepeat == Init => RepeatInv
  BY DEF Init, RepeatInv, ShapeInv, TurnsInv, InsertInv, NoRepeat, Positions

\* What a request does to its own locals.
LEMMA OwnLocals ==
    ASSUME RepeatInv, NEW g \in Generators, Generate(g)
    PROVE  /\ world' = world
           /\ pc' \in [Generators -> Positions] /\ DOMAIN gen' = Generators
           /\ \A h \in Generators \ {g} : pc'[h] = pc[h] /\ gen'[h] = gen[h]
           /\ pc[g] = "idle" /\ ~Fault("overlap") => \A h \in Generators : pc[h] = "idle"
  <1> USE DEF RepeatInv, ShapeInv, Positions
  <1>1. CASE GenerateOptimizationActions(g)
    BY <1>1 DEF GenerateOptimizationActions
  <1>2. CASE ListObjects(g) \/ FetchMetrics(g)
    BY <1>2 DEF ListObjects, FetchMetrics, NextObject
  <1>3. CASE FetchDaily(g)
    BY <1>3 DEF FetchDaily, NextObject
  <1>4. CASE MetaFails(g) \/ DatabaseFails(g) \/ Answer(g)
    BY <1>4 DEF MetaFails, DatabaseFails, Answer
  <1>5. CASE Plan(g) \/ SelectExisting(g) \/ InsertProposal(g)
    BY <1>5 DEF Plan, SelectExisting, InsertProposal
  <1> QED
    BY <1>1, <1>2, <1>3, <1>4, <1>5 DEF Generate

LEMMA TurnsKept ==
    ASSUME RepeatInv, NEW g \in Generators, Generate(g)
    PROVE  TurnsInv'
  <1> SUFFICES ASSUME ~Fault("overlap")',
                      NEW x \in Generators, NEW y \in Generators,
                      pc'[x] # "idle", pc'[y] # "idle"
               PROVE  x = y
    BY DEF TurnsInv
  <1>1. ~Fault("overlap")
    BY OwnLocals DEF Fault
  <1> QED
    BY <1>1, OwnLocals DEF RepeatInv, TurnsInv

\* Every step but the look and the INSERT leaves the rows and the plans of those
\* about to insert alone.
LEMMA OtherSteps ==
    ASSUME RepeatInv, NEW g \in Generators, Generate(g),
           ~SelectExisting(g), ~InsertProposal(g)
    PROVE  rows' = rows /\ pc'[g] # "insert"
  <1> USE DEF RepeatInv, ShapeInv
  <1> QED
    BY DEF Generate, GenerateOptimizationActions, ListObjects, FetchMetrics, FetchDaily,
       MetaFails, Plan, DatabaseFails, Answer, NextObject

LEMMA GenerateKeeps ==
    ASSUME RepeatInv, NEW g \in Generators, Generate(g)
    PROVE  RepeatInv'
  <1> USE DEF RepeatInv
  <1>1. /\ world' = world
        /\ pc' \in [Generators -> Positions] /\ DOMAIN gen' = Generators
        /\ \A h \in Generators \ {g} : pc'[h] = pc[h] /\ gen'[h] = gen[h]
    BY OwnLocals
  <1>2. TurnsInv'
    BY TurnsKept
  <1>3. CASE ~SelectExisting(g) /\ ~InsertProposal(g)
    <2>1. rows' = rows /\ pc'[g] # "insert"
      BY <1>3, OtherSteps
    <2>2. InsertInv'
      BY <1>1, <2>1 DEF InsertInv, Fault
    <2>3. NoRepeat' /\ ShapeInv'
      BY <1>1, <2>1 DEF NoRepeat, ShapeInv, Fault
    <2> QED
      BY <1>2, <2>2, <2>3
  <1>4. CASE SelectExisting(g)
    <2>1. rows' = rows
      BY <1>4 DEF SelectExisting
    <2>2. pc'[g] = "insert" =>
            /\ gen'[g] = gen[g]
            /\ \A r \in rows : ~Twin(r, UserOf[g], gen[g].plan[1])
      BY <1>4 DEF SelectExisting, ShapeInv
    <2>3. InsertInv'
      BY <1>1, <2>1, <2>2 DEF InsertInv, Fault
    <2>4. NoRepeat' /\ ShapeInv'
      BY <1>1, <2>1 DEF NoRepeat, ShapeInv, Fault
    <2> QED
      BY <1>2, <2>3, <2>4
  <1>5. CASE InsertProposal(g)
    <2> DEFINE d == gen[g].plan[1]
               new == Proposal(g, d)
    <2>1. rows' = rows \cup {new} /\ pc[g] = "insert" /\ pc'[g] = "select"
      BY <1>5 DEF InsertProposal, ShapeInv
    <2>2. /\ new.user = UserOf[g] /\ new.object = d.object /\ new.action = d.action
          /\ new.by = g /\ "status" \in DOMAIN new
      BY DEF Proposal
    <2>3. \A r \in rows : Twin(r, UserOf[g], d) => Fault("overlap") /\ r.by # g
      BY <2>1 DEF InsertInv
    <2> HIDE DEF d, new
    <2>4. ShapeInv'
      BY <1>1, <2>1, <2>2 DEF ShapeInv
    <2>5. InsertInv'
      <3> SUFFICES ASSUME NEW h \in Generators, pc'[h] = "insert", NEW r \in rows',
                          Twin(r, UserOf[h], gen'[h].plan[1])
                   PROVE  Fault("overlap")' /\ r.by # h
        BY DEF InsertInv, Twin
      <3>1. h # g /\ pc[h] = "insert" /\ gen'[h] = gen[h]
        BY <1>1, <2>1
      <3>2. Fault("overlap")
        BY <2>1, <3>1 DEF TurnsInv
      <3> QED
        BY <1>1, <2>1, <2>2, <3>1, <3>2 DEF InsertInv, Fault
    <2>6. NoRepeat'
      BY <1>1, <2>1, <2>2, <2>3 DEF NoRepeat, SameProposal, Twin, Fault
    <2> QED
      BY <1>2, <2>4, <2>5, <2>6
  <1> QED
    BY <1>3, <1>4, <1>5

\* A decision takes a row out of the pending ones, for good.
LEMMA DecisionKeeps ==
    ASSUME RepeatInv, NEW r \in rows, NEW decision \in {"APPROVED", "REJECTED"},
           decideOptimizationAction(r, decision)
    PROVE  RepeatInv'
  <1> DEFINE decided == [r EXCEPT !.status = decision]
  <1> USE DEF RepeatInv
  <1>1. /\ rows' = (rows \ {r}) \cup {decided}
        /\ UNCHANGED <<world, pc, gen>>
    BY DEF decideOptimizationAction
  <1>2. decided.status # "PENDING" /\ "status" \in DOMAIN decided
    BY DEF ShapeInv
  <1> HIDE DEF decided
  <1>3. ShapeInv' /\ TurnsInv'
    BY <1>1, <1>2 DEF ShapeInv, TurnsInv, Fault
  <1>4. InsertInv'
    BY <1>1, <1>2 DEF InsertInv, Twin, Fault
  <1>5. NoRepeat'
    BY <1>1, <1>2 DEF NoRepeat, SameProposal, Fault
  <1> QED
    BY <1>3, <1>4, <1>5

LEMMA NextRepeat == RepeatInv /\ [Next]_vars => RepeatInv'
  <1> SUFFICES ASSUME RepeatInv, [Next]_vars PROVE RepeatInv'
    OBVIOUS
  <1>1. CASE UNCHANGED <<world, rows, pc, gen>>
    BY <1>1 DEF RepeatInv, ShapeInv, TurnsInv, InsertInv, NoRepeat, Twin, SameProposal, Fault
  <1> QED
    BY <1>1, GenerateKeeps, DecisionKeeps DEF Next, Drift, vars

\* For any account, any rules and any number of requests and failures, an
\* identical proposal is pending twice only if two requests overlapped, and then
\* each of them stored one.
THEOREM PendingOnce == Spec => []NoRepeat
  <1>1. RepeatInv => NoRepeat
    BY DEF RepeatInv
  <1> QED
    BY <1>1, InitRepeat, NextRepeat, PTL DEF Spec
-----------------------------------------------------------------------------
(* Spending less: scores and verdicts are monotone. *)

\* The greater ratio has the greater quotient.
LEMMA QuotientMonotone ==
    ASSUME NEW a \in Nat, NEW d \in Nat \ {0}, NEW b \in Nat, NEW e \in Nat \ {0},
           a * e <= b * d
    PROVE  /\ a \div d \in Nat /\ b \div e \in Nat
           /\ a \div d <= b \div e
  <1> DEFINE q == a \div d
             r == a % d
  <1>1. a = d * q + r /\ r \in 0..(d - 1) /\ q \in Nat
    <2>1. a = d * q + r /\ r \in 0..(d - 1)
      OBVIOUS
    <2>2. a >= 0 * d
      OBVIOUS
    <2>3. q \in Nat
      BY <2>2, QuotientAtLeast
    <2> QED
      BY <2>1, <2>3
  <1> HIDE DEF q, r
  <1>2. (q * e) * d <= b * d
    <2>1. a * e = (q * e) * d + r * e
      BY <1>1
    <2>2. r * e \in Nat /\ (q * e) * d \in Nat /\ b * d \in Nat
      <3>1. r \in Nat /\ e \in Nat /\ q * e \in Nat
        BY <1>1, ProductNat
      <3> QED
        BY <3>1, ProductNat
    <2> QED
      BY <2>1, <2>2
  <1>3. q * e \in Nat
    BY <1>1, ProductNat
  <1>4. q * e <= b
    BY <1>2, <1>3, Cancel
  <1>5. b \div e \in Nat /\ b \div e >= q
    BY <1>1, <1>4, QuotientAtLeast
  <1> QED
    BY <1>1, <1>5 DEF q

\* The two ways the code makes a whole number of a ratio keep the order of ratios.
LEMMA TruncMonotone ==
    ASSUME NEW a \in Int, NEW d \in Nat \ {0}, NEW b \in Int, NEW e \in Nat \ {0},
           a * e <= b * d
    PROVE  Trunc(a, d) \in Int /\ Trunc(b, e) \in Int /\ Trunc(a, d) <= Trunc(b, e)
  <1>1. CASE a >= 0 /\ b >= 0
    <2>1. a \in Nat /\ b \in Nat
      BY <1>1
    <2>2. Trunc(a, d) = a \div d /\ Trunc(b, e) = b \div e
      BY <1>1 DEF Trunc
    <2>3. a \div d \in Nat /\ b \div e \in Nat /\ a \div d <= b \div e
      BY <2>1, QuotientMonotone
    <2> QED
      BY <2>2, <2>3
  <1>2. CASE a < 0 /\ b >= 0
    <2>1. -a \in Nat /\ b \in Nat /\ -a >= 0 * d /\ b >= 0 * e
      BY <1>2
    <2>2. (-a) \div d \in Nat /\ b \div e \in Nat
      BY <2>1, QuotientAtLeast
    <2>3. Trunc(a, d) = -((-a) \div d) /\ Trunc(b, e) = b \div e
      BY <1>2 DEF Trunc
    <2> DEFINE p == (-a) \div d
               q == b \div e
    <2>4. p \in Nat /\ q \in Nat /\ Trunc(a, d) = -p /\ Trunc(b, e) = q
      BY <2>2, <2>3
    <2> HIDE DEF p, q
    <2> QED
      BY <2>4
  <1>3. CASE a < 0 /\ b < 0
    <2>1. -a \in Nat /\ -b \in Nat /\ (-b) * d <= (-a) * e
      BY <1>3
    <2>2. (-a) \div d \in Nat /\ (-b) \div e \in Nat /\ (-b) \div e <= (-a) \div d
      BY <2>1, QuotientMonotone
    <2>3. Trunc(a, d) = -((-a) \div d) /\ Trunc(b, e) = -((-b) \div e)
      BY <1>3 DEF Trunc
    <2> DEFINE p == (-a) \div d
               q == (-b) \div e
    <2>4. p \in Nat /\ q \in Nat /\ q <= p /\ Trunc(a, d) = -p /\ Trunc(b, e) = -q
      BY <2>2, <2>3
    <2> HIDE DEF p, q
    <2> QED
      BY <2>4
  <1>4. CASE a >= 0 /\ b < 0
    <2>1. a \in Nat /\ e \in Nat /\ -b - 1 \in Nat
      BY <1>4
    <2>2. a * e \in Nat /\ (-b - 1) * d \in Nat
      BY <2>1, ProductNat
    <2>3. b * d = -((-b - 1) * d) - d
      OBVIOUS
    <2> QED
      BY <2>2, <2>3
  <1> QED
    BY <1>1, <1>2, <1>3, <1>4

LEMMA RoundMonotone ==
    ASSUME NEW a \in Int, NEW d \in Nat \ {0}, NEW b \in Int, NEW e \in Nat \ {0},
           a * e <= b * d
    PROVE  Round(a, d) \in Int /\ Round(b, e) \in Int /\ Round(a, d) <= Round(b, e)
  <1>0. 2 * d \in Nat \ {0} /\ 2 * e \in Nat \ {0} /\ d * e \in Nat
    OBVIOUS
  <1>1. CASE a >= 0 /\ b >= 0
    <2>1. 2 * a + d \in Nat /\ 2 * b + e \in Nat
      BY <1>1
    <2>2. (2 * a + d) * (2 * e) <= (2 * b + e) * (2 * d)
      <3>1. (2 * a + d) * (2 * e) = 4 * (a * e) + 2 * (d * e)
        OBVIOUS
      <3>2. (2 * b + e) * (2 * d) = 4 * (b * d) + 2 * (d * e)
        OBVIOUS
      <3>3. a * e \in Int /\ b * d \in Int
        OBVIOUS
      <3> QED
        BY <1>0, <3>1, <3>2, <3>3
    <2> DEFINE p == (2 * a + d) \div (2 * d)
               q == (2 * b + e) \div (2 * e)
    <2>3. Round(a, d) = p /\ Round(b, e) = q
      BY <1>1 DEF Round
    <2>4. p \in Nat /\ q \in Nat /\ p <= q
      BY <1>0, <2>1, <2>2, QuotientMonotone
    <2> HIDE DEF p, q
    <2> QED
      BY <2>3, <2>4
  <1>2. CASE a < 0 /\ b >= 0
    <2>1. /\ d - 2 * a \in Nat /\ 2 * b + e \in Nat
          /\ d - 2 * a >= 0 * (2 * d) /\ 2 * b + e >= 0 * (2 * e)
      BY <1>2
    <2>2. (d - 2 * a) \div (2 * d) \in Nat /\ (2 * b + e) \div (2 * e) \in Nat
      BY <1>0, <2>1, QuotientAtLeast
    <2> DEFINE p == (d - 2 * a) \div (2 * d)
               q == (2 * b + e) \div (2 * e)
    <2>3. Round(a, d) = -p /\ Round(b, e) = q
      BY <1>2 DEF Round
    <2>4. p \in Nat /\ q \in Nat
      BY <2>2
    <2> HIDE DEF p, q
    <2> QED
      BY <2>3, <2>4
  <1>3. CASE a < 0 /\ b < 0
    <2>1. d - 2 * a \in Nat /\ e - 2 * b \in Nat
      BY <1>3
    <2>2. (e - 2 * b) * (2 * d) <= (d - 2 * a) * (2 * e)
      <3>1. (e - 2 * b) * (2 * d) = 2 * (d * e) - 4 * (b * d)
        OBVIOUS
      <3>2. (d - 2 * a) * (2 * e) = 2 * (d * e) - 4 * (a * e)
        OBVIOUS
      <3>3. a * e \in Int /\ b * d \in Int
        OBVIOUS
      <3> QED
        BY <1>0, <3>1, <3>2, <3>3
    <2>3. /\ (e - 2 * b) \div (2 * e) \in Nat /\ (d - 2 * a) \div (2 * d) \in Nat
          /\ (e - 2 * b) \div (2 * e) <= (d - 2 * a) \div (2 * d)
      BY <1>0, <2>1, <2>2, QuotientMonotone
    <2> DEFINE p == (d - 2 * a) \div (2 * d)
               q == (e - 2 * b) \div (2 * e)
    <2>4. Round(a, d) = -p /\ Round(b, e) = -q
      BY <1>3 DEF Round
    <2>5. p \in Nat /\ q \in Nat /\ q <= p
      BY <2>3
    <2> HIDE DEF p, q
    <2> QED
      BY <2>4, <2>5
  <1>4. CASE a >= 0 /\ b < 0
    <2>1. a \in Nat /\ e \in Nat /\ -b - 1 \in Nat
      BY <1>4
    <2>2. a * e \in Nat /\ (-b - 1) * d \in Nat
      BY <2>1, ProductNat
    <2>3. b * d = -((-b - 1) * d) - d
      OBVIOUS
    <2> QED
      BY <2>2, <2>3
  <1> QED
    BY <1>1, <1>2, <1>3, <1>4

LEMMA ClampMonotone ==
    ASSUME NEW x \in Int, NEW y \in Int, x <= y, NEW lo \in Int, NEW hi \in Int, lo <= hi
    PROVE  /\ Clamp(x, lo, hi) \in Int /\ Clamp(y, lo, hi) \in Int
           /\ Clamp(x, lo, hi) <= Clamp(y, lo, hi)
  BY DEF Clamp

\* A greater ratio is worth no fewer points; over a target of zero only the sign
\* counts, and there must be one.
LEMMA PointsMonotone ==
    ASSUME NEW k \in Nat, NEW n \in Int, NEW d \in Nat, NEW m \in Int, NEW e \in Nat,
           d = 0 <=> e = 0, d = 0 => n # 0 /\ m # 0 /\ n <= m, n * e <= m * d
    PROVE  Points(k, n, d) \in Int /\ Points(k, m, e) \in Int
           /\ Points(k, n, d) <= Points(k, m, e)
  <1>1. CASE d = 0
    BY <1>1 DEF Points
  <1>2. CASE d # 0
    <2>1. k * n \in Int /\ k * m \in Int /\ d \in Nat \ {0} /\ e \in Nat \ {0}
      BY <1>2
    <2>2. (k * n) * e <= (k * m) * d
      <3>1. (k * n) * e = k * (n * e) /\ (k * m) * d = k * (m * d)
        OBVIOUS
      <3>2. PICK c \in Nat : m * d = n * e + c
        <4>1. n * e \in Int /\ m * d \in Int
          OBVIOUS
        <4>2. m * d - n * e \in Nat /\ m * d = n * e + (m * d - n * e)
          BY <4>1
        <4> QED
          BY <4>2
      <3>3. k * (m * d) = k * (n * e) + k * c
        BY <3>2
      <3>4. k * c \in Nat /\ k * (n * e) \in Int
        BY <3>2, ProductNat
      <3> QED
        BY <3>1, <3>3, <3>4
    <2> DEFINE p == Trunc(k * n, d)
               q == Trunc(k * m, e)
    <2>3. p \in Int /\ q \in Int /\ p <= q
      BY <2>1, <2>2, TruncMonotone
    <2>4. Points(k, n, d) = Clamp(p, -k, k) /\ Points(k, m, e) = Clamp(q, -k, k)
      BY <1>2, <2>1 DEF Points
    <2> HIDE DEF p, q
    <2>5. -k \in Int /\ k \in Int /\ -k <= k
      OBVIOUS
    <2> QED
      BY <2>3, <2>4, <2>5, ClampMonotone
  <1> QED
    BY <1>1, <1>2

\* The same results for less money.
Cheaper(n, m) ==
    /\ n.spend \in 1..m.spend
    /\ \A f \in DOMAIN NoFigures \ {"spend"} : n[f] = m[f]

LEMMA CheaperFigures ==
    ASSUME NEW m \in Figures, NEW n \in Figures, Cheaper(n, m)
    PROVE  /\ n.spend \in Nat \ {0} /\ m.spend \in Nat \ {0} /\ n.spend <= m.spend
           /\ n.impressions = m.impressions /\ n.clicks = m.clicks /\ n.leads = m.leads
           /\ n.conversions = m.conversions /\ n.value = m.value
           /\ m.impressions \in Nat /\ m.clicks \in Nat /\ m.leads \in Nat
           /\ m.conversions \in Nat /\ m.value \in Nat
  <1>1. DOMAIN NoFigures = {"spend", "impressions", "reach", "clicks", "leads", "purchases",
                            "conversions", "value"}
    BY DEF NoFigures
  <1>2. n.spend \in Nat /\ m.spend \in Nat
    BY DEF Figures
  <1>3. n.spend >= 1 /\ n.spend <= m.spend
    BY <1>2 DEF Cheaper
  <1>4. /\ n.impressions = m.impressions /\ n.clicks = m.clicks /\ n.leads = m.leads
        /\ n.conversions = m.conversions /\ n.value = m.value
    BY <1>1 DEF Cheaper
  <1>5. /\ m.impressions \in Nat /\ m.clicks \in Nat /\ m.leads \in Nat
        /\ m.conversions \in Nat /\ m.value \in Nat
    BY DEF Figures
  <1> QED
    BY <1>2, <1>3, <1>4, <1>5

\* The greater share of a smaller amount.
LEMMA ShareMonotone ==
    ASSUME NEW x \in Nat, NEW d \in Nat, NEW e \in Nat, e <= d
    PROVE  x * e <= x * d
  <1>1. x * d = x * e + x * (d - e) /\ d - e \in Nat
    OBVIOUS
  <1>2. x * (d - e) \in Nat /\ x * e \in Nat
    BY <1>1, ProductNat
  <1> QED
    BY <1>1, <1>2

LEMMA ScoreMonotone ==
    ASSUME NEW m \in Figures, NEW n \in Figures, Cheaper(n, m), NEW goal \in Goals
    PROVE  ScorePerformance(n, goal) >= ScorePerformance(m, goal)
  <1>1. /\ n.spend \in Nat \ {0} /\ m.spend \in Nat \ {0} /\ n.spend <= m.spend
        /\ n.impressions = m.impressions /\ n.clicks = m.clicks /\ n.leads = m.leads
        /\ n.conversions = m.conversions /\ n.value = m.value
        /\ m.impressions \in Nat /\ m.clicks \in Nat /\ m.leads \in Nat
        /\ m.conversions \in Nat /\ m.value \in Nat
    BY CheaperFigures
  <1>2. goal.cpl \in Nat \cup {NoTarget} /\ goal.roas \in Nat \cup {NoTarget}
    BY DEF Goals
  <1>3. CTRPoints(n) = CTRPoints(m) /\ CVRPoints(n) = CVRPoints(m)
        /\ CTRPoints(m) \in Int /\ CVRPoints(m) \in Int
    <2>1. 100 * m.clicks - m.impressions \in Int /\ 50 * m.conversions - m.clicks \in Int
      BY <1>1
    <2>2. /\ Points(15, 100 * m.clicks - m.impressions, m.impressions) \in Int
          /\ Points(10, 50 * m.conversions - m.clicks, m.clicks) \in Int
      BY <1>1, <2>1, PointsInt
    <2> QED
      BY <1>1, <2>2 DEF CTRPoints, CVRPoints
  <1>4. NothingToShow(n) = NothingToShow(m) /\ NothingToShow(m) \in Int
    BY <1>1 DEF NothingToShow
  <1>5. CPCPoints(n) \in Int /\ CPCPoints(m) \in Int /\ CPCPoints(m) <= CPCPoints(n)
    <2> DEFINE c == m.clicks
               a == c - m.spend
               b == c - n.spend
    <2>1. a \in Int /\ b \in Int /\ c \in Nat /\ a <= b
      BY <1>1
    <2>2. CPCPoints(m) = (IF c > 0 THEN Points(10, a, c) ELSE 0)
          /\ CPCPoints(n) = (IF c > 0 THEN Points(10, b, c) ELSE 0)
      BY <1>1 DEF CPCPoints
    <2> HIDE DEF a, b, c
    <2>3. a * c <= b * c
      <3>1. b - a \in Nat /\ b * c = a * c + (b - a) * c
        BY <2>1
      <3>2. (b - a) * c \in Nat /\ a * c \in Int
        BY <2>1, <3>1, ProductNat
      <3> QED
        BY <3>1, <3>2
    <2>4. ASSUME c > 0
          PROVE  /\ Points(10, a, c) \in Int /\ Points(10, b, c) \in Int
                 /\ Points(10, a, c) <= Points(10, b, c)
      <3>1. c # 0
        BY <2>1, <2>4
      <3>2. c = 0 => a # 0 /\ b # 0 /\ a <= b
        BY <3>1
      <3> QED
        BY <2>1, <2>3, <3>2, PointsMonotone
    <2> QED
      BY <2>1, <2>2, <2>4
  <1>6. CPLPoints(n, goal) \in Int /\ CPLPoints(m, goal) \in Int
        /\ CPLPoints(m, goal) <= CPLPoints(n, goal)
    <2>1. CASE goal.cpl = NoTarget \/ m.leads = 0
      BY <1>1, <2>1 DEF CPLPoints
    <2>2. CASE goal.cpl # NoTarget /\ m.leads # 0
      <3> DEFINE c == goal.cpl * m.leads
                 a == c - m.spend
                 b == c - n.spend
      <3>1. c \in Nat
        BY <1>1, <1>2, <2>2, ProductNat
      <3>2. CPLPoints(m, goal) = Points(20, a, c) /\ CPLPoints(n, goal) = Points(20, b, c)
        BY <1>1, <2>2 DEF CPLPoints
      <3> HIDE DEF c
      <3>3. a \in Int /\ b \in Int /\ a <= b /\ (c = 0 => a # 0 /\ b # 0)
        BY <1>1, <3>1
      <3> HIDE DEF a, b
      <3>4. a * c <= b * c
        <4>1. b - a \in Nat /\ b * c = a * c + (b - a) * c
          BY <3>1, <3>3
        <4>2. (b - a) * c \in Nat /\ a * c \in Int
          BY <3>1, <3>3, <4>1, ProductNat
        <4> QED
          BY <4>1, <4>2
      <3>5. /\ Points(20, a, c) \in Int /\ Points(20, b, c) \in Int
            /\ Points(20, a, c) <= Points(20, b, c)
        BY <3>1, <3>3, <3>4, PointsMonotone
      <3> QED
        BY <3>2, <3>5
    <2> QED
      BY <2>1, <2>2
  <1>7. ROASPoints(n, goal) \in Int /\ ROASPoints(m, goal) \in Int
        /\ ROASPoints(m, goal) <= ROASPoints(n, goal)
    <2> DEFINE target == IF goal.roas = NoTarget THEN DefaultROAS ELSE goal.roas
               v == m.value
               d == target * m.spend
               e == target * n.spend
    <2>1. target \in Nat
      BY <1>2 DEF DefaultROAS
    <2>2. CASE v = 0
      BY <1>1, <2>2 DEF ROASPoints
    <2>3. CASE v # 0
      <3>1. /\ ROASPoints(m, goal) = Points(20, v - d, d)
            /\ ROASPoints(n, goal) = Points(20, v - e, e)
        BY <1>1, <2>3 DEF ROASPoints
      <3> HIDE DEF target
      <3>2. d \in Nat /\ e \in Nat /\ e <= d /\ v \in Nat \ {0}
        BY <1>1, <2>3, <2>1, ProductNat, ShareMonotone
      <3>3. d = 0 <=> e = 0
        <4>1. CASE target = 0
          BY <1>1, <4>1
        <4>2. CASE target # 0
          BY <1>1, <2>1, <4>2, ProductPositive
        <4> QED
          BY <4>1, <4>2
      <3> HIDE DEF d, e, v
      <3>4. (v - d) * e <= (v - e) * d
        <4>1. v * e <= v * d /\ v * e \in Nat /\ v * d \in Nat /\ d * e \in Nat
          BY <3>2, ShareMonotone, ProductNat
        <4>2. (v - d) * e = v * e - d * e /\ (v - e) * d = v * d - d * e
          BY <3>2
        <4> QED
          BY <4>1, <4>2
      <3>5. /\ v - d \in Int /\ v - e \in Int /\ v - d <= v - e
            /\ d = 0 => v - d # 0 /\ v - e # 0
        BY <3>2, <3>3
      <3>6. /\ Points(20, v - d, d) \in Int /\ Points(20, v - e, e) \in Int
            /\ Points(20, v - d, d) <= Points(20, v - e, e)
        BY <3>2, <3>3, <3>4, <3>5, PointsMonotone
      <3> QED
        BY <3>1, <3>6
    <2> QED
      BY <2>2, <2>3
  <1> DEFINE x == 50 + CTRPoints(m) + CPCPoints(m) + CVRPoints(m) + CPLPoints(m, goal)
                     + ROASPoints(m, goal) + NothingToShow(m)
             y == 50 + CTRPoints(n) + CPCPoints(n) + CVRPoints(n) + CPLPoints(n, goal)
                     + ROASPoints(n, goal) + NothingToShow(n)
  <1>8. x \in Int /\ y \in Int /\ x <= y
    BY <1>3, <1>4, <1>5, <1>6, <1>7
  <1>9. ScorePerformance(m, goal) = Clamp(x, 0, 100) /\ ScorePerformance(n, goal) = Clamp(y, 0, 100)
    BY DEF ScorePerformance
  <1> HIDE DEF x, y
  <1> QED
    BY <1>8, <1>9, ClampMonotone

LEMMA SameFactors ==
    ASSUME NEW m \in Figures, NEW n \in Figures, Cheaper(n, m), NEW goal \in Goals
    PROVE  Factors(n, goal) = Factors(m, goal)
  BY CheaperFigures DEF Factors

\* A part of the goal that is missed for less money is missed for more.
LEMMA MissedStill ==
    ASSUME NEW m \in Figures, NEW n \in Figures, Cheaper(n, m), NEW goal \in Goals,
           NEW days, NEW f \in Factors(m, goal), Missed(f, n, goal, days)
    PROVE  Missed(f, m, goal, days)
  <1>1. /\ n.spend \in Nat \ {0} /\ m.spend \in Nat \ {0} /\ n.spend <= m.spend
        /\ n.impressions = m.impressions /\ n.clicks = m.clicks /\ n.leads = m.leads
        /\ n.conversions = m.conversions /\ n.value = m.value
        /\ m.leads \in Nat /\ m.conversions \in Nat /\ m.value \in Nat
    BY CheaperFigures
  <1>2. /\ f \in {"conversions", "cpl", "cpa", "roas"} /\ goal[f] > 0
        /\ f = "cpl" => m.leads > 0
        /\ f = "cpa" => m.conversions > 0
    BY DEF Factors
  <1>3. goal[f] \in Nat \ {0}
    <2>1. goal[f] \in Nat \cup {NoTarget}
      BY <1>2 DEF Goals
    <2> QED
      BY <1>2, <2>1 DEF NoTarget
  <1> DEFINE g == goal[f]
  <1> HIDE DEF g
  \* Of the cost of a result: it is over the target by more than it was.
  <1>4. ASSUME NEW results \in Nat \ {0}
        PROVE  LET d == g * results IN
               Round(1000 * (n.spend - d), d) > 250 => Round(1000 * (m.spend - d), d) > 250
    <2> DEFINE d == g * results
               a == 1000 * (n.spend - d)
               b == 1000 * (m.spend - d)
    <2>1. d \in Nat \ {0}
      BY <1>3, ProductPositive DEF g
    <2> HIDE DEF d
    <2>2. a \in Int /\ b \in Int /\ a <= b
      BY <1>1, <2>1
    <2> HIDE DEF a, b
    <2>3. a * d <= b * d
      <3>1. b - a \in Nat /\ b * d = a * d + (b - a) * d
        BY <2>1, <2>2
      <3>2. (b - a) * d \in Nat /\ a * d \in Int
        BY <2>1, <2>2, <3>1, ProductNat
      <3> QED
        BY <3>1, <3>2
    <2>4. Round(a, d) \in Int /\ Round(b, d) \in Int /\ Round(a, d) <= Round(b, d)
      BY <2>1, <2>2, <2>3, RoundMonotone
    <2>5. Round(a, d) > 250 => Round(b, d) > 250
      BY <2>4
    <2> QED
      BY <2>5 DEF d, a, b
  <1>5. CASE f = "conversions"
    BY <1>1, <1>5 DEF Missed
  <1>6. CASE f = "cpl"
    <2>1. m.leads \in Nat \ {0} /\ n.leads = m.leads
      BY <1>1, <1>2, <1>6
    <2>2. Round(1000 * (n.spend - goal[f] * n.leads), goal[f] * n.leads) > 250
      BY <1>6 DEF Missed
    <2>3. Round(1000 * (m.spend - goal[f] * m.leads), goal[f] * m.leads) > 250
      BY <1>4, <2>1, <2>2 DEF g
    <2> QED
      BY <1>6, <2>3 DEF Missed
  <1>7. CASE f = "cpa"
    <2>1. m.conversions \in Nat \ {0} /\ n.conversions = m.conversions
      BY <1>1, <1>2, <1>7
    <2>2. Round(1000 * (n.spend - goal[f] * n.conversions), goal[f] * n.conversions) > 250
      BY <1>7 DEF Missed
    <2>3. Round(1000 * (m.spend - goal[f] * m.conversions), goal[f] * m.conversions) > 250
      BY <1>4, <2>1, <2>2 DEF g
    <2> QED
      BY <1>7, <2>3 DEF Missed
  <1>8. CASE f = "roas"
    <2> DEFINE d == g * m.spend
               e == g * n.spend
               v == 100 * m.value
    <2>1. /\ d \in Nat \ {0} /\ e \in Nat \ {0}
      BY <1>1, <1>3, ProductPositive DEF g
    <2>2. e <= d
      BY <1>1, <1>3, ShareMonotone DEF g
    <2>3. v \in Nat
      BY <1>1
    <2>4. Round(v, e) < 80
      BY <1>1, <1>8 DEF Missed, g
    <2>5. Round(v, d) < 80 => Missed(f, m, goal, days)
      BY <1>8 DEF Missed, g
    <2> HIDE DEF d, e, v
    <2>6. v \in Int /\ v * e <= v * d
      BY <2>1, <2>2, <2>3, ShareMonotone
    <2>7. Round(v, d) \in Int /\ Round(v, e) \in Int /\ Round(v, d) <= Round(v, e)
      BY ONLY <2>1, <2>6, RoundMonotone
    <2> QED
      BY <2>4, <2>5, <2>7
  <1> QED
    BY <1>2, <1>5, <1>6, <1>7, <1>8

LEMMA VerdictMonotone ==
    ASSUME NEW m \in Figures, NEW n \in Figures, Cheaper(n, m), NEW goal \in Goals, NEW days
    PROVE  Verdict(AssessGoalProgress(n, goal, days)) >= Verdict(AssessGoalProgress(m, goal, days))
  <1> DEFINE factors == Factors(m, goal)
             missed(x) == {f \in factors : Missed(f, x, goal, days)}
             p == Cardinality(missed(m))
             q == Cardinality(missed(n))
             c == Cardinality(factors)
  <1>1. missed(n) \subseteq missed(m)
    BY MissedStill
  <1>2. IsFiniteSet(missed(m))
    <2>1. IsFiniteSet({"conversions", "cpl", "cpa", "roas"})
      <3>1. /\ IsFiniteSet({"conversions"}) /\ IsFiniteSet({"cpl"})
            /\ IsFiniteSet({"cpa"}) /\ IsFiniteSet({"roas"})
        BY FS_Singleton
      <3>2. IsFiniteSet({"conversions"} \cup {"cpl"}) /\ IsFiniteSet({"cpa"} \cup {"roas"})
        BY <3>1, FS_Union
      <3>3. IsFiniteSet(({"conversions"} \cup {"cpl"}) \cup ({"cpa"} \cup {"roas"}))
        BY <3>2, FS_Union
      <3>4. {"conversions", "cpl", "cpa", "roas"}
              = ({"conversions"} \cup {"cpl"}) \cup ({"cpa"} \cup {"roas"})
        OBVIOUS
      <3> QED
        BY <3>3, <3>4
    <2>2. missed(m) \subseteq {"conversions", "cpl", "cpa", "roas"}
      BY DEF Factors
    <2> QED
      BY <2>1, <2>2, FS_Subset
  <1> HIDE DEF missed
  <1>3. p \in Nat /\ q \in Nat /\ q <= p
    BY <1>1, <1>2, FS_Subset, FS_CardinalityType
  <1>4. AssessGoalProgress(m, goal, days) =
          IF factors = {} THEN "insufficient_data"
          ELSE IF p >= 2 \/ (p = 1 /\ c = 1) THEN "off_track"
          ELSE IF p = 1 THEN "at_risk" ELSE "on_track"
    BY DEF AssessGoalProgress, missed
  <1>5. AssessGoalProgress(n, goal, days) =
          IF factors = {} THEN "insufficient_data"
          ELSE IF q >= 2 \/ (q = 1 /\ c = 1) THEN "off_track"
          ELSE IF q = 1 THEN "at_risk" ELSE "on_track"
    BY SameFactors DEF AssessGoalProgress, missed
  <1> HIDE DEF p, q, c, factors
  <1> QED
    BY <1>3, <1>4, <1>5 DEF Verdict

\* For any figures, goal and window, paying less for the same results never
\* lowers a score nor what is said of the goal.
THEOREM PayingLessNeverHurts == Spec => CheaperIsNoWorse
  <1> DEFINE A == \A o \in Objects, goal \in world.goals, preset \in world.presets :
                    LET m == NormalizeInsight(report[o].row)
                        n == NormalizeInsight(report'[o].row)
                        days == presetDaysInt(preset)
                    IN  report'[o] # report[o] /\ n.spend \in 1..m.spend
                            /\ n = [m EXCEPT !.spend = n.spend]
                          => /\ ScorePerformance(n, goal) >= ScorePerformance(m, goal)
                             /\ Verdict(AssessGoalProgress(n, goal, days))
                                  >= Verdict(AssessGoalProgress(m, goal, days))
  <1>1. TypeInv /\ [Next]_vars => A
    <2> SUFFICES ASSUME TypeInv, TypeInv',
                        NEW o \in Objects, NEW goal \in world.goals, NEW preset \in world.presets,
                        NormalizeInsight(report'[o].row).spend
                          \in 1..NormalizeInsight(report[o].row).spend,
                        NormalizeInsight(report'[o].row)
                          = [NormalizeInsight(report[o].row)
                               EXCEPT !.spend = NormalizeInsight(report'[o].row).spend]
                 PROVE  LET m == NormalizeInsight(report[o].row)
                            n == NormalizeInsight(report'[o].row)
                            days == presetDaysInt(preset)
                        IN  /\ ScorePerformance(n, goal) >= ScorePerformance(m, goal)
                            /\ Verdict(AssessGoalProgress(n, goal, days))
                                 >= Verdict(AssessGoalProgress(m, goal, days))
      BY NextTyped
    <2> DEFINE m == NormalizeInsight(report[o].row)
               n == NormalizeInsight(report'[o].row)
               days == presetDaysInt(preset)
    <2>1. m \in Figures /\ n \in Figures
      <3>1. report[o].row \in InsightRows /\ report'[o].row \in InsightRows
        BY DEF TypeInv, TypeOK, Reports
      <3> QED
        BY <3>1, Normalized
    <2>2. goal \in Goals
      BY ProposalsAssumption DEF TypeInv, TypeOK
    <2>3. n.spend \in 1..m.spend /\ n = [m EXCEPT !.spend = n.spend]
      OBVIOUS
    <2> HIDE DEF m, n, days
    <2>4. Cheaper(n, m)
      BY <2>1, <2>3 DEF Cheaper, NoFigures, Figures
    <2>5. ScorePerformance(n, goal) >= ScorePerformance(m, goal)
      BY <2>1, <2>2, <2>4, ScoreMonotone
    <2>6. Verdict(AssessGoalProgress(n, goal, days)) >= Verdict(AssessGoalProgress(m, goal, days))
      BY <2>1, <2>2, <2>4, VerdictMonotone
    <2> QED
      BY <2>5, <2>6 DEF m, n, days
  <1> QED
    BY <1>1, InitTyped, NextTyped, PTL DEF Spec, CheaperIsNoWorse
-----------------------------------------------------------------------------
(* Outliers. *)

\* Of a series, whatever its values, at most a quarter of the days are outliers.
LEMMA FewOutliers ==
    ASSUME NEW days \in Seq(Days), NEW series \in AnomalyMetrics
    PROVE  4 * Cardinality({i \in DOMAIN days : Outlier(days, series, i)}) <= Len(days)
  <1> DEFINE D == DOMAIN days
             seen == {j \in D : days[j][series] # 0}
             f == [j \in seen |-> days[j][series]]
             g == [j \in seen |-> days[j][series] * days[j][series]]
             n == Cardinality(seen)
             m == SumFunctionOnSet(f, seen)
             q == SumFunctionOnSet(g, seen)
             O == {i \in D : Outlier(days, series, i)}
  <1>1. D = 1..Len(days) /\ Len(days) \in Nat /\ \A j \in D : days[j] \in Days
    OBVIOUS
  <1>2. IsFiniteSet(D) /\ Cardinality(D) = Len(days)
    BY <1>1, FS_Interval
  <1>3. IsFiniteSet(seen) /\ n \in Nat /\ n <= Len(days)
    BY <1>2, FS_Subset, FS_CardinalityType
  <1>4. \A j \in seen : f[j] \in Int /\ g[j] = f[j] * f[j]
    <2>1. \A j \in D : days[j][series] \in Nat
      BY <1>1 DEF Days, AnomalyMetrics
    <2> QED
      BY <2>1
  <1>5. \A i \in O : /\ i \in seen /\ n * q # m * m
                     /\ (n * f[i] - m) * (n * f[i] - m) >= 4 * (n * q - m * m)
    BY DEF Outlier
  <1> HIDE DEF f, g, n, m, q, O, seen
  <1>6. CASE O = {}
    BY <1>1, <1>6, FS_EmptySet DEF O
  <1>7. CASE O # {}
    <2>1. n * q # m * m /\ O \in SUBSET seen
      BY <1>5, <1>7
    <2>2. \A i \in O : (n * f[i] - m) * (n * f[i] - m) >= 4 * (n * q - m * m)
      BY <1>5
    <2>3. n = Cardinality(seen) /\ m = SumFunctionOnSet(f, seen) /\ q = SumFunctionOnSet(g, seen)
      BY DEF n, m, q
    <2>4. 4 * Cardinality(O) <= n
      BY ONLY <1>3, <1>4, <2>1, <2>2, <2>3, Chebyshev
    <2>5. Cardinality(O) \in Nat
      BY <1>3, <2>1, FS_Subset, FS_CardinalityType
    <2> QED
      BY <1>1, <1>3, <2>4, <2>5 DEF O
  <1> QED
    BY <1>6, <1>7

\* For any account and any figures, no series of an object calls more than a
\* quarter of its days outliers.
THEOREM FewAnomalies == Spec => OutliersAreFew
  <1> DEFINE A == \A o \in {p \in Objects : report'[p].days # report[p].days} :
                    LET days == report'[o].days
                        found == DetectAnomalies(days)
                    IN  \A series \in AnomalyMetrics :
                          4 * Cardinality({a \in found : a[1] = series}) <= Len(days)
  <1>1. TypeInv /\ [Next]_vars => A
    <2> SUFFICES ASSUME TypeInv', NEW o \in Objects, NEW series \in AnomalyMetrics
                 PROVE  LET days == report'[o].days
                            found == DetectAnomalies(days)
                        IN  4 * Cardinality({a \in found : a[1] = series}) <= Len(days)
      BY NextTyped
    <2> DEFINE days == report'[o].days
               found == DetectAnomalies(days)
               mine == {a \in found : a[1] = series}
               O == {i \in DOMAIN days : Outlier(days, series, i)}
               second == [a \in mine |-> a[2]]
    <2>1. days \in Seq(Days)
      BY DEF TypeInv, TypeOK, Reports
    <2> HIDE DEF days
    <2>2. 4 * Cardinality(O) <= Len(days)
      BY <2>1, FewOutliers
    <2>3. IsFiniteSet(O) /\ Cardinality(O) \in Nat
      <3>1. DOMAIN days = 1..Len(days) /\ Len(days) \in Nat
        BY <2>1
      <3>2. IsFiniteSet(DOMAIN days)
        BY <3>1, FS_Interval
      <3> QED
        BY <3>2, FS_Subset, FS_CardinalityType
    <2>4. \A a \in mine : a[1] = series /\ a[2] \in O /\ a = <<a[1], a[2]>>
      BY DEF DetectAnomalies
    <2> HIDE DEF mine, O
    <2>5. second \in Injection(mine, O)
      BY <2>4 DEF Injection, IsInjective
    <2>6. IsFiniteSet(mine) /\ Cardinality(mine) <= Cardinality(O)
      BY <2>3, <2>5, FS_Injection
    <2>7. Cardinality(mine) \in Nat /\ Len(days) \in Nat
      BY <2>1, <2>6, FS_CardinalityType
    <2>8. 4 * Cardinality(mine) <= Len(days)
      BY <2>2, <2>3, <2>6, <2>7
    <2> QED
      BY <2>8 DEF mine, days
  <1> QED
    BY <1>1, InitTyped, NextTyped, PTL DEF Spec, OutliersAreFew
===============================================================================
