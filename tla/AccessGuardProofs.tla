-------------------------- MODULE AccessGuardProofs --------------------------
(* The safety properties of AccessGuard, for every set of clients, every   *)
(* setting of the limiter and runs of any length.                          *)
EXTENDS AccessGuard, FiniteSetTheorems, TLAPS

IsMap(map) == DOMAIN map \subseteq Clients /\ map \in [DOMAIN map -> Record]

(* The positions in a sequence of times of those between two.              *)
Within(g, from, to) == {i \in DOMAIN g : g[i] \in from..to}

LEMMA WithinFinite ==
    ASSUME NEW g \in Seq(Times), NEW from \in Int, NEW to \in Int
    PROVE  /\ IsFiniteSet(Within(g, from, to))
           /\ Cardinality(Within(g, from, to)) \in Nat
<1>1. Len(g) \in Nat /\ DOMAIN g = 1..Len(g)
  OBVIOUS
<1>2. IsFiniteSet(1..Len(g))
  BY <1>1, FS_Interval
<1>3. Within(g, from, to) \in SUBSET (1..Len(g))
  BY <1>1 DEF Within
<1> QED
  BY <1>2, <1>3, FS_Subset, FS_CardinalityType

(* A stretch counts at least what a stretch it covers counts.              *)
LEMMA WithinMonotone ==
    ASSUME NEW g \in Seq(Times), NEW from \in Int, NEW to \in Int,
           NEW from2 \in Int, NEW to2 \in Int,
           \A i \in DOMAIN g : g[i] \in from..to => g[i] \in from2..to2
    PROVE  Cardinality(Within(g, from, to)) <= Cardinality(Within(g, from2, to2))
<1>1. Within(g, from, to) \in SUBSET Within(g, from2, to2)
  BY DEF Within
<1> QED
  BY <1>1, WithinFinite, FS_Subset

(* One time more counts where it falls.                                    *)
LEMMA WithinAppend ==
    ASSUME NEW g \in Seq(Times), NEW x \in Times, NEW from \in Int, NEW to \in Int
    PROVE  Cardinality(Within(Append(g, x), from, to)) =
             Cardinality(Within(g, from, to)) + (IF x \in from..to THEN 1 ELSE 0)
<1> DEFINE n == Len(g) + 1
<1>1. /\ Len(g) \in Nat /\ DOMAIN g = 1..Len(g) /\ DOMAIN Append(g, x) = 1..n
      /\ \A i \in 1..Len(g) : Append(g, x)[i] = g[i]
      /\ Append(g, x)[n] = x
  OBVIOUS
<1>2. n \notin Within(g, from, to)
  BY <1>1 DEF Within
<1>3. IsFiniteSet(Within(g, from, to)) /\ Cardinality(Within(g, from, to)) \in Nat
  BY WithinFinite
<1>4. CASE x \in from..to
  <2>1. Within(Append(g, x), from, to) = Within(g, from, to) \cup {n}
    BY <1>1, <1>4 DEF Within
  <2> QED
    BY <2>1, <1>2, <1>3, <1>4, FS_AddElement
<1>5. CASE x \notin from..to
  <2>1. Within(Append(g, x), from, to) = Within(g, from, to)
    BY <1>1, <1>5 DEF Within
  <2> QED
    BY <2>1, <1>3, <1>5
<1> QED
  BY <1>4, <1>5

(* A stretch counts no more than its two parts.                            *)
LEMMA WithinSplit ==
    ASSUME NEW g \in Seq(Times), NEW from \in Int, NEW mid \in Int, NEW to \in Int
    PROVE  Cardinality(Within(g, from, to)) <=
             Cardinality(Within(g, from, mid - 1)) + Cardinality(Within(g, mid, to))
<1> DEFINE A == Within(g, from, mid - 1)
           B == Within(g, mid, to)
<1>0. \A i \in DOMAIN g : g[i] \in Int
  BY GuardAssumption DEF GuardAssumption, Times
<1>1. Within(g, from, to) \in SUBSET (A \cup B)
  BY <1>0 DEF Within
<1>2. /\ IsFiniteSet(A) /\ IsFiniteSet(B)
      /\ Cardinality(A) \in Nat /\ Cardinality(B) \in Nat
  BY WithinFinite
<1>3. IsFiniteSet(A \cup B) /\ Cardinality(A \cup B) <= Cardinality(A) + Cardinality(B)
  <2>1. IsFiniteSet(A \cap B) /\ Cardinality(A \cap B) \in Nat
    <3>1. A \cap B \in SUBSET A
      OBVIOUS
    <3> QED
      BY <3>1, <1>2, FS_Subset, FS_CardinalityType
  <2>2. /\ IsFiniteSet(A \cup B)
        /\ Cardinality(A \cup B) = Cardinality(A) + Cardinality(B) - Cardinality(A \cap B)
    BY <1>2, FS_Union
  <2> QED
    BY <1>2, <2>1, <2>2
<1>4. Cardinality(Within(g, from, to)) <= Cardinality(A \cup B)
  BY <1>1, <1>3, FS_Subset
<1>5. Cardinality(Within(g, from, to)) \in Nat /\ Cardinality(A \cup B) \in Nat
  BY <1>3, WithinFinite, FS_CardinalityType
<1> QED
  BY <1>2, <1>3, <1>4, <1>5

-----------------------------------------------------------------------------
(* The limiter's operators.                                                *)
LEMMA WithoutIsMap ==
    ASSUME NEW map, IsMap(map), NEW c
    PROVE  /\ IsMap(Without(map, c)) /\ DOMAIN Without(map, c) = DOMAIN map \ {c}
           /\ \A d \in DOMAIN map \ {c} : Without(map, c)[d] = map[d]
BY DEF IsMap, Without

LEMMA FewerThanClients ==
    ASSUME NEW S, S \subseteq Clients
    PROVE  IsFiniteSet(S) /\ Cardinality(S) \in Nat
<1>1. IsFiniteSet(Clients)
  BY GuardAssumption DEF GuardAssumption
<1>2. S \in SUBSET Clients
  OBVIOUS
<1> QED
  BY <1>1, <1>2, FS_Subset, FS_CardinalityType

LEMMA RemovalFits ==
    ASSUME NEW S, S \subseteq Clients, Cardinality(S) <= MaxTracked, NEW c
    PROVE  Cardinality(S \ {c}) <= MaxTracked
<1>1. /\ IsFiniteSet(S) /\ Cardinality(S) \in Nat /\ MaxTracked \in Nat
      /\ Cardinality(S \ {c}) \in Nat
  BY FewerThanClients, GuardAssumption DEF GuardAssumption
<1>2. S \ {c} \in SUBSET S
  OBVIOUS
<1>3. Cardinality(S \ {c}) <= Cardinality(S)
  BY <1>1, <1>2, FS_Subset
<1> QED
  BY <1>1, <1>3

(* A client leaves the tracker when its block has run its course.          *)
LEMMA CheckResult ==
    ASSUME TypeOK, NEW c \in Clients
    PROVE  LET map == Check(c) IN
           /\ IsMap(map) /\ DOMAIN map \subseteq Tracked
           /\ Cardinality(DOMAIN map) <= MaxTracked
           /\ \A d \in DOMAIN map : map[d] = clients[d]
           /\ \A d \in Tracked \ {c} : d \in DOMAIN map
           /\ c \in Tracked \ DOMAIN map => clients[c].until # 0 /\ ~BlockedNow(c)
           /\ c \in DOMAIN map => clients[c].until = 0 \/ BlockedNow(c)
<1> DEFINE map == Check(c)
<1>1. IsMap(clients) /\ Cardinality(Tracked) <= MaxTracked
  BY DEF TypeOK, IsMap, Tracked
<1>2. CASE c \in Tracked /\ clients[c].until # 0 /\ ~BlockedNow(c)
  <2>1. map = Without(clients, c)
    BY <1>2 DEF Check
  <2>2. IsMap(map) /\ DOMAIN map = Tracked \ {c} /\ \A d \in DOMAIN map : map[d] = clients[d]
    BY <1>1, <2>1, WithoutIsMap DEF Tracked
  <2>3. Cardinality(Tracked \ {c}) <= MaxTracked
    BY <1>1, RemovalFits DEF IsMap, Tracked
  <2> QED
    BY <1>2, <2>2, <2>3
<1>3. CASE ~(c \in Tracked /\ clients[c].until # 0 /\ ~BlockedNow(c))
  <2>1. map = clients
    BY <1>3 DEF Check
  <2> QED
    BY <1>1, <1>3, <2>1 DEF Tracked
<1> QED
  BY <1>2, <1>3

LEMMA FailureRecordType ==
    ASSUME NEW map, IsMap(map), now \in Times, NEW c \in Clients
    PROVE  FailureRecord(map, c) \in Record
<1> DEFINE within == c \in DOMAIN map /\ now - map[c].start < Window
           old == IF within THEN map[c]
                  ELSE [failures |-> 0, start |-> now, seen |-> now,
                        until |-> IF c \in DOMAIN map THEN map[c].until ELSE 0]
           n == old.failures + 1
           until == IF n >= MaxFailures THEN now + Block ELSE old.until
<1>1. now \in Nat /\ Block \in Nat /\ \A d \in DOMAIN map : map[d] \in Record
  BY GuardAssumption DEF GuardAssumption, IsMap, Times
<1>2. old \in Record
  BY <1>1 DEF Record
<1>3. FailureRecord(map, c) = [old EXCEPT !.failures = n, !.seen = now, !.until = until]
  BY DEF FailureRecord
<1> HIDE DEF old
<1>4. n \in Nat /\ until \in Nat
  BY <1>1, <1>2 DEF Record
<1> QED
  BY <1>2, <1>3, <1>4 DEF Record

(* What one more guess makes of the tracker: the guesser's record is the   *)
(* only one that changes, others may go, and no block goes before a block  *)
(* that ends sooner.                                                       *)
LEMMA RecordFailureResult ==
    ASSUME NEW map, IsMap(map), now \in Times, Cardinality(DOMAIN map) <= MaxTracked,
           NEW c \in Clients, NEW m2 \in RecordFailure(map, c)
    PROVE  /\ IsMap(m2) /\ DOMAIN m2 \subseteq DOMAIN map \cup {c}
           /\ Cardinality(DOMAIN m2) <= MaxTracked
           /\ \A d \in DOMAIN m2 : m2[d] = IF d = c THEN FailureRecord(map, c) ELSE map[d]
           /\ \A d \in DOMAIN map \ {c} : IsBlocked(map[d]) /\ d \notin DOMAIN m2 =>
                \A e \in DOMAIN m2 : m2[e].until >= map[d].until
<1> DEFINE withinWindow == c \in DOMAIN map /\ now - map[c].start < Window
           new == With(map, c, FailureRecord(map, c))
           stale == {d \in DOMAIN new : ~IsBlocked(new[d]) /\ now - new[d].start >= Window}
           kept == [d \in DOMAIN new \ stale |-> new[d]]
<1>0. MaxTracked \in Nat
  BY GuardAssumption DEF GuardAssumption
<1>1. /\ IsMap(new) /\ DOMAIN new = DOMAIN map \cup {c}
      /\ \A d \in DOMAIN new : new[d] = IF d = c THEN FailureRecord(map, c) ELSE map[d]
  BY FailureRecordType DEF IsMap, With
<1>2. IsFiniteSet(DOMAIN map) /\ Cardinality(DOMAIN map) \in Nat
  BY FewerThanClients DEF IsMap
<1>3. /\ IsFiniteSet(DOMAIN new) /\ Cardinality(DOMAIN new) \in Nat
      /\ Cardinality(DOMAIN new) <= MaxTracked + 1
      /\ c \in DOMAIN map => Cardinality(DOMAIN new) <= MaxTracked
  <2>1. CASE c \in DOMAIN map
    <3>1. DOMAIN new = DOMAIN map
      BY <1>1, <2>1
    <3> QED
      BY <1>0, <1>2, <3>1
  <2>2. CASE c \notin DOMAIN map
    <3>1. IsFiniteSet(DOMAIN new) /\ Cardinality(DOMAIN new) = Cardinality(DOMAIN map) + 1
      BY <1>1, <1>2, <2>2, FS_AddElement
    <3> QED
      BY <1>0, <1>2, <2>2, <3>1
  <2> QED
    BY <2>1, <2>2
<1>4. CASE ~(~withinWindow /\ Cardinality(DOMAIN new) > MaxTracked)
  <2>1. m2 = new
    BY <1>4 DEF RecordFailure
  <2>2. Cardinality(DOMAIN new) <= MaxTracked
    BY <1>0, <1>3, <1>4
  <2> QED
    BY <1>1, <2>1, <2>2
<1>5. CASE ~withinWindow /\ Cardinality(DOMAIN new) > MaxTracked
  <2>1. m2 \in Evictions(new, c)
    BY <1>5 DEF RecordFailure
  <2>2. /\ IsMap(kept) /\ DOMAIN kept = DOMAIN new \ stale
        /\ \A d \in DOMAIN kept : kept[d] = new[d]
    BY <1>1 DEF IsMap
  <2>3. IsFiniteSet(DOMAIN kept) /\ Cardinality(DOMAIN kept) \in Nat
    BY <2>2, FewerThanClients DEF IsMap
  <2>4. Cardinality(DOMAIN kept) <= MaxTracked + 1
    <3>1. DOMAIN kept \in SUBSET DOMAIN new
      BY <2>2
    <3>2. Cardinality(DOMAIN kept) <= Cardinality(DOMAIN new)
      BY <1>3, <3>1, FS_Subset
    <3> QED
      BY <1>0, <1>3, <2>3, <3>2
  <2>5. \A d \in DOMAIN map \ {c} : IsBlocked(map[d]) => d \in DOMAIN kept
    BY <1>1, <2>2
  <2>6. CASE Cardinality(DOMAIN kept) <= MaxTracked
    <3>1. m2 = kept
      BY <1>0, <2>1, <2>3, <2>6 DEF Evictions
    <3> QED
      BY <1>1, <2>2, <2>5, <2>6, <3>1
  <2>7. CASE Cardinality(DOMAIN kept) > MaxTracked
    <3>1. PICK v \in EvictionCandidates(kept) : m2 = Without(kept, v)
      BY <2>1, <2>7 DEF Evictions
    <3>2. v \in DOMAIN kept
      BY <3>1 DEF EvictionCandidates
    <3>3. /\ IsMap(m2) /\ DOMAIN m2 = DOMAIN kept \ {v}
          /\ \A d \in DOMAIN m2 : m2[d] = kept[d]
      <4>1. IsMap(kept)
        BY <2>2
      <4> HIDE DEF kept
      <4>2. /\ IsMap(Without(kept, v)) /\ DOMAIN Without(kept, v) = DOMAIN kept \ {v}
            /\ \A d \in DOMAIN kept \ {v} : Without(kept, v)[d] = kept[d]
        BY <4>1, WithoutIsMap
      <4> QED
        BY <3>1, <4>2
    <3>4. Cardinality(DOMAIN m2) <= MaxTracked
      <4>1. Cardinality(DOMAIN kept \ {v}) = Cardinality(DOMAIN kept) - 1
        BY <2>3, <3>2, FS_RemoveElement
      <4> QED
        BY <1>0, <2>3, <2>4, <3>3, <4>1
    <3>5. ASSUME NEW d \in DOMAIN map \ {c}, IsBlocked(map[d]), d \notin DOMAIN m2
          PROVE  \A e \in DOMAIN m2 : m2[e].until >= map[d].until
      <4>1. d = v /\ kept[d] = map[d]
        BY <1>1, <2>2, <2>5, <3>3, <3>5
      <4>2. {x \in DOMAIN kept : ~IsBlocked(kept[x])} = {}
        BY <3>1, <3>5, <4>1 DEF EvictionCandidates
      <4>3. \A e \in DOMAIN kept : kept[v].until <= kept[e].until
        BY <3>1, <4>2 DEF EvictionCandidates
      <4>4. kept[v].until \in Nat /\ \A e \in DOMAIN kept : kept[e].until \in Nat
        BY <2>2, <3>2 DEF IsMap, Record
      <4> QED
        BY <3>3, <4>1, <4>3, <4>4
    <3> QED
      BY <1>1, <2>2, <3>3, <3>4, <3>5
  <2> QED
    BY <1>0, <2>3, <2>6, <2>7
<1> QED
  BY <1>4, <1>5

LEMMA RejectGuessResult ==
    ASSUME TypeOK, NEW c \in Clients, NEW t, RejectGuess(c, t)
    PROVE  /\ IsMap(clients') /\ Cardinality(DOMAIN clients') <= MaxTracked
           /\ \A d \in DOMAIN clients' : d # c => d \in Tracked /\ clients'[d] = clients[d]
           /\ c \in DOMAIN clients' => clients'[c] = FailureRecord(Check(c), c)
           /\ \A d \in Tracked : BlockedNow(d) /\ d \notin DOMAIN clients' =>
                \A e \in DOMAIN clients' : clients'[e].until >= clients[d].until
<1> DEFINE map == Check(c)
<1>1. /\ IsMap(map) /\ DOMAIN map \subseteq Tracked
      /\ Cardinality(DOMAIN map) <= MaxTracked
      /\ \A d \in DOMAIN map : map[d] = clients[d]
      /\ \A d \in Tracked \ {c} : d \in DOMAIN map
  BY CheckResult
<1>2. now \in Times /\ ~BlockedNow(c) /\ clients' \in RecordFailure(map, c)
  BY DEF TypeOK, RejectGuess
<1> HIDE DEF map
<1>3. /\ IsMap(clients') /\ DOMAIN clients' \subseteq DOMAIN map \cup {c}
      /\ Cardinality(DOMAIN clients') <= MaxTracked
      /\ \A d \in DOMAIN clients' :
           clients'[d] = IF d = c THEN FailureRecord(map, c) ELSE map[d]
      /\ \A d \in DOMAIN map \ {c} : IsBlocked(map[d]) /\ d \notin DOMAIN clients' =>
           \A e \in DOMAIN clients' : clients'[e].until >= map[d].until
  BY <1>1, <1>2, RecordFailureResult
<1>4. \A d \in Tracked : BlockedNow(d) => d # c /\ IsBlocked(map[d]) /\ map[d] = clients[d]
  BY <1>1, <1>2 DEF BlockedNow
<1> QED
  BY <1>1, <1>3, <1>4 DEF map

-----------------------------------------------------------------------------
LEMMA InitType == Init => TypeOK
<1> SUFFICES ASSUME Init PROVE TypeOK
  OBVIOUS
<1> USE DEF Init
<1>1. DOMAIN clients = {}
  OBVIOUS
<1>2. Cardinality(DOMAIN clients) = 0 /\ MaxTracked \in Nat
  BY <1>1, FS_EmptySet, GuardAssumption DEF GuardAssumption
<1>3. clients \in [DOMAIN clients -> Record]
  BY <1>1
<1>4. now \in Times /\ guesses \in [Clients -> Seq(Times)]
  BY GuardAssumption DEF GuardAssumption, Times
<1> QED
  BY <1>1, <1>2, <1>3, <1>4 DEF TypeOK

LEMMA RetryAfterRoundsUp ==
    ASSUME NEW ms \in Nat
    PROVE  /\ RetryAfter(ms) \in Nat /\ Second * RetryAfter(ms) \in Nat
           /\ ms <= Second * RetryAfter(ms) /\ Second * RetryAfter(ms) < ms + Second
BY GuardAssumption DEF GuardAssumption, RetryAfter

(* What the constants and the types give, in the form the steps use.       *)
LEMMA GuardNumbers ==
    /\ Window \in Nat /\ {Ttl, Block, MaxTracked} \subseteq Nat /\ Second \in Nat \ {0}
    /\ MaxTime \in Nat /\ Times \subseteq Nat
BY GuardAssumption DEF GuardAssumption, Times

LEMMA GuardTyped ==
    ASSUME TypeOK
    PROVE  /\ IsMap(clients) /\ now \in Nat /\ announced \in [Clients -> Nat]
           /\ guesses \in [Clients -> Seq(Times)]
<1>1. now \in Nat
  BY GuardNumbers DEF TypeOK
<1>2. IsMap(clients)
  BY DEF TypeOK, IsMap
<1> QED
  BY <1>1, <1>2 DEF TypeOK

(* Every step keeps the types.                                             *)
LEMMA StepType == TypeOK /\ [Next]_vars => TypeOK'
<1> SUFFICES ASSUME TypeOK, [Next]_vars PROVE TypeOK'
  OBVIOUS
<1> USE DEF TypeOK
<1>0. /\ IsMap(clients) /\ now \in Nat
      /\ {Ttl, Block, MaxTracked} \subseteq Nat /\ Second \in Nat \ {0} /\ MaxTime \in Nat
  BY GuardNumbers, GuardTyped
<1>1. ASSUME NEW c \in Clients, NEW t, Refuse429(c)
      PROVE  TypeOK'
  <2>1. c \in DOMAIN clients /\ now < clients[c].until
    BY <1>1 DEF Refuse429, BlockedNow, IsBlocked, Tracked
  <2>2. now + Second * RetryAfter(clients[c].until - now) \in Nat
    <3>1. clients[c].until \in Nat
      BY <2>1 DEF Record
    <3> DEFINE until == clients[c].until
    <3>2. now \in Nat /\ now < until /\ until \in Nat
      BY <1>0, <2>1, <3>1
    <3> HIDE DEF until
    <3>3. until - now \in Nat
      BY <3>2
    <3>4. Second * RetryAfter(until - now) \in Nat
      BY <3>3, RetryAfterRoundsUp
    <3>5. now + Second * RetryAfter(until - now) \in Nat
      BY <3>2, <3>4
    <3> QED
      BY <3>5 DEF until
  <2> QED
    BY <1>1, <2>2 DEF Refuse429
<1>2. ASSUME NEW c \in Clients, NEW t, Accept(c, t)
      PROVE  TypeOK'
  <2>1. IsMap(Check(c)) /\ Cardinality(DOMAIN Check(c)) <= MaxTracked
    BY CheckResult
  <2>2. IsMap(clients') /\ DOMAIN clients' = DOMAIN Check(c) \ {c}
    BY <1>2, <2>1, WithoutIsMap DEF Accept
  <2>3. Cardinality(DOMAIN clients') <= MaxTracked
    <3>1. DOMAIN Check(c) \subseteq Clients
      BY <2>1 DEF IsMap
    <3> QED
      BY <2>1, <2>2, <3>1, RemovalFits
  <2>4. guesses' \in [Clients -> Seq(Times)] /\ announced' \in [Clients -> Nat]
    BY <1>2 DEF Accept
  <2> QED
    BY <1>2, <2>2, <2>3, <2>4 DEF Accept, IsMap
<1>3. ASSUME NEW c \in Clients, NEW t, Reject(c, t)
      PROVE  TypeOK'
  <2>1. IsMap(clients') /\ Cardinality(DOMAIN clients') <= MaxTracked
    BY <1>3, CheckResult DEF Reject
  <2> QED
    BY <1>3, <2>1 DEF Reject, IsMap
<1>4. ASSUME NEW c \in Clients, NEW t, RejectGuess(c, t)
      PROVE  TypeOK'
  <2>1. IsMap(clients') /\ Cardinality(DOMAIN clients') <= MaxTracked
    BY <1>4, RejectGuessResult
  <2>2. guesses' \in [Clients -> Seq(Times)]
    <3>1. \A d \in Clients : guesses[d] \in Seq(Times) /\ Append(guesses[d], now) \in Seq(Times)
      OBVIOUS
    <3> QED
      BY <1>4, <3>1 DEF RejectGuess
  <2>3. announced' \in [Clients -> Nat] /\ guessCount' \in Nat
    BY <1>4 DEF RejectGuess
  <2> QED
    BY <1>4, <2>1, <2>2, <2>3 DEF RejectGuess, IsMap
<1>5. ASSUME PrintLink
      PROVE  TypeOK'
  <2>1. Mint \in Token /\ Mint.exp \in Nat
    BY <1>0 DEF Mint, Token
  <2> QED
    BY <1>5, <2>1 DEF PrintLink, history
<1>6. ASSUME Restart
      PROVE  TypeOK'
  <2>1. DOMAIN clients' = {} /\ clients' \in [DOMAIN clients' -> Record]
    BY <1>6 DEF Restart
  <2>2. Cardinality(DOMAIN clients') <= MaxTracked
    BY <1>0, <2>1, FS_EmptySet
  <2>3. guesses' \in [Clients -> Seq(Times)] /\ announced' \in [Clients -> Nat]
    BY <1>6 DEF Restart
  <2> QED
    BY <1>6, <2>1, <2>2, <2>3 DEF Restart
<1>7. ASSUME Tick
      PROVE  TypeOK'
  <2>1. now' \in Times
    BY <1>0, <1>7 DEF Tick, Times
  <2> QED
    BY <1>7, <2>1 DEF Tick, history
<1>8. ASSUME UNCHANGED vars
      PROVE  TypeOK'
  BY <1>8 DEF vars, history
<1> QED
  BY <1>1, <1>2, <1>3, <1>4, <1>5, <1>6, <1>7, <1>8 DEF Next, Request

(* TypeOK is an invariant.                                                 *)
THEOREM TypeCorrect == Spec => []TypeOK
BY InitType, StepType, PTL DEF Spec

-----------------------------------------------------------------------------
(* What a refused client was told is the end of its block, rounded up to   *)
(* the second.                                                             *)
AnnounceInv ==
    \A c \in Clients : announced[c] # 0 /\ c \in Tracked =>
        /\ clients[c].until <= announced[c]
        /\ announced[c] < clients[c].until + Second

LEMMA StepAnnounce == TypeOK /\ AnnounceInv /\ [Next]_vars => AnnounceInv'
<1> SUFFICES ASSUME TypeOK, AnnounceInv, [Next]_vars,
                    NEW d \in Clients, announced'[d] # 0, d \in DOMAIN clients'
             PROVE  /\ clients'[d].until <= announced'[d]
                    /\ announced'[d] < clients'[d].until + Second
  BY DEF AnnounceInv, Tracked
<1>0. announced \in [Clients -> Nat] /\ IsMap(clients) /\ now \in Nat /\ Second \in Nat
  BY GuardNumbers, GuardTyped
<1>1. ASSUME announced'[d] = announced[d], d \in Tracked, clients'[d] = clients[d]
      PROVE  /\ clients'[d].until <= announced'[d]
             /\ announced'[d] < clients'[d].until + Second
  BY <1>1 DEF AnnounceInv
<1>2. ASSUME NEW c \in Clients, NEW t, Refuse429(c)
      PROVE  /\ clients'[d].until <= announced'[d]
             /\ announced'[d] < clients'[d].until + Second
  <2>1. CASE d = c
    <3> DEFINE ms == clients[c].until - now
    <3>1. c \in DOMAIN clients /\ now < clients[c].until
      BY <1>2 DEF Refuse429, BlockedNow, IsBlocked, Tracked
    <3>2. clients[c].until \in Nat
      BY <1>0, <3>1 DEF IsMap, Record
    <3>3. ms \in Nat
      BY <1>0, <3>1, <3>2
    <3>4. announced'[c] = now + Second * RetryAfter(ms) /\ clients' = clients
      BY <1>0, <1>2 DEF Refuse429
    <3>5. /\ Second * RetryAfter(ms) \in Nat
          /\ ms <= Second * RetryAfter(ms) /\ Second * RetryAfter(ms) < ms + Second
      BY <3>3, RetryAfterRoundsUp
    <3> QED
      BY <1>0, <2>1, <3>2, <3>4, <3>5
  <2>2. CASE d # c
    BY <1>0, <1>1, <1>2, <2>2 DEF Refuse429, Tracked
  <2> QED
    BY <2>1, <2>2
<1>3. ASSUME NEW c \in Clients, NEW t, Accept(c, t) \/ Reject(c, t)
      PROVE  /\ clients'[d].until <= announced'[d]
             /\ announced'[d] < clients'[d].until + Second
  <2>1. announced' = [announced EXCEPT ![c] = 0]
    BY <1>3 DEF Accept, Reject
  <2>2. d # c /\ announced'[d] = announced[d]
    BY <1>0, <2>1
  <2>3. /\ IsMap(Check(c)) /\ DOMAIN Check(c) \subseteq Tracked
        /\ \A e \in DOMAIN Check(c) : Check(c)[e] = clients[e]
    BY CheckResult
  <2>4. clients' = Check(c) \/ clients' = Without(Check(c), c)
    BY <1>3 DEF Accept, Reject
  <2>5. /\ DOMAIN Without(Check(c), c) = DOMAIN Check(c) \ {c}
        /\ \A e \in DOMAIN Check(c) \ {c} : Without(Check(c), c)[e] = Check(c)[e]
    BY <2>3, WithoutIsMap
  <2>6. d \in Tracked /\ clients'[d] = clients[d]
    BY <2>2, <2>3, <2>4, <2>5
  <2> QED
    BY <1>1, <2>2, <2>6
<1>4. ASSUME NEW c \in Clients, NEW t, RejectGuess(c, t)
      PROVE  /\ clients'[d].until <= announced'[d]
             /\ announced'[d] < clients'[d].until + Second
  <2>1. d # c /\ announced'[d] = announced[d]
    BY <1>0, <1>4 DEF RejectGuess
  <2>2. d \in Tracked /\ clients'[d] = clients[d]
    BY <1>4, <2>1, RejectGuessResult
  <2> QED
    BY <1>1, <2>1, <2>2
<1>5. ASSUME PrintLink \/ Tick \/ UNCHANGED vars
      PROVE  /\ clients'[d].until <= announced'[d]
             /\ announced'[d] < clients'[d].until + Second
  BY <1>1, <1>5 DEF PrintLink, Tick, vars, history, Tracked
<1>6. ASSUME Restart
      PROVE  FALSE
  BY <1>6 DEF Restart
<1> QED
  BY <1>2, <1>3, <1>4, <1>5, <1>6 DEF Next, Request

LEMMA AnnouncementHolds == TypeOK /\ AnnounceInv => RetryAfterSuffices
<1> SUFFICES ASSUME TypeOK, AnnounceInv, NEW c \in Clients, announced[c] # 0, BlockedNow(c)
             PROVE  now < announced[c] /\ announced[c] < clients[c].until + Second
  BY DEF RetryAfterSuffices, TypeOK, Times
<1>1. c \in Tracked /\ now < clients[c].until
  BY DEF BlockedNow, IsBlocked
<1>2. /\ clients[c].until \in Nat /\ now \in Nat /\ announced[c] \in Nat
  <2>1. now \in Nat /\ announced[c] \in Nat
    BY GuardAssumption DEF GuardAssumption, TypeOK, Times
  <2>2. clients[c] \in Record
    BY <1>1 DEF TypeOK, Tracked
  <2>3. clients[c].until \in Nat
    BY <2>2, GuardAssumption DEF GuardAssumption, Record, Times
  <2> QED
    BY <2>1, <2>3
<1> QED
  BY <1>1, <1>2 DEF AnnounceInv

(* A client that waits as long as it was told is not refused again, and    *)
(* does not wait a second too long.                                        *)
THEOREM RetryAfterIsEnough == Spec => []RetryAfterSuffices
<1>1. Init => AnnounceInv
  BY DEF Init, AnnounceInv
<1> QED
  BY <1>1, InitType, StepType, StepAnnounce, AnnouncementHolds, PTL DEF Spec

-----------------------------------------------------------------------------
(* No step of one client ends another's block before a block that ends     *)
(* sooner, and no step of its own does.                                    *)
LEMMA StepHoldsBlocks ==
    ASSUME TypeOK, [Next]_vars, NEW d \in Tracked, BlockedNow(d), restarts' = restarts
    PROVE  \/ d \in DOMAIN clients' /\ clients'[d].until = clients[d].until
           \/ /\ d \notin DOMAIN clients'
              /\ \A e \in DOMAIN clients' : clients'[e].until >= clients[d].until
<1>1. ASSUME NEW c \in Clients, NEW t, Refuse429(c) \/ PrintLink \/ Tick \/ UNCHANGED vars
      PROVE  d \in DOMAIN clients' /\ clients'[d].until = clients[d].until
  BY <1>1 DEF Refuse429, PrintLink, Tick, vars, history, Tracked
<1>2. ASSUME NEW c \in Clients, NEW t, Accept(c, t) \/ Reject(c, t)
      PROVE  d \in DOMAIN clients' /\ clients'[d].until = clients[d].until
  <2>1. d # c
    BY <1>2 DEF Accept, Reject
  <2>2. /\ IsMap(Check(c)) /\ d \in DOMAIN Check(c)
        /\ Check(c)[d] = clients[d]
    BY <2>1, CheckResult
  <2>3. clients' = Check(c) \/ clients' = Without(Check(c), c)
    BY <1>2 DEF Accept, Reject
  <2>4. /\ DOMAIN Without(Check(c), c) = DOMAIN Check(c) \ {c}
        /\ \A e \in DOMAIN Check(c) \ {c} : Without(Check(c), c)[e] = Check(c)[e]
    BY <2>2, WithoutIsMap
  <2> QED
    BY <2>1, <2>2, <2>3, <2>4
<1>3. ASSUME NEW c \in Clients, NEW t, RejectGuess(c, t)
      PROVE  \/ d \in DOMAIN clients' /\ clients'[d].until = clients[d].until
             \/ /\ d \notin DOMAIN clients'
                /\ \A e \in DOMAIN clients' : clients'[e].until >= clients[d].until
  <2>1. d # c
    BY <1>3 DEF RejectGuess
  <2> QED
    BY <1>3, <2>1, RejectGuessResult
<1>4. ASSUME Restart
      PROVE  FALSE
  BY <1>4 DEF Restart, TypeOK
<1>5. CASE \E c \in Clients, t \in Forged \cup minted : Request(c, t)
  BY <1>1, <1>2, <1>3, <1>5 DEF Request
<1>6. CASE PrintLink \/ Tick \/ UNCHANGED vars
  BY <1>6 DEF PrintLink, Tick, vars, history, Tracked
<1> QED
  BY <1>4, <1>5, <1>6 DEF Next

(* A token signed by this process is accepted or expired, never a guess.   *)
LEMMA OwnTokensPass ==
    ASSUME TypeOK, NEW c \in Clients, NEW t \in minted, t.secret = secret, Request(c, t),
           c \in DOMAIN clients'
    PROVE  c \in Tracked /\ clients'[c].failures <= clients[c].failures
<1>1. t.kind = "printed"
  BY DEF TypeOK, Token
<1>2. Verdict(t) \in {"ok", "expired"}
  BY <1>1 DEF Verdict, SignatureMatches
<1>3. ~RejectGuess(c, t)
  BY <1>2 DEF RejectGuess, IsGuess
<1>4. /\ IsMap(Check(c)) /\ DOMAIN Check(c) \subseteq Tracked
      /\ \A e \in DOMAIN Check(c) : Check(c)[e] = clients[e]
  BY CheckResult
<1>5. c \in Tracked => clients[c].failures \in Nat
  BY DEF TypeOK, Tracked, Record
<1>6. CASE Refuse429(c)
  BY <1>5, <1>6 DEF Refuse429, Tracked
<1>7. CASE Accept(c, t)
  BY <1>4, <1>7, WithoutIsMap DEF Accept
<1>8. CASE Reject(c, t)
  BY <1>4, <1>5, <1>8 DEF Reject
<1> QED
  BY <1>3, <1>6, <1>7, <1>8 DEF Request

(* A block in force is not lost to other clients' requests, and a token    *)
(* this process printed never brings one nearer.                           *)
THEOREM BlocksStand == Spec => BlocksAreJust
<1>1. TypeOK /\ [Next]_vars =>
        [\A c \in Tracked :
           BlockedNow(c) /\ now' = now /\ restarts' = restarts =>
             \/ c \in DOMAIN clients' /\ clients'[c].until = clients[c].until
             \/ /\ c \notin DOMAIN clients'
                /\ \A d \in DOMAIN clients' : clients'[d].until >= clients[c].until]_vars
  BY StepHoldsBlocks
<1>2. TypeOK /\ [Next]_vars =>
        [\A c \in Clients, t \in minted :
           t.secret = secret /\ Request(c, t) /\ c \in DOMAIN clients' =>
             c \in Tracked /\ clients'[c].failures <= clients[c].failures]_vars
  BY OwnTokensPass
<1> QED
  BY <1>1, <1>2, TypeCorrect, PTL DEF Spec, BlocksAreJust, BlockHolds, OwnTokensNeverCount

-----------------------------------------------------------------------------
(* Guesses and records.  Options of a whole unit at least: `positive' also *)
(* lets a fraction through, which it rounds down to 0.  A block outlives a *)
(* window, as it does by default.                                          *)
Options == 1 <= MaxFailures /\ 1 <= Window /\ Window <= Block

Count(g, from, to) == Cardinality(Within(g, from, to))
WindowTo(at) == IF at >= Window THEN at - Window + 1 ELSE 0

(* A record counts the guesses of its window, which are the last ones, and *)
(* a block was earned by guesses within a window.                          *)
Fits(rec, g, at) ==
    /\ rec.start <= at
    /\ rec.failures = Count(g, rec.start, at)
    /\ \A i \in DOMAIN g : g[i] < rec.start + Window
    /\ rec.until = 0 => rec.failures < MaxFailures
    /\ rec.until # 0 =>
         /\ rec.until >= Block
         /\ Count(g, WindowTo(rec.until - Block), rec.until - Block) >= MaxFailures
         /\ \A i \in DOMAIN g : g[i] + Block <= rec.until

(* Just before a record's window there was no full one.                    *)
Leads(rec, g) == Count(g, rec.start - Window + 1, rec.start - 1) < MaxFailures

Sparse(g) == \A t \in Int : Count(g, t, t + Window - 1) < 2 * MaxFailures

(* A client that is not tracked has made no guess for a whole window.      *)
ClientFits(c, map, g, at) ==
    /\ \A i \in DOMAIN g : g[i] <= at
    /\ c \in DOMAIN map => Fits(map[c], g, at) /\ Leads(map[c], g)
    /\ c \notin DOMAIN map => \A i \in DOMAIN g : g[i] + Window <= at
    /\ Sparse(g)

CountInv == \A c \in Clients : ClientFits(c, clients, guesses[c], now)

LEMMA WithinNone ==
    ASSUME NEW g, NEW from, NEW to, \A i \in DOMAIN g : g[i] \notin from..to
    PROVE  Count(g, from, to) = 0
<1>1. Within(g, from, to) = {}
  BY DEF Within
<1> QED
  BY <1>1, FS_EmptySet DEF Count

(* One more guess that is counted.                                         *)
LEMMA GuessFits ==
    ASSUME Options, TypeOK, CountInv, NEW c \in Clients, ~BlockedNow(c)
    PROVE  LET rec == FailureRecord(Check(c), c)
               h   == Append(guesses[c], now)
           IN  /\ \A i \in DOMAIN h : h[i] <= now
               /\ Fits(rec, h, now) /\ Leads(rec, h) /\ Sparse(h)
<1> DEFINE map == Check(c)
           rec == FailureRecord(map, c)
           g == guesses[c]
           h == Append(g, now)
           s == map[c].start
           f == map[c].failures
<1>1. /\ MaxFailures \in Nat \ {0} /\ Window \in Nat \ {0} /\ Block \in Nat \ {0}
      /\ Window <= Block /\ MaxTime \in Nat /\ now \in Nat \ {0} /\ now \in Times
  BY GuardAssumption DEF GuardAssumption, Options, TypeOK, Times
<1>2. g \in Seq(Times) /\ h \in Seq(Times)
  BY <1>1 DEF TypeOK
<1>3. /\ \A i \in DOMAIN g : g[i] \in Nat \ {0} /\ g[i] <= now
      /\ Sparse(g)
  BY <1>1, <1>2 DEF CountInv, ClientFits, Times
<1>4. \A i \in DOMAIN h : h[i] = now \/ \E j \in DOMAIN g : h[i] = g[j]
  BY <1>2
<1>5. \A i \in DOMAIN h : h[i] \in Nat \ {0} /\ h[i] <= now
  BY <1>1, <1>3, <1>4
<1>6. /\ IsMap(map)
      /\ c \in DOMAIN map => map[c] = clients[c] /\ c \in Tracked
      /\ c \in DOMAIN map => map[c].until = 0
      /\ c \in Tracked \ DOMAIN map => clients[c].until # 0
  BY CheckResult
<1>7. ASSUME c \in DOMAIN map
      PROVE  /\ map[c] \in Record /\ f \in Nat /\ s \in Nat \ {0}
             /\ Fits(map[c], g, now) /\ Leads(map[c], g)
  <2>1. map[c] \in Record
    BY <1>6, <1>7 DEF IsMap
  <2>2. Fits(map[c], g, now) /\ Leads(map[c], g)
    BY <1>6, <1>7 DEF CountInv, ClientFits, Tracked
  <2> QED
    BY <1>1, <2>1, <2>2 DEF Record, Times
<1>8. ASSUME NEW from \in Int, NEW to \in Int
      PROVE  /\ Count(g, from, to) \in Nat /\ Count(h, from, to) \in Nat
             /\ Count(h, from, to) = Count(g, from, to) + (IF now \in from..to THEN 1 ELSE 0)
  BY <1>1, <1>2, WithinFinite, WithinAppend DEF Count
<1> HIDE DEF g, h, map
<1>9. CASE c \in DOMAIN map /\ now - s < Window
  <2>1. /\ rec.start = s /\ rec.failures = f + 1
        /\ rec.until = IF f + 1 >= MaxFailures THEN now + Block ELSE 0
    BY <1>6, <1>7, <1>9 DEF FailureRecord, Record
  <2>2. s <= now /\ f = Count(g, s, now) /\ f < MaxFailures
    BY <1>6, <1>7, <1>9 DEF Fits
  <2>3. Count(h, s, now) = f + 1
    <3>1. s \in Int /\ now \in Int /\ now \in s..now
      BY <1>1, <1>7, <1>9, <2>2
    <3>2. Count(h, s, now) = Count(g, s, now) + (IF now \in s..now THEN 1 ELSE 0)
      BY <1>8, <3>1
    <3> QED
      BY <2>2, <3>1, <3>2
  <2>4. Count(h, WindowTo(now), now) >= Count(h, s, now)
    <3>1. WindowTo(now) \in Int /\ WindowTo(now) <= s
      BY <1>1, <1>7, <1>9 DEF WindowTo
    <3> QED
      BY <1>1, <1>2, <1>5, <1>7, <1>9, <3>1, WithinMonotone DEF Count
  <2>5. Fits(rec, h, now)
    <3>1. \A i \in DOMAIN h : h[i] < s + Window /\ h[i] + Block <= now + Block
      BY <1>1, <1>5, <1>7, <1>9
    <3>2. /\ WindowTo(now) \in Int /\ now \in Int
          /\ now + Block - Block = now /\ now + Block # 0 /\ now + Block >= Block
      BY <1>1 DEF WindowTo
    <3>3. Count(h, WindowTo(now), now) \in Nat
      BY <1>8, <3>2
    <3> QED
      BY <1>1, <1>7, <1>9, <2>1, <2>2, <2>3, <2>4, <3>1, <3>2, <3>3 DEF Fits
  <2>6. Leads(rec, h)
    <3>1. s - Window + 1 \in Int /\ s - 1 \in Int /\ now \notin (s - Window + 1)..(s - 1)
      BY <1>1, <1>7, <1>9, <2>2
    <3>2. /\ Count(g, s - Window + 1, s - 1) \in Nat
          /\ Count(h, s - Window + 1, s - 1) = Count(g, s - Window + 1, s - 1) + 0
      BY <1>8, <3>1
    <3> QED
      BY <1>7, <1>9, <2>1, <3>2 DEF Leads
  <2>7. ASSUME NEW t \in Int
        PROVE  Count(h, t, t + Window - 1) < 2 * MaxFailures
    <3> DEFINE last == t + Window - 1
    <3>0. last \in Int
      BY <1>1
    <3>1. CASE now \notin t..last
      <4>1. Count(h, t, last) = Count(g, t, last) + 0 /\ Count(g, t, last) \in Nat
        BY <1>8, <3>0, <3>1
      <4> QED
        BY <1>3, <4>1 DEF Sparse
    <3>2. CASE now \in t..last
      <4>0. /\ s - 1 \in Int /\ s - Window + 1 \in Int /\ s \in Int /\ now \in Int
            /\ s - Window + 1 <= t /\ last >= now
        BY <1>1, <1>7, <1>9, <2>2, <3>0, <3>2
      <4>1. Count(g, t, s - 1) <= Count(g, s - Window + 1, s - 1)
        <5>1. \A i \in DOMAIN g : g[i] \in t..(s - 1) => g[i] \in (s - Window + 1)..(s - 1)
          BY <1>3, <4>0
        <5> QED
          BY <1>2, <4>0, <5>1, WithinMonotone DEF Count
      <4>2. Count(g, s - Window + 1, s - 1) < MaxFailures
        BY <1>7, <1>9 DEF Leads
      <4>3. Count(g, s, last) <= f
        <5>1. \A i \in DOMAIN g : g[i] \in s..last => g[i] \in s..now
          BY <1>3, <3>0, <4>0
        <5> QED
          BY <1>2, <2>2, <3>0, <4>0, <5>1, WithinMonotone DEF Count
      <4>4. Count(g, t, last) <= Count(g, t, s - 1) + Count(g, s, last)
        BY <1>2, <3>0, <4>0, WithinSplit DEF Count
      <4>5. /\ Count(g, t, s - 1) \in Nat /\ Count(g, s - Window + 1, s - 1) \in Nat
            /\ Count(g, s, last) \in Nat /\ Count(g, t, last) \in Nat
            /\ Count(h, t, last) = Count(g, t, last) + 1
        BY <1>8, <3>0, <3>2, <4>0
      <4> HIDE DEF last
      <4>6. Count(h, t, last) < 2 * MaxFailures
        BY <1>1, <1>7, <1>9, <2>2, <4>1, <4>2, <4>3, <4>4, <4>5
      <4> QED
        BY <4>6 DEF last
    <3> QED
      BY <3>1, <3>2
  <2> QED
    BY <1>5, <2>5, <2>6, <2>7 DEF Sparse, h, g, map
<1>10. CASE ~(c \in DOMAIN map /\ now - s < Window)
  <2>1. /\ rec.start = now /\ rec.failures = 1
        /\ rec.until = IF 1 >= MaxFailures THEN now + Block ELSE 0
    BY <1>1, <1>6, <1>10 DEF FailureRecord
  <2>2. /\ \A i \in DOMAIN g : g[i] < now
        /\ Count(g, now - Window + 1, now) < MaxFailures
    <3>1. CASE c \in DOMAIN map
      <4>1. s + Window <= now /\ \A i \in DOMAIN g : g[i] < s + Window
        BY <1>1, <1>7, <1>10, <3>1 DEF Fits
      <4>2. f = Count(g, s, now) /\ f < MaxFailures
        BY <1>6, <1>7, <3>1 DEF Fits
      <4>3. Count(g, now - Window + 1, now) <= Count(g, s, now)
        BY <1>1, <1>2, <1>3, <1>7, <3>1, <4>1, WithinMonotone DEF Count
      <4>4. Count(g, now - Window + 1, now) \in Nat
        <5>1. now - Window + 1 \in Int /\ now \in Int
          BY <1>1
        <5> QED
          BY <5>1, <1>8
      <4> QED
        BY <1>1, <1>3, <1>7, <3>1, <4>1, <4>2, <4>3, <4>4
    <3>2. CASE c \notin DOMAIN map
      <4>1. \A i \in DOMAIN g : g[i] + Window <= now
        <5>1. CASE c \notin Tracked
          BY <5>1 DEF CountInv, ClientFits, Tracked, g
        <5>2. CASE c \in Tracked
          <6>1. clients[c].until # 0 /\ clients[c].until <= now /\ clients[c].until \in Nat
            BY <1>1, <1>6, <3>2, <5>2 DEF BlockedNow, IsBlocked, TypeOK, Tracked, Record
          <6>2. \A i \in DOMAIN g : g[i] + Block <= clients[c].until
            BY <5>2, <6>1 DEF CountInv, ClientFits, Fits, Tracked, g
          <6> QED
            BY <1>1, <1>3, <6>1, <6>2
        <5> QED
          BY <5>1, <5>2
      <4>2. Count(g, now - Window + 1, now) = 0
        <5>1. \A i \in DOMAIN g : g[i] \notin (now - Window + 1)..now
          BY <1>1, <1>3, <4>1
        <5> QED
          BY <5>1, WithinNone
      <4> QED
        BY <1>1, <1>3, <4>1, <4>2
    <3> QED
      BY <3>1, <3>2
  <2>3. Count(h, now, now) = 1
    <3>1. \A i \in DOMAIN g : g[i] \notin now..now
      BY <1>1, <1>3, <2>2
    <3>2. Count(g, now, now) = 0
      BY <3>1, WithinNone
    <3> QED
      BY <1>1, <1>8, <3>2
  <2>4. Count(h, WindowTo(now), now) >= Count(h, now, now)
    <3>1. WindowTo(now) \in Int /\ WindowTo(now) <= now
      BY <1>1 DEF WindowTo
    <3> QED
      BY <1>1, <1>2, <1>5, <3>1, WithinMonotone DEF Count
  <2>5. Fits(rec, h, now)
    <3>1. \A i \in DOMAIN h : h[i] < now + Window /\ h[i] + Block <= now + Block
      BY <1>1, <1>5
    <3>2. /\ WindowTo(now) \in Int /\ now \in Int
          /\ now + Block - Block = now /\ now + Block # 0 /\ now + Block >= Block
      BY <1>1 DEF WindowTo
    <3>3. Count(h, WindowTo(now), now) \in Nat
      BY <1>8, <3>2
    <3> QED
      BY <1>1, <2>1, <2>3, <2>4, <3>1, <3>2, <3>3 DEF Fits
  <2>6. Leads(rec, h)
    <3>0. /\ now - Window + 1 \in Int /\ now - 1 \in Int /\ now \in Int
          /\ now \notin (now - Window + 1)..(now - 1)
      BY <1>1
    <3>1. Count(g, now - Window + 1, now - 1) <= Count(g, now - Window + 1, now)
      <4>1. \A i \in DOMAIN g : g[i] \in (now - Window + 1)..(now - 1) =>
                                g[i] \in (now - Window + 1)..now
        BY <1>3, <3>0
      <4> QED
        BY <1>2, <3>0, <4>1, WithinMonotone DEF Count
    <3>2. Count(h, now - Window + 1, now - 1) = Count(g, now - Window + 1, now - 1) + 0
      BY <1>8, <3>0
    <3>3. /\ Count(g, now - Window + 1, now - 1) \in Nat
          /\ Count(g, now - Window + 1, now) \in Nat
      BY <1>8, <3>0
    <3> QED
      BY <1>1, <2>1, <2>2, <3>1, <3>2, <3>3 DEF Leads
  <2>7. ASSUME NEW t \in Int
        PROVE  Count(h, t, t + Window - 1) < 2 * MaxFailures
    <3> DEFINE last == t + Window - 1
    <3>0. last \in Int
      BY <1>1
    <3>1. CASE now \notin t..last
      <4>1. Count(h, t, last) = Count(g, t, last) + 0 /\ Count(g, t, last) \in Nat
        BY <1>8, <3>0, <3>1
      <4> QED
        BY <1>3, <4>1 DEF Sparse
    <3>2. CASE now \in t..last
      <4>0. /\ now - Window + 1 \in Int /\ now \in Int /\ now - Window + 1 <= t
        BY <1>1, <3>0, <3>2
      <4>1. Count(g, t, last) <= Count(g, now - Window + 1, now)
        <5>1. \A i \in DOMAIN g : g[i] \in t..last => g[i] \in (now - Window + 1)..now
          BY <1>3, <3>0, <4>0
        <5> QED
          BY <1>2, <3>0, <4>0, <5>1, WithinMonotone DEF Count
      <4>2. /\ Count(g, t, last) \in Nat /\ Count(g, now - Window + 1, now) \in Nat
            /\ Count(h, t, last) = Count(g, t, last) + 1
        BY <1>8, <3>0, <3>2, <4>0
      <4> HIDE DEF last
      <4>3. Count(h, t, last) < 2 * MaxFailures
        BY <1>1, <2>2, <4>1, <4>2
      <4> QED
        BY <4>3 DEF last
    <3> QED
      BY <3>1, <3>2
  <2> QED
    BY <1>5, <2>5, <2>6, <2>7 DEF Sparse, h, g, map
<1> QED
  BY <1>9, <1>10

LEMMA NoGuessFits == ASSUME Options, NEW map, NEW c, c \notin DOMAIN map, NEW at
                     PROVE  ClientFits(c, map, <<>>, at)
<1>1. \A t \in Int : Count(<<>>, t, t + Window - 1) = 0
  BY WithinNone
<1>2. MaxFailures \in Nat \ {0}
  BY GuardAssumption DEF GuardAssumption, Options
<1>3. Sparse(<<>>)
  BY <1>1, <1>2 DEF Sparse
<1> QED
  BY <1>3 DEF ClientFits

(* Nothing but time passes for a client.                                   *)
LEMMA TimeFits ==
    ASSUME TypeOK, CountInv, NEW c \in Clients, NEW map, NEW at \in Nat, now <= at,
           c \in DOMAIN map <=> c \in Tracked,
           c \in Tracked => map[c] = clients[c]
    PROVE  ClientFits(c, map, guesses[c], at)
<1> DEFINE g == guesses[c]
<1>1. ClientFits(c, clients, g, now)
  BY DEF CountInv
<1>2. /\ g \in Seq(Times) /\ now \in Nat /\ Window \in Nat
      /\ \A i \in DOMAIN g : g[i] \in Nat
  <2>1. guesses \in [Clients -> Seq(Times)] /\ now \in Times
    BY DEF TypeOK
  <2>2. g \in Seq(Times)
    BY <2>1
  <2>3. Times \subseteq Nat /\ Window \in Nat
    BY GuardAssumption DEF GuardAssumption, Times
  <2> HIDE DEF g
  <2>4. \A i \in DOMAIN g : g[i] \in Times
    BY <2>2
  <2> QED
    BY <2>1, <2>2, <2>3, <2>4
<1> HIDE DEF g
<1>3. \A i \in DOMAIN g : g[i] <= now
  BY <1>1 DEF ClientFits
<1>4. ASSUME c \in Tracked
      PROVE  Fits(map[c], g, at) /\ Leads(map[c], g)
  <2>1. Fits(map[c], g, now) /\ Leads(map[c], g) /\ map[c].start \in Nat
    BY <1>1, <1>4 DEF ClientFits, Tracked, TypeOK, Record, Times
  <2>2. Within(g, map[c].start, at) = Within(g, map[c].start, now)
    BY <1>2, <1>3, <2>1 DEF Within
  <2> QED
    BY <1>2, <2>1, <2>2 DEF Fits, Count
<1>5. ASSUME c \notin Tracked
      PROVE  \A i \in DOMAIN g : g[i] + Window <= at
  BY <1>1, <1>2, <1>5 DEF ClientFits, Tracked
<1> QED
  BY <1>1, <1>2, <1>3, <1>4, <1>5 DEF ClientFits, g

LEMMA StepCount == Options /\ TypeOK /\ CountInv /\ [Next]_vars => CountInv'
<1> SUFFICES ASSUME Options, TypeOK, CountInv, [Next]_vars, NEW d \in Clients
             PROVE  ClientFits(d, clients', guesses'[d], now')
  BY DEF CountInv
<1>0. /\ guesses \in [Clients -> Seq(Times)] /\ now \in Nat
      /\ {Window, Block} \subseteq Nat /\ Window <= Block
  BY GuardNumbers, GuardTyped DEF Options
<1>1. ASSUME guesses'[d] = guesses[d], now' \in Nat, now <= now',
             d \in DOMAIN clients' <=> d \in Tracked,
             d \in Tracked => clients'[d] = clients[d]
      PROVE  ClientFits(d, clients', guesses'[d], now')
  BY <1>1, TimeFits
<1>2. ASSUME guesses'[d] = <<>>, d \notin DOMAIN clients'
      PROVE  ClientFits(d, clients', guesses'[d], now')
  BY <1>2, NoGuessFits
<1>3. ASSUME NEW c \in Clients, NEW t, Refuse429(c) \/ PrintLink \/ Tick \/ UNCHANGED vars
      PROVE  ClientFits(d, clients', guesses'[d], now')
  <2>1. /\ guesses' = guesses /\ clients' = clients /\ now' \in Nat /\ now <= now'
    BY <1>0, <1>3 DEF Refuse429, PrintLink, Tick, vars, history
  <2> QED
    BY <1>1, <2>1 DEF Tracked
<1>4. ASSUME NEW c \in Clients, NEW t, Accept(c, t)
      PROVE  ClientFits(d, clients', guesses'[d], now')
  <2>1. /\ IsMap(Check(c)) /\ DOMAIN Check(c) \subseteq Tracked
        /\ \A e \in DOMAIN Check(c) : Check(c)[e] = clients[e]
        /\ \A e \in Tracked \ {c} : e \in DOMAIN Check(c)
    BY CheckResult
  <2>2. /\ DOMAIN clients' = DOMAIN Check(c) \ {c}
        /\ \A e \in DOMAIN Check(c) \ {c} : clients'[e] = Check(c)[e]
    BY <1>4, <2>1, WithoutIsMap DEF Accept
  <2>3. /\ guesses'[d] = IF d = c THEN <<>> ELSE guesses[d]
        /\ now' = now
    BY <1>0, <1>4 DEF Accept
  <2> QED
    BY <1>0, <1>1, <1>2, <2>1, <2>2, <2>3
<1>5. ASSUME NEW c \in Clients, NEW t, Reject(c, t)
      PROVE  ClientFits(d, clients', guesses'[d], now')
  <2>1. /\ IsMap(Check(c)) /\ DOMAIN Check(c) \subseteq Tracked
        /\ \A e \in DOMAIN Check(c) : Check(c)[e] = clients[e]
        /\ \A e \in Tracked \ {c} : e \in DOMAIN Check(c)
        /\ c \in Tracked \ DOMAIN Check(c) => clients[c].until # 0 /\ ~BlockedNow(c)
    BY CheckResult
  <2>2. clients' = Check(c) /\ guesses' = guesses /\ now' = now
    BY <1>5 DEF Reject
  <2>3. CASE d = c /\ c \in Tracked \ DOMAIN Check(c)
    <3>1. ClientFits(c, clients, guesses[c], now)
      BY DEF CountInv
    <3>2. /\ clients[c].until \in Nat /\ clients[c].until # 0
          /\ clients[c].until <= now
      BY <1>0, <2>1, <2>3 DEF TypeOK, Tracked, Record, BlockedNow, IsBlocked
    <3>3. \A i \in DOMAIN guesses[c] : guesses[c][i] + Block <= clients[c].until
      BY <2>3, <3>1, <3>2 DEF ClientFits, Fits, Tracked
    <3>4. \A i \in DOMAIN guesses[c] : guesses[c][i] \in Nat
      BY <1>0, GuardAssumption DEF GuardAssumption, Times
    <3>5. \A i \in DOMAIN guesses[c] : guesses[c][i] + Window <= now
      BY <1>0, <3>2, <3>3, <3>4
    <3> QED
      BY <2>2, <2>3, <3>1, <3>5 DEF ClientFits
  <2>4. CASE ~(d = c /\ c \in Tracked \ DOMAIN Check(c))
    <3>1. d \in DOMAIN clients' <=> d \in Tracked
      BY <2>1, <2>2, <2>4
    <3>2. d \in Tracked => clients'[d] = clients[d]
      BY <2>1, <2>2, <3>1
    <3> QED
      BY <1>0, <1>1, <2>2, <3>1, <3>2
  <2> QED
    BY <2>3, <2>4
<1>6. ASSUME NEW c \in Clients, NEW t, RejectGuess(c, t)
      PROVE  ClientFits(d, clients', guesses'[d], now')
  <2>1. /\ \A e \in DOMAIN clients' : e # c => e \in Tracked /\ clients'[e] = clients[e]
        /\ c \in DOMAIN clients' => clients'[c] = FailureRecord(Check(c), c)
    BY <1>6, RejectGuessResult
  <2>2. /\ ~BlockedNow(c) /\ now' = now
        /\ guesses'[d] = IF d \in (Tracked \cup {c}) \ DOMAIN clients' THEN <<>>
                         ELSE IF d = c THEN Append(guesses[d], now)
                         ELSE guesses[d]
    BY <1>6 DEF RejectGuess
  <2>3. CASE d \in (Tracked \cup {c}) \ DOMAIN clients'
    BY <1>2, <2>2, <2>3
  <2>4. CASE d = c /\ c \in DOMAIN clients'
    <3>1. /\ clients'[c] = FailureRecord(Check(c), c)
          /\ guesses'[c] = Append(guesses[c], now)
      BY <2>1, <2>2, <2>4
    <3>2. /\ \A i \in DOMAIN guesses'[c] : guesses'[c][i] <= now
          /\ Fits(clients'[c], guesses'[c], now)
          /\ Leads(clients'[c], guesses'[c]) /\ Sparse(guesses'[c])
      BY <2>2, <3>1, GuessFits
    <3> QED
      BY <2>2, <2>4, <3>2 DEF ClientFits
  <2>5. CASE d # c /\ ~(d \in Tracked \ DOMAIN clients')
    BY <1>0, <1>1, <2>1, <2>2, <2>5
  <2> QED
    BY <2>3, <2>4, <2>5
<1>7. ASSUME Restart
      PROVE  ClientFits(d, clients', guesses'[d], now')
  <2>1. guesses'[d] = <<>> /\ d \notin DOMAIN clients'
    BY <1>7 DEF Restart
  <2> QED
    BY <1>2, <2>1
<1>8. CASE \E c \in Clients, t \in Forged \cup minted : Request(c, t)
  BY <1>3, <1>4, <1>5, <1>6, <1>8 DEF Request
<1>9. CASE PrintLink \/ Tick \/ UNCHANGED vars
  BY <1>3, <1>9
<1> QED
  BY <1>7, <1>8, <1>9 DEF Next

LEMMA CountsJustify == Options /\ TypeOK /\ CountInv => GuessesAreCounted
<1> SUFFICES ASSUME Options, TypeOK, CountInv
             PROVE  BlockNeedsGuesses /\ GuessRateBounded
  BY DEF GuessesAreCounted
<1>1. \A c \in Clients : ClientFits(c, clients, guesses[c], now)
  BY DEF CountInv
<1>2. \A c, from, to : GuessesIn(c, from, to) = Count(guesses[c], from, to)
  BY DEF GuessesIn, Count, Within
<1>3. BlockNeedsGuesses
  <2> SUFFICES ASSUME NEW c \in Tracked, clients[c].until # 0
               PROVE  Count(guesses[c], WindowTo(clients[c].until - Block),
                            clients[c].until - Block) >= MaxFailures
    BY <1>2 DEF BlockNeedsGuesses, WindowTo
  <2>1. c \in Clients
    BY DEF TypeOK, Tracked
  <2> QED
    BY <1>1, <2>1 DEF ClientFits, Fits, Tracked
<1>4. GuessRateBounded
  <2>1. \A t \in Times : t \in Int
    BY GuardAssumption DEF GuardAssumption, Times
  <2> QED
    BY <1>1, <1>2, <2>1 DEF GuessRateBounded, ClientFits, Sparse
<1> QED
  BY <1>3, <1>4

(* With such options a client is locked out only for guesses of its own    *)
(* within a window, and a client the limiter did not forget guesses less   *)
(* than twice as often in any stretch as a window lets it.                 *)
THEOREM GuessesCounted == Options /\ Spec => []GuessesAreCounted
<1>1. Options /\ Init => CountInv
  <2> SUFFICES ASSUME Options, Init, NEW c \in Clients
               PROVE  ClientFits(c, clients, guesses[c], now)
    BY DEF CountInv
  <2>1. guesses[c] = <<>> /\ c \notin DOMAIN clients
    BY DEF Init
  <2> QED
    BY <2>1, NoGuessFits
<1>2. SUFFICES ASSUME Options PROVE Spec => []GuessesAreCounted
  OBVIOUS
<1>3. Init => CountInv
  BY <1>1, <1>2
<1>4. TypeOK /\ CountInv /\ [Next]_vars => CountInv'
  BY <1>2, StepCount
<1>5. TypeOK /\ CountInv => GuessesAreCounted
  BY <1>2, CountsJustify
<1> QED
  BY <1>3, <1>4, <1>5, InitType, StepType, PTL DEF Spec
=============================================================================
