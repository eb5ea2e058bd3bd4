---------------------------- MODULE Limiter_proofs ----------------------------
(***************************************************************************)
(* The properties of Limiter that hold of every state, for any lockout,    *)
(* any number of attempts and of concurrent requests.  Pruning a list cuts *)
(* off its beginning, which is what pruning means as long as every list is *)
(* in the order of time: InOrder is what TypeOK and BurstIsBounded rest on.*)
(***************************************************************************)
EXTENDS Limiter, FiniteSetTheorems, SequenceTheorems, WellFoundedInduction, TLAPS

\* A list of ages in the order of time.
InOrder(s) ==
    /\ s \in Seq(Ages)
    /\ \A i, j \in 1..Len(s) : i < j => s[i] >= s[j]

IInv ==
    /\ TypeOK /\ BurstIsBounded
    /\ \A ip \in Ips : InOrder(attempts[ip])

-----------------------------------------------------------------------------
(* The lists.                                                               *)

\* A set of numbers from 1 to n that has the predecessors of its members
\* is an interval from 1.
LEMMA InitialSegment ==
  ASSUME NEW n \in Nat, NEW S \in SUBSET (1..n),
         \A i \in S, j \in 1..n : j < i => j \in S
  PROVE  Cardinality(S) \in 0..n /\ S = 1..Cardinality(S)
  <1> DEFINE Out == (1..n + 1) \ S
  <1>1. Out # {} /\ Out \subseteq Nat
    <2>1. n + 1 \in Out
      OBVIOUS
    <2>2. QED
      BY <2>1
  <1>2. PICK p \in Out : \A q \in Out : ~ (<<q, p>> \in OpToRel(<, Nat))
    <2> HIDE DEF Out
    <2>1. QED
      BY <1>1, NatLessThanWellFounded, WFMin
  <1>3. \A q \in Out : ~ (q < p)
    BY <1>1, <1>2 DEF OpToRel
  <1>4. p \in 1..n + 1 /\ p \notin S
    OBVIOUS
  <1>5. ASSUME NEW i \in 1..n PROVE i \in S <=> i < p
    <2>1. CASE i < p
      BY <1>3, <1>4, <2>1
    <2>2. CASE ~ (i < p)
      BY <1>4, <2>2
    <2>3. QED
      BY <2>1, <2>2
  <1>6. S = 1..p - 1
    <2>1. \A i \in 1..n : i \in S <=> i \in 1..p - 1
      BY <1>4, <1>5
    <2>2. 1..p - 1 \subseteq 1..n
      BY <1>4
    <2> HIDE DEF Out
    <2>3. QED
      BY <2>1, <2>2
  <1>7. Cardinality(1..p - 1) = p - 1
    BY <1>4, FS_Interval
  <1>8. QED
    BY <1>4, <1>6, <1>7

\* The failures of a list that are too old.
Old(s) == {i \in 1..Len(s) : s[i] >= LOCKOUT_SECONDS}

Pruned(s) == SubSeq(s, Cardinality(Old(s)) + 1, Len(s))

LEMMA RecentIsPruned ==
  ASSUME NEW ip \in Ips, attempts[ip] \in Seq(Ages)
  PROVE  recent(ip) = Pruned(attempts[ip])
  <1>1. DOMAIN attempts[ip] = 1..Len(attempts[ip])
    OBVIOUS
  <1>2. QED
    BY <1>1 DEF recent, Pruned, Old

LEMMA AgesAreNumbers == Ages \subseteq Nat /\ 0 \in Ages
  BY LimiterAssumption DEF Ages

LEMMA AgesOf ==
  ASSUME NEW s \in Seq(Ages)
  PROVE  Len(s) \in Nat /\ \A i \in 1..Len(s) : s[i] \in Nat
  <1>1. ASSUME NEW i \in 1..Len(s) PROVE s[i] \in Nat
    <2>1. s[i] \in Ages
      OBVIOUS
    <2>2. QED
      BY <2>1, AgesAreNumbers
  <1>2. QED
    BY <1>1

\* The old failures are the first ones.
LEMMA OldAreFirst ==
  ASSUME NEW s, InOrder(s)
  PROVE  Cardinality(Old(s)) \in 0..Len(s) /\ Old(s) = 1..Cardinality(Old(s))
  <1>1. Len(s) \in Nat /\ \A i \in 1..Len(s) : s[i] \in Int
    BY AgesOf DEF InOrder
  <1>2. Old(s) \in SUBSET (1..Len(s))
    BY DEF Old
  <1>3. \A i \in Old(s), j \in 1..Len(s) : j < i => j \in Old(s)
    BY <1>1, LimiterAssumption DEF Old, InOrder
  <1>4. QED
    BY <1>1, <1>2, <1>3, InitialSegment

\* A pruned list is in order, has the young failures only, and pruning it
\* again changes nothing.
LEMMA PrunedIs ==
  ASSUME NEW s, InOrder(s)
  PROVE  /\ InOrder(Pruned(s)) /\ Old(Pruned(s)) = {} /\ Pruned(Pruned(s)) = Pruned(s)
         /\ Len(Pruned(s)) = Len(s) - Cardinality(Old(s))
  <1> DEFINE k == Cardinality(Old(s))
             p == Pruned(s)
  <1>1. k \in 0..Len(s) /\ Old(s) = 1..k /\ Len(s) \in Nat /\ s \in Seq(Ages)
    BY OldAreFirst DEF InOrder
  <1>2. \A i \in k + 1..Len(s) : s[i] \in Ages
    BY <1>1
  <1>3. /\ p \in Seq(Ages) /\ Len(p) = Len(s) - k
        /\ \A i \in 1..Len(s) - k : p[i] = s[k + i]
    <2>1. p = SubSeq(s, k + 1, Len(s)) /\ k + 1 \in Int /\ Len(s) \in Int
      BY <1>1 DEF Pruned
    <2> HIDE DEF k, p
    <2>2. /\ SubSeq(s, k + 1, Len(s)) \in Seq(Ages)
          /\ Len(SubSeq(s, k + 1, Len(s))) = IF k + 1 <= Len(s) THEN Len(s) - (k + 1) + 1 ELSE 0
          /\ \A i \in 1..Len(s) - (k + 1) + 1 : SubSeq(s, k + 1, Len(s))[i] = s[k + 1 + i - 1]
      BY <1>2, <2>1, SubSeqProperties
    <2>3. QED
      BY <1>1, <2>1, <2>2
  <1> HIDE DEF p
  <1>4. InOrder(p)
    <2>1. ASSUME NEW i \in 1..Len(p), NEW j \in 1..Len(p), i < j PROVE p[i] >= p[j]
      <3>1. p[i] = s[k + i] /\ p[j] = s[k + j]
        BY <1>3
      <3>2. k + i \in 1..Len(s) /\ k + j \in 1..Len(s) /\ k + i < k + j
        BY <1>1, <1>3, <2>1
      <3> HIDE DEF k
      <3>3. QED
        BY <3>1, <3>2 DEF InOrder
    <2>2. QED
      BY <1>3, <2>1 DEF InOrder
  <1>5. \A i \in 1..Len(p) : p[i] < LOCKOUT_SECONDS
    <2> SUFFICES ASSUME NEW i \in 1..Len(p) PROVE p[i] < LOCKOUT_SECONDS
      OBVIOUS
    <2>1. k + i \in 1..Len(s) /\ k + i \notin 1..k /\ p[i] = s[k + i]
      BY <1>1, <1>3
    <2>2. s[k + i] \in Nat
      BY <1>1, <2>1, AgesOf
    <2> HIDE DEF k
    <2>3. QED
      BY <1>1, <2>1, <2>2, LimiterAssumption DEF Old
  <1>6. Old(p) = {}
    <2>1. \A i \in 1..Len(p) : p[i] \in Nat
      BY <1>3, AgesOf
    <2>2. QED
      BY <1>5, <2>1, LimiterAssumption DEF Old
  <1>7. Pruned(p) = p
    <2>1. Cardinality({}) = 0
      BY FS_EmptySet
    <2>2. Pruned(p) = SubSeq(p, 1, Len(p))
      BY <1>6, <2>1 DEF Pruned
    <2>3. QED
      BY <1>3, <2>2, SubSeqFull
  <1>8. QED
    BY <1>3, <1>4, <1>6, <1>7 DEF p

\* The list just pruned and appended to is one longer.
LEMMA AppendedIs ==
  ASSUME NEW s, InOrder(s)
  PROVE  /\ InOrder(Append(Pruned(s), 0))
         /\ Len(Pruned(Append(Pruned(s), 0))) = Len(Pruned(s)) + 1
  <1> DEFINE p == Pruned(s)
             q == Append(p, 0)
  <1>1. InOrder(p) /\ Old(p) = {} /\ p \in Seq(Ages)
    BY PrunedIs DEF InOrder
  <1> HIDE DEF p
  <1>2. /\ q \in Seq(Ages) /\ Len(q) = Len(p) + 1 /\ q[Len(p) + 1] = 0
        /\ \A i \in 1..Len(p) : q[i] = p[i]
    BY <1>1, AgesAreNumbers, AppendProperties
  <1> HIDE DEF q
  <1>3. \A i \in 1..Len(q) : q[i] \in Nat
    BY <1>2, AgesOf
  <1>4. Len(p) \in Nat
    BY <1>1
  <1>5. InOrder(q)
    <2>1. ASSUME NEW i \in 1..Len(q), NEW j \in 1..Len(q), i < j PROVE q[i] >= q[j]
      <3>1. i \in 1..Len(p) /\ q[i] = p[i] /\ q[i] \in Nat
        BY <1>2, <1>3, <1>4, <2>1
      <3>2. CASE j = Len(p) + 1
        BY <1>2, <3>1, <3>2
      <3>3. CASE j # Len(p) + 1
        <4>1. j \in 1..Len(p) /\ q[j] = p[j]
          BY <1>2, <1>4, <3>3
        <4>2. QED
          BY <1>1, <2>1, <3>1, <4>1 DEF InOrder
      <3>4. QED
        BY <3>2, <3>3
    <2>2. QED
      BY <1>2, <2>1 DEF InOrder
  <1>6. Old(q) = {}
    BY <1>1, <1>2, <1>4, LimiterAssumption DEF Old
  <1>7. Len(Pruned(q)) = Len(q)
    <2>1. Len(Pruned(q)) = Len(q) - Cardinality({})
      BY <1>5, <1>6, PrunedIs
    <2>2. Cardinality({}) = 0 /\ Len(q) \in Nat
      BY <1>2, FS_EmptySet
    <2>3. QED
      BY <2>1, <2>2
  <1>8. QED
    BY <1>2, <1>5, <1>7 DEF p, q

\* As time goes by a list stays in order and has no more young failures.
LEMMA AgedIs ==
  ASSUME NEW s, InOrder(s)
  PROVE  LET t == [i \in DOMAIN s |-> IF s[i] < LOCKOUT_SECONDS THEN s[i] + 1 ELSE s[i]]
         IN  InOrder(t) /\ Len(Pruned(t)) <= Len(Pruned(s))
  <1> DEFINE t == [i \in DOMAIN s |-> IF s[i] < LOCKOUT_SECONDS THEN s[i] + 1 ELSE s[i]]
  <1>1. s \in Seq(Ages) /\ Len(s) \in Nat /\ DOMAIN s = 1..Len(s)
    BY DEF InOrder
  <1>2. ASSUME NEW i \in 1..Len(s)
        PROVE  /\ s[i] \in Nat /\ t[i] \in Ages
               /\ t[i] = IF s[i] < LOCKOUT_SECONDS THEN s[i] + 1 ELSE s[i]
    <2>1. s[i] \in Ages
      BY <1>1
    <2>2. s[i] \in 0..LOCKOUT_SECONDS
      BY <2>1 DEF Ages
    <2>3. t[i] = IF s[i] < LOCKOUT_SECONDS THEN s[i] + 1 ELSE s[i]
      BY <1>1
    <2> HIDE DEF t
    <2>4. QED
      BY <2>2, <2>3, LimiterAssumption DEF Ages
  <1>3. t \in Seq(Ages) /\ Len(t) = Len(s)
    <2>1. t = [i \in 1..Len(s) |-> t[i]]
      BY <1>1
    <2> HIDE DEF t
    <2>2. QED
      BY <1>1, <1>2, <2>1
  <1> HIDE DEF t
  <1>4. InOrder(t)
    <2>1. ASSUME NEW i \in 1..Len(s), NEW j \in 1..Len(s), i < j PROVE t[i] >= t[j]
      <3>1. s[i] >= s[j]
        BY <2>1 DEF InOrder
      <3>2. QED
        BY <1>2, <3>1, LimiterAssumption
    <2>2. QED
      BY <1>3, <2>1 DEF InOrder
  <1>5. Cardinality(Old(s)) <= Cardinality(Old(t))
    <2>1. Old(s) \subseteq Old(t)
      BY <1>2, <1>3, LimiterAssumption DEF Old
    <2>2. IsFiniteSet(Old(t))
      BY <1>4, OldAreFirst, FS_Interval
    <2>3. QED
      BY <2>1, <2>2, FS_Subset
  <1>6. /\ Len(Pruned(s)) = Len(s) - Cardinality(Old(s))
        /\ Len(Pruned(t)) = Len(t) - Cardinality(Old(t))
    BY <1>4, PrunedIs
  <1>7. Cardinality(Old(s)) \in Nat /\ Cardinality(Old(t)) \in Nat
    BY <1>3, <1>4, OldAreFirst
  <1>8. QED
    BY <1>1, <1>3, <1>4, <1>5, <1>6, <1>7 DEF t

-----------------------------------------------------------------------------
(* The steps.                                                               *)

\* The requests of an address that are under way, by the table w.
Under(w, ip) == {r \in Requests : w[r] = ip}

Bound(s, w, ip) ==
    Len(Pruned(s)) + Cardinality(Under(w, ip)) <= MAX_ATTEMPTS - 1 + Cardinality(Requests)

\* BurstIsBounded speaks of the pruned lists.
LEMMA BurstIs ==
  ASSUME TypeOK
  PROVE  BurstIsBounded <=> \A ip \in Ips : Bound(attempts[ip], waiting, ip)
  <1>1. \A ip \in Ips : recent(ip) = Pruned(attempts[ip])
    BY RecentIsPruned DEF TypeOK
  <1>2. QED
    BY <1>1 DEF BurstIsBounded, Bound, Under

\* The requests under way are no more than there can be.
LEMMA UnderIs ==
  ASSUME NEW w, NEW ip
  PROVE  /\ IsFiniteSet(Under(w, ip)) /\ Cardinality(Under(w, ip)) \in Nat
         /\ Cardinality(Requests) \in Nat
         /\ Cardinality(Under(w, ip)) <= Cardinality(Requests)
  <1>1. Under(w, ip) \in SUBSET Requests
    BY DEF Under
  <1>2. QED
    BY <1>1, LimiterAssumption, FS_Subset, FS_CardinalityType

\* A step changes the list of one address, keeps it in order and bounded, and
\* lets no request of another address begin.
LEMMA StepInv ==
  ASSUME IInv, NEW ip \in Ips, NEW s, InOrder(s), attempts' = [attempts EXCEPT ![ip] = s],
         waiting' \in [Requests -> Ips \cup {None}], Bound(s, waiting', ip),
         \A c \in Ips \ {ip} : Under(waiting', c) \subseteq Under(waiting, c)
  PROVE  IInv'
  <1>1. attempts \in [Ips -> Seq(Ages)] /\ s \in Seq(Ages)
    BY DEF IInv, TypeOK, InOrder
  <1>2. TypeOK'
    BY <1>1 DEF TypeOK
  <1>3. \A c \in Ips : InOrder(attempts'[c])
    BY <1>1 DEF IInv
  <1>4. \A c \in Ips : Bound(attempts'[c], waiting', c)
    <2> SUFFICES ASSUME NEW c \in Ips PROVE Bound(attempts'[c], waiting', c)
      OBVIOUS
    <2>1. CASE c = ip
      BY <1>1, <2>1
    <2>2. CASE c # ip
      <3>1. attempts'[c] = attempts[c] /\ Bound(attempts[c], waiting, c)
        BY <1>1, <2>2, BurstIs DEF IInv
      <3>2. Cardinality(Under(waiting', c)) <= Cardinality(Under(waiting, c))
        BY <2>2, UnderIs, FS_Subset
      <3>3. Len(Pruned(attempts[c])) \in Nat
        <4>1. InOrder(Pruned(attempts[c]))
          BY PrunedIs DEF IInv
        <4>2. QED
          BY <4>1 DEF InOrder
      <3>4. /\ Cardinality(Under(waiting, c)) \in Nat /\ Cardinality(Under(waiting', c)) \in Nat
            /\ Cardinality(Requests) \in Nat
        BY UnderIs
      <3>5. QED
        BY <3>1, <3>2, <3>3, <3>4, LimiterAssumption DEF Bound
    <2>3. QED
      BY <2>1, <2>2
  <1>5. BurstIsBounded'
    <2>1. ASSUME NEW c \in Ips PROVE recent(c)' = Pruned(attempts'[c])
      <3>1. DOMAIN attempts'[c] = 1..Len(attempts'[c])
        BY <1>2 DEF TypeOK
      <3>2. QED
        BY <3>1 DEF recent, Pruned, Old
    <2>2. QED
      BY <1>4, <2>1 DEF BurstIsBounded, Bound, Under
  <1>6. QED
    BY <1>2, <1>3, <1>5 DEF IInv

\* The check prunes the list, and lets a request in only below the limit.
LEMMA is_rate_limitedInv ==
  ASSUME IInv, NEW r \in Requests, NEW ip \in Ips, is_rate_limited(r, ip)
  PROVE  IInv'
  <1> DEFINE p == Pruned(attempts[ip])
  <1>1. recent(ip) = p /\ InOrder(attempts[ip]) /\ Bound(attempts[ip], waiting, ip)
    BY RecentIsPruned, BurstIs DEF IInv, TypeOK
  <1>2. InOrder(p) /\ Pruned(p) = p
    BY <1>1, PrunedIs
  <1>3. attempts' = [attempts EXCEPT ![ip] = p] /\ waiting[r] = None
    BY <1>1 DEF is_rate_limited
  <1>4. waiting \in [Requests -> Ips \cup {None}] /\ Len(p) \in Nat
    BY <1>2 DEF IInv, TypeOK, InOrder
  <1> HIDE DEF p
  <1>5. CASE limited(ip)
    <2>1. waiting' = waiting
      BY <1>5 DEF is_rate_limited
    <2>2. Bound(p, waiting', ip)
      BY <1>1, <1>2, <2>1 DEF Bound, p
    <2>3. QED
      BY <1>2, <1>3, <1>4, <2>1, <2>2, StepInv
  <1>6. CASE ~ limited(ip)
    <2>1. waiting' = [waiting EXCEPT ![r] = ip]
      BY <1>6 DEF is_rate_limited
    <2>2. Len(p) < MAX_ATTEMPTS
      BY <1>1, <1>4, <1>6, LimiterAssumption DEF limited
    <2>3. Bound(p, waiting', ip)
      BY <1>2, <1>4, <2>2, UnderIs, LimiterAssumption DEF Bound
    <2>4. \A c \in Ips \ {ip} : Under(waiting', c) \subseteq Under(waiting, c)
      BY <1>4, <2>1 DEF Under
    <2>5. waiting' \in [Requests -> Ips \cup {None}]
      BY <1>4, <2>1
    <2>6. QED
      BY <1>2, <1>3, <2>3, <2>4, <2>5, StepInv
  <1>7. QED
    BY <1>5, <1>6

\* A request that ends makes room for the failure it leaves.
LEMMA EndedIs ==
  ASSUME IInv, NEW r \in Requests, waiting[r] # None, waiting' = [waiting EXCEPT ![r] = None]
  PROVE  /\ waiting[r] \in Ips /\ waiting' \in [Requests -> Ips \cup {None}]
         /\ \A c \in Ips : Under(waiting', c) \subseteq Under(waiting, c)
         /\ Cardinality(Under(waiting', waiting[r])) = Cardinality(Under(waiting, waiting[r])) - 1
  <1>1. waiting \in [Requests -> Ips \cup {None}]
    BY DEF IInv, TypeOK
  <1>2. Under(waiting', waiting[r]) = Under(waiting, waiting[r]) \ {r}
        /\ r \in Under(waiting, waiting[r])
    BY <1>1 DEF Under
  <1>3. Cardinality(Under(waiting', waiting[r])) = Cardinality(Under(waiting, waiting[r])) - 1
    BY <1>2, UnderIs, FS_RemoveElement
  <1>4. waiting[r] \in Ips /\ waiting' \in [Requests -> Ips \cup {None}]
    BY <1>1
  <1>5. \A c \in Ips : Under(waiting', c) \subseteq Under(waiting, c)
    BY <1>1, LimiterAssumption DEF Under
  <1>6. QED
    BY <1>3, <1>4, <1>5

LEMMA EndingsInv ==
  ASSUME IInv, NEW r \in Requests, record_failed_attempt(r) \/ clear_attempts(r) \/ Abandon(r)
  PROVE  IInv'
  <1> DEFINE ip == waiting[r]
             s == attempts[ip]
  <1>1. waiting[r] # None /\ waiting' = [waiting EXCEPT ![r] = None]
    BY DEF record_failed_attempt, clear_attempts, Abandon
  <1>2. /\ ip \in Ips /\ waiting' \in [Requests -> Ips \cup {None}]
        /\ \A c \in Ips : Under(waiting', c) \subseteq Under(waiting, c)
        /\ Cardinality(Under(waiting', ip)) = Cardinality(Under(waiting, ip)) - 1
    BY <1>1, EndedIs
  <1>3. /\ InOrder(s) /\ Bound(s, waiting, ip) /\ recent(ip) = Pruned(s)
        /\ attempts \in [Ips -> Seq(Ages)]
    BY <1>2, RecentIsPruned, BurstIs DEF IInv, TypeOK
  <1>4. Len(Pruned(s)) \in Nat
    BY <1>3, PrunedIs DEF InOrder
  <1>5. /\ Cardinality(Under(waiting, ip)) \in Nat /\ Cardinality(Under(waiting', ip)) \in Nat
        /\ Cardinality(Requests) \in Nat /\ MAX_ATTEMPTS \in Nat \ {0}
        /\ Cardinality(Under(waiting', ip)) <= Cardinality(Requests)
    BY UnderIs, LimiterAssumption
  <1>6. CASE record_failed_attempt(r)
    <2>1. attempts' = [attempts EXCEPT ![ip] = Append(Pruned(s), 0)]
      BY <1>3, <1>6 DEF record_failed_attempt
    <2>2. InOrder(Append(Pruned(s), 0)) /\ Len(Pruned(Append(Pruned(s), 0))) = Len(Pruned(s)) + 1
      BY <1>3, AppendedIs
    <2>3. Bound(Append(Pruned(s), 0), waiting', ip)
      BY <1>2, <1>3, <1>4, <1>5, <2>2 DEF Bound
    <2> HIDE DEF ip, s
    <2>4. QED
      BY <1>2, <2>1, <2>2, <2>3, StepInv
  <1>7. CASE clear_attempts(r)
    <2>1. attempts' = [attempts EXCEPT ![ip] = <<>>]
      BY <1>7 DEF clear_attempts
    <2>2. InOrder(<<>>)
      BY DEF InOrder
    <2>3. Len(Pruned(<<>>)) = 0
      <3>1. Old(<<>>) = {}
        BY DEF Old
      <3>2. Len(Pruned(<<>>)) = Len(<<>>) - Cardinality({})
        BY <2>2, <3>1, PrunedIs
      <3>3. QED
        BY <3>2, FS_EmptySet
    <2>4. Bound(<<>>, waiting', ip)
      BY <1>5, <2>3 DEF Bound
    <2> HIDE DEF ip, s
    <2>5. QED
      BY <1>2, <2>1, <2>2, <2>4, StepInv
  <1>8. CASE Abandon(r)
    <2>1. attempts' = [attempts EXCEPT ![ip] = s]
      BY <1>2, <1>3, <1>8 DEF Abandon
    <2>2. Bound(s, waiting', ip)
      BY <1>2, <1>3, <1>4, <1>5 DEF Bound
    <2> HIDE DEF ip, s
    <2>3. QED
      BY <1>2, <1>3, <2>1, <2>2, StepInv
  <1>9. QED
    BY <1>6, <1>7, <1>8

\* Time only makes failures older.
LEMMA TickInv ==
  ASSUME IInv, Tick
  PROVE  IInv'
  <1> DEFINE aged(s) == [i \in DOMAIN s |-> IF s[i] < LOCKOUT_SECONDS THEN s[i] + 1 ELSE s[i]]
  <1>1. attempts' = [ip \in Ips |-> aged(attempts[ip])] /\ waiting' = waiting
    BY DEF Tick
  <1>2. \A s : InOrder(s) => InOrder(aged(s)) /\ Len(Pruned(aged(s))) <= Len(Pruned(s))
    BY AgedIs
  <1> HIDE DEF aged
  <1>3. \A ip \in Ips : attempts'[ip] = aged(attempts[ip]) /\ InOrder(attempts'[ip])
    BY <1>1, <1>2 DEF IInv
  <1>4. TypeOK'
    BY <1>1, <1>3 DEF IInv, TypeOK, InOrder
  <1>5. ASSUME NEW ip \in Ips PROVE Bound(attempts'[ip], waiting', ip)
    <2>1. /\ Len(Pruned(attempts'[ip])) <= Len(Pruned(attempts[ip]))
          /\ Bound(attempts[ip], waiting, ip)
      BY <1>2, <1>3, BurstIs DEF IInv
    <2>2. Len(Pruned(attempts[ip])) \in Nat /\ Len(Pruned(attempts'[ip])) \in Nat
      <3>1. InOrder(Pruned(attempts[ip])) /\ InOrder(Pruned(attempts'[ip]))
        BY <1>3, PrunedIs DEF IInv
      <3>2. QED
        BY <3>1 DEF InOrder
    <2>3. QED
      BY <1>1, <2>1, <2>2, UnderIs, LimiterAssumption DEF Bound
  <1>6. BurstIsBounded'
    <2>1. ASSUME NEW c \in Ips PROVE recent(c)' = Pruned(attempts'[c])
      <3>1. DOMAIN attempts'[c] = 1..Len(attempts'[c])
        BY <1>4 DEF TypeOK
      <3>2. QED
        BY <3>1 DEF recent, Pruned, Old
    <2>2. QED
      BY <1>5, <2>1 DEF BurstIsBounded, Bound, Under
  <1>7. QED
    BY <1>3, <1>4, <1>6 DEF IInv

-----------------------------------------------------------------------------
(* The theorems.                                                            *)

LEMMA InitInv == Init => IInv
  <1> SUFFICES ASSUME Init PROVE IInv
    OBVIOUS
  <1>1. TypeOK /\ \A ip \in Ips : InOrder(attempts[ip])
    BY DEF Init, TypeOK, InOrder
  <1>2. ASSUME NEW ip \in Ips PROVE Bound(attempts[ip], waiting, ip)
    <2>1. attempts[ip] = <<>> /\ Old(<<>>) = {} /\ InOrder(<<>>)
      BY DEF Init, Old, InOrder
    <2>2. Len(Pruned(<<>>)) = Len(<<>>) - Cardinality({})
      BY <2>1, PrunedIs
    <2>3. QED
      BY <2>1, <2>2, FS_EmptySet, UnderIs, LimiterAssumption DEF Bound
  <1>3. QED
    BY <1>1, <1>2, BurstIs DEF IInv

LEMMA NextInv == IInv /\ [Next]_vars => IInv'
  <1> SUFFICES ASSUME IInv, [Next]_vars PROVE IInv'
    OBVIOUS
  <1>1. CASE UNCHANGED vars
    BY <1>1 DEF vars, IInv, TypeOK, BurstIsBounded, recent
  <1>2. CASE Next
    BY <1>2, is_rate_limitedInv, EndingsInv, TickInv DEF Next
  <1>3. QED
    BY <1>1, <1>2

LEMMA Inductive == Spec => []IInv
  BY InitInv, NextInv, PTL DEF Spec

\* The lists hold ages, whatever the clients do.
THEOREM LimiterTypeCorrect == Spec => []TypeOK
  <1>1. IInv => TypeOK
    BY DEF IInv
  <1>2. QED
    BY <1>1, Inductive, PTL

\* For any limits and any number of requests under way at once, the failures
\* of an address exceed the limit by no more than the requests under way do.
THEOREM BurstsAreBounded == Spec => []BurstIsBounded
  <1>1. IInv => BurstIsBounded
    BY DEF IInv
  <1>2. QED
    BY <1>1, Inductive, PTL
=============================================================================
