------------------------- MODULE LoginLimiter_proofs -------------------------
(***************************************************************************)
(* For any number of worker threads, keys, attempts and any cap: logins    *)
(* that run at once pass the limit by less than the number of threads, the *)
(* table keeps its types, and nobody is refused for failures outside the   *)
(* window.                                                                 *)
(*                                                                         *)
(* The bound is about lengths of queues and needs no order of them         *)
(* (LimiterInv); the refusals need the order and nothing of the bound      *)
(* (TableInv).                                                             *)
(***************************************************************************)
EXTENDS LoginLimiter, FiniteSetTheorems, SequenceTheorems, TLAPS

(* What the bound needs of the types: the queues are queues of times and   *)
(* the threads are somewhere.  Nothing is needed of the table: an eviction *)
(* only shortens queues, whichever entry it hits.                          *)
QueuesAndThreads ==
  /\ entries \in [Keys -> Seq(Nat)]
  /\ pc \in [Threads -> Places]
  /\ key \in [Threads -> Keys]
  /\ lag \in [Threads -> Nat]

LimiterInv == QueuesAndThreads /\ OvershootBounded

(* Threads that are past is_limited are among the threads.                 *)
LEMMA AdmittedFinite ==
  ASSUME NEW k
  PROVE  /\ IsFiniteSet(Admitted(k)) /\ Cardinality(Admitted(k)) \in Nat
         /\ Cardinality(Threads) \in Nat
         /\ Cardinality(Admitted(k)) <= Cardinality(Threads)
<1>1. Admitted(k) \in SUBSET Threads
  BY DEF Admitted
<1> QED
  BY <1>1, LimiterAssumption, FS_Subset, FS_CardinalityType DEF LimiterAssumption

(* Pruning returns a queue that is no longer than the one it was given.    *)
LEMMA PruneShortens ==
  ASSUME NEW q \in Seq(Nat), NEW l
  PROVE  /\ Prune(q, l) \in Seq(Nat)
         /\ Len(Prune(q, l)) <= Len(q)
<1> DEFINE old == {i \in DOMAIN q : \A j \in 1 .. i : q[j] >= Window + l}
           n == Cardinality(old)
<1>1. DOMAIN q = 1 .. Len(q) /\ Len(q) \in Nat /\ \A i \in 1 .. Len(q) : q[i] \in Nat
  BY LenProperties
<1>2. n \in Nat
  <2>1. IsFiniteSet(1 .. Len(q))
    BY <1>1, FS_Interval
  <2>2. old \in SUBSET (1 .. Len(q))
    BY <1>1
  <2> QED
    BY <2>1, <2>2, FS_Subset, FS_CardinalityType
<1>3. \A i \in n + 1 .. Len(q) : q[i] \in Nat
  BY <1>1, <1>2
<1> HIDE DEF n
<1>4. /\ SubSeq(q, n + 1, Len(q)) \in Seq(Nat)
      /\ Len(SubSeq(q, n + 1, Len(q))) = IF n + 1 <= Len(q) THEN Len(q) - (n + 1) + 1 ELSE 0
  BY <1>1, <1>2, <1>3, SubSeqProperties
<1>5. Prune(q, l) = SubSeq(q, n + 1, Len(q))
  BY DEF Prune, n
<1> QED
  BY <1>1, <1>2, <1>4, <1>5

(* As time passes a queue keeps its length.                                *)
LEMMA OlderQueue ==
  ASSUME NEW q \in Seq(Nat)
  PROVE  /\ [i \in DOMAIN q |-> Older(q[i])] \in Seq(Nat)
         /\ Len([i \in DOMAIN q |-> Older(q[i])]) = Len(q)
<1> DEFINE r == [i \in DOMAIN q |-> Older(q[i])]
<1>1. DOMAIN q = 1 .. Len(q) /\ Len(q) \in Nat /\ \A i \in 1 .. Len(q) : q[i] \in Nat
  BY LenProperties
<1>2. \A n \in Nat : Older(n) \in Nat
  BY DEF Older
<1>3. r \in [1 .. Len(q) -> Nat]
  BY <1>1, <1>2
<1>4. r \in Seq(Nat)
  BY <1>1, <1>3, SeqDef
<1>5. DOMAIN r = 1 .. Len(r) /\ Len(r) \in Nat
  BY <1>4, LenProperties
<1>6. 1 .. Len(r) = 1 .. Len(q)
  BY <1>1, <1>5
<1>7. Len(r) = Len(q)
  BY <1>1, <1>5, <1>6
<1> QED
  BY <1>4, <1>7

(* A thread that stops being admitted, or stays so, makes room or keeps it.*)
LEMMA AdmittedShrinks ==
  ASSUME NEW k, Admitted(k)' \subseteq Admitted(k)
  PROVE  /\ Cardinality(Admitted(k)') \in Nat
         /\ Cardinality(Admitted(k)') <= Cardinality(Admitted(k))
<1>1. Admitted(k)' \in SUBSET Admitted(k)
  OBVIOUS
<1> QED
  BY <1>1, AdmittedFinite, FS_Subset, FS_CardinalityType

LEMMA InitInv == Init => LimiterInv
<1> SUFFICES ASSUME Init PROVE LimiterInv
  OBVIOUS
<1>1. QueuesAndThreads
  BY DEF Init, QueuesAndThreads, Places
<1>2. ASSUME NEW k \in Keys
      PROVE  Len(entries[k]) + Cardinality(Admitted(k)) <= Attempts - 1 + Cardinality(Threads)
  <2>1. Len(entries[k]) = 0
    BY DEF Init
  <2>2. Admitted(k) = {}
    BY DEF Init, Admitted
  <2> QED
    BY <2>1, <2>2, AdmittedFinite, FS_EmptySet, LimiterAssumption DEF LimiterAssumption
<1> QED
  BY <1>1, <1>2 DEF LimiterInv, OvershootBounded

(* A step preserves the invariant: the only step that lengthens a queue    *)
(* takes its thread out of the admitted ones, and a thread is admitted     *)
(* only to a queue that is shorter than Attempts.                          *)
LEMMA StepInv == LimiterInv /\ [Next]_vars => LimiterInv'
<1> SUFFICES ASSUME LimiterInv, [Next]_vars PROVE LimiterInv'
  OBVIOUS
<1> USE DEF LimiterInv
<1> DEFINE Bound == Attempts - 1 + Cardinality(Threads)
<1>1. /\ Bound \in Nat /\ Bound - Cardinality(Threads) >= 0
      /\ Cardinality(Threads) \in Nat
  BY LimiterAssumption, AdmittedFinite DEF LimiterAssumption
<1>2. \A k \in Keys : entries[k] \in Seq(Nat) /\ Len(entries[k]) \in Nat
  BY LenProperties DEF QueuesAndThreads
<1>3. \A k \in Keys : Len(entries[k]) + Cardinality(Admitted(k)) <= Bound
  BY DEF OvershootBounded
(* It is enough that no queue grows and no thread is admitted.             *)
<1>4. ASSUME QueuesAndThreads',
             \A k \in Keys : Len(entries'[k]) <= Len(entries[k]) /\ Admitted(k)' \subseteq Admitted(k)
      PROVE  LimiterInv'
  <2>1. ASSUME NEW k \in Keys
        PROVE  Len(entries'[k]) + Cardinality(Admitted(k)') <= Bound
    <3>1. Cardinality(Admitted(k)') \in Nat /\ Cardinality(Admitted(k)') <= Cardinality(Admitted(k))
      BY <1>4, AdmittedShrinks
    <3>2. Len(entries'[k]) \in Nat /\ Cardinality(Admitted(k)) \in Nat
      BY <1>4, LenProperties, AdmittedFinite DEF QueuesAndThreads
    <3> QED
      BY <1>1, <1>2, <1>3, <1>4, <3>1, <3>2
  <2> QED
    BY <1>4, <2>1 DEF OvershootBounded
<1>5. ASSUME NEW e \in Emails, Register(e) PROVE LimiterInv'
  BY <1>5 DEF Register, QueuesAndThreads, OvershootBounded, Admitted
<1>6. ASSUME NEW t \in Threads, NEW k \in Keys, Login(t, k) PROVE LimiterInv'
  <2>1. QueuesAndThreads'
    BY <1>6 DEF Login, Go, QueuesAndThreads, Places
  <2>2. \A c \in Keys : entries'[c] = entries[c] /\ Admitted(c)' \subseteq Admitted(c)
    BY <1>6 DEF Login, Go, QueuesAndThreads, Admitted
  <2> QED
    BY <1>2, <1>4, <2>1, <2>2
<1>7. ASSUME NEW t \in Threads, IsLimited(t) PROVE LimiterInv'
  <2> DEFINE k == key[t]
             q == Prune(entries[k], lag[t])
  <2>1. k \in Keys
    BY DEF QueuesAndThreads
  <2>2. q \in Seq(Nat) /\ Len(q) \in Nat /\ Len(q) <= Len(entries[k])
    BY <1>2, <2>1, PruneShortens, LenProperties
  <2>3. /\ entries' = [entries EXCEPT ![k] = q]
        /\ pc' = [pc EXCEPT ![t] = IF Len(q) >= Attempts THEN "idle" ELSE "checked"]
        /\ lag' = [lag EXCEPT ![t] = 0] /\ key' = key /\ pc[t] = "asking"
    BY <1>7 DEF IsLimited, Go
  <2> HIDE DEF k, q
  <2>4. QueuesAndThreads'
    BY <2>1, <2>2, <2>3 DEF QueuesAndThreads, Places
  <2>5. CASE Len(q) >= Attempts
    <3>1. \A c \in Keys : Admitted(c)' \subseteq Admitted(c)
      BY <2>3, <2>5 DEF QueuesAndThreads, Admitted
    <3>2. \A c \in Keys : Len(entries'[c]) <= Len(entries[c])
      BY <1>2, <2>1, <2>2, <2>3 DEF QueuesAndThreads
    <3> QED
      BY <1>4, <2>4, <3>1, <3>2
  <2>6. CASE Len(q) < Attempts
    <3>1. ASSUME NEW c \in Keys
          PROVE  Len(entries'[c]) + Cardinality(Admitted(c)') <= Bound
      <4>1. CASE c = k
        <5>1. Len(entries'[c]) = Len(q)
          BY <2>1, <2>3, <4>1 DEF QueuesAndThreads
        <5>2. Cardinality(Admitted(c)') \in Nat /\ Cardinality(Admitted(c)') <= Cardinality(Threads)
          <6>1. Admitted(c)' \in SUBSET Threads
            BY DEF Admitted
          <6> QED
            BY <6>1, LimiterAssumption, FS_Subset, FS_CardinalityType DEF LimiterAssumption
        <5> QED
          BY <1>1, <2>2, <2>6, <5>1, <5>2, LimiterAssumption DEF LimiterAssumption
      <4>2. CASE c # k
        <5>1. entries'[c] = entries[c]
          BY <2>1, <2>3, <4>2 DEF QueuesAndThreads
        <5>2. Admitted(c)' \subseteq Admitted(c)
          BY <2>3, <4>2 DEF QueuesAndThreads, Admitted, k
        <5>3. Cardinality(Admitted(c)') \in Nat /\ Cardinality(Admitted(c)') <= Cardinality(Admitted(c))
          BY <5>2, AdmittedShrinks
        <5> QED
          BY <1>1, <1>2, <1>3, <5>1, <5>3, AdmittedFinite
      <4> QED
        BY <4>1, <4>2
    <3> QED
      BY <2>4, <3>1 DEF OvershootBounded
  <2> QED
    BY <2>2, <2>5, <2>6, LimiterAssumption DEF LimiterAssumption
<1>8. ASSUME NEW t \in Threads, Verify(t) PROVE LimiterInv'
  <2>1. QueuesAndThreads'
    BY <1>8 DEF Verify, Go, QueuesAndThreads, Places
  <2>2. \A c \in Keys : entries'[c] = entries[c] /\ Admitted(c)' \subseteq Admitted(c)
    BY <1>8 DEF Verify, Go, QueuesAndThreads, Admitted
  <2> QED
    BY <1>2, <1>4, <2>1, <2>2
<1>9. ASSUME NEW t \in Threads, AddFailure(t) PROVE LimiterInv'
  <2> DEFINE k == key[t]
  <2>1. k \in Keys /\ pc[t] = "wrong" /\ key' = key /\ lag' = lag /\ pc' = [pc EXCEPT ![t] = "idle"]
    BY <1>9 DEF AddFailure, Go, QueuesAndThreads
  <2>2. Append(entries[k], 0) \in Seq(Nat) /\ Len(Append(entries[k], 0)) = Len(entries[k]) + 1
    BY <1>2, <2>1, AppendProperties
  <2>3. /\ <<>> \in Seq(Nat) /\ Len(<<>>) = 0
        /\ <<0>> \in Seq(Nat) /\ Len(<<0>>) = 1
    OBVIOUS
  <2>4. \/ entries' = [entries EXCEPT ![Head(table)] = <<>>, ![k] = <<0>>]
        \/ entries' = [entries EXCEPT ![k] = Append(entries[k], 0)]
    BY <1>9, <2>1 DEF AddFailure, QueuesAndThreads
  <2> HIDE DEF k
  <2>5. /\ entries' \in [Keys -> Seq(Nat)]
        /\ Len(entries'[k]) <= Len(entries[k]) + 1
        /\ \A c \in Keys \ {k} : Len(entries'[c]) <= Len(entries[c])
    <3>1. entries \in [Keys -> Seq(Nat)]
      BY DEF QueuesAndThreads
    <3>2. CASE entries' = [entries EXCEPT ![k] = Append(entries[k], 0)]
      BY <1>2, <2>1, <2>2, <3>1, <3>2
    <3>3. CASE entries' = [entries EXCEPT ![Head(table)] = <<>>, ![k] = <<0>>]
      <4>1. entries'[k] = <<0>> /\ \A c \in Keys \ {k} : entries'[c] \in {<<>>, entries[c]}
        BY <2>1, <3>1, <3>3
      <4>2. entries' \in [Keys -> Seq(Nat)]
        BY <2>1, <2>3, <3>1, <3>3
      <4> QED
        BY <1>2, <2>1, <2>3, <4>1, <4>2
    <3> QED
      BY <2>4, <3>2, <3>3
  <2>6. QueuesAndThreads'
    BY <2>1, <2>5 DEF QueuesAndThreads, Places
  <2>7. ASSUME NEW c \in Keys
        PROVE  Len(entries'[c]) + Cardinality(Admitted(c)') <= Bound
    <3>1. Len(entries'[c]) \in Nat
      BY <2>6, LenProperties DEF QueuesAndThreads
    <3>2. CASE c = k
      <4>1. t \in Admitted(c)
        BY <2>1, <3>2 DEF Admitted, k
      <4>2. Admitted(c)' = Admitted(c) \ {t}
        BY <2>1 DEF Admitted, QueuesAndThreads
      <4>3. Cardinality(Admitted(c)') = Cardinality(Admitted(c)) - 1
        BY <4>1, <4>2, AdmittedFinite, FS_RemoveElement
      <4> QED
        BY <1>1, <1>2, <1>3, <2>5, <3>1, <3>2, <4>3, AdmittedFinite
    <3>3. CASE c # k
      <4>1. Admitted(c)' \subseteq Admitted(c)
        BY <2>1 DEF Admitted, QueuesAndThreads
      <4>2. Cardinality(Admitted(c)') \in Nat /\ Cardinality(Admitted(c)') <= Cardinality(Admitted(c))
        BY <4>1, AdmittedShrinks
      <4>3. Len(entries'[c]) <= Len(entries[c])
        BY <2>5, <3>3
      <4>4. Len(entries[c]) + Cardinality(Admitted(c)) <= Bound /\ Len(entries[c]) \in Nat
        BY <1>2, <1>3
      <4> HIDE DEF Bound
      <4> QED
        BY <1>1, <3>1, <4>2, <4>3, <4>4, AdmittedFinite
    <3> QED
      BY <3>2, <3>3
  <2> QED
    BY <2>6, <2>7 DEF OvershootBounded
<1>10. ASSUME NEW t \in Threads, Clear(t) PROVE LimiterInv'
  <2>1. /\ key[t] \in Keys /\ entries' = [entries EXCEPT ![key[t]] = <<>>]
        /\ pc' = [pc EXCEPT ![t] = "cleared"] /\ key' = key /\ lag' = lag /\ pc[t] = "right"
    BY <1>10 DEF Clear, Go, QueuesAndThreads
  <2>2. QueuesAndThreads'
    BY <2>1 DEF QueuesAndThreads, Places
  <2>3. \A c \in Keys : Len(entries'[c]) <= Len(entries[c])
    BY <1>2, <2>1 DEF QueuesAndThreads
  <2>4. \A c \in Keys : Admitted(c)' \subseteq Admitted(c)
    BY <2>1 DEF Admitted, QueuesAndThreads
  <2> QED
    BY <1>4, <2>2, <2>3, <2>4
<1>11. ASSUME NEW t \in Threads, Answer(t) \/ DatabaseFails(t) PROVE LimiterInv'
  <2>1. QueuesAndThreads'
    BY <1>11 DEF Answer, DatabaseFails, Go, QueuesAndThreads, Places
  <2>2. \A c \in Keys : entries'[c] = entries[c] /\ Admitted(c)' \subseteq Admitted(c)
    BY <1>11 DEF Answer, DatabaseFails, Go, QueuesAndThreads, Admitted
  <2> QED
    BY <1>2, <1>4, <2>1, <2>2
<1>12. ASSUME Restart PROVE LimiterInv'
  <2>1. QueuesAndThreads'
    BY <1>12 DEF Restart, QueuesAndThreads, Places
  <2>2. \A c \in Keys : Len(entries'[c]) <= Len(entries[c])
    BY <1>2, <1>12 DEF Restart
  <2>3. \A c \in Keys : Admitted(c)' \subseteq Admitted(c)
    BY <1>12 DEF Restart, Admitted
  <2> QED
    BY <1>4, <2>1, <2>2, <2>3
<1>13. ASSUME Tick PROVE LimiterInv'
  <2>1. \A c \in Keys : /\ entries'[c] = [i \in DOMAIN entries[c] |-> Older(entries[c][i])]
                        /\ entries'[c] \in Seq(Nat) /\ Len(entries'[c]) = Len(entries[c])
    BY <1>2, <1>13, OlderQueue DEF Tick
  <2>2. QueuesAndThreads'
    BY <1>13, <2>1 DEF Tick, QueuesAndThreads
  <2>3. \A c \in Keys : Admitted(c)' \subseteq Admitted(c)
    BY <1>13 DEF Tick, Admitted
  <2>4. \A c \in Keys : Len(entries'[c]) = Len(entries[c])
    BY <2>1
  <2>5. \A c \in Keys : Len(entries'[c]) <= Len(entries[c])
    BY <1>2, <2>4
  <2> QED
    BY <1>4, <2>2, <2>3, <2>5
<1>14. CASE UNCHANGED vars
  BY <1>14 DEF vars, QueuesAndThreads, OvershootBounded, Admitted
<1> QED
  BY <1>5, <1>6, <1>7, <1>8, <1>9, <1>10, <1>11, <1>12, <1>13, <1>14 DEF Next, Step

(* Failures of one key within the window, counted or on their way, stay    *)
(* below the limit plus the number of worker threads (auth.py:43-47).      *)
THEOREM OvershootHolds == Spec => []OvershootBounded
<1>1. LimiterInv => OvershootBounded
  BY DEF LimiterInv
<1> QED
  BY InitInv, StepInv, <1>1, PTL DEF Spec

-----------------------------------------------------------------------------
(* The queues are in order of time, because a failure gets its time under  *)
(* the lock; and the table has one entry for each key that has failures.   *)
Ages == 0 .. AgeCap
Sorted(q) == \A i, j \in DOMAIN q : i < j => q[i] >= q[j]
InOrder == \A k \in Keys : Sorted(entries[k])

TableInv == TypeOK /\ InOrder

LEMMA Bounds ==
  /\ AgeCap \in Nat /\ Window \in Nat \ {0} /\ Attempts \in Nat \ {0} /\ MaxLag \in Nat
  /\ Ages \subseteq Nat /\ 0 \in Ages
<1>1. AgeCap \in Nat
  BY LimiterAssumption DEF LimiterAssumption, AgeCap
<1>2. Ages \subseteq Nat /\ 0 \in Ages
  <2> HIDE DEF AgeCap
  <2> QED
    BY <1>1 DEF Ages
<1> QED
  BY <1>1, <1>2, LimiterAssumption DEF LimiterAssumption

(* What is left of a queue in order are its entries within the window.     *)
LEMMA PruneRecent ==
  ASSUME NEW q \in Seq(Ages), Sorted(q), NEW l \in Nat
  PROVE  /\ Prune(q, l) \in Seq(Ages) /\ Sorted(Prune(q, l))
         /\ Len(Prune(q, l)) <= Cardinality({i \in DOMAIN q : q[i] < Window + l})
<1> DEFINE old == {i \in DOMAIN q : \A j \in 1 .. i : q[j] >= Window + l}
           recent == {i \in DOMAIN q : q[i] < Window + l}
           n == Cardinality(old)
           r == SubSeq(q, n + 1, Len(q))
<1>1. /\ DOMAIN q = 1 .. Len(q) /\ Len(q) \in Nat
      /\ \A i \in 1 .. Len(q) : q[i] \in Ages /\ q[i] \in Nat
  <2>1. DOMAIN q = 1 .. Len(q) /\ Len(q) \in Nat /\ \A i \in 1 .. Len(q) : q[i] \in Ages
    BY LenProperties
  <2> QED
    BY <2>1, Bounds
<1>2. IsFiniteSet(1 .. Len(q)) /\ Cardinality(1 .. Len(q)) = Len(q)
  <2> DEFINE m == Len(q)
  <2>1. m \in Nat
    BY <1>1
  <2> HIDE DEF m
  <2>2. IsFiniteSet(1 .. m) /\ Cardinality(1 .. m) = IF 1 > m THEN 0 ELSE m - 1 + 1
    BY <2>1, FS_Interval
  <2>3. IsFiniteSet(1 .. m) /\ Cardinality(1 .. m) = m
    BY <2>1, <2>2
  <2> QED
    BY <2>3 DEF m
<1>3. /\ old \in SUBSET (1 .. Len(q)) /\ recent \in SUBSET (1 .. Len(q))
      /\ \A i \in 1 .. Len(q) : i \in old <=> \A j \in 1 .. i : q[j] >= Window + l
      /\ \A i \in 1 .. Len(q) : i \in recent <=> q[i] < Window + l
  BY <1>1
<1> HIDE DEF old, recent
<1>4. /\ IsFiniteSet(old) /\ IsFiniteSet(recent) /\ n \in Nat /\ Cardinality(recent) \in Nat
      /\ n <= Len(q)
  <2>1. IsFiniteSet(old) /\ Cardinality(old) <= Cardinality(1 .. Len(q))
    BY <1>2, <1>3, FS_Subset
  <2>2. IsFiniteSet(recent)
    BY <1>2, <1>3, FS_Subset
  <2> QED
    BY <1>2, <2>1, <2>2, FS_CardinalityType
<1>5. \A i \in old : i <= n
  <2> SUFFICES ASSUME NEW i \in old PROVE i <= n
    OBVIOUS
  <2>1. i \in 1 .. Len(q) /\ \A j \in 1 .. i : q[j] >= Window + l
    BY <1>3
  <2>2. ASSUME NEW j \in 1 .. i
        PROVE  j \in old
    <3>1. j \in 1 .. Len(q) /\ \A h \in 1 .. j : h \in 1 .. i
      BY <1>1, <2>1
    <3> QED
      BY <1>3, <2>1, <3>1
  <2>3. (1 .. i) \in SUBSET old
    BY <2>2
  <2>4. Cardinality(1 .. i) <= n
    BY <1>4, <2>3, FS_Subset
  <2>5. Cardinality(1 .. i) = i
    BY <1>1, <2>1, FS_Interval
  <2> QED
    BY <2>4, <2>5
<1>6. ASSUME NEW i \in n + 1 .. Len(q)
      PROVE  i \in recent
  <2>1. i \in 1 .. Len(q) /\ i \notin old /\ n + 1 \in 1 .. Len(q)
    BY <1>4, <1>5
  <2>2. n + 1 \notin old
    BY <1>4, <1>5
  <2>3. PICK j \in 1 .. n + 1 : ~ (q[j] >= Window + l)
    BY <1>3, <2>1, <2>2
  <2>4. j \in 1 .. Len(q) /\ j <= i
    BY <1>4, <2>1
  <2>5. q[j] >= q[i]
    <3>1. CASE j = i
      BY <1>1, <2>1, <3>1
    <3>2. CASE j # i
      BY <1>1, <2>1, <2>4, <3>2 DEF Sorted
    <3> QED
      BY <3>1, <3>2
  <2>6. q[i] \in Nat /\ q[j] \in Nat /\ Window + l \in Nat
    BY <1>1, <2>1, <2>4, Bounds
  <2>7. q[i] < Window + l
    BY <2>3, <2>5, <2>6
  <2> QED
    BY <1>3, <2>1, <2>7
<1>7. /\ r \in Seq(Ages) /\ Len(r) = Len(q) - n
      /\ \A i \in 1 .. Len(r) : r[i] = q[n + i]
  <2>1. \A i \in n + 1 .. Len(q) : q[i] \in Ages
    BY <1>1, <1>4
  <2>2. /\ r \in Seq(Ages)
        /\ Len(r) = IF n + 1 <= Len(q) THEN Len(q) - (n + 1) + 1 ELSE 0
        /\ \A i \in 1 .. Len(q) - (n + 1) + 1 : r[i] = q[n + 1 + i - 1]
    <3> HIDE DEF n
    <3> QED
      BY <1>1, <1>4, <2>1, SubSeqProperties
  <2> HIDE DEF n, r
  <2>3. Len(r) = Len(q) - n
    <3>1. n <= Len(q) /\ n \in Nat /\ Len(q) \in Nat
      BY <1>1, <1>4
    <3>2. CASE n + 1 <= Len(q)
      BY <2>2, <3>1, <3>2
    <3>3. CASE ~ (n + 1 <= Len(q))
      <4>1. n = Len(q)
        BY <3>1, <3>3
      <4> QED
        BY <2>2, <3>1, <3>3, <4>1
    <3> QED
      BY <3>2, <3>3
  <2>4. \A i \in 1 .. Len(r) : n + 1 + i - 1 = n + i
    <3>1. Len(r) \in Nat
      BY <1>1, <1>4, <2>2, LenProperties
    <3> HIDE DEF r
    <3> QED
      BY <1>4, <3>1
  <2>5. \A i \in 1 .. Len(r) : i \in 1 .. Len(q) - (n + 1) + 1
    BY <1>1, <1>4, <2>3
  <2> QED
    BY <2>2, <2>3, <2>4, <2>5
<1>8. Sorted(r)
  <2>1. DOMAIN r = 1 .. Len(r) /\ Len(r) \in Nat
    BY <1>7, LenProperties
  <2> HIDE DEF n, r
  <2> SUFFICES ASSUME NEW i \in 1 .. Len(r), NEW j \in 1 .. Len(r), i < j
               PROVE  r[i] >= r[j]
    BY <2>1 DEF Sorted
  <2>2. n + i \in 1 .. Len(q) /\ n + j \in 1 .. Len(q) /\ n + i < n + j
    BY <1>1, <1>4, <1>7, <2>1
  <2> QED
    BY <1>1, <1>7, <2>2 DEF Sorted
<1>9. Len(r) <= Cardinality(recent)
  <2>1. (n + 1 .. Len(q)) \in SUBSET recent
    BY <1>6
  <2>2. Cardinality(n + 1 .. Len(q)) <= Cardinality(recent)
    BY <1>4, <2>1, FS_Subset
  <2>3. Cardinality(n + 1 .. Len(q)) = IF n + 1 > Len(q) THEN 0 ELSE Len(q) - (n + 1) + 1
    <3>1. n + 1 \in Int /\ Len(q) \in Int
      BY <1>1, <1>4
    <3> HIDE DEF n
    <3> QED
      BY <3>1, FS_Interval
  <2> HIDE DEF n, r, recent
  <2> QED
    BY <1>1, <1>4, <1>7, <2>2, <2>3
<1>10. Prune(q, l) = r
  BY DEF Prune, old
<1> QED
  BY <1>7, <1>8, <1>9, <1>10 DEF recent

LEMMA EmptySorted == Sorted(<<>>) /\ Sorted(<<0>>)
BY DEF Sorted

(* A new failure is the youngest.                                          *)
LEMMA AppendSorted ==
  ASSUME NEW q \in Seq(Ages), Sorted(q)
  PROVE  Append(q, 0) \in Seq(Ages) /\ Sorted(Append(q, 0))
<1> DEFINE r == Append(q, 0)
<1>1. /\ r \in Seq(Ages) /\ Len(r) = Len(q) + 1
      /\ \A i \in 1 .. Len(q) : r[i] = q[i]
      /\ r[Len(q) + 1] = 0
  BY Bounds, AppendProperties
<1>2. /\ DOMAIN r = 1 .. Len(r) /\ DOMAIN q = 1 .. Len(q) /\ Len(q) \in Nat
      /\ \A i \in 1 .. Len(q) : q[i] \in Nat
  BY <1>1, LenProperties, Bounds
<1> HIDE DEF r
<1>3. ASSUME NEW i \in 1 .. Len(r), NEW j \in 1 .. Len(r), i < j
      PROVE  r[i] >= r[j]
  <2>1. i \in 1 .. Len(q)
    BY <1>1, <1>2, <1>3
  <2>2. CASE j \in 1 .. Len(q)
    BY <1>1, <1>2, <1>3, <2>1, <2>2 DEF Sorted
  <2>3. CASE j = Len(q) + 1
    BY <1>1, <1>2, <2>1, <2>3
  <2> QED
    BY <1>1, <1>2, <2>2, <2>3
<1> QED
  BY <1>1, <1>2, <1>3 DEF Sorted, r

(* Time passes for all entries alike.                                      *)
LEMMA OlderSorted ==
  ASSUME NEW q \in Seq(Ages), Sorted(q)
  PROVE  LET r == [i \in DOMAIN q |-> Older(q[i])]
         IN  r \in Seq(Ages) /\ Sorted(r) /\ (q = <<>> => r = <<>>)
<1> DEFINE r == [i \in DOMAIN q |-> Older(q[i])]
<1>1. DOMAIN q = 1 .. Len(q) /\ Len(q) \in Nat /\ \A i \in 1 .. Len(q) : q[i] \in Ages
  BY LenProperties
<1>2. \A n \in Ages : Older(n) \in Ages
  BY Bounds DEF Older, Ages
<1>3. \A m, n \in Ages : m >= n => Older(m) >= Older(n)
  BY Bounds DEF Older, Ages
<1>4. r \in Seq(Ages)
  BY <1>1, <1>2, SeqDef
<1>5. Sorted(r)
  BY <1>1, <1>3 DEF Sorted
<1>6. q = <<>> => r = <<>>
  <2>1. ASSUME q = <<>> PROVE Len(r) = 0
    <3>1. DOMAIN r = {}
      BY <1>1, <2>1
    <3>2. DOMAIN r = 1 .. Len(r) /\ Len(r) \in Nat
      BY <1>4, LenProperties
    <3> QED
      BY <3>1, <3>2
  <2> QED
    BY <1>4, <2>1, EmptySeq
<1> QED
  BY <1>4, <1>5, <1>6

(* The table with one more entry.                                          *)
LEMMA AppendKey ==
  ASSUME NEW s \in Seq(Keys), IsInjective(s), NEW k \in Keys, ~ Contains(s, k)
  PROVE  /\ Append(s, k) \in Seq(Keys) /\ IsInjective(Append(s, k))
         /\ Contains(Append(s, k), k)
         /\ \A c : Contains(s, c) => Contains(Append(s, k), c)
<1> DEFINE r == Append(s, k)
<1>1. /\ r \in Seq(Keys) /\ Len(r) = Len(s) + 1
      /\ \A i \in 1 .. Len(s) : r[i] = s[i]
      /\ r[Len(s) + 1] = k
  BY AppendProperties
<1>2. /\ DOMAIN r = 1 .. Len(r) /\ DOMAIN s = 1 .. Len(s) /\ Len(s) \in Nat
  BY <1>1, LenProperties
<1> HIDE DEF r
<1>3. ASSUME NEW i \in 1 .. Len(r), NEW j \in 1 .. Len(r), r[i] = r[j]
      PROVE  i = j
  <2>1. \A h \in 1 .. Len(r) : h \in 1 .. Len(s) \/ h = Len(s) + 1
    BY <1>1, <1>2
  <2>2. \A h \in 1 .. Len(s) : r[h] # k
    BY <1>1 DEF Contains
  <2>3. CASE i \in 1 .. Len(s) /\ j \in 1 .. Len(s)
    BY <1>1, <1>2, <1>3, <2>3 DEF IsInjective
  <2> QED
    BY <1>1, <1>3, <2>1, <2>2, <2>3
<1>4. \A h \in 1 .. Len(s) : h \in 1 .. Len(r)
  BY <1>1, <1>2
<1>5. Len(s) + 1 \in 1 .. Len(r)
  BY <1>1, <1>2
<1> QED
  BY <1>1, <1>2, <1>3, <1>4, <1>5 DEF Contains, IsInjective, r

(* The table without its oldest entry.                                     *)
LEMMA TailKey ==
  ASSUME NEW s \in Seq(Keys), IsInjective(s), s # <<>>
  PROVE  /\ Tail(s) \in Seq(Keys) /\ IsInjective(Tail(s))
         /\ \A c : Contains(Tail(s), c) => Contains(s, c)
         /\ \A c : Contains(s, c) /\ c # Head(s) => Contains(Tail(s), c)
<1> DEFINE r == Tail(s)
<1>1. /\ r \in Seq(Keys) /\ Len(r) = Len(s) - 1 /\ Head(s) = s[1]
      /\ \A i \in 1 .. Len(r) : r[i] = s[i + 1]
  BY HeadTailProperties
<1>2. /\ DOMAIN r = 1 .. Len(r) /\ DOMAIN s = 1 .. Len(s) /\ Len(s) \in Nat /\ Len(r) \in Nat
  BY <1>1, LenProperties
<1> HIDE DEF r
<1>3. \A i \in 1 .. Len(r) : i + 1 \in 1 .. Len(s)
  BY <1>1, <1>2
<1>4. ASSUME NEW i \in 1 .. Len(r), NEW j \in 1 .. Len(r), r[i] = r[j]
      PROVE  i = j
  <2>1. s[i + 1] = s[j + 1]
    BY <1>1, <1>4
  <2>2. i + 1 = j + 1
    BY <1>2, <1>3, <2>1 DEF IsInjective
  <2> QED
    BY <2>2
<1>5. ASSUME NEW c, Contains(s, c), c # Head(s)
      PROVE  Contains(r, c)
  <2>1. PICK i \in 1 .. Len(s) : s[i] = c
    BY <1>5 DEF Contains
  <2>2. i # 1
    BY <1>1, <1>5, <2>1
  <2>3. i - 1 \in 1 .. Len(r) /\ (i - 1) + 1 = i
    BY <1>1, <1>2, <2>2
  <2>4. r[i - 1] = c
    BY <1>1, <2>1, <2>3
  <2> QED
    BY <2>3, <2>4 DEF Contains
<1> QED
  BY <1>1, <1>2, <1>3, <1>4, <1>5 DEF Contains, IsInjective, r

(* The table without the entry at i.                                       *)
LEMMA RemoveKey ==
  ASSUME NEW s \in Seq(Keys), IsInjective(s), NEW i \in 1 .. Len(s)
  PROVE  /\ RemoveAt(s, i) \in Seq(Keys) /\ IsInjective(RemoveAt(s, i))
         /\ \A c : Contains(s, c) /\ c # s[i] => Contains(RemoveAt(s, i), c)
<1> DEFINE a == SubSeq(s, 1, i - 1)
           b == SubSeq(s, i + 1, Len(s))
           r == RemoveAt(s, i)
<1>1. Len(s) \in Nat /\ DOMAIN s = 1 .. Len(s) /\ i \in Nat \ {0} /\ i <= Len(s)
      /\ \A h \in 1 .. Len(s) : s[h] \in Keys
  BY LenProperties
<1> DEFINE n == Len(s)
<1>2. /\ a \in Seq(Keys) /\ Len(a) = i - 1
      /\ \A h \in 1 .. i - 1 : a[h] = s[h]
  <2>1. 1 \in Int /\ i - 1 \in Int /\ \A h \in 1 .. i - 1 : s[h] \in Keys
    BY <1>1
  <2>2. /\ a \in Seq(Keys)
        /\ Len(a) = IF 1 <= i - 1 THEN i - 1 - 1 + 1 ELSE 0
        /\ \A h \in 1 .. i - 1 - 1 + 1 : a[h] = s[1 + h - 1]
    BY <2>1, SubSeqProperties
  <2> HIDE DEF a
  <2>3. Len(a) = i - 1
    BY <1>1, <2>2
  <2>4. \A h \in 1 .. i - 1 : h \in 1 .. i - 1 - 1 + 1 /\ 1 + h - 1 = h
    BY <1>1
  <2> QED
    BY <2>2, <2>3, <2>4
<1>3. /\ b \in Seq(Keys) /\ Len(b) = n - i
      /\ \A h \in 1 .. n - i : b[h] = s[i + h]
  <2>1. i + 1 \in Int /\ n \in Int /\ \A h \in i + 1 .. n : s[h] \in Keys
    BY <1>1
  <2>2. /\ b \in Seq(Keys)
        /\ Len(b) = IF i + 1 <= n THEN n - (i + 1) + 1 ELSE 0
        /\ \A h \in 1 .. n - (i + 1) + 1 : b[h] = s[i + 1 + h - 1]
    BY <2>1, SubSeqProperties
  <2> HIDE DEF b, n
  <2>3. Len(b) = n - i
    <3>1. n \in Nat /\ i \in Nat /\ i <= n
      BY <1>1 DEF n
    <3>2. CASE i + 1 <= n
      BY <2>2, <3>1, <3>2
    <3>3. CASE ~ (i + 1 <= n)
      <4>1. i = n
        BY <3>1, <3>3
      <4> QED
        BY <2>2, <3>1, <3>3, <4>1
    <3> QED
      BY <3>2, <3>3
  <2>4. \A h \in 1 .. n - i : h \in 1 .. n - (i + 1) + 1 /\ i + 1 + h - 1 = i + h
    BY <1>1 DEF n
  <2> QED
    BY <2>2, <2>3, <2>4
<1>4. /\ r \in Seq(Keys) /\ Len(r) = n - 1
      /\ \A h \in 1 .. n - 1 : r[h] = IF h < i THEN s[h] ELSE s[h + 1]
  <2>1. r = a \o b
    BY DEF RemoveAt
  <2> HIDE DEF a, b, n, r
  <2>2. /\ r \in Seq(Keys) /\ Len(r) = Len(a) + Len(b)
        /\ \A h \in 1 .. Len(a) + Len(b) :
             r[h] = IF h <= Len(a) THEN a[h] ELSE b[h - Len(a)]
    BY <1>2, <1>3, <2>1, ConcatProperties
  <2>3. Len(a) + Len(b) = n - 1
    BY <1>1, <1>2, <1>3 DEF n
  <2>4. ASSUME NEW h \in 1 .. n - 1
        PROVE  r[h] = IF h < i THEN s[h] ELSE s[h + 1]
    <3>1. r[h] = IF h <= i - 1 THEN a[h] ELSE b[h - (i - 1)]
      BY <1>2, <2>2, <2>3
    <3>2. CASE h < i
      <4>1. h <= i - 1 /\ h \in 1 .. i - 1
        BY <1>1, <3>2 DEF n
      <4> QED
        BY <1>2, <3>1, <3>2, <4>1
    <3>3. CASE ~ (h < i)
      <4>1. ~ (h <= i - 1) /\ h - (i - 1) \in 1 .. n - i /\ i + (h - (i - 1)) = h + 1
        BY <1>1, <3>3 DEF n
      <4>2. b[h - (i - 1)] = s[i + (h - (i - 1))]
        BY <1>3, <4>1
      <4> QED
        BY <3>1, <3>3, <4>1, <4>2
    <3> QED
      BY <3>2, <3>3
  <2> QED
    BY <2>2, <2>3, <2>4
<1> HIDE DEF r
<1>5. DOMAIN r = 1 .. n - 1
  BY <1>4, LenProperties
<1> DEFINE At(h) == IF h < i THEN h ELSE h + 1
<1>6. \A h \in 1 .. n - 1 : At(h) \in 1 .. n /\ r[h] = s[At(h)]
  BY <1>1, <1>4
<1>7. \A g, h \in 1 .. n - 1 : At(g) = At(h) => g = h
  BY <1>1
<1>8. IsInjective(r)
  <2> SUFFICES ASSUME NEW g \in 1 .. n - 1, NEW h \in 1 .. n - 1, r[g] = r[h]
               PROVE  g = h
    BY <1>5 DEF IsInjective
  <2> HIDE DEF At, n
  <2>1. At(g) \in 1 .. n /\ At(h) \in 1 .. n /\ s[At(g)] = s[At(h)]
    BY <1>6
  <2>2. At(g) = At(h)
    BY <1>1, <2>1 DEF IsInjective, n
  <2> QED
    BY <1>7, <2>2
<1>9. ASSUME NEW c, Contains(s, c), c # s[i]
      PROVE  Contains(r, c)
  <2>1. PICK j \in 1 .. n : s[j] = c
    BY <1>9 DEF Contains
  <2>2. j # i
    BY <1>9, <2>1
  <2> DEFINE h == IF j < i THEN j ELSE j - 1
  <2>3. h \in 1 .. n - 1 /\ At(h) = j
    BY <1>1, <2>2
  <2>4. r[h] = c
    BY <1>6, <2>1, <2>3
  <2> QED
    BY <1>4, <2>3, <2>4 DEF Contains
<1> QED
  BY <1>4, <1>8, <1>9 DEF r

(* The two halves of the invariant: the table with its queues, the rest.   *)
Filed ==
  /\ table \in Seq(Keys) /\ IsInjective(table)
  /\ entries \in [Keys -> Seq(Ages)]
  /\ \A k \in Keys : Sorted(entries[k])
  /\ \A k \in Keys : entries[k] # <<>> => Contains(table, k)
Running ==
  /\ users \in SUBSET Emails
  /\ pc \in [Threads -> Places]
  /\ key \in [Threads -> Keys]
  /\ lag \in [Threads -> 0 .. MaxLag]

LEMMA Halves == TableInv <=> Filed /\ Running
BY DEF TableInv, TypeOK, InOrder, Filed, Running, Ages

LEMMA TableInit == Init => TableInv
<1> SUFFICES ASSUME Init PROVE Filed /\ Running
  BY Halves
<1>1. Running
  BY Bounds DEF Init, Running, Places
<1>2. Filed
  <2>1. <<>> \in Seq(Keys) /\ <<>> \in Seq(Ages)
    OBVIOUS
  <2>2. DOMAIN <<>> = {}
    OBVIOUS
  <2> QED
    BY <2>1, <2>2, EmptySorted DEF Init, Filed, IsInjective
<1> QED
  BY <1>1, <1>2

(* One lookup: the entry of k is there, and nothing is lost.               *)
LEMMA InsertedFiled ==
  ASSUME Filed, NEW k \in Keys
  PROVE  /\ Inserted(k) \in Seq(Keys) /\ IsInjective(Inserted(k))
         /\ Contains(Inserted(k), k)
         /\ \A c : Contains(table, c) => Contains(Inserted(k), c)
BY AppendKey DEF Filed, Inserted

LEMMA PoppedFiled ==
  ASSUME Filed, NEW k \in Keys
  PROVE  /\ Popped(k) \in Seq(Keys) /\ IsInjective(Popped(k))
         /\ \A c : Contains(table, c) /\ c # k => Contains(Popped(k), c)
<1>1. table \in Seq(Keys) /\ IsInjective(table) /\ DOMAIN table = 1 .. Len(table)
  BY LenProperties DEF Filed
<1>2. CASE ~ Contains(table, k)
  BY <1>1, <1>2 DEF Popped
<1>3. CASE Contains(table, k)
  <2> DEFINE i == CHOOSE i \in DOMAIN table : table[i] = k
  <2>1. i \in 1 .. Len(table) /\ table[i] = k
    BY <1>1, <1>3 DEF Contains
  <2>2. Popped(k) = RemoveAt(table, i)
    BY <1>3 DEF Popped
  <2> HIDE DEF i
  <2> QED
    BY <1>1, <2>1, <2>2, RemoveKey
<1> QED
  BY <1>2, <1>3

LEMMA TableStep == TableInv /\ [Next]_vars => TableInv'
<1> SUFFICES ASSUME Filed, Running, [Next]_vars
             PROVE  TableInv'
  BY Halves
<1>1. ASSUME Filed', Running' PROVE TableInv'
  BY <1>1, Halves, PTL
<1>2. 0 \in 0 .. MaxLag
  BY Bounds
<1>3. /\ <<>> \in Seq(Ages) /\ Sorted(<<>>)
      /\ <<0>> \in Seq(Ages) /\ Sorted(<<0>>)
  BY Bounds, EmptySorted
<1>4. ASSUME UNCHANGED <<table, entries>> PROVE Filed'
  BY <1>4 DEF Filed
<1>5. ASSUME NEW e \in Emails, Register(e) PROVE TableInv'
  BY <1>1, <1>4, <1>5 DEF Register, Running
<1>6. ASSUME NEW t \in Threads, NEW k \in Keys, Login(t, k) PROVE TableInv'
  <2>1. Running'
    BY <1>2, <1>6 DEF Login, Go, Running, Places
  <2> QED
    BY <1>1, <1>4, <1>6, <2>1 DEF Login
<1>7. ASSUME NEW t \in Threads, IsLimited(t) PROVE TableInv'
  <2> DEFINE k == key[t]
             q == Prune(entries[k], lag[t])
  <2>1. k \in Keys /\ lag[t] \in Nat
    BY Bounds DEF Running
  <2>2. q \in Seq(Ages) /\ Sorted(q)
    BY <2>1, PruneRecent DEF Filed
  <2>3. /\ entries' = [entries EXCEPT ![k] = q] /\ table' = Inserted(k)
        /\ pc' = [pc EXCEPT ![t] = IF Len(q) >= Attempts THEN "idle" ELSE "checked"]
        /\ lag' = [lag EXCEPT ![t] = 0] /\ key' = key /\ users' = users
    BY <1>7 DEF IsLimited, Go
  <2> HIDE DEF k, q
  <2>4. Running'
    BY <1>2, <2>3 DEF Running, Places
  <2>5. /\ table' \in Seq(Keys) /\ IsInjective(table')
        /\ Contains(table', k) /\ \A c : Contains(table, c) => Contains(table', c)
    BY <2>1, <2>3, InsertedFiled
  <2>6. Filed'
    BY <2>1, <2>2, <2>3, <2>5 DEF Filed
  <2> QED
    BY <1>1, <2>4, <2>6
<1>8. ASSUME NEW t \in Threads, Verify(t) \/ Answer(t) \/ DatabaseFails(t) PROVE TableInv'
  <2>1. Running'
    BY <1>8 DEF Verify, Answer, DatabaseFails, Go, Running, Places
  <2> QED
    BY <1>1, <1>4, <1>8, <2>1 DEF Verify, Answer, DatabaseFails
<1>9. ASSUME NEW t \in Threads, AddFailure(t) PROVE TableInv'
  <2> DEFINE k == key[t]
  <2>1. k \in Keys
    BY DEF Running
  <2>2. Running'
    BY <1>9 DEF AddFailure, Go, Running, Places
  <2>3. CASE Evicts(k)
    <3>1. /\ table' = Append(Tail(table), k)
          /\ entries' = [entries EXCEPT ![Head(table)] = <<>>, ![k] = <<0>>]
      BY <1>9, <2>3 DEF AddFailure
    <3> HIDE DEF k
    <3>2. table # <<>> /\ ~ Contains(table, k)
      <4>1. ~ Contains(table, k) /\ Len(table) >= MaxKeys /\ MaxKeys \in Nat \ {0}
        BY <2>3, LimiterAssumption DEF Evicts, LimiterAssumption
      <4>2. Len(<<>>) = 0
        OBVIOUS
      <4> QED
        BY <4>1, <4>2
    <3>3. /\ Tail(table) \in Seq(Keys) /\ IsInjective(Tail(table))
          /\ ~ Contains(Tail(table), k)
          /\ \A c : Contains(table, c) /\ c # Head(table) => Contains(Tail(table), c)
      BY <3>2, TailKey DEF Filed
    <3>4. /\ table' \in Seq(Keys) /\ IsInjective(table') /\ Contains(table', k)
          /\ \A c : Contains(Tail(table), c) => Contains(table', c)
      BY <2>1, <3>1, <3>3, AppendKey
    <3>5. Head(table) \in Keys
      BY <3>2, HeadTailProperties DEF Filed
    <3>6. Filed'
      BY <1>3, <2>1, <3>1, <3>3, <3>4, <3>5 DEF Filed
    <3> QED
      BY <1>1, <2>2, <3>6
  <2>4. CASE ~ Evicts(k)
    <3>1. table' = Inserted(k) /\ entries' = [entries EXCEPT ![k] = Append(entries[k], 0)]
      BY <1>9, <2>4 DEF AddFailure
    <3> HIDE DEF k
    <3>2. Append(entries[k], 0) \in Seq(Ages) /\ Sorted(Append(entries[k], 0))
      BY <2>1, AppendSorted DEF Filed
    <3>3. /\ table' \in Seq(Keys) /\ IsInjective(table')
          /\ Contains(table', k) /\ \A c : Contains(table, c) => Contains(table', c)
      BY <2>1, <3>1, InsertedFiled
    <3>4. Filed'
      BY <2>1, <3>1, <3>2, <3>3 DEF Filed
    <3> QED
      BY <1>1, <2>2, <3>4
  <2> QED
    BY <2>3, <2>4
<1>10. ASSUME NEW t \in Threads, Clear(t) PROVE TableInv'
  <2> DEFINE k == key[t]
  <2>1. k \in Keys
    BY DEF Running
  <2>2. Running'
    BY <1>10 DEF Clear, Go, Running, Places
  <2>3. table' = Popped(k) /\ entries' = [entries EXCEPT ![k] = <<>>]
    BY <1>10 DEF Clear
  <2> HIDE DEF k
  <2>4. /\ table' \in Seq(Keys) /\ IsInjective(table')
        /\ \A c : Contains(table, c) /\ c # k => Contains(table', c)
    BY <2>1, <2>3, PoppedFiled
  <2>5. Filed'
    BY <1>3, <2>1, <2>3, <2>4 DEF Filed
  <2> QED
    BY <1>1, <2>2, <2>5
<1>11. ASSUME Restart PROVE TableInv'
  <2>1. Running'
    BY <1>2, <1>11 DEF Restart, Running, Places
  <2>2. table' \in Seq(Keys) /\ DOMAIN table' = {}
    BY <1>11 DEF Restart
  <2>3. IsInjective(table')
    BY <2>2 DEF IsInjective
  <2>4. Filed'
    BY <1>3, <1>11, <2>2, <2>3 DEF Restart, Filed
  <2> QED
    BY <1>1, <2>1, <2>4
<1>12. ASSUME Tick PROVE TableInv'
  <2>1. Running'
    BY <1>12, Bounds DEF Tick, Running
  <2>2. \A k \in Keys : /\ entries'[k] = [i \in DOMAIN entries[k] |-> Older(entries[k][i])]
                        /\ entries'[k] \in Seq(Ages) /\ Sorted(entries'[k])
                        /\ entries[k] = <<>> => entries'[k] = <<>>
    BY <1>12, OlderSorted DEF Tick, Filed
  <2>3. Filed'
    BY <1>12, <2>2 DEF Tick, Filed
  <2> QED
    BY <1>1, <2>1, <2>3
<1>13. CASE UNCHANGED vars
  BY <1>1, <1>4, <1>13 DEF vars, Running
<1> QED
  BY <1>5, <1>6, <1>7, <1>8, <1>9, <1>10, <1>11, <1>12, <1>13 DEF Next, Step

(* Of the steps that end a waiting request, a refusal counts its queue     *)
(* after pruning it, and the other is the restart of the server.           *)
LEMMA RefusalStep == TableInv /\ [Next]_vars => RefusedInWindow
<1> SUFFICES ASSUME Filed, Running, [Next]_vars, NEW t \in Threads,
                    pc[t] = "asking", pc'[t] = "idle"
             PROVE  \/ Cardinality(Recent(key[t], lag[t])) >= Attempts
                    \/ pc' = [u \in Threads |-> "idle"] /\ table' = <<>>
  BY Halves DEF RefusedInWindow
<1>1. CASE Restart
  BY <1>1 DEF Restart
<1>2. CASE ~ Restart
  <2>1. IsLimited(t)
    <3>1. pc \in [Threads -> Places]
      BY DEF Running
    <3> QED
      BY <1>2, <3>1 DEF Next, Step, vars, Go, Register, Login, IsLimited, Verify, AddFailure, Clear, Answer,
         DatabaseFails, Tick
  <2> DEFINE k == key[t]
             q == Prune(entries[k], lag[t])
             recent == {i \in DOMAIN entries[k] : entries[k][i] < Window + lag[t]}
  <2>2. k \in Keys /\ lag[t] \in Nat
    BY Bounds DEF Running
  <2>3. Len(q) >= Attempts
    BY <2>1 DEF IsLimited, Go, Running
  <2>4. Len(q) <= Cardinality(recent) /\ q \in Seq(Ages)
    BY <2>2, PruneRecent DEF Filed
  <2>5. Len(q) \in Nat
    BY <2>4, LenProperties
  <2>6. Cardinality(recent) \in Nat
    <3>1. DOMAIN entries[k] = 1 .. Len(entries[k]) /\ Len(entries[k]) \in Nat
      BY <2>2, LenProperties DEF Filed
    <3>2. IsFiniteSet(1 .. Len(entries[k])) /\ recent \in SUBSET (1 .. Len(entries[k]))
      BY <3>1, FS_Interval
    <3> QED
      BY <3>2, FS_Subset, FS_CardinalityType
  <2>7. Recent(k, lag[t]) = recent
    BY DEF Recent
  <2> HIDE DEF k, q, recent
  <2>8. Cardinality(Recent(k, lag[t])) >= Attempts
    BY <2>3, <2>4, <2>5, <2>6, <2>7, Bounds
  <2> QED
    BY <2>8 DEF k
<1> QED
  BY <1>1, <1>2

(* The table has one entry for each key with failures, through insertion,  *)
(* eviction and clear in any order (middleware.py:84-106).                 *)
THEOREM TypeCorrect == Spec => []TypeOK
<1>1. TableInv => TypeOK
  BY DEF TableInv
<1> QED
  BY TableInit, TableStep, <1>1, PTL DEF Spec

(* A login is refused only for Attempts failures within the window at the  *)
(* time the request read (middleware.py:86-91, auth.py:43).                *)
THEOREM RefusalsInWindow == Spec => NoStaleRefusal
<1> QED
  BY TableInit, TableStep, RefusalStep, PTL DEF Spec, NoStaleRefusal
=============================================================================
