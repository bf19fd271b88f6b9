----------------------------- MODULE AuthProofs -----------------------------
(***************************************************************************)
(* Proofs about Auth.tla, for any number of browsers, keys and sessions,   *)
(* any limits and windows, and waits shorter than the windows.             *)
(***************************************************************************)
EXTENDS Auth, LeastNumbers, FiniteSetTheorems, SequenceTheorems, TLAPS

LEMMA Bounds ==
  /\ PerClientFailures \in Nat /\ PerClientFailures >= 1
  /\ GlobalFailures \in Nat /\ GlobalFailures >= 1
  /\ MaxSessions \in Nat /\ MaxSessions >= 1
  /\ Window \in Nat /\ GlobalWindow \in Nat /\ SessionTTL \in Nat /\ MaxWait \in Nat
  /\ MaxWait < SessionTTL /\ MaxWait <= Window /\ MaxWait <= GlobalWindow
  BY LimitsAssumption

LEMMA LimitsOfAKey ==
  ASSUME NEW k
  PROVE  /\ Limit(k) \in Nat /\ Limit(k) >= 1
         /\ Span(k) \in Nat /\ MaxWait <= Span(k)
         /\ Horizon(k) \in Nat /\ Horizon(k) = Span(k) + 2 * MaxWait
  BY Bounds DEF Limit, Span, Horizon

-----------------------------------------------------------------------------
(* The queues of the limiter.                                                *)

(* A queue of a key: failures are recorded out of order by less than a wait. *)
Ages(k) == 0..(Horizon(k) + 1)

Queue(q, k) ==
  /\ q \in Seq(Ages(k)) /\ Len(q) <= Limit(k)
  /\ \A i, j \in 1..Len(q) : i < j => q[j] <= q[i] + MaxWait

LEMMA AgesAreNumbers ==
  ASSUME NEW k, NEW q \in Seq(Ages(k))
  PROVE  /\ Len(q) \in Nat /\ DOMAIN q = 1..Len(q)
         /\ \A i \in 1..Len(q) : q[i] \in Ages(k) /\ q[i] \in Nat
  <1>1. \A a \in Ages(k) : a \in Nat
    BY LimitsOfAKey DEF Ages
  <1> QED
    BY <1>1

(* What is left of a queue: nothing, or all from the first that is kept.     *)
LEMMA PrunedParts ==
  ASSUME NEW k, NEW q \in Seq(Ages(k)), NEW wait \in 0..MaxWait
  PROVE  \/ /\ Pruned(q, wait, k) = <<>>
            /\ \A i \in 1..Len(q) : q[i] - wait > Span(k)
         \/ \E first \in 1..Len(q) :
              /\ q[first] - wait <= Span(k)
              /\ \A i \in 1..Len(q) : q[i] - wait <= Span(k) => first <= i
              /\ Pruned(q, wait, k) \in Seq(Ages(k))
              /\ Len(Pruned(q, wait, k)) = Len(q) - first + 1
              /\ \A i \in 1..(Len(q) - first + 1) :
                   Pruned(q, wait, k)[i] = q[first + i - 1]
  <1> DEFINE kept == {i \in DOMAIN q : q[i] - wait <= Span(k)}
  <1>1. /\ DOMAIN q = 1..Len(q) /\ Len(q) \in Nat
        /\ \A i \in 1..Len(q) : q[i] \in Ages(k) /\ q[i] \in Nat
    BY AgesAreNumbers
  <1>2. wait \in Nat /\ Span(k) \in Nat
    BY Bounds, LimitsOfAKey
  <1>3. CASE kept = {}
    <2>1. Pruned(q, wait, k) = <<>>
      BY <1>3 DEF Pruned
    <2>2. \A i \in 1..Len(q) : ~(q[i] - wait <= Span(k))
      BY <1>1, <1>3
    <2>3. \A i \in 1..Len(q) : q[i] - wait > Span(k)
      BY <1>1, <1>2, <2>2
    <2> QED
      BY <2>1, <2>3
  <1>4. CASE kept # {}
    <2> DEFINE first == CHOOSE i \in kept : \A j \in kept : i <= j
    <2>1. kept \in SUBSET Nat
      BY <1>1
    <2>2. \E i \in kept : \A j \in kept : i <= j
      <3> HIDE DEF kept
      <3> QED
        BY <1>4, <2>1, LeastOf
    <2>3. first \in kept /\ \A j \in kept : first <= j
      <3> HIDE DEF kept
      <3> QED
        BY <2>2
    <2>4. Pruned(q, wait, k) = SubSeq(q, first, Len(q))
      BY <1>4 DEF Pruned
    <2> HIDE DEF first
    <2>5. first \in 1..Len(q) /\ q[first] - wait <= Span(k)
          /\ \A i \in 1..Len(q) : q[i] - wait <= Span(k) => first <= i
      BY <2>3, <1>1
    <2>6. \A i \in first..Len(q) : q[i] \in Ages(k)
      BY <1>1, <2>5
    <2>7. /\ SubSeq(q, first, Len(q)) \in Seq(Ages(k))
          /\ Len(SubSeq(q, first, Len(q))) = Len(q) - first + 1
          /\ \A i \in 1..(Len(q) - first + 1) : SubSeq(q, first, Len(q))[i] = q[first + i - 1]
      <3>1. first \in Int /\ Len(q) \in Int /\ first <= Len(q)
        BY <2>5, <1>1
      <3> QED
        BY <3>1, <2>6, SubSeqProperties
    <2> QED
      BY <2>4, <2>5, <2>7
  <1> QED
    BY <1>3, <1>4

LEMMA EmptyQueue == \A k : Queue(<<>>, k)
  <1> TAKE k
  <1> QED
    BY LimitsOfAKey DEF Queue

LEMMA QueuePruned ==
  ASSUME NEW k, NEW q, Queue(q, k), NEW wait \in 0..MaxWait
  PROVE  Queue(Pruned(q, wait, k), k)
  <1> DEFINE p == Pruned(q, wait, k)
  <1>1. q \in Seq(Ages(k)) /\ Len(q) <= Limit(k)
        /\ \A i, j \in 1..Len(q) : i < j => q[j] <= q[i] + MaxWait
    BY DEF Queue
  <1>2. CASE p = <<>>
    BY <1>2, EmptyQueue
  <1>3. ASSUME NEW first \in 1..Len(q),
               p \in Seq(Ages(k)), Len(p) = Len(q) - first + 1,
               \A i \in 1..(Len(q) - first + 1) : p[i] = q[first + i - 1]
        PROVE  Queue(p, k)
    <2> HIDE DEF p
    <2>1. Len(q) \in Nat /\ Limit(k) \in Nat
      BY <1>1, AgesAreNumbers, LimitsOfAKey
    <2>2. Len(p) <= Limit(k)
      BY <1>1, <1>3, <2>1
    <2>3. ASSUME NEW i \in 1..Len(p), NEW j \in 1..Len(p), i < j
          PROVE  p[j] <= p[i] + MaxWait
      <3>1. /\ first + i - 1 \in 1..Len(q) /\ first + j - 1 \in 1..Len(q)
            /\ first + i - 1 < first + j - 1
        BY <1>3, <2>1, <2>3
      <3>2. p[i] = q[first + i - 1] /\ p[j] = q[first + j - 1]
        BY <1>3, <2>3
      <3> QED
        BY <1>1, <3>1, <3>2
    <2> QED
      BY <1>3, <2>2, <2>3 DEF Queue
  <1> QED
    BY <1>1, <1>2, <1>3, PrunedParts

LEMMA QueueAppended ==
  ASSUME NEW k, NEW q, Queue(q, k), Len(q) < Limit(k), NEW wait \in 0..MaxWait
  PROVE  Queue(Append(q, wait), k)
  <1> DEFINE p == Append(q, wait)
  <1>1. q \in Seq(Ages(k)) /\ \A i, j \in 1..Len(q) : i < j => q[j] <= q[i] + MaxWait
    BY DEF Queue
  <1>2. wait \in Ages(k) /\ wait \in Nat /\ wait <= MaxWait /\ MaxWait \in Nat
    BY Bounds, LimitsOfAKey DEF Ages
  <1>3. /\ p \in Seq(Ages(k)) /\ Len(p) = Len(q) + 1
        /\ \A i \in 1..Len(q) : p[i] = q[i]
        /\ p[Len(q) + 1] = wait
    BY <1>1, <1>2, AppendProperties
  <1>4. Len(q) \in Nat /\ Limit(k) \in Nat /\ \A i \in 1..Len(q) : q[i] \in Nat
    BY <1>1, AgesAreNumbers, LimitsOfAKey
  <1> HIDE DEF p
  <1>5. ASSUME NEW i \in 1..Len(p), NEW j \in 1..Len(p), i < j
        PROVE  p[j] <= p[i] + MaxWait
    <2>1. i \in 1..Len(q) /\ p[i] = q[i]
      BY <1>3, <1>4, <1>5
    <2>2. CASE j \in 1..Len(q)
      BY <2>1, <2>2, <1>1, <1>3, <1>5
    <2>3. CASE j = Len(q) + 1
      <3>1. p[j] = wait /\ p[i] \in Nat
        BY <2>1, <2>3, <1>3, <1>4
      <3> QED
        BY <3>1, <1>2
    <2> QED
      BY <2>2, <2>3, <1>3, <1>4
  <1> QED
    BY <1>3, <1>4, <1>5 DEF Queue, p

LEMMA QueueGrowsOlder ==
  ASSUME NEW k, NEW q, Queue(q, k)
  PROVE  /\ Queue([i \in DOMAIN q |-> Older(q[i], k)], k)
         /\ Len([i \in DOMAIN q |-> Older(q[i], k)]) = Len(q)
  <1> DEFINE p == [i \in DOMAIN q |-> Older(q[i], k)]
  <1>1. q \in Seq(Ages(k)) /\ Len(q) <= Limit(k)
        /\ \A i, j \in 1..Len(q) : i < j => q[j] <= q[i] + MaxWait
    BY DEF Queue
  <1>2. DOMAIN q = 1..Len(q) /\ Len(q) \in Nat
        /\ \A i \in 1..Len(q) : q[i] \in Ages(k) /\ q[i] \in Nat
    BY <1>1, AgesAreNumbers
  <1>3. Horizon(k) \in Nat /\ MaxWait \in Nat
    BY Bounds, LimitsOfAKey
  <1>4. \A a \in Ages(k) : Older(a, k) \in Ages(k)
    BY <1>3 DEF Ages, Older
  <1>5. p \in [1..Len(q) -> Ages(k)]
    BY <1>2, <1>4
  <1>6. p \in Seq(Ages(k)) /\ Len(p) = Len(q)
    BY <1>2, <1>5
  <1>7. ASSUME NEW i \in 1..Len(q), NEW j \in 1..Len(q), i < j
        PROVE  p[j] <= p[i] + MaxWait
    <2>1. p[i] = Older(q[i], k) /\ p[j] = Older(q[j], k)
      BY <1>2
    <2>2. /\ q[i] \in 0..(Horizon(k) + 1) /\ q[j] \in 0..(Horizon(k) + 1)
          /\ q[j] <= q[i] + MaxWait
      BY <1>1, <1>2, <1>7 DEF Ages
    <2> HIDE DEF p
    <2> QED
      BY <2>1, <2>2, <1>3 DEF Older
  <1> QED
    BY <1>1, <1>6, <1>7 DEF Queue

-----------------------------------------------------------------------------
(* The record of guesses: each is still in the queue, in a place of its own. *)

Recorded(G, q, k) ==
  /\ G \subseteq (0..Span(k)) \X Nat
  /\ \E place \in [G -> 1..Len(q)] :
       /\ \A g, h \in G : place[g] = place[h] => g = h
       /\ \A g \in G : q[place[g]] = g[1]

LEMMA PlacesAreCounted ==
  ASSUME NEW n \in Nat
  PROVE  IsFiniteSet(1..n) /\ Cardinality(1..n) = n
  <1>1. n \in Int /\ 1 \in Int /\ n - 1 + 1 = n /\ (1 > n => n = 0)
    OBVIOUS
  <1> QED
    BY <1>1, FS_Interval

LEMMA RecordedIsCounted ==
  ASSUME NEW k, NEW q, Queue(q, k), NEW G, Recorded(G, q, k)
  PROVE  IsFiniteSet(G) /\ Cardinality(G) \in Nat /\ Cardinality(G) <= Limit(k)
  <1>1. PICK place \in [G -> 1..Len(q)] : \A g, h \in G : place[g] = place[h] => g = h
    BY DEF Recorded
  <1>2. Len(q) \in Nat /\ Len(q) <= Limit(k) /\ Limit(k) \in Nat
    BY AgesAreNumbers, LimitsOfAKey DEF Queue
  <1>3. IsFiniteSet(1..Len(q)) /\ Cardinality(1..Len(q)) = Len(q)
    BY <1>2, PlacesAreCounted
  <1>4. place \in Injection(G, 1..Len(q))
    BY <1>1 DEF Injection, IsInjective
  <1>5. IsFiniteSet(G) /\ Cardinality(G) <= Len(q)
    BY <1>3, <1>4, FS_Injection
  <1>6. Cardinality(G) \in Nat
    BY <1>5, FS_CardinalityType
  <1> QED
    BY <1>2, <1>5, <1>6

LEMMA NothingRecorded == \A k, q : Recorded({}, q, k)
  <1> TAKE k, q
  <1>1. [g \in {} |-> 0] \in [{} -> 1..Len(q)]
    OBVIOUS
  <1> QED
    BY <1>1 DEF Recorded

(* A prune drops no guess: it is too old for a clock that is behind, the     *)
(* more so for the present.                                                  *)
LEMMA RecordedAfterPrune ==
  ASSUME NEW k, NEW q, Queue(q, k), NEW G, Recorded(G, q, k), NEW wait \in 0..MaxWait
  PROVE  Recorded(G, Pruned(q, wait, k), k)
  <1> DEFINE p == Pruned(q, wait, k)
  <1>1. PICK place \in [G -> 1..Len(q)] :
          /\ \A g, h \in G : place[g] = place[h] => g = h
          /\ \A g \in G : q[place[g]] = g[1]
    BY DEF Recorded
  <1>2. q \in Seq(Ages(k)) /\ Len(q) \in Nat /\ \A i \in 1..Len(q) : q[i] \in Nat
    BY AgesAreNumbers DEF Queue
  <1>3. wait \in Nat /\ Span(k) \in Nat
    BY Bounds, LimitsOfAKey
  <1>4. ASSUME NEW g \in G
        PROVE  place[g] \in 1..Len(q) /\ q[place[g]] - wait <= Span(k)
    <2>1. g[1] \in 0..Span(k)
      BY DEF Recorded
    <2>2. place[g] \in 1..Len(q) /\ q[place[g]] = g[1]
      BY <1>1
    <2> QED
      BY <2>1, <2>2, <1>3
  <1>5. CASE \A i \in 1..Len(q) : q[i] - wait > Span(k)
    <2>1. G = {}
      <3> SUFFICES ASSUME NEW g \in G PROVE FALSE
        OBVIOUS
      <3>1. /\ place[g] \in 1..Len(q) /\ q[place[g]] - wait <= Span(k)
            /\ q[place[g]] - wait > Span(k)
        BY <1>4, <1>5
      <3>2. q[place[g]] \in Nat
        BY <3>1, <1>2
      <3> QED
        BY <3>1, <3>2, <1>3
    <2> QED
      BY <2>1, NothingRecorded
  <1>6. ASSUME NEW first \in 1..Len(q),
               \A i \in 1..Len(q) : q[i] - wait <= Span(k) => first <= i,
               Len(p) = Len(q) - first + 1,
               \A i \in 1..(Len(q) - first + 1) : p[i] = q[first + i - 1]
        PROVE  Recorded(G, p, k)
    <2> HIDE DEF p
    <2> DEFINE moved == [g \in G |-> place[g] - first + 1]
    <2>1. ASSUME NEW g \in G
          PROVE  /\ moved[g] = place[g] - first + 1
                 /\ moved[g] \in 1..Len(p) /\ p[moved[g]] = g[1]
      <3>1. place[g] \in 1..Len(q) /\ first <= place[g]
        BY <1>4, <1>6
      <3>2. place[g] - first + 1 \in 1..(Len(q) - first + 1)
            /\ first + (place[g] - first + 1) - 1 = place[g]
        BY <3>1, <1>2
      <3>3. p[place[g] - first + 1] = q[place[g]]
        BY <3>2, <1>6
      <3> QED
        BY <3>2, <3>3, <1>1, <1>6
    <2>2. ASSUME NEW g \in G, NEW h \in G, moved[g] = moved[h]
          PROVE  g = h
      <3>1. place[g] \in Nat /\ place[h] \in Nat /\ first \in Nat
        BY <1>4, <1>2
      <3>2. place[g] - first + 1 = place[h] - first + 1
        BY <2>1, <2>2
      <3>3. place[g] = place[h]
        BY <3>1, <3>2
      <3> QED
        BY <3>3, <1>1
    <2>3. moved \in [G -> 1..Len(p)]
      BY <2>1
    <2> HIDE DEF moved
    <2> QED
      BY <2>1, <2>2, <2>3 DEF Recorded
  <1> QED
    BY <1>2, <1>5, <1>6, PrunedParts

(* A guess takes a place of its own, at the end of the queue.                *)
LEMMA GuessIsNew ==
  ASSUME NEW k, NEW q, Queue(q, k), NEW G, Recorded(G, q, k), NEW age
  PROVE  \E n \in Nat : WithGuess(G, age) = G \cup {<<age, n>>} /\ <<age, n>> \notin G
  <1> DEFINE c == Cardinality(G)
  <1>1. IsFiniteSet(G) /\ c \in Nat
    BY RecordedIsCounted
  <1>2. \E n \in 0..c : <<age, n>> \notin G
    <2> SUFFICES ASSUME \A n \in 0..c : <<age, n>> \in G PROVE FALSE
      OBVIOUS
    <2> HIDE DEF c
    <2> DEFINE pair == [n \in 0..c |-> <<age, n>>]
    <2>1. pair \in [0..c -> G]
      OBVIOUS
    <2>2. \A m, n \in 0..c : pair[m] = pair[n] => m = n
      OBVIOUS
    <2>3. pair \in Injection(0..c, G)
      BY <2>1, <2>2 DEF Injection, IsInjective
    <2>4. Cardinality(0..c) <= c
      BY <2>3, <1>1, FS_Injection DEF c
    <2>5. Cardinality(0..c) = c + 1
      BY <1>1, FS_Interval
    <2> QED
      BY <1>1, <2>4, <2>5
  <1> DEFINE n == CHOOSE m \in 0..c : <<age, m>> \notin G
  <1>3. n \in 0..c /\ <<age, n>> \notin G
    <2> HIDE DEF c
    <2> QED
      BY <1>2
  <1>4. WithGuess(G, age) = G \cup {<<age, n>>}
    BY DEF WithGuess
  <1>5. n \in Nat
    BY <1>1, <1>3
  <1> HIDE DEF n
  <1> QED
    BY <1>3, <1>4, <1>5

LEMMA RecordedAfterFailure ==
  ASSUME NEW k, NEW q, Queue(q, k), NEW G, Recorded(G, q, k), NEW wait \in 0..MaxWait
  PROVE  Recorded(WithGuess(G, wait), Append(q, wait), k)
  <1> DEFINE p == Append(q, wait)
  <1>1. PICK place \in [G -> 1..Len(q)] :
          /\ \A g, h \in G : place[g] = place[h] => g = h
          /\ \A g \in G : q[place[g]] = g[1]
    BY DEF Recorded
  <1>2. PICK n \in Nat : WithGuess(G, wait) = G \cup {<<wait, n>>} /\ <<wait, n>> \notin G
    BY GuessIsNew
  <1>3. /\ p \in Seq(Ages(k)) /\ Len(p) = Len(q) + 1 /\ Len(q) \in Nat
        /\ \A i \in 1..Len(q) : p[i] = q[i]
        /\ p[Len(q) + 1] = wait
    <2>1. q \in Seq(Ages(k)) /\ wait \in Ages(k)
      BY Bounds, LimitsOfAKey DEF Queue, Ages
    <2> QED
      BY <2>1, AppendProperties, AgesAreNumbers
  <1> HIDE DEF p
  <1> DEFINE new   == <<wait, n>>
             all   == G \cup {new}
             moved == [g \in all |-> IF g = new THEN Len(q) + 1 ELSE place[g]]
  <1>4. new[1] = wait /\ new \in (0..Span(k)) \X Nat
    <2>1. wait \in 0..Span(k)
      BY Bounds, LimitsOfAKey
    <2> QED
      BY <2>1
  <1>5. new \notin G
    BY <1>2
  <1> HIDE DEF new
  <1>6. \A g \in G : moved[g] = place[g] /\ place[g] \in 1..Len(q)
    BY <1>5
  <1>7. moved[new] = Len(q) + 1
    OBVIOUS
  <1>8. moved \in [all -> 1..Len(p)]
    BY <1>3, <1>6, <1>7
  <1>9. \A g, h \in all : moved[g] = moved[h] => g = h
    <2> SUFFICES ASSUME NEW g \in all, NEW h \in all, moved[g] = moved[h]
                 PROVE  g = h
      OBVIOUS
    <2> HIDE DEF moved
    <2>1. CASE g \in G /\ h \in G
      BY <2>1, <1>1, <1>6
    <2>2. CASE g = new /\ h = new
      BY <2>2
    <2>3. CASE g = new /\ h \in G
      BY <2>3, <1>3, <1>6, <1>7
    <2>4. CASE h = new /\ g \in G
      BY <2>4, <1>3, <1>6, <1>7
    <2> QED
      BY <2>1, <2>2, <2>3, <2>4
  <1>10. \A g \in all : p[moved[g]] = g[1]
    <2> HIDE DEF moved
    <2>1. \A g \in G : p[moved[g]] = g[1]
      BY <1>1, <1>3, <1>6
    <2>2. p[moved[new]] = new[1]
      BY <1>3, <1>4, <1>7
    <2> QED
      BY <2>1, <2>2
  <1>11. all \subseteq (0..Span(k)) \X Nat
    BY <1>4 DEF Recorded
  <1> HIDE DEF moved
  <1>12. Recorded(all, p, k)
    <2> HIDE DEF all
    <2> QED
      BY <1>8, <1>9, <1>10, <1>11 DEF Recorded
  <1> QED
    BY <1>2, <1>12 DEF p, new

LEMMA RecordedGrowsOlder ==
  ASSUME NEW k, NEW q, Queue(q, k), NEW G, Recorded(G, q, k)
  PROVE  Recorded({<<g[1] + 1, g[2]>> : g \in {h \in G : h[1] < Span(k)}},
                  [i \in DOMAIN q |-> Older(q[i], k)], k)
  <1> DEFINE p     == [i \in DOMAIN q |-> Older(q[i], k)]
             kept  == {h \in G : h[1] < Span(k)}
             later == {<<g[1] + 1, g[2]>> : g \in kept}
  <1>1. PICK place \in [G -> 1..Len(q)] :
          /\ \A g, h \in G : place[g] = place[h] => g = h
          /\ \A g \in G : q[place[g]] = g[1]
    BY DEF Recorded
  <1>2. q \in Seq(Ages(k)) /\ DOMAIN q = 1..Len(q) /\ Len(q) \in Nat
        /\ Span(k) \in Nat /\ Horizon(k) \in Nat /\ Span(k) <= Horizon(k)
    BY Bounds, LimitsOfAKey, AgesAreNumbers DEF Queue
  <1>3. Len(p) = Len(q)
    BY QueueGrowsOlder
  <1>4. \A g \in G : g \in (0..Span(k)) \X Nat /\ g = <<g[1], g[2]>>
    BY DEF Recorded
  <1> DEFINE back(y) == <<y[1] - 1, y[2]>>
             moved   == [y \in later |-> place[back(y)]]
  <1>5. ASSUME NEW y \in later
        PROVE  /\ back(y) \in G /\ back(y)[1] + 1 = y[1] /\ y = <<back(y)[1] + 1, back(y)[2]>>
               /\ back(y)[1] \in Nat /\ back(y)[1] < Span(k) /\ back(y)[2] \in Nat
    <2>1. PICK g \in kept : y = <<g[1] + 1, g[2]>>
      OBVIOUS
    <2>2. g \in G /\ g[1] \in 0..Span(k) /\ g[2] \in Nat /\ g[1] < Span(k) /\ g = <<g[1], g[2]>>
      BY <1>4
    <2>3. y[1] = g[1] + 1 /\ y[2] = g[2]
      BY <2>1
    <2>4. back(y) = <<g[1], g[2]>>
      BY <2>2, <2>3
    <2> QED
      BY <2>1, <2>2, <2>3, <2>4
  <1>6. later \subseteq (0..Span(k)) \X Nat
    <2> SUFFICES ASSUME NEW y \in later PROVE y \in (0..Span(k)) \X Nat
      OBVIOUS
    <2> HIDE DEF later, back
    <2> QED
      BY <1>5, <1>2
  <1>7. ASSUME NEW y \in later
        PROVE  /\ moved[y] = place[back(y)] /\ moved[y] \in 1..Len(p)
               /\ p[moved[y]] = y[1]
    <2> HIDE DEF later, back
    <2>1. moved[y] = place[back(y)]
      BY DEF moved
    <2>2. place[back(y)] \in 1..Len(q) /\ q[place[back(y)]] = back(y)[1]
      BY <1>1, <1>5
    <2>3. p[place[back(y)]] = Older(back(y)[1], k)
      BY <2>2, <1>2
    <2>4. Older(back(y)[1], k) = back(y)[1] + 1
      BY <1>2, <1>5 DEF Older
    <2> HIDE DEF p, moved
    <2> QED
      BY <2>1, <2>2, <2>3, <2>4, <1>3, <1>5
  <1>8. ASSUME NEW y \in later, NEW z \in later, moved[y] = moved[z]
        PROVE  y = z
    <2> HIDE DEF later, back, moved
    <2>1. place[back(y)] = place[back(z)]
      BY <1>7, <1>8
    <2>2. back(y) = back(z)
      BY <2>1, <1>1, <1>5
    <2> QED
      BY <2>2, <1>5
  <1>9. moved \in [later -> 1..Len(p)]
    <2> HIDE DEF later, back, p
    <2> QED
      BY <1>7
  <1> HIDE DEF later, back, p, moved
  <1>10. Recorded(later, p, k)
    BY <1>6, <1>7, <1>8, <1>9 DEF Recorded
  <1> QED
    BY <1>10 DEF later, p, kept

-----------------------------------------------------------------------------
(* The limiter.                                                              *)

LimiterOK ==
  /\ failures = [k \in Counted |-> failures[k]]
  /\ guesses = [k \in Counted |-> guesses[k]]
  /\ \A k \in Counted : Queue(failures[k], k) /\ Recorded(guesses[k], failures[k], k)
  /\ request \in [Browsers -> Requests]

LEMMA RequestsTyped ==
  /\ NoRequest \in Requests
  /\ \A r \in Requests, ph \in {"sent", "admitted"} :
       [r EXCEPT !.phase = ph] \in Requests
  /\ \A r \in Requests : r.wait \in 0..MaxWait
  BY Bounds DEF Requests, NoRequest

LEMMA EmptyLimiter ==
  ASSUME failures = [k \in Counted |-> <<>>], guesses = [k \in Counted |-> {}]
  PROVE  /\ failures = [k \in Counted |-> failures[k]]
         /\ guesses = [k \in Counted |-> guesses[k]]
         /\ \A k \in Counted : Queue(failures[k], k) /\ Recorded(guesses[k], failures[k], k)
  BY EmptyQueue, NothingRecorded

LEMMA InitLimiter == Init => LimiterOK
  BY EmptyLimiter, RequestsTyped DEF Init, LimiterOK

(* What a prune leaves to a key.                                             *)
LEMMA PruneKeeps ==
  ASSUME LimiterOK, NEW wait \in 0..MaxWait, NEW k \in Counted
  PROVE  /\ AfterPrune(wait)[k] = Pruned(failures[k], wait, k)
         /\ Queue(AfterPrune(wait)[k], k)
         /\ Recorded(guesses[k], AfterPrune(wait)[k], k)
  BY QueuePruned, RecordedAfterPrune DEF LimiterOK, AfterPrune

LEMMA NextLimiter == LimiterOK /\ [Next]_vars => LimiterOK'
  <1> SUFFICES ASSUME LimiterOK, [Next]_vars PROVE LimiterOK'
    OBVIOUS
  <1>1. ASSUME NEW b \in Browsers, Submit(b) PROVE LimiterOK'
    BY <1>1, RequestsTyped DEF LimiterOK, Submit
  <1>2. ASSUME NEW b \in Browsers, NEW c \in Clients,
               Refuse(b, c) \/ Fail(b, c) \/ Admit(b, c)
        PROVE  LimiterOK'
    <2> DEFINE wait == request[b].wait
    <2>1. wait \in 0..MaxWait /\ c \in Counted /\ Everybody \in Counted /\ c # Everybody
      BY RequestsTyped, NamesAssumption DEF LimiterOK, Counted
    <2>2. request' \in [Browsers -> Requests]
      <3>1. \/ request' = [request EXCEPT ![b] = NoRequest]
            \/ request' = [request EXCEPT ![b] = [request[b] EXCEPT !.phase = "admitted"]]
        BY <1>2 DEF Refuse, Fail, Admit
      <3>2. request \in [Browsers -> Requests] /\ NoRequest \in Requests
            /\ [request[b] EXCEPT !.phase = "admitted"] \in Requests
        BY RequestsTyped DEF LimiterOK
      <3> QED
        BY <3>1, <3>2
    <2> HIDE DEF wait
    <2>3. AfterPrune(wait) = [k \in Counted |-> AfterPrune(wait)[k]]
      BY DEF AfterPrune
    <2>4. CASE Refuse(b, c)
      <3>1. failures' = AfterPrune(wait) /\ guesses' = guesses
        BY <2>4 DEF Refuse, wait
      <3> QED
        BY <2>1, <2>2, <2>3, <3>1, PruneKeeps DEF LimiterOK
    <2>5. CASE Fail(b, c)
      <3>1. failures' = WithFailure(c, wait)
            /\ guesses' = [guesses EXCEPT ![c] = WithGuess(@, wait),
                                          ![Everybody] = WithGuess(@, wait)]
            /\ ~LockedOut(c, wait)
        BY <2>5 DEF Fail, wait
      <3>2. /\ failures' = [k \in Counted |-> failures'[k]]
            /\ guesses' = [k \in Counted |-> guesses'[k]]
        BY <2>3, <3>1 DEF LimiterOK, WithFailure
      <3>3. ASSUME NEW k \in {c, Everybody}
            PROVE  /\ failures'[k] = Append(AfterPrune(wait)[k], wait)
                   /\ guesses'[k] = WithGuess(guesses[k], wait)
        BY <2>1, <2>3, <3>1 DEF LimiterOK, WithFailure
      <3>4. ASSUME NEW k \in Counted, k \notin {c, Everybody}
            PROVE  failures'[k] = AfterPrune(wait)[k] /\ guesses'[k] = guesses[k]
        BY <2>1, <2>3, <3>1, <3>4 DEF LimiterOK, WithFailure
      <3>5. ASSUME NEW k \in {c, Everybody}
            PROVE  Queue(failures'[k], k) /\ Recorded(guesses'[k], failures'[k], k)
        <4>1. Queue(AfterPrune(wait)[k], k) /\ Recorded(guesses[k], AfterPrune(wait)[k], k)
          BY <2>1, PruneKeeps
        <4>2. Len(AfterPrune(wait)[k]) < Limit(k)
          <5>1. Len(AfterPrune(wait)[k]) \in Nat
            BY <4>1, AgesAreNumbers DEF Queue
          <5>2. ~(Len(AfterPrune(wait)[k]) >= Limit(k))
            BY <3>1 DEF LockedOut
          <5> QED
            BY <5>1, <5>2, LimitsOfAKey
        <4> QED
          BY <2>1, <3>3, <4>1, <4>2, QueueAppended, RecordedAfterFailure
      <3>6. ASSUME NEW k \in Counted, k \notin {c, Everybody}
            PROVE  Queue(failures'[k], k) /\ Recorded(guesses'[k], failures'[k], k)
        BY <2>1, <3>4, <3>6, PruneKeeps
      <3> QED
        BY <2>2, <3>2, <3>5, <3>6 DEF LimiterOK
    <2>6. CASE Admit(b, c)
      <3>1. failures' = [AfterPrune(wait) EXCEPT ![c] = <<>>]
            /\ guesses' = [guesses EXCEPT ![c] = {}]
        BY <2>6 DEF Admit, wait
      <3>2. /\ failures' = [k \in Counted |-> failures'[k]]
            /\ guesses' = [k \in Counted |-> guesses'[k]]
        BY <2>3, <3>1 DEF LimiterOK
      <3>3. failures'[c] = <<>> /\ guesses'[c] = {}
        BY <2>1, <2>3, <3>1 DEF LimiterOK
      <3>4. ASSUME NEW k \in Counted, k # c
            PROVE  Queue(failures'[k], k) /\ Recorded(guesses'[k], failures'[k], k)
        <4>1. failures'[k] = AfterPrune(wait)[k] /\ guesses'[k] = guesses[k]
          BY <2>3, <3>1, <3>4 DEF LimiterOK
        <4> QED
          BY <2>1, <4>1, PruneKeeps
      <3> QED
        BY <2>2, <3>2, <3>3, <3>4, EmptyQueue, NothingRecorded DEF LimiterOK
    <2> QED
      BY <1>2, <2>4, <2>5, <2>6
  <1>3. ASSUME NEW b \in Browsers, OpenSession(b) PROVE LimiterOK'
    BY <1>3, RequestsTyped DEF LimiterOK, OpenSession
  <1>4. ASSUME NEW t \in Tokens, Logout(t) PROVE LimiterOK'
    BY <1>4 DEF LimiterOK, Logout
  <1>5. CASE Tick
    <2>1. /\ failures' = [k \in Counted |->
               [i \in DOMAIN failures[k] |-> Older(failures[k][i], k)]]
          /\ guesses' = [k \in Counted |->
               {<<g[1] + 1, g[2]>> : g \in {h \in guesses[k] : h[1] < Span(k)}}]
      BY <1>5 DEF Tick
    <2>2. ASSUME NEW k \in Counted
          PROVE  Queue(failures'[k], k) /\ Recorded(guesses'[k], failures'[k], k)
      BY <2>1, QueueGrowsOlder, RecordedGrowsOlder DEF LimiterOK
    <2>3. request' \in [Browsers -> Requests]
      BY <1>5, Bounds DEF LimiterOK, Tick, Requests, NoRequest
    <2> QED
      BY <2>1, <2>2, <2>3 DEF LimiterOK
  <1>6. CASE Restart
    <2>1. request' \in [Browsers -> Requests]
      BY <1>6, RequestsTyped DEF Restart
    <2>2. failures' = [k \in Counted |-> <<>>] /\ guesses' = [k \in Counted |-> {}]
      BY <1>6 DEF Restart
    <2> QED
      BY <2>1, <2>2, EmptyQueue, NothingRecorded DEF LimiterOK
  <1>7. CASE UNCHANGED vars
    BY <1>7 DEF LimiterOK, vars
  <1> QED
    BY <1>1, <1>2, <1>3, <1>4, <1>5, <1>6, <1>7 DEF Next, Answer

(* Only fairness is left out.                                                *)
LEMMA SpecSteps == Spec => Init /\ [][Next]_vars
  BY PTL DEF Spec

LEMMA SpecLimiter == Spec => []LimiterOK
  BY InitLimiter, NextLimiter, SpecSteps, PTL

(* A key never has more wrong passwords tested within the window than its    *)
(* limit, nor everybody together (auth.rs:15-20): each is still in its queue.*)
THEOREM GuessesStayBounded == Spec => []GuessesBounded
  <1>1. LimiterOK => GuessesBounded
    BY RecordedIsCounted DEF LimiterOK, GuessesBounded
  <1> QED
    BY <1>1, SpecLimiter, PTL

(* What a prune keeps behind the first is younger than the horizon too.      *)
LEMMA PrunedIsRecent ==
  ASSUME NEW k, NEW q, Queue(q, k), NEW wait \in 0..MaxWait
  PROVE  LET p == Pruned(q, wait, k)
         IN  Cardinality({i \in DOMAIN p : p[i] <= Horizon(k)}) = Len(p)
  <1> DEFINE p == Pruned(q, wait, k)
  <1>1. Queue(p, k)
    BY QueuePruned
  <1>2. DOMAIN p = 1..Len(p) /\ Len(p) \in Nat
    BY <1>1, AgesAreNumbers DEF Queue
  <1>3. \A i \in 1..Len(p) : p[i] <= Horizon(k)
    <2>1. q \in Seq(Ages(k)) /\ Len(q) \in Nat /\ \A i \in 1..Len(q) : q[i] \in Nat
      BY AgesAreNumbers DEF Queue
    <2>2. CASE p = <<>>
      BY <2>2
    <2>3. ASSUME NEW first \in 1..Len(q), q[first] - wait <= Span(k),
                 Len(p) = Len(q) - first + 1,
                 \A i \in 1..(Len(q) - first + 1) : p[i] = q[first + i - 1]
          PROVE  \A i \in 1..Len(p) : p[i] <= Horizon(k)
      <3> HIDE DEF p
      <3> TAKE i \in 1..Len(p)
      <3>1. p[i] = q[first + i - 1] /\ first + i - 1 \in 1..Len(q) /\ first <= first + i - 1
        BY <2>1, <2>3
      <3>2. q[first + i - 1] <= q[first] + MaxWait
        <4>1. CASE i = 1
          BY <4>1, <2>1, Bounds
        <4>2. CASE i # 1
          <5>1. first < first + i - 1
            BY <4>2, <2>1
          <5> QED
            BY <5>1, <3>1 DEF Queue
        <4> QED
          BY <4>1, <4>2
      <3>3. q[first] \in Nat /\ q[first + i - 1] \in Nat
        BY <2>1, <3>1
      <3>4. /\ wait \in Nat /\ wait <= MaxWait /\ MaxWait \in Nat
            /\ Span(k) \in Nat /\ Horizon(k) = Span(k) + 2 * MaxWait
        BY Bounds, LimitsOfAKey
      <3>5. q[first] <= Span(k) + wait
        BY <3>3, <3>4, <2>3
      <3> QED
        BY <3>1, <3>2, <3>3, <3>4, <3>5, SMTT(30)
    <2> QED
      BY <2>1, <2>2, <2>3, PrunedParts
  <1> HIDE DEF p
  <1>4. {i \in DOMAIN p : p[i] <= Horizon(k)} = 1..Len(p)
    BY <1>2, <1>3
  <1>5. Cardinality(1..Len(p)) = Len(p)
    BY <1>2, PlacesAreCounted
  <1> QED
    BY <1>4, <1>5 DEF p

(* A login is refused only while its key or everybody has as many failures   *)
(* as lock them out, none older than the window but for two waits            *)
(* (auth.rs:97-103).                                                         *)
THEOREM RefusalsHaveACause == Spec => RefusedForCause
  <1> DEFINE P == \A b \in Browsers, c \in Clients : Refuse(b, c) =>
                    \E k \in {c, Everybody} :
                      Cardinality({i \in DOMAIN failures'[k] : failures'[k][i] <= Horizon(k)})
                        >= Limit(k)
  <1>1. ASSUME LimiterOK PROVE P
    <2> TAKE b \in Browsers, c \in Clients
    <2> HAVE Refuse(b, c)
    <2> DEFINE wait == request[b].wait
    <2>1. wait \in 0..MaxWait
      BY <1>1, RequestsTyped DEF LimiterOK
    <2>2. failures' = AfterPrune(wait) /\ LockedOut(c, wait)
      BY DEF Refuse
    <2> HIDE DEF wait
    <2>3. PICK k \in {c, Everybody} : Len(AfterPrune(wait)[k]) >= Limit(k)
      BY <2>2 DEF LockedOut
    <2>4. k \in Counted
      BY DEF Counted
    <2>5. failures'[k] = Pruned(failures[k], wait, k) /\ Queue(failures[k], k)
      BY <1>1, <2>1, <2>2, <2>4, PruneKeeps DEF LimiterOK
    <2>6. Cardinality({i \in DOMAIN failures'[k] : failures'[k][i] <= Horizon(k)})
            = Len(AfterPrune(wait)[k])
      BY <2>1, <2>2, <2>5, PrunedIsRecent
    <2> QED
      BY <2>3, <2>6
  <1>2. LimiterOK /\ [Next]_vars => [P]_vars
    BY <1>1
  <1>3. Spec => [][P]_vars
    <2> HIDE DEF P
    <2> QED
      BY <1>2, SpecLimiter, SpecSteps, PTL
  <1> QED
    BY <1>3 DEF RefusedForCause

-----------------------------------------------------------------------------
(* The table of sessions.                                                    *)

SessionsOK ==
  /\ sessions \in [Tokens -> Gone..SessionTTL]
  /\ Cardinality(InTable) <= MaxSessions

LEMMA GoneIsPast == Gone \in Int /\ Gone = -MaxWait - 1 /\ Gone \in Gone..SessionTTL
  BY Bounds DEF Gone

LEMMA TablesAreFinite ==
  ASSUME NEW T \in SUBSET Tokens
  PROVE  IsFiniteSet(T) /\ Cardinality(T) \in Nat
  BY NamesAssumption, FS_Subset, FS_CardinalityType

LEMMA SmallerTable ==
  ASSUME NEW S \in SUBSET Tokens, NEW T \in SUBSET S
  PROVE  Cardinality(T) <= Cardinality(S)
  BY TablesAreFinite, FS_Subset

LEMMA EmptyTable ==
  ASSUME sessions = [t \in Tokens |-> Gone]
  PROVE  SessionsOK
  <1>1. InTable = {}
    BY DEF InTable
  <1> QED
    BY <1>1, GoneIsPast, FS_EmptySet, Bounds DEF SessionsOK

(* The new session takes a place that is free or was made so.                *)
LEMMA OpenKeepsTable ==
  ASSUME SessionsOK, LimiterOK, NEW b \in Browsers, OpenSession(b)
  PROVE  SessionsOK'
  <1> DEFINE wait  == request[b].wait
             table == Retained(wait)
             new   == CHOOSE t \in Tokens : t \notin InTable
  <1>1. PICK out \in IF Cardinality(table) < MaxSessions THEN {{}}
                     ELSE {{t} : t \in Evicted(table)} :
          sessions' = [t \in Tokens |->
            IF t = new THEN SessionTTL - wait
            ELSE IF t \in table \ out THEN sessions[t] ELSE Gone]
    BY DEF OpenSession
  <1>2. wait \in Nat /\ wait <= MaxWait
    <2>1. wait \in 0..MaxWait
      BY RequestsTyped DEF LimiterOK
    <2> QED
      BY <2>1, Bounds
  <1>3. SessionTTL - wait \in Gone..SessionTTL
    <2> HIDE DEF wait
    <2> QED
      BY <1>2, Bounds DEF Gone
  <1> HIDE DEF wait, new
  <1>4. table \in SUBSET InTable /\ InTable \in SUBSET Tokens
    BY DEF Retained, InTable
  <1>5. sessions' \in [Tokens -> Gone..SessionTTL]
    <2> HIDE DEF table
    <2> QED
      BY <1>1, <1>3, GoneIsPast DEF SessionsOK
  <1>6. InTable' \subseteq (table \ out) \cup {new}
    <2> HIDE DEF table
    <2> QED
      BY <1>1 DEF InTable
  <1>7. Cardinality(table) <= MaxSessions /\ Cardinality(table) \in Nat
        /\ IsFiniteSet(table)
    <2>1. /\ Cardinality(table) <= Cardinality(InTable)
          /\ Cardinality(InTable) \in Nat /\ Cardinality(table) \in Nat
          /\ IsFiniteSet(table)
      <3> HIDE DEF table
      <3> QED
        BY <1>4, SmallerTable, TablesAreFinite
    <2> HIDE DEF table
    <2> QED
      BY <2>1, Bounds DEF SessionsOK
  <1>8. /\ Cardinality(table \ out) + 1 <= MaxSessions
        /\ Cardinality(table \ out) \in Nat /\ IsFiniteSet(table \ out)
    <2>1. CASE Cardinality(table) < MaxSessions
      <3>1. out = {}
        BY <1>1, <2>1
      <3>2. table \ out = table
        BY <3>1
      <3> HIDE DEF table
      <3> QED
        BY <2>1, <3>2, <1>7, Bounds
    <2>2. CASE ~(Cardinality(table) < MaxSessions)
      <3>1. PICK t \in Evicted(table) : out = {t}
        BY <1>1, <2>2
      <3>2. t \in table
        BY DEF Evicted
      <3> HIDE DEF table
      <3>3. IsFiniteSet(table \ {t}) /\ Cardinality(table \ {t}) = Cardinality(table) - 1
        BY <3>2, <1>7, FS_RemoveElement
      <3>4. Cardinality(table) = MaxSessions
        BY <2>2, <1>7, Bounds
      <3> QED
        BY <3>1, <3>3, <3>4, Bounds
    <2> QED
      BY <2>1, <2>2
  <1> HIDE DEF table
  <1>9. /\ IsFiniteSet((table \ out) \cup {new})
        /\ Cardinality((table \ out) \cup {new}) \in Nat
        /\ Cardinality((table \ out) \cup {new}) <= Cardinality(table \ out) + 1
    <2>1. /\ IsFiniteSet((table \ out) \cup {new})
          /\ Cardinality((table \ out) \cup {new})
               = IF new \in table \ out THEN Cardinality(table \ out)
                 ELSE Cardinality(table \ out) + 1
      BY <1>8, FS_AddElement
    <2> QED
      BY <2>1, <1>8
  <1>10. /\ Cardinality(InTable') <= Cardinality((table \ out) \cup {new})
         /\ Cardinality(InTable') \in Nat
    BY <1>6, <1>9, FS_Subset, FS_CardinalityType
  <1>11. Cardinality(InTable)' <= MaxSessions
    BY <1>8, <1>9, <1>10, Bounds
  <1> QED
    BY <1>5, <1>11 DEF SessionsOK

LEMMA NextSessions == SessionsOK /\ LimiterOK /\ [Next]_vars => SessionsOK'
  <1> SUFFICES ASSUME SessionsOK, LimiterOK, [Next]_vars PROVE SessionsOK'
    OBVIOUS
  <1>1. ASSUME UNCHANGED sessions PROVE SessionsOK'
    BY <1>1 DEF SessionsOK, InTable
  <1>2. ASSUME NEW b \in Browsers,
               Submit(b) \/ \E c \in Clients : Refuse(b, c) \/ Fail(b, c) \/ Admit(b, c)
        PROVE  SessionsOK'
    BY <1>1, <1>2 DEF Submit, Refuse, Fail, Admit
  <1>3. ASSUME NEW b \in Browsers, OpenSession(b) PROVE SessionsOK'
    BY <1>3, OpenKeepsTable
  <1>4. ASSUME sessions' \in [Tokens -> Gone..SessionTTL],
               \A t \in Tokens : sessions'[t] # Gone => sessions[t] # Gone
        PROVE  SessionsOK'
    <2>1. InTable' \in SUBSET InTable /\ InTable \in SUBSET Tokens
      BY <1>4 DEF InTable
    <2>2. /\ Cardinality(InTable') <= Cardinality(InTable)
          /\ Cardinality(InTable') \in Nat /\ Cardinality(InTable) \in Nat
      BY <2>1, SmallerTable, TablesAreFinite
    <2>3. Cardinality(InTable)' <= MaxSessions
      BY <2>2, Bounds DEF SessionsOK
    <2> QED
      BY <1>4, <2>3 DEF SessionsOK
  <1>5. ASSUME NEW t \in Tokens, Logout(t) PROVE SessionsOK'
    BY <1>4, <1>5, GoneIsPast DEF SessionsOK, Logout
  <1>6. CASE Tick
    <2>1. sessions' = [t \in Tokens |->
            IF sessions[t] > -MaxWait THEN sessions[t] - 1 ELSE sessions[t]]
      BY <1>6 DEF Tick
    <2>2. ASSUME NEW t \in Tokens
          PROVE  /\ sessions'[t] \in Gone..SessionTTL
                 /\ sessions'[t] # Gone => sessions[t] # Gone
      <3>1. sessions[t] \in Gone..SessionTTL
        BY DEF SessionsOK
      <3> QED
        BY <2>1, <3>1, GoneIsPast, Bounds
    <2>3. sessions' \in [Tokens -> Gone..SessionTTL]
      BY <2>1, <2>2
    <2> QED
      BY <1>4, <2>2, <2>3
  <1>7. CASE Restart
    <2>1. sessions' = [t \in Tokens |-> Gone]
      BY <1>7 DEF Restart
    <2> QED
      BY <2>1, <1>4, GoneIsPast
  <1>8. CASE UNCHANGED vars
    BY <1>1, <1>8 DEF vars
  <1> QED
    BY <1>2, <1>3, <1>5, <1>6, <1>7, <1>8 DEF Next, Answer

LEMMA SpecOK == Spec => [](LimiterOK /\ SessionsOK)
  <1>1. Init => SessionsOK
    BY EmptyTable DEF Init
  <1> QED
    BY <1>1, NextSessions, SpecLimiter, SpecSteps, PTL

(* TypeOK in every reachable state: the queues hold no more than what locks  *)
(* a key out, and the table no more than MAX_SESSIONS (auth.rs:13-18).       *)
THEOREM TypeCorrect == Spec => []TypeOK
  <1>1. LimiterOK /\ SessionsOK => TypeOK
    <2> SUFFICES ASSUME LimiterOK, SessionsOK PROVE TypeOK
      OBVIOUS
    <2>1. ASSUME NEW k \in Counted
          PROVE  /\ failures[k] \in Seq(0..Horizon(k) + 1) /\ Len(failures[k]) <= Limit(k)
                 /\ guesses[k] \subseteq (0..Span(k)) \X Nat
      BY DEF LimiterOK, Queue, Recorded, Ages
    <2> QED
      BY <2>1 DEF TypeOK, LimiterOK, SessionsOK
  <1> QED
    BY <1>1, SpecOK, PTL

(* A session is accepted until it expires, is signed out or the server       *)
(* restarts; one that is dropped earlier makes room in a table full of       *)
(* accepted sessions that all last at least as long (auth.rs:114-120).       *)
THEOREM SessionsEndForCause == Spec => SessionEndsForCause
  <1> DEFINE Cause(t) ==
               \/ Restart \/ Logout(t)
               \/ sessions[t] = 1 /\ sessions'[t] = 0
               \/ /\ Cardinality({u \in Tokens : Accepted(u)}) >= MaxSessions
                  /\ \A u \in Tokens : Accepted(u) => sessions[t] <= sessions[u]
             P == \A t \in Tokens : Accepted(t) /\ ~Accepted(t)' => Cause(t)
  <1>1. ASSUME LimiterOK, SessionsOK, Next PROVE P
    <2> SUFFICES ASSUME NEW t \in Tokens, Accepted(t), ~Accepted(t)' PROVE Cause(t)
      OBVIOUS
    <2>1. /\ sessions[t] \in Gone..SessionTTL /\ sessions[t] > 0
          /\ ~(sessions'[t] > 0)
      BY <1>1 DEF SessionsOK, Accepted
    <2>2. ASSUME NEW b \in Browsers,
                 Submit(b) \/ \E c \in Clients : Refuse(b, c) \/ Fail(b, c) \/ Admit(b, c)
          PROVE  Cause(t)
      BY <2>1, <2>2 DEF Submit, Refuse, Fail, Admit
    <2>3. ASSUME NEW b \in Browsers, OpenSession(b)
          PROVE  Cause(t)
      <3> DEFINE wait  == request[b].wait
                 table == Retained(wait)
                 new   == CHOOSE u \in Tokens : u \notin InTable
      <3>1. PICK out \in IF Cardinality(table) < MaxSessions THEN {{}}
                         ELSE {{u} : u \in Evicted(table)} :
              sessions' = [u \in Tokens |->
                IF u = new THEN SessionTTL - wait
                ELSE IF u \in table \ out THEN sessions[u] ELSE Gone]
        BY <2>3 DEF OpenSession
      <3>2. wait \in Nat /\ wait <= MaxWait
        <4>1. wait \in 0..MaxWait
          BY <1>1, RequestsTyped DEF LimiterOK
        <4> QED
          BY <4>1, Bounds
      <3>3. ASSUME NEW u \in Tokens, Accepted(u) PROVE u \in table
        <4>1. sessions[u] \in Gone..SessionTTL /\ sessions[u] > 0
          BY <1>1, <3>3 DEF SessionsOK, Accepted
        <4>2. sessions[u] # Gone /\ sessions[u] + wait > 0
          <5> HIDE DEF wait
          <5> QED
            BY <4>1, <3>2, Bounds DEF Gone
        <4> QED
          BY <4>2 DEF Retained, InTable
      <3>4. t \in out
        <4>1. t # new
          <5>1. SessionTTL - wait > 0
            <6> HIDE DEF wait
            <6> QED
              BY <3>2, Bounds
          <5> HIDE DEF wait, table, new
          <5> QED
            BY <3>1, <5>1, <2>1
        <4>2. t \in table
          BY <3>3
        <4> HIDE DEF wait, table, new
        <4> QED
          BY <3>1, <4>1, <4>2, <2>1
      <3>5. ~(Cardinality(table) < MaxSessions) /\ t \in Evicted(table)
        <4> HIDE DEF wait, table, new
        <4> QED
          BY <3>1, <3>4
      <3>6. \A u \in table : sessions[t] <= sessions[u]
        BY <3>5 DEF Evicted
      <3>7. table = {u \in Tokens : Accepted(u)}
        <4>1. ASSUME NEW u \in table PROVE u \in Tokens /\ Accepted(u)
          <5>1. u \in Tokens
            BY DEF Retained, InTable
          <5>2. sessions[u] \in Gone..SessionTTL /\ sessions[t] <= sessions[u]
            BY <5>1, <3>6, <1>1 DEF SessionsOK
          <5> QED
            BY <5>1, <5>2, <2>1, GoneIsPast, Bounds DEF Accepted
        <4> HIDE DEF table
        <4> QED
          BY <4>1, <3>3
      <3>8. Cardinality(table) \in Nat
        <4>1. table \in SUBSET Tokens
          BY DEF Retained, InTable
        <4> HIDE DEF table
        <4> QED
          BY <4>1, TablesAreFinite
      <3> HIDE DEF wait, table, new
      <3>9. Cardinality({u \in Tokens : Accepted(u)}) >= MaxSessions
        BY <3>5, <3>7, <3>8, Bounds
      <3> QED
        BY <3>3, <3>6, <3>9
    <2>4. ASSUME NEW u \in Tokens, Logout(u) PROVE Cause(t)
      <3>1. CASE u = t
        BY <2>4, <3>1
      <3>2. CASE u # t
        BY <2>1, <2>4, <3>2, <1>1 DEF Logout, SessionsOK
      <3> QED
        BY <3>1, <3>2
    <2>5. CASE Tick
      <3>1. sessions'[t] = IF sessions[t] > -MaxWait THEN sessions[t] - 1 ELSE sessions[t]
        BY <2>5 DEF Tick
      <3> QED
        BY <2>1, <3>1, GoneIsPast, Bounds
    <2>6. CASE Restart
      BY <2>6
    <2> HIDE DEF Cause
    <2> QED
      BY <1>1, <2>2, <2>3, <2>4, <2>5, <2>6 DEF Next, Answer
  <1>2. (LimiterOK /\ SessionsOK) /\ [Next]_vars => [P]_vars
    BY <1>1
  <1>3. Spec => [][P]_vars
    <2> HIDE DEF P
    <2> QED
      BY <1>2, SpecOK, SpecSteps, PTL
  <1> QED
    BY <1>3 DEF SessionEndsForCause

=============================================================================
