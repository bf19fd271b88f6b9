---------------------------- MODULE SettingsProofs ----------------------------
(***************************************************************************)
(* Proofs about ExamSettings.tla, for any spec and any gate: what a        *)
(* sorted dictionary is, which settings have the same Config Key, and that *)
(* the rules of an exam cover what it needs and nothing else.              *)
(***************************************************************************)
EXTENDS ExamSettings, LeastNumbers, FiniteSetTheorems, SequenceTheorems, TLAPS

(* As many as are counted.                                                   *)
LEMMA Counted ==
  ASSUME NEW n \in Nat, NEW S, NEW p \in [1..n -> S],
         \A i, j \in 1..n : p[i] = p[j] => i = j,
         \A x \in S : \E i \in 1..n : p[i] = x
  PROVE  Cardinality(S) = n
<1>1. p \in Bijection(1..n, S)
  BY DEF Bijection, Injection, Surjection, IsInjective
<1> QED
  BY <1>1, FS_CountingElements DEF ExistsBijection

(* p lists what has a rank in the order of the ranks, which are all distinct. *)
Lists(p, n, rank) ==
  /\ rank \in [DOMAIN rank -> Int] /\ p \in [1..n -> DOMAIN rank]
  /\ \A x \in DOMAIN rank : \E i \in 1..n : p[i] = x
  /\ \A i, j \in 1..n : i < j => rank[p[i]] < rank[p[j]]

(* Then it tells how the entries are arranged.                               *)
LEMMA ArrangedBy ==
  ASSUME NEW seq, NEW rank, NEW n \in Nat, NEW p, Lists(p, n, rank)
  PROVE  Arranged(seq, rank) = [i \in 1..n |-> seq[p[i]]]
<1> DEFINE S == DOMAIN rank
           Below(x) == {y \in DOMAIN rank : rank[y] < rank[x]}
           At(c) == CHOOSE x \in DOMAIN rank : Cardinality(Below(x)) = c
<1>0. /\ rank \in [S -> Int] /\ p \in [1..n -> S]
      /\ \A x \in S : \E i \in 1..n : p[i] = x
      /\ \A i, j \in 1..n : i < j => rank[p[i]] < rank[p[j]]
  BY DEF Lists
<1>1. \A i \in 1..n : p[i] \in S /\ rank[p[i]] \in Int
  BY <1>0
<1>2. ASSUME NEW i \in 1..n, NEW j \in 1..n, rank[p[i]] < rank[p[j]] PROVE i < j
  <2>1. CASE i = j
    BY <1>0, <1>1, <1>2, <2>1
  <2>2. CASE j < i
    BY <1>0, <1>1, <1>2, <2>2
  <2> QED
    BY <2>1, <2>2
<1>3. \A i, j \in 1..n : p[i] = p[j] => i = j
  <2> SUFFICES ASSUME NEW i \in 1..n, NEW j \in 1..n, p[i] = p[j], i # j PROVE FALSE
    OBVIOUS
  <2>1. i < j \/ j < i
    OBVIOUS
  <2> QED
    BY <1>0, <1>1, <2>1
<1>4. ASSUME NEW i \in 1..n PROVE Cardinality(Below(p[i])) = i - 1
  <2> DEFINE q == [k \in 1..(i - 1) |-> p[k]]
  <2>1. q \in [1..(i - 1) -> Below(p[i])]
    BY <1>0, <1>1, SMTT(40)
  <2>2. \A x \in Below(p[i]) : \E k \in 1..(i - 1) : q[k] = x
    <3> SUFFICES ASSUME NEW x \in Below(p[i]) PROVE \E k \in 1..(i - 1) : q[k] = x
      OBVIOUS
    <3>1. PICK k \in 1..n : p[k] = x
      BY <1>0
    <3>2. k < i
      BY <1>2, <3>1
    <3> QED
      BY <3>1, <3>2
  <2>3. \A k, l \in 1..(i - 1) : q[k] = q[l] => k = l
    BY <1>3
  <2>4. i - 1 \in Nat
    OBVIOUS
  <2> HIDE DEF q, Below
  <2> QED
    BY <2>1, <2>2, <2>3, <2>4, Counted
<1>5. Cardinality(S) = n
  BY <1>0, <1>3, Counted
<1>6. ASSUME NEW i \in 1..n PROVE At(i - 1) = p[i]
  <2>1. \E x \in DOMAIN rank : Cardinality(Below(x)) = i - 1
    BY <1>1, <1>4
  <2>2. At(i - 1) \in S /\ Cardinality(Below(At(i - 1))) = i - 1
    BY <2>1
  <2>3. PICK j \in 1..n : p[j] = At(i - 1)
    BY <1>0, <2>2
  <2>4. Cardinality(Below(p[j])) = j - 1
    BY <1>4
  <2> HIDE DEF At, Below
  <2>5. j - 1 = i - 1
    BY <2>2, <2>3, <2>4
  <2>6. j = i
    BY <2>5
  <2> QED
    BY <2>3, <2>6
<1>7. Arranged(seq, rank) = [i \in 1..Cardinality(DOMAIN rank) |-> seq[At(i - 1)]]
  BY Zenon DEF Arranged
<1> HIDE DEF At
<1> QED
  BY <1>0, <1>5, <1>6, <1>7

-----------------------------------------------------------------------------
(* The Config Key of an exam's settings.                                     *)

(* The place of each key, for the provers to look up.                        *)
LEMMA KeyPlaces ==
  /\ KeyPlace["action"] = 1 /\ KeyPlace["active"] = 2 /\ KeyPlace["allowQuit"] = 3
  /\ KeyPlace["examKeySalt"] = 4 /\ KeyPlace["expression"] = 5
  /\ KeyPlace["originatorVersion"] = 6 /\ KeyPlace["regex"] = 7
  /\ KeyPlace["startURL"] = 8 /\ KeyPlace["URLFilterRules"] = 9
BY DEF KeyPlace

(* The entries of the settings of an exam with a salt.                       *)
LEMMA SaltedSettings ==
  ASSUME NEW spec, NEW gate, NEW salt, salt # NoSalt
  PROVE  Settings(spec, gate, salt) =
           << <<"originatorVersion", "riscv-exam-env">>, <<"startURL", Home(spec, gate)>>,
              <<"examKeySalt", salt>>, <<"URLFilterRules", FilterRules(spec, gate)>>,
              <<"allowQuit", spec.quit>> >>
<1> DEFINE a == <<"originatorVersion", "riscv-exam-env">>
           b == <<"startURL", Home(spec, gate)>>
           c == <<"examKeySalt", salt>>
           d == <<"URLFilterRules", FilterRules(spec, gate)>>
           e == <<"allowQuit", spec.quit>>
<1>1. Settings(spec, gate, salt) = (<<a, b>> \o <<c>>) \o <<d, e>>
  BY DEF Settings
<1> HIDE DEF a, b, c, d, e
<1>2. (<<a, b>> \o <<c>>) \o <<d, e>> = <<a, b, c, d, e>>
  <2> DEFINE S == {a, b, c, d, e}
             ab == <<a, b>>
             cc == <<c>>
             x == ab \o cc
             de == <<d, e>>
             y == x \o de
             z == <<a, b, c, d, e>>
  <2>1. /\ ab \in Seq(S) /\ cc \in Seq(S) /\ de \in Seq(S) /\ z \in Seq(S)
        /\ Len(ab) = 2 /\ Len(cc) = 1 /\ Len(de) = 2 /\ Len(z) = 5
        /\ ab[1] = a /\ ab[2] = b /\ cc[1] = c /\ de[1] = d /\ de[2] = e
        /\ z[1] = a /\ z[2] = b /\ z[3] = c /\ z[4] = d /\ z[5] = e
    OBVIOUS
  <2> HIDE DEF S, ab, cc, de, z
  <2>2. /\ x \in Seq(S) /\ Len(x) = Len(ab) + Len(cc)
        /\ \A i \in 1..Len(ab) + Len(cc) : x[i] = IF i <= Len(ab) THEN ab[i] ELSE cc[i - Len(ab)]
    BY <2>1, ConcatProperties, Zenon
  <2> HIDE DEF x
  <2>3. Len(x) = 3 /\ x[1] = a /\ x[2] = b /\ x[3] = c
    BY <2>1, <2>2
  <2>4. x \in Seq(S) /\ de \in Seq(S)
    BY <2>1, <2>2
  <2>5. /\ y \in Seq(S) /\ Len(y) = Len(x) + Len(de)
        /\ \A i \in 1..Len(x) + Len(de) : y[i] = IF i <= Len(x) THEN x[i] ELSE de[i - Len(x)]
    BY <2>4, ConcatProperties, Zenon
  <2> HIDE DEF y
  <2>6. Len(y) = Len(z) /\ \A i \in 1..Len(y) : y[i] = z[i]
    BY <2>1, <2>3, <2>5
  <2>7. y = z
    BY <2>1, <2>5, <2>6, SeqEqual, Zenon
  <2> QED
    BY <2>7 DEF x, y, z, ab, cc, de
<1> QED
  BY <1>1, <1>2 DEF a, b, c, d, e

(* A rule is in the order of its keys, and whoever keeps it in the opposite  *)
(* order writes the same.                                                    *)
LEMMA RuleInOrder == \A d : InKeyOrder(Rule(d), DOMAIN Rule(d)) = Rule(d)
<1> TAKE d
<1> DEFINE r == Rule(d)
           rank == [i \in DOMAIN r |-> KeyPlace[r[i][1]]]
           p == [i \in 1..4 |-> i]
<1>1. /\ DOMAIN r = 1..4 /\ r[1][1] = "action" /\ r[2][1] = "active"
      /\ r[3][1] = "expression" /\ r[4][1] = "regex"
      /\ r = [i \in 1..4 |-> r[i]]
  BY DEF Rule
<1>2. InKeyOrder(r, DOMAIN r) = Arranged(r, rank)
  BY DEF InKeyOrder
<1> HIDE DEF r
<1>3. DOMAIN rank = 1..4 /\ rank[1] = 1 /\ rank[2] = 2 /\ rank[3] = 5 /\ rank[4] = 7
  BY <1>1, KeyPlaces
<1>4. Lists(p, 4, rank)
  <2>1. rank \in [1..4 -> Int]
    BY <1>1, <1>3
  <2> HIDE DEF rank
  <2> QED
    BY <1>3, <2>1 DEF Lists
<1> HIDE DEF rank, p
<1>5. Arranged(r, rank) = [i \in 1..4 |-> r[p[i]]]
  BY <1>4, ArrangedBy, ZenonT(40)
<1> QED
  BY <1>1, <1>2, <1>5 DEF r, p

(* A rule comes out sorted when a browser keeps its entries backwards.       *)
LEMMA ReversedRuleInOrder ==
  \A d : InKeyOrder(Reverse(Rule(d)), DOMAIN Reverse(Rule(d))) = Rule(d)
<1> TAKE d
<1> DEFINE q == Rule(d)
           r == Reverse(q)
           rank == [i \in DOMAIN r |-> KeyPlace[r[i][1]]]
           p == [i \in 1..4 |-> 5 - i]
<1>1. /\ Len(q) = 4 /\ q[1][1] = "action" /\ q[2][1] = "active"
      /\ q[3][1] = "expression" /\ q[4][1] = "regex"
      /\ q = [i \in 1..4 |-> q[i]]
  BY DEF Rule
<1>2. InKeyOrder(r, DOMAIN r) = Arranged(r, rank)
  BY DEF InKeyOrder
<1> HIDE DEF q
<1>3. r = [i \in 1..4 |-> q[5 - i]]
  BY <1>1 DEF Reverse
<1>4. DOMAIN r = 1..4 /\ r[1] = q[4] /\ r[2] = q[3] /\ r[3] = q[2] /\ r[4] = q[1]
  BY <1>3
<1> HIDE DEF r
<1>5. DOMAIN rank = 1..4 /\ rank[1] = 7 /\ rank[2] = 5 /\ rank[3] = 2 /\ rank[4] = 1
  BY <1>1, <1>4, KeyPlaces
<1>6. Lists(p, 4, rank)
  <2>1. rank \in [1..4 -> Int]
    BY <1>4, <1>5
  <2> HIDE DEF rank
  <2>2. p \in [1..4 -> 1..4] /\ p[1] = 4 /\ p[2] = 3 /\ p[3] = 2 /\ p[4] = 1
    OBVIOUS
  <2> HIDE DEF p
  <2> QED
    BY <1>5, <2>1, <2>2 DEF Lists
<1> HIDE DEF rank
<1>7. Arranged(r, rank) = [i \in 1..4 |-> r[p[i]]]
  <2> HIDE DEF p
  <2> QED
    BY <1>6, ArrangedBy, ZenonT(40)
<1>8. [i \in 1..4 |-> r[p[i]]] = q
  BY <1>1, <1>3
<1> QED
  BY <1>2, <1>7, <1>8 DEF r, q

(* What is hashed of settings whose entries are, in the order p, those that  *)
(* count in the order of their keys.                                         *)
LEMMA SortedSettings ==
  ASSUME NEW s, NEW p \in [1..4 -> DOMAIN s],
         \A i \in DOMAIN s : s[i][1] # "originatorVersion" => \E j \in 1..4 : p[j] = i,
         s[p[1]][1] = "allowQuit", s[p[2]][1] = "examKeySalt",
         s[p[3]][1] = "startURL", s[p[4]][1] = "URLFilterRules"
  PROVE  ConfigKey(s) = [i \in 1..4 |-> WriteValue(s[p[i]])]
<1> DEFINE root == Root(s)
           rank == [i \in root |-> KeyPlace[s[i][1]]]
           sorted == [i \in 1..4 |-> s[p[i]]]
<1>1. \A j \in 1..4 : p[j] \in root
  <2>1. p[1] \in root /\ p[2] \in root /\ p[3] \in root /\ p[4] \in root
    BY DEF Root
  <2> QED
    BY <2>1
<1>2. \A i \in root : \E j \in 1..4 : p[j] = i
  BY DEF Root
<1> HIDE DEF root
<1>3. /\ DOMAIN rank = root
      /\ rank[p[1]] = 3 /\ rank[p[2]] = 4 /\ rank[p[3]] = 8 /\ rank[p[4]] = 9
  BY <1>1, KeyPlaces
<1>4. rank \in [root -> Int]
  BY <1>2, <1>3
<1>5. InKeyOrder(s, root) = Arranged(s, rank)
  BY DEF InKeyOrder
<1> HIDE DEF rank
<1>6. p \in [1..4 -> root]
  BY <1>1
<1>7. Lists(p, 4, rank)
  BY <1>2, <1>3, <1>4, <1>6 DEF Lists
<1>8. InKeyOrder(s, root) = sorted
  <2>1. Arranged(s, rank) = [i \in 1..4 |-> s[p[i]]]
    BY <1>7, ArrangedBy
  <2> QED
    BY <1>5, <2>1
<1>9. ConfigKey(s) = [i \in DOMAIN sorted |-> WriteValue(sorted[i])]
  BY <1>8 DEF ConfigKey, SebJson, root
<1> QED
  BY <1>9

(* The Config Key of an exam's settings with a salt.                         *)
Key(spec, gate, salt) ==
  << <<"allowQuit", spec.quit>>, <<"examKeySalt", salt>>, <<"startURL", Home(spec, gate)>>,
     <<"URLFilterRules", FilterRules(spec, gate)>> >>

(* Whoever keeps the entries in an order of his own, and in the rules too,   *)
(* has the same key.                                                         *)
LEMMA KeyOf ==
  ASSUME NEW spec, NEW gate, NEW salt, NEW s, NEW p \in [1..4 -> DOMAIN s],
         NEW rules, DOMAIN rules = DOMAIN FilterRules(spec, gate),
         \A i \in DOMAIN rules : InKeyOrder(rules[i], DOMAIN rules[i]) = FilterRules(spec, gate)[i],
         \A i \in DOMAIN s : s[i][1] # "originatorVersion" => \E j \in 1..4 : p[j] = i,
         s[p[1]] = <<"allowQuit", spec.quit>>, s[p[2]] = <<"examKeySalt", salt>>,
         s[p[3]] = <<"startURL", Home(spec, gate)>>, s[p[4]] = <<"URLFilterRules", rules>>
  PROVE  ConfigKey(s) = Key(spec, gate, salt)
<1>1. /\ s[p[1]][1] = "allowQuit" /\ s[p[2]][1] = "examKeySalt"
      /\ s[p[3]][1] = "startURL" /\ s[p[4]][1] = "URLFilterRules"
  OBVIOUS
<1>2. ConfigKey(s) = [i \in 1..4 |-> WriteValue(s[p[i]])]
  BY <1>1, SortedSettings
<1>3. /\ WriteValue(s[p[1]]) = <<"allowQuit", spec.quit>>
      /\ WriteValue(s[p[2]]) = <<"examKeySalt", salt>>
      /\ WriteValue(s[p[3]]) = <<"startURL", Home(spec, gate)>>
  BY DEF WriteValue
<1>4. WriteValue(s[p[4]]) =
        <<"URLFilterRules", [i \in DOMAIN rules |-> InKeyOrder(rules[i], DOMAIN rules[i])]>>
  BY DEF WriteValue
<1>5. [i \in DOMAIN rules |-> InKeyOrder(rules[i], DOMAIN rules[i])] = FilterRules(spec, gate)
  BY DEF FilterRules
<1> QED
  BY <1>2, <1>3, <1>4, <1>5 DEF Key

(* The Config Key of an exam's settings is the tuple of their entries in the *)
(* order of the keys, without originatorVersion (seb_json, seb_file.rs).     *)
THEOREM KeyOfSettings ==
  ASSUME NEW spec, NEW gate, NEW salt, salt # NoSalt
  PROVE  ConfigKey(Settings(spec, gate, salt)) = Key(spec, gate, salt)
<1> DEFINE s == Settings(spec, gate, salt)
           p == [i \in 1..4 |-> IF i = 1 THEN 5 ELSE IF i = 2 THEN 3 ELSE IF i = 3 THEN 2 ELSE 4]
           rules == FilterRules(spec, gate)
<1>1. /\ DOMAIN s = 1..5 /\ s[1][1] = "originatorVersion"
      /\ s[2] = <<"startURL", Home(spec, gate)>> /\ s[3] = <<"examKeySalt", salt>>
      /\ s[4] = <<"URLFilterRules", rules>> /\ s[5] = <<"allowQuit", spec.quit>>
  BY SaltedSettings
<1>2. \A i \in DOMAIN rules : InKeyOrder(rules[i], DOMAIN rules[i]) = rules[i]
  BY RuleInOrder DEF FilterRules
<1> HIDE DEF s, rules
<1>3. /\ p \in [1..4 -> DOMAIN s] /\ p[1] = 5 /\ p[2] = 3 /\ p[3] = 2 /\ p[4] = 4
  BY <1>1
<1> HIDE DEF p
<1>4. \A i \in DOMAIN s : s[i][1] # "originatorVersion" => \E j \in 1..4 : p[j] = i
  BY <1>1, <1>3
<1>5. ConfigKey(s) = Key(spec, gate, salt)
  BY <1>1, <1>2, <1>3, <1>4, KeyOf DEF rules
<1> QED
  BY <1>5 DEF s

-----------------------------------------------------------------------------
(* The folds: the list that is typed, and the domains that are kept.         *)

(* The greatest of a set of positions.                                       *)
LEMMA MaxOf ==
  ASSUME NEW n \in Nat, NEW s \in SUBSET (1..n), s # {}
  PROVE  Max(s) \in s /\ \A y \in s : Max(s) >= y
<1>1. \E x \in s : \A y \in s : x >= y
  <2>1. s \in SUBSET (0..n)
    OBVIOUS
  <2> QED
    BY <2>1, GreatestOf
<1> QED
  BY <1>1 DEF Max

(* One step of either.                                                       *)
Step(op, out, x) == IF op = "keep" THEN Keep(out, x) ELSE Once(out, x)

Folds(op, g, seq, n) ==
  g = [s \in SUBSET (1..n) |->
         IF s = {} THEN <<>> ELSE Step(op, g[s \ {Max(s)}], seq[Max(s)])]

(* A fold over n entries exists when one over fewer does.                    *)
LEMMA FoldsLonger ==
  ASSUME NEW op, NEW seq, NEW n \in Nat, NEW g, Folds(op, g, seq, n)
  PROVE  \E h : Folds(op, h, seq, n + 1)
<1> DEFINE k == n + 1
           h == [s \in SUBSET (1..k) |-> IF k \in s THEN Step(op, g[s \ {k}], seq[k]) ELSE g[s]]
           value(s) == IF s = {} THEN <<>> ELSE Step(op, h[s \ {Max(s)}], seq[Max(s)])
<1>1. ASSUME NEW s \in SUBSET (1..k) PROVE h[s] = value(s)
  <2>1. CASE k \in s
    <3>1. Max(s) = k
      <4>1. k \in Nat /\ s # {} /\ s \in SUBSET (1..k)
        BY <2>1
      <4>2. Max(s) \in s /\ \A y \in s : Max(s) >= y
        BY <4>1, MaxOf, Zenon
      <4>3. Max(s) \in 1..k /\ Max(s) >= k
        BY <2>1, <4>2
      <4> QED
        BY <4>3
    <3>2. s \ {k} \in SUBSET (1..k) /\ k \notin s \ {k}
      OBVIOUS
    <3>3. h[s \ {k}] = g[s \ {k}]
      BY <3>2
    <3>4. h[s] = Step(op, g[s \ {k}], seq[k])
      BY <2>1
    <3> QED
      BY <2>1, <3>1, <3>3, <3>4
  <2>2. CASE k \notin s
    <3>1. s \in SUBSET (1..n) /\ h[s] = g[s]
      BY <2>2
    <3>2. g[s] = IF s = {} THEN <<>> ELSE Step(op, g[s \ {Max(s)}], seq[Max(s)])
      BY <3>1, Zenon DEF Folds
    <3>3. s \ {Max(s)} \in SUBSET (1..k) /\ k \notin s \ {Max(s)}
      BY <2>2
    <3>4. h[s \ {Max(s)}] = g[s \ {Max(s)}]
      BY <3>3
    <3> QED
      BY <3>1, <3>2, <3>4
  <2> QED
    BY <2>1, <2>2
<1>2. h = [s \in SUBSET (1..k) |-> h[s]]
  OBVIOUS
<1> HIDE DEF h
<1>3. h = [s \in SUBSET (1..k) |-> value(s)]
  BY <1>1, <1>2
<1>4. Folds(op, h, seq, k)
  BY <1>3, Zenon DEF Folds
<1> QED
  BY <1>4

(* So it exists for any number of them.                                      *)
LEMMA FoldsExist ==
  ASSUME NEW op, NEW seq, NEW n \in Nat
  PROVE  \E g : Folds(op, g, seq, n)
<1> DEFINE B == {k \in Nat : ~\E g : Folds(op, g, seq, k)}
<1>1. SUFFICES ASSUME B # {} PROVE FALSE
  OBVIOUS
<1>2. PICK k \in B : \A j \in B : k <= j
  <2>1. B \in SUBSET Nat
    OBVIOUS
  <2> HIDE DEF B
  <2> QED
    BY <1>1, <2>1, LeastOf
<1>3. CASE k = 0
  <2> DEFINE g == [s \in SUBSET (1..k) |-> <<>>]
  <2>1. \A s \in SUBSET (1..k) : s = {}
    BY <1>3
  <2>2. g = [s \in SUBSET (1..k) |->
               IF s = {} THEN <<>> ELSE Step(op, g[s \ {Max(s)}], seq[Max(s)])]
    BY <2>1
  <2>3. Folds(op, g, seq, k)
    BY <2>2, Zenon DEF Folds
  <2> QED
    BY <2>3
<1>4. CASE k # 0
  <2>1. k - 1 \in Nat /\ k - 1 \notin B /\ (k - 1) + 1 = k
    BY <1>2, <1>4
  <2>2. PICK g : Folds(op, g, seq, k - 1)
    BY <2>1
  <2>3. \E h : Folds(op, h, seq, (k - 1) + 1)
    BY <2>1, <2>2, FoldsLonger
  <2> QED
    BY <2>1, <2>3
<1> QED
  BY <1>3, <1>4

(* A fold goes from entry to entry.                                          *)
LEMMA FoldSteps ==
  ASSUME NEW op, NEW g, NEW seq, NEW n \in Nat, Folds(op, g, seq, n)
  PROVE  /\ g[1..0] = <<>>
         /\ \A i \in 1..n : g[1..i] = Step(op, g[1..(i - 1)], seq[i])
<1>1. \A s \in SUBSET (1..n) :
        g[s] = IF s = {} THEN <<>> ELSE Step(op, g[s \ {Max(s)}], seq[Max(s)])
  BY Zenon DEF Folds
<1>2. 1..0 = {}
  OBVIOUS
<1>3. ASSUME NEW i \in 1..n PROVE g[1..i] = Step(op, g[1..(i - 1)], seq[i])
  <2>1. 1..i \in SUBSET (1..n) /\ i \in 1..i /\ i \in Nat
    OBVIOUS
  <2>2. Max(1..i) \in 1..i /\ Max(1..i) >= i
    BY <2>1, MaxOf
  <2>3. Max(1..i) = i
    BY <2>2
  <2>4. (1..i) \ {i} = 1..(i - 1)
    OBVIOUS
  <2> QED
    BY <1>1, <2>1, <2>3, <2>4
<1> QED
  BY <1>1, <1>2, <1>3

-----------------------------------------------------------------------------
(* Domains and what covers them.                                             *)

Domain == Seq(Labels)

(* What covers a domain is its last labels.                                  *)
LEMMA CoveredIs ==
  ASSUME NEW d \in Domain, NEW e \in Domain
  PROVE  Covered(d, e) <=>
           /\ Len(e) <= Len(d)
           /\ \A i \in 1..Len(e) : e[Len(e) - i + 1] = d[Len(d) - i + 1]
<1> DEFINE l == Len(e)
           u == Reverse(e)
           v == Reverse(d)
           a == SubSeq(u, 1, l)
           b == SubSeq(v, 1, l)
<1>1. l \in Nat /\ Len(d) \in Nat
  BY DEF Domain
<1>2. /\ Len(u) = l /\ \A i \in 1..l : u[i] = e[l - i + 1]
      /\ Len(v) = Len(d) /\ \A i \in 1..Len(d) : v[i] = d[Len(d) - i + 1]
  BY <1>1 DEF Reverse
<1>3. Covered(d, e) <=> l <= Len(d) /\ a = b
  BY <1>2 DEF Covered, IsSuffix, IsPrefix
<1>4. ASSUME l <= Len(d) PROVE a = b <=> \A i \in 1..l : u[i] = v[i]
  <2>1. \A i \in 1..l : u[i] \in Labels /\ v[i] \in Labels
    <3> SUFFICES ASSUME NEW i \in 1..l PROVE u[i] \in Labels /\ v[i] \in Labels
      OBVIOUS
    <3>1. l - i + 1 \in 1..l /\ Len(d) - i + 1 \in 1..Len(d) /\ i \in 1..Len(d)
      BY <1>1, <1>4
    <3>2. e[l - i + 1] \in Labels /\ d[Len(d) - i + 1] \in Labels
      BY <3>1 DEF Domain
    <3> QED
      BY <1>2, <3>1, <3>2
  <2> HIDE DEF u, v
  <2>2. 1 \in Int /\ l \in Int /\ (\A i \in 1..l : u[i] \in Labels) /\ \A i \in 1..l : v[i] \in Labels
    BY <1>1, <2>1
  <2> HIDE DEF l
  <2>3. l \in Nat
    BY <1>1 DEF l
  <2>4. /\ a \in Seq(Labels) /\ Len(a) = l
        /\ \A i \in 1..l : a[i] = u[i]
    BY <2>2, <2>3, SubSeqProperties
  <2>5. /\ b \in Seq(Labels) /\ Len(b) = l
        /\ \A i \in 1..l : b[i] = v[i]
    BY <2>2, <2>3, SubSeqProperties
  <2> HIDE DEF a, b
  <2>6. /\ a \in Seq(Labels) /\ b \in Seq(Labels) /\ Len(a) = l /\ Len(b) = l
        /\ \A i \in 1..l : a[i] = u[i] /\ b[i] = v[i]
    BY <2>4, <2>5
  <2>7. (\A i \in 1..l : u[i] = v[i]) => a = b
    BY <2>6, SeqEqual
  <2> QED
    BY <2>6, <2>7
<1>5. ASSUME l <= Len(d)
      PROVE (\A i \in 1..l : u[i] = v[i]) <=> \A i \in 1..l : e[l - i + 1] = d[Len(d) - i + 1]
  <2>1. \A i \in 1..l : i \in 1..Len(d)
    BY <1>1, <1>5
  <2> HIDE DEF u, v
  <2> QED
    BY <1>2, <2>1
<1> QED
  BY <1>3, <1>4, <1>5

(* A domain covers itself,                                                   *)
LEMMA CoveredBySelf ==
  ASSUME NEW d \in Domain PROVE Covered(d, d)
<1>1. Len(d) \in Nat
  BY DEF Domain
<1> QED
  BY <1>1, CoveredIs

(* and what covers one that covers another covers that one too.              *)
LEMMA CoveredThrough ==
  ASSUME NEW d \in Domain, NEW e \in Domain, NEW f \in Domain, Covered(d, e), Covered(e, f)
  PROVE  Covered(d, f)
<1>1. Len(d) \in Nat /\ Len(e) \in Nat /\ Len(f) \in Nat
  BY DEF Domain
<1>2. /\ Len(e) <= Len(d) /\ \A i \in 1..Len(e) : e[Len(e) - i + 1] = d[Len(d) - i + 1]
      /\ Len(f) <= Len(e) /\ \A i \in 1..Len(f) : f[Len(f) - i + 1] = e[Len(e) - i + 1]
  BY CoveredIs
<1>3. \A i \in 1..Len(f) : i \in 1..Len(e)
  BY <1>1, <1>2
<1>4. Len(f) <= Len(d) /\ \A i \in 1..Len(f) : f[Len(f) - i + 1] = d[Len(d) - i + 1]
  BY <1>1, <1>2, <1>3
<1> QED
  BY <1>4, CoveredIs

(* The positions that a list keeps can be listed in their order.             *)
LEMMA Enumerated ==
  ASSUME NEW n \in Nat, NEW S \in SUBSET (1..n)
  PROVE  \E m \in Nat : \E p : Lists(p, m, [i \in S |-> i])
<1> DEFINE Good(T) == \E m \in Nat : \E p : Lists(p, m, [i \in T |-> i])
           B == {k \in 0..n : ~Good(S \cap (1..k))}
<1>1. CASE B = {}
  <2>1. Good(S \cap (1..n))
    BY <1>1
  <2>2. S \cap (1..n) = S
    OBVIOUS
  <2> QED
    BY <2>1, <2>2
<1>2. CASE B # {}
  <2>1. PICK k \in B : \A j \in B : k <= j
    <3>1. B \in SUBSET Nat
      OBVIOUS
    <3> HIDE DEF B
    <3> QED
      BY <1>2, <3>1, LeastOf
  <2> DEFINE T == S \cap (1..k)
  <2>2. k \in 0..n /\ ~Good(T)
    OBVIOUS
  <2>3. k # 0
    <3> SUFFICES ASSUME k = 0 PROVE Good(T)
      BY <2>2
    <3>1. T = {} /\ 1..0 = {}
      OBVIOUS
    <3> DEFINE none == [i \in 1..0 |-> i]
    <3>2. Lists(none, 0, [i \in T |-> i])
      BY <3>1 DEF Lists
    <3> QED
      BY <3>2
  <2> DEFINE R == S \cap (1..(k - 1))
  <2>4. Good(R)
    <3>1. k - 1 \in 0..n /\ ~(k <= k - 1)
      BY <2>2, <2>3
    <3>2. k - 1 \notin B
      BY <2>1, <3>1, Zenon
    <3> QED
      BY <3>1, <3>2
  <2>5. T = R \/ (T = R \cup {k} /\ k \notin R)
    BY <2>2
  <2>6. \A x \in R : x \in Nat /\ x < k
    BY <2>2
  <2> HIDE DEF R, T
  <2>7. PICK m \in Nat : \E p : Lists(p, m, [i \in R |-> i])
    BY <2>4, Zenon
  <2>7a. PICK p : Lists(p, m, [i \in R |-> i])
    BY <2>7
  <2>8. /\ p \in [1..m -> R]
        /\ \A x \in R : \E i \in 1..m : p[i] = x
        /\ \A i, j \in 1..m : i < j => p[i] < p[j]
    BY <2>7a DEF Lists
  <2> DEFINE q == [i \in 1..(m + 1) |-> IF i = m + 1 THEN k ELSE p[i]]
  <2>9. ASSUME T = R \cup {k} PROVE Lists(q, m + 1, [i \in T |-> i])
    <3>1. q \in [1..(m + 1) -> T]
      BY <2>8, <2>9
    <3>2. ASSUME NEW x \in T PROVE \E i \in 1..(m + 1) : q[i] = x
      <4>1. CASE x = k
        <5>1. m + 1 \in 1..(m + 1) /\ q[m + 1] = k
          OBVIOUS
        <5> HIDE DEF q
        <5> QED
          BY <4>1, <5>1
      <4>2. CASE x # k
        <5>1. PICK i \in 1..m : p[i] = x
          BY <2>8, <2>9, <4>2
        <5>2. i \in 1..(m + 1) /\ q[i] = x
          BY <5>1
        <5> HIDE DEF q
        <5> QED
          BY <5>2
      <4> QED
        BY <4>1, <4>2
    <3>3. \A i, j \in 1..(m + 1) : i < j => q[i] < q[j]
      BY <2>6, <2>8
    <3>4. [i \in T |-> i] \in [T -> Int]
      BY <2>2, <2>6, <2>9
    <3> HIDE DEF q
    <3> QED
      BY <3>1, <3>2, <3>3, <3>4 DEF Lists
  <2> HIDE DEF q
  <2>10. m + 1 \in Nat
    OBVIOUS
  <2> QED
    BY <2>2, <2>4, <2>5, <2>9, <2>10, Zenon
<1> QED
  BY <1>1, <1>2

(* What is left of a list: the entries at some positions, each once.         *)
Leaves(s, T, m, p) ==
  /\ m \in Nat /\ p \in [1..m -> T]
  /\ Arranged(s, [i \in T |-> i]) = [i \in 1..m |-> s[p[i]]]
  /\ \A x \in T : \E i \in 1..m : p[i] = x
  /\ \A i, j \in 1..m : p[i] = p[j] => i = j

(* The entries that are left over are listed like that.                      *)
LEMMA Selected ==
  ASSUME NEW D, NEW s \in Seq(D), NEW T \in SUBSET DOMAIN s
  PROVE  \E m, p : Leaves(s, T, m, p)
<1>1. Len(s) \in Nat /\ T \in SUBSET (1..Len(s))
  OBVIOUS
<1>2. PICK m \in Nat : \E p : Lists(p, m, [i \in T |-> i])
  BY <1>1, Enumerated
<1>2a. PICK p : Lists(p, m, [i \in T |-> i])
  BY <1>2
<1>3. /\ p \in [1..m -> T] /\ \A x \in T : \E i \in 1..m : p[i] = x
      /\ \A i, j \in 1..m : i < j => p[i] < p[j]
  BY <1>2a DEF Lists
<1>4. \A i, j \in 1..m : p[i] = p[j] => i = j
  <2> SUFFICES ASSUME NEW i \in 1..m, NEW j \in 1..m, p[i] = p[j], i # j PROVE FALSE
    OBVIOUS
  <2>1. (i < j \/ j < i) /\ p[i] \in Int
    BY <1>1, <1>3
  <2> QED
    BY <1>3, <2>1
<1>5. Arranged(s, [i \in T |-> i]) = [i \in 1..m |-> s[p[i]]]
  <2> DEFINE rank == [i \in T |-> i]
  <2>1. Lists(p, m, rank)
    BY <1>2a
  <2> HIDE DEF rank
  <2>2. Arranged(s, rank) = [i \in 1..m |-> s[p[i]]]
    BY <2>1, ArrangedBy
  <2> QED
    BY <2>2 DEF rank
<1>6. Leaves(s, T, m, p)
  BY <1>3, <1>4, <1>5 DEF Leaves
<1> QED
  BY <1>6

-----------------------------------------------------------------------------
(* The domains that are kept.                                                *)

(* out is what the first n of some domains leave: it covers each of them, it *)
(* has no other, and none of it covers another one.                          *)
Exact(out, all, n) ==
  /\ out \in Seq(Domain)
  /\ \A i \in 1..n : \E k \in DOMAIN out : Covered(all[i], out[k])
  /\ \A k \in DOMAIN out : \E i \in 1..n : out[k] = all[i]
  /\ \A j, k \in DOMAIN out : Covered(out[j], out[k]) => j = k

(* One step of effective_domains keeps the list of domains exact.            *)
LEMMA KeepIsExact ==
  ASSUME NEW n \in Nat, NEW all, NEW out, Exact(out, all, n),
         \A i \in 1..(n + 1) : all[i] \in Domain
  PROVE  Exact(Keep(out, all[n + 1]), all, n + 1)
<1> DEFINE d == all[n + 1]
<1>1. /\ d \in Domain /\ out \in Seq(Domain) /\ Len(out) \in Nat /\ DOMAIN out = 1..Len(out)
      /\ \A k \in DOMAIN out : out[k] \in Domain
      /\ n + 1 \in 1..(n + 1) /\ \A i \in 1..n : i \in 1..(n + 1)
      /\ \A i \in 1..(n + 1) : i \in 1..n \/ i = n + 1
  BY DEF Exact
<1>2. CASE \E k \in DOMAIN out : Covered(d, out[k])
  <2>1. Keep(out, d) = out
    BY <1>2 DEF Keep
  <2>2. \A i \in 1..(n + 1) : \E k \in DOMAIN out : Covered(all[i], out[k])
    BY <1>1, <1>2 DEF Exact
  <2>3. \A k \in DOMAIN out : \E i \in 1..(n + 1) : out[k] = all[i]
    BY <1>1 DEF Exact
  <2> QED
    BY <2>1, <2>2, <2>3 DEF Exact
<1>3. CASE \A k \in DOMAIN out : ~Covered(d, out[k])
  <2> DEFINE T == {k \in DOMAIN out : ~Covered(out[k], d)}
             left == Arranged(out, [i \in T |-> i])
             res == Append(left, d)
  <2>1. Keep(out, d) = res
    BY <1>3, Zenon DEF Keep
  <2> HIDE DEF T
  <2>2. PICK m, p : Leaves(out, T, m, p)
    <3>1. T \in SUBSET DOMAIN out /\ out \in Seq(Domain)
      BY <1>1 DEF T
    <3> QED
      BY <3>1, Selected
  <2>3. /\ m \in Nat /\ p \in [1..m -> T] /\ left = [i \in 1..m |-> out[p[i]]]
        /\ \A x \in T : \E i \in 1..m : p[i] = x
        /\ \A i, j \in 1..m : p[i] = p[j] => i = j
    BY <2>2 DEF Leaves
  <2>4. \A i \in 1..m : p[i] \in T /\ p[i] \in DOMAIN out /\ left[i] = out[p[i]]
    BY <2>3 DEF T
  <2> HIDE DEF left
  <2>5. left \in Seq(Domain) /\ Len(left) = m
    BY <1>1, <2>3, <2>4
  <2>6. /\ res \in Seq(Domain) /\ DOMAIN res = 1..(m + 1) /\ res[m + 1] = d
        /\ \A i \in 1..m : res[i] = out[p[i]]
    BY <1>1, <2>4, <2>5, AppendProperties
  <2> HIDE DEF res
  <2>7. m + 1 \in DOMAIN res /\ (\A j \in DOMAIN res : j \in 1..m \/ j = m + 1)
        /\ \A j \in 1..m : j \in DOMAIN res
    BY <2>3, <2>6
  <2>8. ASSUME NEW i \in 1..(n + 1) PROVE \E k \in DOMAIN res : Covered(all[i], res[k])
    <3>1. CASE i = n + 1
      BY <1>1, <2>6, <2>7, <3>1, CoveredBySelf
    <3>2. CASE i \in 1..n
      <4>1. PICK k \in DOMAIN out : Covered(all[i], out[k])
        BY <3>2 DEF Exact
      <4>2. CASE Covered(out[k], d)
        <5>1. Covered(all[i], d)
          BY <1>1, <4>1, <4>2, CoveredThrough
        <5> QED
          BY <2>6, <2>7, <5>1
      <4>3. CASE ~Covered(out[k], d)
        <5>1. PICK j \in 1..m : p[j] = k
          BY <2>3, <4>3 DEF T
        <5> QED
          BY <2>6, <2>7, <4>1, <5>1
      <4> QED
        BY <4>2, <4>3
    <3> QED
      BY <1>1, <3>1, <3>2
  <2>9. ASSUME NEW k \in DOMAIN res PROVE \E i \in 1..(n + 1) : res[k] = all[i]
    <3>1. CASE k = m + 1
      BY <1>1, <2>6, <3>1
    <3>2. CASE k \in 1..m
      <4>1. PICK i \in 1..n : out[p[k]] = all[i]
        BY <2>4, <3>2 DEF Exact
      <4> QED
        BY <1>1, <2>6, <3>2, <4>1
    <3> QED
      BY <2>7, <3>1, <3>2
  <2>10. ASSUME NEW j \in DOMAIN res, NEW k \in DOMAIN res, Covered(res[j], res[k]) PROVE j = k
    <3>1. CASE j \in 1..m /\ k \in 1..m
      <4>1. Covered(out[p[j]], out[p[k]]) /\ p[j] \in DOMAIN out /\ p[k] \in DOMAIN out
        BY <2>4, <2>6, <2>10, <3>1
      <4>2. p[j] = p[k]
        BY <4>1 DEF Exact
      <4> QED
        BY <2>3, <3>1, <4>2
    <3>2. CASE j \in 1..m /\ k = m + 1
      <4>1. Covered(out[p[j]], d) /\ p[j] \in T
        BY <2>4, <2>6, <2>10, <3>2
      <4> QED
        BY <4>1 DEF T
    <3>3. CASE j = m + 1 /\ k \in 1..m
      <4>1. Covered(d, out[p[k]]) /\ p[k] \in DOMAIN out
        BY <2>4, <2>6, <2>10, <3>3
      <4> QED
        BY <1>3, <4>1
    <3> QED
      BY <2>7, <3>1, <3>2, <3>3
  <2> QED
    BY <2>1, <2>6, <2>8, <2>9, <2>10 DEF Exact
<1> QED
  BY <1>2, <1>3

(* out lists the domains of the first n lines, each once.                    *)
Listed(out, lines, n) ==
  /\ out \in Seq(Domain)
  /\ \A i \in 1..n : \E k \in DOMAIN out : out[k] = NormalizeDomain(lines[i])
  /\ \A k \in DOMAIN out : \E i \in 1..n : out[k] = NormalizeDomain(lines[i])
  /\ \A j, k \in DOMAIN out : out[j] = out[k] => j = k

(* One line that is typed adds its domain, if it is not there yet.           *)
LEMMA OnceLists ==
  ASSUME NEW n \in Nat, NEW lines, NEW out, Listed(out, lines, n),
         NormalizeDomain(lines[n + 1]) \in Domain
  PROVE  Listed(Once(out, lines[n + 1]), lines, n + 1)
<1> DEFINE d == NormalizeDomain(lines[n + 1])
<1>1. /\ out \in Seq(Domain) /\ Len(out) \in Nat /\ DOMAIN out = 1..Len(out)
      /\ n + 1 \in 1..(n + 1) /\ \A i \in 1..n : i \in 1..(n + 1)
      /\ \A i \in 1..(n + 1) : i \in 1..n \/ i = n + 1
  BY DEF Listed
<1>2. CASE Contains(out, d)
  <2>1. Once(out, lines[n + 1]) = out
    BY <1>2 DEF Once
  <2>2. PICK k \in DOMAIN out : out[k] = d
    BY <1>1, <1>2 DEF Contains
  <2>3. \A i \in 1..(n + 1) : \E l \in DOMAIN out : out[l] = NormalizeDomain(lines[i])
    BY <1>1, <2>2 DEF Listed
  <2>4. \A l \in DOMAIN out : \E i \in 1..(n + 1) : out[l] = NormalizeDomain(lines[i])
    BY <1>1 DEF Listed
  <2> QED
    BY <2>1, <2>3, <2>4 DEF Listed
<1>3. CASE ~Contains(out, d)
  <2> DEFINE res == Append(out, d)
  <2>1. Once(out, lines[n + 1]) = res
    BY <1>3 DEF Once
  <2>2. d \in Domain
    OBVIOUS
  <2> HIDE DEF d
  <2>3. /\ res \in Seq(Domain) /\ DOMAIN res = 1..(Len(out) + 1) /\ res[Len(out) + 1] = d
        /\ \A k \in DOMAIN out : res[k] = out[k]
    BY <1>1, <2>2, AppendProperties
  <2> HIDE DEF res
  <2>4. /\ Len(out) + 1 \in DOMAIN res /\ \A k \in DOMAIN out : k \in DOMAIN res
        /\ \A k \in DOMAIN res : k \in DOMAIN out \/ k = Len(out) + 1
    BY <1>1, <2>3
  <2>5. \A k \in DOMAIN out : out[k] # d
    BY <1>1, <1>3 DEF Contains
  <2>6. \A i \in 1..(n + 1) : \E k \in DOMAIN res : res[k] = NormalizeDomain(lines[i])
    BY <1>1, <2>3, <2>4 DEF Listed, d
  <2>7. \A k \in DOMAIN res : \E i \in 1..(n + 1) : res[k] = NormalizeDomain(lines[i])
    BY <1>1, <2>3, <2>4 DEF Listed, d
  <2>8. \A j, k \in DOMAIN res : res[j] = res[k] => j = k
    BY <2>3, <2>4, <2>5 DEF Listed
  <2> QED
    BY <2>1, <2>3, <2>6, <2>7, <2>8 DEF Listed
<1> QED
  BY <1>2, <1>3

-----------------------------------------------------------------------------
(* What each fold computes, from what each of its steps does.                *)

Computed(op, out, seq, n) == IF op = "keep" THEN Exact(out, seq, n) ELSE Listed(out, seq, n)

(* What every step keeps, the fold has.                                      *)
LEMMA StepsCompute ==
  ASSUME NEW op, NEW g, NEW seq, NEW n \in Nat, Folds(op, g, seq, n),
         \A i \in 1..n : \A out : Computed(op, out, seq, i - 1) => Computed(op, Step(op, out, seq[i]), seq, i)
  PROVE  Computed(op, g[1..n], seq, n)
<1> DEFINE B == {i \in 0..n : ~Computed(op, g[1..i], seq, i)}
<1>1. /\ g[1..0] = <<>>
      /\ \A i \in 1..n : g[1..i] = Step(op, g[1..(i - 1)], seq[i])
  BY FoldSteps
<1>2. Computed(op, <<>>, seq, 0)
  BY DEF Computed, Exact, Listed
<1>3. B = {}
  <2> SUFFICES ASSUME B # {} PROVE FALSE
    OBVIOUS
  <2>1. B \in SUBSET Nat
    OBVIOUS
  <2> HIDE DEF B
  <2>2. PICK i \in B : \A j \in B : i <= j
    BY <2>1, LeastOf
  <2>3. i \in 0..n /\ ~Computed(op, g[1..i], seq, i)
    BY <2>2 DEF B
  <2>4. i # 0
    BY <1>1, <1>2, <2>3
  <2>5. i - 1 \in 0..n /\ i \in 1..n /\ ~(i <= i - 1)
    BY <2>3, <2>4
  <2>6. i - 1 \notin B
    BY <2>2, <2>5
  <2>7. Computed(op, g[1..(i - 1)], seq, i - 1)
    BY <2>5, <2>6 DEF B
  <2> QED
    BY <1>1, <2>3, <2>5, <2>7
<1>4. n \in 0..n /\ n \notin B
  BY <1>3
<1> QED
  BY <1>4

(* The domains that are left cover all the domains they are made from, are   *)
(* among these, and none covers another (effective_domains, seb.rs).         *)
THEOREM KeptAreExact ==
  ASSUME NEW all \in Seq(Domain)
  PROVE  Exact(FoldLeft(Keep, <<>>, all), all, Len(all))
<1> DEFINE n == Len(all)
           Sol(g) == g = [s \in SUBSET DOMAIN all |->
                            IF s = {} THEN <<>> ELSE Keep(g[s \ {Max(s)}], all[Max(s)])]
           c == CHOOSE g : Sol(g)
<1>1. n \in Nat /\ DOMAIN all = 1..n /\ \A i \in 1..n : all[i] \in Domain
  OBVIOUS
<1>2. FoldLeft(Keep, <<>>, all) = c[DOMAIN all]
  BY Zenon DEF FoldLeft, MapThenFoldSet
<1>3. \A g : Folds("keep", g, all, n) <=> Sol(g)
  BY <1>1 DEF Folds, Step
<1> HIDE DEF Sol, n
<1>4. Folds("keep", c, all, n)
  BY <1>1, <1>3, FoldsExist
<1> HIDE DEF c
<1>5. ASSUME NEW i \in 1..n, NEW out, Computed("keep", out, all, i - 1)
      PROVE  Computed("keep", Step("keep", out, all[i]), all, i)
  <2>1. i - 1 \in Nat /\ (i - 1) + 1 = i /\ \A j \in 1..i : j \in 1..n
    BY <1>1
  <2>2. Exact(out, all, i - 1) /\ \A j \in 1..((i - 1) + 1) : all[j] \in Domain
    BY <1>1, <1>5, <2>1 DEF Computed
  <2>3. Exact(Keep(out, all[(i - 1) + 1]), all, (i - 1) + 1)
    BY <2>1, <2>2, KeepIsExact
  <2> QED
    BY <2>1, <2>3 DEF Computed, Step
<1>6. Computed("keep", c[1..n], all, n)
  BY <1>1, <1>4, <1>5, StepsCompute
<1> QED
  BY <1>1, <1>2, <1>6 DEF Computed, n

(* The list that is typed becomes the list of its lines' domains, each once  *)
(* (parse_domain_list, seb.rs).                                              *)
THEOREM LinesAreListed ==
  ASSUME NEW lines, NEW n \in Nat, DOMAIN lines = 1..n,
         \A i \in 1..n : NormalizeDomain(lines[i]) \in Domain
  PROVE  Listed(ParseDomainList(lines), lines, n)
<1> DEFINE Sol(g) == g = [s \in SUBSET DOMAIN lines |->
                            IF s = {} THEN <<>> ELSE Once(g[s \ {Max(s)}], lines[Max(s)])]
           c == CHOOSE g : Sol(g)
<1>1. ParseDomainList(lines) = c[DOMAIN lines]
  BY Zenon DEF ParseDomainList, FoldLeft, MapThenFoldSet
<1>2. \A g : Folds("once", g, lines, n) <=> Sol(g)
  BY DEF Folds, Step
<1> HIDE DEF Sol
<1>3. Folds("once", c, lines, n)
  BY <1>2, FoldsExist
<1> HIDE DEF c
<1>4. ASSUME NEW i \in 1..n, NEW out, Computed("once", out, lines, i - 1)
      PROVE  Computed("once", Step("once", out, lines[i]), lines, i)
  <2>1. i - 1 \in Nat /\ (i - 1) + 1 = i
    OBVIOUS
  <2>2. Listed(out, lines, i - 1) /\ NormalizeDomain(lines[(i - 1) + 1]) \in Domain
    BY <1>4, <2>1 DEF Computed
  <2>3. Listed(Once(out, lines[(i - 1) + 1]), lines, (i - 1) + 1)
    BY <2>1, <2>2, OnceLists
  <2> QED
    BY <2>1, <2>3 DEF Computed, Step
<1>5. Computed("once", c[1..n], lines, n)
  BY <1>3, <1>4, StepsCompute
<1> QED
  BY <1>1, <1>5 DEF Computed

(* The domains that a spec allows cover its start page's host and the listed *)
(* ones, come from among these, and none covers another; they are Bad only   *)
(* if one of these is.                                                       *)
THEOREM EffectiveDomainsExact ==
  ASSUME NEW spec, UrlHost(spec.start) \in Domain, spec.domains \in Seq(Domain)
  PROVE  LET all  == <<UrlHost(spec.start)>> \o spec.domains
             kept == EffectiveDomains(spec)
         IN  /\ all \in Seq(Domain) /\ Len(all) = Len(spec.domains) + 1
             /\ all[1] = UrlHost(spec.start)
             /\ \A i \in 1..Len(spec.domains) : all[i + 1] = spec.domains[i]
             /\ kept = Bad <=> \E i \in 1..Len(all) : all[i] = Bad
             /\ kept # Bad => Exact(kept, all, Len(all))
<1> DEFINE start == <<UrlHost(spec.start)>>
           all == start \o spec.domains
           kept == EffectiveDomains(spec)
<1>1. start \in Seq(Domain) /\ Len(start) = 1 /\ start[1] = UrlHost(spec.start)
  OBVIOUS
<1>2. Len(spec.domains) \in Nat
  OBVIOUS
<1> HIDE DEF start
<1>3. /\ all \in Seq(Domain) /\ Len(all) = Len(start) + Len(spec.domains)
      /\ \A i \in 1..Len(start) + Len(spec.domains) :
           all[i] = IF i <= Len(start) THEN start[i] ELSE spec.domains[i - Len(start)]
  BY <1>1, ConcatProperties, Zenon
<1>4. kept = IF Contains(all, Bad) THEN Bad ELSE FoldLeft(Keep, <<>>, all)
  BY Zenon DEF EffectiveDomains, start
<1> HIDE DEF all, kept
<1>5. /\ Len(all) = Len(spec.domains) + 1 /\ all[1] = UrlHost(spec.start)
      /\ \A i \in 1..Len(spec.domains) : all[i + 1] = spec.domains[i]
  <2>1. Len(all) = Len(spec.domains) + 1 /\ all[1] = UrlHost(spec.start)
    BY <1>1, <1>2, <1>3
  <2>2. ASSUME NEW i \in 1..Len(spec.domains) PROVE all[i + 1] = spec.domains[i]
    <3>1. i + 1 \in 1..Len(start) + Len(spec.domains) /\ ~(i + 1 <= Len(start)) /\ (i + 1) - Len(start) = i
      BY <1>1, <1>2
    <3> QED
      BY <1>3, <3>1
  <2> QED
    BY <2>1, <2>2
<1>6. CASE Contains(all, Bad)
  BY <1>3, <1>4, <1>5, <1>6 DEF Contains, all, kept, start
<1>7. CASE ~Contains(all, Bad)
  <2>1. Exact(kept, all, Len(all))
    BY <1>3, <1>4, <1>7, KeptAreExact
  <2>2. kept # Bad
    <3>1. 1 \in 1..Len(all)
      BY <1>2, <1>5
    <3>2. DOMAIN kept # {}
      BY <2>1, <3>1 DEF Exact
    <3> QED
      BY <3>2 DEF Bad
  <2> QED
    BY <1>3, <1>5, <1>7, <2>1, <2>2 DEF Contains, all, kept, start
<1> QED
  BY <1>6, <1>7

-----------------------------------------------------------------------------
(* Names and lines that are typed.                                           *)

(* A name that is typed becomes a well-formed domain, or Bad; so do          *)
LEMMA BareDomainTyped ==
  ASSUME NEW S, NEW name \in Seq(S) PROVE BareDomain(name) \in Domain
<1> DEFINE starless == {i \in 1..Len(name) : \E j \in 1..i : name[j] # "*"}
           body == {i \in starless : \E j, k \in starless : j <= i /\ i <= k /\ "" \notin {name[j], name[k]}}
           domain == IF body = {} THEN Bad
                     ELSE LET first == Min(body)
                          IN  [i \in 1..Cardinality(body) |-> Lowered(name[first + i - 1])]
           valid == ToSet(domain) \subseteq Labels /\ (Len(domain) = 1 => domain = <<"localhost">>)
<1>1. BareDomain(name) = IF valid THEN domain ELSE Bad
  BY Zenon DEF BareDomain
<1>2. Cardinality(body) \in Nat
  <2>1. Len(name) \in Nat
    OBVIOUS
  <2>2. IsFiniteSet(1..Len(name))
    BY <2>1, FS_Interval
  <2>3. body \in SUBSET (1..Len(name))
    OBVIOUS
  <2> HIDE DEF body
  <2> QED
    BY <2>2, <2>3, FS_Subset, FS_CardinalityType
<1> HIDE DEF body
<1>3. Bad \in Domain
  BY DEF Bad, Domain
<1>4. ASSUME valid, body # {} PROVE domain \in Domain
  <2>1. domain = [i \in 1..Cardinality(body) |-> domain[i]] /\ DOMAIN domain = 1..Cardinality(body)
    BY <1>4
  <2>2. \A i \in 1..Cardinality(body) : domain[i] \in Labels
    <3>1. \A i \in DOMAIN domain : domain[i] \in ToSet(domain)
      BY DEF ToSet
    <3> QED
      BY <1>4, <2>1, <3>1
  <2> HIDE DEF domain
  <2> QED
    BY <1>2, <2>1, <2>2 DEF Domain
<1> QED
  BY <1>1, <1>3, <1>4

(* the host of a URL                                                         *)
LEMMA UrlHostTyped ==
  ASSUME NEW url \in Address PROVE UrlHost(url) \in Domain
<1>1. url.name \in Seq(STRING) /\ Bad \in Domain
  BY DEF Address, Bad, Domain
<1> QED
  BY <1>1, BareDomainTyped DEF UrlHost

(* and a line of the list (normalize_domain, seb.rs).                        *)
LEMMA NormalizeDomainTyped ==
  ASSUME NEW line \in Address PROVE NormalizeDomain(line) \in Domain
<1>1. line.name \in Seq(STRING) /\ Bad \in Domain
  BY DEF Address, Bad, Domain
<1> QED
  BY <1>1, BareDomainTyped, UrlHostTyped DEF NormalizeDomain

=============================================================================
