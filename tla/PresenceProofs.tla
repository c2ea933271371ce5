--------------------------- MODULE PresenceProofs ---------------------------
(* What the tracker knows of the players, for any handles, machines, caps    *)
(* and games, and that it implements Evidence.                               *)
EXTENDS Presence, FiniteSetTheorems, SequenceTheorems, TLAPS

-----------------------------------------------------------------------------
(* Sequences without some of their members: the positions that stay are      *)
(* counted, and the count of a position is the place of its member.          *)

\* The least of a set of numbers.
LEMMA MinIsLeast ==
  ASSUME NEW S, S \subseteq Int, NEW m \in S, \A k \in S : m <= k
  PROVE  Min(S) = m
<1>1. \A k \in S : (\A y \in S : k <= y) => k = m
  BY SMT
<1>2. Min(S) \in S /\ \A y \in S : Min(S) <= y
  BY DEF Min
<1> QED BY <1>1, <1>2

LEMMA Positions ==
  ASSUME NEW n \in Nat, NEW K \in SUBSET (1 .. n)
  PROVE  /\ IsFiniteSet(K) /\ Cardinality(K) \in Nat /\ Cardinality(K) <= n
         /\ Cardinality(K) = n => K = 1 .. n
<1>1. IsFiniteSet(1 .. n) /\ Cardinality(1 .. n) = n
  BY FS_Interval
<1> QED BY <1>1, FS_Subset, FS_CardinalityType

LEMMA RankType ==
  ASSUME NEW n \in Nat, NEW K \in SUBSET (1 .. n), NEW i \in K
  PROVE  Rank(K, i) \in 1 .. Cardinality(K)
<1> DEFINE U == {k \in K : k <= i}
<1>1. IsFiniteSet(K) /\ U \in SUBSET K /\ U # {}
  <2>1. i \in U
    OBVIOUS
  <2> QED BY <2>1, Positions
<1>2. IsFiniteSet(U) /\ Cardinality(U) <= Cardinality(K)
  BY <1>1, FS_Subset
<1>3. Cardinality(U) \in Nat /\ Cardinality(U) # 0 /\ Cardinality(K) \in Nat
  BY <1>1, <1>2, FS_CardinalityType, FS_EmptySet
<1> QED BY <1>2, <1>3 DEF Rank

LEMMA RankGrows ==
  ASSUME NEW n \in Nat, NEW K \in SUBSET (1 .. n), NEW i \in K, NEW k \in K, i < k
  PROVE  Rank(K, i) < Rank(K, k)
<1> DEFINE U == {x \in K : x <= i}
           V == {x \in K : x <= k}
<1>1. IsFiniteSet(V) /\ U \in SUBSET V /\ k \in V /\ k \notin U
  <2>1. V \in SUBSET (1 .. n)
    OBVIOUS
  <2>2. IsFiniteSet(V)
    BY <2>1, Positions
  <2>3. \A x \in K : x \in Int
    OBVIOUS
  <2>4. \A x \in K : x <= i => x <= k
    BY <2>3
  <2>5. k \in V /\ k \notin U
    BY <2>3
  <2>6. U \in SUBSET V
    BY <2>4
  <2> QED BY <2>2, <2>5, <2>6
<1>2. Cardinality(U) <= Cardinality(V) /\ Cardinality(U) # Cardinality(V)
  BY <1>1, FS_Subset
<1>3. Cardinality(U) \in Nat /\ Cardinality(V) \in Nat
  BY <1>1, FS_Subset, FS_CardinalityType
<1> QED BY <1>2, <1>3 DEF Rank

\* Each place is the rank of one position.
LEMMA RankIsOnto ==
  ASSUME NEW n \in Nat, NEW K \in SUBSET (1 .. n), NEW j \in 1 .. Cardinality(K)
  PROVE  \E i \in K : Rank(K, i) = j /\ \A k \in K : Rank(K, k) = j => k = i
<1> DEFINE f == [i \in K |-> Rank(K, i)]
<1>1. f \in [K -> 1 .. Cardinality(K)]
  BY RankType
<1>2. \A i, k \in K : Rank(K, i) = Rank(K, k) => i = k
  <2> SUFFICES ASSUME NEW i \in K, NEW k \in K, i # k
               PROVE  Rank(K, i) # Rank(K, k)
    OBVIOUS
  <2>1. Rank(K, i) \in Int /\ Rank(K, k) \in Int /\ i \in Int /\ k \in Int
    <3>1. Rank(K, i) \in 1 .. Cardinality(K) /\ Rank(K, k) \in 1 .. Cardinality(K)
      BY RankType
    <3> QED BY <3>1
  <2>2. CASE i < k
    <3>1. Rank(K, i) < Rank(K, k)
      BY <2>2, RankGrows
    <3> QED BY <2>1, <3>1
  <2>3. CASE k < i
    <3>1. Rank(K, k) < Rank(K, i)
      BY <2>3, RankGrows
    <3> QED BY <2>1, <3>1
  <2> QED BY <2>1, <2>2, <2>3
<1>3. f \in Injection(K, 1 .. Cardinality(K))
  BY <1>1, <1>2 DEF Injection, IsInjective
<1>4. Cardinality(K) \in Nat
  BY Positions
<1>5. IsFiniteSet(1 .. Cardinality(K)) /\ Cardinality(1 .. Cardinality(K)) = Cardinality(K)
  BY <1>4, FS_Interval
<1>6. f \in Surjection(K, 1 .. Cardinality(K))
  BY <1>3, <1>5, FS_Injection
<1> QED BY <1>2, <1>6 DEF Surjection

Staying(s, S) == {i \in DOMAIN s : s[i] \notin S}

\* What is at the rank of a position that stays.
LEMMA WithoutAt ==
  ASSUME NEW s \in Seq(Handles), NEW S
  PROVE  /\ Staying(s, S) \in SUBSET (1 .. Len(s)) /\ Len(s) \in Nat
         /\ DOMAIN Without(s, S) = 1 .. Cardinality(Staying(s, S))
         /\ Without(s, S) \in Seq(Handles)
         /\ Len(Without(s, S)) = Cardinality(Staying(s, S))
         /\ \A i \in Staying(s, S) :
              /\ Rank(Staying(s, S), i) \in DOMAIN Without(s, S)
              /\ Without(s, S)[Rank(Staying(s, S), i)] = s[i]
         /\ \A j \in DOMAIN Without(s, S) :
              \E i \in Staying(s, S) : Rank(Staying(s, S), i) = j /\ Without(s, S)[j] = s[i]
<1> DEFINE K == Staying(s, S)
           w == [j \in 1 .. Cardinality(K) |-> s[CHOOSE i \in K : Rank(K, i) = j]]
<1>1. K \in SUBSET (1 .. Len(s)) /\ Len(s) \in Nat /\ DOMAIN s = 1 .. Len(s)
  BY DEF Staying
<1>2. Without(s, S) = w
  BY DEF Without, Staying
<1>3. Cardinality(K) \in Nat
  BY <1>1, Positions
<1> HIDE DEF K
<1>4. ASSUME NEW j \in 1 .. Cardinality(K)
      PROVE  \E i \in K : Rank(K, i) = j /\ w[j] = s[i]
  <2> DEFINE c == CHOOSE i \in K : Rank(K, i) = j
  <2>1. \E i \in K : Rank(K, i) = j
    BY <1>1, RankIsOnto
  <2>2. c \in K /\ Rank(K, c) = j
    BY <2>1
  <2>3. w[j] = s[c]
    OBVIOUS
  <2> QED BY <2>2, <2>3
<1>5. ASSUME NEW i \in K
      PROVE  Rank(K, i) \in 1 .. Cardinality(K) /\ w[Rank(K, i)] = s[i]
  <2>1. Rank(K, i) \in 1 .. Cardinality(K)
    BY <1>1, RankType
  <2>2. PICK k \in K : Rank(K, k) = Rank(K, i) /\ w[Rank(K, i)] = s[k]
    BY <2>1, <1>4
  <2>3. k = i
    BY <1>1, <2>1, <2>2, RankIsOnto
  <2> QED BY <2>1, <2>2, <2>3
<1>6. w \in [1 .. Cardinality(K) -> Handles]
  <2>1. \A i \in K : s[i] \in Handles
    BY <1>1
  <2>2. \A j \in 1 .. Cardinality(K) : w[j] \in Handles
    BY <1>4, <2>1
  <2> QED BY <2>2
<1> HIDE DEF w
<1>7. w \in Seq(Handles) /\ Len(w) = Cardinality(K)
  BY <1>3, <1>6
<1>8. DOMAIN w = 1 .. Cardinality(K)
  BY <1>6
<1>9. /\ \A i \in K : Rank(K, i) \in DOMAIN w /\ w[Rank(K, i)] = s[i]
      /\ \A j \in DOMAIN w : \E i \in K : Rank(K, i) = j /\ w[j] = s[i]
  BY <1>4, <1>5, <1>8
<1> QED BY <1>1, <1>2, <1>7, <1>8, <1>9 DEF K

LEMMA WithoutMembers ==
  ASSUME NEW s \in Seq(Handles), NEW S
  PROVE  ToSet(Without(s, S)) = ToSet(s) \ S /\ Len(Without(s, S)) <= Len(s)
<1> DEFINE K == Staying(s, S)
           w == Without(s, S)
<1>1. K \in SUBSET (1 .. Len(s)) /\ Len(s) \in Nat /\ DOMAIN s = 1 .. Len(s)
      /\ Len(w) = Cardinality(K)
  BY WithoutAt
<1>2. Len(w) <= Len(s)
  BY <1>1, Positions
<1>3. \A i \in K : s[i] \in ToSet(s) \ S
  BY DEF Staying, ToSet
<1>4. ToSet(w) \subseteq ToSet(s) \ S
  <2>1. \A j \in DOMAIN w : \E i \in K : w[j] = s[i]
    BY WithoutAt
  <2> HIDE DEF K, w
  <2> QED BY <1>3, <2>1 DEF ToSet
<1>5. ASSUME NEW h \in ToSet(s) \ S
      PROVE  h \in ToSet(w)
  <2>1. PICK i \in DOMAIN s : s[i] = h
    BY DEF ToSet
  <2>2. i \in K
    BY <2>1 DEF Staying
  <2>3. Rank(K, i) \in DOMAIN w /\ w[Rank(K, i)] = h
    BY <2>1, <2>2, WithoutAt
  <2> HIDE DEF K, w
  <2> QED BY <2>3 DEF ToSet
<1> HIDE DEF K
<1> QED BY <1>2, <1>4, <1>5

LEMMA WithoutInjective ==
  ASSUME NEW s \in Seq(Handles), NEW S, IsInjective(s)
  PROVE  IsInjective(Without(s, S))
<1> DEFINE K == Staying(s, S)
           w == Without(s, S)
<1>1. \A j \in DOMAIN w : \E i \in K : Rank(K, i) = j /\ w[j] = s[i]
  BY WithoutAt
<1>2. \A i \in K : i \in DOMAIN s
  BY DEF Staying
<1> HIDE DEF K, w
<1>3. ASSUME NEW a \in DOMAIN w, NEW b \in DOMAIN w, w[a] = w[b]
      PROVE  a = b
  <2>1. PICK i \in K : Rank(K, i) = a /\ w[a] = s[i]
    BY <1>1
  <2>2. PICK k \in K : Rank(K, k) = b /\ w[b] = s[k]
    BY <1>1
  <2>3. i = k
    BY <1>2, <1>3, <2>1, <2>2 DEF IsInjective
  <2> QED BY <2>1, <2>2, <2>3
<1>4. IsInjective(w)
  BY <1>3 DEF IsInjective
<1> QED BY <1>4 DEF w

LEMMA RankOfInterval ==
  ASSUME NEW m \in Nat, NEW n \in Nat, m > 0, NEW i \in m .. n
  PROVE  Rank(m .. n, i) = i - m + 1
<1>1. {k \in m .. n : k <= i} = m .. i
  OBVIOUS
<1>2. Cardinality(m .. i) = i - m + 1
  BY FS_Interval
<1> QED BY <1>1, <1>2 DEF Rank

LEMMA WithoutNothing ==
  ASSUME NEW s \in Seq(Handles), NEW S, S \cap ToSet(s) = {}
  PROVE  Without(s, S) = s
<1> DEFINE w == Without(s, S)
<1>1. Len(s) \in Nat /\ DOMAIN s = 1 .. Len(s)
  OBVIOUS
<1>2. Staying(s, S) = 1 .. Len(s)
  BY <1>1 DEF Staying, ToSet
<1>3. Cardinality(1 .. Len(s)) = Len(s)
  BY <1>1, FS_Interval
<1>4. w \in Seq(Handles) /\ Len(w) = Len(s)
  BY <1>2, <1>3, WithoutAt
<1>5. ASSUME NEW i \in 1 .. Len(s)
      PROVE  w[i] = s[i]
  <2>1. Rank(1 .. Len(s), i) = i
    BY <1>1, RankOfInterval
  <2>2. w[Rank(1 .. Len(s), i)] = s[i]
    BY <1>2, WithoutAt
  <2> QED BY <2>1, <2>2
<1> HIDE DEF w
<1>6. w = s
  BY <1>4, <1>5, SeqEqual
<1> QED BY <1>6 DEF w

LEMMA WithoutHead ==
  ASSUME NEW s \in Seq(Handles), s # <<>>, IsInjective(s)
  PROVE  Without(s, {Head(s)}) = Tail(s)
<1> DEFINE w == Without(s, {Head(s)})
           n == Len(s)
<1>1. n \in Nat \ {0} /\ DOMAIN s = 1 .. n /\ Head(s) = s[1]
  OBVIOUS
<1>2. Staying(s, {Head(s)}) = 2 .. n
  BY <1>1 DEF Staying, IsInjective
<1>3. Cardinality(2 .. n) = n - 1
  BY <1>1, FS_Interval
<1>4. w \in Seq(Handles) /\ Len(w) = n - 1
  BY <1>2, <1>3, WithoutAt
<1>5. Tail(s) \in Seq(Handles) /\ Len(Tail(s)) = n - 1
      /\ \A j \in 1 .. n - 1 : Tail(s)[j] = s[j + 1]
  BY <1>1
<1>6. ASSUME NEW j \in 1 .. n - 1
      PROVE  w[j] = s[j + 1]
  <2>1. j + 1 \in 2 .. n
    BY <1>1
  <2>2. Rank(2 .. n, j + 1) = j
    BY <1>1, <2>1, RankOfInterval
  <2>3. w[Rank(2 .. n, j + 1)] = s[j + 1]
    BY <1>2, <2>1, WithoutAt
  <2> QED BY <2>2, <2>3
<1> HIDE DEF w
<1>7. w = Tail(s)
  BY <1>4, <1>5, <1>6, SeqEqual
<1> QED BY <1>7 DEF w

LEMMA LeastIsThere ==
  ASSUME NEW n \in Nat, NEW K \in SUBSET (1 .. n), K # {}
  PROVE  Min(K) \in K /\ \A k \in K : Min(K) <= k
<1>1. IsFiniteSet(K) /\ Cardinality(K) \in Nat /\ Cardinality(K) # 0
  BY Positions, FS_EmptySet
<1>2. 1 \in 1 .. Cardinality(K)
  BY <1>1
<1>3. PICK i \in K : Rank(K, i) = 1
  BY <1>2, RankIsOnto
<1>4. ASSUME NEW k \in K
      PROVE  i <= k
  <2>1. i \in Int /\ k \in Int
    OBVIOUS
  <2>2. CASE k < i
    <3>1. Rank(K, k) < Rank(K, i)
      BY <2>2, RankGrows
    <3>2. Rank(K, k) \in 1 .. Cardinality(K)
      BY RankType
    <3> QED BY <1>3, <3>1, <3>2
  <2> QED BY <2>1, <2>2
<1>5. Min(K) = i
  <2>1. K \subseteq Int
    OBVIOUS
  <2> QED BY <1>4, <2>1, MinIsLeast
<1> QED BY <1>4, <1>5

\* What FirstOf() picks is in the sequence and in the set; if the head is in the
\* set, it is the head.
LEMMA FirstIsThere ==
  ASSUME NEW s \in Seq(Handles), NEW S, S \cap ToSet(s) # {}
  PROVE  /\ FirstOf(s, S) \in S \cap ToSet(s)
         /\ Min({i \in DOMAIN s : s[i] \in S}) \in DOMAIN s
         /\ Head(s) \in S => FirstOf(s, S) = Head(s) /\ Min({i \in DOMAIN s : s[i] \in S}) = 1
<1> DEFINE K == {i \in DOMAIN s : s[i] \in S}
<1>1. Len(s) \in Nat /\ DOMAIN s = 1 .. Len(s) /\ K \in SUBSET (1 .. Len(s))
  OBVIOUS
<1>2. K # {}
  BY DEF ToSet
<1>3. \A k \in K : k \in DOMAIN s /\ s[k] \in S
  OBVIOUS
<1>4. Head(s) \in S => 1 \in K /\ Head(s) = s[1]
  <2>1. Len(s) > 0 /\ Head(s) = s[1]
    BY <1>1, <1>2
  <2> QED BY <1>1, <2>1
<1> HIDE DEF K
<1>5. Min(K) \in K /\ \A k \in K : Min(K) <= k
  BY <1>1, <1>2, LeastIsThere
<1>6. FirstOf(s, S) = s[Min(K)]
  BY DEF FirstOf, K
<1>7. FirstOf(s, S) \in S \cap ToSet(s)
  BY <1>3, <1>5, <1>6 DEF ToSet
<1>8. Head(s) \in S => Min(K) = 1
  <2>1. \A k \in K : k >= 1 /\ k \in Int
    BY <1>1
  <2> QED BY <1>4, <1>5, <2>1
<1> QED BY <1>3, <1>4, <1>5, <1>6, <1>7, <1>8 DEF K

\* The rest of a sequence without repetitions.
LEMMA RestOfSequence ==
  ASSUME NEW s \in Seq(Handles), NEW i \in DOMAIN s
  PROVE  /\ SubSeq(s, i + 1, Len(s)) \in Seq(Handles)
         /\ ToSet(SubSeq(s, i + 1, Len(s))) \subseteq ToSet(s)
         /\ Len(SubSeq(s, i + 1, Len(s))) < Len(s)
         /\ IsInjective(s) => IsInjective(SubSeq(s, i + 1, Len(s)))
         /\ i = 1 => SubSeq(s, i + 1, Len(s)) = Tail(s)
<1> DEFINE r == SubSeq(s, i + 1, Len(s))
<1>1. Len(s) \in Nat /\ DOMAIN s = 1 .. Len(s) /\ i \in 1 .. Len(s)
  OBVIOUS
<1>2. r \in Seq(Handles) /\ Len(r) = Len(s) - i /\ \A j \in 1 .. Len(s) - i : r[j] = s[i + j]
  BY <1>1
<1>3. DOMAIN r = 1 .. Len(s) - i
  BY <1>2
<1>4. i = 1 => r = Tail(s)
  <2>1. Tail(s) \in Seq(Handles) /\ Len(Tail(s)) = Len(s) - 1
        /\ \A j \in 1 .. Len(s) - 1 : Tail(s)[j] = s[j + 1]
    BY <1>1
  <2> HIDE DEF r
  <2> QED BY <1>1, <1>2, <2>1, SeqEqual
<1> HIDE DEF r
<1>5. \A j \in DOMAIN r : i + j \in DOMAIN s /\ r[j] = s[i + j]
  BY <1>1, <1>2, <1>3
<1>6. ToSet(r) \subseteq ToSet(s)
  BY <1>5 DEF ToSet
<1>7. IsInjective(s) => IsInjective(r)
  <2> SUFFICES ASSUME IsInjective(s), NEW a \in DOMAIN r, NEW b \in DOMAIN r, r[a] = r[b]
               PROVE  a = b
    BY DEF IsInjective
  <2>1. i + a = i + b
    BY <1>5 DEF IsInjective
  <2>2. a \in Int /\ b \in Int /\ i \in Int
    BY <1>1, <1>3
  <2> QED BY <2>1, <2>2
<1>8. Len(r) < Len(s)
  BY <1>1, <1>2
<1> QED BY <1>2, <1>4, <1>6, <1>7, <1>8 DEF r

LEMMA AppendNew ==
  ASSUME NEW s \in Seq(Handles), NEW h \in Handles, h \notin ToSet(s)
  PROVE  /\ Append(s, h) \in Seq(Handles) /\ Len(Append(s, h)) = Len(s) + 1
         /\ ToSet(Append(s, h)) = ToSet(s) \cup {h}
         /\ IsInjective(s) => IsInjective(Append(s, h))
<1> DEFINE a == Append(s, h)
<1>1. /\ Len(s) \in Nat /\ DOMAIN s = 1 .. Len(s) /\ a \in Seq(Handles)
      /\ DOMAIN a = 1 .. Len(s) + 1 /\ Len(a) = Len(s) + 1
      /\ a[Len(s) + 1] = h /\ \A i \in 1 .. Len(s) : a[i] = s[i]
  OBVIOUS
<1> HIDE DEF a
<1>2. ToSet(a) = ToSet(s) \cup {h}
  <2>1. \A i \in DOMAIN a : i \in DOMAIN s \/ i = Len(s) + 1
    BY <1>1
  <2>2. ToSet(a) \subseteq ToSet(s) \cup {h}
    BY <1>1, <2>1 DEF ToSet
  <2>3. Len(s) + 1 \in DOMAIN a /\ \A i \in DOMAIN s : i \in DOMAIN a
    BY <1>1
  <2>4. ToSet(s) \cup {h} \subseteq ToSet(a)
    BY <1>1, <2>3 DEF ToSet
  <2> QED BY <2>2, <2>4
<1>3. IsInjective(s) => IsInjective(a)
  <2> SUFFICES ASSUME IsInjective(s), NEW x \in DOMAIN a, NEW y \in DOMAIN a, a[x] = a[y]
               PROVE  x = y
    BY DEF IsInjective
  <2>1. \A i \in DOMAIN s : s[i] # h
    BY DEF ToSet
  <2>2. (x \in DOMAIN s \/ x = Len(s) + 1) /\ (y \in DOMAIN s \/ y = Len(s) + 1)
    BY <1>1
  <2> QED BY <1>1, <2>1, <2>2 DEF IsInjective
<1> QED BY <1>1, <1>2, <1>3 DEF a

-----------------------------------------------------------------------------
(* What each operation on the roster makes of a sound one. *)

\* The inductive invariant of the roster p.
Sound(p) ==
  /\ p \in PlayersType
  /\ IsInjective(p.roster) /\ Len(p.roster) <= MAX_HANDLES
  /\ ToSet(p.queue) \subseteq Unnamed(p)
  /\ IsInjective(p.queue) /\ Len(p.queue) <= MAX_PENDING_NAMES
  /\ p.warned \subseteq Unnamed(p) \ ToSet(p.queue)
  /\ p.degraded => Len(p.roster) = MAX_HANDLES
  /\ \A h \in Handles : p.name[h] # None => h \in ToSet(p.roster)

\* A named player of p has his place and his name in q.
Keeps(p, q) ==
  \A h \in ToSet(p.roster) \ Unnamed(p) : h \in ToSet(q.roster) /\ q.name[h] = p.name[h]

LEMMA Caps ==
  ASSUME world \in Games
  PROVE  /\ MAX_HANDLES \in Nat \ {0} /\ MAX_PENDING_NAMES \in Nat \ {0}
         /\ world.handles \subseteq Handles
  BY PresenceAssumption DEF MAX_HANDLES, MAX_PENDING_NAMES

LEMMA Members ==
  ASSUME NEW s \in Seq(Handles)
  PROVE  /\ ToSet(s) \subseteq Handles /\ Len(s) \in Nat
         /\ s = <<>> <=> ToSet(s) = {}
<1>1. DOMAIN s = 1 .. Len(s) /\ Len(s) \in Nat
  OBVIOUS
<1>2. s = <<>> <=> Len(s) = 0
  OBVIOUS
<1>3. Len(s) # 0 => 1 \in DOMAIN s
  BY <1>1
<1>4. ToSet(s) \subseteq Handles
  BY <1>1 DEF ToSet
<1>5. s # <<>> => s[1] \in ToSet(s)
  BY <1>2, <1>3 DEF ToSet
<1>6. s = <<>> => DOMAIN s = {}
  BY <1>1
<1>7. s = <<>> => ToSet(s) = {}
  BY <1>6 DEF ToSet
<1> QED BY <1>1, <1>4, <1>5, <1>7

LEMMA ForgetFields ==
  ASSUME NEW p \in PlayersType, NEW S \in SUBSET Handles
  PROVE  LET q == Forget(p, S)
         IN /\ q \in PlayersType
            /\ q.roster = Without(p.roster, S) /\ q.queue = Without(p.queue, S)
            /\ \A h \in Handles : q.name[h] = IF h \in S THEN None ELSE p.name[h]
            /\ q.leaving = p.leaving \ S /\ q.warned = p.warned \ S
            /\ q.degraded = (p.degraded /\ S = {})
<1> DEFINE nm == [h \in Handles |-> IF h \in S THEN None ELSE p.name[h]]
           ag == [h \in Handles |-> IF h \in S THEN 0 ELSE p.age[h]]
           ro == Without(p.roster, S)
           qu == Without(p.queue, S)
           le == p.leaving \ S
           wa == p.warned \ S
           de == p.degraded /\ S = {}
           f == [p EXCEPT !.roster = ro, !.queue = qu, !.name = nm, !.age = ag,
                          !.leaving = le, !.warned = wa, !.degraded = de]
<1>1. Forget(p, S) = f
  BY DEF Forget
<1>2. ro \in Seq(Handles) /\ qu \in Seq(Handles)
  BY WithoutAt DEF PlayersType
<1>3. nm \in [Handles -> Handles \cup {None}]
  BY DEF PlayersType
<1>4. 0 \in 0 .. Grace
  BY PresenceAssumption
<1>5. ag \in [Handles -> 0 .. Grace]
  BY <1>4 DEF PlayersType
<1>6. le \in SUBSET Handles /\ wa \in SUBSET Handles
  BY DEF PlayersType
<1>7. de \in BOOLEAN
  OBVIOUS
<1>8. \A h \in Handles : nm[h] = IF h \in S THEN None ELSE p.name[h]
  OBVIOUS
<1> HIDE DEF nm, ag, ro, qu, le, wa, de
<1>9. /\ f \in PlayersType
      /\ f.roster = ro /\ f.queue = qu /\ f.name = nm
      /\ f.leaving = le /\ f.warned = wa /\ f.degraded = de
  BY <1>2, <1>3, <1>5, <1>6, <1>7 DEF PlayersType
<1> HIDE DEF f
<1> QED BY <1>1, <1>8, <1>9 DEF ro, qu, le, wa, de

LEMMA ForgetSound ==
  ASSUME world \in Games, NEW p, Sound(p), NEW S \in SUBSET Handles
  PROVE  /\ Sound(Forget(p, S))
         /\ ToSet(Forget(p, S).roster) = ToSet(p.roster) \ S
         /\ Unnamed(Forget(p, S)) = Unnamed(p) \ S
         /\ ToSet(Forget(p, S).queue) = ToSet(p.queue) \ S
<1> DEFINE q == Forget(p, S)
<1>1. /\ p \in PlayersType /\ IsInjective(p.roster) /\ Len(p.roster) <= MAX_HANDLES
      /\ ToSet(p.queue) \subseteq Unnamed(p)
      /\ IsInjective(p.queue) /\ Len(p.queue) <= MAX_PENDING_NAMES
      /\ p.warned \subseteq Unnamed(p) \ ToSet(p.queue)
      /\ p.degraded => Len(p.roster) = MAX_HANDLES
      /\ \A h \in Handles : p.name[h] # None => h \in ToSet(p.roster)
  BY DEF Sound
<1>2. p.roster \in Seq(Handles) /\ p.queue \in Seq(Handles)
  BY <1>1 DEF PlayersType
<1>3. /\ q \in PlayersType
      /\ q.roster = Without(p.roster, S) /\ q.queue = Without(p.queue, S)
      /\ \A h \in Handles : q.name[h] = IF h \in S THEN None ELSE p.name[h]
      /\ q.warned = p.warned \ S
      /\ q.degraded = (p.degraded /\ S = {})
  BY <1>1, ForgetFields
<1> HIDE DEF q
<1>4. /\ ToSet(q.roster) = ToSet(p.roster) \ S /\ ToSet(q.queue) = ToSet(p.queue) \ S
      /\ IsInjective(q.roster) /\ IsInjective(q.queue)
  BY <1>1, <1>2, <1>3, WithoutMembers, WithoutInjective
<1>5. Len(q.roster) <= Len(p.roster) /\ Len(q.queue) <= Len(p.queue)
  BY <1>2, <1>3, WithoutMembers
<1>6. Unnamed(q) = Unnamed(p) \ S
  <2>1. ToSet(p.roster) \subseteq Handles
    BY <1>2, Members
  <2> QED BY <1>3, <1>4, <2>1 DEF Unnamed
<1>7. Len(q.roster) <= MAX_HANDLES /\ Len(q.queue) <= MAX_PENDING_NAMES
  <2>1. Len(q.roster) \in Nat /\ Len(p.roster) \in Nat /\ Len(q.queue) \in Nat /\ Len(p.queue) \in Nat
    BY <1>2, <1>3, Members DEF PlayersType
  <2>2. MAX_HANDLES \in Nat /\ MAX_PENDING_NAMES \in Nat
    BY Caps
  <2> QED BY <1>1, <1>5, <2>1, <2>2
<1>8. q.degraded => Len(q.roster) = MAX_HANDLES
  <2> SUFFICES ASSUME q.degraded PROVE Len(q.roster) = MAX_HANDLES
    OBVIOUS
  <2>1. p.degraded /\ S = {}
    BY <1>3
  <2>2. q.roster = p.roster
    BY <1>2, <1>3, <2>1, WithoutNothing
  <2> QED BY <1>1, <2>1, <2>2
<1>9. \A h \in Handles : q.name[h] # None => h \in ToSet(q.roster)
  BY <1>1, <1>3, <1>4
<1>10. q.warned \subseteq Unnamed(q) \ ToSet(q.queue) /\ ToSet(q.queue) \subseteq Unnamed(q)
  BY <1>1, <1>3, <1>4, <1>6
<1>11. Sound(q)
  BY <1>3, <1>4, <1>7, <1>8, <1>9, <1>10 DEF Sound
<1> QED BY <1>4, <1>6, <1>11 DEF q

\* The parts of a sound roster, as the proofs below cite them.
LEMMA SoundParts ==
  ASSUME NEW p, Sound(p)
  PROVE  /\ p.roster \in Seq(Handles) /\ p.queue \in Seq(Handles)
         /\ p.name \in [Handles -> Handles \cup {None}] /\ p.age \in [Handles -> 0 .. Grace]
         /\ p.leaving \in SUBSET Handles /\ p.warned \in SUBSET Handles /\ p.degraded \in BOOLEAN
         /\ Len(p.roster) \in Nat /\ Len(p.queue) \in Nat
         /\ ToSet(p.roster) \subseteq Handles /\ ToSet(p.queue) \subseteq Handles
         /\ ToSet(p.queue) \subseteq ToSet(p.roster)
         /\ p.warned \subseteq ToSet(p.roster)
<1>1. p \in PlayersType /\ ToSet(p.queue) \subseteq Unnamed(p)
      /\ p.warned \subseteq Unnamed(p)
  BY DEF Sound
<1>2. /\ p.roster \in Seq(Handles) /\ p.queue \in Seq(Handles)
      /\ p.name \in [Handles -> Handles \cup {None}] /\ p.age \in [Handles -> 0 .. Grace]
      /\ p.leaving \in SUBSET Handles /\ p.warned \in SUBSET Handles /\ p.degraded \in BOOLEAN
  BY <1>1 DEF PlayersType
<1>3. Unnamed(p) \subseteq ToSet(p.roster)
  BY DEF Unnamed
<1> QED BY <1>1, <1>2, <1>3, Members

LEMMA EnqueueSound ==
  ASSUME world \in Games, NEW p, Sound(p), NEW h \in ToSet(p.roster)
  PROVE  LET q == EnqueueName(p, h)
         IN /\ Sound(q) /\ q.roster = p.roster /\ q.name = p.name /\ q.degraded = p.degraded
            /\ \/ q = p /\ (p.name[h] # None \/ h \in ToSet(p.queue))
               \/ /\ p.name[h] = None /\ h \notin ToSet(p.queue)
                  /\ q.queue \in {p.queue, Append(p.queue, h)}
<1> DEFINE q == EnqueueName(p, h)
           w == [p EXCEPT !.warned = @ \cup {h}]
           a == [p EXCEPT !.warned = @ \ {h}, !.queue = Append(@, h)]
<1> USE SoundParts
<1>1. /\ p \in PlayersType /\ IsInjective(p.roster) /\ Len(p.roster) <= MAX_HANDLES
      /\ ToSet(p.queue) \subseteq Unnamed(p)
      /\ IsInjective(p.queue) /\ Len(p.queue) <= MAX_PENDING_NAMES
      /\ p.warned \subseteq Unnamed(p) \ ToSet(p.queue)
      /\ p.degraded => Len(p.roster) = MAX_HANDLES
      /\ \A k \in Handles : p.name[k] # None => k \in ToSet(p.roster)
  BY DEF Sound
<1>2. h \in Handles
  OBVIOUS
<1>3. CASE p.name[h] # None \/ h \in ToSet(p.queue)
  <2>1. q = p
    BY <1>3 DEF EnqueueName
  <2> HIDE DEF q
  <2> QED BY <1>3, <2>1 DEF q
<1>4. CASE p.name[h] = None /\ h \notin ToSet(p.queue) /\ Len(p.queue) >= MAX_PENDING_NAMES
  <2>1. q = w
    BY <1>4 DEF EnqueueName
  <2> DEFINE wa == p.warned \cup {h}
  <2>2. wa \in SUBSET Handles /\ w = [p EXCEPT !.warned = wa]
    BY <1>2
  <2>3. wa \subseteq Unnamed(p) \ ToSet(p.queue)
    BY <1>1, <1>4 DEF Unnamed
  <2> HIDE DEF wa, w
  <2>4. /\ w \in PlayersType /\ w.roster = p.roster /\ w.queue = p.queue /\ w.name = p.name
        /\ w.warned = wa /\ w.degraded = p.degraded
    BY <1>1, <2>2 DEF PlayersType
  <2>5. Unnamed(w) = Unnamed(p)
    BY <2>4 DEF Unnamed
  <2>6. Sound(w)
    BY <1>1, <2>3, <2>4, <2>5 DEF Sound
  <2> HIDE DEF q
  <2> QED BY <1>4, <2>1, <2>4, <2>6 DEF q
<1>5. CASE p.name[h] = None /\ h \notin ToSet(p.queue) /\ ~(Len(p.queue) >= MAX_PENDING_NAMES)
  <2>1. q = a
    BY <1>5 DEF EnqueueName
  <2> DEFINE wa == p.warned \ {h}
             qu == Append(p.queue, h)
  <2>2. wa \in SUBSET Handles /\ a = [p EXCEPT !.warned = wa, !.queue = qu]
    OBVIOUS
  <2>3. /\ qu \in Seq(Handles) /\ Len(qu) = Len(p.queue) + 1
        /\ ToSet(qu) = ToSet(p.queue) \cup {h} /\ IsInjective(qu)
    BY <1>1, <1>2, <1>5, AppendNew
  <2>4. wa \subseteq Unnamed(p) \ ToSet(qu) /\ ToSet(qu) \subseteq Unnamed(p)
    BY <1>1, <1>5, <2>3 DEF Unnamed
  <2>5. Len(qu) <= MAX_PENDING_NAMES
    BY <1>5, <2>3, Caps
  <2> HIDE DEF wa, qu, a
  <2>6. /\ a \in PlayersType /\ a.roster = p.roster /\ a.queue = qu /\ a.name = p.name
        /\ a.warned = wa /\ a.degraded = p.degraded
    BY <1>1, <2>2, <2>3 DEF PlayersType
  <2>7. Unnamed(a) = Unnamed(p)
    BY <2>6 DEF Unnamed
  <2>8. Sound(a)
    BY <1>1, <2>3, <2>4, <2>5, <2>6, <2>7 DEF Sound
  <2> HIDE DEF q
  <2> QED BY <1>5, <2>1, <2>6, <2>8 DEF q, qu
<1> QED BY <1>3, <1>4, <1>5

\* What AddHandle() does to the roster and the queue.
LEMMA AddSound ==
  ASSUME world \in Games, NEW p, Sound(p), NEW h \in Handles
  PROVE  LET q == AddHandle(p, h)
         IN /\ Sound(q) /\ q.name = p.name
            /\ ToSet(q.roster) \in {ToSet(p.roster), ToSet(p.roster) \cup {h}}
            /\ q.name[h] = None /\ h \in ToSet(q.queue) =>
                 /\ ToSet(q.roster) = ToSet(p.roster) \cup {h}
                 /\ IF h \in ToSet(p.roster)
                    THEN q.queue \in {p.queue, Append(p.queue, h)}
                         /\ (h \in ToSet(p.queue) => q = p)
                    ELSE q.queue = Append(p.queue, h)
            /\ q.name[h] # None => q = p /\ h \in ToSet(p.roster)
<1> DEFINE q == AddHandle(p, h)
           d == [p EXCEPT !.degraded = TRUE]
           r == [p EXCEPT !.roster = Append(@, h)]
<1> USE SoundParts
<1>1. /\ p \in PlayersType /\ IsInjective(p.roster) /\ Len(p.roster) <= MAX_HANDLES
      /\ ToSet(p.queue) \subseteq Unnamed(p)
      /\ IsInjective(p.queue) /\ Len(p.queue) <= MAX_PENDING_NAMES
      /\ p.warned \subseteq Unnamed(p) \ ToSet(p.queue)
      /\ p.degraded => Len(p.roster) = MAX_HANDLES
      /\ \A k \in Handles : p.name[k] # None => k \in ToSet(p.roster)
  BY DEF Sound
<1>2. CASE h \in ToSet(p.roster)
  <2>1. q = EnqueueName(p, h)
    BY <1>2 DEF AddHandle
  <2> HIDE DEF q
  <2>2. /\ Sound(q) /\ q.roster = p.roster /\ q.name = p.name
        /\ \/ q = p /\ (p.name[h] # None \/ h \in ToSet(p.queue))
           \/ /\ p.name[h] = None /\ h \notin ToSet(p.queue)
              /\ q.queue \in {p.queue, Append(p.queue, h)}
    BY <1>2, <2>1, EnqueueSound
  <2>3. ToSet(p.roster) = ToSet(p.roster) \cup {h}
    BY <1>2
  <2> QED BY <1>2, <2>2, <2>3 DEF q
<1>3. CASE h \notin ToSet(p.roster) /\ Len(p.roster) >= MAX_HANDLES
  <2>1. q = d
    BY <1>3 DEF AddHandle
  <2>2. /\ d \in PlayersType /\ d.roster = p.roster /\ d.queue = p.queue /\ d.name = p.name
        /\ d.warned = p.warned /\ d.degraded = TRUE
    BY <1>1 DEF PlayersType
  <2>3. Len(p.roster) = MAX_HANDLES
    BY <1>1, <1>3, Caps
  <2> HIDE DEF d, q
  <2>4. Unnamed(d) = Unnamed(p)
    BY <2>2 DEF Unnamed
  <2>5. Sound(d)
    BY <1>1, <2>2, <2>3, <2>4 DEF Sound
  <2>6. p.name[h] = None /\ h \notin ToSet(p.queue)
    BY <1>1, <1>3
  <2> QED BY <1>3, <2>1, <2>2, <2>5, <2>6 DEF q
<1>4. CASE h \notin ToSet(p.roster) /\ ~(Len(p.roster) >= MAX_HANDLES)
  <2>1. q = EnqueueName(r, h)
    BY <1>4 DEF AddHandle
  <2> DEFINE ro == Append(p.roster, h)
  <2>2. /\ ro \in Seq(Handles) /\ Len(ro) = Len(p.roster) + 1
        /\ ToSet(ro) = ToSet(p.roster) \cup {h} /\ IsInjective(ro)
    BY <1>1, <1>4, AppendNew
  <2>3. Len(ro) <= MAX_HANDLES /\ ~p.degraded
    <3>1. MAX_HANDLES \in Nat
      BY Caps
    <3>2. Len(p.roster) < MAX_HANDLES
      BY <1>4, <3>1
    <3>3. Len(ro) <= MAX_HANDLES /\ Len(p.roster) # MAX_HANDLES
      BY <2>2, <3>1, <3>2
    <3> QED BY <1>1, <3>3
  <2> HIDE DEF ro
  <2>4. r = [p EXCEPT !.roster = ro]
    BY DEF ro
  <2> HIDE DEF r
  <2>5. /\ r \in PlayersType /\ r.roster = ro /\ r.queue = p.queue /\ r.name = p.name
        /\ r.warned = p.warned /\ r.degraded = p.degraded
    BY <1>1, <2>2, <2>4 DEF PlayersType
  <2>6. p.name[h] = None /\ h \notin ToSet(p.queue)
    BY <1>1, <1>4
  <2>7. Unnamed(r) = Unnamed(p) \cup {h}
    BY <2>2, <2>5, <2>6 DEF Unnamed
  <2>8. p.warned \subseteq ToSet(p.roster)
    OBVIOUS
  <2>9. Sound(r)
    <3>1. r.warned \subseteq Unnamed(r) \ ToSet(r.queue)
      BY <1>1, <2>5, <2>7
    <3>2. ToSet(r.queue) \subseteq Unnamed(r)
      BY <1>1, <2>5, <2>7
    <3>3. \A k \in Handles : r.name[k] # None => k \in ToSet(r.roster)
      BY <1>1, <2>2, <2>5
    <3>4. r.degraded => Len(r.roster) = MAX_HANDLES
      BY <2>3, <2>5
    <3> QED BY <1>1, <2>2, <2>3, <2>5, <3>1, <3>2, <3>3, <3>4 DEF Sound
  <2> HIDE DEF q
  <2>10. h \in ToSet(r.roster)
    BY <2>2, <2>5
  <2>11. /\ Sound(q) /\ q.roster = r.roster /\ q.name = r.name
         /\ \/ q = r /\ (r.name[h] # None \/ h \in ToSet(r.queue))
            \/ q.queue \in {r.queue, Append(r.queue, h)}
    BY <2>1, <2>9, <2>10, EnqueueSound
  <2>12. q.queue \in {p.queue, Append(p.queue, h)}
    BY <2>5, <2>6, <2>11
  <2> QED BY <1>4, <2>2, <2>5, <2>6, <2>11, <2>12 DEF q
<1> QED BY <1>2, <1>3, <1>4

\* Naming the unnamed handle h with n, once the queue is qu.
Named(p, h, n, qu) == [p EXCEPT !.name[h] = n, !.queue = qu, !.warned = @ \ {h}]

LEMMA NamedSound ==
  ASSUME world \in Games, NEW p, Sound(p), NEW n \in Handles, NEW h \in Unnamed(p),
         NEW qu \in Seq(Handles), IsInjective(qu), ToSet(qu) \subseteq ToSet(p.queue) \ {h},
         Len(qu) <= MAX_PENDING_NAMES
  PROVE  LET q == Named(p, h, n, qu)
         IN /\ Sound(q) /\ q.roster = p.roster /\ q.queue = qu /\ Unnamed(q) = Unnamed(p) \ {h}
            /\ \A k \in Handles : q.name[k] = IF k = h THEN n ELSE p.name[k]
<1> DEFINE q == Named(p, h, n, qu)
           wa == p.warned \ {h}
           nm == [p.name EXCEPT ![h] = n]
<1> USE SoundParts
<1>1. /\ p \in PlayersType /\ IsInjective(p.roster) /\ Len(p.roster) <= MAX_HANDLES
      /\ ToSet(p.queue) \subseteq Unnamed(p)
      /\ p.warned \subseteq Unnamed(p) \ ToSet(p.queue)
      /\ p.degraded => Len(p.roster) = MAX_HANDLES
      /\ \A k \in Handles : p.name[k] # None => k \in ToSet(p.roster)
  BY DEF Sound
<1>2. h \in Handles /\ h \in ToSet(p.roster) /\ n # None
  BY PresenceAssumption DEF Unnamed
<1>3. nm \in [Handles -> Handles \cup {None}] /\ wa \in SUBSET Handles
  OBVIOUS
<1>4. \A k \in Handles : nm[k] = IF k = h THEN n ELSE p.name[k]
  <2>1. p.name \in [Handles -> Handles \cup {None}]
    OBVIOUS
  <2> QED BY <2>1
<1>5. q = [p EXCEPT !.name = nm, !.queue = qu, !.warned = wa]
  BY <1>1 DEF Named, PlayersType
<1>6. wa \subseteq (Unnamed(p) \ {h}) \ ToSet(qu)
  BY <1>1
<1> HIDE DEF nm, wa, q
<1>7. /\ q \in PlayersType /\ q.roster = p.roster /\ q.queue = qu /\ q.name = nm
      /\ q.warned = wa /\ q.degraded = p.degraded
  BY <1>1, <1>3, <1>5 DEF PlayersType
<1>8. Unnamed(q) = Unnamed(p) \ {h}
  BY <1>2, <1>4, <1>7 DEF Unnamed
<1>9. \A k \in Handles : q.name[k] # None => k \in ToSet(q.roster)
  BY <1>1, <1>2, <1>4, <1>7
<1>10. ToSet(qu) \subseteq Unnamed(p) \ {h}
  BY <1>1
<1>11. Sound(q)
  BY <1>1, <1>6, <1>7, <1>8, <1>9, <1>10 DEF Sound
<1> QED BY <1>4, <1>7, <1>8, <1>11 DEF q

\* A name goes to the head of the queue, or to an unnamed handle if nobody is queued.
LEMMA AttachSound ==
  ASSUME world \in Games, NEW p, Sound(p), NEW n \in Handles
  PROVE  LET q == AttachName(p, n)
         IN /\ Sound(q) /\ q.roster = p.roster
            /\ \/ Unnamed(p) = {} /\ q.name = p.name
               \/ \E h \in Unnamed(p) :
                    /\ \A k \in Handles : q.name[k] = IF k = h THEN n ELSE p.name[k]
                    /\ Unnamed(q) = Unnamed(p) \ {h}
                    /\ p.queue # <<>> =>
                         h = Head(p.queue) /\ q.queue = Without(p.queue, {h})
<1> DEFINE q == AttachName(p, n)
           waits == {i \in DOMAIN p.queue : p.queue[i] \in Unnamed(p)}
           e == [p EXCEPT !.queue = <<>>]
<1> USE SoundParts
<1>1. /\ p \in PlayersType /\ ToSet(p.queue) \subseteq Unnamed(p)
      /\ IsInjective(p.queue) /\ Len(p.queue) <= MAX_PENDING_NAMES
  BY DEF Sound
<1>2. /\ <<>> \in Seq(Handles) /\ IsInjective(<<>>) /\ Len(<<>>) <= MAX_PENDING_NAMES
      /\ ToSet(<<>>) = {}
  BY Caps DEF IsInjective, ToSet
<1>3. CASE Unnamed(p) = {}
  <2>1. q = e
    BY <1>3 DEF AttachName
  <2>2. p.queue = <<>>
    BY <1>1, <1>3, Members
  <2>3. e = p
    BY <1>1, <2>2 DEF PlayersType
  <2> HIDE DEF e, q
  <2> QED BY <1>3, <2>1, <2>3 DEF q
<1>4. CASE Unnamed(p) # {} /\ p.queue = <<>>
  <2> DEFINE h == FirstOf(p.roster, Unnamed(p))
  <2>1. waits = {}
    BY <1>4
  <2>2. h \in Unnamed(p)
    BY <1>4, FirstIsThere DEF Unnamed
  <2>3. Without(<<>>, {h}) = <<>>
    BY <1>2, WithoutNothing
  <2>4. q = Named(p, h, n, <<>>)
    BY <1>4, <2>1, <2>3 DEF AttachName, Named
  <2> DEFINE qu == <<>>
  <2> HIDE DEF h, q
  <2>5. /\ qu \in Seq(Handles) /\ IsInjective(qu) /\ ToSet(qu) \subseteq ToSet(p.queue) \ {h}
        /\ Len(qu) <= MAX_PENDING_NAMES /\ q = Named(p, h, n, qu)
    BY <1>2, <2>4
  <2> HIDE DEF qu
  <2>6. /\ Sound(q) /\ q.roster = p.roster /\ Unnamed(q) = Unnamed(p) \ {h}
        /\ \A k \in Handles : q.name[k] = IF k = h THEN n ELSE p.name[k]
    BY <2>2, <2>5, NamedSound
  <2> QED BY <1>4, <2>2, <2>6 DEF q
<1>5. CASE p.queue # <<>>
  <2> DEFINE h == Head(p.queue)
             t == Tail(p.queue)
  <2>1. Len(p.queue) \in Nat \ {0} /\ DOMAIN p.queue = 1 .. Len(p.queue) /\ h = p.queue[1]
    BY <1>5
  <2>2. 1 \in DOMAIN p.queue
    BY <2>1
  <2>3. h \in ToSet(p.queue)
    BY <2>1, <2>2 DEF ToSet
  <2>4. h \in Unnamed(p) /\ Unnamed(p) # {}
    BY <1>1, <2>3
  <2>5. Unnamed(p) \cap ToSet(p.queue) # {}
    BY <2>3, <2>4
  <2>6. FirstOf(p.queue, Unnamed(p)) = h /\ Min(waits) = 1
    <3>1. Head(p.queue) \in Unnamed(p) /\ p.queue \in Seq(Handles)
      BY <2>4
    <3>2. /\ FirstOf(p.queue, Unnamed(p)) = Head(p.queue)
          /\ Min({i \in DOMAIN p.queue : p.queue[i] \in Unnamed(p)}) = 1
      BY <2>5, <3>1, FirstIsThere
    <3> QED BY <3>2
  <2>7. waits # {}
    BY <2>1, <2>2, <2>4
  <2>8. SubSeq(p.queue, Min(waits) + 1, Len(p.queue)) = t
    BY <2>2, <2>6, RestOfSequence
  <2>9. t = Without(p.queue, {h})
    BY <1>1, <1>5, WithoutHead
  <2>10. /\ t \in Seq(Handles) /\ IsInjective(t) /\ ToSet(t) = ToSet(p.queue) \ {h}
         /\ Len(t) <= Len(p.queue)
    <3>1. p.queue \in Seq(Handles)
      OBVIOUS
    <3>2. t \in Seq(Handles)
      BY <1>5, <3>1
    <3>3. IsInjective(t)
      BY <1>1, <2>9, <3>1, WithoutInjective
    <3>4. ToSet(t) = ToSet(p.queue) \ {h} /\ Len(t) <= Len(p.queue)
      BY <2>9, <3>1, WithoutMembers
    <3> QED BY <3>2, <3>3, <3>4
  <2>11. Without(t, {h}) = t
    BY <2>10, WithoutNothing
  <2>12. Len(t) <= MAX_PENDING_NAMES
    <3>1. Len(t) \in Nat /\ Len(p.queue) \in Nat /\ MAX_PENDING_NAMES \in Nat
      BY <2>10, Caps, Members
    <3> QED BY <1>1, <2>10, <3>1
  <2>13. q = Named(p, h, n, t)
    <3> HIDE DEF h, t
    <3>1. q = [p EXCEPT !.name[h] = n, !.queue = Without(t, {h}), !.warned = @ \ {h}]
      BY <2>4, <2>6, <2>7, <2>8 DEF AttachName
    <3> HIDE DEF q
    <3> QED BY <2>11, <3>1 DEF Named
  <2> HIDE DEF h, t, q
  <2>14. /\ Sound(q) /\ q.roster = p.roster /\ q.queue = t /\ Unnamed(q) = Unnamed(p) \ {h}
         /\ \A k \in Handles : q.name[k] = IF k = h THEN n ELSE p.name[k]
    BY <2>4, <2>10, <2>12, <2>13, NamedSound
  <2>15. h = Head(p.queue)
    BY DEF h
  <2> QED BY <2>4, <2>9, <2>14, <2>15 DEF q
<1> QED BY <1>3, <1>4, <1>5

LEMMA MarkLeavingSound ==
  ASSUME NEW p, Sound(p), NEW n \in Handles
  PROVE  LET q == MarkLeaving(p, n)
         IN Sound(q) /\ q.roster = p.roster /\ q.name = p.name /\ q.queue = p.queue
            /\ q.degraded = p.degraded
<1> DEFINE named == {h \in ToSet(p.roster) \ p.leaving : p.name[h] = n}
           le == p.leaving \cup {FirstOf(p.roster, named)}
           q == [p EXCEPT !.leaving = le]
<1> USE SoundParts
<1>1. /\ p \in PlayersType /\ IsInjective(p.roster) /\ Len(p.roster) <= MAX_HANDLES
      /\ ToSet(p.queue) \subseteq Unnamed(p)
      /\ IsInjective(p.queue) /\ Len(p.queue) <= MAX_PENDING_NAMES
      /\ p.warned \subseteq Unnamed(p) \ ToSet(p.queue)
      /\ p.degraded => Len(p.roster) = MAX_HANDLES
      /\ \A k \in Handles : p.name[k] # None => k \in ToSet(p.roster)
  BY DEF Sound
<1>2. CASE named = {}
  BY <1>2 DEF MarkLeaving
<1>3. CASE named # {}
  <2>1. named \cap ToSet(p.roster) # {}
    BY <1>3
  <2>2. FirstOf(p.roster, named) \in Handles
    BY <2>1, FirstIsThere
  <2>3. le \in SUBSET Handles
    BY <2>2
  <2>4. MarkLeaving(p, n) = q
    BY <1>3 DEF MarkLeaving
  <2> HIDE DEF le
  <2>5. /\ q \in PlayersType /\ q.roster = p.roster /\ q.queue = p.queue /\ q.name = p.name
        /\ q.warned = p.warned /\ q.degraded = p.degraded
    BY <1>1, <2>3 DEF PlayersType
  <2> HIDE DEF q
  <2>6. Unnamed(q) = Unnamed(p)
    BY <2>5 DEF Unnamed
  <2>7. Sound(q)
    BY <1>1, <2>5, <2>6 DEF Sound
  <2> QED BY <2>4, <2>5, <2>7
<1> QED BY <1>2, <1>3

\* What expires are unnamed handles; nothing changes where none does.
LEMMA ExpiredSound ==
  ASSUME world \in Games, NEW p, Sound(p)
  PROVE  LET q == ExpireUnnamed(p)
         IN Sound(q) /\ Keeps(p, q) /\ (Stale(p) = {} => q = p)
            /\ ToSet(q.roster) \subseteq ToSet(p.roster)
            /\ (q.degraded => p.degraded)
<1> DEFINE S == Stale(p)
<1>1. CASE S = {}
  <2>1. ExpireUnnamed(p) = p
    BY <1>1 DEF ExpireUnnamed
  <2> QED BY <2>1 DEF Keeps
<1>2. CASE S # {}
  <2>1. ExpireUnnamed(p) = Forget(p, S)
    BY <1>2 DEF ExpireUnnamed
  <2>2. S \in SUBSET Handles /\ S \subseteq Unnamed(p)
    BY SoundParts DEF Stale, Unnamed
  <2>3. p \in PlayersType
    BY DEF Sound
  <2> HIDE DEF S
  <2> DEFINE q == Forget(p, S)
  <2>4. Sound(q) /\ ToSet(q.roster) = ToSet(p.roster) \ S
    BY <2>2, ForgetSound
  <2>5. /\ \A h \in Handles : q.name[h] = IF h \in S THEN None ELSE p.name[h]
        /\ q.degraded = (p.degraded /\ S = {})
    BY <2>2, <2>3, ForgetFields
  <2> HIDE DEF q
  <2>6. Keeps(p, q)
    BY <2>2, <2>4, <2>5, SoundParts DEF Keeps
  <2>7. ~q.degraded
    BY <1>2, <2>5 DEF S
  <2> QED BY <1>2, <2>1, <2>4, <2>6, <2>7 DEF q, S
<1> QED BY <1>1, <1>2

-----------------------------------------------------------------------------
(* What each line of the Session block makes of it. *)

\* The inductive invariant of the block b, given what the game g listed in it.
BlockSound(b, g) ==
  /\ b \in BlockType
  /\ IsFiniteSet(b.rows) /\ Cardinality(b.rows) <= MAX_SESSION_MACHINES
  /\ b.open /\ ~b.bad => b.rows = g.listed
  /\ b.complete /\ ~b.malformed => b.machines = g.reported

LEMMA NoRows ==
  /\ IsFiniteSet({}) /\ Cardinality({}) <= MAX_SESSION_MACHINES /\ {} \in SUBSET Machines
  /\ 0 \in 0 .. BlockTimeout /\ 0 \in 0 .. BlockTimeout + 1
<1>1. IsFiniteSet({}) /\ Cardinality({}) = 0
  BY FS_EmptySet
<1>2. MAX_SESSION_MACHINES \in Nat /\ BlockTimeout \in Nat
  BY PresenceAssumption
<1>3. Cardinality({}) <= MAX_SESSION_MACHINES
  BY <1>1, <1>2
<1> QED BY <1>1, <1>2, <1>3

LEMMA ExpireSessionSound ==
  ASSUME NEW b, NEW g, BlockSound(b, g)
  PROVE  LET c == ExpireSession(b)
         IN /\ BlockSound(c, g) /\ c.open = b.open /\ c.rows = b.rows /\ c.bad = b.bad
            /\ c.machines = b.machines /\ c.complete = b.complete /\ c.old = b.old
            /\ b.malformed => c.malformed
<1> DEFINE c == [b EXCEPT !.malformed = TRUE, !.overdue = TRUE]
<1>1. b \in BlockType
  BY DEF BlockSound
<1>2. /\ c \in BlockType /\ c.open = b.open /\ c.rows = b.rows /\ c.bad = b.bad
      /\ c.machines = b.machines /\ c.complete = b.complete /\ c.old = b.old
      /\ c.malformed = TRUE
  BY <1>1 DEF BlockType
<1>3. ExpireSession(b) \in {b, c}
  BY DEF ExpireSession
<1> HIDE DEF c
<1>4. BlockSound(c, g)
  BY <1>2 DEF BlockSound
<1>5. CASE ExpireSession(b) = b
  BY <1>5
<1>6. CASE ExpireSession(b) = c
  BY <1>2, <1>4, <1>6
<1> QED BY <1>3, <1>5, <1>6

LEMMA StartBlockSound ==
  ASSUME NEW b, NEW g \in GameType, BlockSound(b, g)
  PROVE  LET c == StartBlock(b)
         IN /\ BlockSound(c, [g EXCEPT !.listed = {}])
            /\ c.machines = b.machines /\ c.complete = b.complete /\ c.old = b.old
            /\ b.malformed => c.malformed
<1> DEFINE c == StartBlock(b)
           d == [g EXCEPT !.listed = {}]
           ma == b.malformed \/ b.open
<1>1. b \in BlockType
  BY DEF BlockSound
<1>2. ma \in BOOLEAN /\ (b.malformed => ma)
  OBVIOUS
<1>3. c = [b EXCEPT !.malformed = ma, !.open = TRUE, !.age = 0, !.rows = {},
                    !.bad = FALSE, !.overdue = FALSE]
  BY DEF StartBlock
<1> HIDE DEF ma
<1>4. /\ c \in BlockType /\ c.rows = {} /\ c.machines = b.machines /\ c.complete = b.complete
      /\ c.old = b.old /\ c.malformed = ma
  BY <1>1, <1>2, <1>3, NoRows DEF BlockType
<1>5. d.listed = {} /\ d.reported = g.reported
  BY DEF GameType
<1> HIDE DEF c, d
<1>6. b.complete /\ ~b.malformed => b.machines = g.reported
  BY DEF BlockSound
<1>7. c.complete /\ ~c.malformed => c.machines = d.reported
  BY <1>2, <1>4, <1>5, <1>6
<1>8. BlockSound(c, d)
  BY <1>4, <1>5, <1>7, NoRows DEF BlockSound
<1> QED BY <1>2, <1>4, <1>8 DEF c, d

LEMMA MachineRowSound ==
  ASSUME NEW b, NEW g \in GameType, BlockSound(b, g), NEW i \in Machines
  PROVE  LET c == MachineRow(b, i)
         IN /\ BlockSound(c, [g EXCEPT !.listed = @ \cup {i}])
            /\ c.machines = b.machines /\ c.complete = b.complete /\ c.old = b.old
            /\ c.malformed = b.malformed
<1> DEFINE d == [g EXCEPT !.listed = @ \cup {i}]
           ro == b.rows \cup {i}
           w == [b EXCEPT !.bad = TRUE]
           r == [b EXCEPT !.rows = ro]
<1>1. /\ b \in BlockType
      /\ IsFiniteSet(b.rows) /\ Cardinality(b.rows) <= MAX_SESSION_MACHINES
      /\ b.open /\ ~b.bad => b.rows = g.listed
      /\ b.complete /\ ~b.malformed => b.machines = g.reported
  BY DEF BlockSound
<1>2. d.listed = g.listed \cup {i} /\ d.reported = g.reported
  BY DEF GameType
<1> HIDE DEF d
<1>3. CASE ~b.open \/ i \in b.rows
  <2>1. MachineRow(b, i) = b
    BY <1>3 DEF MachineRow
  <2>2. b.open /\ ~b.bad => b.rows = d.listed
    BY <1>1, <1>2, <1>3
  <2>3. BlockSound(b, d)
    BY <1>1, <1>2, <2>2 DEF BlockSound
  <2> QED BY <2>1, <2>3 DEF d
<1>4. CASE b.open /\ i \notin b.rows /\ Cardinality(b.rows) >= MAX_SESSION_MACHINES
  <2>1. MachineRow(b, i) = w
    BY <1>4 DEF MachineRow
  <2>2. /\ w \in BlockType /\ w.bad = TRUE /\ w.rows = b.rows /\ w.machines = b.machines
        /\ w.complete = b.complete /\ w.old = b.old /\ w.malformed = b.malformed
    BY <1>1 DEF BlockType
  <2> HIDE DEF w
  <2>3. BlockSound(w, d)
    BY <1>1, <1>2, <2>2 DEF BlockSound
  <2> QED BY <2>1, <2>2, <2>3 DEF d
<1>5. CASE b.open /\ i \notin b.rows /\ ~(Cardinality(b.rows) >= MAX_SESSION_MACHINES)
  <2>1. MachineRow(b, i) = r
    BY <1>5 DEF MachineRow
  <2>2. ro \in SUBSET Machines
    BY <1>1 DEF BlockType
  <2>3. IsFiniteSet(ro) /\ Cardinality(ro) = Cardinality(b.rows) + 1
    BY <1>1, <1>5, FS_AddElement
  <2>4. Cardinality(ro) <= MAX_SESSION_MACHINES
    <3>1. Cardinality(b.rows) \in Nat /\ MAX_SESSION_MACHINES \in Nat
      BY <1>1, FS_CardinalityType, PresenceAssumption
    <3> QED BY <1>5, <2>3, <3>1
  <2>5. b.open /\ ~b.bad => ro = d.listed
    BY <1>1, <1>2
  <2> HIDE DEF ro
  <2>6. /\ r \in BlockType /\ r.open = b.open /\ r.bad = b.bad /\ r.rows = ro
        /\ r.machines = b.machines /\ r.complete = b.complete /\ r.old = b.old
        /\ r.malformed = b.malformed
    BY <1>1, <2>2 DEF BlockType
  <2> HIDE DEF r
  <2>7. BlockSound(r, d)
    BY <1>1, <1>2, <2>3, <2>4, <2>5, <2>6 DEF BlockSound
  <2> QED BY <2>1, <2>6, <2>7 DEF d
<1> QED BY <1>3, <1>4, <1>5

LEMMA BadRowSound ==
  ASSUME NEW b, NEW g, BlockSound(b, g)
  PROVE  LET c == BadRow(b)
         IN /\ BlockSound(c, g)
            /\ c.machines = b.machines /\ c.complete = b.complete /\ c.old = b.old
            /\ c.malformed = b.malformed
<1> DEFINE ba == b.bad \/ b.open
           c == [b EXCEPT !.bad = ba]
<1>1. /\ b \in BlockType
      /\ IsFiniteSet(b.rows) /\ Cardinality(b.rows) <= MAX_SESSION_MACHINES
      /\ b.complete /\ ~b.malformed => b.machines = g.reported
  BY DEF BlockSound
<1>2. BadRow(b) = c
  BY DEF BadRow
<1>3. ba \in BOOLEAN /\ (b.open => ba)
  OBVIOUS
<1> HIDE DEF ba
<1>4. /\ c \in BlockType /\ c.open = b.open /\ c.bad = ba /\ c.rows = b.rows
      /\ c.machines = b.machines /\ c.complete = b.complete /\ c.old = b.old
      /\ c.malformed = b.malformed
  BY <1>1, <1>3 DEF BlockType
<1> HIDE DEF c
<1>5. BlockSound(c, g)
  BY <1>1, <1>3, <1>4 DEF BlockSound
<1> QED BY <1>2, <1>4, <1>5

LEMMA CloseBlockSound ==
  ASSUME NEW b, NEW g \in GameType, BlockSound(b, g)
  PROVE  LET c == CloseBlock(b)
             d == IF b.open THEN [g EXCEPT !.reported = g.listed] ELSE g
         IN /\ BlockSound(c, d)
            /\ IF b.open THEN c.machines = b.rows ELSE c = b
<1> DEFINE ma == b.bad \/ b.age >= BlockTimeout \/ 0 \notin b.rows
           c == [b EXCEPT !.malformed = ma, !.machines = b.rows, !.complete = TRUE, !.old = 0,
                          !.open = FALSE, !.age = 0, !.rows = {}, !.bad = FALSE]
           d == [g EXCEPT !.reported = g.listed]
<1>1. b \in BlockType /\ (b.open /\ ~b.bad => b.rows = g.listed)
  BY DEF BlockSound
<1>2. CASE ~b.open
  BY <1>2 DEF CloseBlock
<1>3. CASE b.open
  <2>1. CloseBlock(b) = c
    BY <1>3 DEF CloseBlock
  <2>2. ma \in BOOLEAN /\ (b.bad => ma)
    OBVIOUS
  <2>3. b.rows \in SUBSET Machines
    BY <1>1 DEF BlockType
  <2>4. d.reported = g.listed
    BY DEF GameType
  <2> HIDE DEF ma, d
  <2>5. /\ c \in BlockType /\ c.open = FALSE /\ c.rows = {} /\ c.machines = b.rows
        /\ c.malformed = ma
    BY <1>1, <2>2, <2>3, NoRows DEF BlockType
  <2> HIDE DEF c
  <2>6. ~c.malformed => c.machines = d.reported
    BY <1>1, <1>3, <2>2, <2>4, <2>5
  <2>7. BlockSound(c, d)
    BY <2>5, <2>6, NoRows DEF BlockSound
  <2> QED BY <1>3, <2>1, <2>5, <2>7 DEF d
<1> QED BY <1>2, <1>3

-----------------------------------------------------------------------------
(* The inductive invariant. *)

\* While the game keeps the order of its logins, it and the tracker agree on
\* who is online, who waits for a name, and in which order.
Ordered(p, g) ==
  g.orderly =>
    /\ g.online = ToSet(p.roster)
    /\ Unnamed(p) = ToSet(p.queue)
    /\ g.logins = p.queue
    /\ \A h \in Handles : p.name[h] \in {h, None}

RestOK ==
  /\ pending \in 0 .. JoinWindow
  /\ ready \in BOOLEAN /\ stream \in BOOLEAN /\ activity \in BOOLEAN

IInv ==
  /\ world \in Games /\ RestOK
  /\ Sound(players)
  /\ game \in GameType
  /\ BlockSound(block, game)
  /\ Ordered(players, game)

LEMMA BlockOfGame ==
  ASSUME NEW b, NEW g, NEW d, BlockSound(b, g), d.listed = g.listed, d.reported = g.reported
  PROVE  BlockSound(b, d)
  BY DEF BlockSound

LEMMA NotedSound ==
  ASSUME NEW g \in GameType
  PROVE  /\ Noted(g) \in GameType
         /\ \A p : Ordered(p, g) => Ordered(p, Noted(g))
         /\ \A b : BlockSound(b, g) => BlockSound(b, Noted(g))
<1> DEFINE d == [g EXCEPT !.logins = <<>>, !.online = {}]
<1>1. CASE g.orderly
  BY <1>1 DEF Noted
<1>2. CASE ~g.orderly
  <2>1. Noted(g) = d
    BY <1>2 DEF Noted
  <2>2. <<>> \in Seq(Handles) /\ {} \in SUBSET Handles
    OBVIOUS
  <2>3. d \in GameType /\ d.listed = g.listed /\ d.reported = g.reported /\ d.orderly = g.orderly
    BY <2>2 DEF GameType
  <2> HIDE DEF d
  <2>4. \A p : Ordered(p, d)
    BY <1>2, <2>3 DEF Ordered
  <2>5. \A b : BlockSound(b, g) => BlockSound(b, d)
    BY <2>3, BlockOfGame
  <2> QED BY <2>1, <2>3, <2>4, <2>5
<1> QED BY <1>1, <1>2

LEMMA InitSound == Init => IInv
<1> SUFFICES ASSUME Init PROVE IInv
  OBVIOUS
<1> USE DEF Init
<1>1. world \in Games /\ RestOK
  <2>1. 0 \in 0 .. JoinWindow
    BY PresenceAssumption
  <2>2. pending = 0 /\ ready = FALSE /\ stream = TRUE /\ activity = FALSE /\ world \in Games
    OBVIOUS
  <2> QED BY <2>1, <2>2 DEF RestOK
<1>2. <<>> \in Seq(Handles) /\ IsInjective(<<>>) /\ ToSet(<<>>) = {} /\ Len(<<>>) = 0
  BY DEF IsInjective, ToSet
<1>3. 0 \in 0 .. Grace
  BY PresenceAssumption
<1>4. players \in PlayersType
  BY <1>2, <1>3 DEF PlayersType
<1>5. /\ players.roster = <<>> /\ players.queue = <<>> /\ players.warned = {}
      /\ players.degraded = FALSE /\ \A h \in Handles : players.name[h] = None
  OBVIOUS
<1>6. game \in GameType /\ game.logins = <<>> /\ game.online = {}
  <2>1. <<>> \in Seq(Handles)
    OBVIOUS
  <2> QED BY <2>1 DEF GameType
<1>7. /\ block \in BlockType /\ block.open = FALSE /\ block.rows = {} /\ block.complete = FALSE
  BY NoRows DEF BlockType
<1>8. BlockSound(block, game)
  BY <1>7, NoRows DEF BlockSound
<1>9. Unnamed(players) = {}
  BY <1>2, <1>5 DEF Unnamed
<1>10. MAX_HANDLES \in Nat /\ MAX_PENDING_NAMES \in Nat
  BY <1>1, Caps
<1>11. Sound(players)
  BY <1>2, <1>4, <1>5, <1>9, <1>10 DEF Sound
<1>12. Ordered(players, game)
  BY <1>2, <1>5, <1>6, <1>9 DEF Ordered
<1> QED BY <1>1, <1>6, <1>8, <1>11, <1>12 DEF IInv

\* The invariant of the next state, from its parts.
LEMMA NextInv ==
  ASSUME IInv, world' = world, RestOK',
         NEW p, NEW b, NEW g \in GameType, Sound(p), BlockSound(b, g), Ordered(p, g),
         players' = p, block' = b, game' = g
  PROVE  IInv'
<1>1. world \in Games
  BY DEF IInv
<1>2. Sound(players)'
  BY DEF Sound, MAX_HANDLES, MAX_PENDING_NAMES, Unnamed
<1>3. BlockSound(block, game)'
  BY DEF BlockSound
<1>4. Ordered(players, game)'
  BY DEF Ordered, Unnamed
<1> QED BY <1>1, <1>2, <1>3, <1>4 DEF IInv

\* What has expired is sound, and agrees with a game that was disturbed by it.
LEMMA ExpiredIs ==
  ASSUME IInv
  PROVE  /\ Sound(Expired) /\ Keeps(players, Expired)
         /\ Disturbed \in GameType
         /\ Disturbed.listed = game.listed /\ Disturbed.reported = game.reported
         /\ Disturbed.online = game.online /\ Disturbed.logins = game.logins
         /\ Disturbed.orderly => game.orderly /\ Expired = players
         /\ BlockSound(ExpireSession(block), game)
         /\ BlockSound(ExpireSession(block), Disturbed)
         /\ Ordered(Expired, Disturbed)
<1>1. Sound(players) /\ game \in GameType /\ BlockSound(block, game)
      /\ Ordered(players, game) /\ world \in Games
  BY DEF IInv
<1>2. Sound(Expired) /\ Keeps(players, Expired) /\ (Stale(players) = {} => Expired = players)
  BY <1>1, ExpiredSound DEF Expired
<1> DEFINE o == game.orderly /\ Stale(players) = {}
<1>3. o \in BOOLEAN
  OBVIOUS
<1>4. Disturbed = [game EXCEPT !.orderly = o]
  BY DEF Disturbed
<1>5. o => game.orderly /\ Expired = players
  BY <1>2
<1> HIDE DEF o
<1>6. /\ Disturbed \in GameType
      /\ Disturbed.listed = game.listed /\ Disturbed.reported = game.reported
      /\ Disturbed.online = game.online /\ Disturbed.logins = game.logins
      /\ Disturbed.orderly = o
  BY <1>1, <1>3, <1>4 DEF GameType
<1>7. BlockSound(ExpireSession(block), game)
  BY <1>1, ExpireSessionSound
<1>8. BlockSound(ExpireSession(block), Disturbed)
  BY <1>6, <1>7, BlockOfGame
<1>9. Ordered(Expired, Disturbed)
  BY <1>1, <1>5, <1>6 DEF Ordered
<1> QED BY <1>2, <1>5, <1>6, <1>7, <1>8, <1>9

LEMMA PlayerLineInv ==
  ASSUME IInv, NEW p, Sound(p), NEW g \in GameType, g.listed = game.listed,
         g.reported = game.reported, Ordered(p, g),
         NEW join \in 0 .. JoinWindow, PlayerLine(p, join, g)
  PROVE  IInv'
<1>1. /\ players' = p /\ block' = ExpireSession(block) /\ pending' = join /\ activity' = TRUE
      /\ game' = Noted(g) /\ UNCHANGED <<ready, stream, world>>
  BY DEF PlayerLine
<1>2. RestOK'
  BY <1>1 DEF RestOK, IInv
<1>3. BlockSound(ExpireSession(block), g)
  BY ExpiredIs, BlockOfGame
<1>4. /\ Noted(g) \in GameType /\ Ordered(p, Noted(g))
      /\ BlockSound(ExpireSession(block), Noted(g))
  BY <1>3, NotedSound
<1> QED BY <1>1, <1>2, <1>4, NextInv

LEMMA SessionLineInv ==
  ASSUME IInv, NEW b, NEW g \in GameType, BlockSound(b, g), g.online = game.online,
         g.logins = game.logins, g.orderly = game.orderly, SessionLine(b, g),
         activity' \in BOOLEAN
  PROVE  IInv'
<1> DEFINE o == g.orderly /\ Stale(players) = {}
           d == [g EXCEPT !.orderly = o]
<1>1. /\ players' = Expired /\ block' = b /\ game' = Noted(d)
      /\ UNCHANGED <<pending, ready, stream, world>>
  BY DEF SessionLine
<1>2. RestOK'
  BY <1>1 DEF RestOK, IInv
<1>3. o \in BOOLEAN /\ (o => game.orderly /\ Stale(players) = {})
  OBVIOUS
<1> HIDE DEF o
<1>4. /\ d \in GameType /\ d.listed = g.listed /\ d.reported = g.reported
      /\ d.online = game.online /\ d.logins = game.logins /\ d.orderly = o
  BY <1>3 DEF GameType
<1> HIDE DEF d
<1>5. Ordered(Expired, d)
  <2>1. Ordered(players, game) /\ (o => Expired = players)
    <3>1. Sound(players) /\ world \in Games /\ Ordered(players, game)
      BY DEF IInv
    <3>2. Stale(players) = {} => Expired = players
      BY <3>1, ExpiredSound DEF Expired
    <3> QED BY <1>3, <3>1, <3>2
  <2> QED BY <1>3, <1>4, <2>1 DEF Ordered
<1>6. BlockSound(b, d)
  BY <1>4, BlockOfGame
<1>7. Noted(d) \in GameType /\ Ordered(Expired, Noted(d)) /\ BlockSound(b, Noted(d))
  BY <1>4, <1>5, <1>6, NotedSound
<1>8. Sound(Expired)
  BY ExpiredIs
<1> QED BY <1>1, <1>2, <1>7, <1>8, NextInv

\* The game's handles are handles.
LEMMA GameHandles == ASSUME IInv PROVE world.handles \subseteq Handles
  BY Caps DEF IInv

LEMMA PlayerAddedInv ==
  ASSUME IInv, NEW h \in Handles, PlayerAdded(h)
  PROVE  IInv'
<1> DEFINE p == AddHandle(Expired, h)
           D == Disturbed
           on == D.online \cup {h}
           lo == IF h \in game.online THEN D.logins ELSE Append(D.logins, h)
           o == D.orderly /\ (p.name[h] = None => h \in ToSet(p.queue))
           g == [D EXCEPT !.online = on, !.logins = lo, !.orderly = o]
<1>1. PlayerLine(p, 0, g)
  BY DEF PlayerAdded
<1>2. D \in GameType /\ (D.orderly => game.orderly /\ Expired = players)
      /\ D.online = game.online /\ D.logins = game.logins
      /\ D.listed = game.listed /\ D.reported = game.reported
      /\ Ordered(Expired, D) /\ Sound(Expired) /\ world \in Games
  BY ExpiredIs DEF IInv
<1>3. /\ Sound(p) /\ p.name = Expired.name
      /\ p.name[h] = None /\ h \in ToSet(p.queue) =>
           /\ ToSet(p.roster) = ToSet(Expired.roster) \cup {h}
           /\ IF h \in ToSet(Expired.roster)
              THEN h \in ToSet(Expired.queue) => p = Expired
              ELSE p.queue = Append(Expired.queue, h)
      /\ p.name[h] # None => p = Expired /\ h \in ToSet(Expired.roster)
  BY <1>2, AddSound
<1>4. o \in BOOLEAN /\ on \in SUBSET Handles /\ lo \in Seq(Handles)
  <2>1. D.logins \in Seq(Handles) /\ D.online \in SUBSET Handles
    BY <1>2 DEF GameType
  <2> HIDE DEF D
  <2> QED BY <2>1
<1>5. o => D.orderly /\ (p.name[h] = None => h \in ToSet(p.queue))
  OBVIOUS
<1>6. lo = IF h \in game.online THEN D.logins ELSE Append(D.logins, h)
  OBVIOUS
<1>7. on = D.online \cup {h}
  OBVIOUS
<1> HIDE DEF D, p, on, lo, o
<1>8. /\ g \in GameType /\ g.online = on /\ g.logins = lo /\ g.orderly = o
      /\ g.listed = game.listed /\ g.reported = game.reported
  BY <1>2, <1>4 DEF GameType
<1> HIDE DEF g
<1>9. Ordered(p, g)
  <2> SUFFICES ASSUME o PROVE on = ToSet(p.roster) /\ Unnamed(p) = ToSet(p.queue)
                              /\ lo = p.queue /\ \A k \in Handles : p.name[k] \in {k, None}
    BY <1>8 DEF Ordered
  <2>1. /\ game.online = ToSet(Expired.roster) /\ Unnamed(Expired) = ToSet(Expired.queue)
        /\ game.logins = Expired.queue /\ \A k \in Handles : Expired.name[k] \in {k, None}
    BY <1>2, <1>5 DEF Ordered
  <2>2. CASE p.name[h] # None
    <3>1. p = Expired /\ h \in ToSet(Expired.roster)
      BY <1>3, <2>2
    <3> QED BY <1>2, <1>6, <1>7, <2>1, <3>1
  <2>3. CASE p.name[h] = None /\ h \in ToSet(Expired.roster)
    <3>1. h \in Unnamed(Expired)
      BY <1>3, <2>3 DEF Unnamed
    <3>2. p = Expired
      BY <1>3, <1>5, <2>1, <2>3, <3>1
    <3> QED BY <1>2, <1>6, <1>7, <2>1, <2>3, <3>2
  <2>4. CASE p.name[h] = None /\ h \notin ToSet(Expired.roster)
    <3>1. /\ ToSet(p.roster) = ToSet(Expired.roster) \cup {h}
          /\ p.queue = Append(Expired.queue, h)
      BY <1>3, <1>5, <2>4
    <3>2. lo = p.queue /\ on = ToSet(p.roster)
      BY <1>2, <1>6, <1>7, <2>1, <2>4, <3>1
    <3>3. Expired.queue \in Seq(Handles) /\ h \notin ToSet(Expired.queue)
      BY <1>2, <2>4, SoundParts
    <3>4. ToSet(p.queue) = ToSet(Expired.queue) \cup {h}
      BY <3>1, <3>3, AppendNew
    <3>5. Unnamed(p) = Unnamed(Expired) \cup {h}
      BY <1>3, <2>4, <3>1 DEF Unnamed
    <3> QED BY <1>3, <2>1, <3>2, <3>4, <3>5
  <2> QED BY <2>2, <2>3, <2>4
<1>10. 0 \in 0 .. JoinWindow
  BY PresenceAssumption
<1>11. PlayerLine(p, 0, g)
  BY <1>1 DEF p, g, on, lo, o, D
<1> QED BY <1>3, <1>8, <1>9, <1>10, <1>11, PlayerLineInv

LEMMA PlayerNamedInv ==
  ASSUME IInv, NEW n \in Handles, PlayerNamed(n)
  PROVE  IInv'
<1> DEFINE p == AttachName(Expired, n)
           D == Disturbed
           lo == Without(D.logins, {n})
           o == D.orderly /\ game.logins # <<>> /\ n = Head(game.logins)
           g == [D EXCEPT !.logins = lo, !.orderly = o]
<1>1. PlayerLine(p, 0, g)
  BY DEF PlayerNamed
<1>2. D \in GameType /\ (D.orderly => game.orderly /\ Expired = players)
      /\ D.online = game.online /\ D.logins = game.logins
      /\ D.listed = game.listed /\ D.reported = game.reported
      /\ Ordered(Expired, D) /\ Sound(Expired) /\ world \in Games
  BY ExpiredIs DEF IInv
<1>3. /\ Sound(p) /\ p.roster = Expired.roster
      /\ \/ Unnamed(Expired) = {} /\ p.name = Expired.name
         \/ \E h \in Unnamed(Expired) :
              /\ \A k \in Handles : p.name[k] = IF k = h THEN n ELSE Expired.name[k]
              /\ Unnamed(p) = Unnamed(Expired) \ {h}
              /\ Expired.queue # <<>> =>
                   h = Head(Expired.queue) /\ p.queue = Without(Expired.queue, {h})
  BY <1>2, AttachSound
<1>4. o \in BOOLEAN /\ lo \in Seq(Handles)
  <2>1. D.logins \in Seq(Handles)
    BY <1>2 DEF GameType
  <2> HIDE DEF D
  <2>2. lo \in Seq(Handles)
    BY <2>1, WithoutAt
  <2> QED BY <2>2
<1>5. o => D.orderly /\ game.logins # <<>> /\ n = Head(game.logins)
  OBVIOUS
<1>6. lo = Without(D.logins, {n})
  OBVIOUS
<1> HIDE DEF D, p, lo, o
<1>7. /\ g \in GameType /\ g.online = D.online /\ g.logins = lo /\ g.orderly = o
      /\ g.listed = game.listed /\ g.reported = game.reported
  BY <1>2, <1>4 DEF GameType
<1> HIDE DEF g
<1>8. Ordered(p, g)
  <2> SUFFICES ASSUME o PROVE D.online = ToSet(p.roster) /\ Unnamed(p) = ToSet(p.queue)
                              /\ lo = p.queue /\ \A k \in Handles : p.name[k] \in {k, None}
    BY <1>7 DEF Ordered
  <2>1. /\ D.online = ToSet(Expired.roster) /\ Unnamed(Expired) = ToSet(Expired.queue)
        /\ D.logins = Expired.queue /\ \A k \in Handles : Expired.name[k] \in {k, None}
    BY <1>5, <1>2 DEF Ordered
  <2>2. Expired.queue # <<>> /\ n = Head(Expired.queue)
    BY <1>2, <1>5, <2>1
  <2>3. Expired.queue \in Seq(Handles)
    BY <1>2, SoundParts
  <2>4. Unnamed(Expired) # {}
    BY <2>1, <2>2, <2>3, Members
  <2>5. /\ \A k \in Handles : p.name[k] = IF k = n THEN n ELSE Expired.name[k]
        /\ Unnamed(p) = Unnamed(Expired) \ {n}
        /\ p.queue = Without(Expired.queue, {n})
    BY <1>3, <2>2, <2>4
  <2>6. ToSet(p.queue) = ToSet(Expired.queue) \ {n}
    BY <2>3, <2>5, WithoutMembers
  <2>7. lo = p.queue
    BY <1>6, <2>1, <2>5
  <2>8. \A k \in Handles : p.name[k] \in {k, None}
    BY <2>1, <2>5
  <2> QED BY <1>3, <2>1, <2>5, <2>6, <2>7, <2>8
<1>9. 0 \in 0 .. JoinWindow
  BY PresenceAssumption
<1>10. PlayerLine(p, 0, g)
  BY <1>1 DEF p, g, lo, o, D
<1> QED BY <1>3, <1>7, <1>8, <1>9, <1>10, PlayerLineInv

LEMMA PlayerRemovedInv ==
  ASSUME IInv, NEW h \in Handles, PlayerRemoved(h)
  PROVE  IInv'
<1> DEFINE S == {h} \cap ToSet(Expired.roster)
           p == Forget(Expired, S)
           D == Disturbed
           on == D.online \ {h}
           lo == Without(D.logins, {h})
           g == [D EXCEPT !.online = on, !.logins = lo]
<1>1. PlayerLine(p, pending, g)
  BY DEF PlayerRemoved
<1>2. D \in GameType /\ D.listed = game.listed /\ D.reported = game.reported
      /\ Ordered(Expired, D) /\ Sound(Expired) /\ world \in Games
  BY ExpiredIs DEF IInv
<1>3. S \in SUBSET Handles /\ Expired \in PlayersType
  BY <1>2 DEF Sound
<1>4. S = {h} \/ (S = {} /\ h \notin ToSet(Expired.roster))
  <2>1. h \in ToSet(Expired.roster) => S = {h}
    OBVIOUS
  <2>2. h \notin ToSet(Expired.roster) => S = {}
    OBVIOUS
  <2> QED BY <2>1, <2>2
<1> HIDE DEF S
<1>5. /\ Sound(p) /\ ToSet(p.roster) = ToSet(Expired.roster) \ S
      /\ Unnamed(p) = Unnamed(Expired) \ S /\ ToSet(p.queue) = ToSet(Expired.queue) \ S
  BY <1>2, <1>3, ForgetSound
<1>6. /\ p.queue = Without(Expired.queue, S)
      /\ \A k \in Handles : p.name[k] = IF k \in S THEN None ELSE Expired.name[k]
  BY <1>3, ForgetFields
<1>7. on \in SUBSET Handles /\ lo \in Seq(Handles)
  <2>1. D.logins \in Seq(Handles) /\ D.online \in SUBSET Handles
    BY <1>2 DEF GameType
  <2> HIDE DEF D
  <2> QED BY <2>1, WithoutAt
<1>8. on = D.online \ {h} /\ lo = Without(D.logins, {h})
  OBVIOUS
<1> HIDE DEF D, p, on, lo
<1>9. /\ g \in GameType /\ g.online = on /\ g.logins = lo /\ g.orderly = D.orderly
      /\ g.listed = game.listed /\ g.reported = game.reported
  BY <1>2, <1>7 DEF GameType
<1> HIDE DEF g
<1>10. Ordered(p, g)
  <2> SUFFICES ASSUME D.orderly PROVE on = ToSet(p.roster) /\ Unnamed(p) = ToSet(p.queue)
                              /\ lo = p.queue /\ \A k \in Handles : p.name[k] \in {k, None}
    BY <1>9 DEF Ordered
  <2>1. /\ D.online = ToSet(Expired.roster) /\ Unnamed(Expired) = ToSet(Expired.queue)
        /\ D.logins = Expired.queue /\ \A k \in Handles : Expired.name[k] \in {k, None}
    BY <1>2 DEF Ordered
  <2>2. Expired.queue \in Seq(Handles)
        /\ ToSet(Expired.queue) \subseteq ToSet(Expired.roster)
    BY <1>2, SoundParts
  <2>3. lo = p.queue
    <3>1. CASE S = {h}
      BY <1>6, <1>8, <2>1, <3>1
    <3>2. CASE S = {} /\ h \notin ToSet(Expired.roster)
      <4>1. Without(Expired.queue, {}) = Expired.queue
        BY <2>2, WithoutNothing
      <4>2. {h} \cap ToSet(Expired.queue) = {}
        BY <2>2, <3>2
      <4>3. Without(Expired.queue, {h}) = Expired.queue
        BY <2>2, <4>2, WithoutNothing
      <4> QED BY <1>6, <1>8, <2>1, <3>2, <4>1, <4>3
    <3> QED BY <1>4, <3>1, <3>2
  <2>4. on = ToSet(p.roster)
    BY <1>4, <1>5, <1>8, <2>1
  <2> QED BY <1>5, <1>6, <2>1, <2>3, <2>4
<1>11. pending \in 0 .. JoinWindow
  BY DEF IInv, RestOK
<1>12. PlayerLine(p, pending, g)
  BY <1>1 DEF p, g, on, lo, D, S
<1> QED BY <1>5, <1>9, <1>10, <1>11, <1>12, PlayerLineInv

LEMMA SessionLinesInv ==
  ASSUME IInv,
         BlockStarts \/ BadRowListed \/ BlockEnds \/ \E i \in Machines : RowListed(i)
  PROVE  IInv'
<1>1. /\ game \in GameType /\ BlockSound(ExpireSession(block), game)
      /\ activity \in BOOLEAN
  BY ExpiredIs DEF IInv, RestOK
<1> DEFINE c == ExpireSession(block)
<1>2. c.open = block.open
  BY ExpireSessionSound DEF IInv
<1> HIDE DEF c
<1>3. CASE BlockStarts
  <2> DEFINE g == [game EXCEPT !.listed = {}]
  <2>1. SessionLine(StartBlock(c), g) /\ activity' = activity
    BY <1>3 DEF BlockStarts, c
  <2>2. /\ g \in GameType /\ g.online = game.online /\ g.logins = game.logins
        /\ g.orderly = game.orderly
    BY <1>1, NoRows DEF GameType
  <2>3. BlockSound(StartBlock(c), g)
    BY <1>1, StartBlockSound DEF c
  <2> HIDE DEF g
  <2> QED BY <1>1, <2>1, <2>2, <2>3, SessionLineInv
<1>4. CASE BadRowListed
  <2>1. SessionLine(BadRow(c), game) /\ activity' = activity
    BY <1>4 DEF BadRowListed, c
  <2>2. BlockSound(BadRow(c), game)
    BY <1>1, BadRowSound DEF c
  <2> QED BY <1>1, <2>1, <2>2, SessionLineInv
<1>5. CASE BlockEnds
  <2> DEFINE r == [game EXCEPT !.reported = game.listed]
             g == IF block.open THEN r ELSE game
             a == activity \/ (block.open /\ HasRemote(block.rows))
  <2>1. SessionLine(CloseBlock(c), g) /\ activity' = a
    BY <1>5 DEF BlockEnds, c
  <2>2. a \in BOOLEAN
    OBVIOUS
  <2>3. game.listed \in SUBSET Machines
    BY <1>1 DEF GameType
  <2>4. /\ r \in GameType /\ r.online = game.online /\ r.logins = game.logins
        /\ r.orderly = game.orderly
    BY <1>1, <2>3 DEF GameType
  <2>5. BlockSound(CloseBlock(c), g)
    BY <1>1, <1>2, CloseBlockSound DEF c
  <2> HIDE DEF r, a
  <2>6. g \in {r, game}
    OBVIOUS
  <2> HIDE DEF g
  <2> QED BY <1>1, <2>1, <2>2, <2>4, <2>5, <2>6, SessionLineInv
<1>6. ASSUME NEW i \in Machines, RowListed(i)
      PROVE  IInv'
  <2> DEFINE g == [game EXCEPT !.listed = @ \cup {i}]
  <2>1. SessionLine(MachineRow(c, i), g) /\ activity' = activity
    BY <1>6 DEF RowListed, c
  <2>2. game.listed \cup {i} \in SUBSET Machines
    BY <1>1 DEF GameType
  <2>3. /\ g \in GameType /\ g.online = game.online /\ g.logins = game.logins
        /\ g.orderly = game.orderly
    BY <1>1, <2>2 DEF GameType
  <2>4. BlockSound(MachineRow(c, i), g)
    BY <1>1, MachineRowSound DEF c
  <2> HIDE DEF g
  <2> QED BY <1>1, <2>1, <2>3, <2>4, SessionLineInv
<1> QED BY <1>3, <1>4, <1>5, <1>6

LEMMA QuietLinesInv ==
  ASSUME IInv, (\E n \in Handles : EntityRemoved(n)) \/ JoinAnnounced \/ RunMarker \/ Expire
  PROVE  IInv'
<1>1. /\ Sound(Expired) /\ Disturbed \in GameType /\ Ordered(Expired, Disturbed)
      /\ Disturbed.listed = game.listed /\ Disturbed.reported = game.reported
      /\ BlockSound(ExpireSession(block), Disturbed)
  BY ExpiredIs
<1>2. /\ Noted(Disturbed) \in GameType /\ Ordered(Expired, Noted(Disturbed))
      /\ BlockSound(ExpireSession(block), Noted(Disturbed))
  BY <1>1, NotedSound
<1>3. pending \in 0 .. JoinWindow /\ JoinWindow \in 0 .. JoinWindow
  BY PresenceAssumption DEF IInv, RestOK
<1>4. ASSUME NEW n \in Handles, EntityRemoved(n)
      PROVE  IInv'
  <2> DEFINE p == MarkLeaving(Expired, n)
  <2>1. PlayerLine(p, pending, Disturbed)
    BY <1>4 DEF EntityRemoved
  <2>2. Sound(p) /\ p.roster = Expired.roster /\ p.name = Expired.name
        /\ p.queue = Expired.queue
    BY <1>1, MarkLeavingSound
  <2> HIDE DEF p
  <2>3. Ordered(p, Disturbed)
    BY <1>1, <2>2 DEF Ordered, Unnamed
  <2> QED BY <1>1, <1>3, <2>1, <2>2, <2>3, PlayerLineInv
<1>5. CASE JoinAnnounced
  <2>1. PlayerLine(Expired, JoinWindow, Disturbed)
    BY <1>5 DEF JoinAnnounced
  <2> QED BY <1>1, <1>3, <2>1, PlayerLineInv
<1>6. CASE RunMarker
  <2>1. RestOK'
    BY <1>6 DEF RunMarker, RestOK, IInv
  <2>2. /\ players' = Expired /\ block' = ExpireSession(block) /\ game' = Noted(Disturbed)
        /\ world' = world
    BY <1>6 DEF RunMarker
  <2> QED BY <1>1, <1>2, <2>1, <2>2, NextInv
<1>7. CASE Expire
  <2>1. RestOK'
    BY <1>7 DEF Expire, RestOK, IInv
  <2>2. /\ players' = Expired /\ block' = ExpireSession(block) /\ game' = Noted(Disturbed)
        /\ world' = world
    BY <1>7 DEF Expire
  <2> QED BY <1>1, <1>2, <2>1, <2>2, NextInv
<1> QED BY <1>4, <1>5, <1>6, <1>7

\* reset() leaves an empty roster and no block.
LEMMA ResetIs ==
  ASSUME IInv, Reset
  PROVE  /\ Sound(players') /\ players'.roster = <<>> /\ ~players'.degraded
         /\ block' \in BlockType /\ ~block'.open /\ block'.rows = {}
         /\ block'.machines = {} /\ ~block'.complete
<1>1. Sound(players) /\ world \in Games /\ players' = Forget(players, Handles)
  BY DEF IInv, Reset
<1>2. Handles \in SUBSET Handles /\ players \in PlayersType
      /\ ToSet(players.roster) \subseteq Handles
  BY <1>1, SoundParts DEF Sound
<1>3. /\ Sound(players') /\ ToSet(players'.roster) = ToSet(players.roster) \ Handles
      /\ players'.degraded = (players.degraded /\ Handles = {})
  BY <1>1, <1>2, ForgetSound, ForgetFields
<1>4. players'.roster = <<>>
  <2>1. ToSet(players'.roster) = {} /\ players'.roster \in Seq(Handles)
    BY <1>2, <1>3, SoundParts
  <2> QED BY <2>1, Members
<1>5. ~players'.degraded
  <2> SUFFICES ASSUME players'.degraded PROVE FALSE
    OBVIOUS
  <2>1. Len(players'.roster) = MAX_HANDLES
    BY <1>3 DEF Sound
  <2> QED BY <1>1, <1>4, <2>1, Caps
<1>6. block \in BlockType
  BY DEF IInv, BlockSound
<1>7. /\ block' \in BlockType /\ block'.open = FALSE /\ block'.rows = {}
      /\ block'.machines = {} /\ block'.complete = FALSE
  BY <1>6, NoRows DEF BlockType, Reset
<1> QED BY <1>3, <1>4, <1>5, <1>7

\* Time moves nothing but the ages.
LEMMA TickIs ==
  ASSUME IInv, Tick
  PROVE  /\ Sound(players') /\ players'.roster = players.roster
         /\ players'.name = players.name /\ players'.queue = players.queue
         /\ players'.degraded = players.degraded
         /\ block' \in BlockType
         /\ block'.open = block.open /\ block'.rows = block.rows /\ block'.bad = block.bad
         /\ block'.machines = block.machines /\ block'.complete = block.complete
         /\ block'.malformed = block.malformed
         /\ block.complete /\ block'.old <= BlockTimeout => block.old <= BlockTimeout
         /\ pending' \in 0 .. JoinWindow /\ (pending' > 0 => pending > 0)
<1>1. Sound(players) /\ block \in BlockType /\ pending \in 0 .. JoinWindow
  BY DEF IInv, BlockSound, RestOK
<1>2. Grace \in Nat \ {0} /\ JoinWindow \in Nat \ {0} /\ BlockTimeout \in Nat \ {0}
  BY PresenceAssumption
<1>3. \A limit \in Nat : \A a \in 0 .. limit : Older(a, limit) \in 0 .. limit /\ Older(a, limit) >= a
  BY DEF Older
<1> DEFINE ag == [h \in Handles |-> IF h \in Unnamed(players)
                                    THEN Older(players.age[h], Grace) ELSE 0]
           ba == IF block.open THEN Older(block.age, BlockTimeout) ELSE 0
           bo == IF block.complete THEN Older(block.old, BlockTimeout + 1) ELSE 0
<1>4. ag \in [Handles -> 0 .. Grace]
  <2>1. players.age \in [Handles -> 0 .. Grace]
    BY <1>1, SoundParts
  <2>2. 0 \in 0 .. Grace /\ Grace \in Nat
    BY <1>2
  <2>3. \A h \in Handles : Older(players.age[h], Grace) \in 0 .. Grace
    BY <1>3, <2>1, <2>2
  <2> QED BY <2>2, <2>3
<1>5. /\ block.age \in 0 .. BlockTimeout /\ block.old \in 0 .. BlockTimeout + 1
      /\ block.open \in BOOLEAN /\ block.complete \in BOOLEAN
  BY <1>1 DEF BlockType
<1>6. ba \in 0 .. BlockTimeout
  <2>1. Older(block.age, BlockTimeout) \in 0 .. BlockTimeout
    BY <1>2, <1>3, <1>5
  <2> QED BY <1>2, <2>1
<1>7. /\ bo \in 0 .. BlockTimeout + 1
      /\ block.complete => bo >= block.old
  <2>1. BlockTimeout + 1 \in Nat
    BY <1>2
  <2>2. /\ Older(block.old, BlockTimeout + 1) \in 0 .. BlockTimeout + 1
        /\ Older(block.old, BlockTimeout + 1) >= block.old
    BY <1>3, <1>5, <2>1
  <2>3. 0 \in 0 .. BlockTimeout + 1
    BY <1>2
  <2> QED BY <2>2, <2>3
<1>8. players' = [players EXCEPT !.age = ag]
  <2>1. players \in PlayersType
    BY <1>1 DEF Sound
  <2> QED BY <2>1 DEF Tick, PlayersType
<1>9. block' = [block EXCEPT !.age = ba, !.old = bo]
  BY DEF Tick
<1> HIDE DEF ag, ba, bo
<1>10. /\ players' \in PlayersType /\ players'.roster = players.roster
       /\ players'.name = players.name /\ players'.queue = players.queue
       /\ players'.warned = players.warned /\ players'.degraded = players.degraded
  <2>1. players \in PlayersType
    BY <1>1 DEF Sound
  <2> QED BY <1>4, <1>8, <2>1 DEF PlayersType
<1>11. /\ block' \in BlockType
       /\ block'.open = block.open /\ block'.rows = block.rows /\ block'.bad = block.bad
       /\ block'.machines = block.machines /\ block'.complete = block.complete
       /\ block'.malformed = block.malformed /\ block'.old = bo
  BY <1>1, <1>6, <1>7, <1>9 DEF BlockType
<1>12. Sound(players')
  BY <1>1, <1>10 DEF Sound, Unnamed
<1>13. block.complete /\ block'.old <= BlockTimeout => block.old <= BlockTimeout
  <2>1. bo \in Int /\ block.old \in Int /\ BlockTimeout \in Int
    BY <1>2, <1>5, <1>7
  <2> QED BY <1>7, <1>11, <2>1
<1>14. pending' \in 0 .. JoinWindow /\ (pending' > 0 => pending > 0)
  <2>1. pending' = IF pending > 0 THEN pending - 1 ELSE 0
    BY DEF Tick
  <2> QED BY <1>1, <1>2, <2>1
<1> QED BY <1>10, <1>11, <1>12, <1>13, <1>14

LEMMA NextSound == IInv /\ [Next]_vars => IInv'
<1> SUFFICES ASSUME IInv, [Next]_vars PROVE IInv'
  OBVIOUS
<1>1. /\ world \in Games /\ RestOK /\ Sound(players) /\ game \in GameType
      /\ BlockSound(block, game) /\ Ordered(players, game)
  BY DEF IInv
<1>2. ASSUME Line PROVE IInv'
  <2>1. ASSUME NEW h \in world.handles,
               PlayerAdded(h) \/ PlayerNamed(h) \/ EntityRemoved(h) \/ PlayerRemoved(h)
        PROVE  IInv'
    <3>1. h \in Handles
      BY <2>1, GameHandles
    <3> QED BY <2>1, <3>1, PlayerAddedInv, PlayerNamedInv, PlayerRemovedInv, QuietLinesInv
  <2>2. CASE JoinAnnounced \/ RunMarker
    BY <2>2, QuietLinesInv
  <2>3. CASE BlockStarts \/ BadRowListed \/ BlockEnds \/ \E i \in Machines : RowListed(i)
    BY <2>3, SessionLinesInv
  <2> QED BY <1>2, <2>1, <2>2, <2>3 DEF Line
<1>3. CASE Expire
  BY <1>3, QuietLinesInv
<1>4. CASE Reset
  <2> DEFINE g == [game EXCEPT !.orderly = FALSE]
  <2>1. g \in GameType /\ g.orderly = FALSE
    BY <1>1 DEF GameType
  <2>2. game' = Noted(g) /\ world' = world
    BY <1>4 DEF Reset
  <2>3. RestOK'
    <3>1. 0 \in 0 .. JoinWindow
      BY PresenceAssumption
    <3> QED BY <1>1, <1>4, <3>1 DEF Reset, RestOK
  <2> HIDE DEF g
  <2>4. /\ Sound(players') /\ block' \in BlockType /\ ~block'.open /\ block'.rows = {}
        /\ ~block'.complete
    BY <1>4, ResetIs
  <2>5. Ordered(players', g) /\ BlockSound(block', g)
    BY <2>1, <2>4, NoRows DEF Ordered, BlockSound
  <2>6. Noted(g) \in GameType /\ Ordered(players', Noted(g)) /\ BlockSound(block', Noted(g))
    BY <2>1, <2>5, NotedSound
  <2> QED BY <2>2, <2>3, <2>4, <2>6, NextInv
<1>5. CASE Record
  <2>1. RestOK'
    BY <1>1, <1>5 DEF Record, RestOK
  <2> QED BY <1>1, <1>5, <2>1, NextInv DEF Record
<1>6. CASE StreamEnds
  <2>1. RestOK'
    BY <1>1, <1>6 DEF StreamEnds, RestOK
  <2> QED BY <1>1, <1>6, <2>1, NextInv DEF StreamEnds
<1>7. CASE Tick
  <2>1. /\ Sound(players') /\ players'.roster = players.roster
        /\ players'.name = players.name /\ players'.queue = players.queue
        /\ block' \in BlockType
        /\ block'.open = block.open /\ block'.rows = block.rows /\ block'.bad = block.bad
        /\ block'.machines = block.machines /\ block'.complete = block.complete
        /\ block'.malformed = block.malformed
        /\ pending' \in 0 .. JoinWindow
    BY <1>7, TickIs
  <2>2. RestOK' /\ game' = game /\ world' = world
    BY <1>1, <1>7, <2>1 DEF Tick, RestOK
  <2>3. Ordered(players', game)
    BY <1>1, <2>1 DEF Ordered, Unnamed
  <2>4. BlockSound(block', game)
    BY <1>1, <2>1 DEF BlockSound
  <2> QED BY <1>1, <2>1, <2>2, <2>3, <2>4, NextInv
<1>8. CASE UNCHANGED vars
  <2>1. RestOK'
    BY <1>1, <1>8 DEF vars, RestOK
  <2> QED BY <1>1, <1>8, <2>1, NextInv DEF vars
<1> QED BY <1>2, <1>3, <1>4, <1>5, <1>6, <1>7, <1>8 DEF Next

-----------------------------------------------------------------------------
(* The evidence the controller reads. *)

Present == players.roster # <<>> \/ pending > 0 \/ HasRemote(block.machines)
Clear == /\ block.complete /\ ~block.malformed /\ block.old <= BlockTimeout
         /\ block.machines = {0}

\* A full roster is evidence of a player.
FullMeansPresent == players.degraded => Present

LEMMA FullIsPresent == IInv => FullMeansPresent
<1> SUFFICES ASSUME IInv, players.degraded PROVE Present
  BY DEF FullMeansPresent
<1>1. Sound(players) /\ world \in Games
  BY DEF IInv
<1>2. Len(players.roster) = MAX_HANDLES /\ MAX_HANDLES \in Nat \ {0}
  BY <1>1, Caps DEF Sound
<1>3. players.roster # <<>>
  BY <1>2
<1> QED BY <1>3 DEF Present

LEMMA FullStaysPresent == IInv' => (players'.degraded => Present')
<1>1. IInv' => FullMeansPresent'
  BY FullIsPresent, PTL
<1> QED BY <1>1 DEF FullMeansPresent

LEMMA InitEvidence == Init => Seen!EvidenceInit
<1> SUFFICES ASSUME Init PROVE Seen!EvidenceInit
  OBVIOUS
<1>1. /\ ready = FALSE /\ stream = TRUE /\ activity = FALSE /\ pending = 0
      /\ players.roster = <<>> /\ players.degraded = FALSE
      /\ block.machines = {} /\ block.complete = FALSE
  BY DEF Init
<1>2. ~(players.roster # <<>> \/ pending > 0 \/ HasRemote(block.machines))
  BY <1>1 DEF HasRemote
<1> QED BY <1>1, <1>2 DEF Seen!EvidenceInit

\* A line that is activity: anything but a clear session may follow.
LEMMA ActivitySeen ==
  ASSUME IInv', stream, stream' = stream, activity' = TRUE, ready' \in {ready, TRUE},
         Clear' => Clear
  PROVE  Seen!EvidenceMoves
<1>1. players'.degraded \in BOOLEAN
  <2>1. Sound(players)'
    BY DEF IInv
  <2> QED BY <2>1 DEF Sound, PlayersType
<1>2. players'.degraded => Present'
  BY FullStaysPresent
<1>3. Seen!ActivityLine
  BY <1>1 DEF Seen!ActivityLine, Seen!Wanes, Clear
<1> QED BY <1>2, <1>3 DEF Seen!EvidenceMoves, Present

\* A step that leaves every bit as it is, or clears it.
LEMMA ExpirySeen ==
  ASSUME IInv', players'.degraded => players.degraded, Present' => Present, Clear' => Clear,
         ready' = ready, stream' = stream, activity' = activity
  PROVE  Seen!EvidenceMoves
<1>1. players'.degraded \in {players.degraded, FALSE}
  <2>1. Sound(players)'
    BY DEF IInv
  <2>2. players'.degraded \in BOOLEAN
    BY <2>1 DEF Sound, PlayersType
  <2>3. CASE players'.degraded = FALSE
    BY <2>3
  <2>4. CASE players'.degraded = TRUE
    BY <2>4
  <2> QED BY <2>2, <2>3, <2>4
<1>2. players'.degraded => Present'
  BY FullStaysPresent
<1>3. Seen!Expiry
  BY <1>1 DEF Seen!Expiry, Seen!Wanes, Clear, Present
<1> QED BY <1>2, <1>3 DEF Seen!EvidenceMoves, Present

\* What expires takes evidence away and adds none.
LEMMA ExpiredWanes ==
  ASSUME IInv
  PROVE  /\ Expired.degraded => players.degraded
         /\ players.roster = <<>> => Expired.roster = <<>>
<1>1. Sound(players) /\ world \in Games
  BY DEF IInv
<1>2. /\ Sound(Expired) /\ ToSet(Expired.roster) \subseteq ToSet(players.roster)
      /\ Expired.degraded => players.degraded
  BY <1>1, ExpiredSound DEF Expired
<1>3. players.roster \in Seq(Handles) /\ Expired.roster \in Seq(Handles)
  BY <1>1, <1>2, SoundParts
<1>4. players.roster = <<>> => ToSet(players.roster) = {}
  BY <1>3, Members
<1>5. ToSet(Expired.roster) = {} => Expired.roster = <<>>
  BY <1>3, Members
<1> QED BY <1>2, <1>4, <1>5

LEMMA PlayerLineSeen ==
  ASSUME IInv, IInv', NEW p, NEW join, NEW g, PlayerLine(p, join, g)
  PROVE  Seen!EvidenceMoves
<1>1. /\ stream /\ stream' = stream /\ activity' = TRUE /\ ready' = ready
      /\ block' = ExpireSession(block)
  BY DEF PlayerLine
<1>2. Clear' => Clear
  BY <1>1, ExpireSessionSound DEF Clear, IInv
<1> QED BY <1>1, <1>2, ActivitySeen

\* A line of a block that leaves the last complete one alone, and Expire().
LEMMA QuietSeen ==
  ASSUME IInv, IInv', players' = Expired, NEW c, block' = c,
         c.machines = block.machines, c.complete = block.complete, c.old = block.old,
         block.malformed => c.malformed,
         UNCHANGED <<pending, ready, stream, activity>>
  PROVE  Seen!EvidenceMoves
<1>1. Clear' => Clear
  BY DEF Clear
<1>2. Present' => Present
  BY ExpiredWanes DEF Present
<1>3. players'.degraded => players.degraded
  BY ExpiredWanes
<1> QED BY <1>1, <1>2, <1>3, ExpirySeen

LEMMA BlockEndsSeen ==
  ASSUME IInv, IInv', BlockEnds
  PROVE  Seen!EvidenceMoves
<1> DEFINE c == ExpireSession(block)
           b == CloseBlock(c)
<1>1. /\ BlockSound(c, game) /\ game \in GameType /\ activity \in BOOLEAN
      /\ c.open = block.open /\ c.rows = block.rows /\ c.machines = block.machines
      /\ c.complete = block.complete /\ c.old = block.old /\ (block.malformed => c.malformed)
  BY ExpireSessionSound DEF IInv, RestOK
<1> HIDE DEF c
<1>2. IF c.open THEN b.machines = c.rows ELSE b = c
  BY <1>1, CloseBlockSound
<1>3. /\ stream /\ players' = Expired /\ block' = b /\ UNCHANGED <<pending, ready, stream>>
      /\ activity' = (activity \/ (block.open /\ HasRemote(block.rows)))
  BY DEF BlockEnds, SessionLine, c
<1> HIDE DEF b
<1>4. CASE ~block.open
  <2>1. activity' = activity
    BY <1>1, <1>3, <1>4
  <2> QED BY <1>1, <1>2, <1>3, <1>4, <2>1, QuietSeen
<1>5. CASE block.open /\ HasRemote(block.rows)
  <2>1. block'.machines = block.rows
    BY <1>1, <1>2, <1>3, <1>5
  <2>2. block.rows # {0}
    BY <1>5 DEF HasRemote
  <2>3. ~Clear'
    BY <2>1, <2>2 DEF Clear
  <2>4. activity' = TRUE
    BY <1>3, <1>5
  <2> QED BY <1>3, <2>3, <2>4, ActivitySeen
<1>6. CASE block.open /\ ~HasRemote(block.rows)
  <2>1. block'.machines = block.rows
    BY <1>1, <1>2, <1>3, <1>6
  <2>2. activity' = activity
    BY <1>1, <1>3, <1>6
  <2>3. Present' => Present
    BY <1>3, <1>6, <2>1, ExpiredWanes DEF Present
  <2>4. players'.degraded => players.degraded
    BY <1>3, ExpiredWanes
  <2>5. CASE ~Clear'
    BY <1>3, <2>2, <2>3, <2>4, <2>5, ExpirySeen
  <2>6. CASE Clear'
    <3>1. players'.degraded \in {players.degraded, FALSE}
      <4>1. Sound(players)'
        BY DEF IInv
      <4>2. players'.degraded \in BOOLEAN
        BY <4>1 DEF Sound, PlayersType
      <4>3. CASE players'.degraded = FALSE
        BY <4>3
      <4>4. CASE players'.degraded = TRUE
        <5>1. players.degraded
          BY <2>4, <4>4
        <5>2. players.degraded \in BOOLEAN
          BY SoundParts DEF IInv
        <5> QED BY <4>4, <5>1, <5>2
      <4> QED BY <4>2, <4>3, <4>4
    <3>2. Seen!ClearSession
      BY <1>3, <2>2, <2>3, <2>6, <3>1 DEF Seen!ClearSession, Seen!Wanes, Clear, Present
    <3> QED BY <3>2, FullStaysPresent DEF Seen!EvidenceMoves, Present
  <2> QED BY <2>5, <2>6
<1> QED BY <1>4, <1>5, <1>6

LEMMA LineSeen ==
  ASSUME IInv, IInv', Line
  PROVE  Seen!EvidenceMoves
<1>1. ASSUME NEW h \in world.handles,
             PlayerAdded(h) \/ PlayerNamed(h) \/ EntityRemoved(h) \/ PlayerRemoved(h)
      PROVE  Seen!EvidenceMoves
  BY <1>1, PlayerLineSeen DEF PlayerAdded, PlayerNamed, EntityRemoved, PlayerRemoved
<1>2. CASE JoinAnnounced
  BY <1>2, PlayerLineSeen DEF JoinAnnounced
<1>3. CASE RunMarker
  <2>1. /\ stream /\ stream' = stream /\ activity' = TRUE /\ ready' = TRUE
        /\ block' = ExpireSession(block)
    BY <1>3 DEF RunMarker
  <2>2. Clear' => Clear
    BY <2>1, ExpireSessionSound DEF Clear, IInv
  <2> QED BY <2>1, <2>2, ActivitySeen
<1> DEFINE c == ExpireSession(block)
<1>4. /\ BlockSound(c, game) /\ game \in GameType
      /\ c.machines = block.machines /\ c.complete = block.complete
      /\ c.old = block.old /\ (block.malformed => c.malformed)
  BY ExpireSessionSound DEF IInv
<1>5. CASE BlockStarts
  <2>1. /\ players' = Expired /\ block' = StartBlock(c)
        /\ UNCHANGED <<pending, ready, stream, activity>>
    BY <1>5 DEF BlockStarts, SessionLine
  <2> HIDE DEF c
  <2> DEFINE b == StartBlock(c)
  <2>2. /\ b.machines = c.machines /\ b.complete = c.complete /\ b.old = c.old
        /\ (c.malformed => b.malformed)
    BY <1>4, StartBlockSound
  <2> HIDE DEF b
  <2> QED BY <1>4, <2>1, <2>2, QuietSeen DEF b
<1>6. CASE BadRowListed
  <2>1. /\ players' = Expired /\ block' = BadRow(c)
        /\ UNCHANGED <<pending, ready, stream, activity>>
    BY <1>6 DEF BadRowListed, SessionLine
  <2> HIDE DEF c
  <2> DEFINE b == BadRow(c)
  <2>2. /\ b.machines = c.machines /\ b.complete = c.complete /\ b.old = c.old
        /\ b.malformed = c.malformed
    BY <1>4, BadRowSound
  <2> HIDE DEF b
  <2> QED BY <1>4, <2>1, <2>2, QuietSeen DEF b
<1>7. CASE BlockEnds
  BY <1>7, BlockEndsSeen
<1>8. ASSUME NEW i \in Machines, RowListed(i)
      PROVE  Seen!EvidenceMoves
  <2>1. /\ players' = Expired /\ block' = MachineRow(c, i)
        /\ UNCHANGED <<pending, ready, stream, activity>>
    BY <1>8 DEF RowListed, SessionLine
  <2> HIDE DEF c
  <2> DEFINE b == MachineRow(c, i)
  <2>2. /\ b.machines = c.machines /\ b.complete = c.complete /\ b.old = c.old
        /\ b.malformed = c.malformed
    BY <1>4, MachineRowSound
  <2> HIDE DEF b
  <2> QED BY <1>4, <2>1, <2>2, QuietSeen DEF b
<1> QED BY <1>1, <1>2, <1>3, <1>5, <1>6, <1>7, <1>8 DEF Line

Evidenced == Seen!EvidenceMoves \/ Seen!ForgetEvidence \/ Seen!RecordGeneration

LEMMA StepSeen == IInv /\ IInv' /\ [Next]_vars => [Evidenced]_(Seen!evidence)
<1> SUFFICES ASSUME IInv, IInv', [Next]_vars PROVE [Evidenced]_(Seen!evidence)
  OBVIOUS
<1>1. CASE Line
  BY <1>1, LineSeen DEF Evidenced
<1>2. CASE Expire
  <2> DEFINE c == ExpireSession(block)
  <2>1. /\ c.machines = block.machines /\ c.complete = block.complete
        /\ c.old = block.old /\ (block.malformed => c.malformed)
    BY ExpireSessionSound DEF IInv
  <2>2. players' = Expired /\ block' = c /\ UNCHANGED <<pending, ready, stream, activity>>
    BY <1>2 DEF Expire
  <2> HIDE DEF c
  <2> QED BY <2>1, <2>2, QuietSeen DEF Evidenced
<1>3. CASE Reset
  <2>1. /\ players'.roster = <<>> /\ ~players'.degraded
        /\ block'.machines = {} /\ ~block'.complete
    BY <1>3, ResetIs
  <2>2. players'.degraded = FALSE
    <3>1. Sound(players)'
      BY DEF IInv
    <3>2. players'.degraded \in BOOLEAN
      BY <3>1 DEF Sound, PlayersType
    <3> QED BY <2>1, <3>2
  <2>3. UNCHANGED <<ready, stream, activity>> /\ pending' = 0
    BY <1>3 DEF Reset
  <2>4. ~(players'.roster # <<>> \/ pending' > 0 \/ HasRemote(block'.machines))
    BY <2>1, <2>3 DEF HasRemote
  <2>5. Seen!ForgetEvidence
    BY <2>1, <2>2, <2>3, <2>4 DEF Seen!ForgetEvidence
  <2> QED BY <2>5 DEF Evidenced
<1>4. CASE Record
  BY <1>4 DEF Record, Evidenced, Seen!RecordGeneration
<1>5. CASE StreamEnds
  <2>1. Seen!StreamEnds
    BY <1>5 DEF StreamEnds, Seen!StreamEnds
  <2>2. Present' = Present /\ players' = players
    BY <1>5 DEF StreamEnds, Present
  <2> QED BY <2>1, FullStaysPresent DEF Evidenced, Seen!EvidenceMoves, Present
<1>6. CASE Tick
  <2>1. /\ players'.roster = players.roster /\ players'.degraded = players.degraded
        /\ block'.machines = block.machines /\ block'.complete = block.complete
        /\ block'.malformed = block.malformed
        /\ block.complete /\ block'.old <= BlockTimeout => block.old <= BlockTimeout
        /\ (pending' > 0 => pending > 0)
    BY <1>6, TickIs
  <2>2. UNCHANGED <<ready, stream, activity>>
    BY <1>6 DEF Tick
  <2>3. Clear' => Clear
    BY <2>1 DEF Clear
  <2>4. Present' => Present
    BY <2>1 DEF Present
  <2> QED BY <2>1, <2>2, <2>3, <2>4, ExpirySeen DEF Evidenced
<1>7. CASE UNCHANGED vars
  BY <1>7 DEF vars, Seen!evidence
<1> QED BY <1>1, <1>2, <1>3, <1>4, <1>5, <1>6, <1>7 DEF Next

-----------------------------------------------------------------------------
(* Who is named stays named. *)

LEMMA KeepsAll ==
  ASSUME NEW p, NEW q, NEW r, Keeps(p, q), Keeps(q, r)
  PROVE  Keeps(p, r)
<1> SUFFICES ASSUME NEW h \in ToSet(p.roster) \ Unnamed(p)
             PROVE  h \in ToSet(r.roster) /\ r.name[h] = p.name[h]
  BY DEF Keeps
<1>1. h \in ToSet(q.roster) /\ q.name[h] = p.name[h]
  BY DEF Keeps
<1>2. p.name[h] # None
  BY DEF Unnamed
<1>3. h \notin Unnamed(q)
  BY <1>1, <1>2 DEF Unnamed
<1> QED BY <1>1, <1>3 DEF Keeps

LEMMA LineKeeps ==
  ASSUME IInv, NEW h \in Handles, PlayerAdded(h) \/ PlayerNamed(h) \/ EntityRemoved(h)
  PROVE  Keeps(players, players')
<1>1. Sound(Expired) /\ Keeps(players, Expired) /\ world \in Games
  BY ExpiredIs DEF IInv
<1>2. ToSet(Expired.roster) \subseteq Handles
  BY <1>1, SoundParts
<1>3. CASE PlayerAdded(h)
  <2> DEFINE p == AddHandle(Expired, h)
  <2>1. p.name = Expired.name /\ ToSet(Expired.roster) \subseteq ToSet(p.roster)
    BY <1>1, AddSound
  <2>2. players' = p
    BY <1>3 DEF PlayerAdded, PlayerLine
  <2> HIDE DEF p
  <2>3. Keeps(Expired, p)
    BY <2>1 DEF Keeps
  <2> QED BY <1>1, <2>2, <2>3, KeepsAll
<1>4. CASE PlayerNamed(h)
  <2> DEFINE p == AttachName(Expired, h)
  <2>1. /\ p.roster = Expired.roster
        /\ \/ p.name = Expired.name
           \/ \E g \in Unnamed(Expired) :
                \A k \in Handles : p.name[k] = IF k = g THEN h ELSE Expired.name[k]
    <3>1. /\ p.roster = Expired.roster
          /\ \/ Unnamed(Expired) = {} /\ p.name = Expired.name
             \/ \E g \in Unnamed(Expired) :
                  /\ \A k \in Handles : p.name[k] = IF k = g THEN h ELSE Expired.name[k]
                  /\ Unnamed(p) = Unnamed(Expired) \ {g}
                  /\ Expired.queue # <<>> =>
                       g = Head(Expired.queue) /\ p.queue = Without(Expired.queue, {g})
      BY <1>1, AttachSound
    <3> HIDE DEF p
    <3> QED BY <3>1
  <2>2. players' = p
    BY <1>4 DEF PlayerNamed, PlayerLine
  <2> HIDE DEF p
  <2>3. Keeps(Expired, p)
    BY <1>2, <2>1 DEF Keeps
  <2> QED BY <1>1, <2>2, <2>3, KeepsAll
<1>5. CASE EntityRemoved(h)
  <2> DEFINE p == MarkLeaving(Expired, h)
  <2>1. p.roster = Expired.roster /\ p.name = Expired.name
    BY <1>1, MarkLeavingSound
  <2>2. players' = p
    BY <1>5 DEF EntityRemoved, PlayerLine
  <2> HIDE DEF p
  <2>3. Keeps(Expired, p)
    BY <2>1 DEF Keeps
  <2> QED BY <1>1, <2>2, <2>3, KeepsAll
<1> QED BY <1>3, <1>4, <1>5

\* A removal touches nobody else.
LEMMA RemovalKeeps ==
  ASSUME IInv, NEW h \in Handles, PlayerRemoved(h),
         NEW k \in ToSet(players.roster) \ Unnamed(players), k # h
  PROVE  k \in ToSet(players'.roster) /\ players'.name[k] = players.name[k]
<1> DEFINE S == {h} \cap ToSet(Expired.roster)
           p == Forget(Expired, S)
<1>1. Sound(Expired) /\ Keeps(players, Expired) /\ world \in Games
  BY ExpiredIs DEF IInv
<1>2. S \in SUBSET Handles /\ k \notin S /\ Expired \in PlayersType
  BY <1>1 DEF Sound
<1>3. players' = p
  BY DEF PlayerRemoved, PlayerLine
<1> HIDE DEF S
<1>4. /\ ToSet(p.roster) = ToSet(Expired.roster) \ S
      /\ \A j \in Handles : p.name[j] = IF j \in S THEN None ELSE Expired.name[j]
  BY <1>1, <1>2, ForgetSound, ForgetFields
<1>5. k \in Handles
  BY SoundParts DEF IInv
<1> HIDE DEF p
<1> QED BY <1>1, <1>2, <1>3, <1>4, <1>5 DEF Keeps

NamedStep ==
  \A h \in ToSet(players.roster) \ Unnamed(players) :
    \/ h \in ToSet(players'.roster) /\ players'.name[h] = players.name[h]
    \/ PlayerRemoved(h) \/ Reset

LEMMA StepKeeps == IInv /\ [Next]_vars => [NamedStep]_vars
<1> SUFFICES ASSUME IInv, [Next]_vars PROVE NamedStep
  OBVIOUS
<1>1. Keeps(players, players') => NamedStep
  BY DEF Keeps, NamedStep
<1>2. Keeps(players, Expired)
  BY ExpiredIs
<1>3. players' = Expired => NamedStep
  BY <1>1, <1>2
<1>4. players' = players => NamedStep
  BY DEF NamedStep
<1>5. ASSUME Line PROVE NamedStep
  <2>1. ASSUME NEW h \in world.handles,
               PlayerAdded(h) \/ PlayerNamed(h) \/ EntityRemoved(h) \/ PlayerRemoved(h)
        PROVE  NamedStep
    <3>1. h \in Handles
      BY <2>1, GameHandles
    <3>2. CASE PlayerAdded(h) \/ PlayerNamed(h) \/ EntityRemoved(h)
      BY <1>1, <3>1, <3>2, LineKeeps
    <3>3. CASE PlayerRemoved(h)
      <4> SUFFICES ASSUME NEW k \in ToSet(players.roster) \ Unnamed(players), k # h
                   PROVE  k \in ToSet(players'.roster) /\ players'.name[k] = players.name[k]
        BY <3>3 DEF NamedStep
      <4> QED BY <3>1, <3>3, RemovalKeeps
    <3> QED BY <2>1, <3>2, <3>3
  <2>2. CASE JoinAnnounced \/ RunMarker
    BY <1>3, <2>2 DEF JoinAnnounced, RunMarker, PlayerLine
  <2>3. CASE BlockStarts \/ BadRowListed \/ BlockEnds \/ \E i \in Machines : RowListed(i)
    BY <1>3, <2>3 DEF BlockStarts, BadRowListed, BlockEnds, RowListed, SessionLine
  <2> QED BY <1>5, <2>1, <2>2, <2>3 DEF Line
<1>6. CASE Expire
  BY <1>3, <1>6 DEF Expire
<1>7. CASE Reset
  BY <1>7 DEF NamedStep
<1>8. CASE Record \/ StreamEnds
  BY <1>4, <1>8 DEF Record, StreamEnds
<1>9. CASE Tick
  <2>1. players'.roster = players.roster /\ players'.name = players.name
    BY <1>9, TickIs
  <2> QED BY <2>1 DEF NamedStep
<1>10. CASE UNCHANGED vars
  BY <1>4, <1>10 DEF vars
<1> QED BY <1>5, <1>6, <1>7, <1>8, <1>9, <1>10 DEF Next

-----------------------------------------------------------------------------
(* The theorems. *)

\* The inductive invariant holds of every behaviour.
THEOREM PresenceInvariant == Spec => []IInv
<1> QED BY InitSound, NextSound, PTL DEF Spec

\* Every variable keeps its type: every handle, machine, age and flag that
\* observe(), expire() and reset() store is one of its kind.
THEOREM PresenceTypeCorrect == Spec => []TypeOK
<1>1. IInv => TypeOK
  BY DEF IInv, Sound, BlockSound, RestOK, TypeOK
<1> QED BY <1>1, PresenceInvariant, PTL

\* The caps hold: no handle is in the roster twice, and neither the roster nor
\* the rows of a Session block grow beyond their caps, whatever the game prints.
THEOREM PresenceCapped == Spec => []Capped
<1>1. IInv => Capped
  BY DEF IInv, Sound, BlockSound, Capped
<1> QED BY <1>1, PresenceInvariant, PTL

\* Who waits for a name is in the roster, unnamed and queued once, within the
\* cap; a warning is kept for nobody else, and a degraded tracker has a full
\* roster.
THEOREM PairingIsSound == Spec => []PairingSound
<1>1. IInv => PairingSound
  BY DEF IInv, Sound, PairingSound
<1> QED BY <1>1, PresenceInvariant, PTL

\* While the game keeps the order of its logins, every name is attached to its
\* own handle, for any number of players, repeats, leaves and returns.
THEOREM NamesAreFollowed == Spec => []NamesFollowLogins
<1>1. IInv => NamesFollowLogins
  <2> SUFFICES ASSUME IInv, game.orderly
               PROVE  /\ \A h \in ToSet(players.roster) : players.name[h] \in {h, None}
                      /\ players.queue = game.logins
    BY DEF NamesFollowLogins
  <2>1. ToSet(players.roster) \subseteq Handles
    BY SoundParts DEF IInv
  <2> QED BY <2>1 DEF IInv, Ordered
<1> QED BY <1>1, PresenceInvariant, PTL

\* A block that is not malformed reports exactly the machines that the game
\* listed in it, for any number of machines and any cap.
THEOREM SessionIsWhole == Spec => []SessionHidesNobody
<1>1. IInv => SessionHidesNobody
  BY DEF IInv, BlockSound, SessionHidesNobody
<1> QED BY <1>1, PresenceInvariant, PTL

\* A named player keeps his place and his name until his own removal line or a
\* reset.
THEOREM NamesAreKept == Spec => NamedStay
<1>1. IInv /\ [Next]_vars => [\A h \in ToSet(players.roster) \ Unnamed(players) :
         \/ h \in ToSet(players'.roster) /\ players'.name[h] = players.name[h]
         \/ PlayerRemoved(h) \/ Reset]_vars
  BY StepKeeps DEF NamedStep
<1> QED BY <1>1, PresenceInvariant, PTL DEF Spec, NamedStay

\* The tracker implements Evidence, which is what AutoPause is checked and
\* proved against: every line, expiry and reset is one of its steps.
THEOREM PresenceImplementsEvidence == Spec => ImplementsEvidence
<1>1. IInv /\ IInv' /\ [Next]_vars =>
        [Seen!EvidenceMoves \/ Seen!ForgetEvidence \/ Seen!RecordGeneration]_(Seen!evidence)
  BY StepSeen DEF Evidenced
<1> QED BY <1>1, InitEvidence, PresenceInvariant, PTL
        DEF Spec, ImplementsEvidence, Seen!EvidenceSpec
=============================================================================
