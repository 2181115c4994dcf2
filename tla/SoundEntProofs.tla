--------------------------- MODULE SoundEntProofs ---------------------------
(***************************************************************************)
(* The lists of the world's sounds for every size of the pool and every    *)
(* number of clients and monsters: every walk over them ends, no sound is  *)
(* in two lists, and only reserved ones are ever lost.                     *)
(***************************************************************************)
EXTENDS SoundEnt, FiniteSetTheorems, WellFoundedInduction, TLAPS

(* Induction and recursion over the natural numbers, stated of sets. *)

LEMMA Least ==
  ASSUME NEW X \in SUBSET Nat, X # {}
  PROVE  \E n \in X : \A k \in X : n <= k
<1> DEFINE R == {p \in Nat \X Nat : p[1] < p[2]}
<1>1. IsWellFoundedOn(OpToRel(<, Nat), Nat)
  BY NatLessThanWellFounded, Zenon
<1>2. OpToRel(<, Nat) = R
  BY DEF OpToRel
<1>3. IsWellFoundedOn(R, Nat)
  BY <1>1, <1>2
<1> HIDE DEF R
<1>4. PICK n \in X : \A k \in X : <<k, n>> \notin R
  BY <1>3, WFMin
<1>5. \A k \in X : ~(k < n)
  BY <1>4 DEF R
<1> QED BY <1>5

LEMMA Induction ==
  ASSUME NEW X \in SUBSET Nat, 0 \in X, \A n \in X : n + 1 \in X
  PROVE  X = Nat
<1> SUFFICES ASSUME Nat \ X # {} PROVE FALSE
  OBVIOUS
<1>1. PICK n \in Nat \ X : \A k \in Nat \ X : n <= k
  BY Least
<1>2. n # 0 /\ n - 1 \in Nat
  BY <1>1
<1>3. n - 1 \in X
  BY <1>1, <1>2
<1> QED BY <1>1, <1>2, <1>3

\* g lists what n steps from x come to.
Run(T, x, step, n, g) ==
    /\ g \in [0 .. n -> T]
    /\ g[0] = x
    /\ \A k \in 1 .. n : g[k] = step[g[k - 1]]

\* A function can be applied any number of times.
LEMMA Iterates ==
  ASSUME NEW T, NEW x \in T, NEW step \in [T -> T], NEW N \in Nat
  PROVE  \E g : Run(T, x, step, N, g)
<1> DEFINE X == {n \in Nat : \E g : Run(T, x, step, n, g)}
<1>1. 0 \in X
  <2>1. Run(T, x, step, 0, [k \in 0 .. 0 |-> x])
    BY DEF Run
  <2> QED BY <2>1
<1>2. ASSUME NEW n \in X PROVE n + 1 \in X
  <2>1. PICK g : Run(T, x, step, n, g)
    OBVIOUS
  <2> DEFINE h == [k \in 0 .. n + 1 |-> IF k = n + 1 THEN step[g[n]] ELSE g[k]]
  <2>2. h \in [0 .. n + 1 -> T]
    BY <2>1 DEF Run
  <2>3. h[0] = x
    BY <2>1 DEF Run
  <2>4. ASSUME NEW k \in 1 .. n + 1 PROVE h[k] = step[h[k - 1]]
    <3>1. CASE k = n + 1
      BY <3>1
    <3>2. CASE k # n + 1
      BY <2>1, <3>2 DEF Run
    <3> QED BY <3>1, <3>2
  <2>5. Run(T, x, step, n + 1, h)
    <3> HIDE DEF h
    <3> QED BY <2>2, <2>3, <2>4 DEF Run
  <2> QED BY <2>5
<1> HIDE DEF X
<1>3. X = Nat
  <2>1. X \subseteq Nat
    BY DEF X
  <2> QED BY <1>1, <1>2, <2>1, Induction
<1> QED BY <1>3 DEF X

-----------------------------------------------------------------------------
(* Walks. *)

LEMMA PoolTypes ==
  /\ MAX_WORLD_SOUNDS \in Nat /\ MAX_WORLD_SOUNDS > 0
  /\ Pool \subseteq Nat /\ SOUNDLIST_EMPTY \notin Pool /\ Clients \subseteq Pool
  /\ Pool \subseteq Link /\ SOUNDLIST_EMPTY \in Link
BY PoolAssumption DEF Pool, SOUNDLIST_EMPTY, Clients, Link

LEMMA LinksFollow ==
  ASSUME NEW next \in [Pool -> Link], NEW head \in Link
  PROVE  /\ Links(next, head) \in [0 .. MAX_WORLD_SOUNDS -> Link]
         /\ Links(next, head)[0] = head
         /\ \A k \in 1 .. MAX_WORLD_SOUNDS :
              Links(next, head)[k] = IF Links(next, head)[k - 1] = SOUNDLIST_EMPTY
                                     THEN SOUNDLIST_EMPTY ELSE next[Links(next, head)[k - 1]]
<1> DEFINE N == MAX_WORLD_SOUNDS
           P(f) == f = [k \in 0 .. N |-> IF k = 0 THEN head
                                         ELSE IF f[k - 1] = SOUNDLIST_EMPTY THEN f[k - 1]
                                         ELSE next[f[k - 1]]]
           step == [s \in Link |-> IF s = SOUNDLIST_EMPTY THEN s ELSE next[s]]
<1>1. N \in Nat /\ step \in [Link -> Link]
  BY PoolTypes DEF Link
<1>2. PICK g : Run(Link, head, step, N, g)
  <2> HIDE DEF step, N, P
  <2> QED BY <1>1, Iterates, Zenon
<1>3. P(g)
  <2>1. \A k \in 0 .. N : k # 0 => k - 1 \in 0 .. N /\ k \in 1 .. N
    BY <1>1
  <2> QED BY <1>2, <2>1 DEF Run
<1>4. Links(next, head) = CHOOSE f : P(f)
  BY DEF Links
<1> HIDE DEF P
<1>5. P(Links(next, head))
  BY <1>3, <1>4
<1> DEFINE l == Links(next, head)
<1>6. l = [k \in 0 .. N |-> IF k = 0 THEN head
                            ELSE IF l[k - 1] = SOUNDLIST_EMPTY THEN l[k - 1]
                            ELSE next[l[k - 1]]]
  BY <1>5 DEF P
<1> HIDE DEF l
<1>7. l[0] = head /\ \A k \in 1 .. N : l[k] = IF l[k - 1] = SOUNDLIST_EMPTY
                                              THEN SOUNDLIST_EMPTY ELSE next[l[k - 1]]
  <2>1. 0 \in 0 .. N /\ \A k \in 1 .. N : k \in 0 .. N /\ k # 0
    BY <1>1
  <2> QED BY <1>6, <2>1
<1>8. l \in [0 .. N -> Link]
  <2> DEFINE X == {k \in Nat : k \in 0 .. N => l[k] \in Link}
  <2>1. 0 \in X
    BY <1>7
  <2>2. ASSUME NEW k \in X PROVE k + 1 \in X
    <3> SUFFICES ASSUME k + 1 \in 0 .. N PROVE l[k + 1] \in Link
      OBVIOUS
    <3>1. k \in 0 .. N /\ k + 1 \in 1 .. N /\ (k + 1) - 1 = k
      BY <1>1
    <3>2. l[k] \in Link
      BY <3>1
    <3> QED BY <1>7, <3>1, <3>2 DEF Link
  <2> HIDE DEF X
  <2>3. X = Nat
    <3>1. X \subseteq Nat
      BY DEF X
    <3> QED BY <2>1, <2>2, <3>1, Induction
  <2>4. \A k \in 0 .. N : l[k] \in Link
    BY <1>1, <2>3 DEF X
  <2> QED BY <1>6, <2>4
<1> QED BY <1>7, <1>8 DEF l

\* next leads through R, and up by the ranks q.
Climbs(next, R, q) ==
    /\ R \subseteq Pool
    /\ q \in [Pool -> Int]
    /\ \A s \in R : \/ next[s] = SOUNDLIST_EMPTY
                    \/ next[s] \in R /\ q[s] < q[next[s]]

\* A walk along links that lead up never comes to a sound again.
LEMMA WalkClimbs ==
  ASSUME NEW next \in [Pool -> Link], NEW R, NEW q, Climbs(next, R, q),
         NEW head \in R \cup {SOUNDLIST_EMPTY},
         NEW j \in 0 .. MAX_WORLD_SOUNDS, NEW k \in 0 .. MAX_WORLD_SOUNDS, j < k,
         Links(next, head)[k] # SOUNDLIST_EMPTY
  PROVE  /\ Links(next, head)[j] \in R /\ Links(next, head)[k] \in R
         /\ q[Links(next, head)[j]] < q[Links(next, head)[k]]
<1> DEFINE l == Links(next, head)
           N == MAX_WORLD_SOUNDS
           Y == {i \in Nat : i \in 0 .. N => l[i] \in R \cup {SOUNDLIST_EMPTY}}
           X == {i \in Nat : j + i + 1 \in 0 .. N /\ l[j + i + 1] # SOUNDLIST_EMPTY
                               => l[j] \in R /\ q[l[j]] < q[l[j + i + 1]]}
<1>1. head \in Link /\ N \in Nat /\ SOUNDLIST_EMPTY \notin R
  BY PoolTypes DEF Climbs
<1>2. /\ l[0] = head
      /\ \A i \in 1 .. N : l[i] = IF l[i - 1] = SOUNDLIST_EMPTY
                                  THEN SOUNDLIST_EMPTY ELSE next[l[i - 1]]
  BY <1>1, LinksFollow
<1> HIDE DEF l, N
<1>3. \A i \in Nat : i + 1 \in 0 .. N =>
        i \in 0 .. N /\ l[i + 1] = IF l[i] = SOUNDLIST_EMPTY THEN SOUNDLIST_EMPTY ELSE next[l[i]]
  <2> SUFFICES ASSUME NEW i \in Nat, i + 1 \in 0 .. N
               PROVE  i \in 0 .. N /\ l[i + 1] = IF l[i] = SOUNDLIST_EMPTY
                                                 THEN SOUNDLIST_EMPTY ELSE next[l[i]]
    OBVIOUS
  <2>1. i \in 0 .. N /\ i + 1 \in 1 .. N /\ (i + 1) - 1 = i
    BY <1>1
  <2> QED BY <1>2, <2>1
<1>4. \A i \in 0 .. N : l[i] \in R \cup {SOUNDLIST_EMPTY}
  <2>1. 0 \in Y
    BY <1>2
  <2>2. ASSUME NEW i \in Y PROVE i + 1 \in Y
    <3> SUFFICES ASSUME i + 1 \in 0 .. N PROVE l[i + 1] \in R \cup {SOUNDLIST_EMPTY}
      OBVIOUS
    <3>1. i \in 0 .. N /\ l[i] \in R \cup {SOUNDLIST_EMPTY}
      BY <1>3
    <3> QED BY <1>3, <3>1 DEF Climbs
  <2>3. Y \subseteq Nat
    OBVIOUS
  <2> HIDE DEF Y
  <2>4. Y = Nat
    BY <2>1, <2>2, <2>3, Induction
  <2> QED BY <1>1, <2>4 DEF Y
<1>5. ASSUME NEW i \in Nat, i + 1 \in 0 .. N, l[i + 1] # SOUNDLIST_EMPTY
      PROVE  l[i] \in R /\ l[i + 1] \in R /\ q[l[i]] < q[l[i + 1]]
  <2>1. i \in 0 .. N /\ l[i] # SOUNDLIST_EMPTY /\ l[i + 1] = next[l[i]]
    BY <1>3, <1>5
  <2> QED BY <1>4, <1>5, <2>1 DEF Climbs
<1>6. X = Nat
  <2>1. 0 \in X
    BY <1>5
  <2>2. ASSUME NEW i \in X PROVE i + 1 \in X
    <3> SUFFICES ASSUME j + (i + 1) + 1 \in 0 .. N, l[j + (i + 1) + 1] # SOUNDLIST_EMPTY
                 PROVE  l[j] \in R /\ q[l[j]] < q[l[j + (i + 1) + 1]]
      OBVIOUS
    <3> DEFINE b == j + i + 1
    <3>1. b \in Nat /\ b \in 0 .. N /\ b + 1 = j + (i + 1) + 1
      BY <1>1
    <3>2. l[b] \in R /\ l[b + 1] \in R /\ q[l[b]] < q[l[b + 1]]
      BY <1>5, <3>1
    <3>3. l[j] \in R /\ q[l[j]] < q[l[b]]
      BY <1>1, <3>1, <3>2
    <3>4. q[l[j]] \in Int /\ q[l[b]] \in Int /\ q[l[b + 1]] \in Int
      BY <3>2, <3>3 DEF Climbs
    <3> HIDE DEF b
    <3> QED BY <3>1, <3>2, <3>3, <3>4
  <2>3. X \subseteq Nat
    OBVIOUS
  <2> HIDE DEF X
  <2> QED BY <2>1, <2>2, <2>3, Induction
<1>7. k - j - 1 \in Nat /\ j + (k - j - 1) + 1 = k
  OBVIOUS
<1>8. l[j] \in R /\ q[l[j]] < q[l[k]]
  <2>1. l[k] # SOUNDLIST_EMPTY /\ k \in 0 .. N
    BY DEF l, N
  <2> QED BY <1>6, <1>7, <2>1
<1>9. l[k] \in R
  <2>1. l[k] # SOUNDLIST_EMPTY /\ k \in 0 .. N
    BY DEF l, N
  <2> QED BY <1>4, <2>1
<1> QED BY <1>8, <1>9 DEF l

\* So it ends before it has made as many steps as there are sounds.
LEMMA WalkEnds ==
  ASSUME NEW next \in [Pool -> Link], NEW R, NEW q, Climbs(next, R, q),
         NEW head \in R \cup {SOUNDLIST_EMPTY}
  PROVE  Ends(next, head)
<1> DEFINE l == Links(next, head)
           N == MAX_WORLD_SOUNDS
<1> SUFFICES ASSUME l[N] # SOUNDLIST_EMPTY PROVE FALSE
  BY DEF Ends
<1>1. head \in Link /\ N \in Nat
  BY PoolTypes DEF Climbs
<1>2. \A k \in 0 .. N : l[k] \in R
  <2>1. 0 \in 0 .. N /\ N \in 0 .. N /\ 0 < N
    BY PoolTypes
  <2>2. l[N] \in R
    BY <2>1, WalkClimbs
  <2>3. ASSUME NEW k \in 0 .. N, k # N PROVE l[k] \in R
    <3>1. k < N
      BY <1>1, <2>3
    <3> QED BY <2>1, <3>1, WalkClimbs
  <2> QED BY <2>2, <2>3
<1>3. l \in [0 .. N -> Pool]
  <2>1. l \in [0 .. N -> Link]
    BY <1>1, LinksFollow
  <2> HIDE DEF l, N
  <2> QED BY <1>2, <2>1 DEF Climbs
<1>4. ASSUME NEW j \in 0 .. N, NEW k \in 0 .. N, j < k PROVE l[j] # l[k]
  <2>1. l[k] # SOUNDLIST_EMPTY
    BY <1>2, PoolTypes DEF Climbs
  <2>2. q[l[j]] < q[l[k]]
    BY <1>4, <2>1, WalkClimbs
  <2>3. q[l[j]] \in Int /\ q[l[k]] \in Int
    BY <1>2 DEF Climbs
  <2> HIDE DEF l
  <2> QED BY <2>2, <2>3
<1> HIDE DEF l
<1>5. IsFiniteSet(Pool) /\ Cardinality(Pool) = N
  <2>1. Pool = 0 .. N - 1
    BY DEF Pool
  <2>2. N - 1 \in Int
    BY <1>1
  <2> QED BY <1>1, <2>1, <2>2, FS_Interval
<1>6. IsFiniteSet(0 .. N) /\ Cardinality(0 .. N) = N + 1
  <2>1. 0 \in Int /\ N \in Int /\ ~(0 > N) /\ N - 0 + 1 = N + 1
    BY <1>1
  <2> HIDE DEF N
  <2> QED BY <2>1, FS_Interval
<1>7. PICK j \in 0 .. N, k \in 0 .. N : j # k /\ l[j] = l[k]
  <2>1. Cardinality(Pool) < Cardinality(0 .. N)
    BY <1>1, <1>5, <1>6
  <2> DEFINE S == 0 .. N
  <2>2. l \in [S -> Pool] /\ IsFiniteSet(S) /\ Cardinality(Pool) < Cardinality(S)
    BY <1>3, <1>6, <2>1
  <2> HIDE DEF S
  <2>3. \E j, k \in S : j # k /\ l[j] = l[k]
    BY <1>5, <2>2, FS_PigeonHole
  <2> QED BY <2>3 DEF S
<1> QED BY <1>1, <1>4, <1>7

-----------------------------------------------------------------------------
(* Lists. *)

\* From head and through next come the sounds A, in the order of the ranks r.
List(next, head, A, r) ==
    /\ A \subseteq Pool
    /\ r \in [Pool -> Int]
    /\ \A s, t \in A : r[s] = r[t] => s = t
    /\ IF A = {} THEN head = SOUNDLIST_EMPTY
       ELSE head \in A /\ \A s \in A : r[head] <= r[s]
    /\ \A s \in A : IF \A t \in A : r[t] <= r[s] THEN next[s] = SOUNDLIST_EMPTY
                    ELSE /\ next[s] \in A /\ r[s] < r[next[s]]
                         /\ \A t \in A : r[s] < r[t] => r[next[s]] <= r[t]

LEMMA ListClimbs ==
  ASSUME NEW next, NEW head, NEW A, NEW r, List(next, head, A, r)
  PROVE  Climbs(next, A, r) /\ head \in A \cup {SOUNDLIST_EMPTY}
BY DEF List, Climbs

\* A walk over a list ends and visits its sounds.
LEMMA ListWalk ==
  ASSUME NEW next \in [Pool -> Link], NEW head, NEW A, NEW r, List(next, head, A, r)
  PROVE  Ends(next, head) /\ Walk(next, head) = A
<1> DEFINE l == Links(next, head)
           N == MAX_WORLD_SOUNDS
<1>1. /\ Climbs(next, A, r) /\ head \in A \cup {SOUNDLIST_EMPTY}
      /\ head \in Link /\ N \in Nat /\ 0 < N
  BY ListClimbs, PoolTypes DEF Climbs, Link
<1>2. Ends(next, head)
  BY <1>1, WalkEnds
<1>3. l[N] = SOUNDLIST_EMPTY
  BY <1>2 DEF Ends
<1>4. /\ l[0] = head
      /\ \A k \in 1 .. N : l[k] = IF l[k - 1] = SOUNDLIST_EMPTY
                                  THEN SOUNDLIST_EMPTY ELSE next[l[k - 1]]
  BY <1>1, LinksFollow
<1>5. \A k \in 0 .. N - 1 : l[k] \in A \cup {SOUNDLIST_EMPTY}
  <2> SUFFICES ASSUME NEW k \in 0 .. N - 1, l[k] # SOUNDLIST_EMPTY PROVE l[k] \in A
    OBVIOUS
  <2>1. CASE k = 0
    BY <1>1, <1>4, <2>1
  <2>2. CASE k # 0
    <3>1. k \in 0 .. N /\ 0 \in 0 .. N /\ 0 < k
      BY <1>1, <2>2
    <3> QED BY <1>1, <3>1, WalkClimbs
  <2> QED BY <2>1, <2>2
<1>6. ASSUME NEW s \in A PROVE \E k \in 0 .. N - 1 : l[k] = s
  <2> SUFFICES ASSUME \A k \in 0 .. N - 1 : l[k] # s PROVE FALSE
    OBVIOUS
  <2> DEFINE X == {k \in Nat : k \in 0 .. N => l[k] \in A /\ r[l[k]] < r[s]}
  <2>1. \A k \in 0 .. N : l[k] # s
    <3>1. \A k \in 0 .. N : k \in 0 .. N - 1 \/ k = N
      BY <1>1
    <3>2. s # SOUNDLIST_EMPTY
      BY PoolTypes DEF List
    <3> HIDE DEF l
    <3> QED BY <1>3, <3>1, <3>2
  <2> HIDE DEF l, N
  <2>2. 0 \in X
    <3>1. l[0] # s
      BY <1>1, <2>1
    <3> QED BY <1>4, <3>1 DEF List
  <2>3. ASSUME NEW k \in X PROVE k + 1 \in X
    <3> SUFFICES ASSUME k + 1 \in 0 .. N PROVE l[k + 1] \in A /\ r[l[k + 1]] < r[s]
      OBVIOUS
    <3>1. k \in 0 .. N /\ k + 1 \in 1 .. N /\ (k + 1) - 1 = k
      BY <1>1
    <3>2. l[k] \in A /\ r[l[k]] < r[s]
      BY <3>1
    <3>3. l[k] # SOUNDLIST_EMPTY
      BY <3>2, PoolTypes DEF List
    <3>4. l[k + 1] = next[l[k]]
      BY <1>4, <3>1, <3>3
    <3>5. r[s] \in Int /\ r[l[k]] \in Int
      BY <3>2 DEF List
    <3>6. next[l[k]] \in A /\ r[next[l[k]]] <= r[s]
      BY <3>2, <3>5 DEF List
    <3>7. l[k + 1] # s /\ r[next[l[k]]] \in Int
      BY <2>1, <3>1, <3>6 DEF List
    <3> QED BY <3>4, <3>5, <3>6, <3>7 DEF List
  <2>4. X \subseteq Nat
    OBVIOUS
  <2> HIDE DEF X
  <2>5. X = Nat
    BY <2>2, <2>3, <2>4, Induction
  <2>6. l[N] \in A
    BY <1>1, <2>5 DEF X
  <2> QED BY <1>3, <2>6, PoolTypes DEF List
<1>7. Walk(next, head) = {l[k] : k \in 0 .. N - 1} \ {SOUNDLIST_EMPTY}
  BY DEF Walk
<1>8. SOUNDLIST_EMPTY \notin A
  BY PoolTypes DEF List
<1> HIDE DEF l, N
<1> QED BY <1>2, <1>5, <1>6, <1>7, <1>8

\* A list is what its own links and ranks make it.
LEMMA ListFrame ==
  ASSUME NEW next, NEW head, NEW A, NEW r, List(next, head, A, r),
         NEW next2, NEW r2 \in [Pool -> Int],
         \A t \in A : next2[t] = next[t] /\ r2[t] = r[t]
  PROVE  List(next2, head, A, r2)
BY DEF List

\* A sound put on top of a list.
LEMMA ListPush ==
  ASSUME NEW next, NEW head, NEW A, NEW r, List(next, head, A, r),
         NEW s \in Pool \ A, NEW next2, NEW r2 \in [Pool -> Int],
         next2[s] = head,
         \A t \in A : next2[t] = next[t] /\ r2[t] = r[t] /\ r2[s] < r2[t]
  PROVE  List(next2, s, A \cup {s}, r2)
<1> DEFINE B == A \cup {s}
<1>1. B \subseteq Pool /\ \A t \in B : r2[t] \in Int
  BY DEF List
<1>2. \A t, u \in B : r2[t] = r2[u] => t = u
  <2>1. \A t, u \in A : r2[t] = r2[u] => t = u
    BY DEF List
  <2> QED BY <1>1, <2>1
<1>3. s \in B /\ \A t \in B : r2[s] <= r2[t]
  BY <1>1
<1>4. ASSUME NEW t \in B
      PROVE  IF \A u \in B : r2[u] <= r2[t] THEN next2[t] = SOUNDLIST_EMPTY
             ELSE /\ next2[t] \in B /\ r2[t] < r2[next2[t]]
                  /\ \A u \in B : r2[t] < r2[u] => r2[next2[t]] <= r2[u]
  <2>1. CASE t = s /\ A = {}
    BY <2>1, <1>1 DEF List
  <2>2. CASE t = s /\ A # {}
    <3>1. head \in A /\ \A u \in A : r2[head] <= r2[u]
      BY <2>2 DEF List
    <3> QED BY <1>1, <2>2, <3>1
  <2>3. CASE t # s
    <3>1. t \in A /\ next2[t] = next[t] /\ r2[s] < r2[t]
      BY <2>3
    <3>2. IF \A u \in A : r2[u] <= r2[t] THEN next[t] = SOUNDLIST_EMPTY
          ELSE /\ next[t] \in A /\ r2[t] < r2[next[t]]
               /\ \A u \in A : r2[t] < r2[u] => r2[next[t]] <= r2[u]
      BY <3>1 DEF List
    <3> QED BY <1>1, <3>1, <3>2
  <2> QED BY <2>1, <2>2, <2>3
<1> HIDE DEF B
<1>5. B # {}
  BY <1>3
<1>6. List(next2, s, B, r2)
  BY <1>1, <1>2, <1>3, <1>4, <1>5 DEF List
<1> QED BY <1>6 DEF B

\* next2 and first are next and head with s, the one after previous, unlinked.
Unlinked(next, head, A, r, s, previous, next2, first, r2) ==
    /\ s \in A
    /\ \/ previous = SOUNDLIST_EMPTY /\ s = head
       \/ previous \in A /\ next[previous] = s
    /\ previous \in A => next2[previous] = next[s]
    /\ r2 \in [Pool -> Int]
    /\ \A t \in A \ {s} : r2[t] = r[t] /\ (t # previous => next2[t] = next[t])
    /\ first = IF previous = SOUNDLIST_EMPTY THEN next[s] ELSE head

\* A sound taken out of a list, given the one before it.
LEMMA ListUnlink ==
  ASSUME NEW next, NEW head, NEW A, NEW r, List(next, head, A, r),
         NEW s, NEW previous, NEW next2, NEW first, NEW r2,
         Unlinked(next, head, A, r, s, previous, next2, first, r2)
  PROVE  List(next2, first, A \ {s}, r2)
<1> DEFINE B == A \ {s}
<1> USE DEF Unlinked
<1>1. /\ \A t \in A : t \in Pool /\ r[t] \in Int /\ t # SOUNDLIST_EMPTY
      /\ \A t, u \in A : r[t] = r[u] => t = u
      /\ head \in A /\ \A t \in A : r[head] <= r[t]
  BY PoolTypes DEF List
<1>2. ASSUME NEW t \in A
      PROVE  IF \A u \in A : r[u] <= r[t] THEN next[t] = SOUNDLIST_EMPTY
             ELSE /\ next[t] \in A /\ r[t] < r[next[t]]
                  /\ \A u \in A : r[t] < r[u] => r[next[t]] <= r[u]
  BY DEF List
<1>3. \A t \in A : r[t] < r[s] => t = previous \/ (next[t] \in B /\ r[next[t]] < r[s])
  <2> SUFFICES ASSUME NEW t \in A, r[t] < r[s], t # previous
               PROVE  next[t] \in B /\ r[next[t]] < r[s]
    OBVIOUS
  <2>1. /\ next[t] \in A /\ r[t] < r[next[t]]
        /\ \A u \in A : r[t] < r[u] => r[next[t]] <= r[u]
    BY <1>1, <1>2
  <2>2. previous \in A /\ next[previous] = s
    BY <1>1
  <2>3. r[previous] < r[s] /\ \A u \in A : r[previous] < r[u] => r[s] <= r[u]
    BY <1>1, <1>2, <2>2
  <2>4. r[t] # r[previous] /\ ~(r[previous] < r[t])
    BY <1>1, <2>2, <2>3
  <2>5. r[next[t]] <= r[previous]
    BY <1>1, <2>1, <2>2, <2>4
  <2> QED BY <1>1, <2>1, <2>2, <2>3, <2>5
<1>4. IF B = {} THEN first = SOUNDLIST_EMPTY
      ELSE first \in B /\ \A t \in B : r2[first] <= r2[t]
  <2>1. CASE previous = SOUNDLIST_EMPTY
    <3>1. s = head /\ first = next[s]
      BY <1>1, <2>1
    <3>2. CASE B = {}
      <4>1. \A u \in A : r[u] <= r[s]
        BY <1>1, <3>2
      <4> QED BY <1>2, <3>1, <3>2, <4>1
    <3>3. CASE B # {}
      <4>1. PICK t \in B : TRUE
        BY <3>3
      <4>2. r[s] < r[t]
        BY <1>1, <3>1
      <4>3. /\ next[s] \in A /\ r[s] < r[next[s]]
            /\ \A u \in A : r[s] < r[u] => r[next[s]] <= r[u]
        BY <1>1, <1>2, <4>2
      <4>4. next[s] \in B
        BY <1>1, <4>3
      <4>5. \A u \in B : r[s] < r[u]
        BY <1>1, <3>1
      <4> QED BY <3>1, <3>3, <4>3, <4>4, <4>5
    <3> QED BY <3>2, <3>3
  <2>2. CASE previous # SOUNDLIST_EMPTY
    <3>1. previous \in A /\ next[previous] = s /\ first = head
      BY <2>2
    <3>2. r[previous] < r[s]
      BY <1>1, <1>2, <3>1
    <3>3. head # s
      BY <1>1, <3>1, <3>2
    <3> QED BY <1>1, <3>1, <3>3
  <2> QED BY <2>1, <2>2
<1>5. ASSUME NEW t \in B
      PROVE  IF \A u \in B : r[u] <= r[t] THEN next2[t] = SOUNDLIST_EMPTY
             ELSE /\ next2[t] \in B /\ r[t] < r[next2[t]]
                  /\ \A u \in B : r[t] < r[u] => r[next2[t]] <= r[u]
  <2>1. CASE t = previous
    <3>1. next[t] = s /\ next2[t] = next[s] /\ t \in A
      BY <1>1, <2>1
    <3>2. r[t] < r[s] /\ \A u \in A : r[t] < r[u] => r[s] <= r[u]
      BY <1>1, <1>2, <3>1
    <3>3. \A u \in B : r[u] <= r[t] <=> r[u] <= r[s]
      BY <1>1, <3>1, <3>2
    <3>4. CASE \A u \in B : r[u] <= r[t]
      <4>1. \A u \in A : r[u] <= r[s]
        BY <1>1, <3>3, <3>4
      <4> QED BY <1>2, <3>1, <3>4, <4>1
    <3>5. CASE ~(\A u \in B : r[u] <= r[t])
      <4>1. ~(\A u \in A : r[u] <= r[s])
        BY <1>1, <3>3, <3>5
      <4>2. /\ next[s] \in A /\ r[s] < r[next[s]]
            /\ \A u \in A : r[s] < r[u] => r[next[s]] <= r[u]
        BY <1>2, <4>1
      <4>3. next[s] \in B
        BY <1>1, <4>2
      <4>4. r[t] < r[next[s]]
        BY <1>1, <3>1, <3>2, <4>2
      <4>5. \A u \in B : r[t] < r[u] => r[s] < r[u]
        BY <1>1, <3>1, <3>3
      <4> QED BY <3>1, <3>5, <4>2, <4>3, <4>4, <4>5
    <3> QED BY <3>4, <3>5
  <2>2. CASE t # previous
    <3>1. next2[t] = next[t] /\ t \in A
      BY <2>2
    <3>2. CASE r[t] < r[s]
      <4>1. next[t] \in B /\ r[next[t]] < r[s]
        BY <1>3, <2>2, <3>1, <3>2
      <4>2. /\ r[t] < r[next[t]] /\ \A u \in A : r[t] < r[u] => r[next[t]] <= r[u]
        BY <1>1, <1>2, <3>1, <3>2
      <4>3. ~(\A u \in B : r[u] <= r[t])
        BY <1>1, <3>1, <4>1, <4>2
      <4> QED BY <3>1, <4>1, <4>2, <4>3
    <3>3. CASE ~(r[t] < r[s])
      <4>1. r[s] < r[t]
        BY <1>1, <3>1, <3>3
      <4>2. (\A u \in A : r[u] <= r[t]) <=> (\A u \in B : r[u] <= r[t])
        BY <1>1, <3>1, <4>1
      <4>3. \A u \in A : r[t] < r[u] => u # s
        BY <1>1, <3>1, <4>1
      <4>4. IF \A u \in A : r[u] <= r[t] THEN next[t] = SOUNDLIST_EMPTY
            ELSE /\ next[t] \in A /\ r[t] < r[next[t]]
                 /\ \A u \in A : r[t] < r[u] => r[next[t]] <= r[u]
        BY <1>2, <3>1
      <4> QED BY <3>1, <4>2, <4>3, <4>4
    <3> QED BY <3>2, <3>3
  <2> QED BY <2>1, <2>2
<1>6. \A t \in B : r2[t] = r[t] /\ t \in A
  OBVIOUS
<1>7. \A t \in B : IF \A u \in B : r2[u] <= r2[t] THEN next2[t] = SOUNDLIST_EMPTY
                   ELSE /\ next2[t] \in B /\ r2[t] < r2[next2[t]]
                        /\ \A u \in B : r2[t] < r2[u] => r2[next2[t]] <= r2[u]
  BY <1>5, <1>6
<1>8. B \subseteq Pool /\ \A t, u \in B : r2[t] = r2[u] => t = u
  BY <1>1, <1>6
<1>9. r2 \in [Pool -> Int]
  OBVIOUS
<1> HIDE DEF B, Unlinked
<1>10. List(next2, first, B, r2)
  BY <1>4, <1>7, <1>8, <1>9 DEF List
<1> QED BY <1>10 DEF B

\* next2 is next with the link after c cut, and B what that leaves of A.
Cut(next, A, r, c, next2, B) ==
    /\ c \in Pool
    /\ next2 = [next EXCEPT ![c] = SOUNDLIST_EMPTY]
    /\ B = {s \in A : c \in A => r[s] <= r[c]}

\* A list that is cut has lost what came after.
LEMMA ListCut ==
  ASSUME NEW next \in [Pool -> Link], NEW head, NEW A, NEW r, List(next, head, A, r),
         NEW c, NEW next2, NEW B, Cut(next, A, r, c, next2, B)
  PROVE  List(next2, head, B, r)
<1> USE DEF Cut
<1>1. CASE c \notin A
  <2>1. B = A
    BY <1>1
  <2>2. r \in [Pool -> Int] /\ \A t \in A : next2[t] = next[t]
    BY <1>1 DEF List
  <2> QED BY <2>1, <2>2, ListFrame
<1>2. CASE c \in A
  <2>1. /\ \A t \in A : t \in Pool /\ r[t] \in Int /\ t # SOUNDLIST_EMPTY
        /\ \A t, u \in A : r[t] = r[u] => t = u
        /\ head \in A /\ \A t \in A : r[head] <= r[t]
    BY <1>2, PoolTypes DEF List
  <2>2. B \subseteq A /\ c \in B /\ head \in B /\ \A t \in A : t \in B <=> r[t] <= r[c]
    BY <1>2, <2>1
  <2>3. next2[c] = SOUNDLIST_EMPTY /\ \A t \in A : t # c => next2[t] = next[t]
    BY <2>1
  <2>4. ASSUME NEW t \in B
        PROVE  IF \A u \in B : r[u] <= r[t] THEN next2[t] = SOUNDLIST_EMPTY
               ELSE /\ next2[t] \in B /\ r[t] < r[next2[t]]
                    /\ \A u \in B : r[t] < r[u] => r[next2[t]] <= r[u]
    <3>1. CASE t = c
      BY <2>2, <2>3, <3>1
    <3>2. CASE t # c
      <4>1. t \in A /\ r[t] < r[c] /\ next2[t] = next[t]
        BY <2>1, <2>2, <2>3, <3>2
      <4>2. /\ next[t] \in A /\ r[t] < r[next[t]]
            /\ \A u \in A : r[t] < r[u] => r[next[t]] <= r[u]
        BY <2>1, <2>2, <4>1 DEF List
      <4>3. next[t] \in B
        BY <2>2, <4>1, <4>2
      <4>4. ~(\A u \in B : r[u] <= r[t])
        BY <2>1, <2>2, <4>1
      <4> QED BY <2>2, <4>1, <4>2, <4>3, <4>4
    <3> QED BY <3>1, <3>2
  <2>5. B \subseteq Pool /\ r \in [Pool -> Int] /\ B # {}
    BY <2>1, <2>2 DEF List
  <2> QED BY <2>1, <2>2, <2>4, <2>5 DEF List
<1> QED BY <1>1, <1>2

-----------------------------------------------------------------------------
(* The two lists of the pool. *)

\* The sounds A are active and F are free.  Clients' sounds are the last in the
\* active list: a death cuts off no others.
Lists(next, active, free, A, F, r) ==
    /\ List(next, active, A, r) /\ List(next, free, F, r)
    /\ A \cap F = {} /\ Clients \cap F = {} /\ Pool \ Clients \subseteq A \cup F
    /\ \A c \in A \cap Clients, s \in A \ Clients : r[s] < r[c]

LEMMA ListsPartition ==
  ASSUME NEW next \in [Pool -> Link], NEW active, NEW free, NEW A, NEW F, NEW r,
         Lists(next, active, free, A, F, r)
  PROVE  /\ Ends(next, active) /\ Walk(next, active) = A
         /\ Ends(next, free) /\ Walk(next, free) = F
         /\ A \cap F = {} /\ Clients \cap F = {} /\ Pool \ Clients \subseteq A \cup F
<1>1. List(next, active, A, r) /\ List(next, free, F, r)
  BY DEF Lists
<1>2. Ends(next, active) /\ Walk(next, active) = A
  BY <1>1, ListWalk
<1>3. Ends(next, free) /\ Walk(next, free) = F
  BY <1>1, ListWalk
<1> QED BY <1>2, <1>3 DEF Lists

\* A rank before all others.
LEMMA Before ==
  ASSUME NEW next, NEW head, NEW A, NEW r, List(next, head, A, r)
  PROVE  \E n \in Int : \A t \in A : n < r[t]
<1>1. \A t \in A : r[t] \in Int
  BY DEF List
<1>2. CASE A = {}
  <2>1. 0 \in Int
    OBVIOUS
  <2> QED BY <1>2, <2>1
<1>3. CASE A # {}
  <2>1. head \in A /\ \A t \in A : r[head] <= r[t]
    BY <1>3 DEF List
  <2>2. r[head] - 1 \in Int /\ \A t \in A : r[head] - 1 < r[t]
    BY <1>1, <2>1
  <2> QED BY <2>2
<1> QED BY <1>2, <1>3

\* next2 and first are the links and the head of the active list with s, the one
\* after previous, moved on top of the free list.
Freed(next, active, free, A, s, previous, next2, first) ==
    /\ s \in A \ Clients
    /\ \/ previous = SOUNDLIST_EMPTY /\ s = active
       \/ previous \in A /\ next[previous] = s
    /\ next2[s] = free
    /\ previous \in A => next2[previous] = next[s]
    /\ \A t \in Pool \ {s, previous} : next2[t] = next[t]
    /\ first = IF previous = SOUNDLIST_EMPTY THEN next[s] ELSE active

\* The lists with s moved.
ListsLess(next2, first, A, F, r, s, r2) ==
    /\ Lists(next2, first, s, A \ {s}, F \cup {s}, r2)
    /\ \A t \in A \ {s} : r2[t] = r[t]

\* FreeSound moves an active sound to the free list.
LEMMA ListsFree ==
  ASSUME NEW next \in [Pool -> Link], NEW active, NEW free, NEW A, NEW F, NEW r,
         Lists(next, active, free, A, F, r),
         NEW s, NEW previous, NEW next2, NEW first,
         Freed(next, active, free, A, s, previous, next2, first)
  PROVE  \E r2 : ListsLess(next2, first, A, F, r, s, r2)
<1> USE DEF Freed
<1>1. /\ List(next, active, A, r) /\ List(next, free, F, r)
      /\ A \subseteq Pool /\ F \subseteq Pool /\ r \in [Pool -> Int] /\ SOUNDLIST_EMPTY \notin Pool
  BY PoolTypes DEF Lists, List
<1>2. PICK n \in Int : \A t \in F : n < r[t]
  BY <1>1, Before
<1> DEFINE r2 == [r EXCEPT ![s] = n]
           B == A \ {s}
<1>3. /\ r2 \in [Pool -> Int] /\ r2[s] = n /\ s \in Pool \ F
      /\ \A t \in Pool \ {s} : r2[t] = r[t]
  BY <1>1 DEF Lists
<1> HIDE DEF r2
<1>4. \A t \in B : r2[t] = r[t] /\ (t # previous => next2[t] = next[t])
  BY <1>1, <1>3
<1>5. List(next2, first, B, r2)
  <2>1. Unlinked(next, active, A, r, s, previous, next2, first, r2)
    BY <1>3, <1>4 DEF Unlinked
  <2> HIDE DEF Freed
  <2> QED BY <1>1, <2>1, ListUnlink
<1>6. previous \notin F
  BY <1>1 DEF Lists
<1>7. \A t \in F : next2[t] = next[t] /\ r2[t] = r[t] /\ r2[s] < r2[t]
  BY <1>1, <1>2, <1>3, <1>6
<1>8. List(next2, s, F \cup {s}, r2)
  BY <1>1, <1>3, <1>7, ListPush
<1>9. Lists(next2, first, s, B, F \cup {s}, r2)
  <2>1. /\ B \cap (F \cup {s}) = {} /\ Clients \cap (F \cup {s}) = {}
        /\ Pool \ Clients \subseteq B \cup (F \cup {s})
    BY DEF Lists
  <2>2. ASSUME NEW c \in B \cap Clients, NEW t \in B \ Clients PROVE r2[t] < r2[c]
    BY <1>4 DEF Lists
  <2> HIDE DEF B
  <2> QED BY <1>5, <1>8, <2>1, <2>2 DEF Lists
<1> QED BY <1>4, <1>9 DEF B, ListsLess

\* InsertSound moves the first free sound to the active list.
LEMMA ListsInsert ==
  ASSUME NEW next \in [Pool -> Link], NEW active, NEW free, NEW A, NEW F, NEW r,
         Lists(next, active, free, A, F, r), free # SOUNDLIST_EMPTY
  PROVE  /\ free \in Pool \ Clients
         /\ \E r2 : Lists([next EXCEPT ![free] = active], free, next[free],
                          A \cup {free}, F \ {free}, r2)
<1>1. /\ List(next, active, A, r) /\ List(next, free, F, r)
      /\ A \subseteq Pool /\ F \subseteq Pool /\ r \in [Pool -> Int] /\ SOUNDLIST_EMPTY \notin Pool
  BY PoolTypes DEF Lists, List
<1>2. free \in F /\ free \in Pool \ A /\ free \notin Clients
  BY <1>1 DEF Lists, List
<1>3. PICK n \in Int : \A t \in A : n < r[t]
  BY <1>1, Before
<1> DEFINE r2 == [r EXCEPT ![free] = n]
           next2 == [next EXCEPT ![free] = active]
           B == A \cup {free}
           G == F \ {free}
<1>4. /\ r2 \in [Pool -> Int] /\ r2[free] = n /\ next2[free] = active
      /\ \A t \in Pool \ {free} : r2[t] = r[t] /\ next2[t] = next[t]
  BY <1>1, <1>2
<1> HIDE DEF r2, next2
<1>5. \A t \in A : next2[t] = next[t] /\ r2[t] = r[t] /\ r2[free] < r2[t]
  BY <1>1, <1>2, <1>3, <1>4
<1>6. List(next2, free, B, r2)
  BY <1>1, <1>2, <1>4, <1>5, ListPush
<1>7. List(next2, next[free], G, r2)
  <2> DEFINE first == next[free]
  <2>1. \A t \in G : r2[t] = r[t] /\ next2[t] = next[t]
    BY <1>1, <1>4
  <2>2. Unlinked(next, free, F, r, free, SOUNDLIST_EMPTY, next2, first, r2)
    BY <1>1, <1>2, <1>4, <2>1 DEF Unlinked
  <2> HIDE DEF first
  <2>3. List(next2, first, G, r2)
    BY <1>1, <2>2, ListUnlink
  <2> QED BY <2>3 DEF first
<1>8. Lists(next2, free, next[free], B, G, r2)
  <2>1. B \cap G = {} /\ Clients \cap G = {} /\ Pool \ Clients \subseteq B \cup G
    BY <1>2 DEF Lists
  <2>2. ASSUME NEW c \in B \cap Clients, NEW s \in B \ Clients PROVE r2[s] < r2[c]
    <3>1. c \in A /\ r2[c] = r[c]
      BY <1>2, <1>5
    <3>2. CASE s = free
      BY <1>5, <3>1, <3>2
    <3>3. CASE s # free
      BY <1>5, <3>1, <3>3 DEF Lists
    <3> QED BY <3>2, <3>3
  <2> HIDE DEF B, G
  <2> QED BY <1>6, <1>7, <2>1, <2>2 DEF Lists
<1> QED BY <1>2, <1>8 DEF next2, B, G

\* A reset sound of a client ends the active list.
LEMMA ListsCut ==
  ASSUME NEW next \in [Pool -> Link], NEW active, NEW free, NEW A, NEW F, NEW r,
         Lists(next, active, free, A, F, r),
         NEW c \in Clients, NEW next2, NEW B, Cut(next, A, r, c, next2, B)
  PROVE  Lists(next2, active, free, B, F, r)
<1>1. /\ List(next, active, A, r) /\ List(next, free, F, r) /\ c \in Pool
      /\ A \subseteq Pool /\ F \subseteq Pool /\ r \in [Pool -> Int]
  BY PoolTypes DEF Lists, List
<1>2. List(next2, active, B, r)
  BY <1>1, ListCut
<1>3. c \notin F
  BY DEF Lists
<1>4. \A t \in F : next2[t] = next[t] /\ r[t] = r[t]
  BY <1>1, <1>3 DEF Cut
<1>5. B \subseteq A /\ \A s \in A \ Clients : s \in B
  <2>1. ASSUME NEW s \in A \ Clients, c \in A PROVE r[s] <= r[c]
    <3>1. r[s] < r[c]
      BY <2>1 DEF Lists
    <3>2. r[s] \in Int /\ r[c] \in Int
      BY <1>1
    <3> QED BY <3>1, <3>2
  <2>2. B = {s \in A : c \in A => r[s] <= r[c]}
    BY DEF Cut
  <2> QED BY <2>1, <2>2
<1>6. List(next2, free, F, r)
  BY <1>1, <1>4, ListFrame
<1> QED BY <1>2, <1>5, <1>6 DEF Lists

-----------------------------------------------------------------------------
(* The pass that Think makes over the active list. *)

SweepState == [next : [Pool -> Link], active : Link, free : Link,
               sound : Link, previous : Link]

NeverExpire == \A c \in Clients : expires[c] = SOUND_NEVER_EXPIRE

\* The sounds of a list from s on.
Rest(A, r, s) == {t \in A : r[s] <= r[t]}

\* After k steps the pass has both lists whole, knows the sound before the one
\* it looks at and has no more than the rest of the pool left to look at.
SweepOf(k, st, A, F, r) ==
    /\ Lists(st.next, st.active, st.free, A, F, r)
    /\ st.sound # SOUNDLIST_EMPTY =>
          /\ st.sound \in A
          /\ \/ st.previous = SOUNDLIST_EMPTY /\ st.sound = st.active
             \/ st.previous \in A /\ st.next[st.previous] = st.sound
          /\ Cardinality(Rest(A, r, st.sound)) <= MAX_WORLD_SOUNDS - k

Sweeping(k, st) == \E A, F, r : SweepOf(k, st, A, F, r)

LEMMA FreeSoundFields ==
  ASSUME NEW st \in SweepState, st.sound \in Pool, st.next[st.sound] \in Link
  PROVE  \E next2 \in [Pool -> Link], active2 \in Link :
           /\ FreeSound(st) = [next |-> next2, active |-> active2, free |-> st.sound,
                               sound |-> st.next[st.sound], previous |-> st.previous]
           /\ active2 = IF st.previous = SOUNDLIST_EMPTY THEN st.next[st.sound] ELSE st.active
           /\ next2[st.sound] = st.free
           /\ st.previous \in Pool \ {st.sound} => next2[st.previous] = st.next[st.sound]
           /\ \A t \in Pool \ {st.sound, st.previous} : next2[t] = st.next[t]
<1> DEFINE follow == st.next[st.sound]
           unlinked == IF st.previous = SOUNDLIST_EMPTY THEN st.next
                       ELSE [st.next EXCEPT ![st.previous] = follow]
           next2 == [unlinked EXCEPT ![st.sound] = st.free]
           active2 == IF st.previous = SOUNDLIST_EMPTY THEN follow ELSE st.active
<1>1. /\ st.next \in [Pool -> Link] /\ st.active \in Link /\ st.free \in Link
      /\ st.sound \in Link /\ st.previous \in Link
      /\ st = [next |-> st.next, active |-> st.active, free |-> st.free,
               sound |-> st.sound, previous |-> st.previous]
  BY DEF SweepState
<1>2. FreeSound(st) = [st EXCEPT !.next = next2, !.active = active2, !.free = st.sound,
                                 !.sound = follow]
  BY <1>1 DEF FreeSound
<1>3. FreeSound(st) = [next |-> next2, active |-> active2, free |-> st.sound,
                       sound |-> follow, previous |-> st.previous]
  <2> HIDE DEF next2, active2, follow, FreeSound
  <2> QED BY <1>1, <1>2
<1>4. /\ unlinked \in [Pool -> Link]
      /\ st.previous \in Pool \ {st.sound} => unlinked[st.previous] = follow
      /\ \A t \in Pool \ {st.previous} : unlinked[t] = st.next[t]
  BY <1>1, PoolTypes DEF Link
<1> HIDE DEF unlinked
<1>5. /\ next2 \in [Pool -> Link] /\ next2[st.sound] = st.free
      /\ \A t \in Pool \ {st.sound} : next2[t] = unlinked[t]
  BY <1>1, <1>4
<1> HIDE DEF next2
<1> QED BY <1>1, <1>3, <1>4, <1>5

LEMMA SweepStepType ==
  ASSUME NEW st \in SweepState
  PROVE  SweepStep(st) \in SweepState
<1>1. /\ st.next \in [Pool -> Link] /\ st.active \in Link /\ st.free \in Link
      /\ st.sound \in Link /\ st.previous \in Link
      /\ st = [next |-> st.next, active |-> st.active, free |-> st.free,
               sound |-> st.sound, previous |-> st.previous]
  BY DEF SweepState
<1>2. CASE st.sound = SOUNDLIST_EMPTY
  BY <1>2 DEF SweepStep
<1>3. CASE st.sound # SOUNDLIST_EMPTY
  <2>1. st.sound \in Pool /\ st.next[st.sound] \in Link
    BY <1>1, <1>3 DEF Link
  <2>2. KeepSound(st) \in SweepState
    BY <1>1, <2>1 DEF KeepSound, SweepState
  <2>3. FreeSound(st) \in SweepState
    <3> QED BY <2>1, FreeSoundFields DEF SweepState
  <2> QED BY <1>3, <2>2, <2>3 DEF SweepStep
<1> QED BY <1>2, <1>3

\* The rest of a list is one less after one more of it.
LEMMA RestOfList ==
  ASSUME NEW next, NEW head, NEW A, NEW r, List(next, head, A, r),
         NEW s \in A, NEW n \in Int, Cardinality(Rest(A, r, s)) <= n,
         next[s] # SOUNDLIST_EMPTY
  PROVE  /\ next[s] \in A \ {s}
         /\ Rest(A, r, next[s]) = Rest(A, r, s) \ {s}
         /\ Cardinality(Rest(A, r, next[s])) <= n - 1
<1> DEFINE S == Rest(A, r, s)
           T == Rest(A, r, next[s])
<1>1. /\ \A t \in A : r[t] \in Int
      /\ \A t, u \in A : r[t] = r[u] => t = u
      /\ next[s] \in A /\ r[s] < r[next[s]]
      /\ \A t \in A : r[s] < r[t] => r[next[s]] <= r[t]
  BY DEF List
<1>2. T = S \ {s}
  BY <1>1 DEF Rest
<1>3. IsFiniteSet(S)
  <2>1. IsFiniteSet(Pool)
    <3>1. Pool = 0 .. MAX_WORLD_SOUNDS - 1 /\ MAX_WORLD_SOUNDS - 1 \in Int
      BY PoolTypes DEF Pool
    <3> QED BY <3>1, FS_Interval
  <2>2. S \subseteq Pool
    BY DEF List, Rest
  <2> HIDE DEF S
  <2> QED BY <2>1, <2>2, FS_Subset
<1>4. s \in S
  BY <1>1 DEF Rest
<1> HIDE DEF S, T
<1>5. Cardinality(S \ {s}) = Cardinality(S) - 1 /\ Cardinality(S) \in Nat
  BY <1>3, <1>4, FS_RemoveElement, FS_CardinalityType
<1>6. Cardinality(S) <= n
  BY DEF S
<1>7. Cardinality(T) <= n - 1
  BY <1>2, <1>5, <1>6
<1> QED BY <1>1, <1>2, <1>7 DEF S, T

LEMMA SweepGoesOn ==
  ASSUME NeverExpire, NEW k \in Nat, NEW st \in SweepState, Sweeping(k, st)
  PROVE  Sweeping(k + 1, SweepStep(st))
<1>1. /\ st.next \in [Pool -> Link] /\ st.active \in Link /\ st.free \in Link
      /\ st.sound \in Link /\ st.previous \in Link
      /\ st = [next |-> st.next, active |-> st.active, free |-> st.free,
               sound |-> st.sound, previous |-> st.previous]
  BY DEF SweepState
<1>2. PICK A, F, r : SweepOf(k, st, A, F, r)
  BY DEF Sweeping
<1>3. CASE st.sound = SOUNDLIST_EMPTY
  <2>1. SweepStep(st) = st
    BY <1>3 DEF SweepStep
  <2>2. SweepOf(k + 1, st, A, F, r)
    BY <1>2, <1>3 DEF SweepOf
  <2> QED BY <2>1, <2>2 DEF Sweeping
<1>4. CASE st.sound # SOUNDLIST_EMPTY
  <2> DEFINE follow == st.next[st.sound]
             end == SweepStep(st)
             B == A \ {st.sound}
  <2>1. /\ List(st.next, st.active, A, r) /\ A \subseteq Pool /\ st.sound \in A
        /\ MAX_WORLD_SOUNDS - k \in Int /\ (MAX_WORLD_SOUNDS - k) - 1 = MAX_WORLD_SOUNDS - (k + 1)
        /\ SOUNDLIST_EMPTY \notin Pool
    BY <1>2, <1>4, PoolTypes DEF SweepOf, Lists, List
  <2>2. follow # SOUNDLIST_EMPTY =>
          /\ follow \in B
          /\ Rest(A, r, follow) = Rest(A, r, st.sound) \ {st.sound}
          /\ Cardinality(Rest(A, r, follow)) <= MAX_WORLD_SOUNDS - (k + 1)
    BY <1>2, <1>4, <2>1, RestOfList DEF SweepOf
  <2>3. CASE ~Expired(st.sound)
    <3>1. end = KeepSound(st)
      BY <1>4, <2>3 DEF SweepStep
    <3>2. /\ end.next = st.next /\ end.active = st.active /\ end.free = st.free
          /\ end.sound = follow /\ end.previous = st.sound
      BY <1>1, <3>1 DEF KeepSound
    <3> HIDE DEF end, follow
    <3>3. Lists(end.next, end.active, end.free, A, F, r)
      BY <1>2, <3>2 DEF SweepOf
    <3>4. end.previous \in A /\ end.next[end.previous] = end.sound
      BY <2>1, <3>2 DEF follow
    <3>5. end.sound # SOUNDLIST_EMPTY =>
            end.sound \in A /\ Cardinality(Rest(A, r, end.sound)) <= MAX_WORLD_SOUNDS - (k + 1)
      BY <2>2, <3>2
    <3>6. SweepOf(k + 1, end, A, F, r)
      BY <3>3, <3>4, <3>5 DEF SweepOf
    <3> QED BY <3>6 DEF Sweeping, end
  <2>4. CASE Expired(st.sound)
    <3>1. end = FreeSound(st)
      BY <1>4, <2>4 DEF SweepStep
    <3>2. st.sound \in Pool /\ follow \in Link /\ st.sound \notin Clients
      BY <1>1, <2>1, <2>4 DEF Expired, NeverExpire
    <3>3. PICK next2 \in [Pool -> Link], active2 \in Link :
            /\ FreeSound(st) = [next |-> next2, active |-> active2, free |-> st.sound,
                                sound |-> follow, previous |-> st.previous]
            /\ active2 = IF st.previous = SOUNDLIST_EMPTY THEN follow ELSE st.active
            /\ next2[st.sound] = st.free
            /\ st.previous \in Pool \ {st.sound} => next2[st.previous] = follow
            /\ \A t \in Pool \ {st.sound, st.previous} : next2[t] = st.next[t]
      BY <3>2, FreeSoundFields
    <3>4. \/ st.previous = SOUNDLIST_EMPTY /\ st.sound = st.active
          \/ st.previous \in A /\ st.next[st.previous] = st.sound
      BY <1>2, <1>4 DEF SweepOf
    <3>5. st.previous # st.sound
      BY <2>1, <3>4 DEF List
    <3>6. st.previous \in A => next2[st.previous] = follow
      BY <2>1, <3>3, <3>5
    <3>7. PICK r2 : /\ Lists(next2, active2, st.sound, B, F \cup {st.sound}, r2)
                    /\ \A t \in B : r2[t] = r[t]
      <4>1. Freed(st.next, st.active, st.free, A, st.sound, st.previous, next2, active2)
        BY <2>1, <3>2, <3>3, <3>4, <3>6 DEF Freed
      <4>2. Lists(st.next, st.active, st.free, A, F, r) /\ st.next \in [Pool -> Link]
        BY <1>1, <1>2 DEF SweepOf
      <4>3. \E r2 : ListsLess(next2, active2, A, F, r, st.sound, r2)
        BY <4>1, <4>2, ListsFree
      <4> QED BY <4>3 DEF ListsLess
    <3>8. /\ end.next = next2 /\ end.active = active2 /\ end.free = st.sound
          /\ end.sound = follow /\ end.previous = st.previous
      BY <3>1, <3>3
    <3>9. ASSUME follow # SOUNDLIST_EMPTY
          PROVE  /\ follow \in B
                 /\ \/ st.previous = SOUNDLIST_EMPTY /\ follow = active2
                    \/ st.previous \in B /\ next2[st.previous] = follow
                 /\ Cardinality(Rest(B, r2, follow)) <= MAX_WORLD_SOUNDS - (k + 1)
      <4>1. follow \in B
        BY <2>2, <3>9
      <4>2. \/ st.previous = SOUNDLIST_EMPTY /\ follow = active2
            \/ st.previous \in B /\ next2[st.previous] = follow
        BY <3>3, <3>4, <3>5, <3>6
      <4>3. Rest(B, r2, follow) = Rest(A, r, follow)
        <5>1. st.sound \notin Rest(A, r, follow)
          BY <2>2, <3>9
        <5>2. \A t \in B : r2[t] = r[t]
          BY <3>7
        <5> HIDE DEF follow
        <5> QED BY <4>1, <5>1, <5>2 DEF Rest
      <4> QED BY <2>2, <3>9, <4>1, <4>2, <4>3
    <3> HIDE DEF end, follow, B
    <3>10. SweepOf(k + 1, end, B, F \cup {st.sound}, r2)
      BY <3>7, <3>8, <3>9 DEF SweepOf
    <3> QED BY <3>10 DEF Sweeping, end
  <2> QED BY <2>3, <2>4
<1> QED BY <1>3, <1>4

LEMMA SweepRuns ==
  ASSUME SweepStart \in SweepState
  PROVE  \E f : /\ f \in [0 .. MAX_WORLD_SOUNDS -> SweepState] /\ f[0] = SweepStart
                /\ \A k \in 1 .. MAX_WORLD_SOUNDS : f[k] = SweepStep(f[k - 1])
                /\ Sweep = f[MAX_WORLD_SOUNDS]
<1> DEFINE N == MAX_WORLD_SOUNDS
           P(f) == f = [k \in 0 .. N |-> IF k = 0 THEN SweepStart ELSE SweepStep(f[k - 1])]
           step == [st \in SweepState |-> SweepStep(st)]
<1>1. N \in Nat /\ step \in [SweepState -> SweepState]
  BY PoolTypes, SweepStepType
<1>2. PICK g : Run(SweepState, SweepStart, step, N, g)
  <2> HIDE DEF step, N, P
  <2> QED BY <1>1, Iterates, Zenon
<1>3. /\ g \in [0 .. N -> SweepState] /\ g[0] = SweepStart
      /\ \A k \in 1 .. N : g[k] = SweepStep(g[k - 1])
  <2>1. \A k \in 1 .. N : k - 1 \in 0 .. N
    BY <1>1
  <2> QED BY <1>2, <2>1 DEF Run
<1>4. P(g)
  <2>1. \A k \in 0 .. N : k # 0 => k \in 1 .. N
    BY <1>1
  <2> QED BY <1>3, <2>1
<1> DEFINE f == CHOOSE h : P(h)
<1>5. Sweep = f[N]
  BY DEF Sweep
<1> HIDE DEF P
<1>6. P(f)
  BY <1>4
<1> HIDE DEF f
<1>7. f = [k \in 0 .. N |-> IF k = 0 THEN SweepStart ELSE SweepStep(f[k - 1])]
  BY <1>6 DEF P
<1>8. f[0] = SweepStart /\ \A k \in 1 .. N : f[k] = SweepStep(f[k - 1])
  <2>1. 0 \in 0 .. N /\ \A k \in 1 .. N : k \in 0 .. N /\ k # 0
    BY <1>1
  <2> QED BY <1>7, <2>1
<1>9. f \in [0 .. N -> SweepState]
  <2> DEFINE X == {k \in Nat : k \in 0 .. N => f[k] \in SweepState}
  <2>1. 0 \in X
    BY <1>8
  <2>2. ASSUME NEW k \in X PROVE k + 1 \in X
    <3> SUFFICES ASSUME k + 1 \in 0 .. N PROVE f[k + 1] \in SweepState
      OBVIOUS
    <3>1. k \in 0 .. N /\ k + 1 \in 1 .. N /\ (k + 1) - 1 = k
      BY <1>1
    <3>2. f[k] \in SweepState /\ f[k + 1] = SweepStep(f[k])
      BY <1>8, <3>1
    <3> QED BY <3>2, SweepStepType
  <2>3. X \subseteq Nat
    OBVIOUS
  <2> HIDE DEF X
  <2>4. X = Nat
    BY <2>1, <2>2, <2>3, Induction
  <2>5. \A k \in 0 .. N : f[k] \in SweepState
    BY <1>1, <2>4 DEF X
  <2>6. f = [k \in 0 .. N |-> f[k]]
    BY <1>7
  <2> QED BY <2>5, <2>6
<1> QED BY <1>5, <1>8, <1>9

\* The pass ends within as many steps as there are sounds, and leaves two lists.
LEMMA SweepDone ==
  ASSUME TypeOK, NeverExpire,
         NEW A, NEW F, NEW r, Lists(m_iNext, m_iActiveSound, m_iFreeSound, A, F, r)
  PROVE  /\ Sweep \in SweepState /\ Sweep.sound = SOUNDLIST_EMPTY
         /\ \E A2, F2, r2 : Lists(Sweep.next, Sweep.active, Sweep.free, A2, F2, r2)
<1> DEFINE N == MAX_WORLD_SOUNDS
<1>1. N \in Nat /\ SOUNDLIST_EMPTY \in Link
  BY PoolTypes
<1>2. SweepStart \in SweepState
  BY <1>1 DEF SweepStart, SweepState, TypeOK
<1>3. PICK f : /\ f \in [0 .. N -> SweepState] /\ f[0] = SweepStart
               /\ \A k \in 1 .. N : f[k] = SweepStep(f[k - 1])
               /\ Sweep = f[N]
  BY <1>2, SweepRuns
<1>4. Sweeping(0, SweepStart)
  <2>1. List(m_iNext, m_iActiveSound, A, r) /\ A \subseteq Pool
    BY DEF Lists, List
  <2>2. IsFiniteSet(Pool) /\ Cardinality(Pool) = N
    <3>1. Pool = 0 .. N - 1 /\ N - 1 \in Int /\ 0 \in Int
      BY <1>1 DEF Pool
    <3> QED BY <1>1, <3>1, FS_Interval
  <2>3. Cardinality(Rest(A, r, m_iActiveSound)) <= N
    <3>1. Rest(A, r, m_iActiveSound) \subseteq Pool
      BY <2>1 DEF Rest
    <3> QED BY <2>2, <3>1, FS_Subset
  <2>4. m_iActiveSound # SOUNDLIST_EMPTY => m_iActiveSound \in A
    BY <2>1 DEF List
  <2>5. SweepOf(0, SweepStart, A, F, r)
    BY <1>1, <2>3, <2>4 DEF SweepOf, SweepStart
  <2> QED BY <2>5 DEF Sweeping
<1>5. \A k \in 0 .. N : Sweeping(k, f[k])
  <2> DEFINE X == {k \in Nat : k \in 0 .. N => Sweeping(k, f[k])}
  <2>1. 0 \in X
    BY <1>3, <1>4
  <2>2. ASSUME NEW k \in X PROVE k + 1 \in X
    <3> SUFFICES ASSUME k + 1 \in 0 .. N PROVE Sweeping(k + 1, f[k + 1])
      OBVIOUS
    <3>1. k \in 0 .. N /\ k + 1 \in 1 .. N /\ (k + 1) - 1 = k
      BY <1>1
    <3>2. f[k] \in SweepState /\ f[k + 1] = SweepStep(f[k]) /\ Sweeping(k, f[k])
      BY <1>3, <3>1
    <3> QED BY <3>2, SweepGoesOn
  <2>3. X \subseteq Nat
    OBVIOUS
  <2> HIDE DEF X
  <2>4. X = Nat
    BY <2>1, <2>2, <2>3, Induction
  <2> QED BY <1>1, <2>4 DEF X
<1>6. Sweep \in SweepState /\ Sweeping(N, Sweep)
  BY <1>1, <1>3, <1>5
<1>7. PICK A2, F2, r2 : SweepOf(N, Sweep, A2, F2, r2)
  BY <1>6 DEF Sweeping
<1>8. Lists(Sweep.next, Sweep.active, Sweep.free, A2, F2, r2)
  BY <1>7 DEF SweepOf
<1>9. Sweep.sound = SOUNDLIST_EMPTY
  <2> SUFFICES ASSUME Sweep.sound # SOUNDLIST_EMPTY PROVE FALSE
    OBVIOUS
  <2> DEFINE S == Rest(A2, r2, Sweep.sound)
  <2>1. Sweep.sound \in A2 /\ Cardinality(S) <= N - N
    BY <1>7 DEF SweepOf
  <2>2. A2 \subseteq Pool /\ r2[Sweep.sound] \in Int
    BY <1>8, <2>1 DEF Lists, List
  <2>3. Sweep.sound \in S /\ S \subseteq Pool
    BY <2>1, <2>2 DEF Rest
  <2>4. IsFiniteSet(S)
    <3>1. Pool = 0 .. N - 1 /\ N - 1 \in Int /\ 0 \in Int
      BY <1>1 DEF Pool
    <3>2. IsFiniteSet(Pool)
      BY <3>1, FS_Interval
    <3> QED BY <2>3, <3>2, FS_Subset
  <2> HIDE DEF S
  <2>5. Cardinality(S) \in Nat /\ Cardinality(S) # 0
    BY <2>3, <2>4, FS_CardinalityType, FS_EmptySet
  <2> QED BY <1>1, <2>1, <2>5
<1> QED BY <1>6, <1>8, <1>9

-----------------------------------------------------------------------------
(* The lists of what was heard. *)

LEMMA ActivePlaces ==
  ASSUME TypeOK
  PROVE  Active \subseteq Pool /\ \A s \in Active : Place(s) \in 0 .. MAX_WORLD_SOUNDS - 1
<1> DEFINE l == Links(m_iNext, m_iActiveSound)
<1>1. l \in [0 .. MAX_WORLD_SOUNDS -> Link]
  BY LinksFollow DEF TypeOK
<1>2. Active = {l[k] : k \in 0 .. MAX_WORLD_SOUNDS - 1} \ {SOUNDLIST_EMPTY}
  BY DEF Active, Walk
<1>3. \A s : Place(s) = CHOOSE k \in 0 .. MAX_WORLD_SOUNDS - 1 : l[k] = s
  BY DEF Place
<1> HIDE DEF l
<1>4. Active \subseteq Pool
  <2>1. \A k \in 0 .. MAX_WORLD_SOUNDS - 1 : k \in 0 .. MAX_WORLD_SOUNDS
    BY PoolTypes
  <2> QED BY <1>1, <1>2, <2>1 DEF Link
<1>5. ASSUME NEW s \in Active PROVE Place(s) \in 0 .. MAX_WORLD_SOUNDS - 1
  <2>1. \E k \in 0 .. MAX_WORLD_SOUNDS - 1 : l[k] = s
    BY <1>2
  <2> QED BY <1>3, <2>1
<1> QED BY <1>4, <1>5

LEMMA LastHeard ==
  ASSUME TypeOK, NEW sounds \in SUBSET Active
  PROVE  Last(sounds) \in sounds \cup {SOUNDLIST_EMPTY}
<1>1. CASE sounds = {}
  BY <1>1 DEF Last
<1>2. CASE sounds # {}
  <2> DEFINE X == {MAX_WORLD_SOUNDS - Place(s) : s \in sounds}
  <2>1. \A s \in sounds : Place(s) \in 0 .. MAX_WORLD_SOUNDS - 1 /\ MAX_WORLD_SOUNDS \in Nat
    BY ActivePlaces, PoolTypes
  <2>2. X \in SUBSET Nat /\ X # {}
    BY <1>2, <2>1
  <2>3. PICK n \in X : \A k \in X : n <= k
    <3> HIDE DEF X
    <3> QED BY <2>2, Least
  <2>4. PICK s \in sounds : n = MAX_WORLD_SOUNDS - Place(s)
    BY <2>3
  <2>5. \A t \in sounds : Place(t) <= Place(s)
    <3> TAKE t \in sounds
    <3>1. MAX_WORLD_SOUNDS - Place(s) <= MAX_WORLD_SOUNDS - Place(t)
      BY <2>3, <2>4
    <3> QED BY <2>1, <3>1
  <2>6. Last(sounds) = CHOOSE u \in sounds : \A t \in sounds : Place(t) <= Place(u)
    BY <1>2 DEF Last
  <2> QED BY <2>5, <2>6
<1> QED BY <1>1, <1>2

\* Every monster's list leads up the ranks q, which are no greater than 0.
Audible(next, R, q) == Climbs(next, R, q) /\ \A s \in Pool : q[s] <= 0

\* Relinking the sounds heard keeps all the links going up: those heard now rank
\* above all others, the last of them lowest.
LEMMA AudibleRelinked ==
  ASSUME TypeOK, NEW heard \in SUBSET Active,
         NEW R, NEW q, Audible(m_iNextAudible, R, q)
  PROVE  /\ AudibleLinks(heard) \in [Pool -> Link]
         /\ \E q2 : Audible(AudibleLinks(heard), R \cup heard, q2)
<1> DEFINE links == AudibleLinks(heard)
           q2 == [s \in Pool |-> IF s \in heard THEN -Place(s) ELSE q[s] - MAX_WORLD_SOUNDS]
           earlier(s) == {t \in heard : Place(t) < Place(s)}
<1>1. /\ heard \subseteq Pool /\ MAX_WORLD_SOUNDS \in Nat
      /\ \A s \in heard : Place(s) \in 0 .. MAX_WORLD_SOUNDS - 1
  BY ActivePlaces, PoolTypes
<1>2. /\ R \subseteq Pool /\ q \in [Pool -> Int] /\ \A s \in Pool : q[s] <= 0
      /\ \A s \in R : \/ m_iNextAudible[s] = SOUNDLIST_EMPTY
                      \/ m_iNextAudible[s] \in R /\ q[s] < q[m_iNextAudible[s]]
      /\ SOUNDLIST_EMPTY \notin Pool
  BY PoolTypes DEF Audible, Climbs
<1>3. \A s \in Pool : links[s] = IF s \notin heard THEN m_iNextAudible[s] ELSE Last(earlier(s))
  BY DEF AudibleLinks
<1>4. ASSUME NEW s \in heard
      PROVE  links[s] \in earlier(s) \cup {SOUNDLIST_EMPTY}
  <2>1. earlier(s) \in SUBSET Active
    OBVIOUS
  <2> HIDE DEF earlier, links
  <2>2. Last(earlier(s)) \in earlier(s) \cup {SOUNDLIST_EMPTY}
    BY <2>1, LastHeard
  <2> QED BY <1>1, <1>3, <2>2
<1>5. links \in [Pool -> Link]
  <2>1. \A s \in Pool : links[s] \in Link
    <3> TAKE s \in Pool
    <3>1. CASE s \in heard
      BY <1>1, <1>4, <3>1 DEF Link
    <3>2. CASE s \notin heard
      BY <1>3, <3>2 DEF TypeOK
    <3> QED BY <3>1, <3>2
  <2>2. links = [s \in Pool |-> links[s]]
    BY DEF AudibleLinks
  <2> HIDE DEF links
  <2> QED BY <2>1, <2>2
<1> HIDE DEF links
<1>6. /\ \A s \in heard : q2[s] = -Place(s) /\ q2[s] \in Int /\ q2[s] <= 0
      /\ \A s \in Pool \ heard : /\ q2[s] = q[s] - MAX_WORLD_SOUNDS
                                 /\ q2[s] \in Int /\ q2[s] <= 0
  <2>1. ASSUME NEW s \in heard PROVE q2[s] = -Place(s) /\ q2[s] \in Int /\ q2[s] <= 0
    <3>1. q2[s] = -Place(s)
      BY <1>1
    <3> QED BY <1>1, <3>1
  <2>2. ASSUME NEW s \in Pool \ heard
        PROVE  q2[s] = q[s] - MAX_WORLD_SOUNDS /\ q2[s] \in Int /\ q2[s] <= 0
    <3>1. q2[s] = q[s] - MAX_WORLD_SOUNDS
      OBVIOUS
    <3>2. q[s] \in Int /\ q[s] <= 0
      BY <1>2
    <3> QED BY <1>1, <3>1, <3>2
  <2> QED BY <2>1, <2>2
<1>7. q2 \in [Pool -> Int] /\ \A s \in Pool : q2[s] <= 0
  <2>1. \A s \in Pool : q2[s] \in Int /\ q2[s] <= 0
    BY <1>6
  <2> QED BY <2>1
<1> HIDE DEF q2
<1>8. ASSUME NEW s \in R \cup heard
      PROVE  \/ links[s] = SOUNDLIST_EMPTY
             \/ links[s] \in R \cup heard /\ q2[s] < q2[links[s]]
  <2>1. CASE s \in heard
    <3>1. links[s] # SOUNDLIST_EMPTY => links[s] \in heard /\ Place(links[s]) < Place(s)
      BY <1>4, <2>1
    <3> QED BY <1>1, <1>6, <2>1, <3>1
  <2>2. CASE s \notin heard
    <3>1. s \in R /\ s \in Pool /\ links[s] = m_iNextAudible[s]
      BY <1>2, <1>3, <2>2
    <3>2. CASE links[s] \in heard
      <4>1. q2[links[s]] = -Place(links[s]) /\ Place(links[s]) \in 0 .. MAX_WORLD_SOUNDS - 1
        BY <1>1, <1>6, <3>2
      <4>2. q2[s] = q[s] - MAX_WORLD_SOUNDS /\ q[s] <= 0 /\ q[s] \in Int
        BY <1>2, <1>6, <2>2, <3>1
      <4>3. q2[s] < q2[links[s]]
        BY <1>1, <4>1, <4>2
      <4> QED BY <3>2, <4>3
    <3>3. CASE links[s] \notin heard /\ links[s] # SOUNDLIST_EMPTY
      <4>1. links[s] \in R /\ links[s] \in Pool /\ q[s] < q[links[s]]
        BY <1>2, <3>1, <3>3
      <4>2. /\ q2[s] = q[s] - MAX_WORLD_SOUNDS /\ q2[links[s]] = q[links[s]] - MAX_WORLD_SOUNDS
            /\ q[s] \in Int /\ q[links[s]] \in Int
        BY <1>2, <1>6, <2>2, <3>1, <3>3, <4>1
      <4>3. q2[s] < q2[links[s]]
        BY <1>1, <4>1, <4>2
      <4> QED BY <4>1, <4>3
    <3> QED BY <3>2, <3>3
  <2> QED BY <2>1, <2>2
<1>9. Audible(links, R \cup heard, q2)
  BY <1>1, <1>2, <1>7, <1>8 DEF Audible, Climbs
<1> QED BY <1>5, <1>9 DEF links

-----------------------------------------------------------------------------
(* The invariant. *)

PoolInv == \E A, F, r : Lists(m_iNext, m_iActiveSound, m_iFreeSound, A, F, r)

HeardInv ==
    \E R, q : /\ Audible(m_iNextAudible, R, q)
              /\ \A m \in listened : m_iAudibleList[m] \in R \cup {SOUNDLIST_EMPTY}

SInv == TypeOK /\ NeverExpire /\ PoolInv /\ HeardInv

\* Initialize leaves the sounds of the clients active, the others free.
LEMMA InitInv == Init => SInv
<1> SUFFICES ASSUME Init PROVE SInv
  OBVIOUS
<1>1. /\ MAX_WORLD_SOUNDS \in Nat /\ maxClients \in Nat
      /\ 0 < maxClients /\ maxClients < MAX_WORLD_SOUNDS
      /\ MaxDuration \in Nat /\ ThinkInterval \in Nat \ {0}
  BY PoolAssumption
<1>2. /\ \A s : s \in Pool <=> s \in Int /\ 0 <= s /\ s < MAX_WORLD_SOUNDS
      /\ \A s : s \in Clients <=> s \in Int /\ 0 <= s /\ s < maxClients
      /\ Clients \subseteq Pool
  BY <1>1 DEF Pool, Clients
<1>3. TypeOK
  <2>1. m_iActiveSound \in Link /\ m_iFreeSound \in Link
    BY <1>1, <1>2 DEF Init, Link
  <2>2. m_iNext \in [Pool -> Link]
    <3>1. ASSUME NEW s \in Pool
          PROVE  (IF s \in Clients THEN s - 1
                  ELSE IF s + 1 \in Pool THEN s + 1 ELSE SOUNDLIST_EMPTY) \in Link
      BY <1>1, <1>2 DEF Link, SOUNDLIST_EMPTY
    <3> QED BY <3>1 DEF Init
  <2>3. expires \in [Pool -> {SOUND_NEVER_EXPIRE} \cup 0 .. MaxDuration]
    BY <1>1 DEF Init
  <2>4. m_iNextAudible \in [Pool -> Link] /\ m_iAudibleList \in [Monsters -> Link]
    BY <1>1, <1>2 DEF Init, Link
  <2> QED BY <1>1, <2>1, <2>2, <2>3, <2>4 DEF Init, TypeOK
<1>4. NeverExpire
  BY <1>2 DEF Init, NeverExpire
<1>5. PoolInv
  <2> DEFINE r == [s \in Pool |-> IF s \in Clients THEN -s ELSE s]
             F == Pool \ Clients
  <2>1. /\ r \in [Pool -> Int]
        /\ \A s \in Clients : r[s] = -s /\ m_iNext[s] = s - 1 /\ s \in Pool
        /\ \A s \in F : r[s] = s /\ m_iNext[s] = IF s + 1 \in Pool THEN s + 1 ELSE SOUNDLIST_EMPTY
    BY <1>1, <1>2 DEF Init
  <2>2. SOUNDLIST_EMPTY = -1 /\ m_iActiveSound = maxClients - 1 /\ m_iFreeSound = maxClients
    BY DEF SOUNDLIST_EMPTY, Init
  <2> HIDE DEF r
  <2>3. List(m_iNext, m_iActiveSound, Clients, r)
    <3>1. m_iActiveSound \in Clients /\ \A s \in Clients : r[m_iActiveSound] <= r[s]
      BY <1>1, <1>2, <2>1, <2>2
    <3>2. ASSUME NEW s \in Clients
          PROVE  IF \A t \in Clients : r[t] <= r[s] THEN m_iNext[s] = SOUNDLIST_EMPTY
                 ELSE /\ m_iNext[s] \in Clients /\ r[s] < r[m_iNext[s]]
                      /\ \A t \in Clients : r[s] < r[t] => r[m_iNext[s]] <= r[t]
      <4>1. CASE s = 0
        BY <1>1, <1>2, <2>1, <2>2, <4>1
      <4>2. CASE s # 0
        <5>1. s - 1 \in Clients /\ m_iNext[s] = s - 1 /\ r[s] < r[s - 1]
          <6>1. s - 1 \in Clients /\ s \in Int
            <7>1. s \in Int /\ 0 <= s /\ s < maxClients
              BY <1>2
            <7>2. s - 1 \in Int /\ 0 <= s - 1 /\ s - 1 < maxClients
              BY <1>1, <4>2, <7>1
            <7> QED BY <1>2, <7>1, <7>2
          <6>2. r[s - 1] = -(s - 1) /\ r[s] = -s /\ m_iNext[s] = s - 1
            BY <2>1, <6>1
          <6> QED BY <6>1, <6>2
        <5>2. \A t \in Clients : r[s] < r[t] => r[s - 1] <= r[t]
          BY <1>2, <2>1, <5>1
        <5> QED BY <1>2, <2>1, <5>1, <5>2
      <4> QED BY <4>1, <4>2
    <3>3. \A s, t \in Clients : r[s] = r[t] => s = t
      BY <1>2, <2>1
    <3> QED BY <1>2, <2>1, <3>1, <3>2, <3>3 DEF List
  <2>4. List(m_iNext, m_iFreeSound, F, r)
    <3>1. m_iFreeSound \in F /\ \A s \in F : r[m_iFreeSound] <= r[s]
      BY <1>1, <1>2, <2>1, <2>2
    <3>2. ASSUME NEW s \in F
          PROVE  IF \A t \in F : r[t] <= r[s] THEN m_iNext[s] = SOUNDLIST_EMPTY
                 ELSE /\ m_iNext[s] \in F /\ r[s] < r[m_iNext[s]]
                      /\ \A t \in F : r[s] < r[t] => r[m_iNext[s]] <= r[t]
      <4>1. CASE s + 1 \notin Pool
        BY <1>1, <1>2, <2>1, <4>1
      <4>2. CASE s + 1 \in Pool
        <5>1. s + 1 \in F /\ m_iNext[s] = s + 1 /\ r[s] < r[s + 1]
          <6>1. s + 1 \in F /\ s \in Int
            BY <1>1, <1>2, <4>2
          <6>2. r[s + 1] = s + 1 /\ r[s] = s /\ m_iNext[s] = s + 1
            BY <2>1, <4>2, <6>1
          <6> QED BY <6>1, <6>2
        <5>2. \A t \in F : r[s] < r[t] => r[s + 1] <= r[t]
          BY <1>2, <2>1, <5>1
        <5> QED BY <1>2, <2>1, <5>1, <5>2
      <4> QED BY <4>1, <4>2
    <3>3. \A s, t \in F : r[s] = r[t] => s = t
      BY <2>1
    <3> QED BY <2>1, <3>1, <3>2, <3>3 DEF List
  <2>5. Lists(m_iNext, m_iActiveSound, m_iFreeSound, Clients, F, r)
    BY <2>3, <2>4 DEF Lists
  <2> QED BY <2>5 DEF PoolInv
<1>6. HeardInv
  <2> DEFINE q == [s \in Pool |-> 0]
  <2>1. Audible(m_iNextAudible, {}, q) /\ listened = {}
    BY DEF Audible, Climbs, Init
  <2> QED BY <2>1 DEF HeardInv
<1> QED BY <1>3, <1>4, <1>5, <1>6 DEF SInv

LEMMA PoolStep == SInv /\ [Next]_vars => PoolInv'
<1> SUFFICES ASSUME SInv, [Next]_vars PROVE PoolInv'
  OBVIOUS
<1>1. TypeOK /\ NeverExpire /\ m_iNext \in [Pool -> Link]
  BY DEF SInv, TypeOK
<1>2. PICK A, F, r : Lists(m_iNext, m_iActiveSound, m_iFreeSound, A, F, r)
  BY DEF SInv, PoolInv
<1>3. ASSUME UNCHANGED lists PROVE PoolInv'
  BY <1>2, <1>3 DEF PoolInv, lists
<1>4. ASSUME NEW duration \in 0 .. MaxDuration, InsertSound(duration) PROVE PoolInv'
  <2>1. m_iFreeSound # SOUNDLIST_EMPTY
    BY <1>4 DEF InsertSound
  <2>2. PICK r2 : Lists([m_iNext EXCEPT ![m_iFreeSound] = m_iActiveSound], m_iFreeSound,
                        m_iNext[m_iFreeSound], A \cup {m_iFreeSound}, F \ {m_iFreeSound}, r2)
    BY <1>1, <1>2, <2>1, ListsInsert
  <2>3. /\ m_iNext' = [m_iNext EXCEPT ![m_iFreeSound] = m_iActiveSound]
        /\ m_iActiveSound' = m_iFreeSound /\ m_iFreeSound' = m_iNext[m_iFreeSound]
    BY <1>4 DEF InsertSound
  <2>4. Lists(m_iNext', m_iActiveSound', m_iFreeSound', A \cup {m_iFreeSound},
              F \ {m_iFreeSound}, r2)
    BY <2>2, <2>3
  <2> QED BY <2>4 DEF PoolInv
<1>5. ASSUME Think PROVE PoolInv'
  <2>1. PICK A2, F2, r2 : Lists(Sweep.next, Sweep.active, Sweep.free, A2, F2, r2)
    BY <1>1, <1>2, SweepDone
  <2>2. /\ m_iNext' = Sweep.next /\ m_iActiveSound' = Sweep.active
        /\ m_iFreeSound' = Sweep.free
    BY <1>5 DEF Think
  <2> QED BY <2>1, <2>2 DEF PoolInv
<1>6. ASSUME NEW c \in Clients, m_iNext' = [m_iNext EXCEPT ![c] = SOUNDLIST_EMPTY],
             UNCHANGED <<m_iActiveSound, m_iFreeSound>>
      PROVE  PoolInv'
  <2> DEFINE B == {s \in A : c \in A => r[s] <= r[c]}
  <2>1. Cut(m_iNext, A, r, c, m_iNext', B)
    BY <1>6, PoolTypes DEF Cut
  <2> HIDE DEF B
  <2>2. Lists(m_iNext', m_iActiveSound, m_iFreeSound, B, F, r)
    BY <1>1, <1>2, <2>1, ListsCut
  <2>3. Lists(m_iNext', m_iActiveSound', m_iFreeSound', B, F, r)
    BY <1>6, <2>2
  <2> QED BY <2>3 DEF PoolInv
<1>7. ASSUME NEW c \in Clients,
             \/ Spawn(c) \/ Killed(c) \/ KilledInPostThink(c)
             \/ ClientDisconnect(c) \/ UpdatePlayerSound(c)
      PROVE  PoolInv'
  <2>1. \/ UNCHANGED lists
        \/ /\ m_iNext' = [m_iNext EXCEPT ![c] = SOUNDLIST_EMPTY]
           /\ UNCHANGED <<m_iActiveSound, m_iFreeSound>>
    BY <1>7 DEF Spawn, Killed, KilledInPostThink, ClientDisconnect, UpdatePlayerSound,
                Reset, lists
  <2> QED BY <1>3, <1>6, <2>1
<1>8. ASSUME \/ Tick \/ ListenOther \/ \E m \in Monsters : Listen(m) PROVE PoolInv'
  BY <1>3, <1>8 DEF Tick, ListenOther, Listen, lists
<1>9. CASE UNCHANGED vars
  BY <1>3, <1>9 DEF vars
<1> QED BY <1>4, <1>5, <1>7, <1>8, <1>9 DEF Next

LEMMA HeardStep == SInv /\ [Next]_vars => HeardInv' /\ (m_iNextAudible \in [Pool -> Link])'
<1> SUFFICES ASSUME SInv, [Next]_vars PROVE HeardInv' /\ m_iNextAudible' \in [Pool -> Link]
  OBVIOUS
<1>1. TypeOK
  BY DEF SInv
<1>2. PICK R, q : /\ Audible(m_iNextAudible, R, q)
                  /\ \A m \in listened : m_iAudibleList[m] \in R \cup {SOUNDLIST_EMPTY}
  BY DEF SInv, HeardInv
<1>3. ASSUME UNCHANGED hearing PROVE HeardInv' /\ m_iNextAudible' \in [Pool -> Link]
  BY <1>1, <1>2, <1>3 DEF HeardInv, hearing, TypeOK
<1>4. ASSUME NEW heard \in Heard, m_iNextAudible' = AudibleLinks(heard),
             \A m \in listened' : \/ m_iAudibleList'[m] = Last(heard)
                                  \/ m \in listened /\ m_iAudibleList'[m] = m_iAudibleList[m]
      PROVE  HeardInv' /\ m_iNextAudible' \in [Pool -> Link]
  <2>1. heard \in SUBSET Active
    BY DEF Heard
  <2>2. AudibleLinks(heard) \in [Pool -> Link]
    BY <1>1, <1>2, <2>1, AudibleRelinked
  <2>3. PICK q2 : Audible(AudibleLinks(heard), R \cup heard, q2)
    BY <1>1, <1>2, <2>1, AudibleRelinked
  <2>4. Last(heard) \in heard \cup {SOUNDLIST_EMPTY}
    BY <1>1, <2>1, LastHeard
  <2> DEFINE R2 == R \cup heard
  <2>5. \A m \in listened' : m_iAudibleList'[m] \in R2 \cup {SOUNDLIST_EMPTY}
    BY <1>2, <1>4, <2>4
  <2>6. Audible(m_iNextAudible', R2, q2)
    BY <1>4, <2>3
  <2> HIDE DEF R2
  <2> QED BY <1>4, <2>2, <2>5, <2>6 DEF HeardInv
<1>5. ASSUME NEW m \in Monsters, Listen(m) PROVE HeardInv' /\ m_iNextAudible' \in [Pool -> Link]
  <2>1. PICK heard \in Heard : /\ m_iNextAudible' = AudibleLinks(heard)
                               /\ m_iAudibleList' = [m_iAudibleList EXCEPT ![m] = Last(heard)]
                               /\ listened' = listened \cup {m}
    BY <1>5 DEF Listen
  <2>2. \A n \in listened' : \/ m_iAudibleList'[n] = Last(heard)
                             \/ n \in listened /\ m_iAudibleList'[n] = m_iAudibleList[n]
    BY <1>1, <2>1 DEF TypeOK
  <2> QED BY <1>4, <2>1, <2>2
<1>6. ASSUME ListenOther PROVE HeardInv' /\ m_iNextAudible' \in [Pool -> Link]
  <2>1. PICK heard \in Heard : m_iNextAudible' = AudibleLinks(heard)
    BY <1>6 DEF ListenOther
  <2>2. m_iAudibleList' = m_iAudibleList /\ listened' = listened
    BY <1>6 DEF ListenOther
  <2> QED BY <1>4, <2>1, <2>2
<1>7. CASE Next
  BY <1>3, <1>5, <1>6, <1>7 DEF Next, InsertSound, Think, Tick, Spawn, Killed, KilledInPostThink,
                                ClientDisconnect, UpdatePlayerSound
<1>8. CASE UNCHANGED vars
  BY <1>3, <1>8 DEF vars
<1> QED BY <1>7, <1>8

LEMMA TypeStep == SInv /\ [Next]_vars => TypeOK' /\ NeverExpire'
<1> SUFFICES ASSUME SInv, [Next]_vars PROVE TypeOK' /\ NeverExpire'
  OBVIOUS
<1>1. TypeOK /\ NeverExpire /\ MaxDuration \in Nat /\ ThinkInterval \in Nat \ {0}
  BY PoolAssumption DEF SInv
<1>2. PICK A, F, r : Lists(m_iNext, m_iActiveSound, m_iFreeSound, A, F, r)
  BY DEF SInv, PoolInv
<1>3. (m_iNextAudible \in [Pool -> Link])'
  BY HeardStep
<1> DEFINE ListTypes ==
             /\ m_iActiveSound \in Link /\ m_iFreeSound \in Link
             /\ m_iNext \in [Pool -> Link]
           SoundTypes ==
             /\ m_iType \in [Pool -> {"none", "sound"}]
             /\ expires \in [Pool -> {SOUND_NEVER_EXPIRE} \cup 0 .. MaxDuration]
             /\ nextthink \in 0 .. ThinkInterval
             /\ alive \subseteq Clients
             /\ NeverExpire
           HearingTypes == m_iAudibleList \in [Monsters -> Link] /\ listened \subseteq Monsters
<1>4. ListTypes /\ SoundTypes /\ HearingTypes
  BY <1>1 DEF TypeOK
<1> SUFFICES ListTypes' /\ SoundTypes' /\ HearingTypes'
  BY <1>3 DEF TypeOK
<1>5. ASSUME NEW duration \in 0 .. MaxDuration, InsertSound(duration)
      PROVE  ListTypes' /\ SoundTypes' /\ HearingTypes'
  <2>1. m_iFreeSound \in Pool \ Clients
    <3>1. m_iFreeSound # SOUNDLIST_EMPTY /\ m_iNext \in [Pool -> Link]
      BY <1>4, <1>5 DEF InsertSound
    <3> QED BY <1>2, <3>1, ListsInsert
  <2>2. ListTypes'
    BY <1>4, <1>5, <2>1 DEF InsertSound
  <2>3. HearingTypes'
    BY <1>4, <1>5 DEF InsertSound, hearing
  <2>4. /\ m_iType' = [m_iType EXCEPT ![m_iFreeSound] = "sound"]
        /\ expires' = [expires EXCEPT ![m_iFreeSound] = duration]
        /\ UNCHANGED <<nextthink, alive>>
    BY <1>5 DEF InsertSound
  <2>5. SoundTypes'
    BY <1>4, <2>1, <2>4, PoolTypes DEF NeverExpire
  <2> QED BY <2>2, <2>3, <2>5
<1>6. ASSUME Think PROVE ListTypes' /\ SoundTypes' /\ HearingTypes'
  <2>1. Sweep \in SweepState
    BY <1>1, <1>2, SweepDone
  <2>2. ListTypes'
    BY <1>6, <2>1 DEF Think, SweepState
  <2>3. nextthink' = ThinkInterval /\ UNCHANGED <<m_iType, expires, alive, hearing>>
    BY <1>6 DEF Think, AskAgain
  <2> QED BY <1>1, <1>4, <2>2, <2>3 DEF NeverExpire, hearing
<1>7. ASSUME Tick PROVE ListTypes' /\ SoundTypes' /\ HearingTypes'
  <2>1. nextthink' \in 0 .. ThinkInterval
    BY <1>1, <1>4, <1>7 DEF Tick, Off
  <2>2. expires' \in [Pool -> {SOUND_NEVER_EXPIRE} \cup 0 .. MaxDuration] /\ NeverExpire'
    <3>1. expires' = [s \in Pool |-> IF expires[s] > 0 THEN expires[s] - 1 ELSE expires[s]]
      BY <1>7 DEF Tick
    <3>2. ASSUME NEW s \in Pool
          PROVE  /\ expires'[s] \in {SOUND_NEVER_EXPIRE} \cup 0 .. MaxDuration
                 /\ expires[s] = SOUND_NEVER_EXPIRE => expires'[s] = SOUND_NEVER_EXPIRE
      BY <1>1, <1>4, <3>1 DEF SOUND_NEVER_EXPIRE
    <3>3. NeverExpire'
      BY <1>4, <3>2, PoolTypes DEF NeverExpire
    <3> QED BY <3>1, <3>2, <3>3
  <2>3. UNCHANGED <<lists, m_iType, alive, hearing>>
    BY <1>7 DEF Tick
  <2> QED BY <1>4, <2>1, <2>2, <2>3 DEF lists, hearing
<1>8. ASSUME NEW c \in Clients,
             \/ Spawn(c) \/ Killed(c) \/ KilledInPostThink(c)
             \/ ClientDisconnect(c) \/ UpdatePlayerSound(c)
      PROVE  ListTypes' /\ SoundTypes' /\ HearingTypes'
  <2>1. /\ c \in Pool
        /\ m_iNext' \in {m_iNext, [m_iNext EXCEPT ![c] = SOUNDLIST_EMPTY]}
        /\ m_iType' \in {m_iType, [m_iType EXCEPT ![c] = "none"], [m_iType EXCEPT ![c] = "sound"]}
        /\ alive' \in {alive, alive \cup {c}, alive \ {c}}
        /\ UNCHANGED <<m_iActiveSound, m_iFreeSound, expires, nextthink, hearing>>
    BY <1>8, PoolTypes DEF Spawn, Killed, KilledInPostThink, ClientDisconnect,
                           UpdatePlayerSound, Reset, lists
  <2>2. ListTypes' /\ m_iType' \in [Pool -> {"none", "sound"}] /\ alive' \subseteq Clients
    BY <1>4, <2>1, PoolTypes
  <2> QED BY <1>4, <2>1, <2>2 DEF NeverExpire, hearing
<1>9. ASSUME ListenOther \/ (\E m \in Monsters : Listen(m)) PROVE ListTypes' /\ SoundTypes' /\ HearingTypes'
  <2>1. UNCHANGED <<lists, m_iType, expires, nextthink, alive>>
    BY <1>9 DEF ListenOther, Listen
  <2>2. HearingTypes'
    <3>1. CASE ListenOther
      BY <1>4, <3>1 DEF ListenOther
    <3>2. ASSUME NEW m \in Monsters, Listen(m) PROVE HearingTypes'
      <4>1. PICK heard \in Heard : /\ m_iAudibleList' = [m_iAudibleList EXCEPT ![m] = Last(heard)]
                                   /\ listened' = listened \cup {m}
        BY <3>2 DEF Listen
      <4>2. Last(heard) \in Link
        <5>1. heard \in SUBSET Active /\ Active \subseteq Pool
          BY <1>1, ActivePlaces DEF Heard
        <5>2. Last(heard) \in heard \cup {SOUNDLIST_EMPTY}
          BY <1>1, <5>1, LastHeard
        <5> QED BY <5>1, <5>2, PoolTypes
      <4> QED BY <1>4, <4>1, <4>2
    <3> QED BY <1>9, <3>1, <3>2
  <2> QED BY <1>4, <2>1, <2>2 DEF lists, NeverExpire
<1>10. CASE UNCHANGED vars
  BY <1>4, <1>10 DEF vars, lists, hearing, NeverExpire
<1> HIDE DEF ListTypes, SoundTypes, HearingTypes
<1> QED BY <1>5, <1>6, <1>7, <1>8, <1>9, <1>10 DEF Next

\* The inductive invariant of CSoundEnt's lists and of what monsters heard.
THEOREM Invariance == Spec => []SInv
<1>1. SInv /\ [Next]_vars => SInv'
  BY TypeStep, PoolStep, HeardStep DEF SInv
<1> QED BY <1>1, InitInv, PTL DEF Spec

\* The state has its types: links stay within the pool, no time to live is
\* longer than it may be and the think function is always due again.
THEOREM TypeCorrect == Spec => []TypeOK
<1>1. SInv => TypeOK
  BY DEF SInv
<1> QED BY <1>1, Invariance, PTL

\* FreeSound, IAllocSound and Reset leave a pool of two lists that end and share
\* no sound, of which only clients' own may be missing.
THEOREM ListsPartitionPool == Spec => []PoolPartition
<1>1. SInv => PoolPartition
  <2> SUFFICES ASSUME SInv PROVE PoolPartition
    OBVIOUS
  <2>1. m_iNext \in [Pool -> Link]
    BY DEF SInv, TypeOK
  <2>2. PICK A, F, r : Lists(m_iNext, m_iActiveSound, m_iFreeSound, A, F, r)
    BY DEF SInv, PoolInv
  <2> QED BY <2>1, <2>2, ListsPartition DEF PoolPartition, Active, Free
<1> QED BY <1>1, Invariance, PTL

\* PBestSound's walk over what Listen linked ends for every monster that has
\* listened, whatever was relinked since.
THEOREM AudibleWalksEnd == Spec => []AudibleListsEnd
<1>1. SInv => AudibleListsEnd
  <2> SUFFICES ASSUME SInv, NEW m \in listened PROVE Ends(m_iNextAudible, m_iAudibleList[m])
    BY DEF AudibleListsEnd, AudibleWalkEnds
  <2>1. m_iNextAudible \in [Pool -> Link]
    BY DEF SInv, TypeOK
  <2>2. PICK R, q : /\ Audible(m_iNextAudible, R, q)
                    /\ m_iAudibleList[m] \in R \cup {SOUNDLIST_EMPTY}
    BY DEF SInv, HeardInv
  <2> QED BY <2>1, <2>2, WalkEnds DEF Audible
<1> QED BY <1>1, Invariance, PTL

\* Think's pass over the active list is never cut short by the bound of the
\* recursion that models it.
THEOREM PassesEnd == Spec => [](Sweep.sound = SOUNDLIST_EMPTY)
<1>1. SInv => Sweep.sound = SOUNDLIST_EMPTY
  BY SweepDone DEF SInv, PoolInv
<1> QED BY <1>1, Invariance, PTL
=============================================================================
