-------------------------- MODULE TimeEventProofs --------------------------
(***************************************************************************)
(* The time event heap and the clock of TimeEvent, for any handlers, any   *)
(* length of a tick and any width of an event time that fit together.      *)
(*                                                                         *)
(* First the heap, as an algorithm: the path from a node to the root, what *)
(* tmevt_up and tmevt_down find, what Shift and Relink then do, and so     *)
(* what tmevtb_insert and tmevtb_delete leave.  Recursion is on functions, *)
(* so that induction is on a set of numbers (InductionLemma).              *)
(*                                                                         *)
(* Then the clock: D1 is the time from min_time to the last tick, D2 from  *)
(* there to the next one.  While D1 + D2 and the longest relative time fit *)
(* into an event time, comparing relative to min_time compares real times. *)
(*                                                                         *)
(* IInv is inductive: the clock, the heap, the marks of the handlers and   *)
(* the bounds of the event times.  From it follow EventsInv, HeapInv and   *)
(* LefttimInv, and that TimeEvent implements Timer.                        *)
(***************************************************************************)
EXTENDS TimeEvent, WellFoundedInduction, SequenceTheorems, TLAPS

----------------------------------------------------------------------------
(***************************************************************************)
(* Numbers, and functions that are defined by recursion.                   *)
(***************************************************************************)
LEMMA SmallestLemma ==
  ASSUME NEW S \in SUBSET Nat, S # {}
  PROVE  \E n \in S : \A m \in S : n <= m
<1>1. PICK n \in S : \A m \in S : ~ (<< m, n >> \in OpToRel(<, Nat))
  <2> HIDE DEF OpToRel
  <2> QED BY NatLessThanWellFounded, WFMin
<1>2. OpToRel(<, Nat) = {ss \in Nat \X Nat : ss[1] < ss[2]}
  BY DEF OpToRel
<1> HIDE DEF OpToRel
<1>3. ASSUME NEW m \in S, m < n PROVE FALSE
  <2>1. << m, n >> \in {ss \in Nat \X Nat : ss[1] < ss[2]}
    BY <1>3
  <2>2. QED
    BY <1>1, <1>2, <2>1
<1>4. QED
  BY <1>3

\* Complete induction on a set G of numbers.
LEMMA InductionLemma ==
  ASSUME NEW G, \A n \in Nat : (\A k \in Nat : k < n => k \in G) => n \in G
  PROVE  Nat \subseteq G
<1> DEFINE Bad == Nat \ G
<1>1. ASSUME Bad # {} PROVE FALSE
  <2>1. Bad \in SUBSET Nat
    OBVIOUS
  <2> HIDE DEF Bad
  <2>2. PICK n \in Bad : \A k \in Bad : n <= k
    BY <1>1, <2>1, SmallestLemma
  <2>3. \A k \in Nat : k < n => k \notin Bad
    BY <2>1, <2>2
  <2>4. QED
    BY <2>1, <2>2, <2>3 DEF Bad
<1>2. QED
  BY <1>1

\* A function that is defined at x from its value at nxt[x], of smaller
\* measure, exists.
IsRecursive(f, D, stop, base, join, nxt) ==
  \A x \in D :
    f[x] = IF x \in stop THEN base[x] ELSE join[<< x, f[nxt[x]] >>]

LEMMA RecursionLemma ==
  ASSUME NEW D, NEW K \in Nat, NEW m \in [D -> 0 .. K], NEW V, NEW stop,
         NEW base \in [D -> V], NEW join \in [D \X V -> V], NEW nxt,
         \A x \in D \ stop : nxt[x] \in D /\ m[nxt[x]] < m[x]
  PROVE  \E f \in [D -> V] : IsRecursive(f, D, stop, base, join, nxt)
<1> DEFINE At(f, x) == IF x \in stop THEN base[x] ELSE join[<< x, f[nxt[x]] >>]
           G == {n \in Nat : \E f \in [D -> V] :
                   \A x \in D : m[x] <= n => f[x] = At(f, x)}
<1>1. ASSUME NEW f \in [D -> V], NEW x \in D PROVE At(f, x) \in V
  OBVIOUS
<1>2. ASSUME NEW n \in Nat, \A k \in Nat : k < n => k \in G PROVE n \in G
  <2>1. PICK f \in [D -> V] : \A x \in D : m[x] <= n - 1 => f[x] = At(f, x)
    <3>1. CASE n = 0
      <4>1. \A x \in D : ~(m[x] <= n - 1)
        BY <3>1
      <4>2. base \in [D -> V]
        OBVIOUS
      <4> HIDE DEF At
      <4>3. QED
        BY <4>1, <4>2
    <3>2. CASE n # 0
      <4>1. n - 1 \in Nat /\ n - 1 < n
        BY <3>2
      <4>2. n - 1 \in G
        BY <1>2, <4>1
      <4>3. QED
        BY <4>2
    <3>3. QED
      BY <3>1, <3>2
  <2> DEFINE g == [x \in D |-> IF m[x] = n THEN At(f, x) ELSE f[x]]
  <2>2. g \in [D -> V]
    BY <1>1
  <2>3. ASSUME NEW x \in D, m[x] <= n PROVE g[x] = At(f, x)
    BY <2>1, <2>3
  <2>4. ASSUME NEW x \in D, m[x] <= n, x \notin stop
        PROVE  g[nxt[x]] = f[nxt[x]]
    <3>1. nxt[x] \in D /\ m[nxt[x]] # n
      BY <2>4
    <3>2. QED
      BY <3>1
  <2>5. ASSUME NEW x \in D, m[x] <= n PROVE g[x] = At(g, x)
    <3>1. At(f, x) = At(g, x)
      <4> HIDE DEF g
      <4> QED BY <2>4, <2>5
    <3>2. QED
      BY <2>3, <2>5, <3>1
  <2> HIDE DEF g, At
  <2>6. QED
    BY <2>2, <2>5
<1>3. K \in G
  <2> HIDE DEF G
  <2>1. Nat \subseteq G
    BY <1>2, InductionLemma
  <2>2. QED
    BY <2>1
<1>4. PICK f \in [D -> V] : \A x \in D : m[x] <= K => f[x] = At(f, x)
  BY <1>3
<1>5. \A x \in D : m[x] <= K
  OBVIOUS
<1>6. \A x \in D : f[x] = At(f, x)
  <2> HIDE DEF At
  <2> QED BY <1>4, <1>5
<1>7. QED
  BY <1>6 DEF IsRecursive

----------------------------------------------------------------------------
(***************************************************************************)
(* Upward(i), the path from a node to the root.                            *)
(***************************************************************************)
LEMMA ParentLemma ==
  ASSUME NEW j \in Nat, j > 1
  PROVE  PARENT(j) \in Nat /\ 1 <= PARENT(j) /\ PARENT(j) < j
BY DEF PARENT

UpTurn(f, j) == IF j = 1 THEN {1} ELSE {j} \cup f[PARENT(j)]

IsUpward(f, i) == f = [j \in 1 .. i |-> UpTurn(f, j)]

LEMMA UpwardExists ==
  ASSUME NEW i \in Nat
  PROVE  \E f : IsUpward(f, i)
<1> DEFINE D    == 1 .. i
           V    == SUBSET D
           m    == [j \in D |-> j]
           base == [j \in D |-> {1} \cap D]
           join == [x \in D \X V |-> {x[1]} \cup x[2]]
           nxt  == [j \in D |-> PARENT(j)]
<1>1. m \in [D -> 0 .. i] /\ base \in [D -> V]
  OBVIOUS
<1>2. join \in [D \X V -> V]
  OBVIOUS
<1>3. ASSUME NEW j \in D \ {1} PROVE nxt[j] \in D /\ m[nxt[j]] < m[j]
  BY ParentLemma
<1>4. PICK f \in [D -> V] : IsRecursive(f, D, {1}, base, join, nxt)
  <2>1. \A j \in D \ {1} : nxt[j] \in D /\ m[nxt[j]] < m[j]
    BY <1>3
  <2> HIDE DEF D, V, m, base, join, nxt
  <2>2. QED
    BY <1>1, <1>2, <2>1, RecursionLemma
<1>5. ASSUME NEW j \in D
      PROVE  f[j] = UpTurn(f, j)
  <2>1. CASE j = 1
    <3>1. 1 \in D /\ base[j] = {1}
      BY <2>1
    <3> HIDE DEF base
    <3>2. QED
      BY <1>4, <2>1, <3>1 DEF UpTurn, IsRecursive
  <2>2. CASE j # 1
    <3>1. nxt[j] = PARENT(j) /\ PARENT(j) \in D
      BY <1>3, <2>2
    <3>2. << j, f[PARENT(j)] >> \in D \X V
      BY <3>1
    <3>3. join[<< j, f[PARENT(j)] >>] = {j} \cup f[PARENT(j)]
      BY <3>2
    <3> HIDE DEF join, nxt
    <3>4. QED
      BY <1>4, <2>2, <3>1, <3>3 DEF UpTurn, IsRecursive
  <2>3. QED
    BY <2>1, <2>2
<1>6. f = [j \in D |-> f[j]]
  OBVIOUS
<1>7. QED
  <2> HIDE DEF V, m, base, join, nxt
  <2> QED BY <1>5, <1>6 DEF IsUpward

\* The path does not depend on where the recursion started.
LEMMA UpwardAgrees ==
  ASSUME NEW i \in Nat, NEW k \in Nat, i <= k, NEW f, IsUpward(f, i),
         NEW g, IsUpward(g, k)
  PROVE  \A j \in 1 .. i : f[j] = g[j]
<1> DEFINE G == {j \in Nat : j \in 1 .. i => f[j] = g[j]}
<1>1. \A j \in 1 .. i : f[j] = UpTurn(f, j) /\ g[j] = UpTurn(g, j)
  <2>1. \A j \in 1 .. i : f[j] = UpTurn(f, j)
    BY DEF IsUpward
  <2>2. \A j \in 1 .. k : g[j] = UpTurn(g, j)
    BY DEF IsUpward
  <2>3. QED
    BY <2>1, <2>2
<1>2. ASSUME NEW j \in Nat, \A n \in Nat : n < j => n \in G PROVE j \in G
  <2> SUFFICES ASSUME j \in 1 .. i PROVE f[j] = g[j]
    OBVIOUS
  <2>1. CASE j = 1
    BY <1>1, <2>1 DEF UpTurn
  <2>2. CASE j # 1
    <3>1. PARENT(j) \in 1 .. i /\ PARENT(j) \in Nat /\ PARENT(j) < j
      BY <2>2, ParentLemma
    <3> HIDE DEF IsUpward
    <3>2. f[PARENT(j)] = g[PARENT(j)]
      BY <1>2, <3>1
    <3>3. UpTurn(f, j) = UpTurn(g, j)
      BY <2>2, <3>2 DEF UpTurn
    <3>4. f[j] = UpTurn(f, j) /\ g[j] = UpTurn(g, j)
      BY <1>1
    <3>5. QED
      BY <3>3, <3>4
  <2>3. QED
    BY <2>1, <2>2
<1>3. Nat \subseteq G
  <2> HIDE DEF G
  <2> QED BY <1>2, InductionLemma
<1>4. QED
  BY <1>3

LEMMA UpwardDef ==
  ASSUME NEW i \in Nat \ {0}
  PROVE  Upward(i) = IF i = 1 THEN {1} ELSE {i} \cup Upward(PARENT(i))
<1> DEFINE f(k) == CHOOSE f : IsUpward(f, k)
<1>1. ASSUME NEW k \in Nat PROVE IsUpward(f(k), k) /\ Upward(k) = f(k)[k]
  BY UpwardExists DEF IsUpward, UpTurn, Upward
<1>2. f(i)[i] = IF i = 1 THEN {1} ELSE {i} \cup f(i)[PARENT(i)]
  <2>1. i \in 1 .. i
    OBVIOUS
  <2> HIDE DEF f
  <2>2. QED
    BY <1>1, <2>1 DEF IsUpward, UpTurn
<1> HIDE DEF f
<1>3. CASE i = 1
  BY <1>1, <1>2, <1>3
<1>4. CASE i # 1
  <2>1. PARENT(i) \in Nat /\ PARENT(i) <= i /\ PARENT(i) \in 1 .. PARENT(i)
    BY <1>4, ParentLemma
  <2>2. f(PARENT(i))[PARENT(i)] = f(i)[PARENT(i)]
    BY <1>1, <2>1, UpwardAgrees
  <2>3. QED
    BY <1>1, <1>2, <1>4, <2>1, <2>2
<1>5. QED
  BY <1>3, <1>4

LEMMA UpwardRange ==
  ASSUME NEW i \in Nat \ {0}
  PROVE  Upward(i) \subseteq 1 .. i /\ i \in Upward(i)
<1> DEFINE G == {j \in Nat : j # 0 => Upward(j) \subseteq 1 .. j}
<1>1. ASSUME NEW j \in Nat, \A n \in Nat : n < j => n \in G PROVE j \in G
  <2>1. CASE j <= 1
    BY <2>1, UpwardDef
  <2>2. CASE j > 1
    <3>1. /\ PARENT(j) \in Nat /\ 1 <= PARENT(j) /\ PARENT(j) < j
      BY <2>2, ParentLemma
    <3>2. Upward(PARENT(j)) \subseteq 1 .. PARENT(j)
      BY <1>1, <3>1
    <3>3. QED
      BY <2>2, <3>1, <3>2, UpwardDef
  <2>3. QED
    BY <2>1, <2>2
<1>2. Nat \subseteq G
  <2> HIDE DEF G
  <2> QED BY <1>1, InductionLemma
<1>3. QED
  BY <1>2, UpwardDef

\* Two nodes of one path: the one nearer to the root is above the other.
LEMMA UpwardOrder ==
  ASSUME NEW i \in Nat \ {0}, NEW j \in Upward(i), NEW k \in Upward(i), j <= k
  PROVE  j \in Upward(k) /\ Upward(k) \subseteq Upward(i)
<1> DEFINE P(n) == \A a, b \in Upward(n) : a <= b => /\ a \in Upward(b)
                                                    /\ Upward(b) \subseteq Upward(n)
           G == {n \in Nat : n # 0 => P(n)}
<1>1. ASSUME NEW n \in Nat, \A x \in Nat : x < n => x \in G PROVE n \in G
  <2>1. CASE n <= 1
    BY <2>1, UpwardDef
  <2>2. CASE n > 1
    <3>1. /\ PARENT(n) \in Nat /\ 1 <= PARENT(n) /\ PARENT(n) < n
      BY <2>2, ParentLemma
    <3>2. P(PARENT(n))
      BY <1>1, <3>1
    <3>3. Upward(n) = {n} \cup Upward(PARENT(n))
      BY <2>2, UpwardDef
    <3>4. Upward(PARENT(n)) \subseteq 1 .. PARENT(n)
      BY <3>1, UpwardRange
    <3>5. ASSUME NEW a \in Upward(n), NEW b \in Upward(n), a <= b
          PROVE  a \in Upward(b) /\ Upward(b) \subseteq Upward(n)
      <4>1. CASE b = n
        BY <4>1
      <4>2. CASE b # n
        <5>1. b \in Upward(PARENT(n)) /\ a \in Upward(PARENT(n))
          BY <3>1, <3>3, <3>4, <3>5, <4>2
        <5>2. QED
          BY <3>2, <3>3, <3>5, <5>1
      <4>3. QED
        BY <4>1, <4>2
    <3>6. QED
      BY <3>5
  <2>3. QED
    BY <2>1, <2>2
<1>2. Nat \subseteq G
  <2> HIDE DEF G
  <2> QED BY <1>1, InductionLemma
<1>3. QED
  BY <1>2

LEMMA UpwardParent ==
  ASSUME NEW i \in Nat \ {0}, NEW j \in Upward(i), j > 1
  PROVE  /\ PARENT(j) \in Upward(i) /\ PARENT(j) < j
         /\ \A k \in Upward(i) : k < j => k <= PARENT(j)
<1>1. j \in Nat \ {0} /\ j \in Upward(i)
  BY UpwardRange
<1>2. /\ PARENT(j) \in Nat /\ 1 <= PARENT(j) /\ PARENT(j) < j
  BY <1>1, ParentLemma
<1>3. Upward(j) = {j} \cup Upward(PARENT(j)) /\ Upward(j) \subseteq Upward(i)
  BY <1>1, UpwardDef, UpwardOrder
<1>4. ASSUME NEW k \in Upward(i), k < j PROVE k <= PARENT(j)
  <2>1. k \in Upward(j) /\ k # j
    BY <1>1, <1>4, UpwardRange, UpwardOrder
  <2>2. k \in Upward(PARENT(j))
    BY <1>3, <2>1
  <2>3. QED
    BY <1>2, <2>2, UpwardRange
<1>5. QED
  BY <1>2, <1>3, <1>4, UpwardRange

\* Below a node of a path, other than its end, the path goes on with one child.
LEMMA UpwardChild ==
  ASSUME NEW i \in Nat \ {0}, NEW j \in Upward(i), j # i
  PROVE  \E c \in Upward(i) : PARENT(c) = j /\ c > j
<1> DEFINE P(n) == \A a \in Upward(n) \ {n} : \E c \in Upward(n) : PARENT(c) = a /\ c > a
           G == {n \in Nat : n # 0 => P(n)}
<1>1. ASSUME NEW n \in Nat, \A x \in Nat : x < n => x \in G PROVE n \in G
  <2>1. CASE n <= 1
    BY <2>1, UpwardDef
  <2>2. CASE n > 1
    <3>1. /\ PARENT(n) \in Nat /\ 1 <= PARENT(n) /\ PARENT(n) < n
      BY <2>2, ParentLemma
    <3>2. P(PARENT(n))
      BY <1>1, <3>1
    <3>3. Upward(n) = {n} \cup Upward(PARENT(n))
      BY <2>2, UpwardDef
    <3> HIDE DEF G
    <3>4. P(n)
      BY <3>1, <3>2, <3>3
    <3>5. QED
      BY <3>4 DEF G
  <2>3. QED
    BY <2>1, <2>2
<1>2. Nat \subseteq G
  <2> HIDE DEF G
  <2> QED BY <1>1, InductionLemma
<1>3. QED
  BY <1>2

LEMMA UpwardOneChild ==
  ASSUME NEW i \in Nat \ {0}, NEW c \in Upward(i), NEW d \in Upward(i),
         c > 1, d > 1, PARENT(c) = PARENT(d)
  PROVE  c = d
<1>1. /\ c \in Nat /\ d \in Nat /\ PARENT(c) \in Nat /\ PARENT(c) < c
      /\ PARENT(d) < d
  BY UpwardRange, ParentLemma
<1>2. ~(c < d) /\ ~(d < c)
  BY <1>1, UpwardParent
<1>3. QED
  BY <1>1, <1>2

----------------------------------------------------------------------------
(***************************************************************************)
(* The searches.  Key(node, i) is the time of node i as it is compared.    *)
(***************************************************************************)
Key(node, i) == FromMin(node[i].time)

\* Where the hole stops on its way up: it passed the later events only.
StopsUp(node, i, time, to) ==
  /\ to \in Upward(i)
  /\ \A k \in Upward(i) : k > to => FromMin(time) < Key(node, PARENT(k))
  /\ to # 1 => ~(FromMin(time) < Key(node, PARENT(to)))

UpStop(node, time, f, j) ==
  IF j = 1 \/ EVTTIM_LE(node[PARENT(j)].time, time) THEN j ELSE f[PARENT(j)]

LEMMA UpFacts ==
  ASSUME NEW i \in Nat \ {0}, NEW node, NEW time, FromMin(time) \in Int,
         \A k \in 1 .. i - 1 : Key(node, k) \in Int
  PROVE  StopsUp(node, i, time, tmevt_up(node, i, time))
<1> DEFINE D    == 1 .. i
           m    == [j \in D |-> j]
           stop == {j \in D : j = 1 \/ EVTTIM_LE(node[PARENT(j)].time, time)}
           join == [x \in D \X D |-> x[2]]
           nxt  == [j \in D |-> PARENT(j)]
           IsUp(f) == f = [j \in D |-> UpStop(node, time, f, j)]
<1>1. m \in [D -> 0 .. i] /\ m \in [D -> D] /\ join \in [D \X D -> D]
  OBVIOUS
<1>2. ASSUME NEW j \in D, j # 1
      PROVE  /\ PARENT(j) \in D /\ PARENT(j) < j /\ PARENT(j) \in Nat
             /\ PARENT(j) \in 1 .. i - 1
  <2>1. j \in Nat /\ j > 1 /\ j <= i
    BY <1>2
  <2>2. PARENT(j) \in Nat /\ 1 <= PARENT(j) /\ PARENT(j) < j
    BY <2>1, ParentLemma
  <2>3. QED
    BY <2>1, <2>2
<1>3. \A j \in D \ stop : nxt[j] \in D /\ m[nxt[j]] < m[j]
  BY <1>2
<1>4. PICK f \in [D -> D] : IsRecursive(f, D, stop, m, join, nxt)
  <2> HIDE DEF D, m, stop, join, nxt
  <2> QED BY <1>1, <1>3, RecursionLemma
<1>5. ASSUME NEW j \in D PROVE f[j] = UpStop(node, time, f, j)
  <2>1. CASE j \in stop
    BY <1>4, <2>1 DEF IsRecursive, UpStop
  <2>2. CASE j \notin stop
    <3>1. PARENT(j) \in D /\ nxt[j] = PARENT(j)
      BY <1>2, <2>2
    <3>2. join[<< j, f[PARENT(j)] >>] = f[PARENT(j)]
      BY <3>1
    <3>3. f[j] = join[<< j, f[nxt[j]] >>]
      <4> HIDE DEF D, m, stop, join, nxt
      <4> QED BY <1>4, <2>2 DEF IsRecursive
    <3>4. QED
      BY <2>2, <3>1, <3>2, <3>3 DEF UpStop
  <2>3. QED
    BY <2>1, <2>2
<1>6. \E g : IsUp(g)
  <2>1. f = [j \in D |-> f[j]]
    OBVIOUS
  <2> HIDE DEF D
  <2>2. IsUp(f)
    BY <1>5, <2>1
  <2>3. QED
    BY <2>2
<1> DEFINE g == CHOOSE g : IsUp(g)
<1>7. IsUp(g) /\ tmevt_up(node, i, time) = g[i]
  BY <1>6 DEF tmevt_up, UpStop
<1> HIDE DEF g
<1>8. \A j \in D : g[j] = UpStop(node, time, g, j)
  <2> HIDE DEF D
  <2> QED BY <1>7
<1> HIDE DEF IsUp
<1> DEFINE G == {j \in Nat : j \in D => StopsUp(node, j, time, g[j])}
<1>9. ASSUME NEW j \in Nat, \A n \in Nat : n < j => n \in G PROVE j \in G
  <2> SUFFICES ASSUME j \in D PROVE StopsUp(node, j, time, g[j])
    OBVIOUS
  <2>1. CASE j = 1 \/ EVTTIM_LE(node[PARENT(j)].time, time)
    <3>1. g[j] = j
      BY <1>8, <2>1 DEF UpStop
    <3>2. j \in Upward(j) /\ Upward(j) \subseteq 1 .. j
      BY UpwardRange
    <3>3. j # 1 => ~(FromMin(time) < Key(node, PARENT(j)))
      <4> SUFFICES ASSUME j # 1 PROVE ~(FromMin(time) < Key(node, PARENT(j)))
        OBVIOUS
      <4>1. Key(node, PARENT(j)) <= FromMin(time)
        BY <2>1 DEF EVTTIM_LE, Key
      <4>3. Key(node, PARENT(j)) \in Int
        BY <1>2
      <4>4. QED
        BY <4>1, <4>3
    <3>4. QED
      BY <3>1, <3>2, <3>3 DEF StopsUp
  <2>2. CASE ~(j = 1 \/ EVTTIM_LE(node[PARENT(j)].time, time))
    <3>1. g[j] = g[PARENT(j)]
      BY <1>8, <2>2 DEF UpStop
    <3>2. /\ PARENT(j) \in D /\ PARENT(j) < j
          /\ PARENT(j) \in Nat /\ PARENT(j) \in 1 .. i - 1
      <4> HIDE DEF D
      <4> QED BY <1>2, <2>2
    <3>3. StopsUp(node, PARENT(j), time, g[j])
      BY <1>9, <3>1, <3>2
    <3>4. FromMin(time) < Key(node, PARENT(j))
      <4>1. Key(node, PARENT(j)) \in Int
        BY <3>2
      <4>2. ~(Key(node, PARENT(j)) <= FromMin(time))
        BY <2>2 DEF EVTTIM_LE, Key
      <4>3. QED
        BY <4>1, <4>2
    <3>5. Upward(j) = {j} \cup Upward(PARENT(j))
      BY <2>2, UpwardDef
    <3>6. QED
      BY <3>3, <3>4, <3>5 DEF StopsUp
  <2>3. QED
    BY <2>1, <2>2
<1>10. Nat \subseteq G
  <2> HIDE DEF G
  <2> QED BY <1>9, InductionLemma
<1>11. QED
  BY <1>7, <1>10

\* The child of j on which the way down goes on is the earlier one.
LEMMA EarlierChildFacts ==
  ASSUME NEW last \in Nat, NEW j \in Nat \ {0}, LCHILD(j) <= last, NEW node,
         \A k \in 1 .. last : Key(node, k) \in Int
  PROVE  LET c == EarlierChild(node, last, j) IN
         /\ c \in 2 .. last /\ PARENT(c) = j /\ c > j
         /\ \A k \in 2 .. last : PARENT(k) = j => Key(node, c) <= Key(node, k)
<1> DEFINE c == EarlierChild(node, last, j)
<1>1. c = 2 * j \/ (c = 2 * j + 1 /\ 2 * j + 1 <= last)
  BY DEF EarlierChild, LCHILD
<1>2. c \in 2 .. last /\ PARENT(c) = j /\ c > j
  BY <1>1 DEF LCHILD, PARENT
<1>3. ASSUME NEW k \in 2 .. last, PARENT(k) = j
      PROVE  k = 2 * j \/ k = 2 * j + 1
  BY <1>3 DEF PARENT
<1>4. Key(node, c) <= Key(node, 2 * j)
      /\ (2 * j + 1 <= last => Key(node, c) <= Key(node, 2 * j + 1))
  <2>1. Key(node, 2 * j) \in Int
        /\ (2 * j + 1 <= last => Key(node, 2 * j + 1) \in Int)
    BY DEF LCHILD
  <2>2. CASE 2 * j + 1 <= last /\ Key(node, 2 * j + 1) < Key(node, 2 * j)
    BY <2>1, <2>2 DEF EarlierChild, LCHILD, EVTTIM_LT, Key
  <2>3. CASE ~(2 * j + 1 <= last /\ Key(node, 2 * j + 1) < Key(node, 2 * j))
    BY <2>1, <2>3 DEF EarlierChild, LCHILD, EVTTIM_LT, Key
  <2>4. QED
    BY <2>2, <2>3
<1> HIDE DEF c
<1>5. \A k \in 2 .. last : PARENT(k) = j => Key(node, c) <= Key(node, k)
  BY <1>3, <1>4
<1>6. QED
  BY <1>2, <1>5 DEF c

\* Where the hole at i stops on its way down: it passed the earlier events, at
\* each node the earlier child.
StopsDown(node, last, i, time, to) ==
  /\ to \in i .. last + 1 /\ i \in Upward(to)
  /\ i <= last => to <= last
  /\ \A k \in Upward(to) : k > i =>
       /\ Key(node, k) < FromMin(time)
       /\ \A n \in 2 .. last : PARENT(n) = PARENT(k) => Key(node, k) <= Key(node, n)
  /\ \A n \in 2 .. last : PARENT(n) = to => FromMin(time) <= Key(node, n)

DownStop(node, last, time, f, j) ==
  IF LCHILD(j) > last THEN j
  ELSE IF EVTTIM_LE(time, node[EarlierChild(node, last, j)].time) THEN j
  ELSE f[EarlierChild(node, last, j)]

LEMMA DownFacts ==
  ASSUME NEW last \in Nat, NEW i \in 1 .. last + 1, NEW node, NEW time,
         FromMin(time) \in Int, \A k \in 1 .. last : Key(node, k) \in Int
  PROVE  StopsDown(node, last, i, time, tmevt_down(node, last, i, time))
<1> DEFINE D    == 1 .. last + 1
           m    == [j \in D |-> last + 1 - j]
           id   == [j \in D |-> j]
           c(j) == EarlierChild(node, last, j)
           stop == {j \in D : LCHILD(j) > last \/ EVTTIM_LE(time, node[c(j)].time)}
           join == [x \in D \X D |-> x[2]]
           nxt  == [j \in D |-> c(j)]
           IsDown(f) == f = [j \in D |-> DownStop(node, last, time, f, j)]
<1>1. /\ m \in [D -> 0 .. last + 1] /\ id \in [D -> D]
      /\ join \in [D \X D -> D] /\ last + 1 \in Nat
  OBVIOUS
<1>2. ASSUME NEW j \in D, ~(LCHILD(j) > last)
      PROVE  /\ c(j) \in 2 .. last /\ PARENT(c(j)) = j /\ c(j) > j
             /\ \A k \in 2 .. last : PARENT(k) = j => Key(node, c(j)) <= Key(node, k)
  <2>1. LCHILD(j) <= last /\ j \in Nat \ {0}
    BY <1>2 DEF LCHILD
  <2>2. QED
    BY <2>1, EarlierChildFacts
<1> HIDE DEF c
<1>3. \A j \in D \ stop : nxt[j] \in D /\ m[nxt[j]] < m[j]
  BY <1>2
<1>4. PICK f \in [D -> D] : IsRecursive(f, D, stop, id, join, nxt)
  <2> HIDE DEF D, m, id, stop, join, nxt
  <2> QED BY <1>1, <1>3, RecursionLemma
<1>5. ASSUME NEW j \in D PROVE f[j] = DownStop(node, last, time, f, j)
  <2>1. CASE j \in stop
    <3>1. id[j] = j
      OBVIOUS
    <3>2. QED
      BY <1>4, <2>1, <3>1 DEF IsRecursive, DownStop, c
  <2>2. CASE j \notin stop
    <3>1. c(j) \in D /\ nxt[j] = c(j)
      BY <1>2, <2>2
    <3>2. join[<< j, f[c(j)] >>] = f[c(j)]
      BY <3>1
    <3>3. f[j] = join[<< j, f[nxt[j]] >>]
      <4> HIDE DEF D, m, id, stop, join, nxt
      <4> QED BY <1>4, <2>2 DEF IsRecursive
    <3>4. QED
      BY <2>2, <3>1, <3>2, <3>3 DEF DownStop, c
  <2>3. QED
    BY <2>1, <2>2
<1>6. \E g : IsDown(g)
  <2>1. f = [j \in D |-> f[j]]
    OBVIOUS
  <2> HIDE DEF D
  <2>2. IsDown(f)
    BY <1>5, <2>1
  <2>3. QED
    BY <2>2
<1> DEFINE g == CHOOSE g : IsDown(g)
<1>7. IsDown(g) /\ tmevt_down(node, last, i, time) = g[i]
  BY <1>6 DEF tmevt_down, DownStop
<1> HIDE DEF g
<1>8. \A j \in D : g[j] = DownStop(node, last, time, g, j)
  <2> HIDE DEF D
  <2> QED BY <1>7
<1> HIDE DEF IsDown
<1> DEFINE G == {n \in Nat : \A j \in D : m[j] = n =>
                   StopsDown(node, last, j, time, g[j])}
<1>9. ASSUME NEW n \in Nat, \A k \in Nat : k < n => k \in G PROVE n \in G
  <2> SUFFICES ASSUME NEW j \in D, m[j] = n
               PROVE  StopsDown(node, last, j, time, g[j])
    OBVIOUS
  <2>0. j \in Nat \ {0}
    OBVIOUS
  <2>1. CASE LCHILD(j) > last \/ EVTTIM_LE(time, node[c(j)].time)
    <3>1. g[j] = j
      BY <1>8, <2>1 DEF DownStop, c
    <3>2. j \in Upward(j) /\ Upward(j) \subseteq 1 .. j
      BY <2>0, UpwardRange
    <3>3. \A k \in 2 .. last : PARENT(k) = j => FromMin(time) <= Key(node, k)
      <4>1. CASE LCHILD(j) > last
        BY <4>1 DEF LCHILD, PARENT
      <4>2. CASE ~(LCHILD(j) > last)
        <5>1. /\ c(j) \in 2 .. last
              /\ \A k \in 2 .. last : PARENT(k) = j => Key(node, c(j)) <= Key(node, k)
          BY <1>2, <4>2
        <5>2. FromMin(time) <= Key(node, c(j))
          BY <2>1, <4>2 DEF EVTTIM_LE, Key
        <5>3. \A k \in 2 .. last : Key(node, k) \in Int
          OBVIOUS
        <5>4. QED
          BY <5>1, <5>2, <5>3
      <4>3. QED
        BY <4>1, <4>2
    <3>4. QED
      BY <3>1, <3>2, <3>3 DEF StopsDown
  <2>2. CASE ~(LCHILD(j) > last \/ EVTTIM_LE(time, node[c(j)].time))
    <3>1. g[j] = g[c(j)]
      BY <1>8, <2>2 DEF DownStop, c
    <3>2. PICK ch \in 2 .. last :
            /\ ch = c(j) /\ PARENT(ch) = j /\ ch > j
            /\ \A k \in 2 .. last : PARENT(k) = j => Key(node, ch) <= Key(node, k)
      BY <1>2, <2>2
    <3>3. ch \in D /\ m[ch] \in Nat /\ m[ch] < n
      <4>0. ch \in 2 .. last /\ ch > j
        BY <3>2
      <4>1. last \in Nat /\ j \in Nat /\ ch \in Nat /\ ch <= last /\ 1 <= ch /\ j < ch
        BY <4>0
      <4>2. ch \in D /\ m[ch] = last + 1 - ch /\ m[j] = last + 1 - j
        BY <4>1
      <4>3. QED
        BY <4>1, <4>2
    <3>4. StopsDown(node, last, ch, time, g[j])
      BY <1>9, <3>1, <3>2, <3>3
    <3>5. Key(node, ch) < FromMin(time)
      <4>1. ~(FromMin(time) <= Key(node, ch))
        BY <2>2, <3>2 DEF EVTTIM_LE, Key
      <4>2. QED
        BY <4>1
    <3> DEFINE to == g[j]
    <3>6. to \in ch .. last + 1 /\ ch \in Upward(to) /\ to <= last
      <4>1. to \in ch .. last + 1 /\ ch \in Upward(to) /\ (ch <= last => to <= last)
        BY <3>4 DEF StopsDown
      <4> HIDE DEF to
      <4>2. QED
        BY <4>1
    <3> HIDE DEF to
    <3>7. /\ to \in Nat \ {0} /\ j \in Upward(to) /\ to \in j .. last + 1
          /\ \A k \in Upward(to) : k < ch => k <= j
      <4>0. ch \in 2 .. last /\ ch > j /\ j \in Nat
        BY <3>2
      <4>1. to \in Nat \ {0} /\ ch > 1 /\ to \in j .. last + 1
        <5>1. to \in ch .. last + 1
          BY <3>6
        <5> HIDE DEF D, m
        <5>2. QED
          BY <4>0, <5>1
      <4>2. QED
        BY <3>2, <3>6, <4>1, UpwardParent
    <3>8. ASSUME NEW k \in Upward(to), k > j
          PROVE  /\ Key(node, k) < FromMin(time)
                 /\ \A x \in 2 .. last : PARENT(x) = PARENT(k) => Key(node, k) <= Key(node, x)
      <4>1. k \in Nat
        BY <3>7, UpwardRange
      <4>2. k > ch \/ k = ch
        BY <3>2, <3>7, <3>8, <4>1
      <4>3. QED
        BY <3>2, <3>4, <3>5, <4>2 DEF StopsDown, to
    <3>9. \A x \in 2 .. last : PARENT(x) = to => FromMin(time) <= Key(node, x)
      BY <3>4 DEF StopsDown, to
    <3>10. StopsDown(node, last, j, time, to)
      BY <3>6, <3>7, <3>8, <3>9 DEF StopsDown
    <3>11. QED
      BY <3>10 DEF to
  <2>3. QED
    BY <2>1, <2>2
<1>10. Nat \subseteq G
  <2> HIDE DEF G
  <2> QED BY <1>9, InductionLemma
<1>11. QED
  <2>1. i \in D /\ m[i] \in Nat
    OBVIOUS
  <2> HIDE DEF D, m
  <2>2. QED
    BY <1>7, <1>10, <2>1

----------------------------------------------------------------------------
(***************************************************************************)
(* What Shift and Relink do.  When the hole climbs from a to b, the place  *)
(* j gets the node of the place Climb(a, b, j).                            *)
(***************************************************************************)
Climb(a, b, j) == IF j \in Upward(a) /\ j > b THEN PARENT(j) ELSE j

LEMMA ClimbInto ==
  ASSUME NEW L \in Nat, NEW a \in 1 .. L, NEW b \in Upward(a),
         NEW j \in (1 .. L) \ {b}
  PROVE  Climb(a, b, j) \in (1 .. L) \ {a}
<1>1. a \in Nat \ {0} /\ b \in 1 .. a /\ Upward(a) \subseteq 1 .. a
  BY UpwardRange
<1>2. CASE j \in Upward(a) /\ j > b
  <2>1. j > 1 /\ j \in Nat /\ j <= a
    BY <1>1, <1>2
  <2>2. PARENT(j) \in Nat /\ 1 <= PARENT(j) /\ PARENT(j) < j
    BY <2>1, ParentLemma
  <2>3. PARENT(j) \in (1 .. L) \ {a}
    BY <2>1, <2>2
  <2>4. QED
    BY <1>2, <2>3 DEF Climb
<1>3. CASE ~(j \in Upward(a) /\ j > b)
  <2>1. j # a
    BY <1>1, <1>3, UpwardRange
  <2>2. QED
    BY <1>3, <2>1 DEF Climb
<1>4. QED
  BY <1>2, <1>3

LEMMA ClimbOnce ==
  ASSUME NEW L \in Nat, NEW a \in 1 .. L, NEW b \in Upward(a),
         NEW j \in (1 .. L) \ {b}, NEW k \in (1 .. L) \ {b},
         Climb(a, b, j) = Climb(a, b, k)
  PROVE  j = k
<1>1. a \in Nat \ {0} /\ b \in 1 .. a
  BY UpwardRange
<1>2. ASSUME NEW x \in (1 .. L) \ {b}, NEW y \in (1 .. L) \ {b},
             x \in Upward(a), x > b, ~(y \in Upward(a) /\ y > b),
             PARENT(x) = y
      PROVE  FALSE
  <2>1. x > 1
    BY <1>1, <1>2
  <2>2. y \in Upward(a) /\ (b < x => b <= y)
    BY <1>1, <1>2, <2>1, UpwardParent
  <2>3. QED
    BY <1>1, <1>2, <2>2
<1>3. CASE j \in Upward(a) /\ j > b /\ k \in Upward(a) /\ k > b
  <2>1. j > 1 /\ k > 1
    BY <1>1, <1>3
  <2>2. PARENT(j) = PARENT(k)
    BY <1>3 DEF Climb
  <2>3. QED
    BY <1>1, <1>3, <2>1, <2>2, UpwardOneChild
<1>4. QED
  BY <1>2, <1>3 DEF Climb

LEMMA ClimbOnto ==
  ASSUME NEW L \in Nat, NEW a \in 1 .. L, NEW b \in Upward(a),
         NEW k \in (1 .. L) \ {a}
  PROVE  \E j \in (1 .. L) \ {b} : Climb(a, b, j) = k
<1>1. a \in Nat \ {0} /\ b \in 1 .. a /\ Upward(a) \subseteq 1 .. a
  BY UpwardRange
<1>2. CASE k \in Upward(a) /\ k >= b
  <2>1. PICK c \in Upward(a) : PARENT(c) = k /\ c > k
    BY <1>1, <1>2, UpwardChild
  <2>2. c \in (1 .. L) \ {b} /\ c > b
    BY <1>1, <1>2, <2>1
  <2>3. QED
    BY <2>1, <2>2 DEF Climb
<1>3. CASE ~(k \in Upward(a) /\ k >= b)
  <2>1. k # b /\ ~(k \in Upward(a) /\ k > b)
    BY <1>1, <1>3
  <2>2. QED
    BY <2>1 DEF Climb
<1>4. QED
  BY <1>2, <1>3

\* The nodes whose place changes, and that to, which gets the new one.
Moved(from, to) ==
  {j \in Upward(from) : j >= to} \cup {j \in Upward(to) : j >= from}

OnPath(from, to) == to \in Upward(from) \/ from \in Upward(to)

\* All nodes but the one at from are in N, in the places other than to.
Rearranges(N, node, L, from, to, src) ==
  /\ src \in [(1 .. L) \ {to} -> (1 .. L) \ {from}]
  /\ \A j \in (1 .. L) \ {to} : N[j] = node[src[j]]
  /\ \A j, k \in (1 .. L) \ {to} : src[j] = src[k] => j = k
  /\ \A k \in (1 .. L) \ {from} : \E j \in (1 .. L) \ {to} : src[j] = k
  /\ \A j \in (1 .. L) \ Moved(from, to) : src[j] = j

LEMMA ShiftUp ==
  ASSUME NEW L \in Nat, NEW from \in 1 .. L, NEW to \in Upward(from),
         NEW node, 1 .. L \subseteq DOMAIN node, NEW new
  PROVE  /\ \A j \in (1 .. L) \ {to} :
              Shift(node, from, to, new)[j] = node[Climb(from, to, j)]
         /\ Shift(node, from, to, new)[to] = new
<1> DEFINE N == Shift(node, from, to, new)
<1>1. from \in Nat \ {0} /\ to \in 1 .. from /\ to \in 1 .. L
  BY UpwardRange
<1>2. Upward(to) \subseteq 1 .. to
  BY <1>1, UpwardRange
<1>3. N[to] = new
  BY <1>1 DEF Shift
<1>4. ASSUME NEW j \in (1 .. L) \ {to} PROVE N[j] = node[Climb(from, to, j)]
  <2>1. ~(j \in Upward(to) /\ j >= from)
    BY <1>1, <1>2, <1>4
  <2>2. j \in DOMAIN node
    BY <1>4
  <2>3. QED
    BY <1>4, <2>1, <2>2 DEF Shift, Climb
<1>5. QED
  BY <1>3, <1>4

LEMMA ShiftDown ==
  ASSUME NEW L \in Nat, NEW to \in 1 .. L, NEW from \in Upward(to),
         NEW node, 1 .. L \subseteq DOMAIN node, NEW new
  PROVE  /\ \A k \in (1 .. L) \ {from} :
              Shift(node, from, to, new)[Climb(to, from, k)] = node[k]
         /\ Shift(node, from, to, new)[to] = new
<1> DEFINE N == Shift(node, from, to, new)
<1>1. to \in Nat \ {0} /\ from \in 1 .. to /\ from \in Nat \ {0}
  BY UpwardRange
<1>2. Upward(from) \subseteq 1 .. from /\ Upward(to) \subseteq 1 .. to
  BY <1>1, UpwardRange
<1>3. N[to] = new
  BY <1>1 DEF Shift
<1>4. ASSUME NEW k \in (1 .. L) \ {from} PROVE N[Climb(to, from, k)] = node[k]
  <2> DEFINE j == Climb(to, from, k)
  <2>1. j \in (1 .. L) \ {to} /\ j \in DOMAIN node
    BY <1>4, ClimbInto
  <2>2. ~(j \in Upward(from) /\ j > to)
    BY <1>1, <1>2, <2>1
  <2>3. CASE k \in Upward(to) /\ k > from
    <3>1. j = PARENT(k) /\ k > 1
      BY <1>1, <2>3 DEF Climb
    <3>2. j \in Upward(to) /\ j >= from
      BY <1>1, <2>3, <3>1, UpwardParent
    <3>3. ASSUME NEW c \in Upward(to), PARENT(c) = j PROVE c = k
      <4>1. c > 1
        BY <1>2, <2>1, <3>3 DEF PARENT
      <4>2. QED
        BY <1>1, <2>3, <3>1, <3>3, <4>1, UpwardOneChild
    <3>4. (CHOOSE c \in Upward(to) : PARENT(c) = j) = k
      BY <2>3, <3>1, <3>3
    <3> HIDE DEF j
    <3>5. N[j] = node[CHOOSE c \in Upward(to) : PARENT(c) = j]
      BY <2>1, <2>2, <3>2 DEF Shift
    <3>6. QED
      BY <3>4, <3>5 DEF j
  <2>4. CASE ~(k \in Upward(to) /\ k > from)
    <3>1. j = k /\ ~(k \in Upward(to) /\ k >= from)
      BY <1>1, <1>4, <2>4 DEF Climb
    <3>2. QED
      BY <2>1, <2>2, <3>1 DEF Shift
  <2>5. QED
    BY <2>3, <2>4
<1>5. QED
  BY <1>3, <1>4

LEMMA ShiftMoves ==
  ASSUME NEW L \in Nat, NEW from \in 1 .. L, NEW to \in 1 .. L, OnPath(from, to),
         NEW node, 1 .. L \subseteq DOMAIN node, NEW new
  PROVE  /\ \E src : Rearranges(Shift(node, from, to, new), node, L, from, to, src)
         /\ Shift(node, from, to, new)[to] = new
<1> DEFINE N == Shift(node, from, to, new)
<1>1. CASE to \in Upward(from)
  <2> DEFINE src == [j \in (1 .. L) \ {to} |-> Climb(from, to, j)]
  <2>1. src \in [(1 .. L) \ {to} -> (1 .. L) \ {from}]
    BY <1>1, ClimbInto
  <2>2. /\ \A j \in (1 .. L) \ {to} : N[j] = node[src[j]]
        /\ N[to] = new
    BY <1>1, ShiftUp
  <2>3. \A j, k \in (1 .. L) \ {to} : src[j] = src[k] => j = k
    BY <1>1, ClimbOnce
  <2>4. \A k \in (1 .. L) \ {from} : \E j \in (1 .. L) \ {to} : src[j] = k
    BY <1>1, ClimbOnto
  <2>5. \A j \in (1 .. L) \ Moved(from, to) : j # to /\ src[j] = j
    BY <1>1, UpwardRange DEF Moved, Climb
  <2> HIDE DEF src, N
  <2>6. QED
    BY <2>1, <2>2, <2>3, <2>4, <2>5 DEF Rearranges, N
<1>2. CASE from \in Upward(to)
  <2> DEFINE Is(j, k) == Climb(to, from, k) = j
             src == [j \in (1 .. L) \ {to} |->
                       CHOOSE k \in (1 .. L) \ {from} : Is(j, k)]
  <2>0. \A k \in (1 .. L) \ {from} : Climb(to, from, k) \in (1 .. L) \ {to}
    BY <1>2, ClimbInto
  <2>1. \A j \in (1 .. L) \ {to} : src[j] \in (1 .. L) \ {from} /\ Is(j, src[j])
    <3>1. \A j \in (1 .. L) \ {to} : \E k \in (1 .. L) \ {from} : Is(j, k)
      BY <1>2, ClimbOnto
    <3> HIDE DEF Is
    <3>2. QED
      BY <3>1
  <2>2. /\ \A j \in (1 .. L) \ {to} : N[j] = node[src[j]]
        /\ N[to] = new
    <3>1. /\ \A k \in (1 .. L) \ {from} : N[Climb(to, from, k)] = node[k]
          /\ N[to] = new
      BY <1>2, ShiftDown
    <3> HIDE DEF src, N
    <3>2. QED
      BY <2>1, <3>1
  <2>3. \A j, k \in (1 .. L) \ {to} : src[j] = src[k] => j = k
    <3> HIDE DEF src
    <3> QED BY <2>1
  <2>4. ASSUME NEW k \in (1 .. L) \ {from} PROVE \E j \in (1 .. L) \ {to} : src[j] = k
    <3> DEFINE j == Climb(to, from, k)
    <3>1. j \in (1 .. L) \ {to}
      BY <2>0
    <3>2. src[j] \in (1 .. L) \ {from} /\ Is(j, src[j])
      BY <2>1, <3>1
    <3> HIDE DEF src
    <3>3. src[j] = k
      BY <1>2, <3>2, ClimbOnce
    <3>4. QED
      BY <3>1, <3>3
  <2>5. ASSUME NEW j \in (1 .. L) \ Moved(from, to) PROVE src[j] = j
    <3>1. j # to /\ j # from
      BY <1>2, <2>5, UpwardRange DEF Moved
    <3>2. Climb(to, from, j) = j
      BY <2>5, <3>1 DEF Climb, Moved
    <3>3. src[j] \in (1 .. L) \ {from} /\ Is(j, src[j])
      BY <2>1, <3>1
    <3> HIDE DEF src
    <3>4. QED
      BY <1>2, <3>1, <3>2, <3>3, ClimbOnce
  <2>6. src = [j \in (1 .. L) \ {to} |-> src[j]]
    OBVIOUS
  <2> HIDE DEF src, N, Is
  <2>7. QED
    BY <2>1, <2>2, <2>3, <2>4, <2>5, <2>6 DEF Rearranges, N
<1>3. QED
  BY <1>1, <1>2 DEF OnPath

\* The events of different nodes are different.
Apart(node, J) == \A j, k \in J : node[j].p_tmevtb = node[k].p_tmevtb => j = k

\* Every event that is left has its node again, and the others keep what
\* they had.
Relinked(R, index, M, L) ==
  /\ DOMAIN R = Event
  /\ \A j \in 1 .. L : R[M[j].p_tmevtb] = j
  /\ \A e \in Event : (\A j \in 1 .. L : M[j].p_tmevtb # e) => R[e] = index[e]

LEMMA RelinkLemma ==
  ASSUME NEW L \in Nat, NEW from, NEW to, NEW index, NEW M, DOMAIN M = 1 .. L,
         \A j \in 1 .. L : M[j].p_tmevtb \in Event, Apart(M, 1 .. L),
         \A j \in (1 .. L) \ Moved(from, to) : index[M[j].p_tmevtb] = j
  PROVE  Relinked(Relink(index, M, from, to), index, M, L)
<1> DEFINE R == Relink(index, M, from, to)
           moved == Moved(from, to)
           Has(e, j) == M[j].p_tmevtb = e
<1>1. R = [e \in Event |-> IF \E j \in moved \cap (1 .. L) : Has(e, j)
                             THEN CHOOSE j \in moved \cap (1 .. L) : Has(e, j)
                             ELSE index[e]]
  BY DEF Relink, Moved
<1> HIDE DEF R, moved
<1>2. ASSUME NEW j \in 1 .. L PROVE R[M[j].p_tmevtb] = j
  <2> DEFINE e == M[j].p_tmevtb
  <2>1. e \in Event /\ \A k \in 1 .. L : Has(e, k) => k = j
    BY DEF Apart
  <2>2. Has(e, j)
    OBVIOUS
  <2>3. j \notin moved => index[e] = j
    BY DEF moved
  <2> HIDE DEF e, Has
  <2> DEFINE J == moved \cap (1 .. L)
  <2>4. J \subseteq 1 .. L /\ (j \in moved => j \in J)
    OBVIOUS
  <2>5. R[e] = IF \E k \in J : Has(e, k) THEN CHOOSE k \in J : Has(e, k)
                                        ELSE index[e]
    BY <1>1, <2>1
  <2> HIDE DEF J
  <2>6. ASSUME \E k \in J : Has(e, k) PROVE R[e] = j
    <3>1. (CHOOSE k \in J : Has(e, k)) = j
      BY <2>1, <2>4, <2>6
    <3>2. QED
      BY <2>5, <2>6, <3>1
  <2>7. ASSUME ~ \E k \in J : Has(e, k) PROVE R[e] = j
    BY <2>2, <2>3, <2>7, <2>4, <2>5
  <2>8. R[e] = j
    BY <2>6, <2>7
  <2>9. QED
    BY <2>8 DEF e
<1>3. ASSUME NEW e \in Event, \A j \in 1 .. L : M[j].p_tmevtb # e
      PROVE  R[e] = index[e]
  BY <1>1, <1>3
<1>4. DOMAIN R = Event
  BY <1>1
<1>5. QED
  BY <1>2, <1>3, <1>4 DEF R, Relinked

----------------------------------------------------------------------------
(***************************************************************************)
(* The operations on the heap.  Each event that is registered knows its    *)
(* node (HeapOK); the nodes are in heap order (Sorted).                    *)
(***************************************************************************)
Time == 0 .. TimeSpan - 1
Node == [time : Time, p_tmevtb : Event]

HeapOK(h) ==
  /\ h.node \in Seq(Node)
  /\ h.index \in [Event -> Nat]
  /\ \A i \in 1 .. Len(h.node) : h.index[h.node[i].p_tmevtb] = i
  /\ \A e \in Event : h.index[e] # Unregistered =>
       h.index[e] \in 1 .. Len(h.node) /\ h.node[h.index[e]].p_tmevtb = e

SortedUpTo(node, L) == \A i \in 2 .. L : Key(node, PARENT(i)) <= Key(node, i)

Sorted(h) == SortedUpTo(h.node, Len(h.node))

TimeOf(h, e) == h.node[h.index[e]].time

\* The other events are registered as before.
OthersKept(h, g, e) ==
  \A x \in Event \ {e} :
    /\ g.index[x] = Unregistered <=> h.index[x] = Unregistered
    /\ h.index[x] # Unregistered => TimeOf(g, x) = TimeOf(h, x)

LEMMA WordType ==
  ASSUME NEW x \in Int
  PROVE  Word(x) \in Time /\ Word(x) \in Int /\ TimeSpan \in Nat \ {0}
<1>1. TimeSpan \in Nat
  BY TicAssumption
<1>2. TimeSpan # 0
  <2>1. ASSUME TimeSpan = 0 PROVE FALSE
    <3>1. TMAX_RELTIM = -1
      BY <2>1 DEF TMAX_RELTIM
    <3>2. TIC_DENO * (0 + 1 - 2) = - TIC_DENO
      BY TicAssumption
    <3>3. QED
      BY <2>1, <3>1, <3>2, TicAssumption
  <2>2. QED
    BY <2>1
<1>3. QED
  BY <1>1, <1>2 DEF Word, Time

LEMMA KeyType ==
  ASSUME min_time \in Int, NEW node, NEW i, node[i] \in Node
  PROVE  Key(node, i) \in Time /\ Key(node, i) \in Int
<1>1. node[i].time - min_time \in Int
  BY DEF Node, Time
<1>2. QED
  BY <1>1, WordType DEF Key, FromMin

\* M and R are the nodes and the indices after a move.
Rebuilt(M, R, node, index, L, from, to, new) ==
  /\ M \in [1 .. L -> Node] /\ R \in [Event -> Nat]
  /\ \A j \in 1 .. L : R[M[j].p_tmevtb] = j
  /\ M[to] = new
  /\ \A k \in (1 .. L) \ {from} : \E j \in 1 .. L : M[j] = node[k]
  /\ \A e \in Event :
       e # new.p_tmevtb /\ (\A k \in (1 .. L) \ {from} : node[k].p_tmevtb # e)
         => R[e] = index[e]

LEMMA MoveLinked ==
  ASSUME NEW L \in Nat, NEW from \in 1 .. L, NEW to \in 1 .. L, OnPath(from, to),
         NEW node, 1 .. L \subseteq DOMAIN node, NEW new \in Node,
         NEW index \in [Event -> Nat],
         \A k \in (1 .. L) \ {from} :
           /\ node[k] \in Node /\ node[k].p_tmevtb # new.p_tmevtb
           /\ index[node[k].p_tmevtb] = k,
         NEW M, M = [j \in 1 .. L |-> Shift(node, from, to, new)[j]]
  PROVE  Rebuilt(M, Relink(index, M, from, to), node, index, L, from, to, new)
<1> DEFINE R == Relink(index, M, from, to)
<1>1. PICK src : Rearranges(M, node, L, from, to, src)
  <2>1. PICK src : Rearranges(Shift(node, from, to, new), node, L, from, to, src)
    BY ShiftMoves
  <2>2. Rearranges(M, node, L, from, to, src)
    BY <2>1 DEF Rearranges
  <2>3. QED
    BY <2>2
<1>2. M[to] = new /\ DOMAIN M = 1 .. L
  BY ShiftMoves
<1>3. \A j \in (1 .. L) \ {to} : src[j] \in (1 .. L) \ {from} /\ M[j] = node[src[j]]
  BY <1>1 DEF Rearranges
<1>4. ASSUME NEW j \in 1 .. L PROVE M[j] \in Node
  BY <1>2, <1>3
<1>5. \A j \in 1 .. L : M[j].p_tmevtb \in Event
  BY <1>4 DEF Node
<1>6. Apart(M, 1 .. L)
  <2>1. ASSUME NEW j \in (1 .. L) \ {to}, NEW k \in (1 .. L) \ {to},
               M[j].p_tmevtb = M[k].p_tmevtb
        PROVE  j = k
    <3>1. /\ M[j] = node[src[j]] /\ src[j] \in (1 .. L) \ {from}
          /\ M[k] = node[src[k]] /\ src[k] \in (1 .. L) \ {from}
      BY <1>3
    <3>2. index[M[j].p_tmevtb] = src[j] /\ index[M[k].p_tmevtb] = src[k]
      BY <3>1
    <3>3. src[j] = src[k]
      BY <2>1, <3>2
    <3>4. QED
      BY <1>1, <3>3 DEF Rearranges
  <2>2. \A j \in (1 .. L) \ {to} : M[j].p_tmevtb # M[to].p_tmevtb
    BY <1>2, <1>3
  <2>3. QED
    BY <2>1, <2>2 DEF Apart
<1>7. ASSUME NEW j \in (1 .. L) \ Moved(from, to)
      PROVE  index[M[j].p_tmevtb] = j
  <2>1. j # to /\ src[j] = j
    BY <1>1, <1>7, UpwardRange DEF Moved, Rearranges, OnPath
  <2>2. QED
    BY <1>3, <2>1
<1>8. /\ DOMAIN R = Event
      /\ \A j \in 1 .. L : R[M[j].p_tmevtb] = j
      /\ \A e \in Event : (\A j \in 1 .. L : M[j].p_tmevtb # e) => R[e] = index[e]
  <2>1. index = index /\ \A j \in (1 .. L) \ Moved(from, to) : index[M[j].p_tmevtb] = j
    BY <1>7
  <2>2. Relinked(R, index, M, L)
    BY <1>2, <1>5, <1>6, <2>1, RelinkLemma
  <2> HIDE DEF R
  <2>3. QED
    BY <2>2 DEF Relinked
<1>9. ASSUME NEW e \in Event, e # new.p_tmevtb,
             \A k \in (1 .. L) \ {from} : node[k].p_tmevtb # e
      PROVE  R[e] = index[e]
  <2>1. \A j \in 1 .. L : M[j].p_tmevtb # e
    BY <1>2, <1>3, <1>9
  <2> HIDE DEF R
  <2>2. QED
    BY <1>8, <2>1
<1>10. \A k \in (1 .. L) \ {from} : \E j \in 1 .. L : M[j] = node[k]
  BY <1>1 DEF Rearranges
<1>11. M \in [1 .. L -> Node]
  BY <1>4
<1>12. ASSUME NEW e \in Event PROVE R[e] \in Nat
  <2> HIDE DEF R
  <2>1. CASE \E j \in 1 .. L : M[j].p_tmevtb = e
    BY <1>8, <2>1
  <2>2. CASE ~ \E j \in 1 .. L : M[j].p_tmevtb = e
    BY <1>8, <2>2
  <2>3. QED
    BY <2>1, <2>2
<1>13. R \in [Event -> Nat]
  <2>1. R = [e \in Event |-> R[e]]
    BY DEF Relink
  <2> HIDE DEF R
  <2>2. QED
    BY <1>12, <2>1
<1> HIDE DEF R
<1>14. QED
  BY <1>2, <1>8, <1>9, <1>10, <1>11, <1>13 DEF R, Rebuilt

\* The heap order after a climb, and after a descent.
LEMMA ClimbSorted ==
  ASSUME NEW L \in Nat, NEW from \in 1 .. L, NEW to, NEW node, NEW new, NEW time,
         1 .. L \subseteq DOMAIN node, FromMin(time) \in Int, new.time = time,
         \A k \in 1 .. L : Key(node, k) \in Int,
         StopsUp(node, from, time, to),
         to = from => 2 * from > L,
         \A i \in 2 .. L : (i = from => 2 * from <= L) =>
           Key(node, PARENT(i)) <= Key(node, i)
  PROVE  SortedUpTo(Shift(node, from, to, new), L)
<1> DEFINE N == Shift(node, from, to, new)
<1>1. from \in Nat \ {0} /\ to \in Upward(from) /\ to \in 1 .. from
  BY UpwardRange DEF StopsUp
<1>2. /\ \A j \in (1 .. L) \ {to} : N[j] = node[Climb(from, to, j)]
      /\ N[to] = new
  BY <1>1, ShiftUp
<1> HIDE DEF N
<1>3. Key(N, to) = FromMin(time)
  BY <1>2 DEF Key
<1>4. \A j \in (1 .. L) \ {to} : Key(N, j) = Key(node, Climb(from, to, j))
  BY <1>2 DEF Key
<1>5. ASSUME NEW i \in 2 .. L PROVE Key(N, PARENT(i)) <= Key(N, i)
  <2>0. i \in Nat /\ i > 1 /\ i \in 1 .. L
    BY <1>5
  <2>1. PARENT(i) \in 1 .. L /\ PARENT(i) < i /\ PARENT(i) \in Nat
    BY <2>0, ParentLemma
  <2>2. \A k \in Upward(from) : k > to => FromMin(time) < Key(node, PARENT(k))
    BY DEF StopsUp
  <2>3. CASE i = to
    <3>1. Climb(from, to, PARENT(i)) = PARENT(i) /\ PARENT(i) # to
      BY <1>1, <2>1, <2>3 DEF Climb
    <3>2. Key(N, PARENT(i)) = Key(node, PARENT(i))
      BY <1>4, <2>1, <3>1
    <3>3. ~(FromMin(time) < Key(node, PARENT(to)))
      BY <2>0, <2>3 DEF StopsUp
    <3>4. QED
      BY <1>3, <2>1, <2>3, <3>2, <3>3
  <2>4. CASE i \in Upward(from) /\ i > to
    <3>1. Key(N, i) = Key(node, PARENT(i))
      BY <1>1, <1>4, <2>0, <2>4 DEF Climb
    <3>2. /\ PARENT(i) \in Upward(from)
          /\ to <= PARENT(i) /\ PARENT(i) < from
      BY <1>1, <2>1, <2>4, UpwardParent, UpwardRange
    <3>3. CASE PARENT(i) = to
      <4>1. FromMin(time) < Key(node, PARENT(i))
        BY <2>2, <2>4
      <4>2. QED
        BY <1>3, <2>1, <3>1, <3>3, <4>1
    <3>4. CASE PARENT(i) # to
      <4> DEFINE p == PARENT(i)
      <4>1. p > to /\ p \in 2 .. L /\ p # from
        BY <1>1, <2>1, <3>2, <3>4
      <4> HIDE DEF p
      <4>2. Key(N, p) = Key(node, PARENT(p))
        BY <1>4, <3>2, <4>1 DEF Climb, p
      <4>3. Key(node, PARENT(p)) <= Key(node, p)
        BY <4>1
      <4>4. QED
        BY <3>1, <4>2, <4>3 DEF p
    <3>5. QED
      BY <3>3, <3>4
  <2>5. CASE i # to /\ ~(i \in Upward(from) /\ i > to)
    <3>1. Key(N, i) = Key(node, i)
      BY <1>4, <2>0, <2>5 DEF Climb
    <3>2. i # from
      BY <1>1, <2>5, UpwardRange
    <3>3. Key(node, PARENT(i)) <= Key(node, i)
      BY <3>2
    <3>4. CASE PARENT(i) = to
      <4>1. i = 2 * to \/ i = 2 * to + 1
        BY <2>0, <3>4 DEF PARENT
      <4>2. to # from
        BY <1>5, <4>1
      <4>3. PICK c \in Upward(from) : PARENT(c) = to /\ c > to
        BY <1>1, <4>2, UpwardChild
      <4>4. FromMin(time) < Key(node, to)
        BY <2>2, <4>3
      <4>5. Key(node, to) \in Int /\ Key(node, i) \in Int
        BY <2>0, <2>1, <3>4
      <4>6. QED
        BY <1>3, <3>1, <3>3, <3>4, <4>4, <4>5
    <3>5. CASE PARENT(i) # to /\ PARENT(i) \in Upward(from) /\ PARENT(i) > to
      <4> DEFINE p == PARENT(i)
      <4>1. p \in 2 .. L /\ p \in Nat /\ p > 1
        BY <1>1, <2>1, <3>5
      <4>2. p = from => 2 * from <= L
        BY <2>0 DEF PARENT
      <4>3. Key(node, PARENT(p)) <= Key(node, p)
        BY <4>1, <4>2
      <4>4. Key(N, p) = Key(node, PARENT(p))
        BY <1>4, <2>1, <3>5 DEF Climb
      <4>5. PARENT(p) \in 1 .. L
        BY <4>1, ParentLemma
      <4>6. Key(node, PARENT(p)) \in Int /\ Key(node, p) \in Int /\ Key(node, i) \in Int
        BY <2>0, <2>1, <4>5
      <4> HIDE DEF p
      <4>7. QED
        BY <3>1, <3>3, <4>3, <4>4, <4>6 DEF p
    <3>6. CASE PARENT(i) # to /\ ~(PARENT(i) \in Upward(from) /\ PARENT(i) > to)
      BY <1>4, <2>1, <3>1, <3>3, <3>6 DEF Climb
    <3>7. QED
      BY <3>4, <3>5, <3>6
  <2>6. QED
    BY <2>3, <2>4, <2>5
<1>6. QED
  BY <1>5 DEF SortedUpTo, N

LEMMA DescentSorted ==
  ASSUME NEW L \in Nat, NEW from \in 1 .. L, NEW to, NEW node, NEW new, NEW time,
         1 .. L \subseteq DOMAIN node, FromMin(time) \in Int, new.time = time,
         \A k \in 1 .. L : Key(node, k) \in Int,
         StopsDown(node, L, from, time, to), SortedUpTo(node, L),
         from > 1 => ~(FromMin(time) < Key(node, PARENT(from)))
  PROVE  SortedUpTo(Shift(node, from, to, new), L)
<1> DEFINE N == Shift(node, from, to, new)
<1>1. to \in 1 .. L /\ from \in Upward(to) /\ from <= to /\ to \in Nat \ {0}
  BY DEF StopsDown
<1>2. /\ \A k \in (1 .. L) \ {from} : N[Climb(to, from, k)] = node[k]
      /\ N[to] = new
  BY <1>1, ShiftDown
<1> HIDE DEF N
<1>3. Key(N, to) = FromMin(time)
  BY <1>2 DEF Key
<1>4. /\ \A k \in Upward(to) : k > from => Key(N, PARENT(k)) = Key(node, k)
      /\ \A k \in (1 .. L) \ {from} : ~(k \in Upward(to) /\ k > from) =>
           Key(N, k) = Key(node, k)
  BY <1>1, <1>2, UpwardRange DEF Key, Climb
<1>5. \A k \in Upward(to) : k > from =>
        /\ Key(node, k) < FromMin(time)
        /\ \A n \in 2 .. L : PARENT(n) = PARENT(k) => Key(node, k) <= Key(node, n)
  BY DEF StopsDown
<1>6. Upward(to) \subseteq 1 .. to
  BY <1>1, UpwardRange
<1>7. ASSUME NEW i \in 2 .. L PROVE Key(N, PARENT(i)) <= Key(N, i)
  <2>0. i \in Nat /\ i > 1 /\ i \in 1 .. L
    BY <1>7
  <2>1. PARENT(i) \in 1 .. L /\ PARENT(i) < i /\ PARENT(i) \in Nat
    BY <2>0, ParentLemma
  <2>2. Key(node, PARENT(i)) <= Key(node, i)
    BY DEF SortedUpTo
  \* the node that is now above i
  <2>3. CASE i \in Upward(to) /\ i > from
    <3>1. Key(N, PARENT(i)) = Key(node, i) /\ Key(node, i) < FromMin(time)
      BY <1>4, <1>5, <2>3
    <3>2. CASE i = to
      BY <1>3, <2>0, <3>1, <3>2
    <3>3. CASE i # to
      <4>1. PICK c \in Upward(to) : PARENT(c) = i /\ c > i
        BY <1>1, <2>3, <3>3, UpwardChild
      <4>2. c > from /\ c \in 2 .. L
        BY <1>1, <1>6, <2>0, <2>3, <4>1
      <4>3. Key(N, i) = Key(node, c)
        BY <1>4, <4>1, <4>2
      <4>4. Key(node, PARENT(c)) <= Key(node, c)
        BY <4>2 DEF SortedUpTo
      <4>5. QED
        BY <3>1, <4>1, <4>3, <4>4
    <3>4. QED
      BY <3>2, <3>3
  <2>4. CASE i = from
    <3>1. Key(N, PARENT(i)) = Key(node, PARENT(i))
      BY <1>4, <2>1, <2>4
    <3>2. CASE from = to
      <4>1. ~(FromMin(time) < Key(node, PARENT(from)))
        BY <2>0, <2>4
      <4>2. QED
        BY <1>3, <2>1, <2>4, <3>1, <3>2, <4>1
    <3>3. CASE from # to
      <4>1. PICK c \in Upward(to) : PARENT(c) = i /\ c > i
        BY <1>1, <2>4, <3>3, UpwardChild
      <4>2. c \in 2 .. L
        BY <1>1, <1>6, <2>0, <4>1
      <4>3. Key(N, i) = Key(node, c)
        BY <1>4, <2>4, <4>1
      <4>4. Key(node, i) <= Key(node, c)
        BY <4>1, <4>2 DEF SortedUpTo
      <4>5. /\ Key(node, PARENT(i)) \in Int /\ Key(node, i) \in Int
            /\ Key(node, c) \in Int
        BY <2>0, <2>1, <4>2
      <4>6. QED
        BY <2>2, <3>1, <4>3, <4>4, <4>5
    <3>4. QED
      BY <3>2, <3>3
  <2>5. CASE i # from /\ ~(i \in Upward(to) /\ i > from)
    <3>1. Key(N, i) = Key(node, i) /\ i # to
      BY <1>1, <1>4, <2>0, <2>5, UpwardRange
    <3>2. CASE PARENT(i) = to
      <4>1. FromMin(time) <= Key(node, i)
        BY <3>2 DEF StopsDown
      <4>2. QED
        BY <1>3, <3>1, <3>2, <4>1
    <3>3. CASE PARENT(i) # to /\ PARENT(i) \in Upward(to) /\ PARENT(i) >= from
      <4> DEFINE p == PARENT(i)
      <4>1. PICK c \in Upward(to) : PARENT(c) = p /\ c > p
        BY <1>1, <3>3, UpwardChild
      <4>2. c > from
        BY <1>6, <2>1, <3>3, <4>1
      <4>3. Key(N, p) = Key(node, c) /\ Key(node, c) <= Key(node, i)
        BY <1>4, <1>5, <4>1, <4>2
      <4> HIDE DEF p
      <4>4. QED
        BY <3>1, <4>3 DEF p
    <3>4. CASE PARENT(i) # to /\ ~(PARENT(i) \in Upward(to) /\ PARENT(i) >= from)
      <4>1. PARENT(i) # from
        BY <1>1, <3>4
      <4>2. Key(N, PARENT(i)) = Key(node, PARENT(i))
        BY <1>4, <2>1, <3>4, <4>1
      <4>3. QED
        BY <2>2, <3>1, <4>2
    <3>5. QED
      BY <3>2, <3>3, <3>4
  <2>6. QED
    BY <2>3, <2>4, <2>5
<1>8. QED
  BY <1>7 DEF SortedUpTo, N

----------------------------------------------------------------------------
LEMMA HeapNodes ==
  ASSUME NEW h, HeapOK(h), min_time \in Int
  PROVE  /\ Len(h.node) \in Nat /\ DOMAIN h.node = 1 .. Len(h.node)
         /\ \A i \in 1 .. Len(h.node) :
              /\ h.node[i] \in Node /\ h.node[i].p_tmevtb \in Event
              /\ h.node[i].time \in Time
              /\ Key(h.node, i) \in Int
<1>1. h.node \in Seq(Node) /\ DOMAIN h.node = 1 .. Len(h.node) /\ Len(h.node) \in Nat
  BY DEF HeapOK
<1>2. ASSUME NEW i \in 1 .. Len(h.node)
      PROVE  /\ h.node[i] \in Node /\ h.node[i].p_tmevtb \in Event
             /\ h.node[i].time \in Time
  <2>1. h.node[i] \in Node
    BY <1>1
  <2>2. QED
    BY <2>1 DEF Node
<1>3. ASSUME NEW i \in 1 .. Len(h.node) PROVE Key(h.node, i) \in Int
  BY <1>2, KeyType
<1>4. QED
  BY <1>1, <1>2, <1>3

LEMMA SeqOfFunction ==
  ASSUME NEW L \in Nat, NEW M \in [1 .. L -> Node]
  PROVE  M \in Seq(Node) /\ Len(M) = L
OBVIOUS

LEMMA InsertHeap ==
  ASSUME NEW h, HeapOK(h), min_time \in Int, NEW e \in Event,
         h.index[e] = Unregistered, NEW time \in Time
  PROVE  LET g == tmevtb_insert(h, e, time) IN
         /\ HeapOK(g) /\ OthersKept(h, g, e)
         /\ g.index[e] # Unregistered /\ TimeOf(g, e) = time
         /\ Sorted(h) => Sorted(g)
<1> DEFINE last == Len(h.node) + 1
           new  == [time |-> time, p_tmevtb |-> e]
           to   == tmevt_up(h.node, last, time)
           old  == Append(h.node, new)
           N    == Shift(old, last, to, new)
           R    == Relink(h.index, N, last, to)
           g    == tmevtb_insert(h, e, time)
<1>1. g.node = N /\ g.index = R
  BY DEF tmevtb_insert
<1>2. /\ Len(h.node) \in Nat /\ h.node \in Seq(Node)
      /\ last \in Nat \ {0} /\ last \in 1 .. last
      /\ \A k \in 1 .. last - 1 : /\ k \in 1 .. Len(h.node)
                                  /\ Key(h.node, k) \in Int
  BY HeapNodes DEF HeapOK
<1>3. FromMin(time) \in Int
  BY WordType DEF FromMin, Time
<1>4. StopsUp(h.node, last, time, to)
  BY <1>2, <1>3, UpFacts
<1> HIDE DEF to
<1>5. to \in Upward(last) /\ to \in 1 .. last
  BY <1>2, <1>4, UpwardRange DEF StopsUp
<1>6. /\ new \in Node /\ DOMAIN old = 1 .. last
      /\ \A k \in 1 .. last - 1 : old[k] = h.node[k]
      /\ old[last] = new
  BY <1>2 DEF Node
<1>7. \A k \in (1 .. last) \ {last} : k \in 1 .. last - 1
  BY <1>2
<1>8. \A k \in (1 .. last) \ {last} :
        /\ old[k] \in Node /\ old[k].p_tmevtb # new.p_tmevtb
        /\ h.index[old[k].p_tmevtb] = k
  <2>1. ASSUME NEW k \in 1 .. last - 1
        PROVE  /\ old[k] \in Node /\ old[k].p_tmevtb # new.p_tmevtb
               /\ h.index[old[k].p_tmevtb] = k
    <3>1. old[k] = h.node[k] /\ k \in 1 .. Len(h.node) /\ k # Unregistered
      BY <1>2, <1>6 DEF Unregistered
    <3>2. h.node[k] \in Node /\ h.index[h.node[k].p_tmevtb] = k
      BY <3>1, HeapNodes DEF HeapOK
    <3>3. QED
      BY <3>1, <3>2
  <2> HIDE DEF old, last, new
  <2>2. QED
    BY <1>7, <2>1
<1>9. DOMAIN N = 1 .. last /\ N = [j \in 1 .. last |-> N[j]]
  <2> HIDE DEF old, last, new
  <2>1. DOMAIN N = DOMAIN old
    BY DEF Shift
  <2>2. N = [j \in DOMAIN old |-> N[j]]
    BY DEF Shift
  <2>3. QED
    BY <1>6, <2>1, <2>2
<1>10. OnPath(last, to)
  BY <1>5 DEF OnPath
<1>11. h.index \in [Event -> Nat]
  BY DEF HeapOK
<1> HIDE DEF last, old, new, N
<1>12. /\ N \in [1 .. last -> Node] /\ R \in [Event -> Nat]
       /\ \A j \in 1 .. last : R[N[j].p_tmevtb] = j
       /\ N[to] = new
       /\ \A k \in (1 .. last) \ {last} : \E j \in 1 .. last : N[j] = old[k]
       /\ \A x \in Event :
            x # new.p_tmevtb /\ (\A k \in (1 .. last) \ {last} : old[k].p_tmevtb # x)
              => R[x] = h.index[x]
  <2>1. 1 .. last \subseteq DOMAIN old /\ last \in Nat
    BY <1>2, <1>6
  <2>2. Rebuilt(N, R, old, h.index, last, last, to, new)
    BY <1>2, <1>5, <1>6, <1>8, <1>9, <1>10, <1>11, <2>1, MoveLinked DEF N
  <2> HIDE DEF R
  <2>3. QED
    BY <2>2 DEF Rebuilt
<1> HIDE DEF R
<1>13. N \in Seq(Node) /\ Len(N) = last
  BY <1>2, <1>12, SeqOfFunction
<1>14. new.p_tmevtb = e /\ new.time = time
  BY DEF new
<1>15. R[e] = to /\ N[R[e]] = new
  BY <1>5, <1>12, <1>14
\* an event that was registered keeps its node, wherever it is now
<1>16. ASSUME NEW x \in Event \ {e}, h.index[x] # Unregistered
       PROVE  R[x] \in 1 .. last /\ N[R[x]] = h.node[h.index[x]]
  <2>1. h.index[x] \in 1 .. Len(h.node) /\ h.node[h.index[x]].p_tmevtb = x
    BY <1>16 DEF HeapOK
  <2>2. h.index[x] \in (1 .. last) \ {last} /\ h.index[x] \in 1 .. last - 1
    BY <1>2, <2>1 DEF last
  <2>3. old[h.index[x]] = h.node[h.index[x]]
    BY <1>6, <2>2
  <2>4. PICK j \in 1 .. last : N[j] = old[h.index[x]]
    BY <1>12, <2>2
  <2>5. R[x] = j
    BY <1>12, <2>1, <2>3, <2>4
  <2>6. QED
    BY <2>3, <2>4, <2>5
<1>17. ASSUME NEW x \in Event \ {e}, h.index[x] = Unregistered
       PROVE  R[x] = Unregistered
  <2>1. \A k \in (1 .. last) \ {last} : old[k].p_tmevtb # x
    <3>1. \A k \in (1 .. last) \ {last} : k # Unregistered
      BY DEF Unregistered
    <3>2. QED
      BY <1>8, <1>17, <3>1
  <2>2. QED
    BY <1>12, <1>14, <1>17, <2>1
<1>18. \A k \in 1 .. last : k # Unregistered
  BY DEF Unregistered
<1>19. ASSUME NEW x \in Event, R[x] # Unregistered
       PROVE  R[x] \in 1 .. Len(N) /\ N[R[x]].p_tmevtb = x
  <2>1. CASE x = e
    BY <1>5, <1>13, <1>14, <1>15, <2>1
  <2>2. CASE x # e
    <3>1. h.index[x] # Unregistered
      BY <1>17, <1>19, <2>2
    <3>2. h.node[h.index[x]].p_tmevtb = x
      BY <3>1 DEF HeapOK
    <3>3. QED
      BY <1>13, <1>16, <2>2, <3>1, <3>2
  <2>3. QED
    BY <2>1, <2>2
<1>20. HeapOK(g)
  BY <1>1, <1>12, <1>13, <1>19 DEF HeapOK
<1>21. OthersKept(h, g, e)
  BY <1>1, <1>16, <1>17, <1>18 DEF OthersKept, TimeOf
<1>22. g.index[e] # Unregistered /\ TimeOf(g, e) = time
  BY <1>1, <1>5, <1>14, <1>15, <1>18 DEF TimeOf
<1>23. ASSUME Sorted(h) PROVE Sorted(g)
  <2>1. \A k \in 1 .. last - 1 : Key(old, k) = Key(h.node, k)
    BY <1>6 DEF Key
  <2>2. Key(old, last) = FromMin(time)
    BY <1>6, <1>14 DEF Key
  <2>3. \A k \in 1 .. last : Key(old, k) \in Int
    BY <1>2, <1>3, <1>7, <2>1, <2>2
  <2>4. ASSUME NEW k \in Upward(last), k > 1
        PROVE  PARENT(k) \in 1 .. last - 1
    <3>1. k \in Nat /\ k <= last
      BY <1>2, UpwardRange
    <3>2. QED
      BY <1>2, <2>4, <3>1, ParentLemma
  <2>5. StopsUp(old, last, time, to)
    <3>1. \A k \in Upward(last) : k > to => FromMin(time) < Key(old, PARENT(k))
      BY <1>4, <1>5, <2>1, <2>4 DEF StopsUp
    <3>2. to # 1 => ~(FromMin(time) < Key(old, PARENT(to)))
      BY <1>4, <1>5, <2>1, <2>4 DEF StopsUp
    <3>3. QED
      BY <1>5, <3>1, <3>2 DEF StopsUp
  <2>6. ASSUME NEW i \in 2 .. last, i # last
        PROVE  Key(old, PARENT(i)) <= Key(old, i)
    <3>1. i \in 2 .. Len(h.node) /\ i \in Nat /\ i > 1 /\ i \in 1 .. last - 1
      BY <1>2, <2>6 DEF last
    <3>2. PARENT(i) \in 1 .. last - 1
      BY <1>2, <3>1, ParentLemma
    <3>3. Key(h.node, PARENT(i)) <= Key(h.node, i)
      BY <1>23, <3>1 DEF Sorted, SortedUpTo
    <3>4. QED
      BY <2>1, <3>1, <3>2, <3>3
  <2>7. 2 * last > last /\ ~(2 * last <= last)
    BY <1>2
  <2>8. SortedUpTo(N, last)
    <3>1. /\ last \in Nat /\ last \in 1 .. last /\ 1 .. last \subseteq DOMAIN old
      BY <1>2, <1>6
    <3>2. \A i \in 2 .. last : (i = last => 2 * last <= last) =>
            Key(old, PARENT(i)) <= Key(old, i)
      BY <2>6, <2>7
    <3>3. QED
      BY <1>3, <1>14, <2>3, <2>5, <2>7, <3>1, <3>2, ClimbSorted DEF N
  <2>9. QED
    BY <1>1, <1>13, <2>8 DEF Sorted
<1>24. QED
  BY <1>20, <1>21, <1>22, <1>23

\* The hole at the node of e ends at to, which is on its path up or down; or
\* it is the last node.
LEMMA DeleteAtHeap ==
  ASSUME NEW h, HeapOK(h), min_time \in Int, NEW e \in Event,
         h.index[e] # Unregistered, NEW to,
         h.index[e] = Len(h.node) => to = h.index[e],
         h.index[e] # Len(h.node) =>
           to \in 1 .. Len(h.node) - 1 /\ OnPath(h.index[e], to)
  PROVE  LET g == DeleteAt(h, e, h.index[e], to) IN
         /\ HeapOK(g) /\ OthersKept(h, g, e) /\ g.index[e] = Unregistered
         /\ Len(g.node) = Len(h.node) - 1
         /\ \A j \in 1 .. Len(h.node) - 1 :
              g.node[j] = Shift(h.node, h.index[e], to, h.node[Len(h.node)])[j]
<1> DEFINE i    == h.index[e]
           last == Len(h.node) - 1
           new  == h.node[Len(h.node)]
           N    == Shift(h.node, i, to, new)
           M    == SubSeq(N, 1, last)
           R    == Relink(h.index, M, i, to)
           g    == DeleteAt(h, e, i, to)
<1>1. /\ Len(h.node) \in Nat /\ h.node \in Seq(Node)
      /\ i \in 1 .. Len(h.node) /\ h.node[i].p_tmevtb = e
      /\ DOMAIN h.node = 1 .. Len(h.node)
  BY HeapNodes DEF HeapOK
<1>2. last \in Nat /\ 1 .. last \subseteq DOMAIN h.node /\ last + 1 = Len(h.node)
      /\ (1 .. last) \cup {last + 1} = 1 .. Len(h.node) /\ last + 1 \notin 1 .. last
  BY <1>1
<1>3. new \in Node /\ new = h.node[last + 1] /\ h.index[new.p_tmevtb] = last + 1
      /\ new.p_tmevtb \in Event
  BY <1>1, <1>2, HeapNodes DEF HeapOK
<1>4. g.node = M /\ g.index = [R EXCEPT ![e] = Unregistered]
  BY <1>2 DEF DeleteAt
<1>5. /\ N = [j \in 1 .. Len(h.node) |-> N[j]]
      /\ \A j \in 1 .. Len(h.node) : N[j] \in Node
  <2>1. DOMAIN N = 1 .. Len(h.node) /\ N = [j \in 1 .. Len(h.node) |-> N[j]]
    BY <1>1 DEF Shift
  <2>2. CASE i = Len(h.node)
    <3>1. \A j \in 1 .. Len(h.node) : N[j] = h.node[j]
      <4>1. i \in Nat \ {0} /\ to = i
        BY <1>1, <2>2
      <4>2. \A j \in Upward(i) : j <= i
        BY <4>1, UpwardRange
      <4> HIDE DEF i
      <4>3. QED
        BY <1>1, <1>2, <2>2, <4>1, <4>2 DEF Shift
    <3>2. QED
      BY <2>1, <3>1, HeapNodes
  <2>3. CASE i # Len(h.node)
    <3>1. i \in 1 .. last /\ to \in 1 .. last /\ OnPath(i, to)
      BY <1>1, <2>3
    <3>2. PICK src : Rearranges(N, h.node, last, i, to, src)
      BY <1>2, <3>1, ShiftMoves
    <3>3. N[to] = new
      BY <1>2, <3>1, ShiftMoves
    <3>4. \A j \in (1 .. last) \ {to} : N[j] \in Node
      <4>1. ASSUME NEW j \in (1 .. last) \ {to} PROVE N[j] \in Node
        <5>1. N[j] = h.node[src[j]] /\ src[j] \in 1 .. last
          BY <3>2 DEF Rearranges
        <5>2. src[j] \in 1 .. Len(h.node)
          BY <1>2, <5>1
        <5>3. QED
          BY <5>1, <5>2, HeapNodes
      <4>2. QED
        BY <4>1
    <3>5. N[last + 1] = new
      <4>1. i \in Nat \ {0} /\ to \in Nat \ {0} /\ last + 1 # to
        BY <3>1
      <4>2. /\ \A j \in Upward(i) : j <= i
            /\ \A j \in Upward(to) : j <= to
        BY <4>1, UpwardRange
      <4>3. last + 1 \notin Upward(i) /\ last + 1 \notin Upward(to)
        BY <1>2, <3>1, <4>2
      <4> HIDE DEF i, last, new
      <4>4. QED
        BY <1>1, <1>2, <1>3, <4>1, <4>3 DEF Shift
    <3>6. QED
      BY <1>2, <1>3, <2>1, <3>3, <3>4, <3>5
  <2>4. QED
    BY <2>2, <2>3
<1> HIDE DEF N, last, new, g
<1>6. /\ M = [j \in 1 .. last |-> N[j]] /\ M \in [1 .. last -> Node]
      /\ M \in Seq(Node) /\ Len(M) = last /\ DOMAIN M = 1 .. last
  <2>1. N \in [1 .. Len(h.node) -> Node]
    BY <1>5
  <2>2. N \in Seq(Node) /\ Len(N) = Len(h.node)
    BY <1>1, <2>1, SeqOfFunction
  <2>3. Len(M) = last /\ \A j \in 1 .. last : M[j] = N[j]
    BY <1>2, <2>2
  <2>4. M \in Seq(Node) /\ DOMAIN M = 1 .. last
    BY <1>2, <2>2
  <2>5. M = [j \in 1 .. last |-> M[j]]
    BY <2>4
  <2> HIDE DEF M
  <2>6. QED
    BY <1>2, <1>5, <2>3, <2>4, <2>5
<1> HIDE DEF M
\* every other event has its node, wherever it is now
<1>7. /\ R \in [Event -> Nat]
      /\ \A j \in 1 .. last : R[M[j].p_tmevtb] = j /\ M[j].p_tmevtb # e
      /\ \A k \in 1 .. Len(h.node) : k # i => \E j \in 1 .. last : M[j] = h.node[k]
      /\ \A x \in Event :
           (\A k \in 1 .. Len(h.node) : h.node[k].p_tmevtb # x) => R[x] = h.index[x]
  <2>0. /\ h.index \in [Event -> Nat]
        /\ \A k \in 1 .. Len(h.node) : h.index[h.node[k].p_tmevtb] = k
    BY DEF HeapOK
  <2>1. CASE i = Len(h.node)
    <3>1. i \in Nat \ {0} /\ to = i /\ i = last + 1
      BY <1>1, <1>2, <2>1
    <3>2. \A j \in Upward(i) : j <= i
      BY <3>1, UpwardRange
    <3>3. \A j \in 1 .. last : M[j] = h.node[j]
      <4> HIDE DEF i
      <4> QED BY <1>1, <1>2, <1>6, <3>1, <3>2 DEF Shift, N
    <3>4. \A j \in 1 .. last : j \notin Moved(i, to)
      BY <1>2, <3>1, <3>2 DEF Moved
    <3>5. R = h.index
      <4>1. R = [x \in Event |-> h.index[x]]
        BY <1>6, <3>4 DEF Relink, Moved
      <4>2. QED
        BY <2>0, <4>1
    <3> HIDE DEF R
    <3>6. \A j \in 1 .. last : R[M[j].p_tmevtb] = j /\ M[j].p_tmevtb # e
      BY <1>2, <2>0, <3>1, <3>3, <3>5
    <3>7. \A k \in 1 .. Len(h.node) : k # i => \E j \in 1 .. last : M[j] = h.node[k]
      BY <1>2, <3>1, <3>3
    <3>8. QED
      BY <2>0, <3>5, <3>6, <3>7
  <2>2. CASE i # Len(h.node)
    <3>1. i \in 1 .. last /\ to \in 1 .. last /\ OnPath(i, to)
      BY <1>1, <1>2, <2>2 DEF last
    <3>2. \A k \in (1 .. last) \ {i} :
            /\ h.node[k] \in Node /\ h.node[k].p_tmevtb # new.p_tmevtb
            /\ h.index[h.node[k].p_tmevtb] = k
      BY <1>2, <1>3, <2>0, HeapNodes
    <3> HIDE DEF i
    <3>3. /\ R \in [Event -> Nat]
          /\ \A j \in 1 .. last : R[M[j].p_tmevtb] = j
          /\ M[to] = new
          /\ \A k \in (1 .. last) \ {i} : \E j \in 1 .. last : M[j] = h.node[k]
          /\ \A x \in Event :
               x # new.p_tmevtb /\ (\A k \in (1 .. last) \ {i} : h.node[k].p_tmevtb # x)
                 => R[x] = h.index[x]
      <4>1. Rebuilt(M, R, h.node, h.index, last, i, to, new)
        <5>1. M = [j \in 1 .. last |-> Shift(h.node, i, to, new)[j]]
          BY <1>6 DEF N
        <5>2. /\ last \in Nat /\ 1 .. last \subseteq DOMAIN h.node /\ new \in Node
              /\ h.index \in [Event -> Nat]
          BY <1>2, <1>3, <2>0
        <5>3. QED
          BY <3>1, <3>2, <5>1, <5>2, MoveLinked
      <4> HIDE DEF R
      <4>2. QED
        BY <4>1 DEF Rebuilt
    <3> HIDE DEF R
    <3>4. \A k \in 1 .. Len(h.node) : k # i => \E j \in 1 .. last : M[j] = h.node[k]
      BY <1>2, <1>3, <3>1, <3>3
    <3>5. ASSUME NEW x \in Event, \A k \in 1 .. Len(h.node) : h.node[k].p_tmevtb # x
          PROVE  R[x] = h.index[x]
      BY <1>2, <1>3, <3>3, <3>5
    <3>6. ASSUME NEW j \in 1 .. last PROVE M[j].p_tmevtb # e
      <4>1. PICK src : Rearranges(N, h.node, last, i, to, src)
        BY <1>2, <3>1, ShiftMoves DEF N
      <4>2. CASE j = to
        BY <1>1, <1>2, <1>3, <2>0, <2>2, <3>3, <4>2 DEF i
      <4>3. CASE j # to
        <5>1. M[j] = h.node[src[j]] /\ src[j] \in (1 .. last) \ {i}
          BY <1>6, <4>1, <4>3 DEF Rearranges
        <5>2. h.index[M[j].p_tmevtb] = src[j]
          BY <3>2, <5>1
        <5>3. QED
          BY <5>1, <5>2 DEF i
      <4>4. QED
        BY <4>2, <4>3
    <3>7. QED
      BY <3>3, <3>4, <3>5, <3>6
  <2>3. QED
    BY <2>1, <2>2
<1> HIDE DEF R
<1>8. \A k \in 1 .. last : k # Unregistered
  BY DEF Unregistered
<1>9. ASSUME NEW x \in Event \ {e}, h.index[x] # Unregistered
      PROVE  R[x] \in 1 .. last /\ M[R[x]] = h.node[h.index[x]]
  <2>1. h.index[x] \in 1 .. Len(h.node) /\ h.node[h.index[x]].p_tmevtb = x
    BY <1>9 DEF HeapOK
  <2>2. h.index[x] # i
    BY <1>1, <2>1
  <2>3. PICK j \in 1 .. last : M[j] = h.node[h.index[x]]
    BY <1>7, <2>1, <2>2
  <2>4. R[x] = j
    BY <1>7, <2>1, <2>3
  <2>5. QED
    BY <2>3, <2>4
<1>10. ASSUME NEW x \in Event \ {e}, h.index[x] = Unregistered
       PROVE  R[x] = Unregistered
  <2>1. \A k \in 1 .. Len(h.node) : h.node[k].p_tmevtb # x
    BY <1>10 DEF HeapOK, Unregistered
  <2>2. QED
    BY <1>7, <1>10, <2>1
<1>11. /\ g.index \in [Event -> Nat] /\ g.index[e] = Unregistered
       /\ \A x \in Event \ {e} : g.index[x] = R[x]
       /\ \A j \in 1 .. last : g.index[M[j].p_tmevtb] = j
  <2>1. \A j \in 1 .. last : M[j].p_tmevtb \in Event \ {e}
    BY <1>6, <1>7 DEF Node
  <2>2. QED
    BY <1>4, <1>7, <2>1 DEF Unregistered
<1>12. HeapOK(g)
  <2>1. ASSUME NEW x \in Event, g.index[x] # Unregistered
        PROVE  g.index[x] \in 1 .. Len(M) /\ M[g.index[x]].p_tmevtb = x
    <3>1. x # e
      BY <1>11, <2>1
    <3>2. g.index[x] = R[x] /\ h.index[x] # Unregistered
      BY <1>10, <1>11, <2>1, <3>1
    <3>3. h.node[h.index[x]].p_tmevtb = x
      BY <3>2 DEF HeapOK
    <3>4. QED
      BY <1>6, <1>9, <3>1, <3>2, <3>3
  <2>2. QED
    BY <1>4, <1>6, <1>11, <2>1 DEF HeapOK
<1>13. OthersKept(h, g, e)
  BY <1>4, <1>8, <1>9, <1>10, <1>11 DEF OthersKept, TimeOf
<1>14. QED
  <2>1. Len(g.node) = last /\ \A j \in 1 .. last : g.node[j] = N[j]
    BY <1>4, <1>6
  <2>2. /\ Len(g.node) = Len(h.node) - 1
        /\ \A j \in 1 .. Len(h.node) - 1 : g.node[j] = N[j]
    BY <2>1 DEF last
  <2>3. QED
    BY <1>11, <1>12, <1>13, <2>2 DEF g, N, new

LEMMA SortedSame ==
  ASSUME NEW L \in Nat, NEW N, NEW M, \A j \in 1 .. L : M[j] = N[j],
         SortedUpTo(N, L)
  PROVE  SortedUpTo(M, L)
<1>1. ASSUME NEW i \in 2 .. L PROVE Key(M, PARENT(i)) <= Key(M, i)
  <2>1. i \in Nat /\ i > 1 /\ i \in 1 .. L
    OBVIOUS
  <2>2. PARENT(i) \in 1 .. L
    BY <2>1, ParentLemma
  <2>3. Key(N, PARENT(i)) <= Key(N, i)
    BY DEF SortedUpTo
  <2>4. QED
    BY <2>1, <2>2, <2>3 DEF Key
<1>2. QED
  BY <1>1 DEF SortedUpTo

\* Where the hole ends: on the path of the deleted node, up or down.
LEMMA HoleUp ==
  ASSUME NEW node, NEW last \in Nat, NEW i \in 1 .. last, NEW time, i > 1,
         FromMin(time) \in Int, FromMin(time) < Key(node, PARENT(i)),
         \A k \in 1 .. last : Key(node, k) \in Int
  PROVE  LET to == tmevt_up(node, PARENT(i), time) IN
         /\ StopsUp(node, i, time, to)
         /\ to \in 1 .. last /\ to # i
<1> DEFINE to == tmevt_up(node, PARENT(i), time)
<1>1. /\ PARENT(i) \in Nat \ {0} /\ PARENT(i) < i /\ PARENT(i) \in 1 .. last
      /\ \A k \in 1 .. PARENT(i) - 1 : k \in 1 .. last
  BY ParentLemma
<1>2. StopsUp(node, PARENT(i), time, to)
  BY <1>1, UpFacts
<1> HIDE DEF to
<1>3. to \in Upward(PARENT(i)) /\ to \in 1 .. PARENT(i)
  BY <1>1, <1>2, UpwardRange DEF StopsUp
<1>4. Upward(i) = {i} \cup Upward(PARENT(i))
  BY UpwardDef
<1>5. StopsUp(node, i, time, to)
  BY <1>2, <1>3, <1>4 DEF StopsUp
<1>6. to \in 1 .. last /\ to # i
  BY <1>1, <1>3
<1>7. QED
  BY <1>5, <1>6 DEF to

LEMMA DeleteHeap ==
  ASSUME NEW h, HeapOK(h), min_time \in Int, NEW e \in Event,
         h.index[e] # Unregistered, Sorted(h)
  PROVE  LET g == tmevtb_delete(h, e) IN
         /\ HeapOK(g) /\ OthersKept(h, g, e) /\ g.index[e] = Unregistered
         /\ Sorted(g)
<1> DEFINE i    == h.index[e]
           last == Len(h.node) - 1
           new  == h.node[last + 1]
           time == new.time
           to   == IF last = 0 THEN i ELSE HoleTarget(h.node, last, i, time)
           N(x) == Shift(h.node, i, x, h.node[Len(h.node)])
           Good(g) == /\ HeapOK(g) /\ OthersKept(h, g, e)
                      /\ g.index[e] = Unregistered /\ Sorted(g)
<1>1. /\ Len(h.node) \in Nat /\ i \in 1 .. Len(h.node)
      /\ DOMAIN h.node = 1 .. Len(h.node)
      /\ \A k \in 1 .. Len(h.node) : Key(h.node, k) \in Int
  BY HeapNodes DEF HeapOK
<1>2. /\ last \in Nat /\ last + 1 = Len(h.node) /\ last + 1 \in 1 .. Len(h.node)
      /\ 1 .. last \subseteq DOMAIN h.node
      /\ \A k \in 1 .. last : Key(h.node, k) \in Int
  BY <1>1
<1>3. FromMin(time) = Key(h.node, last + 1) /\ FromMin(time) \in Int
  BY <1>1, <1>2 DEF Key
<1>4. tmevtb_delete(h, e) = DeleteAt(h, e, i, to)
  BY DEF tmevtb_delete
<1>5. SortedUpTo(h.node, last)
  BY <1>1, <1>2 DEF Sorted, SortedUpTo
<1> HIDE DEF last, time
<1>6. CASE i = last + 1
  <2>1. to = i
    <3>1. CASE last = 0
      BY <3>1
    <3>2. CASE last # 0
      <4>1. i \in 2 .. Len(h.node) /\ i \in Nat
        BY <1>2, <1>6, <3>2
      <4>2. PARENT(i) \in 1 .. last
        BY <1>2, <1>6, <4>1, ParentLemma
      <4>3. Key(h.node, PARENT(i)) <= Key(h.node, i)
        BY <4>1 DEF Sorted, SortedUpTo
      <4>4. ~ EVTTIM_LT(time, h.node[PARENT(i)].time)
        <5>1. Key(h.node, PARENT(i)) \in Int
          BY <1>2, <4>2
        <5>2. ~(FromMin(time) < Key(h.node, PARENT(i)))
          BY <1>3, <1>6, <4>3, <5>1
        <5>3. QED
          BY <5>2 DEF EVTTIM_LT, Key
      <4>5. to = tmevt_down(h.node, last, i, time)
        BY <3>2, <4>4 DEF HoleTarget
      <4>6. StopsDown(h.node, last, i, time, to)
        <5>1. i \in 1 .. last + 1
          BY <1>2, <1>6
        <5>2. StopsDown(h.node, last, i, time, tmevt_down(h.node, last, i, time))
          BY <1>2, <1>3, <5>1, DownFacts
        <5>3. QED
          BY <4>5, <5>2
      <4> HIDE DEF to
      <4>7. to \in i .. last + 1
        BY <4>6 DEF StopsDown
      <4>8. QED
        BY <1>2, <1>6, <4>7
    <3>3. QED
      BY <3>1, <3>2
  <2> DEFINE g == DeleteAt(h, e, i, to)
  <2> HIDE DEF to
  <2>2. /\ HeapOK(g) /\ OthersKept(h, g, e) /\ g.index[e] = Unregistered
        /\ Len(g.node) = Len(h.node) - 1
        /\ \A j \in 1 .. Len(h.node) - 1 : g.node[j] = N(to)[j]
    <3>1. i = Len(h.node) /\ to = i
      BY <1>2, <1>6, <2>1
    <3>2. QED
      BY <3>1, DeleteAtHeap
  <2> HIDE DEF g
  <2>3. Len(g.node) = last /\ \A j \in 1 .. last : g.node[j] = N(to)[j]
    BY <2>2 DEF last
  <2>4. \A j \in 1 .. last : g.node[j] = h.node[j]
    <3>1. i \in Nat \ {0}
      BY <1>2, <1>6
    <3>2. \A j \in Upward(i) : j <= i
      BY <3>1, UpwardRange
    <3>3. \A j \in 1 .. last : j < i /\ j \in DOMAIN h.node
      BY <1>2, <1>6
    <3> HIDE DEF i
    <3>4. \A j \in 1 .. last : N(to)[j] = h.node[j]
      BY <1>2, <2>1, <3>1, <3>2, <3>3 DEF Shift
    <3>5. QED
      BY <2>3, <3>4
  <2>5. Sorted(g)
    BY <1>2, <1>5, <2>3, <2>4, SortedSame DEF Sorted
  <2>6. QED
    BY <1>4, <2>2, <2>5 DEF g
<1>7. CASE i # last + 1
  <2>1. i \in 1 .. last /\ last # 0
    BY <1>1, <1>2, <1>7
  <2>2. to = HoleTarget(h.node, last, i, time)
    BY <2>1
  <2> HIDE DEF to
  <2>3. new.time = time /\ new = h.node[Len(h.node)]
    BY <1>2 DEF time
  <2> HIDE DEF new
  <2>4. /\ to \in 1 .. last /\ OnPath(i, to)
        /\ SortedUpTo(N(to), last)
    <3>1. CASE i > 1 /\ EVTTIM_LT(time, h.node[PARENT(i)].time)
      <4>1. to = tmevt_up(h.node, PARENT(i), time)
        BY <2>2, <3>1 DEF HoleTarget
      <4>2. FromMin(time) < Key(h.node, PARENT(i))
        BY <3>1 DEF EVTTIM_LT, Key
      <4>3. StopsUp(h.node, i, time, to) /\ to \in 1 .. last /\ to # i
        BY <1>2, <1>3, <2>1, <3>1, <4>1, <4>2, HoleUp
      <4>4. \A k \in 2 .. last : Key(h.node, PARENT(k)) <= Key(h.node, k)
        BY <1>5 DEF SortedUpTo
      <4> HIDE DEF i
      <4>5. SortedUpTo(Shift(h.node, i, to, new), last)
        BY <1>2, <1>3, <2>1, <2>3, <4>3, <4>4, ClimbSorted
      <4>6. QED
        BY <2>3, <4>3, <4>5 DEF OnPath, StopsUp
    <3>2. CASE ~(i > 1 /\ EVTTIM_LT(time, h.node[PARENT(i)].time))
      <4>1. to = tmevt_down(h.node, last, i, time)
        BY <2>2, <3>2 DEF HoleTarget
      <4>2. i > 1 => ~(FromMin(time) < Key(h.node, PARENT(i)))
        BY <3>2 DEF EVTTIM_LT, Key
      <4>3. i \in 1 .. last + 1
        <5> HIDE DEF i
        <5> QED BY <1>2, <2>1
      <4>4. StopsDown(h.node, last, i, time, to)
        BY <1>2, <1>3, <4>1, <4>3, DownFacts
      <4>5. to \in 1 .. last /\ i \in Upward(to)
        BY <2>1, <4>4 DEF StopsDown
      <4> HIDE DEF i
      <4>6. SortedUpTo(Shift(h.node, i, to, new), last)
        BY <1>2, <1>3, <1>5, <2>1, <2>3, <4>2, <4>4, DescentSorted
      <4>7. QED
        BY <2>3, <4>5, <4>6 DEF OnPath
    <3>3. QED
      BY <3>1, <3>2
  <2> DEFINE g == DeleteAt(h, e, i, to)
  <2>5. /\ HeapOK(g) /\ OthersKept(h, g, e) /\ g.index[e] = Unregistered
        /\ Len(g.node) = Len(h.node) - 1
        /\ \A j \in 1 .. Len(h.node) - 1 : g.node[j] = N(to)[j]
    <3>1. i # Len(h.node) /\ to \in 1 .. Len(h.node) - 1
      BY <1>2, <1>7, <2>4 DEF last
    <3>2. QED
      BY <2>4, <3>1, DeleteAtHeap
  <2> HIDE DEF g
  <2>6. Len(g.node) = last /\ \A j \in 1 .. last : g.node[j] = N(to)[j]
    BY <2>5 DEF last
  <2>7. Sorted(g)
    BY <1>2, <2>4, <2>6, SortedSame DEF Sorted
  <2>8. QED
    BY <1>4, <2>5, <2>7 DEF g
<1>8. QED
  BY <1>6, <1>7

\* tmevtb_delete_top is tmevtb_delete of the event at the root.
LEMMA DeleteTop ==
  ASSUME NEW h, HeapOK(h), min_time \in Int, h.node # << >>
  PROVE  /\ h.node[1].p_tmevtb \in Event
         /\ h.index[h.node[1].p_tmevtb] # Unregistered
         /\ TimeOf(h, h.node[1].p_tmevtb) = h.node[1].time
         /\ tmevtb_delete_top(h) = tmevtb_delete(h, h.node[1].p_tmevtb)
<1>1. 1 \in 1 .. Len(h.node)
  <2>1. Len(h.node) # 0
    BY DEF HeapOK
  <2>2. QED
    BY <2>1, HeapNodes
<1>2. h.index[h.node[1].p_tmevtb] = 1 /\ h.node[1].p_tmevtb \in Event
  BY <1>1, HeapNodes DEF HeapOK
<1>3. QED
  BY <1>2 DEF tmevtb_delete_top, tmevtb_delete, HoleTarget, Unregistered, TimeOf

\* No event is before the one at the root.
LEMMA RootLemma ==
  ASSUME NEW h, HeapOK(h), min_time \in Int, Sorted(h)
  PROVE  \A i \in 1 .. Len(h.node) : Key(h.node, 1) <= Key(h.node, i)
<1> DEFINE G == {i \in Nat : i \in 1 .. Len(h.node) => Key(h.node, 1) <= Key(h.node, i)}
<1>1. ASSUME NEW i \in Nat, \A n \in Nat : n < i => n \in G PROVE i \in G
  <2> SUFFICES ASSUME i \in 1 .. Len(h.node) PROVE Key(h.node, 1) <= Key(h.node, i)
    OBVIOUS
  <2>0. Len(h.node) \in Nat /\ \A k \in 1 .. Len(h.node) : Key(h.node, k) \in Int
    BY HeapNodes
  <2>1. CASE i = 1
    BY <2>0, <2>1
  <2>2. CASE i # 1
    <3>1. i > 1 /\ i \in 2 .. Len(h.node)
      BY <2>0, <2>2
    <3>2. PARENT(i) \in Nat /\ PARENT(i) < i /\ PARENT(i) \in 1 .. Len(h.node)
      BY <2>0, <3>1, ParentLemma
    <3>3. Key(h.node, 1) <= Key(h.node, PARENT(i))
      BY <1>1, <3>2
    <3>4. Key(h.node, PARENT(i)) <= Key(h.node, i)
      BY <3>1 DEF Sorted, SortedUpTo
    <3>5. 1 \in 1 .. Len(h.node)
      BY <2>0
    <3>6. /\ Key(h.node, 1) \in Int /\ Key(h.node, PARENT(i)) \in Int
          /\ Key(h.node, i) \in Int
      BY <2>0, <3>2, <3>5
    <3>7. QED
      BY <3>3, <3>4, <3>6
  <2>3. QED
    BY <2>1, <2>2
<1>2. Nat \subseteq G
  <2> HIDE DEF G
  <2> QED BY <1>1, InductionLemma
<1>3. Len(h.node) \in Nat
  BY HeapNodes
<1>4. QED
  BY <1>2, <1>3

----------------------------------------------------------------------------
(***************************************************************************)
(* The heap at the start.                                                  *)
(***************************************************************************)
LEMMA SpanLemma ==
  /\ TMAX_RELTIM \in Int /\ TMAX_RELTIM < TimeSpan /\ TimeSpan \in Nat \ {0}
  /\ 2 * TMAX_RELTIM <= TimeSpan - 2
  /\ \A x \in 0 .. TMAX_RELTIM : x \in Time
<1>1. TimeSpan \in Nat \ {0}
  BY WordType
<1>2. QED
  BY <1>1 DEF TMAX_RELTIM, Time

StartTurn(f, n) ==
  IF n = 0 THEN EmptyHeap
  ELSE IF cycorder[n] \in TaSta
    THEN tmevtb_insert(f[n - 1], cycorder[n], cycphs[cycorder[n]])
  ELSE f[n - 1]

IsStart(f, k) == f = [n \in 0 .. k |-> StartTurn(f, n)]

LEMMA StartExists ==
  ASSUME NEW k \in Nat
  PROVE  \E f : IsStart(f, k)
<1> DEFINE G == {n \in Nat : \E f : IsStart(f, n)}
<1>1. ASSUME NEW n \in Nat, \A x \in Nat : x < n => x \in G PROVE n \in G
  <2>1. CASE n = 0
    <3> DEFINE g == [x \in 0 .. n |-> EmptyHeap]
    <3>1. IsStart(g, n)
      BY <2>1 DEF IsStart, StartTurn
    <3>2. QED
      BY <3>1
  <2>2. CASE n # 0
    <3>1. n - 1 \in Nat /\ n - 1 < n
      BY <2>2
    <3>2. PICK f : IsStart(f, n - 1)
      BY <1>1, <3>1
    <3> DEFINE g == [x \in 0 .. n |-> IF x = n THEN StartTurn(f, x) ELSE f[x]]
    <3>3. ASSUME NEW x \in 0 .. n PROVE g[x] = StartTurn(g, x)
      <4>1. StartTurn(g, x) = StartTurn(f, x)
        <5>1. x # 0 => g[x - 1] = f[x - 1]
          BY <3>3
        <5> HIDE DEF g
        <5>2. QED
          BY <5>1 DEF StartTurn
      <4>2. x # n => f[x] = StartTurn(f, x)
        BY <3>2, <3>3 DEF IsStart
      <4>3. QED
        BY <4>1, <4>2
    <3>4. g = [x \in 0 .. n |-> g[x]]
      OBVIOUS
    <3> HIDE DEF g
    <3>5. IsStart(g, n)
      BY <3>3, <3>4 DEF IsStart
    <3>6. QED
      BY <3>5
  <2>3. QED
    BY <2>1, <2>2
<1>2. Nat \subseteq G
  <2> HIDE DEF G
  <2> QED BY <1>1, InductionLemma
<1>3. QED
  BY <1>2

\* The first n handlers were entered that are created with TA_STA.
Entered(h, n) ==
  /\ HeapOK(h) /\ Sorted(h)
  /\ \A e \in Event :
       /\ h.index[e] # Unregistered <=>
            e \in TaSta /\ \E j \in 1 .. n : cycorder[j] = e
       /\ h.index[e] # Unregistered => TimeOf(h, e) = cycphs[e]

LEMMA StartEntered ==
  ASSUME min_time \in Int, NEW f, IsStart(f, Len(cycorder))
  PROVE  \A n \in 0 .. Len(cycorder) : Entered(f[n], n)
<1> DEFINE L == Len(cycorder)
           G == {n \in Nat : n \in 0 .. L => Entered(f[n], n)}
<1>0. L \in Nat /\ \A n \in 1 .. L : cycorder[n] \in Cyc
  BY HandlerAssumption
<1>1. ASSUME NEW n \in Nat, \A x \in Nat : x < n => x \in G PROVE n \in G
  <2> SUFFICES ASSUME n \in 0 .. L PROVE Entered(f[n], n)
    OBVIOUS
  <2>0. f[n] = StartTurn(f, n)
    BY DEF IsStart
  <2>1. CASE n = 0
    <3>1. f[n] = EmptyHeap
      BY <2>0, <2>1 DEF StartTurn
    <3>2. HeapOK(EmptyHeap) /\ Sorted(EmptyHeap)
      BY DEF EmptyHeap, HeapOK, Sorted, SortedUpTo, Unregistered
    <3>3. \A e \in Event : EmptyHeap.index[e] = Unregistered
      BY DEF EmptyHeap
    <3>4. QED
      BY <2>1, <3>1, <3>2, <3>3 DEF Entered
  <2>2. CASE n # 0
    <3> DEFINE h == f[n - 1]
               c == cycorder[n]
    <3>1. n - 1 \in Nat /\ n - 1 < n /\ n - 1 \in 0 .. L /\ n \in 1 .. L
      BY <1>0, <2>2
    <3>2. Entered(h, n - 1)
      BY <1>1, <3>1
    <3>3. c \in Cyc /\ c \in Event
      BY <1>0, <3>1 DEF Event
    <3>4. 1 .. n = (1 .. n - 1) \cup {n}
      BY <3>1
    <3>5. CASE c \notin TaSta
      <4>1. f[n] = h
        BY <2>0, <2>2, <3>5 DEF StartTurn
      <4>2. ASSUME NEW e \in Event
            PROVE  (e \in TaSta /\ \E j \in 1 .. n : cycorder[j] = e) <=>
                   (e \in TaSta /\ \E j \in 1 .. n - 1 : cycorder[j] = e)
        BY <3>4, <3>5
      <4> HIDE DEF h
      <4>3. QED
        BY <3>2, <4>1, <4>2 DEF Entered
    <3>6. CASE c \in TaSta
      <4>1. f[n] = tmevtb_insert(h, c, cycphs[c])
        BY <2>0, <2>2, <3>6 DEF StartTurn
      <4>2. \A j \in 1 .. n - 1 : cycorder[j] # c
        <5>1. PICK i \in 1 .. L : \A j \in 1 .. L : cycorder[j] = c <=> j = i
          BY <3>3, HandlerAssumption
        <5>2. n = i
          BY <3>1, <5>1
        <5>3. \A j \in 1 .. n - 1 : j \in 1 .. L /\ j # n
          BY <1>0, <3>1
        <5> HIDE DEF c, L
        <5>4. QED
          BY <5>1, <5>2, <5>3
      <4>3. h.index[c] = Unregistered
        BY <3>2, <3>3, <4>2 DEF Entered
      <4>4. cycphs[c] \in Time
        BY <3>3, ReltimAssumption, SpanLemma
      <4> DEFINE g == tmevtb_insert(h, c, cycphs[c])
      <4>5. HeapOK(h) /\ Sorted(h)
        BY <3>2 DEF Entered
      <4> HIDE DEF h, c
      <4>6. /\ HeapOK(g) /\ OthersKept(h, g, c) /\ g.index[c] # Unregistered
            /\ TimeOf(g, c) = cycphs[c] /\ Sorted(g)
        BY <3>3, <4>3, <4>4, <4>5, InsertHeap
      <4> HIDE DEF g
      <4>7. ASSUME NEW e \in Event \ {c}
            PROVE  /\ g.index[e] # Unregistered <=>
                        e \in TaSta /\ \E j \in 1 .. n : cycorder[j] = e
                   /\ g.index[e] # Unregistered => TimeOf(g, e) = cycphs[e]
        <5>1. /\ g.index[e] = Unregistered <=> h.index[e] = Unregistered
              /\ h.index[e] # Unregistered => TimeOf(g, e) = TimeOf(h, e)
          BY <4>6 DEF OthersKept
        <5>2. (\E j \in 1 .. n : cycorder[j] = e) <=> \E j \in 1 .. n - 1 : cycorder[j] = e
          BY <3>4 DEF c
        <5>3. QED
          BY <3>2, <5>1, <5>2 DEF Entered
      <4>8. c \in TaSta /\ \E j \in 1 .. n : cycorder[j] = c
        BY <3>1, <3>4, <3>6 DEF c
      <4>9. Entered(g, n)
        BY <4>6, <4>7, <4>8 DEF Entered
      <4>10. QED
        BY <4>1, <4>9 DEF g
    <3>7. QED
      BY <3>5, <3>6
  <2>3. QED
    BY <2>1, <2>2
<1>2. Nat \subseteq G
  <2> HIDE DEF G
  <2> QED BY <1>1, InductionLemma
<1>3. QED
  BY <1>0, <1>2

LEMMA StartHeapLemma ==
  ASSUME min_time \in Int
  PROVE  /\ HeapOK(StartHeap) /\ Sorted(StartHeap)
         /\ \A e \in Event :
              /\ StartHeap.index[e] # Unregistered <=> e \in TaSta
              /\ e \in TaSta => TimeOf(StartHeap, e) = cycphs[e]
<1> DEFINE f == CHOOSE f : IsStart(f, Len(cycorder))
<1>1. IsStart(f, Len(cycorder)) /\ StartHeap = f[Len(cycorder)]
  <2>1. Len(cycorder) \in Nat
    BY HandlerAssumption
  <2>2. \E g : IsStart(g, Len(cycorder))
    BY <2>1, StartExists
  <2>3. QED
    BY <2>2 DEF StartHeap, IsStart, StartTurn
<1> HIDE DEF f
<1>2. Len(cycorder) \in 0 .. Len(cycorder)
  BY HandlerAssumption
<1>3. Entered(StartHeap, Len(cycorder))
  BY <1>1, <1>2, StartEntered
<1>4. \A e \in TaSta : \E j \in 1 .. Len(cycorder) : cycorder[j] = e
  BY HandlerAssumption
<1>5. QED
  BY <1>3, <1>4 DEF Entered

----------------------------------------------------------------------------
(***************************************************************************)
(* The clock.  s is 1 when the next tick has a fraction.                   *)
(***************************************************************************)
LEMMA WordIs ==
  ASSUME NEW a \in Int, NEW b \in Time, NEW k \in Int, a = b + TimeSpan * k
  PROVE  Word(a) = b
<1> DEFINE q == a \div TimeSpan
           r == Word(a)
           n == k - q
<1>1. TimeSpan \in Nat \ {0} /\ r \in Int /\ r \in Time
  BY WordType
<1>2. q \in Int /\ a = TimeSpan * q + r
  BY <1>1 DEF Word
<1>3. b \in Int /\ 0 <= b /\ b < TimeSpan /\ 0 <= r /\ r < TimeSpan
  BY <1>1 DEF Time
<1> HIDE DEF q, r
<1>4. n \in Int /\ r - b = TimeSpan * n
  BY <1>1, <1>2, <1>3
<1> HIDE DEF n
<1>5. ASSUME n >= 1 PROVE FALSE
  <2>1. TimeSpan * n >= TimeSpan
    BY <1>1, <1>4, <1>5
  <2>2. QED
    BY <1>1, <1>3, <1>4, <2>1
<1>6. ASSUME n <= -1 PROVE FALSE
  <2>1. TimeSpan * n <= - TimeSpan
    BY <1>1, <1>4, <1>6
  <2>2. QED
    BY <1>1, <1>3, <1>4, <2>1
<1>7. n = 0
  BY <1>4, <1>5, <1>6
<1>8. QED
  BY <1>1, <1>3, <1>4, <1>7 DEF r

LEMMA WordPart ==
  ASSUME NEW a \in Int
  PROVE  \E k \in Int : a = Word(a) + TimeSpan * k
<1>1. TimeSpan \in Nat \ {0} /\ a \div TimeSpan \in Int
  BY WordType
<1>2. a = Word(a) + TimeSpan * (a \div TimeSpan)
  BY <1>1 DEF Word
<1>3. QED
  BY <1>1, <1>2

LEMMA SmallWord ==
  ASSUME NEW b \in Time
  PROVE  Word(b) = b
<1>1. TimeSpan \in Int /\ b \in Int
  BY WordType DEF Time
<1>2. b = b + TimeSpan * 0
  BY <1>1
<1>3. QED
  BY <1>1, <1>2, WordIs

\* Words that are added are taken modulo TimeSpan once.
LEMMA WordSum ==
  ASSUME NEW a \in Int, NEW x \in Int, NEW y \in Int, Word(a) + x + y \in Time
  PROVE  Word(Word(a + x) + y) = Word(a) + x + y
<1> DEFINE b == Word(a) + x + y
<1>1. PICK k \in Int : a = Word(a) + TimeSpan * k
  BY WordPart
<1>2. a + x \in Int
  OBVIOUS
<1>3. PICK m \in Int : a + x = Word(a + x) + TimeSpan * m
  BY <1>2, WordPart
<1>4. TimeSpan \in Int /\ Word(a) \in Int /\ Word(a + x) \in Int
  BY <1>2, WordType
<1>5. Word(a + x) + y \in Int /\ k - m \in Int
  BY <1>4
<1>6. Word(a + x) + y = b + TimeSpan * (k - m)
  <2>1. TimeSpan * k \in Int /\ TimeSpan * m \in Int
        /\ TimeSpan * (k - m) = TimeSpan * k - TimeSpan * m
    BY <1>4
  <2> DEFINE tk == TimeSpan * k
             tm == TimeSpan * m
             tkm == TimeSpan * (k - m)
  <2>2. /\ tk \in Int /\ tm \in Int /\ tkm = tk - tm
        /\ a = Word(a) + tk /\ a + x = Word(a + x) + tm
    BY <1>1, <1>3, <2>1
  <2> HIDE DEF tk, tm, tkm
  <2>3. Word(a + x) + y = b + tkm
    BY <1>4, <2>2
  <2>4. QED
    BY <2>3 DEF tkm
<1> HIDE DEF b
<1>7. Word(Word(a + x) + y) = b
  BY <1>5, <1>6, WordIs DEF b
<1>8. QED
  BY <1>7 DEF b

TickLength == TIC_NUME \div TIC_DENO

D1 == Word(current_time - min_time)
D2 == Word(next_time - current_time)
Fraction == IF next_subtime > 0 THEN 1 ELSE 0
Reach == TMAX_RELTIM + TickLength + 2

\* The time from min_time to the last tick and from there to the next one.
ClockInv ==
  /\ current_time \in Time /\ min_time \in Time /\ next_time \in Time
  /\ next_subtime \in 0 .. TIC_DENO - 1
  /\ TIC_NUME <= TIC_DENO * D2 + next_subtime
  /\ TIC_DENO * D2 + next_subtime <= TIC_NUME + TIC_DENO - 1
  /\ TIC_DENO * (D1 + D2) + next_subtime <= 2 * TIC_NUME + TIC_DENO - 1
  /\ stage = "idle" => min_time = current_time

LEMMA DivisionLemma ==
  ASSUME NEW a \in Int, NEW b \in Nat \ {0}
  PROVE  /\ a \div b \in Int /\ a % b \in 0 .. b - 1
         /\ a = b * (a \div b) + (a % b)
<1>1. a \div b \in Int /\ a % b \in 0 .. b - 1
  OBVIOUS
<1>2. a = b * (a \div b) + (a % b)
  OBVIOUS
<1>3. QED
  BY <1>1, <1>2

LEMMA TickFacts ==
  /\ TIC_NUME \in Nat /\ TIC_NUME >= 1 /\ TIC_DENO \in Nat /\ TIC_DENO >= 1
  /\ TickLength \in Nat
  /\ TIC_NUME % TIC_DENO \in 0 .. TIC_DENO - 1
  /\ TIC_NUME = TIC_DENO * TickLength + (TIC_NUME % TIC_DENO)
<1>1. TIC_NUME \in Nat \ {0} /\ TIC_DENO \in Nat \ {0}
  BY TicAssumption
<1>2. TIC_NUME \div TIC_DENO \in Nat /\ TIC_NUME % TIC_DENO \in 0 .. TIC_DENO - 1
  BY <1>1
<1>3. TIC_NUME = TIC_DENO * (TIC_NUME \div TIC_DENO) + (TIC_NUME % TIC_DENO)
  BY <1>1, DivisionLemma
<1>4. QED
  BY <1>1, <1>2, <1>3 DEF TickLength

LEMMA ClockFacts ==
  ASSUME ClockInv
  PROVE  /\ D1 \in Nat /\ D2 \in Nat /\ Fraction \in 0 .. 1
         /\ D1 + D2 + Fraction + TMAX_RELTIM < TimeSpan
         /\ D2 <= TickLength + 1 /\ D2 + Fraction >= 1
         /\ stage = "idle" => D1 = 0
<1>1. current_time - min_time \in Int /\ next_time - current_time \in Int
  BY DEF ClockInv, Time
<1>2. D1 \in Time /\ D2 \in Time
  BY <1>1, WordType DEF D1, D2
<1>3. D1 \in Nat /\ D2 \in Nat /\ Fraction \in 0 .. 1
  BY <1>2 DEF Time, Fraction
<1> DEFINE room == TimeSpan - TMAX_RELTIM - 2
           d == D1 + D2
<1>4. room \in Int /\ d \in Int /\ next_subtime \in Int /\ 0 <= next_subtime
  BY <1>3, SpanLemma, TickFacts DEF ClockInv
<1>5. TIC_DENO * d + next_subtime <= TIC_DENO * room + TIC_DENO - 1
  BY <1>4, TickFacts, TicAssumption DEF ClockInv
<1>6. d + Fraction <= room + 1
  <2> HIDE DEF d, room
  <2>1. CASE d <= room
    BY <1>3, <1>4, <2>1
  <2>2. CASE d = room + 1
    <3>1. TIC_DENO * d = TIC_DENO * room + TIC_DENO
      BY <1>4, <2>2, TickFacts
    <3>2. QED
      BY <1>4, <1>5, <3>1, TickFacts
  <2>3. CASE d >= room + 2
    <3>1. TIC_DENO * d >= TIC_DENO * (room + 2)
      BY <1>4, <2>3, TickFacts
    <3>2. TIC_DENO * (room + 2) = TIC_DENO * room + 2 * TIC_DENO
      BY <1>4, TickFacts
    <3>3. TIC_DENO * d \in Int /\ TIC_DENO * room \in Int
      BY <1>4, TickFacts
    <3>4. QED
      BY <1>4, <1>5, <3>1, <3>2, <3>3, TickFacts
  <2>4. QED
    BY <1>4, <2>1, <2>2, <2>3
<1>7. D2 <= TickLength + 1
  <2>1. CASE D2 >= TickLength + 2
    <3>1. TIC_DENO * D2 >= TIC_DENO * (TickLength + 2)
      BY <1>3, <2>1, TickFacts
    <3>2. TIC_DENO * (TickLength + 2) = TIC_DENO * TickLength + 2 * TIC_DENO
      BY TickFacts
    <3>3. TIC_DENO * D2 \in Int /\ TIC_DENO * TickLength \in Int
      BY <1>3, TickFacts
    <3>4. TIC_DENO * D2 + next_subtime <= TIC_NUME + TIC_DENO - 1
      BY DEF ClockInv
    <3>5. QED
      BY <1>4, <3>1, <3>2, <3>3, <3>4, TickFacts
  <2>2. QED
    BY <1>3, <2>1, TickFacts
<1>8. D2 + Fraction >= 1
  <2>1. CASE D2 = 0 /\ next_subtime = 0
    BY <2>1, TickFacts DEF ClockInv
  <2>2. QED
    BY <1>3, <1>4, <2>1 DEF Fraction
<1>9. ASSUME stage = "idle" PROVE D1 = 0
  <2>1. current_time - min_time = 0
    BY <1>9 DEF ClockInv, Time
  <2>2. 0 \in Time
    BY SpanLemma DEF Time
  <2>3. QED
    BY <2>1, <2>2, SmallWord DEF D1
<1>10. QED
  BY <1>3, <1>4, <1>6, <1>7, <1>8, <1>9, SpanLemma

----------------------------------------------------------------------------
LEMMA WordBoth ==
  ASSUME NEW a \in Int, NEW b \in Int
  PROVE  /\ Word(a) + Word(b) \in Time => Word(a + b) = Word(a) + Word(b)
         /\ Word(a) - Word(b) \in Time => Word(a - b) = Word(a) - Word(b)
<1>1. PICK k \in Int : a = Word(a) + TimeSpan * k
  BY WordPart
<1>2. PICK m \in Int : b = Word(b) + TimeSpan * m
  BY WordPart
<1>3. TimeSpan \in Int /\ Word(a) \in Int /\ Word(b) \in Int
  BY WordType
<1> DEFINE tk == TimeSpan * k
           tm == TimeSpan * m
<1>4. /\ tk \in Int /\ tm \in Int
      /\ TimeSpan * (k + m) = tk + tm /\ TimeSpan * (k - m) = tk - tm
  BY <1>3
<1>5. a = Word(a) + tk /\ b = Word(b) + tm
  BY <1>1, <1>2
<1> HIDE DEF tk, tm
<1>6. /\ a + b = (Word(a) + Word(b)) + TimeSpan * (k + m)
      /\ a - b = (Word(a) - Word(b)) + TimeSpan * (k - m)
  BY <1>3, <1>4, <1>5
<1>7. a + b \in Int /\ a - b \in Int /\ k + m \in Int /\ k - m \in Int
  OBVIOUS
<1>8. ASSUME Word(a) + Word(b) \in Time PROVE Word(a + b) = Word(a) + Word(b)
  BY <1>6, <1>7, <1>8, WordIs
<1>9. ASSUME Word(a) - Word(b) \in Time PROVE Word(a - b) = Word(a) - Word(b)
  BY <1>6, <1>7, <1>9, WordIs
<1>10. QED
  BY <1>8, <1>9

\* A time that is x later.
LEMMA LaterLemma ==
  ASSUME min_time \in Int, NEW a \in Int, NEW x \in Int, FromMin(a) + x \in Time
  PROVE  FromMin(Word(a + x)) = FromMin(a) + x
<1> DEFINE b == a - min_time
           X == x + min_time
           Y == - min_time
<1>1. b \in Int /\ X \in Int /\ Y \in Int /\ Word(b) \in Int
  BY WordType
<1>2. b + X = a + x /\ Word(a + x) + Y = Word(a + x) - min_time
      /\ Word(b) + X + Y = Word(b) + x
  BY <1>1, WordType
<1>3. Word(b) = FromMin(a)
  BY DEF FromMin
<1> HIDE DEF b, X, Y
<1>4. Word(Word(b + X) + Y) = Word(b) + X + Y
  BY <1>1, <1>2, <1>3, WordSum
<1>5. QED
  BY <1>2, <1>3, <1>4 DEF FromMin

LEMMA ClockTimes ==
  ASSUME ClockInv
  PROVE  /\ min_time \in Int /\ current_time \in Int /\ next_time \in Int
         /\ FromMin(current_time) = D1 /\ FromMin(next_time) = D1 + D2
         /\ base_time \in Time /\ FromMin(base_time) = D1 + D2 + Fraction
<1>1. min_time \in Int /\ current_time \in Int /\ next_time \in Int
  BY DEF ClockInv, Time
<1>2. FromMin(current_time) = D1
  BY DEF FromMin, D1
<1>3. /\ D1 \in Nat /\ D2 \in Nat /\ Fraction \in 0 .. 1
      /\ D1 + D2 \in Time /\ D1 + D2 + Fraction \in Time
      /\ next_time + Fraction \in Int
  <2>1. TMAX_RELTIM >= -1 /\ TimeSpan \in Int
    BY SpanLemma DEF TMAX_RELTIM
  <2>2. /\ D1 \in Nat /\ D2 \in Nat /\ Fraction \in 0 .. 1
        /\ D1 + D2 + Fraction + TMAX_RELTIM < TimeSpan
    BY ClockFacts
  <2>3. D1 + D2 + Fraction < TimeSpan
    <3>1. TMAX_RELTIM >= 0
      <4>1. ASSUME TimeSpan = 1 PROVE FALSE
        <5>1. TMAX_RELTIM = -1
          BY <4>1 DEF TMAX_RELTIM
        <5>2. TIC_DENO * (1 + 1 - 2) = 0
          BY TickFacts
        <5>3. QED
          BY <4>1, <5>1, <5>2, TickFacts, TicAssumption
      <4>2. QED
        BY <4>1, SpanLemma DEF TMAX_RELTIM
    <3>2. QED
      BY <2>2, <3>1, SpanLemma
  <2>4. QED
    BY <1>1, <2>1, <2>2, <2>3 DEF Time
<1>4. FromMin(next_time) = D1 + D2
  <2> DEFINE a == next_time - current_time
             b == current_time - min_time
  <2>1. a \in Int /\ b \in Int /\ a + b = next_time - min_time
    BY <1>1
  <2>2. Word(a) = D2 /\ Word(b) = D1
    BY DEF D1, D2
  <2> HIDE DEF a, b
  <2>3. Word(a) + Word(b) = D1 + D2
    BY <1>3, <2>2
  <2>4. Word(a + b) = D1 + D2
    BY <1>3, <2>1, <2>3, WordBoth
  <2>5. QED
    BY <2>1, <2>4 DEF FromMin
<1>5. base_time = Word(next_time + Fraction)
  BY DEF base_time, Fraction
<1>6. base_time \in Time
  BY <1>3, <1>5, WordType
<1>7. FromMin(base_time) = D1 + D2 + Fraction
  <2>1. FromMin(next_time) + Fraction \in Time /\ Fraction \in Int
    BY <1>3, <1>4
  <2>2. FromMin(Word(next_time + Fraction)) = FromMin(next_time) + Fraction
    BY <1>1, <2>1, LaterLemma
  <2>3. QED
    BY <1>4, <1>5, <2>2
<1>8. QED
  BY <1>1, <1>2, <1>4, <1>6, <1>7

\* The time of an event that a call enters: ahead of the next tick, and not
\* too far.
LEMMA StartTime ==
  ASSUME ClockInv, NEW x \in 0 .. TMAX_RELTIM
  PROVE  /\ Word(base_time + x) \in Time
         /\ FromMin(Word(base_time + x)) = D1 + D2 + Fraction + x
         /\ FromMin(Word(base_time + x)) <= D1 + Reach
         /\ FromMin(Word(base_time + x)) >= 1
<1>1. /\ min_time \in Int /\ base_time \in Int
      /\ FromMin(base_time) = D1 + D2 + Fraction
  BY ClockTimes DEF Time
<1>2. /\ D1 \in Nat /\ D2 \in Nat /\ Fraction \in 0 .. 1
      /\ D1 + D2 + Fraction + TMAX_RELTIM < TimeSpan
      /\ D2 <= TickLength + 1 /\ D2 + Fraction >= 1
  BY ClockFacts
<1>3. x \in Int /\ base_time + x \in Int /\ TMAX_RELTIM \in Int /\ TickLength \in Nat
      /\ TimeSpan \in Int
  BY <1>1, SpanLemma, TickFacts
<1>4. FromMin(base_time) + x \in Time
  BY <1>1, <1>2, <1>3 DEF Time
<1>5. FromMin(Word(base_time + x)) = D1 + D2 + Fraction + x
  BY <1>1, <1>3, <1>4, LaterLemma
<1>6. QED
  BY <1>2, <1>3, <1>5, WordType DEF Reach

\* The next time of a cyclic handler that expires.
LEMMA CycleTime ==
  ASSUME ClockInv, NEW t \in Time, FromMin(t) <= D1, NEW x \in 0 .. TMAX_RELTIM
  PROVE  /\ Word(t + x) \in Time
         /\ FromMin(Word(t + x)) = FromMin(t) + x
         /\ FromMin(Word(t + x)) <= D1 + Reach
<1>1. min_time \in Int /\ t \in Int /\ x \in Int /\ t + x \in Int
  BY ClockTimes DEF Time
<1>2. /\ D1 \in Nat /\ D2 \in Nat /\ Fraction \in 0 .. 1
      /\ D1 + D2 + Fraction + TMAX_RELTIM < TimeSpan
  BY ClockFacts
<1>3. FromMin(t) \in Nat
  <2>1. t - min_time \in Int
    BY <1>1
  <2>2. QED
    BY <2>1, WordType DEF FromMin, Time
<1>4. FromMin(t) + x \in Time
  BY <1>1, <1>2, <1>3, SpanLemma DEF Time
<1>5. FromMin(Word(t + x)) = FromMin(t) + x
  BY <1>1, <1>4, LaterLemma
<1>6. QED
  BY <1>1, <1>2, <1>3, <1>5, WordType, SpanLemma, TickFacts DEF Reach

\* What is later than the last tick, relative to that tick.
LEMMA NewMin ==
  ASSUME ClockInv, NEW t \in Time, FromMin(t) > D1
  PROVE  /\ Word(t - current_time) = FromMin(t) - D1
         /\ FromMin(t) \in Int
<1> DEFINE a == t - min_time
           b == current_time - min_time
<1>1. a \in Int /\ b \in Int /\ a - b = t - current_time
  BY ClockTimes DEF Time
<1>2. Word(a) = FromMin(t) /\ Word(b) = D1
  BY DEF FromMin, D1
<1> HIDE DEF a, b
<1>3. Word(a) \in Time /\ Word(b) \in Time
  BY <1>1, WordType
<1>4. Word(a) - Word(b) \in Time
  <2>1. TimeSpan \in Nat /\ Word(a) > Word(b)
    BY <1>2, SpanLemma
  <2>2. QED
    BY <1>3, <2>1 DEF Time
<1>5. QED
  BY <1>1, <1>2, <1>3, <1>4, WordBoth DEF Time

----------------------------------------------------------------------------
(***************************************************************************)
(* The steps of the clock.                                                 *)
(***************************************************************************)
LEMMA TickFits == TickLength + 1 \in Time /\ TickLength \in Time
<1> DEFINE room == TimeSpan - TMAX_RELTIM - 2
<1>1. room \in Int /\ TickLength \in Nat
  BY SpanLemma, TickFacts
<1>2. 2 * (TIC_DENO * TickLength) <= TIC_DENO * room /\ TIC_DENO * room >= 2
  <2>1. TIC_DENO * TickLength <= TIC_NUME
    BY TickFacts
  <2>2. 2 * TIC_NUME <= TIC_DENO * room
    BY TicAssumption
  <2>3. TIC_DENO * room \in Int /\ TIC_DENO * TickLength \in Int
    BY <1>1, TickFacts
  <2>4. QED
    BY <2>1, <2>2, <2>3, TickFacts
<1> HIDE DEF room
<1>3. room >= 1
  <2>1. CASE room <= 0
    <3>1. TIC_DENO * room <= 0
      BY <1>1, <2>1, TickFacts
    <3>2. QED
      BY <1>1, <1>2, <3>1, TickFacts
  <2>2. QED
    BY <1>1, <2>1
<1>4. 2 * TickLength <= room
  <2>1. CASE 2 * TickLength >= room + 1
    <3>1. TIC_DENO * (2 * TickLength) >= TIC_DENO * (room + 1)
      BY <1>1, <2>1, TickFacts
    <3>2. /\ TIC_DENO * (room + 1) = TIC_DENO * room + TIC_DENO
          /\ TIC_DENO * (2 * TickLength) = 2 * (TIC_DENO * TickLength)
          /\ TIC_DENO * room \in Int /\ TIC_DENO * TickLength \in Int
      BY <1>1, TickFacts
    <3>3. QED
      BY <1>2, <3>1, <3>2, TickFacts
  <2>2. QED
    BY <1>1, <2>1
<1>5. TMAX_RELTIM >= -1 /\ TMAX_RELTIM \in Int /\ TimeSpan \in Int
  BY SpanLemma DEF TMAX_RELTIM
<1>6. QED
  BY <1>1, <1>3, <1>4, <1>5 DEF Time, room

LEMMA InitClock ==
  ASSUME Init
  PROVE  ClockInv
<1>1. 0 \in Time /\ TickLength \in Time /\ TickLength \in Nat
  BY TickFits, TickFacts, SpanLemma DEF Time
<1>2. /\ current_time = 0 /\ min_time = 0 /\ next_time = TickLength
      /\ next_subtime = TIC_NUME % TIC_DENO
  BY DEF Init, TickLength
<1>3. D1 = 0 /\ D2 = TickLength
  <2>1. current_time - min_time = 0 /\ next_time - current_time = TickLength
    BY <1>1, <1>2
  <2>2. QED
    BY <1>1, <2>1, SmallWord DEF D1, D2
<1>4. TIC_DENO * TickLength + (TIC_NUME % TIC_DENO) = TIC_NUME
      /\ 0 + TickLength = TickLength
  BY TickFacts
<1>5. QED
  BY <1>1, <1>2, <1>3, <1>4, TickFacts DEF ClockInv

LEMMA SignalTimeClock ==
  ASSUME ClockInv, signal_time
  PROVE  /\ ClockInv' /\ D1' = D2
         /\ TIC_DENO * D2' + next_subtime' = TIC_NUME + next_subtime
<1> DEFINE r == TIC_NUME % TIC_DENO
           c == IF next_subtime + r >= TIC_DENO THEN 1 ELSE 0
           z == TickLength + c
<1>1. /\ current_time' = next_time /\ min_time' = min_time /\ stage = "idle"
      /\ next_subtime' = IF c = 1 THEN (next_subtime + r) - TIC_DENO
                                  ELSE next_subtime + r
      /\ next_time' = Word(next_time + TickLength + c)
      /\ stage' = "expiring"
  <2>1. /\ current_time' = next_time /\ min_time' = min_time /\ stage = "idle"
        /\ stage' = "expiring"
    BY DEF signal_time
  <2>2. CASE next_subtime + r >= TIC_DENO
    <3>1. next_subtime' = (next_subtime + r) - TIC_DENO
      BY <2>2 DEF signal_time
    <3>2. next_time' = Word(next_time + TickLength + 1)
      BY <2>2 DEF signal_time, TickLength
    <3>3. /\ next_subtime' = (next_subtime + r) - TIC_DENO
          /\ next_time' = Word(next_time + TickLength + 1)
      BY <3>1, <3>2
    <3>4. c = 1
      BY <2>2
    <3> HIDE DEF c, r
    <3>5. QED
      BY <2>1, <3>3, <3>4
  <2>3. CASE ~(next_subtime + r >= TIC_DENO)
    <3>1. /\ next_subtime' = next_subtime + r
          /\ next_time' = Word(next_time + TickLength + 0)
      BY <2>3 DEF signal_time, TickLength
    <3>2. c = 0
      BY <2>3
    <3> HIDE DEF c, r
    <3>3. QED
      BY <2>1, <3>1, <3>2
  <2>4. QED
    BY <2>2, <2>3
<1>2. next_subtime \in 0 .. TIC_DENO - 1 /\ r \in 0 .. TIC_DENO - 1
      /\ TIC_DENO \in Nat /\ TickLength \in Nat
  BY TickFacts DEF ClockInv
<1>3. z \in Time /\ z \in Int /\ c \in 0 .. 1
  BY <1>2, TickFits
<1>4. next_subtime' \in 0 .. TIC_DENO - 1
  BY <1>1, <1>2
<1>5. TIC_DENO * z + next_subtime' = TIC_NUME + next_subtime
  <2>1. CASE c = 1
    <3>1. TIC_DENO * z = TIC_DENO * TickLength + TIC_DENO
      BY <1>2, <2>1
    <3>2. next_subtime' = (next_subtime + r) - TIC_DENO
      BY <1>1, <2>1
    <3>3. TIC_DENO * TickLength \in Int
      BY <1>2
    <3> HIDE DEF z, c
    <3>4. QED
      BY <1>2, <3>1, <3>2, <3>3, TickFacts
  <2>2. CASE c = 0
    <3>1. z = TickLength
      BY <1>2, <2>2
    <3>2. next_subtime' = next_subtime + r
      BY <1>1, <2>2
    <3>3. TIC_DENO * TickLength \in Int
      BY <1>2
    <3> HIDE DEF z, c
    <3>4. QED
      BY <1>2, <3>1, <3>2, <3>3, TickFacts
  <2>3. QED
    BY <1>3, <2>1, <2>2
<1>6. next_time \in Time /\ next_time \in Int /\ min_time = current_time
  BY <1>1 DEF ClockInv, Time
<1>7. D1' = D2
  BY <1>1, <1>6 DEF D1, D2, Word
<1>8. D2' = z
  <2> DEFINE x == next_time + TickLength + c
             y == - next_time
  <2>1. /\ 0 \in Time /\ x \in Int /\ y \in Int /\ 0 + x = x
        /\ 0 + x + y = z
    BY <1>2, <1>3, <1>6, SpanLemma DEF Time
  <2>2. Word(0) = 0
    BY <2>1, SmallWord
  <2>3. Word(x) \in Int /\ Word(x) - next_time = Word(x) + y
    BY <1>6, <2>1, WordType
  <2> HIDE DEF x, y, z
  <2>4. Word(0) + x + y = z
    BY <2>1, <2>2
  <2>5. Word(0) + x + y \in Time
    BY <1>3, <2>4
  <2>6. Word(Word(0 + x) + y) = Word(0) + x + y
    <3>1. 0 \in Int /\ x \in Int /\ y \in Int
      BY <2>1
    <3>2. QED
      BY <2>5, <3>1, WordSum
  <2>7. Word(Word(x) - next_time) = z
    BY <2>1, <2>3, <2>4, <2>6
  <2>8. D2' = Word(Word(x) - next_time)
    BY <1>1 DEF D2, x, Word
  <2>9. QED
    BY <2>7, <2>8
<1> HIDE DEF r, c, z
<1>9. /\ TIC_NUME <= TIC_DENO * D2' + next_subtime'
      /\ TIC_DENO * D2' + next_subtime' <= TIC_NUME + TIC_DENO - 1
  BY <1>2, <1>5, <1>8, TickFacts
<1>10. TIC_DENO * (D1' + D2') + next_subtime' <= 2 * TIC_NUME + TIC_DENO - 1
  <2>1. D2 \in Nat
    BY ClockFacts
  <2>2. /\ TIC_DENO * (D2 + z) = TIC_DENO * D2 + TIC_DENO * z
        /\ TIC_DENO * D2 \in Int /\ TIC_DENO * z \in Int
    BY <1>2, <1>3, <2>1
  <2>3. TIC_DENO * D2 + next_subtime <= TIC_NUME + TIC_DENO - 1
    BY DEF ClockInv
  <2>4. next_subtime' \in Int /\ next_subtime \in Int
    BY <1>2, <1>4
  <2>5. QED
    BY <1>2, <1>5, <1>7, <1>8, <2>2, <2>3, <2>4, TickFacts
<1>11. next_time' \in Time
  <2>1. next_time + TickLength + c \in Int
    BY <1>2, <1>3, <1>6
  <2>2. QED
    BY <1>1, <2>1, WordType
<1>12. current_time' \in Time /\ min_time' \in Time
  BY <1>1, <1>6 DEF ClockInv
<1>13. Time' = Time
  BY DEF Time
<1>14. QED
  BY <1>1, <1>4, <1>5, <1>7, <1>8, <1>9, <1>10, <1>11, <1>12, <1>13 DEF ClockInv

LEMMA EndClock ==
  ASSUME ClockInv, signal_time_end
  PROVE  ClockInv' /\ D1' = 0
<1>1. /\ min_time' = current_time /\ UNCHANGED clockVars
  BY DEF signal_time_end
<1>2. D1' = 0 /\ D2' = D2
  <2>1. current_time' - min_time' = 0
    BY <1>1, ClockTimes DEF clockVars
  <2>2. 0 \in Time
    BY SpanLemma DEF Time
  <2>3. Word(0) = 0
    BY <2>2, SmallWord
  <2>4. D1' = Word(0)
    BY <2>1 DEF D1, Word
  <2>5. QED
    BY <1>1, <2>3, <2>4 DEF D2, clockVars, Word
<1>3. TIC_DENO * (0 + D2) + next_subtime <= 2 * TIC_NUME + TIC_DENO - 1
  <2>1. D2 \in Nat /\ 0 + D2 = D2
    BY ClockFacts
  <2>2. TIC_DENO * D2 \in Int /\ next_subtime \in Int
    BY <2>1, TickFacts DEF ClockInv
  <2>3. QED
    BY <2>1, <2>2, TickFacts DEF ClockInv
<1>4. QED
  BY <1>1, <1>2, <1>3 DEF ClockInv, clockVars, Time

\* The other steps leave the clock alone.
LEMMA StillClock ==
  ASSUME ClockInv, UNCHANGED << min_time, clockVars >>,
         stage' = "idle" => stage = "idle"
  PROVE  ClockInv' /\ D1' = D1
BY DEF ClockInv, clockVars, D1, D2, Time, Word

----------------------------------------------------------------------------
(***************************************************************************)
(* The invariant.                                                          *)
(***************************************************************************)
HandlersInv ==
  /\ cycsta \in [Cyc -> BOOLEAN] /\ almsta \in [Alm -> BOOLEAN]
  /\ evttim \in [Cyc -> Time]
  /\ stage \in {"idle", "expiring"} \cup Event
  /\ StartedInv

\* No event is further from min_time than Reach beyond the last tick, and
\* between ticks none is overdue.
TimesInv ==
  \A e \in Event : heap.index[e] # Unregistered =>
    /\ FromMin(TimeOf(heap, e)) <= D1 + Reach
    /\ stage = "idle" =>
         \/ FromMin(TimeOf(heap, e)) >= 1
         \/ e \in TaSta /\ TimeOf(heap, e) = 0

IInv == ClockInv /\ HeapOK(heap) /\ Sorted(heap) /\ HandlersInv /\ TimesInv

\* While min_time stays, the order of a heap does.
LEMMA StillSorted ==
  ASSUME UNCHANGED min_time, Sorted(heap')
  PROVE  Sorted(heap)'
BY DEF Sorted, SortedUpTo, Key, FromMin, Word, PARENT

LEMMA StillHeap ==
  ASSUME HeapOK(heap')
  PROVE  HeapOK(heap)'
BY DEF HeapOK, Node, Time, Event, Unregistered

\* A time of the heap.
LEMMA HeapTime ==
  ASSUME NEW h, HeapOK(h), NEW e \in Event, h.index[e] # Unregistered, min_time \in Int
  PROVE  TimeOf(h, e) \in Time /\ FromMin(TimeOf(h, e)) \in Nat
<1>1. h.index[e] \in 1 .. Len(h.node)
  BY DEF HeapOK
<1>2. TimeOf(h, e) \in Time
  BY <1>1, HeapNodes DEF TimeOf
<1>3. TimeOf(h, e) - min_time \in Int
  BY <1>2 DEF Time
<1>4. QED
  BY <1>2, <1>3, WordType DEF FromMin, Time

\* A step that only changes the event e.
LEMMA OneEventStep ==
  ASSUME ClockInv, TimesInv, UNCHANGED << min_time, clockVars >>,
         stage' = "idle" => stage = "idle", NEW e \in Event,
         HeapOK(heap'), Sorted(heap'), OthersKept(heap, heap', e),
         heap'.index[e] # Unregistered =>
           /\ FromMin(TimeOf(heap', e)) <= D1 + Reach
           /\ stage' = "idle" => FromMin(TimeOf(heap', e)) >= 1
  PROVE  ClockInv' /\ HeapOK(heap)' /\ Sorted(heap)' /\ TimesInv'
<1>1. ClockInv' /\ D1' = D1
  BY StillClock
<1>2. HeapOK(heap)' /\ Sorted(heap)'
  BY StillHeap, StillSorted
<1>3. ASSUME NEW x \in Event, heap'.index[x] # Unregistered
      PROVE  /\ FromMin(TimeOf(heap', x)) <= D1 + Reach
             /\ stage' = "idle" =>
                  \/ FromMin(TimeOf(heap', x)) >= 1
                  \/ x \in TaSta /\ TimeOf(heap', x) = 0
  <2>1. CASE x = e
    BY <1>3, <2>1
  <2>2. CASE x # e
    <3>1. heap.index[x] # Unregistered /\ TimeOf(heap', x) = TimeOf(heap, x)
      BY <1>3, <2>2 DEF OthersKept
    <3>2. QED
      BY <3>1 DEF TimesInv
  <2>3. QED
    BY <2>1, <2>2
<1>5. TimesInv'
  <2>1. ASSUME NEW x \in Event
        PROVE  FromMin(TimeOf(heap, x))' = FromMin(TimeOf(heap', x))
    BY DEF FromMin, Word, TimeOf
  <2>2. ASSUME NEW x \in Event
        PROVE  TimeOf(heap, x)' = TimeOf(heap', x)
    BY DEF TimeOf
  <2>3. Reach' = Reach /\ Unregistered' = Unregistered
    BY DEF Reach, TMAX_RELTIM, TickLength, Unregistered
  <2>4. QED
    BY <1>1, <1>3, <2>1, <2>2, <2>3 DEF TimesInv, Unregistered, Event
<1>6. QED
  BY <1>1, <1>2, <1>5

LEMMA StartedStep ==
  ASSUME HandlersInv, NEW e \in Event, OthersKept(heap, heap', e),
         \A c \in Cyc \ {e} : cycsta'[c] = cycsta[c] /\ evttim'[c] = evttim[c],
         \A a \in Alm \ {e} : almsta'[a] = almsta[a],
         e \in Cyc => /\ cycsta'[e] <=> heap'.index[e] # Unregistered
                      /\ cycsta'[e] => evttim'[e] = TimeOf(heap', e),
         e \in Alm => (almsta'[e] <=> heap'.index[e] # Unregistered)
  PROVE  StartedInv'
<1>1. ASSUME NEW c \in Cyc
      PROVE  /\ cycsta'[c] <=> heap'.index[c] # Unregistered
             /\ cycsta'[c] => evttim'[c] = TimeOf(heap', c)
  <2>1. CASE c = e
    BY <2>1
  <2>2. CASE c # e
    BY <2>2 DEF Event, HandlersInv, StartedInv, Registered, OthersKept, TimeOf
  <2>3. QED
    BY <2>1, <2>2
<1>2. ASSUME NEW a \in Alm
      PROVE  almsta'[a] <=> heap'.index[a] # Unregistered
  <2>1. CASE a = e
    BY <2>1
  <2>2. CASE a # e
    BY <2>2 DEF Event, HandlersInv, StartedInv, Registered, OthersKept
  <2>3. QED
    BY <2>1, <2>2
<1>3. QED
  BY <1>1, <1>2 DEF StartedInv, Registered, Unregistered, TimeOf

----------------------------------------------------------------------------
(***************************************************************************)
(* The calls.                                                              *)
(***************************************************************************)
LEMMA WithdrawHeap ==
  ASSUME HeapOK(heap), Sorted(heap), min_time \in Int, NEW e \in Event,
         NEW started \in BOOLEAN, started <=> heap.index[e] # Unregistered,
         Withdraw(e, started)
  PROVE  /\ HeapOK(heap') /\ Sorted(heap') /\ OthersKept(heap, heap', e)
         /\ heap'.index[e] = Unregistered
<1>1. CASE started
  BY <1>1, DeleteHeap DEF Withdraw
<1>2. CASE ~started
  BY <1>2 DEF Withdraw, OthersKept
<1>3. QED
  BY <1>1, <1>2

LEMMA ReenterHeap ==
  ASSUME HeapOK(heap), Sorted(heap), min_time \in Int, NEW e \in Event,
         NEW started \in BOOLEAN, started <=> heap.index[e] # Unregistered,
         NEW time \in Time, Reenter(e, started, time)
  PROVE  /\ HeapOK(heap') /\ Sorted(heap') /\ OthersKept(heap, heap', e)
         /\ heap'.index[e] # Unregistered /\ TimeOf(heap', e) = time
<1> DEFINE h == IF started THEN tmevtb_delete(heap, e) ELSE heap
<1>1. /\ HeapOK(h) /\ Sorted(h) /\ OthersKept(heap, h, e)
      /\ h.index[e] = Unregistered
  <2>1. CASE started
    BY <2>1, DeleteHeap
  <2>2. CASE ~started
    BY <2>2 DEF OthersKept
  <2>3. QED
    BY <2>1, <2>2
<1>2. heap' = tmevtb_insert(h, e, time)
  BY DEF Reenter
<1> HIDE DEF h
<1>3. /\ HeapOK(heap') /\ OthersKept(h, heap', e)
      /\ heap'.index[e] # Unregistered /\ TimeOf(heap', e) = time
      /\ Sorted(heap')
  BY <1>1, <1>2, InsertHeap
<1>4. OthersKept(heap, heap', e)
  BY <1>1, <1>3 DEF OthersKept
<1>5. QED
  BY <1>3, <1>4

\* What a step does to the event e, and leaves of the others.
NowEntered(e, time) ==
  /\ OthersKept(heap, heap', e)
  /\ heap'.index[e] # Unregistered /\ TimeOf(heap', e) = time

NowWithdrawn(e) ==
  /\ OthersKept(heap, heap', e)
  /\ heap'.index[e] = Unregistered

LEMMA StaCycStep ==
  ASSUME IInv, NEW c \in Cyc, sta_cyc(c)
  PROVE  IInv' /\ NowEntered(c, Word(base_time + cycphs[c]))
<1> DEFINE time == Word(base_time + cycphs[c])
<1>1. /\ min_time \in Int /\ c \in Event /\ c \notin Alm
      /\ cycphs[c] \in 0 .. TMAX_RELTIM
  BY ClockTimes, HandlerAssumption, ReltimAssumption DEF IInv, Event
<1>2. time \in Time /\ FromMin(time) <= D1 + Reach /\ FromMin(time) >= 1
  BY <1>1, StartTime DEF IInv
<1>3. /\ Reenter(c, cycsta[c], time) /\ stage' = stage
      /\ cycsta' = [cycsta EXCEPT ![c] = TRUE]
      /\ evttim' = [evttim EXCEPT ![c] = time]
      /\ UNCHANGED << min_time, clockVars, almsta >>
  BY DEF sta_cyc
<1> HIDE DEF time
<1>4. cycsta[c] \in BOOLEAN /\ (cycsta[c] <=> heap.index[c] # Unregistered)
  BY DEF IInv, HandlersInv, StartedInv, Registered
<1>5. /\ HeapOK(heap') /\ Sorted(heap') /\ OthersKept(heap, heap', c)
      /\ heap'.index[c] # Unregistered /\ TimeOf(heap', c) = time
  BY <1>1, <1>2, <1>3, <1>4, ReenterHeap DEF IInv
<1>6. ClockInv' /\ HeapOK(heap)' /\ Sorted(heap)' /\ TimesInv'
  BY <1>1, <1>2, <1>3, <1>5, OneEventStep DEF IInv
<1>7. /\ cycsta' \in [Cyc -> BOOLEAN] /\ evttim' \in [Cyc -> Time]
      /\ cycsta'[c] = TRUE /\ evttim'[c] = time
      /\ \A x \in Cyc \ {c} : cycsta'[x] = cycsta[x] /\ evttim'[x] = evttim[x]
  BY <1>2, <1>3 DEF IInv, HandlersInv
<1>8. StartedInv'
  BY <1>1, <1>3, <1>5, <1>7, StartedStep DEF IInv
<1>9. QED
  BY <1>3, <1>5, <1>6, <1>7, <1>8 DEF time, NowEntered, IInv, HandlersInv, Time, Event

LEMMA StpCycStep ==
  ASSUME IInv, NEW c \in Cyc, stp_cyc(c)
  PROVE  IInv' /\ NowWithdrawn(c)
<1>1. min_time \in Int /\ c \in Event /\ c \notin Alm
  BY ClockTimes, HandlerAssumption DEF IInv, Event
<1>2. /\ Withdraw(c, cycsta[c]) /\ stage' = stage
      /\ cycsta' = [cycsta EXCEPT ![c] = FALSE]
      /\ UNCHANGED << min_time, clockVars, evttim, almsta >>
  BY DEF stp_cyc
<1>3. cycsta[c] \in BOOLEAN /\ (cycsta[c] <=> heap.index[c] # Unregistered)
  BY DEF IInv, HandlersInv, StartedInv, Registered
<1>4. /\ HeapOK(heap') /\ Sorted(heap') /\ OthersKept(heap, heap', c)
      /\ heap'.index[c] = Unregistered
  BY <1>1, <1>2, <1>3, WithdrawHeap DEF IInv
<1>5. ClockInv' /\ HeapOK(heap)' /\ Sorted(heap)' /\ TimesInv'
  BY <1>1, <1>2, <1>4, OneEventStep DEF IInv
<1>6. /\ cycsta' \in [Cyc -> BOOLEAN] /\ cycsta'[c] = FALSE
      /\ \A x \in Cyc \ {c} : cycsta'[x] = cycsta[x]
  BY <1>2 DEF IInv, HandlersInv
<1>7. StartedInv'
  BY <1>1, <1>2, <1>4, <1>6, StartedStep DEF IInv
<1>8. QED
  BY <1>2, <1>4, <1>5, <1>6, <1>7 DEF NowWithdrawn, IInv, HandlersInv, Time, Event

LEMMA StaAlmStep ==
  ASSUME IInv, NEW a \in Alm, NEW almtim \in Almtim, sta_alm(a, almtim)
  PROVE  IInv' /\ NowEntered(a, Word(base_time + almtim))
<1> DEFINE time == Word(base_time + almtim)
<1>1. /\ min_time \in Int /\ a \in Event /\ a \notin Cyc
      /\ almtim \in 0 .. TMAX_RELTIM
  BY ClockTimes, HandlerAssumption, ReltimAssumption DEF IInv, Event
<1>2. time \in Time /\ FromMin(time) <= D1 + Reach /\ FromMin(time) >= 1
  BY <1>1, StartTime DEF IInv
<1>3. /\ Reenter(a, almsta[a], time) /\ stage' = stage
      /\ almsta' = [almsta EXCEPT ![a] = TRUE]
      /\ UNCHANGED << min_time, clockVars, cycsta, evttim >>
  BY DEF sta_alm
<1> HIDE DEF time
<1>4. almsta[a] \in BOOLEAN /\ (almsta[a] <=> heap.index[a] # Unregistered)
  BY DEF IInv, HandlersInv, StartedInv, Registered
<1>5. /\ HeapOK(heap') /\ Sorted(heap') /\ OthersKept(heap, heap', a)
      /\ heap'.index[a] # Unregistered /\ TimeOf(heap', a) = time
  BY <1>1, <1>2, <1>3, <1>4, ReenterHeap DEF IInv
<1>6. ClockInv' /\ HeapOK(heap)' /\ Sorted(heap)' /\ TimesInv'
  BY <1>1, <1>2, <1>3, <1>5, OneEventStep DEF IInv
<1>7. /\ almsta' \in [Alm -> BOOLEAN] /\ almsta'[a] = TRUE
      /\ \A x \in Alm \ {a} : almsta'[x] = almsta[x]
  BY <1>2, <1>3 DEF IInv, HandlersInv
<1>8. StartedInv'
  BY <1>1, <1>3, <1>5, <1>7, StartedStep DEF IInv
<1>9. QED
  BY <1>3, <1>5, <1>6, <1>7, <1>8 DEF time, NowEntered, IInv, HandlersInv, Time, Event

LEMMA StpAlmStep ==
  ASSUME IInv, NEW a \in Alm, stp_alm(a)
  PROVE  IInv' /\ NowWithdrawn(a)
<1>1. min_time \in Int /\ a \in Event /\ a \notin Cyc
  BY ClockTimes, HandlerAssumption DEF IInv, Event
<1>2. /\ Withdraw(a, almsta[a]) /\ stage' = stage
      /\ almsta' = [almsta EXCEPT ![a] = FALSE]
      /\ UNCHANGED << min_time, clockVars, cycsta, evttim >>
  BY DEF stp_alm
<1>3. almsta[a] \in BOOLEAN /\ (almsta[a] <=> heap.index[a] # Unregistered)
  BY DEF IInv, HandlersInv, StartedInv, Registered
<1>4. /\ HeapOK(heap') /\ Sorted(heap') /\ OthersKept(heap, heap', a)
      /\ heap'.index[a] = Unregistered
  BY <1>1, <1>2, <1>3, WithdrawHeap DEF IInv
<1>5. ClockInv' /\ HeapOK(heap)' /\ Sorted(heap)' /\ TimesInv'
  BY <1>1, <1>2, <1>4, OneEventStep DEF IInv
<1>6. /\ almsta' \in [Alm -> BOOLEAN] /\ almsta'[a] = FALSE
      /\ \A x \in Alm \ {a} : almsta'[x] = almsta[x]
  BY <1>2 DEF IInv, HandlersInv
<1>7. StartedInv'
  BY <1>1, <1>2, <1>4, <1>6, StartedStep DEF IInv
<1>8. QED
  BY <1>2, <1>4, <1>5, <1>6, <1>7 DEF NowWithdrawn, IInv, HandlersInv, Time, Event

----------------------------------------------------------------------------
(***************************************************************************)
(* The steps of signal_time.                                               *)
(***************************************************************************)
\* The event at the root is due.
LEMMA TopEvent ==
  ASSUME IInv, TopDue, NEW e, heap.node[1].p_tmevtb = e
  PROVE  /\ e \in Event /\ heap.index[e] # Unregistered
         /\ TimeOf(heap, e) \in Time /\ FromMin(TimeOf(heap, e)) <= D1
         /\ HeapOK(tmevtb_delete_top(heap)) /\ Sorted(tmevtb_delete_top(heap))
         /\ OthersKept(heap, tmevtb_delete_top(heap), e)
         /\ tmevtb_delete_top(heap).index[e] = Unregistered
<1>1. min_time \in Int /\ HeapOK(heap) /\ Sorted(heap) /\ heap.node # << >>
      /\ FromMin(current_time) = D1
  BY ClockTimes DEF IInv, TopDue
<1>2. /\ e \in Event /\ heap.index[e] # Unregistered
      /\ TimeOf(heap, e) = heap.node[1].time
      /\ tmevtb_delete_top(heap) = tmevtb_delete(heap, e)
  BY <1>1, DeleteTop
<1>3. TimeOf(heap, e) \in Time
  BY <1>1, <1>2, HeapTime
<1>4. FromMin(TimeOf(heap, e)) <= D1
  BY <1>1, <1>2 DEF TopDue, EVTTIM_LE
<1>5. QED
  BY <1>1, <1>2, <1>3, <1>4, DeleteHeap

LEMMA CallCychdrStep ==
  ASSUME IInv, NEW c \in Cyc, call_cychdr(c)
  PROVE  IInv' /\ NowEntered(c, Word(evttim[c] + cyctim[c]))
<1> DEFINE next == Word(evttim[c] + cyctim[c])
           h    == tmevtb_delete_top(heap)
<1>1. /\ TopDue /\ heap.node[1].p_tmevtb = c
      /\ heap' = tmevtb_insert(h, c, next)
      /\ evttim' = [evttim EXCEPT ![c] = next]
      /\ stage' = c
      /\ UNCHANGED << min_time, clockVars, cycsta, almsta >>
  BY DEF call_cychdr
<1>2. /\ c \in Event /\ c \notin Alm /\ c # "idle" /\ min_time \in Int
      /\ cyctim[c] \in 0 .. TMAX_RELTIM
  BY ClockTimes, HandlerAssumption, ReltimAssumption, SpanLemma DEF IInv, Event
<1>3. /\ heap.index[c] # Unregistered
      /\ TimeOf(heap, c) \in Time /\ FromMin(TimeOf(heap, c)) <= D1
      /\ HeapOK(h) /\ Sorted(h) /\ OthersKept(heap, h, c)
      /\ h.index[c] = Unregistered
  BY <1>1, TopEvent
<1>4. cycsta[c] /\ evttim[c] = TimeOf(heap, c)
  BY <1>3 DEF IInv, HandlersInv, StartedInv, Registered, TimeOf
<1>5. next \in Time /\ FromMin(next) <= D1 + Reach
  BY <1>2, <1>3, <1>4, CycleTime DEF IInv
<1> HIDE DEF next, h
<1>6. /\ HeapOK(heap') /\ Sorted(heap') /\ OthersKept(h, heap', c)
      /\ heap'.index[c] # Unregistered /\ TimeOf(heap', c) = next
  BY <1>1, <1>2, <1>3, <1>5, InsertHeap
<1>7. OthersKept(heap, heap', c)
  BY <1>3, <1>6 DEF OthersKept
<1>8. ClockInv' /\ HeapOK(heap)' /\ Sorted(heap)' /\ TimesInv'
  BY <1>1, <1>2, <1>5, <1>6, <1>7, OneEventStep DEF IInv
<1>9. /\ evttim' \in [Cyc -> Time] /\ evttim'[c] = next
      /\ \A x \in Cyc \ {c} : evttim'[x] = evttim[x]
  BY <1>1, <1>5 DEF IInv, HandlersInv
<1>10. StartedInv'
  BY <1>1, <1>2, <1>4, <1>6, <1>7, <1>9, StartedStep DEF IInv
<1>11. QED
  BY <1>1, <1>2, <1>6, <1>7, <1>8, <1>9, <1>10
     DEF next, NowEntered, IInv, HandlersInv, Time, Event

LEMMA CallAlmhdrStep ==
  ASSUME IInv, NEW a \in Alm, call_almhdr(a)
  PROVE  IInv' /\ NowWithdrawn(a)
<1>1. /\ TopDue /\ heap.node[1].p_tmevtb = a
      /\ heap' = tmevtb_delete_top(heap)
      /\ almsta' = [almsta EXCEPT ![a] = FALSE]
      /\ stage' = a
      /\ UNCHANGED << min_time, clockVars, cycsta, evttim >>
  BY DEF call_almhdr
<1>2. a \in Event /\ a \notin Cyc /\ a # "idle" /\ min_time \in Int
  BY ClockTimes, HandlerAssumption DEF IInv, Event
<1>3. /\ HeapOK(heap') /\ Sorted(heap') /\ OthersKept(heap, heap', a)
      /\ heap'.index[a] = Unregistered
  BY <1>1, TopEvent
<1>4. ClockInv' /\ HeapOK(heap)' /\ Sorted(heap)' /\ TimesInv'
  BY <1>1, <1>2, <1>3, OneEventStep DEF IInv
<1>5. /\ almsta' \in [Alm -> BOOLEAN] /\ almsta'[a] = FALSE
      /\ \A x \in Alm \ {a} : almsta'[x] = almsta[x]
  BY <1>1 DEF IInv, HandlersInv
<1>6. StartedInv'
  BY <1>1, <1>2, <1>3, <1>5, StartedStep DEF IInv
<1>7. QED
  BY <1>1, <1>2, <1>3, <1>4, <1>5, <1>6 DEF NowWithdrawn, IInv, HandlersInv, Time, Event

\* The steps that only move the clock, or only the stage.
LEMMA SameHandlers ==
  ASSUME HandlersInv, UNCHANGED << heap, hdrVars >>,
         stage' \in {"idle", "expiring"} \cup Event
  PROVE  HandlersInv'
BY DEF HandlersInv, StartedInv, Registered, Unregistered, hdrVars, Time, Event

LEMMA ReturnStep ==
  ASSUME IInv, handler_return
  PROVE  IInv'
<1>1. /\ stage' = "expiring" /\ UNCHANGED << heap, min_time, clockVars, hdrVars >>
  BY DEF handler_return
<1>2. ClockInv' /\ D1' = D1
  BY <1>1, StillClock DEF IInv
<1>3. HeapOK(heap)' /\ Sorted(heap)'
  BY <1>1, StillHeap, StillSorted DEF IInv
<1>4. HandlersInv'
  BY <1>1, SameHandlers DEF IInv
<1>5. TimesInv'
  BY <1>1, <1>2 DEF IInv, TimesInv, Reach, TMAX_RELTIM, TickLength, TimeOf, Event,
                    FromMin, Word, Unregistered
<1>6. QED
  BY <1>2, <1>3, <1>4, <1>5 DEF IInv

LEMMA SignalTimeStep ==
  ASSUME IInv, signal_time
  PROVE  IInv'
<1>1. /\ stage = "idle" /\ stage' = "expiring" /\ UNCHANGED << heap, min_time, hdrVars >>
  BY DEF signal_time
<1>2. ClockInv' /\ D1' = D2
  BY SignalTimeClock DEF IInv
<1>3. HeapOK(heap)' /\ Sorted(heap)'
  BY <1>1, StillHeap, StillSorted DEF IInv
<1>4. HandlersInv'
  BY <1>1, SameHandlers DEF IInv
<1>5. D1 = 0 /\ D2 \in Nat /\ Reach \in Int
  BY <1>1, ClockFacts, SpanLemma, TickFacts DEF IInv, Reach
<1>6. Reach' = Reach
  BY DEF Reach, TMAX_RELTIM, TickLength
<1>7. ASSUME NEW e \in Event, heap.index[e] # Unregistered
      PROVE  FromMin(TimeOf(heap, e))' <= D1' + Reach'
  <2>1. FromMin(TimeOf(heap, e)) \in Nat
    BY <1>7, ClockTimes, HeapTime DEF IInv
  <2>2. FromMin(TimeOf(heap, e))' = FromMin(TimeOf(heap, e))
    BY <1>1 DEF FromMin, Word, TimeOf
  <2>3. FromMin(TimeOf(heap, e)) <= D1 + Reach
    BY <1>7 DEF IInv, TimesInv
  <2>4. QED
    BY <1>2, <1>5, <1>6, <2>1, <2>2, <2>3
<1>8. TimesInv'
  BY <1>1, <1>7 DEF TimesInv, Unregistered, Event
<1>9. QED
  BY <1>2, <1>3, <1>4, <1>8 DEF IInv

\* At the end of the loop every event is later than the last tick.
LEMMA AllLater ==
  ASSUME IInv, ~TopDue
  PROVE  /\ \A i \in 1 .. Len(heap.node) : Key(heap.node, i) > D1
         /\ \A e \in Event : heap.index[e] # Unregistered =>
              FromMin(TimeOf(heap, e)) > D1
<1>1. min_time \in Int /\ FromMin(current_time) = D1 /\ D1 \in Nat
  BY ClockTimes, ClockFacts DEF IInv
<1>2. ASSUME NEW i \in 1 .. Len(heap.node)
      PROVE  Key(heap.node, i) > D1
  <2>1. Len(heap.node) \in Nat /\ 1 \in 1 .. Len(heap.node)
    BY <1>1, HeapNodes DEF IInv
  <2>2. Key(heap.node, 1) \in Int /\ Key(heap.node, i) \in Int
    BY <1>1, <2>1, HeapNodes DEF IInv
  <2>3. heap.node # << >>
    BY <2>1
  <2>4. ~(Key(heap.node, 1) <= D1)
    BY <1>1, <2>3 DEF TopDue, EVTTIM_LE, Key
  <2>5. Key(heap.node, 1) <= Key(heap.node, i)
    BY <1>1, RootLemma DEF IInv
  <2>6. QED
    BY <1>1, <2>2, <2>4, <2>5
<1>3. ASSUME NEW e \in Event, heap.index[e] # Unregistered
      PROVE  FromMin(TimeOf(heap, e)) > D1
  <2>1. heap.index[e] \in 1 .. Len(heap.node)
    BY <1>3 DEF IInv, HeapOK
  <2>2. QED
    BY <1>2, <2>1 DEF Key, TimeOf
<1>4. QED
  BY <1>2, <1>3

LEMMA EndStep ==
  ASSUME IInv, signal_time_end
  PROVE  IInv'
<1>1. /\ ~TopDue /\ stage' = "idle" /\ min_time' = current_time
      /\ UNCHANGED << heap, clockVars, hdrVars >>
  BY DEF signal_time_end
<1>2. ClockInv' /\ D1' = 0 /\ D1 \in Nat /\ min_time \in Int
  BY EndClock, ClockFacts, ClockTimes DEF IInv
<1>3. HeapOK(heap)'
  BY <1>1, StillHeap DEF IInv
<1>4. HandlersInv'
  BY <1>1, SameHandlers DEF IInv
<1>5. ASSUME NEW t \in Time, FromMin(t) > D1
      PROVE  Word(t - min_time') = FromMin(t) - D1 /\ FromMin(t) \in Int
  BY <1>1, <1>5, NewMin DEF IInv
<1>6. Sorted(heap)'
  <2>1. ASSUME NEW i \in 1 .. Len(heap.node)
        PROVE  /\ Key(heap.node, i)' = Key(heap.node, i) - D1
               /\ Key(heap.node, i) \in Int
    <3>1. heap.node[i].time \in Time /\ FromMin(heap.node[i].time) > D1
      BY <1>1, <1>2, AllLater, HeapNodes DEF IInv, Key
    <3>2. Key(heap.node, i)' = Word(heap.node[i].time - min_time')
      BY <1>1 DEF Key, FromMin, Word
    <3>3. QED
      BY <1>5, <3>1, <3>2 DEF Key
  <2>2. ASSUME NEW i \in 2 .. Len(heap.node)
        PROVE  Key(heap.node, PARENT(i))' <= Key(heap.node, i)'
    <3>1. Len(heap.node) \in Nat
      BY <1>2, HeapNodes DEF IInv
    <3>2. i \in 1 .. Len(heap.node) /\ PARENT(i) \in 1 .. Len(heap.node)
      BY <3>1, ParentLemma
    <3>3. Key(heap.node, PARENT(i)) <= Key(heap.node, i)
      BY DEF IInv, Sorted, SortedUpTo
    <3>4. QED
      BY <1>2, <2>1, <3>2, <3>3
  <2>3. QED
    BY <1>1, <2>2 DEF Sorted, SortedUpTo, PARENT
<1>7. TimesInv'
  <2>1. ASSUME NEW e \in Event, heap.index[e] # Unregistered
        PROVE  /\ FromMin(TimeOf(heap, e))' <= D1' + Reach
               /\ FromMin(TimeOf(heap, e))' >= 1
    <3>1. TimeOf(heap, e) \in Time /\ FromMin(TimeOf(heap, e)) > D1
      BY <1>1, <1>2, <2>1, AllLater, HeapTime DEF IInv
    <3>2. FromMin(TimeOf(heap, e))' = FromMin(TimeOf(heap, e)) - D1
      <4>1. FromMin(TimeOf(heap, e))' = Word(TimeOf(heap, e) - min_time')
        BY <1>1 DEF FromMin, Word, TimeOf
      <4>2. QED
        BY <1>5, <3>1, <4>1
    <3>3. FromMin(TimeOf(heap, e)) <= D1 + Reach
      BY <2>1 DEF IInv, TimesInv
    <3>4. FromMin(TimeOf(heap, e)) \in Int /\ Reach \in Int
      BY <1>5, <3>1, SpanLemma, TickFacts DEF Reach
    <3>5. QED
      BY <1>2, <3>1, <3>2, <3>3, <3>4
  <2>2. Reach' = Reach
    BY DEF Reach, TMAX_RELTIM, TickLength
  <2>3. QED
    BY <1>1, <2>1, <2>2 DEF TimesInv, Unregistered, Event
<1>8. QED
  BY <1>2, <1>3, <1>4, <1>6, <1>7 DEF IInv

LEMMA InitStep ==
  ASSUME Init
  PROVE  IInv
<1>1. /\ min_time = 0 /\ current_time = 0 /\ heap = StartHeap /\ stage = "idle"
      /\ cycsta = [c \in Cyc |-> c \in TaSta]
      /\ evttim = [c \in Cyc |-> IF c \in TaSta THEN cycphs[c] ELSE 0]
      /\ almsta = [a \in Alm |-> FALSE]
  BY DEF Init
<1>2. ClockInv /\ D1 = 0
  BY <1>1, InitClock, ClockFacts
<1>3. /\ HeapOK(heap) /\ Sorted(heap)
      /\ \A e \in Event :
           /\ heap.index[e] # Unregistered <=> e \in TaSta
           /\ e \in TaSta => TimeOf(heap, e) = cycphs[e]
  BY <1>1, StartHeapLemma
<1>4. \A c \in Cyc : cycphs[c] \in Time /\ cycphs[c] \in 0 .. TMAX_RELTIM
  BY ReltimAssumption, SpanLemma
<1>5. HandlersInv
  <2>1. evttim \in [Cyc -> Time]
    BY <1>1, <1>4, SpanLemma DEF Time
  <2>2. StartedInv
    BY <1>1, <1>3, HandlerAssumption DEF StartedInv, Registered, TimeOf, Event
  <2>3. QED
    BY <1>1, <2>1, <2>2 DEF HandlersInv
<1>6. ASSUME NEW e \in Event, heap.index[e] # Unregistered
      PROVE  /\ FromMin(TimeOf(heap, e)) <= D1 + Reach
             /\ \/ FromMin(TimeOf(heap, e)) >= 1
                \/ e \in TaSta /\ TimeOf(heap, e) = 0
  <2>1. e \in TaSta /\ e \in Cyc /\ TimeOf(heap, e) = cycphs[e]
    BY <1>3, <1>6, HandlerAssumption
  <2>2. cycphs[e] \in Time /\ cycphs[e] \in 0 .. TMAX_RELTIM
    BY <1>4, <2>1
  <2>3. FromMin(cycphs[e]) = cycphs[e]
    <3>1. cycphs[e] - min_time = cycphs[e]
      BY <1>1, <2>2 DEF Time
    <3>2. QED
      BY <2>2, <3>1, SmallWord DEF FromMin
  <2> DEFINE k == cycphs[e]
  <2>4. k \in Int /\ 0 <= k /\ k <= 0 + Reach
    BY <2>2, SpanLemma, TickFacts DEF Reach
  <2>5. FromMin(TimeOf(heap, e)) = k /\ TimeOf(heap, e) = k
    BY <2>1, <2>3
  <2> HIDE DEF k
  <2>6. k >= 1 \/ k = 0
    BY <2>4
  <2>7. FromMin(TimeOf(heap, e)) <= D1 + Reach
    BY <1>2, <2>4, <2>5
  <2>8. FromMin(TimeOf(heap, e)) >= 1 \/ (e \in TaSta /\ TimeOf(heap, e) = 0)
    <3>1. CASE k >= 1
      BY <2>5, <3>1
    <3>2. CASE k = 0
      BY <2>1, <2>5, <3>2
    <3>3. QED
      BY <2>6, <3>1, <3>2
  <2>9. QED
    BY <2>7, <2>8
<1>7. TimesInv
  BY <1>6 DEF TimesInv
<1>8. QED
  BY <1>2, <1>3, <1>5, <1>7 DEF IInv

LEMMA StutterStep ==
  ASSUME IInv, UNCHANGED vars
  PROVE  IInv'
<1>1. UNCHANGED << heap, min_time, clockVars, hdrVars, stage >>
  BY DEF vars
<1>2. ClockInv' /\ D1' = D1
  BY <1>1, StillClock DEF IInv
<1>3. HeapOK(heap)' /\ Sorted(heap)'
  BY <1>1, StillHeap, StillSorted DEF IInv
<1>4. HandlersInv'
  BY <1>1, SameHandlers DEF IInv, HandlersInv
<1>5. TimesInv'
  BY <1>1, <1>2 DEF IInv, TimesInv, Reach, TMAX_RELTIM, TickLength, TimeOf, Event,
                    FromMin, Word, Unregistered
<1>6. QED
  BY <1>2, <1>3, <1>4, <1>5 DEF IInv

LEMMA StepLemma ==
  ASSUME IInv, [Next]_vars
  PROVE  IInv'
<1>1. CASE signal_time
  BY <1>1, SignalTimeStep
<1>2. CASE handler_return
  BY <1>2, ReturnStep
<1>3. CASE signal_time_end
  BY <1>3, EndStep
<1>4. CASE \E c \in Cyc : call_cychdr(c)
  BY <1>4, CallCychdrStep
<1>5. CASE \E a \in Alm : call_almhdr(a)
  BY <1>5, CallAlmhdrStep
<1>6. CASE \E c \in Cyc : sta_cyc(c) \/ stp_cyc(c)
  BY <1>6, StaCycStep, StpCycStep
<1>7. CASE \E a \in Alm : stp_alm(a) \/ \E almtim \in Almtim : sta_alm(a, almtim)
  BY <1>7, StaAlmStep, StpAlmStep
<1>8. CASE UNCHANGED vars
  BY <1>8, StutterStep
<1>9. QED
  BY <1>1, <1>2, <1>3, <1>4, <1>5, <1>6, <1>7, <1>8 DEF Next, SignalTime, Call

LEMMA Inductive == Spec => []IInv
<1>1. Init => IInv
  BY InitStep
<1>2. IInv /\ [Next]_vars => IInv'
  BY StepLemma
<1>3. QED
  BY <1>1, <1>2, PTL DEF Spec

----------------------------------------------------------------------------
(***************************************************************************)
(* The properties.                                                         *)
(***************************************************************************)
LEMMA QuotientIs ==
  ASSUME NEW b \in Nat \ {0}, NEW q \in Int, NEW r \in 0 .. b - 1
  PROVE  (b * q + r) \div b = q
<1> DEFINE a == b * q + r
           p == a \div b
           s == a % b
           n == p - q
<1>1. a \in Int /\ b \in Int /\ b >= 1 /\ b * q \in Int
  OBVIOUS
<1>2. p \in Int /\ s \in 0 .. b - 1 /\ a = b * p + s
  BY <1>1, DivisionLemma
<1> HIDE DEF p, s
<1>3. n \in Int /\ p = q + n /\ b * p = b * q + b * n /\ b * n \in Int
  BY <1>1, <1>2
<1>4. b * n = r - s
  BY <1>1, <1>2, <1>3
<1> HIDE DEF n, a
<1>5. ASSUME n >= 1 PROVE FALSE
  <2>1. b * n >= b
    BY <1>1, <1>3, <1>5
  <2>2. QED
    BY <1>1, <1>2, <1>4, <2>1
<1>6. ASSUME n <= -1 PROVE FALSE
  <2>1. b * n <= - b
    BY <1>1, <1>3, <1>6
  <2>2. QED
    BY <1>1, <1>2, <1>4, <2>1
<1>7. n = 0
  BY <1>3, <1>5, <1>6
<1>8. QED
  BY <1>2, <1>3, <1>7 DEF p, a

LEMMA HeapInvLemma == IInv => HeapInv
<1> SUFFICES ASSUME IInv PROVE HeapInv
  OBVIOUS
<1>1. Len(heap.node) \in Nat /\ HeapOK(heap) /\ Sorted(heap)
  BY ClockTimes, HeapNodes DEF IInv
<1>2. \A i \in 2 .. Len(heap.node) :
        EVTTIM_LE(heap.node[PARENT(i)].time, heap.node[i].time)
  BY <1>1 DEF Sorted, SortedUpTo, Key, EVTTIM_LE
<1>3. \A i \in 1 .. Len(heap.node) : heap.index[heap.node[i].p_tmevtb] = i
  BY <1>1 DEF HeapOK
<1>4. ASSUME NEW e \in Event PROVE heap.index[e] \in 0 .. Len(heap.node)
  BY <1>1 DEF HeapOK, Unregistered
<1>5. QED
  BY <1>2, <1>3, <1>4 DEF HeapInv

LEMMA EventsInvLemma == IInv => EventsInv
<1> SUFFICES ASSUME IInv PROVE EventsInv
  OBVIOUS
<1>1. TypeOK
  BY DEF IInv, ClockInv, HeapOK, HandlersInv, TypeOK, Node, Time
<1>2. StartedInv
  BY DEF IInv, HandlersInv
<1>3. ASSUME stage = "idle", NEW i \in 1 .. Len(heap.node)
      PROVE  \/ Word(heap.node[i].time - current_time)
                  \in 1 .. TMAX_RELTIM + (TIC_NUME \div TIC_DENO) + 2
             \/ heap.node[i].p_tmevtb \in TaSta /\ heap.node[i].time = 0
  <2> DEFINE e == heap.node[i].p_tmevtb
  <2>1. e \in Event /\ heap.index[e] = i /\ heap.index[e] # Unregistered
    <3>1. e \in Event /\ heap.index[e] = i
      BY ClockTimes, HeapNodes DEF IInv, HeapOK
    <3>2. i # 0
      OBVIOUS
    <3>3. QED
      BY <3>1, <3>2 DEF Unregistered
  <2>2. TimeOf(heap, e) = heap.node[i].time
    BY <2>1 DEF TimeOf
  <2> HIDE DEF e
  <2>3. D1 = 0 /\ min_time = current_time
    BY <1>3, ClockFacts DEF IInv, ClockInv
  <2> DEFINE k == FromMin(TimeOf(heap, e))
  <2>4. /\ k <= D1 + Reach
        /\ k >= 1 \/ (e \in TaSta /\ TimeOf(heap, e) = 0)
    BY <1>3, <2>1 DEF IInv, TimesInv
  <2>5. k \in Nat
    BY <2>1, ClockTimes, HeapTime DEF IInv
  <2>6. k = Word(heap.node[i].time - current_time)
    BY <2>2, <2>3 DEF FromMin
  <2> HIDE DEF k
  <2>7. Reach \in Int
    BY SpanLemma, TickFacts DEF Reach
  <2>8. CASE k >= 1
    <3>1. k \in 1 .. Reach
      BY <2>3, <2>4, <2>5, <2>7, <2>8
    <3>2. QED
      BY <2>6, <3>1 DEF Reach, TickLength
  <2>9. CASE e \in TaSta /\ TimeOf(heap, e) = 0
    BY <2>2, <2>9 DEF e
  <2>10. QED
    BY <2>4, <2>8, <2>9
<1>4. QED
  BY <1>1, <1>2, <1>3 DEF EventsInv, AheadInv

LEMMA LefttimInvLemma == IInv => LefttimInv
<1> SUFFICES ASSUME IInv, NEW e \in Event, Registered(e)
             PROVE  tmevt_lefttim(e) =
                      IF TimeLeft(e) < 0 THEN 0 ELSE TimeLeft(e) \div TIC_DENO
  BY DEF LefttimInv
<1> DEFINE t == TimeOf(heap, e)
           k == FromMin(t)
           n == D1 + D2
           d == k - n
           left == TIC_DENO * d - next_subtime
<1>1. /\ min_time \in Int /\ next_time \in Int /\ base_time \in Time
      /\ FromMin(next_time) = n /\ FromMin(base_time) = n + Fraction
  BY ClockTimes DEF IInv
<1>2. t \in Time /\ k \in Nat
  BY <1>1, HeapTime DEF IInv, Registered
<1>3. /\ n \in Nat /\ Fraction \in 0 .. 1 /\ d \in Int
      /\ next_subtime \in 0 .. TIC_DENO - 1
      /\ TIC_DENO \in Nat \ {0}
  BY <1>2, ClockFacts, TickFacts DEF IInv, ClockInv
<1>4. TimeLeft(e) = left
  BY <1>1 DEF TimeLeft, TimeOf
<1>5. tmevt_lefttim(e) = IF k <= n THEN 0 ELSE Word(t - base_time)
  BY <1>1 DEF tmevt_lefttim, TimeOf, EVTTIM_LE
<1>6. k \in Time
  <2>1. t - min_time \in Int
    BY <1>1, <1>2 DEF Time
  <2>2. QED
    BY <2>1, WordType DEF FromMin
<1>7. TIC_DENO * d \in Int /\ left \in Int
  BY <1>3
<1>8. CASE d < 0
  <2>1. TIC_DENO * d < 0
    BY <1>3, <1>8
  <2>2. left < 0 /\ k <= n
    BY <1>2, <1>3, <1>7, <1>8, <2>1
  <2>3. QED
    BY <1>4, <1>5, <2>2
<1>9. CASE d = 0
  <2>1. k <= n /\ left = - next_subtime
    BY <1>2, <1>3, <1>9
  <2>2. CASE next_subtime > 0
    BY <1>3, <1>4, <1>5, <2>1, <2>2
  <2>3. CASE next_subtime = 0
    <3>1. left = 0
      BY <2>1, <2>3
    <3>2. 0 \div TIC_DENO = 0
      <4>1. TIC_DENO * 0 + 0 = 0 /\ 0 \in 0 .. TIC_DENO - 1
        BY <1>3
      <4>2. QED
        BY <1>3, <4>1, QuotientIs
    <3>3. QED
      BY <1>4, <1>5, <2>1, <3>1, <3>2
  <2>4. QED
    BY <1>3, <2>2, <2>3
<1>10. CASE d > 0
  <2>1. ~(k <= n) /\ k - (n + Fraction) = d - Fraction /\ d - Fraction >= 0
    BY <1>2, <1>3, <1>10
  <2>2. Word(t - base_time) = d - Fraction
    <3> DEFINE a == t - min_time
               b == base_time - min_time
    <3>1. a \in Int /\ b \in Int /\ a - b = t - base_time
      BY <1>1, <1>2 DEF Time
    <3>2. Word(a) = k /\ Word(b) = n + Fraction
      BY <1>1 DEF FromMin
    <3> HIDE DEF a, b
    <3>3. Word(a) - Word(b) = d - Fraction
      BY <2>1, <3>2
    <3>4. d - Fraction \in Time
      <4>1. d - Fraction \in Nat /\ d - Fraction <= k /\ k \in Nat
        BY <1>2, <1>3, <2>1
      <4>2. k <= TimeSpan - 1 /\ TimeSpan \in Nat
        BY <1>6, SpanLemma DEF Time
      <4> HIDE DEF d, k
      <4>3. QED
        BY <1>3, <4>1, <4>2 DEF Time
    <3>5. QED
      BY <3>1, <3>3, <3>4, WordBoth
  <2>3. left \div TIC_DENO = d - Fraction /\ ~(left < 0)
    <3>1. CASE next_subtime = 0
      <4>1. Fraction = 0 /\ left = TIC_DENO * d + 0 /\ 0 \in 0 .. TIC_DENO - 1
        BY <1>3, <1>7, <3>1 DEF Fraction
      <4>2. (TIC_DENO * d + 0) \div TIC_DENO = d
        BY <1>3, <4>1, QuotientIs
      <4>3. TIC_DENO * d >= 0
        BY <1>3, <1>10
      <4>4. QED
        BY <1>3, <1>7, <4>1, <4>2, <4>3
    <3>2. CASE next_subtime # 0
      <4> DEFINE r == TIC_DENO - next_subtime
      <4>1. Fraction = 1 /\ r \in 0 .. TIC_DENO - 1 /\ d - 1 \in Int
        BY <1>3, <3>2 DEF Fraction
      <4>2. left = TIC_DENO * (d - 1) + r
        <5>1. TIC_DENO * (d - 1) = TIC_DENO * d - TIC_DENO
          BY <1>3
        <5>2. QED
          BY <1>3, <1>7, <5>1
      <4>3. TIC_DENO * (d - 1) >= 0 /\ TIC_DENO * (d - 1) \in Int
        BY <1>3, <1>10
      <4>4. r >= 0 /\ r \in Int
        BY <4>1
      <4> HIDE DEF r
      <4>5. (TIC_DENO * (d - 1) + r) \div TIC_DENO = d - 1
        BY <1>3, <4>1, QuotientIs
      <4>6. TIC_DENO * (d - 1) + r >= 0
        BY <4>3, <4>4
      <4> HIDE DEF left
      <4>7. QED
        BY <1>7, <4>1, <4>2, <4>5, <4>6
    <3>3. QED
      BY <3>1, <3>2
  <2>4. QED
    BY <1>4, <1>5, <2>1, <2>2, <2>3
<1>11. QED
  BY <1>3, <1>8, <1>9, <1>10

\* For every run of the calls and ticks: tmevt_heap is in heap order and every
\* TMEVTB has the index of its node (HeapInv), whichever node tmevtb_delete
\* takes out and wherever the last node goes instead.
THEOREM HeapCorrect == Spec => []HeapInv
BY Inductive, HeapInvLemma, PTL

\* The marks of the handlers agree with the heap, evttim is the registered time,
\* and between ticks every event is ahead of the clock and within the reach of
\* the comparisons (EventsInv), although event times wrap.
THEOREM EventsCorrect == Spec => []EventsInv
BY Inductive, EventsInvLemma, PTL

\* tmevt_lefttim reports the real remaining time in whole milliseconds, whatever
\* the fraction of the next tick and wherever the event times wrap (LefttimInv).
THEOREM LefttimCorrect == Spec => []LefttimInv
BY Inductive, LefttimInvLemma, PTL

----------------------------------------------------------------------------
(***************************************************************************)
(* The promise in real time.                                               *)
(***************************************************************************)
Left == [e \in {x \in Event : Registered(x)} |-> TimeLeft(e)]

\* The time left to e, from its time relative to min_time.
LeftOf(k) == TIC_DENO * (k - (D1 + D2)) - next_subtime

LeftInv ==
  \A e \in Event : Registered(e) =>
    /\ FromMin(TimeOf(heap, e)) \in Nat
    /\ TimeLeft(e) = LeftOf(FromMin(TimeOf(heap, e)))

LEMMA LeftIs == IInv => LeftInv
<1> SUFFICES ASSUME IInv, NEW e \in Event, Registered(e)
             PROVE  /\ FromMin(TimeOf(heap, e)) \in Nat
                    /\ TimeLeft(e) = LeftOf(FromMin(TimeOf(heap, e)))
  BY DEF LeftInv
<1>1. min_time \in Int /\ FromMin(next_time) = D1 + D2
  BY ClockTimes DEF IInv
<1>2. FromMin(TimeOf(heap, e)) \in Nat
  BY <1>1, HeapTime DEF IInv, Registered
<1>3. QED
  BY <1>1, <1>2 DEF TimeLeft, TimeOf, LeftOf

LEMMA LeftIsNext == IInv' => LeftInv'
BY LeftIs, PTL

\* While the clock stands still, the others keep the time they have left.
LEMMA OthersLeft ==
  ASSUME UNCHANGED << min_time, clockVars >>, NEW e \in Event,
         OthersKept(heap, heap', e)
  PROVE  \A x \in Event \ {e} :
           /\ Registered(x)' <=> Registered(x)
           /\ Registered(x) => TimeLeft(x)' = TimeLeft(x)
BY DEF OthersKept, Registered, Unregistered, TimeLeft, TimeOf, FromMin, Word, clockVars

LEMMA LeftWith ==
  ASSUME UNCHANGED << min_time, clockVars >>, NEW e \in Event,
         NEW time, NowEntered(e, time)
  PROVE  Left' = [x \in DOMAIN Left \cup {e} |-> IF x = e THEN TimeLeft(e)' ELSE Left[x]]
<1>1. \A x \in Event \ {e} :
        /\ Registered(x)' <=> Registered(x)
        /\ Registered(x) => TimeLeft(x)' = TimeLeft(x)
  BY OthersLeft DEF NowEntered
<1>2. Registered(e)'
  BY DEF NowEntered, Registered, Unregistered
<1>3. Left' = [x \in {y \in Event : Registered(y)'} |-> TimeLeft(x)']
  BY DEF Left, Event
<1>4. {y \in Event : Registered(y)'} = DOMAIN Left \cup {e}
  BY <1>1, <1>2 DEF Left
<1>5. \A x \in {y \in Event : Registered(y)'} :
         TimeLeft(x)' = IF x = e THEN TimeLeft(e)' ELSE Left[x]
  BY <1>1 DEF Left
<1>6. QED
  BY <1>3, <1>4, <1>5

LEMMA LeftWithout ==
  ASSUME UNCHANGED << min_time, clockVars >>, NEW e \in Event, NowWithdrawn(e)
  PROVE  Left' = [x \in DOMAIN Left \ {e} |-> Left[x]]
<1>1. \A x \in Event \ {e} :
        /\ Registered(x)' <=> Registered(x)
        /\ Registered(x) => TimeLeft(x)' = TimeLeft(x)
  BY OthersLeft DEF NowWithdrawn
<1>2. ~Registered(e)'
  BY DEF NowWithdrawn, Registered, Unregistered
<1>3. Left' = [x \in {y \in Event : Registered(y)'} |-> TimeLeft(x)']
  BY DEF Left, Event
<1>4. {y \in Event : Registered(y)'} = DOMAIN Left \ {e}
  BY <1>1, <1>2 DEF Left
<1>5. \A x \in {y \in Event : Registered(y)'} : TimeLeft(x)' = Left[x]
  BY <1>1, <1>2 DEF Left
<1>6. QED
  BY <1>3, <1>4, <1>5

\* The time left to an event that was entered.
LEMMA LeftEntered ==
  ASSUME IInv, IInv', UNCHANGED << min_time, clockVars >>, NEW e \in Event,
         NEW time, NowEntered(e, time)
  PROVE  TimeLeft(e)' = LeftOf(FromMin(time))
<1>1. LeftInv'
  BY LeftIsNext
<1>2. Registered(e)'
  BY DEF NowEntered, Registered, Unregistered
<1>3. TimeLeft(e)' = LeftOf(FromMin(TimeOf(heap, e)))'
  BY <1>1, <1>2 DEF LeftInv, Event
<1>4. LeftOf(FromMin(TimeOf(heap, e)))' = LeftOf(FromMin(time))
  BY DEF NowEntered, LeftOf, FromMin, TimeOf, Word, D1, D2, clockVars
<1>5. QED
  BY <1>3, <1>4

\* A call starts an event: it is due r milliseconds after the next tick,
\* rounded up.
LEMMA StartLeft ==
  ASSUME ClockInv, NEW r \in 0 .. TMAX_RELTIM
  PROVE  \E rounding \in 0 .. TIC_DENO - 1 :
           LeftOf(FromMin(Word(base_time + r))) = r * TIC_DENO + rounding
<1> DEFINE n == D1 + D2
           rounding == TIC_DENO * Fraction - next_subtime
<1>1. FromMin(Word(base_time + r)) = n + Fraction + r
  BY StartTime
<1>2. /\ n \in Nat /\ Fraction \in 0 .. 1 /\ r \in Int
      /\ next_subtime \in 0 .. TIC_DENO - 1 /\ TIC_DENO \in Nat
  BY ClockFacts, TickFacts, SpanLemma DEF ClockInv
<1>3. rounding \in 0 .. TIC_DENO - 1
  <2>1. CASE next_subtime = 0
    BY <1>2, <2>1, TickFacts DEF Fraction
  <2>2. CASE next_subtime # 0
    <3>1. Fraction = 1
      BY <1>2, <2>2 DEF Fraction
    <3>2. TIC_DENO * Fraction = TIC_DENO
      BY <1>2, <3>1
    <3>3. QED
      BY <1>2, <2>2, <3>2
  <2>3. QED
    BY <2>1, <2>2
<1>4. LeftOf(FromMin(Word(base_time + r))) = r * TIC_DENO + rounding
  <2>1. n + Fraction + r - n = Fraction + r
    BY <1>2
  <2>2. TIC_DENO * (Fraction + r) = TIC_DENO * Fraction + r * TIC_DENO
    BY <1>2
  <2>3. LeftOf(n + Fraction + r) = TIC_DENO * (Fraction + r) - next_subtime
    <3>1. (n + Fraction + r) - n = Fraction + r
      BY <1>2
    <3>2. QED
      BY <3>1 DEF LeftOf
  <2>4. TIC_DENO * Fraction \in Int /\ r * TIC_DENO \in Int
    BY <1>2
  <2>5. QED
    BY <1>1, <1>2, <2>2, <2>3, <2>4
<1>5. QED
  BY <1>3, <1>4

LEMMA BalanceLemma ==
  ASSUME NEW a \in Int, NEW b \in Int, NEW c \in Int, NEW s \in Int, NEW t \in Int,
         NEW n \in Int, c + t = n + s
  PROVE  a - b - c - t = (a - b - s) - n
OBVIOUS

LEMMA TickLeft ==
  ASSUME IInv, signal_time
  PROVE  Real!TTick
<1>1. /\ stage = "idle" /\ stage' = "expiring" /\ UNCHANGED << heap, min_time >>
  BY DEF signal_time
<1>2. IInv' /\ LeftInv /\ LeftInv'
  BY SignalTimeStep, LeftIs, LeftIsNext
<1>3. /\ D1' = D2 /\ D1 = 0 /\ D2 \in Nat /\ D2' \in Int
      /\ TIC_DENO * D2' + next_subtime' = TIC_NUME + next_subtime
      /\ next_subtime \in Int /\ next_subtime' \in Int
  <2>1. D1' = D2 /\ TIC_DENO * D2' + next_subtime' = TIC_NUME + next_subtime
    BY SignalTimeClock DEF IInv
  <2>2. D1 = 0 /\ D2 \in Nat
    BY <1>1, ClockFacts DEF IInv
  <2>3. next_time' \in Int /\ current_time' \in Int /\ next_subtime' \in Int
    BY <1>2 DEF IInv, ClockInv, Time
  <2>4. D2' \in Int
    <3>1. D2' = Word(next_time' - current_time')
      BY DEF D2, Word
    <3>2. next_time' - current_time' \in Int
      BY <2>3
    <3>3. QED
      BY <3>1, <3>2, WordType
  <2>5. next_subtime \in Int
    BY DEF IInv, ClockInv
  <2>6. QED
    BY <2>1, <2>2, <2>3, <2>4, <2>5
<1>4. ASSUME NEW e \in Event
      PROVE  /\ Registered(e)' <=> Registered(e)
             /\ Registered(e) => TimeLeft(e)' = TimeLeft(e) - TIC_NUME
  <2>1. Registered(e)' <=> Registered(e)
    BY <1>1 DEF Registered, Unregistered
  <2>2. ASSUME Registered(e) PROVE TimeLeft(e)' = TimeLeft(e) - TIC_NUME
    <3> DEFINE k == FromMin(TimeOf(heap, e))
    <3>1. k \in Nat /\ TimeLeft(e) = LeftOf(k)
      BY <1>2, <2>2 DEF LeftInv
    <3>2. k' = k
      BY <1>1 DEF FromMin, TimeOf, Word
    <3>3. TimeLeft(e)' = LeftOf(k)'
      BY <1>2, <2>1, <2>2 DEF LeftInv, Event
    <3>4. LeftOf(k)' = TIC_DENO * (k' - (D1' + D2')) - next_subtime'
      BY DEF LeftOf, D1, D2
    <3>5. LeftOf(k) = TIC_DENO * (k - (D1 + D2)) - next_subtime
      BY DEF LeftOf
    <3> HIDE DEF k
    <3>6. TIC_DENO * (k - (0 + D2)) = TIC_DENO * k - TIC_DENO * D2
      BY <1>3, <3>1, TickFacts
    <3>7. TIC_DENO * (k - (D2 + D2')) = TIC_DENO * k - TIC_DENO * D2 - TIC_DENO * D2'
      BY <1>3, <3>1, TickFacts
    <3>8. TIC_DENO * k \in Int /\ TIC_DENO * D2 \in Int /\ TIC_DENO * D2' \in Int
      BY <1>3, <3>1, TickFacts
    <3>9. TimeLeft(e)' = TIC_DENO * k - TIC_DENO * D2 - TIC_DENO * D2' - next_subtime'
      BY <1>3, <3>2, <3>3, <3>4, <3>7
    <3>10. TimeLeft(e) = TIC_DENO * k - TIC_DENO * D2 - next_subtime
      BY <1>3, <3>1, <3>5, <3>6
    <3> DEFINE a == TIC_DENO * k
               b == TIC_DENO * D2
               c == TIC_DENO * D2'
    <3>11. /\ TimeLeft(e)' = a - b - c - next_subtime'
           /\ TimeLeft(e) = a - b - next_subtime
           /\ c + next_subtime' = TIC_NUME + next_subtime
           /\ a \in Int /\ b \in Int /\ c \in Int
      BY <1>3, <3>8, <3>9, <3>10
    <3>12. next_subtime \in Int /\ next_subtime' \in Int /\ TIC_NUME \in Int
      BY <1>3, TickFacts
    <3> HIDE DEF a, b, c
    <3>13. PICK z \in Int : z = c
      BY <3>11
    <3>14. PICK t \in Int : t = next_subtime'
      BY <3>12
    <3>15. PICK s \in Int : s = next_subtime
      BY <3>12
    <3>16. z + t = TIC_NUME + s
      BY <3>11, <3>13, <3>14, <3>15
    <3>17. a - b - z - t = (a - b - s) - TIC_NUME
      BY <3>11, <3>12, <3>16, BalanceLemma
    <3>18. a - b - c - next_subtime' = (a - b - next_subtime) - TIC_NUME
      BY <3>17, <3>13, <3>14, <3>15
    <3>19. QED
      BY <3>11, <3>18
  <2>3. QED
    BY <2>1, <2>2
<1>5. Left' = [e \in DOMAIN Left |-> Left[e] - TIC_NUME]
  <2>1. Left' = [x \in {y \in Event : Registered(y)'} |-> TimeLeft(x)']
    BY DEF Left, Event
  <2>2. {y \in Event : Registered(y)'} = DOMAIN Left
    BY <1>4 DEF Left
  <2>3. \A x \in DOMAIN Left : TimeLeft(x)' = Left[x] - TIC_NUME
    BY <1>4 DEF Left
  <2>4. QED
    BY <2>1, <2>2, <2>3
<1>6. QED
  BY <1>1, <1>5 DEF Real!TTick, Real!StartedEvents, Left

\* A call of a task or a handler starts an event.
LEMMA StaLeft ==
  ASSUME IInv, IInv', UNCHANGED << min_time, clockVars >>, NEW e \in Event,
         NEW r \in 0 .. TMAX_RELTIM, NowEntered(e, Word(base_time + r))
  PROVE  \E rounding \in 0 .. TIC_DENO - 1 : Left' = Real!With(e, r * TIC_DENO + rounding)
<1>1. PICK rounding \in 0 .. TIC_DENO - 1 :
        LeftOf(FromMin(Word(base_time + r))) = r * TIC_DENO + rounding
  BY StartLeft DEF IInv
<1>2. TimeLeft(e)' = r * TIC_DENO + rounding
  BY <1>1, LeftEntered
<1>3. Left' = [x \in DOMAIN Left \cup {e} |-> IF x = e THEN TimeLeft(e)' ELSE Left[x]]
  BY LeftWith
<1>4. QED
  BY <1>1, <1>2, <1>3 DEF Real!With, Real!StartedEvents, Left

LEMMA StaCycLeft ==
  ASSUME IInv, NEW c \in Cyc, sta_cyc(c)
  PROVE  Real!TStart(c)
<1>1. IInv' /\ NowEntered(c, Word(base_time + cycphs[c]))
  BY StaCycStep
<1>2. /\ UNCHANGED << min_time, clockVars >>
      /\ stage = "idle" /\ stage' = stage
  BY DEF sta_cyc, FromTask
<1>3. c \in Event /\ cycphs[c] \in 0 .. TMAX_RELTIM
  BY ReltimAssumption DEF Event
<1>4. PICK rounding \in 0 .. TIC_DENO - 1 :
        Left' = Real!With(c, cycphs[c] * TIC_DENO + rounding)
  BY <1>1, <1>2, <1>3, StaLeft
<1>5. QED
  BY <1>2, <1>4 DEF Real!TStart, Left

LEMMA StaAlmLeft ==
  ASSUME IInv, NEW a \in Alm, NEW almtim \in Almtim, sta_alm(a, almtim)
  PROVE  Real!TStart(a)
<1>1. IInv' /\ NowEntered(a, Word(base_time + almtim))
  BY StaAlmStep
<1>2. /\ UNCHANGED << min_time, clockVars >>
      /\ stage # "expiring" /\ stage' = stage
  BY DEF sta_alm, FromHandler
<1>3. a \in Event /\ a \notin Cyc /\ almtim \in 0 .. TMAX_RELTIM
  BY HandlerAssumption, ReltimAssumption DEF Event
<1>4. PICK rounding \in 0 .. TIC_DENO - 1 :
        Left' = Real!With(a, almtim * TIC_DENO + rounding)
  BY <1>1, <1>2, <1>3, StaLeft
<1>5. QED
  BY <1>2, <1>3, <1>4 DEF Real!TStart, Left

LEMMA StpCycLeft ==
  ASSUME IInv, NEW c \in Cyc, stp_cyc(c)
  PROVE  Real!TStop(c)
<1>1. NowWithdrawn(c)
  BY StpCycStep
<1>2. /\ UNCHANGED << min_time, clockVars >>
      /\ stage = "idle" /\ stage' = stage /\ c \in Event
  BY DEF stp_cyc, FromTask, Event
<1>3. Left' = [x \in DOMAIN Left \ {c} |-> Left[x]]
  BY <1>1, <1>2, LeftWithout
<1>4. QED
  BY <1>2, <1>3 DEF Real!TStop, Real!Without, Real!StartedEvents, Left

LEMMA StpAlmLeft ==
  ASSUME IInv, NEW a \in Alm, stp_alm(a)
  PROVE  Real!TStop(a)
<1>1. NowWithdrawn(a)
  BY StpAlmStep
<1>2. /\ UNCHANGED << min_time, clockVars >>
      /\ stage # "expiring" /\ stage' = stage /\ a \in Event
  BY DEF stp_alm, FromHandler, Event
<1>3. Left' = [x \in DOMAIN Left \ {a} |-> Left[x]]
  BY <1>1, <1>2, LeftWithout
<1>4. QED
  BY <1>2, <1>3 DEF Real!TStop, Real!Without, Real!StartedEvents, Left

\* The greater the time from min_time, the greater the time left.
LEMMA LeftOrder ==
  ASSUME ClockInv, NEW k \in Int, NEW m \in Int, k <= m
  PROVE  LeftOf(k) <= LeftOf(m) /\ LeftOf(k) \in Int
<1> DEFINE n == D1 + D2
<1>1. n \in Int /\ next_subtime \in Int
  BY ClockFacts DEF ClockInv
<1> HIDE DEF n
<1>2. TIC_DENO * (k - n) <= TIC_DENO * (m - n)
  BY <1>1, TickFacts
<1>3. TIC_DENO * (k - n) \in Int /\ TIC_DENO * (m - n) \in Int
  BY <1>1, TickFacts
<1>4. QED
  BY <1>1, <1>2, <1>3 DEF LeftOf, n

\* What the loop expires was due, and before the others.
LEMMA TopLeft ==
  ASSUME IInv, TopDue, NEW e, heap.node[1].p_tmevtb = e
  PROVE  /\ e \in DOMAIN Left /\ Left[e] <= -TIC_NUME
         /\ \A x \in DOMAIN Left : Left[e] <= Left[x]
<1> DEFINE k == FromMin(TimeOf(heap, e))
<1>1. /\ e \in Event /\ heap.index[e] # Unregistered
      /\ TimeOf(heap, e) \in Time /\ k <= D1
  BY TopEvent
<1>2. LeftInv /\ Registered(e)
  BY <1>1, LeftIs DEF Registered
<1>3. k \in Nat /\ Left[e] = LeftOf(k) /\ e \in DOMAIN Left
  BY <1>1, <1>2 DEF LeftInv, Left
<1>4. /\ D1 \in Nat /\ D2 \in Nat /\ next_subtime \in Int
      /\ TIC_NUME <= TIC_DENO * D2 + next_subtime
  BY ClockFacts DEF IInv, ClockInv
<1>5. Left[e] <= -TIC_NUME
  <2>1. LeftOf(k) <= LeftOf(D1) /\ LeftOf(k) \in Int
    BY <1>1, <1>3, <1>4, LeftOrder DEF IInv
  <2>2. LeftOf(D1) = -(TIC_DENO * D2) - next_subtime
    <3>1. TIC_DENO * (D1 - (D1 + D2)) = -(TIC_DENO * D2)
      BY <1>4, TickFacts
    <3>2. QED
      BY <3>1 DEF LeftOf
  <2>3. TIC_DENO * D2 \in Int
    BY <1>4, TickFacts
  <2>4. QED
    BY <1>3, <1>4, <2>1, <2>2, <2>3, TickFacts
<1>6. ASSUME NEW x \in DOMAIN Left PROVE Left[e] <= Left[x]
  <2>1. x \in Event /\ Registered(x)
    BY <1>6 DEF Left
  <2>2. FromMin(TimeOf(heap, x)) \in Nat /\ Left[x] = LeftOf(FromMin(TimeOf(heap, x)))
    BY <1>2, <1>6, <2>1 DEF LeftInv, Left
  <2>3. k <= FromMin(TimeOf(heap, x))
    <3>1. min_time \in Int /\ heap.index[x] \in 1 .. Len(heap.node)
      BY <2>1, ClockTimes DEF IInv, HeapOK, Registered
    <3>2. Key(heap.node, 1) <= Key(heap.node, heap.index[x])
      BY <3>1, RootLemma DEF IInv
    <3>3. TimeOf(heap, e) = heap.node[1].time
      BY <3>1, DeleteTop DEF IInv, TopDue
    <3>4. QED
      BY <3>2, <3>3 DEF Key, TimeOf
  <2>4. QED
    BY <1>3, <2>2, <2>3, LeftOrder DEF IInv
<1>7. QED
  BY <1>3, <1>5, <1>6

LEMMA CallCychdrLeft ==
  ASSUME IInv, NEW c \in Cyc, call_cychdr(c)
  PROVE  Real!TExpire(c)
<1> DEFINE k == FromMin(TimeOf(heap, c))
           next == Word(evttim[c] + cyctim[c])
<1>1. IInv' /\ NowEntered(c, next)
  BY CallCychdrStep
<1>2. /\ UNCHANGED << min_time, clockVars >>
      /\ TopDue /\ heap.node[1].p_tmevtb = c
      /\ stage = "expiring" /\ stage' = c /\ c \in Event
  BY DEF call_cychdr, Event
<1>3. /\ c \in DOMAIN Left /\ Left[c] <= -TIC_NUME
      /\ \A x \in DOMAIN Left : Left[c] <= Left[x]
  BY <1>2, TopLeft
<1>4. /\ heap.index[c] # Unregistered /\ TimeOf(heap, c) \in Time /\ k <= D1
  BY <1>2, TopEvent
<1>5. k \in Nat /\ Left[c] = LeftOf(k)
  BY <1>2, <1>4, LeftIs DEF LeftInv, Left, Registered
<1>6. evttim[c] = TimeOf(heap, c)
  BY <1>4 DEF IInv, HandlersInv, StartedInv, Registered, TimeOf
<1>7. cyctim[c] \in 0 .. TMAX_RELTIM /\ cyctim[c] \in Int
  BY ReltimAssumption, SpanLemma
<1>8. FromMin(next) = k + cyctim[c]
  BY <1>4, <1>6, <1>7, CycleTime DEF IInv
<1>9. TimeLeft(c)' = LeftOf(k + cyctim[c])
  BY <1>1, <1>2, <1>8, LeftEntered
<1>10. LeftOf(k + cyctim[c]) = Left[c] + cyctim[c] * TIC_DENO
  <2> DEFINE n == D1 + D2
             p == cyctim[c]
  <2>1. n \in Int /\ p \in Int /\ k \in Int /\ next_subtime \in Int /\ TIC_DENO \in Int
    BY <1>5, <1>7, ClockFacts, TickFacts DEF IInv, ClockInv
  <2>2. /\ LeftOf(k + p) = TIC_DENO * ((k + p) - n) - next_subtime
        /\ LeftOf(k) = TIC_DENO * (k - n) - next_subtime
    BY DEF LeftOf
  <2> HIDE DEF n, p, k
  <2>3. /\ TIC_DENO * ((k + p) - n) = TIC_DENO * (k - n) + p * TIC_DENO
        /\ TIC_DENO * (k - n) \in Int /\ p * TIC_DENO \in Int
    BY <2>1
  <2>4. LeftOf(k + p) = LeftOf(k) + p * TIC_DENO
    BY <2>1, <2>2, <2>3
  <2>5. QED
    BY <1>5, <2>4 DEF p
<1>11. Left' = [x \in DOMAIN Left \cup {c} |-> IF x = c THEN TimeLeft(c)' ELSE Left[x]]
  BY <1>1, <1>2, LeftWith
<1>12. Left' = [x \in DOMAIN Left \cup {c} |->
                  IF x = c THEN Left[c] + cyctim[c] * TIC_DENO ELSE Left[x]]
  BY <1>9, <1>10, <1>11
<1>13. QED
  BY <1>2, <1>3, <1>12 DEF Real!TExpire, Real!Due, Real!With, Real!StartedEvents, Left

LEMMA CallAlmhdrLeft ==
  ASSUME IInv, NEW a \in Alm, call_almhdr(a)
  PROVE  Real!TExpire(a)
<1>1. IInv' /\ NowWithdrawn(a)
  BY CallAlmhdrStep
<1>2. /\ UNCHANGED << min_time, clockVars >>
      /\ TopDue /\ heap.node[1].p_tmevtb = a
      /\ stage = "expiring" /\ stage' = a /\ a \in Event /\ a \notin Cyc
  BY HandlerAssumption DEF call_almhdr, Event
<1>3. /\ a \in DOMAIN Left /\ Left[a] <= -TIC_NUME
      /\ \A x \in DOMAIN Left : Left[a] <= Left[x]
  BY <1>2, TopLeft
<1>4. Left' = [x \in DOMAIN Left \ {a} |-> Left[x]]
  BY <1>1, <1>2, LeftWithout
<1>5. QED
  BY <1>2, <1>3, <1>4 DEF Real!TExpire, Real!Due, Real!Without, Real!StartedEvents, Left

LEMMA ReturnLeft ==
  ASSUME handler_return
  PROVE  Real!TReturn
<1>1. /\ stage \in Event /\ stage' = "expiring"
      /\ UNCHANGED << heap, min_time, clockVars >>
  BY DEF handler_return
<1>2. Left' = Left
  BY <1>1 DEF Left, Event, Registered, Unregistered, TimeLeft, FromMin, Word, clockVars
<1>3. QED
  BY <1>1, <1>2 DEF Real!TReturn, Left

LEMMA EndLeft ==
  ASSUME IInv, signal_time_end
  PROVE  Real!TDone
<1>1. /\ ~TopDue /\ stage = "expiring" /\ stage' = "idle" /\ min_time' = current_time
      /\ UNCHANGED << heap, clockVars, hdrVars >>
  BY DEF signal_time_end
<1>2. IInv' /\ LeftInv /\ LeftInv' /\ D1' = 0
  BY EndStep, EndClock, LeftIs, LeftIsNext DEF IInv
<1>3. /\ D1 \in Nat /\ D2 \in Nat /\ next_subtime \in Int /\ D2' = D2
      /\ TIC_DENO * D2 + next_subtime <= TIC_NUME + TIC_DENO - 1
  BY <1>1, ClockFacts DEF IInv, ClockInv, clockVars, D2, Word
<1>4. ASSUME NEW e \in Event, Registered(e)
      PROVE  TimeLeft(e)' = TimeLeft(e) /\ ~(TimeLeft(e) <= -TIC_NUME)
  <2> DEFINE k == FromMin(TimeOf(heap, e))
  <2>1. k \in Nat /\ k > D1 /\ TimeOf(heap, e) \in Time /\ TimeLeft(e) = LeftOf(k)
    <3>1. min_time \in Int
      BY ClockTimes DEF IInv
    <3>2. QED
      BY <1>1, <1>2, <1>4, <3>1, AllLater, HeapTime DEF IInv, LeftInv, Registered
  <2>2. k' = k - D1
    <3>1. k' = Word(TimeOf(heap, e) - current_time)
      BY <1>1 DEF FromMin, Word, TimeOf
    <3>2. QED
      BY <2>1, <3>1, NewMin DEF IInv
  <2>3. TimeLeft(e)' = LeftOf(k)'
    <3>1. Registered(e)'
      BY <1>1, <1>4 DEF Registered, Unregistered
    <3>2. QED
      BY <1>2, <3>1 DEF LeftInv, Event
  <2>4. LeftOf(k)' = TIC_DENO * (k' - (D1' + D2')) - next_subtime'
    BY DEF LeftOf, D1, D2
  <2>5. LeftOf(k) = TIC_DENO * (k - (D1 + D2)) - next_subtime
    BY DEF LeftOf
  <2> HIDE DEF k
  <2>6. k' - (D1' + D2') = k - (D1 + D2)
    BY <1>2, <1>3, <2>1, <2>2
  <2>7. TimeLeft(e)' = TimeLeft(e)
    BY <1>1, <2>1, <2>3, <2>4, <2>5, <2>6 DEF clockVars
  <2>8. LeftOf(D1 + 1) <= LeftOf(k) /\ LeftOf(D1 + 1) \in Int
    BY <1>3, <2>1, LeftOrder DEF IInv
  <2>9. LeftOf(D1 + 1) = TIC_DENO - TIC_DENO * D2 - next_subtime
    <3>1. TIC_DENO * ((D1 + 1) - (D1 + D2)) = TIC_DENO - TIC_DENO * D2
      BY <1>3, TickFacts
    <3>2. QED
      BY <3>1 DEF LeftOf
  <2>10. TIC_DENO * D2 \in Int /\ LeftOf(k) \in Int
    BY <1>3, <2>1, TickFacts, LeftOrder DEF IInv
  <2>11. ~(LeftOf(k) <= -TIC_NUME)
    BY <1>3, <2>8, <2>9, <2>10, TickFacts
  <2>12. QED
    BY <2>1, <2>7, <2>11
<1>5. Left' = Left
  <2>1. Left' = [x \in {y \in Event : Registered(y)'} |-> TimeLeft(x)']
    BY DEF Left, Event
  <2>2. {y \in Event : Registered(y)'} = {y \in Event : Registered(y)}
    BY <1>1 DEF Registered, Unregistered
  <2>3. QED
    BY <1>4, <2>1, <2>2 DEF Left
<1>6. \A e \in DOMAIN Left : ~(Left[e] <= -TIC_NUME)
  BY <1>4 DEF Left
<1>7. QED
  BY <1>1, <1>5, <1>6 DEF Real!TDone, Real!Due, Real!StartedEvents, Left

LEMMA InitLeft ==
  ASSUME Init
  PROVE  Real!TInit
<1>1. /\ IInv /\ heap = StartHeap /\ min_time = 0 /\ current_time = 0
      /\ next_time = TickLength /\ next_subtime = TIC_NUME % TIC_DENO
      /\ stage = "idle"
  BY InitStep DEF Init, TickLength
<1>2. \A e \in Event :
        /\ heap.index[e] # Unregistered <=> e \in TaSta
        /\ e \in TaSta => TimeOf(heap, e) = cycphs[e]
  BY <1>1, StartHeapLemma
<1>3. D1 = 0 /\ D2 = TickLength
  <2>1. TickLength - 0 = TickLength /\ 0 - 0 = 0 /\ 0 \in Time
    BY TickFacts, SpanLemma DEF Time
  <2>2. QED
    BY <1>1, <2>1, TickFits, SmallWord DEF D1, D2
<1>4. ASSUME NEW e \in TaSta
      PROVE  TimeLeft(e) = cycphs[e] * TIC_DENO - TIC_NUME
  <2>1. e \in Event /\ Registered(e) /\ TimeOf(heap, e) = cycphs[e]
    BY <1>2, HandlerAssumption DEF Event, Registered
  <2>2. cycphs[e] \in Time /\ cycphs[e] \in Int
    BY HandlerAssumption, ReltimAssumption, SpanLemma
  <2>3. FromMin(cycphs[e]) = cycphs[e]
    <3>1. cycphs[e] - min_time = cycphs[e]
      BY <1>1, <2>2
    <3>2. QED
      BY <2>2, <3>1, SmallWord DEF FromMin
  <2>4. TimeLeft(e) = LeftOf(cycphs[e])
    BY <1>1, <2>1, <2>3, LeftIs DEF LeftInv
  <2>5. LeftOf(cycphs[e]) =
          TIC_DENO * (cycphs[e] - (0 + TickLength)) - (TIC_NUME % TIC_DENO)
    BY <1>1, <1>3 DEF LeftOf
  <2> DEFINE p == cycphs[e]
             r == TIC_NUME % TIC_DENO
  <2> HIDE DEF p, r
  <2>6. /\ TIC_DENO * (p - (0 + TickLength)) = p * TIC_DENO - TIC_DENO * TickLength
        /\ p * TIC_DENO \in Int /\ TIC_DENO * TickLength \in Int
    BY <2>2, TickFacts DEF p
  <2>7. TIC_NUME = TIC_DENO * TickLength + r /\ r \in Int
    BY TickFacts DEF r
  <2>8. TimeLeft(e) = TIC_DENO * (p - (0 + TickLength)) - r
    BY <2>4, <2>5 DEF p, r
  <2>9. TimeLeft(e) = p * TIC_DENO - TIC_NUME
    BY <2>6, <2>7, <2>8, TickFacts
  <2>10. QED
    BY <2>9 DEF p
<1>5. DOMAIN Left = TaSta
  BY <1>2, HandlerAssumption DEF Left, Registered, Event
<1>6. Left = [e \in TaSta |-> cycphs[e] * TIC_DENO - TIC_NUME]
  BY <1>4, <1>5 DEF Left
<1>7. QED
  BY <1>1, <1>6 DEF Real!TInit, Left

LEMMA NextLeft ==
  ASSUME IInv, [Next]_vars
  PROVE  [Real!TNext]_(Real!tmVars)
<1>1. CASE signal_time
  BY <1>1, TickLeft DEF Real!TNext
<1>2. CASE handler_return
  BY <1>2, ReturnLeft DEF Real!TNext
<1>3. CASE signal_time_end
  BY <1>3, EndLeft DEF Real!TNext
<1>4. CASE \E c \in Cyc : call_cychdr(c)
  BY <1>4, CallCychdrLeft DEF Real!TNext, Event
<1>5. CASE \E a \in Alm : call_almhdr(a)
  BY <1>5, CallAlmhdrLeft DEF Real!TNext, Event
<1>6. CASE \E c \in Cyc : sta_cyc(c) \/ stp_cyc(c)
  BY <1>6, StaCycLeft, StpCycLeft DEF Real!TNext, Event
<1>7. CASE \E a \in Alm : stp_alm(a) \/ \E almtim \in Almtim : sta_alm(a, almtim)
  BY <1>7, StaAlmLeft, StpAlmLeft DEF Real!TNext, Event
<1>8. CASE UNCHANGED vars
  <2>1. UNCHANGED << heap, min_time, clockVars, stage >>
    BY <1>8 DEF vars
  <2>2. Left' = Left
    BY <2>1 DEF Left, Event, Registered, Unregistered, TimeLeft, FromMin, Word, clockVars
  <2>3. QED
    BY <2>1, <2>2 DEF Real!tmVars, Left
<1>9. QED
  BY <1>1, <1>2, <1>3, <1>4, <1>5, <1>6, <1>7, <1>8 DEF Next, SignalTime, Call

\* TimeEvent implements Timer (KeepsTime): in a time without width, no handler
\* runs early, a tick late, out of order or with a drift.
THEOREM KeepsTimeCorrect == Spec => KeepsTime
<1>1. Init => Real!TInit
  BY InitLeft
<1>2. IInv /\ [Next]_vars => [Real!TNext]_(Real!tmVars)
  BY NextLeft
<1>3. QED
  BY <1>1, <1>2, Inductive, PTL DEF Spec, KeepsTime, Real!TSpec
=============================================================================
