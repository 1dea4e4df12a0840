-------------------------- MODULE WaitListsProofs ---------------------------
(***************************************************************************)
(* What the objects keep in memory, for any number of tasks, priorities,   *)
(* objects, buffer sizes, data, messages and blocks: the lists of a        *)
(* priority data queue, of a mailbox and of a pool, the ring of a data     *)
(* queue, and the types of everything.                                     *)
(*                                                                         *)
(* The invariant, ListsKept, has a part for each kind of object, on top of *)
(* ObjectInv of WaitObjectsProofs.  It says which sequences are linked in  *)
(* memory (IsChain), so that the operations are about sequences; each part *)
(* has a lemma for a call on one of its objects, and one for all other     *)
(* steps.                                                                  *)
(***************************************************************************)
EXTENDS WaitObjectsProofs

\* The operators on lists and sets are the same in each instance.
LEMMA SameLists ==
  /\ \A x : M!Cardinality(x) = Cardinality(x)
  /\ \A x, y, z : M!Chain(x, y, z) = Chain(x, y, z)
  /\ \A x, y, z : B!Chain(x, y, z) = Chain(x, y, z)
  /\ \A x, y, z : P!Chain(x, y, z) = Chain(x, y, z)
  /\ \A x : M!Members(x) = Members(x) /\ B!Members(x) = Members(x)
  /\ \A x : M!NoDuplicates(x) <=> NoDuplicates(x)
  /\ \A x : B!NoDuplicates(x) <=> NoDuplicates(x)
<1>1. /\ \A x : M!Cardinality(x) = Cardinality(x)
      /\ \A x : B!Cardinality(x) = Cardinality(x)
      /\ \A x : P!Cardinality(x) = Cardinality(x)
  BY DEF M!Cardinality, Cardinality, M!IsFiniteSet, IsFiniteSet,
     B!Cardinality, B!IsFiniteSet, P!Cardinality, P!IsFiniteSet
<1>2. /\ \A x, y, z : M!Chain(x, y, z) = Chain(x, y, z)
      /\ \A x, y, z : B!Chain(x, y, z) = Chain(x, y, z)
      /\ \A x, y, z : P!Chain(x, y, z) = Chain(x, y, z)
  BY DEF M!Chain, B!Chain, P!Chain, Chain, Cardinality, IsFiniteSet,
     M!Cardinality, M!IsFiniteSet, B!Cardinality, B!IsFiniteSet,
     P!Cardinality, P!IsFiniteSet
<1>3. QED
  BY <1>1, <1>2 DEF M!Members, B!Members, Members, M!NoDuplicates,
     B!NoDuplicates, NoDuplicates

----------------------------------------------------------------------------
(***************************************************************************)
(* The pool of a priority data queue: list links the data, free the nodes  *)
(* that were given back.                                                   *)
(***************************************************************************)
PdqNode(q) == [data : PriData \cup {UNINIT}, p_next : P!Node(q) \cup {NULL}]

PdqCb(q) ==
  [count : Nat, p_head : P!Node(q) \cup {NULL}, unused : 0 .. pdqcnt[q],
   p_freelist : P!Node(q) \cup {NULL}, p_pdqmb : [P!Node(q) -> PdqNode(q)]]

NextOf(mb) == [i \in DOMAIN mb |-> mb[i].p_next]

Pool(q, cb, list, free) ==
  /\ cb \in PdqCb(q)
  /\ IsChain(list, NextOf(cb.p_pdqmb), cb.p_head, NULL)
  /\ IsChain(free, NextOf(cb.p_pdqmb), cb.p_freelist, NULL)
  /\ Members(list) \cap Members(free) = {}
  /\ Members(list) \cup Members(free) = 0 .. cb.unused - 1
  /\ Len(list) = cb.count /\ Len(list) + Len(free) = cb.unused
  /\ \A i \in Members(list) : cb.p_pdqmb[i].data \in PriData

LEMMA PdqNodeFacts ==
  ASSUME NEW q \in PriDataqs
  PROVE  /\ pdqcnt[q] \in Nat /\ P!Node(q) = 0 .. pdqcnt[q] - 1
         /\ NULL \notin P!Node(q) /\ IsFiniteSet(P!Node(q))
         /\ datapri \in [PriData -> Nat]
<1>1. /\ pdqcnt[q] \in Nat /\ NULL \notin 0 .. pdqcnt[q] - 1
      /\ datapri \in [PriData -> Nat]
  BY ObjectsAssumption DEF P!PdqAssumption, P!Pdq
<1>2. IsFiniteSet(0 .. pdqcnt[q] - 1)
  BY <1>1, FS_Interval
<1>3. QED
  BY <1>1, <1>2 DEF P!Node

LEMMA PoolFacts ==
  ASSUME NEW q \in PriDataqs, NEW cb, NEW list, NEW free, Pool(q, cb, list, free)
  PROVE  /\ DOMAIN NextOf(cb.p_pdqmb) = P!Node(q) /\ DOMAIN cb.p_pdqmb = P!Node(q)
         /\ P!Linked(cb.p_pdqmb, cb.p_head) = list
         /\ P!Linked(cb.p_pdqmb, cb.p_freelist) = free
         /\ Len(list) \in Nat /\ Len(free) \in Nat
<1>1. DOMAIN NextOf(cb.p_pdqmb) = P!Node(q) /\ DOMAIN cb.p_pdqmb = P!Node(q)
  BY DEF Pool, PdqCb, NextOf
<1>2. IsFiniteSet(P!Node(q))
  BY PdqNodeFacts
<1>3. /\ Chain(NextOf(cb.p_pdqmb), cb.p_head, NULL) = list
      /\ Chain(NextOf(cb.p_pdqmb), cb.p_freelist, NULL) = free
  BY <1>1, <1>2, ChainIs DEF Pool
<1>4. Len(list) \in Nat /\ Len(free) \in Nat
  BY <1>1, <1>2, ChainLength DEF Pool
<1>5. QED
  BY <1>1, <1>3, <1>4, SameLists DEF P!Linked, NextOf

LEMMA PlaceIs ==
  ASSUME NEW q \in PriDataqs, NEW mb, NEW list \in Seq(P!Node(q)),
         \A i \in 1 .. Len(list) : mb[list[i]].data \in PriData,
         NEW data \in PriData
  PROVE  LET p == P!Place(mb, list, data)
         IN  /\ p \in 1 .. Len(list) + 1
             /\ \A i \in 1 .. Len(list) :
                  i < p => datapri[mb[list[i]].data] <= datapri[data]
             /\ p <= Len(list) => datapri[mb[list[p]].data] > datapri[data]
<1> DEFINE lower == {i \in 1 .. Len(list) :
                       datapri[mb[list[i]].data] > datapri[data]}
           p == P!Place(mb, list, data)
<1>1. p = IF lower = {} THEN Len(list) + 1 ELSE P!Min(lower)
  BY DEF P!Place
<1>2. /\ Len(list) \in Nat
      /\ \A i \in 1 .. Len(list) : datapri[mb[list[i]].data] \in Nat
      /\ datapri[data] \in Nat
  BY PdqNodeFacts
<1>3. CASE lower = {}
  <2>1. \A i \in 1 .. Len(list) : ~ (datapri[mb[list[i]].data] > datapri[data])
    BY <1>3
  <2> HIDE DEF lower, p
  <2>2. p = Len(list) + 1
    BY <1>1, <1>3
  <2>3. QED
    BY <1>2, <2>1, <2>2 DEF p
<1>4. CASE lower # {}
  <2>1. lower \in SUBSET Nat
    BY <1>2
  <2> HIDE DEF lower, p
  <2>2. \E n \in lower : \A k \in lower : n <= k
    BY <1>4, <2>1, SmallestLemma
  <2>3. p \in lower /\ \A k \in lower : p <= k
    BY <1>1, <1>4, <2>2 DEF P!Min
  <2>4. QED
    <3>1. /\ p \in 1 .. Len(list) /\ datapri[mb[list[p]].data] > datapri[data]
          /\ \A i \in 1 .. Len(list) :
               datapri[mb[list[i]].data] > datapri[data] => p <= i
      BY <2>3 DEF lower
    <3>2. QED
      BY <1>2, <3>1 DEF p
<1>5. QED
  BY <1>3, <1>4

\* What a node of a pool is made of after its link, or after all of it, is
\* written.
Written(q, mb, new, data, next, before, one, two) ==
  /\ one \in [P!Node(q) -> PdqNode(q)]
  /\ one[new].data = data /\ one[new].p_next = next
  /\ \A i \in P!Node(q) \ {new} : one[i] = mb[i]
  /\ two \in [P!Node(q) -> PdqNode(q)]
  /\ two[new] = one[new]
  /\ two[before].data = mb[before].data /\ two[before].p_next = new
  /\ \A i \in P!Node(q) \ {new, before} : two[i] = mb[i]

LEMMA WriteNode ==
  ASSUME NEW q \in PriDataqs, NEW mb \in [P!Node(q) -> PdqNode(q)],
         NEW new \in P!Node(q), NEW data \in PriData,
         NEW next \in P!Node(q) \cup {NULL}, NEW before \in P!Node(q) \ {new},
         NEW one, one = [mb EXCEPT ![new] = [data |-> data, p_next |-> next]],
         NEW two, two = [one EXCEPT ![before].p_next = new]
  PROVE  Written(q, mb, new, data, next, before, one, two)
<1> DEFINE N == P!Node(q)
           R == PdqNode(q)
           rec == [data |-> data, p_next |-> next]
<1>1. rec \in R /\ rec.data = data /\ rec.p_next = next
  BY DEF PdqNode
<1> HIDE DEF rec
<1>2. one \in [N -> R] /\ one[new] = rec /\ \A i \in N \ {new} : one[i] = mb[i]
  BY <1>1 DEF rec
<1>3. one[before] \in R /\ one[before] = mb[before]
  BY <1>2
<1>4. [one[before] EXCEPT !.p_next = new] \in R
  BY <1>3 DEF PdqNode
<1>5. two \in [N -> R] /\ two[before] = [one[before] EXCEPT !.p_next = new]
      /\ \A i \in N \ {before} : two[i] = one[i]
  BY <1>2, <1>4
<1>6. two[before].data = one[before].data /\ two[before].p_next = new
  BY <1>3, <1>5 DEF PdqNode
<1>7. /\ two[before].data = mb[before].data
      /\ \A i \in N \ {new, before} : two[i] = mb[i]
      /\ two[new] = one[new]
  BY <1>2, <1>3, <1>5, <1>6
<1>8. QED
  BY <1>1, <1>2, <1>5, <1>6, <1>7 DEF Written

NewNode(cb) == IF cb.p_freelist # NULL THEN cb.p_freelist ELSE cb.unused

LEMMA NewNodeIs ==
  ASSUME NEW q \in PriDataqs, NEW cb, NEW list, NEW free,
         Pool(q, cb, list, free), cb.count < pdqcnt[q]
  PROVE  /\ NewNode(cb) \in P!Node(q) /\ NewNode(cb) \notin Members(list)
         /\ cb.p_freelist = NULL <=> free = << >>
         /\ free # << >> => /\ NewNode(cb) = free[1]
                            /\ free[1] \in Members(free)
                            /\ cb.p_freelist \in P!Node(q)
         /\ free = << >> => NewNode(cb) = cb.unused /\ cb.unused < pdqcnt[q]
<1>1. /\ IsChain(free, NextOf(cb.p_pdqmb), cb.p_freelist, NULL)
      /\ Members(list) \cap Members(free) = {}
      /\ Members(list) \cup Members(free) = 0 .. cb.unused - 1
      /\ Len(list) = cb.count /\ Len(list) + Len(free) = cb.unused
      /\ cb.unused \in Nat
  BY DEF Pool, PdqCb
<1>2. /\ DOMAIN NextOf(cb.p_pdqmb) = P!Node(q) /\ NULL \notin P!Node(q)
      /\ P!Node(q) = 0 .. pdqcnt[q] - 1 /\ pdqcnt[q] \in Nat
  BY PoolFacts, PdqNodeFacts
<1>3. /\ free = << >> <=> cb.p_freelist = NULL
      /\ free # << >> => cb.p_freelist = free[1] /\ cb.p_freelist \in P!Node(q)
      /\ Len(free) \in Nat /\ (free # << >> => Len(free) > 0)
  BY <1>1, <1>2, ChainFirst
<1>4. CASE free = << >>
  <2>1. Len(free) = 0 /\ NewNode(cb) = cb.unused
    BY <1>3, <1>4 DEF NewNode
  <2>2. cb.unused < pdqcnt[q]
    BY <1>1, <2>1
  <2>3. cb.unused \in P!Node(q) /\ cb.unused \notin Members(list)
    BY <1>1, <1>2, <2>2
  <2>4. QED
    BY <1>3, <1>4, <2>1, <2>2, <2>3
<1>5. CASE free # << >>
  <2>1. NewNode(cb) = free[1] /\ free[1] \in Members(free)
    BY <1>2, <1>3, <1>5 DEF NewNode, Members
  <2>2. QED
    BY <1>1, <1>3, <1>5, <2>1
<1>6. QED
  BY <1>4, <1>5

LEMMA EnqueuePool ==
  ASSUME NEW q \in PriDataqs, NEW cb, NEW list, NEW free,
         Pool(q, cb, list, free), cb.count < pdqcnt[q], NEW data \in PriData
  PROVE  LET p   == P!Place(cb.p_pdqmb, list, data)
             cbN == P!enqueue_pridata(cb, data)
         IN  /\ Pool(q, cbN, Put(list, p, NewNode(cb)),
                     IF free = << >> THEN << >> ELSE Tail(free))
             /\ p \in 1 .. Len(list) + 1
             /\ cbN.p_pdqmb[NewNode(cb)].data = data
             /\ \A i \in Members(list) :
                  cbN.p_pdqmb[i].data = cb.p_pdqmb[i].data
<1> DEFINE N == P!Node(q)
           mb == cb.p_pdqmb
           p == P!Place(mb, list, data)
           cbN == P!enqueue_pridata(cb, data)
           mbN == cbN.p_pdqmb
           new == NewNode(cb)
           freeN == IF free = << >> THEN << >> ELSE Tail(free)
           next == IF p > Len(list) THEN NULL ELSE list[p]
           one == [mb EXCEPT ![new] = [data |-> data, p_next |-> next]]
           two == [one EXCEPT ![list[p - 1]].p_next = new]
<1>1. /\ cb \in PdqCb(q) /\ mb \in [N -> PdqNode(q)]
      /\ IsChain(list, NextOf(mb), cb.p_head, NULL)
      /\ IsChain(free, NextOf(mb), cb.p_freelist, NULL)
      /\ Members(list) \cap Members(free) = {}
      /\ Members(list) \cup Members(free) = 0 .. cb.unused - 1
      /\ Len(list) = cb.count /\ Len(list) + Len(free) = cb.unused
      /\ \A i \in Members(list) : mb[i].data \in PriData
      /\ cb.unused \in Nat /\ cb.count \in Nat /\ cb.unused <= pdqcnt[q]
  BY DEF Pool, PdqCb
<1>2. /\ DOMAIN NextOf(mb) = N /\ DOMAIN mb = N
      /\ P!Linked(mb, cb.p_head) = list
      /\ Len(list) \in Nat /\ Len(free) \in Nat
      /\ NULL \notin N /\ N = 0 .. pdqcnt[q] - 1 /\ pdqcnt[q] \in Nat
  BY PoolFacts, PdqNodeFacts
<1>3. /\ list \in Seq(N) /\ free \in Seq(N)
      /\ NoDuplicates(list) /\ NoDuplicates(free)
  BY <1>1, <1>2 DEF IsChain
<1>4. /\ new \in N /\ new \notin Members(list)
      /\ cb.p_freelist = NULL <=> free = << >>
      /\ free # << >> => /\ new = free[1] /\ free[1] \in Members(free)
                         /\ cb.p_freelist \in N
      /\ free = << >> => new = cb.unused /\ cb.unused < pdqcnt[q]
  BY NewNodeIs
<1>5. p \in 1 .. Len(list) + 1
  BY <1>1, <1>3, PlaceIs DEF Members
<1>6. \A i \in 1 .. Len(list) : list[i] \in N \ {new} /\ list[i] \in Members(list)
  BY <1>3, <1>4 DEF Members
<1>7. cbN = [count      |-> cb.count + 1,
             p_head     |-> IF p = 1 THEN new ELSE cb.p_head,
             unused     |-> IF cb.p_freelist # NULL THEN cb.unused ELSE cb.unused + 1,
             p_freelist |-> P!FreelistAfter(cb),
             p_pdqmb    |-> IF p = 1 THEN one ELSE two]
  BY <1>2 DEF P!enqueue_pridata, NewNode
<1> HIDE DEF p, cbN
<1>8. next \in N \cup {NULL} /\ next = At(list, p, NULL)
  BY <1>2, <1>5, <1>6 DEF At
<1> HIDE DEF new, next, mb, N
<1>9. /\ mbN \in [N -> PdqNode(q)]
      /\ mbN[new].data = data /\ mbN[new].p_next = next
      /\ \A i \in N \ {new} : mbN[i].data = mb[i].data
      /\ \A i \in N \ {new} : (p > 1 => i # list[p - 1]) =>
           mbN[i].p_next = mb[i].p_next
      /\ p > 1 => mbN[list[p - 1]].p_next = new
  <2>1. CASE p = 1
    <3>1. mbN = one
      BY <1>7, <2>1
    <3> HIDE DEF cbN
    <3>2. /\ one \in [N -> PdqNode(q)]
          /\ one[new] = [data |-> data, p_next |-> next]
          /\ \A i \in N \ {new} : one[i] = mb[i]
      BY <1>1, <1>4, <1>8 DEF PdqNode, N
    <3> HIDE DEF one
    <3>3. QED
      BY <2>1, <3>1, <3>2
  <2>2. CASE p > 1
    <3>1. mbN = two
      BY <1>7, <2>2
    <3>2. p - 1 \in 1 .. Len(list)
      BY <1>2, <1>5, <2>2
    <3>3. list[p - 1] \in N \ {new}
      BY <1>6, <3>2
    <3>4. /\ two \in [N -> PdqNode(q)] /\ one[new].data = data
          /\ one[new].p_next = next /\ two[new] = one[new]
          /\ two[list[p - 1]].data = mb[list[p - 1]].data
          /\ two[list[p - 1]].p_next = new
          /\ \A i \in N \ {new, list[p - 1]} : two[i] = mb[i]
      <4>1. /\ one = [mb EXCEPT ![new] = [data |-> data, p_next |-> next]]
            /\ two = [one EXCEPT ![list[p - 1]].p_next = new]
        OBVIOUS
      <4> HIDE DEF one, two, cbN
      <4>2. /\ mb \in [P!Node(q) -> PdqNode(q)] /\ new \in P!Node(q)
            /\ next \in P!Node(q) \cup {NULL} /\ list[p - 1] \in P!Node(q) \ {new}
        BY <1>1, <1>4, <1>8, <3>3 DEF N
      <4>3. QED
        <5>1. Written(q, mb, new, data, next, list[p - 1], one, two)
          BY <4>1, <4>2, WriteNode
        <5>2. QED
          BY <5>1 DEF Written, N
    <3> HIDE DEF one, two, cbN
    <3>5. \A i \in N \ {new} : two[i].data = mb[i].data
      BY <3>4
    <3>6. \A i \in N \ {new} : i # list[p - 1] => two[i].p_next = mb[i].p_next
      BY <3>4
    <3>7. QED
      BY <2>2, <3>1, <3>4, <3>5, <3>6
  <2>3. QED
    BY <1>2, <1>5, <2>1, <2>2
<1> HIDE DEF one, two
<1>10. /\ cbN.count = cb.count + 1
       /\ cbN.p_head = IF p = 1 THEN new ELSE cb.p_head
       /\ cbN.unused = IF free = << >> THEN cb.unused + 1 ELSE cb.unused
       /\ cbN.p_freelist = P!FreelistAfter(cb)
       /\ cbN = [count |-> cbN.count, p_head |-> cbN.p_head,
                 unused |-> cbN.unused, p_freelist |-> cbN.p_freelist,
                 p_pdqmb |-> mbN]
  BY <1>4, <1>7
<1> HIDE DEF mbN
<1>11. /\ DOMAIN NextOf(mbN) = N
       /\ \A i \in N : NextOf(mbN)[i] = mbN[i].p_next
       /\ \A i \in N : NextOf(mb)[i] = mb[i].p_next
  BY <1>2, <1>9 DEF NextOf
<1>12. IsChain(Put(list, p, new), NextOf(mbN), cbN.p_head, NULL)
  <2>1. \A i \in 1 .. Len(list) : i # p - 1 =>
          NextOf(mbN)[list[i]] = NextOf(mb)[list[i]]
    <3> SUFFICES ASSUME NEW i \in 1 .. Len(list), i # p - 1
                 PROVE  NextOf(mbN)[list[i]] = NextOf(mb)[list[i]]
      OBVIOUS
    <3>1. list[i] \in N \ {new}
      BY <1>6
    <3>2. p > 1 => p - 1 \in 1 .. Len(list)
      BY <1>2, <1>5
    <3>3. p > 1 => list[i] # list[p - 1]
      BY <1>3, <3>2 DEF NoDuplicates
    <3>4. QED
      BY <1>9, <1>11, <3>1, <3>3
  <2>2. p > 1 => NextOf(mbN)[list[p - 1]] = new
    <3>1. p > 1 => p - 1 \in 1 .. Len(list)
      BY <1>2, <1>5
    <3>2. QED
      BY <1>6, <1>9, <1>11, <3>1
  <2>3. /\ NextOf(mbN)[new] = At(list, p, NULL)
        /\ new \in DOMAIN NextOf(mb) \ Members(list)
        /\ DOMAIN NextOf(mbN) = DOMAIN NextOf(mb)
    BY <1>2, <1>4, <1>8, <1>9, <1>11
  <2>4. QED
    BY <1>1, <1>5, <1>10, <2>1, <2>2, <2>3, ChainPut
<1>13. /\ Put(list, p, new) \in Seq(N)
       /\ Len(Put(list, p, new)) = Len(list) + 1
       /\ Members(Put(list, p, new)) = Members(list) \cup {new}
  BY <1>3, <1>4, <1>5, PutIs
<1>14. /\ IsChain(freeN, NextOf(mbN), cbN.p_freelist, NULL)
       /\ Members(freeN) = Members(free) \ {new}
       /\ Len(freeN) = IF free = << >> THEN 0 ELSE Len(free) - 1
       /\ cbN.p_freelist \in N \cup {NULL}
  <2>1. CASE free = << >>
    <3>1. freeN = << >> /\ cbN.p_freelist = NULL
      BY <1>4, <1>10, <2>1 DEF P!FreelistAfter
    <3>2. IsChain(<< >>, NextOf(mbN), NULL, NULL)
      BY <1>2, <1>11, ChainEmpty
    <3>3. Members(<< >>) = {} /\ Len(<< >>) = 0
      BY DEF Members
    <3>4. QED
      BY <2>1, <3>1, <3>2, <3>3
  <2>2. CASE free # << >>
    <3>1. freeN = Tail(free) /\ new = free[1] /\ cb.p_freelist \in N
      BY <1>4, <2>2
    <3>2. cbN.p_freelist = mb[cb.p_freelist].p_next
      BY <1>4, <1>10, <2>2 DEF P!FreelistAfter, mb
    <3>3. cbN.p_freelist = NextOf(mb)[cb.p_freelist]
      BY <1>11, <3>1, <3>2
    <3>4. IsChain(Tail(free), NextOf(mb), cbN.p_freelist, NULL)
      BY <1>1, <2>2, <3>3, ChainRest
    <3>5. /\ Members(Tail(free)) = Members(free) \ {new}
          /\ Len(Tail(free)) = Len(free) - 1
      BY <1>3, <2>2, <3>1, TailMembers, TailIs
    <3>6. ASSUME NEW x \in Members(Tail(free))
          PROVE  NextOf(mbN)[x] = NextOf(mb)[x]
      <4>1. x \in Members(free) /\ x # new /\ x \in N
        BY <1>3, <3>5 DEF Members
      <4>2. x \notin Members(list)
        BY <1>1, <4>1
      <4>3. p > 1 => p - 1 \in 1 .. Len(list)
        BY <1>2, <1>5
      <4>4. p > 1 => x # list[p - 1]
        BY <1>6, <4>2, <4>3
      <4>5. QED
        BY <1>9, <1>11, <4>1, <4>4
    <3>7. IsChain(Tail(free), NextOf(mbN), cbN.p_freelist, NULL)
      BY <1>2, <1>11, <3>4, <3>6, ChainKept
    <3>8. mb[cb.p_freelist] \in PdqNode(q)
      BY <1>1, <3>1
    <3>9. cbN.p_freelist \in N \cup {NULL}
      BY <3>2, <3>8 DEF PdqNode, N
    <3>10. QED
      BY <2>2, <3>1, <3>5, <3>7, <3>9
  <2>3. QED
    BY <2>1, <2>2
<1> HIDE DEF freeN
<1>15. /\ Members(Put(list, p, new)) \cap Members(freeN) = {}
       /\ Members(Put(list, p, new)) \cup Members(freeN) = 0 .. cbN.unused - 1
  <2>1. Members(Put(list, p, new)) \cap Members(freeN) = {}
    BY <1>1, <1>13, <1>14
  <2>2. CASE free = << >>
    <3>1. Members(free) = {} /\ cbN.unused = cb.unused + 1 /\ new = cb.unused
      BY <1>4, <1>10, <2>2 DEF Members
    <3>2. 0 .. cb.unused = (0 .. cb.unused - 1) \cup {cb.unused}
      BY <1>1
    <3>3. cbN.unused - 1 = cb.unused
      BY <1>1, <3>1
    <3>4. QED
      BY <1>1, <1>13, <1>14, <2>1, <3>1, <3>2, <3>3
  <2>3. CASE free # << >>
    <3>1. new \in Members(free) /\ cbN.unused = cb.unused
      BY <1>4, <1>10, <2>3
    <3>2. QED
      BY <1>1, <1>13, <1>14, <2>1, <3>1
  <2>4. QED
    BY <2>2, <2>3
<1>16. /\ Len(Put(list, p, new)) = cbN.count
       /\ Len(Put(list, p, new)) + Len(freeN) = cbN.unused
       /\ cbN.unused \in 0 .. pdqcnt[q]
  <2>1. /\ Len(list) = cb.count /\ Len(list) + Len(free) = cb.unused
        /\ cb.unused <= pdqcnt[q] /\ Len(list) \in Nat /\ Len(free) \in Nat
        /\ pdqcnt[q] \in Nat
    BY <1>1, <1>2
  <2>2. /\ Len(Put(list, p, new)) = Len(list) + 1 /\ cbN.count = cb.count + 1
    BY <1>10, <1>13
  <2>3. CASE free = << >>
    <3>1. /\ Len(free) = 0 /\ Len(freeN) = 0 /\ cbN.unused = cb.unused + 1
          /\ cb.unused < pdqcnt[q]
      BY <1>4, <1>10, <1>14, <2>3
    <3>2. QED
      BY <2>1, <2>2, <3>1
  <2>4. CASE free # << >>
    <3>1. Len(freeN) = Len(free) - 1 /\ cbN.unused = cb.unused
      BY <1>10, <1>14, <2>4
    <3>2. QED
      BY <2>1, <2>2, <3>1
  <2>5. QED
    BY <2>3, <2>4
<1>17. cbN \in PdqCb(q)
  <2>1. cbN.p_head \in N \cup {NULL} /\ cbN.count \in Nat
    BY <1>1, <1>4, <1>10 DEF PdqCb, N
  <2>2. QED
    BY <1>9, <1>10, <1>14, <1>16, <2>1 DEF PdqCb, N
<1>18. \A i \in Members(list) : mbN[i].data = mb[i].data
  BY <1>3, <1>4, <1>9 DEF Members
<1>19. \A i \in Members(Put(list, p, new)) : mbN[i].data \in PriData
  BY <1>1, <1>9, <1>13, <1>18
<1>20. Pool(q, cbN, Put(list, p, new), freeN)
  BY <1>12, <1>14, <1>15, <1>16, <1>17, <1>19 DEF Pool, mbN
<1>21. QED
  BY <1>5, <1>9, <1>18, <1>20 DEF p, cbN, mbN, new, mb, freeN

LEMMA DequeuePool ==
  ASSUME NEW q \in PriDataqs, NEW cb, NEW list, NEW free,
         Pool(q, cb, list, free), cb.count > 0
  PROVE  LET cbN == P!dequeue_pridata(cb)
         IN  /\ list # << >> /\ cb.p_head = list[1]
             /\ Pool(q, cbN, Tail(list), Put(free, 1, list[1]))
             /\ cbN.count = cb.count - 1
             /\ \A i \in P!Node(q) : cbN.p_pdqmb[i].data = cb.p_pdqmb[i].data
<1> DEFINE N == P!Node(q)
           mb == cb.p_pdqmb
           h == cb.p_head
           cbN == P!dequeue_pridata(cb)
           mbN == [mb EXCEPT ![h].p_next = cb.p_freelist]
<1>1. /\ cb \in PdqCb(q) /\ mb \in [N -> PdqNode(q)]
      /\ IsChain(list, NextOf(mb), h, NULL)
      /\ IsChain(free, NextOf(mb), cb.p_freelist, NULL)
      /\ Members(list) \cap Members(free) = {}
      /\ Members(list) \cup Members(free) = 0 .. cb.unused - 1
      /\ Len(list) = cb.count /\ Len(list) + Len(free) = cb.unused
      /\ \A i \in Members(list) : mb[i].data \in PriData
      /\ cb.unused \in 0 .. pdqcnt[q] /\ cb.count \in Nat
      /\ cb.p_freelist \in N \cup {NULL}
  BY DEF Pool, PdqCb
<1>2. /\ DOMAIN NextOf(mb) = N /\ DOMAIN mb = N
      /\ Len(list) \in Nat /\ Len(free) \in Nat
      /\ NULL \notin N /\ N = 0 .. pdqcnt[q] - 1 /\ pdqcnt[q] \in Nat
  BY PoolFacts, PdqNodeFacts
<1>3. /\ list \in Seq(N) /\ free \in Seq(N)
      /\ NoDuplicates(list) /\ NoDuplicates(free)
  BY <1>1, <1>2 DEF IsChain
<1>4. list # << >>
  BY <1>1
<1>5. h = list[1] /\ h \in N /\ Members(list) \subseteq N
  BY <1>1, <1>2, <1>4, ChainFirst
<1>6. /\ Members(Tail(list)) = Members(list) \ {h} /\ h \in Members(list)
      /\ Len(Tail(list)) = Len(list) - 1
  BY <1>3, <1>4, <1>5, TailMembers, TailIs
<1>7. cbN = [cb EXCEPT !.count = cb.count - 1, !.p_head = mb[h].p_next,
                       !.p_pdqmb = mbN, !.p_freelist = h]
  BY <1>1 DEF P!dequeue_pridata, PdqCb
<1>8. /\ cbN.count = cb.count - 1 /\ cbN.p_head = mb[h].p_next
      /\ cbN.p_pdqmb = mbN /\ cbN.p_freelist = h /\ cbN.unused = cb.unused
      /\ cbN = [count |-> cbN.count, p_head |-> cbN.p_head,
                unused |-> cbN.unused, p_freelist |-> cbN.p_freelist,
                p_pdqmb |-> mbN]
  BY <1>1, <1>7 DEF PdqCb
<1> HIDE DEF cbN, h, mb, N
<1>9. mb[h] \in PdqNode(q) /\ mb[h].p_next \in N \cup {NULL}
  <2>1. mb[h] \in PdqNode(q)
    BY <1>1, <1>5
  <2>2. QED
    BY <2>1 DEF PdqNode, N
<1>10. /\ mbN \in [N -> PdqNode(q)] /\ mbN[h].p_next = cb.p_freelist
       /\ mbN[h].data = mb[h].data
       /\ \A i \in N \ {h} : mbN[i] = mb[i]
  <2>1. [mb[h] EXCEPT !.p_next = cb.p_freelist] \in PdqNode(q)
    BY <1>1, <1>9 DEF PdqNode, N
  <2>2. /\ mbN \in [N -> PdqNode(q)]
        /\ mbN[h] = [mb[h] EXCEPT !.p_next = cb.p_freelist]
        /\ \A i \in N \ {h} : mbN[i] = mb[i]
    BY <1>1, <1>5, <2>1
  <2> HIDE DEF mbN
  <2>3. QED
    BY <1>9, <2>2 DEF PdqNode
<1> HIDE DEF mbN
<1>11. /\ DOMAIN NextOf(mbN) = N
       /\ \A i \in N : NextOf(mbN)[i] = mbN[i].p_next
       /\ \A i \in N : NextOf(mb)[i] = mb[i].p_next
  BY <1>2, <1>10 DEF NextOf
<1>12. \A i \in N \ {h} : NextOf(mbN)[i] = NextOf(mb)[i]
  BY <1>10, <1>11
<1>13. IsChain(Tail(list), NextOf(mbN), cbN.p_head, NULL)
  <2>1. NextOf(mb)[h] = cbN.p_head
    BY <1>5, <1>8, <1>11
  <2>2. IsChain(Tail(list), NextOf(mb), cbN.p_head, NULL)
    BY <1>1, <1>4, <2>1, ChainRest
  <2>3. \A x \in Members(Tail(list)) : NextOf(mbN)[x] = NextOf(mb)[x]
    BY <1>5, <1>6, <1>12
  <2>4. QED
    BY <1>2, <1>11, <2>2, <2>3, ChainKept
<1>14. IsChain(Put(free, 1, h), NextOf(mbN), h, NULL)
  <2>1. 1 \in 1 .. Len(free) + 1 /\ h \in N \ Members(free) /\ ~ (1 > 1)
    BY <1>1, <1>2, <1>5, <1>6
  <2>2. NextOf(mbN)[h] = At(free, 1, NULL)
    BY <1>1, <1>5, <1>10, <1>11 DEF IsChain
  <2>3. \A i \in 1 .. Len(free) : NextOf(mbN)[free[i]] = NextOf(mb)[free[i]]
    BY <1>3, <1>12, <2>1 DEF Members
  <2>4. IsChain(Put(free, 1, h), NextOf(mbN),
                IF 1 = 1 THEN h ELSE cb.p_freelist, NULL)
    BY <1>1, <1>2, <1>11, <2>1, <2>2, <2>3, ChainPut
  <2>5. QED
    BY <2>4
<1>15. /\ Len(Put(free, 1, h)) = Len(free) + 1
       /\ Members(Put(free, 1, h)) = Members(free) \cup {h}
  <2>1. 1 \in 1 .. Len(free) + 1
    BY <1>2
  <2>2. QED
    BY <1>3, <1>5, <2>1, PutIs
<1>16. /\ Members(Tail(list)) \cap Members(Put(free, 1, h)) = {}
       /\ Members(Tail(list)) \cup Members(Put(free, 1, h)) = 0 .. cbN.unused - 1
  BY <1>1, <1>6, <1>8, <1>15
<1>17. /\ Len(Tail(list)) = cbN.count
       /\ Len(Tail(list)) + Len(Put(free, 1, h)) = cbN.unused
       /\ cbN.count \in Nat
  <2>1. /\ Len(Tail(list)) = Len(list) - 1 /\ cbN.count = cb.count - 1
        /\ Len(Put(free, 1, h)) = Len(free) + 1 /\ cbN.unused = cb.unused
    BY <1>6, <1>8, <1>15
  <2>2. /\ Len(list) = cb.count /\ Len(list) + Len(free) = cb.unused
        /\ cb.count \in Nat /\ cb.count > 0
    BY <1>1
  <2>3. QED
    <3>1. Len(list) \in Nat /\ Len(free) \in Nat
      BY <1>2
    <3>2. QED
      BY <2>1, <2>2, <3>1
<1>18. cbN \in PdqCb(q)
  BY <1>1, <1>5, <1>8, <1>9, <1>10, <1>17 DEF PdqCb, N
<1>19. \A i \in N : mbN[i].data = mb[i].data
  BY <1>10
<1>20. Pool(q, cbN, Tail(list), Put(free, 1, h))
  <2>1. \A i \in Members(Tail(list)) : mbN[i].data \in PriData
    BY <1>1, <1>5, <1>6, <1>19
  <2>2. QED
    BY <1>8, <1>13, <1>14, <1>16, <1>17, <1>18, <2>1 DEF Pool
<1>21. QED
  BY <1>4, <1>5, <1>8, <1>19, <1>20 DEF cbN, h, mb, N

\* A pool in its initial state, whatever its memory holds.
LEMMA InitialPool ==
  ASSUME NEW q \in PriDataqs, NEW mb \in [P!Node(q) -> PdqNode(q)]
  PROVE  Pool(q, P!Initialised(mb), << >>, << >>)
<1> DEFINE cb == P!Initialised(mb)
<1>1. /\ pdqcnt[q] \in Nat /\ NULL \notin P!Node(q)
  BY PdqNodeFacts
<1>2. /\ cb \in PdqCb(q) /\ cb.p_pdqmb = mb /\ cb.p_head = NULL
      /\ cb.p_freelist = NULL /\ cb.unused = 0 /\ cb.count = 0
  BY <1>1 DEF P!Initialised, PdqCb
<1> HIDE DEF cb
<1>3. IsChain(<< >>, NextOf(mb), NULL, NULL)
  BY <1>1, ChainEmpty DEF NextOf
<1>4. Members(<< >>) = {} /\ Len(<< >>) = 0
  BY DEF Members
<1>5. 0 .. 0 - 1 = {}
  OBVIOUS
<1>6. QED
  BY <1>2, <1>3, <1>4, <1>5 DEF Pool, cb

LEMMA ResetPool ==
  ASSUME NEW q \in PriDataqs, NEW cb, NEW list, NEW free, Pool(q, cb, list, free)
  PROVE  Pool(q, P!Reset(cb), << >>, << >>)
<1>1. cb.p_pdqmb \in [P!Node(q) -> PdqNode(q)]
  BY DEF Pool, PdqCb
<1>2. QED
  BY <1>1, InitialPool DEF P!Reset

----------------------------------------------------------------------------
(***************************************************************************)
(* What a call on a priority data queue does to its control block, to the  *)
(* tasks that wait and to the data that they carry.                        *)
(***************************************************************************)
PdqHands(q, data) ==
  /\ Hands(pdq_rwait[q]) /\ UNCHANGED pdqcb
  /\ winfo_pdq' = Scope([winfo_pdq EXCEPT ![Head(wait_queue[pdq_rwait[q]])] = data])
  /\ pdqtaken' = [pdqtaken EXCEPT ![q] = data]

PdqStores(q, data) ==
  /\ P!Room(q) /\ UNCHANGED wait_queue
  /\ pdqcb' = [pdqcb EXCEPT ![q] = P!enqueue_pridata(pdqcb[q], data)]
  /\ winfo_pdq' = Scope(winfo_pdq) /\ UNCHANGED pdqtaken

PdqWaitsWith(f, callback, o, x) ==
  /\ Waits(f, callback, o) /\ UNCHANGED << pdqcb, pdqtaken >>
  /\ winfo_pdq' = Scope([winfo_pdq EXCEPT ![p_runtsk] = x])

PdqTakes(q) ==
  /\ pdqcb[q].count > 0
  /\ pdqtaken' = [pdqtaken EXCEPT ![q] = P!First(pdqcb[q])]
  /\ winfo_pdq' = Scope(winfo_pdq)
  /\ \/ /\ UNCHANGED wait_queue
        /\ pdqcb' = [pdqcb EXCEPT ![q] = P!dequeue_pridata(pdqcb[q])]
     \/ /\ Hands(pdq_swait[q])
        /\ pdqcb' = [pdqcb EXCEPT ![q] =
                       P!enqueue_pridata(P!dequeue_pridata(pdqcb[q]),
                                         winfo_pdq[Head(wait_queue[pdq_swait[q]])])]

PdqPasses(q) ==
  /\ Hands(pdq_swait[q]) /\ UNCHANGED pdqcb
  /\ pdqtaken' = [pdqtaken EXCEPT ![q] = winfo_pdq[Head(wait_queue[pdq_swait[q]])]]
  /\ winfo_pdq' = Scope(winfo_pdq)

PdqResets(q) ==
  /\ DeletesTwo(pdq_swait[q], pdq_rwait[q])
  /\ pdqcb' = [pdqcb EXCEPT ![q] = P!Reset(pdqcb[q])]
  /\ winfo_pdq' = Scope(winfo_pdq) /\ UNCHANGED pdqtaken

LEMMA PdqCases ==
  ASSUME NEW q \in PriDataqs, P!PdqCall(q)
  PROVE  \/ \E data \in PriData : PdqHands(q, data) \/ PdqStores(q, data)
         \/ \E data \in PriData, callback \in {"none", "wait_tmout"} :
              PdqWaitsWith("SPDQ", callback, pdq_swait[q], data)
         \/ \E callback \in {"none", "wait_tmout"} :
              PdqWaitsWith("RPDQ", callback, pdq_rwait[q], UNINIT)
         \/ PdqTakes(q) \/ PdqPasses(q) \/ PdqResets(q)
<1> DEFINE s == pdq_swait[q]
           r == pdq_rwait[q]
<1>1. ASSUME NEW data \in PriData, P!send_pridata(q, data),
             winfo_pdq' = P!InScope(P!Handed(q, data)),
             UNCHANGED << priority, queVars >>,
             \/ P!InTask /\ P!TaskReturn(P!ReleaseWinfo(r))
             \/ P!InInterrupt /\ P!IntReturn(P!ReleaseWinfo(r))
      PROVE  PdqHands(q, data) \/ PdqStores(q, data)
  <2>1. Returns(P!ReleaseWinfo(r))
    BY <1>1, SameP DEF Returns
  <2>2. CASE P!Release(r) /\ pdqtaken' = [pdqtaken EXCEPT ![q] = data]
             /\ UNCHANGED pdqcb
    BY <1>1, <2>1, <2>2, SameP
       DEF P!Release, P!ReleaseWinfo, P!Handed, P!Receiver, Hands, PdqHands
  <2>3. CASE /\ P!Receiver(q) = << >> /\ P!Room(q) /\ P!NoRelease
             /\ pdqcb' = [pdqcb EXCEPT ![q] = P!enqueue_pridata(pdqcb[q], data)]
             /\ UNCHANGED pdqtaken
    BY <1>1, <2>3, SameP DEF P!NoRelease, P!Handed, P!Receiver, PdqStores
  <2>4. QED
    BY <1>1, <2>2, <2>3 DEF P!send_pridata
<1>2. ASSUME NEW data \in PriData, NEW callback \in {"none", "wait_tmout"},
             P!SendOrWait(q, data, callback)
      PROVE  \/ PdqHands(q, data) \/ PdqStores(q, data)
             \/ PdqWaitsWith("SPDQ", callback, s, data)
  <2>1. P!InTask
    BY <1>2, SameP DEF P!SendOrWait, CanDispatch
  <2>2. CASE /\ P!send_pridata(q, data) /\ P!TaskReturn(P!ReleaseWinfo(r))
             /\ winfo_pdq' = P!InScope(P!Handed(q, data))
             /\ UNCHANGED << priority, queVars >>
    BY <1>1, <2>1, <2>2
  <2>3. CASE /\ P!make_wait("SPDQ", callback) /\ P!wobj_queue_insert(s)
             /\ winfo_pdq' = P!InScope([winfo_pdq EXCEPT ![p_runtsk] = data])
             /\ UNCHANGED << queVars, pdqcb, pdqtaken >>
    BY <1>2, <2>3, SameP DEF P!SendOrWait, Waits, PdqWaitsWith
  <2>4. QED
    BY <1>2, <2>2, <2>3 DEF P!SendOrWait, P!queVars, queVars
<1>3. ASSUME P!receive_pridata(q), P!ReceiveReturn(q), P!InTask
      PROVE  PdqTakes(q) \/ PdqPasses(q)
  <2>1. /\ Returns(P!ReleaseWinfo(s)) /\ winfo_pdq' = Scope(winfo_pdq)
        /\ UNCHANGED << priority, queVars >>
    BY <1>3, SameP DEF P!ReceiveReturn, P!queVars, queVars, Returns
  <2>2. P!Release(s) => Hands(s)
    BY <2>1, SameP DEF P!Release, P!ReleaseWinfo, Hands
  <2>3. CASE /\ pdqcb[q].count > 0
             /\ pdqtaken' = [pdqtaken EXCEPT ![q] = P!First(pdqcb[q])]
             /\ pdqcb' = [pdqcb EXCEPT ![q] = P!Refilled(q)]
             /\ IF P!Sender(q) = << >> THEN P!NoRelease ELSE P!Release(s)
    <3>1. CASE wait_queue[s] = << >>
      BY <2>1, <2>3, <3>1 DEF P!Refilled, P!Sender, P!NoRelease, PdqTakes
    <3>2. CASE wait_queue[s] # << >>
      BY <2>1, <2>2, <2>3, <3>2 DEF P!Refilled, P!Sender, PdqTakes
    <3>3. QED
      BY <3>1, <3>2
  <2>4. CASE /\ P!Release(s) /\ UNCHANGED pdqcb
             /\ pdqtaken' = [pdqtaken EXCEPT ![q] = winfo_pdq[Head(P!Sender(q))]]
    BY <2>1, <2>2, <2>4 DEF P!Sender, PdqPasses
  <2>5. QED
    BY <1>3, <2>3, <2>4 DEF P!receive_pridata
<1>4. ASSUME NEW callback \in {"none", "wait_tmout"}, P!ReceiveOrWait(q, callback)
      PROVE  \/ PdqTakes(q) \/ PdqPasses(q)
             \/ PdqWaitsWith("RPDQ", callback, r, UNINIT)
  <2>1. P!InTask
    BY <1>4, SameP DEF P!ReceiveOrWait, CanDispatch
  <2>2. CASE P!receive_pridata(q) /\ P!ReceiveReturn(q)
    BY <1>3, <2>1, <2>2
  <2>3. CASE /\ P!make_wait("RPDQ", callback) /\ P!wobj_queue_insert(r)
             /\ winfo_pdq' = P!InScope([winfo_pdq EXCEPT ![p_runtsk] = UNINIT])
             /\ UNCHANGED << queVars, pdqcb, pdqtaken >>
    BY <1>4, <2>3, SameP DEF P!ReceiveOrWait, Waits, PdqWaitsWith
  <2>4. QED
    BY <1>4, <2>2, <2>3 DEF P!ReceiveOrWait, P!queVars, queVars
<1>5. ASSUME NEW data \in PriData, P!psnd_pdq(q, data) \/ P!ipsnd_pdq(q, data)
      PROVE  PdqHands(q, data) \/ PdqStores(q, data)
  BY <1>1, <1>5 DEF P!psnd_pdq, P!ipsnd_pdq, P!queVars, queVars
<1>6. ASSUME P!ini_pdq(q) PROVE PdqResets(q)
  BY <1>6, SameP DEF P!ini_pdq, P!init_wait_queues, P!init_wait_queues_winfo,
     P!ini_queues, P!Sender, P!Receiver, P!queVars, queVars, DeletesTwo, Returns,
     PdqResets
<1>7. ASSUME P!prcv_pdq(q) PROVE PdqTakes(q) \/ PdqPasses(q)
  BY <1>3, <1>7 DEF P!prcv_pdq
<1>8. QED
  BY <1>2, <1>4, <1>5, <1>6, <1>7
     DEF P!PdqCall, P!snd_pdq, P!tsnd_pdq, P!rcv_pdq, P!trcv_pdq

----------------------------------------------------------------------------
(***************************************************************************)
(* The pools of all priority data queues.                                  *)
(***************************************************************************)
PdqSend == {pdq_swait[q] : q \in PriDataqs}

PdqPools ==
  /\ Carries(winfo_pdq, PdqSend, PriData)
  /\ pdqtaken \in [PriDataqs -> PriData \cup {UNINIT}]
  /\ DOMAIN pdqcb = PriDataqs
  /\ \A q \in PriDataqs : \E list, free : Pool(q, pdqcb[q], list, free)

\* PdqPools after a call on q.
LEMMA PdqPoolsNext ==
  ASSUME PdqPools, NEW q \in PriDataqs, NEW cb, Sets(pdqcb', pdqcb, q, cb),
         NEW list, NEW free, Pool(q, cb, list, free),
         CarriesNext(winfo_pdq', PdqSend, PriData),
         pdqtaken' \in [PriDataqs -> PriData \cup {UNINIT}]
  PROVE  PdqPools'
<1>1. /\ DOMAIN pdqcb' = PriDataqs
      /\ \A e \in PriDataqs : pdqcb'[e] = IF e = q THEN cb ELSE pdqcb[e]
  BY DEF PdqPools, Sets
<1>2. \A e \in PriDataqs : \E l, f : Pool(e, pdqcb'[e], l, f)
  BY <1>1 DEF PdqPools
<1>3. Carries(winfo_pdq, PdqSend, PriData)'
  BY DEF Carries, CarriesNext, PdqSend
<1>4. QED
  BY <1>1, <1>2, <1>3 DEF PdqPools

\* The datum of the first task that waits to send.
LEMMA PdqCarried ==
  ASSUME ObjectKernel, PdqPools, NEW q \in PriDataqs,
         wait_queue[pdq_swait[q]] # << >>
  PROVE  winfo_pdq[Head(wait_queue[pdq_swait[q]])] \in PriData
<1>1. pdq_swait[q] \in WaitQueue /\ pdq_swait[q] \in PdqSend
  BY PdqFacts DEF TwoQueue, PdqSend
<1>2. wait_queue[pdq_swait[q]] \in Seq(Task)
  BY <1>1, QueueFacts DEF ObjectKernel
<1>3. QED
  BY <1>1, <1>2, HeadMemberLemma DEF PdqPools, Carries

LEMMA PdqPoolsCall ==
  ASSUME ObjectKernel, ObjectKernel', PdqKept, PdqPools, NEW q \in PriDataqs,
         P!PdqCall(q)
  PROVE  PdqPools'
<1> DEFINE s == pdq_swait[q]
           r == pdq_rwait[q]
           cb == pdqcb[q]
           T  == [PriDataqs -> PriData \cup {UNINIT}]
<1>1. /\ s \in WaitQueue /\ r \in WaitQueue /\ r \notin TpriQueue /\ s # r
      /\ s \in PdqSend /\ r \notin PdqSend /\ PdqSend \in SUBSET WaitQueue
      /\ UNINIT # NULL
  <2>1. \A e \in PriDataqs : pdq_swait[e] \in WaitQueue /\ pdq_rwait[q] # pdq_swait[e]
    BY PdqFacts DEF TwoQueue, PdqReceive
  <2>2. QED
    BY <2>1, PdqFacts DEF TwoQueue, PdqSend
<1>2. /\ Carries(winfo_pdq, PdqSend, PriData) /\ pdqtaken \in T
      /\ DOMAIN pdqcb = PriDataqs
  BY DEF PdqPools
<1>3. PICK list, free : Pool(q, cb, list, free)
  BY DEF PdqPools
<1>4. pdqcnt[q] \in Nat /\ cb.count \in 0 .. pdqcnt[q]
  BY PdqFacts DEF PdqKept, BufferAt, Buffer
<1>5. Sets(pdqcb, pdqcb, q, cb)
  BY DEF Sets
<1> HIDE DEF s, r, cb, T
<1>6. ASSUME NEW data \in PriData, PdqHands(q, data) PROVE PdqPools'
  <2>1. /\ Hands(r) /\ pdqcb' = pdqcb
        /\ winfo_pdq' = Scope([winfo_pdq EXCEPT ![Head(wait_queue[r])] = data])
        /\ pdqtaken' = [pdqtaken EXCEPT ![q] = data]
    BY <1>6 DEF PdqHands, r
  <2>2. NoneEnters(PdqSend)
    BY <1>1, <2>1, HandShrinks
  <2>3. CarriesNext(winfo_pdq', PdqSend, PriData)
    BY <1>1, <1>2, <2>1, <2>2, CarryHand
  <2>4. pdqtaken' \in T
    BY <1>2, <2>1 DEF T
  <2>5. QED
    BY <1>3, <1>5, <2>1, <2>3, <2>4, PdqPoolsNext DEF T
<1>7. ASSUME NEW data \in PriData, PdqStores(q, data) PROVE PdqPools'
  <2>1. /\ cb.count < pdqcnt[q] /\ wait_queue' = wait_queue
        /\ pdqcb' = [pdqcb EXCEPT ![q] = P!enqueue_pridata(cb, data)]
        /\ winfo_pdq' = Scope(winfo_pdq) /\ pdqtaken' = pdqtaken
    BY <1>7 DEF PdqStores, P!Room, cb
  <2>2. NoneEnters(PdqSend)
    BY <2>1 DEF NoneEnters
  <2>3. CarriesNext(winfo_pdq', PdqSend, PriData)
    BY <1>1, <1>2, <2>1, <2>2, CarrySame
  <2>4. PICK l, f : Pool(q, P!enqueue_pridata(cb, data), l, f)
    BY <1>3, <2>1, EnqueuePool
  <2>5. Sets(pdqcb', pdqcb, q, P!enqueue_pridata(cb, data))
    BY <1>2, <2>1, SetsExcept
  <2>6. QED
    BY <1>2, <2>1, <2>3, <2>4, <2>5, PdqPoolsNext DEF T
<1>8. ASSUME NEW f \in {"SPDQ", "RPDQ"}, NEW callback \in {"none", "wait_tmout"},
             NEW o \in {s, r}, NEW x \in Carried(PriData),
             o = s => f = "SPDQ" /\ x \in PriData,
             PdqWaitsWith(f, callback, o, x)
      PROVE  PdqPools'
  <2>1. /\ Waits(f, callback, o) /\ pdqcb' = pdqcb /\ pdqtaken' = pdqtaken
        /\ winfo_pdq' = Scope([winfo_pdq EXCEPT ![p_runtsk] = x])
    BY <1>8 DEF PdqWaitsWith
  <2>2. /\ f \in WobjFactor /\ o \in WaitQueue
        /\ o \in TpriQueue => f \in WobjcbFactor
    BY <1>1, <1>8 DEF WobjFactor, WobjcbFactor
  <2>3. BeginsToWait(o)
    BY <2>1, <2>2, WaitCall DEF Waits
  <2>4. o \in PdqSend => x \in PriData
    BY <1>1, <1>8
  <2>5. CarriesNext(winfo_pdq', PdqSend, PriData)
    BY <1>1, <1>2, <2>1, <2>2, <2>3, <2>4, CarryWait
  <2>6. QED
    BY <1>2, <1>3, <1>5, <2>1, <2>5, PdqPoolsNext DEF T
<1>9. ASSUME PdqTakes(q) PROVE PdqPools'
  <2> DEFINE less == P!dequeue_pridata(cb)
             x == winfo_pdq[Head(wait_queue[s])]
             more == P!enqueue_pridata(less, x)
  <2>1. /\ cb.count > 0 /\ pdqtaken' = [pdqtaken EXCEPT ![q] = P!First(cb)]
        /\ winfo_pdq' = Scope(winfo_pdq)
        /\ \/ wait_queue' = wait_queue /\ pdqcb' = [pdqcb EXCEPT ![q] = less]
           \/ Hands(s) /\ pdqcb' = [pdqcb EXCEPT ![q] = more]
    BY <1>9 DEF PdqTakes, cb, s
  <2>2. PICK l, f : /\ list # << >> /\ cb.p_head = list[1] /\ Pool(q, less, l, f)
                    /\ less.count = cb.count - 1
    BY <1>3, <2>1, DequeuePool
  <2>3. P!First(cb) \in PriData
    <3>1. list \in Seq(DOMAIN NextOf(cb.p_pdqmb))
      BY <1>3 DEF Pool, IsChain
    <3>2. list[1] \in Members(list)
      BY <2>2, <3>1 DEF Members
    <3>3. QED
      BY <1>3, <2>2, <3>2 DEF Pool, P!First
  <2>4. pdqtaken' \in T
    BY <1>2, <2>1, <2>3 DEF T
  <2>5. NoneEnters(PdqSend)
    BY <1>1, <2>1, HandShrinks DEF NoneEnters
  <2>6. CarriesNext(winfo_pdq', PdqSend, PriData)
    BY <1>1, <1>2, <2>1, <2>5, CarrySame
  <2> HIDE DEF less, more, x
  <2>7. CASE wait_queue' = wait_queue /\ pdqcb' = [pdqcb EXCEPT ![q] = less]
    <3>1. Sets(pdqcb', pdqcb, q, less)
      BY <1>2, <2>7, SetsExcept
    <3>2. QED
      BY <2>2, <2>4, <2>6, <3>1, PdqPoolsNext DEF T
  <2>8. CASE Hands(s) /\ pdqcb' = [pdqcb EXCEPT ![q] = more]
    <3>1. wait_queue[s] # << >>
      BY <2>8 DEF Hands
    <3>2. x \in PriData
      BY <3>1, PdqCarried DEF x, s
    <3>3. less.count < pdqcnt[q]
      BY <1>4, <2>1, <2>2
    <3>4. PICK l2, f2 : Pool(q, more, l2, f2)
      BY <2>2, <3>2, <3>3, EnqueuePool DEF more
    <3>5. Sets(pdqcb', pdqcb, q, more)
      BY <1>2, <2>8, SetsExcept
    <3>6. QED
      BY <2>4, <2>6, <3>4, <3>5, PdqPoolsNext DEF T
  <2>9. QED
    BY <2>1, <2>7, <2>8
<1>10. ASSUME PdqPasses(q) PROVE PdqPools'
  <2>1. /\ Hands(s) /\ pdqcb' = pdqcb /\ winfo_pdq' = Scope(winfo_pdq)
        /\ pdqtaken' = [pdqtaken EXCEPT ![q] = winfo_pdq[Head(wait_queue[s])]]
    BY <1>10 DEF PdqPasses, s
  <2>2. NoneEnters(PdqSend)
    BY <1>1, <2>1, HandShrinks
  <2>3. CarriesNext(winfo_pdq', PdqSend, PriData)
    BY <1>1, <1>2, <2>1, <2>2, CarrySame
  <2>4. winfo_pdq[Head(wait_queue[s])] \in PriData
    BY <2>1, PdqCarried DEF Hands, s
  <2>5. pdqtaken' \in T
    BY <1>2, <2>1, <2>4 DEF T
  <2>6. QED
    BY <1>3, <1>5, <2>1, <2>3, <2>5, PdqPoolsNext DEF T
<1>11. ASSUME PdqResets(q) PROVE PdqPools'
  <2> DEFINE reset == P!Reset(cb)
  <2>1. /\ wait_queue' = [wait_queue EXCEPT ![s] = << >>, ![r] = << >>]
        /\ pdqcb' = [pdqcb EXCEPT ![q] = reset]
        /\ winfo_pdq' = Scope(winfo_pdq) /\ pdqtaken' = pdqtaken
    BY <1>11 DEF PdqResets, DeletesTwo, cb, s, r
  <2>2. CarriesNext(winfo_pdq', PdqSend, PriData)
    BY <1>1, <1>2, <2>1, DeleteShrinks, CarrySame
  <2>3. Pool(q, reset, << >>, << >>)
    BY <1>3, ResetPool
  <2>4. Sets(pdqcb', pdqcb, q, reset)
    BY <1>2, <2>1, SetsExcept
  <2>5. QED
    BY <1>2, <2>1, <2>2, <2>3, <2>4, PdqPoolsNext DEF T
<1>12. UNINIT \in Carried(PriData) /\ PriData \subseteq Carried(PriData)
  BY DEF Carried
<1>13. QED
  BY <1>1, <1>6, <1>7, <1>8, <1>9, <1>10, <1>11, <1>12, PdqCases DEF s, r

LEMMA PdqPoolsRest ==
  ASSUME ObjectKernel', PdqPools, NEW O, StepOn(O), O \cap PdqQueues = {},
         P!PdqRest
  PROVE  PdqPools'
<1>1. winfo_pdq' = Scope(winfo_pdq) /\ UNCHANGED << pdqcb, pdqtaken >>
  BY SameP DEF P!PdqRest
<1>2. PdqSend \in SUBSET WaitQueue /\ PdqSend \cap O = {}
  BY PdqFacts DEF PdqSend, PdqQueues
<1>3. CarriesNext(winfo_pdq', PdqSend, PriData)
  BY <1>1, <1>2, RestShrinks, CarrySame DEF PdqPools
<1>4. QED
  BY <1>1, <1>3 DEF PdqPools, Carries, CarriesNext, PdqSend

LEMMA PdqPoolsStill ==
  ASSUME PdqPools, UNCHANGED << wait_queue, winfo_pdq, pdqcb, pdqtaken >>
  PROVE  PdqPools'
BY DEF PdqPools, Carries, PdqSend

LEMMA PdqPoolsInit ==
  ASSUME P!PdqInit, \A w \in WaitQueue : wait_queue[w] = << >>
  PROVE  PdqPools
<1>1. /\ winfo_pdq = [t \in Task |-> NULL]
      /\ pdqtaken = [q \in PriDataqs |-> UNINIT]
      /\ pdqcb = [q \in PriDataqs |->
                    P!Initialised([i \in P!Node(q) |-> [data   |-> UNINIT,
                                                        p_next |-> NULL]])]
  BY DEF P!PdqInit, P!Pdq
<1>2. Carries(winfo_pdq, PdqSend, PriData)
  <2>1. \A w \in PdqSend : Members(wait_queue[w]) = {}
    BY PdqFacts DEF PdqSend, TwoQueue, Members
  <2>2. QED
    BY <1>1, <2>1 DEF Carries, Carried
<1>3. ASSUME NEW q \in PriDataqs
      PROVE  \E list, free : Pool(q, pdqcb[q], list, free)
  <2> DEFINE mb == [i \in P!Node(q) |-> [data |-> UNINIT, p_next |-> NULL]]
  <2>1. mb \in [P!Node(q) -> PdqNode(q)]
    BY DEF PdqNode
  <2> HIDE DEF mb
  <2>2. Pool(q, P!Initialised(mb), << >>, << >>)
    BY <2>1, InitialPool
  <2>3. QED
    BY <1>1, <2>2 DEF mb
<1>4. QED
  BY <1>1, <1>2, <1>3 DEF PdqPools

\* Two lists one after the other.
LEMMA BothLists ==
  ASSUME NEW X, NEW s \in Seq(X), NEW u \in Seq(X), NoDuplicates(s),
         NoDuplicates(u), Members(s) \cap Members(u) = {}
  PROVE  NoDuplicates(s \o u) /\ Members(s \o u) = Members(s) \cup Members(u)
<1> DEFINE n == Len(s)
           k == Len(u)
           w == s \o u
<1>1. /\ n \in Nat /\ k \in Nat /\ Len(w) = n + k
      /\ \A i \in 1 .. n + k : w[i] = IF i <= n THEN s[i] ELSE u[i - n]
  OBVIOUS
<1>2. /\ \A i \in 1 .. n : s[i] \in Members(s)
      /\ \A i \in 1 .. k : u[i] \in Members(u)
      /\ Members(s) = {s[i] : i \in 1 .. n} /\ Members(u) = {u[i] : i \in 1 .. k}
      /\ Members(w) = {w[i] : i \in 1 .. n + k}
      /\ \A i, j \in 1 .. n : s[i] = s[j] => i = j
      /\ \A i, j \in 1 .. k : u[i] = u[j] => i = j
  BY <1>1 DEF Members, NoDuplicates
<1> HIDE DEF w, n, k
<1>3. \A i \in 1 .. n + k :
        \/ i \in 1 .. n /\ w[i] = s[i]
        \/ i \notin 1 .. n /\ i - n \in 1 .. k /\ w[i] = u[i - n]
  BY <1>1
<1>4. \A i \in 1 .. n : i \in 1 .. n + k /\ w[i] = s[i]
  BY <1>1
<1>5. \A i \in 1 .. k : i + n \in 1 .. n + k /\ w[i + n] = u[i]
  BY <1>1
<1>6. ASSUME NEW i \in 1 .. n + k, NEW j \in 1 .. n + k, w[i] = w[j] PROVE i = j
  <2>1. CASE i \in 1 .. n /\ j \in 1 .. n
    BY <1>2, <1>4, <1>6, <2>1
  <2>2. CASE i \notin 1 .. n /\ j \notin 1 .. n
    <3>1. i - n \in 1 .. k /\ j - n \in 1 .. k /\ u[i - n] = u[j - n]
      BY <1>3, <1>6, <2>2
    <3>2. i - n = j - n
      BY <1>2, <3>1
    <3>3. QED
      BY <1>1, <3>2
  <2>3. CASE i \in 1 .. n /\ j \notin 1 .. n
    <3>1. w[i] \in Members(s) /\ w[j] \in Members(u)
      BY <1>2, <1>3, <1>4, <2>3
    <3>2. QED
      BY <1>6, <3>1
  <2>4. CASE i \notin 1 .. n /\ j \in 1 .. n
    <3>1. w[j] \in Members(s) /\ w[i] \in Members(u)
      BY <1>2, <1>3, <1>4, <2>4
    <3>2. QED
      BY <1>6, <3>1
  <2>5. QED
    BY <2>1, <2>2, <2>3, <2>4
<1>7. NoDuplicates(w)
  BY <1>1, <1>6 DEF NoDuplicates, n, k
<1>8. ASSUME NEW x \in Members(w) PROVE x \in Members(s) \cup Members(u)
  BY <1>2, <1>3, <1>8
<1>9. Members(s) \subseteq Members(w)
  BY <1>2, <1>4
<1>10. Members(u) \subseteq Members(w)
  <2>1. ASSUME NEW i \in 1 .. k PROVE u[i] \in Members(w)
    BY <1>2, <1>5
  <2>2. QED
    BY <1>2, <2>1
<1>11. QED
  BY <1>7, <1>8, <1>9, <1>10 DEF w

\* The nodes of a pool are in one of its lists, once.
LEMMA PdqPoolsMean ==
  ASSUME PdqKept, PdqPools
  PROVE  /\ P!PoolInv
         /\ winfo_pdq \in [Task -> PriData \cup {UNINIT, NULL}]
         /\ pdqtaken \in [PriDataqs -> PriData \cup {UNINIT}]
         /\ \A q \in PriDataqs :
              /\ {pdqcb[q].count, pdqcb[q].unused} \subseteq 0 .. pdqcnt[q]
              /\ {pdqcb[q].p_head, pdqcb[q].p_freelist}
                   \subseteq P!Node(q) \cup {NULL}
              /\ pdqcb[q].p_pdqmb \in
                   [P!Node(q) -> [data   : PriData \cup {UNINIT},
                                  p_next : P!Node(q) \cup {NULL}]]
<1>1. /\ winfo_pdq \in [Task -> PriData \cup {UNINIT, NULL}]
      /\ pdqtaken \in [PriDataqs -> PriData \cup {UNINIT}]
  BY DEF PdqPools, Carries, Carried
<1>2. ASSUME NEW q \in PriDataqs
      PROVE  LET cb   == pdqcb[q]
                 list == P!Linked(cb.p_pdqmb, cb.p_head)
                 free == P!Linked(cb.p_pdqmb, cb.p_freelist)
             IN  /\ P!NoDuplicates(list \o free)
                 /\ P!Members(list \o free) = 0 .. cb.unused - 1
                 /\ Len(list) = cb.count
  <2>1. PICK list, free : Pool(q, pdqcb[q], list, free)
    BY DEF PdqPools
  <2>2. /\ P!Linked(pdqcb[q].p_pdqmb, pdqcb[q].p_head) = list
        /\ P!Linked(pdqcb[q].p_pdqmb, pdqcb[q].p_freelist) = free
        /\ DOMAIN NextOf(pdqcb[q].p_pdqmb) = P!Node(q)
    BY <2>1, PoolFacts
  <2>3. /\ list \in Seq(P!Node(q)) /\ free \in Seq(P!Node(q))
        /\ NoDuplicates(list) /\ NoDuplicates(free)
        /\ Members(list) \cap Members(free) = {}
        /\ Members(list) \cup Members(free) = 0 .. pdqcb[q].unused - 1
        /\ Len(list) = pdqcb[q].count
    BY <2>1, <2>2 DEF Pool, IsChain
  <2>4. /\ NoDuplicates(list \o free)
        /\ Members(list \o free) = Members(list) \cup Members(free)
    <3> DEFINE X == P!Node(q)
    <3>1. /\ list \in Seq(X) /\ free \in Seq(X)
          /\ NoDuplicates(list) /\ NoDuplicates(free)
          /\ Members(list) \cap Members(free) = {}
      BY <2>3
    <3> HIDE DEF X
    <3>2. QED
      BY <3>1, BothLists
  <2>5. /\ Members(list \o free) = 0 .. pdqcb[q].unused - 1
        /\ Len(list) = pdqcb[q].count
    BY <2>3, <2>4
  <2>6. /\ P!NoDuplicates(list \o free) /\ P!Members(list \o free) = Members(list \o free)
    BY <2>4 DEF P!NoDuplicates, NoDuplicates, P!Members, Members
  <2>7. QED
    BY <2>2, <2>5, <2>6
<1>3. ASSUME NEW q \in PriDataqs
      PROVE  /\ {pdqcb[q].count, pdqcb[q].unused} \subseteq 0 .. pdqcnt[q]
             /\ {pdqcb[q].p_head, pdqcb[q].p_freelist}
                  \subseteq P!Node(q) \cup {NULL}
             /\ pdqcb[q].p_pdqmb \in
                  [P!Node(q) -> [data   : PriData \cup {UNINIT},
                                 p_next : P!Node(q) \cup {NULL}]]
  <2>1. pdqcb[q] \in PdqCb(q)
    BY DEF PdqPools, Pool
  <2>2. pdqcb[q].count \in 0 .. pdqcnt[q]
    BY DEF PdqKept, BufferAt, Buffer
  <2>3. QED
    BY <2>1, <2>2 DEF PdqCb, PdqNode
<1>4. P!PoolInv
  BY <1>2 DEF P!PoolInv, P!Pdq
<1>5. QED
  BY <1>1, <1>3, <1>4

----------------------------------------------------------------------------
(***************************************************************************)
(* The ring buffer of a data queue: tail is count slots behind head.       *)
(***************************************************************************)
Wrap(d, i) == IF i >= dtqcnt[d] THEN i - dtqcnt[d] ELSE i

DtqCb(d) ==
  [count : 0 .. dtqcnt[d], head : Nat, tail : Nat,
   dtqmb : [D!Slot(d) -> Data \cup {UNINIT}]]

Ring(d, cb) ==
  /\ cb \in DtqCb(d)
  /\ dtqcnt[d] > 0 =>
       cb.head \in D!Slot(d) /\ cb.tail = Wrap(d, cb.head + cb.count)

LEMMA RingFacts ==
  ASSUME NEW d \in Dataqueues, NEW cb, Ring(d, cb)
  PROVE  /\ dtqcnt[d] \in Nat /\ cb.count \in 0 .. dtqcnt[d]
         /\ cb.head \in Nat /\ cb.tail \in Nat
         /\ cb.dtqmb \in [D!Slot(d) -> Data \cup {UNINIT}]
         /\ cb \in DtqCb(d)
         /\ dtqcnt[d] > 0 =>
              /\ cb.head \in 0 .. dtqcnt[d] - 1 /\ cb.tail \in 0 .. dtqcnt[d] - 1
              /\ cb.tail = Wrap(d, cb.head + cb.count)
<1>1. dtqcnt[d] \in Nat
  BY DtqFacts
<1>2. cb \in DtqCb(d)
  BY DEF Ring
<1>3. /\ cb.count \in 0 .. dtqcnt[d] /\ cb.head \in Nat /\ cb.tail \in Nat
      /\ cb.dtqmb \in [D!Slot(d) -> Data \cup {UNINIT}]
  BY <1>2 DEF DtqCb
<1>4. ASSUME dtqcnt[d] > 0
      PROVE  /\ cb.head \in 0 .. dtqcnt[d] - 1 /\ cb.tail \in 0 .. dtqcnt[d] - 1
             /\ cb.tail = Wrap(d, cb.head + cb.count)
  <2>1. /\ cb.head \in 0 .. dtqcnt[d] - 1 /\ cb.tail = Wrap(d, cb.head + cb.count)
    BY <1>4 DEF Ring, D!Slot
  <2>2. \A n \in Nat : \A h \in 0 .. n - 1, c \in 0 .. n :
          (IF h + c >= n THEN (h + c) - n ELSE h + c) \in 0 .. n - 1
    OBVIOUS
  <2>3. QED
    BY <1>1, <1>3, <2>1, <2>2 DEF Wrap
<1>5. QED
  BY <1>1, <1>2, <1>3, <1>4

\* One field of a control block is written.
LEMMA RingExcept ==
  ASSUME NEW c, NEW h, NEW t, NEW mb, NEW x, NEW cb,
         cb = [count |-> c, head |-> h, tail |-> t, dtqmb |-> mb]
  PROVE  /\ cb.count = c /\ cb.head = h /\ cb.tail = t /\ cb.dtqmb = mb
         /\ [cb EXCEPT !.count = x]
              = [count |-> x, head |-> h, tail |-> t, dtqmb |-> mb]
         /\ [cb EXCEPT !.head = x]
              = [count |-> c, head |-> x, tail |-> t, dtqmb |-> mb]
         /\ [cb EXCEPT !.tail = x]
              = [count |-> c, head |-> h, tail |-> x, dtqmb |-> mb]
         /\ [cb EXCEPT !.dtqmb = x]
              = [count |-> c, head |-> h, tail |-> t, dtqmb |-> x]
<1>1. cb.count = c /\ cb.head = h /\ cb.tail = t /\ cb.dtqmb = mb
  OBVIOUS
<1>2. [cb EXCEPT !.count = x] = [count |-> x, head |-> h, tail |-> t, dtqmb |-> mb]
  OBVIOUS
<1>3. [cb EXCEPT !.head = x] = [count |-> c, head |-> x, tail |-> t, dtqmb |-> mb]
  OBVIOUS
<1>4. [cb EXCEPT !.tail = x] = [count |-> c, head |-> h, tail |-> x, dtqmb |-> mb]
  OBVIOUS
<1>5. [cb EXCEPT !.dtqmb = x] = [count |-> c, head |-> h, tail |-> t, dtqmb |-> x]
  OBVIOUS
<1>6. QED
  BY <1>1, <1>2, <1>3, <1>4, <1>5

LEMMA RingLess ==
  ASSUME NEW d, NEW c, NEW h, NEW t, NEW mb, NEW cb,
         cb = [count |-> c, head |-> h, tail |-> t, dtqmb |-> mb]
  PROVE  D!dequeue_data(d, cb)
           = [count |-> c - 1, head |-> D!Step(d, h), tail |-> t, dtqmb |-> mb]
<1> DEFINE less == [cb EXCEPT !.count = c - 1]
<1>1. cb.count = c /\ cb.head = h
  BY RingExcept
<1>2. less = [count |-> c - 1, head |-> h, tail |-> t, dtqmb |-> mb]
  BY RingExcept
<1>3. D!dequeue_data(d, cb) = [less EXCEPT !.head = D!Step(d, h)]
  BY <1>1 DEF D!dequeue_data
<1> HIDE DEF less
<1>4. [less EXCEPT !.head = D!Step(d, h)]
        = [count |-> c - 1, head |-> D!Step(d, h), tail |-> t, dtqmb |-> mb]
  BY <1>2, RingExcept
<1>5. QED
  BY <1>3, <1>4

\* The operations on a control block of given fields.
LEMMA RingFields ==
  ASSUME NEW d, NEW c, NEW h, NEW t, NEW mb, NEW data, NEW cb,
         cb = [count |-> c, head |-> h, tail |-> t, dtqmb |-> mb]
  PROVE  /\ D!enqueue_data(d, cb, data)
              = [count |-> c + 1, head |-> h, tail |-> D!Step(d, t),
                 dtqmb |-> [mb EXCEPT ![t] = data]]
         /\ D!force_enqueue_data(d, cb, data)
              = [count |-> IF c >= dtqcnt[d] THEN c ELSE c + 1,
                 head  |-> IF c >= dtqcnt[d] THEN D!Step(d, t) ELSE h,
                 tail  |-> D!Step(d, t),
                 dtqmb |-> [mb EXCEPT ![t] = data]]
<1> DEFINE new  == [mb EXCEPT ![t] = data]
           step == D!Step(d, t)
           one  == [cb EXCEPT !.dtqmb = new]
           two  == [one EXCEPT !.count = c + 1]
           cN   == IF c >= dtqcnt[d] THEN c ELSE c + 1
           hN   == IF c >= dtqcnt[d] THEN D!Step(d, t) ELSE h
           tail == [one EXCEPT !.tail = step]
           cnt  == [tail EXCEPT !.count = cN]
<1>1. cb.count = c /\ cb.head = h /\ cb.tail = t /\ cb.dtqmb = mb
  BY RingExcept
<1>2. one = [count |-> c, head |-> h, tail |-> t, dtqmb |-> new]
  <2> HIDE DEF new
  <2>1. QED
    BY RingExcept
<1>3. /\ two = [count |-> c + 1, head |-> h, tail |-> t, dtqmb |-> new]
      /\ tail = [count |-> c, head |-> h, tail |-> step, dtqmb |-> new]
  <2> HIDE DEF new, one, step
  <2>1. QED
    BY <1>2, RingExcept
<1>4. cnt = [count |-> cN, head |-> h, tail |-> step, dtqmb |-> new]
  <2> HIDE DEF new, step, tail, cN
  <2>1. QED
    BY <1>3, RingExcept
<1>5. D!enqueue_data(d, cb, data) = [two EXCEPT !.tail = step]
  BY <1>1 DEF D!enqueue_data
<1>6. D!force_enqueue_data(d, cb, data) = [cnt EXCEPT !.head = hN]
  BY <1>1 DEF D!force_enqueue_data
<1>7. [two EXCEPT !.tail = step]
        = [count |-> c + 1, head |-> h, tail |-> step, dtqmb |-> new]
  <2> HIDE DEF new, step, two
  <2>1. QED
    BY <1>3, RingExcept
<1>8. [cnt EXCEPT !.head = hN]
         = [count |-> cN, head |-> hN, tail |-> step, dtqmb |-> new]
  <2> HIDE DEF new, step, cnt, cN, hN
  <2>1. QED
    BY <1>4, RingExcept
<1>9. QED
  BY <1>5, <1>6, <1>7, <1>8

\* The fields of a ring.
LEMMA RingRecord ==
  ASSUME NEW d, NEW cb \in DtqCb(d)
  PROVE  cb = [count |-> cb.count, head |-> cb.head, tail |-> cb.tail,
               dtqmb |-> cb.dtqmb]
BY DEF DtqCb

LEMMA RingEnqueue ==
  ASSUME NEW d \in Dataqueues, NEW cb, Ring(d, cb), cb.count < dtqcnt[d],
         NEW data \in Data
  PROVE  Ring(d, D!enqueue_data(d, cb, data))
<1> DEFINE n == dtqcnt[d]
           h == cb.head
           c == cb.count
           mb == [cb.dtqmb EXCEPT ![cb.tail] = data]
           cbN == D!enqueue_data(d, cb, data)
<1>1. /\ n \in Nat /\ n > 0 /\ c \in 0 .. n /\ c < n /\ h \in 0 .. n - 1
      /\ cb.tail \in 0 .. n - 1 /\ cb.tail = Wrap(d, h + c)
      /\ cb.dtqmb \in [D!Slot(d) -> Data \cup {UNINIT}]
      /\ cb \in DtqCb(d)
  BY RingFacts
<1>2. cbN = [count |-> c + 1, head |-> h, tail |-> D!Step(d, cb.tail), dtqmb |-> mb]
  BY <1>1, RingRecord, RingFields
<1>3. mb \in [D!Slot(d) -> Data \cup {UNINIT}]
  BY <1>1
<1> HIDE DEF mb, cbN
<1>4. D!Step(d, Wrap(d, h + c)) = Wrap(d, h + (c + 1))
      /\ Wrap(d, h + (c + 1)) \in Nat
  <2> HIDE DEF h, c
  <2>1. QED
    BY <1>1 DEF D!Step, Wrap
<1>5. /\ cbN.count = c + 1 /\ cbN.head = h /\ cbN.tail = Wrap(d, h + (c + 1))
      /\ cbN.dtqmb = mb /\ c + 1 \in 0 .. n
      /\ cbN \in DtqCb(d)
  BY <1>1, <1>2, <1>3, <1>4 DEF DtqCb
<1>6. QED
  BY <1>1, <1>5 DEF Ring, cbN, D!Slot

LEMMA RingForce ==
  ASSUME NEW d \in Dataqueues, NEW cb, Ring(d, cb), dtqcnt[d] > 0,
         NEW data \in Data
  PROVE  Ring(d, D!force_enqueue_data(d, cb, data))
<1> DEFINE n == dtqcnt[d]
           h == cb.head
           c == cb.count
           mb == [cb.dtqmb EXCEPT ![cb.tail] = data]
           cbN == D!force_enqueue_data(d, cb, data)
<1>1. /\ n \in Nat /\ n > 0 /\ c \in 0 .. n /\ h \in 0 .. n - 1
      /\ cb.tail \in 0 .. n - 1 /\ cb.tail = Wrap(d, h + c)
      /\ cb.dtqmb \in [D!Slot(d) -> Data \cup {UNINIT}]
      /\ cb \in DtqCb(d)
  BY RingFacts
<1>2. CASE c < n
  <2>1. /\ cb = [count |-> c, head |-> h, tail |-> cb.tail, dtqmb |-> cb.dtqmb]
        /\ ~(c >= n)
    BY <1>1, <1>2, RingRecord
  <2>2. cbN = D!enqueue_data(d, cb, data)
    BY <2>1, RingFields
  <2>3. QED
    BY <1>2, <2>2, RingEnqueue
<1>3. CASE c = n
  <2>1. cbN = [count |-> c, head |-> D!Step(d, cb.tail),
               tail |-> D!Step(d, cb.tail), dtqmb |-> mb]
    <3>1. /\ cb = [count |-> c, head |-> h, tail |-> cb.tail, dtqmb |-> cb.dtqmb]
          /\ c >= n
      BY <1>1, <1>3, RingRecord
    <3>2. QED
      BY <3>1, RingFields
  <2>2. mb \in [D!Slot(d) -> Data \cup {UNINIT}]
    BY <1>1
  <2> HIDE DEF mb, cbN
  <2>3. /\ D!Step(d, cb.tail) \in 0 .. n - 1
        /\ D!Step(d, cb.tail) = Wrap(d, D!Step(d, cb.tail) + c)
    BY <1>1, <1>3 DEF D!Step, Wrap
  <2>4. /\ cbN.count = c /\ cbN.head = D!Step(d, cb.tail)
        /\ cbN.tail = D!Step(d, cb.tail) /\ cbN \in DtqCb(d)
    BY <1>1, <2>1, <2>2, <2>3 DEF DtqCb
  <2>5. QED
    BY <1>1, <2>3, <2>4 DEF Ring, cbN, D!Slot
<1>4. QED
  BY <1>1, <1>2, <1>3

LEMMA RingDequeue ==
  ASSUME NEW d \in Dataqueues, NEW cb, Ring(d, cb), cb.count > 0
  PROVE  /\ Ring(d, D!dequeue_data(d, cb))
         /\ D!dequeue_data(d, cb).count = cb.count - 1
         /\ D!Oldest(cb) \in Data \cup {UNINIT}
<1> DEFINE n == dtqcnt[d]
           h == cb.head
           c == cb.count
           cbN == D!dequeue_data(d, cb)
<1>1. /\ n \in Nat /\ n > 0 /\ c \in 0 .. n /\ c > 0 /\ h \in 0 .. n - 1
      /\ cb.tail \in 0 .. n - 1 /\ cb.tail = Wrap(d, h + c)
      /\ cb.dtqmb \in [D!Slot(d) -> Data \cup {UNINIT}]
      /\ cb \in DtqCb(d)
  BY RingFacts
<1>2. cbN = [count |-> c - 1, head |-> D!Step(d, h), tail |-> cb.tail,
             dtqmb |-> cb.dtqmb]
  <2>1. cb = [count |-> c, head |-> h, tail |-> cb.tail, dtqmb |-> cb.dtqmb]
    BY <1>1, RingRecord
  <2>2. QED
    BY <2>1, RingLess
<1> HIDE DEF cbN
<1>3. /\ D!Step(d, h) \in 0 .. n - 1
      /\ Wrap(d, h + c) = Wrap(d, D!Step(d, h) + (c - 1))
  <2> HIDE DEF h, c
  <2>1. QED
    BY <1>1 DEF D!Step, Wrap
<1>4. /\ cbN.count = c - 1 /\ cbN.head = D!Step(d, h) /\ cbN.tail = cb.tail
      /\ cbN \in DtqCb(d)
  BY <1>1, <1>2, <1>3 DEF DtqCb
<1>5. Ring(d, cbN)
  BY <1>1, <1>3, <1>4 DEF Ring, D!Slot
<1>6. D!Oldest(cb) \in Data \cup {UNINIT}
  BY <1>1 DEF D!Oldest, D!Slot
<1>7. QED
  BY <1>4, <1>5, <1>6 DEF cbN

LEMMA RingEmpty ==
  ASSUME NEW d \in Dataqueues,
         NEW mb \in [D!Slot(d) -> Data \cup {UNINIT}]
  PROVE  Ring(d, [count |-> 0, head |-> 0, tail |-> 0, dtqmb |-> mb])
<1>1. dtqcnt[d] \in Nat
  BY DtqFacts
<1>2. QED
  BY <1>1 DEF Ring, DtqCb, D!Slot, Wrap

LEMMA ModOnce ==
  ASSUME NEW n \in Nat, NEW a \in Nat
  PROVE  /\ a < n => a % n = a
         /\ n <= a /\ a < n + n => a % n = a - n
OBVIOUS

\* What the equation of Ring says in the words of the type invariant.
LEMMA RingMean ==
  ASSUME NEW d \in Dataqueues, NEW cb, Ring(d, cb)
  PROVE  /\ cb.count \in 0 .. dtqcnt[d]
         /\ dtqcnt[d] > 0 =>
              /\ {cb.head, cb.tail} \subseteq D!Slot(d)
              /\ cb.tail = (cb.head + cb.count) % dtqcnt[d]
         /\ cb.dtqmb \in [D!Slot(d) -> Data \cup {UNINIT}]
<1> DEFINE n == dtqcnt[d]
           h == cb.head
           c == cb.count
<1>1. /\ n \in Nat /\ c \in 0 .. n
      /\ cb.dtqmb \in [D!Slot(d) -> Data \cup {UNINIT}]
  BY RingFacts
<1>2. ASSUME n > 0
      PROVE  /\ {cb.head, cb.tail} \subseteq D!Slot(d)
             /\ cb.tail = (h + c) % n
  <2>1. h \in 0 .. n - 1 /\ cb.tail \in 0 .. n - 1 /\ cb.tail = Wrap(d, h + c)
    BY <1>2, RingFacts
  <2> HIDE DEF n, h, c
  <2>2. /\ n \in Nat /\ h + c \in Nat /\ h + c < n + n
        /\ Wrap(d, h + c) = IF h + c >= n THEN (h + c) - n ELSE h + c
    BY <1>1, <1>2, <2>1 DEF Wrap, n
  <2>3. (h + c) % n = Wrap(d, h + c)
    <3>1. /\ h + c < n => (h + c) % n = h + c
          /\ n <= h + c => (h + c) % n = (h + c) - n
      BY <2>2, ModOnce
    <3>2. h + c \in Int /\ n \in Int
      BY <2>2
    <3>3. QED
      BY <2>2, <3>1, <3>2
  <2>4. QED
    BY <2>1, <2>3 DEF n, h, D!Slot
<1>3. QED
  BY <1>1, <1>2

----------------------------------------------------------------------------
(***************************************************************************)
(* What a call on a data queue does to its control block, to the tasks     *)
(* that wait and to the data that they carry.                              *)
(***************************************************************************)
DtqHands(d, data) ==
  /\ Hands(dtq_rwait[d]) /\ UNCHANGED dtqcb
  /\ winfo_dtq' = Scope([winfo_dtq EXCEPT ![Head(wait_queue[dtq_rwait[d]])] = data])
  /\ dtqtaken' = [dtqtaken EXCEPT ![d] = data]

DtqStores(d, data) ==
  /\ UNCHANGED wait_queue
  /\ \/ /\ D!Room(d)
        /\ dtqcb' = [dtqcb EXCEPT ![d] = D!enqueue_data(d, dtqcb[d], data)]
     \/ /\ dtqcnt[d] > 0
        /\ dtqcb' = [dtqcb EXCEPT ![d] = D!force_enqueue_data(d, dtqcb[d], data)]
  /\ winfo_dtq' = Scope(winfo_dtq) /\ UNCHANGED dtqtaken

DtqWaitsWith(f, callback, o, x) ==
  /\ Waits(f, callback, o) /\ UNCHANGED << dtqcb, dtqtaken >>
  /\ winfo_dtq' = Scope([winfo_dtq EXCEPT ![p_runtsk] = x])

DtqTakes(d) ==
  /\ dtqcb[d].count > 0
  /\ dtqtaken' = [dtqtaken EXCEPT ![d] = D!Oldest(dtqcb[d])]
  /\ winfo_dtq' = Scope(winfo_dtq)
  /\ \/ /\ UNCHANGED wait_queue
        /\ dtqcb' = [dtqcb EXCEPT ![d] = D!dequeue_data(d, dtqcb[d])]
     \/ /\ Hands(dtq_swait[d])
        /\ dtqcb' = [dtqcb EXCEPT ![d] =
                       D!enqueue_data(d, D!dequeue_data(d, dtqcb[d]),
                                      winfo_dtq[Head(wait_queue[dtq_swait[d]])])]

DtqPasses(d) ==
  /\ Hands(dtq_swait[d]) /\ UNCHANGED dtqcb
  /\ dtqtaken' = [dtqtaken EXCEPT ![d] = winfo_dtq[Head(wait_queue[dtq_swait[d]])]]
  /\ winfo_dtq' = Scope(winfo_dtq)

DtqResets(d) ==
  /\ DeletesTwo(dtq_swait[d], dtq_rwait[d])
  /\ dtqcb' = [dtqcb EXCEPT ![d].count = 0, ![d].head = 0, ![d].tail = 0]
  /\ winfo_dtq' = Scope(winfo_dtq) /\ UNCHANGED dtqtaken

LEMMA DtqCases ==
  ASSUME NEW d \in Dataqueues, D!DtqCall(d)
  PROVE  \/ \E data \in Data : DtqHands(d, data) \/ DtqStores(d, data)
         \/ \E data \in Data, callback \in {"none", "wait_tmout"} :
              DtqWaitsWith("SDTQ", callback, dtq_swait[d], data)
         \/ \E callback \in {"none", "wait_tmout"} :
              DtqWaitsWith("RDTQ", callback, dtq_rwait[d], UNINIT)
         \/ DtqTakes(d) \/ DtqPasses(d) \/ DtqResets(d)
<1> DEFINE s == dtq_swait[d]
           r == dtq_rwait[d]
<1>1. ASSUME NEW data \in Data,
             D!send_data(d, data) \/ (dtqcnt[d] > 0 /\ D!force_send_data(d, data)),
             winfo_dtq' = D!InScope(D!Handed(d, data)),
             UNCHANGED << priority, queVars >>,
             \/ D!InTask /\ D!TaskReturn(D!ReleaseWinfo(r))
             \/ D!InInterrupt /\ D!IntReturn(D!ReleaseWinfo(r))
      PROVE  DtqHands(d, data) \/ DtqStores(d, data)
  <2>1. Returns(D!ReleaseWinfo(r))
    BY <1>1, SameD DEF Returns
  <2>2. CASE D!Hand(d, data)
    BY <1>1, <2>1, <2>2, SameD
       DEF D!Hand, D!Release, D!ReleaseWinfo, D!Handed, D!Receiver, Hands,
           DtqHands
  <2>3. ASSUME NEW cb, D!Store(d, cb)
        PROVE  /\ UNCHANGED << wait_queue, dtqtaken >>
               /\ dtqcb' = [dtqcb EXCEPT ![d] = cb]
               /\ winfo_dtq' = Scope(winfo_dtq)
    BY <1>1, <2>3, SameD DEF D!Store, D!NoRelease, D!Handed, D!Receiver
  <2>4. CASE D!Room(d) /\ D!Store(d, D!enqueue_data(d, dtqcb[d], data))
    BY <2>3, <2>4 DEF DtqStores
  <2>5. CASE /\ dtqcnt[d] > 0
             /\ D!Store(d, D!force_enqueue_data(d, dtqcb[d], data))
    BY <2>3, <2>5 DEF DtqStores
  <2>6. QED
    BY <1>1, <2>2, <2>4, <2>5 DEF D!send_data, D!force_send_data
<1>2. ASSUME NEW data \in Data, NEW callback \in {"none", "wait_tmout"},
             D!SendOrWait(d, data, callback)
      PROVE  \/ DtqHands(d, data) \/ DtqStores(d, data)
             \/ DtqWaitsWith("SDTQ", callback, s, data)
  <2>1. D!InTask
    BY <1>2, SameD DEF D!SendOrWait, CanDispatch
  <2>2. CASE D!send_data(d, data) /\ D!SendReturn(d, data)
    BY <1>1, <2>1, <2>2 DEF D!SendReturn, D!queVars, queVars
  <2>3. CASE /\ D!make_wait("SDTQ", callback) /\ D!wobj_queue_insert(s)
             /\ winfo_dtq' = D!InScope([winfo_dtq EXCEPT ![p_runtsk] = data])
             /\ UNCHANGED << D!queVars, dtqcb, dtqtaken >>
    BY <1>2, <2>3, SameD DEF D!SendOrWait, Waits, DtqWaitsWith, D!queVars, queVars
  <2>4. QED
    BY <1>2, <2>2, <2>3 DEF D!SendOrWait
<1>3. ASSUME D!receive_data(d), D!ReceiveReturn(d), D!InTask
      PROVE  DtqTakes(d) \/ DtqPasses(d)
  <2>1. /\ Returns(D!ReleaseWinfo(s)) /\ winfo_dtq' = Scope(winfo_dtq)
        /\ UNCHANGED << priority, queVars >>
    BY <1>3, SameD DEF D!ReceiveReturn, D!queVars, queVars, Returns
  <2>2. D!Release(s) => Hands(s)
    BY <2>1, SameD DEF D!Release, D!ReleaseWinfo, Hands
  <2>3. CASE /\ dtqcb[d].count > 0
             /\ dtqtaken' = [dtqtaken EXCEPT ![d] = D!Oldest(dtqcb[d])]
             /\ dtqcb' = [dtqcb EXCEPT ![d] = D!Refilled(d)]
             /\ IF D!Sender(d) = << >> THEN D!NoRelease ELSE D!Release(s)
    <3>1. CASE wait_queue[s] = << >>
      BY <2>1, <2>3, <3>1 DEF D!Refilled, D!Sender, D!NoRelease, DtqTakes
    <3>2. CASE wait_queue[s] # << >>
      BY <2>1, <2>2, <2>3, <3>2 DEF D!Refilled, D!Sender, DtqTakes
    <3>3. QED
      BY <3>1, <3>2
  <2>4. CASE /\ D!Release(s) /\ UNCHANGED dtqcb
             /\ dtqtaken' = [dtqtaken EXCEPT ![d] = winfo_dtq[Head(D!Sender(d))]]
    BY <2>1, <2>2, <2>4 DEF D!Sender, DtqPasses
  <2>5. QED
    BY <1>3, <2>3, <2>4 DEF D!receive_data
<1>4. ASSUME NEW callback \in {"none", "wait_tmout"}, D!ReceiveOrWait(d, callback)
      PROVE  \/ DtqTakes(d) \/ DtqPasses(d)
             \/ DtqWaitsWith("RDTQ", callback, r, UNINIT)
  <2>1. D!InTask
    BY <1>4, SameD DEF D!ReceiveOrWait, CanDispatch
  <2>2. CASE D!receive_data(d) /\ D!ReceiveReturn(d)
    BY <1>3, <2>1, <2>2
  <2>3. CASE /\ D!make_wait("RDTQ", callback) /\ D!wobj_queue_insert(r)
             /\ winfo_dtq' = D!InScope([winfo_dtq EXCEPT ![p_runtsk] = UNINIT])
             /\ UNCHANGED << D!queVars, dtqcb, dtqtaken >>
    BY <1>4, <2>3, SameD DEF D!ReceiveOrWait, Waits, DtqWaitsWith, D!queVars, queVars
  <2>4. QED
    BY <1>4, <2>2, <2>3 DEF D!ReceiveOrWait
<1>5. ASSUME NEW data \in Data,
             \/ D!psnd_dtq(d, data) \/ D!ipsnd_dtq(d, data)
             \/ D!fsnd_dtq(d, data) \/ D!ifsnd_dtq(d, data)
      PROVE  DtqHands(d, data) \/ DtqStores(d, data)
  BY <1>1, <1>5 DEF D!psnd_dtq, D!ipsnd_dtq, D!fsnd_dtq, D!ifsnd_dtq,
     D!SendReturn, D!ISendReturn, D!queVars, queVars
<1>6. ASSUME D!ini_dtq(d) PROVE DtqResets(d)
  BY <1>6, SameD DEF D!ini_dtq, D!init_wait_queues, D!init_wait_queues_winfo,
     D!ini_queues, D!Sender, D!Receiver, D!queVars, queVars, DeletesTwo, Returns,
     DtqResets
<1>7. ASSUME D!prcv_dtq(d) PROVE DtqTakes(d) \/ DtqPasses(d)
  BY <1>3, <1>7 DEF D!prcv_dtq
<1>8. QED
  BY <1>2, <1>4, <1>5, <1>6, <1>7
     DEF D!DtqCall, D!snd_dtq, D!tsnd_dtq, D!rcv_dtq, D!trcv_dtq

----------------------------------------------------------------------------
(***************************************************************************)
(* The rings of all data queues.                                           *)
(***************************************************************************)
DtqSend == {dtq_swait[d] : d \in Dataqueues}

DtqRings ==
  /\ Carries(winfo_dtq, DtqSend, Data)
  /\ dtqtaken \in [Dataqueues -> Data \cup {UNINIT}]
  /\ DOMAIN dtqcb = Dataqueues
  /\ \A d \in Dataqueues : Ring(d, dtqcb[d])

\* DtqRings after a call on d.
LEMMA DtqRingsNext ==
  ASSUME DtqRings, NEW d \in Dataqueues, NEW cb, Sets(dtqcb', dtqcb, d, cb),
         Ring(d, cb), CarriesNext(winfo_dtq', DtqSend, Data),
         dtqtaken' \in [Dataqueues -> Data \cup {UNINIT}]
  PROVE  DtqRings'
<1>1. /\ DOMAIN dtqcb' = Dataqueues
      /\ \A e \in Dataqueues : dtqcb'[e] = IF e = d THEN cb ELSE dtqcb[e]
  BY DEF DtqRings, Sets
<1>2. \A e \in Dataqueues : Ring(e, dtqcb'[e])
  BY <1>1 DEF DtqRings
<1>3. Carries(winfo_dtq, DtqSend, Data)'
  BY DEF Carries, CarriesNext, DtqSend
<1>4. QED
  BY <1>1, <1>2, <1>3 DEF DtqRings, Ring, DtqCb, Wrap, D!Slot

\* The datum of the first task that waits to send.
LEMMA DtqCarried ==
  ASSUME ObjectKernel, DtqRings, NEW d \in Dataqueues,
         wait_queue[dtq_swait[d]] # << >>
  PROVE  winfo_dtq[Head(wait_queue[dtq_swait[d]])] \in Data
<1>1. dtq_swait[d] \in WaitQueue /\ dtq_swait[d] \in DtqSend
  BY DtqFacts DEF TwoQueue, DtqSend
<1>2. wait_queue[dtq_swait[d]] \in Seq(Task)
  BY <1>1, QueueFacts DEF ObjectKernel
<1>3. QED
  BY <1>1, <1>2, HeadMemberLemma DEF DtqRings, Carries

\* ini_dtq leaves the slots as they are.
LEMMA RingReset ==
  ASSUME NEW d \in Dataqueues, NEW cb, Ring(d, cb)
  PROVE  Ring(d, [cb EXCEPT !.count = 0, !.head = 0, !.tail = 0])
<1> DEFINE one == [cb EXCEPT !.count = 0]
           two == [one EXCEPT !.head = 0]
           mb  == cb.dtqmb
<1>1. mb \in [D!Slot(d) -> Data \cup {UNINIT}] /\ cb \in DtqCb(d)
  BY RingFacts
<1>2. one = [count |-> 0, head |-> cb.head, tail |-> cb.tail, dtqmb |-> mb]
  BY <1>1, RingRecord, RingExcept
<1>3. two = [count |-> 0, head |-> 0, tail |-> cb.tail, dtqmb |-> mb]
  <2> HIDE DEF one, mb
  <2>1. QED
    BY <1>2, RingExcept
<1>4. [two EXCEPT !.tail = 0] = [count |-> 0, head |-> 0, tail |-> 0, dtqmb |-> mb]
  <2> HIDE DEF two, mb
  <2>1. QED
    BY <1>3, RingExcept
<1>5. [cb EXCEPT !.count = 0, !.head = 0, !.tail = 0] = [two EXCEPT !.tail = 0]
  OBVIOUS
<1> HIDE DEF two, mb
<1>6. QED
  BY <1>1, <1>4, <1>5, RingEmpty

LEMMA DtqRingsCall ==
  ASSUME ObjectKernel, ObjectKernel', DtqRings, NEW d \in Dataqueues,
         D!DtqCall(d)
  PROVE  DtqRings'
<1> DEFINE s == dtq_swait[d]
           r == dtq_rwait[d]
           cb == dtqcb[d]
           T  == [Dataqueues -> Data \cup {UNINIT}]
<1>1. /\ s \in WaitQueue /\ r \in WaitQueue /\ r \notin TpriQueue /\ s # r
      /\ s \in DtqSend /\ r \notin DtqSend /\ DtqSend \in SUBSET WaitQueue
      /\ UNINIT # NULL
  <2>1. \A e \in Dataqueues : dtq_swait[e] \in WaitQueue /\ dtq_rwait[d] # dtq_swait[e]
    BY DtqFacts DEF TwoQueue, DtqReceive
  <2>2. QED
    BY <2>1, DtqFacts DEF TwoQueue, DtqSend
<1>2. /\ Carries(winfo_dtq, DtqSend, Data) /\ dtqtaken \in T
      /\ DOMAIN dtqcb = Dataqueues
  BY DEF DtqRings
<1>3. Ring(d, cb)
  BY DEF DtqRings
<1>4. dtqcnt[d] \in Nat /\ cb.count \in 0 .. dtqcnt[d]
  BY <1>3, RingFacts
<1>5. Sets(dtqcb, dtqcb, d, cb)
  BY DEF Sets
<1> HIDE DEF s, r, cb, T
<1>6. ASSUME NEW data \in Data, DtqHands(d, data) PROVE DtqRings'
  <2>1. /\ Hands(r) /\ dtqcb' = dtqcb
        /\ winfo_dtq' = Scope([winfo_dtq EXCEPT ![Head(wait_queue[r])] = data])
        /\ dtqtaken' = [dtqtaken EXCEPT ![d] = data]
    BY <1>6 DEF DtqHands, r
  <2>2. NoneEnters(DtqSend)
    BY <1>1, <2>1, HandShrinks
  <2>3. CarriesNext(winfo_dtq', DtqSend, Data)
    BY <1>1, <1>2, <2>1, <2>2, CarryHand
  <2>4. dtqtaken' \in T
    BY <1>2, <2>1 DEF T
  <2>5. QED
    BY <1>3, <1>5, <2>1, <2>3, <2>4, DtqRingsNext DEF T
<1>7. ASSUME NEW data \in Data, DtqStores(d, data) PROVE DtqRings'
  <2>1. /\ wait_queue' = wait_queue
        /\ winfo_dtq' = Scope(winfo_dtq) /\ dtqtaken' = dtqtaken
    BY <1>7 DEF DtqStores
  <2>2. PICK new : Ring(d, new) /\ dtqcb' = [dtqcb EXCEPT ![d] = new]
    <3>1. CASE /\ D!Room(d)
               /\ dtqcb' = [dtqcb EXCEPT ![d] = D!enqueue_data(d, cb, data)]
      BY <1>3, <3>1, RingEnqueue DEF D!Room, cb
    <3>2. CASE /\ dtqcnt[d] > 0
               /\ dtqcb' = [dtqcb EXCEPT ![d] = D!force_enqueue_data(d, cb, data)]
      BY <1>3, <3>2, RingForce
    <3>3. QED
      BY <1>7, <3>1, <3>2 DEF DtqStores, cb
  <2>3. NoneEnters(DtqSend)
    BY <2>1 DEF NoneEnters
  <2>4. CarriesNext(winfo_dtq', DtqSend, Data)
    BY <1>1, <1>2, <2>1, <2>3, CarrySame
  <2>5. Sets(dtqcb', dtqcb, d, new)
    BY <1>2, <2>2, SetsExcept
  <2>6. QED
    BY <1>2, <2>1, <2>2, <2>4, <2>5, DtqRingsNext DEF T
<1>8. ASSUME NEW f \in {"SDTQ", "RDTQ"}, NEW callback \in {"none", "wait_tmout"},
             NEW o \in {s, r}, NEW x \in Carried(Data),
             o = s => f = "SDTQ" /\ x \in Data,
             DtqWaitsWith(f, callback, o, x)
      PROVE  DtqRings'
  <2>1. /\ Waits(f, callback, o) /\ dtqcb' = dtqcb /\ dtqtaken' = dtqtaken
        /\ winfo_dtq' = Scope([winfo_dtq EXCEPT ![p_runtsk] = x])
    BY <1>8 DEF DtqWaitsWith
  <2>2. /\ f \in WobjFactor /\ o \in WaitQueue
        /\ o \in TpriQueue => f \in WobjcbFactor
    BY <1>1, <1>8 DEF WobjFactor, WobjcbFactor
  <2>3. BeginsToWait(o)
    BY <2>1, <2>2, WaitCall DEF Waits
  <2>4. o \in DtqSend => x \in Data
    BY <1>1, <1>8
  <2>5. CarriesNext(winfo_dtq', DtqSend, Data)
    BY <1>1, <1>2, <2>1, <2>2, <2>3, <2>4, CarryWait
  <2>6. QED
    BY <1>2, <1>3, <1>5, <2>1, <2>5, DtqRingsNext DEF T
<1>9. ASSUME DtqTakes(d) PROVE DtqRings'
  <2> DEFINE less == D!dequeue_data(d, cb)
             x == winfo_dtq[Head(wait_queue[s])]
             more == D!enqueue_data(d, less, x)
  <2>1. /\ cb.count > 0 /\ dtqtaken' = [dtqtaken EXCEPT ![d] = D!Oldest(cb)]
        /\ winfo_dtq' = Scope(winfo_dtq)
        /\ \/ wait_queue' = wait_queue /\ dtqcb' = [dtqcb EXCEPT ![d] = less]
           \/ Hands(s) /\ dtqcb' = [dtqcb EXCEPT ![d] = more]
    BY <1>9 DEF DtqTakes, cb, s
  <2>2. /\ Ring(d, less) /\ less.count = cb.count - 1
        /\ D!Oldest(cb) \in Data \cup {UNINIT}
    BY <1>3, <2>1, RingDequeue
  <2>3. dtqtaken' \in T
    BY <1>2, <2>1, <2>2 DEF T
  <2>4. NoneEnters(DtqSend)
    BY <1>1, <2>1, HandShrinks DEF NoneEnters
  <2>5. CarriesNext(winfo_dtq', DtqSend, Data)
    BY <1>1, <1>2, <2>1, <2>4, CarrySame
  <2> HIDE DEF less, more, x
  <2>6. CASE wait_queue' = wait_queue /\ dtqcb' = [dtqcb EXCEPT ![d] = less]
    <3>1. Sets(dtqcb', dtqcb, d, less)
      BY <1>2, <2>6, SetsExcept
    <3>2. QED
      BY <2>2, <2>3, <2>5, <3>1, DtqRingsNext DEF T
  <2>7. CASE Hands(s) /\ dtqcb' = [dtqcb EXCEPT ![d] = more]
    <3>1. wait_queue[s] # << >>
      BY <2>7 DEF Hands
    <3>2. x \in Data
      BY <3>1, DtqCarried DEF x, s
    <3>3. less.count < dtqcnt[d]
      BY <1>4, <2>1, <2>2
    <3>4. Ring(d, more)
      BY <2>2, <3>2, <3>3, RingEnqueue DEF more
    <3>5. Sets(dtqcb', dtqcb, d, more)
      BY <1>2, <2>7, SetsExcept
    <3>6. QED
      BY <2>3, <2>5, <3>4, <3>5, DtqRingsNext DEF T
  <2>8. QED
    BY <2>1, <2>6, <2>7
<1>10. ASSUME DtqPasses(d) PROVE DtqRings'
  <2>1. /\ Hands(s) /\ dtqcb' = dtqcb /\ winfo_dtq' = Scope(winfo_dtq)
        /\ dtqtaken' = [dtqtaken EXCEPT ![d] = winfo_dtq[Head(wait_queue[s])]]
    BY <1>10 DEF DtqPasses, s
  <2>2. NoneEnters(DtqSend)
    BY <1>1, <2>1, HandShrinks
  <2>3. CarriesNext(winfo_dtq', DtqSend, Data)
    BY <1>1, <1>2, <2>1, <2>2, CarrySame
  <2>4. winfo_dtq[Head(wait_queue[s])] \in Data
    BY <2>1, DtqCarried DEF Hands, s
  <2>5. dtqtaken' \in T
    BY <1>2, <2>1, <2>4 DEF T
  <2>6. QED
    BY <1>3, <1>5, <2>1, <2>3, <2>5, DtqRingsNext DEF T
<1>11. ASSUME DtqResets(d) PROVE DtqRings'
  <2> DEFINE reset == [cb EXCEPT !.count = 0, !.head = 0, !.tail = 0]
  <2>1. /\ wait_queue' = [wait_queue EXCEPT ![s] = << >>, ![r] = << >>]
        /\ winfo_dtq' = Scope(winfo_dtq) /\ dtqtaken' = dtqtaken
    BY <1>11 DEF DtqResets, DeletesTwo, s, r
  <2>2. CarriesNext(winfo_dtq', DtqSend, Data)
    BY <1>1, <1>2, <2>1, DeleteShrinks, CarrySame
  <2>3. Ring(d, reset)
    BY <1>3, RingReset
  <2>4. Sets(dtqcb', dtqcb, d, reset)
    BY <1>2, <1>11 DEF DtqResets, Sets, cb
  <2>5. QED
    BY <1>2, <2>1, <2>2, <2>3, <2>4, DtqRingsNext DEF T
<1>12. UNINIT \in Carried(Data) /\ Data \subseteq Carried(Data)
  BY DEF Carried
<1>13. QED
  BY <1>1, <1>6, <1>7, <1>8, <1>9, <1>10, <1>11, <1>12, DtqCases DEF s, r

LEMMA DtqRingsRest ==
  ASSUME ObjectKernel', DtqRings, NEW O, StepOn(O), O \cap DtqQueues = {},
         D!DtqRest
  PROVE  DtqRings'
<1>1. winfo_dtq' = Scope(winfo_dtq) /\ UNCHANGED << dtqcb, dtqtaken >>
  BY SameD DEF D!DtqRest
<1>2. DtqSend \in SUBSET WaitQueue /\ DtqSend \cap O = {}
  BY DtqFacts DEF DtqSend, DtqQueues
<1>3. CarriesNext(winfo_dtq', DtqSend, Data)
  BY <1>1, <1>2, RestShrinks, CarrySame DEF DtqRings
<1>4. QED
  BY <1>1, <1>3
     DEF DtqRings, Carries, CarriesNext, DtqSend, Ring, DtqCb, Wrap, D!Slot

LEMMA DtqRingsStill ==
  ASSUME DtqRings, UNCHANGED << wait_queue, winfo_dtq, dtqcb, dtqtaken >>
  PROVE  DtqRings'
BY DEF DtqRings, Carries, DtqSend, Ring, DtqCb, Wrap, D!Slot

LEMMA DtqRingsInit ==
  ASSUME D!DtqInit, \A w \in WaitQueue : wait_queue[w] = << >>
  PROVE  DtqRings
<1>1. /\ winfo_dtq = [t \in Task |-> NULL]
      /\ dtqtaken = [d \in Dataqueues |-> UNINIT]
      /\ dtqcb = [d \in Dataqueues |->
                    [count |-> 0, head |-> 0, tail |-> 0,
                     dtqmb |-> [i \in D!Slot(d) |-> UNINIT]]]
  BY DEF D!DtqInit, D!Dtq
<1>2. Carries(winfo_dtq, DtqSend, Data)
  <2>1. \A w \in DtqSend : Members(wait_queue[w]) = {}
    BY DtqFacts DEF DtqSend, TwoQueue, Members
  <2>2. QED
    BY <1>1, <2>1 DEF Carries, Carried
<1>3. ASSUME NEW d \in Dataqueues PROVE Ring(d, dtqcb[d])
  <2> DEFINE mb == [i \in D!Slot(d) |-> UNINIT]
  <2>1. mb \in [D!Slot(d) -> Data \cup {UNINIT}]
    OBVIOUS
  <2> HIDE DEF mb
  <2>2. Ring(d, [count |-> 0, head |-> 0, tail |-> 0, dtqmb |-> mb])
    BY <2>1, RingEmpty
  <2>3. QED
    BY <1>1, <2>2 DEF mb
<1>4. QED
  BY <1>1, <1>2, <1>3 DEF DtqRings

----------------------------------------------------------------------------
(***************************************************************************)
(* What the WINFO_MBX of each task holds.                                  *)
(***************************************************************************)
MbxInfos == winfo_mbx \in [Task -> Msg \cup {UNINIT, NULL}]

LEMMA MbxInfosStep ==
  ASSUME MbxInfos,
         \/ \E m \in Mbx : B!MbxCall(m)
         \/ B!MbxRest
         \/ UNCHANGED winfo_mbx
  PROVE  MbxInfos'
<1> DEFINE X == Msg \cup {UNINIT, NULL}
<1>1. winfo_mbx \in [Task -> X]
  BY DEF MbxInfos
<1>2. \A h \in [Task -> X] : Scope(h) \in [Task -> X]
  BY DEF Scope
<1>3. \A t, x : x \in X => [winfo_mbx EXCEPT ![t] = x] \in [Task -> X]
  BY <1>1
<1>4. \A x : B!InScope(x) = Scope(x)
  BY SameB
<1>5. UNINIT \in X /\ Msg \subseteq X
  OBVIOUS
<1> HIDE DEF X
<1>6. ASSUME NEW m \in Mbx, B!MbxCall(m) PROVE winfo_mbx' \in [Task -> X]
  <2>1. ASSUME NEW msg \in Msg, B!snd_mbx(m, msg)
        PROVE  winfo_mbx' \in [Task -> X]
    BY <1>1, <1>2, <1>3, <1>4, <1>5, <2>1 DEF B!snd_mbx, B!Handed
  <2>2. ASSUME B!Receive(m) PROVE winfo_mbx' \in [Task -> X]
    BY <1>1, <2>2 DEF B!Receive
  <2>3. ASSUME NEW callback, B!ReceiveOrWait(m, callback)
        PROVE  winfo_mbx' \in [Task -> X]
    BY <1>2, <1>3, <1>4, <1>5, <2>2, <2>3 DEF B!ReceiveOrWait
  <2>4. ASSUME B!ini_mbx(m) PROVE winfo_mbx' \in [Task -> X]
    BY <1>1, <1>2, <1>4, <2>4 DEF B!ini_mbx
  <2>5. QED
    BY <1>6, <2>1, <2>2, <2>3, <2>4
       DEF B!MbxCall, B!rcv_mbx, B!trcv_mbx, B!prcv_mbx
<1>7. B!MbxRest => winfo_mbx' \in [Task -> X]
  BY <1>1, <1>2, <1>4 DEF B!MbxRest
<1>8. UNCHANGED winfo_mbx => winfo_mbx' \in [Task -> X]
  BY <1>1
<1>9. QED
  BY <1>6, <1>7, <1>8 DEF MbxInfos, X

----------------------------------------------------------------------------
(***************************************************************************)
(* The blocks of a pool: cb is its control block and s the blocks in       *)
(* freelist.                                                               *)
(***************************************************************************)
MpfCb(m) == [fblkcnt  : Nat,
             unused   : 0 .. blkcnt[m],
             freelist : M!Index(m),
             next     : [M!Blk(m) -> M!Index(m) \cup {M!INDEX_ALLOC, UNINIT}]]

InUse(cb, b) == b < cb.unused /\ cb.next[b] = M!INDEX_ALLOC

Blocks(m, cb, s) ==
  /\ cb \in MpfCb(m)
  /\ IsChain(s, cb.next, cb.freelist, M!INDEX_NULL)
  /\ \A b \in M!Blk(m) :
       b \in Members(s) <=> b < cb.unused /\ cb.next[b] # M!INDEX_ALLOC
  /\ cb.fblkcnt + cb.unused = blkcnt[m] + Len(s)

LEMMA BlockFacts ==
  ASSUME NEW m \in Mpf
  PROVE  /\ blkcnt[m] \in Nat \ {0} /\ M!Blk(m) \subseteq Nat
         /\ \A b \in Nat : b \in M!Blk(m) <=> b < blkcnt[m]
         /\ M!INDEX_NULL \notin M!Blk(m) /\ M!INDEX_ALLOC \notin M!Blk(m)
         /\ M!INDEX_NULL # M!INDEX_ALLOC
         /\ M!Index(m) = M!Blk(m) \cup {M!INDEX_NULL}
         /\ \A b \in M!Blk(m) : << m, b >> # NULL
<1>1. /\ blkcnt[m] \in Nat \ {0}
      /\ \A b \in 0 .. blkcnt[m] - 1 : << m, b >> # NULL
  BY ObjectsAssumption DEF M!MpfAssumption
<1>2. QED
  BY <1>1 DEF M!Blk, M!INDEX_NULL, M!INDEX_ALLOC, M!Index

\* The parts of Blocks, and the first free block.
LEMMA BlocksFacts ==
  ASSUME NEW m \in Mpf, NEW cb, NEW s, Blocks(m, cb, s)
  PROVE  /\ cb = [fblkcnt |-> cb.fblkcnt, unused |-> cb.unused,
                  freelist |-> cb.freelist, next |-> cb.next]
         /\ cb.fblkcnt \in Nat /\ cb.unused \in 0 .. blkcnt[m]
         /\ cb.freelist \in M!Index(m)
         /\ cb.next \in [M!Blk(m) -> M!Index(m) \cup {M!INDEX_ALLOC, UNINIT}]
         /\ DOMAIN cb.next = M!Blk(m)
         /\ s \in Seq(M!Blk(m)) /\ NoDuplicates(s) /\ Len(s) \in Nat
         /\ s = << >> <=> cb.freelist = M!INDEX_NULL
         /\ s # << >> => cb.freelist = s[1] /\ s[1] \in Members(s) /\ Len(s) > 0
         /\ Members(s) \subseteq M!Blk(m)
<1>1. /\ cb \in MpfCb(m)
      /\ IsChain(s, cb.next, cb.freelist, M!INDEX_NULL)
  BY DEF Blocks
<1>2. /\ cb = [fblkcnt |-> cb.fblkcnt, unused |-> cb.unused,
               freelist |-> cb.freelist, next |-> cb.next]
      /\ cb.fblkcnt \in Nat /\ cb.unused \in 0 .. blkcnt[m]
      /\ cb.freelist \in M!Index(m)
      /\ cb.next \in [M!Blk(m) -> M!Index(m) \cup {M!INDEX_ALLOC, UNINIT}]
  BY <1>1 DEF MpfCb
<1>3. DOMAIN cb.next = M!Blk(m)
  BY <1>2
<1>4. s \in Seq(M!Blk(m)) /\ NoDuplicates(s)
  BY <1>1, <1>3 DEF IsChain
<1>5. /\ s = << >> <=> cb.freelist = M!INDEX_NULL
      /\ s # << >> => cb.freelist = s[1] /\ Len(s) > 0
      /\ Members(s) \subseteq M!Blk(m) /\ Len(s) \in Nat
  BY <1>1, <1>3, ChainFirst
<1>6. s # << >> => s[1] \in Members(s)
  BY <1>5 DEF Members
<1>7. QED
  BY <1>2, <1>3, <1>4, <1>5, <1>6

\* At first, and after ini_mpf, no block was used.
LEMMA BlocksReset ==
  ASSUME NEW m \in Mpf,
         NEW next \in [M!Blk(m) -> M!Index(m) \cup {M!INDEX_ALLOC, UNINIT}]
  PROVE  Blocks(m, M!Initialised(m, next), << >>)
<1> DEFINE cb == M!Initialised(m, next)
<1>1. /\ cb.fblkcnt = blkcnt[m] /\ cb.unused = 0 /\ cb.freelist = M!INDEX_NULL
      /\ cb.next = next
      /\ cb = [fblkcnt |-> blkcnt[m], unused |-> 0, freelist |-> M!INDEX_NULL,
               next |-> next]
  BY DEF M!Initialised
<1> HIDE DEF cb
<1>2. /\ blkcnt[m] \in Nat /\ M!Blk(m) \subseteq Nat
      /\ M!INDEX_NULL \notin M!Blk(m) /\ M!INDEX_NULL \in M!Index(m)
  BY BlockFacts
<1>3. cb \in MpfCb(m)
  BY <1>1, <1>2 DEF MpfCb
<1>4. DOMAIN next = M!Blk(m)
  OBVIOUS
<1>5. IsChain(<< >>, cb.next, cb.freelist, M!INDEX_NULL)
  BY <1>1, <1>2, <1>4, ChainEmpty
<1>6. Members(<< >>) = {} /\ Len(<< >>) = 0
  BY DEF Members
<1>7. \A b \in M!Blk(m) : ~ (b < cb.unused)
  BY <1>1, <1>2
<1>8. QED
  BY <1>1, <1>2, <1>3, <1>5, <1>6, <1>7 DEF Blocks, cb

\* What a block is after get_mpf_block or PutBack.
OneUse(m, cb, new, b, used) ==
  /\ InUse(new, b) <=> used
  /\ \A c \in M!Blk(m) \ {b} : InUse(new, c) <=> InUse(cb, c)

\* get_mpf_block takes a block that was free.
LEMMA BlocksGet ==
  ASSUME NEW m \in Mpf, NEW cb, NEW s, Blocks(m, cb, s), cb.fblkcnt > 0
  PROVE  /\ \E r : Blocks(m, M!get_mpf_block(cb), r)
         /\ M!FirstFree(cb) \in M!Blk(m) /\ ~InUse(cb, M!FirstFree(cb))
         /\ OneUse(m, cb, M!get_mpf_block(cb), M!FirstFree(cb), TRUE)
<1> DEFINE new == M!get_mpf_block(cb)
           b   == M!FirstFree(cb)
           lst == cb.freelist # M!INDEX_NULL
           nxt == [cb.next EXCEPT ![b] = M!INDEX_ALLOC]
<1>1. /\ cb = [fblkcnt |-> cb.fblkcnt, unused |-> cb.unused,
               freelist |-> cb.freelist, next |-> cb.next]
      /\ cb.fblkcnt \in Nat /\ cb.unused \in 0 .. blkcnt[m]
      /\ cb.freelist \in M!Index(m)
      /\ cb.next \in [M!Blk(m) -> M!Index(m) \cup {M!INDEX_ALLOC, UNINIT}]
      /\ DOMAIN cb.next = M!Blk(m)
      /\ s \in Seq(M!Blk(m)) /\ NoDuplicates(s) /\ Len(s) \in Nat
      /\ s = << >> <=> cb.freelist = M!INDEX_NULL
      /\ s # << >> => cb.freelist = s[1] /\ s[1] \in Members(s) /\ Len(s) > 0
      /\ Members(s) \subseteq M!Blk(m)
  BY BlocksFacts
<1>2. /\ IsChain(s, cb.next, cb.freelist, M!INDEX_NULL)
      /\ \A c \in M!Blk(m) :
           c \in Members(s) <=> c < cb.unused /\ cb.next[c] # M!INDEX_ALLOC
      /\ cb.fblkcnt + cb.unused = blkcnt[m] + Len(s)
  BY DEF Blocks
<1>3. /\ blkcnt[m] \in Nat /\ M!Blk(m) \subseteq Nat
      /\ \A c \in Nat : c \in M!Blk(m) <=> c < blkcnt[m]
      /\ M!INDEX_NULL \notin M!Blk(m) /\ M!INDEX_ALLOC \notin M!Blk(m)
      /\ M!INDEX_NULL # M!INDEX_ALLOC
      /\ M!Index(m) = M!Blk(m) \cup {M!INDEX_NULL}
  BY BlockFacts
<1>4. /\ new.fblkcnt = cb.fblkcnt - 1
      /\ new.unused = IF lst THEN cb.unused ELSE cb.unused + 1
      /\ new.freelist = IF lst THEN cb.next[cb.freelist] ELSE cb.freelist
      /\ new.next = nxt
      /\ new = [fblkcnt |-> new.fblkcnt, unused |-> new.unused,
                freelist |-> new.freelist, next |-> new.next]
  <2> HIDE DEF nxt
  <2>1. new = [cb EXCEPT !.fblkcnt = @ - 1,
                 !.unused = IF cb.freelist # M!INDEX_NULL THEN @ ELSE @ + 1,
                 !.freelist = IF @ # M!INDEX_NULL THEN cb.next[@] ELSE @,
                 !.next = nxt]
    BY DEF M!get_mpf_block, nxt
  <2> HIDE DEF new, b
  <2>2. QED
    BY <1>1, <2>1
<1> HIDE DEF new
<1>5. CASE lst
  <2>1. /\ s # << >> /\ b = s[1] /\ b = cb.freelist /\ b \in Members(s)
        /\ b \in M!Blk(m) /\ b < cb.unused /\ cb.next[b] # M!INDEX_ALLOC
    BY <1>1, <1>2, <1>5 DEF M!FirstFree
  <2> HIDE DEF b
  <2>2. /\ nxt \in [M!Blk(m) -> M!Index(m) \cup {M!INDEX_ALLOC, UNINIT}]
        /\ DOMAIN nxt = M!Blk(m) /\ nxt[b] = M!INDEX_ALLOC
        /\ \A c \in M!Blk(m) \ {b} : nxt[c] = cb.next[c]
    BY <1>1, <2>1
  <2> HIDE DEF nxt
  <2>3. /\ IsChain(Tail(s), cb.next, cb.next[cb.freelist], M!INDEX_NULL)
        /\ Members(Tail(s)) = Members(s) \ {b} /\ Len(Tail(s)) = Len(s) - 1
    BY <1>1, <1>2, <2>1, ChainRest, TailMembers, TailIs
  <2>4. IsChain(Tail(s), new.next, new.freelist, M!INDEX_NULL)
    <3>1. \A c \in Members(Tail(s)) : nxt[c] = cb.next[c]
      BY <1>1, <2>2, <2>3
    <3>2. IsChain(Tail(s), nxt, cb.next[cb.freelist], M!INDEX_NULL)
      BY <1>1, <2>2, <2>3, <3>1, ChainKept
    <3>3. QED
      BY <1>4, <1>5, <3>2
  <2>5. new.freelist \in M!Index(m)
    <3>1. Tail(s) = << >> <=> new.freelist = M!INDEX_NULL
      BY <2>4, ChainFirst
    <3>2. Tail(s) # << >> => new.freelist \in DOMAIN new.next
      BY <2>4, ChainFirst
    <3>3. QED
      BY <1>3, <1>4, <2>2, <3>1, <3>2
  <2>6. new.fblkcnt \in Nat /\ new.unused = cb.unused
    BY <1>1, <1>4, <1>5
  <2>7. new \in MpfCb(m)
    BY <1>1, <1>4, <2>2, <2>5, <2>6 DEF MpfCb
  <2>8. \A c \in M!Blk(m) :
          c \in Members(Tail(s)) <=> c < new.unused /\ new.next[c] # M!INDEX_ALLOC
    BY <1>2, <1>4, <2>2, <2>3, <2>6
  <2>9. new.fblkcnt + new.unused = blkcnt[m] + Len(Tail(s))
    <3>1. /\ cb.fblkcnt \in Nat /\ cb.unused \in Nat /\ blkcnt[m] \in Nat
          /\ Len(s) \in Nat /\ cb.fblkcnt + cb.unused = blkcnt[m] + Len(s)
          /\ new.fblkcnt = cb.fblkcnt - 1 /\ new.unused = cb.unused
          /\ Len(Tail(s)) = Len(s) - 1
      BY <1>1, <1>2, <1>3, <1>4, <2>3, <2>6
    <3> DEFINE a == cb.fblkcnt
               u == cb.unused
               n == blkcnt[m]
               k == Len(s)
    <3>2. a \in Nat /\ u \in Nat /\ n \in Nat /\ k \in Nat /\ a + u = n + k
      BY <3>1
    <3> HIDE DEF a, u, n, k
    <3>3. (a - 1) + u = n + (k - 1)
      BY <3>2
    <3>4. QED
      BY <3>1, <3>3 DEF a, u, n, k
  <2>10. Blocks(m, new, Tail(s))
    BY <2>4, <2>7, <2>8, <2>9 DEF Blocks
  <2>11. ~InUse(cb, b) /\ OneUse(m, cb, new, b, TRUE)
    BY <1>4, <2>1, <2>2, <2>6 DEF InUse, OneUse
  <2>12. QED
    BY <2>1, <2>10, <2>11 DEF new, b
<1>6. CASE ~lst
  <2>1. s = << >> /\ Len(s) = 0 /\ Members(s) = {} /\ b = cb.unused
    BY <1>1, <1>6 DEF M!FirstFree, Members
  <2>2. b \in M!Blk(m) /\ b \in Nat /\ ~ (b < cb.unused) /\ b < b + 1
    <3>1. cb.unused \in Nat /\ cb.unused < blkcnt[m]
      BY <1>1, <1>2, <1>3, <2>1
    <3>2. QED
      BY <1>3, <2>1, <3>1
  <2> HIDE DEF b
  <2>3. /\ nxt \in [M!Blk(m) -> M!Index(m) \cup {M!INDEX_ALLOC, UNINIT}]
        /\ DOMAIN nxt = M!Blk(m) /\ nxt[b] = M!INDEX_ALLOC
        /\ \A c \in M!Blk(m) \ {b} : nxt[c] = cb.next[c]
    BY <1>1, <2>2
  <2> HIDE DEF nxt
  <2>4. /\ new.freelist = M!INDEX_NULL /\ new.next = nxt
        /\ new.unused = b + 1 /\ new.unused \in 0 .. blkcnt[m]
        /\ new.fblkcnt \in Nat /\ new.fblkcnt = cb.fblkcnt - 1
    <3>1. b < blkcnt[m]
      BY <1>3, <2>2
    <3>2. QED
      BY <1>1, <1>3, <1>4, <1>6, <2>1, <2>2, <3>1
  <2>5. IsChain(s, new.next, new.freelist, M!INDEX_NULL)
    BY <1>3, <2>1, <2>3, <2>4, ChainEmpty
  <2>6. new \in MpfCb(m)
    <3>1. new.freelist \in M!Index(m)
      BY <1>3, <2>4
    <3>2. QED
      BY <1>4, <2>3, <2>4, <3>1 DEF MpfCb
  <2>7. \A c \in M!Blk(m) \ {b} : c < b + 1 <=> c < cb.unused
    BY <1>3, <2>1, <2>2
  <2>8. \A c \in M!Blk(m) :
          c \in Members(s) <=> c < new.unused /\ new.next[c] # M!INDEX_ALLOC
    BY <1>2, <2>1, <2>3, <2>4, <2>7
  <2>9. new.fblkcnt + new.unused = blkcnt[m] + Len(s)
    BY <1>1, <1>2, <1>3, <2>1, <2>2, <2>4
  <2>10. Blocks(m, new, s)
    BY <2>5, <2>6, <2>8, <2>9 DEF Blocks
  <2>11. ~InUse(cb, b) /\ OneUse(m, cb, new, b, TRUE)
    BY <2>2, <2>3, <2>4, <2>7 DEF InUse, OneUse
  <2>12. QED
    BY <2>2, <2>10, <2>11 DEF new, b
<1>7. QED
  BY <1>5, <1>6

\* A block that was in use is put back as the first one of freelist.
LEMMA BlocksPut ==
  ASSUME NEW m \in Mpf, NEW cb, NEW s, Blocks(m, cb, s), NEW b \in M!Blk(m),
         InUse(cb, b), NEW new,
         new = [cb EXCEPT !.fblkcnt = @ + 1, !.next[b] = cb.freelist,
                          !.freelist = b]
  PROVE  (\E r : Blocks(m, new, r)) /\ OneUse(m, cb, new, b, FALSE)
<1> DEFINE nxt == [cb.next EXCEPT ![b] = cb.freelist]
<1>1. /\ cb = [fblkcnt |-> cb.fblkcnt, unused |-> cb.unused,
               freelist |-> cb.freelist, next |-> cb.next]
      /\ cb.fblkcnt \in Nat /\ cb.unused \in 0 .. blkcnt[m]
      /\ cb.freelist \in M!Index(m)
      /\ cb.next \in [M!Blk(m) -> M!Index(m) \cup {M!INDEX_ALLOC, UNINIT}]
      /\ DOMAIN cb.next = M!Blk(m)
      /\ s \in Seq(M!Blk(m)) /\ NoDuplicates(s) /\ Len(s) \in Nat
  BY BlocksFacts
<1>2. /\ IsChain(s, cb.next, cb.freelist, M!INDEX_NULL)
      /\ \A c \in M!Blk(m) :
           c \in Members(s) <=> c < cb.unused /\ cb.next[c] # M!INDEX_ALLOC
      /\ cb.fblkcnt + cb.unused = blkcnt[m] + Len(s)
  BY DEF Blocks
<1>3. /\ blkcnt[m] \in Nat
      /\ M!INDEX_NULL \notin M!Blk(m) /\ M!INDEX_ALLOC \notin M!Blk(m)
      /\ M!INDEX_NULL # M!INDEX_ALLOC
      /\ M!Index(m) = M!Blk(m) \cup {M!INDEX_NULL}
  BY BlockFacts
<1>4. /\ new.fblkcnt = cb.fblkcnt + 1 /\ new.unused = cb.unused
      /\ new.freelist = b /\ new.next = nxt
      /\ new = [fblkcnt |-> new.fblkcnt, unused |-> new.unused,
                freelist |-> new.freelist, next |-> new.next]
  <2>1. new = [cb EXCEPT !.fblkcnt = @ + 1, !.next = nxt, !.freelist = b]
    OBVIOUS
  <2> HIDE DEF nxt
  <2>2. QED
    BY <1>1, <2>1
<1>5. /\ nxt \in [M!Blk(m) -> M!Index(m) \cup {M!INDEX_ALLOC, UNINIT}]
      /\ DOMAIN nxt = M!Blk(m) /\ nxt[b] = cb.freelist
      /\ \A c \in M!Blk(m) \ {b} : nxt[c] = cb.next[c]
  BY <1>1
<1> HIDE DEF nxt
<1>6. b \notin Members(s) /\ b < cb.unused /\ cb.freelist # M!INDEX_ALLOC
  BY <1>1, <1>2, <1>3 DEF InUse
<1> DEFINE r == Put(s, 1, b)
<1>7. /\ Members(r) = Members(s) \cup {b} /\ Len(r) = Len(s) + 1
  <2>1. 1 \in 1 .. Len(s) + 1
    BY <1>1
  <2>2. s \in Seq(M!Blk(m))
    BY <1>1
  <2> HIDE DEF r
  <2>3. /\ Members(Put(s, 1, b)) = Members(s) \cup {b}
        /\ Len(Put(s, 1, b)) = Len(s) + 1
    BY <2>1, <2>2, PutIs
  <2>4. QED
    BY <2>3 DEF r
<1>8. IsChain(r, nxt, b, M!INDEX_NULL)
  <2>1. /\ 1 \in 1 .. Len(s) + 1 /\ b \in DOMAIN cb.next \ Members(s)
        /\ DOMAIN nxt = DOMAIN cb.next /\ ~ (1 > 1)
    BY <1>1, <1>5, <1>6
  <2>2. nxt[b] = At(s, 1, M!INDEX_NULL)
    BY <1>2, <1>5 DEF IsChain
  <2>3. \A i \in 1 .. Len(s) : nxt[s[i]] = cb.next[s[i]]
    <3>1. \A i \in 1 .. Len(s) : s[i] \in M!Blk(m) /\ s[i] # b
      BY <1>1, <1>6 DEF Members
    <3>2. QED
      BY <1>5, <3>1
  <2> HIDE DEF r
  <2>4. IsChain(Put(s, 1, b), nxt, IF 1 = 1 THEN b ELSE cb.freelist, M!INDEX_NULL)
    BY <1>2, <2>1, <2>2, <2>3, ChainPut
  <2>5. QED
    BY <2>4 DEF r
<1> HIDE DEF r
<1>9. new \in MpfCb(m)
  BY <1>1, <1>3, <1>4, <1>5 DEF MpfCb
<1>10. \A c \in M!Blk(m) :
         c \in Members(r) <=> c < new.unused /\ new.next[c] # M!INDEX_ALLOC
  BY <1>2, <1>4, <1>5, <1>6, <1>7
<1>11. new.fblkcnt + new.unused = blkcnt[m] + Len(r)
  BY <1>1, <1>2, <1>3, <1>4, <1>7
<1>12. Blocks(m, new, r)
  BY <1>4, <1>8, <1>9, <1>10, <1>11 DEF Blocks
<1>13. OneUse(m, cb, new, b, FALSE)
  BY <1>4, <1>5, <1>6 DEF InUse, OneUse
<1>14. QED
  BY <1>12, <1>13

\* The owners of the blocks of m: own counts what the application has, and rel
\* is what the tasks inside rel_mpf give back.
OneUser(m, cb, own, rel) ==
  /\ own \in [M!Blk(m) -> 0 .. 1]
  /\ \A b \in M!Blk(m) :
       /\ \A t, u \in Task : rel[t] = << m, b >> /\ rel[u] = << m, b >> => t = u
       /\ \A t \in Task : rel[t] = << m, b >> => own[b] = 0 /\ InUse(cb, b)
       /\ own[b] = 1 => InUse(cb, b)

PoolAt(m, cb, own, rel) ==
  (\E s : Blocks(m, cb, s)) /\ OneUser(m, cb, own, rel)

MpfPools ==
  /\ DOMAIN mpfcb = Mpf /\ DOMAIN owners = Mpf /\ DOMAIN releasing = Task
  /\ \A m \in Mpf : PoolAt(m, mpfcb[m], owners[m], releasing)

\* MpfPools after a call on m.
LEMMA MpfPoolsNext ==
  ASSUME MpfPools, NEW m \in Mpf, NEW cb, NEW own,
         Sets(mpfcb', mpfcb, m, cb), Sets(owners', owners, m, own),
         DOMAIN releasing' = Task, PoolAt(m, cb, own, releasing'),
         \A n \in Mpf \ {m} : \A b \in M!Blk(n) : \A t \in Task :
           releasing'[t] = << n, b >> <=> releasing[t] = << n, b >>
  PROVE  MpfPools'
<1>1. /\ DOMAIN mpfcb' = Mpf /\ DOMAIN owners' = Mpf
      /\ mpfcb'[m] = cb /\ owners'[m] = own
      /\ \A n \in Mpf \ {m} : mpfcb'[n] = mpfcb[n] /\ owners'[n] = owners[n]
  BY DEF MpfPools, Sets
<1>2. ASSUME NEW n \in Mpf
      PROVE  PoolAt(n, mpfcb'[n], owners'[n], releasing')
  <2>1. CASE n = m
    BY <1>1, <2>1
  <2>2. CASE n # m
    BY <1>1, <2>2 DEF MpfPools, PoolAt, OneUser
  <2>3. QED
    BY <2>1, <2>2
<1>3. QED
  BY <1>1, <1>2 DEF MpfPools

LEMMA MpfPoolFacts ==
  ASSUME MpfPools, NEW m \in Mpf
  PROVE  /\ DOMAIN mpfcb = Mpf /\ DOMAIN owners = Mpf /\ DOMAIN releasing = Task
         /\ \E s : Blocks(m, mpfcb[m], s)
         /\ OneUser(m, mpfcb[m], owners[m], releasing)
BY DEF MpfPools, PoolAt

LEMMA GetPool ==
  ASSUME MpfPools, NEW m \in Mpf, M!Get(m)
  PROVE  MpfPools'
<1> DEFINE cb == M!get_mpf_block(mpfcb[m])
           b == M!FirstFree(mpfcb[m])
           own == [owners[m] EXCEPT ![b] = @ + 1]
<1>1. /\ mpfcb[m].fblkcnt > 0 /\ mpfcb' = [mpfcb EXCEPT ![m] = cb]
      /\ owners' = [owners EXCEPT ![m] = own] /\ UNCHANGED releasing
  BY MpfPoolFacts DEF M!Get
<1>2. PICK s : Blocks(m, mpfcb[m], s)
  BY MpfPoolFacts
<1>3. /\ \E r : Blocks(m, cb, r)
      /\ b \in M!Blk(m) /\ ~InUse(mpfcb[m], b) /\ OneUse(m, mpfcb[m], cb, b, TRUE)
  BY <1>1, <1>2, BlocksGet
<1> HIDE DEF cb, b
<1>4. /\ owners[m] \in [M!Blk(m) -> 0 .. 1]
      /\ OneUser(m, mpfcb[m], owners[m], releasing)
  BY MpfPoolFacts DEF OneUser
<1>5. /\ owners[m][b] = 0 /\ \A t \in Task : releasing[t] # << m, b >>
  BY <1>3, <1>4 DEF OneUser
<1>6. own[b] = 1 /\ \A c \in M!Blk(m) \ {b} : own[c] = owners[m][c]
  BY <1>3, <1>4, <1>5
<1>7. own \in [M!Blk(m) -> 0 .. 1]
  BY <1>3, <1>4, <1>5
<1> HIDE DEF own
<1>8. OneUser(m, cb, own, releasing')
  BY <1>1, <1>3, <1>4, <1>5, <1>6, <1>7 DEF OneUser, OneUse
<1>9. QED
  BY <1>1, <1>3, <1>8, MpfPoolFacts, MpfPoolsNext, SetsExcept DEF PoolAt

LEMMA CheckPool ==
  ASSUME ObjectKernel, MpfPools, NEW m \in Mpf, NEW blk \in M!Blk(m),
         M!rel_mpf_check(m, blk)
  PROVE  MpfPools'
<1> DEFINE own == [owners[m] EXCEPT ![blk] = @ - 1]
           p == p_runtsk
<1>1. /\ owners[m][blk] > 0 /\ owners' = [owners EXCEPT ![m] = own]
      /\ releasing' = [releasing EXCEPT ![p] = << m, blk >>]
      /\ releasing[p] = NULL /\ UNCHANGED mpfcb
      /\ blk < mpfcb[m].unused /\ mpfcb[m].next[blk] = M!INDEX_ALLOC
      /\ p \in Task
  <2>1. InTask
    BY SameM DEF M!rel_mpf_check
  <2>2. p \in Task
    BY <2>1 DEF ObjectKernel, KernelInv, TypeOK, InTask, TaskContext
  <2>3. releasing[p] = NULL
    BY <2>1 DEF M!rel_mpf_check, M!InRelease, InTask, TaskContext
  <2>4. QED
    BY <2>2, <2>3, MpfPoolFacts DEF M!rel_mpf_check
<1> HIDE DEF p
<1>2. /\ owners[m] \in [M!Blk(m) -> 0 .. 1]
      /\ OneUser(m, mpfcb[m], owners[m], releasing)
  BY MpfPoolFacts DEF OneUser
<1>3. InUse(mpfcb[m], blk) /\ owners[m][blk] = 1
  BY <1>1, <1>2 DEF InUse
<1>4. \A t \in Task : releasing[t] # << m, blk >>
  BY <1>2, <1>3 DEF OneUser
<1>5. own[blk] = 0 /\ \A c \in M!Blk(m) \ {blk} : own[c] = owners[m][c]
  BY <1>2, <1>3
<1>6. own \in [M!Blk(m) -> 0 .. 1]
  BY <1>2, <1>3
<1> HIDE DEF own
<1>7. /\ DOMAIN releasing' = Task /\ releasing'[p] = << m, blk >>
      /\ \A t \in Task \ {p} : releasing'[t] = releasing[t]
  BY <1>1, MpfPoolFacts
<1>8. OneUser(m, mpfcb[m], own, releasing')
  <2>1. ASSUME NEW c \in M!Blk(m), c # blk, NEW t \in Task
        PROVE  releasing'[t] = << m, c >> <=> releasing[t] = << m, c >>
    <3>1. << m, c >> # NULL /\ << m, c >> # << m, blk >>
      BY <2>1, BlockFacts
    <3>2. QED
      BY <1>1, <1>7, <3>1
  <2>2. \A t \in Task : releasing'[t] = << m, blk >> <=> t = p
    BY <1>1, <1>4, <1>7
  <2>3. QED
    BY <1>2, <1>3, <1>5, <1>6, <2>1, <2>2 DEF OneUser
<1>9. ASSUME NEW n \in Mpf \ {m}, NEW c \in M!Blk(n), NEW t \in Task
      PROVE  releasing'[t] = << n, c >> <=> releasing[t] = << n, c >>
  <2>1. << n, c >> # NULL /\ << n, c >> # << m, blk >>
    BY BlockFacts
  <2>2. QED
    BY <1>1, <1>7, <2>1
<1>10. Sets(mpfcb', mpfcb, m, mpfcb[m]) /\ Sets(owners', owners, m, own)
  BY <1>1, MpfPoolFacts, SetsExcept DEF Sets
<1>11. PoolAt(m, mpfcb[m], own, releasing')
  BY <1>8, MpfPoolFacts DEF PoolAt
<1>12. QED
  BY <1>7, <1>9, <1>10, <1>11, MpfPoolsNext

LEMMA RelPool ==
  ASSUME ObjectKernel, MpfPools, NEW m \in Mpf, NEW blk \in M!Blk(m),
         M!rel_mpf(m, blk)
  PROVE  MpfPools'
<1> DEFINE p == p_runtsk
<1>1. /\ releasing' = [releasing EXCEPT ![p] = NULL] /\ p \in Task
      /\ releasing[p] = << m, blk >>
  <2>1. InTask
    BY SameM DEF M!rel_mpf
  <2>2. QED
    BY <2>1 DEF ObjectKernel, KernelInv, TypeOK, InTask, TaskContext, M!rel_mpf
<1> HIDE DEF p
<1>2. /\ owners[m] \in [M!Blk(m) -> 0 .. 1]
      /\ OneUser(m, mpfcb[m], owners[m], releasing)
  BY MpfPoolFacts DEF OneUser
<1>3. /\ DOMAIN releasing' = Task /\ releasing'[p] = NULL
      /\ \A t \in Task \ {p} : releasing'[t] = releasing[t]
  BY <1>1, MpfPoolFacts
<1>4. ASSUME NEW n \in Mpf, NEW c \in M!Blk(n), << n, c >> # << m, blk >>,
             NEW t \in Task
      PROVE  releasing'[t] = << n, c >> <=> releasing[t] = << n, c >>
  <2>1. << n, c >> # NULL
    BY BlockFacts
  <2>2. QED
    BY <1>1, <1>3, <1>4, <2>1
<1>5. \A t \in Task : releasing'[t] # << m, blk >>
  <2>1. << m, blk >> # NULL
    BY BlockFacts
  <2>2. \A t \in Task \ {p} : releasing[t] # << m, blk >>
    BY <1>1, <1>2 DEF OneUser
  <2>3. QED
    BY <1>3, <2>1, <2>2
<1>6. owners[m][blk] = 0 /\ InUse(mpfcb[m], blk)
  BY <1>1, <1>2 DEF OneUser
<1>7. \A n \in Mpf \ {m} : \A c \in M!Blk(n) : \A t \in Task :
        releasing'[t] = << n, c >> <=> releasing[t] = << n, c >>
  BY <1>4
<1>8. \A c \in M!Blk(m) \ {blk} : \A t \in Task :
        releasing'[t] = << m, c >> <=> releasing[t] = << m, c >>
  BY <1>4
<1>9. CASE wait_queue[m] # << >>
  <2> DEFINE own == [owners[m] EXCEPT ![blk] = @ + 1]
  <2>1. owners' = [owners EXCEPT ![m] = own] /\ UNCHANGED mpfcb
    BY <1>9, MpfPoolFacts DEF M!rel_mpf, M!PutBack
  <2>2. own[blk] = 1 /\ \A c \in M!Blk(m) \ {blk} : own[c] = owners[m][c]
    BY <1>2, <1>6
  <2>3. own \in [M!Blk(m) -> 0 .. 1]
    BY <1>2, <1>6
  <2> HIDE DEF own
  <2>4. OneUser(m, mpfcb[m], own, releasing')
    BY <1>2, <1>5, <1>6, <1>8, <2>2, <2>3 DEF OneUser
  <2>5. Sets(mpfcb', mpfcb, m, mpfcb[m]) /\ Sets(owners', owners, m, own)
    BY <2>1, MpfPoolFacts, SetsExcept DEF Sets
  <2>6. PoolAt(m, mpfcb[m], own, releasing')
    BY <2>4, MpfPoolFacts DEF PoolAt
  <2>7. QED
    BY <1>3, <1>7, <2>5, <2>6, MpfPoolsNext
<1>10. CASE wait_queue[m] = << >>
  <2> DEFINE cb == [mpfcb[m] EXCEPT !.fblkcnt = @ + 1,
                                    !.next[blk] = mpfcb[m].freelist,
                                    !.freelist = blk]
  <2>1. UNCHANGED owners /\ mpfcb' = [mpfcb EXCEPT ![m] = cb]
    BY <1>10, MpfPoolFacts DEF M!rel_mpf, M!PutBack
  <2>2. PICK s : Blocks(m, mpfcb[m], s)
    BY MpfPoolFacts
  <2>3. (\E r : Blocks(m, cb, r)) /\ OneUse(m, mpfcb[m], cb, blk, FALSE)
    BY <1>6, <2>2, BlocksPut
  <2> HIDE DEF cb
  <2>4. OneUser(m, cb, owners[m], releasing')
    BY <1>2, <1>5, <1>6, <1>8, <2>3 DEF OneUser, OneUse
  <2>5. Sets(mpfcb', mpfcb, m, cb) /\ Sets(owners', owners, m, owners[m])
    BY <2>1, MpfPoolFacts, SetsExcept DEF Sets
  <2>6. PoolAt(m, cb, owners[m], releasing')
    BY <2>3, <2>4 DEF PoolAt
  <2>7. QED
    BY <1>3, <1>7, <2>5, <2>6, MpfPoolsNext
<1>11. QED
  BY <1>9, <1>10

LEMMA IniPool ==
  ASSUME MpfPools, ~IniRaces, NEW m \in Mpf, M!ini_mpf(m)
  PROVE  MpfPools'
<1> DEFINE cb == M!Reset(m)
           own == [b \in M!Blk(m) |-> 0]
<1>1. /\ mpfcb' = [mpfcb EXCEPT ![m] = cb] /\ owners' = [owners EXCEPT ![m] = own]
      /\ \A t \in Task, b \in M!Blk(m) : releasing[t] # << m, b >>
      /\ UNCHANGED releasing
  BY DEF M!ini_mpf
<1>2. PICK s : Blocks(m, mpfcb[m], s)
  BY MpfPoolFacts
<1>3. mpfcb[m].next \in [M!Blk(m) -> M!Index(m) \cup {M!INDEX_ALLOC, UNINIT}]
  BY <1>2, BlocksFacts
<1>4. Blocks(m, cb, << >>)
  BY <1>3, BlocksReset DEF M!Reset
<1>5. OneUser(m, cb, own, releasing')
  BY <1>1 DEF OneUser
<1>6. QED
  BY <1>1, <1>4, <1>5, MpfPoolFacts, MpfPoolsNext, SetsExcept DEF PoolAt

LEMMA MpfPoolsStep ==
  ASSUME ObjectKernel, MpfPools, ~IniRaces,
         (\E m \in Mpf : M!MpfCall(m)) \/ UNCHANGED << mpfcb, owners, releasing >>
  PROVE  MpfPools'
<1>1. ASSUME NEW m \in Mpf, M!MpfCall(m) PROVE MpfPools'
  <2>1. CASE /\ UNCHANGED << mpfcb, owners, releasing >>
    BY <2>1 DEF MpfPools
  <2>2. CASE ~UNCHANGED << mpfcb, owners, releasing >>
    BY <1>1, <2>2, GetPool, CheckPool, RelPool, IniPool
       DEF M!MpfCall, M!get_mpf, M!tget_mpf, M!pget_mpf, M!GetOrWait
  <2>3. QED
    BY <2>1, <2>2
<1>2. CASE UNCHANGED << mpfcb, owners, releasing >>
  BY <1>2 DEF MpfPools
<1>3. QED
  BY <1>1, <1>2

LEMMA MpfPoolsInit ==
  ASSUME M!MpfInit
  PROVE  MpfPools
<1>1. /\ mpfcb = [m \in Mpf |-> M!Initialised(m, [b \in M!Blk(m) |-> UNINIT])]
      /\ releasing = [t \in Task |-> NULL]
      /\ owners = [m \in Mpf |-> [b \in M!Blk(m) |-> 0]]
  BY DEF M!MpfInit
<1>2. ASSUME NEW m \in Mpf
      PROVE  PoolAt(m, mpfcb[m], owners[m], releasing)
  <2> DEFINE next == [b \in M!Blk(m) |-> UNINIT]
  <2>1. next \in [M!Blk(m) -> M!Index(m) \cup {M!INDEX_ALLOC, UNINIT}]
    OBVIOUS
  <2>2. mpfcb[m] = M!Initialised(m, next)
    BY <1>1
  <2> HIDE DEF next
  <2>3. Blocks(m, mpfcb[m], << >>)
    BY <2>1, <2>2, BlocksReset
  <2>4. \A t \in Task : \A b \in M!Blk(m) : releasing[t] # << m, b >>
    BY <1>1, BlockFacts
  <2>5. OneUser(m, mpfcb[m], owners[m], releasing)
    BY <1>1, <2>4 DEF OneUser
  <2>6. QED
    BY <2>3, <2>5 DEF PoolAt
<1>3. QED
  BY <1>1, <1>2 DEF MpfPools

LEMMA MembersCount ==
  ASSUME NEW X, NEW s \in Seq(X), NoDuplicates(s)
  PROVE  IsFiniteSet(Members(s)) /\ Cardinality(Members(s)) = Len(s)
<1> DEFINE f == [i \in 1 .. Len(s) |-> s[i]]
<1>1. Len(s) \in Nat
  OBVIOUS
<1>2. f \in Bijection(1 .. Len(s), Members(s))
  BY <1>1 DEF Bijection, Injection, Surjection, IsInjective, NoDuplicates,
     Members
<1>3. ExistsBijection(1 .. Len(s), Members(s))
  BY <1>2 DEF ExistsBijection
<1>4. IsFiniteSet(1 .. Len(s)) /\ Cardinality(1 .. Len(s)) = Len(s)
  BY <1>1, FS_Interval
<1>5. QED
  BY <1>3, <1>4, FS_Bijection

\* What Blocks says of the free list and of the number of the blocks in use.
LEMMA BlocksCount ==
  ASSUME NEW m \in Mpf, NEW s, Blocks(m, mpfcb[m], s)
  PROVE  /\ M!Freelist(m) = s
         /\ Members(s) = (0 .. mpfcb[m].unused - 1) \ M!Allocated(m)
         /\ NoDuplicates(s)
         /\ mpfcb[m].fblkcnt = blkcnt[m] - Cardinality(M!Allocated(m))
         /\ mpfcb[m].fblkcnt \in 0 .. blkcnt[m]
<1> DEFINE cb == mpfcb[m]
           u == cb.unused
           n == blkcnt[m]
           used == 0 .. u - 1
           all == M!Allocated(m)
<1>1. /\ cb.fblkcnt \in Nat /\ u \in 0 .. n
      /\ DOMAIN cb.next = M!Blk(m)
      /\ s \in Seq(M!Blk(m)) /\ NoDuplicates(s) /\ Len(s) \in Nat
      /\ Members(s) \subseteq M!Blk(m)
  BY BlocksFacts
<1>2. /\ IsChain(s, cb.next, cb.freelist, M!INDEX_NULL)
      /\ \A b \in M!Blk(m) :
           b \in Members(s) <=> b < u /\ cb.next[b] # M!INDEX_ALLOC
      /\ cb.fblkcnt + u = n + Len(s)
  BY DEF Blocks
<1>3. n \in Nat /\ M!Blk(m) = 0 .. n - 1
  BY BlockFacts DEF M!Blk
<1>4. M!Freelist(m) = s
  <2>1. IsFiniteSet(M!Blk(m))
    <3>1. 0 \in Int /\ n - 1 \in Int
      BY <1>3
    <3>2. QED
      BY <1>3, <3>1, FS_Interval
  <2>2. Chain(cb.next, cb.freelist, M!INDEX_NULL) = s
    BY <1>1, <1>2, <2>1, ChainIs
  <2>3. QED
    BY <2>2, SameLists DEF M!Freelist
<1>5. /\ used \subseteq M!Blk(m)
      /\ \A b \in M!Blk(m) : b < u <=> b \in used
  BY <1>1, <1>3
<1>6. all = {b \in M!Blk(m) : b < u /\ cb.next[b] = M!INDEX_ALLOC}
  BY DEF M!Allocated
<1> HIDE DEF all, used, u, n, cb
<1>7. Members(s) = used \ all /\ Members(s) \subseteq used /\ all = used \ Members(s)
  BY <1>1, <1>2, <1>5, <1>6
<1>8. IsFiniteSet(used) /\ Cardinality(used) = u
  <2>1. u \in Nat /\ 0 \in Int /\ u - 1 \in Int
    BY <1>1, <1>3
  <2>2. /\ IsFiniteSet(0 .. u - 1)
        /\ Cardinality(0 .. u - 1) = IF 0 > u - 1 THEN 0 ELSE (u - 1) - 0 + 1
    BY <2>1, FS_Interval
  <2>3. (IF 0 > u - 1 THEN 0 ELSE (u - 1) - 0 + 1) = u
    BY <2>1
  <2>4. QED
    BY <2>2, <2>3 DEF used
<1>9. Cardinality(Members(s)) = Len(s)
  BY <1>1, MembersCount
<1>10. Cardinality(all) = u - Len(s) /\ Len(s) <= u
  <2>1. Cardinality(used \ Members(s)) = Cardinality(used) - Cardinality(used \cap Members(s))
    BY <1>8, FS_Difference
  <2>2. used \cap Members(s) = Members(s)
    BY <1>7
  <2>3. Cardinality(Members(s)) <= Cardinality(used)
    BY <1>7, <1>8, FS_Subset
  <2>4. QED
    BY <1>7, <1>8, <1>9, <2>1, <2>2, <2>3
<1>11. u \in Nat /\ u <= n
  BY <1>1, <1>3
<1>12. cb.fblkcnt = n - Cardinality(all) /\ cb.fblkcnt <= n
  <2> DEFINE a == cb.fblkcnt
             k == Len(s)
             x == Cardinality(all)
  <2>1. /\ a \in Nat /\ u \in Nat /\ n \in Nat /\ k \in Nat /\ a + u = n + k
        /\ x = u - k /\ k <= u
    BY <1>1, <1>2, <1>3, <1>10, <1>11
  <2> HIDE DEF a, k, x
  <2>2. a = n - x /\ a <= n
    BY <2>1
  <2>3. QED
    BY <2>2 DEF a, x
<1>13. cb.fblkcnt \in 0 .. n
  BY <1>1, <1>3, <1>12
<1>14. QED
  BY <1>1, <1>4, <1>7, <1>12, <1>13 DEF all, used, u, n, cb

\* No block of a pool is handed to two tasks, and the free blocks are the ones
\* that no task has.
LEMMA MpfPoolsMean ==
  ASSUME MpfPools
  PROVE  /\ M!OneOwner /\ M!FreelistInv /\ M!FreeCount
         /\ \A m \in Mpf :
              /\ {mpfcb[m].fblkcnt, mpfcb[m].unused} \subseteq 0 .. blkcnt[m]
              /\ mpfcb[m].freelist \in M!Index(m)
              /\ mpfcb[m].next \in
                   [M!Blk(m) -> M!Index(m) \cup {M!INDEX_ALLOC, UNINIT}]
<1>1. ASSUME NEW m \in Mpf
      PROVE  /\ M!Freelist(m) \in Seq(M!Blk(m)) /\ NoDuplicates(M!Freelist(m))
             /\ Members(M!Freelist(m)) = (0 .. mpfcb[m].unused - 1) \ M!Allocated(m)
             /\ mpfcb[m].fblkcnt = blkcnt[m] - Cardinality(M!Allocated(m))
             /\ {mpfcb[m].fblkcnt, mpfcb[m].unused} \subseteq 0 .. blkcnt[m]
             /\ mpfcb[m].freelist \in M!Index(m)
             /\ mpfcb[m].next \in
                  [M!Blk(m) -> M!Index(m) \cup {M!INDEX_ALLOC, UNINIT}]
  <2>1. PICK s : Blocks(m, mpfcb[m], s)
    BY MpfPoolFacts
  <2>2. QED
    BY <2>1, BlocksFacts, BlocksCount
<1>2. M!FreelistInv /\ M!FreeCount
  BY <1>1, SameLists DEF M!FreelistInv, M!FreeCount
<1>3. ASSUME NEW m \in Mpf, NEW b \in M!Blk(m)
      PROVE  LET users == owners[m][b]
                   + M!Cardinality({t \in Task : releasing[t] = << m, b >>})
             IN  users <= 1 /\ (users = 1 => b \in M!Allocated(m))
  <2> DEFINE own == owners[m][b]
             Rel == {t \in Task : releasing[t] = << m, b >>}
             k == Cardinality(Rel)
  <2>1. /\ own \in 0 .. 1
        /\ \A t, u \in Task : releasing[t] = << m, b >> /\ releasing[u] = << m, b >>
                                => t = u
        /\ \A t \in Task : releasing[t] = << m, b >> =>
             own = 0 /\ InUse(mpfcb[m], b)
        /\ own = 1 => InUse(mpfcb[m], b)
    BY MpfPoolFacts DEF OneUser
  <2>2. b \in M!Allocated(m) <=> InUse(mpfcb[m], b)
    BY DEF M!Allocated, InUse
  <2>3. CASE Rel = {}
    <3>1. k = 0
      BY <2>3, FS_EmptySet
    <3> HIDE DEF k, own
    <3>2. own + k = own /\ own <= 1
      BY <2>1, <3>1
    <3>3. own + k <= 1 /\ (own + k = 1 => b \in M!Allocated(m))
      BY <2>1, <2>2, <3>2
    <3>4. QED
      BY <3>3, SameLists DEF k, own
  <2>4. CASE Rel # {}
    <3>1. PICK t \in Rel : TRUE
      BY <2>4
    <3>2. Rel = {t} /\ own = 0 /\ InUse(mpfcb[m], b)
      BY <2>1, <3>1
    <3>3. k = 1
      BY <3>2, FS_Singleton
    <3> HIDE DEF k, own
    <3>4. own + k <= 1 /\ (own + k = 1 => b \in M!Allocated(m))
      BY <2>2, <3>2, <3>3
    <3>5. QED
      BY <3>4, SameLists DEF k, own
  <2>5. QED
    BY <2>3, <2>4
<1>4. M!OneOwner
  BY <1>3 DEF M!OneOwner
<1>5. QED
  BY <1>1, <1>2, <1>4

----------------------------------------------------------------------------
(***************************************************************************)
(* The messages of the mailboxes: L gives the list of each of them.        *)
(***************************************************************************)
ListsAre(L, head, last, next) ==
  /\ \A m \in Mbx :
       /\ IsChain(L[m], next, head[m], NULL)
       /\ m \notin TaMpri /\ L[m] # << >> => last[m] = L[m][Len(L[m])]
  /\ \A m, n \in Mbx : m # n => Members(L[m]) \cap Members(L[n]) = {}

MbxTypes ==
  /\ pk_head \in [Mbx -> Msg \cup {NULL}]
  /\ pk_last \in [Mbx -> Msg \cup {UNINIT}]
  /\ pk_next \in [Msg -> Msg \cup {NULL, UNINIT}]
  /\ mbxtaken \in [Mbx -> Msg \cup {UNINIT}]

MbxLists ==
  MbxTypes /\ \E L : DOMAIN L = Mbx /\ ListsAre(L, pk_head, pk_last, pk_next)

LEMMA MsgFacts ==
  /\ NULL \notin Msg /\ IsFiniteSet(Msg) /\ msgpri \in [Msg -> Nat]
BY ObjectsAssumption DEF B!MbxAssumption, B!IsFiniteSet, IsFiniteSet

\* What MbxLists says of one mailbox.
LEMMA ListFacts ==
  ASSUME MbxTypes, NEW L, ListsAre(L, pk_head, pk_last, pk_next), NEW m \in Mbx
  PROVE  /\ IsChain(L[m], pk_next, pk_head[m], NULL) /\ DOMAIN pk_next = Msg
         /\ L[m] \in Seq(Msg) /\ NoDuplicates(L[m]) /\ Len(L[m]) \in Nat
         /\ Members(L[m]) \subseteq Msg
         /\ L[m] = << >> <=> pk_head[m] = NULL
         /\ L[m] # << >> => pk_head[m] = L[m][1] /\ Len(L[m]) > 0
         /\ B!Linked(m) = L[m]
<1>1. IsChain(L[m], pk_next, pk_head[m], NULL) /\ DOMAIN pk_next = Msg
  BY DEF ListsAre, MbxTypes
<1>2. L[m] \in Seq(Msg) /\ NoDuplicates(L[m])
  BY <1>1 DEF IsChain
<1>3. /\ L[m] = << >> <=> pk_head[m] = NULL
      /\ L[m] # << >> => pk_head[m] = L[m][1] /\ Len(L[m]) > 0
      /\ Members(L[m]) \subseteq Msg /\ Len(L[m]) \in Nat
  BY <1>1, ChainFirst
<1>4. B!Linked(m) = L[m]
  <2>1. Chain(pk_next, pk_head[m], NULL) = L[m]
    BY <1>1, MsgFacts, ChainIs
  <2>2. QED
    BY <2>1, SameLists DEF B!Linked
<1>5. QED
  BY <1>1, <1>2, <1>3, <1>4

\* The list of one mailbox becomes s, and those of the others are kept.
LEMMA ListPut ==
  ASSUME MbxTypes, NEW L, DOMAIN L = Mbx,
         ListsAre(L, pk_head, pk_last, pk_next), NEW m \in Mbx, NEW s,
         MbxTypes', IsChain(s, pk_next', pk_head'[m], NULL),
         m \notin TaMpri /\ s # << >> => pk_last'[m] = s[Len(s)],
         \A n \in Mbx \ {m} : /\ pk_head'[n] = pk_head[n] /\ pk_last'[n] = pk_last[n]
                              /\ Members(s) \cap Members(L[n]) = {},
         \A x \in Msg \ Members(s) : pk_next'[x] = pk_next[x]
  PROVE  MbxLists'
<1> DEFINE N == [L EXCEPT ![m] = s]
<1>1. N[m] = s /\ DOMAIN N = Mbx /\ \A n \in Mbx \ {m} : N[n] = L[n]
  OBVIOUS
<1> HIDE DEF N
<1>2. DOMAIN pk_next = Msg /\ DOMAIN pk_next' = Msg
  BY DEF MbxTypes
<1>3. ASSUME NEW n \in Mbx
      PROVE  /\ IsChain(N[n], pk_next', pk_head'[n], NULL)
             /\ n \notin TaMpri /\ N[n] # << >> => pk_last'[n] = N[n][Len(N[n])]
  <2>1. CASE n = m
    BY <1>1, <2>1
  <2>2. CASE n # m
    <3>1. /\ IsChain(L[n], pk_next, pk_head[n], NULL)
          /\ Members(L[n]) \subseteq Msg
      BY ListFacts
    <3>2. \A x \in Members(L[n]) : pk_next'[x] = pk_next[x]
      BY <2>2, <3>1
    <3>3. IsChain(L[n], pk_next', pk_head[n], NULL)
      BY <1>2, <3>1, <3>2, ChainKept
    <3>4. QED
      BY <1>1, <2>2, <3>3 DEF ListsAre
  <2>3. QED
    BY <2>1, <2>2
<1>4. \A a, b \in Mbx : a # b => Members(N[a]) \cap Members(N[b]) = {}
  BY <1>1 DEF ListsAre
<1>5. ListsAre(N, pk_head', pk_last', pk_next')
  BY <1>3, <1>4 DEF ListsAre
<1>6. QED
  BY <1>1, <1>5 DEF MbxLists

LEMMA MsgPlaceIs ==
  ASSUME NEW list \in Seq(Msg), NEW msg \in Msg
  PROVE  /\ B!Place(list, msg) \in 1 .. Len(list) + 1
         /\ \A i \in 1 .. Len(list) :
              i < B!Place(list, msg) => msgpri[list[i]] <= msgpri[msg]
<1> DEFINE lower == {i \in 1 .. Len(list) : msgpri[list[i]] > msgpri[msg]}
           p == B!Place(list, msg)
<1>1. p = IF lower = {} THEN Len(list) + 1 ELSE B!Min(lower)
  BY DEF B!Place
<1>2. /\ Len(list) \in Nat /\ msgpri[msg] \in Nat
      /\ \A i \in 1 .. Len(list) : msgpri[list[i]] \in Nat
  BY MsgFacts
<1>3. CASE lower = {}
  <2>1. \A i \in 1 .. Len(list) : ~ (msgpri[list[i]] > msgpri[msg])
    BY <1>3
  <2> HIDE DEF lower, p
  <2>2. p = Len(list) + 1
    BY <1>1, <1>3
  <2>3. QED
    BY <1>2, <2>1, <2>2 DEF p
<1>4. CASE lower # {}
  <2>1. lower \in SUBSET Nat
    BY <1>2
  <2> HIDE DEF lower, p
  <2>2. \E n \in lower : \A k \in lower : n <= k
    BY <1>4, <2>1, SmallestLemma
  <2>3. p \in lower /\ \A k \in lower : p <= k
    BY <1>1, <1>4, <2>2 DEF B!Min
  <2>4. /\ p \in 1 .. Len(list)
        /\ \A i \in 1 .. Len(list) : msgpri[list[i]] > msgpri[msg] => p <= i
    BY <2>3 DEF lower
  <2>5. QED
    BY <1>2, <2>4 DEF p
<1>5. QED
  BY <1>3, <1>4

\* msg is linked as the p-th message of m.
LEMMA MsgPut ==
  ASSUME MbxTypes, NEW L, DOMAIN L = Mbx,
         ListsAre(L, pk_head, pk_last, pk_next), NEW m \in Mbx, NEW msg \in Msg,
         \A n \in Mbx : msg \notin Members(L[n]),
         NEW p \in 1 .. Len(L[m]) + 1,
         MbxTypes', pk_next'[msg] = At(L[m], p, NULL),
         \A x \in Msg : x # msg /\ ~(p > 1 /\ x = L[m][p - 1])
                           => pk_next'[x] = pk_next[x],
         p > 1 => pk_next'[L[m][p - 1]] = msg,
         pk_head'[m] = IF p = 1 THEN msg ELSE pk_head[m],
         m \notin TaMpri => p = Len(L[m]) + 1 /\ pk_last'[m] = msg,
         \A n \in Mbx \ {m} : pk_head'[n] = pk_head[n] /\ pk_last'[n] = pk_last[n]
  PROVE  MbxLists'
<1> DEFINE s == L[m]
           r == Put(s, p, msg)
<1>1. /\ IsChain(s, pk_next, pk_head[m], NULL) /\ DOMAIN pk_next = Msg
      /\ s \in Seq(Msg) /\ NoDuplicates(s) /\ Len(s) \in Nat /\ p \in Nat
      /\ Members(s) \subseteq Msg /\ msg \notin Members(s)
  <2>1. p \in Nat
    OBVIOUS
  <2>2. QED
    BY <2>1, ListFacts
<1>2. /\ \A i \in 1 .. Len(s) : s[i] # msg /\ s[i] \in Msg /\ s[i] \in Members(s)
      /\ p > 1 => p - 1 \in 1 .. Len(s)
      /\ \A i, j \in 1 .. Len(s) : s[i] = s[j] => i = j
  BY <1>1 DEF Members, NoDuplicates
<1>3. \A i \in 1 .. Len(s) : i # p - 1 => pk_next'[s[i]] = pk_next[s[i]]
  BY <1>2
<1>4. /\ Members(r) = Members(s) \cup {msg} /\ Len(r) = Len(s) + 1
      /\ \A i \in 1 .. Len(s) + 1 :
           r[i] = IF i < p THEN s[i] ELSE IF i = p THEN msg ELSE s[i - 1]
  BY <1>1, PutIs
<1>5. DOMAIN pk_next' = DOMAIN pk_next
  BY DEF MbxTypes
<1> HIDE DEF r, s
<1>6. IsChain(Put(s, p, msg), pk_next', IF p = 1 THEN msg ELSE pk_head[m], NULL)
  <2>1. /\ msg \in DOMAIN pk_next \ Members(s) /\ p \in 1 .. Len(s) + 1
        /\ pk_next'[msg] = At(s, p, NULL)
        /\ p > 1 => pk_next'[s[p - 1]] = msg
    BY <1>1 DEF s
  <2>2. QED
    BY <1>1, <1>3, <1>5, <2>1, ChainPut
<1>7. IsChain(r, pk_next', pk_head'[m], NULL)
  BY <1>6 DEF r
<1>8. m \notin TaMpri /\ r # << >> => pk_last'[m] = r[Len(r)]
  <2>1. p = Len(s) + 1 => r[Len(r)] = msg
    BY <1>1, <1>4
  <2>2. QED
    BY <2>1 DEF s
<1>9. \A n \in Mbx \ {m} : Members(r) \cap Members(L[n]) = {}
  BY <1>4 DEF ListsAre, s
<1>10. \A x \in Msg \ Members(r) : pk_next'[x] = pk_next[x]
  BY <1>2, <1>4 DEF s
<1>11. QED
  BY <1>7, <1>8, <1>9, <1>10, ListPut

LEMMA SendLists ==
  ASSUME MbxLists, NEW m \in Mbx, NEW msg \in Msg, msg \in B!Owned,
         IF m \in TaMpri THEN B!enqueue_msg_pri(m, msg) ELSE B!enqueue_msg(m, msg),
         UNCHANGED mbxtaken
  PROVE  MbxLists'
<1>1. MbxTypes
  BY DEF MbxLists
<1>2. PICK L : DOMAIN L = Mbx /\ ListsAre(L, pk_head, pk_last, pk_next)
  BY DEF MbxLists
<1> DEFINE s == L[m]
<1>3. /\ s \in Seq(Msg) /\ Len(s) \in Nat /\ B!Linked(m) = s
      /\ s = << >> <=> pk_head[m] = NULL
      /\ s # << >> => pk_head[m] = s[1] /\ Len(s) > 0
  BY <1>1, <1>2, ListFacts
<1>4. \A n \in Mbx : msg \notin Members(L[n])
  BY <1>1, <1>2, ListFacts, SameLists DEF B!Owned
<1>5. \A i \in 1 .. Len(s) : s[i] # msg /\ s[i] \in Msg
  BY <1>3, <1>4 DEF Members
<1>6. CASE m \in TaMpri
  <2> DEFINE p == B!Place(s, msg)
             z == IF p > Len(s) THEN NULL ELSE s[p]
             next == [pk_next EXCEPT ![msg] = z]
  <2>1. p \in 1 .. Len(s) + 1
    BY <1>3, MsgPlaceIs
  <2>2. /\ pk_head' = [pk_head EXCEPT ![m] = IF p = 1 THEN msg ELSE pk_head[m]]
        /\ pk_next' = IF p = 1 THEN next ELSE [next EXCEPT ![s[p - 1]] = msg]
        /\ UNCHANGED << pk_last, mbxtaken >>
    BY <1>1, <1>3, <1>6 DEF B!enqueue_msg_pri, MbxTypes
  <2> HIDE DEF p, s
  <2>3. /\ z \in Msg \cup {NULL} /\ z = At(s, p, NULL) /\ p \in Nat
        /\ p > 1 => /\ s[p - 1] \in Msg /\ s[p - 1] # msg
    <3>1. p <= Len(s) => p \in 1 .. Len(s)
      BY <1>3, <2>1
    <3>2. p > 1 => p - 1 \in 1 .. Len(s)
      BY <1>3, <2>1
    <3>3. QED
      BY <1>3, <1>5, <2>1, <3>1, <3>2 DEF At
  <2> HIDE DEF z
  <2>4. /\ next \in [Msg -> Msg \cup {NULL, UNINIT}] /\ next[msg] = z
        /\ \A x \in Msg \ {msg} : next[x] = pk_next[x]
    BY <1>1, <2>3 DEF MbxTypes
  <2> HIDE DEF next
  <2>5. /\ pk_next' \in [Msg -> Msg \cup {NULL, UNINIT}] /\ pk_next'[msg] = z
        /\ \A x \in Msg : x # msg /\ ~(p > 1 /\ x = s[p - 1])
                            => pk_next'[x] = pk_next[x]
        /\ p > 1 => pk_next'[s[p - 1]] = msg
    <3>1. CASE p = 1
      BY <2>2, <2>3, <2>4, <3>1
    <3>2. CASE p # 1
      <4>1. p > 1 /\ pk_next' = [next EXCEPT ![s[p - 1]] = msg]
        BY <2>1, <2>2, <2>3, <3>2
      <4>2. QED
        BY <2>3, <2>4, <4>1
    <3>3. QED
      BY <3>1, <3>2
  <2>6. MbxTypes'
    BY <1>1, <2>2, <2>5 DEF MbxTypes
  <2>7. /\ pk_head'[m] = IF p = 1 THEN msg ELSE pk_head[m]
        /\ \A n \in Mbx \ {m} : pk_head'[n] = pk_head[n] /\ pk_last'[n] = pk_last[n]
    BY <1>1, <2>2 DEF MbxTypes
  <2>8. QED
    BY <1>1, <1>2, <1>4, <1>6, <2>1, <2>3, <2>5, <2>6, <2>7, MsgPut DEF s
<1>7. CASE m \notin TaMpri /\ s # << >>
  <2> DEFINE p == Len(s) + 1
             z == s[Len(s)]
  <2>1. z \in Msg /\ z # msg /\ pk_last[m] = z /\ p > 1 /\ s[p - 1] = z /\ p # 1
    <3>1. Len(s) \in 1 .. Len(s)
      BY <1>3, <1>7
    <3>2. pk_last[m] = z
      BY <1>2, <1>7 DEF ListsAre
    <3>3. QED
      BY <1>3, <1>5, <3>1, <3>2
  <2>2. /\ pk_next' = [pk_next EXCEPT ![msg] = NULL, ![z] = msg]
        /\ pk_last' = [pk_last EXCEPT ![m] = msg] /\ UNCHANGED << pk_head, mbxtaken >>
    BY <1>3, <1>7, <2>1 DEF B!enqueue_msg
  <2>3. NULL = At(s, p, NULL) /\ p \in 1 .. Len(s) + 1
    BY <1>3 DEF At
  <2> HIDE DEF s, z
  <2>4. /\ pk_next' \in [Msg -> Msg \cup {NULL, UNINIT}] /\ pk_next'[msg] = NULL
        /\ pk_next'[z] = msg
        /\ \A x \in Msg \ {msg, z} : pk_next'[x] = pk_next[x]
    BY <1>1, <2>1, <2>2 DEF MbxTypes
  <2>5. MbxTypes'
    BY <1>1, <2>2, <2>4 DEF MbxTypes
  <2>6. /\ pk_last'[m] = msg /\ pk_head'[m] = pk_head[m]
        /\ \A n \in Mbx \ {m} : pk_head'[n] = pk_head[n] /\ pk_last'[n] = pk_last[n]
    BY <1>1, <2>2 DEF MbxTypes
  <2>7. /\ pk_head'[m] = IF p = 1 THEN msg ELSE pk_head[m]
        /\ m \notin TaMpri => p = Len(s) + 1 /\ pk_last'[m] = msg
        /\ p > 1 => pk_next'[s[p - 1]] = msg
        /\ \A x \in Msg : x # msg /\ ~(p > 1 /\ x = s[p - 1])
                            => pk_next'[x] = pk_next[x]
        /\ pk_next'[msg] = At(s, p, NULL)
    BY <2>1, <2>3, <2>4, <2>6
  <2> HIDE DEF p
  <2>8. QED
    BY <1>1, <1>2, <1>4, <2>3, <2>5, <2>6, <2>7, MsgPut DEF s
<1>8. CASE m \notin TaMpri /\ s = << >>
  <2>1. /\ pk_next' = [pk_next EXCEPT ![msg] = NULL]
        /\ pk_last' = [pk_last EXCEPT ![m] = msg]
        /\ pk_head' = [pk_head EXCEPT ![m] = msg] /\ UNCHANGED mbxtaken
    BY <1>3, <1>8 DEF B!enqueue_msg
  <2>2. Len(s) = 0 /\ 1 \in 1 .. Len(s) + 1 /\ NULL = At(s, 1, NULL)
    BY <1>8 DEF At
  <2> HIDE DEF s
  <2>3. /\ pk_next' \in [Msg -> Msg \cup {NULL, UNINIT}] /\ pk_next'[msg] = NULL
        /\ \A x \in Msg \ {msg} : pk_next'[x] = pk_next[x]
    BY <1>1, <2>1 DEF MbxTypes
  <2>4. MbxTypes'
    BY <1>1, <2>1, <2>3 DEF MbxTypes
  <2>5. /\ pk_last'[m] = msg /\ pk_head'[m] = msg
        /\ \A n \in Mbx \ {m} : pk_head'[n] = pk_head[n] /\ pk_last'[n] = pk_last[n]
    BY <1>1, <2>1 DEF MbxTypes
  <2>6. /\ pk_next'[msg] = At(s, 1, NULL) /\ ~ (1 > 1) /\ 1 = Len(s) + 1
        /\ pk_head'[m] = IF 1 = 1 THEN msg ELSE pk_head[m]
    BY <2>2, <2>3, <2>5
  <2>7. QED
    BY <1>1, <1>2, <1>4, <2>2, <2>3, <2>4, <2>5, <2>6, MsgPut DEF s
<1>9. QED
  BY <1>6, <1>7, <1>8

LEMMA ReceiveLists ==
  ASSUME MbxLists, NEW m \in Mbx, B!Receive(m)
  PROVE  MbxLists'
<1>1. MbxTypes
  BY DEF MbxLists
<1>2. PICK L : DOMAIN L = Mbx /\ ListsAre(L, pk_head, pk_last, pk_next)
  BY DEF MbxLists
<1> DEFINE s == L[m]
<1>3. /\ pk_head[m] # NULL /\ pk_head' = [pk_head EXCEPT ![m] = pk_next[pk_head[m]]]
      /\ mbxtaken' = [mbxtaken EXCEPT ![m] = pk_head[m]]
      /\ UNCHANGED << pk_last, pk_next >>
  BY DEF B!Receive
<1>4. /\ IsChain(s, pk_next, pk_head[m], NULL) /\ DOMAIN pk_next = Msg
      /\ s \in Seq(Msg) /\ NoDuplicates(s) /\ Len(s) \in Nat /\ s # << >>
      /\ Members(s) \subseteq Msg
  BY <1>1, <1>2, <1>3, ListFacts
<1> DEFINE r == Tail(s)
<1>5. IsChain(r, pk_next, pk_next[pk_head[m]], NULL)
  BY <1>4, ChainRest
<1>6. /\ Members(r) = Members(s) \ {s[1]}
      /\ Len(r) = Len(s) - 1 /\ Len(s) > 0
      /\ \A i \in 1 .. Len(s) - 1 : r[i] = s[i + 1]
      /\ r \in Seq(Msg)
  BY <1>4, TailIs, TailMembers
<1>7. r # << >> => r[Len(r)] = s[Len(s)]
  <2>1. r # << >> => Len(r) \in 1 .. Len(s) - 1 /\ Len(r) + 1 = Len(s)
    BY <1>4, <1>6
  <2>2. QED
    BY <1>6, <2>1
<1> HIDE DEF r, s
<1>8. /\ pk_head'[m] = pk_next[pk_head[m]]
      /\ \A n \in Mbx \ {m} : pk_head'[n] = pk_head[n]
  BY <1>1, <1>3 DEF MbxTypes
<1>9. MbxTypes'
  <2>1. pk_next[pk_head[m]] \in Msg \cup {NULL}
    <3>1. /\ r = << >> <=> pk_next[pk_head[m]] = NULL
          /\ r # << >> => pk_next[pk_head[m]] \in DOMAIN pk_next
      BY <1>5, ChainFirst
    <3>2. QED
      BY <1>4, <3>1
  <2>2. pk_head[m] \in Msg
    BY <1>1, <1>3 DEF MbxTypes
  <2>3. QED
    BY <1>1, <1>3, <2>1, <2>2 DEF MbxTypes
<1>10. m \notin TaMpri /\ r # << >> => pk_last'[m] = r[Len(r)]
  BY <1>2, <1>3, <1>4, <1>7 DEF ListsAre, s
<1>11. \A n \in Mbx \ {m} : Members(r) \cap Members(L[n]) = {}
  BY <1>2, <1>6 DEF ListsAre, s
<1>12. QED
  BY <1>1, <1>2, <1>3, <1>5, <1>8, <1>9, <1>10, <1>11, ListPut

LEMMA IniLists ==
  ASSUME MbxLists, NEW m \in Mbx, B!ini_mbx(m)
  PROVE  MbxLists'
<1>1. MbxTypes
  BY DEF MbxLists
<1>2. PICK L : DOMAIN L = Mbx /\ ListsAre(L, pk_head, pk_last, pk_next)
  BY DEF MbxLists
<1>3. /\ pk_head' = [pk_head EXCEPT ![m] = NULL]
      /\ UNCHANGED << pk_last, pk_next, mbxtaken >>
  BY DEF B!ini_mbx
<1>4. MbxTypes' /\ pk_head'[m] = NULL /\ \A n \in Mbx \ {m} : pk_head'[n] = pk_head[n]
  BY <1>1, <1>3 DEF MbxTypes
<1>5. IsChain(<< >>, pk_next', pk_head'[m], NULL)
  <2>1. NULL \notin DOMAIN pk_next'
    BY <1>4, MsgFacts DEF MbxTypes
  <2>2. QED
    BY <1>4, <2>1, ChainEmpty
<1>6. Members(<< >>) = {}
  BY DEF Members
<1>7. QED
  BY <1>1, <1>2, <1>3, <1>4, <1>5, <1>6, ListPut

LEMMA MbxListsStep ==
  ASSUME MbxLists,
         \/ \E m \in Mbx : B!MbxCall(m)
         \/ UNCHANGED << pk_head, pk_last, pk_next, mbxtaken >>
  PROVE  MbxLists'
<1>1. CASE UNCHANGED << pk_head, pk_last, pk_next, mbxtaken >>
  BY <1>1 DEF MbxLists, MbxTypes, ListsAre
<1>2. ASSUME NEW m \in Mbx, B!MbxCall(m) PROVE MbxLists'
  <2>1. ASSUME NEW msg \in Msg, B!snd_mbx(m, msg) PROVE MbxLists'
    <3>1. CASE wait_queue[m] = << >>
      BY <2>1, <3>1, SendLists DEF B!snd_mbx
    <3>2. CASE wait_queue[m] # << >>
      <4>1. /\ UNCHANGED << pk_head, pk_last, pk_next >>
            /\ mbxtaken' = [mbxtaken EXCEPT ![m] = msg]
        BY <2>1, <3>2 DEF B!snd_mbx, B!msgVars
      <4>2. MbxTypes'
        BY <4>1 DEF MbxLists, MbxTypes
      <4>3. PICK L : DOMAIN L = Mbx /\ ListsAre(L, pk_head, pk_last, pk_next)
        BY DEF MbxLists
      <4>4. ListsAre(L, pk_head', pk_last', pk_next')
        BY <4>1, <4>3
      <4>5. QED
        BY <4>2, <4>3, <4>4 DEF MbxLists
    <3>3. QED
      BY <3>1, <3>2
  <2>2. CASE B!Receive(m)
    BY <2>2, ReceiveLists
  <2>3. CASE B!ini_mbx(m)
    BY <2>3, IniLists
  <2>4. QED
    BY <1>1, <1>2, <2>1, <2>2, <2>3
       DEF B!MbxCall, B!rcv_mbx, B!trcv_mbx, B!prcv_mbx, B!ReceiveOrWait,
           B!msgVars
<1>3. QED
  BY <1>1, <1>2

LEMMA MbxListsInit ==
  ASSUME B!MbxInit
  PROVE  MbxLists
<1> DEFINE L == [m \in Mbx |-> << >>]
<1>1. /\ pk_head = [m \in Mbx |-> NULL] /\ pk_last = [m \in Mbx |-> UNINIT]
      /\ pk_next = [g \in Msg |-> UNINIT] /\ mbxtaken = [m \in Mbx |-> UNINIT]
  BY DEF B!MbxInit
<1>2. MbxTypes
  BY <1>1 DEF MbxTypes
<1>3. Members(<< >>) = {}
  BY DEF Members
<1>4. NULL \notin DOMAIN pk_next
  BY <1>1, MsgFacts
<1>5. IsChain(<< >>, pk_next, NULL, NULL)
  BY <1>4, ChainEmpty
<1>6. ListsAre(L, pk_head, pk_last, pk_next)
  BY <1>1, <1>3, <1>5 DEF ListsAre
<1>7. DOMAIN L = Mbx
  OBVIOUS
<1> HIDE DEF L
<1>8. QED
  BY <1>2, <1>6, <1>7 DEF MbxLists

LEMMA MbxListsMean ==
  ASSUME MbxLists
  PROVE  B!LinkInv
<1>1. MbxTypes
  BY DEF MbxLists
<1>2. PICK L : DOMAIN L = Mbx /\ ListsAre(L, pk_head, pk_last, pk_next)
  BY DEF MbxLists
<1>3. \A m \in Mbx : /\ B!Linked(m) = L[m] /\ NoDuplicates(L[m])
                     /\ Members(L[m]) \subseteq Msg
  BY <1>1, <1>2, ListFacts
<1>4. \A m \in Mbx : m \notin TaMpri /\ L[m] # << >> => pk_last[m] = L[m][Len(L[m])]
  BY <1>2 DEF ListsAre
<1>5. \A m, n \in Mbx : m # n => Members(L[m]) \cap Members(L[n]) = {}
  BY <1>2 DEF ListsAre
<1>6. QED
  BY <1>3, <1>4, <1>5, SameLists DEF B!LinkInv

----------------------------------------------------------------------------
(***************************************************************************)
(* The lists of all objects: the second invariant of the objects, on top   *)
(* of ObjectInv.                                                           *)
(***************************************************************************)
ListsKept ==
  /\ PdqPools /\ MbxLists /\ MpfPools /\ FlgScoped /\ OneWaits
  /\ DtqRings /\ MbxInfos

\* The step leaves the queues of Q alone.
Elsewhere(Q) == \E O : StepOn(O) /\ O \cap Q = {}

\* What a step is for each kind of object: a call on one of them, or a step
\* somewhere else.
ForEach ==
  /\ (\E f \in Flg : F!FlgCall(f)) \/ (F!FlgRest /\ Elsewhere(Flg))
  /\ (\E d \in Dataqueues : D!DtqCall(d)) \/ (D!DtqRest /\ Elsewhere(DtqQueues))
  /\ (\E q \in PriDataqs : P!PdqCall(q)) \/ (P!PdqRest /\ Elsewhere(PdqQueues))
  /\ (\E m \in Mbx : B!MbxCall(m)) \/ B!MbxRest
  /\ (\E m \in Mpf : M!MpfCall(m)) \/ M!MpfRest

LEMMA CallForEach ==
  ASSUME ObjectInv, NEW o \in Object, Call(o)
  PROVE  ForEach
<1>0. ObjectKernel /\ AllKept
  BY DEF ObjectInv
<1>1. CASE o \in Sem /\ S!SemCall(o) /\ F!FlgRest /\ D!DtqRest /\ P!PdqRest
             /\ B!MbxRest /\ M!MpfRest
  <2>1. StepOn({o})
    BY <1>0, <1>1, SemObjectStep DEF AllKept
  <2>2. {o} \cap Flg = {} /\ {o} \cap DtqQueues = {} /\ {o} \cap PdqQueues = {}
    BY <1>1, OwnQueueFacts
  <2>3. QED
    BY <1>1, <2>1, <2>2 DEF ForEach, Elsewhere
<1>2. CASE o \in Flg /\ F!FlgCall(o) /\ D!DtqRest /\ P!PdqRest /\ B!MbxRest
             /\ M!MpfRest
  <2>1. StepOn({o})
    BY <1>0, <1>2, FlgCallStep DEF AllKept
  <2>2. {o} \cap DtqQueues = {} /\ {o} \cap PdqQueues = {}
    BY <1>2, OwnQueueFacts
  <2>3. QED
    BY <1>2, <2>1, <2>2 DEF ForEach, Elsewhere
<1>3. CASE o \in Dataqueues /\ D!DtqCall(o) /\ F!FlgRest /\ P!PdqRest
             /\ B!MbxRest /\ M!MpfRest
  <2> DEFINE O == {dtq_swait[o], dtq_rwait[o]}
  <2>1. StepOn(O)
    BY <1>0, <1>3, DtqCallStep DEF AllKept
  <2>2. O \subseteq DtqQueues
    BY <1>3, ObjectFacts
  <2> HIDE DEF O
  <2>3. O \cap Flg = {} /\ O \cap PdqQueues = {}
    BY <2>2, OwnQueueFacts
  <2>4. QED
    BY <1>3, <2>1, <2>3 DEF ForEach, Elsewhere
<1>4. CASE o \in PriDataqs /\ P!PdqCall(o) /\ F!FlgRest /\ D!DtqRest
             /\ B!MbxRest /\ M!MpfRest
  <2> DEFINE O == {pdq_swait[o], pdq_rwait[o]}
  <2>1. StepOn(O)
    BY <1>0, <1>4, PdqCallStep DEF AllKept
  <2>2. O \subseteq PdqQueues
    BY <1>4, ObjectFacts
  <2> HIDE DEF O
  <2>3. O \cap Flg = {} /\ O \cap DtqQueues = {}
    BY <2>2, OwnQueueFacts
  <2>4. QED
    BY <1>4, <2>1, <2>3 DEF ForEach, Elsewhere
<1>5. CASE o \in Mbx /\ B!MbxCall(o) /\ F!FlgRest /\ D!DtqRest /\ P!PdqRest
             /\ M!MpfRest
  <2>1. StepOn({o})
    BY <1>0, <1>5, MbxCallStep DEF AllKept
  <2>2. {o} \cap Flg = {} /\ {o} \cap DtqQueues = {} /\ {o} \cap PdqQueues = {}
    BY <1>5, OwnQueueFacts
  <2>3. QED
    BY <1>5, <2>1, <2>2 DEF ForEach, Elsewhere
<1>6. CASE o \in Mpf /\ M!MpfCall(o) /\ F!FlgRest /\ D!DtqRest /\ P!PdqRest
             /\ B!MbxRest
  <2>1. StepOn({o})
    BY <1>0, <1>6, MpfCallStep DEF AllKept
  <2>2. {o} \cap Flg = {} /\ {o} \cap DtqQueues = {} /\ {o} \cap PdqQueues = {}
    BY <1>6, OwnQueueFacts
  <2>3. QED
    BY <1>6, <2>1, <2>2 DEF ForEach, Elsewhere
<1>7. QED
  BY <1>1, <1>2, <1>3, <1>4, <1>5, <1>6 DEF Call

LEMMA KernelForEach ==
  ASSUME ObjectInv, KernelStep
  PROVE  ForEach
<1>1. ObjectKernel /\ Next
  BY DEF ObjectInv, KernelStep
<1>2. StepOn({})
  BY <1>1, KernelObject
<1>3. Elsewhere(Flg) /\ Elsewhere(DtqQueues) /\ Elsewhere(PdqQueues)
  BY <1>2 DEF Elsewhere
<1>4. QED
  BY <1>3 DEF KernelStep, ForEach

LEMMA ListsStep ==
  ASSUME ObjectInv, ObjectInv', ~IniRaces, ListsKept, ForEach
  PROVE  ListsKept'
<1>1. /\ ObjectKernel /\ ObjectKernel' /\ PdqKept
      /\ PdqPools /\ MbxLists /\ MpfPools /\ FlgScoped /\ OneWaits
      /\ DtqRings /\ MbxInfos
  BY DEF ObjectInv, AllKept, ListsKept
<1>2. PdqPools'
  <2>1. CASE \E q \in PriDataqs : P!PdqCall(q)
    BY <1>1, <2>1, PdqPoolsCall
  <2>2. CASE P!PdqRest /\ Elsewhere(PdqQueues)
    <3>1. PICK O : StepOn(O) /\ O \cap PdqQueues = {}
      BY <2>2 DEF Elsewhere
    <3>2. QED
      BY <1>1, <2>2, <3>1, PdqPoolsRest
  <2>3. QED
    BY <2>1, <2>2 DEF ForEach
<1>3. FlgScoped' /\ OneWaits'
  <2>1. CASE \E f \in Flg : F!FlgCall(f)
    BY <1>1, <2>1, FlgMoreCall
  <2>2. CASE F!FlgRest /\ Elsewhere(Flg)
    <3>1. PICK O : StepOn(O) /\ O \cap Flg = {}
      BY <2>2 DEF Elsewhere
    <3>2. QED
      BY <1>1, <2>2, <3>1, FlgMoreRest
  <2>3. QED
    BY <2>1, <2>2 DEF ForEach
<1>4. MbxLists'
  <2>1. B!MbxRest => UNCHANGED << pk_head, pk_last, pk_next, mbxtaken >>
    BY DEF B!MbxRest, B!msgVars
  <2>2. QED
    BY <1>1, <2>1, MbxListsStep DEF ForEach
<1>5. MpfPools'
  <2>1. M!MpfRest => UNCHANGED << mpfcb, owners, releasing >>
    BY DEF M!MpfRest
  <2>2. QED
    BY <1>1, <2>1, MpfPoolsStep DEF ForEach
<1>6. DtqRings'
  <2>1. CASE \E d \in Dataqueues : D!DtqCall(d)
    BY <1>1, <2>1, DtqRingsCall
  <2>2. CASE D!DtqRest /\ Elsewhere(DtqQueues)
    <3>1. PICK O : StepOn(O) /\ O \cap DtqQueues = {}
      BY <2>2 DEF Elsewhere
    <3>2. QED
      BY <1>1, <2>2, <3>1, DtqRingsRest
  <2>3. QED
    BY <2>1, <2>2 DEF ForEach
<1>7. MbxInfos'
  BY <1>1, MbxInfosStep DEF ForEach
<1>8. QED
  BY <1>2, <1>3, <1>4, <1>5, <1>6, <1>7 DEF ListsKept

LEMMA ListsStutter ==
  ASSUME ObjectInv, ~IniRaces, ListsKept, UNCHANGED objVars
  PROVE  ListsKept'
<1>1. /\ UNCHANGED << wait_queue, winfo >>
      /\ UNCHANGED << flgwait, winfo_pdq, pdqcb, pdqtaken >>
      /\ UNCHANGED << pk_head, pk_last, pk_next, mbxtaken, winfo_mbx >>
      /\ UNCHANGED << winfo_dtq, dtqcb, dtqtaken >>
      /\ UNCHANGED << mpfcb, owners, releasing >>
  BY DEF objVars, S!semVars, F!flgVars, D!dtqVars, P!pdqVars, B!mbxVars, B!msgVars,
     M!mpfVars, S!vars
<1>2. PdqPools' /\ FlgScoped' /\ OneWaits'
  BY <1>1, PdqPoolsStill, FlgMoreStill DEF ListsKept
<1>3. MbxLists' /\ MpfPools'
  BY <1>1, MbxListsStep, MpfPoolsStep DEF ListsKept, ObjectInv
<1>4. DtqRings' /\ MbxInfos'
  BY <1>1, DtqRingsStill, MbxInfosStep DEF ListsKept
<1>5. QED
  BY <1>2, <1>3, <1>4 DEF ListsKept

LEMMA ListsInit ==
  ASSUME ObjInit
  PROVE  ListsKept
<1>1. \A q \in WaitQueue : wait_queue[q] = << >>
  BY DEF ObjInit, S!SemInit, S!Init
<1>2. PdqPools /\ MbxLists /\ MpfPools /\ FlgScoped /\ OneWaits
  BY <1>1, PdqPoolsInit, MbxListsInit, MpfPoolsInit, FlgMoreInit DEF ObjInit
<1>3. DtqRings
  BY <1>1, DtqRingsInit DEF ObjInit
<1>4. MbxInfos
  BY DEF ObjInit, B!MbxInit, MbxInfos
<1>5. QED
  BY <1>2, <1>3, <1>4 DEF ListsKept

\* The lists hold with the invariants of ObjectInv, as long as ini_mpf does not
\* come between the two parts of rel_mpf (IniRaces).
THEOREM ListsInvariance ==
  ~IniRaces => (ObjSpec => [](ObjectInv /\ ListsKept))
<1> SUFFICES ASSUME ~IniRaces PROVE ObjSpec => [](ObjectInv /\ ListsKept)
  OBVIOUS
<1>1. ObjInit => ObjectInv /\ ListsKept
  BY ObjectInitInv, ListsInit
<1>2. ObjectInv /\ ListsKept /\ [ObjNext]_objVars => (ObjectInv /\ ListsKept)'
  <2> SUFFICES ASSUME ObjectInv, ListsKept, [ObjNext]_objVars
               PROVE  ObjectInv' /\ ListsKept'
    OBVIOUS
  <2>1. CASE UNCHANGED objVars
    BY <2>1, StutterInv, ListsStutter
  <2>2. CASE KernelStep
    BY <2>2, KernelStepInv, KernelForEach, ListsStep
  <2>3. ASSUME NEW o \in Object, Call(o) PROVE ObjectInv' /\ ListsKept'
    BY <2>3, CallInv, CallForEach, ListsStep
  <2>4. QED
    BY <2>1, <2>2, <2>3 DEF ObjNext
<1>3. QED
  BY <1>1, <1>2, PTL DEF ObjSpec

\* The memory of the objects is never lost, shared or linked twice: the data of
\* a priority data queue are linked in the order of their priority and its nodes
\* are in one list or not yet used, the messages of a mailbox are a list that
\* ends, the free blocks of a pool and their number agree with the blocks in
\* use, and one task at most waits for an event flag without TA_WMUL
\* (ListsIntact; enqueue_pridata, dequeue_pridata, enqueue_msg_pri, rcv_mbx,
\* get_mpf_block, rel_mpf, wai_flg and the ini_ calls).
THEOREM ListsCorrect == ~IniRaces => (ObjSpec => []ListsIntact)
<1> SUFFICES ASSUME ~IniRaces PROVE ObjSpec => []ListsIntact
  OBVIOUS
<1>1. ObjectInv /\ ListsKept => ListsIntact
  BY PdqPoolsMean, MbxListsMean, MpfPoolsMean, FlgMoreMean
     DEF ObjectInv, AllKept, ListsKept, ListsIntact
<1>2. QED
  BY <1>1, ListsInvariance, PTL

\* No block of a pool is handed to two tasks: a block stays with the task that
\* got it until rel_mpf takes it, also when rel_mpf hands it directly to a
\* waiting task (OneOwner; get_mpf_block, rel_mpf, ini_mpf).
THEOREM OneOwnerCorrect == ~IniRaces => (ObjSpec => []OneOwner)
<1> SUFFICES ASSUME ~IniRaces PROVE ObjSpec => []OneOwner
  OBVIOUS
<1>1. ListsKept => OneOwner
  BY MpfPoolsMean DEF ListsKept, OneOwner
<1>2. QED
  BY <1>1, ListsInvariance, PTL

\* The type invariant of the kernel in the words of each instance.
LEMMA SameTypes ==
  ASSUME TypeOK
  PROVE  S!TypeOK /\ F!TypeOK /\ D!TypeOK /\ P!TypeOK /\ B!TypeOK /\ M!TypeOK
<1>1. S!TypeOK
  BY DEF TypeOK, SchedType, TPri, TstatType, WinfoType, TmevtType, ZERO,
     TS_DORMANT, TS_RUNNABLE, TS_SUSPENDED, TS_WAITING, WaitFactor,
     WobjFactor, WobjcbFactor, S!TypeOK, S!SchedType, S!TPri, S!TstatType,
     S!WinfoType, S!TmevtType, S!ZERO, S!TS_DORMANT, S!TS_RUNNABLE,
     S!TS_SUSPENDED, S!TS_WAITING, S!WaitFactor, S!WobjFactor, S!WobjcbFactor
<1>2. F!TypeOK
  BY DEF TypeOK, SchedType, TPri, TstatType, WinfoType, TmevtType, ZERO,
     TS_DORMANT, TS_RUNNABLE, TS_SUSPENDED, TS_WAITING, WaitFactor,
     WobjFactor, WobjcbFactor, F!TypeOK, F!SchedType, F!TPri, F!TstatType,
     F!WinfoType, F!TmevtType, F!ZERO, F!TS_DORMANT, F!TS_RUNNABLE,
     F!TS_SUSPENDED, F!TS_WAITING, F!WaitFactor, F!WobjFactor, F!WobjcbFactor
<1>3. D!TypeOK
  BY DEF TypeOK, SchedType, TPri, TstatType, WinfoType, TmevtType, ZERO,
     TS_DORMANT, TS_RUNNABLE, TS_SUSPENDED, TS_WAITING, WaitFactor,
     WobjFactor, WobjcbFactor, D!TypeOK, D!SchedType, D!TPri, D!TstatType,
     D!WinfoType, D!TmevtType, D!ZERO, D!TS_DORMANT, D!TS_RUNNABLE,
     D!TS_SUSPENDED, D!TS_WAITING, D!WaitFactor, D!WobjFactor, D!WobjcbFactor
<1>4. P!TypeOK
  BY DEF TypeOK, SchedType, TPri, TstatType, WinfoType, TmevtType, ZERO,
     TS_DORMANT, TS_RUNNABLE, TS_SUSPENDED, TS_WAITING, WaitFactor,
     WobjFactor, WobjcbFactor, P!TypeOK, P!SchedType, P!TPri, P!TstatType,
     P!WinfoType, P!TmevtType, P!ZERO, P!TS_DORMANT, P!TS_RUNNABLE,
     P!TS_SUSPENDED, P!TS_WAITING, P!WaitFactor, P!WobjFactor, P!WobjcbFactor
<1>5. B!TypeOK
  BY DEF TypeOK, SchedType, TPri, TstatType, WinfoType, TmevtType, ZERO,
     TS_DORMANT, TS_RUNNABLE, TS_SUSPENDED, TS_WAITING, WaitFactor,
     WobjFactor, WobjcbFactor, B!TypeOK, B!SchedType, B!TPri, B!TstatType,
     B!WinfoType, B!TmevtType, B!ZERO, B!TS_DORMANT, B!TS_RUNNABLE,
     B!TS_SUSPENDED, B!TS_WAITING, B!WaitFactor, B!WobjFactor, B!WobjcbFactor
<1>6. M!TypeOK
  BY DEF TypeOK, SchedType, TPri, TstatType, WinfoType, TmevtType, ZERO,
     TS_DORMANT, TS_RUNNABLE, TS_SUSPENDED, TS_WAITING, WaitFactor,
     WobjFactor, WobjcbFactor, M!TypeOK, M!SchedType, M!TPri, M!TstatType,
     M!WinfoType, M!TmevtType, M!ZERO, M!TS_DORMANT, M!TS_RUNNABLE,
     M!TS_SUSPENDED, M!TS_WAITING, M!WaitFactor, M!WobjFactor, M!WobjcbFactor
<1>7. QED
  BY <1>1, <1>2, <1>3, <1>4, <1>5, <1>6

\* The state of all objects stays well formed, whatever the calls: the counts
\* and indices stay within the buffers, also when fsnd_dtq overwrites the oldest
\* datum of a full buffer, tail stays count slots behind head around the ring,
\* and no WINFO outlives the call that it is for (ObjTypeOK; enqueue_data,
\* force_enqueue_data, dequeue_data and the ini_ calls).
THEOREM ObjTypeCorrect == ~IniRaces => (ObjSpec => []ObjTypeOK)
<1> SUFFICES ASSUME ~IniRaces PROVE ObjSpec => []ObjTypeOK
  OBVIOUS
<1>1. ObjectInv /\ ListsKept => ObjTypeOK
  <2> SUFFICES ASSUME ObjectInv, ListsKept PROVE ObjTypeOK
    OBVIOUS
  <2>1. /\ ObjectKernel /\ SemKept /\ FlgKept /\ PdqKept
        /\ PdqPools /\ MbxLists /\ MpfPools /\ FlgScoped /\ OneWaits
        /\ DtqRings /\ MbxInfos
    BY DEF ObjectInv, AllKept, ListsKept
  <2>2. TypeOK
    BY <2>1, TypesOf DEF ObjectKernel, KernelInv
  <2>3. S!TypeOK /\ F!TypeOK /\ D!TypeOK /\ P!TypeOK /\ B!TypeOK /\ M!TypeOK
    BY <2>2, SameTypes
  <2>4. S!SemTypeOK
    BY <2>1, <2>3 DEF SemKept, S!SemTypeOK
  <2>5. F!FlgTypeOK
    BY <2>1, <2>3, FlgMoreMean DEF F!FlgTypeOK
  <2>6. D!DtqTypeOK
    <3>1. /\ winfo_dtq \in [Task -> Data \cup {UNINIT, NULL}]
          /\ dtqtaken \in [Dataqueues -> Data \cup {UNINIT}]
      BY <2>1 DEF DtqRings, Carries, Carried
    <3>2. ASSUME NEW d \in Dataqueues
          PROVE  /\ dtqcb[d].count \in 0 .. dtqcnt[d]
                 /\ dtqcnt[d] > 0 =>
                      /\ {dtqcb[d].head, dtqcb[d].tail} \subseteq D!Slot(d)
                      /\ dtqcb[d].tail = (dtqcb[d].head + dtqcb[d].count) % dtqcnt[d]
                 /\ dtqcb[d].dtqmb \in [D!Slot(d) -> Data \cup {UNINIT}]
      <4>1. Ring(d, dtqcb[d])
        BY <2>1 DEF DtqRings
      <4>2. QED
        BY <4>1, RingMean
    <3>3. QED
      BY <2>3, <3>1, <3>2 DEF D!DtqTypeOK, D!Dtq
  <2>7. P!PdqTypeOK
    BY <2>1, <2>3, PdqPoolsMean DEF P!PdqTypeOK, P!Pdq
  <2>8. B!MbxTypeOK
    BY <2>1, <2>3 DEF B!MbxTypeOK, MbxLists, MbxTypes, MbxInfos
  <2>9. M!MpfTypeOK
    BY <2>1, <2>3, MpfPoolsMean DEF M!MpfTypeOK
  <2>10. QED
    BY <2>4, <2>5, <2>6, <2>7, <2>8, <2>9 DEF ObjTypeOK
<1>2. QED
  BY <1>1, ListsInvariance, PTL
=============================================================================
