---- MODULE TimerWheelLinksProofs ----
(***************************************************************************)
(* The linked lists of the timer wheel hold the sets of TimerWheel, for    *)
(* any number of levels, slots and timers.                                 *)
(*                                                                         *)
(* The argument goes from the links to the lists: S[q] are the timers      *)
(* linked in slot q, A those ahead of a walk, and every timer has a height *)
(* that falls along next, so that no list closes to a circle.              *)
(***************************************************************************)
EXTENDS TimerWheelLinks, TLAPS

Any == INSTANCE TimerWheelProofs WITH slots <- [q \in Heads |-> Chain(next[q])]

LEMMA AnyAssumptions == Any!WheelAssumption /\ Any!SpanAssumption
BY LinksAssumption
   DEF Lists!WheelAssumption, Lists!SpanAssumption, Lists!Span, Lists!Levels,
       Any!WheelAssumption, Any!SpanAssumption, Any!Span, Any!Levels

-----------------------------------------------------------------------------
(* Lists.  nx and pv are next and previous, h the heights.                 *)

\* B is the list that starts with f.
IsList(nx, pv, h, f, B) ==
    /\ B \subseteq Keys
    /\ f \in B \cup {Empty}
    /\ \A k \in B : nx[k] \in B \cup {Empty}
    /\ \A k \in B : nx[k] # Empty => nx[k] # f /\ pv[nx[k]] = k /\ h[nx[k]] < h[k]
    /\ \A k \in B \ {f} : pv[k] \in B /\ nx[pv[k]] = k

\* Chain, of any links.
ChainIn(nx, n) ==
    {k \in Keys : \A B \in SUBSET Keys :
        n \in B \cup {Empty} /\ (\A j \in B : nx[j] \in B \cup {Empty}) => k \in B}

LEMMA ChainIsChainIn == \A n : Chain(n) = ChainIn(next, n)
BY DEF Chain, ChainIn

\* Among timers with heights up to m there is a highest.
LEMMA Highest ==
    ASSUME NEW m \in Nat, NEW h \in [Keys -> 0 .. m], NEW B \in SUBSET Keys, B # {}
    PROVE  \E k \in B : \A j \in B : h[j] <= h[k]
<1>. DEFINE depths == {m - h[k] : k \in B}
<1>1. depths \subseteq Nat /\ depths # {}
  OBVIOUS
<1>2. PICK d \in depths : \A e \in depths : d <= e
  BY <1>1, AnyAssumptions, Any!LeastElement
<1>3. PICK k \in B : d = m - h[k]
  BY <1>2
<1>4. \A j \in B : m - h[j] \in depths
  OBVIOUS
<1>. HIDE DEF depths
<1>. QED
  BY <1>2, <1>3, <1>4

\* A set that has the first of a list, and with an entry the next, has them all.
LEMMA ListIsLeast ==
    ASSUME NEW m \in Nat, NEW h \in [Keys -> 0 .. m], NEW nx, NEW pv, NEW f, NEW B,
           IsList(nx, pv, h, f, B), NEW T,
           f \in T \cup {Empty}, \A j \in T : nx[j] \in T \cup {Empty}, Empty \notin B
    PROVE  B \subseteq T
<1>1. SUFFICES ASSUME B \ T # {} PROVE FALSE
  OBVIOUS
<1>2. PICK k \in B \ T : \A j \in B \ T : h[j] <= h[k]
  <2>1. B \ T \in SUBSET Keys
    BY DEF IsList
  <2>. QED
    BY <1>1, <2>1, Highest
<1>3. k # f /\ k # Empty
  BY <1>2
<1>4. pv[k] \in B /\ nx[pv[k]] = k
  BY <1>2, <1>3 DEF IsList
<1>5. h[k] < h[pv[k]]
  BY <1>3, <1>4 DEF IsList
<1>6. pv[k] \notin T
  BY <1>2, <1>3, <1>4
<1>7. h[pv[k]] <= h[k] /\ h[k] \in Int /\ h[pv[k]] \in Int
  BY <1>2, <1>4, <1>6 DEF IsList
<1>. QED
  BY <1>5, <1>7

LEMMA ChainOfList ==
    ASSUME NEW m \in Nat, NEW h \in [Keys -> 0 .. m], NEW nx, NEW pv, NEW f, NEW B,
           IsList(nx, pv, h, f, B)
    PROVE  ChainIn(nx, f) = B /\ (f = Empty => B = {})
<1>1. Empty \notin B
  BY LinksAssumption DEF Nodes, IsList
<1>2. ChainIn(nx, f) \subseteq B
  BY DEF ChainIn, IsList
<1>3. ASSUME NEW T \in SUBSET Keys, f \in T \cup {Empty}, \A j \in T : nx[j] \in T \cup {Empty}
      PROVE  B \subseteq T
  BY <1>1, <1>3, ListIsLeast
<1>4. B \subseteq ChainIn(nx, f)
  BY <1>3 DEF ChainIn, IsList
<1>5. ASSUME f = Empty PROVE B \subseteq {}
  <2>. DEFINE T == {}
  <2>1. T \in SUBSET Keys /\ f \in T \cup {Empty} /\ \A j \in T : nx[j] \in T \cup {Empty}
    BY <1>5
  <2>. HIDE DEF T
  <2>2. B \subseteq T
    BY <1>3, <2>1
  <2>. QED
    BY <2>2 DEF T
<1>. QED
  BY <1>2, <1>4, <1>5

-----------------------------------------------------------------------------
(* List surgery, on one list. *)

\* A list does not change when links elsewhere do.
LEMMA ListElsewhere ==
    ASSUME NEW nx, NEW pv, NEW h, NEW f, NEW B, IsList(nx, pv, h, f, B),
           NEW nx2, NEW pv2, NEW h2,
           \A k \in B : nx2[k] = nx[k] /\ h2[k] = h[k],
           \A k \in B \ {f} : pv2[k] = pv[k]
    PROVE  IsList(nx2, pv2, h2, f, B)
BY DEF IsList

\* The entry k becomes the first of the list of q.
NextLinked(nx, k, q) == [nx EXCEPT ![q] = k, ![k] = nx[q]]
PreviousLinked(nx, pv, k, q) ==
    [n \in Nodes |->
        CASE n = k     -> q
          [] n = nx[q] -> k
          [] OTHER     -> pv[n]]
HeightsLinked(nx, h, k, q) == [h EXCEPT ![k] = IF nx[q] = Empty THEN 0 ELSE h[nx[q]] + 1]

LinkTypes(nx, pv) == nx \in [Nodes -> Keys \cup {Empty}] /\ pv \in [Nodes -> Nodes \cup {Empty}]

LEMMA LinkFirst ==
    ASSUME NEW m \in Nat, NEW h \in [Keys -> 0 .. m], NEW nx, NEW pv, LinkTypes(nx, pv),
           NEW q \in Heads, NEW k \in Keys, NEW B, IsList(nx, pv, h, nx[q], B), k \notin B
    PROVE  LET nx2 == NextLinked(nx, k, q)
               pv2 == PreviousLinked(nx, pv, k, q)
               h2  == HeightsLinked(nx, h, k, q)
           IN  /\ IsList(nx2, pv2, h2, k, B \cup {k})
               /\ nx2[q] = k /\ pv2[k] = q
<1>. DEFINE nx2 == NextLinked(nx, k, q)
            pv2 == PreviousLinked(nx, pv, k, q)
            h2  == HeightsLinked(nx, h, k, q)
            f   == nx[q]
<1>1. q \in Nodes /\ k \in Nodes /\ q # k /\ Empty \notin Nodes /\ Keys \subseteq Nodes /\ q \notin Keys
  BY LinksAssumption DEF Nodes
<1>2. f \in B \cup {Empty} /\ B \subseteq Keys /\ f # k
  BY <1>1 DEF IsList
<1>3. nx2[q] = k /\ nx2[k] = f /\ \A n \in Nodes \ {q, k} : nx2[n] = nx[n]
  BY <1>1 DEF NextLinked, LinkTypes
<1>4. pv2[k] = q /\ (f # Empty => pv2[f] = k) /\ \A n \in Nodes \ {k, f} : pv2[n] = pv[n]
  BY <1>1, <1>2 DEF PreviousLinked
<1>5. \A j \in B : h2[j] = h[j]
  BY <1>2 DEF HeightsLinked
<1>6. f # Empty => h2[f] < h2[k]
  BY <1>2, <1>5 DEF HeightsLinked
<1>. HIDE DEF nx2, pv2, h2
<1>7. \A j \in B : nx2[j] = nx[j] /\ nx[j] \in B \cup {Empty} /\ nx2[j] # k
  BY <1>1, <1>2, <1>3 DEF IsList
<1>8. \A j \in B : nx[j] # Empty => nx[j] # f /\ pv2[nx[j]] = j /\ h2[nx[j]] < h2[j]
  BY <1>1, <1>2, <1>4, <1>5, <1>7 DEF IsList
<1>9. \A j \in B \ {f} : pv2[j] = pv[j] /\ pv[j] \in B /\ nx2[pv[j]] = j
  BY <1>1, <1>2, <1>4, <1>7 DEF IsList
<1>10. IsList(nx2, pv2, h2, k, B \cup {k})
  BY <1>1, <1>2, <1>3, <1>4, <1>6, <1>7, <1>8, <1>9 DEF IsList
<1>. QED
  BY <1>3, <1>4, <1>10 DEF nx2, pv2, h2

\* The entry k is taken out of the list of q.
NextUnlinked(nx, pv, k) == [nx EXCEPT ![pv[k]] = nx[k], ![k] = Empty]
PreviousUnlinked(nx, pv, k) ==
    [n \in Nodes |->
        CASE n = k     -> Empty
          [] n = nx[k] -> pv[k]
          [] OTHER     -> pv[n]]

\* B is the list of slot q.
IsListOf(nx, pv, h, q, B) ==
    /\ IsList(nx, pv, h, nx[q], B)
    /\ nx[q] # Empty => pv[nx[q]] = q

LEMMA UnlinkOne ==
    ASSUME NEW m \in Nat, NEW h \in [Keys -> 0 .. m], NEW nx, NEW pv, LinkTypes(nx, pv),
           NEW q \in Heads, NEW B, IsListOf(nx, pv, h, q, B), NEW k \in B
    PROVE  IsListOf(NextUnlinked(nx, pv, k), PreviousUnlinked(nx, pv, k), h, q, B \ {k})
<1>. DEFINE nx2 == NextUnlinked(nx, pv, k)
            pv2 == PreviousUnlinked(nx, pv, k)
            f   == nx[q]
            p   == pv[k]
            s   == nx[k]
<1>0. IsList(nx, pv, h, f, B) /\ (f # Empty => pv[f] = q)
  BY DEF IsListOf
<1>1. q \in Nodes /\ k \in Nodes /\ Empty \notin Nodes /\ Keys \subseteq Nodes /\ q \notin Keys
  BY <1>0, LinksAssumption DEF Nodes, IsList
<1>2. B \subseteq Keys /\ f \in B \cup {Empty} /\ k \in Keys
  BY <1>0 DEF IsList
<1>3. k = f \/ (p \in B /\ nx[p] = k)
  BY <1>0 DEF IsList
<1>4. k = f => p = q
  BY <1>0, <1>1, <1>2
<1>5. p \in Nodes /\ p # k /\ nx[p] = k
  <2>1. CASE k = f
    BY <1>1, <1>2, <1>4, <2>1
  <2>2. CASE p \in B /\ nx[p] = k
    <3>1. h[k] < h[p] /\ h[k] \in Int
      BY <1>0, <1>1, <1>2, <2>2 DEF IsList
    <3>. QED
      BY <1>1, <1>2, <2>2, <3>1
  <2>. QED
    BY <1>3, <2>1, <2>2
<1>6. s \in B \cup {Empty} /\ (s # Empty => s # f /\ pv[s] = k /\ h[s] < h[k])
  BY <1>0 DEF IsList
<1>7. s # k
  <2>1. h[k] \in Int /\ k # Empty
    BY <1>1, <1>2
  <2>. QED
    BY <1>6, <2>1
<1>8. nx2[p] = s /\ nx2[k] = Empty /\ \A n \in Nodes \ {p, k} : nx2[n] = nx[n]
  BY <1>1, <1>5 DEF NextUnlinked, LinkTypes
<1>9. (s # Empty => pv2[s] = p) /\ \A n \in Nodes \ {k, s} : pv2[n] = pv[n]
  BY <1>1, <1>2, <1>6, <1>7 DEF PreviousUnlinked
<1>. SUFFICES IsList(nx2, pv2, h, nx2[q], B \ {k}) /\ (nx2[q] # Empty => pv2[nx2[q]] = q)
  BY DEF IsListOf
<1>. HIDE DEF nx2, pv2
<1>10. CASE k = f
  <2>1. nx2[q] = s /\ \A j \in B \ {k} : nx2[j] = nx[j]
    BY <1>1, <1>2, <1>4, <1>8, <1>10
  <2>2. \A j \in B \ {k} :
            /\ nx[j] \in (B \ {k}) \cup {Empty}
            /\ nx[j] # Empty => /\ nx[j] # s /\ nx[j] # k
                               /\ pv[nx[j]] = j /\ h[nx[j]] < h[j]
    BY <1>0, <1>1, <1>2, <1>6, <1>10 DEF IsList
  <2>3. \A j \in B \ {k} : nx[j] # Empty => pv2[nx[j]] = j
    BY <1>1, <1>2, <1>9, <2>2
  <2>4. \A j \in (B \ {k}) \ {s} : pv2[j] = pv[j] /\ pv[j] \in B \ {k} /\ nx2[pv[j]] = j
    <3>. SUFFICES ASSUME NEW j \in (B \ {k}) \ {s}
                  PROVE  pv2[j] = pv[j] /\ pv[j] \in B \ {k} /\ nx2[pv[j]] = j
      OBVIOUS
    <3>1. pv[j] \in B /\ nx[pv[j]] = j
      BY <1>0, <1>10 DEF IsList
    <3>2. pv[j] # k
      BY <3>1
    <3>. QED
      BY <1>1, <1>2, <1>9, <2>1, <3>1, <3>2
  <2>5. s \in (B \ {k}) \cup {Empty} /\ (s # Empty => pv2[s] = q)
    BY <1>4, <1>6, <1>7, <1>9, <1>10
  <2>. QED
    BY <1>0, <1>2, <2>1, <2>2, <2>3, <2>4, <2>5 DEF IsList
<1>11. CASE p \in B /\ k # f
  <2>1. nx2[q] = f /\ f # Empty /\ f \in B /\ pv2[f] = q
    <3>1. p # q /\ q # k
      BY <1>1, <1>2, <1>11
    <3>2. f # Empty
      BY <1>0, <1>2, <1>11, ChainOfList
    <3>. QED
      BY <1>0, <1>1, <1>2, <1>6, <1>8, <1>9, <1>11, <3>1, <3>2
  <2>2. \A j \in B \ {k} : nx2[j] = IF j = p THEN s ELSE nx[j]
    BY <1>1, <1>2, <1>8
  <2>3. \A j \in B \ {k, p} : nx[j] # k /\ (nx[j] # Empty => nx[j] # s)
    BY <1>0, <1>1, <1>2, <1>5, <1>6 DEF IsList
  <2>4. s # Empty => h[s] < h[p]
    BY <1>0, <1>1, <1>2, <1>5, <1>6, <1>11 DEF IsList
  <2>. QED
    BY <1>0, <1>1, <1>2, <1>5, <1>6, <1>7, <1>8, <1>9, <1>11, <2>1, <2>2, <2>3, <2>4 DEF IsList
<1>. QED
  BY <1>3, <1>10, <1>11

-----------------------------------------------------------------------------
(* All lists together.  ti is the index a walk has come to, lv are the     *)
(* timers in the slab, S[q] those linked in slot q, A those ahead of the   *)
(* walk.                                                                   *)
Shape(nx, pv, ti, lv, S, A, h) ==
    /\ S \in [Heads -> SUBSET Keys] /\ A \in SUBSET Keys
    /\ \A q \in Heads : IsListOf(nx, pv, h, q, S[q])
    /\ IsList(nx, pv, h, ti, A)
    /\ \A q \in Heads : S[q] \cap A = {}
    /\ \A q, r \in Heads : S[q] \cap S[r] # {} => q = r
    /\ \A k \in Keys : k \in lv <=> k \in A \/ \E q \in Heads : k \in S[q]

\* Heads and timers are different entries, and exist.
LEMMA NodesApart ==
    /\ Keys \subseteq Nodes /\ Heads \subseteq Nodes
    /\ Empty \notin Keys /\ Empty \notin Heads
    /\ \A q \in Heads, k \in Keys : q # k
BY LinksAssumption DEF Nodes

\* The walk goes on to the next entry.
LEMMA ShapeAdvance ==
    ASSUME NEW m \in Nat, NEW h \in [Keys -> 0 .. m], NEW nx, NEW pv, NEW ti, NEW lv, NEW S, NEW A,
           Shape(nx, pv, ti, lv, S, A, h), ti # Empty
    PROVE  /\ ti \in A /\ ti \in lv
           /\ Shape(nx, pv, nx[ti], lv \ {ti}, S, A \ {ti}, h)
<1>1. ti \in A /\ A \subseteq Keys /\ IsList(nx, pv, h, ti, A)
  BY DEF Shape, IsListOf, IsList
<1>2. IsList(nx, pv, h, nx[ti], A \ {ti})
  <2>0. \A k \in A : k # Empty
    BY <1>1, NodesApart
  <2>1. nx[ti] \in (A \ {ti}) \cup {Empty}
    BY <1>1, <2>0 DEF IsList
  <2>2. \A k \in A \ {ti} :
            /\ nx[k] \in (A \ {ti}) \cup {Empty}
            /\ nx[k] # Empty => nx[k] # nx[ti] /\ pv[nx[k]] = k /\ h[nx[k]] < h[k]
    BY <1>1, <2>0 DEF IsList
  <2>3. \A k \in (A \ {ti}) \ {nx[ti]} : pv[k] \in A \ {ti} /\ nx[pv[k]] = k
    BY <1>1 DEF IsList
  <2>. QED
    BY <1>1, <2>1, <2>2, <2>3 DEF IsList
<1>3. \A q \in Heads : ti \notin S[q]
  BY <1>1 DEF Shape, IsListOf
<1>. QED
  BY <1>1, <1>2, <1>3 DEF Shape, IsListOf

\* The links of an entry that is in no list are of no account.
LEMMA ShapeForget ==
    ASSUME NEW nx, NEW pv, LinkTypes(nx, pv), NEW ti, NEW lv, NEW S, NEW A, NEW h,
           Shape(nx, pv, ti, lv, S, A, h), NEW k \in Keys, k \notin lv
    PROVE  Shape([nx EXCEPT ![k] = Empty], [pv EXCEPT ![k] = Empty], ti, lv, S, A, h)
<1>. DEFINE nx2 == [nx EXCEPT ![k] = Empty]
            pv2 == [pv EXCEPT ![k] = Empty]
<1>1. k \notin A /\ \A q \in Heads : k \notin S[q]
  BY DEF Shape, IsListOf
<1>2. \A n \in Nodes \ {k} : nx2[n] = nx[n] /\ pv2[n] = pv[n]
  BY DEF LinkTypes
<1>. HIDE DEF nx2, pv2
<1>3. \A B, f : B \subseteq Keys /\ k \notin B /\ IsList(nx, pv, h, f, B)
                  => IsList(nx2, pv2, h, f, B)
  BY <1>2, NodesApart, ListElsewhere
<1>4. IsList(nx2, pv2, h, ti, A)
  BY <1>1, <1>3 DEF Shape, IsListOf
<1>5. ASSUME NEW q \in Heads
      PROVE  IsList(nx2, pv2, h, nx2[q], S[q]) /\ (nx2[q] # Empty => pv2[nx2[q]] = q)
  <2>1. nx2[q] = nx[q] /\ IsList(nx, pv, h, nx[q], S[q]) /\ S[q] \subseteq Keys
    BY <1>2, NodesApart DEF Shape, IsListOf
  <2>2. nx[q] # Empty => nx[q] # k /\ nx[q] \in Keys
    BY <1>1, <2>1 DEF IsList
  <2>. QED
    BY <1>1, <1>2, <1>3, <2>1, <2>2, NodesApart DEF Shape, IsListOf
<1>. QED
  BY <1>4, <1>5 DEF Shape, IsListOf, nx2, pv2

\* A timer that is in no list becomes the first of the list of q.
LEMMA ShapeLink ==
    ASSUME NEW m \in Nat, NEW h \in [Keys -> 0 .. m], NEW nx, NEW pv, LinkTypes(nx, pv),
           NEW ti, NEW lv, NEW S, NEW A, Shape(nx, pv, ti, lv, S, A, h),
           NEW q \in Heads, NEW k \in Keys, k \notin lv
    PROVE  Shape(NextLinked(nx, k, q), PreviousLinked(nx, pv, k, q), ti, lv \cup {k},
                 [S EXCEPT ![q] = @ \cup {k}], A, HeightsLinked(nx, h, k, q))
<1>. DEFINE nx2 == NextLinked(nx, k, q)
            pv2 == PreviousLinked(nx, pv, k, q)
            h2  == HeightsLinked(nx, h, k, q)
            S2  == [S EXCEPT ![q] = @ \cup {k}]
<1>1. k \notin A /\ \A r \in Heads : k \notin S[r]
  BY DEF Shape, IsListOf
<1>2. nx[q] \in S[q] \cup {Empty} /\ S[q] \subseteq Keys /\ IsList(nx, pv, h, nx[q], S[q])
  BY DEF Shape, IsListOf, IsList
<1>3. IsList(nx2, pv2, h2, k, S[q] \cup {k}) /\ nx2[q] = k /\ pv2[k] = q
  BY <1>1, <1>2, LinkFirst
<1>4. /\ \A n \in Nodes \ {q, k} : nx2[n] = nx[n]
      /\ \A n \in Nodes \ {k, nx[q]} : pv2[n] = pv[n]
      /\ \A n \in Keys \ {k} : h2[n] = h[n]
  BY NodesApart DEF NextLinked, PreviousLinked, HeightsLinked, LinkTypes
<1>5. S2[q] = S[q] \cup {k} /\ \A r \in Heads \ {q} : S2[r] = S[r]
  BY DEF Shape, IsListOf
<1>6. S2 \in [Heads -> SUBSET Keys]
  BY <1>2 DEF Shape, IsListOf
<1>. HIDE DEF nx2, pv2, h2, S2
<1>7. \A B, f : B \subseteq Keys /\ k \notin B /\ B \cap S[q] = {} /\ IsList(nx, pv, h, f, B)
                  => IsList(nx2, pv2, h2, f, B)
  <2>. SUFFICES ASSUME NEW B, NEW f, B \subseteq Keys, k \notin B, B \cap S[q] = {},
                       IsList(nx, pv, h, f, B)
                PROVE  IsList(nx2, pv2, h2, f, B)
    OBVIOUS
  <2>1. \A j \in B : j \in Nodes \ {q, k} /\ j \in Nodes \ {k, nx[q]} /\ j \in Keys \ {k}
    BY <1>2, NodesApart
  <2>2. \A j \in B : nx2[j] = nx[j] /\ h2[j] = h[j] /\ pv2[j] = pv[j]
    BY <1>4, <2>1
  <2>. QED
    BY <2>2, ListElsewhere
<1>8. IsList(nx2, pv2, h2, ti, A)
  BY <1>1, <1>7 DEF Shape, IsListOf
<1>9. ASSUME NEW r \in Heads
      PROVE  IsList(nx2, pv2, h2, nx2[r], S2[r]) /\ (nx2[r] # Empty => pv2[nx2[r]] = r)
  <2>1. CASE r = q
    BY <1>3, <1>5, <2>1
  <2>2. CASE r # q
    <3>1. nx2[r] = nx[r] /\ S2[r] = S[r]
      BY <1>4, <1>5, <2>2, NodesApart
    <3>2. S[r] \subseteq Keys /\ S[r] \cap S[q] = {} /\ IsList(nx, pv, h, nx[r], S[r])
          /\ (nx[r] # Empty => pv[nx[r]] = r)
      BY <2>2 DEF Shape, IsListOf
    <3>3. IsList(nx2, pv2, h2, nx[r], S[r])
      BY <1>1, <1>7, <3>2
    <3>4. nx[r] # Empty => nx[r] \in Nodes \ {k, nx[q]}
      BY <1>1, <1>2, <3>2, NodesApart DEF IsList
    <3>. QED
      BY <1>4, <3>1, <3>2, <3>3, <3>4
  <2>. QED
    BY <2>1, <2>2
<1>10. \A r \in Heads : S2[r] \cap A = {}
  BY <1>1, <1>5 DEF Shape, IsListOf
<1>11. \A r, s \in Heads : S2[r] \cap S2[s] # {} => r = s
  BY <1>1, <1>5 DEF Shape, IsListOf
<1>12. \A j \in Keys : j \in lv \cup {k} <=> j \in A \/ \E r \in Heads : j \in S2[r]
  BY <1>5 DEF Shape, IsListOf
<1>. QED
  BY <1>6, <1>8, <1>9, <1>10, <1>11, <1>12 DEF Shape, IsListOf, nx2, pv2, h2, S2

\* A timer is taken out of its list.
LEMMA ShapeUnlink ==
    ASSUME NEW m \in Nat, NEW h \in [Keys -> 0 .. m], NEW nx, NEW pv, LinkTypes(nx, pv),
           NEW ti, NEW lv, NEW S, NEW A, Shape(nx, pv, ti, lv, S, A, h),
           NEW q \in Heads, NEW k \in S[q]
    PROVE  Shape(NextUnlinked(nx, pv, k), PreviousUnlinked(nx, pv, k), ti, lv \ {k},
                 [r \in Heads |-> S[r] \ {k}], A, h)
<1>. DEFINE nx2 == NextUnlinked(nx, pv, k)
            pv2 == PreviousUnlinked(nx, pv, k)
            S2  == [r \in Heads |-> S[r] \ {k}]
            p   == pv[k]
            s   == nx[k]
<1>0. k \in Keys
  BY DEF Shape, IsListOf
<1>1. k \notin A /\ \A r \in Heads \ {q} : k \notin S[r]
  BY DEF Shape, IsListOf
<1>2. S[q] \subseteq Keys /\ IsList(nx, pv, h, nx[q], S[q]) /\ (nx[q] # Empty => pv[nx[q]] = q)
  BY DEF Shape, IsListOf
<1>3. IsList(nx2, pv2, h, nx2[q], S[q] \ {k}) /\ (nx2[q] # Empty => pv2[nx2[q]] = q)
  <2>1. PICK B : B = S[q]
    OBVIOUS
  <2>2. IsListOf(nx, pv, h, q, B) /\ k \in B
    BY <1>2, <2>1 DEF IsListOf
  <2>. HIDE DEF nx2, pv2
  <2>3. IsListOf(nx2, pv2, h, q, B \ {k})
    BY <2>2, UnlinkOne DEF nx2, pv2
  <2>. QED
    BY <2>1, <2>3 DEF IsListOf
<1>4. p \in S[q] \cup {q} /\ s \in S[q] \cup {Empty}
  <2>1. s \in S[q] \cup {Empty}
    BY <1>2 DEF IsList
  <2>2. CASE k = nx[q]
    BY <1>0, <1>2, <2>1, <2>2, NodesApart
  <2>3. CASE k # nx[q]
    BY <1>2, <2>1, <2>3 DEF IsList
  <2>. QED
    BY <2>2, <2>3
<1>5. /\ \A n \in Nodes \ {p, k} : nx2[n] = nx[n]
      /\ \A n \in Nodes \ {k, s} : pv2[n] = pv[n]
  BY NodesApart DEF NextUnlinked, PreviousUnlinked, LinkTypes
<1>6. S2 \in [Heads -> SUBSET Keys] /\ \A r \in Heads : S2[r] = S[r] \ {k}
  BY DEF Shape, IsListOf
<1>. HIDE DEF nx2, pv2, S2, p, s
<1>7. \A B, f : B \subseteq Keys /\ k \notin B /\ B \cap S[q] = {} /\ IsList(nx, pv, h, f, B)
                  => IsList(nx2, pv2, h, f, B)
  <2>. SUFFICES ASSUME NEW B, NEW f, B \subseteq Keys, k \notin B, B \cap S[q] = {},
                       IsList(nx, pv, h, f, B)
                PROVE  IsList(nx2, pv2, h, f, B)
    OBVIOUS
  <2>1. \A j \in B : j \in Nodes \ {p, k} /\ j \in Nodes \ {k, s}
    BY <1>4, NodesApart
  <2>2. \A j \in B : nx2[j] = nx[j] /\ pv2[j] = pv[j]
    BY <1>5, <2>1
  <2>. QED
    BY <2>2, ListElsewhere
<1>8. IsList(nx2, pv2, h, ti, A)
  BY <1>1, <1>7 DEF Shape, IsListOf
<1>9. ASSUME NEW r \in Heads
      PROVE  IsList(nx2, pv2, h, nx2[r], S2[r]) /\ (nx2[r] # Empty => pv2[nx2[r]] = r)
  <2>1. CASE r = q
    BY <1>3, <1>6, <2>1
  <2>2. CASE r # q
    <3>0. r \in Nodes \ {p, k}
      BY <1>0, <1>2, <1>4, <2>2, NodesApart
    <3>1. nx2[r] = nx[r] /\ S2[r] = S[r]
      BY <1>1, <1>5, <1>6, <2>2, <3>0
    <3>2. S[r] \subseteq Keys /\ S[r] \cap S[q] = {} /\ IsList(nx, pv, h, nx[r], S[r])
          /\ (nx[r] # Empty => pv[nx[r]] = r)
      BY <2>2 DEF Shape, IsListOf
    <3>3. IsList(nx2, pv2, h, nx[r], S[r])
      BY <1>1, <1>7, <2>2, <3>2
    <3>4. nx[r] # Empty => nx[r] \in Nodes \ {k, s}
      BY <1>1, <1>4, <2>2, <3>2, NodesApart DEF IsList
    <3>. QED
      BY <1>5, <3>1, <3>2, <3>3, <3>4
  <2>. QED
    BY <2>1, <2>2
<1>10. \A r \in Heads : S2[r] \cap A = {}
  BY <1>6 DEF Shape, IsListOf
<1>11. \A r, u \in Heads : S2[r] \cap S2[u] # {} => r = u
  BY <1>6 DEF Shape, IsListOf
<1>12. \A j \in Keys : j \in lv \ {k} <=> j \in A \/ \E r \in Heads : j \in S2[r]
  BY <1>1, <1>6 DEF Shape, IsListOf
<1>. QED
  BY <1>6, <1>8, <1>9, <1>10, <1>11, <1>12 DEF Shape, IsListOf, nx2, pv2, S2

\* The list of q is taken off its head, to be walked.
LEMMA ShapeDetach ==
    ASSUME NEW m \in Nat, NEW h \in [Keys -> 0 .. m], NEW nx, NEW pv, LinkTypes(nx, pv),
           NEW lv, NEW S, NEW A, Shape(nx, pv, Empty, lv, S, A, h), NEW q \in Heads
    PROVE  Shape([nx EXCEPT ![q] = Empty], pv, nx[q], lv, [S EXCEPT ![q] = {}], S[q], h)
<1>. DEFINE nx2 == [nx EXCEPT ![q] = Empty]
            S2  == [S EXCEPT ![q] = {}]
<1>1. A = {}
  BY ChainOfList DEF Shape, IsListOf
<1>2. nx2[q] = Empty /\ \A n \in Nodes \ {q} : nx2[n] = nx[n]
  BY NodesApart DEF LinkTypes
<1>3. S2[q] = {} /\ (\A r \in Heads \ {q} : S2[r] = S[r]) /\ S2 \in [Heads -> SUBSET Keys]
  BY DEF Shape, IsListOf
<1>. HIDE DEF nx2, S2
<1>4. \A B, f : B \subseteq Keys /\ IsList(nx, pv, h, f, B) => IsList(nx2, pv, h, f, B)
  <2>. SUFFICES ASSUME NEW B, NEW f, B \subseteq Keys, IsList(nx, pv, h, f, B)
                PROVE  IsList(nx2, pv, h, f, B)
    OBVIOUS
  <2>1. \A j \in B : nx2[j] = nx[j]
    BY <1>2, NodesApart
  <2>. QED
    BY <2>1, ListElsewhere
<1>5. IsList(nx2, pv, h, nx[q], S[q]) /\ S[q] \in SUBSET Keys
  BY <1>4 DEF Shape, IsListOf
<1>6. IsList(nx2, pv, h, nx2[q], S2[q])
  BY <1>2, <1>3 DEF IsList
<1>7. ASSUME NEW r \in Heads
      PROVE  IsList(nx2, pv, h, nx2[r], S2[r]) /\ (nx2[r] # Empty => pv[nx2[r]] = r)
  <2>1. CASE r = q
    BY <1>2, <1>6, <2>1
  <2>2. CASE r # q
    BY <1>2, <1>3, <1>4, <2>2, NodesApart DEF Shape, IsListOf
  <2>. QED
    BY <2>1, <2>2
<1>8. \A r \in Heads : S2[r] \cap S[q] = {}
  BY <1>3 DEF Shape, IsListOf
<1>9. \A r, u \in Heads : S2[r] \cap S2[u] # {} => r = u
  BY <1>3 DEF Shape, IsListOf
<1>10. \A j \in Keys : j \in lv <=> j \in S[q] \/ \E r \in Heads : j \in S2[r]
  BY <1>1, <1>3 DEF Shape, IsListOf
<1>. QED
  BY <1>3, <1>5, <1>7, <1>8, <1>9, <1>10 DEF Shape, IsListOf, nx2, S2

-----------------------------------------------------------------------------
(* Types of what the operations write. *)
LEMMA LinkedTypes ==
    ASSUME NEW m \in Nat, NEW h \in [Keys -> 0 .. m], NEW nx, NEW pv, LinkTypes(nx, pv),
           NEW q \in Heads, NEW k \in Keys
    PROVE  /\ LinkTypes(NextLinked(nx, k, q), PreviousLinked(nx, pv, k, q))
           /\ HeightsLinked(nx, h, k, q) \in [Keys -> 0 .. m + 1]
<1>1. nx[q] \in Keys \cup {Empty}
  BY NodesApart DEF LinkTypes
<1>2. NextLinked(nx, k, q) \in [Nodes -> Keys \cup {Empty}]
  BY <1>1 DEF LinkTypes, NextLinked
<1>3. PreviousLinked(nx, pv, k, q) \in [Nodes -> Nodes \cup {Empty}]
  BY NodesApart DEF LinkTypes, PreviousLinked
<1>4. (IF nx[q] = Empty THEN 0 ELSE h[nx[q]] + 1) \in 0 .. m + 1
  BY <1>1
<1>5. h \in [Keys -> 0 .. m + 1]
  OBVIOUS
<1>. QED
  BY <1>2, <1>3, <1>4, <1>5 DEF LinkTypes, HeightsLinked

LEMMA UnlinkedTypes ==
    ASSUME NEW nx, NEW pv, LinkTypes(nx, pv), NEW k \in Keys
    PROVE  LinkTypes(NextUnlinked(nx, pv, k), PreviousUnlinked(nx, pv, k))
BY NodesApart DEF LinkTypes, NextUnlinked, PreviousUnlinked

-----------------------------------------------------------------------------
(* The state: S[q] are the timers linked in slot q, A those ahead of a walk. *)

Linked(nx, pv, ti, lv, S, A) ==
    \E m, h : m \in Nat /\ h \in [Keys -> 0 .. m] /\ Shape(nx, pv, ti, lv, S, A, h)

LEMMA LinkedAdvance ==
    ASSUME NEW nx, NEW pv, NEW ti, NEW lv, NEW S, NEW A,
           Linked(nx, pv, ti, lv, S, A), ti # Empty
    PROVE  ti \in A /\ ti \in lv /\ Linked(nx, pv, nx[ti], lv \ {ti}, S, A \ {ti})
<1>1. PICK m, h : m \in Nat /\ h \in [Keys -> 0 .. m] /\ Shape(nx, pv, ti, lv, S, A, h)
  BY DEF Linked
<1>2. ti \in A /\ ti \in lv /\ Shape(nx, pv, nx[ti], lv \ {ti}, S, A \ {ti}, h)
  BY <1>1, ShapeAdvance
<1>. QED
  BY <1>1, <1>2 DEF Linked

LEMMA LinkedForget ==
    ASSUME NEW nx, NEW pv, LinkTypes(nx, pv), NEW ti, NEW lv, NEW S, NEW A,
           Linked(nx, pv, ti, lv, S, A), NEW k \in Keys, k \notin lv
    PROVE  Linked([nx EXCEPT ![k] = Empty], [pv EXCEPT ![k] = Empty], ti, lv, S, A)
<1>1. PICK m, h : m \in Nat /\ h \in [Keys -> 0 .. m] /\ Shape(nx, pv, ti, lv, S, A, h)
  BY DEF Linked
<1>2. Shape([nx EXCEPT ![k] = Empty], [pv EXCEPT ![k] = Empty], ti, lv, S, A, h)
  BY <1>1, ShapeForget
<1>. QED
  BY <1>1, <1>2 DEF Linked

LEMMA LinkedLink ==
    ASSUME NEW nx, NEW pv, LinkTypes(nx, pv), NEW ti, NEW lv, NEW S, NEW A,
           Linked(nx, pv, ti, lv, S, A), NEW q \in Heads, NEW k \in Keys, k \notin lv
    PROVE  /\ Linked(NextLinked(nx, k, q), PreviousLinked(nx, pv, k, q), ti, lv \cup {k},
                     [S EXCEPT ![q] = @ \cup {k}], A)
           /\ LinkTypes(NextLinked(nx, k, q), PreviousLinked(nx, pv, k, q))
<1>1. PICK m, h : m \in Nat /\ h \in [Keys -> 0 .. m] /\ Shape(nx, pv, ti, lv, S, A, h)
  BY DEF Linked
<1>2. Shape(NextLinked(nx, k, q), PreviousLinked(nx, pv, k, q), ti, lv \cup {k},
            [S EXCEPT ![q] = @ \cup {k}], A, HeightsLinked(nx, h, k, q))
  BY <1>1, ShapeLink
<1>3. m + 1 \in Nat /\ HeightsLinked(nx, h, k, q) \in [Keys -> 0 .. m + 1]
  BY <1>1, LinkedTypes
<1>4. LinkTypes(NextLinked(nx, k, q), PreviousLinked(nx, pv, k, q))
  BY <1>1, LinkedTypes
<1>. QED
  BY <1>2, <1>3, <1>4 DEF Linked

LEMMA LinkedUnlink ==
    ASSUME NEW nx, NEW pv, LinkTypes(nx, pv), NEW ti, NEW lv, NEW S, NEW A,
           Linked(nx, pv, ti, lv, S, A), NEW q \in Heads, NEW k \in S[q]
    PROVE  Linked(NextUnlinked(nx, pv, k), PreviousUnlinked(nx, pv, k), ti, lv \ {k},
                  [r \in Heads |-> S[r] \ {k}], A)
<1>1. PICK m, h : m \in Nat /\ h \in [Keys -> 0 .. m] /\ Shape(nx, pv, ti, lv, S, A, h)
  BY DEF Linked
<1>2. Shape(NextUnlinked(nx, pv, k), PreviousUnlinked(nx, pv, k), ti, lv \ {k},
            [r \in Heads |-> S[r] \ {k}], A, h)
  BY <1>1, ShapeUnlink
<1>. QED
  BY <1>1, <1>2 DEF Linked

LEMMA LinkedDetach ==
    ASSUME NEW nx, NEW pv, LinkTypes(nx, pv), NEW lv, NEW S, NEW A,
           Linked(nx, pv, Empty, lv, S, A), NEW q \in Heads
    PROVE  Linked([nx EXCEPT ![q] = Empty], pv, nx[q], lv, [S EXCEPT ![q] = {}], S[q])
<1>1. PICK m, h : m \in Nat /\ h \in [Keys -> 0 .. m] /\ Shape(nx, pv, Empty, lv, S, A, h)
  BY DEF Linked
<1>2. Shape([nx EXCEPT ![q] = Empty], pv, nx[q], lv, [S EXCEPT ![q] = {}], S[q], h)
  BY <1>1, ShapeDetach
<1>. QED
  BY <1>1, <1>2 DEF Linked

\* What is linked are lists, and each timer is in one.
LEMMA LinkedLists ==
    ASSUME NEW nx, NEW pv, NEW ti, NEW lv, NEW S, NEW A, Linked(nx, pv, ti, lv, S, A)
    PROVE  /\ S \in [Heads -> SUBSET Keys] /\ A \in SUBSET Keys
           /\ \A q \in Heads : ChainIn(nx, nx[q]) = S[q]
           /\ ChainIn(nx, ti) = A /\ (ti = Empty => A = {})
           /\ \A q \in Heads : S[q] \cap A = {}
           /\ \A q, r \in Heads : S[q] \cap S[r] # {} => q = r
           /\ \A k \in Keys : k \in lv <=> k \in A \/ \E q \in Heads : k \in S[q]
<1>1. PICK m, h : m \in Nat /\ h \in [Keys -> 0 .. m] /\ Shape(nx, pv, ti, lv, S, A, h)
  BY DEF Linked
<1>2. \A q \in Heads : ChainIn(nx, nx[q]) = S[q]
  BY <1>1, ChainOfList DEF Shape, IsListOf
<1>3. ChainIn(nx, ti) = A /\ (ti = Empty => A = {})
  BY <1>1, ChainOfList DEF Shape, IsListOf
<1>. QED
  BY <1>1, <1>2, <1>3 DEF Shape, IsListOf

\* Within the lists next and previous are inverse.
Sound(nx, pv, ti, lv) ==
    /\ \A n \in Heads \cup lv : nx[n] \in lv \cup {Empty}
    /\ ti \in lv \cup {Empty}
    /\ ti = Empty => /\ \A n \in Heads \cup lv : nx[n] # Empty => pv[nx[n]] = n
                     /\ \A k \in lv : pv[k] \in Heads \cup lv /\ nx[pv[k]] = k

LEMMA LinkedSound ==
    ASSUME NEW nx, NEW pv, NEW ti, NEW lv \in SUBSET Keys, NEW S, NEW A,
           Linked(nx, pv, ti, lv, S, A)
    PROVE  Sound(nx, pv, ti, lv)
<1>1. PICK m, h : m \in Nat /\ h \in [Keys -> 0 .. m] /\ Shape(nx, pv, ti, lv, S, A, h)
  BY DEF Linked
<1>2. ti \in lv \cup {Empty} /\ A \subseteq lv /\ \A q \in Heads : S[q] \subseteq lv
  BY <1>1 DEF Shape, IsListOf, IsList
<1>3. ASSUME NEW q \in Heads
      PROVE  nx[q] \in lv \cup {Empty} /\ (nx[q] # Empty => pv[nx[q]] = q)
  BY <1>1, <1>2 DEF Shape, IsListOf, IsList
<1>4. ASSUME NEW k \in lv
      PROVE  nx[k] \in lv \cup {Empty} /\ (nx[k] # Empty => pv[nx[k]] = k)
  <2>1. PICK B, f : IsList(nx, pv, h, f, B) /\ k \in B /\ B \subseteq lv
    BY <1>1, <1>2 DEF Shape, IsListOf
  <2>. QED
    BY <2>1 DEF IsList
<1>5. ASSUME ti = Empty, NEW k \in lv
      PROVE  pv[k] \in Heads \cup lv /\ nx[pv[k]] = k
  <2>1. A = {}
    BY <1>5, LinkedLists
  <2>2. PICK q \in Heads : k \in S[q]
    BY <1>1, <2>1 DEF Shape, IsListOf
  <2>3. IsList(nx, pv, h, nx[q], S[q]) /\ (nx[q] # Empty => pv[nx[q]] = q) /\ S[q] \subseteq lv
    BY <1>1, <1>2 DEF Shape, IsListOf
  <2>4. CASE k = nx[q]
    BY <2>3, <2>4, NodesApart
  <2>5. CASE k # nx[q]
    BY <2>2, <2>3, <2>5 DEF IsList
  <2>. QED
    BY <2>4, <2>5
<1>. QED
  BY <1>2, <1>3, <1>4, <1>5 DEF Sound

Links(S, A) == Linked(next, previous, timerIndex, Live, S, A)

LinksInv ==
    /\ TypeOK
    /\ currentTime \in Nat
    /\ expireTime \in [Keys -> Nat \cup {Lists!Vacant}]
    /\ walking => cascade \in Levels
    /\ ~walking => timerIndex = Empty
    /\ \E S, A : Links(S, A)

LEMMA Constants ==
    /\ NumLevels \in Nat \ {0} /\ NumSlots \in Nat \ {0} /\ Intervals \subseteq Nat
    /\ Lists!Vacant = -1 /\ Lists!Idle = NumLevels
    /\ Lists!Idle \notin Levels /\ Lists!Idle \in 0 .. NumLevels
BY LinksAssumption DEF Lists!WheelAssumption, Lists!Vacant, Lists!Idle, Levels

LEMMA PlaceIsHead ==
    ASSUME TypeOK, NEW delta \in Nat
    PROVE  Lists!Place(delta) \in Heads
<1>1. position \in [Any!Levels -> Any!Slots]
  BY DEF TypeOK, Levels, Slots, Any!Levels, Any!Slots
<1>2. Any!Place(delta) \in Any!Levels \X Any!Slots
  BY <1>1, AnyAssumptions, Any!PlaceType
<1>3. Any!Place(delta) = Lists!Place(delta)
  BY DEF Any!Place, Any!LevelFor, Any!SlotFor, Any!SaturatingPred, Any!Span, Any!Levels,
         Lists!Place, Lists!LevelFor, Lists!SlotFor, Lists!SaturatingPred, Lists!Span, Lists!Levels
<1>. QED
  BY <1>2, <1>3 DEF Heads, Levels, Slots, Any!Levels, Any!Slots

LEMMA InsertLinks ==
    ASSUME LinksInv, NEW k \in Keys, NEW delta \in Nat, Insert(k, delta),
           NEW S, NEW A, Links(S, A), NEW q, q = Lists!Place(delta)
    PROVE  /\ LinkTypes(next', previous')
           /\ Links([S EXCEPT ![q] = @ \cup {k}], A)'
<1>1. q \in Heads /\ LinkTypes(next, previous)
  BY PlaceIsHead DEF LinksInv, TypeOK, LinkTypes
<1>2. Linked(next, previous, timerIndex, Live, S, A)
  BY DEF Links
<1>3. next' = NextLinked(next, k, q) /\ previous' = PreviousLinked(next, previous, k, q)
      /\ timerIndex' = timerIndex
  BY DEF Insert, Link, NextLinked, PreviousLinked
<1>4. k \notin Live /\ Live' = Live \cup {k}
  BY Constants DEF Insert, Live, Lists!Live, LinksInv
<1>5. /\ Linked(next', previous', timerIndex', Live', [S EXCEPT ![q] = @ \cup {k}], A)
      /\ LinkTypes(next', previous')
  BY <1>1, <1>2, <1>3, <1>4, LinkedLink
<1>. QED
  BY <1>5 DEF Links

LEMMA StopLinks ==
    ASSUME LinksInv, NEW k \in Keys, StopTimer(k), NEW S, NEW A, Links(S, A)
    PROVE  /\ LinkTypes(next', previous')
           /\ Links([q \in Heads |-> S[q] \ {k}], A)'
<1>1. LinkTypes(next, previous)
  BY DEF LinksInv, TypeOK, LinkTypes
<1>2. Linked(next, previous, timerIndex, Live, S, A)
  BY DEF Links
<1>3. next' = NextUnlinked(next, previous, k) /\ previous' = PreviousUnlinked(next, previous, k)
      /\ timerIndex' = timerIndex
  BY DEF StopTimer, Unlink, NextUnlinked, PreviousUnlinked
<1>4. k \in Live /\ Live' = Live \ {k}
  BY Constants DEF StopTimer, Live, Lists!Live, LinksInv
<1>5. timerIndex = Empty
  BY Constants DEF StopTimer, LinksInv
<1>6. A = {}
  BY <1>2, <1>5, LinkedLists
<1>7. PICK q \in Heads : k \in S[q]
  BY <1>2, <1>4, <1>6, LinkedLists
<1>8. Linked(next', previous', timerIndex', Live', [r \in Heads |-> S[r] \ {k}], A)
  BY <1>1, <1>2, <1>3, <1>4, <1>7, LinkedUnlink
<1>9. LinkTypes(next', previous')
  BY <1>1, <1>3, UnlinkedTypes
<1>. QED
  BY <1>8, <1>9 DEF Links

LEMMA DetachLinks ==
    ASSUME LinksInv, NEW l \in Levels, Detach(l), NEW S, NEW A, Links(S, A),
           NEW q, q = <<l, position[l]>>
    PROVE  /\ q \in Heads
           /\ LinkTypes(next', previous') /\ timerIndex' \in Keys \cup {Empty}
           /\ Links([S EXCEPT ![q] = {}], S[q])'
<1>1. q \in Heads /\ LinkTypes(next, previous)
  BY DEF LinksInv, TypeOK, LinkTypes, Heads
<1>2. Linked(next, previous, timerIndex, Live, S, A)
  BY DEF Links
<1>3. timerIndex = Empty
  BY DEF Detach, LinksInv
<1>4. next' = [next EXCEPT ![q] = Empty] /\ previous' = previous /\ timerIndex' = next[q]
  BY DEF Detach
<1>5. Live' = Live
  BY DEF Detach, Live, Lists!Live
<1>6. Linked(next', previous', timerIndex', Live', [S EXCEPT ![q] = {}], S[q])
  BY <1>1, <1>2, <1>3, <1>4, <1>5, LinkedDetach
<1>7. LinkTypes(next', previous') /\ timerIndex' \in Keys \cup {Empty}
  BY <1>1, <1>4, NodesApart DEF LinkTypes
<1>. QED
  BY <1>1, <1>6, <1>7 DEF Links

LEMMA ExpireLinks ==
    ASSUME LinksInv, ExpireEntry, NEW S, NEW A, Links(S, A), NEW k, k = timerIndex
    PROVE  /\ k \in A /\ k \in Live
           /\ LinkTypes(next', previous') /\ timerIndex' \in Keys \cup {Empty}
           /\ Links(S, A \ {k})'
<1>1. LinkTypes(next, previous) /\ k \in Keys /\ k # Empty
  BY DEF LinksInv, TypeOK, LinkTypes, ExpireEntry
<1>2. Linked(next, previous, k, Live, S, A)
  BY DEF Links
<1>3. k \in A /\ k \in Live /\ Linked(next, previous, next[k], Live \ {k}, S, A \ {k})
  BY <1>1, <1>2, LinkedAdvance
<1>4. Live' = Live \ {k}
  BY <1>1, Constants DEF ExpireEntry, Live, Lists!Live, LinksInv
<1>5. next' = [next EXCEPT ![k] = Empty] /\ previous' = [previous EXCEPT ![k] = Empty]
      /\ timerIndex' = next[k]
  BY DEF ExpireEntry
<1>6. k \notin Live \ {k}
  OBVIOUS
<1>7. Linked(next', previous', timerIndex', Live', S, A \ {k})
  BY <1>1, <1>3, <1>4, <1>5, <1>6, LinkedForget
<1>8. LinkTypes(next', previous') /\ timerIndex' \in Keys \cup {Empty}
  BY <1>1, <1>5, NodesApart DEF LinkTypes
<1>. QED
  BY <1>3, <1>7, <1>8 DEF Links

LEMMA RelinkLinks ==
    ASSUME LinksInv, RelinkEntry, NEW S, NEW A, Links(S, A), NEW k, k = timerIndex,
           NEW q, q = Lists!Place(expireTime[k] - currentTime)
    PROVE  /\ k \in A /\ k \in Live /\ q \in Heads
           /\ LinkTypes(next', previous') /\ timerIndex' \in Keys \cup {Empty}
           /\ Links([S EXCEPT ![q] = @ \cup {k}], A \ {k})'
<1>1. LinkTypes(next, previous) /\ k \in Keys /\ k # Empty
  BY DEF LinksInv, TypeOK, LinkTypes, RelinkEntry
<1>2. Linked(next, previous, k, Live, S, A)
  BY DEF Links
<1>3. k \in A /\ k \in Live /\ Linked(next, previous, next[k], Live \ {k}, S, A \ {k})
  BY <1>1, <1>2, LinkedAdvance
<1>4. expireTime[k] - currentTime \in Nat
  BY <1>1, <1>3, Constants DEF RelinkEntry, Due, Live, Lists!Live, LinksInv
<1>5. q \in Heads
  BY <1>4, PlaceIsHead DEF LinksInv
<1>6. next' = NextLinked(next, k, q) /\ previous' = PreviousLinked(next, previous, k, q)
      /\ timerIndex' = next[k]
  BY DEF RelinkEntry, Link, NextLinked, PreviousLinked
<1>7. Live' = (Live \ {k}) \cup {k}
  BY <1>3 DEF RelinkEntry, Live, Lists!Live
<1>8. k \notin Live \ {k}
  OBVIOUS
<1>9. /\ Linked(next', previous', timerIndex', Live', [S EXCEPT ![q] = @ \cup {k}], A \ {k})
      /\ LinkTypes(next', previous')
  BY <1>1, <1>3, <1>5, <1>6, <1>7, <1>8, LinkedLink
<1>11. timerIndex' \in Keys \cup {Empty}
  BY <1>1, <1>6, NodesApart DEF LinkTypes
<1>. QED
  BY <1>3, <1>5, <1>9, <1>11 DEF Links

-----------------------------------------------------------------------------
(* The invariant. *)

LEMMA InitLinksInv == Init => LinksInv
<1>. SUFFICES ASSUME Init PROVE LinksInv
  OBVIOUS
<1>. DEFINE S == [q \in Heads |-> {}]
            h == [k \in Keys |-> 0]
<1>1. TypeOK /\ currentTime \in Nat /\ expireTime \in [Keys -> Nat \cup {Lists!Vacant}]
  BY Constants DEF Init, TypeOK, Levels, Slots
<1>2. ~walking /\ timerIndex = Empty /\ Live = {}
  BY DEF Init, Live, Lists!Live
<1>3. \A q \in Heads : next[q] = Empty /\ S[q] = {}
  BY NodesApart DEF Init
<1>4. \A pv, g : IsList(next, pv, g, Empty, {})
  BY DEF IsList
<1>5. 0 \in Nat /\ h \in [Keys -> 0 .. 0] /\ S \in [Heads -> SUBSET Keys]
  OBVIOUS
<1>. HIDE DEF S, h
<1>6. Shape(next, previous, timerIndex, Live, S, {}, h)
  BY <1>2, <1>3, <1>4, <1>5 DEF Shape, IsListOf
<1>7. Links(S, {})
  BY <1>5, <1>6 DEF Links, Linked
<1>. QED
  BY <1>1, <1>2, <1>7 DEF LinksInv

LEMMA InsertLinksInv ==
    ASSUME LinksInv, NEW k \in Keys, NEW delta \in Nat, Insert(k, delta)
    PROVE  LinksInv'
<1>1. PICK S, A : Links(S, A)
  BY DEF LinksInv
<1>2. PICK q : q = Lists!Place(delta)
  OBVIOUS
<1>3. LinkTypes(next', previous') /\ Links([S EXCEPT ![q] = @ \cup {k}], A)'
  BY <1>1, <1>2, InsertLinks
<1>4. expireTime' \in [Keys -> Nat \cup {Lists!Vacant}] /\ currentTime' \in Nat
  BY DEF LinksInv, Insert
<1>. QED
  BY <1>3, <1>4 DEF LinksInv, TypeOK, LinkTypes, Insert

LEMMA NextLinksInv == LinksInv /\ [Next]_vars => LinksInv'
<1>. SUFFICES ASSUME LinksInv, [Next]_vars PROVE LinksInv'
  OBVIOUS
<1>1. PICK S, A : Links(S, A)
  BY DEF LinksInv
<1>2. ASSUME NEW k \in Keys, NEW i \in Intervals, StartTimer(k, i)
      PROVE  LinksInv'
  BY <1>2, InsertLinksInv, Constants DEF StartTimer
<1>3. ASSUME NEW k \in Keys, NEW i \in Intervals, StartTimerAbsolute(k, currentTime + i)
      PROVE  LinksInv'
  <2>1. i \in Nat /\ (currentTime + i) - currentTime = i
    BY Constants DEF LinksInv
  <2>. QED
    BY <1>3, <2>1, InsertLinksInv DEF StartTimerAbsolute
<1>4. ASSUME NEW k \in Keys, StopTimer(k)
      PROVE  LinksInv'
  <2>1. LinkTypes(next', previous') /\ Links([q \in Heads |-> S[q] \ {k}], A)'
    BY <1>1, <1>4, StopLinks
  <2>2. expireTime' \in [Keys -> Nat \cup {Lists!Vacant}]
    BY <1>4 DEF LinksInv, StopTimer
  <2>. QED
    BY <1>4, <2>1, <2>2 DEF LinksInv, TypeOK, LinkTypes, StopTimer
<1>5. CASE BeginTick
  <2>1. Links(S, A)'
    BY <1>1, <1>5 DEF BeginTick, Links, Live, Lists!Live
  <2>. QED
    BY <1>5, <2>1, Constants DEF LinksInv, TypeOK, BeginTick, Levels
<1>6. ASSUME NEW l \in Levels, Detach(l)
      PROVE  LinksInv'
  <2>1. PICK q : q = <<l, position[l]>>
    OBVIOUS
  <2>2. /\ LinkTypes(next', previous') /\ timerIndex' \in Keys \cup {Empty}
        /\ Links([S EXCEPT ![q] = {}], S[q])'
    BY <1>1, <1>6, <2>1, DetachLinks
  <2>. QED
    BY <1>6, <2>2 DEF LinksInv, TypeOK, LinkTypes, Detach
<1>7. ASSUME NEW l \in Levels, EndLevel(l)
      PROVE  LinksInv'
  <2>1. Links(S, A)'
    BY <1>1, <1>7 DEF EndLevel, Links, Live, Lists!Live
  <2>2. Lists!NextPosition(position[l]) \in Slots
    BY Constants DEF LinksInv, TypeOK, Lists!NextPosition, Slots
  <2>3. position' \in [Levels -> Slots]
    BY <1>7, <2>2 DEF LinksInv, TypeOK, EndLevel
  <2>4. cascade' \in 0 .. NumLevels
    BY <1>7, Constants DEF EndLevel, Lists!CascadeTo, Levels
  <2>. QED
    BY <1>7, <2>1, <2>3, <2>4 DEF LinksInv, TypeOK, EndLevel
<1>8. CASE ExpireEntry
  <2>1. PICK k : k = timerIndex
    OBVIOUS
  <2>2. /\ k \in A /\ k \in Live
        /\ LinkTypes(next', previous') /\ timerIndex' \in Keys \cup {Empty}
        /\ Links(S, A \ {k})'
    BY <1>1, <1>8, <2>1, ExpireLinks
  <2>3. expireTime' \in [Keys -> Nat \cup {Lists!Vacant}]
    BY <1>8 DEF LinksInv, ExpireEntry
  <2>. QED
    BY <1>8, <2>2, <2>3 DEF LinksInv, TypeOK, LinkTypes, ExpireEntry
<1>9. CASE RelinkEntry
  <2>1. PICK k : k = timerIndex
    OBVIOUS
  <2>2. PICK q : q = Lists!Place(expireTime[k] - currentTime)
    OBVIOUS
  <2>3. /\ LinkTypes(next', previous') /\ timerIndex' \in Keys \cup {Empty}
        /\ Links([S EXCEPT ![q] = @ \cup {k}], A \ {k})'
    BY <1>1, <1>9, <2>1, <2>2, RelinkLinks
  <2>. QED
    BY <1>9, <2>3 DEF LinksInv, TypeOK, LinkTypes, RelinkEntry
<1>10. CASE UNCHANGED vars
  <2>1. Links(S, A)'
    BY <1>1, <1>10 DEF vars, Links, Live, Lists!Live
  <2>. QED
    BY <1>10, <2>1 DEF vars, LinksInv, TypeOK
<1>. QED
  BY <1>2, <1>3, <1>4, <1>5, <1>6, <1>7, <1>8, <1>9, <1>10 DEF Next

LEMMA LinksInvAlways == Spec => []LinksInv
BY InitLinksInv, NextLinksInv, PTL DEF Spec

\* Every index is the index of an entry or empty, every position is within its
\* ring of slots: what tw_timer.rs indexes with exists.
THEOREM LinksTypeCorrect == Spec => []TypeOK
<1>1. LinksInv => TypeOK
  BY DEF LinksInv
<1>. QED
  BY <1>1, LinksInvAlways, PTL

\* start_timer_unchecked, stop_timer and the walk of process_level leave no
\* index of a list on a vacated slab entry, and outside a walk next and
\* previous are inverse.
THEOREM LinksAlwaysSound == Spec => []LinksSound
<1>1. LinksInv => LinksSound
  <2>. SUFFICES ASSUME LinksInv PROVE LinksSound
    OBVIOUS
  <2>1. PICK S, A : Links(S, A)
    BY DEF LinksInv
  <2>2. PICK lv \in SUBSET Keys : lv = Live
    BY DEF Live, Lists!Live
  <2>3. Linked(next, previous, timerIndex, lv, S, A)
    BY <2>1, <2>2 DEF Links
  <2>4. Sound(next, previous, timerIndex, lv)
    BY <2>3, LinkedSound
  <2>. QED
    BY <2>2, <2>4 DEF Sound, LinksSound, LinksInv
<1>. QED
  BY <1>1, LinksInvAlways, PTL

-----------------------------------------------------------------------------
(* The refinement. *)

Goes(k) == Lists!Place(expireTime[k] - currentTime)

\* Between walks the wheel is read off the lists.
AtRest ==
    \A S, A : LinksInv /\ ~walking /\ Links(S, A) =>
        /\ A = {} /\ S \in [Heads -> SUBSET Keys]
        /\ DoneSlots = S /\ DoneExpireTime = expireTime
        /\ DonePosition = position /\ DoneCascade = cascade

\* During a walk the timers ahead count as handed out or linked again.
InWalk ==
    \A S, A : LinksInv /\ walking /\ Links(S, A) =>
        /\ A \in SUBSET Keys /\ S \in [Heads -> SUBSET Keys]
        /\ DoneSlots = [q \in Heads |-> S[q] \cup {k \in A : ~Due(k) /\ Goes(k) = q}]
        /\ DoneExpireTime =
              [k \in Keys |-> IF k \in A /\ Due(k) THEN Lists!Vacant ELSE expireTime[k]]
        /\ DonePosition = [position EXCEPT ![cascade] = Lists!NextPosition(@)]
        /\ DoneCascade = Lists!CascadeTo(cascade, DonePosition[cascade])

LEMMA ListsAre ==
    ASSUME NEW S, NEW A, Links(S, A)
    PROVE  /\ S \in [Heads -> SUBSET Keys] /\ A \in SUBSET Keys
           /\ \A q \in Heads : Chain(next[q]) = S[q]
           /\ Chain(timerIndex) = A /\ (timerIndex = Empty => A = {})
<1>1. Linked(next, previous, timerIndex, Live, S, A)
  BY DEF Links
<1>2. /\ S \in [Heads -> SUBSET Keys] /\ A \in SUBSET Keys
      /\ \A q \in Heads : ChainIn(next, next[q]) = S[q]
      /\ ChainIn(next, timerIndex) = A /\ (timerIndex = Empty => A = {})
  BY <1>1, LinkedLists
<1>. QED
  BY <1>2, ChainIsChainIn

LEMMA AtRestHolds == AtRest
<1>. SUFFICES ASSUME NEW S, NEW A, LinksInv, ~walking, Links(S, A)
              PROVE  /\ A = {} /\ S \in [Heads -> SUBSET Keys]
                     /\ DoneSlots = S /\ DoneExpireTime = expireTime
                     /\ DonePosition = position /\ DoneCascade = cascade
  BY DEF AtRest
<1>1. A = {} /\ S \in [Heads -> SUBSET Keys] /\ \A q \in Heads : Chain(next[q]) = S[q]
  BY ListsAre DEF LinksInv
<1>2. Ahead = {}
  BY DEF Ahead
<1>3. DoneSlots = [q \in Heads |-> S[q]]
  BY <1>1, <1>2 DEF DoneSlots
<1>4. DoneExpireTime = [k \in Keys |-> expireTime[k]]
  BY <1>2 DEF DoneExpireTime
<1>. QED
  BY <1>1, <1>3, <1>4 DEF DonePosition, DoneCascade, LinksInv

LEMMA InWalkHolds == InWalk
<1>. SUFFICES ASSUME NEW S, NEW A, LinksInv, walking, Links(S, A)
              PROVE  /\ A \in SUBSET Keys /\ S \in [Heads -> SUBSET Keys]
                     /\ DoneSlots =
                          [q \in Heads |-> S[q] \cup {k \in A : ~Due(k) /\ Goes(k) = q}]
                     /\ DoneExpireTime =
                          [k \in Keys |-> IF k \in A /\ Due(k) THEN Lists!Vacant ELSE expireTime[k]]
                     /\ DonePosition = [position EXCEPT ![cascade] = Lists!NextPosition(@)]
                     /\ DoneCascade = Lists!CascadeTo(cascade, DonePosition[cascade])
  BY DEF InWalk
<1>1. /\ A \in SUBSET Keys /\ S \in [Heads -> SUBSET Keys]
      /\ \A q \in Heads : Chain(next[q]) = S[q]
      /\ Ahead = A
  BY ListsAre DEF Ahead
<1>2. DoneSlots = [q \in Heads |-> S[q] \cup {k \in A : ~Due(k) /\ Goes(k) = q}]
  BY <1>1 DEF DoneSlots, Goes
<1>. QED
  BY <1>1, <1>2 DEF DoneExpireTime, DonePosition, DoneCascade

\* The same of the state after a step.
LEMMA DoneAfter == AtRest' /\ InWalk'
BY AtRestHolds, InWalkHolds, PTL

LEMMA PlaceMapped ==
    ASSUME DonePosition = position
    PROVE  \A d : Wheel!Place(d) = Lists!Place(d)
BY DEF Wheel!Place, Wheel!LevelFor, Wheel!SlotFor, Wheel!SaturatingPred, Wheel!Span, Wheel!Levels,
       Lists!Place, Lists!LevelFor, Lists!SlotFor, Lists!SaturatingPred, Lists!Span, Lists!Levels

LEMMA GoesAfter ==
    ASSUME UNCHANGED <<position, currentTime>>, NEW k, expireTime'[k] = expireTime[k]
    PROVE  Goes(k)' = Goes(k) /\ Due(k)' = Due(k)
BY DEF Goes, Due, Lists!Place, Lists!LevelFor, Lists!SlotFor, Lists!SaturatingPred,
       Lists!Span, Lists!Levels

LEMMA InitMapped == Init => Wheel!Init
<1>. SUFFICES ASSUME Init PROVE Wheel!Init
  OBVIOUS
<1>1. PICK S, A : LinksInv /\ Links(S, A)
  BY InitLinksInv DEF LinksInv
<1>2. ~walking
  BY DEF Init
<1>3. /\ DoneSlots = S /\ DoneExpireTime = expireTime
      /\ DonePosition = position /\ DoneCascade = cascade
  BY <1>1, <1>2, AtRestHolds DEF AtRest
<1>4. \A q \in Heads : S[q] = {}
  <2>1. Live = {}
    BY DEF Init, Live, Lists!Live
  <2>. QED
    BY <1>1, <2>1, LinkedLists DEF Links
<1>5. S = [q \in Levels \X Slots |-> {}]
  BY <1>1, <1>4, ListsAre DEF Heads
<1>. QED
  BY <1>3, <1>5 DEF Init, Wheel!Init, Wheel!Levels, Wheel!Slots, Wheel!Vacant, Wheel!Idle,
                    Lists!Vacant, Lists!Idle, Levels, Slots

LEMMA InsertMapped ==
    ASSUME LinksInv, LinksInv', NEW k \in Keys, NEW delta \in Nat, Insert(k, delta)
    PROVE  DoneCascade = Wheel!Idle /\ Wheel!Insert(k, delta)
<1>1. PICK S, A : Links(S, A)
  BY DEF LinksInv
<1>2. ~walking /\ ~walking'
  BY Constants DEF Insert, LinksInv
<1>3. /\ A = {} /\ DoneSlots = S /\ DoneExpireTime = expireTime
      /\ DonePosition = position /\ DoneCascade = cascade
  BY <1>1, <1>2, AtRestHolds DEF AtRest
<1>4. PICK q : q = Lists!Place(delta)
  OBVIOUS
<1>5. PICK T : T = [S EXCEPT ![q] = @ \cup {k}]
  OBVIOUS
<1>6. Links(T, A)'
  BY <1>1, <1>4, <1>5, InsertLinks
<1>7. /\ DoneSlots' = T /\ DoneExpireTime' = expireTime'
      /\ DonePosition' = position' /\ DoneCascade' = cascade'
  BY <1>2, <1>6, DoneAfter DEF AtRest
<1>8. Wheel!Place(delta) = q
  BY <1>3, <1>4, PlaceMapped
<1>9. k \notin Wheel!Live
  BY <1>3 DEF Insert, Live, Lists!Live, Lists!Vacant, Wheel!Live, Wheel!Vacant
<1>10. DoneSlots' = [DoneSlots EXCEPT ![Wheel!Place(delta)] = @ \cup {k}]
  BY <1>3, <1>5, <1>7, <1>8
<1>. QED
  BY <1>3, <1>7, <1>9, <1>10 DEF Insert, Wheel!Insert, Wheel!Idle, Lists!Idle

LEMMA StopMapped ==
    ASSUME LinksInv, LinksInv', NEW k \in Keys, StopTimer(k)
    PROVE  Wheel!StopTimer(k)
<1>1. PICK S, A : Links(S, A)
  BY DEF LinksInv
<1>2. ~walking /\ ~walking'
  BY Constants DEF StopTimer, LinksInv
<1>3. /\ A = {} /\ DoneSlots = S /\ DoneExpireTime = expireTime
      /\ DonePosition = position /\ DoneCascade = cascade
  BY <1>1, <1>2, AtRestHolds DEF AtRest
<1>4. PICK T : T = [q \in Heads |-> S[q] \ {k}]
  OBVIOUS
<1>5. Links(T, A)'
  BY <1>1, <1>4, StopLinks
<1>6. /\ DoneSlots' = T /\ DoneExpireTime' = expireTime'
      /\ DonePosition' = position' /\ DoneCascade' = cascade'
  BY <1>2, <1>5, DoneAfter DEF AtRest
<1>7. DoneSlots' = [q \in Wheel!Levels \X Wheel!Slots |-> DoneSlots[q] \ {k}]
  BY <1>3, <1>4, <1>6 DEF Heads, Levels, Slots, Wheel!Levels, Wheel!Slots
<1>. QED
  BY <1>3, <1>6, <1>7 DEF StopTimer, Live, Lists!Live, Lists!Vacant, Lists!Idle,
                          Wheel!StopTimer, Wheel!Live, Wheel!Vacant, Wheel!Idle

LEMMA BeginTickMapped ==
    ASSUME LinksInv, LinksInv', BeginTick
    PROVE  Wheel!BeginTick
<1>1. PICK S, A : Links(S, A)
  BY DEF LinksInv
<1>2. ~walking /\ ~walking'
  BY Constants DEF BeginTick, LinksInv
<1>3. /\ DoneSlots = S /\ DoneExpireTime = expireTime
      /\ DonePosition = position /\ DoneCascade = cascade
  BY <1>1, <1>2, AtRestHolds DEF AtRest
<1>4. Links(S, A)'
  BY <1>1 DEF BeginTick, Links, Live, Lists!Live
<1>5. /\ DoneSlots' = S /\ DoneExpireTime' = expireTime'
      /\ DonePosition' = position' /\ DoneCascade' = cascade'
  BY <1>2, <1>4, DoneAfter DEF AtRest
<1>. QED
  BY <1>3, <1>5 DEF BeginTick, Wheel!BeginTick, Wheel!Idle, Lists!Idle

\* Taking the list off its head is the step of TimerWheel.
LEMMA DetachMapped ==
    ASSUME LinksInv, LinksInv', NEW l \in Levels, Detach(l)
    PROVE  Wheel!ProcessLevel(l)
<1>1. PICK S, A : Links(S, A)
  BY DEF LinksInv
<1>2. ~walking /\ walking'
  BY DEF Detach
<1>3. /\ A = {} /\ S \in [Heads -> SUBSET Keys] /\ DoneSlots = S /\ DoneExpireTime = expireTime
      /\ DonePosition = position /\ DoneCascade = cascade
  BY <1>1, <1>2, AtRestHolds DEF AtRest
<1>4. PICK q : q = <<l, position[l]>>
  OBVIOUS
<1>5. PICK T, B : T = [S EXCEPT ![q] = {}] /\ B = S[q]
  OBVIOUS
<1>6. q \in Heads /\ Links(T, B)'
  BY <1>1, <1>4, <1>5, DetachLinks
<1>7. /\ DoneSlots' = [r \in Heads |-> T[r] \cup {k \in B : ~Due(k)' /\ Goes(k)' = r}]
      /\ DoneExpireTime' =
            [k \in Keys |-> IF k \in B /\ Due(k)' THEN Lists!Vacant ELSE expireTime'[k]]
      /\ DonePosition' = [position' EXCEPT ![cascade'] = Lists!NextPosition(@)]
      /\ DoneCascade' = Lists!CascadeTo(cascade', DonePosition'[cascade'])
  BY <1>2, <1>6, DoneAfter DEF InWalk
<1>8. \A k : Goes(k)' = Goes(k) /\ Due(k)' = Due(k)
  BY GoesAfter DEF Detach
<1>9. Wheel!Detached(l) = B
  BY <1>3, <1>4, <1>5 DEF Wheel!Detached
<1>10. \A k : k \in Wheel!Due(l) <=> k \in B /\ Due(k)
  BY <1>3, <1>9 DEF Wheel!Due, Due
<1>11. \A k : Wheel!Place(DoneExpireTime[k] - currentTime) = Goes(k)
  BY <1>3, PlaceMapped DEF Goes
<1>12. \A r : Wheel!Relinked(l, r) = {k \in B : ~Due(k) /\ Goes(k) = r}
  BY <1>9, <1>10, <1>11 DEF Wheel!Relinked
<1>13. DoneSlots' = [r \in Wheel!Levels \X Wheel!Slots |->
                       (IF r = <<l, DonePosition[l]>> THEN {} ELSE DoneSlots[r])
                           \cup Wheel!Relinked(l, r)]
  <2>1. \A r \in Heads : T[r] = IF r = <<l, DonePosition[l]>> THEN {} ELSE DoneSlots[r]
    BY <1>3, <1>4, <1>5
  <2>2. \A r \in Heads : {k \in B : ~Due(k)' /\ Goes(k)' = r} = Wheel!Relinked(l, r)
    BY <1>8, <1>12
  <2>3. DoneSlots' = [r \in Heads |->
                       (IF r = <<l, DonePosition[l]>> THEN {} ELSE DoneSlots[r])
                           \cup Wheel!Relinked(l, r)]
    BY <1>7, <2>1, <2>2
  <2>. QED
    BY <2>3 DEF Heads, Levels, Slots, Wheel!Levels, Wheel!Slots
<1>14. DoneExpireTime' =
          [k \in Keys |-> IF k \in Wheel!Due(l) THEN Wheel!Vacant ELSE DoneExpireTime[k]]
  <2>1. expireTime' = DoneExpireTime
    BY <1>3 DEF Detach
  <2>. QED
    BY <1>7, <1>8, <1>10, <2>1 DEF Wheel!Vacant, Lists!Vacant
<1>15. DonePosition' = [DonePosition EXCEPT ![l] = Wheel!NextPosition(@)]
  BY <1>3, <1>7 DEF Detach, Wheel!NextPosition, Lists!NextPosition
<1>16. DoneCascade' = Wheel!CascadeTo(l, Wheel!NextPosition(DonePosition[l]))
  <2>1. DonePosition'[l] = Wheel!NextPosition(DonePosition[l])
    BY <1>3, <1>15 DEF LinksInv, TypeOK
  <2>. QED
    BY <1>7, <2>1 DEF Detach, Wheel!CascadeTo, Lists!CascadeTo, Wheel!Idle, Lists!Idle
<1>. QED
  BY <1>3, <1>13, <1>14, <1>15, <1>16 DEF Detach, Wheel!ProcessLevel

\* Handing out a due timer changes nothing that was not done already.
LEMMA ExpireMapped ==
    ASSUME LinksInv, LinksInv', ExpireEntry
    PROVE  UNCHANGED Wheel!vars
<1>1. PICK S, A : Links(S, A)
  BY DEF LinksInv
<1>2. walking /\ walking'
  BY DEF ExpireEntry
<1>3. /\ A \in SUBSET Keys
      /\ DoneSlots = [q \in Heads |-> S[q] \cup {j \in A : ~Due(j) /\ Goes(j) = q}]
      /\ DoneExpireTime =
            [j \in Keys |-> IF j \in A /\ Due(j) THEN Lists!Vacant ELSE expireTime[j]]
      /\ DonePosition = [position EXCEPT ![cascade] = Lists!NextPosition(@)]
      /\ DoneCascade = Lists!CascadeTo(cascade, DonePosition[cascade])
  BY <1>1, <1>2, InWalkHolds DEF InWalk
<1>4. PICK k, B : k = timerIndex /\ B = A \ {k}
  OBVIOUS
<1>5. k \in A /\ Links(S, B)'
  BY <1>1, <1>4, ExpireLinks
<1>6. /\ DoneSlots' = [q \in Heads |-> S[q] \cup {j \in B : ~Due(j)' /\ Goes(j)' = q}]
      /\ DoneExpireTime' =
            [j \in Keys |-> IF j \in B /\ Due(j)' THEN Lists!Vacant ELSE expireTime'[j]]
      /\ DonePosition' = [position' EXCEPT ![cascade'] = Lists!NextPosition(@)]
      /\ DoneCascade' = Lists!CascadeTo(cascade', DonePosition'[cascade'])
  BY <1>2, <1>5, DoneAfter DEF InWalk
<1>7. Due(k) /\ expireTime'[k] = Lists!Vacant /\ \A j \in Keys \ {k} : expireTime'[j] = expireTime[j]
  BY <1>3, <1>4, <1>5 DEF ExpireEntry, LinksInv
<1>8. \A j \in Keys \ {k} : Goes(j)' = Goes(j) /\ Due(j)' = Due(j)
  BY <1>7, GoesAfter DEF ExpireEntry
<1>9. DoneSlots' = DoneSlots
  <2>1. \A q \in Heads : {j \in B : ~Due(j)' /\ Goes(j)' = q} = {j \in A : ~Due(j) /\ Goes(j) = q}
    BY <1>3, <1>4, <1>7, <1>8
  <2>. QED
    BY <1>3, <1>6, <2>1
<1>10. DoneExpireTime' = DoneExpireTime
  BY <1>3, <1>4, <1>5, <1>6, <1>7, <1>8
<1>11. DonePosition' = DonePosition /\ DoneCascade' = DoneCascade /\ currentTime' = currentTime
  BY <1>3, <1>6 DEF ExpireEntry
<1>. QED
  BY <1>9, <1>10, <1>11 DEF Wheel!vars

\* Nor does linking again a timer that is not due.
LEMMA RelinkMapped ==
    ASSUME LinksInv, LinksInv', RelinkEntry
    PROVE  UNCHANGED Wheel!vars
<1>1. PICK S, A : Links(S, A)
  BY DEF LinksInv
<1>2. walking /\ walking'
  BY DEF RelinkEntry
<1>3. /\ A \in SUBSET Keys /\ S \in [Heads -> SUBSET Keys]
      /\ DoneSlots = [q \in Heads |-> S[q] \cup {j \in A : ~Due(j) /\ Goes(j) = q}]
      /\ DoneExpireTime =
            [j \in Keys |-> IF j \in A /\ Due(j) THEN Lists!Vacant ELSE expireTime[j]]
      /\ DonePosition = [position EXCEPT ![cascade] = Lists!NextPosition(@)]
      /\ DoneCascade = Lists!CascadeTo(cascade, DonePosition[cascade])
  BY <1>1, <1>2, InWalkHolds DEF InWalk
<1>4. PICK k, B : k = timerIndex /\ B = A \ {k}
  OBVIOUS
<1>5. PICK q : q = Goes(k)
  OBVIOUS
<1>6. PICK T : T = [S EXCEPT ![q] = @ \cup {k}]
  OBVIOUS
<1>7. k \in A /\ q \in Heads /\ Links(T, B)'
  BY <1>1, <1>4, <1>5, <1>6, RelinkLinks DEF Goes
<1>8. /\ DoneSlots' = [r \in Heads |-> T[r] \cup {j \in B : ~Due(j)' /\ Goes(j)' = r}]
      /\ DoneExpireTime' =
            [j \in Keys |-> IF j \in B /\ Due(j)' THEN Lists!Vacant ELSE expireTime'[j]]
      /\ DonePosition' = [position' EXCEPT ![cascade'] = Lists!NextPosition(@)]
      /\ DoneCascade' = Lists!CascadeTo(cascade', DonePosition'[cascade'])
  BY <1>2, <1>7, DoneAfter DEF InWalk
<1>9. ~Due(k) /\ expireTime' = expireTime
  BY <1>4 DEF RelinkEntry
<1>10. \A j : Goes(j)' = Goes(j) /\ Due(j)' = Due(j)
  BY <1>9, GoesAfter DEF RelinkEntry
<1>11. DoneSlots' = DoneSlots
  <2>1. ASSUME NEW r \in Heads
        PROVE  T[r] \cup {j \in B : ~Due(j)' /\ Goes(j)' = r}
                 = S[r] \cup {j \in A : ~Due(j) /\ Goes(j) = r}
    <3>1. T[r] = IF r = q THEN S[r] \cup {k} ELSE S[r]
      BY <1>3, <1>6, <1>7
    <3>2. {j \in B : ~Due(j)' /\ Goes(j)' = r}
             = {j \in A : ~Due(j) /\ Goes(j) = r} \ {k}
      BY <1>4, <1>10
    <3>3. k \in {j \in A : ~Due(j) /\ Goes(j) = r} <=> r = q
      BY <1>5, <1>7, <1>9
    <3>. QED
      BY <3>1, <3>2, <3>3
  <2>. QED
    BY <1>3, <1>8, <2>1
<1>12. DoneExpireTime' = DoneExpireTime
  BY <1>3, <1>4, <1>8, <1>9, <1>10
<1>13. DonePosition' = DonePosition /\ DoneCascade' = DoneCascade /\ currentTime' = currentTime
  BY <1>3, <1>8 DEF RelinkEntry
<1>. QED
  BY <1>11, <1>12, <1>13 DEF Wheel!vars

\* At its end nothing is ahead of the walk any more.
LEMMA EndLevelMapped ==
    ASSUME LinksInv, LinksInv', NEW l \in Levels, EndLevel(l)
    PROVE  UNCHANGED Wheel!vars
<1>1. PICK S, A : Links(S, A)
  BY DEF LinksInv
<1>2. walking /\ ~walking' /\ timerIndex = Empty /\ cascade = l
  BY DEF EndLevel
<1>3. /\ S \in [Heads -> SUBSET Keys]
      /\ DoneSlots = [q \in Heads |-> S[q] \cup {j \in A : ~Due(j) /\ Goes(j) = q}]
      /\ DoneExpireTime =
            [j \in Keys |-> IF j \in A /\ Due(j) THEN Lists!Vacant ELSE expireTime[j]]
      /\ DonePosition = [position EXCEPT ![cascade] = Lists!NextPosition(@)]
      /\ DoneCascade = Lists!CascadeTo(cascade, DonePosition[cascade])
  BY <1>1, <1>2, InWalkHolds DEF InWalk
<1>4. A = {}
  BY <1>1, <1>2, ListsAre
<1>5. Links(S, A)'
  BY <1>1 DEF EndLevel, Links, Live, Lists!Live
<1>6. /\ DoneSlots' = S /\ DoneExpireTime' = expireTime'
      /\ DonePosition' = position' /\ DoneCascade' = cascade'
  BY <1>2, <1>5, DoneAfter DEF AtRest
<1>7. DoneSlots = S
  BY <1>3, <1>4
<1>8. DoneExpireTime = expireTime
  BY <1>3, <1>4 DEF LinksInv
<1>9. DonePosition = position' /\ DonePosition[l] = Lists!NextPosition(position[l])
  BY <1>2, <1>3 DEF EndLevel, LinksInv, TypeOK
<1>. QED
  BY <1>2, <1>3, <1>6, <1>7, <1>8, <1>9 DEF EndLevel, Wheel!vars

LEMMA NextMapped == LinksInv /\ LinksInv' /\ [Next]_vars => [Wheel!Next]_Wheel!vars
<1>. SUFFICES ASSUME LinksInv, LinksInv', [Next]_vars
              PROVE  [Wheel!Next]_Wheel!vars
  OBVIOUS
<1>1. ASSUME NEW k \in Keys, NEW i \in Intervals, StartTimer(k, i)
      PROVE  Wheel!Next
  BY <1>1, InsertMapped, Constants DEF StartTimer, Wheel!StartTimer, Wheel!Next
<1>2. ASSUME NEW k \in Keys, NEW i \in Intervals, StartTimerAbsolute(k, currentTime + i)
      PROVE  Wheel!Next
  <2>1. i \in Nat /\ (currentTime + i) - currentTime = i
    BY Constants DEF LinksInv
  <2>2. currentTime + i > currentTime /\ Insert(k, i)
    BY <1>2, <2>1 DEF StartTimerAbsolute
  <2>3. DoneCascade = Wheel!Idle /\ Wheel!Insert(k, i)
    BY <2>1, <2>2, InsertMapped
  <2>4. Wheel!StartTimerAbsolute(k, currentTime + i)
    BY <2>1, <2>2, <2>3 DEF Wheel!StartTimerAbsolute
  <2>. QED
    BY <2>4 DEF Wheel!Next
<1>3. ASSUME NEW k \in Keys, StopTimer(k)
      PROVE  Wheel!Next
  BY <1>3, StopMapped DEF Wheel!Next
<1>4. CASE BeginTick
  BY <1>4, BeginTickMapped DEF Wheel!Next
<1>5. ASSUME NEW l \in Levels, Detach(l)
      PROVE  Wheel!Next
  BY <1>5, DetachMapped DEF Wheel!Next, Wheel!Levels, Levels
<1>6. ASSUME NEW l \in Levels, EndLevel(l)
      PROVE  UNCHANGED Wheel!vars
  BY <1>6, EndLevelMapped
<1>7. CASE ExpireEntry
  BY <1>7, ExpireMapped
<1>8. CASE RelinkEntry
  BY <1>8, RelinkMapped
<1>9. CASE UNCHANGED vars
  BY <1>9 DEF vars, Wheel!vars, DoneSlots, DoneExpireTime, DonePosition, DoneCascade, Ahead,
              Chain, Due, Live, Lists!Live, Lists!Place, Lists!LevelFor, Lists!SlotFor,
              Lists!SaturatingPred, Lists!Span, Lists!Levels, Lists!NextPosition, Lists!CascadeTo
<1>. QED
  BY <1>1, <1>2, <1>3, <1>4, <1>5, <1>6, <1>7, <1>8, <1>9 DEF Next

\* The lists implement the sets of TimerWheel: no interleaving of insertion,
\* removal and re-linking during a walk of process_level loses, duplicates or
\* misplaces a timer.
THEOREM LinksAreATimerWheel == Spec => ImplementsTimerWheel
BY InitMapped, NextMapped, LinksInvAlways, PTL DEF Spec, ImplementsTimerWheel, Wheel!Spec
====
