------------------------- MODULE FeatureNodesProofs -------------------------
(* Proofs about the buffers, the references to them and the features they  *)
(* visit, for any number of buffers, sizes, features and interfaces.       *)
EXTENDS FeatureNodes, FiniteSetTheorems, TLAPS

-----------------------------------------------------------------------------
(* The stores of get_buffers cover the n references asked for, and stay    *)
(* within an array whose capacity is a multiple of eight, for every n.     *)
LEMMA StoredCovers ==
  ASSUME NEW n \in Nat
  PROVE  /\ Stored(n) \in Nat
         /\ n <= Stored(n)
         /\ \A k \in Nat : n <= 8 * k => Stored(n) <= 8 * k
<1> DEFINE r == RoundUp8(n)
<1>1. PICK q \in Nat : r = 8 * q /\ n <= r /\ r < n + 8
  BY DEF RoundUp8
<1>2. RestAfter64(n) = r % 64 /\ r % 64 \in 0..63 /\ r % 64 <= r
  BY <1>1 DEF RestAfter64
<1>3. PICK m \in Nat : r % 64 = 8 * m
  <2>1. r % 64 = 8 * (q - 8 * (r \div 64))
    BY <1>1
  <2>2. q - 8 * (r \div 64) \in Nat
    BY <1>1
  <2> QED BY <2>1, <2>2
<1>4. m \in 0..7
  BY <1>2, <1>3
<1>5. RestAfter16(n) \in {0, 8}
  BY <1>2, <1>3, <1>4 DEF RestAfter32, RestAfter16
<1>6. Stored(n) = r
  BY <1>1, <1>5 DEF Stored, LastStore
<1> QED BY <1>1, <1>6

(* get_buffers stores a reference to every buffer of a frame, and none     *)
(* beyond the array it writes to, whatever the length and the capacity.    *)
THEOREM LanesAlwaysFit == Spec => []LanesFitFrames
<1>1. LanesFitFrames
  <2> SUFFICES ASSUME NEW n \in 0..FrameSize PROVE Stored(n) \in n..FrameSize
    BY DEF LanesFitFrames
  <2>1. PICK k \in Nat : FrameSize = 8 * k
    BY BuffersAssumption
  <2>2. n \in Nat /\ n <= 8 * k
    BY <2>1
  <2> QED BY <2>1, <2>2, StoredCovers
<1> QED BY <1>1, PTL

(* get_buffers gives every index of a frame the address of its buffer: no  *)
(* reference of a frame is one that was never stored.                      *)
THEOREM FrameReferences ==
  ASSUME NEW from \in Seq(Indices)
  PROVE  GetBuffers(from) = [i \in 1..Len(from) |-> Address(from[i])]
<1>1. Len(from) <= Stored(Len(from)) /\ Stored(Len(from)) \in Nat
  BY StoredCovers
<1>2. [i \in 1..Len(from) |-> IF i <= Stored(Len(from)) THEN Address(from[i]) ELSE -1]
        = [i \in 1..Len(from) |-> Address(from[i])]
  BY <1>1
<1>3. \A i \in 1..Len(from) : Address(from[i]) \in Int
  <2> SUFFICES ASSUME NEW i \in 1..Len(from) PROVE Address(from[i]) \in Int
    OBVIOUS
  <2>1. from[i] \in Indices
    OBVIOUS
  <2>2. from[i] \in Nat
    BY <2>1, BuffersAssumption
  <2> QED BY <2>2, BuffersAssumption DEF Address
<1>4. [i \in 1..Len(from) |-> Address(from[i])] \in Seq(Int)
  BY <1>3
<1> QED BY <1>2, <1>4 DEF GetBuffers

-----------------------------------------------------------------------------
Windows == [at : Int, len : Int]

PacketInv == packet \in [Indices -> Windows] /\ PacketInBuffer

LEMMA HandleStepPackets ==
  ASSUME PacketInv, HandleStep
  PROVE  PacketInv'
<1> USE BuffersAssumption DEF PacketInv, PacketInBuffer, Windows
<1>1. ASSUME NEW b \in Indices, AllocBuffer(b) PROVE PacketInv'
  BY <1>1 DEF AllocBuffer, NoData
<1>2. ASSUME NEW b \in Indices, DropBuffer(b) PROVE PacketInv'
  BY <1>2 DEF DropBuffer, NoData
<1>3. ASSUME NEW b \in Indices, IntoParts(b) \/ FromParts(b) PROVE PacketInv'
  BY <1>3 DEF IntoParts, FromParts
<1>4. ASSUME NEW b \in Indices, NEW l \in -PreData..DataSize, Advance(b, l) PROVE PacketInv'
  <2>1. /\ packet' = [c \in Indices |-> IF Address(c) = AddressU32(b) THEN Advanced(packet[c], l) ELSE packet[c]]
        /\ \A c \in Indices : Address(c) = AddressU32(b) => MayAdvance(packet[c], l)
    BY <1>4 DEF Advance, ThroughHandle
  <2> QED BY <2>1 DEF Advanced, MayAdvance, HasSpace
<1>5. ASSUME NEW b \in Indices, NEW n \in 1..DataSize, PutUninit(b, n) PROVE PacketInv'
  <2>1. /\ packet' = [c \in Indices |-> IF Address(c) = AddressU32(b) THEN Put(packet[c], n) ELSE packet[c]]
        /\ \A c \in Indices : Address(c) = AddressU32(b) => MayPut(packet[c], n)
    BY <1>5 DEF PutUninit, ThroughHandle
  <2> QED BY <2>1 DEF Put, MayPut
<1> QED BY <1>1, <1>2, <1>3, <1>4, <1>5 DEF HandleStep

(* What else can happen to packets: nothing, but for a buffer handed over. *)
LEMMA OtherSteps ==
  ASSUME [Next]_vars, ~HandleStep
  PROVE  \/ packet' = packet
         \/ \E b \in loose : packet' = [packet EXCEPT ![b] = NoData]
  BY DEF Next, vars, bufferVars, Enable, Disable, Receive, Run, EnqueueOne

LEMMA PacketsInv == Init => PacketInv
<1>1. PreData \in Nat /\ DataSize \in Nat
  BY BuffersAssumption
<1>2. Init => packet = [b \in Indices |-> NoData]
  BY DEF Init, BufferInit
<1> QED BY <1>1, <1>2 DEF PacketInv, PacketInBuffer, Windows, NoData

LEMMA NextPackets == PacketInv /\ [Next]_vars => PacketInv'
<1> SUFFICES ASSUME PacketInv, [Next]_vars PROVE PacketInv'
  OBVIOUS
<1>1. CASE HandleStep
  BY <1>1, HandleStepPackets
<1>2. CASE ~HandleStep
  BY <1>2, OtherSteps, BuffersAssumption DEF PacketInv, PacketInBuffer, Windows, NoData
<1> QED BY <1>1, <1>2

(* In any order of advance, put_uninit and changes of owner, a packet      *)
(* stays within its buffer's memory.                                       *)
THEOREM PacketsStayInBuffers == Spec => []PacketInBuffer
<1>1. PacketInv => PacketInBuffer
  BY DEF PacketInv
<1> QED BY <1>1, PacketsInv, NextPackets, PTL DEF Spec

-----------------------------------------------------------------------------
(* Two buffers have one address only if they are one buffer.               *)
LEMMA AddressInjective ==
  ASSUME NEW a \in Indices, NEW b \in Indices, Address(a) = Address(b)
  PROVE  a = b
<1>1. a \in Nat /\ b \in Nat /\ Line \in Nat /\ Line > 0 /\ a * Line = b * Line
  BY BuffersAssumption DEF Address
<1> QED BY <1>1, Z3

-----------------------------------------------------------------------------
(* A finite set of integers in order. *)
LEMMA InOrderLists ==
  ASSUME NEW S, IsFiniteSet(S), S \subseteq Int
  PROVE  /\ Cardinality(S) \in Nat
         /\ InOrder(S) \in [1..Cardinality(S) -> S]
         /\ \A j, k \in 1..Cardinality(S) : InOrder(S)[j] = InOrder(S)[k] => j = k
         /\ \A i \in S : \E k \in 1..Cardinality(S) : InOrder(S)[k] = i
<1> DEFINE n == Cardinality(S)
           upTo(i) == {j \in S : j <= i}
           rank == [i \in S |-> Cardinality(upTo(i))]
<1>1. n \in Nat /\ IsFiniteSet(1..n) /\ Cardinality(1..n) = n
  BY FS_CardinalityType, FS_Interval
<1>2. \A i \in S : IsFiniteSet(upTo(i)) /\ rank[i] \in 1..n
  <2> SUFFICES ASSUME NEW i \in S PROVE IsFiniteSet(upTo(i)) /\ rank[i] \in 1..n
    OBVIOUS
  <2>1. upTo(i) \in SUBSET S /\ upTo(i) # {}
    OBVIOUS
  <2>2. IsFiniteSet(upTo(i)) /\ Cardinality(upTo(i)) <= n
    BY <2>1, FS_Subset
  <2>3. Cardinality(upTo(i)) \in Nat /\ Cardinality(upTo(i)) # 0
    BY <2>1, <2>2, FS_CardinalityType, FS_EmptySet
  <2> QED BY <1>1, <2>2, <2>3
<1>3. ASSUME NEW i \in S, NEW j \in S, i < j PROVE rank[i] # rank[j]
  <2>0. i \in Int /\ j \in Int /\ ~ (j <= i) /\ \A k \in S : k \in Int
    BY <1>3
  <2>1. upTo(i) \in SUBSET upTo(j) /\ j \in upTo(j) /\ j \notin upTo(i)
    <3>1. \A k \in S : k <= i => k <= j
      BY <1>3, <2>0
    <3>2. upTo(i) \subseteq upTo(j)
      BY <3>1
    <3>3. j \in upTo(j)
      BY <2>0
    <3>4. j \notin upTo(i)
      BY <2>0
    <3> QED BY <3>2, <3>3, <3>4
  <2>2. Cardinality(upTo(i)) # Cardinality(upTo(j))
    <3> HIDE DEF upTo
    <3> QED BY <1>2, <2>1, FS_Subset
  <2> QED BY <2>2
<1>4. \A i, j \in S : rank[i] = rank[j] => i = j
  <2> SUFFICES ASSUME NEW i \in S, NEW j \in S, rank[i] = rank[j] PROVE i = j
    OBVIOUS
  <2>1. i \in Int /\ j \in Int
    OBVIOUS
  <2> HIDE DEF rank
  <2> QED BY <1>3, <2>1
<1>5. rank \in Injection(S, 1..n)
  <2>1. rank \in [S -> 1..n]
    BY <1>2
  <2> HIDE DEF rank, n
  <2> QED BY <1>4, <2>1 DEF Injection, IsInjective
<1>6. \A k \in 1..n : \E i \in S : rank[i] = k
  <2>1. rank \in Surjection(S, 1..n)
    <3> HIDE DEF rank, n
    <3> QED BY <1>1, <1>5, FS_Injection DEF n
  <2> HIDE DEF rank, n
  <2> QED BY <2>1 DEF Surjection
<1>7. \A k \in 1..n : InOrder(S)[k] \in S /\ rank[InOrder(S)[k]] = k
  <2> SUFFICES ASSUME NEW k \in 1..n PROVE InOrder(S)[k] \in S /\ rank[InOrder(S)[k]] = k
    OBVIOUS
  <2>1. InOrder(S)[k] = CHOOSE i \in S : Cardinality(upTo(i)) = k
    BY DEF InOrder
  <2>2. \E i \in S : Cardinality(upTo(i)) = k
    BY <1>6
  <2> QED BY <2>1, <2>2
<1>8. InOrder(S) \in [1..n -> S]
  BY <1>7 DEF InOrder
<1> HIDE DEF rank, n
<1>9. \A i \in S : \E k \in 1..n : InOrder(S)[k] = i
  BY <1>2, <1>4, <1>7
<1>10. \A j, k \in 1..n : InOrder(S)[j] = InOrder(S)[k] => j = k
  BY <1>7
<1> QED BY <1>1, <1>8, <1>9, <1>10 DEF n

-----------------------------------------------------------------------------
(* Frames. *)

(* No two positions of s hold the same. *)
Once(s) == \A i, j \in DOMAIN s : s[i] = s[j] => i = j

(* A node gets the buffers that are to go there, each once. *)
LEMMA SentToIs ==
  ASSUME NEW B, NEW from \in Seq(B), NEW nexts, NEW n
  PROVE  /\ SentTo(from, nexts, n) \in Seq(B)
         /\ ToSet(SentTo(from, nexts, n)) = {from[i] : i \in {i \in 1..Len(from) : nexts[i] = n}}
         /\ Once(from) => Once(SentTo(from, nexts, n))
<1> DEFINE S == {i \in 1..Len(from) : nexts[i] = n}
           at == InOrder(S)
           m == Cardinality(S)
           sent == SentTo(from, nexts, n)
<1>1. IsFiniteSet(S) /\ S \subseteq Int /\ S \subseteq 1..Len(from) /\ Len(from) \in Nat
  <2>1. Len(from) \in Nat /\ IsFiniteSet(1..Len(from)) /\ S \in SUBSET (1..Len(from))
    BY FS_Interval
  <2>2. IsFiniteSet(S)
    <3> HIDE DEF S
    <3> QED BY <2>1, FS_Subset
  <2> QED BY <2>1, <2>2
<1>2. sent = [k \in DOMAIN at |-> from[at[k]]]
  BY DEF SentTo
<1> HIDE DEF S, sent
<1>3. /\ m \in Nat
      /\ at \in [1..m -> S]
      /\ \A j, k \in 1..m : at[j] = at[k] => j = k
      /\ \A i \in S : \E k \in 1..m : at[k] = i
  BY <1>1, InOrderLists
<1> HIDE DEF at, m
<1>4. sent \in [1..m -> B] /\ \A k \in 1..m : sent[k] = from[at[k]]
  <2>1. \A i \in S : from[i] \in B
    BY <1>1
  <2>2. DOMAIN at = 1..m /\ \A k \in 1..m : at[k] \in S
    BY <1>3
  <2>3. sent = [k \in 1..m |-> from[at[k]]]
    BY <1>2, <2>2
  <2> QED BY <2>1, <2>2, <2>3
<1>5. sent \in Seq(B) /\ DOMAIN sent = 1..m
  BY <1>3, <1>4
<1>6. ToSet(sent) = {from[i] : i \in S}
  <2>1. \A k \in 1..m : sent[k] \in {from[i] : i \in S}
    BY <1>3, <1>4
  <2>2. \A i \in S : \E k \in 1..m : from[i] = sent[k]
    BY <1>3, <1>4
  <2>3. ToSet(sent) = {sent[k] : k \in 1..m}
    BY <1>5 DEF ToSet
  <2> QED BY <2>1, <2>2, <2>3
<1>7. ASSUME Once(from) PROVE Once(sent)
  <2> SUFFICES ASSUME NEW j \in 1..m, NEW k \in 1..m, sent[j] = sent[k]
               PROVE  j = k
    BY <1>5 DEF Once
  <2>0. at[j] \in S /\ at[k] \in S /\ DOMAIN from = 1..Len(from) /\ from[at[j]] = from[at[k]]
    BY <1>3, <1>4
  <2>1. at[j] \in DOMAIN from /\ at[k] \in DOMAIN from /\ from[at[j]] = from[at[k]]
    BY <1>1, <2>0
  <2>2. at[j] = at[k]
    BY <1>7, <2>1 DEF Once
  <2> QED BY <1>3, <2>2
<1> QED BY <1>5, <1>6, <1>7 DEF S, sent

LEMMA Joined ==
  ASSUME NEW B, NEW s \in Seq(B), NEW t \in Seq(B)
  PROVE  /\ s \o t \in Seq(B)
         /\ ToSet(s \o t) = ToSet(s) \cup ToSet(t)
         /\ Once(s) /\ Once(t) /\ ToSet(s) \cap ToSet(t) = {} => Once(s \o t)
<1>1. /\ s \o t \in Seq(B) /\ Len(s) \in Nat /\ Len(t) \in Nat
      /\ DOMAIN (s \o t) = 1..Len(s) + Len(t) /\ DOMAIN s = 1..Len(s) /\ DOMAIN t = 1..Len(t)
      /\ \A i \in 1..Len(s) : (s \o t)[i] = s[i]
      /\ \A i \in 1..Len(t) : (s \o t)[Len(s) + i] = t[i]
  OBVIOUS
<1>2. \A i \in 1..Len(s) + Len(t) : i \in 1..Len(s) \/ (i - Len(s) \in 1..Len(t) /\ i = Len(s) + (i - Len(s)))
  BY <1>1
<1>3. \A i \in 1..Len(t) : Len(s) + i \in 1..Len(s) + Len(t)
  BY <1>1
<1>4. \A i \in 1..Len(s) : i \in 1..Len(s) + Len(t)
  BY <1>1
<1>5. ToSet(s \o t) = ToSet(s) \cup ToSet(t)
  <2>1. ASSUME NEW i \in 1..Len(s) + Len(t) PROVE (s \o t)[i] \in ToSet(s) \cup ToSet(t)
    <3>1. CASE i \in 1..Len(s)
      BY <1>1, <3>1 DEF ToSet
    <3>2. CASE i - Len(s) \in 1..Len(t) /\ i = Len(s) + (i - Len(s))
      <4>1. PICK j \in 1..Len(t) : i = Len(s) + j
        BY <3>2
      <4> QED BY <1>1, <4>1 DEF ToSet
    <3> QED BY <1>2, <3>1, <3>2
  <2>2. \A i \in 1..Len(s) : s[i] \in ToSet(s \o t)
    BY <1>1, <1>4 DEF ToSet
  <2>3. \A i \in 1..Len(t) : t[i] \in ToSet(s \o t)
    BY <1>1, <1>3 DEF ToSet
  <2>4. ToSet(s \o t) \subseteq ToSet(s) \cup ToSet(t)
    BY <1>1, <2>1 DEF ToSet
  <2>5. ToSet(s) \subseteq ToSet(s \o t)
    BY <1>1, <2>2 DEF ToSet
  <2>6. ToSet(t) \subseteq ToSet(s \o t)
    BY <1>1, <2>3 DEF ToSet
  <2> QED BY <2>4, <2>5, <2>6
<1>6. ASSUME Once(s), Once(t), ToSet(s) \cap ToSet(t) = {} PROVE Once(s \o t)
  <2> SUFFICES ASSUME NEW i \in 1..Len(s) + Len(t), NEW j \in 1..Len(s) + Len(t),
                      (s \o t)[i] = (s \o t)[j]
               PROVE  i = j
    BY <1>1 DEF Once
  <2>1. \A k \in 1..Len(s) : s[k] \in ToSet(s)
    BY <1>1 DEF ToSet
  <2>2. \A k \in 1..Len(t) : t[k] \in ToSet(t)
    BY <1>1 DEF ToSet
  <2>3. CASE i \in 1..Len(s) /\ j \in 1..Len(s)
    BY <1>1, <1>6, <2>3 DEF Once
  <2>4. CASE i \in 1..Len(s) /\ j - Len(s) \in 1..Len(t)
    BY <1>1, <1>2, <1>6, <2>1, <2>2, <2>4
  <2>5. CASE i - Len(s) \in 1..Len(t) /\ j \in 1..Len(s)
    BY <1>1, <1>2, <1>6, <2>1, <2>2, <2>5
  <2>6. CASE i - Len(s) \in 1..Len(t) /\ j - Len(s) \in 1..Len(t)
    <3>1. t[i - Len(s)] = t[j - Len(s)]
      BY <1>1, <1>2, <2>6
    <3>2. i - Len(s) = j - Len(s)
      BY <1>1, <1>6, <2>6, <3>1 DEF Once
    <3> QED BY <1>1, <3>2
  <2> QED BY <1>2, <2>3, <2>4, <2>5, <2>6
<1> QED BY <1>1, <1>5, <1>6

(* Distribution over the nodes parts a frame. *)
LEMMA Parted ==
  ASSUME NEW from \in Seq(Indices), Once(from), NEW nexts
  PROVE  /\ \A n, k : ToSet(SentTo(from, nexts, n)) \cap ToSet(SentTo(from, nexts, k)) # {} => n = k
         /\ \A n : ToSet(SentTo(from, nexts, n)) \subseteq ToSet(from)
         /\ \A i \in 1..Len(from) : from[i] \in ToSet(SentTo(from, nexts, nexts[i]))
<1>1. DOMAIN from = 1..Len(from)
  OBVIOUS
<1>2. \A n : ToSet(SentTo(from, nexts, n)) = {from[i] : i \in {i \in 1..Len(from) : nexts[i] = n}}
  BY SentToIs
<1>3. ASSUME NEW n, NEW k, NEW x, x \in ToSet(SentTo(from, nexts, n)), x \in ToSet(SentTo(from, nexts, k))
      PROVE  n = k
  <2>1. PICK i \in 1..Len(from) : nexts[i] = n /\ from[i] = x
    BY <1>2, <1>3
  <2>2. PICK j \in 1..Len(from) : nexts[j] = k /\ from[j] = x
    BY <1>2, <1>3
  <2>3. i = j
    BY <1>1, <2>1, <2>2 DEF Once
  <2> QED BY <2>1, <2>2, <2>3
<1>4. \A n : ToSet(SentTo(from, nexts, n)) \subseteq ToSet(from)
  <2>1. \A i \in 1..Len(from) : from[i] \in ToSet(from)
    BY <1>1 DEF ToSet
  <2> QED BY <1>2, <2>1
<1>5. \A i \in 1..Len(from) : from[i] \in ToSet(SentTo(from, nexts, nexts[i]))
  BY <1>2
<1> QED BY <1>3, <1>4, <1>5

(* Frames that share no buffer, and hold none twice. *)
Apart(fr) ==
  /\ fr \in [Features -> Seq(Indices)]
  /\ \A f \in Features : Once(fr[f])
  /\ \A f, g \in Features : ToSet(fr[f]) \cap ToSet(fr[g]) # {} => f = g

Held(fr) == UNION {ToSet(fr[f]) : f \in Features}

(* fr2 has what fr has, and the buffers of `from`. *)
Merged(fr2, fr, from, nexts) ==
  \A g \in Features : ToSet(fr2[g]) = ToSet(fr[g]) \cup ToSet(SentTo(from, nexts, g))

(* A frame is joined to others that have none of its buffers. *)
LEMMA Distributed ==
  ASSUME NEW from \in Seq(Indices), Once(from), NEW nexts,
         NEW fr, Apart(fr), Held(fr) \cap ToSet(from) = {},
         NEW fr2, fr2 = [g \in Features |-> fr[g] \o SentTo(from, nexts, g)]
  PROVE  Apart(fr2) /\ Merged(fr2, fr, from, nexts)
<1> DEFINE sent(g) == SentTo(from, nexts, g)
<1>1. \A g : sent(g) \in Seq(Indices) /\ Once(sent(g))
  BY SentToIs
<1>2. /\ \A n, k : ToSet(sent(n)) \cap ToSet(sent(k)) # {} => n = k
      /\ \A n : ToSet(sent(n)) \subseteq ToSet(from)
  BY Parted
<1>3. \A g \in Features : fr2[g] = fr[g] \o sent(g)
  OBVIOUS
<1> HIDE DEF sent
<1>4. \A g \in Features : ToSet(fr[g]) \cap ToSet(from) = {}
  BY DEF Held
<1>5. \A g \in Features : /\ fr2[g] \in Seq(Indices) /\ Once(fr2[g])
                          /\ ToSet(fr2[g]) = ToSet(fr[g]) \cup ToSet(sent(g))
  <2> SUFFICES ASSUME NEW g \in Features
               PROVE  /\ fr2[g] \in Seq(Indices) /\ Once(fr2[g])
                      /\ ToSet(fr2[g]) = ToSet(fr[g]) \cup ToSet(sent(g))
    OBVIOUS
  <2>1. /\ fr[g] \in Seq(Indices) /\ Once(fr[g]) /\ sent(g) \in Seq(Indices) /\ Once(sent(g))
        /\ ToSet(fr[g]) \cap ToSet(sent(g)) = {}
    BY <1>1, <1>2, <1>4 DEF Apart
  <2>2. PICK s, u : s = fr[g] /\ u = sent(g)
    OBVIOUS
  <2>3. /\ s \o u \in Seq(Indices) /\ Once(s \o u)
        /\ ToSet(s \o u) = ToSet(s) \cup ToSet(u)
    BY <2>1, <2>2, Joined
  <2> QED BY <1>3, <2>2, <2>3
<1>6. \A f, g \in Features : ToSet(fr2[f]) \cap ToSet(fr2[g]) # {} => f = g
  BY <1>2, <1>4, <1>5 DEF Apart
<1>7. fr2 \in [Features -> Seq(Indices)]
  BY <1>3, <1>5
<1> QED BY <1>5, <1>6, <1>7 DEF Apart, Merged, sent

-----------------------------------------------------------------------------
(* Configuration strings. *)

LEMMA Least ==
  ASSUME NEW T, T \subseteq Nat, T # {}
  PROVE  \E m \in T : \A n \in T : m <= n
<1>1. PICK x \in T : \A y \in T : ~ (<<y, x>> \in OpToRel(<, Nat))
  BY NatLessThanWellFounded, WFMin
<1>2. \A y \in T : ~ (y < x)
  BY <1>1 DEF OpToRel
<1> QED BY <1>2

Weight(on, i) == IF Order[i] \in on THEN Words[Order[i]] + 1 ELSE 0

LEMMA OrderTypes ==
  /\ Len(Order) \in Nat /\ DOMAIN Order = 1..Len(Order)
  /\ \A i \in 1..Len(Order) : Order[i] \in Features
  /\ \A f \in Features : \E i \in 1..Len(Order) : Order[i] = f
  /\ \A i, j \in 1..Len(Order) : Order[i] = Order[j] => i = j
  /\ \A i \in 1..Len(Order) : \A on : Weight(on, i) \in Nat
<1>1. Len(Order) \in Nat /\ DOMAIN Order = 1..Len(Order)
  BY FeaturesAssumption
<1>2. /\ \A i \in 1..Len(Order) : Order[i] \in Features
      /\ \A f \in Features : \E i \in 1..Len(Order) : Order[i] = f
  BY <1>1 DEF Features, ToSet
<1>3. \A i \in 1..Len(Order) : \A on : Weight(on, i) \in Nat
  <2>1. \A f \in Features : Words[f] + 1 \in Nat
    BY FeaturesAssumption
  <2> QED BY <1>2, <2>1 DEF Weight
<1> QED BY <1>1, <1>2, <1>3, FeaturesAssumption

IsEnds(on, n, e) ==
  e = [i \in 0..n |-> IF i = 0 THEN 1 ELSE e[i - 1] + Weight(on, i)]

LEMMA EndsExist == \A on : \E e : IsEnds(on, Len(Order), e)
<1> SUFFICES ASSUME NEW on PROVE \E e : IsEnds(on, Len(Order), e)
  OBVIOUS
<1> DEFINE N == Len(Order)
           Bad == {n \in 0..N : ~ \E e : IsEnds(on, n, e)}
<1>1. SUFFICES ASSUME Bad # {} PROVE FALSE
  BY OrderTypes
<1>2. PICK n \in Bad : \A k \in Bad : n <= k
  <2>1. Bad \subseteq Nat
    BY OrderTypes
  <2> QED BY <1>1, <2>1, Least
<1>3. n \in 0..N /\ N \in Nat
  BY <1>2, OrderTypes
<1>4. CASE n = 0
  <2>1. IsEnds(on, 0, [i \in 0..0 |-> 1])
    BY DEF IsEnds
  <2> QED BY <1>2, <1>4, <2>1
<1>5. CASE n # 0
  <2>1. n - 1 \in 0..N /\ n - 1 \notin Bad
    BY <1>2, <1>3, <1>5
  <2>2. PICK e : IsEnds(on, n - 1, e)
    BY <2>1
  <2>3. PICK g : g = [i \in 0..n |-> IF i = n THEN e[n - 1] + Weight(on, n) ELSE e[i]]
    OBVIOUS
  <2>4. \A i \in 0..(n - 1) : e[i] = IF i = 0 THEN 1 ELSE e[i - 1] + Weight(on, i)
    BY <2>2 DEF IsEnds
  <2>5. \A i \in 0..(n - 1) : g[i] = e[i]
    BY <1>3, <1>5, <2>3
  <2>6. g[n] = g[n - 1] + Weight(on, n)
    BY <1>3, <1>5, <2>3, <2>5
  <2>7. \A i \in 0..n : g[i] = IF i = 0 THEN 1 ELSE g[i - 1] + Weight(on, i)
    <3> SUFFICES ASSUME NEW i \in 0..n
                 PROVE  g[i] = IF i = 0 THEN 1 ELSE g[i - 1] + Weight(on, i)
      OBVIOUS
    <3>1. CASE i = n
      BY <1>5, <2>6, <3>1
    <3>2. CASE i # n
      <4>1. i \in 0..(n - 1) /\ (i # 0 => i - 1 \in 0..(n - 1))
        BY <1>3, <3>2
      <4> QED BY <2>4, <2>5, <4>1
    <3> QED BY <3>1, <3>2
  <2>8. g = [i \in 0..n |-> IF i = 0 THEN 1 ELSE g[i - 1] + Weight(on, i)]
    BY <2>3, <2>7
  <2> QED BY <1>2, <2>8 DEF IsEnds
<1> QED BY <1>4, <1>5

LEMMA EndsIs ==
  ASSUME NEW on
  PROVE  /\ Ends(on) \in [0..Len(Order) -> Nat]
         /\ Ends(on)[0] = 1
         /\ \A i \in 1..Len(Order) : Ends(on)[i] = Ends(on)[i - 1] + Weight(on, i)
<1> DEFINE N == Len(Order)
           end == Ends(on)
<1>1. end = CHOOSE e : IsEnds(on, N, e)
  BY DEF Ends, IsEnds, Weight
<1>2. IsEnds(on, N, end)
  BY <1>1, EndsExist
<1> HIDE DEF end
<1>3. /\ DOMAIN end = 0..N /\ end = [i \in 0..N |-> end[i]]
      /\ \A i \in 0..N : end[i] = IF i = 0 THEN 1 ELSE end[i - 1] + Weight(on, i)
  BY <1>2 DEF IsEnds
<1>4. N \in Nat
  BY OrderTypes
<1> DEFINE Bad == {i \in 0..N : end[i] \notin Nat}
<1>5. Bad = {}
  <2> SUFFICES ASSUME Bad # {} PROVE FALSE
    OBVIOUS
  <2>1. Bad \subseteq Nat
    OBVIOUS
  <2>2. PICK i \in Bad : \A j \in Bad : i <= j
    BY <2>1, Least
  <2>3. i \in 1..N
    BY <1>3, <1>4, <2>2
  <2>4. end[i - 1] \in Nat
    BY <1>4, <2>2, <2>3
  <2>5. end[i] = end[i - 1] + Weight(on, i) /\ Weight(on, i) \in Nat
    BY <1>3, <2>3, OrderTypes
  <2>6. end[i] \in Nat
    BY <2>4, <2>5
  <2> QED BY <2>2, <2>6
<1>6. end \in [0..N -> Nat]
  BY <1>3, <1>5
<1>7. end[0] = 1 /\ \A i \in 1..N : end[i] = end[i - 1] + Weight(on, i)
  BY <1>3, <1>4
<1> QED BY <1>6, <1>7 DEF end

LEMMA EndsGrow ==
  ASSUME NEW on, NEW i \in 0..Len(Order)
  PROVE  \A j \in i..Len(Order) :
           /\ Ends(on)[i] <= Ends(on)[j]
           /\ (\A k \in (i + 1)..j : Order[k] \notin on) => Ends(on)[j] = Ends(on)[i]
<1> DEFINE N == Len(Order)
           end == Ends(on)
           none(j) == \A k \in (i + 1)..j : Order[k] \notin on
           Bad == {j \in i..N : ~ (end[i] <= end[j] /\ (none(j) => end[j] = end[i]))}
<1>1. /\ N \in Nat /\ \A j \in 0..N : end[j] \in Nat
      /\ \A j \in 1..N : end[j] = end[j - 1] + Weight(on, j) /\ Weight(on, j) \in Nat
  BY EndsIs, OrderTypes
<1> HIDE DEF end
<1>2. SUFFICES ASSUME Bad # {} PROVE FALSE
  BY DEF end
<1>3. Bad \subseteq Nat
  BY <1>1
<1>4. PICK j \in Bad : \A k \in Bad : j <= k
  BY <1>2, <1>3, Least
<1>5. j \in i..N /\ j # i
  <2>1. end[i] <= end[i]
    BY <1>1
  <2> QED BY <1>4, <2>1
<1>6. j - 1 \in i..N /\ j - 1 \notin Bad /\ j \in 1..N /\ i \in Nat /\ j \in Nat
  BY <1>1, <1>4, <1>5
<1>7. end[i] <= end[j - 1] /\ (none(j - 1) => end[j - 1] = end[i])
  BY <1>6
<1>8. end[j] = end[j - 1] + Weight(on, j) /\ Weight(on, j) \in Nat
      /\ end[j - 1] \in Nat /\ end[i] \in Nat
  BY <1>1, <1>6
<1>9. end[i] <= end[j]
  BY <1>7, <1>8
<1>10. ASSUME none(j) PROVE end[j] = end[i]
  <2>1. Order[j] \notin on
    BY <1>5, <1>6, <1>10
  <2>2. Weight(on, j) = 0
    BY <2>1 DEF Weight
  <2>3. none(j - 1)
    BY <1>6, <1>10
  <2> QED BY <1>7, <1>8, <2>2, <2>3
<1> QED BY <1>4, <1>9, <1>10

(* Two entries do not end at the same index, nor one where packets start. *)
LEMMA EndsApart ==
  ASSUME NEW on, NEW j \in 1..Len(Order), Order[j] \in on
  PROVE  /\ Ends(on)[j] = Ends(on)[j - 1] + Words[Order[j]] + 1
         /\ Ends(on)[j] \in 2..Ends(on)[Len(Order)]
         /\ \A i \in 0..(j - 1) : Ends(on)[i] < Ends(on)[j]
<1> DEFINE N == Len(Order)
           end == Ends(on)
<1>1. N \in Nat /\ (\A i \in 0..N : end[i] \in Nat) /\ end[0] = 1
  BY EndsIs, OrderTypes
<1>2. Words[Order[j]] \in Nat /\ end[j] = end[j - 1] + (Words[Order[j]] + 1)
  <2>1. \A f \in Features : Words[f] \in Nat
    BY FeaturesAssumption
  <2>2. end[j] = end[j - 1] + Weight(on, j)
    BY EndsIs
  <2> QED BY <2>1, <2>2, OrderTypes DEF Weight
<1>3. j \in 1..N /\ j - 1 \in 0..N /\ j \in 0..N /\ N \in j..N
  BY <1>1
<1>4. end[j] <= end[N]
  BY <1>3, EndsGrow
<1>5. \A i \in 0..(j - 1) : i \in 0..N /\ end[i] <= end[j - 1]
  <2> SUFFICES ASSUME NEW i \in 0..(j - 1) PROVE i \in 0..N /\ end[i] <= end[j - 1]
    OBVIOUS
  <2>1. i \in 0..N /\ j - 1 \in i..N
    BY <1>3
  <2> QED BY <2>1, EndsGrow
<1> HIDE DEF end
<1>6. \A i \in 0..(j - 1) : end[i] < end[j]
  BY <1>1, <1>2, <1>3, <1>5
<1>7. 0 \in 0..(j - 1)
  BY <1>3
<1>8. end[j] \in 2..end[N]
  BY <1>1, <1>3, <1>4, <1>6, <1>7
<1>9. end[j] = end[j - 1] + Words[Order[j]] + 1
  BY <1>1, <1>2, <1>3
<1> QED BY <1>6, <1>8, <1>9 DEF end

LEMMA EntriesApart ==
  ASSUME NEW on, NEW i \in 1..Len(Order), NEW j \in 1..Len(Order),
         Order[i] \in on, Order[j] \in on, Ends(on)[i] = Ends(on)[j]
  PROVE  i = j
<1>1. Len(Order) \in Nat /\ i \in Int /\ j \in Int
  BY OrderTypes
<1>2. Ends(on)[i] \in Nat
  BY <1>1, EndsIs
<1>3. CASE i < j
  <2>1. i \in 0..(j - 1)
    BY <1>1, <1>3
  <2> QED BY <1>2, <2>1, EndsApart
<1>4. CASE j < i
  <2>1. j \in 0..(i - 1)
    BY <1>1, <1>4
  <2> QED BY <1>2, <2>1, EndsApart
<1> QED BY <1>1, <1>3, <1>4

LEMMA LeastOf ==
  ASSUME NEW T, T \subseteq Nat, T # {}
  PROVE  Min(T) \in T /\ \A n \in T : Min(T) <= n
BY Least DEF Min

LEMMA NextOnIs ==
  ASSUME NEW on, NEW i \in 0..Len(Order)
  PROVE  \/ NextOn(on, i) = "end" /\ \A j \in (i + 1)..Len(Order) : Order[j] \notin on
         \/ \E j \in (i + 1)..Len(Order) :
              /\ NextOn(on, i) = Order[j] /\ Order[j] \in on
              /\ \A k \in (i + 1)..(j - 1) : Order[k] \notin on
<1> DEFINE later == {j \in (i + 1)..Len(Order) : Order[j] \in on}
<1>1. Len(Order) \in Nat /\ i \in Nat
  BY OrderTypes
<1>2. CASE later = {}
  <2>1. NextOn(on, i) = "end"
    BY <1>2 DEF NextOn
  <2> QED BY <1>2, <2>1
<1>3. CASE later # {}
  <2>1. later \subseteq Nat
    BY <1>1
  <2>2. PICK j : j = Min(later)
    OBVIOUS
  <2>3. j \in later /\ \A k \in later : j <= k
    BY <1>3, <2>1, <2>2, LeastOf
  <2>4. NextOn(on, i) = Order[j]
    BY <1>3, <2>2 DEF NextOn
  <2>5. \A k \in (i + 1)..(j - 1) : Order[k] \notin on
    <3> SUFFICES ASSUME NEW k \in (i + 1)..(j - 1), Order[k] \in on PROVE FALSE
      OBVIOUS
    <3>1. k \in (i + 1)..Len(Order) /\ ~ (j <= k)
      BY <1>1, <2>1, <2>3
    <3> QED BY <2>3, <3>1
  <2> QED BY <2>3, <2>4, <2>5
<1> QED BY <1>2, <1>3

(* The string at the end of an entry, and elsewhere. *)
LEMMA StringIs ==
  ASSUME NEW on
  PROVE  /\ Len(StringOf(on)) = Ends(on)[Len(Order)] /\ Ends(on)[Len(Order)] \in Nat \ {0}
         /\ StringOf(on)[1] = [node |-> "start", to |-> NextOn(on, 0)]
         /\ \A i \in 1..Len(Order) : Order[i] \in on =>
              /\ Ends(on)[i] \in 2..Len(StringOf(on))
              /\ StringOf(on)[Ends(on)[i]] = [node |-> Order[i], to |-> NextOn(on, i)]
         /\ \A k \in 1..Len(StringOf(on)) : StringOf(on)[k].node \in Features =>
              \E i \in 1..Len(Order) : Order[i] \in on /\ k = Ends(on)[i]
<1> DEFINE N == Len(Order)
           end == Ends(on)
           s == StringOf(on)
           entry(k) == {i \in 1..N : Order[i] \in on /\ end[i] = k}
           word(k) == IF k = 1 THEN [node |-> "start", to |-> NextOn(on, 0)]
                      ELSE IF entry(k) = {} THEN [node |-> "data", to |-> "data"]
                      ELSE [node |-> Order[Min(entry(k))], to |-> NextOn(on, Min(entry(k)))]
<1>1. N \in Nat /\ (\A i \in 0..N : end[i] \in Nat) /\ end[0] = 1 /\ end[0] <= end[N]
  <2>1. N \in Nat /\ (\A i \in 0..N : end[i] \in Nat) /\ end[0] = 1
    BY EndsIs, OrderTypes
  <2>2. 0 \in 0..N /\ N \in 0..N
    BY <2>1
  <2>3. end[0] <= end[N]
    BY <2>2, EndsGrow
  <2> QED BY <2>1, <2>3
<1>2. end[N] \in Nat \ {0}
  <2> HIDE DEF end
  <2> QED BY <1>1
<1>3. s = [k \in 1..end[N] |-> word(k)]
  BY DEF StringOf
<1>4. Len(s) = end[N] /\ \A k \in 1..end[N] : s[k] = word(k)
  <2> HIDE DEF end, word, s
  <2> QED BY <1>2, <1>3
<1>5. s[1] = [node |-> "start", to |-> NextOn(on, 0)]
  <2>1. 1 \in 1..end[N]
    BY <1>2
  <2> QED BY <1>4, <2>1
<1>6. ASSUME NEW i \in 1..N, Order[i] \in on
      PROVE  end[i] \in 2..Len(s) /\ s[end[i]] = [node |-> Order[i], to |-> NextOn(on, i)]
  <2>1. end[i] \in 2..end[N]
    BY <1>6, EndsApart
  <2>2. entry(end[i]) = {i}
    <3>1. \A j \in 1..N : Order[j] \in on /\ end[j] = end[i] => j = i
      BY <1>6, EntriesApart
    <3> QED BY <1>6, <3>1
  <2>3. Min(entry(end[i])) = i
    <3>1. {i} \subseteq Nat /\ {i} # {}
      BY <1>1
    <3>2. Min({i}) \in {i}
      BY <3>1, LeastOf
    <3> QED BY <2>2, <3>2
  <2>4. s[end[i]] = word(end[i]) /\ end[i] # 1 /\ entry(end[i]) # {}
    <3>1. end[i] \in 1..end[N] /\ end[i] # 1
      BY <1>2, <2>1
    <3> QED BY <1>4, <2>2, <3>1
  <2>5. word(end[i]) = [node |-> Order[i], to |-> NextOn(on, i)]
    BY <2>3, <2>4
  <2> QED BY <1>4, <2>1, <2>4, <2>5
<1>7. ASSUME NEW k \in 1..Len(s), s[k].node \in Features
      PROVE  \E i \in 1..N : Order[i] \in on /\ k = end[i]
  <2>1. s[k] = word(k)
    BY <1>4, <1>7
  <2>2. "start" \notin Features /\ "data" \notin Features
    BY FeaturesAssumption
  <2>3. entry(k) # {}
    BY <1>7, <2>1, <2>2
  <2> QED BY <2>3
<1> QED BY <1>2, <1>4, <1>5, <1>6, <1>7

(* The word at k is the one a node f looks for. *)
IsWordOf(s, f, k) == k \in 1..Len(s) /\ s[k].node = f

(* From the entry that ends at k, or from the start, packets go to the end *)
(* of the arc or to a feature whose entry comes next.                      *)
LEMMA EntryFollows ==
  ASSUME NEW on, NEW i \in 0..Len(Order), NEW f, f = NextOn(on, i)
  PROVE  \/ f = "end" /\ \A j \in (i + 1)..Len(Order) : Order[j] \notin on
         \/ /\ f \in Features /\ f \in on
            /\ Ends(on)[i] + Words[f] + 1 \in Nat
            /\ IsWordOf(StringOf(on), f, Ends(on)[i] + Words[f] + 1)
<1>1. CASE f = "end" /\ \A j \in (i + 1)..Len(Order) : Order[j] \notin on
  BY <1>1
<1>2. CASE \E j \in (i + 1)..Len(Order) :
              /\ f = Order[j] /\ Order[j] \in on
              /\ \A k \in (i + 1)..(j - 1) : Order[k] \notin on
  <2>1. PICK j \in (i + 1)..Len(Order) :
              /\ f = Order[j] /\ Order[j] \in on
              /\ \A k \in (i + 1)..(j - 1) : Order[k] \notin on
    BY <1>2
  <2>2. j \in 1..Len(Order) /\ j - 1 \in i..Len(Order) /\ Len(Order) \in Nat
    BY OrderTypes
  <2>3. Ends(on)[j - 1] = Ends(on)[i]
    BY <2>1, <2>2, EndsGrow
  <2>4. Ends(on)[j] = Ends(on)[i] + Words[f] + 1
    BY <2>1, <2>2, <2>3, EndsApart
  <2>5. Ends(on)[j] \in 2..Len(StringOf(on)) /\ StringOf(on)[Ends(on)[j]].node = f
    <3>1. /\ Ends(on)[j] \in 2..Len(StringOf(on))
          /\ StringOf(on)[Ends(on)[j]] = [node |-> Order[j], to |-> NextOn(on, j)]
      BY <2>1, <2>2, StringIs
    <3> QED BY <2>1, <3>1
  <2>6. f \in Features
    BY <2>1, <2>2, OrderTypes
  <2>7. Ends(on)[j] \in Nat
    BY <2>2, EndsIs
  <2>8. Ends(on)[j] \in 1..Len(StringOf(on))
    BY <2>5, <2>7, StringIs
  <2> QED BY <2>1, <2>4, <2>5, <2>6, <2>7, <2>8 DEF IsWordOf
<1> QED BY <1>1, <1>2, NextOnIs

(* A feature that is enabled has one entry, and one that is not has none. *)
LEMMA OneEntry ==
  ASSUME NEW on, NEW f \in Features, NEW k, IsWordOf(StringOf(on), f, k)
  PROVE  /\ f \in on
         /\ \E i \in 1..Len(Order) : k = Ends(on)[i] /\ StringOf(on)[k].to = NextOn(on, i)
         /\ \A j : IsWordOf(StringOf(on), f, j) => j = k
<1>1. \A j : IsWordOf(StringOf(on), f, j) =>
        \E i \in 1..Len(Order) : Order[i] \in on /\ j = Ends(on)[i] /\ Order[i] = f
  <2> SUFFICES ASSUME NEW j, IsWordOf(StringOf(on), f, j)
               PROVE  \E i \in 1..Len(Order) : Order[i] \in on /\ j = Ends(on)[i] /\ Order[i] = f
    OBVIOUS
  <2>1. j \in 1..Len(StringOf(on)) /\ StringOf(on)[j].node = f
    BY DEF IsWordOf
  <2>2. PICK i \in 1..Len(Order) : Order[i] \in on /\ j = Ends(on)[i]
    BY <2>1, StringIs
  <2>3. StringOf(on)[j] = [node |-> Order[i], to |-> NextOn(on, i)]
    BY <2>2, StringIs
  <2> QED BY <2>1, <2>2, <2>3
<1>2. PICK i \in 1..Len(Order) : Order[i] \in on /\ k = Ends(on)[i] /\ Order[i] = f
  BY <1>1
<1>3. StringOf(on)[k].to = NextOn(on, i)
  <2>1. StringOf(on)[k] = [node |-> Order[i], to |-> NextOn(on, i)]
    BY <1>2, StringIs
  <2> QED BY <2>1
<1>4. \A j : IsWordOf(StringOf(on), f, j) => j = k
  BY <1>1, <1>2, OrderTypes
<1> QED BY <1>2, <1>3, <1>4

-----------------------------------------------------------------------------
(* The features' own state. *)

(* Every buffer is in one place, and there once. *)
Owned ==
  /\ {pool, held, loose} \subseteq SUBSET Indices
  /\ pool \cap held = {} /\ pool \cap loose = {} /\ held \cap loose = {}
  /\ Apart(frames)
  /\ InFrames \cap (pool \cup held \cup loose) = {}
  /\ Indices \subseteq pool \cup held \cup loose \cup InFrames

Configured ==
  /\ enabled \in [Configs -> SUBSET Features]
  /\ heap = [c \in Configs |-> StringOf(enabled[c])]
  /\ meta \in [Indices -> [config : Configs, index : Nat]]
  /\ carried \subseteq InFrames
  /\ FollowsItsFeatures

FeaturesInv == PacketInv /\ Owned /\ Configured

LEMMA AtIs == \A b \in Indices : At(Address(b)) = b
<1> SUFFICES ASSUME NEW b \in Indices PROVE At(Address(b)) = b
  OBVIOUS
<1>1. At(Address(b)) \in Indices /\ Address(At(Address(b))) = Address(b)
  BY DEF At
<1> QED BY <1>1, AddressInjective

LEMMA NothingWaits ==
  ASSUME InFrames = {}, Apart(frames)
  PROVE  \A f \in Features : frames[f] = <<>>
<1> SUFFICES ASSUME NEW f \in Features PROVE frames[f] = <<>>
  OBVIOUS
<1>1. ToSet(frames[f]) = {} /\ frames[f] \in Seq(Indices)
  BY DEF InFrames, Apart
<1>2. PICK s \in Seq(Indices) : s = frames[f]
  BY <1>1
<1>3. s # <<>> => s[1] \in ToSet(s)
  BY DEF ToSet
<1> QED BY <1>1, <1>2, <1>3

(* A buffer at the entry of f is sent along the string to a node whose     *)
(* entry is next, or to the end.                                           *)
LEMMA FromItsEntry ==
  ASSUME Configured, NEW f \in Features, NEW b \in Indices, AtItsEntry(f, meta[b])
  PROVE  /\ f \in enabled[meta[b].config]
         /\ Moved(f, meta[b]) = [config |-> meta[b].config, index |-> NextWord(f, meta[b])]
         /\ \/ heap[meta[b].config][NextWord(f, meta[b])].to = "end"
            \/ \E g \in enabled[meta[b].config] \cap Features :
                 /\ heap[meta[b].config][NextWord(f, meta[b])].to = g
                 /\ AtItsEntry(g, Moved(f, meta[b]))
<1>1. PICK m : m = meta[b]
  OBVIOUS
<1>2. m \in [config : Configs, index : Nat] /\ m = [config |-> m.config, index |-> m.index]
  BY <1>1 DEF Configured
<1>3. PICK on : on = enabled[m.config]
  OBVIOUS
<1>4. PICK s : s = StringOf(on)
  OBVIOUS
<1>5. heap[m.config] = s
  BY <1>2, <1>3, <1>4 DEF Configured
<1>6. Words[f] \in Nat /\ NextWord(f, m) = m.index + Words[f] + 1
  BY FeaturesAssumption DEF NextWord
<1>7. PICK k \in Nat \ {0} : k = NextWord(f, m)
  BY <1>2, <1>6
<1>8. Len(s) \in Nat
  BY <1>4, StringIs
<1>9. k <= Len(s) /\ s[k].node = f
  BY <1>1, <1>5, <1>7 DEF AtItsEntry
<1>10. IsWordOf(StringOf(on), f, k)
  BY <1>4, <1>7, <1>8, <1>9 DEF IsWordOf
<1>11. PICK i \in 1..Len(Order) : k = Ends(on)[i] /\ s[k].to = NextOn(on, i)
  <2>1. \E i \in 1..Len(Order) : k = Ends(on)[i] /\ StringOf(on)[k].to = NextOn(on, i)
    BY <1>10, OneEntry
  <2> QED BY <1>4, <2>1
<1>12. f \in on
  BY <1>10, OneEntry
<1>13. Moved(f, m) = [config |-> m.config, index |-> k]
  <2>1. Min({k, Len(s) + 1}) = k
    <3>1. {k, Len(s) + 1} \subseteq Nat /\ {k, Len(s) + 1} # {}
      BY <1>8
    <3>2. Min({k, Len(s) + 1}) \in {k, Len(s) + 1} /\ Min({k, Len(s) + 1}) <= k
      BY <3>1, LeastOf
    <3> QED BY <1>8, <1>9, <3>2
  <2> QED BY <1>2, <1>5, <1>7, <2>1 DEF Moved
<1>14. \/ s[k].to = "end"
       \/ \E g \in on \cap Features : s[k].to = g /\ AtItsEntry(g, Moved(f, m))
  <2>1. PICK g : g = NextOn(on, i)
    OBVIOUS
  <2>2. i \in 0..Len(Order)
    BY OrderTypes
  <2>3. CASE g \in Features /\ g \in on /\ IsWordOf(StringOf(on), g, k + Words[g] + 1)
    <3>1. PICK n : n = k + Words[g] + 1
      OBVIOUS
    <3>2. n \in 1..Len(s) /\ s[n].node = g
      BY <1>4, <2>3, <3>1 DEF IsWordOf
    <3>3. NextWord(g, Moved(f, m)) = n /\ Moved(f, m).config = m.config
      BY <1>13, <3>1 DEF NextWord
    <3>4. AtItsEntry(g, Moved(f, m))
      BY <1>5, <1>8, <3>2, <3>3 DEF AtItsEntry
    <3> QED BY <1>11, <2>1, <2>3, <3>4
  <2>4. CASE g = "end"
    BY <1>11, <2>1, <2>4
  <2> QED BY <1>11, <2>1, <2>2, <2>3, <2>4, EntryFollows
<1> QED BY <1>1, <1>3, <1>5, <1>7, <1>12, <1>13, <1>14

(* Where packets start. *)
LEMMA FromTheStart ==
  ASSUME Configured, NEW c \in Configs, enabled[c] # {}
  PROVE  /\ FirstFeature(c) \in Features \cap enabled[c]
         /\ AtItsEntry(FirstFeature(c), [config |-> c, index |-> 1])
<1>1. PICK on : on = enabled[c]
  OBVIOUS
<1>2. on # {} /\ on \subseteq Features /\ heap[c] = StringOf(on)
  BY <1>1 DEF Configured
<1>3. PICK g : g = NextOn(on, 0)
  OBVIOUS
<1>4. FirstFeature(c) = g
  <2>1. heap[c][1] = [node |-> "start", to |-> g]
    BY <1>2, <1>3, StringIs
  <2> QED BY <2>1 DEF FirstFeature
<1>5. 0 \in 0..Len(Order) /\ Ends(on)[0] = 1
  BY OrderTypes, EndsIs
<1>6. \E j \in (0 + 1)..Len(Order) : Order[j] \in on
  BY <1>2, OrderTypes
<1>7. g \in Features /\ g \in on /\ IsWordOf(StringOf(on), g, 1 + Words[g] + 1)
  BY <1>3, <1>5, <1>6, EntryFollows
<1>8. AtItsEntry(g, [config |-> c, index |-> 1])
  <2>1. PICK n : n = 1 + Words[g] + 1
    OBVIOUS
  <2>2. PICK s : s = StringOf(on)
    OBVIOUS
  <2>3. n \in 1..Len(s) /\ s[n].node = g /\ Len(s) \in Nat
    BY <1>7, <2>1, <2>2, StringIs DEF IsWordOf
  <2> QED BY <1>2, <2>1, <2>2, <2>3 DEF AtItsEntry, NextWord
<1> QED BY <1>1, <1>4, <1>7, <1>8

-----------------------------------------------------------------------------
(* The loops of a node. *)

LEMMA FirstOfStride ==
  ASSUME NEW n \in Nat, NEW i \in 1..n, i <= 4 * (n \div 4)
  PROVE  /\ First(i) \in 1..i
         /\ First(First(i)) = First(i)
         /\ First(i) + 3 <= 4 * (n \div 4)
         /\ i \in First(i)..(First(i) + 3)
<1>1. PICK q \in Nat, r \in 0..3 : i - 1 = 4 * q + r
  <2>1. /\ (i - 1) \div 4 \in Nat /\ (i - 1) % 4 \in 0..3
        /\ i - 1 = 4 * ((i - 1) \div 4) + ((i - 1) % 4)
    OBVIOUS
  <2> QED BY <2>1
<1>2. (i - 1) % 4 = r
  BY <1>1
<1>3. First(i) = 4 * q + 1
  BY <1>1, <1>2 DEF First
<1>4. (4 * q) % 4 = 0
  BY <1>1
<1>5. First(4 * q + 1) = 4 * q + 1
  BY <1>1, <1>4 DEF First
<1>6. n \div 4 \in Nat /\ 4 * q + r + 1 <= 4 * (n \div 4)
  BY <1>1
<1>7. q + 1 <= n \div 4
  BY <1>1, <1>6
<1> QED BY <1>1, <1>3, <1>5, <1>6, <1>7

(* The buffer asked for is one of the frame, and when it is moved then     *)
(* nothing else was asked on its behalf.                                   *)
LEMMA AskedIs ==
  ASSUME NEW b, NEW n \in Nat, Len(b) = n
  PROVE  /\ \A i \in 1..n : Asked(b, i) \in 1..n
         /\ \A i \in MovedX4(b) : i \in 1..n /\ Asked(b, i) = i
         /\ \A i \in 1..n : i \in (1..StridesEnd(b) \cup Tail4(b))
<1>1. StridesEnd(b) \in 0..n /\ StridesEnd(b) = 4 * (n \div 4)
  BY DEF StridesEnd
<1>2. \A i \in 1..n : i <= StridesEnd(b) => First(i) \in 1..i /\ First(First(i)) = First(i)
  BY <1>1, FirstOfStride
<1>3. \A i \in 1..n : Asked(b, i) \in 1..n
  BY <1>1, <1>2 DEF Asked
<1>4. ASSUME NEW j \in 1..n PROVE Asked(b, Asked(b, j)) = Asked(b, j)
  <2>1. CASE j <= StridesEnd(b) /\ SharesNext(b, j)
    <3>1. Asked(b, j) = First(j) /\ First(First(j)) = First(j)
      BY <1>2, <2>1 DEF Asked
    <3> QED BY <3>1 DEF Asked
  <2>2. CASE ~ (j <= StridesEnd(b) /\ SharesNext(b, j))
    <3>1. Asked(b, j) = j
      BY <2>2 DEF Asked
    <3> QED BY <3>1
  <2> QED BY <2>1, <2>2
<1>5. \A i \in MovedX4(b) : i \in 1..n /\ Asked(b, i) = i
  BY <1>3, <1>4 DEF MovedX4
<1>6. \A i \in 1..n : i \in (1..StridesEnd(b) \cup Tail4(b))
  BY <1>1 DEF Tail4
<1> QED BY <1>3, <1>5, <1>6

(* What Run computes from the references of the frame. *)
NextsOf(f, b, drop, stray) ==
  SubSeq(IF f \in ByFour THEN NextsX4(f, b, drop, stray) ELSE NextsX1(f, b, drop, stray), 1, Len(b))

MovedOf(f, b, drop) == IF f \in ByFour THEN MovedX4(b) ELSE MovedX1(b, drop)

NextsFor(f, n, b, drop, stray) ==
  \A i \in 1..n :
    /\ i \in drop => NextsOf(f, b, drop, stray)[i] = "drop"
    /\ i \notin drop => \E a \in 1..n :
         /\ NextsOf(f, b, drop, stray)[i] = FeatureNext(f, b[a], stray)
         /\ i \in MovedOf(f, b, drop) => a = i

LEMMA NextsAre ==
  ASSUME NEW f, NEW n \in Nat, NEW b, Len(b) = n, NEW drop, NEW stray
  PROVE  NextsFor(f, n, b, drop, stray)
<1>1. /\ \A i \in 1..n : Asked(b, i) \in 1..n
      /\ \A i \in MovedX4(b) : i \in 1..n /\ Asked(b, i) = i
      /\ \A i \in 1..n : i \in (1..StridesEnd(b) \cup Tail4(b))
  BY AskedIs
<1>2. NextsX4(f, b, drop, stray)
        = [i \in 1..n |-> IF i \in drop THEN "drop" ELSE FeatureNext(f, b[Asked(b, i)], stray)]
  BY <1>1 DEF NextsX4
<1>3. NextsX1(f, b, drop, stray)
        = [i \in 1..n |-> IF i \in drop THEN "drop" ELSE FeatureNext(f, b[i], stray)]
  BY DEF NextsX1
<1> SUFFICES ASSUME NEW i \in 1..n
             PROVE  /\ i \in drop => NextsOf(f, b, drop, stray)[i] = "drop"
                    /\ i \notin drop => \E a \in 1..n :
                         /\ NextsOf(f, b, drop, stray)[i] = FeatureNext(f, b[a], stray)
                         /\ i \in MovedOf(f, b, drop) => a = i
  BY DEF NextsFor
<1>4. ASSUME NEW w, w = IF f \in ByFour THEN NextsX4(f, b, drop, stray) ELSE NextsX1(f, b, drop, stray)
      PROVE  NextsOf(f, b, drop, stray)[i] = w[i]
  <2>1. NextsOf(f, b, drop, stray) = SubSeq(w, 1, n)
    BY <1>4 DEF NextsOf
  <2>2. SubSeq(w, 1, n)[i] = w[i]
    <3>1. SubSeq(w, 1, n) = [j \in 1..n |-> w[j]]
      BY <1>2, <1>3, <1>4
    <3> QED BY <3>1
  <2> QED BY <2>1, <2>2
<1>5. CASE f \in ByFour
  <2>1. NextsOf(f, b, drop, stray)[i] = NextsX4(f, b, drop, stray)[i]
    BY <1>4, <1>5
  <2>2. NextsX4(f, b, drop, stray)[i] = IF i \in drop THEN "drop" ELSE FeatureNext(f, b[Asked(b, i)], stray)
    BY <1>2
  <2> QED BY <1>1, <1>5, <2>1, <2>2 DEF MovedOf
<1>6. CASE f \notin ByFour
  <2>1. NextsOf(f, b, drop, stray)[i] = NextsX1(f, b, drop, stray)[i]
    BY <1>4, <1>6
  <2>2. NextsX1(f, b, drop, stray)[i] = IF i \in drop THEN "drop" ELSE FeatureNext(f, b[i], stray)
    BY <1>3
  <2> QED BY <2>1, <2>2
<1> QED BY <1>5, <1>6

(* What a node's function does to its frame. *)
RunFacts(f, from, nexts, moved, drop, fr) ==
  /\ from \in Seq(Indices) /\ Once(from) /\ from = frames[f]
  /\ Apart(fr) /\ fr = [frames EXCEPT ![f] = <<>>]
  /\ Held(fr) \cap ToSet(from) = {} /\ InFrames = Held(fr) \cup ToSet(from)
  /\ \A i \in 1..Len(from) : nexts[i] \in Nodes
  /\ \A i \in (1..Len(from)) \ drop :
       i \in moved /\ AtItsEntry(f, meta[from[i]])
         => nexts[i] = heap[meta[from[i]].config][NextWord(f, meta[from[i]])].to
  /\ \A i \in (1..Len(from)) \cap drop : nexts[i] = "drop"
  /\ frames' = [g \in Features |-> fr[g] \o SentTo(from, nexts, g)]
  /\ pool' = pool \cup (UNION {ToSet(SentTo(from, nexts, n)) : n \in Outside})
  /\ meta' = [c \in Indices |->
                IF c \in pool' THEN NoMeta
                ELSE IF \E i \in moved : i \in 1..Len(from) /\ from[i] = c THEN Moved(f, meta[c])
                ELSE meta[c]]
  /\ carried' = (carried \cup {from[i] : i \in (1..Len(from)) \ (moved \cup drop)}) \ pool'
  /\ UNCHANGED <<held, loose, packet, enabled, heap>>

LEMMA FeatureNextIs ==
  ASSUME Configured, NEW f \in Features, NEW b \in Indices, NEW stray \in Nodes
  PROVE  /\ FeatureNext(f, Address(b), stray) \in Nodes
         /\ AtItsEntry(f, meta[b]) =>
              FeatureNext(f, Address(b), stray) = heap[meta[b].config][NextWord(f, meta[b])].to
<1>1. FeatureNext(f, Address(b), stray)
        = IF AtItsEntry(f, meta[b]) THEN heap[meta[b].config][NextWord(f, meta[b])].to ELSE stray
  <2>1. At(Address(b)) = b
    BY AtIs
  <2> QED BY <2>1 DEF FeatureNext
<1>2. CASE AtItsEntry(f, meta[b])
  <2>1. heap[meta[b].config][NextWord(f, meta[b])].to \in Nodes
    BY <1>2, FromItsEntry DEF Nodes, Outside
  <2> QED BY <1>1, <1>2, <2>1
<1> QED BY <1>1, <1>2

LEMMA RunIs ==
  ASSUME Configured, Owned, NEW f \in Features, NEW drop, NEW stray \in Nodes, Run(f, drop, stray)
  PROVE  \E from, nexts, moved, fr : RunFacts(f, from, nexts, moved, drop, fr)
<1>1. PICK from : from = frames[f]
  OBVIOUS
<1>2. from \in Seq(Indices) /\ Once(from)
  BY <1>1 DEF Owned, Apart
<1>3. PICK n \in Nat : n = Len(from)
  BY <1>2
<1>4. PICK b : b = [i \in 1..n |-> Address(from[i])]
  OBVIOUS
<1>5. GetBuffers(from) = b /\ Len(b) = n
  BY <1>2, <1>3, <1>4, FrameReferences
<1>6. \A i \in 1..n : from[i] \in Indices /\ b[i] = Address(from[i])
  BY <1>2, <1>3, <1>4
<1>7. PICK nexts : nexts = NextsOf(f, b, drop, stray)
  OBVIOUS
<1>8. PICK moved : moved = MovedOf(f, b, drop)
  OBVIOUS
<1>9. PICK fr : fr = [frames EXCEPT ![f] = <<>>]
  OBVIOUS
<1>10. \A i \in 1..n :
         /\ i \in drop => nexts[i] = "drop"
         /\ i \notin drop => \E a \in 1..n :
              /\ nexts[i] = FeatureNext(f, b[a], stray)
              /\ i \in moved => a = i
  <2>1. Len(b) = n
    BY <1>5
  <2>2. \A i \in 1..n :
          /\ i \in drop => NextsOf(f, b, drop, stray)[i] = "drop"
          /\ i \notin drop => \E a \in 1..n :
               /\ NextsOf(f, b, drop, stray)[i] = FeatureNext(f, b[a], stray)
               /\ i \in MovedOf(f, b, drop) => a = i
    <3>1. NextsFor(f, n, b, drop, stray)
      BY <2>1, NextsAre
    <3> QED BY <3>1 DEF NextsFor
  <2> QED BY <1>7, <1>8, <2>2
<1>11. \A i \in 1..n : nexts[i] \in Nodes
  <2> SUFFICES ASSUME NEW i \in 1..n PROVE nexts[i] \in Nodes
    OBVIOUS
  <2>1. CASE i \in drop
    BY <1>10, <2>1 DEF Nodes, Outside
  <2>2. CASE i \notin drop
    <3>1. PICK a \in 1..n : nexts[i] = FeatureNext(f, b[a], stray)
      BY <1>10, <2>2
    <3> QED BY <1>6, <3>1, FeatureNextIs
  <2> QED BY <2>1, <2>2
<1>12. ASSUME NEW i \in (1..n) \ drop, i \in moved, AtItsEntry(f, meta[from[i]])
       PROVE  nexts[i] = heap[meta[from[i]].config][NextWord(f, meta[from[i]])].to
  <2>1. nexts[i] = FeatureNext(f, b[i], stray)
    BY <1>10, <1>12
  <2> QED BY <1>6, <1>12, <2>1, FeatureNextIs
<1>13. /\ Apart(fr)
       /\ Held(fr) \cap ToSet(from) = {} /\ InFrames = Held(fr) \cup ToSet(from)
  <2>1. /\ frames \in [Features -> Seq(Indices)]
        /\ \A g \in Features : Once(frames[g])
        /\ \A g, h \in Features : ToSet(frames[g]) \cap ToSet(frames[h]) # {} => g = h
    BY DEF Owned, Apart
  <2>2. \A g \in Features : fr[g] = IF g = f THEN <<>> ELSE frames[g]
    BY <1>9, <2>1
  <2>3. ToSet(<<>>) = {} /\ Once(<<>>) /\ <<>> \in Seq(Indices)
    BY DEF ToSet, Once
  <2>4. fr \in [Features -> Seq(Indices)]
    BY <1>9, <2>1, <2>3
  <2>5. Apart(fr)
    BY <2>1, <2>2, <2>3, <2>4 DEF Apart
  <2>6. \A g \in Features : ToSet(fr[g]) = IF g = f THEN {} ELSE ToSet(frames[g])
    BY <2>2, <2>3
  <2>7. Held(fr) \cap ToSet(from) = {}
    BY <1>1, <2>1, <2>6 DEF Held
  <2>8. InFrames = Held(fr) \cup ToSet(from)
    BY <1>1, <2>6 DEF Held, InFrames
  <2> QED BY <2>5, <2>7, <2>8
<1>14. /\ EnqueueToNext(from, nexts, fr)
       /\ meta' = [c \in Indices |->
                     IF c \in pool' THEN NoMeta
                     ELSE IF \E i \in moved : b[i] = Address(c) THEN Moved(f, meta[c]) ELSE meta[c]]
       /\ carried' = (carried \cup {from[i] : i \in (1..Len(from)) \ (moved \cup drop)}) \ pool'
       /\ UNCHANGED <<held, loose, packet, enabled, heap>>
  BY <1>1, <1>5, <1>7, <1>8, <1>9 DEF Run, NextsOf, MovedOf
<1>15. \A i \in moved : i \in 1..n
  <2>1. \A i \in MovedX4(b) : i \in 1..n
    BY <1>5, AskedIs
  <2>2. \A i \in MovedX1(b, drop) : i \in 1..n
    BY <1>5 DEF MovedX1
  <2> QED BY <1>8, <2>1, <2>2 DEF MovedOf
<1>16. ASSUME NEW c \in Indices
       PROVE  (\E i \in moved : b[i] = Address(c)) <=> (\E i \in moved : i \in 1..Len(from) /\ from[i] = c)
  BY <1>3, <1>6, <1>15, AddressInjective
<1>17. meta' = [c \in Indices |->
                  IF c \in pool' THEN NoMeta
                  ELSE IF \E i \in moved : i \in 1..Len(from) /\ from[i] = c THEN Moved(f, meta[c])
                  ELSE meta[c]]
  BY <1>14, <1>16
<1>18. /\ frames' = [g \in Features |-> fr[g] \o SentTo(from, nexts, g)]
       /\ pool' = pool \cup (UNION {ToSet(SentTo(from, nexts, m)) : m \in Outside})
  BY <1>14 DEF EnqueueToNext
<1>19. /\ \A i \in 1..Len(from) : nexts[i] \in Nodes
       /\ \A i \in (1..Len(from)) \ drop :
            i \in moved /\ AtItsEntry(f, meta[from[i]])
              => nexts[i] = heap[meta[from[i]].config][NextWord(f, meta[from[i]])].to
       /\ \A i \in (1..Len(from)) \cap drop : nexts[i] = "drop"
  BY <1>3, <1>10, <1>11, <1>12
<1>20. RunFacts(f, from, nexts, moved, drop, fr)
  BY <1>1, <1>2, <1>9, <1>13, <1>14, <1>17, <1>18, <1>19 DEF RunFacts
<1> QED BY <1>20

LEMMA RunOwned ==
  ASSUME Owned, NEW f \in Features, NEW from, NEW nexts, NEW moved, NEW drop, NEW fr,
         RunFacts(f, from, nexts, moved, drop, fr)
  PROVE  /\ Owned'
         /\ \A g \in Features : ToSet(frames'[g]) = ToSet(fr[g]) \cup ToSet(SentTo(from, nexts, g))
         /\ \A i \in 1..Len(from) :
              IF nexts[i] \in Features THEN from[i] \notin pool' ELSE from[i] \in pool'
<1>1. /\ from \in Seq(Indices) /\ Once(from) /\ from = frames[f]
      /\ Apart(fr) /\ fr = [frames EXCEPT ![f] = <<>>]
      /\ Held(fr) \cap ToSet(from) = {} /\ InFrames = Held(fr) \cup ToSet(from)
      /\ \A i \in 1..Len(from) : nexts[i] \in Nodes
      /\ frames' = [g \in Features |-> fr[g] \o SentTo(from, nexts, g)]
      /\ pool' = pool \cup (UNION {ToSet(SentTo(from, nexts, n)) : n \in Outside})
      /\ UNCHANGED <<held, loose>>
  BY DEF RunFacts
<1> DEFINE sent(n) == ToSet(SentTo(from, nexts, n))
           out == UNION {sent(n) : n \in Outside}
<1>2. PICK fr2 : fr2 = frames'
  OBVIOUS
<1>3. Apart(fr2) /\ \A g \in Features : ToSet(fr2[g]) = ToSet(fr[g]) \cup sent(g)
  <2>1. fr2 = [g \in Features |-> fr[g] \o SentTo(from, nexts, g)]
    BY <1>1, <1>2
  <2>2. from \in Seq(Indices) /\ Once(from) /\ Apart(fr) /\ Held(fr) \cap ToSet(from) = {}
    BY <1>1
  <2>3. Apart(fr2) /\ Merged(fr2, fr, from, nexts)
    BY <2>1, <2>2, Distributed
  <2> QED BY <2>3 DEF Merged
<1>4. /\ \A n, k : sent(n) \cap sent(k) # {} => n = k
      /\ \A n : sent(n) \subseteq ToSet(from)
      /\ \A i \in 1..Len(from) : from[i] \in sent(nexts[i])
  BY <1>1, Parted
<1> HIDE DEF sent
<1>5. Features \cap Outside = {} /\ Nodes = Features \cup Outside
  BY FeaturesAssumption DEF Nodes
<1>6. ToSet(from) \subseteq Indices /\ \A x \in ToSet(from) : \E i \in 1..Len(from) : x = from[i]
  BY <1>1 DEF ToSet
<1>7. ASSUME NEW i \in 1..Len(from)
      PROVE  IF nexts[i] \in Features THEN from[i] \notin out /\ from[i] \in Held(fr2) ELSE from[i] \in out
  <2>1. from[i] \in sent(nexts[i]) /\ nexts[i] \in Nodes
    BY <1>1, <1>4
  <2>2. CASE nexts[i] \in Features
    <3>1. from[i] \notin out
      BY <1>4, <1>5, <2>1, <2>2
    <3>2. from[i] \in Held(fr2)
      BY <1>3, <2>1, <2>2 DEF Held
    <3> QED BY <2>2, <3>1, <3>2
  <2>3. CASE nexts[i] \notin Features
    BY <1>5, <2>1, <2>3
  <2> QED BY <2>2, <2>3
<1>8. out \subseteq ToSet(from) /\ pool' = pool \cup out
  BY <1>1, <1>4 DEF sent
<1>9. Held(fr2) \subseteq InFrames /\ Held(fr) \subseteq Held(fr2)
  <2>1. \A g \in Features : ToSet(fr2[g]) \subseteq ToSet(fr[g]) \cup ToSet(from)
    BY <1>3, <1>4
  <2>2. \A g \in Features : ToSet(fr[g]) \subseteq ToSet(fr2[g])
    BY <1>3
  <2>3. Held(fr2) \subseteq Held(fr) \cup ToSet(from)
    BY <2>1 DEF Held
  <2>4. Held(fr) \subseteq Held(fr2)
    BY <2>2 DEF Held
  <2> QED BY <1>1, <2>3, <2>4
<1>10. Held(fr2) \cap out = {}
  <2> SUFFICES ASSUME NEW x \in Held(fr2), x \in out PROVE FALSE
    OBVIOUS
  <2>1. PICK g \in Features : x \in ToSet(fr[g]) \cup sent(g)
    BY <1>3 DEF Held
  <2>2. x \in ToSet(from)
    BY <1>8
  <2>3. x \notin ToSet(fr[g])
    BY <1>1, <2>2 DEF Held
  <2>4. x \in sent(g)
    BY <2>1, <2>3
  <2> QED BY <1>4, <1>5, <2>4
<1> HIDE DEF out
<1>11. /\ {pool, held, loose} \subseteq SUBSET Indices
       /\ pool \cap held = {} /\ pool \cap loose = {} /\ held \cap loose = {}
       /\ InFrames \cap (pool \cup held \cup loose) = {}
       /\ Indices \subseteq pool \cup held \cup loose \cup InFrames
  BY DEF Owned
<1>12. InFrames' = Held(fr2)
  BY <1>2 DEF InFrames, Held
<1>13. /\ {pool', held', loose'} \subseteq SUBSET Indices
       /\ pool' \cap held' = {} /\ pool' \cap loose' = {} /\ held' \cap loose' = {}
       /\ InFrames' \cap (pool' \cup held' \cup loose') = {}
  <2>1. /\ pool' = pool \cup out /\ held' = held /\ loose' = loose
        /\ out \subseteq InFrames /\ out \subseteq Indices
    BY <1>1, <1>6, <1>8
  <2>2. InFrames' \subseteq InFrames /\ InFrames' \cap out = {}
    BY <1>9, <1>10, <1>12
  <2> QED BY <1>11, <2>1, <2>2
<1>14. Indices \subseteq pool' \cup held' \cup loose' \cup InFrames'
  <2>1. ToSet(from) \subseteq out \cup Held(fr2)
    BY <1>6, <1>7
  <2> QED BY <1>1, <1>8, <1>9, <1>11, <1>12, <2>1
<1>15. \A i \in 1..Len(from) :
         IF nexts[i] \in Features THEN from[i] \notin pool' ELSE from[i] \in pool'
  <2>1. \A i \in 1..Len(from) : from[i] \notin pool
    <3>1. \A i \in 1..Len(from) : from[i] \in ToSet(from)
      BY <1>1 DEF ToSet
    <3> QED BY <1>1, <1>11, <3>1
  <2> QED BY <1>7, <1>8, <2>1
<1>16. Owned'
  BY <1>2, <1>3, <1>13, <1>14 DEF Owned
<1> QED BY <1>2, <1>3, <1>15, <1>16 DEF sent

(* f's entry in the strings h is where m says. *)
EntryIn(h, f, m) == /\ NextWord(f, m) <= Len(h[m.config])
                    /\ h[m.config][NextWord(f, m)].node = f

LEMMA RunConfigured ==
  ASSUME Owned, Configured, NEW f \in Features, NEW from, NEW nexts, NEW moved, NEW drop, NEW fr,
         RunFacts(f, from, nexts, moved, drop, fr)
  PROVE  Configured'
<1>1. /\ from \in Seq(Indices) /\ Once(from) /\ from = frames[f]
      /\ Apart(fr) /\ fr = [frames EXCEPT ![f] = <<>>]
      /\ Held(fr) \cap ToSet(from) = {} /\ InFrames = Held(fr) \cup ToSet(from)
      /\ \A i \in 1..Len(from) : nexts[i] \in Nodes
      /\ \A i \in (1..Len(from)) \ drop :
           i \in moved /\ AtItsEntry(f, meta[from[i]])
             => nexts[i] = heap[meta[from[i]].config][NextWord(f, meta[from[i]])].to
      /\ \A i \in (1..Len(from)) \cap drop : nexts[i] = "drop"
      /\ meta' = [c \in Indices |->
                    IF c \in pool' THEN NoMeta
                    ELSE IF \E i \in moved : i \in 1..Len(from) /\ from[i] = c THEN Moved(f, meta[c])
                    ELSE meta[c]]
      /\ carried' = (carried \cup {from[i] : i \in (1..Len(from)) \ (moved \cup drop)}) \ pool'
      /\ UNCHANGED <<enabled, heap>>
  BY DEF RunFacts
<1>2. /\ Owned'
      /\ \A g \in Features : ToSet(frames'[g]) = ToSet(fr[g]) \cup ToSet(SentTo(from, nexts, g))
      /\ \A i \in 1..Len(from) :
           IF nexts[i] \in Features THEN from[i] \notin pool' ELSE from[i] \in pool'
  BY RunOwned
<1>3. /\ enabled \in [Configs -> SUBSET Features]
      /\ heap = [c \in Configs |-> StringOf(enabled[c])]
      /\ meta \in [Indices -> [config : Configs, index : Nat]]
      /\ carried \subseteq InFrames
      /\ FollowsItsFeatures
  BY DEF Configured
<1>4. \A i \in 1..Len(from) : from[i] \in Indices /\ from[i] \in ToSet(from)
  <2>1. from \in Seq(Indices)
    BY <1>1
  <2>2. DOMAIN from = 1..Len(from) /\ \A i \in 1..Len(from) : from[i] \in Indices
    BY <2>1
  <2> QED BY <2>2 DEF ToSet
<1>5. \A g \in Features : \A x \in ToSet(SentTo(from, nexts, g)) :
        \E i \in 1..Len(from) : from[i] = x /\ nexts[i] = g
  BY <1>1, SentToIs
<1>6. meta' \in [Indices -> [config : Configs, index : Nat]]
  <2>1. NoMeta \in [config : Configs, index : Nat]
    BY FeaturesAssumption DEF NoMeta
  <2>2. \A c \in Indices : Moved(f, meta[c]) \in [config : Configs, index : Nat]
    <3> SUFFICES ASSUME NEW c \in Indices PROVE Moved(f, meta[c]) \in [config : Configs, index : Nat]
      OBVIOUS
    <3>1. PICK m \in [config : Configs, index : Nat] : m = meta[c]
      BY <1>3
    <3>2. Len(heap[m.config]) \in Nat
      BY <1>3, StringIs
    <3>3. NextWord(f, m) \in Nat
      BY FeaturesAssumption DEF NextWord
    <3>4. PICK k \in Nat : k = Min({NextWord(f, m), Len(heap[m.config]) + 1})
      <4>1. PICK x \in Nat, y \in Nat : x = NextWord(f, m) /\ y = Len(heap[m.config]) + 1
        BY <3>2, <3>3
      <4>2. {x, y} \subseteq Nat /\ {x, y} # {}
        OBVIOUS
      <4>3. Min({x, y}) \in {x, y}
        BY <4>2, LeastOf
      <4> QED BY <4>1, <4>3
    <3> QED BY <3>1, <3>4 DEF Moved
  <2> QED BY <1>1, <1>3, <2>1, <2>2
<1>7. carried' \subseteq InFrames'
  <2>1. \A x \in carried' : x \in InFrames /\ x \notin pool' /\ x \in Indices
    <3>1. carried \subseteq InFrames /\ InFrames \subseteq Indices /\ ToSet(from) \subseteq InFrames
      <4>1. \A g \in Features : frames[g] \in Seq(Indices)
        BY DEF Owned, Apart
      <4>2. \A g \in Features : ToSet(frames[g]) \subseteq Indices
        BY <4>1 DEF ToSet
      <4>3. InFrames \subseteq Indices
        BY <4>2 DEF InFrames
      <4> QED BY <1>1, <1>3, <4>3
    <3>2. carried' \subseteq (carried \cup ToSet(from)) \ pool'
      BY <1>1, <1>4
    <3> QED BY <3>1, <3>2
  <2>2. InFrames \cap (held \cup loose) = {} /\ UNCHANGED <<held, loose>>
    BY DEF Owned, RunFacts
  <2>3. Indices \subseteq pool' \cup held' \cup loose' \cup InFrames'
    BY <1>2 DEF Owned
  <2> QED BY <2>1, <2>2, <2>3
<1>8. FollowsItsFeatures'
  <2> SUFFICES ASSUME NEW g \in Features, NEW x, x \in ToSet(frames'[g]), x \notin carried'
               PROVE  g \in enabled[meta'[x].config] /\ EntryIn(heap, g, meta'[x])
    BY <1>1 DEF FollowsItsFeatures, AtItsEntry, EntryIn, NextWord
  <2>1. CASE x \in ToSet(fr[g])
    <3>1. g # f /\ x \in ToSet(frames[g]) /\ x \notin ToSet(from)
      <4>1. fr[g] = IF g = f THEN <<>> ELSE frames[g]
        BY <1>1 DEF Owned, Apart
      <4>2. ToSet(<<>>) = {}
        BY DEF ToSet
      <4> QED BY <1>1, <2>1, <4>1, <4>2 DEF Held
    <3>2. x \in InFrames /\ x \in Indices
      BY <3>1 DEF InFrames, Owned, Apart, ToSet
    <3>3. x \notin pool'
      <4>1. x \in InFrames'
        BY DEF InFrames
      <4> QED BY <1>2, <4>1 DEF Owned
    <3>4. x \notin carried
      BY <1>1, <3>3
    <3>5. meta'[x] = meta[x]
      BY <1>1, <1>4, <3>1, <3>2, <3>3
    <3> QED BY <1>3, <3>1, <3>2, <3>4, <3>5 DEF FollowsItsFeatures, AtItsEntry, EntryIn
  <2>2. CASE x \in ToSet(SentTo(from, nexts, g))
    <3>1. PICK i \in 1..Len(from) : from[i] = x /\ nexts[i] = g
      BY <1>5, <2>2
    <3>2. x \in Indices /\ x \in ToSet(frames[f]) /\ x \notin pool'
      BY <1>1, <1>2, <1>4, <3>1
    <3>3. i \notin drop /\ i \in moved /\ x \notin carried
      <4>1. g # "drop"
        BY FeaturesAssumption DEF Outside
      <4>2. i \notin drop
        BY <1>1, <3>1, <4>1
      <4>3. x \notin carried
        BY <1>1, <3>2
      <4>4. i \in moved
        BY <1>1, <3>1, <3>2, <4>2
      <4> QED BY <4>2, <4>3, <4>4
    <3>4. f \in enabled[meta[x].config] /\ AtItsEntry(f, meta[x])
      BY <1>3, <3>2, <3>3 DEF FollowsItsFeatures
    <3>5. g = heap[meta[x].config][NextWord(f, meta[x])].to
      BY <1>1, <3>1, <3>3, <3>4
    <3>6. meta'[x] = Moved(f, meta[x])
      BY <1>1, <3>1, <3>2, <3>3
    <3>7. g # "end"
      BY FeaturesAssumption DEF Outside
    <3>8. g \in enabled[meta[x].config] /\ AtItsEntry(g, Moved(f, meta[x]))
      <4>1. PICK to : to = heap[meta[x].config][NextWord(f, meta[x])].to
        OBVIOUS
      <4>2. \/ to = "end"
            \/ \E h \in enabled[meta[x].config] \cap Features : to = h /\ AtItsEntry(h, Moved(f, meta[x]))
        BY <3>2, <3>4, <4>1, FromItsEntry
      <4> QED BY <3>5, <3>7, <4>1, <4>2
    <3>9. Moved(f, meta[x]).config = meta[x].config
      <4>1. Moved(f, meta[x]) = [config |-> meta[x].config, index |-> NextWord(f, meta[x])]
        BY <3>2, <3>4, FromItsEntry
      <4> QED BY <4>1
    <3> QED BY <3>2, <3>6, <3>8, <3>9 DEF AtItsEntry, EntryIn
  <2> QED BY <1>2, <2>1, <2>2
<1> QED BY <1>1, <1>3, <1>6, <1>7, <1>8 DEF Configured

-----------------------------------------------------------------------------
(* The other steps. *)

LEMMA InitConfigured == Init => Owned /\ Configured
<1> SUFFICES ASSUME Init PROVE Owned /\ Configured
  OBVIOUS
<1>1. \A f \in Features : frames[f] = <<>>
  BY DEF Init
<1>2. ToSet(<<>>) = {} /\ Once(<<>>) /\ <<>> \in Seq(Indices)
  BY DEF ToSet, Once
<1>3. InFrames = {}
  BY <1>1, <1>2 DEF InFrames
<1>4. Apart(frames)
  BY <1>1, <1>2 DEF Init, Apart
<1>5. Owned
  BY <1>3, <1>4 DEF Init, BufferInit, Owned
<1>6. NoMeta \in [config : Configs, index : Nat]
  BY FeaturesAssumption DEF NoMeta
<1>7. FollowsItsFeatures
  BY <1>1, <1>2 DEF FollowsItsFeatures
<1>8. enabled \in [Configs -> SUBSET Features] /\ carried \subseteq InFrames
  BY FeaturesAssumption DEF Init
<1>9. Configured
  BY <1>6, <1>7, <1>8 DEF Init, Configured
<1> QED BY <1>5, <1>9

(* Nothing is in a frame when interfaces are configured, so nothing is     *)
(* said of any buffer.                                                     *)
LEMMA ChangeConfigured ==
  ASSUME Owned, Configured, NEW f \in Features, NEW c \in Configs, Enable(f, c) \/ Disable(f, c)
  PROVE  Owned' /\ Configured'
<1>1. /\ InFrames = {}
      /\ \E on : /\ enabled' = [enabled EXCEPT ![c] = on]
                 /\ heap' = [heap EXCEPT ![c] = StringOf(enabled'[c])]
      /\ enabled' \in Setups
      /\ UNCHANGED <<bufferVars, frames, meta, carried>>
  BY DEF Enable, Disable
<1>2. InFrames' = InFrames
  BY <1>1 DEF InFrames
<1>3. Owned'
  BY <1>1, <1>2 DEF Owned, bufferVars
<1>4. /\ enabled \in [Configs -> SUBSET Features]
      /\ heap = [d \in Configs |-> StringOf(enabled[d])]
      /\ meta \in [Indices -> [config : Configs, index : Nat]]
      /\ carried \subseteq InFrames
  BY DEF Configured
<1>5. enabled' \in [Configs -> SUBSET Features]
  BY <1>1, FeaturesAssumption
<1>6. heap' = [d \in Configs |-> StringOf(enabled'[d])]
  BY <1>1, <1>4
<1>7. FollowsItsFeatures'
  <2>1. \A g \in Features : ToSet(frames'[g]) = {}
    BY <1>1, <1>2 DEF InFrames
  <2> QED BY <2>1 DEF FollowsItsFeatures
<1>8. meta' = meta /\ carried' = carried
  BY <1>1
<1> QED BY <1>2, <1>3, <1>4, <1>5, <1>6, <1>7, <1>8 DEF Configured

LEMMA HandleStepConfigured ==
  ASSUME Owned, Configured, InFrames = {}, HandleStep, UNCHANGED <<enabled, heap, frames, meta, carried>>
  PROVE  Owned' /\ Configured'
<1>1. InFrames' = InFrames
  BY DEF InFrames
<1>2. FollowsItsFeatures'
  BY DEF Configured, FollowsItsFeatures, AtItsEntry, NextWord
<1>3. Configured'
  BY <1>1, <1>2 DEF Configured
<1>4. /\ {pool, held, loose} \subseteq SUBSET Indices
      /\ pool \cap held = {} /\ pool \cap loose = {} /\ held \cap loose = {}
      /\ Indices \subseteq pool \cup held \cup loose
  BY DEF Owned
<1>5. /\ {pool', held', loose'} \subseteq SUBSET Indices
      /\ pool' \cap held' = {} /\ pool' \cap loose' = {} /\ held' \cap loose' = {}
      /\ Indices \subseteq pool' \cup held' \cup loose'
  <2>1. ASSUME NEW b \in Indices, AllocBuffer(b) PROVE <1>5!:
    BY <1>4, <2>1 DEF AllocBuffer
  <2>2. ASSUME NEW b \in Indices, DropBuffer(b) PROVE <1>5!:
    BY <1>4, <2>2 DEF DropBuffer
  <2>3. ASSUME NEW b \in Indices, IntoParts(b) PROVE <1>5!:
    BY <1>4, <2>3 DEF IntoParts
  <2>4. ASSUME NEW b \in Indices, FromParts(b) PROVE <1>5!:
    BY <1>4, <2>4 DEF FromParts
  <2>5. ASSUME NEW b \in Indices, NEW l \in -PreData..DataSize, Advance(b, l) PROVE UNCHANGED <<pool, held, loose>>
    BY <2>5 DEF Advance, ThroughHandle
  <2>6. ASSUME NEW b \in Indices, NEW n \in 1..DataSize, PutUninit(b, n) PROVE UNCHANGED <<pool, held, loose>>
    BY <2>6 DEF PutUninit, ThroughHandle
  <2> QED BY <1>4, <2>1, <2>2, <2>3, <2>4, <2>5, <2>6 DEF HandleStep
<1>6. Owned'
  BY <1>1, <1>5 DEF Owned
<1> QED BY <1>3, <1>6

(* The references that are received are in the pool, and in no frame. *)
LEMMA ReceivedIs ==
  ASSUME NEW P, P \subseteq Indices, NEW n \in Nat, n <= Cardinality(P)
  PROVE  /\ SubSeq(InOrder(P), 1, n) \in Seq(Indices)
         /\ Len(SubSeq(InOrder(P), 1, n)) = n
         /\ Once(SubSeq(InOrder(P), 1, n))
         /\ ToSet(SubSeq(InOrder(P), 1, n)) \subseteq P
<1>1. IsFiniteSet(P) /\ P \subseteq Int
  <2>1. P \in SUBSET Indices /\ IsFiniteSet(Indices) /\ Indices \subseteq Int
    BY FeaturesAssumption, BuffersAssumption
  <2>2. IsFiniteSet(P)
    BY <2>1, FS_Subset
  <2> QED BY <2>1, <2>2
<1>2. PICK s, m : s = InOrder(P) /\ m = Cardinality(P)
  OBVIOUS
<1>3. m \in Nat /\ s \in [1..m -> P] /\ \A j, k \in 1..m : s[j] = s[k] => j = k
  BY <1>1, <1>2, InOrderLists
<1>4. s \in Seq(P) /\ Len(s) = m
  BY <1>3
<1>5. PICK w : w = SubSeq(s, 1, n)
  OBVIOUS
<1>6. w = [i \in 1..n |-> s[i]]
  BY <1>2, <1>4, <1>5
<1>7. \A i \in 1..n : i \in 1..m /\ s[i] \in P
  BY <1>2, <1>3
<1>8. w \in [1..n -> P]
  BY <1>6, <1>7
<1>9. w \in Seq(Indices) /\ Len(w) = n /\ DOMAIN w = 1..n
  BY <1>6, <1>8
<1>10. Once(w) /\ ToSet(w) \subseteq P
  BY <1>3, <1>6, <1>7, <1>9 DEF Once, ToSet
<1> QED BY <1>2, <1>5, <1>9, <1>10

LEMMA ReceiveConfigured ==
  ASSUME Owned, Configured, NEW n \in Nat, n <= Cardinality(pool),
         NEW config \in [1..n -> {c \in Configs : enabled[c] # {}}],
         Receive(SubSeq(InOrder(pool), 1, n), config)
  PROVE  Owned' /\ Configured'
<1>1. PICK from : from = SubSeq(InOrder(pool), 1, n)
  OBVIOUS
<1>2. PICK P : P = pool
  OBVIOUS
<1>3. from \in Seq(Indices) /\ Len(from) = n /\ Once(from) /\ ToSet(from) \subseteq pool
  <2>1. P \subseteq Indices /\ n <= Cardinality(P)
    BY <1>2 DEF Owned
  <2> QED BY <1>1, <1>2, <2>1, ReceivedIs
<1>4. PICK nexts : nexts = [i \in 1..n |-> FirstFeature(config[i])]
  OBVIOUS
<1>5. /\ InFrames = {}
      /\ pool' = pool \ ToSet(from)
      /\ frames' = [f \in Features |-> SentTo(from, nexts, f)]
      /\ meta' = [b \in Indices |-> IF b \in ToSet(from)
                                    THEN [config |-> config[CHOOSE i \in 1..Len(from) : from[i] = b], index |-> 1]
                                    ELSE meta[b]]
      /\ UNCHANGED <<held, loose, packet, enabled, heap, carried>>
  BY <1>1, <1>3, <1>4 DEF Receive
<1>6. \A i \in 1..n : nexts[i] \in Features /\ config[i] \in Configs
  <2>1. \A i \in 1..n : config[i] \in Configs /\ enabled[config[i]] # {}
    OBVIOUS
  <2> QED BY <1>4, <2>1, FromTheStart
<1>7. PICK fr2 : fr2 = frames'
  OBVIOUS
<1>8. PICK fr : fr = [g \in Features |-> <<>>]
  OBVIOUS
<1>9. Apart(fr) /\ Held(fr) = {}
  <2>1. ToSet(<<>>) = {} /\ Once(<<>>) /\ <<>> \in Seq(Indices)
    BY DEF ToSet, Once
  <2> QED BY <1>8, <2>1 DEF Apart, Held
<1>10. fr2 = [g \in Features |-> fr[g] \o SentTo(from, nexts, g)]
  <2>1. \A g \in Features : fr[g] \o SentTo(from, nexts, g) = SentTo(from, nexts, g)
    <3> SUFFICES ASSUME NEW g \in Features PROVE fr[g] \o SentTo(from, nexts, g) = SentTo(from, nexts, g)
      OBVIOUS
    <3>1. SentTo(from, nexts, g) \in Seq(Indices)
      BY <1>3, SentToIs
    <3>2. PICK s \in Seq(Indices) : s = SentTo(from, nexts, g)
      BY <3>1
    <3>3. <<>> \o s = s
      OBVIOUS
    <3> QED BY <1>8, <3>2, <3>3
  <2> QED BY <1>5, <1>7, <2>1
<1>11. Apart(fr2) /\ Merged(fr2, fr, from, nexts)
  <2>1. Held(fr) \cap ToSet(from) = {}
    BY <1>9
  <2> QED BY <1>3, <1>9, <1>10, <2>1, Distributed
<1>12. \A g \in Features : ToSet(fr2[g]) = {from[i] : i \in {i \in 1..Len(from) : nexts[i] = g}}
  <2>1. \A g \in Features : fr2[g] = SentTo(from, nexts, g)
    BY <1>5, <1>7
  <2>2. \A g : ToSet(SentTo(from, nexts, g)) = {from[i] : i \in {i \in 1..Len(from) : nexts[i] = g}}
    BY <1>3, SentToIs
  <2> QED BY <2>1, <2>2
<1>13. InFrames' = ToSet(from)
  <2>1. InFrames' = Held(fr2)
    BY <1>7 DEF InFrames, Held
  <2>2. ToSet(from) = {from[i] : i \in 1..n}
    BY <1>3 DEF ToSet
  <2>3. Held(fr2) = ToSet(from)
    <3>1. \A x \in ToSet(from) : \E g \in Features : x \in ToSet(fr2[g])
      <4> SUFFICES ASSUME NEW i \in 1..n PROVE \E g \in Features : from[i] \in ToSet(fr2[g])
        BY <2>2
      <4>1. nexts[i] \in Features /\ from[i] \in {from[k] : k \in {k \in 1..Len(from) : nexts[k] = nexts[i]}}
        BY <1>3, <1>6
      <4> QED BY <1>12, <4>1
    <3>2. \A g \in Features : ToSet(fr2[g]) \subseteq ToSet(from)
      BY <1>3, <1>12, <2>2
    <3> QED BY <3>1, <3>2 DEF Held
  <2> QED BY <2>1, <2>3
<1>14. Owned'
  <2>1. /\ {pool, held, loose} \subseteq SUBSET Indices
        /\ pool \cap held = {} /\ pool \cap loose = {} /\ held \cap loose = {}
        /\ Indices \subseteq pool \cup held \cup loose
    BY <1>5 DEF Owned
  <2>2. /\ {pool', held', loose'} \subseteq SUBSET Indices
        /\ pool' \cap held' = {} /\ pool' \cap loose' = {} /\ held' \cap loose' = {}
        /\ InFrames' \cap (pool' \cup held' \cup loose') = {}
        /\ Indices \subseteq pool' \cup held' \cup loose' \cup InFrames'
    BY <1>3, <1>5, <1>13, <2>1
  <2> QED BY <1>7, <1>11, <2>2 DEF Owned
<1>15. ASSUME NEW b \in ToSet(from)
       PROVE  \E i \in 1..n : /\ from[i] = b
                              /\ b \in Indices
                              /\ meta'[b] = [config |-> config[i], index |-> 1]
  <2>1. \E i \in 1..Len(from) : from[i] = b
    BY <1>3 DEF ToSet
  <2>2. PICK i \in 1..n : from[i] = b /\ i = CHOOSE j \in 1..Len(from) : from[j] = b
    BY <1>3, <2>1
  <2>3. b \in Indices
    BY <1>3, <2>2
  <2> QED BY <1>5, <2>2, <2>3
<1>16. meta' \in [Indices -> [config : Configs, index : Nat]]
  <2>1. \A b \in ToSet(from) : meta'[b] \in [config : Configs, index : Nat]
    <3> SUFFICES ASSUME NEW b \in ToSet(from) PROVE meta'[b] \in [config : Configs, index : Nat]
      OBVIOUS
    <3>1. PICK i \in 1..n : meta'[b] = [config |-> config[i], index |-> 1]
      BY <1>15
    <3> QED BY <1>6, <3>1
  <2>2. \A b \in Indices : b \notin ToSet(from) => meta'[b] \in [config : Configs, index : Nat]
    BY <1>5 DEF Configured
  <2>3. DOMAIN meta' = Indices /\ meta' = [b \in Indices |-> meta'[b]]
    BY <1>5
  <2> QED BY <2>1, <2>2, <2>3
<1>17. FollowsItsFeatures'
  <2> SUFFICES ASSUME NEW g \in Features, NEW b, b \in ToSet(frames'[g])
               PROVE  g \in enabled[meta'[b].config] /\ EntryIn(heap, g, meta'[b])
    BY <1>5 DEF FollowsItsFeatures, AtItsEntry, EntryIn, NextWord
  <2>1. PICK i \in 1..n : b = from[i] /\ nexts[i] = g /\ b \in ToSet(from)
    <3>1. PICK i \in 1..n : b = from[i] /\ nexts[i] = g
      BY <1>3, <1>7, <1>12
    <3>2. b \in ToSet(from)
      BY <1>3, <3>1 DEF ToSet
    <3> QED BY <3>1, <3>2
  <2>2. meta'[b] = [config |-> config[i], index |-> 1]
    <3>1. PICK j \in 1..n : from[j] = b /\ meta'[b] = [config |-> config[j], index |-> 1]
      BY <1>15, <2>1
    <3>2. i = j
      BY <1>3, <2>1, <3>1 DEF Once
    <3> QED BY <3>1, <3>2
  <2>3. config[i] \in Configs /\ enabled[config[i]] # {} /\ g = FirstFeature(config[i])
    BY <1>4, <2>1
  <2>4. g \in enabled[config[i]] /\ AtItsEntry(g, [config |-> config[i], index |-> 1])
    BY <2>3, FromTheStart
  <2> QED BY <2>2, <2>4 DEF AtItsEntry, EntryIn
<1>18. carried' \subseteq InFrames'
  BY <1>5 DEF Configured
<1> QED BY <1>5, <1>14, <1>16, <1>17, <1>18 DEF Configured

LEMMA EnqueueOneConfigured ==
  ASSUME Owned, Configured, NEW b \in loose, NEW c \in Configs, EnqueueOne(b, c)
  PROVE  Owned' /\ Configured'
<1>1. /\ enabled[c] # {}
      /\ loose' = loose \ {b}
      /\ frames' = [frames EXCEPT ![FirstFeature(c)] = Append(@, b)]
      /\ meta' = [meta EXCEPT ![b] = [config |-> c, index |-> 1]]
      /\ UNCHANGED <<pool, held, enabled, heap, carried>>
  BY DEF EnqueueOne
<1>2. PICK g : g = FirstFeature(c)
  OBVIOUS
<1>3. g \in Features /\ g \in enabled[c] /\ AtItsEntry(g, [config |-> c, index |-> 1])
  BY <1>1, <1>2, FromTheStart
<1>4. b \in Indices /\ b \notin InFrames
  BY DEF Owned
<1>5. /\ frames \in [Features -> Seq(Indices)]
      /\ \A f \in Features : Once(frames[f])
      /\ \A f, h \in Features : ToSet(frames[f]) \cap ToSet(frames[h]) # {} => f = h
  BY DEF Owned, Apart
<1>6. \A f \in Features : ToSet(frames[f]) \subseteq InFrames
  BY DEF InFrames
<1>7. /\ Append(frames[g], b) \in Seq(Indices)
      /\ Once(Append(frames[g], b))
      /\ ToSet(Append(frames[g], b)) = ToSet(frames[g]) \cup {b}
  <2>1. PICK s \in Seq(Indices) : s = frames[g]
    BY <1>3, <1>5
  <2>2. <<b>> \in Seq(Indices) /\ ToSet(<<b>>) = {b} /\ Once(<<b>>) /\ Append(s, b) = s \o <<b>>
    BY <1>4 DEF ToSet, Once
  <2>3. Once(s) /\ ToSet(s) \cap ToSet(<<b>>) = {}
    BY <1>3, <1>4, <1>5, <1>6, <2>1, <2>2
  <2>4. PICK t \in Seq(Indices) : t = <<b>>
    BY <2>2
  <2>5. s \o t \in Seq(Indices) /\ ToSet(s \o t) = ToSet(s) \cup ToSet(t) /\ Once(s \o t)
    <3>1. Once(s) /\ Once(t) /\ ToSet(s) \cap ToSet(t) = {}
      BY <2>2, <2>3, <2>4
    <3> QED BY <3>1, Joined
  <2> QED BY <2>1, <2>2, <2>4, <2>5
<1>8. \A f \in Features : frames'[f] = IF f = g THEN Append(frames[g], b) ELSE frames[f]
  BY <1>1, <1>2, <1>5
<1>9. \A f \in Features : ToSet(frames'[f]) = IF f = g THEN ToSet(frames[g]) \cup {b} ELSE ToSet(frames[f])
  BY <1>7, <1>8
<1>10. PICK fr2 : fr2 = frames'
  OBVIOUS
<1>11. Apart(fr2)
  <2>1. fr2 \in [Features -> Seq(Indices)]
    BY <1>1, <1>2, <1>3, <1>5, <1>7, <1>10
  <2>2. \A f \in Features : Once(fr2[f])
    BY <1>5, <1>7, <1>8, <1>10
  <2>3. \A f, h \in Features : ToSet(fr2[f]) \cap ToSet(fr2[h]) # {} => f = h
    BY <1>4, <1>5, <1>6, <1>9, <1>10
  <2> QED BY <2>1, <2>2, <2>3 DEF Apart
<1>12. InFrames' = InFrames \cup {b}
  BY <1>3, <1>9 DEF InFrames
<1>13. Owned'
  <2>1. /\ {pool, held, loose} \subseteq SUBSET Indices
        /\ pool \cap held = {} /\ pool \cap loose = {} /\ held \cap loose = {}
        /\ InFrames \cap (pool \cup held \cup loose) = {}
        /\ Indices \subseteq pool \cup held \cup loose \cup InFrames
    BY DEF Owned
  <2>2. /\ {pool', held', loose'} \subseteq SUBSET Indices
        /\ pool' \cap held' = {} /\ pool' \cap loose' = {} /\ held' \cap loose' = {}
        /\ InFrames' \cap (pool' \cup held' \cup loose') = {}
        /\ Indices \subseteq pool' \cup held' \cup loose' \cup InFrames'
    BY <1>1, <1>12, <2>1
  <2> QED BY <1>10, <1>11, <2>2 DEF Owned
<1>14. meta' \in [Indices -> [config : Configs, index : Nat]] /\ meta'[b] = [config |-> c, index |-> 1]
       /\ \A x : x # b => meta'[x] = meta[x]
  <2>1. meta \in [Indices -> [config : Configs, index : Nat]]
    BY DEF Configured
  <2> QED BY <1>1, <1>4, <2>1
<1>15. FollowsItsFeatures'
  <2> SUFFICES ASSUME NEW f \in Features, NEW x, x \in ToSet(frames'[f]), x \notin carried
               PROVE  f \in enabled[meta'[x].config] /\ EntryIn(heap, f, meta'[x])
    BY <1>1 DEF FollowsItsFeatures, AtItsEntry, EntryIn, NextWord
  <2>1. CASE x = b
    <3>1. f = g
      BY <1>4, <1>6, <1>9, <2>1
    <3> QED BY <1>3, <1>14, <2>1, <3>1 DEF AtItsEntry, EntryIn
  <2>2. CASE x # b
    <3>1. x \in ToSet(frames[f])
      BY <1>9, <2>2
    <3> QED BY <1>14, <2>2, <3>1 DEF Configured, FollowsItsFeatures, AtItsEntry, EntryIn
  <2> QED BY <2>1, <2>2
<1>16. carried' \subseteq InFrames'
  BY <1>1, <1>12 DEF Configured
<1> QED BY <1>1, <1>13, <1>14, <1>15, <1>16 DEF Configured

LEMMA NextConfigured == Owned /\ Configured /\ [Next]_vars => Owned' /\ Configured'
<1> SUFFICES ASSUME Owned, Configured, [Next]_vars PROVE Owned' /\ Configured'
  OBVIOUS
<1>1. CASE InFrames = {} /\ HandleStep /\ UNCHANGED <<enabled, heap, frames, meta, carried>>
  BY <1>1, HandleStepConfigured
<1>2. ASSUME NEW f \in Features, NEW c \in Configs, Enable(f, c) \/ Disable(f, c)
      PROVE  Owned' /\ Configured'
  BY <1>2, ChangeConfigured
<1>3. ASSUME NEW n \in 1..MaxFrame, n <= Cardinality(pool),
             NEW config \in [1..n -> {c \in Configs : enabled[c] # {}}],
             Receive(SubSeq(InOrder(pool), 1, n), config)
      PROVE  Owned' /\ Configured'
  <2>1. n \in Nat
    BY FeaturesAssumption
  <2> QED BY <1>3, <2>1, ReceiveConfigured
<1>4. ASSUME NEW f \in Features, NEW drop, NEW stray \in Strays(f), Run(f, drop, stray)
      PROVE  Owned' /\ Configured'
  <2>1. stray \in Nodes
    BY <1>4 DEF Strays, Nodes, Outside
  <2>2. PICK from, nexts, moved, fr : RunFacts(f, from, nexts, moved, drop, fr)
    BY <1>4, <2>1, RunIs
  <2>3. Owned'
    BY <2>2, RunOwned
  <2>4. Configured'
    BY <2>2, RunConfigured
  <2> QED BY <2>3, <2>4
<1>5. ASSUME NEW b \in loose, NEW c \in Configs, EnqueueOne(b, c)
      PROVE  Owned' /\ Configured'
  BY <1>5, EnqueueOneConfigured
<1>6. CASE UNCHANGED vars
  <2>1. UNCHANGED <<pool, held, loose, enabled, heap, frames, meta, carried>>
    BY <1>6 DEF vars, bufferVars
  <2>2. InFrames' = InFrames /\ FollowsItsFeatures'
    BY <2>1 DEF InFrames, Configured, FollowsItsFeatures, AtItsEntry, NextWord
  <2> QED BY <2>1, <2>2 DEF Owned, Configured
<1> QED BY <1>1, <1>2, <1>3, <1>4, <1>5, <1>6 DEF Next

LEMMA FeaturesInvariant == Spec => []FeaturesInv
<1>1. Init => FeaturesInv
  BY PacketsInv, InitConfigured DEF FeaturesInv
<1>2. FeaturesInv /\ [Next]_vars => FeaturesInv'
  BY NextPackets, NextConfigured DEF FeaturesInv
<1> QED BY <1>1, <1>2, PTL DEF Spec

-----------------------------------------------------------------------------
(* The state keeps to its types. *)
THEOREM FeaturesTypeCorrect == Spec => []TypeOK
<1>1. FeaturesInv => TypeOK
  <2> SUFFICES ASSUME FeaturesInv PROVE TypeOK
    OBVIOUS
  <2>1. {pool, held, loose} \subseteq SUBSET Indices
    BY DEF FeaturesInv, Owned
  <2>2. packet \in [Indices -> [at : -PreData..DataSize, len : 0..(PreData + DataSize)]]
    <3>1. packet \in [Indices -> Windows] /\ PacketInBuffer
      BY DEF FeaturesInv, PacketInv
    <3>2. \A b \in Indices : packet[b] \in [at : -PreData..DataSize, len : 0..(PreData + DataSize)]
      <4> SUFFICES ASSUME NEW b \in Indices
                   PROVE  packet[b] \in [at : -PreData..DataSize, len : 0..(PreData + DataSize)]
        OBVIOUS
      <4>1. PICK w \in Windows : w = packet[b]
        BY <3>1
      <4>2. /\ w.at \in Int /\ w.len \in Int /\ w.at >= -PreData
            /\ w.at <= w.at + w.len /\ w.at + w.len <= DataSize
        BY <3>1, <4>1 DEF PacketInBuffer, Windows
      <4>3. PreData \in Nat /\ DataSize \in Nat
        BY BuffersAssumption
      <4>4. w.at \in -PreData..DataSize /\ w.len \in 0..(PreData + DataSize)
        BY <4>2, <4>3
      <4> QED BY <4>1, <4>4 DEF Windows
    <3> QED BY <3>1, <3>2
  <2>3. /\ frames \in [Features -> Seq(Indices)]
        /\ \A f \in Features : frames[f] \in Seq(Indices)
    BY DEF FeaturesInv, Owned, Apart
  <2>4. InFrames \subseteq Indices
    BY <2>3 DEF InFrames, ToSet
  <2> QED BY <2>1, <2>2, <2>3, <2>4 DEF FeaturesInv, Configured, TypeOK, BufferTypeOK
<1> QED BY <1>1, FeaturesInvariant, PTL

(* Each buffer is in the pool, with one owner, or in one frame, and there  *)
(* in one position, for any features, frames and strides.                  *)
THEOREM BuffersHaveOnePlace == Spec => []EachBufferOnce
<1>1. FeaturesInv => EachBufferOnce
  <2> SUFFICES ASSUME Owned, NEW b \in Indices
               PROVE  Cardinality({i \in 1..3 : b \in <<pool, held, loose>>[i]})
                        + Cardinality(UNION {{<<f, i>> : i \in {i \in DOMAIN frames[f] : frames[f][i] = b}}
                                                : f \in Features}) = 1
    BY DEF FeaturesInv, EachBufferOnce
  <2>1. PICK O : O = {i \in 1..3 : b \in <<pool, held, loose>>[i]}
    OBVIOUS
  <2>2. PICK W : W = UNION {{<<f, i>> : i \in {i \in DOMAIN frames[f] : frames[f][i] = b}} : f \in Features}
    OBVIOUS
  <2>3. /\ pool \cap held = {} /\ pool \cap loose = {} /\ held \cap loose = {}
        /\ InFrames \cap (pool \cup held \cup loose) = {}
        /\ Indices \subseteq pool \cup held \cup loose \cup InFrames
    BY DEF Owned
  <2>4. \A i : i \in O <=> (i = 1 /\ b \in pool) \/ (i = 2 /\ b \in held) \/ (i = 3 /\ b \in loose)
    BY <2>1
  <2>5. \A p : p \in W <=> \E f \in Features : \E i \in DOMAIN frames[f] : frames[f][i] = b /\ p = <<f, i>>
    BY <2>2
  <2>6. ASSUME b \in InFrames PROVE Cardinality(O) + Cardinality(W) = 1
    <3>1. O = {}
      BY <2>3, <2>4, <2>6
    <3>2. PICK f \in Features : \E k \in DOMAIN frames[f] : frames[f][k] = b
      BY <2>6 DEF InFrames, ToSet
    <3>3. PICK i : i \in DOMAIN frames[f] /\ frames[f][i] = b
      BY <3>2
    <3>4. \A g \in Features : \A k \in DOMAIN frames[g] : frames[g][k] = b => g = f /\ k = i
      <4> SUFFICES ASSUME NEW g \in Features, NEW k, k \in DOMAIN frames[g], frames[g][k] = b
                   PROVE  g = f /\ k = i
        OBVIOUS
      <4>1. b \in ToSet(frames[g]) /\ b \in ToSet(frames[f])
        BY <3>3 DEF ToSet
      <4>2. g = f
        BY <4>1 DEF Owned, Apart
      <4>3. Once(frames[f])
        BY DEF Owned, Apart
      <4> QED BY <3>3, <4>2, <4>3 DEF Once
    <3>5. W = {<<f, i>>}
      BY <2>5, <3>3, <3>4
    <3>6. Cardinality(O) = 0 /\ Cardinality(W) = 1
      BY <3>1, <3>5, FS_EmptySet, FS_Singleton
    <3> QED BY <3>6
  <2>7. ASSUME b \notin InFrames PROVE Cardinality(O) + Cardinality(W) = 1
    <3>1. W = {}
      BY <2>5, <2>7 DEF InFrames, ToSet
    <3>2. \E k : O = {k}
      <4>1. b \in pool \/ b \in held \/ b \in loose
        BY <2>3, <2>7
      <4>2. CASE b \in pool
        <5>1. O = {1}
          BY <2>3, <2>4, <4>2
        <5> QED BY <5>1
      <4>3. CASE b \in held
        <5>1. O = {2}
          BY <2>3, <2>4, <4>3
        <5> QED BY <5>1
      <4>4. CASE b \in loose
        <5>1. O = {3}
          BY <2>3, <2>4, <4>4
        <5> QED BY <5>1
      <4> QED BY <4>1, <4>2, <4>3, <4>4
    <3>3. Cardinality(O) = 1 /\ Cardinality(W) = 0
      BY <3>1, <3>2, FS_EmptySet, FS_Singleton
    <3> QED BY <3>3
  <2>8. Cardinality(O) + Cardinality(W) = 1
    BY <2>6, <2>7
  <2> QED BY <2>1, <2>2, <2>8
<1> QED BY <1>1, FeaturesInvariant, PTL

(* A buffer that no stride carried is only in the nodes of features its    *)
(* interface has enabled, with its index at the entry of that feature.     *)
THEOREM PacketsFollowTheirFeatures == Spec => []FollowsItsFeatures
<1>1. FeaturesInv => FollowsItsFeatures
  BY DEF FeaturesInv, Configured
<1> QED BY <1>1, FeaturesInvariant, PTL

LEMMA NextInTheArc ==
  ASSUME Configured, NEW f \in Features, NEW x \in Indices, NEW y \in Indices, NEW stray,
         AtItsEntry(f, meta[x]), AtItsEntry(f, meta[y]),
         enabled[meta[x].config] = enabled[meta[y].config]
  PROVE  FeatureNext(f, Address(x), stray) = FeatureNext(f, Address(y), stray)
<1>1. PICK m \in [config : Configs, index : Nat], o \in [config : Configs, index : Nat] :
        m = meta[x] /\ o = meta[y]
  BY DEF Configured
<1>2. PICK s, on : on = enabled[m.config] /\ s = StringOf(on)
  OBVIOUS
<1>3. heap[m.config] = s /\ heap[o.config] = s
  BY <1>1, <1>2 DEF Configured
<1>4. PICK j \in Nat \ {0}, k \in Nat \ {0} : j = NextWord(f, m) /\ k = NextWord(f, o)
  BY FeaturesAssumption DEF NextWord
<1>5. Len(s) \in Nat
  BY <1>2, StringIs
<1>6. IsWordOf(StringOf(on), f, j) /\ IsWordOf(StringOf(on), f, k)
  <2>1. j <= Len(s) /\ s[j].node = f /\ k <= Len(s) /\ s[k].node = f
    BY <1>1, <1>3, <1>4 DEF AtItsEntry
  <2> QED BY <1>2, <1>4, <1>5, <2>1 DEF IsWordOf
<1>7. j = k
  BY <1>6, OneEntry
<1>8. At(Address(x)) = x /\ At(Address(y)) = y
  BY AtIs
<1>9. FeatureNext(f, Address(x), stray) = s[j].to /\ FeatureNext(f, Address(y), stray) = s[k].to
  BY <1>1, <1>3, <1>4, <1>8 DEF FeatureNext
<1> QED BY <1>7, <1>9

(* For any frame, data and features, strides of four send their buffers    *)
(* where they would go one by one, if those that share an arc have the     *)
(* same features enabled and none has been carried before.                 *)
THEOREM StridesGoTheRightWay == Spec => []CarriedGoTheRightWay
<1>1. FeaturesInv => CarriedGoTheRightWay
  <2> SUFFICES ASSUME FeaturesInv, NEW f \in Features,
                      SameFeaturesPerArc(ToSet(frames[f])), ToSet(frames[f]) \cap carried = {}
               PROVE  NextsX4(f, GetBuffers(frames[f]), {}, "drop") = NextsX1(f, GetBuffers(frames[f]), {}, "drop")
    BY DEF CarriedGoTheRightWay
  <2>1. Configured /\ Owned
    BY DEF FeaturesInv
  <2>2. PICK from \in Seq(Indices) : from = frames[f]
    BY <2>1 DEF Owned, Apart
  <2>3. PICK n \in Nat : n = Len(from)
    OBVIOUS
  <2>4. PICK b : b = [i \in 1..n |-> Address(from[i])]
    OBVIOUS
  <2>5. GetBuffers(from) = b /\ Len(b) = n
    BY <2>2, <2>3, <2>4, FrameReferences
  <2>6. \A i \in 1..n : /\ from[i] \in Indices /\ b[i] = Address(from[i]) /\ At(b[i]) = from[i]
                        /\ from[i] \in ToSet(from)
    BY <2>2, <2>3, <2>4, AtIs DEF ToSet
  <2>7. \A i \in 1..n : AtItsEntry(f, meta[from[i]])
    BY <2>1, <2>2, <2>6 DEF Configured, FollowsItsFeatures
  <2>8. ASSUME NEW i \in 1..n
        PROVE  /\ i \in 1..StridesEnd(b) \cup Tail4(b)
               /\ FeatureNext(f, b[Asked(b, i)], "drop") = FeatureNext(f, b[i], "drop")
    <3>1. Asked(b, i) \in 1..n /\ i \in 1..StridesEnd(b) \cup Tail4(b)
      BY <2>5, AskedIs
    <3>2. CASE Asked(b, i) = i
      BY <3>1, <3>2
    <3>3. CASE Asked(b, i) # i
      <4>1. i <= StridesEnd(b) /\ SharesNext(b, i) /\ Asked(b, i) = First(i)
        BY <3>3 DEF Asked
      <4>2. PICK j : j = First(i)
        OBVIOUS
      <4>3. j \in 1..n /\ i \in j..(j + 3)
        <5>1. i <= 4 * (n \div 4)
          BY <2>5, <4>1 DEF StridesEnd
        <5> QED BY <3>1, <4>1, <4>2, <5>1, FirstOfStride
      <4>4. Arc(b[i]) = Arc(b[j])
        BY <4>1, <4>2, <4>3 DEF SharesNext
      <4>5. meta[from[i]].config.arc = meta[from[j]].config.arc
        BY <2>6, <4>3, <4>4 DEF Arc
      <4>6. enabled[meta[from[i]].config] = enabled[meta[from[j]].config]
        BY <2>2, <2>6, <4>3, <4>5 DEF SameFeaturesPerArc
      <4>7. FeatureNext(f, Address(from[i]), "drop") = FeatureNext(f, Address(from[j]), "drop")
        BY <2>1, <2>6, <2>7, <4>3, <4>6, NextInTheArc
      <4> QED BY <2>6, <3>1, <4>1, <4>2, <4>3, <4>7
    <3> QED BY <3>2, <3>3
  <2>9. NextsX4(f, b, {}, "drop") = [i \in 1..n |-> FeatureNext(f, b[i], "drop")]
    BY <2>5, <2>8 DEF NextsX4
  <2>10. NextsX1(f, b, {}, "drop") = [i \in 1..n |-> FeatureNext(f, b[i], "drop")]
    BY <2>5 DEF NextsX1
  <2> QED BY <2>2, <2>5, <2>9, <2>10
<1> QED BY <1>1, FeaturesInvariant, PTL
=============================================================================
