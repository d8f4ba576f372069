---------------------------- MODULE FeatureNodes ----------------------------
(***************************************************************************)
(* Feature nodes of this crate in VPP's feature arcs.  The configuration   *)
(* of an interface in an arc is a string of words in the arc's heap: for   *)
(* each enabled feature, in the order of the arc, the words of its         *)
(* FeatureData and the node to go to from there.  A buffer's               *)
(* current_config_index stands at the entry of the node it is in;          *)
(* vnet_feature_next reads the next node and moves it to the next entry.   *)
(*                                                                         *)
(* A node runs generic_feature_node_x1 or generic_feature_node_x4.  The    *)
(* latter takes strides of four, and when these are in the same arc asks   *)
(* for the first of them only: the other three are sent along, and         *)
(* `carried` records that their index was left behind.                     *)
(***************************************************************************)
EXTENDS Buffers, SequencesExt, FiniteSetsExt

CONSTANTS
  Order,     \* the features, in the order they have in their arcs
  Words,     \* the size of each feature's FeatureData in words
  ByFour,    \* the features whose node is generic_feature_node_x4
  Configs,   \* the interfaces' configurations: records with an arc and an interface
  Setups,    \* bound on the features enabled at the same time: values of `enabled`
  MaxFrame,  \* bound on the buffers received at a time
  MaxDefined \* bound on the buffers of a frame that are sent to a DefinedNode

VARIABLES
  enabled,   \* per configuration, the features enabled
  heap,      \* per configuration, its string in config_string_heap
  frames,    \* per feature, the frame waiting for its node
  meta,      \* per buffer, its configuration and the index into its string
  carried    \* history

vars == <<bufferVars, enabled, heap, frames, meta, carried>>

Features == ToSet(Order)

(* The rest of the graph: the end of an arc, and the drop node. *)
Outside == {"end", "drop"}
Nodes == Features \cup Outside

ASSUME FeaturesAssumption ==
  /\ IsFiniteSet(Indices)
  /\ Order \in Seq(Features) /\ \A i, j \in DOMAIN Order : Order[i] = Order[j] => i = j
  /\ Words \in [Features -> Nat]
  /\ Features \cap (Outside \cup {"start", "data"}) = {}
  /\ Configs # {} /\ Setups \subseteq [Configs -> SUBSET Features]
  /\ {MaxFrame, MaxDefined} \subseteq Nat

InFrames == UNION {ToSet(frames[f]) : f \in Features}

-----------------------------------------------------------------------------
(* The configuration string for the features of `on`, as VPP builds it:    *)
(* the node to start with, and an entry for each feature.                  *)

(* The index at which the entry of the ith feature of the order ends. *)
Ends(on) ==
  LET end[i \in 0..Len(Order)] ==
        IF i = 0 THEN 1
        ELSE end[i - 1] + (IF Order[i] \in on THEN Words[Order[i]] + 1 ELSE 0)
  IN end

(* Where packets go from there. *)
NextOn(on, i) ==
  LET later == {j \in (i + 1)..Len(Order) : Order[j] \in on}
  IN IF later = {} THEN "end" ELSE Order[Min(later)]

StringOf(on) ==
  LET end == Ends(on)
      entry(k) == {i \in 1..Len(Order) : Order[i] \in on /\ end[i] = k}
  IN [k \in 1..end[Len(Order)] |->
        IF k = 1 THEN [node |-> "start", to |-> NextOn(on, 0)]
        ELSE IF entry(k) = {} THEN [node |-> "data", to |-> "data"]
        ELSE [node |-> Order[Min(entry(k))], to |-> NextOn(on, Min(entry(k)))]]

FirstFeature(c) == heap[c][1].to

(* vnet_get_config_data of a node f for the buffer at p, if the word is    *)
(* that of f.  Any other word means nothing to f, and may be the number of *)
(* any node: `stray`.                                                      *)
At(p) == CHOOSE b \in Indices : Address(b) = p

NextWord(f, m) == m.index + Words[f] + 1

AtItsEntry(f, m) == /\ NextWord(f, m) <= Len(heap[m.config])
                    /\ heap[m.config][NextWord(f, m)].node = f

FeatureNext(f, p, stray) ==
  LET m == meta[At(p)]
  IN IF AtItsEntry(f, m) THEN heap[m.config][NextWord(f, m)].to ELSE stray

(* Deviation: the word of the next node is not skipped. *)
MovedShort(f, m) == [m EXCEPT !.index = @ + Words[f]]

(* The config index after vnet_feature_next, where one index beyond the    *)
(* string stands for all of them.                                          *)
Moved(f, m) == [m EXCEPT !.index = Min({NextWord(f, m), Len(heap[m.config]) + 1})]

-----------------------------------------------------------------------------
NoMeta == [config |-> CHOOSE c \in Configs : TRUE, index |-> 1]

Init == /\ BufferInit
        /\ enabled \in Setups
        /\ heap = [c \in Configs |-> StringOf(enabled[c])]
        /\ frames = [f \in Features |-> <<>>]
        /\ meta = [b \in Indices |-> NoMeta]
        /\ carried = {}

(* enable and disable take a BarrierHeldMainRef: no packets are flowing. *)
Enable(f, c) == /\ InFrames = {}
                /\ enabled' = [enabled EXCEPT ![c] = @ \cup {f}]
                /\ enabled' \in Setups
                /\ heap' = [heap EXCEPT ![c] = StringOf(enabled'[c])]
                /\ UNCHANGED <<bufferVars, frames, meta, carried>>

Disable(f, c) == /\ InFrames = {}
                 /\ enabled' = [enabled EXCEPT ![c] = @ \ {f}]
                 /\ enabled' \in Setups
                 /\ heap' = [heap EXCEPT ![c] = StringOf(enabled'[c])]
                 /\ UNCHANGED <<bufferVars, frames, meta, carried>>

(* The members of a finite set of numbers, the least first. *)
InOrder(S) ==
  [k \in 1..Cardinality(S) |-> CHOOSE i \in S : Cardinality({j \in S : j <= i}) = k]

(* Each buffer of `from` goes to its node: into that node's frame, or to   *)
(* the rest of the graph, which frees it in the end.                       *)
SentTo(from, nexts, n) ==
  LET at == InOrder({i \in 1..Len(from) : nexts[i] = n})
  IN [k \in DOMAIN at |-> from[at[k]]]

EnqueueToNext(from, nexts, waiting) ==
  /\ frames' = [f \in Features |-> waiting[f] \o SentTo(from, nexts, f)]
  /\ pool' = pool \cup UNION {ToSet(SentTo(from, nexts, n)) : n \in Outside}

(* Packets arrive and start on their arcs, as VPP starts them. *)
Receive(from, config) ==
  /\ InFrames = {}
  /\ pool' = pool \ ToSet(from)
  /\ frames' = [f \in Features |-> SentTo(from, [i \in 1..Len(from) |-> FirstFeature(config[i])], f)]
  /\ meta' = [b \in Indices |-> IF b \in ToSet(from)
                                THEN [config |-> config[CHOOSE i \in 1..Len(from) : from[i] = b], index |-> 1]
                                ELSE meta[b]]
  /\ UNCHANGED <<held, loose, packet, enabled, heap, carried>>

-----------------------------------------------------------------------------
(* The loops of a node f over the references b.  The buffers at `drop` are *)
(* those for which the node's own map function returns a DefinedNode; of   *)
(* the others the next nodes are those of the arc.                         *)

(* generic_feature_node_x1: the index of a buffer is moved on demand. *)
NextsX1(f, b, drop, stray) ==
  [i \in 1..Len(b) |-> IF i \in drop THEN "drop" ELSE FeatureNext(f, b[i], stray)]
MovedX1(b, drop) == 1..Len(b) \ drop

(* generic_feature_node_x4: the first of a stride stands for the others    *)
(* when all four are in one arc.                                           *)
StridesEnd(b) == 4 * (Len(b) \div 4)
First(i) == i - ((i - 1) % 4)
Arc(p) == meta[At(p)].config.arc

(* Deviation: only the second of a stride is compared with the first. *)
SharesNextPair(b, i) == Arc(b[First(i) + 1]) = Arc(b[First(i)])

SharesNext(b, i) == \A j \in First(i)..(First(i) + 3) : Arc(b[j]) = Arc(b[First(i)])

(* Deviation: the last of the buffers that fill no stride is left out. *)
TailShort(b) == (StridesEnd(b) + 1)..(Len(b) - 1)

Tail4(b) == (StridesEnd(b) + 1)..Len(b)

(* The buffer that vnet_feature_next is called on for the ith. *)
Asked(b, i) == IF i <= StridesEnd(b) /\ SharesNext(b, i) THEN First(i) ELSE i

NextsX4(f, b, drop, stray) ==
  [i \in 1..Len(b) |->
     IF i \notin 1..StridesEnd(b) \cup Tail4(b) THEN "uninit"
     ELSE IF i \in drop THEN "drop" ELSE FeatureNext(f, b[Asked(b, i)], stray)]
MovedX4(b) == {Asked(b, i) : i \in 1..Len(b)}

(* A node's function on its frame.  What a buffer's metadata say once it   *)
(* has left the arcs is of no account.                                     *)
Run(f, drop, stray) ==
  LET from == frames[f]
      b == GetBuffers(from)
      nexts == SubSeq(IF f \in ByFour THEN NextsX4(f, b, drop, stray) ELSE NextsX1(f, b, drop, stray),
                      1, Len(b))
      moved == IF f \in ByFour THEN MovedX4(b) ELSE MovedX1(b, drop)
  IN /\ from # <<>>
     /\ EnqueueToNext(from, nexts, [frames EXCEPT ![f] = <<>>])
     /\ meta' = [c \in Indices |->
                   IF c \in pool' THEN NoMeta
                   ELSE IF \E i \in moved : b[i] = Address(c) THEN Moved(f, meta[c]) ELSE meta[c]]
     /\ carried' = (carried \cup {from[i] : i \in 1..Len(from) \ (moved \cup drop)}) \ pool'
     /\ UNCHANGED <<held, loose, packet, enabled, heap>>

(* Code hands its own buffer to the start of an arc. *)
EnqueueOne(b, c) ==
  /\ b \in loose
  /\ enabled[c] # {}
  /\ loose' = loose \ {b}
  /\ frames' = [frames EXCEPT ![FirstFeature(c)] = Append(@, b)]
  /\ meta' = [meta EXCEPT ![b] = [config |-> c, index |-> 1]]
  /\ packet' = [packet EXCEPT ![b] = NoData]
  /\ UNCHANGED <<pool, held, enabled, heap, carried>>

(* A frame's strays go to one node, in this model. *)
Strays(f) == IF ToSet(frames[f]) \cap carried = {} THEN {"drop"} ELSE Nodes

(* VPP dispatches all pending frames before it polls its inputs again and  *)
(* runs process nodes and commands, which have the BufferWithContexts.     *)
Next ==
  \/ InFrames = {} /\ HandleStep /\ UNCHANGED <<enabled, heap, frames, meta, carried>>
  \/ \E f \in Features, c \in Configs : Enable(f, c) \/ Disable(f, c)
  \/ \E n \in 1..MaxFrame :
       /\ n <= Cardinality(pool)
       /\ \E config \in [1..n -> {c \in Configs : enabled[c] # {}}] :
            Receive(SubSeq(InOrder(pool), 1, n), config)
  \/ \E f \in Features :
       \E drop \in {D \in SUBSET DOMAIN frames[f] : Cardinality(D) <= MaxDefined}, stray \in Strays(f) :
         Run(f, drop, stray)
  \/ \E b \in loose, c \in Configs : EnqueueOne(b, c)

Spec == Init /\ [][Next]_vars
-----------------------------------------------------------------------------
TypeOK == /\ BufferTypeOK
          /\ enabled \in [Configs -> SUBSET Features]
          /\ frames \in [Features -> Seq(Indices)]
          /\ meta \in [Indices -> [config : Configs, index : Nat]]
          /\ carried \subseteq Indices

(* Every buffer is in one place, and there once: no frame's loop leaves    *)
(* one out or enqueues one twice, and none is freed and handed on as well. *)
EachBufferOnce ==
  \A b \in Indices :
    Cardinality({i \in 1..3 : b \in <<pool, held, loose>>[i]})
      + Cardinality(UNION {{<<f, i>> : i \in {i \in DOMAIN frames[f] : frames[f][i] = b}}
                              : f \in Features}) = 1

(* When no frame waits VPP may hand a node one of any length: get_buffers   *)
(* then stores a reference to each of its buffers and no lane beyond the   *)
(* capacity of `to`, through whichever of the stores of 64, 32, 16 and 8   *)
(* lanes that length takes.                                                *)
LanesFitFrames ==
  (\A f \in Features : frames[f] = <<>>)
    => \A n \in 0..FrameSize : Stored(n) \in n..FrameSize

(* A buffer visits the features its interface has enabled, and each with   *)
(* its index at that feature's entry, unless a stride carried it.          *)
FollowsItsFeatures ==
  \A f \in Features : \A b \in ToSet(frames[f]) \ carried :
     f \in enabled[meta[b].config] /\ AtItsEntry(f, meta[b])

(* A frame by four goes where it would have gone one by one, if the        *)
(* interfaces that share an arc have the same features enabled: it is only *)
(* in the nodes after that the index of carried buffers is wrong.          *)
SameFeaturesPerArc(bs) ==
  \A a \in bs, b \in bs :
    meta[a].config.arc = meta[b].config.arc => enabled[meta[a].config] = enabled[meta[b].config]

CarriedGoTheRightWay ==
  \A f \in Features :
    LET b == GetBuffers(frames[f])
    IN SameFeaturesPerArc(ToSet(frames[f])) /\ ToSet(frames[f]) \cap carried = {}
         => NextsX4(f, b, {}, "drop") = NextsX1(f, b, {}, "drop")
=============================================================================
