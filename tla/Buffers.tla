------------------------------ MODULE Buffers ------------------------------
(***************************************************************************)
(* Packet buffers as vlib/buffer.rs handles them.  A buffer is known by an *)
(* index, which counts cache lines of VPP's buffer memory, and belongs to  *)
(* the pool, to a BufferWithContext, to code that took the index out of    *)
(* one, or to the frame of a node.  References are pointers computed from  *)
(* indices: eight at a time in u64 for a frame, one by one through u32     *)
(* for a BufferWithContext.  Addresses are relative to buffer_mem_start.   *)
(***************************************************************************)
EXTENDS Integers, Sequences, FiniteSets

CONSTANTS
  Indices,   \* the buffer indices
  Line,      \* bytes of a cache line
  U32,       \* 2^32
  FrameSize, \* capacity of a frame and of the references to its buffers
  PreData,   \* bytes in front of the data, for headers to come
  DataSize,  \* default_data_size
  ToCode,    \* bound on the buffers that alloc_buffer hands out
  MaxHeld    \* bound on the BufferWithContexts at a time

ASSUME BuffersAssumption == /\ Indices \subseteq Nat /\ ToCode \subseteq Indices
                            /\ {Line, U32} \subseteq Nat \ {0}
                            /\ {PreData, DataSize, MaxHeld} \subseteq Nat
                            /\ FrameSize \in Nat /\ FrameSize % 8 = 0

VARIABLES
  pool,    \* buffers VPP can allocate, or is sending out
  held,    \* buffers owned by a BufferWithContext
  loose,   \* indices taken out of one by into_parts
  packet   \* per buffer, current_data and current_length

bufferVars == <<pool, held, loose, packet>>

-----------------------------------------------------------------------------
Address(b) == b * Line

(* get_buffers with room for a number of buffers that is no multiple of 8, *)
(* as in as_buffer_ref: the index is shifted while it is a u32.            *)
AddressU32(b) == (b * Line) % U32

(* The other get_buffers rounds n up to lanes of eight, and stores lanes   *)
(* of 64 while it can, then of 32, 16 and 8, each once.                    *)
RoundUp8(n) == 8 * ((n + 7) \div 8)
RestAfter64(n) == RoundUp8(n) % 64

(* Deviation: an off-by-one at 32 references left. *)
RestAfter32Strict(n) == IF RestAfter64(n) > 32 THEN RestAfter64(n) - 32 ELSE RestAfter64(n)

RestAfter32(n) == IF RestAfter64(n) >= 32 THEN RestAfter64(n) - 32 ELSE RestAfter64(n)
RestAfter16(n) == IF RestAfter32(n) >= 16 THEN RestAfter32(n) - 16 ELSE RestAfter32(n)
LastStore(n) == IF RestAfter16(n) > 0 THEN 8 ELSE 0
Stored(n) == RoundUp8(n) - RestAfter16(n) + LastStore(n)

(* The references to the buffers of a frame, cut to the frame's length; -1 *)
(* was never stored.                                                       *)
GetBuffers(from) ==
  SubSeq([i \in 1..Len(from) |-> IF i <= Stored(Len(from)) THEN Address(from[i]) ELSE -1],
         1, Len(from))

-----------------------------------------------------------------------------
NoData == [at |-> 0, len |-> 0]

BufferInit == /\ pool = Indices
              /\ held = {}
              /\ loose = {}
              /\ packet = [b \in Indices |-> NoData]

(* alloc_buffer, which fails when the pool has none left. *)
AllocBuffer(b) == /\ Cardinality(held \cup loose) < MaxHeld
                  /\ b \in pool \cap ToCode
                  /\ pool' = pool \ {b}
                  /\ held' = held \cup {b}
                  /\ packet' = [packet EXCEPT ![b] = NoData]
                  /\ UNCHANGED loose

DropBuffer(b) == /\ b \in held
                 /\ held' = held \ {b}
                 /\ pool' = pool \cup {b}
                 /\ packet' = [packet EXCEPT ![b] = NoData]
                 /\ UNCHANGED loose

IntoParts(b) == /\ b \in held
                /\ held' = held \ {b}
                /\ loose' = loose \cup {b}
                /\ UNCHANGED <<pool, packet>>

FromParts(b) == /\ b \in loose
                /\ loose' = loose \ {b}
                /\ held' = held \cup {b}
                /\ UNCHANGED <<pool, packet>>

(* Deviation: what was advanced over still counts. *)
AdvancedKeepingLength(p, l) == [p EXCEPT !.at = @ + l]

(* The window of a packet after advance(l) and put_uninit(size). *)
Advanced(p, l) == [at |-> p.at + l, len |-> p.len - l]
Put(p, size) == [p EXCEPT !.len = @ + size]

(* Deviation: an off-by-one. *)
HasSpaceAlmost(p, l) == l >= 0 /\ p.len >= l - 1

(* has_space(l), where a negative l becomes a large u16. *)
HasSpace(p, l) == l >= 0 /\ p.len >= l

(* What the unsafe methods ask of their callers. *)
MayAdvance(p, l) == IF l >= 0 THEN HasSpace(p, l) ELSE p.at + PreData >= -l
MayPut(p, size) == p.at + p.len + size <= DataSize

(* Code changes the window of the packet that as_buffer_ref leads to. *)
ThroughHandle(b, Allowed(_), Change(_)) ==
  /\ b \in held
  /\ \A c \in Indices : Address(c) = AddressU32(b) => Allowed(packet[c])
  /\ packet' = [c \in Indices |-> IF Address(c) = AddressU32(b) THEN Change(packet[c]) ELSE packet[c]]
  /\ UNCHANGED <<pool, held, loose>>

Advance(b, l) == ThroughHandle(b, LAMBDA p : MayAdvance(p, l), LAMBDA p : Advanced(p, l))
PutUninit(b, n) == ThroughHandle(b, LAMBDA p : MayPut(p, n), LAMBDA p : Put(p, n))

HandleStep == \/ \E b \in Indices : AllocBuffer(b) \/ DropBuffer(b) \/ IntoParts(b) \/ FromParts(b)
              \/ \E b \in Indices, l \in -PreData..DataSize : Advance(b, l)
              \/ \E b \in Indices, n \in 1..DataSize : PutUninit(b, n)

-----------------------------------------------------------------------------
BufferTypeOK ==
  /\ {pool, held, loose} \subseteq SUBSET Indices
  /\ packet \in [Indices -> [at : -PreData..DataSize, len : 0..(PreData + DataSize)]]

(* Headers are pushed and pulled with advance and data is appended with    *)
(* put_uninit; in any order, and as long as each call's own condition is   *)
(* met, the packet stays within the buffer's memory.                       *)
PacketInBuffer == \A b \in Indices : /\ packet[b].at >= -PreData
                                     /\ packet[b].at + packet[b].len \in packet[b].at..DataSize
=============================================================================
