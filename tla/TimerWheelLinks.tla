---- MODULE TimerWheelLinks ----
(***************************************************************************)
(* The timer wheel of vpp-plugin/src/vppinfra/tw_timer.rs with the lists   *)
(* it is built from: slab entries joined by next and previous indices, one *)
(* head entry per slot.  TimerWheel abstracts each list to a set; here the *)
(* list surgery is explicit, and process_level walks a detached list entry *)
(* by entry while start_timer_unchecked re-links entries of that list.     *)
(***************************************************************************)
EXTENDS Integers, FiniteSets

CONSTANTS
    NumLevels, NumSlots, Keys, Intervals, MaxTime,  \* as in TimerWheel
    Empty                                           \* EMPTY_INDEX

VARIABLES
    currentTime, position, expireTime, cascade,  \* as in TimerWheel
    next, previous,  \* the links of the heads and of the timer entries
    walking,         \* TRUE while process_level walks the list it detached
    timerIndex       \* the local timer_index of that walk

vars == <<currentTime, position, expireTime, cascade, next, previous, walking, timerIndex>>

Levels == 0 .. NumLevels - 1
Slots  == 0 .. NumSlots - 1
Heads  == Levels \X Slots
Nodes  == Heads \cup Keys

\* The entries that can be reached from entry n by following next: those of
\* every set that has n and with an entry the one after it.
Chain(n) ==
    LET Closed(S) == \A k \in S : next[k] \in S \cup {Empty}
    IN  {k \in Keys : \A S \in SUBSET Keys : n \in S \cup {Empty} /\ Closed(S) => k \in S}

\* The wheel these lists represent when no walk is in progress.
Lists == INSTANCE TimerWheel WITH slots <- [q \in Heads |-> Chain(next[q])]

\* The heads and the timers have slab indices of their own.
ASSUME LinksAssumption ==
    /\ Lists!WheelAssumption
    /\ Lists!SpanAssumption
    /\ Empty \notin Nodes
    /\ Heads \cap Keys = {}

Live == Lists!Live

(***************************************************************************)
(* List surgery.                                                           *)
(***************************************************************************)

\* Deviation: the entry that was first keeps its old previous index.
LinkForward(k, head) ==
    /\ next' = [next EXCEPT ![head] = k, ![k] = next[head]]
    /\ previous' = [previous EXCEPT ![k] = head]

\* start_timer_unchecked, last part: entry k becomes the first of its list.
Link(k, head) ==
    LET oldFirst == next[head]
    IN  /\ next' = [next EXCEPT ![head] = k, ![k] = oldFirst]
        /\ previous' = [n \in Nodes |->
              CASE n = k        -> head
                [] n = oldFirst -> k
                [] OTHER        -> previous[n]]

\* Entry k is taken out of its list and of the slab.
Unlink(k) ==
    /\ next' = [next EXCEPT ![previous[k]] = next[k], ![k] = Empty]
    /\ previous' = [n \in Nodes |->
          CASE n = k       -> Empty
            [] n = next[k] -> previous[k]
            [] OTHER       -> previous[n]]

(***************************************************************************)
(* Operations.                                                             *)
(***************************************************************************)

Init ==
    /\ currentTime = 0
    /\ position = [l \in Levels |-> 0]
    /\ expireTime = [k \in Keys |-> Lists!Vacant]
    /\ cascade = Lists!Idle
    /\ next = [n \in Nodes |-> Empty]
    /\ previous = [n \in Nodes |-> Empty]
    /\ walking = FALSE
    /\ timerIndex = Empty

Insert(k, delta) ==
    /\ cascade = Lists!Idle
    /\ k \notin Live
    /\ expireTime' = [expireTime EXCEPT ![k] = currentTime + delta]
    /\ Link(k, Lists!Place(delta))
    /\ UNCHANGED <<currentTime, position, cascade, walking, timerIndex>>

StartTimer(k, interval) == Insert(k, interval)

StartTimerAbsolute(k, expire) ==
    /\ expire > currentTime
    /\ Insert(k, expire - currentTime)

StopTimer(k) ==
    /\ cascade = Lists!Idle
    /\ k \in Live
    /\ expireTime' = [expireTime EXCEPT ![k] = Lists!Vacant]
    /\ Unlink(k)
    /\ UNCHANGED <<currentTime, position, cascade, walking, timerIndex>>

BeginTick ==
    /\ cascade = Lists!Idle
    /\ currentTime < MaxTime
    /\ currentTime' = currentTime + 1
    /\ cascade' = 0
    /\ UNCHANGED <<position, expireTime, next, previous, walking, timerIndex>>

\* process_level takes the list of the current slot off its head.
Detach(l) ==
    /\ cascade = l
    /\ ~walking
    /\ LET head == <<l, position[l]>>
       IN  /\ timerIndex' = next[head]
           /\ next' = [next EXCEPT ![head] = Empty]
    /\ walking' = TRUE
    /\ UNCHANGED <<currentTime, position, expireTime, cascade, previous>>

Due(k) == expireTime[k] <= currentTime

\* A due entry leaves the slab; its links go with it.
ExpireEntry ==
    /\ walking
    /\ timerIndex # Empty
    /\ Due(timerIndex)
    /\ expireTime' = [expireTime EXCEPT ![timerIndex] = Lists!Vacant]
    /\ next' = [next EXCEPT ![timerIndex] = Empty]
    /\ previous' = [previous EXCEPT ![timerIndex] = Empty]
    /\ timerIndex' = next[timerIndex]
    /\ UNCHANGED <<currentTime, position, cascade, walking>>

\* Deviation: the walk goes on from the entry's new next index.
RelinkEntryThenRead ==
    /\ walking
    /\ timerIndex # Empty
    /\ ~Due(timerIndex)
    /\ Link(timerIndex, Lists!Place(expireTime[timerIndex] - currentTime))
    /\ timerIndex' = next'[timerIndex]
    /\ UNCHANGED <<currentTime, position, expireTime, cascade, walking>>

\* Another is linked again; next_timer_index was read before that.
RelinkEntry ==
    /\ walking
    /\ timerIndex # Empty
    /\ ~Due(timerIndex)
    /\ Link(timerIndex, Lists!Place(expireTime[timerIndex] - currentTime))
    /\ timerIndex' = next[timerIndex]
    /\ UNCHANGED <<currentTime, position, expireTime, cascade, walking>>

\* Deviation: the position runs past the last slot.
EndLevelUnwrapped(l) ==
    /\ cascade = l
    /\ walking
    /\ timerIndex = Empty
    /\ position' = [position EXCEPT ![l] = @ + 1]
    /\ cascade' = Lists!CascadeTo(l, position[l] + 1)
    /\ walking' = FALSE
    /\ UNCHANGED <<currentTime, expireTime, next, previous, timerIndex>>

EndLevel(l) ==
    /\ cascade = l
    /\ walking
    /\ timerIndex = Empty
    /\ position' = [position EXCEPT ![l] = Lists!NextPosition(@)]
    /\ cascade' = Lists!CascadeTo(l, Lists!NextPosition(position[l]))
    /\ walking' = FALSE
    /\ UNCHANGED <<currentTime, expireTime, next, previous, timerIndex>>

Next ==
    \/ \E k \in Keys, i \in Intervals :
          \/ StartTimer(k, i)
          \/ StartTimerAbsolute(k, currentTime + i)
    \/ \E k \in Keys : StopTimer(k)
    \/ BeginTick
    \/ \E l \in Levels : Detach(l) \/ EndLevel(l)
    \/ ExpireEntry
    \/ RelinkEntry

Spec == Init /\ [][Next]_vars

(***************************************************************************)
(* Properties.                                                             *)
(***************************************************************************)

TypeOK ==
    /\ position \in [Levels -> Slots]
    /\ cascade \in 0 .. NumLevels
    /\ next \in [Nodes -> Keys \cup {Empty}]
    /\ previous \in [Nodes -> Nodes \cup {Empty}]
    /\ timerIndex \in Keys \cup {Empty}

\* No index of a list leads to a vacated slab entry, where indexing the slab
\* would panic; and outside a walk next and previous are inverse, which is what
\* lets stop_timer unlink an entry without knowing its slot.
LinksSound ==
    /\ \A n \in Heads \cup Live : next[n] \in Live \cup {Empty}
    /\ timerIndex \in Live \cup {Empty}
    /\ ~walking => /\ \A n \in Heads \cup Live :
                          next[n] # Empty => previous[next[n]] = n
                   /\ \A k \in Live : /\ previous[k] \in Heads \cup Live
                                      /\ next[previous[k]] = k

\* The whole walk of a level is the single step ProcessLevel of TimerWheel,
\* taken when the list is detached: what the walk still has to do with the
\* entries ahead of it counts as done.
Ahead == IF walking THEN Chain(timerIndex) ELSE {}

DoneSlots ==
    [q \in Heads |->
        Chain(next[q]) \cup
            {k \in Ahead : ~Due(k) /\ Lists!Place(expireTime[k] - currentTime) = q}]

DoneExpireTime ==
    [k \in Keys |-> IF k \in Ahead /\ Due(k) THEN Lists!Vacant ELSE expireTime[k]]

DonePosition ==
    IF walking THEN [position EXCEPT ![cascade] = Lists!NextPosition(@)] ELSE position

DoneCascade ==
    IF walking THEN Lists!CascadeTo(cascade, DonePosition[cascade]) ELSE cascade

Wheel == INSTANCE TimerWheel WITH
    slots      <- DoneSlots,
    expireTime <- DoneExpireTime,
    position   <- DonePosition,
    cascade    <- DoneCascade

\* The lists implement the sets of TimerWheel: no interleaving of insertion,
\* removal and re-linking during a walk loses, duplicates or misplaces a timer.
ImplementsTimerWheel == Wheel!Spec
====
