-------------------------- MODULE ApiServerProofs --------------------------
(***************************************************************************)
(* The blocks of messages have one owner each, nothing is kept for a       *)
(* client that has gone, and each request is answered once and in its own  *)
(* context, for any API, any clients and any allocator.  What the parser   *)
(* accepts gives every type one definition and every request one service,  *)
(* whatever the files import.                                              *)
(***************************************************************************)
EXTENDS ApiServer, FiniteSetTheorems, WellFoundedInduction, TLAPS

(* Reading the files leaves the server alone. *)
LEMMA ParserLeavesServer ==
  ParserNext /\ UNCHANGED serverVars => UNCHANGED <<held, heap, outbox>>
BY DEF serverVars

-----------------------------------------------------------------------------
LEMMA MessagesOwnedInit == Init => MessagesOwned
BY DEF Init, InitServer, MessagesOwned

LEMMA MessagesOwnedStep == MessagesOwned /\ [Next]_vars => MessagesOwned'
<1> SUFFICES ASSUME MessagesOwned, [Next]_vars PROVE MessagesOwned'
  OBVIOUS
<1>0. CASE UNCHANGED <<held, heap, outbox>>
  BY <1>0 DEF MessagesOwned
<1>1. CASE \E b \in Buffers \ heap, name \in MessageNames, init \in BOOLEAN :
             /\ heap' = heap \cup {b} /\ held' = held \cup {Owner(b, name, init)}
             /\ outbox' = outbox
  <2>1. PICK b \in Buffers \ heap, name \in MessageNames, init \in BOOLEAN :
               /\ heap' = heap \cup {b} /\ held' = held \cup {Owner(b, name, init)}
               /\ outbox' = outbox
    BY <1>1
  <2>2. Owner(b, name, init).buf = b
    BY DEF Owner
  <2>3. {m.buf : m \in held'} = {m.buf : m \in held} \cup {b}
    BY <2>1, <2>2
  <2>4. (\A m \in held : m.buf # b) /\ (\A o \in outbox : o.buf # b)
    BY DEF MessagesOwned
  <2>5. heap' = {m.buf : m \in held'} \cup {o.buf : o \in outbox'}
    BY <2>1, <2>3 DEF MessagesOwned
  <2> QED
    BY <2>1, <2>2, <2>4, <2>5 DEF MessagesOwned
<1>2. CASE Write
  <2>1. PICK m \in held : held' = (held \ {m}) \cup {Owner(m.buf, m.name, TRUE)}
    BY <1>2 DEF Write
  <2>2. Owner(m.buf, m.name, TRUE).buf = m.buf
    BY DEF Owner
  <2>3. {h.buf : h \in held'} = {h.buf : h \in held}
    BY <2>1, <2>2
  <2>4. UNCHANGED <<heap, outbox>>
    BY <1>2 DEF Write
  <2>5. heap' = {h.buf : h \in held'} \cup {o.buf : o \in outbox'}
    BY <2>3, <2>4 DEF MessagesOwned
  <2>6. \A h \in held' : \E g \in held : g.buf = h.buf /\ (h = g \/ g = m)
    BY <2>1, <2>2
  <2>7. \A h, n \in held' : h.buf = n.buf => h = n
    BY <2>1, <2>2 DEF MessagesOwned
  <2>8. \A h \in held', o \in outbox : h.buf # o.buf
    BY <2>6 DEF MessagesOwned
  <2> QED
    BY <2>4, <2>5, <2>7, <2>8 DEF MessagesOwned
<1>3. CASE DropMessage
  BY <1>3 DEF DropMessage, MessagesOwned
<1>4. CASE Disconnect
  BY <1>4 DEF Disconnect, MessagesOwned
<1>5. CASE Transmit
  BY <1>5 DEF Transmit, MessagesOwned
<1>6. CASE \E m \in held : \E c :
             IntoRaw(m) /\ outbox' = outbox \cup {[buf |-> m.buf, client |-> c]}
  <2>0. PICK m \in held : \E c :
             IntoRaw(m) /\ outbox' = outbox \cup {[buf |-> m.buf, client |-> c]}
    BY <1>6
  <2>1. PICK c : IntoRaw(m) /\ outbox' = outbox \cup {[buf |-> m.buf, client |-> c]}
    BY <2>0
  <2>2. held' = held \ {m} /\ heap' = heap
    BY <2>1 DEF IntoRaw
  <2>3. {h.buf : h \in held} = {h.buf : h \in held'} \cup {m.buf}
    BY <2>2
  <2>4. {o.buf : o \in outbox'} = {o.buf : o \in outbox} \cup {m.buf}
    <3> DEFINE new == [buf |-> m.buf, client |-> c]
    <3>1. new.buf = m.buf /\ outbox' = outbox \cup {new}
      BY <2>1
    <3> HIDE DEF new
    <3> QED
      BY <3>1
  <2>5. heap' = {h.buf : h \in held'} \cup {o.buf : o \in outbox'}
    BY <2>2, <2>3, <2>4 DEF MessagesOwned
  <2>6. \A h \in held' : h \in held /\ h.buf # m.buf
    BY <2>2 DEF MessagesOwned
  <2>7. \A o \in outbox' : o \in outbox \/ o = [buf |-> m.buf, client |-> c]
    BY <2>1
  <2>8. \A o \in outbox : o.buf # m.buf
    BY DEF MessagesOwned
  <2> QED
    BY <2>5, <2>6, <2>7, <2>8 DEF MessagesOwned
<1>7. CASE ReturnError
  <2>1. PICK b \in Buffers \ heap : Allocated(b) /\ Reply(b)
    BY <1>7 DEF ReturnError
  <2>2. held' = held
    BY <1>7 DEF ReturnError
  <2>3. PICK c : heap' = heap \cup {b} /\ outbox' = outbox \cup {[buf |-> b, client |-> c]}
    BY <2>1 DEF Allocated, Reply, Posted
  <2>4. {o.buf : o \in outbox'} = {o.buf : o \in outbox} \cup {b}
    <3> DEFINE new == [buf |-> b, client |-> c]
    <3>1. new.buf = b /\ outbox' = outbox \cup {new}
      BY <2>3
    <3> HIDE DEF new
    <3> QED
      BY <3>1
  <2>5. heap' = {h.buf : h \in held'} \cup {o.buf : o \in outbox'}
    BY <2>2, <2>3, <2>4 DEF MessagesOwned
  <2>6. (\A m \in held : m.buf # b) /\ (\A o \in outbox : o.buf # b)
    BY DEF MessagesOwned
  <2>7. \A o \in outbox' : o \in outbox \/ o = [buf |-> b, client |-> c]
    BY <2>3
  <2> QED
    BY <2>2, <2>5, <2>6, <2>7 DEF MessagesOwned
<1>8. CASE ServerNext /\ UNCHANGED parserVars
  <2>1. CASE New
    BY <2>1, <1>1 DEF New, Allocated
  <2>2. CASE NewUninit
    BY <2>2, <1>1 DEF NewUninit, Allocated
  <2>3. CASE StreamSend
    BY <2>3, <1>6 DEF StreamSend, Posted
  <2>4. CASE ReturnReply
    BY <2>4, <1>6 DEF ReturnReply, Reply, Posted
  <2>5. CASE SendEvent
    BY <2>5, <1>6 DEF SendEvent, Posted
  <2>6. CASE Generate \/ Connect \/ Request \/ Dispatch \/ ReturnNothing
    BY <2>6, <1>0 DEF Generate, Connect, Request, Dispatch, ReturnNothing
  <2> QED
    BY <1>8, <1>2, <1>3, <1>4, <1>5, <1>7, <2>1, <2>2, <2>3, <2>4, <2>5, <2>6
    DEF ServerNext
<1>9. CASE UNCHANGED vars
  BY <1>9, <1>0 DEF vars, serverVars
<1> QED
  BY <1>0, <1>8, <1>9, ParserLeavesServer DEF Next

(* Every block of VPP's message memory in use has exactly one owner, and    *)
(* nothing owns a block that was freed: new, write, assume_init, into_raw   *)
(* and drop of Message, and the sending of replies, streams and events.     *)
THEOREM BlocksHaveOneOwner == Spec => []MessagesOwned
BY MessagesOwnedInit, MessagesOwnedStep, PTL DEF Spec

-----------------------------------------------------------------------------
(* A handler runs while its client is registered: the registration was      *)
(* looked up at dispatch, and nothing disconnects during a handler.         *)
ServingInv ==
  /\ clients \in [Clients -> {"none", "open", "closed"}]
  /\ stage # "serving" => current = <<>>
  /\ current # <<>> => Mp.index.value \in Open
  /\ NothingForTheGone

LEMMA ServingInvInit == Init => ServingInv
BY DEF Init, InitServer, ServingInv, NothingForTheGone

LEMMA ServingInvStep == ServingInv /\ [Next]_vars => ServingInv'
<1> SUFFICES ASSUME ServingInv, [Next]_vars PROVE ServingInv'
  OBVIOUS
<1>1. CASE UNCHANGED serverVars
  BY <1>1 DEF serverVars, ServingInv, NothingForTheGone, Open, Mp
<1>2. CASE ServerNext
  <2>1. CASE Generate
    BY <2>1 DEF Generate, ServingInv, NothingForTheGone, Open
  <2>2. CASE Connect
    BY <2>2 DEF Connect, ServingInv, NothingForTheGone, Open
  <2>3. CASE Disconnect
    BY <2>3 DEF Disconnect, ServingInv, NothingForTheGone, Open
  <2>4. CASE Dispatch
    <3>1. PICK mp : /\ current' = <<mp>> \/ current' = <<>>
                    /\ current' = <<mp>> => Registered(mp.index)
      BY <2>4 DEF Dispatch
    <3>2. stage = "serving" /\ UNCHANGED <<stage, clients, outbox>>
      BY <2>4 DEF Dispatch
    <3> QED
      BY <3>1, <3>2 DEF ServingInv, NothingForTheGone, Open, Registered, Mp
  <2>5. CASE StreamSend \/ ReturnReply \/ ReturnError
    <3>1. Mp.index.value \in Open
      BY <2>5 DEF StreamSend, ReturnReply, ReturnError, Running, ServingInv
    <3>2. \E b : outbox' = outbox \cup {[buf |-> b, client |-> Mp.index.value]}
      BY <2>5 DEF StreamSend, ReturnReply, ReturnError, Reply, Posted
    <3>3. UNCHANGED <<stage, clients>> /\ (current' = current \/ current' = <<>>)
      BY <2>5 DEF StreamSend, ReturnReply, ReturnError
    <3> QED
      BY <3>1, <3>2, <3>3 DEF ServingInv, NothingForTheGone, Open, Mp
  <2>6. CASE SendEvent
    <3>1. PICK c \in Clients : Registered(Swapped(Net(c))) /\
            \E b : outbox' = outbox \cup {[buf |-> b, client |-> c]}
      BY <2>6 DEF SendEvent, Posted
    <3>2. c \in Open
      BY <3>1 DEF Registered, Swapped, Net
    <3>3. UNCHANGED <<stage, clients, current>>
      BY <2>6 DEF SendEvent
    <3> QED
      BY <3>1, <3>2, <3>3 DEF ServingInv, NothingForTheGone, Open, Mp
  <2>7. CASE Transmit
    BY <2>7 DEF Transmit, ServingInv, NothingForTheGone, Open, Mp
  <2>8. CASE Request \/ New \/ NewUninit \/ Write \/ DropMessage \/ ReturnNothing
    <3>1. /\ UNCHANGED <<stage, clients, outbox>>
          /\ current' = current \/ current' = <<>>
      BY <2>8 DEF Request, New, NewUninit, Write, DropMessage, ReturnNothing
    <3> QED
      BY <3>1 DEF ServingInv, NothingForTheGone, Open, Mp
  <2> QED
    BY <1>2, <2>1, <2>2, <2>3, <2>4, <2>5, <2>6, <2>7, <2>8 DEF ServerNext
<1> QED
  BY <1>1, <1>2 DEF Next, vars

(* No message waits for a client whose registration has gone, whichever     *)
(* handler, stream or event sent it: from_client_index was asked while the  *)
(* registration could not go away.                                          *)
THEOREM QueueIsForTheRegistered == Spec => []NothingForTheGone
<1>1. ServingInv => NothingForTheGone
  BY DEF ServingInv
<1> QED
  BY <1>1, ServingInvInit, ServingInvStep, PTL DEF Spec
-----------------------------------------------------------------------------
(* Until it serves, the plugin has no messages, and nothing is read any     *)
(* more once it does; what is served has at most one handler each.          *)
AtRest ==
  /\ requests = <<>> /\ current = <<>> /\ asked = 0
  /\ held = {} /\ heap = {} /\ outbox = {} /\ served = {}
  /\ sent = [c \in Clients |-> <<>>]

Stages ==
  /\ stage \in {"generating", "failed", "serving"}
  /\ stage # "serving" => AtRest
  /\ stage = "serving" =>
       /\ outcome = "accepted"
       /\ Distinct(CallerList(services))
       /\ \A s \in ToSet(services) : s.reply # Null

LEMMA StagesInit == Init => Stages
BY DEF Init, InitServer, Stages, AtRest

LEMMA ParserRuns == ParserNext => outcome = "running"
BY DEF ParserNext, EnterImport, PassBy, EndImports, AtStatement, Define, DefineType,
       AddServices, SkipStatement, EndImport, AtEnd, Process

LEMMA StagesStep == Stages /\ [Next]_vars => Stages'
<1> SUFFICES ASSUME Stages, [Next]_vars PROVE Stages'
  OBVIOUS
<1>1. CASE ParserNext /\ UNCHANGED serverVars
  BY <1>1, ParserRuns DEF Stages, AtRest, serverVars
<1>2. CASE Generate /\ UNCHANGED parserVars
  <2>1. /\ outcome' = outcome /\ services' = services
        /\ outcome = "accepted" /\ stage = "generating"
        /\ stage' = IF Generates THEN "serving" ELSE "failed"
        /\ UNCHANGED <<clients, requests, asked, current, held, heap, outbox, sent, served>>
    BY <1>2 DEF Generate, parserVars
  <2>2. AtRest'
    BY <2>1 DEF Stages, AtRest
  <2>3. Generates => Distinct(CallerList(services)) /\ \A s \in ToSet(services) : s.reply # Null
    BY DEF Generates
  <2> QED
    BY <2>1, <2>2, <2>3 DEF Stages, Distinct, CallerList
<1>3. CASE ServerNext /\ ~Generate /\ UNCHANGED parserVars
  <2>1. stage = "serving" /\ stage' = stage
    BY <1>3 DEF ServerNext, Connect, Disconnect, Request, Transmit, New, NewUninit, Write,
       DropMessage, Dispatch, StreamSend, ReturnReply, ReturnError, ReturnNothing, SendEvent,
       Running
  <2>2. outcome' = outcome /\ services' = services
    BY <1>3 DEF parserVars
  <2> QED
    BY <2>1, <2>2 DEF Stages, Distinct, CallerList
<1>4. CASE UNCHANGED vars
  BY <1>4 DEF vars, parserVars, serverVars, Stages, AtRest, Distinct, CallerList
<1> QED
  BY <1>1, <1>2, <1>3, <1>4 DEF Next

LEMMA OneHandler ==
  ASSUME Stages, stage = "serving", NEW name, NEW s \in Handlers(name), NEW t \in Handlers(name)
  PROVE  s = t
<1>1. PICK i \in DOMAIN services : s = services[i]
  BY DEF Handlers, ToSet
<1>2. PICK j \in DOMAIN services : t = services[j]
  BY DEF Handlers, ToSet
<1>3. services[i].caller = services[j].caller
  BY <1>1, <1>2 DEF Handlers
<1>4. i = j
  BY <1>3 DEF Stages, Distinct, CallerList
<1> QED
  BY <1>1, <1>2, <1>4

-----------------------------------------------------------------------------
(* Types of the server's state. *)
LetterType ==
  [of : 0 .. MaxRequests, name : MessageNames, context : Word(0 .. MaxRequests)]

ServerTypes ==
  /\ clients \in [Clients -> {"none", "open", "closed"}]
  /\ asked \in 0 .. MaxRequests
  /\ requests \in Seq(RequestType) /\ Len(requests) <= asked
  /\ current = <<>> \/ \E r \in RequestType : current = <<r>>
  /\ held \subseteq [buf : Buffers, name : MessageNames, init : BOOLEAN]
  /\ heap \subseteq Buffers
  /\ outbox \subseteq [buf : Buffers, client : Clients]
  /\ sent \in [Clients -> Seq(LetterType)]

(* A handler runs only for a message that has one. *)
Handled == current # <<>> => Handlers(Mp.name) # {}

ServerInv == Stages /\ ServerTypes /\ Handled

LEMMA RestIsTyped ==
  ASSUME AtRest, clients \in [Clients -> {"none", "open", "closed"}]
  PROVE  ServerTypes /\ Handled
<1>1. asked \in 0 .. MaxRequests /\ <<>> \in Seq(RequestType) /\ <<>> \in Seq(LetterType)
  BY ServerAssumption DEF AtRest
<1> QED
  BY <1>1 DEF AtRest, ServerTypes, Handled

(* What a request becomes on its way to the handler. *)
LEMMA ReceivedType ==
  ASSUME NEW r \in RequestType
  PROVE  /\ Received(r) \in RequestType
         /\ Received(r).id = r.id /\ Received(r).client = r.client /\ Received(r).name = r.name
         /\ Received(r) = IF Message(r.name).autoendian
                          THEN [r EXCEPT !.index = Swapped(@), !.context = Swapped(@)]
                          ELSE r
<1>1. Swapped(r.index) \in Word(Clients) /\ Swapped(r.context) \in Word(1 .. MaxRequests)
  BY DEF RequestType, Word, Swapped
<1> QED
  BY <1>1 DEF RequestType, Received

LEMMA MpTyped ==
  ASSUME ServerTypes, current # <<>>
  PROVE  Mp \in RequestType /\ current = <<Mp>>
BY DEF ServerTypes, Mp

(* The service of the running handler, and the names of what it sends. *)
LEMMA ServiceKnown ==
  ASSUME ServerInv, stage = "serving", current # <<>>
  PROVE  /\ Service \in Handlers(Mp.name) /\ Service \in ToSet(services)
         /\ Service.reply \in MessageNames
<1>1. Service \in Handlers(Mp.name)
  BY DEF ServerInv, Handled, Service
<1>2. Service \in ToSet(services)
  BY <1>1 DEF Handlers
<1>3. Service.reply # Null
  BY <1>2 DEF ServerInv, Stages
<1>4. \A s \in ToSet(services) : s.reply # Null => s.reply \in MessageNames
  BY DEF MessageNames
<1> QED
  BY <1>1, <1>2, <1>3, <1>4

LEMMA LetterTyped ==
  ASSUME NEW of \in 0 .. MaxRequests, NEW name \in MessageNames,
         NEW w \in Word(0 .. MaxRequests)
  PROVE  Letter(of, name, w) \in LetterType /\ Letter(of, name, Swapped(w)) \in LetterType
<1>1. Swapped(w) \in Word(0 .. MaxRequests)
  BY DEF Word, Swapped
<1> QED
  BY <1>1 DEF Letter, LetterType

(* Sending keeps the types of what is queued and of what was sent. *)
LEMMA PostedTyped ==
  ASSUME ServerTypes, NEW c \in Clients, NEW b \in Buffers, NEW l \in LetterType,
         Posted(c, b, l)
  PROVE  /\ outbox' \subseteq [buf : Buffers, client : Clients]
         /\ sent' \in [Clients -> Seq(LetterType)]
<1>1. Append(sent[c], l) \in Seq(LetterType)
  BY DEF ServerTypes
<1> QED
  BY <1>1 DEF ServerTypes, Posted

(* A request's number and context are numbers for a letter. *)
LEMMA MpForLetters ==
  ASSUME ServerTypes, current # <<>>
  PROVE  /\ Mp.id \in 0 .. MaxRequests /\ Mp.context \in Word(0 .. MaxRequests)
         /\ Mp.index.value \in Clients
BY MpTyped, ServerAssumption DEF RequestType, Word

LEMMA ServingTypes ==
  ASSUME ServerInv, stage = "serving", ServerNext, UNCHANGED parserVars
  PROVE  ServerTypes' /\ Handled'
<1> USE DEF ServerInv
<1>0. /\ UNCHANGED <<services, messages>>
      /\ RequestType' = RequestType /\ MessageNames' = MessageNames /\ LetterType' = LetterType
      /\ \A n : Handlers(n)' = Handlers(n)
  BY DEF parserVars, RequestType, Callers, MessageNames, LetterType, Handlers
<1>1. CASE Generate
  BY <1>1 DEF Generate
<1>2. CASE Connect \/ Disconnect \/ Transmit
  BY <1>0, <1>2 DEF Connect, Disconnect, Transmit, ServerTypes, Handled, Mp
<1>3. CASE New \/ NewUninit \/ Write \/ DropMessage
  <2>1. UNCHANGED <<clients, requests, asked, current, outbox, sent>>
    BY <1>3 DEF New, NewUninit, Write, DropMessage
  <2> DEFINE OwnerType == [buf : Buffers, name : MessageNames, init : BOOLEAN]
  <2>2. \A b \in Buffers, n \in MessageNames, i \in BOOLEAN : Owner(b, n, i) \in OwnerType
    BY DEF Owner
  <2>4. held \subseteq OwnerType /\ heap \subseteq Buffers
    BY DEF ServerTypes
  <2>5. \A m \in held : m.buf \in Buffers /\ m.name \in MessageNames
    BY <2>4
  <2> HIDE DEF OwnerType
  <2>3. held' \subseteq OwnerType /\ heap' \subseteq Buffers
    <3>1. CASE New
      <4>1. PICK b \in Buffers \ heap, n \in MessageNames :
              heap' = heap \cup {b} /\ held' = held \cup {Owner(b, n, TRUE)}
        BY <3>1 DEF New, Allocated
      <4> QED
        BY <2>2, <2>4, <4>1
    <3>2. CASE NewUninit
      <4>1. PICK b \in Buffers \ heap, n \in MessageNames :
              heap' = heap \cup {b} /\ held' = held \cup {Owner(b, n, FALSE)}
        BY <3>2 DEF NewUninit, Allocated
      <4> QED
        BY <2>2, <2>4, <4>1
    <3>3. CASE Write
      <4>1. PICK m \in held : held' = (held \ {m}) \cup {Owner(m.buf, m.name, TRUE)}
        BY <3>3 DEF Write
      <4>2. m.buf \in Buffers /\ m.name \in MessageNames /\ heap' = heap
        BY <2>5, <3>3 DEF Write
      <4> QED
        BY <2>2, <2>4, <4>1, <4>2
    <3>4. CASE DropMessage
      BY <2>4, <3>4 DEF DropMessage
    <3> QED
      BY <1>3, <3>1, <3>2, <3>3, <3>4
  <2> QED
    BY <1>0, <2>1, <2>3 DEF OwnerType, ServerTypes, Handled, Mp
<1>4. CASE Request
  <2>1. PICK c \in Open, name \in Callers(services) :
          requests' = Append(requests, [id |-> asked + 1, client |-> c, name |-> name,
                                        index |-> Net(c), context |-> Net(asked + 1)])
    BY <1>4 DEF Request
  <2>2. asked + 1 \in 1 .. MaxRequests
    BY <1>4, ServerAssumption DEF Request, ServerTypes
  <2>3. [id |-> asked + 1, client |-> c, name |-> name,
         index |-> Net(c), context |-> Net(asked + 1)] \in RequestType
    BY <2>2 DEF RequestType, Word, Net, Open
  <2>4. requests' \in Seq(RequestType) /\ Len(requests') = Len(requests) + 1
    BY <2>1, <2>3 DEF ServerTypes
  <2>5. asked' = asked + 1 /\ UNCHANGED <<clients, current, held, heap, outbox, sent>>
    BY <1>4 DEF Request
  <2>6. asked' \in 0 .. MaxRequests /\ Len(requests') <= asked'
    BY <2>2, <2>4, <2>5 DEF ServerTypes
  <2> QED
    BY <1>0, <2>4, <2>5, <2>6 DEF ServerTypes, Handled, Mp
<1>5. CASE Dispatch
  <2> DEFINE mp == Received(Head(requests))
  <2>1. /\ requests # <<>> /\ requests' = Tail(requests)
        /\ current' = IF Handlers(mp.name) # {} /\ Registered(mp.index) THEN <<mp>> ELSE <<>>
        /\ UNCHANGED <<clients, asked, held, heap, outbox, sent>>
    BY <1>5 DEF Dispatch
  <2>2. Head(requests) \in RequestType /\ Tail(requests) \in Seq(RequestType)
        /\ Len(Tail(requests)) <= asked
    BY <2>1 DEF ServerTypes
  <2>3. mp \in RequestType
    BY <2>2, ReceivedType
  <2> HIDE DEF mp
  <2> QED
    BY <1>0, <2>1, <2>2, <2>3 DEF ServerTypes, Handled, Mp
<1>6. CASE StreamSend \/ ReturnReply
  <2>1. Running /\ current # <<>>
    BY <1>6 DEF StreamSend, ReturnReply, Running
  <2>2. PICK m \in held : IntoRaw(m) /\
          Posted(Mp.index.value, m.buf, Letter(Mp.id, m.name, Swapped(Mp.context)))
    BY <1>6 DEF StreamSend, ReturnReply, Reply
  <2>3. m.buf \in Buffers /\ m.name \in MessageNames
    BY DEF ServerTypes
  <2>4. Letter(Mp.id, m.name, Swapped(Mp.context)) \in LetterType
    BY <2>1, <2>3, MpForLetters, LetterTyped
  <2>5. /\ outbox' \subseteq [buf : Buffers, client : Clients]
        /\ sent' \in [Clients -> Seq(LetterType)]
    BY <2>1, <2>2, <2>3, <2>4, MpForLetters, PostedTyped
  <2>6. held' \subseteq held /\ heap' = heap
    BY <2>2 DEF IntoRaw
  <2>7. UNCHANGED <<clients, requests, asked>> /\ (current' = current \/ current' = <<>>)
    BY <1>6 DEF StreamSend, ReturnReply
  <2> QED
    BY <1>0, <2>5, <2>6, <2>7 DEF ServerTypes, Handled, Mp
<1>7. CASE ReturnError
  <2>1. current # <<>>
    BY <1>7 DEF ReturnError, Running
  <2>2. PICK b \in Buffers \ heap : Allocated(b) /\ Reply(b)
    BY <1>7 DEF ReturnError
  <2>3. Letter(Mp.id, Service.reply, Swapped(Mp.context)) \in LetterType
    BY <2>1, MpForLetters, LetterTyped, ServiceKnown
  <2>4. /\ outbox' \subseteq [buf : Buffers, client : Clients]
        /\ sent' \in [Clients -> Seq(LetterType)]
    BY <2>1, <2>2, <2>3, MpForLetters, PostedTyped DEF Reply
  <2>5. UNCHANGED <<clients, requests, asked, held>> /\ current' = <<>> /\ heap' \subseteq Buffers
    BY <1>7, <2>2 DEF ReturnError, Allocated, ServerTypes
  <2> QED
    BY <1>0, <2>4, <2>5 DEF ServerTypes, Handled, Mp
<1>8. CASE SendEvent
  <2>1. PICK c \in Clients, m \in held :
          IntoRaw(m) /\ Posted(c, m.buf, Letter(0, m.name, Net(0)))
    BY <1>8 DEF SendEvent
  <2>2. m.buf \in Buffers /\ m.name \in MessageNames /\ Net(0) \in Word(0 .. MaxRequests)
    BY ServerAssumption DEF ServerTypes, Net, Word
  <2>3. Letter(0, m.name, Net(0)) \in LetterType
    BY <2>2, LetterTyped, ServerAssumption
  <2>4. /\ outbox' \subseteq [buf : Buffers, client : Clients]
        /\ sent' \in [Clients -> Seq(LetterType)]
    BY <2>1, <2>2, <2>3, PostedTyped
  <2>5. /\ held' \subseteq held /\ heap' = heap
        /\ UNCHANGED <<clients, requests, asked, current>>
    BY <1>8, <2>1 DEF SendEvent, IntoRaw
  <2> QED
    BY <1>0, <2>4, <2>5 DEF ServerTypes, Handled, Mp
<1>9. CASE ReturnNothing
  BY <1>0, <1>9 DEF ReturnNothing, ServerTypes, Handled, Mp
<1> QED
  BY <1>1, <1>2, <1>3, <1>4, <1>5, <1>6, <1>7, <1>8, <1>9 DEF ServerNext

LEMMA ServerInvInit == Init => ServerInv
<1> SUFFICES ASSUME Init PROVE ServerInv
  OBVIOUS
<1>1. AtRest /\ clients \in [Clients -> {"none", "open", "closed"}]
  BY DEF Init, InitServer, AtRest
<1> QED
  BY <1>1, RestIsTyped, StagesInit DEF ServerInv

LEMMA ServerInvStep == ServerInv /\ [Next]_vars => ServerInv'
<1> SUFFICES ASSUME ServerInv, [Next]_vars PROVE ServerInv'
  OBVIOUS
<1>1. Stages'
  BY StagesStep DEF ServerInv
<1>2. ASSUME stage # "serving" PROVE ServerTypes' /\ Handled'
  <2>1. AtRest' /\ clients' = clients
    <3>1. AtRest
      BY <1>2 DEF ServerInv, Stages
    <3>2. UNCHANGED <<clients, requests, asked, current, held, heap, outbox, sent, served>>
      BY <1>2 DEF Next, vars, serverVars, ServerNext, Generate, Connect, Disconnect, Request,
         Transmit, New, NewUninit, Write, DropMessage, Dispatch, StreamSend, ReturnReply,
         ReturnError, ReturnNothing, SendEvent, Running
    <3> QED
      BY <3>1, <3>2 DEF AtRest
  <2>2. clients' \in [Clients -> {"none", "open", "closed"}] /\ asked' \in 0 .. MaxRequests
        /\ <<>> \in Seq(RequestType') /\ <<>> \in Seq(LetterType')
    BY <2>1, ServerAssumption DEF ServerInv, ServerTypes, AtRest
  <2> QED
    BY <2>1, <2>2 DEF AtRest, ServerTypes, Handled
<1>3. ASSUME stage = "serving" PROVE ServerTypes' /\ Handled'
  <2>1. ~ParserNext
    BY <1>3, ParserRuns DEF ServerInv, Stages
  <2>2. CASE ServerNext /\ UNCHANGED parserVars
    BY <1>3, <2>2, ServingTypes
  <2>3. CASE UNCHANGED vars
    <3>1. /\ UNCHANGED <<clients, requests, asked, current, held, heap, outbox, sent, services>>
          /\ RequestType' = RequestType /\ MessageNames' = MessageNames
          /\ LetterType' = LetterType /\ \A n : Handlers(n)' = Handlers(n)
      BY <2>3 DEF vars, serverVars, parserVars, RequestType, Callers, MessageNames, LetterType,
         Handlers
    <3> QED
      BY <3>1 DEF ServerInv, ServerTypes, Handled, Mp
  <2> QED
    BY <2>1, <2>2, <2>3 DEF Next
<1> QED
  BY <1>1, <1>2, <1>3 DEF ServerInv
-----------------------------------------------------------------------------
(* Requests have numbers of their own, and a request waits unchanged until  *)
(* it is served, once.                                                      *)
Queued ==
  /\ \A i \in DOMAIN requests :
       /\ requests[i].id \in 1 .. asked
       /\ requests[i].index = Net(requests[i].client)
       /\ requests[i].context = Net(requests[i].id)
  /\ \A i, j \in DOMAIN requests : requests[i].id = requests[j].id => i = j

Logged ==
  /\ \A r \in served :
       /\ r.id \in 1 .. asked /\ r.client \in Clients
       /\ \A i \in DOMAIN requests : requests[i].id # r.id
  /\ \A q, r \in served : q.id = r.id => q = r

(* The running handler has the request of its log entry with index and      *)
(* context in host order, and sent nothing for it but the stream.           *)
IsHandled(r, mp) ==
  /\ r.id = mp.id /\ r.client = mp.client /\ r.name = mp.name /\ r.reached
  /\ mp.index = [value |-> r.client, net |-> FALSE]
  /\ mp.context = [value |-> r.id, net |-> FALSE]

OnlyStreamed(r) ==
  \A s \in Handlers(r.name), i \in LettersFor(r) : sent[r.client][i].name = StreamOf(s)

InHand == current # <<>> => \E r \in served : IsHandled(r, Mp) /\ OnlyStreamed(r)

(* What was sent is an event, or for a request of the client that was served. *)
Addressed ==
  \A c \in Clients : \A i \in DOMAIN sent[c] :
    sent[c][i].of = 0 \/ \E r \in served : r.id = sent[c][i].of /\ r.client = c

AllAnswered == \A r \in served : AnsweredOnce(r)

AnswersInv == ServerInv /\ Queued /\ Logged /\ InHand /\ Addressed /\ AllAnswered

(* A letter more, of another request or of none, leaves the answers alone.  *)
LEMMA AppendedLetter ==
  ASSUME NEW T, NEW s \in Seq(T), NEW l \in T, NEW t, t = Append(s, l)
  PROVE  /\ t \in Seq(T) /\ DOMAIN s = 1 .. Len(s) /\ DOMAIN t = 1 .. Len(s) + 1
         /\ Len(s) \in Nat /\ t[Len(s) + 1] = l
         /\ \A i \in DOMAIN s : t[i] = s[i]
OBVIOUS

(* What happens to the letters of other requests leaves these answers alone. *)
LEMMA StillAnswered ==
  ASSUME ServerTypes, NEW r, r.client \in Clients, AnsweredOnce(r), UNCHANGED parserVars,
         \A c \in Clients : \/ sent'[c] = sent[c]
                            \/ \E l \in LetterType : /\ l.of # r.id
                                                     /\ sent'[c] = Append(sent[c], l),
         (\A i \in DOMAIN current' : current'[i].id # r.id)
           => \A i \in DOMAIN current : current[i].id # r.id
  PROVE  AnsweredOnce(r)' /\ LettersFor(r)' = LettersFor(r)
         /\ \A i \in LettersFor(r) : sent'[r.client][i] = sent[r.client][i]
<1>1. \A c \in Clients :
        /\ {i \in DOMAIN sent'[c] : sent'[c][i].of = r.id}
             = {i \in DOMAIN sent[c] : sent[c][i].of = r.id}
        /\ \A i \in DOMAIN sent[c] : sent'[c][i] = sent[c][i]
        /\ DOMAIN sent[c] \subseteq DOMAIN sent'[c]
  <2> TAKE c \in Clients
  <2>1. CASE sent'[c] = sent[c]
    BY <2>1
  <2>2. CASE \E l \in LetterType : l.of # r.id /\ sent'[c] = Append(sent[c], l)
    <3>1. PICK l \in LetterType : l.of # r.id /\ sent'[c] = Append(sent[c], l)
      BY <2>2
    <3>2. sent[c] \in Seq(LetterType)
      BY DEF ServerTypes
    <3> DEFINE s == sent[c]
               t == sent'[c]
    <3>3. /\ DOMAIN s = 1 .. Len(s) /\ DOMAIN t = 1 .. Len(s) + 1 /\ Len(s) \in Nat
          /\ t[Len(s) + 1] = l /\ \A i \in DOMAIN s : t[i] = s[i]
      BY <3>1, <3>2, AppendedLetter
    <3> HIDE DEF s, t
    <3>4. /\ {i \in DOMAIN t : t[i].of = r.id} = {i \in DOMAIN s : s[i].of = r.id}
          /\ \A i \in DOMAIN s : t[i] = s[i]
          /\ DOMAIN s \subseteq DOMAIN t
      BY <3>1, <3>3
    <3> QED
      BY <3>4 DEF s, t
  <2> QED
    BY <2>1, <2>2
<1>2. LettersFor(r)' = LettersFor(r)
  BY <1>1 DEF LettersFor
<1>3. \A i \in LettersFor(r) : sent'[r.client][i] = sent[r.client][i]
  BY <1>1 DEF LettersFor
<1>4. \A c \in Clients \ {r.client} : \A l \in ToSet(sent'[c]) : l.of # r.id
  <2> TAKE c \in Clients \ {r.client}
  <2>1. \A i \in DOMAIN sent[c] : sent[c][i].of # r.id
    BY DEF AnsweredOnce, ToSet
  <2>2. \A i \in DOMAIN sent'[c] : sent'[c][i].of # r.id
    BY <1>1, <2>1
  <2> QED
    BY <2>2 DEF ToSet
<1>5. UNCHANGED <<messages, services>>
  BY DEF parserVars
<1>6. /\ \A n : Handlers(n)' = Handlers(n) /\ Message(n)' = Message(n)
  BY <1>5 DEF Handlers, Message
<1>7. (\A i \in LettersFor(r) : sent[r.client][i].context = Net(r.id))
  BY DEF AnsweredOnce
<1>8. ASSUME NEW s \in Handlers(r.name)
      PROVE  LET letters == LettersFor(r)
                 letter(i) == sent[r.client][i]
                 isLast(i) == \A j \in letters : j <= i
                 arrived == r.connected /\ Message(r.name).autoendian
             IN  /\ \A i \in letters : letter(i).name # StreamOf(s) => isLast(i)
                 /\ /\ arrived /\ Answers(s)
                    /\ \A i \in DOMAIN current : current[i].id # r.id
                    => \E i \in letters : isLast(i) /\ letter(i).name = s.reply
                 /\ arrived => r.reached
  BY DEF AnsweredOnce
<1>9. \A i \in LettersFor(r)' : sent'[r.client][i].context = Net(r.id)
  BY <1>2, <1>3, <1>7
<1>10. ASSUME NEW s \in Handlers(r.name)'
       PROVE  LET letters == LettersFor(r)'
                  letter(i) == sent'[r.client][i]
                  isLast(i) == \A j \in letters : j <= i
                  arrived == r.connected /\ Message(r.name)'.autoendian
              IN  /\ \A i \in letters : letter(i).name # StreamOf(s) => isLast(i)
                  /\ /\ arrived /\ Answers(s)
                     /\ \A i \in DOMAIN current' : current'[i].id # r.id
                     => \E i \in letters : isLast(i) /\ letter(i).name = s.reply
                  /\ arrived => r.reached
  <2>1. s \in Handlers(r.name) /\ Message(r.name)' = Message(r.name)
    BY <1>6
  <2> HIDE DEF LettersFor, Handlers, Message, StreamOf, Answers
  <2> QED
    BY <2>1, <1>2, <1>3, <1>8
<1>11. /\ r.reached => r.connected /\ Message(r.name)'.autoendian
       /\ LettersFor(r)' # {} => r.reached
  BY <1>2, <1>6 DEF AnsweredOnce
<1>12. AnsweredOnce(r)'
  BY <1>4, <1>9, <1>10, <1>11 DEF AnsweredOnce, StreamOf, Answers, Net
<1> QED
  BY <1>2, <1>3, <1>12

-----------------------------------------------------------------------------
(* Numbers stay unique while requests are sent and dispatched. *)
LEMMA NumbersStep ==
  ASSUME ServerTypes, Queued, Logged, ServerNext
  PROVE  Queued' /\ Logged'
<1>0. asked \in Nat /\ requests \in Seq(RequestType) /\ DOMAIN requests = 1 .. Len(requests)
      /\ Len(requests) \in Nat
  BY ServerAssumption DEF ServerTypes
<1>1. CASE UNCHANGED <<requests, asked, served>>
  BY <1>1 DEF Queued, Logged
<1>2. CASE Request
  <2>1. PICK c \in Open, name \in Callers(services) :
          requests' = Append(requests, [id |-> asked + 1, client |-> c, name |-> name,
                                        index |-> Net(c), context |-> Net(asked + 1)])
    BY <1>2 DEF Request
  <2>2. asked' = asked + 1 /\ served' = served
    BY <1>2 DEF Request
  <2> DEFINE new == [id |-> asked + 1, client |-> c, name |-> name,
                     index |-> Net(c), context |-> Net(asked + 1)]
             n == Len(requests)
  <2>3. /\ new.id = asked + 1 /\ new.index = Net(new.client) /\ new.context = Net(new.id)
    OBVIOUS
  <2>4. requests' = Append(requests, new)
    BY <2>1
  <2> HIDE DEF new
  <2>5. /\ DOMAIN requests' = 1 .. n + 1 /\ requests'[n + 1] = new
        /\ \A i \in 1 .. n : requests'[i] = requests[i]
    BY <1>0, <2>4
  <2>6. n \in Nat /\ \A i \in 1 .. n + 1 : i \in 1 .. n \/ i = n + 1
    BY <1>0
  <2>7. \A i \in 1 .. n : requests[i].id \in 1 .. asked
    BY <1>0 DEF Queued
  <2> HIDE DEF n
  <2>8. \A i \in DOMAIN requests' : (i \in DOMAIN requests /\ requests'[i] = requests[i])
                                    \/ (i = n + 1 /\ requests'[i] = new)
    BY <1>0, <2>5, <2>6 DEF n
  <2>9. \A k \in 1 .. asked : k \in 1 .. asked + 1 /\ k # asked + 1
    BY <1>0
  <2>10. asked + 1 \in 1 .. asked + 1
    BY <1>0
  <2>11. Queued'
    BY <2>2, <2>3, <2>8, <2>9, <2>10 DEF Queued, Net
  <2>12. Logged'
    BY <2>2, <2>3, <2>8, <2>9 DEF Logged
  <2> QED
    BY <2>11, <2>12
<1>3. CASE Dispatch
  <2> DEFINE r == Head(requests)
             mp == Received(r)
  <2>1. requests # <<>> /\ requests' = Tail(requests) /\ asked' = asked
    BY <1>3 DEF Dispatch
  <2>2. PICK reached : Log(mp, reached)
    BY <1>3 DEF Dispatch
  <2>3. r \in RequestType /\ r = requests[1] /\ 1 \in DOMAIN requests
        /\ \A i \in DOMAIN requests' : i + 1 \in DOMAIN requests /\ requests'[i] = requests[i + 1]
                                       /\ i \in Nat /\ i + 1 # 1
    BY <1>0, <2>1
  <2>4. mp.id = r.id /\ mp.client = r.client
    BY <2>3, ReceivedType
  <2>5. PICK log : log.id = r.id /\ log.client = r.client /\ served' = served \cup {log}
    BY <2>2, <2>4 DEF Log
  <2> HIDE DEF r, mp
  <2>6. r.client \in Clients
    BY <2>3 DEF RequestType
  <2>7. Queued'
    BY <2>1, <2>3 DEF Queued, Net
  <2>8. \A i \in DOMAIN requests' : requests'[i].id # r.id
    BY <2>3 DEF Queued
  <2>9. r.id \in 1 .. asked /\ \A q \in served : q.id # r.id
    BY <2>3 DEF Queued, Logged
  <2>10. Logged'
    BY <2>1, <2>3, <2>5, <2>6, <2>8, <2>9 DEF Logged
  <2> QED
    BY <2>7, <2>10
<1> QED
  BY <1>1, <1>2, <1>3 DEF ServerNext, Generate, Connect, Disconnect, Transmit, New, NewUninit,
     Write, DropMessage, StreamSend, ReturnReply, ReturnError, ReturnNothing, SendEvent

(* A letter for r to r's client, or an event, is a letter more. *)
LEMMA PostedAddressed ==
  ASSUME ServerTypes, Addressed, NEW c \in Clients, NEW b, NEW l \in LetterType,
         Posted(c, b, l), served' = served,
         l.of = 0 \/ \E r \in served : r.id = l.of /\ r.client = c
  PROVE  /\ Addressed'
         /\ sent'[c] = Append(sent[c], l) /\ \A d \in Clients \ {c} : sent'[d] = sent[d]
<1>1. sent \in [Clients -> Seq(LetterType)]
  BY DEF ServerTypes
<1>2. sent'[c] = Append(sent[c], l) /\ \A d \in Clients \ {c} : sent'[d] = sent[d]
  BY <1>1 DEF Posted
<1> DEFINE s == sent[c]
           t == sent'[c]
<1>3. /\ DOMAIN s = 1 .. Len(s) /\ DOMAIN t = 1 .. Len(s) + 1 /\ Len(s) \in Nat
      /\ t[Len(s) + 1] = l /\ \A i \in DOMAIN s : t[i] = s[i]
  BY <1>1, <1>2, AppendedLetter
<1>4. \A i \in DOMAIN t : (i \in DOMAIN s /\ t[i] = s[i]) \/ t[i] = l
  <2> HIDE DEF s, t
  <2> QED
    BY <1>3
<1>5. Addressed'
  BY <1>2, <1>4 DEF Addressed
<1> QED
  BY <1>2, <1>5

-----------------------------------------------------------------------------
(* Swapping a number in host order puts it in network order. *)
LEMMA SwappedBack ==
  ASSUME NEW v
  PROVE  Swapped([value |-> v, net |-> FALSE]) = Net(v)
<1> DEFINE w == [value |-> v, net |-> FALSE]
           u == [w EXCEPT !.net = ~@]
<1>1. w \in Word({v}) /\ w.net = FALSE
  BY DEF Word
<1> HIDE DEF w
<1>2. u \in [value : {v}, net : BOOLEAN] /\ u.net = TRUE
  BY <1>1 DEF Word
<1> HIDE DEF u
<1>3. u = [value |-> u.value, net |-> TRUE] /\ u.value = v
  BY <1>2
<1> QED
  BY <1>3 DEF Swapped, Net, u, w

(* Swapping a number in network order puts it in host order. *)
LEMMA SwappedToHost ==
  ASSUME NEW v
  PROVE  Swapped(Net(v)) = [value |-> v, net |-> FALSE]
<1> DEFINE w == [value |-> v, net |-> TRUE]
           u == [w EXCEPT !.net = ~@]
<1>1. w \in Word({v}) /\ w.net = TRUE
  BY DEF Word
<1> HIDE DEF w
<1>2. u \in [value : {v}, net : BOOLEAN] /\ u.net = FALSE
  BY <1>1 DEF Word
<1> HIDE DEF u
<1>3. u = [value |-> u.value, net |-> FALSE] /\ u.value = v
  BY <1>2
<1> QED
  BY <1>3 DEF Swapped, Net, u, w

(* What a handler sends reaches the client of its request, whose number and *)
(* context it carries.                                                      *)
LEMMA ReplyGoesHome ==
  ASSUME ServerTypes, InHand, Addressed, current # <<>>, NEW b, NEW name \in MessageNames,
         Posted(Mp.index.value, b, Letter(Mp.id, name, Swapped(Mp.context))),
         served' = served
  PROVE  \E r \in served, l \in LetterType :
           /\ IsHandled(r, Mp) /\ OnlyStreamed(r)
           /\ r.client \in Clients
           /\ l.of = r.id /\ l.context = Net(r.id) /\ l.name = name
           /\ Addressed'
           /\ sent'[r.client] = Append(sent[r.client], l)
           /\ \A d \in Clients \ {r.client} : sent'[d] = sent[d]
<1>1. PICK r \in served : IsHandled(r, Mp) /\ OnlyStreamed(r)
  BY DEF InHand
<1> DEFINE l == Letter(Mp.id, name, Swapped(Mp.context))
<1>2. Mp.index.value = r.client /\ Mp.id = r.id /\ Swapped(Mp.context) = Net(r.id)
  <2>1. \A v : Swapped([value |-> v, net |-> FALSE]) = Net(v)
    BY SwappedBack
  <2> QED
    BY <1>1, <2>1 DEF IsHandled
<1>3. l \in LetterType /\ r.client \in Clients
  BY <1>2, MpForLetters, LetterTyped
<1>4. l.of = r.id /\ l.context = Net(r.id) /\ l.name = name
  BY <1>2 DEF Letter
<1>5. Posted(r.client, b, l)
  BY <1>2
<1> HIDE DEF l
<1>6. /\ Addressed' /\ sent'[r.client] = Append(sent[r.client], l)
      /\ \A d \in Clients \ {r.client} : sent'[d] = sent[d]
  BY <1>3, <1>4, <1>5, PostedAddressed
<1> QED
  BY <1>1, <1>3, <1>4, <1>6

(* The letters for a request when one more of them is sent. *)
LEMMA OneMore ==
  ASSUME ServerTypes, NEW r, r.client \in Clients, NEW l \in LetterType, l.of = r.id,
         sent'[r.client] = Append(sent[r.client], l)
  PROVE  \E n \in Nat :
           /\ LettersFor(r)' = LettersFor(r) \cup {n}
           /\ \A i \in LettersFor(r) : i \in Nat /\ i < n
           /\ \A i \in LettersFor(r) : sent'[r.client][i] = sent[r.client][i]
           /\ sent'[r.client][n] = l
<1> DEFINE s == sent[r.client]
           t == sent'[r.client]
<1>1. s \in Seq(LetterType)
  BY DEF ServerTypes
<1>2. /\ DOMAIN s = 1 .. Len(s) /\ DOMAIN t = 1 .. Len(s) + 1 /\ Len(s) \in Nat
      /\ t[Len(s) + 1] = l /\ \A i \in DOMAIN s : t[i] = s[i]
  BY <1>1, AppendedLetter
<1>3. LettersFor(r) = {i \in DOMAIN s : s[i].of = r.id}
      /\ LettersFor(r)' = {i \in DOMAIN t : t[i].of = r.id}
  BY DEF LettersFor
<1> HIDE DEF s, t
<1> DEFINE n == Len(s) + 1
<1>4. n \in Nat /\ \A i \in DOMAIN s : i \in Nat /\ i < n
  BY <1>2
<1>5. DOMAIN t = DOMAIN s \cup {n} /\ t[n] = l /\ \A i \in DOMAIN s : t[i] = s[i]
  BY <1>2
<1> HIDE DEF n
<1>6. LettersFor(r)' = LettersFor(r) \cup {n}
  BY <1>3, <1>5
<1> QED
  BY <1>3, <1>4, <1>5, <1>6 DEF s, t

(* The answers to r after its handler sent l: l is the last letter, and all  *)
(* that came before it is the stream.                                       *)
LEMMA SentAnswered ==
  ASSUME ServerInv, stage = "serving", current # <<>>, UNCHANGED parserVars,
         NEW r, NEW l \in LetterType,
         AnsweredOnce(r), IsHandled(r, Mp), OnlyStreamed(r), r.client \in Clients,
         l.of = r.id, l.context = Net(r.id),
         sent'[r.client] = Append(sent[r.client], l),
         \A d \in Clients \ {r.client} : sent'[d] = sent[d],
         \/ current' = current /\ l.name = StreamOf(Service)
         \/ current' = <<>> /\ l.name = Service.reply
  PROVE  AnsweredOnce(r)'
<1>1. PICK n \in Nat :
        /\ LettersFor(r)' = LettersFor(r) \cup {n}
        /\ \A i \in LettersFor(r) : i \in Nat /\ i < n
        /\ \A i \in LettersFor(r) : sent'[r.client][i] = sent[r.client][i]
        /\ sent'[r.client][n] = l
  BY OneMore DEF ServerInv
<1>2. UNCHANGED <<messages, services>>
  BY DEF parserVars
<1>3. \A k : Handlers(k)' = Handlers(k) /\ Message(k)' = Message(k)
  BY <1>2 DEF Handlers, Message
<1>4. \A c \in Clients \ {r.client} : \A m \in ToSet(sent'[c]) : m.of # r.id
  <2>1. \A c \in Clients \ {r.client} : \A m \in ToSet(sent[c]) : m.of # r.id
    BY DEF AnsweredOnce
  <2> QED
    BY <2>1
<1>5. \A i \in LettersFor(r)' : sent'[r.client][i].context = Net(r.id)
  <2>1. \A i \in LettersFor(r) : sent[r.client][i].context = Net(r.id)
    BY DEF AnsweredOnce
  <2> QED
    BY <1>1, <2>1
<1>6. \A j \in LettersFor(r)' : j <= n
  BY <1>1
<1>7. ASSUME NEW s \in Handlers(r.name)'
      PROVE  LET letters == LettersFor(r)'
                 letter(i) == sent'[r.client][i]
                 isLast(i) == \A j \in letters : j <= i
                 arrived == r.connected /\ Message(r.name)'.autoendian
             IN  /\ \A i \in letters : letter(i).name # StreamOf(s) => isLast(i)
                 /\ /\ arrived /\ Answers(s)
                    /\ \A i \in DOMAIN current' : current'[i].id # r.id
                    => \E i \in letters : isLast(i) /\ letter(i).name = s.reply
                 /\ arrived => r.reached
  <2>1. s \in Handlers(r.name) /\ r.name = Mp.name /\ r.reached
    BY <1>3 DEF IsHandled
  <2>2. s = Service
    BY <2>1, ServiceKnown, OneHandler DEF ServerInv
  <2>3. current' = <<>> \/ ~\A i \in DOMAIN current' : current'[i].id # r.id
    <3>1. current = <<Mp>> /\ Mp.id = r.id
      BY MpTyped DEF ServerInv, IsHandled
    <3> QED
      BY <3>1
  <2>4. \A i \in LettersFor(r) : sent[r.client][i].name = StreamOf(s)
    BY <2>1 DEF OnlyStreamed
  <2> HIDE DEF LettersFor, Handlers, Message, StreamOf, Answers, Service
  <2> QED
    BY <1>1, <1>6, <2>1, <2>2, <2>3, <2>4
<1>8. r.reached /\ r.connected /\ Message(r.name)'.autoendian
  BY <1>3 DEF AnsweredOnce, IsHandled
<1> QED
  BY <1>4, <1>5, <1>7, <1>8 DEF AnsweredOnce, StreamOf, Answers, Net

-----------------------------------------------------------------------------
(* Steps that send nothing and dispatch nothing. *)
LEMMA QuietStep ==
  ASSUME ServerInv, AnswersInv, UNCHANGED parserVars, UNCHANGED <<sent, current, served>>
  PROVE  InHand' /\ Addressed' /\ AllAnswered'
<1>1. UNCHANGED <<messages, services>>
  BY DEF parserVars
<1>2. \A k : Handlers(k)' = Handlers(k) /\ Message(k)' = Message(k)
  BY <1>1 DEF Handlers, Message
<1>3. InHand'
  <2>1. Mp' = Mp
    BY DEF Mp
  <2>2. \A r : OnlyStreamed(r)' = OnlyStreamed(r)
    BY <1>2 DEF OnlyStreamed, LettersFor, StreamOf
  <2>3. \A r : IsHandled(r, Mp)' = IsHandled(r, Mp)
    BY <2>1 DEF IsHandled
  <2> QED
    BY <2>1, <2>2, <2>3 DEF AnswersInv, InHand
<1>4. Addressed'
  BY DEF AnswersInv, Addressed
<1>5. ASSUME NEW r \in served PROVE AnsweredOnce(r)'
  BY <1>5, StillAnswered DEF AnswersInv, ServerInv, Logged, AllAnswered
<1> QED
  BY <1>3, <1>4, <1>5 DEF AllAnswered

(* Of an answered request, before and after a letter to another one. *)
LEMMA OthersStillAnswered ==
  ASSUME AnswersInv, UNCHANGED parserVars, NEW r \in served, NEW q \in served, q # r,
         NEW l \in LetterType, l.of = r.id,
         sent'[r.client] = Append(sent[r.client], l),
         \A d \in Clients \ {r.client} : sent'[d] = sent[d],
         IsHandled(r, Mp), current # <<>>
  PROVE  AnsweredOnce(q)'
<1>1. q.id # r.id /\ q.client \in Clients /\ r.client \in Clients
  BY DEF AnswersInv, Logged
<1>2. current = <<Mp>> /\ Mp.id = r.id
  BY MpTyped DEF AnswersInv, ServerInv, IsHandled
<1>3. \A i \in DOMAIN current : current[i].id # q.id
  BY <1>1, <1>2
<1>4. \A c \in Clients : \/ sent'[c] = sent[c]
                         \/ \E m \in LetterType : /\ m.of # q.id
                                                  /\ sent'[c] = Append(sent[c], m)
  BY <1>1
<1>5. ServerTypes /\ AnsweredOnce(q)
  BY DEF AnswersInv, ServerInv, AllAnswered
<1> QED
  BY <1>1, <1>3, <1>4, <1>5, StillAnswered

(* StreamSend, and the replies: the block is posted for the running request. *)
LEMMA HandlerSends ==
  ASSUME AnswersInv, stage = "serving", current # <<>>, UNCHANGED parserVars,
         UNCHANGED served, NEW b, NEW name \in MessageNames,
         Posted(Mp.index.value, b, Letter(Mp.id, name, Swapped(Mp.context))),
         \/ current' = current /\ name = StreamOf(Service)
         \/ current' = <<>> /\ name = Service.reply
  PROVE  InHand' /\ Addressed' /\ AllAnswered'
<1>1. PICK r \in served, l \in LetterType :
           /\ IsHandled(r, Mp) /\ OnlyStreamed(r)
           /\ r.client \in Clients
           /\ l.of = r.id /\ l.context = Net(r.id) /\ l.name = name
           /\ Addressed'
           /\ sent'[r.client] = Append(sent[r.client], l)
           /\ \A d \in Clients \ {r.client} : sent'[d] = sent[d]
  BY ReplyGoesHome DEF AnswersInv, ServerInv
<1>2. AnsweredOnce(r)'
  BY <1>1, SentAnswered DEF AnswersInv, AllAnswered
<1>3. \A q \in served : q # r => AnsweredOnce(q)'
  BY <1>1, OthersStillAnswered
<1>4. AllAnswered'
  BY <1>2, <1>3 DEF AllAnswered
<1>5. CASE current' = <<>>
  BY <1>1, <1>4, <1>5 DEF InHand
<1>6. CASE current' = current /\ name = StreamOf(Service)
  <2>1. PICK n \in Nat :
          /\ LettersFor(r)' = LettersFor(r) \cup {n}
          /\ \A i \in LettersFor(r) : sent'[r.client][i] = sent[r.client][i]
          /\ sent'[r.client][n] = l
    BY <1>1, OneMore DEF AnswersInv, ServerInv
  <2>2. Mp' = Mp /\ IsHandled(r, Mp)'
    BY <1>1, <1>6 DEF Mp, IsHandled
  <2>3. \A k : Handlers(k)' = Handlers(k)
    BY DEF parserVars, Handlers
  <2>4. ASSUME NEW s \in Handlers(r.name) PROVE l.name = StreamOf(s)
    <3>1. s \in Handlers(Mp.name)
      BY <1>1 DEF IsHandled
    <3>2. s = Service
      BY <3>1, ServiceKnown, OneHandler DEF AnswersInv, ServerInv
    <3> QED
      BY <1>1, <1>6, <3>2
  <2>5. ASSUME NEW s \in Handlers(r.name), NEW i \in LettersFor(r)'
        PROVE  sent'[r.client][i].name = StreamOf(s)
    BY <1>1, <2>1, <2>4 DEF OnlyStreamed
  <2>6. OnlyStreamed(r)'
    BY <2>3, <2>5 DEF OnlyStreamed, StreamOf
  <2> QED
    BY <1>1, <1>4, <2>2, <2>6 DEF InHand
<1> QED
  BY <1>5, <1>6

(* A method without a reply returns: the stream it sent is the answer. *)
LEMMA NothingReturned ==
  ASSUME AnswersInv, stage = "serving", UNCHANGED parserVars, ReturnNothing
  PROVE  InHand' /\ Addressed' /\ AllAnswered'
<1>1. /\ current # <<>> /\ current' = <<>> /\ UNCHANGED <<sent, served>> /\ ~Answers(Service)
  BY DEF ReturnNothing, Running
<1>2. InHand' /\ Addressed'
  BY <1>1 DEF AnswersInv, InHand, Addressed
<1>3. ASSUME NEW r \in served PROVE AnsweredOnce(r)'
  <2>1. AnsweredOnce(r) /\ r.client \in Clients
    BY DEF AnswersInv, AllAnswered, Logged
  <2>2. CASE r.id # Mp.id
    <3>1. \A i \in DOMAIN current : current[i].id # r.id
      BY <1>1, <2>2, MpTyped DEF AnswersInv, ServerInv
    <3> QED
      BY <1>1, <2>1, <3>1, StillAnswered DEF AnswersInv, ServerInv
  <2>3. CASE r.id = Mp.id
    <3>1. r.name = Mp.name
      BY <1>1, <2>3 DEF AnswersInv, InHand, IsHandled, Logged
    <3>2. \A s \in Handlers(r.name) : ~Answers(s)
      BY <1>1, <3>1, ServiceKnown, OneHandler DEF AnswersInv, ServerInv
    <3>3. UNCHANGED <<messages, services>>
      BY DEF parserVars
    <3>4. LettersFor(r)' = LettersFor(r)
          /\ \A k : Handlers(k)' = Handlers(k) /\ Message(k)' = Message(k)
      BY <1>1, <3>3 DEF LettersFor, Handlers, Message
    <3> QED
      BY <1>1, <2>1, <3>2, <3>4 DEF AnsweredOnce, StreamOf, Answers, Net
  <2> QED
    BY <2>2, <2>3
<1> QED
  BY <1>1, <1>2, <1>3 DEF AllAnswered

(* An event is for no request. *)
LEMMA EventSent ==
  ASSUME AnswersInv, stage = "serving", UNCHANGED parserVars, SendEvent
  PROVE  InHand' /\ Addressed' /\ AllAnswered'
<1>1. PICK c \in Clients, m \in held : Posted(c, m.buf, Letter(0, m.name, Net(0)))
  BY DEF SendEvent
<1>2. current = <<>> /\ current' = <<>> /\ served' = served
  BY DEF SendEvent
<1> DEFINE l == Letter(0, m.name, Net(0))
<1>3. l \in LetterType /\ l.of = 0
  <2>1. m.name \in MessageNames /\ Net(0) \in Word(0 .. MaxRequests) /\ 0 \in 0 .. MaxRequests
    BY ServerAssumption DEF AnswersInv, ServerInv, ServerTypes, Net, Word
  <2> QED
    BY <2>1, LetterTyped DEF Letter
<1>4. Posted(c, m.buf, l)
  BY <1>1
<1> HIDE DEF l
<1>5. /\ Addressed' /\ sent'[c] = Append(sent[c], l)
      /\ \A d \in Clients \ {c} : sent'[d] = sent[d]
  BY <1>2, <1>3, <1>4, PostedAddressed DEF AnswersInv, ServerInv
<1>6. ASSUME NEW r \in served PROVE AnsweredOnce(r)'
  <2>1. AnsweredOnce(r) /\ r.client \in Clients /\ r.id # 0
    BY DEF AnswersInv, AllAnswered, Logged
  <2>2. \A d \in Clients : \/ sent'[d] = sent[d]
                           \/ \E k \in LetterType : /\ k.of # r.id
                                                    /\ sent'[d] = Append(sent[d], k)
    BY <1>3, <1>5, <2>1
  <2>3. \A i \in DOMAIN current : current[i].id # r.id
    BY <1>2
  <2> QED
    BY <2>1, <2>2, <2>3, StillAnswered DEF AnswersInv, ServerInv
<1> QED
  BY <1>2, <1>5, <1>6 DEF InHand, AllAnswered

(* A request is dispatched: no letter was sent for it yet. *)
LEMMA Dispatched ==
  ASSUME AnswersInv, stage = "serving", UNCHANGED parserVars, Dispatch
  PROVE  InHand' /\ Addressed' /\ AllAnswered'
<1>a. PICK r : r = Head(requests)
  OBVIOUS
<1>b. PICK mp : mp = Received(r)
  OBVIOUS
<1>c. PICK reached \in BOOLEAN :
        reached <=> Handlers(mp.name) # {} /\ Registered(mp.index)
  OBVIOUS
<1>d. PICK connected \in BOOLEAN : connected <=> r.client \in Open
  OBVIOUS
<1>e. PICK log : log = [id |-> r.id, client |-> r.client, name |-> r.name,
                        connected |-> connected, reached |-> reached]
  OBVIOUS
<1>0. r \in RequestType /\ r = requests[1] /\ 1 \in DOMAIN requests
  BY <1>a DEF AnswersInv, ServerInv, ServerTypes, Dispatch
<1>1. /\ requests # <<>> /\ current = <<>>
      /\ current' = IF reached THEN <<mp>> ELSE <<>>
      /\ served' = served \cup {log} /\ sent' = sent
  BY <1>0, <1>a, <1>b, <1>c, <1>d, <1>e, ReceivedType DEF Dispatch, Log
<1>3. /\ mp.id = r.id /\ mp.client = r.client /\ mp.name = r.name
      /\ mp = IF Message(r.name).autoendian
              THEN [r EXCEPT !.index = Swapped(@), !.context = Swapped(@)]
              ELSE r
  BY <1>0, <1>b, ReceivedType
<1>4. r.index = Net(r.client) /\ r.context = Net(r.id) /\ r.id \in 1 .. asked
      /\ r.client \in Clients
  BY <1>0 DEF AnswersInv, Queued, RequestType
<1>5. \A q \in served : q.id # r.id
  BY <1>0 DEF AnswersInv, Logged
<1>6. /\ log.id = r.id /\ log.client = r.client /\ log.name = r.name
      /\ log.connected = connected /\ log.reached = reached
  BY <1>e
<1>7. Message(r.name).autoendian =>
        /\ mp.index = [value |-> r.client, net |-> FALSE]
        /\ mp.context = [value |-> r.id, net |-> FALSE]
  <2> SUFFICES ASSUME Message(r.name).autoendian
               PROVE  mp.index = Swapped(r.index) /\ mp.context = Swapped(r.context)
    BY <1>4, SwappedToHost
  <2> QED
    BY <1>0, <1>3 DEF RequestType
<1>8. Registered(mp.index) <=> Message(r.name).autoendian /\ r.client \in Open
  <2>1. CASE Message(r.name).autoendian
    <3>1. mp.index.value = r.client
      BY <1>7, <2>1
    <3>2. Swapped(mp.index) = Net(r.client)
      BY <1>7, <2>1, SwappedBack
    <3>3. Net(r.client).net = TRUE
      BY DEF Net
    <3> QED
      BY <2>1, <3>1, <3>2, <3>3 DEF Registered
  <2>2. CASE ~Message(r.name).autoendian
    <3>1. Swapped(mp.index).net = FALSE
      BY <1>3, <1>4, <2>2, SwappedToHost
    <3> QED
      BY <2>2, <3>1 DEF Registered
  <2> QED
    BY <2>1, <2>2
<1>9. \A c \in Clients : \A i \in DOMAIN sent[c] : sent[c][i].of # r.id
  <2>1. r.id # 0
    BY <1>4 DEF AnswersInv, ServerInv, ServerTypes
  <2> QED
    BY <1>5, <2>1 DEF AnswersInv, Addressed
<1>10. LettersFor(log) = {} /\ LettersFor(log)' = {}
  BY <1>1, <1>4, <1>6, <1>9 DEF LettersFor
<1>11. UNCHANGED <<messages, services>>
  BY DEF parserVars
<1>12. \A k : Handlers(k)' = Handlers(k) /\ Message(k)' = Message(k)
  BY <1>11 DEF Handlers, Message
<1>13. AnsweredOnce(log)'
  <2>1. \A c \in Clients \ {log.client} : \A l \in ToSet(sent'[c]) : l.of # log.id
    BY <1>1, <1>6, <1>9 DEF ToSet
  <2>2. ASSUME NEW s \in Handlers(log.name)'
        PROVE  LET arrived == log.connected /\ Message(log.name)'.autoendian
               IN  /\ arrived => log.reached
                   /\ log.reached => ~\A i \in DOMAIN current' : current'[i].id # log.id
    <3>1. Handlers(mp.name) # {}
      BY <1>3, <1>6, <1>12, <2>2
    <3>2. log.reached => current' = <<mp>> /\ mp.id = log.id
      BY <1>1, <1>3, <1>6
    <3>3. <<mp>>[1] = mp /\ DOMAIN <<mp>> = {1}
      OBVIOUS
    <3> QED
      BY <1>c, <1>d, <1>6, <1>8, <1>12, <3>1, <3>2, <3>3
  <2>3. log.reached => log.connected /\ Message(log.name)'.autoendian
    BY <1>c, <1>d, <1>3, <1>6, <1>8, <1>12
  <2> QED
    BY <1>10, <2>1, <2>2, <2>3 DEF AnsweredOnce
<1>14. ASSUME NEW q \in served PROVE AnsweredOnce(q)'
  <2>1. AnsweredOnce(q) /\ q.client \in Clients
    BY DEF AnswersInv, AllAnswered, Logged
  <2>2. \A i \in DOMAIN current : current[i].id # q.id
    BY <1>1
  <2> QED
    BY <1>1, <2>1, <2>2, StillAnswered DEF AnswersInv, ServerInv
<1>15. InHand'
  <2> SUFFICES ASSUME current' # <<>>
               PROVE  IsHandled(log, mp) /\ OnlyStreamed(log)' /\ Mp' = mp
    BY <1>1 DEF InHand, IsHandled
  <2>1. reached /\ current' = <<mp>>
    BY <1>1
  <2>2. IsHandled(log, mp)
    BY <1>c, <1>3, <1>6, <1>7, <1>8, <2>1 DEF IsHandled
  <2> QED
    BY <1>10, <2>1, <2>2 DEF OnlyStreamed, Mp
<1>16. Addressed'
  BY <1>1 DEF AnswersInv, Addressed
<1> QED
  BY <1>1, <1>13, <1>14, <1>15, <1>16 DEF AllAnswered

LEMMA AnswersInvInit == Init => AnswersInv
<1> SUFFICES ASSUME Init PROVE AnswersInv
  OBVIOUS
<1>1. ServerInv
  BY ServerInvInit
<1>2. requests = <<>> /\ served = {} /\ current = <<>> /\ \A c \in Clients : sent[c] = <<>>
  BY DEF Init, InitServer
<1> QED
  BY <1>1, <1>2 DEF AnswersInv, Queued, Logged, InHand, Addressed, AllAnswered

LEMMA AnswersInvStep == AnswersInv /\ [Next]_vars => AnswersInv'
<1> SUFFICES ASSUME AnswersInv, [Next]_vars PROVE AnswersInv'
  OBVIOUS
<1>1. ServerInv'
  BY ServerInvStep DEF AnswersInv
<1>2. CASE stage = "serving" /\ ServerNext /\ UNCHANGED parserVars
  <2>1. Queued' /\ Logged'
    BY <1>2, NumbersStep DEF AnswersInv, ServerInv
  <2>2. InHand' /\ Addressed' /\ AllAnswered'
    <3>2. CASE UNCHANGED <<sent, current, served>>
      BY <1>2, <3>2, QuietStep DEF AnswersInv
    <3>3. CASE StreamSend
      <4>1. current # <<>> /\ current' = current /\ served' = served
        BY <3>3 DEF StreamSend, Running
      <4>2. PICK m \in held : /\ m.name = StreamOf(Service)
                              /\ Posted(Mp.index.value, m.buf,
                                        Letter(Mp.id, m.name, Swapped(Mp.context)))
        BY <3>3 DEF StreamSend
      <4>3. m.name \in MessageNames
        BY DEF AnswersInv, ServerInv, ServerTypes
      <4> QED
        BY <1>2, <4>1, <4>2, <4>3, HandlerSends
    <3>4. CASE ReturnReply \/ ReturnError
      <4>1. current # <<>> /\ current' = <<>> /\ served' = served
        BY <3>4 DEF ReturnReply, ReturnError, Running
      <4>2. PICK b : Posted(Mp.index.value, b,
                            Letter(Mp.id, Service.reply, Swapped(Mp.context)))
        BY <3>4 DEF ReturnReply, ReturnError, Reply
      <4>3. Service.reply \in MessageNames
        BY <1>2, <4>1, ServiceKnown DEF AnswersInv
      <4> QED
        BY <1>2, <4>1, <4>2, <4>3, HandlerSends
    <3>5. CASE ReturnNothing
      BY <1>2, <3>5, NothingReturned
    <3>6. CASE SendEvent
      BY <1>2, <3>6, EventSent
    <3>7. CASE Dispatch
      BY <1>2, <3>7, Dispatched
    <3>8. \/ UNCHANGED <<sent, current, served>> \/ StreamSend \/ ReturnReply \/ ReturnError
          \/ ReturnNothing \/ SendEvent \/ Dispatch
      BY <1>2 DEF ServerNext, Generate, Connect, Disconnect, Request, Transmit, New, NewUninit,
         Write, DropMessage
    <3> QED
      BY <3>2, <3>3, <3>4, <3>5, <3>6, <3>7, <3>8
  <2> QED
    BY <1>1, <2>1, <2>2 DEF AnswersInv
<1>3. CASE stage # "serving"
  <2>1. AtRest
    BY <1>3 DEF AnswersInv, ServerInv, Stages
  <2>2. UNCHANGED <<requests, asked, current, sent, served>>
    BY <1>3 DEF Next, vars, serverVars, ServerNext, Generate, Connect, Disconnect, Request,
       Transmit, New, NewUninit, Write, DropMessage, Dispatch, StreamSend, ReturnReply,
       ReturnError, ReturnNothing, SendEvent, Running
  <2>3. requests' = <<>> /\ served' = {} /\ current' = <<>> /\ \A c \in Clients : sent'[c] = <<>>
    BY <2>1, <2>2 DEF AtRest
  <2> QED
    BY <1>1, <2>3 DEF AnswersInv, Queued, Logged, InHand, Addressed, AllAnswered
<1>4. CASE UNCHANGED vars
  <2>1. UNCHANGED parserVars /\ UNCHANGED <<sent, current, served, requests, asked>>
    BY <1>4 DEF vars, serverVars
  <2>2. InHand' /\ Addressed' /\ AllAnswered'
    BY <2>1, QuietStep DEF AnswersInv
  <2>3. Queued' /\ Logged'
    BY <2>1 DEF AnswersInv, Queued, Logged
  <2> QED
    BY <1>1, <2>2, <2>3 DEF AnswersInv
<1>5. stage = "serving" => ~ParserNext
  BY ParserRuns DEF AnswersInv, ServerInv, Stages
<1> QED
  BY <1>2, <1>3, <1>4, <1>5 DEF Next

(* Whatever the API, the clients and the order of what happens: a request   *)
(* whose message is autoendian and has a handler, and that arrives while    *)
(* its client is connected, is answered by one reply with its context, or   *)
(* by its stream; no other request is answered, and nobody else gets an     *)
(* answer.  What the code generate_register writes relies on: one handler   *)
(* for a message, one request for a context, and the context copied in the  *)
(* order the client sent it in.                                             *)
THEOREM AutoendianAnsweredOnce == Spec => []OneAnswerEach
<1>1. ServingInv /\ AnswersInv => OneAnswerEach
  BY DEF ServingInv, AnswersInv, AllAnswered, OneAnswerEach
<1> QED
  BY <1>1, ServingInvInit, ServingInvStep, AnswersInvInit, AnswersInvStep, PTL DEF Spec
-----------------------------------------------------------------------------
(* Reading the files.  The frames below the last one are at the imports     *)
(* that lead to the frame above them; together they are one chain.          *)
Taken(k) == <<frames[k].file, frames[k].at - 1>>

FrameType == [file : DOMAIN input, phase : {"imports", "statements"}, at : Nat \ {0}]

FramesOK ==
  /\ input \in Inputs
  /\ frames \in Seq(FrameType) /\ Len(frames) \in 1 .. MaxDepth
  /\ frames[1].file = Top
  /\ \A k \in 1 .. Len(frames) : frames[k].at <= Len(input[frames[k].file]) + 1
  /\ \A k \in 1 .. Len(frames) - 1 :
       /\ frames[k].phase = "imports" /\ frames[k].at > 1
       /\ input[frames[k].file][frames[k].at - 1].kind = "import"
       /\ input[frames[k].file][frames[k].at - 1].file = frames[k + 1].file

(* What is done with: the imports of frame k that come before Mark(k), and  *)
(* with them whatever a chain leads to through them; and of the file of the *)
(* last frame the statements before the one it is at.                       *)
Mark(k) ==
  IF k < Len(frames) THEN frames[k].at - 1
  ELSE IF frames[k].phase = "imports" THEN frames[k].at
  ELSE Len(input[frames[k].file]) + 1

Follows(c, k) == \A j \in 1 .. k : c[j] = Taken(j)

Passed(c, n) ==
  \E k \in 1 .. n : k <= Len(frames) /\ Follows(c, k - 1) /\ c[k][2] < Mark(k)

Met(c, n, i) ==
  \/ Passed(c, n)
  \/ /\ n = Len(frames) - 1 /\ Follows(c, n)
     /\ Here.phase = "statements" /\ i < Here.at

(* The table has the types of the statements that were met, each name from  *)
(* one of them, and a chain that is done with is shorter than the stack.    *)
TableOK ==
  /\ \A name : name \in DOMAIN types <=>
       \E n \in Nat : \E c \in Chains(n) : \E i \in DefinedAlong(c, n, name) : Met(c, n, i)
  /\ \A name : \A m, n \in Nat : \A b \in Chains(m), c \in Chains(n) :
       \A h \in DefinedAlong(b, m, name), i \in DefinedAlong(c, n, name) :
         Met(b, m, h) /\ Met(c, n, i) => m = n /\ b = c /\ h = i
  /\ \A n \in Nat : \A c \in Chains(n) : Passed(c, n) => n < MaxDepth

Finished ==
  outcome = "accepted" =>
    Len(frames) = 1 /\ Here.phase = "statements" /\ Here.at \notin DOMAIN input[Here.file]

ReadingInv == FramesOK /\ TableOK /\ Finished

LEMMA FilesAreLists ==
  ASSUME input \in Inputs
  PROVE  /\ Top \in DOMAIN input
         /\ \A f \in DOMAIN input :
              /\ input[f] \in Seq(ToSet(input[f])) /\ Len(input[f]) \in Nat
              /\ DOMAIN input[f] = 1 .. Len(input[f])
BY ParserAssumption DEF ParserAssumption

LEMMA LastFrame ==
  ASSUME FramesOK
  PROVE  /\ Here = frames[Len(frames)] /\ Here \in FrameType
         /\ Len(frames) \in Nat \ {0} /\ DOMAIN frames = 1 .. Len(frames)
         /\ Here.file \in DOMAIN input /\ Here.at \in Nat \ {0}
         /\ Here.at <= Len(input[Here.file]) + 1
         /\ Len(input[Here.file]) \in Nat
         /\ DOMAIN input[Here.file] = 1 .. Len(input[Here.file])
         /\ MaxDepth \in Nat /\ Len(frames) <= MaxDepth
<1>1. MaxDepth \in Nat
  BY ParserAssumption DEF ParserAssumption
<1>2. Len(frames) \in Nat \ {0} /\ DOMAIN frames = 1 .. Len(frames) /\ Len(frames) <= MaxDepth
  BY <1>1 DEF FramesOK
<1>3. Here = frames[Len(frames)]
  BY DEF Here, Last
<1>4. Here \in FrameType
  BY <1>2, <1>3 DEF FramesOK
<1>5. Here.file \in DOMAIN input /\ Here.at \in Nat \ {0}
  BY <1>4 DEF FrameType
<1>6. Here.at <= Len(input[Here.file]) + 1
  BY <1>2, <1>3 DEF FramesOK
<1> QED
  BY <1>1, <1>2, <1>3, <1>4, <1>5, <1>6, FilesAreLists DEF FramesOK

(* Every import of a chain is a statement of a file. *)
LEMMA ChainPlaces ==
  ASSUME input \in Inputs, NEW n \in Nat, NEW c \in Chains(n), NEW k \in 1 .. n
  PROVE  /\ c[k] = <<c[k][1], c[k][2]>>
         /\ c[k][1] = LeadsTo(c, k - 1) /\ c[k][1] \in DOMAIN input
         /\ c[k][2] \in 1 .. Len(input[c[k][1]]) /\ Len(input[c[k][1]]) \in Nat
         /\ input[c[k][1]][c[k][2]].kind = "import"
<1>1. c \in [1 .. n -> ImportPlaces] /\ c[k][1] = LeadsTo(c, k - 1)
  BY DEF Chains
<1>2. c[k] \in ImportPlaces
  BY <1>1
<1>3. PICK f \in DOMAIN input : c[k] \in {f} \X DOMAIN input[f]
  BY <1>2 DEF ImportPlaces
<1>4. c[k] = <<c[k][1], c[k][2]>> /\ c[k][1] = f /\ c[k][2] \in DOMAIN input[f]
  BY <1>3
<1>5. input[c[k][1]][c[k][2]].kind = "import"
  BY <1>2 DEF ImportPlaces
<1> QED
  BY <1>1, <1>4, <1>5, FilesAreLists

(* A chain leads to a file. *)
LEMMA ChainEnds ==
  ASSUME input \in Inputs, NEW n \in Nat, NEW c \in Chains(n)
  PROVE  /\ LeadsTo(c, n) \in DOMAIN input
         /\ \A i \in DOMAIN input[LeadsTo(c, n)] : i \in Nat
<1>1. CASE n = 0
  BY <1>1, FilesAreLists DEF LeadsTo
<1>2. CASE n # 0
  <2>1. c[n] \in ImportPlaces
    BY <1>2 DEF Chains
  <2>2. LeadsTo(c, n) \in DOMAIN input
    BY <1>2, <2>1 DEF ImportPlaces, LeadsTo
  <2> QED
    BY <2>2, FilesAreLists
<1> QED
  BY <1>1, <1>2

(* As far as a chain follows the frames it leads to their files. *)
LEMMA FollowsFiles ==
  ASSUME FramesOK, NEW n \in Nat, NEW c \in Chains(n), NEW k \in 1 .. Len(frames),
         k <= n + 1, Follows(c, k - 1)
  PROVE  LeadsTo(c, k - 1) = frames[k].file
<1>1. CASE k = 1
  BY <1>1 DEF LeadsTo, FramesOK
<1>2. CASE k # 1
  <2>1. k - 1 \in 1 .. k - 1 /\ k - 1 \in 1 .. Len(frames) - 1 /\ k - 1 # 0 /\ (k - 1) + 1 = k
    BY <1>2, LastFrame
  <2>2. c[k - 1] = Taken(k - 1)
    BY <2>1 DEF Follows
  <2>3. input[Taken(k - 1)[1]][Taken(k - 1)[2]].file = frames[k].file
    BY <2>1 DEF Taken, FramesOK
  <2> QED
    BY <2>1, <2>2, <2>3 DEF LeadsTo
<1> QED
  BY <1>1, <1>2

-----------------------------------------------------------------------------
(* What the steps do to the frames. *)
Entered == frames' = Append(Advanced, Frame(Statement.file))
Left == frames' = Front(frames)
Ended == frames' = [frames EXCEPT ![Len(frames)] =
                      [file |-> Here.file, phase |-> "statements", at |-> 1]]

LEMMA RecordFields ==
  \A file, phase, at : LET e == [file |-> file, phase |-> phase, at |-> at]
                       IN  e.file = file /\ e.phase = phase /\ e.at = at
OBVIOUS

LEMMA LastReplaced ==
  ASSUME NEW T, NEW s \in Seq(T), s # <<>>, NEW e \in T
  PROVE  LET t == [s EXCEPT ![Len(s)] = e]
         IN  /\ t \in Seq(T) /\ Len(t) = Len(s) /\ t[Len(s)] = e
             /\ \A k \in 1 .. Len(s) - 1 : t[k] = s[k]
OBVIOUS

LEMMA AdvancedIs ==
  ASSUME FramesOK
  PROVE  /\ Advanced \in Seq(FrameType) /\ Len(Advanced) = Len(frames)
         /\ \A k \in 1 .. Len(frames) - 1 : Advanced[k] = frames[k]
         /\ Advanced[Len(frames)]
              = [file |-> Here.file, phase |-> Here.phase, at |-> Here.at + 1]
<1> DEFINE d == Len(frames)
           new == [file |-> Here.file, phase |-> Here.phase, at |-> Here.at + 1]
<1>1. Here = frames[d] /\ Here \in FrameType /\ d \in Nat \ {0} /\ DOMAIN frames = 1 .. d
  BY LastFrame
<1>2. new \in FrameType
  BY <1>1 DEF FrameType
<1>3. Advanced = [frames EXCEPT ![d] = [frames[d] EXCEPT !.at = @ + 1]]
  BY DEF Advanced
<1>4. [frames[d] EXCEPT !.at = @ + 1] = new
  BY <1>1 DEF FrameType
<1>5. frames \in Seq(FrameType)
  BY DEF FramesOK
<1> HIDE DEF new
<1>6. Advanced = [frames EXCEPT ![d] = new]
  BY <1>3, <1>4
<1>7. Advanced \in Seq(FrameType) /\ Len(Advanced) = d /\ Advanced[d] = new
      /\ \A k \in 1 .. d - 1 : Advanced[k] = frames[k]
  BY <1>1, <1>2, <1>5, <1>6
<1> QED
  BY <1>7 DEF new

LEMMA SteppedFrames ==
  ASSUME FramesOK, UNCHANGED input, frames' = Advanced, Here.at \in DOMAIN input[Here.file]
  PROVE  FramesOK'
<1> DEFINE d == Len(frames)
<1>1. Here = frames[d] /\ d \in Nat \ {0} /\ Here.at <= Len(input[Here.file])
      /\ Here.at \in Nat /\ Len(input[Here.file]) \in Nat /\ d <= MaxDepth /\ MaxDepth \in Nat
  BY LastFrame
<1>2. /\ frames' \in Seq(FrameType) /\ Len(frames') = d
      /\ \A k \in 1 .. d - 1 : frames'[k] = frames[k]
      /\ frames'[d] = [file |-> Here.file, phase |-> Here.phase, at |-> Here.at + 1]
  BY AdvancedIs
<1>3. frames'[d].file = Here.file /\ frames'[d].at = Here.at + 1
  BY <1>2
<1>4. \A k \in 1 .. d : frames'[k].file = frames[k].file /\ (k = d \/ k \in 1 .. d - 1)
  <2>1. \A k \in 1 .. d : k = d \/ k \in 1 .. d - 1
    BY <1>1
  <2>2. \A k \in 1 .. d - 1 : frames'[k].file = frames[k].file
    BY <1>2
  <2>3. frames'[d].file = frames[d].file
    BY <1>1, <1>3
  <2> QED
    BY <2>1, <2>2, <2>3
<1>5. FrameType' = FrameType
  BY DEF FrameType
<1>6. \A k \in 1 .. d : frames'[k].at <= Len(input[frames'[k].file]) + 1
  <2> TAKE k \in 1 .. d
  <2>1. CASE k = d
    BY <1>1, <1>3, <2>1
  <2>2. CASE k \in 1 .. d - 1
    <3>1. frames'[k] = frames[k]
      BY <1>2, <2>2
    <3> QED
      BY <3>1 DEF FramesOK
  <2> QED
    BY <1>4, <2>1, <2>2
<1>7. \A k \in 1 .. d - 1 : k + 1 \in 1 .. d /\ frames'[k + 1].file = frames[k + 1].file
  BY <1>1, <1>4
<1>8. \A k \in 1 .. d - 1 :
       /\ frames'[k].phase = "imports" /\ frames'[k].at > 1
       /\ input[frames'[k].file][frames'[k].at - 1].kind = "import"
       /\ input[frames'[k].file][frames'[k].at - 1].file = frames'[k + 1].file
  <2> TAKE k \in 1 .. d - 1
  <2>1. frames'[k] = frames[k] /\ frames'[k + 1].file = frames[k + 1].file
    BY <1>2, <1>7
  <2> QED
    BY <2>1 DEF FramesOK
<1>9. frames'[1].file = Top
  BY <1>1, <1>4 DEF FramesOK
<1>10. Len(frames') \in 1 .. MaxDepth /\ Len(frames') - 1 = d - 1
  BY <1>1, <1>2
<1> QED
  BY <1>2, <1>5, <1>6, <1>8, <1>9, <1>10 DEF FramesOK

LEMMA EnteredIs ==
  ASSUME FramesOK, Entered, Statement.file \in DOMAIN input
  PROVE  /\ frames' \in Seq(FrameType) /\ Len(frames') = Len(frames) + 1
         /\ \A k \in 1 .. Len(frames) - 1 : frames'[k] = frames[k]
         /\ frames'[Len(frames)]
              = [file |-> Here.file, phase |-> Here.phase, at |-> Here.at + 1]
         /\ frames'[Len(frames) + 1]
              = [file |-> Statement.file, phase |-> "imports", at |-> 1]
<1> DEFINE d == Len(frames)
<1>1. d \in Nat \ {0}
  BY LastFrame
<1>2. Frame(Statement.file) \in FrameType
  BY DEF Frame, FrameType
<1>3. PICK a : a = Advanced
  OBVIOUS
<1>4. PICK e : e = Frame(Statement.file)
  OBVIOUS
<1>5. a \in Seq(FrameType) /\ Len(a) = d
  BY <1>3, AdvancedIs
<1>6. frames' = Append(a, e)
  BY <1>3, <1>4 DEF Entered
<1>7. frames' \in Seq(FrameType) /\ Len(frames') = d + 1 /\ frames'[d + 1] = e
      /\ \A k \in 1 .. d : frames'[k] = a[k]
  BY <1>1, <1>2, <1>4, <1>5, <1>6
<1>8. d \in 1 .. d /\ \A k \in 1 .. d - 1 : k \in 1 .. d
  BY <1>1
<1> QED
  BY <1>3, <1>4, <1>7, <1>8, AdvancedIs DEF Frame

LEMMA EnteredFrames ==
  ASSUME FramesOK, UNCHANGED input, Len(frames) < MaxDepth, Here.phase = "imports",
         Here.at \in DOMAIN input[Here.file], Statement.kind = "import",
         Entered, Statement.file \in DOMAIN input
  PROVE  FramesOK'
<1> DEFINE d == Len(frames)
<1>1. Here = frames[d] /\ d \in Nat \ {0} /\ Here.at <= Len(input[Here.file])
      /\ Here.at \in Nat \ {0} /\ Len(input[Here.file]) \in Nat /\ MaxDepth \in Nat
      /\ d + 1 <= MaxDepth
  BY LastFrame
<1>2. /\ frames' \in Seq(FrameType) /\ Len(frames') = d + 1
      /\ \A k \in 1 .. d - 1 : frames'[k] = frames[k]
      /\ frames'[d] = [file |-> Here.file, phase |-> Here.phase, at |-> Here.at + 1]
      /\ frames'[d + 1] = [file |-> Statement.file, phase |-> "imports", at |-> 1]
  BY EnteredIs
<1>3. /\ frames'[d].file = Here.file /\ frames'[d].at = Here.at + 1
      /\ frames'[d].phase = "imports"
      /\ frames'[d + 1].file = Statement.file /\ frames'[d + 1].at = 1
  BY <1>2
<1>4. FrameType' = FrameType
  BY DEF FrameType
<1>5. Len(input[Statement.file]) \in Nat
  BY FilesAreLists DEF FramesOK
<1>6. \A k \in 1 .. d + 1 : k \in 1 .. d - 1 \/ k = d \/ k = d + 1
  BY <1>1
<1>7. \A k \in 1 .. d + 1 : frames'[k].at <= Len(input[frames'[k].file]) + 1
  <2> TAKE k \in 1 .. d + 1
  <2>1. CASE k \in 1 .. d - 1
    <3>1. frames'[k] = frames[k] /\ k \in 1 .. Len(frames)
      BY <1>1, <1>2, <2>1
    <3> QED
      BY <3>1 DEF FramesOK
  <2>2. CASE k = d
    BY <1>1, <1>3, <2>2
  <2>3. CASE k = d + 1
    BY <1>3, <1>5, <2>3
  <2> QED
    BY <1>6, <2>1, <2>2, <2>3
<1>8. \A k \in 1 .. d :
       /\ frames'[k].phase = "imports" /\ frames'[k].at > 1
       /\ input[frames'[k].file][frames'[k].at - 1].kind = "import"
       /\ input[frames'[k].file][frames'[k].at - 1].file = frames'[k + 1].file
  <2> TAKE k \in 1 .. d
  <2>1. CASE k \in 1 .. d - 1
    <3>1. frames'[k] = frames[k] /\ frames'[k + 1].file = frames[k + 1].file
      <4>1. k + 1 \in 1 .. d - 1 \/ k + 1 = d
        BY <1>1, <2>1
      <4>2. frames'[d].file = frames[d].file
        BY <1>1, <1>3
      <4> QED
        BY <1>2, <2>1, <4>1, <4>2
    <3> QED
      BY <2>1, <3>1 DEF FramesOK
  <2>2. CASE k = d
    <3>1. frames'[d].at - 1 = Here.at /\ frames'[d].at > 1
      BY <1>1, <1>3
    <3>2. /\ frames'[k + 1].file = Statement.file /\ frames'[k].file = Here.file
          /\ frames'[k].phase = "imports" /\ frames'[k].at - 1 = Here.at
      BY <1>1, <1>3, <2>2, <3>1
    <3> QED
      BY <2>2, <3>1, <3>2 DEF Statement
  <2> QED
    BY <1>6, <2>1, <2>2
<1>9. frames'[1].file = Top
  <2>0. \A n \in Nat \ {0} : 1 \in 1 .. n - 1 \/ n = 1
    OBVIOUS
  <2>1. 1 \in 1 .. d - 1 \/ d = 1
    BY <1>1, <2>0
  <2>2. frames'[d].file = frames[d].file
    BY <1>1, <1>3
  <2>3. frames'[1].file = frames[1].file
    BY <1>2, <2>1, <2>2
  <2> QED
    BY <2>3 DEF FramesOK
<1>10. Len(frames') \in 1 .. MaxDepth /\ Len(frames') - 1 = d
  BY <1>1, <1>2
<1> QED
  BY <1>2, <1>4, <1>7, <1>8, <1>9, <1>10 DEF FramesOK

LEMMA EndedIs ==
  ASSUME FramesOK, Here.phase = "imports", Here.at \notin DOMAIN input[Here.file], Ended
  PROVE  /\ frames' \in Seq(FrameType) /\ Len(frames') = Len(frames)
         /\ \A k \in 1 .. Len(frames) - 1 : frames'[k] = frames[k]
         /\ frames'[Len(frames)] = [file |-> Here.file, phase |-> "statements", at |-> 1]
         /\ Here.at = Len(input[Here.file]) + 1
<1> DEFINE d == Len(frames)
           new == [file |-> Here.file, phase |-> "statements", at |-> 1]
<1>1. /\ d \in Nat \ {0} /\ DOMAIN frames = 1 .. d /\ frames \in Seq(FrameType)
      /\ new \in FrameType
  BY LastFrame DEF FramesOK, FrameType
<1> HIDE DEF new
<1>2. frames' = [frames EXCEPT ![d] = new]
  BY DEF new, Ended
<1>3. /\ frames' \in Seq(FrameType) /\ Len(frames') = d /\ frames'[d] = new
      /\ \A k \in 1 .. d - 1 : frames'[k] = frames[k]
  <2>1. frames # <<>>
    BY <1>1
  <2>2. PICK f : f = frames
    OBVIOUS
  <2>3. f \in Seq(FrameType) /\ f # <<>> /\ new \in FrameType
    BY <1>1, <2>1, <2>2
  <2>4. /\ [f EXCEPT ![Len(f)] = new] \in Seq(FrameType)
        /\ Len([f EXCEPT ![Len(f)] = new]) = Len(f)
        /\ [f EXCEPT ![Len(f)] = new][Len(f)] = new
        /\ \A k \in 1 .. Len(f) - 1 : [f EXCEPT ![Len(f)] = new][k] = f[k]
    BY <2>3, LastReplaced
  <2> QED
    BY <1>2, <2>2, <2>4
<1>4. Here.at = Len(input[Here.file]) + 1
  BY LastFrame
<1> QED
  BY <1>3, <1>4 DEF new

LEMMA EndedFrames ==
  ASSUME FramesOK, UNCHANGED input, Here.phase = "imports",
         Here.at \notin DOMAIN input[Here.file], Ended
  PROVE  FramesOK'
<1> DEFINE d == Len(frames)
<1>1. Here = frames[d] /\ d \in Nat \ {0} /\ d <= MaxDepth /\ MaxDepth \in Nat
      /\ Len(input[Here.file]) \in Nat
  BY LastFrame
<1>2. /\ frames' \in Seq(FrameType) /\ Len(frames') = d
      /\ \A k \in 1 .. d - 1 : frames'[k] = frames[k]
      /\ frames'[d] = [file |-> Here.file, phase |-> "statements", at |-> 1]
  BY EndedIs
<1>3. frames'[d].file = Here.file /\ frames'[d].at = 1
  BY <1>2, RecordFields
<1>4. \A k \in 1 .. d : frames'[k].file = frames[k].file /\ (k = d \/ k \in 1 .. d - 1)
  <2>1. \A k \in 1 .. d : k = d \/ k \in 1 .. d - 1
    BY <1>1
  <2>2. \A k \in 1 .. d - 1 : frames'[k].file = frames[k].file
    BY <1>2
  <2>3. frames'[d].file = frames[d].file
    BY <1>1, <1>3
  <2> QED
    BY <2>1, <2>2, <2>3
<1>5. FrameType' = FrameType
  BY DEF FrameType
<1>6. \A k \in 1 .. d : frames'[k].at <= Len(input[frames'[k].file]) + 1
  <2> TAKE k \in 1 .. d
  <2>1. CASE k = d
    BY <1>1, <1>3, <2>1
  <2>2. CASE k \in 1 .. d - 1
    <3>1. frames'[k] = frames[k]
      BY <1>2, <2>2
    <3> QED
      BY <3>1 DEF FramesOK
  <2> QED
    BY <1>4, <2>1, <2>2
<1>7. \A k \in 1 .. d - 1 : k + 1 \in 1 .. d /\ frames'[k + 1].file = frames[k + 1].file
  BY <1>1, <1>4
<1>8. \A k \in 1 .. d - 1 :
       /\ frames'[k].phase = "imports" /\ frames'[k].at > 1
       /\ input[frames'[k].file][frames'[k].at - 1].kind = "import"
       /\ input[frames'[k].file][frames'[k].at - 1].file = frames'[k + 1].file
  <2> TAKE k \in 1 .. d - 1
  <2>1. frames'[k] = frames[k] /\ frames'[k + 1].file = frames[k + 1].file
    BY <1>2, <1>7
  <2> QED
    BY <2>1 DEF FramesOK
<1>9. frames'[1].file = Top
  BY <1>1, <1>4 DEF FramesOK
<1>10. Len(frames') \in 1 .. MaxDepth /\ Len(frames') - 1 = d - 1
  BY <1>1, <1>2
<1> QED
  BY <1>2, <1>5, <1>6, <1>8, <1>9, <1>10 DEF FramesOK

LEMMA LeftIs ==
  ASSUME FramesOK, Left, ~IsTop
  PROVE  /\ frames' \in Seq(FrameType) /\ Len(frames') = Len(frames) - 1
         /\ Len(frames) > 1 /\ \A k \in 1 .. Len(frames) - 1 : frames'[k] = frames[k]
<1>1. Len(frames) \in Nat \ {0}
  BY LastFrame
<1>2. Len(frames) \in Nat \ {0} /\ Len(frames) # 1
  BY <1>1 DEF IsTop
<1>3. \A n \in Nat \ {0} : n # 1 => n \in Nat /\ n > 1
  OBVIOUS
<1>4. Len(frames) \in Nat /\ Len(frames) > 1
  BY <1>2, <1>3
<1>5. Len(frames) \in Nat /\ Len(frames) > 1 /\ frames \in Seq(FrameType)
  BY <1>4 DEF FramesOK
<1>6. frames' = [k \in 1 .. Len(frames) - 1 |-> frames[k]]
  BY DEF Left, Front
<1> QED
  BY <1>5, <1>6

LEMMA LeftFrames ==
  ASSUME FramesOK, UNCHANGED input, Left, ~IsTop
  PROVE  FramesOK'
<1> DEFINE d == Len(frames)
<1>1. d \in Nat /\ d > 1 /\ d <= MaxDepth /\ MaxDepth \in Nat
  BY LeftIs, LastFrame
<1>2. /\ frames' \in Seq(FrameType) /\ Len(frames') = d - 1
      /\ \A k \in 1 .. d - 1 : frames'[k] = frames[k]
  BY LeftIs
<1>3. FrameType' = FrameType
  BY DEF FrameType
<1>4. \A k \in 1 .. d - 2 : k \in 1 .. d - 1 /\ k + 1 \in 1 .. d - 1
  BY <1>1
<1>5. 1 \in 1 .. d - 1 /\ \A k \in 1 .. d - 1 : k \in 1 .. d
  BY <1>1
<1>6. Len(frames') \in 1 .. MaxDepth /\ Len(frames') - 1 = d - 2
  BY <1>1, <1>2
<1>7. frames'[1].file = Top
  BY <1>2, <1>5 DEF FramesOK
<1>8. \A k \in 1 .. Len(frames') : frames'[k].at <= Len(input[frames'[k].file]) + 1
  BY <1>2, <1>5 DEF FramesOK
<1>9. \A k \in 1 .. Len(frames') - 1 :
       /\ frames'[k].phase = "imports" /\ frames'[k].at > 1
       /\ input[frames'[k].file][frames'[k].at - 1].kind = "import"
       /\ input[frames'[k].file][frames'[k].at - 1].file = frames'[k + 1].file
  <2> TAKE k \in 1 .. Len(frames') - 1
  <2>1. frames'[k] = frames[k] /\ frames'[k + 1] = frames[k + 1] /\ k \in 1 .. d - 1
    BY <1>2, <1>4, <1>6
  <2> QED
    BY <2>1 DEF FramesOK
<1> QED
  BY <1>2, <1>3, <1>6, <1>7, <1>8, <1>9 DEF FramesOK

-----------------------------------------------------------------------------
(* What the steps do to what was met. *)
TypeStatement(c, n, i) ==
  i \in DOMAIN input[LeadsTo(c, n)] /\ input[LeadsTo(c, n)][i].kind \in TypeKinds

MetSame ==
  \A n \in Nat : \A c \in Chains(n) :
    /\ Passed(c, n)' => Passed(c, n) \/ n < MaxDepth
    /\ \A i : TypeStatement(c, n, i) => (Met(c, n, i)' <=> Met(c, n, i))

(* Where the frames stay, so does what a chain follows. *)
LEMMA FollowsSame ==
  ASSUME NEW d \in Nat, NEW c, \A k \in 1 .. d - 1 : Taken(k)' = Taken(k)
  PROVE  \A k \in 1 .. d : Follows(c, k - 1)' <=> Follows(c, k - 1)
<1> TAKE k \in 1 .. d
<1>1. \A j \in 1 .. k - 1 : j \in 1 .. d - 1
  OBVIOUS
<1> QED
  BY <1>1 DEF Follows

LEMMA EnteredMet ==
  ASSUME FramesOK, UNCHANGED input, Len(frames) < MaxDepth, Here.phase = "imports",
         Here.at \in DOMAIN input[Here.file], Entered, Statement.file \in DOMAIN input
  PROVE  MetSame
<1>0. PICK d : d = Len(frames)
  OBVIOUS
<1> USE <1>0
<1>1. Here = frames[d] /\ d \in Nat \ {0} /\ Here.at \in Nat \ {0}
  BY LastFrame
<1>2. /\ Len(frames') = d + 1
      /\ \A k \in 1 .. d - 1 : frames'[k] = frames[k]
      /\ frames'[d].at = Here.at + 1
      /\ frames'[d + 1].phase = "imports" /\ frames'[d + 1].at = 1
  BY EnteredIs, RecordFields
<1>3. \A k \in 1 .. d - 1 : k < d /\ k < d + 1
  BY <1>1
<1>4. \A k \in 1 .. d - 1 : Taken(k)' = Taken(k) /\ Mark(k)' = Mark(k)
  BY <1>2, <1>3 DEF Taken, Mark
<1>5. Mark(d)' = Mark(d)
  <2>1. d < d + 1 /\ ~(d < d) /\ (Here.at + 1) - 1 = Here.at
    BY <1>1
  <2> QED
    BY <1>1, <1>2, <2>1 DEF Mark
<1>6. Mark(d + 1)' = 1
  <2>1. ~(d + 1 < d + 1)
    BY <1>1
  <2> QED
    BY <1>2, <2>1 DEF Mark
<1>7. Here'.phase = "imports"
  BY <1>2 DEF Here, Last
<1> SUFFICES ASSUME NEW n \in Nat, NEW c \in Chains(n)
             PROVE  Passed(c, n)' <=> Passed(c, n)
  BY <1>7 DEF MetSame, Met
<1>8. \A k \in 1 .. d : (Follows(c, k - 1)' <=> Follows(c, k - 1)) /\ Mark(k)' = Mark(k)
  <2>1. \A k \in 1 .. d : k = d \/ k \in 1 .. d - 1
    BY <1>1
  <2> QED
    BY <1>1, <1>4, <1>5, <2>1, FollowsSame
<1>9. ASSUME Passed(c, n)' PROVE Passed(c, n)
  <2>1. PICK k \in 1 .. n : k <= d + 1 /\ Follows(c, k - 1)' /\ c[k][2] < Mark(k)'
    BY <1>2, <1>9 DEF Passed
  <2>2. c[k][2] \in Nat \ {0}
    BY ChainPlaces DEF FramesOK
  <2>3. k # d + 1
    BY <1>6, <2>1, <2>2
  <2>4. k \in 1 .. d /\ k <= d
    BY <1>1, <2>1, <2>3
  <2> QED
    BY <1>8, <2>1, <2>4 DEF Passed
<1>10. ASSUME Passed(c, n) PROVE Passed(c, n)'
  <2>1. PICK k \in 1 .. n : k <= d /\ Follows(c, k - 1) /\ c[k][2] < Mark(k)
    BY <1>10 DEF Passed
  <2>2. k \in 1 .. d /\ k <= d + 1
    BY <1>1, <2>1
  <2> QED
    BY <1>2, <1>8, <2>1, <2>2 DEF Passed
<1> QED
  BY <1>9, <1>10

LEMMA SteppedMet ==
  ASSUME FramesOK, UNCHANGED input, frames' = Advanced, Here.at \in DOMAIN input[Here.file]
  PROVE  /\ Here.phase = "imports" /\ Statement.kind # "import" => MetSame
         /\ Here.phase = "statements" =>
              \A n \in Nat : \A c \in Chains(n) :
                /\ Passed(c, n)' <=> Passed(c, n)
                /\ \A i \in Nat :
                     Met(c, n, i)' <=> \/ Met(c, n, i)
                                       \/ n = Len(frames) - 1 /\ Follows(c, n) /\ i = Here.at
<1>0. PICK d : d = Len(frames)
  OBVIOUS
<1> USE <1>0
<1>1. /\ Here = frames[d] /\ d \in Nat \ {0} /\ Here.at \in Nat \ {0}
      /\ Len(input[Here.file]) \in Nat
  BY LastFrame
<1>2. /\ Len(frames') = d
      /\ \A k \in 1 .. d - 1 : frames'[k] = frames[k]
      /\ frames'[d].at = Here.at + 1 /\ frames'[d].phase = Here.phase
      /\ frames'[d].file = Here.file
  BY AdvancedIs, RecordFields
<1>3. \A k \in 1 .. d - 1 : k < d
  BY <1>1
<1>4. \A k \in 1 .. d - 1 : Taken(k)' = Taken(k) /\ Mark(k)' = Mark(k)
  BY <1>2, <1>3 DEF Taken, Mark
<1>5. Here'.phase = Here.phase /\ Here'.at = Here.at + 1
  BY <1>2 DEF Here, Last
<1>6. ASSUME NEW c
      PROVE  \A k \in 1 .. d : (Follows(c, k - 1)' <=> Follows(c, k - 1))
                               /\ (k \in 1 .. d - 1 \/ k = d)
  <2>1. \A k \in 1 .. d : Follows(c, k - 1)' <=> Follows(c, k - 1)
    BY <1>1, <1>4, FollowsSame
  <2>2. \A k \in 1 .. d : k \in 1 .. d - 1 \/ k = d
    BY <1>1
  <2> QED
    BY <2>1, <2>2
<1>7. ~(d < d) /\ \A k \in 1 .. d : k <= d
  BY <1>1
<1>8. ASSUME Here.phase = "imports", Statement.kind # "import", NEW n \in Nat, NEW c \in Chains(n)
      PROVE  Passed(c, n)' <=> Passed(c, n)
  <2>1. Mark(d) = Here.at /\ Mark(d)' = Here.at + 1
    BY <1>1, <1>2, <1>7, <1>8 DEF Mark
  <2>2. ASSUME Passed(c, n)' PROVE Passed(c, n)
    <3>1. PICK k \in 1 .. n : k <= d /\ Follows(c, k - 1)' /\ c[k][2] < Mark(k)'
      BY <1>2, <2>2 DEF Passed
    <3>2. k \in 1 .. d
      BY <1>1, <3>1
    <3>3. Follows(c, k - 1)
      BY <1>6, <3>1, <3>2
    <3>4. CASE k \in 1 .. d - 1
      BY <1>4, <3>1, <3>3, <3>4 DEF Passed
    <3>5. CASE k = d
      <4>1. /\ c[k][1] = LeadsTo(c, k - 1) /\ c[k][2] \in Nat
            /\ input[c[k][1]][c[k][2]].kind = "import"
        BY ChainPlaces DEF FramesOK
      <4>2. k <= n + 1
        OBVIOUS
      <4>3. c[k][1] = Here.file
        BY <1>1, <3>2, <3>3, <3>5, <4>1, <4>2, FollowsFiles
      <4>4. c[k][2] # Here.at
        BY <1>8, <4>1, <4>3 DEF Statement
      <4>5. c[k][2] < Here.at
        BY <1>1, <2>1, <3>1, <3>5, <4>1, <4>4
      <4> QED
        BY <2>1, <3>1, <3>3, <3>5, <4>5 DEF Passed
    <3> QED
      BY <1>6, <3>2, <3>4, <3>5
  <2>3. ASSUME Passed(c, n) PROVE Passed(c, n)'
    <3>1. PICK k \in 1 .. n : k <= d /\ Follows(c, k - 1) /\ c[k][2] < Mark(k)
      BY <2>3 DEF Passed
    <3>2. k \in 1 .. d /\ c[k][2] \in Nat
      BY <1>1, <3>1, ChainPlaces DEF FramesOK
    <3>3. Follows(c, k - 1)'
      BY <1>6, <3>1, <3>2
    <3>4. c[k][2] < Mark(k)'
      <4>1. CASE k \in 1 .. d - 1
        BY <1>4, <3>1, <4>1
      <4>2. CASE k = d
        BY <1>1, <2>1, <3>1, <3>2, <4>2
      <4> QED
        BY <1>6, <3>2, <4>1, <4>2
    <3> QED
      BY <1>2, <3>1, <3>3, <3>4 DEF Passed
  <2> QED
    BY <2>2, <2>3
<1>9. ASSUME Here.phase = "statements", NEW n \in Nat, NEW c \in Chains(n)
      PROVE  /\ Passed(c, n)' <=> Passed(c, n)
             /\ \A i \in Nat :
                  Met(c, n, i)' <=> \/ Met(c, n, i)
                                    \/ n = d - 1 /\ Follows(c, n) /\ i = Here.at
  <2>1. Mark(d)' = Mark(d)
    BY <1>1, <1>2, <1>7, <1>9 DEF Mark
  <2>2. \A k \in 1 .. d : (Follows(c, k - 1)' <=> Follows(c, k - 1)) /\ Mark(k)' = Mark(k)
    BY <1>4, <1>6, <2>1
  <2>3. \A k \in 1 .. n : k <= d => k \in 1 .. d
    BY <1>1
  <2>4. Passed(c, n)' <=> Passed(c, n)
    BY <1>2, <2>2, <2>3 DEF Passed
  <2>5. n = d - 1 => (Follows(c, n)' <=> Follows(c, n))
    <3>1. d \in 1 .. d
      BY <1>1
    <3> QED
      BY <1>6, <3>1
  <2>6. \A i \in Nat : i < Here.at + 1 <=> i < Here.at \/ i = Here.at
    BY <1>1
  <2> QED
    BY <1>2, <1>5, <1>9, <2>4, <2>5, <2>6 DEF Met
<1>10. Here.phase = "imports" => Here'.phase # "statements" /\ Here.phase # "statements"
  BY <1>5
<1> QED
  BY <1>8, <1>9, <1>10 DEF MetSame, Met

LEMMA EndedMet ==
  ASSUME FramesOK, UNCHANGED input, Here.phase = "imports",
         Here.at \notin DOMAIN input[Here.file], Ended
  PROVE  MetSame
<1>0. PICK d : d = Len(frames)
  OBVIOUS
<1> USE <1>0
<1>1. Here = frames[d] /\ d \in Nat \ {0}
  BY LastFrame
<1>2. /\ Len(frames') = d
      /\ \A k \in 1 .. d - 1 : frames'[k] = frames[k]
      /\ frames'[d].at = 1 /\ frames'[d].phase = "statements"
      /\ frames'[d].file = Here.file
      /\ Here.at = Len(input[Here.file]) + 1
  BY EndedIs, RecordFields
<1>3. \A k \in 1 .. d - 1 : k < d
  BY <1>1
<1>4. \A k \in 1 .. d - 1 : Taken(k)' = Taken(k) /\ Mark(k)' = Mark(k)
  BY <1>2, <1>3 DEF Taken, Mark
<1>5. Here'.at = 1
  BY <1>2 DEF Here, Last
<1>6. ~(d < d)
  BY <1>1
<1>7. Mark(d)' = Mark(d)
  BY <1>1, <1>2, <1>6 DEF Mark
<1> SUFFICES ASSUME NEW n \in Nat, NEW c \in Chains(n)
             PROVE  /\ Passed(c, n)' <=> Passed(c, n)
                    /\ \A i : TypeStatement(c, n, i) => (Met(c, n, i)' <=> Met(c, n, i))
  BY DEF MetSame
<1>8. \A k \in 1 .. d : k \in 1 .. d - 1 \/ k = d
  BY <1>1
<1>9. \A k \in 1 .. d : (Follows(c, k - 1)' <=> Follows(c, k - 1)) /\ Mark(k)' = Mark(k)
  BY <1>1, <1>4, <1>7, <1>8, FollowsSame
<1>10. \A k \in 1 .. n : k <= d => k \in 1 .. d
  BY <1>1
<1>11. Passed(c, n)' <=> Passed(c, n)
  BY <1>2, <1>9, <1>10 DEF Passed
<1>12. ASSUME NEW i, TypeStatement(c, n, i) PROVE ~(i < Here'.at)
  <2>1. i \in 1 .. Len(input[LeadsTo(c, n)]) /\ Len(input[LeadsTo(c, n)]) \in Nat
    BY <1>12, ChainEnds, FilesAreLists DEF TypeStatement, FramesOK
  <2> QED
    BY <1>5, <2>1
<1> QED
  BY <1>11, <1>12 DEF Met

LEMMA LeftMet ==
  ASSUME FramesOK, UNCHANGED input, Here.phase = "statements",
         Here.at \notin DOMAIN input[Here.file], Left, ~IsTop
  PROVE  MetSame
<1>0. PICK d : d = Len(frames)
  OBVIOUS
<1> USE <1>0
<1>1. /\ Here = frames[d] /\ d \in Nat /\ d > 1 /\ d <= MaxDepth /\ MaxDepth \in Nat
      /\ Len(input[Here.file]) \in Nat /\ Here.at = Len(input[Here.file]) + 1
      /\ d - 1 \in 1 .. d - 1 /\ d - 1 < d /\ ~(d < d) /\ d \in 1 .. d
      /\ DOMAIN input[Here.file] = 1 .. Len(input[Here.file])
  <2>1. /\ Here = frames[d] /\ d \in Nat /\ d > 1 /\ d <= MaxDepth /\ MaxDepth \in Nat
        /\ Len(input[Here.file]) \in Nat /\ Here.at \in Nat \ {0}
        /\ Here.at <= Len(input[Here.file]) + 1
        /\ DOMAIN input[Here.file] = 1 .. Len(input[Here.file])
    BY LastFrame, LeftIs
  <2>2. \A m \in Nat : m > 1 => /\ m - 1 \in 1 .. m - 1 /\ m - 1 < m /\ ~(m < m)
                                /\ m \in 1 .. m
    OBVIOUS
  <2>3. \A l \in Nat : \A at \in Nat \ {0} : at <= l + 1 /\ at \notin 1 .. l => at = l + 1
    OBVIOUS
  <2> QED
    BY <2>1, <2>2, <2>3
<1>2. /\ Len(frames') = d - 1
      /\ \A k \in 1 .. d - 1 : frames'[k] = frames[k]
  BY LeftIs
<1>3. frames[d - 1] \in FrameType /\ frames[d - 1].phase = "imports"
  BY <1>1 DEF FramesOK
<1>4. frames[d - 1].at \in Nat \ {0}
  BY <1>3 DEF FrameType
<1>5. \A k \in 1 .. d - 2 : k \in 1 .. d - 1 /\ k < d - 1 /\ k < d
  BY <1>1
<1>6. \A k \in 1 .. d - 1 : Taken(k)' = Taken(k)
  BY <1>2 DEF Taken
<1>7. \A k \in 1 .. d - 2 : Mark(k)' = Mark(k)
  BY <1>2, <1>5 DEF Mark
<1>8. ~(d - 1 < d - 1)
  BY <1>1
<1>9. /\ Mark(d - 1) = frames[d - 1].at - 1 /\ Mark(d - 1)' = frames[d - 1].at
      /\ Mark(d) = Len(input[Here.file]) + 1
  BY <1>1, <1>2, <1>3, <1>8 DEF Mark
<1>10. Here'.phase = "imports"
  BY <1>1, <1>2, <1>3 DEF Here, Last
<1> SUFFICES ASSUME NEW n \in Nat, NEW c \in Chains(n)
             PROVE  /\ Passed(c, n)' => Passed(c, n) \/ n < MaxDepth
                    /\ \A i : TypeStatement(c, n, i) => (Met(c, n, i)' <=> Met(c, n, i))
  BY DEF MetSame
<1>11. \A k \in 1 .. d : Follows(c, k - 1)' <=> Follows(c, k - 1)
  BY <1>1, <1>6, FollowsSame
<1>12. ASSUME d - 1 <= n, Follows(c, d - 1) PROVE Passed(c, n)'
  <2>1. d - 1 \in 1 .. n /\ d - 1 \in 1 .. d /\ \A j \in 1 .. (d - 1) - 1 : j \in 1 .. d - 1
    BY <1>1, <1>12
  <2>2. Follows(c, (d - 1) - 1)
    BY <1>12, <2>1 DEF Follows
  <2>3. c[d - 1] = Taken(d - 1)
    BY <1>1, <1>12 DEF Follows
  <2>4. c[d - 1][2] = frames[d - 1].at - 1
    BY <2>3 DEF Taken
  <2>5. c[d - 1][2] < Mark(d - 1)'
    BY <1>4, <1>9, <2>4
  <2>6. Follows(c, (d - 1) - 1)' /\ d - 1 <= Len(frames')
    BY <1>1, <1>2, <1>11, <2>1, <2>2
  <2> QED
    BY <2>1, <2>5, <2>6 DEF Passed
<1>13. ASSUME Passed(c, n) PROVE Passed(c, n)'
  <2>1. PICK k \in 1 .. n : k <= d /\ Follows(c, k - 1) /\ c[k][2] < Mark(k)
    BY <1>13 DEF Passed
  <2>2. c[k][2] \in Nat
    BY ChainPlaces DEF FramesOK
  <2>3. k \in 1 .. d /\ (k \in 1 .. d - 2 \/ k = d - 1 \/ k = d)
    BY <1>1, <2>1
  <2>4. CASE k = d
    <3>1. d - 1 <= n
      BY <1>1, <2>4
    <3> QED
      BY <1>12, <2>1, <2>4, <3>1
  <2>5. CASE k \in 1 .. d - 2
    BY <1>2, <1>5, <1>7, <1>11, <2>1, <2>3, <2>5 DEF Passed
  <2>6. CASE k = d - 1
    <3>1. c[k][2] < Mark(k)'
      BY <1>4, <1>9, <2>1, <2>2, <2>6
    <3>2. k <= Len(frames')
      BY <1>1, <1>2, <2>6
    <3> QED
      BY <1>11, <2>1, <2>3, <3>1, <3>2 DEF Passed
  <2> QED
    BY <2>3, <2>4, <2>5, <2>6
<1>14. ASSUME Passed(c, n)', ~Passed(c, n) PROVE d - 1 <= n /\ Follows(c, d - 1)
  <2>1. PICK k \in 1 .. n : k <= d - 1 /\ Follows(c, k - 1)' /\ c[k][2] < Mark(k)'
    BY <1>2, <1>14 DEF Passed
  <2>2. k \in 1 .. d /\ k <= d /\ k <= n + 1 /\ (k \in 1 .. d - 2 \/ k = d - 1)
    BY <1>1, <2>1
  <2>3. Follows(c, k - 1)
    BY <1>11, <2>1, <2>2
  <2>4. k = d - 1
    BY <1>7, <1>14, <2>1, <2>2, <2>3 DEF Passed
  <2>5. ~(c[k][2] < Mark(k))
    BY <1>14, <2>2, <2>3 DEF Passed
  <2>6. c[k] = <<c[k][1], c[k][2]>> /\ c[k][1] = LeadsTo(c, k - 1) /\ c[k][2] \in Nat
    BY ChainPlaces DEF FramesOK
  <2>7. c[k][1] = frames[k].file
    BY <2>2, <2>3, <2>6, FollowsFiles
  <2>8. c[k][2] = frames[k].at - 1
    BY <1>4, <1>9, <2>1, <2>4, <2>5, <2>6
  <2>9. c[k] = Taken(k)
    BY <2>6, <2>7, <2>8 DEF Taken
  <2>10. \A j \in 1 .. d - 1 : j = k \/ j \in 1 .. k - 1
    BY <1>1, <2>4
  <2>11. Follows(c, d - 1)
    BY <2>3, <2>9, <2>10 DEF Follows
  <2> QED
    BY <2>4, <2>11
<1>15. ASSUME d - 1 <= n, Follows(c, d - 1), n # d - 1 PROVE Passed(c, n)
  <2>1. d \in 1 .. n /\ d <= n + 1
    BY <1>1, <1>15
  <2>2. /\ c[d][1] = LeadsTo(c, d - 1) /\ c[d][2] \in 1 .. Len(input[c[d][1]])
        /\ Len(input[c[d][1]]) \in Nat
    BY <2>1, ChainPlaces DEF FramesOK
  <2>3. c[d][1] = Here.file
    <3>1. d \in 1 .. Len(frames) /\ Here = frames[d]
      BY <1>1
    <3>2. LeadsTo(c, d - 1) = frames[d].file
      BY <1>15, <2>1, <3>1, FollowsFiles
    <3> QED
      BY <2>2, <3>1, <3>2
  <2>4. c[d][2] < Mark(d)
    BY <1>9, <2>2, <2>3
  <2>5. d <= Len(frames)
    BY <1>1
  <2> QED
    BY <1>15, <2>1, <2>4, <2>5 DEF Passed
<1>16. n = d - 1 => n < MaxDepth
  BY <1>1
<1>17. Passed(c, n)' => Passed(c, n) \/ n < MaxDepth
  BY <1>14, <1>15, <1>16
<1>18. ASSUME NEW i, TypeStatement(c, n, i) PROVE Met(c, n, i)' <=> Met(c, n, i)
  <2>1. CASE n = d - 1 /\ Follows(c, n)
    <3>1. d - 1 <= n /\ d <= n + 1
      BY <1>1, <2>1
    <3>2. Passed(c, n)'
      BY <1>12, <2>1, <3>1
    <3>3. LeadsTo(c, n) = Here.file
      BY <1>1, <2>1, <3>1, FollowsFiles
    <3>4. i < Here.at
      BY <1>1, <1>18, <3>3 DEF TypeStatement
    <3> QED
      BY <2>1, <3>2, <3>4 DEF Met
  <2>2. CASE ~(n = d - 1 /\ Follows(c, n))
    BY <1>10, <1>13, <1>14, <1>15, <2>2 DEF Met
  <2> QED
    BY <2>1, <2>2
<1> QED
  BY <1>17, <1>18

-----------------------------------------------------------------------------
(* What the steps do to the table of types. *)
LEMMA SameChains ==
  ASSUME UNCHANGED input
  PROVE  \A n : /\ Chains(n)' = Chains(n)
                /\ \A c : LeadsTo(c, n)' = LeadsTo(c, n)
                /\ \A c, name : DefinedAlong(c, n, name)' = DefinedAlong(c, n, name)
<1>1. \A n, c : LeadsTo(c, n)' = LeadsTo(c, n)
  BY DEF LeadsTo
<1>2. ImportPlaces' = ImportPlaces
  BY DEF ImportPlaces
<1>3. \A n : Chains(n)' = Chains(n)
  BY <1>1, <1>2 DEF Chains
<1>4. \A n, c, name : DefinedAlong(c, n, name)' = DefinedAlong(c, n, name)
  BY <1>1 DEF DefinedAlong
<1> QED
  BY <1>1, <1>3, <1>4

LEMMA DefinedIsType ==
  ASSUME NEW c, NEW n, NEW name, NEW i \in DefinedAlong(c, n, name)
  PROVE  TypeStatement(c, n, i)
BY DEF DefinedAlong, TypeStatement

LEMMA TableStays ==
  ASSUME TableOK, UNCHANGED <<input, types>>, MetSame
  PROVE  TableOK'
<1>1. \A name : \A n \in Nat : \A c \in Chains(n) : \A i \in DefinedAlong(c, n, name) :
        Met(c, n, i)' <=> Met(c, n, i)
  BY DefinedIsType DEF MetSame
<1>2. \A n \in Nat : \A c \in Chains(n) : Passed(c, n)' => n < MaxDepth
  BY DEF MetSame, TableOK
<1>3. \A name : name \in DOMAIN types <=>
        \E n \in Nat : \E c \in Chains(n) : \E i \in DefinedAlong(c, n, name) : Met(c, n, i)'
  <2> TAKE name
  <2>1. (\E n \in Nat : \E c \in Chains(n) : \E i \in DefinedAlong(c, n, name) : Met(c, n, i)')
        <=> (\E n \in Nat : \E c \in Chains(n) : \E i \in DefinedAlong(c, n, name) : Met(c, n, i))
    BY <1>1
  <2> QED
    BY <2>1 DEF TableOK
<1>4. \A name : \A m, n \in Nat : \A b \in Chains(m), c \in Chains(n) :
        \A h \in DefinedAlong(b, m, name), i \in DefinedAlong(c, n, name) :
          Met(b, m, h)' /\ Met(c, n, i)' => m = n /\ b = c /\ h = i
  <2> SUFFICES ASSUME NEW name, NEW m \in Nat, NEW n \in Nat,
                      NEW b \in Chains(m), NEW c \in Chains(n),
                      NEW h \in DefinedAlong(b, m, name), NEW i \in DefinedAlong(c, n, name),
                      Met(b, m, h)', Met(c, n, i)'
               PROVE  m = n /\ b = c /\ h = i
    OBVIOUS
  <2>1. Met(b, m, h) /\ Met(c, n, i)
    BY <1>1
  <2> QED
    BY <2>1 DEF TableOK
<1> QED
  BY <1>2, <1>3, <1>4, SameChains DEF TableOK

(* The chain that the frames are at *)
Path == [k \in 1 .. Len(frames) - 1 |-> Taken(k)]

LEMMA PathIsChain ==
  ASSUME FramesOK
  PROVE  /\ Len(frames) - 1 \in Nat
         /\ Path \in Chains(Len(frames) - 1) /\ Follows(Path, Len(frames) - 1)
         /\ LeadsTo(Path, Len(frames) - 1) = Here.file
         /\ \A c \in Chains(Len(frames) - 1) : Follows(c, Len(frames) - 1) => c = Path
<1>0. PICK d : d = Len(frames)
  OBVIOUS
<1> USE <1>0
<1>1. d \in Nat \ {0} /\ Here = frames[d]
  BY LastFrame
<1>2. d - 1 \in Nat /\ d \in 1 .. d /\ d <= (d - 1) + 1
  BY <1>1
<1>3. \A k \in 1 .. d - 1 : k \in 1 .. d /\ k + 1 \in 1 .. d
  BY <1>1
<1>4. \A k \in 1 .. d : LeadsTo(Path, k - 1) = frames[k].file
  <2> TAKE k \in 1 .. d
  <2>1. CASE k = 1
    BY <2>1 DEF LeadsTo, FramesOK
  <2>2. CASE k # 1
    <3>1. k - 1 \in 1 .. d - 1 /\ k - 1 # 0 /\ (k - 1) + 1 = k
      BY <1>1, <2>2
    <3>2. Path[k - 1] = Taken(k - 1)
      BY <3>1 DEF Path
    <3>3. input[Taken(k - 1)[1]][Taken(k - 1)[2]].file = frames[k].file
      BY <3>1 DEF Taken, FramesOK
    <3> QED
      BY <3>1, <3>2, <3>3 DEF LeadsTo
  <2> QED
    BY <2>1, <2>2
<1>5. \A k \in 1 .. d - 1 : Taken(k) \in ImportPlaces
  <2> TAKE k \in 1 .. d - 1
  <2>1. /\ frames[k].at > 1 /\ input[frames[k].file][frames[k].at - 1].kind = "import"
        /\ input[frames[k].file][frames[k].at - 1].file = frames[k + 1].file
        /\ frames[k].at <= Len(input[frames[k].file]) + 1
    BY <1>3 DEF FramesOK
  <2>2. frames[k] \in FrameType /\ frames[k + 1] \in FrameType
    BY <1>3 DEF FramesOK
  <2>3. /\ frames[k].file \in DOMAIN input /\ frames[k].at \in Nat
        /\ frames[k + 1].file \in DOMAIN input
    BY <2>2 DEF FrameType
  <2>4. /\ Len(input[frames[k].file]) \in Nat
        /\ DOMAIN input[frames[k].file] = 1 .. Len(input[frames[k].file])
    BY <2>3, FilesAreLists DEF FramesOK
  <2>5. \A at, l \in Nat : at > 1 /\ at <= l + 1 => at - 1 \in 1 .. l
    OBVIOUS
  <2>6. frames[k].at - 1 \in DOMAIN input[frames[k].file]
    BY <2>1, <2>3, <2>4, <2>5
  <2> QED
    BY <2>1, <2>3, <2>6 DEF ImportPlaces, Taken
<1>6. Path \in [1 .. d - 1 -> ImportPlaces]
  BY <1>5 DEF Path
<1>7. \A k \in 1 .. d - 1 : Path[k] = Taken(k) /\ Path[k][1] = LeadsTo(Path, k - 1)
  BY <1>3, <1>4 DEF Path, Taken
<1>8. Path \in Chains(d - 1) /\ Follows(Path, d - 1)
  BY <1>6, <1>7 DEF Chains, Follows
<1>9. ASSUME NEW c \in Chains(d - 1), Follows(c, d - 1) PROVE c = Path
  <2>1. c \in [1 .. d - 1 -> ImportPlaces] /\ \A k \in 1 .. d - 1 : c[k] = Path[k]
    BY <1>7, <1>9 DEF Chains, Follows
  <2> QED
    BY <1>6, <2>1
<1> QED
  BY <1>1, <1>2, <1>4, <1>8, <1>9

(* A statement that is no type changes nothing. *)
LEMMA PassedOver ==
  ASSUME FramesOK, UNCHANGED input, frames' = Advanced, Here.at \in DOMAIN input[Here.file],
         Here.phase = "statements", Statement.kind \notin TypeKinds
  PROVE  MetSame
<1> SUFFICES ASSUME NEW n \in Nat, NEW c \in Chains(n)
             PROVE  /\ Passed(c, n)' => Passed(c, n)
                    /\ \A i : TypeStatement(c, n, i) => (Met(c, n, i)' <=> Met(c, n, i))
  BY DEF MetSame
<1>1. Passed(c, n)' <=> Passed(c, n)
  BY SteppedMet
<1>2. ASSUME NEW i, TypeStatement(c, n, i) PROVE Met(c, n, i)' <=> Met(c, n, i)
  <2>1. i \in Nat
    BY <1>2, ChainEnds DEF TypeStatement, FramesOK
  <2>2. Met(c, n, i)' <=> \/ Met(c, n, i)
                          \/ n = Len(frames) - 1 /\ Follows(c, n) /\ i = Here.at
    BY <2>1, SteppedMet
  <2>3. ~(n = Len(frames) - 1 /\ Follows(c, n) /\ i = Here.at)
    <3> SUFFICES ASSUME n = Len(frames) - 1, Follows(c, n), i = Here.at PROVE FALSE
      OBVIOUS
    <3>1. LeadsTo(c, n) = Here.file
      BY PathIsChain
    <3> QED
      BY <1>2, <3>1 DEF TypeStatement, Statement
  <2> QED
    BY <2>2, <2>3
<1> QED
  BY <1>1, <1>2

LEMMA TableGrows ==
  ASSUME FramesOK, TableOK, UNCHANGED input, frames' = Advanced,
         Here.at \in DOMAIN input[Here.file], Here.phase = "statements",
         Statement.kind \in TypeKinds, IsNew(TypeName(Statement)),
         DOMAIN types' = DOMAIN types \cup {TypeName(Statement)}
  PROVE  TableOK'
<1>0. PICK d, at, p, new : /\ d = Len(frames) - 1 /\ at = Here.at /\ p = Path
                           /\ new = TypeName(Statement)
  OBVIOUS
<1>1. d \in Nat /\ p \in Chains(d) /\ Follows(p, d) /\ LeadsTo(p, d) = Here.file
  BY <1>0, PathIsChain
<1>2. at \in DefinedAlong(p, d, new)
  BY <1>0, <1>1 DEF DefinedAlong, Statement
<1>3. \A name : at \in DefinedAlong(p, d, name) => name = new
  BY <1>0, <1>1 DEF DefinedAlong, Statement
<1>4. \A n \in Nat : \A c \in Chains(n) : \A name : \A i \in DefinedAlong(c, n, name) :
        Met(c, n, i)' <=> Met(c, n, i) \/ (n = d /\ c = p /\ i = at)
  <2> SUFFICES ASSUME NEW n \in Nat, NEW c \in Chains(n), NEW name,
                      NEW i \in DefinedAlong(c, n, name)
               PROVE  Met(c, n, i)' <=> Met(c, n, i) \/ (n = d /\ c = p /\ i = at)
    OBVIOUS
  <2>1. i \in Nat
    BY ChainEnds DEF DefinedAlong, FramesOK
  <2>2. Met(c, n, i)' <=> \/ Met(c, n, i)
                          \/ n = Len(frames) - 1 /\ Follows(c, n) /\ i = Here.at
    BY <2>1, SteppedMet
  <2>3. n = d /\ Follows(c, n) => c = p
    BY <1>0, PathIsChain
  <2> QED
    BY <1>0, <1>1, <2>2, <2>3
<1>5. ASSUME NEW n \in Nat, NEW c \in Chains(n), NEW i \in DefinedAlong(c, n, new)
      PROVE  ~Met(c, n, i)
  <2>1. new \notin DOMAIN types
    BY <1>0 DEF IsNew
  <2> QED
    BY <2>1 DEF TableOK
<1>6. \A n \in Nat : \A c \in Chains(n) : Passed(c, n)' => n < MaxDepth
  BY SteppedMet DEF TableOK
<1>7. ASSUME NEW name
      PROVE  name \in DOMAIN types' <=>
        \E n \in Nat : \E c \in Chains(n) : \E i \in DefinedAlong(c, n, name) : Met(c, n, i)'
  <2>1. CASE name = new
    <3>1. name \in DOMAIN types'
      BY <1>0, <2>1
    <3>2. Met(p, d, at)'
      BY <1>1, <1>2, <1>4
    <3> QED
      BY <1>1, <1>2, <2>1, <3>1, <3>2
  <2>2. CASE name # new
    <3>1. name \in DOMAIN types' <=> name \in DOMAIN types
      BY <1>0, <2>2
    <3>2. \A n \in Nat : \A c \in Chains(n) : \A i \in DefinedAlong(c, n, name) :
            Met(c, n, i)' <=> Met(c, n, i)
      BY <1>3, <1>4, <2>2
    <3>3. name \in DOMAIN types <=>
        \E n \in Nat : \E c \in Chains(n) : \E i \in DefinedAlong(c, n, name) : Met(c, n, i)
      BY DEF TableOK
    <3> QED
      BY <3>1, <3>2, <3>3
  <2> QED
    BY <2>1, <2>2
<1>8. ASSUME NEW name, NEW m \in Nat, NEW n \in Nat, NEW b \in Chains(m), NEW c \in Chains(n),
             NEW h \in DefinedAlong(b, m, name), NEW i \in DefinedAlong(c, n, name),
             Met(b, m, h)', Met(c, n, i)'
      PROVE  m = n /\ b = c /\ h = i
  <2>1. Met(b, m, h) \/ (m = d /\ b = p /\ h = at)
    BY <1>4, <1>8
  <2>2. Met(c, n, i) \/ (n = d /\ c = p /\ i = at)
    BY <1>4, <1>8
  <2>3. (m = d /\ b = p /\ h = at) \/ (n = d /\ c = p /\ i = at) => name = new
    BY <1>3
  <2>4. CASE name = new
    BY <1>5, <2>1, <2>2, <2>4
  <2>5. CASE name # new
    <3>1. Met(b, m, h) /\ Met(c, n, i)
      BY <2>1, <2>2, <2>3, <2>5
    <3> QED
      BY <3>1 DEF TableOK
  <2> QED
    BY <2>4, <2>5
<1> QED
  BY <1>6, <1>7, <1>8, SameChains DEF TableOK

-----------------------------------------------------------------------------
LEMMA ReadingInvInit == InitParser => ReadingInv
<1> SUFFICES ASSUME InitParser PROVE ReadingInv
  OBVIOUS
<1>1. /\ input \in Inputs /\ Len(frames) = 1 /\ frames[1] = Frame(Top) /\ types = <<>>
      /\ outcome = "running"
  BY DEF InitParser
<1>2. frames[1].file = Top /\ frames[1].phase = "imports" /\ frames[1].at = 1
  BY <1>1 DEF Frame
<1>3. Top \in DOMAIN input /\ Len(input[Top]) \in Nat /\ MaxDepth \in Nat \ {0}
  BY <1>1, FilesAreLists, ParserAssumption DEF ParserAssumption
<1>4. Frame(Top) \in FrameType
  BY <1>3 DEF Frame, FrameType
<1>5. frames \in Seq(FrameType)
  BY <1>4 DEF InitParser
<1>6. FramesOK
  BY <1>1, <1>2, <1>3, <1>5 DEF FramesOK
<1>7. Here.phase = "imports" /\ Mark(1) = 1
  BY <1>1, <1>2 DEF Here, Last, Mark
<1>8. ASSUME NEW n \in Nat, NEW c \in Chains(n) PROVE ~Passed(c, n)
  <2> SUFFICES ASSUME NEW k \in 1 .. n, k <= 1, c[k][2] < Mark(k) PROVE FALSE
    BY <1>1 DEF Passed
  <2>1. k = 1
    OBVIOUS
  <2>2. c[k][2] \in Nat \ {0}
    BY <1>1, ChainPlaces
  <2> QED
    BY <1>7, <2>1, <2>2
<1>9. \A n \in Nat : \A c \in Chains(n) : \A i : ~Met(c, n, i)
  BY <1>7, <1>8 DEF Met
<1>10. DOMAIN types = {}
  BY <1>1
<1>11. TableOK
  BY <1>8, <1>9, <1>10 DEF TableOK
<1> QED
  BY <1>1, <1>6, <1>11 DEF ReadingInv, Finished

LEMMA NothingMoved ==
  ASSUME UNCHANGED <<input, frames>>
  PROVE  MetSame
<1>1. \A k : Taken(k)' = Taken(k) /\ Mark(k)' = Mark(k)
  BY DEF Taken, Mark
<1>2. \A c, k : Follows(c, k)' <=> Follows(c, k)
  BY <1>1 DEF Follows
<1>3. \A c, n : Passed(c, n)' <=> Passed(c, n)
  BY <1>1, <1>2 DEF Passed
<1>4. Here' = Here
  BY DEF Here, Last
<1>5. \A c, n, i : Met(c, n, i)' <=> Met(c, n, i)
  BY <1>2, <1>3, <1>4 DEF Met
<1> QED
  BY <1>3, <1>5 DEF MetSame

LEMMA ReadingInvStep ==
  ASSUME ReadingInv, ParserNext \/ UNCHANGED parserVars
  PROVE  ReadingInv'
<1> USE DEF ReadingInv
<1>1. CASE UNCHANGED <<input, frames, types>> /\ outcome' # "accepted"
  <2>1. FramesOK'
    BY <1>1 DEF FramesOK, FrameType
  <2>2. MetSame
    BY <1>1, NothingMoved
  <2> QED
    BY <1>1, <2>1, <2>2, TableStays DEF Finished
<1>2. CASE UNCHANGED <<input, frames, types, outcome>>
  <2>1. FramesOK'
    BY <1>2 DEF FramesOK, FrameType
  <2>2. MetSame
    BY <1>2, NothingMoved
  <2>3. Finished'
    BY <1>2 DEF Finished, Here, Last
  <2> QED
    BY <1>2, <2>1, <2>2, <2>3, TableStays
<1>3. CASE EnterImport /\ UNCHANGED outcome
  <2>1. /\ Here.phase = "imports" /\ Here.at \in DOMAIN input[Here.file]
        /\ Statement.kind = "import" /\ outcome = "running"
    BY <1>3 DEF EnterImport, AtStatement
  <2>2. /\ Statement.file \in DOMAIN input /\ Len(frames) < MaxDepth
        /\ Entered /\ UNCHANGED <<input, types>>
    BY <1>3, <2>1 DEF EnterImport, Entered, Reject
  <2>3. FramesOK'
    BY <2>1, <2>2, EnteredFrames
  <2>4. MetSame
    BY <2>1, <2>2, EnteredMet
  <2> QED
    BY <1>3, <2>1, <2>2, <2>3, <2>4, TableStays DEF Finished
<1>4. CASE EndImports
  <2>1. /\ Here.phase = "imports" /\ Here.at \notin DOMAIN input[Here.file]
        /\ Ended /\ UNCHANGED <<input, types, outcome>> /\ outcome = "running"
    BY <1>4 DEF EndImports, AtEnd, Ended
  <2>2. FramesOK'
    BY <2>1, EndedFrames
  <2>3. MetSame
    BY <2>1, EndedMet
  <2> QED
    BY <2>1, <2>2, <2>3, TableStays DEF Finished
<1>5. CASE EndImport
  <2>1. /\ Here.phase = "statements" /\ Here.at \notin DOMAIN input[Here.file]
        /\ Left /\ ~IsTop /\ UNCHANGED <<input, types, outcome>> /\ outcome = "running"
    BY <1>5 DEF EndImport, AtEnd, Left
  <2>2. FramesOK'
    BY <2>1, LeftFrames
  <2>3. MetSame
    BY <2>1, LeftMet
  <2> QED
    BY <2>1, <2>2, <2>3, TableStays DEF Finished
<1>6. CASE PassBy
  <2>1. /\ Here.phase = "imports" /\ Here.at \in DOMAIN input[Here.file]
        /\ Statement.kind # "import" /\ frames' = Advanced
        /\ UNCHANGED <<input, types, outcome>> /\ outcome = "running"
    BY <1>6 DEF PassBy, AtStatement
  <2>2. FramesOK'
    BY <2>1, SteppedFrames
  <2>3. MetSame
    BY <2>1, SteppedMet
  <2> QED
    BY <2>1, <2>2, <2>3, TableStays DEF Finished
<1>7. CASE (Define \/ AddServices \/ SkipStatement) /\ UNCHANGED outcome
  <2>1. /\ Here.phase = "statements" /\ Here.at \in DOMAIN input[Here.file]
        /\ Statement.kind \notin TypeKinds /\ outcome = "running"
    BY <1>7 DEF Define, AddServices, SkipStatement, AtStatement, TypeKinds
  <2>2. frames' = Advanced /\ UNCHANGED <<input, types>>
    BY <1>7, <2>1 DEF Define, AddServices, SkipStatement, Reject
  <2>3. FramesOK'
    BY <2>1, <2>2, SteppedFrames
  <2>4. MetSame
    BY <2>1, <2>2, PassedOver
  <2> QED
    BY <1>7, <2>1, <2>2, <2>3, <2>4, TableStays DEF Finished
<1>8. CASE DefineType /\ UNCHANGED outcome
  <2>1. /\ Here.phase = "statements" /\ Here.at \in DOMAIN input[Here.file]
        /\ Statement.kind \in TypeKinds /\ outcome = "running"
    BY <1>8 DEF DefineType, AtStatement
  <2>2. /\ frames' = Advanced /\ UNCHANGED input /\ IsNew(TypeName(Statement))
        /\ types' = [t \in DOMAIN types \cup {TypeName(Statement)} |->
                       IF t = TypeName(Statement) THEN TypeVla(Statement, types) ELSE types[t]]
    BY <1>8, <2>1 DEF DefineType, Reject
  <2>3. DOMAIN types' = DOMAIN types \cup {TypeName(Statement)}
    BY <2>2
  <2>4. FramesOK'
    BY <2>1, <2>2, SteppedFrames
  <2>5. TableOK'
    BY <2>1, <2>2, <2>3, TableGrows
  <2> QED
    BY <1>8, <2>1, <2>4, <2>5 DEF Finished
<1>9. CASE Process /\ outcome' = "accepted"
  <2>1. /\ Here.phase = "statements" /\ Here.at \notin DOMAIN input[Here.file]
        /\ Len(frames) = 1 /\ UNCHANGED <<input, frames, types>>
    BY <1>9 DEF Process, AtEnd, IsTop, Reject
  <2>2. FramesOK'
    BY <2>1 DEF FramesOK, FrameType
  <2>3. MetSame
    BY <2>1, NothingMoved
  <2>4. Finished'
    BY <2>1 DEF Finished, Here, Last
  <2> QED
    BY <2>1, <2>2, <2>3, <2>4, TableStays
<1>10. UNCHANGED parserVars => UNCHANGED <<input, frames, types, outcome>>
  BY DEF parserVars
<1>11. EnterImport \/ Define \/ AddServices \/ SkipStatement \/ DefineType \/ Process =>
         \/ UNCHANGED outcome
         \/ Process /\ outcome' = "accepted"
         \/ UNCHANGED <<input, frames, types>> /\ outcome' # "accepted"
  BY DEF EnterImport, Define, AddServices, SkipStatement, DefineType, Process, Reject
<1>12. Process => outcome = "running" /\ outcome' # "running"
  BY DEF Process, AtEnd, Reject
<1> QED
  BY <1>1, <1>2, <1>3, <1>4, <1>5, <1>6, <1>7, <1>8, <1>9, <1>10, <1>11, <1>12
  DEF ParserNext

(* An API is accepted when all that its imports lead to was met. *)
LEMMA AcceptedIsRead ==
  ASSUME ReadingInv, outcome = "accepted", NEW n \in Nat, NEW c \in Chains(n)
  PROVE  /\ n > 0 => Passed(c, n)
         /\ n < MaxDepth
         /\ \A i : TypeStatement(c, n, i) => Met(c, n, i)
<1>1. /\ Len(frames) = 1 /\ Here = frames[1] /\ Here.phase = "statements"
      /\ Here.at = Len(input[Here.file]) + 1 /\ Here.file = Top
      /\ Len(input[Top]) \in Nat /\ DOMAIN input[Top] = 1 .. Len(input[Top])
  <2>1. /\ FramesOK /\ Len(frames) = 1 /\ Here.phase = "statements"
        /\ Here.at \notin DOMAIN input[Here.file]
    BY DEF ReadingInv, Finished
  <2>2. /\ Here = frames[1] /\ Here.at \in Nat \ {0} /\ Len(input[Here.file]) \in Nat
        /\ Here.at <= Len(input[Here.file]) + 1
        /\ DOMAIN input[Here.file] = 1 .. Len(input[Here.file])
    BY <2>1, LastFrame
  <2>3. \A l \in Nat : \A at \in Nat \ {0} : at <= l + 1 /\ at \notin 1 .. l => at = l + 1
    OBVIOUS
  <2>4. Here.file = Top
    BY <2>1, <2>2 DEF FramesOK
  <2> QED
    BY <2>1, <2>2, <2>3, <2>4
<1>2. Mark(1) = Len(input[Top]) + 1
  BY <1>1 DEF Mark
<1>3. MaxDepth \in Nat \ {0}
  BY ParserAssumption DEF ParserAssumption
<1>4. ASSUME n > 0 PROVE Passed(c, n)
  <2>1. 1 \in 1 .. n /\ 1 - 1 = 0
    BY <1>4
  <2>2. c[1][1] = LeadsTo(c, 0) /\ c[1][2] \in 1 .. Len(input[c[1][1]])
    BY <2>1, ChainPlaces DEF ReadingInv, FramesOK
  <2>3. c[1][2] < Mark(1)
    BY <1>1, <1>2, <2>2 DEF LeadsTo
  <2>4. Follows(c, 1 - 1)
    BY DEF Follows
  <2> QED
    BY <1>1, <2>1, <2>3, <2>4 DEF Passed
<1>5. n < MaxDepth
  BY <1>3, <1>4 DEF ReadingInv, TableOK
<1>6. ASSUME NEW i, TypeStatement(c, n, i) PROVE Met(c, n, i)
  <2>1. CASE n > 0
    BY <1>4, <2>1 DEF Met
  <2>2. CASE n = 0
    <3>1. i \in 1 .. Len(input[Top])
      BY <1>1, <1>6, <2>2 DEF TypeStatement, LeadsTo
    <3>2. i < Here.at /\ n = Len(frames) - 1
      BY <1>1, <2>2, <3>1
    <3>3. Follows(c, n)
      BY <2>2 DEF Follows
    <3> QED
      BY <1>1, <3>2, <3>3 DEF Met
  <2> QED
    BY <2>1, <2>2
<1> QED
  BY <1>4, <1>5, <1>6

LEMMA ReadingGivesOneDefinition == ReadingInv => OneDefinitionEach
<1> SUFFICES ASSUME ReadingInv, outcome = "accepted", NEW t \in TypeNames
             PROVE  Cardinality(Definitions(t)) = (IF t \in DOMAIN types THEN 1 ELSE 0)
  <2>1. MaxDepth \in Nat /\ ~(MaxDepth < MaxDepth)
    BY ParserAssumption DEF ParserAssumption
  <2>2. ReadingInv /\ outcome = "accepted" => Chains(MaxDepth) = {}
    BY <2>1, AcceptedIsRead
  <2> QED
    BY <2>2 DEF OneDefinitionEach
<1>1. ASSUME NEW e \in Definitions(t)
      PROVE  \E n \in Nat : \E c \in Chains(n) : \E i \in DefinedAlong(c, n, t) :
               e = <<c, i>> /\ Met(c, n, i)
  <2>1. PICK n \in 0 .. MaxDepth - 1 :
               e \in UNION {{c} \X DefinedAlong(c, n, t) : c \in Chains(n)}
    BY DEF Definitions
  <2>2. PICK c \in Chains(n) : e \in {c} \X DefinedAlong(c, n, t)
    BY <2>1
  <2>3. PICK i \in DefinedAlong(c, n, t) : e = <<c, i>>
    BY <2>2
  <2>4. n \in Nat
    BY ParserAssumption DEF ParserAssumption
  <2>5. Met(c, n, i)
    BY <2>4, AcceptedIsRead, DefinedIsType
  <2> QED
    BY <2>3, <2>4, <2>5
<1>2. CASE t \in DOMAIN types
  <2>1. PICK n \in Nat : \E c \in Chains(n) : \E i \in DefinedAlong(c, n, t) : Met(c, n, i)
    BY <1>2 DEF ReadingInv, TableOK
  <2>2. PICK c \in Chains(n) : \E i \in DefinedAlong(c, n, t) : Met(c, n, i)
    BY <2>1
  <2>3. PICK i \in DefinedAlong(c, n, t) : Met(c, n, i)
    BY <2>2
  <2>4. n \in 0 .. MaxDepth - 1
    <3>1. n < MaxDepth /\ MaxDepth \in Nat
      BY AcceptedIsRead, ParserAssumption DEF ParserAssumption
    <3> QED
      BY <3>1
  <2>5. <<c, i>> \in Definitions(t)
    BY <2>4 DEF Definitions
  <2>6. ASSUME NEW e \in Definitions(t) PROVE e = <<c, i>>
    <3>1. PICK m \in Nat : \E b \in Chains(m) : \E h \in DefinedAlong(b, m, t) :
                 e = <<b, h>> /\ Met(b, m, h)
      BY <1>1
    <3>2. PICK b \in Chains(m) : \E h \in DefinedAlong(b, m, t) :
                 e = <<b, h>> /\ Met(b, m, h)
      BY <3>1
    <3>3. PICK h \in DefinedAlong(b, m, t) : e = <<b, h>> /\ Met(b, m, h)
      BY <3>2
    <3>4. m = n /\ b = c /\ h = i
      BY <2>3, <3>3 DEF ReadingInv, TableOK
    <3> QED
      BY <3>3, <3>4
  <2>7. Definitions(t) = {<<c, i>>}
    BY <2>5, <2>6
  <2> QED
    BY <1>2, <2>7, FS_Singleton
<1>3. CASE t \notin DOMAIN types
  <2>1. Definitions(t) = {}
    BY <1>1, <1>3 DEF ReadingInv, TableOK
  <2> QED
    BY <1>3, <2>1, FS_EmptySet
<1> QED
  BY <1>2, <1>3

LEMMA ParserStep == [Next]_vars => ParserNext \/ UNCHANGED parserVars
BY DEF Next, vars

(* Whatever the files import, in an API that is accepted each type of the   *)
(* table comes from one statement along one chain of imports, and no chain  *)
(* reaches the end of the stack: do_imports remembers no file it read, and  *)
(* the error of the second insertion in process_statements is enough.       *)
THEOREM OneDefinitionForEachType == Spec => []OneDefinitionEach
<1>1. Init => ReadingInv
  BY ReadingInvInit DEF Init
<1>2. ReadingInv /\ [Next]_vars => ReadingInv'
  BY ReadingInvStep, ParserStep
<1> QED
  BY <1>1, <1>2, ReadingGivesOneDefinition, PTL DEF Spec

-----------------------------------------------------------------------------
(* The services that are made up, message by message *)
LEMMA Least ==
  ASSUME NEW T \in SUBSET Nat, T # {}
  PROVE  \E x \in T : \A y \in T : x <= y
<1>1. PICK x \in T : \A y \in T : ~ (<<y, x>> \in OpToRel(<, Nat))
  BY NatLessThanWellFounded, WFMin
<1>2. \A y \in T : ~ (y < x)
  BY <1>1 DEF OpToRel
<1>3. \A y \in T : x \in Nat /\ y \in Nat
  OBVIOUS
<1>4. \A y, z \in Nat : ~ (y < z) => z <= y
  OBVIOUS
<1> QED
  BY <1>2, <1>3, <1>4

WithImplicit(m, svcs, s) ==
  IF NeedsService(m.name, svcs) THEN Append(s, ImplicitService(m)) ELSE s

IsAfter(msgs, svcs, m, f) ==
  f = [n \in 0 .. m |-> IF n = 0 THEN svcs ELSE WithImplicit(msgs[n], svcs, f[n - 1])]

LEMMA AfterExists ==
  ASSUME NEW msgs, NEW svcs, NEW l \in Nat
  PROVE  \E f : IsAfter(msgs, svcs, l, f)
<1> DEFINE Bad == {m \in Nat : ~ \E f : IsAfter(msgs, svcs, m, f)}
<1>1. SUFFICES ASSUME Bad # {} PROVE FALSE
  OBVIOUS
<1>2. PICK m \in Bad : \A y \in Bad : m <= y
  BY <1>1, Least
<1>3. CASE m = 0
  <2> DEFINE f == [n \in 0 .. 0 |-> svcs]
  <2>1. \A n \in 0 .. 0 : n = 0
    OBVIOUS
  <2>2. IsAfter(msgs, svcs, 0, f)
    BY <2>1 DEF IsAfter
  <2> QED
    BY <1>2, <1>3, <2>2
<1>4. CASE m # 0
  <2>1. m - 1 \in Nat /\ ~(m <= m - 1) /\ m \in 0 .. m /\ m \in Nat
    BY <1>2, <1>4
  <2>2. PICK f : IsAfter(msgs, svcs, m - 1, f)
    BY <1>2, <2>1
  <2> DEFINE g == [n \in 0 .. m |-> IF n = m THEN WithImplicit(msgs[m], svcs, f[m - 1]) ELSE f[n]]
  <2>3. \A n \in 0 .. m : n # m => n \in 0 .. m - 1
    BY <2>1
  <2>4. \A n \in 0 .. m : n # 0 => n - 1 \in 0 .. m /\ n - 1 # m
    BY <2>1
  <2>5. \A n \in 0 .. m - 1 :
          f[n] = IF n = 0 THEN svcs ELSE WithImplicit(msgs[n], svcs, f[n - 1])
    BY <2>2 DEF IsAfter
  <2>6. \A n \in 0 .. m : g[n] = IF n = 0 THEN svcs ELSE WithImplicit(msgs[n], svcs, g[n - 1])
    <3> TAKE n \in 0 .. m
    <3>1. n # 0 => g[n - 1] = f[n - 1]
      BY <2>4
    <3>2. g[n] = IF n = m THEN WithImplicit(msgs[m], svcs, f[m - 1]) ELSE f[n]
      OBVIOUS
    <3> HIDE DEF g
    <3> QED
      BY <1>4, <2>3, <2>5, <3>1, <3>2
  <2>7. IsAfter(msgs, svcs, m, g)
    <3>1. g = [n \in 0 .. m |-> g[n]]
      OBVIOUS
    <3> HIDE DEF g
    <3> QED
      BY <2>6, <3>1 DEF IsAfter
  <2> QED
    BY <1>2, <2>7
<1> QED
  BY <1>3, <1>4

LEMMA CompletedIs ==
  ASSUME NEW msgs, NEW svcs, Len(msgs) \in Nat
  PROVE  \E f : IsAfter(msgs, svcs, Len(msgs), f) /\ Completed(msgs, svcs) = f[Len(msgs)]
<1> DEFINE Body(f) == [n \in 0 .. Len(msgs) |->
                         IF n = 0 THEN svcs
                         ELSE IF NeedsService(msgs[n].name, svcs)
                         THEN Append(f[n - 1], ImplicitService(msgs[n]))
                         ELSE f[n - 1]]
           chosen == CHOOSE f : f = Body(f)
<1>1. \A f : IsAfter(msgs, svcs, Len(msgs), f) <=> f = Body(f)
  BY DEF IsAfter, WithImplicit
<1>2. \E f : f = Body(f)
  <2>1. \E f : IsAfter(msgs, svcs, Len(msgs), f)
    BY AfterExists
  <2> HIDE DEF Body
  <2> QED
    BY <1>1, <2>1
<1>3. Completed(msgs, svcs) = chosen[Len(msgs)]
  BY DEF Completed
<1>4. chosen = Body(chosen)
  <2> HIDE DEF Body
  <2> QED
    BY <1>2
<1> HIDE DEF chosen, Body
<1> QED
  BY <1>1, <1>3, <1>4

OwnNames(msgs) == Distinct([i \in DOMAIN msgs |-> msgs[i].name])

MadeUp(msgs, svcs, n, v) ==
  \E k \in 1 .. n : NeedsService(msgs[k].name, svcs) /\ v = ImplicitService(msgs[k])

(* What the services are like after n messages *)
Filled(msgs, svcs, n, s) ==
  /\ s \in Seq(ToSet(svcs) \cup {ImplicitService(m) : m \in ToSet(msgs)})
  /\ \A i \in DOMAIN s : s[i] \in ToSet(svcs) \/ MadeUp(msgs, svcs, n, s[i])
  /\ \A v : v \in ToSet(svcs) \/ MadeUp(msgs, svcs, n, v) => v \in ToSet(s)
  /\ OwnNames(msgs) /\ Distinct(CallerList(svcs)) => Distinct(CallerList(s))

LEMMA ImplicitCaller ==
  ASSUME NEW m
  PROVE  ImplicitService(m).caller = m.name
BY DEF ImplicitService

LEMMA AppendedIs ==
  ASSUME NEW T, NEW s \in Seq(T), NEW v
  PROVE  /\ Append(s, v) \in Seq(T \cup {v}) /\ Len(Append(s, v)) = Len(s) + 1
         /\ DOMAIN Append(s, v) = 1 .. Len(s) + 1 /\ DOMAIN s = 1 .. Len(s)
         /\ Len(s) \in Nat
         /\ \A i \in 1 .. Len(s) : Append(s, v)[i] = s[i]
         /\ Append(s, v)[Len(s) + 1] = v
<1>1. /\ Append(s, v) \in Seq(T \cup {v}) /\ Len(Append(s, v)) = Len(s) + 1
      /\ DOMAIN Append(s, v) = 1 .. Len(s) + 1 /\ DOMAIN s = 1 .. Len(s)
      /\ Len(s) \in Nat
  <2>1. s \in Seq(T \cup {v}) /\ v \in T \cup {v}
    OBVIOUS
  <2> QED
    BY <2>1
<1>2. /\ \A i \in 1 .. Len(s) : Append(s, v)[i] = s[i]
      /\ Append(s, v)[Len(s) + 1] = v
  OBVIOUS
<1> QED
  BY <1>1, <1>2

LEMMA AppendedSet ==
  ASSUME NEW T, NEW s \in Seq(T), NEW v, NEW t, t = Append(s, v)
  PROVE  ToSet(t) = ToSet(s) \cup {v}
<1>1. /\ DOMAIN t = 1 .. Len(s) + 1 /\ DOMAIN s = 1 .. Len(s) /\ Len(s) \in Nat
      /\ \A i \in 1 .. Len(s) : t[i] = s[i]
      /\ t[Len(s) + 1] = v
  BY AppendedIs
<1>2. \A i \in 1 .. Len(s) + 1 : i \in 1 .. Len(s) \/ i = Len(s) + 1
  BY <1>1
<1>3. (\A i \in 1 .. Len(s) : i \in 1 .. Len(s) + 1) /\ Len(s) + 1 \in 1 .. Len(s) + 1
  BY <1>1
<1> QED
  BY <1>1, <1>2, <1>3 DEF ToSet

LEMMA CallersDiffer ==
  ASSUME NEW T, NEW s \in Seq(T), NEW v, Distinct(CallerList(s)),
         \A i \in DOMAIN s : s[i].caller # v.caller
  PROVE  Distinct(CallerList(Append(s, v)))
<1>1. PICK t : t = Append(s, v)
  OBVIOUS
<1>2. /\ DOMAIN t = 1 .. Len(s) + 1 /\ DOMAIN s = 1 .. Len(s) /\ Len(s) \in Nat
      /\ \A i \in 1 .. Len(s) : t[i] = s[i]
      /\ t[Len(s) + 1] = v
  BY <1>1, AppendedIs
<1>3. \A i \in 1 .. Len(s) + 1 : i \in 1 .. Len(s) \/ i = Len(s) + 1
  BY <1>2
<1>4. \A i, j \in 1 .. Len(s) : i # j => s[i].caller # s[j].caller
  BY <1>2 DEF Distinct, CallerList
<1>5. \A i, j \in 1 .. Len(s) + 1 : i # j => t[i].caller # t[j].caller
  BY <1>2, <1>3, <1>4
<1>6. Distinct(CallerList(t))
  BY <1>2, <1>5 DEF Distinct, CallerList
<1> QED
  BY <1>1, <1>6

LEMMA FilledMore ==
  ASSUME NEW M, NEW msgs \in Seq(M), NEW svcs, NEW n \in 1 .. Len(msgs), NEW s,
         Filled(msgs, svcs, n - 1, s)
  PROVE  Filled(msgs, svcs, n, WithImplicit(msgs[n], svcs, s))
<1> DEFINE T == ToSet(svcs) \cup {ImplicitService(m) : m \in ToSet(msgs)}
<1>1. s \in Seq(T)
  BY DEF Filled
<1>2. /\ msgs[n] \in ToSet(msgs) /\ n \in DOMAIN msgs
      /\ \A k \in 1 .. n : k \in DOMAIN msgs /\ (k = n \/ k \in 1 .. n - 1)
      /\ \A k \in 1 .. n - 1 : k \in 1 .. n /\ k # n
      /\ n \in 1 .. n
  BY DEF ToSet
<1>3. \A v : MadeUp(msgs, svcs, n, v) <=>
        \/ MadeUp(msgs, svcs, n - 1, v)
        \/ NeedsService(msgs[n].name, svcs) /\ v = ImplicitService(msgs[n])
  BY <1>2 DEF MadeUp
<1>4. CASE ~NeedsService(msgs[n].name, svcs)
  BY <1>3, <1>4 DEF Filled, WithImplicit
<1>5. CASE NeedsService(msgs[n].name, svcs)
  <2>1. PICK v : v = ImplicitService(msgs[n])
    OBVIOUS
  <2>2. PICK t : t = Append(s, v)
    OBVIOUS
  <2>3. v \in T /\ v.caller = msgs[n].name
    BY <1>2, <2>1, ImplicitCaller
  <2>4. /\ DOMAIN t = 1 .. Len(s) + 1 /\ DOMAIN s = 1 .. Len(s) /\ Len(s) \in Nat
        /\ \A i \in 1 .. Len(s) : t[i] = s[i]
        /\ t[Len(s) + 1] = v /\ ToSet(t) = ToSet(s) \cup {v}
    <3>1. PICK U : U = T
      OBVIOUS
    <3>2. s \in Seq(U)
      BY <1>1, <3>1
    <3>3. /\ DOMAIN t = 1 .. Len(s) + 1 /\ DOMAIN s = 1 .. Len(s)
          /\ Len(s) \in Nat
          /\ \A i \in 1 .. Len(s) : t[i] = s[i]
          /\ t[Len(s) + 1] = v
      BY <2>2, <3>2, AppendedIs
    <3>4. ToSet(t) = ToSet(s) \cup {v}
      BY <2>2, <3>2, AppendedSet
    <3> QED
      BY <2>2, <3>3, <3>4
  <2>5. t \in Seq(T)
    <3>1. PICK U : U = T
      OBVIOUS
    <3>2. s \in Seq(U) /\ v \in U
      BY <1>1, <2>3, <3>1
    <3>3. t \in Seq(U)
      BY <2>2, <3>2
    <3> QED
      BY <3>1, <3>3
  <2>6. \A i \in DOMAIN t : t[i] \in ToSet(svcs) \/ MadeUp(msgs, svcs, n, t[i])
    <3> TAKE i \in DOMAIN t
    <3>1. i \in 1 .. Len(s) \/ i = Len(s) + 1
      BY <2>4
    <3>2. CASE i \in 1 .. Len(s)
      BY <1>3, <2>4, <3>2 DEF Filled
    <3>3. CASE i = Len(s) + 1
      BY <1>3, <1>5, <2>1, <2>4, <3>3
    <3> QED
      BY <3>1, <3>2, <3>3
  <2>7. \A w : w \in ToSet(svcs) \/ MadeUp(msgs, svcs, n, w) => w \in ToSet(t)
    BY <1>3, <2>1, <2>4 DEF Filled
  <2>8. ASSUME OwnNames(msgs), Distinct(CallerList(svcs)) PROVE Distinct(CallerList(t))
    <3>1. ASSUME NEW i \in DOMAIN s PROVE s[i].caller # v.caller
      <4>1. CASE s[i] \in ToSet(svcs)
        <5>1. s[i].caller \in Callers(svcs)
          BY <4>1 DEF Callers
        <5> QED
          BY <1>5, <2>3, <5>1 DEF NeedsService
      <4>2. CASE MadeUp(msgs, svcs, n - 1, s[i])
        <5>1. PICK k \in 1 .. n - 1 : s[i] = ImplicitService(msgs[k])
          BY <4>2 DEF MadeUp
        <5>2. s[i].caller = msgs[k].name
          BY <5>1, ImplicitCaller
        <5>3. msgs[k].name # msgs[n].name
          BY <1>2, <2>8 DEF OwnNames, Distinct
        <5> QED
          BY <2>3, <5>2, <5>3
      <4> QED
        BY <4>1, <4>2 DEF Filled
    <3>2. Distinct(CallerList(s))
      BY <2>8 DEF Filled
    <3> QED
      BY <1>1, <2>2, <3>1, <3>2, CallersDiffer
  <2> QED
    BY <1>5, <2>1, <2>2, <2>5, <2>6, <2>7, <2>8 DEF Filled, WithImplicit
<1> QED
  BY <1>4, <1>5

LEMMA CompletedFilled ==
  ASSUME NEW M, NEW msgs \in Seq(M), NEW svcs, svcs \in Seq(ToSet(svcs))
  PROVE  Filled(msgs, svcs, Len(msgs), Completed(msgs, svcs))
<1>1. Len(msgs) \in Nat
  OBVIOUS
<1>2. PICK f : IsAfter(msgs, svcs, Len(msgs), f) /\ Completed(msgs, svcs) = f[Len(msgs)]
  BY <1>1, CompletedIs
<1> DEFINE Bad == {m \in 0 .. Len(msgs) : ~Filled(msgs, svcs, m, f[m])}
<1>3. SUFFICES ASSUME Bad # {} PROVE FALSE
  <2>1. Len(msgs) \in 0 .. Len(msgs)
    BY <1>1
  <2> QED
    BY <1>2, <2>1
<1>4. PICK m \in Bad : \A y \in Bad : m <= y
  <2>1. Bad \in SUBSET Nat
    BY <1>1
  <2> HIDE DEF Bad
  <2> QED
    BY <1>3, <2>1, Least
<1>5. m \in 0 .. Len(msgs) /\ ~Filled(msgs, svcs, m, f[m])
  OBVIOUS
<1>6. CASE m = 0
  <2>1. f[0] = svcs
    BY <1>1, <1>2 DEF IsAfter
  <2>2. \A v : ~MadeUp(msgs, svcs, 0, v)
    BY DEF MadeUp
  <2>3. svcs \in Seq(ToSet(svcs) \cup {ImplicitService(x) : x \in ToSet(msgs)})
    <3>1. PICK U : U = ToSet(svcs) \cup {ImplicitService(x) : x \in ToSet(msgs)}
      OBVIOUS
    <3>2. ToSet(svcs) \subseteq U
      BY <3>1
    <3>3. svcs \in Seq(U)
      BY <3>2
    <3> QED
      BY <3>1, <3>3
  <2>4. \A i \in DOMAIN svcs : svcs[i] \in ToSet(svcs)
    BY DEF ToSet
  <2>5. Filled(msgs, svcs, 0, svcs)
    BY <2>2, <2>3, <2>4 DEF Filled
  <2> QED
    BY <1>5, <1>6, <2>1, <2>5
<1>7. CASE m # 0
  <2>1. m \in 1 .. Len(msgs) /\ m - 1 \in 0 .. Len(msgs) /\ ~(m <= m - 1)
    BY <1>1, <1>5, <1>7
  <2>2. Filled(msgs, svcs, m - 1, f[m - 1])
    BY <1>4, <2>1
  <2>3. f[m] = WithImplicit(msgs[m], svcs, f[m - 1])
    BY <1>2, <1>5, <1>7 DEF IsAfter
  <2> QED
    BY <1>5, <2>1, <2>2, <2>3, FilledMore
<1> QED
  BY <1>6, <1>7

LEMMA AllEffective ==
  ASSUME NEW T, NEW s \in Seq(T), Distinct(CallerList(s))
  PROVE  Effective(s) = ToSet(s)
<1>1. \A i, j \in DOMAIN s : i # j => s[i].caller # s[j].caller
  BY DEF Distinct, CallerList
<1>2. \A j, k \in DOMAIN s : k > j => s[k].caller # s[j].caller
  <2> SUFFICES ASSUME NEW j \in DOMAIN s, NEW k \in DOMAIN s, k > j, s[k].caller = s[j].caller
               PROVE  FALSE
    OBVIOUS
  <2>1. k = j
    BY <1>1
  <2>2. j \in Nat
    OBVIOUS
  <2> QED
    BY <2>1, <2>2
<1> QED
  BY <1>2 DEF Effective, ToSet

(* EveryRequestHasOneService, of any messages and services *)
EveryoneServed(msgs, s) ==
  /\ Distinct(CallerList(s))
  /\ \A n \in Names(msgs) :
       n \in Seen(s) \/ Ends(n, "reply") \/ Ends(n, "details") \/ n \in Callers(s)
  /\ \A x \in ToSet(s) : /\ x.caller \in Names(msgs)
                         /\ x.reply \in Names(msgs) \cup {Null}

LEMMA CompletedServes ==
  ASSUME NEW M, NEW msgs \in Seq(M), NEW svcs, svcs \in Seq(ToSet(svcs)), NEW s,
         OwnNames(msgs), Distinct(CallerList(svcs)), ServicesDefined(msgs, svcs),
         \A n \in Names(msgs) \ Seen(svcs) : Paired(n, msgs, svcs),
         Filled(msgs, svcs, Len(msgs), s)
  PROVE  EveryoneServed(msgs, s)
<1>1. Distinct(CallerList(s))
  BY DEF Filled
<1>2. Effective(s) = ToSet(s) /\ Effective(svcs) = ToSet(svcs)
  <2>1. PICK T : T = ToSet(svcs) \cup {ImplicitService(m) : m \in ToSet(msgs)}
    OBVIOUS
  <2>2. s \in Seq(T)
    BY <2>1 DEF Filled
  <2>3. PICK S : S = ToSet(svcs)
    OBVIOUS
  <2>4. svcs \in Seq(S)
    BY <2>3
  <2> QED
    BY <1>1, <2>2, <2>4, AllEffective
<1>3. ToSet(svcs) \subseteq ToSet(s)
  BY DEF Filled
<1>4. Seen(svcs) \subseteq Seen(s) /\ Callers(svcs) \subseteq Callers(s)
  BY <1>2, <1>3 DEF Seen, Callers
<1>5. ASSUME NEW n \in Names(msgs)
      PROVE  n \in Seen(s) \/ Ends(n, "reply") \/ Ends(n, "details") \/ n \in Callers(s)
  <2>1. CASE ~NeedsService(n, svcs)
    BY <1>4, <2>1 DEF NeedsService
  <2>2. CASE NeedsService(n, svcs)
    <3>1. PICK m \in ToSet(msgs) : m.name = n
      BY DEF Names
    <3>2. PICK k \in DOMAIN msgs : m = msgs[k]
      BY <3>1 DEF ToSet
    <3>3. k \in 1 .. Len(msgs)
      BY <3>2
    <3>4. MadeUp(msgs, svcs, Len(msgs), ImplicitService(m))
      BY <2>2, <3>1, <3>2, <3>3 DEF MadeUp
    <3>5. ImplicitService(m) \in ToSet(s)
      BY <3>4 DEF Filled
    <3>6. n \in Callers(s)
      BY <3>1, <3>5, ImplicitCaller DEF Callers
    <3> QED
      BY <3>6
  <2> QED
    BY <2>1, <2>2
<1>6. ASSUME NEW x \in ToSet(s)
      PROVE  x.caller \in Names(msgs) /\ x.reply \in Names(msgs) \cup {Null}
  <2>1. x \in ToSet(svcs) \/ MadeUp(msgs, svcs, Len(msgs), x)
    BY DEF Filled, ToSet
  <2>2. CASE x \in ToSet(svcs)
    BY <1>2, <2>2 DEF ServicesDefined
  <2>3. CASE MadeUp(msgs, svcs, Len(msgs), x)
    <3>1. PICK k \in 1 .. Len(msgs) :
                 NeedsService(msgs[k].name, svcs) /\ x = ImplicitService(msgs[k])
      BY <2>3 DEF MadeUp
    <3>2. PICK n : n = msgs[k].name
      OBVIOUS
    <3>3. n \in Names(msgs)
      BY <3>1, <3>2 DEF Names, ToSet
    <3>4. /\ x.caller = n
          /\ x.reply = IF Ends(n, "dump") THEN Append(Base(n), "details")
                       ELSE Append(n, "reply")
      BY <3>1, <3>2 DEF ImplicitService
    <3>5. /\ ~Ends(n, "reply") /\ ~Ends(n, "details") /\ n \notin Callers(svcs)
          /\ Paired(n, msgs, svcs)
      BY <3>1, <3>2, <3>3 DEF NeedsService
    <3>6. CASE Ends(n, "dump")
      <4>1. Append(Base(n), "details") \in Names(msgs)
        BY <3>5, <3>6 DEF Paired
      <4> QED
        BY <3>3, <3>4, <3>6, <4>1
    <3>7. CASE ~Ends(n, "dump")
      <4>1. Append(n, "reply") \in Names(msgs)
        BY <3>5, <3>7 DEF Paired
      <4> QED
        BY <3>3, <3>4, <3>7, <4>1
    <3> QED
      BY <3>6, <3>7
  <2> QED
    BY <2>1, <2>2, <2>3
<1> QED
  BY <1>1, <1>5, <1>6 DEF EveryoneServed

-----------------------------------------------------------------------------
(* The services and messages while the files are read: the top-level file's *)
(* own, from the statements before the one it is at.                        *)
LEMMA OwnSet ==
  ASSUME NEW T, NEW s \in Seq(T)
  PROVE  s \in Seq(ToSet(s))
<1>1. /\ Len(s) \in Nat /\ DOMAIN s = 1 .. Len(s) /\ s = [i \in 1 .. Len(s) |-> s[i]]
  OBVIOUS
<1>2. \A i \in 1 .. Len(s) : s[i] \in ToSet(s)
  BY <1>1 DEF ToSet
<1>3. PICK U : U = ToSet(s)
  OBVIOUS
<1>4. s \in Seq(U)
  BY <1>1, <1>2, <1>3
<1> QED
  BY <1>3, <1>4

LEMMA Joined ==
  ASSUME NEW T, NEW U, NEW a \in Seq(T), NEW b \in Seq(U), NEW t, t = a \o b
  PROVE  /\ t \in Seq(ToSet(t))
         /\ DOMAIN t = 1 .. Len(a) + Len(b) /\ Len(a) \in Nat /\ Len(b) \in Nat
         /\ DOMAIN a = 1 .. Len(a) /\ DOMAIN b = 1 .. Len(b)
         /\ \A i \in DOMAIN t : \/ i \in DOMAIN a /\ t[i] = a[i]
                                \/ /\ i \notin DOMAIN a /\ i - Len(a) \in DOMAIN b
                                   /\ t[i] = b[i - Len(a)]
<1>1. a \in Seq(T \cup U) /\ b \in Seq(T \cup U)
  OBVIOUS
<1>2. t \in Seq(T \cup U) /\ Len(t) = Len(a) + Len(b)
  BY <1>1
<1>3. /\ DOMAIN t = 1 .. Len(a) + Len(b) /\ Len(a) \in Nat /\ Len(b) \in Nat
      /\ DOMAIN a = 1 .. Len(a) /\ DOMAIN b = 1 .. Len(b)
  BY <1>2
<1>4. \A i \in 1 .. Len(a) + Len(b) :
        t[i] = IF i <= Len(a) THEN a[i] ELSE b[i - Len(a)]
  BY <1>1
<1>5. \A i \in 1 .. Len(a) + Len(b) :
        \/ i \in 1 .. Len(a) /\ i <= Len(a)
        \/ i \notin 1 .. Len(a) /\ ~(i <= Len(a)) /\ i - Len(a) \in 1 .. Len(b)
  BY <1>3
<1>6. t \in Seq(ToSet(t))
  BY <1>2, OwnSet
<1> QED
  BY <1>3, <1>4, <1>5, <1>6

WrittenBefore(s, at) ==
  \E i \in DOMAIN input[Top] :
    i < at /\ input[Top][i].kind = "service" /\ s \in ToSet(input[Top][i].services)

Gathered ==
  /\ messages \in Seq(ToSet(messages)) /\ services \in Seq(ToSet(services))
  /\ frames[1].phase = "imports" => services = <<>>
  /\ \A s \in ToSet(services) : WrittenBefore(s, frames[1].at)
  /\ WrittenOnce => Distinct(CallerList(services))

ServicesInv ==
  /\ outcome = "running" => Gathered
  /\ EveryRequestHasOneService

LEMMA NothingGathered ==
  ASSUME NEW s, s = <<>>
  PROVE  s \in Seq(ToSet(s)) /\ ToSet(s) = {} /\ Distinct(CallerList(s))
<1>1. DOMAIN s = {} /\ s \in Seq({})
  OBVIOUS
<1>2. ToSet(s) = {}
  BY <1>1 DEF ToSet
<1> QED
  BY <1>1, <1>2 DEF Distinct, CallerList

LEMMA ServicesInvInit == InitParser => ServicesInv
<1> SUFFICES ASSUME InitParser PROVE ServicesInv
  OBVIOUS
<1>1. messages = <<>> /\ services = <<>> /\ outcome = "running"
  BY DEF InitParser
<1>2. /\ messages \in Seq(ToSet(messages)) /\ services \in Seq(ToSet(services))
      /\ ToSet(services) = {} /\ Distinct(CallerList(services))
  BY <1>1, NothingGathered
<1> QED
  BY <1>1, <1>2 DEF ServicesInv, Gathered, EveryRequestHasOneService

(* Below the top-level file, and before its statements, nothing is gathered. *)
LEMMA GatheredNothing ==
  ASSUME Gathered, services = <<>>, UNCHANGED <<messages, services>>
  PROVE  Gathered'
<1>1. /\ ToSet(services) = {} /\ Distinct(CallerList(services))
  BY NothingGathered
<1>2. ToSet(services)' = {} /\ ToSet(messages)' = ToSet(messages)
      /\ ToSet(services)' = ToSet(services)
  BY <1>1 DEF ToSet
<1>3. Distinct(CallerList(services))'
  BY <1>1 DEF Distinct, CallerList
<1> QED
  BY <1>1, <1>2, <1>3 DEF Gathered

LEMMA TopStatement ==
  ASSUME FramesOK, IsTop, Here.phase = "statements", Here.at \in DOMAIN input[Here.file],
         frames' = Advanced
  PROVE  /\ frames[1] = Here /\ Here.file = Top /\ Here.at \in Nat
         /\ frames'[1].phase = "statements" /\ frames'[1].at = Here.at + 1
<1>1. Len(frames) = 1 /\ Here = frames[1] /\ Here.at \in Nat
  BY LastFrame DEF IsTop
<1>2. frames'[1] = [file |-> Here.file, phase |-> Here.phase, at |-> Here.at + 1]
  BY <1>1, AdvancedIs
<1>3. Here.file = Top
  BY <1>1 DEF FramesOK
<1> QED
  BY <1>1, <1>2, <1>3, RecordFields

LEMMA WrittenLater ==
  ASSUME FramesOK, UNCHANGED input, NEW at \in Nat, NEW s, WrittenBefore(s, at)
  PROVE  WrittenBefore(s, at + 1)'
<1>1. \A i \in DOMAIN input[Top] : i \in Nat
  BY FilesAreLists DEF FramesOK
<1>2. \A i \in Nat : i < at => i < at + 1
  OBVIOUS
<1> QED
  BY <1>1, <1>2 DEF WrittenBefore

LEMMA GatheredMessages ==
  ASSUME Gathered, FramesOK, IsTop, Here.phase = "statements",
         Here.at \in DOMAIN input[Here.file], frames' = Advanced,
         UNCHANGED <<input, services>>, messages' \in Seq(ToSet(messages'))
  PROVE  Gathered'
<1>1. /\ frames[1] = Here /\ Here.at \in Nat
      /\ frames'[1].phase # "imports" /\ frames'[1].at = Here.at + 1
  BY TopStatement
<1>2. PICK at : at = Here.at
  OBVIOUS
<1>3. \A s \in ToSet(services) : WrittenBefore(s, at + 1)'
  BY <1>1, <1>2, WrittenLater DEF Gathered
<1>4. services' = services /\ frames'[1].at = at + 1
  BY <1>1, <1>2
<1>5. WrittenOnce' => Distinct(CallerList(services))'
  BY DEF Gathered, WrittenOnce, Distinct, CallerList
<1>6. \A s \in ToSet(services)' : WrittenBefore(s, frames[1].at)'
  BY <1>3, <1>4
<1>7. services' \in Seq(ToSet(services')) /\ messages' \in Seq(ToSet(messages'))
  BY DEF Gathered
<1> QED
  BY <1>1, <1>5, <1>6, <1>7 DEF Gathered

LEMMA GatheredServices ==
  ASSUME Gathered, FramesOK, IsTop, Here.phase = "statements",
         Here.at \in DOMAIN input[Here.file], frames' = Advanced,
         Statement.kind = "service", services' = services \o Statement.services,
         UNCHANGED <<input, messages>>
  PROVE  Gathered'
<1>1. /\ frames[1] = Here /\ Here.at \in Nat /\ Here.file = Top
      /\ frames'[1].phase # "imports" /\ frames'[1].at = Here.at + 1
  BY TopStatement
<1>2. PICK at, l : at = Here.at /\ l = Statement.services
  OBVIOUS
<1>3. /\ at \in DOMAIN input[Top] /\ l = input[Top][at].services
      /\ input[Top][at].kind = "service" /\ at < Here.at + 1 /\ at \in Nat
  BY <1>1, <1>2 DEF Statement
<1>4. l \in Seq(ToSet(l))
  <2>1. input[Top][at] \in ToSet(input[Top])
    BY <1>3 DEF ToSet
  <2>2. input \in Inputs /\ Top \in DOMAIN input
    BY FilesAreLists DEF FramesOK
  <2> QED
    BY <1>3, <2>1, <2>2, ParserAssumption DEF ParserAssumption
<1>5. PICK s, t : s = services /\ t = services'
  OBVIOUS
<1>6. s \in Seq(ToSet(s)) /\ t = s \o l
  BY <1>2, <1>5 DEF Gathered
<1>7. /\ t \in Seq(ToSet(t))
      /\ \A i \in DOMAIN t : \/ i \in DOMAIN s /\ t[i] = s[i]
                             \/ /\ i \notin DOMAIN s /\ i - Len(s) \in DOMAIN l
                                /\ t[i] = l[i - Len(s)]
      /\ DOMAIN t = 1 .. Len(s) + Len(l) /\ Len(s) \in Nat
  <2>1. PICK S, L : S = ToSet(s) /\ L = ToSet(l)
    OBVIOUS
  <2>2. s \in Seq(S) /\ l \in Seq(L)
    BY <1>4, <1>6, <2>1
  <2>3. t \in Seq(ToSet(t))
    BY <1>6, <2>2, Joined
  <2>4. /\ \A i \in DOMAIN t : \/ i \in DOMAIN s /\ t[i] = s[i]
                              \/ /\ i \notin DOMAIN s /\ i - Len(s) \in DOMAIN l
                                 /\ t[i] = l[i - Len(s)]
        /\ DOMAIN t = 1 .. Len(s) + Len(l) /\ Len(s) \in Nat
    BY <1>6, <2>2, Joined
  <2> QED
    BY <2>3, <2>4
<1>8. \A x \in ToSet(s) : WrittenBefore(x, at) /\ WrittenBefore(x, at + 1)'
  BY <1>1, <1>2, <1>5, WrittenLater DEF Gathered
<1>9. \A x \in ToSet(l) : WrittenBefore(x, at + 1)'
  <2>1. at < at + 1
    BY <1>3
  <2> QED
    BY <1>3, <2>1 DEF WrittenBefore
<1>10. \A x \in ToSet(t) : x \in ToSet(s) \/ x \in ToSet(l)
  BY <1>7 DEF ToSet
<1>11. ASSUME WrittenOnce PROVE Distinct(CallerList(t))
  <2>1. Distinct(CallerList(s))
    BY <1>5, <1>11 DEF Gathered
  <2>2. ASSUME NEW i \in DOMAIN s, NEW b \in DOMAIN l PROVE s[i].caller # l[b].caller
    <3>1. s[i] \in ToSet(s)
      BY DEF ToSet
    <3>2. PICK h \in DOMAIN input[Top] :
            h < at /\ input[Top][h].kind = "service" /\ s[i] \in ToSet(input[Top][h].services)
      BY <1>8, <3>1 DEF WrittenBefore
    <3>3. PICK a \in DOMAIN input[Top][h].services : s[i] = input[Top][h].services[a]
      BY <3>2 DEF ToSet
    <3>4. h # at
      BY <1>3, <3>2
    <3> QED
      BY <1>3, <1>11, <3>2, <3>3, <3>4 DEF WrittenOnce
  <2>3. ASSUME NEW a \in DOMAIN l, NEW b \in DOMAIN l, a # b PROVE l[a].caller # l[b].caller
    BY <1>3, <1>11, <2>3 DEF WrittenOnce
  <2>4. \A i, j \in DOMAIN s : i # j => s[i].caller # s[j].caller
    BY <2>1 DEF Distinct, CallerList
  <2>5. ASSUME NEW i \in DOMAIN t, NEW j \in DOMAIN t, i # j PROVE t[i].caller # t[j].caller
    <3>1. i - Len(s) # j - Len(s)
      BY <1>7, <2>5
    <3>2. CASE i \in DOMAIN s
      BY <1>7, <2>2, <2>4, <2>5, <3>2
    <3>3. CASE i \notin DOMAIN s
      BY <1>7, <2>2, <2>3, <2>5, <3>1, <3>3
    <3> QED
      BY <3>2, <3>3
  <2> QED
    BY <2>5 DEF Distinct, CallerList
<1>12. WrittenOnce' => WrittenOnce
  BY DEF WrittenOnce
<1>13. services' = t /\ frames'[1].at = at + 1
  BY <1>1, <1>2, <1>5
<1>14. WrittenOnce' => Distinct(CallerList(services'))
  BY <1>11, <1>12, <1>13
<1>15. \A x \in ToSet(services') : WrittenBefore(x, frames[1].at)'
  BY <1>8, <1>9, <1>10, <1>13
<1>16. services' \in Seq(ToSet(services')) /\ messages' \in Seq(ToSet(messages'))
  BY <1>7, <1>13 DEF Gathered
<1> QED
  BY <1>1, <1>14, <1>15, <1>16 DEF Gathered

LEMMA ReplyIsList ==
  ASSUME NEW s
  PROVE  GeneratedReply(s) \in Seq(ToSet(GeneratedReply(s)))
<1>1. PICK g : g = GeneratedReply(s)
  OBVIOUS
<1>2. g = <<>> \/ \E m : g = <<m>>
  BY <1>1 DEF GeneratedReply
<1>3. CASE g = <<>>
  BY <1>1, <1>3, NothingGathered
<1>4. CASE \E m : g = <<m>>
  <2>1. PICK m : g = <<m>>
    BY <1>4
  <2>2. g \in Seq({m})
    BY <2>1
  <2> QED
    BY <1>1, <2>2, OwnSet
<1> QED
  BY <1>2, <1>3, <1>4

LEMMA MessagesGrow ==
  ASSUME NEW T, NEW s \in Seq(T), NEW m, NEW U, NEW g \in Seq(U)
  PROVE  Append(s, m) \o g \in Seq(ToSet(Append(s, m) \o g))
<1>1. PICK a : a = Append(s, m)
  OBVIOUS
<1>2. a \in Seq(T \cup {m})
  BY <1>1, AppendedIs
<1>3. PICK t : t = a \o g
  OBVIOUS
<1>4. t \in Seq(ToSet(t))
  BY <1>2, <1>3, Joined
<1> QED
  BY <1>1, <1>3, <1>4

(* process() turns what was gathered into what the property says. *)
LEMMA ProcessServes ==
  ASSUME Gathered, outcome = "running", Process, outcome' = "accepted"
  PROVE  EveryRequestHasOneService'
<1>1. /\ services' = Completed(messages, services) /\ UNCHANGED <<input, messages>>
      /\ ServicesDefined(messages, services)
      /\ \A n \in Names(messages) \ Seen(services) : Paired(n, messages, services)
  BY DEF Process, Reject
<1>2. Filled(messages, services, Len(messages), Completed(messages, services))
  <2>1. PICK M : M = ToSet(messages)
    OBVIOUS
  <2>2. messages \in Seq(M) /\ services \in Seq(ToSet(services))
    BY <2>1 DEF Gathered
  <2> QED
    BY <2>2, CompletedFilled
<1>3. ASSUME OwnNames(messages), WrittenOnce PROVE EveryoneServed(messages, services')
  <2>1. PICK M : M = ToSet(messages)
    OBVIOUS
  <2>2. messages \in Seq(M) /\ services \in Seq(ToSet(services))
    BY <2>1 DEF Gathered
  <2>3. Distinct(CallerList(services))
    BY <1>3 DEF Gathered
  <2> QED
    BY <1>1, <1>2, <1>3, <2>2, <2>3, CompletedServes
<1>4. WrittenOnce' => WrittenOnce
  BY <1>1 DEF WrittenOnce
<1>5. OwnNames(messages)' => OwnNames(messages)
  BY <1>1 DEF OwnNames, Distinct
<1>6. ASSUME Distinct([i \in DOMAIN messages |-> messages[i].name])', WrittenOnce'
      PROVE  EveryoneServed(messages, services')
  BY <1>3, <1>4, <1>5, <1>6 DEF OwnNames
<1> QED
  BY <1>1, <1>6 DEF EveryRequestHasOneService, EveryoneServed

LEMMA ServicesInvStep ==
  ASSUME FramesOK, ServicesInv, ParserNext \/ UNCHANGED parserVars
  PROVE  ServicesInv'
<1>1. CASE UNCHANGED parserVars
  <2>1. UNCHANGED <<input, frames, messages, services, outcome>>
    BY <1>1 DEF parserVars
  <2>2. Gathered => Gathered'
    BY <2>1 DEF Gathered, WrittenBefore, WrittenOnce
  <2>3. WrittenOnce' => WrittenOnce
    BY <2>1 DEF WrittenOnce
  <2>4. EveryRequestHasOneService'
    BY <2>1, <2>3 DEF ServicesInv, EveryRequestHasOneService
  <2> QED
    BY <2>1, <2>2, <2>4 DEF ServicesInv
<1>2. CASE ParserNext
  <2>1. outcome = "running" /\ Gathered
    BY <1>2 DEF ServicesInv, ParserNext, EnterImport, PassBy, EndImports, AtStatement,
       Define, DefineType, AddServices, SkipStatement, EndImport, AtEnd, Process
  <2>2. outcome' = outcome /\ Gathered' => ServicesInv'
    BY <2>1 DEF ServicesInv, EveryRequestHasOneService
  <2>3. outcome' \notin {"running", "accepted"} => ServicesInv'
    BY DEF ServicesInv, EveryRequestHasOneService
  <2>4. /\ Here = frames[Len(frames)] /\ Len(frames) \in Nat \ {0}
        /\ \A k \in 1 .. Len(frames) - 1 : frames[k].phase = "imports"
    BY LastFrame DEF FramesOK
  <2>5. Here.phase = "imports" \/ ~IsTop => services = <<>>
    <3>1. \A d \in Nat \ {0} : d = 1 \/ 1 \in 1 .. d - 1
      OBVIOUS
    <3>2. Len(frames) = 1 \/ 1 \in 1 .. Len(frames) - 1
      BY <2>4, <3>1
    <3> QED
      BY <2>1, <2>4, <3>2 DEF Gathered, IsTop
  <2>6. CASE EnterImport \/ PassBy \/ EndImports
    <3>1. /\ Here.phase = "imports" /\ UNCHANGED <<messages, services>>
          /\ outcome' \notin {"running", "accepted"} \/ outcome' = outcome
      BY <2>1, <2>6 DEF EnterImport, PassBy, EndImports, AtStatement, AtEnd, Reject
    <3> QED
      BY <2>1, <2>2, <2>3, <2>5, <3>1, GatheredNothing
  <2>7. CASE EndImport
    <3>1. ~IsTop /\ UNCHANGED <<messages, services, outcome>>
      BY <2>7 DEF EndImport
    <3> QED
      BY <2>1, <2>2, <2>5, <3>1, GatheredNothing
  <2>8. CASE (Define \/ DefineType \/ AddServices \/ SkipStatement) /\ ~IsTop
    <3>1. /\ UNCHANGED <<messages, services>>
          /\ outcome' \notin {"running", "accepted"} \/ outcome' = outcome
      BY <2>1, <2>8 DEF Define, DefineType, AddServices, SkipStatement, Reject
    <3> QED
      BY <2>1, <2>2, <2>3, <2>5, <2>8, <3>1, GatheredNothing
  <2>9. CASE (Define \/ DefineType \/ AddServices \/ SkipStatement) /\ IsTop
    <3>1. /\ Here.phase = "statements" /\ Here.at \in DOMAIN input[Here.file]
          /\ UNCHANGED input
      BY <2>9 DEF Define, DefineType, AddServices, SkipStatement, AtStatement, Reject
    <3>2. CASE outcome' \notin {"running", "accepted"}
      BY <2>3, <3>2
    <3>3. CASE Define /\ outcome' = "running"
      <4>1. /\ messages' = Append(messages, NewMessage(Statement)) \o GeneratedReply(Statement)
            /\ frames' = Advanced /\ UNCHANGED services
        BY <2>9, <3>3 DEF Define, Reject
      <4>2. PICK M, g, U, m : /\ M = ToSet(messages) /\ g = GeneratedReply(Statement)
                              /\ U = ToSet(g) /\ m = NewMessage(Statement)
        OBVIOUS
      <4>3. messages \in Seq(M) /\ g \in Seq(U)
        BY <2>1, <4>2, ReplyIsList DEF Gathered
      <4>4. messages' \in Seq(ToSet(messages'))
        BY <4>1, <4>2, <4>3, MessagesGrow
      <4> QED
        BY <2>1, <2>2, <2>9, <3>1, <3>3, <4>1, <4>4, GatheredMessages
    <3>4. CASE (DefineType \/ SkipStatement) /\ outcome' = "running"
      <4>1. frames' = Advanced /\ UNCHANGED <<messages, services>>
        BY <3>4 DEF DefineType, SkipStatement, Reject
      <4>2. messages' \in Seq(ToSet(messages'))
        BY <2>1, <4>1 DEF Gathered
      <4> QED
        BY <2>1, <2>2, <2>9, <3>1, <3>4, <4>1, <4>2, GatheredMessages
    <3>5. CASE AddServices
      <4>1. /\ frames' = Advanced /\ services' = services \o Statement.services
            /\ Statement.kind = "service" /\ UNCHANGED <<messages, outcome>>
        BY <2>9, <3>5 DEF AddServices
      <4> QED
        BY <2>1, <2>2, <2>9, <3>1, <4>1, GatheredServices
    <3>6. outcome' # "accepted"
      BY <2>1, <2>9 DEF Define, DefineType, AddServices, SkipStatement, Reject
    <3> QED
      BY <2>9, <3>2, <3>3, <3>4, <3>5, <3>6
  <2>10. CASE Process
    <3>1. outcome' \in {"rejected", "accepted"}
      BY <2>10 DEF Process, Reject
    <3>2. CASE outcome' = "accepted"
      <4>1. EveryRequestHasOneService'
        BY <2>1, <2>10, <3>2, ProcessServes
      <4> QED
        BY <3>2, <4>1 DEF ServicesInv
    <3> QED
      BY <2>3, <3>1, <3>2
  <2> QED
    BY <1>2, <2>6, <2>7, <2>8, <2>9, <2>10 DEF ParserNext
<1> QED
  BY <1>1, <1>2

(* In an API that is accepted, whose file gives its messages and the        *)
(* callers of its services names of their own, each request has exactly one *)
(* service and each service is about messages that exist: process() makes   *)
(* up the services nobody wrote, and none beside one that was written.      *)
THEOREM RequestsHaveOneService == Spec => []EveryRequestHasOneService
<1> DEFINE Inv == ReadingInv /\ ServicesInv
<1>1. Init => Inv
  BY ReadingInvInit, ServicesInvInit DEF Init
<1>2. Inv /\ [Next]_vars => Inv'
  <2>1. ReadingInv => FramesOK
    BY DEF ReadingInv
  <2> QED
    BY <2>1, ReadingInvStep, ServicesInvStep, ParserStep
<1>3. Inv => EveryRequestHasOneService
  BY DEF ServicesInv
<1> QED
  BY <1>1, <1>2, <1>3, PTL DEF Spec

-----------------------------------------------------------------------------
VlaKinds == {"none", "string", "count"}

ParserTypes ==
  /\ outcome \in {"running", "accepted", "rejected", "overflow"}
  /\ \A t \in DOMAIN types : types[t] \in VlaKinds

LEMMA TypeVlaKind ==
  ASSUME NEW s, NEW table, \A t \in DOMAIN table : table[t] \in VlaKinds
  PROVE  TypeVla(s, table) \in VlaKinds
<1>1. ASSUME NEW f, NEW fields PROVE FieldVla(f, fields, table) \in VlaKinds
  BY DEF FieldVla, VlaKinds
<1> QED
  BY <1>1 DEF TypeVla, VlaKinds

LEMMA ParserTypesInit == InitParser => ParserTypes
<1> SUFFICES ASSUME InitParser PROVE ParserTypes
  OBVIOUS
<1>1. DOMAIN types = {}
  BY DEF InitParser
<1> QED
  BY <1>1 DEF InitParser, ParserTypes

LEMMA ParserTypesStep ==
  ASSUME ParserTypes, ParserNext \/ UNCHANGED parserVars
  PROVE  ParserTypes'
<1>1. outcome' \in {"running", "accepted", "rejected", "overflow"}
  BY DEF ParserTypes, parserVars, ParserNext, EnterImport, PassBy, EndImports, Define,
     DefineType, AddServices, SkipStatement, EndImport, Process, Reject
<1>2. CASE UNCHANGED types
  BY <1>1, <1>2 DEF ParserTypes
<1>3. CASE ~UNCHANGED types
  <2>1. types' = [t \in DOMAIN types \cup {TypeName(Statement)} |->
                    IF t = TypeName(Statement) THEN TypeVla(Statement, types) ELSE types[t]]
    BY <1>3 DEF parserVars, ParserNext, EnterImport, PassBy, EndImports, Define,
       DefineType, AddServices, SkipStatement, EndImport, Process, Reject
  <2>2. PICK name, v : name = TypeName(Statement) /\ v = TypeVla(Statement, types)
    OBVIOUS
  <2>3. v \in VlaKinds
    BY <2>2, TypeVlaKind DEF ParserTypes
  <2>4. \A t \in DOMAIN types' : types'[t] \in VlaKinds
    BY <2>1, <2>2, <2>3 DEF ParserTypes
  <2> QED
    BY <1>1, <2>4 DEF ParserTypes
<1> QED
  BY <1>2, <1>3

LEMMA InvariantsAreTypes == ReadingInv /\ ParserTypes /\ ServerInv => TypeOK
<1> SUFFICES ASSUME ReadingInv, ParserTypes, ServerInv PROVE TypeOK
  OBVIOUS
<1>1. /\ outcome \in {"running", "accepted", "rejected", "overflow"}
      /\ Range(types) \subseteq {"none", "string", "count"}
  BY DEF ParserTypes, VlaKinds, Range
<1>2. FramesOK /\ Len(frames) \in 1 .. MaxDepth /\ DOMAIN frames = 1 .. Len(frames)
  BY LastFrame DEF ReadingInv, FramesOK
<1>3. ASSUME NEW i \in DOMAIN frames
      PROVE  /\ frames[i].file \in DOMAIN input
             /\ frames[i].phase \in {"imports", "statements"}
             /\ frames[i].at \in 1 .. Len(input[frames[i].file]) + 1
  <2>1. frames[i] \in FrameType /\ frames[i].at <= Len(input[frames[i].file]) + 1
    BY <1>2 DEF FramesOK
  <2>2. /\ frames[i].file \in DOMAIN input /\ frames[i].at \in Nat \ {0}
        /\ frames[i].phase \in {"imports", "statements"}
    BY <2>1 DEF FrameType
  <2>3. Len(input[frames[i].file]) \in Nat
    BY <1>2, <2>2, FilesAreLists DEF FramesOK
  <2> QED
    BY <2>1, <2>2, <2>3
<1>4. ServerTypes /\ stage \in {"generating", "failed", "serving"}
  BY DEF ServerInv, Stages
<1>5. MaxRequests \in Nat
  BY ServerAssumption
<1>6. ToSet(requests) \subseteq RequestType /\ Len(requests) <= MaxRequests
  <2>1. requests \in Seq(RequestType) /\ Len(requests) <= asked /\ asked \in 0 .. MaxRequests
    BY <1>4 DEF ServerTypes
  <2>2. PICK R : R = RequestType
    OBVIOUS
  <2>3. requests \in Seq(R)
    BY <2>1, <2>2
  <2>4. ToSet(requests) \subseteq R
    BY <2>3 DEF ToSet
  <2>5. Len(requests) \in Nat
    BY <2>3
  <2>6. Len(requests) <= MaxRequests
    BY <1>5, <2>1, <2>5
  <2> QED
    BY <2>2, <2>4, <2>6
<1>7. ToSet(current) \subseteq RequestType /\ Len(current) <= 1
  <2>1. CASE current = <<>>
    BY <2>1, NothingGathered
  <2>2. CASE \E r \in RequestType : current = <<r>>
    <3>1. PICK r \in RequestType : current = <<r>>
      BY <2>2
    <3>2. Len(current) = 1 /\ DOMAIN current = {1} /\ current[1] = r
      BY <3>1
    <3> QED
      BY <3>2 DEF ToSet
  <2> QED
    BY <1>4, <2>1, <2>2 DEF ServerTypes
<1>8. ASSUME NEW c \in Clients
      PROVE  ToSet(sent[c]) \subseteq
        [of : 0 .. MaxRequests, name : MessageNames, context : Word(0 .. MaxRequests)]
  <2>1. PICK L : L = LetterType
    OBVIOUS
  <2>2. sent[c] \in Seq(L)
    BY <1>4, <2>1 DEF ServerTypes
  <2>3. ToSet(sent[c]) \subseteq L
    BY <2>2 DEF ToSet
  <2> QED
    BY <2>1, <2>3 DEF LetterType
<1>9. ToSet(requests) \cup ToSet(current) \subseteq RequestType
  BY <1>6, <1>7
<1> QED
  BY <1>1, <1>2, <1>3, <1>4, <1>6, <1>7, <1>8, <1>9 DEF TypeOK, ServerTypes

(* Types of the whole state, reading and serving: do_imports stays inside   *)
(* the files it has open, a table entry says how its type ends, and what    *)
(* the plugin holds, receives and sends is of the messages of its API.      *)
THEOREM ParserAndServerTyped == Spec => []TypeOK
<1> DEFINE Inv == ReadingInv /\ ParserTypes /\ ServerInv
<1>1. Init => Inv
  BY ReadingInvInit, ParserTypesInit, ServerInvInit DEF Init
<1>2. Inv /\ [Next]_vars => Inv'
  BY ReadingInvStep, ParserTypesStep, ServerInvStep, ParserStep
<1>3. Inv => TypeOK
  BY InvariantsAreTypes
<1> QED
  BY <1>1, <1>2, <1>3, PTL DEF Spec

-----------------------------------------------------------------------------
(* The stack ends at a chain of imports that is as long as it is deep. *)
DeepChain == outcome = "overflow" => Chains(MaxDepth) # {}

Deeper == [k \in 1 .. Len(frames) |->
             IF k < Len(frames) THEN Taken(k) ELSE <<Here.file, Here.at>>]

LEMMA DeeperIsChain ==
  ASSUME FramesOK, Here.at \in DOMAIN input[Here.file], Statement.kind = "import",
         Statement.file \in DOMAIN input
  PROVE  Deeper \in Chains(Len(frames))
<1>0. PICK d, e : d = Len(frames) /\ e = Deeper
  OBVIOUS
<1>1. d \in Nat \ {0} /\ Here = frames[d] /\ Here.file \in DOMAIN input
  BY <1>0, LastFrame
<1>2. \A k \in 1 .. d - 1 : k \in 1 .. d /\ k < d /\ k - 1 < d
  BY <1>1
<1>3. d \in 1 .. d /\ ~(d < d) /\ \A k \in 1 .. d : k \in 1 .. d - 1 \/ k = d
  BY <1>1
<1>4. /\ DOMAIN e = 1 .. d /\ e = [k \in 1 .. d |-> e[k]]
      /\ \A k \in 1 .. d - 1 : e[k] = Taken(k)
      /\ e[d] = <<Here.file, Here.at>>
  BY <1>0, <1>2, <1>3 DEF Deeper
<1>5. /\ Path \in Chains(d - 1) /\ LeadsTo(Path, d - 1) = Here.file
      /\ Path \in [1 .. d - 1 -> ImportPlaces]
      /\ \A k \in 1 .. d - 1 : Path[k] = e[k]
  BY <1>0, <1>4, PathIsChain DEF Chains, Path
<1>6. \A k \in 1 .. d : LeadsTo(e, k - 1) = LeadsTo(Path, k - 1)
  <2> TAKE k \in 1 .. d
  <2>1. k = 1 \/ k - 1 \in 1 .. d - 1
    BY <1>1
  <2>2. CASE k = 1
    BY <2>2 DEF LeadsTo
  <2>3. CASE k - 1 \in 1 .. d - 1
    <3>1. Path[k - 1] = e[k - 1]
      BY <1>5, <2>3
    <3> QED
      BY <3>1 DEF LeadsTo
  <2> QED
    BY <2>1, <2>2, <2>3
<1>7. \A k \in 1 .. d - 1 : e[k] \in ImportPlaces /\ e[k][1] = LeadsTo(e, k - 1)
  <2>1. \A k \in 1 .. d - 1 : Path[k][1] = LeadsTo(Path, k - 1)
    BY <1>5 DEF Chains
  <2> QED
    BY <1>2, <1>5, <1>6, <2>1
<1>8. e[d] \in ImportPlaces /\ e[d][1] = LeadsTo(e, d - 1)
  <2>1. PICK f, a, p : f = Here.file /\ a = Here.at /\ p = <<f, a>>
    OBVIOUS
  <2>2. e[d] = p
    BY <1>4, <2>1
  <2>3. p[1] = f /\ p[2] = a
    BY <2>1, Zenon
  <2>4. /\ f \in DOMAIN input /\ a \in DOMAIN input[f]
        /\ input[f][a].kind = "import" /\ input[f][a].file \in DOMAIN input
    BY <1>1, <2>1 DEF Statement
  <2>5. p \in {f} \X DOMAIN input[f]
    BY <2>1, <2>4
  <2>6. p \in ImportPlaces
    BY <2>3, <2>4, <2>5 DEF ImportPlaces
  <2>7. LeadsTo(e, d - 1) = f
    BY <1>3, <1>5, <1>6, <2>1
  <2> QED
    BY <2>2, <2>3, <2>6, <2>7
<1>9. \A k \in 1 .. d : e[k] \in ImportPlaces /\ e[k][1] = LeadsTo(e, k - 1)
  BY <1>3, <1>7, <1>8
<1>10. e \in [1 .. d -> ImportPlaces]
  BY <1>4, <1>9
<1> QED
  BY <1>0, <1>9, <1>10 DEF Chains

(* A chain begins with the shorter ones. *)
LEMMA ShorterChains ==
  ASSUME NEW m \in Nat, NEW n \in Nat, m <= n, Chains(m) = {}
  PROVE  Chains(n) = {}
<1> SUFFICES ASSUME NEW c \in Chains(n) PROVE FALSE
  OBVIOUS
<1>1. PICK b : b = [k \in 1 .. m |-> c[k]]
  OBVIOUS
<1>2. \A k \in 1 .. m : k \in 1 .. n /\ (k = 1 \/ k - 1 \in 1 .. m)
  OBVIOUS
<1>3. /\ c \in [1 .. n -> ImportPlaces]
      /\ \A k \in 1 .. n : c[k] \in ImportPlaces /\ c[k][1] = LeadsTo(c, k - 1)
  BY DEF Chains
<1>4. \A k \in 1 .. m : LeadsTo(b, k - 1) = LeadsTo(c, k - 1)
  BY <1>1, <1>2 DEF LeadsTo
<1>5. \A k \in 1 .. m : b[k] = c[k] /\ k \in 1 .. n
  BY <1>1, <1>2
<1>6. \A k \in 1 .. m : b[k] \in ImportPlaces /\ b[k][1] = LeadsTo(b, k - 1)
  BY <1>3, <1>4, <1>5
<1>7. b \in [1 .. m -> ImportPlaces]
  BY <1>1, <1>6
<1>8. b \in Chains(m)
  BY <1>6, <1>7 DEF Chains
<1> QED
  BY <1>8

LEMMA DeepChainStep ==
  ASSUME ReadingInv, DeepChain, ParserNext \/ UNCHANGED parserVars
  PROVE  DeepChain'
<1>1. UNCHANGED input
  BY DEF ParserNext, EnterImport, PassBy, EndImports, Define, DefineType, AddServices,
     SkipStatement, EndImport, Process, Reject, parserVars
<1>2. Chains(MaxDepth)' = Chains(MaxDepth)
  BY <1>1, SameChains
<1>3. CASE outcome' # "overflow" \/ UNCHANGED outcome
  BY <1>2, <1>3 DEF DeepChain
<1>4. CASE outcome' = "overflow" /\ ~UNCHANGED outcome
  <2>1. /\ AtStatement("imports") /\ Statement.kind = "import"
        /\ Statement.file \in DOMAIN input /\ Len(frames) >= MaxDepth
    BY <1>4 DEF ParserNext, EnterImport, PassBy, EndImports, Define, DefineType, AddServices,
       SkipStatement, EndImport, Process, Reject, parserVars
  <2>2. Len(frames) = MaxDepth
    BY <2>1, LastFrame DEF ReadingInv
  <2>3. Deeper \in Chains(MaxDepth)
    BY <2>1, <2>2, DeeperIsChain DEF AtStatement, ReadingInv
  <2> QED
    BY <1>2, <2>3 DEF DeepChain
<1> QED
  BY <1>3, <1>4

(* The recursion of do_imports runs out of stack only when the imports are  *)
(* nested as deep as the stack: never when no chain of imports is as long   *)
(* as there are files and the stack has room for them all.  This is the     *)
(* part of AcyclicEnds that is not liveness.                                *)
THEOREM AcyclicNeverOverflows ==
  Spec => [](Acyclic /\ IsFiniteSet(DOMAIN input) /\ Cardinality(DOMAIN input) <= MaxDepth
               => outcome # "overflow")
<1> DEFINE Inv == ReadingInv /\ DeepChain
           Enough == /\ Acyclic /\ IsFiniteSet(DOMAIN input)
                     /\ Cardinality(DOMAIN input) <= MaxDepth
<1>1. Init => Inv
  BY ReadingInvInit DEF Init, InitParser, DeepChain
<1>2. Inv /\ [Next]_vars => Inv'
  BY ReadingInvStep, DeepChainStep, ParserStep
<1>3. Inv => (Enough => outcome # "overflow")
  <2> SUFFICES ASSUME DeepChain, Enough PROVE outcome # "overflow"
    OBVIOUS
  <2>1. Cardinality(DOMAIN input) \in Nat /\ MaxDepth \in Nat
    BY FS_CardinalityType, ParserAssumption DEF ParserAssumption
  <2>2. Chains(MaxDepth) = {}
    BY <2>1, ShorterChains DEF Acyclic
  <2> QED
    BY <2>2 DEF DeepChain
<1> QED
  BY <1>1, <1>2, <1>3, PTL DEF Spec
=============================================================================
