----------------------------- MODULE ApiServer -----------------------------
(***************************************************************************)
(* A plugin serving the messages of an API: the code vpp-plugin-api-gen    *)
(* generates from what ApiParser accepted (src/vpp-plugin-api-gen/src/     *)
(* lib.rs), on top of the message buffers, registrations and streams of    *)
(* src/vpp-plugin/src/vlibapi/mod.rs.  VPP, which queues the requests,     *)
(* swaps their bytes, keeps the registrations of the clients and frees     *)
(* what it has sent, is modelled as the generated code uses it.            *)
(*                                                                         *)
(* A number in a message is [value, net]: net says whether its bytes are   *)
(* in network order.  The number of a request is also its context.         *)
(***************************************************************************)
EXTENDS ApiParser, Functions

CONSTANTS Clients,      \* the registrations clients may get
          Buffers,      \* the blocks of VPP's message allocator
          Servable,     \* those of the Inputs that are built and run
          MaxRequests,  \* requests sent altogether
          MaxSent       \* messages sent to one client

ASSUME ServerAssumption == MaxRequests \in Nat /\ MaxSent \in Nat

VARIABLES
  stage,     \* of the plugin: "generating", "failed" or "serving"
  clients,   \* the state of each registration
  requests,  \* the requests VPP has queued for the main thread
  asked,     \* the number of requests sent
  current,   \* the handler that runs: <<>>, or <<the request it is for>>
  held,      \* the Message values of the plugin's code
  heap,      \* the allocated blocks
  outbox,    \* the messages VPP owns and has still to transmit
  sent,      \* everything sent to each client (history)
  served     \* the requests that were dispatched (history)

serverVars == <<stage, clients, requests, asked, current, held, heap, outbox,
                sent, served>>
vars == <<parserVars, serverVars>>

InitServer ==
  /\ stage = "generating"
  /\ clients = [c \in Clients |-> "none"]
  /\ requests = <<>>
  /\ asked = 0
  /\ current = <<>>
  /\ held = {}
  /\ heap = {}
  /\ outbox = {}
  /\ sent = [c \in Clients |-> <<>>]
  /\ served = {}

-----------------------------------------------------------------------------
(* Builder::generate and the compiler *)

Message(name) == CHOOSE m \in ToSet(messages) : m.name = name
Has(name, field) == \E f \in ToSet(Message(name).fields) : f.name = field

(* Message::has_retval *)
HasRetval(name) ==
  \E f \in ToSet(Message(name).fields) :
    f.name = "retval" /\ f.type = "i32" /\ f.size = "one"

(* The method returns a reply; the replies to a dump are its stream. *)
Answers(s) == ~s.stream \/ s.via # Null

(* The name of a stream message is looked up for the first time when its    *)
(* registration is generated.  Equal names, missing fields and an alias     *)
(* that leads nowhere are left to the compiler, and so is the handler of a  *)
(* service that returns null, whose text lacks a closing brace.             *)
Generates ==
  /\ \A i \in DOMAIN input[Top] : input[Top][i].kind = "alias" =>
       input[Top][i].field.type \in (Scalars \ {"string"}) \cup DOMAIN types
  /\ Distinct([i \in DOMAIN messages |-> messages[i].name])
  /\ Distinct(CallerList(services))
  /\ \A s \in ToSet(services) :
       /\ s.via \in Names(messages) \cup {Null}
       /\ s.reply # Null /\ Has(s.caller, "client_index")
       /\ Answers(s) => Has(s.caller, "context") /\ Has(s.reply, "context")

Generate ==
  /\ outcome = "accepted" /\ stage = "generating" /\ input \in Servable
  /\ stage' = IF Generates THEN "serving" ELSE "failed"
  /\ UNCHANGED <<clients, requests, asked, current, held, heap, outbox, sent, served>>

(* <module>_register_messages: every service configures its caller with a   *)
(* handler, then its reply and its stream message without one; the last     *)
(* configuration of a message counts.                                       *)
Handlers(name) ==
  {s \in ToSet(services) :
     /\ s.caller = name
     /\ \A j \in DOMAIN services : services[j].reply = name \/ services[j].via = name
          => \E i \in DOMAIN services : i > j /\ services[i] = s}

-----------------------------------------------------------------------------
(* Message<T>: an owner of one block of VPP's memory *)

MessageNames ==
  (UNION {{s.reply, s.via} \cup s.events : s \in ToSet(services)}) \ {Null}

Allocated(b) == heap' = heap \cup {b}
Owner(b, name, init) == [buf |-> b, name |-> name, init |-> init]

(* Only the plugin's code creates messages, here while a handler runs.      *)
Running == stage = "serving" /\ current # <<>>

(* Message::new, new_message and From: a block with the value in it *)
New ==
  /\ Running
  /\ \E b \in Buffers \ heap, name \in MessageNames :
       Allocated(b) /\ held' = held \cup {Owner(b, name, TRUE)}
  /\ UNCHANGED <<stage, clients, requests, asked, current, outbox, sent, served>>

(* Message::new_uninit *)
NewUninit ==
  /\ Running
  /\ \E b \in Buffers \ heap, name \in MessageNames :
       Allocated(b) /\ held' = held \cup {Owner(b, name, FALSE)}
  /\ UNCHANGED <<stage, clients, requests, asked, current, outbox, sent, served>>

(* Deviation: the destructor runs for the consumed Message. *)
IntoRawDropping(m) == held' = held \ {m} /\ heap' = heap \ {m.buf}

(* Message::into_raw gives the block away without freeing it. *)
IntoRaw(m) == held' = held \ {m} /\ heap' = heap

(* Message::write and assume_init: the value is put in place and the block  *)
(* goes from the one Message through into_raw to the other.                 *)
Write ==
  /\ Running
  /\ \E m \in {h \in held : ~h.init} :
       held' = (held \ {m}) \cup {Owner(m.buf, m.name, TRUE)}
  /\ UNCHANGED <<stage, clients, requests, asked, current, heap, outbox, sent, served>>

(* Drop::drop *)
DropMessage ==
  /\ Running
  /\ \E m \in held : held' = held \ {m} /\ heap' = heap \ {m.buf}
  /\ UNCHANGED <<stage, clients, requests, asked, current, outbox, sent, served>>

-----------------------------------------------------------------------------
(* Registrations and streams *)

Net(v) == [value |-> v, net |-> TRUE]
Swapped(w) == [w EXCEPT !.net = ~@]

(* RegistrationScope::from_client_index: the index is swapped by to_be and  *)
(* VPP expects the order of the wire.                                       *)
Open == {c \in Clients : clients[c] = "open"}
Registered(index) == Swapped(index).net /\ index.value \in Open

Letter(of, name, context) == [of |-> of, name |-> name, context |-> context]

(* vl_api_helper_send_msg takes the block over. *)
Posted(c, b, letter) ==
  /\ outbox' = outbox \cup {[buf |-> b, client |-> c]}
  /\ sent' = [sent EXCEPT ![c] = Append(@, letter)]

-----------------------------------------------------------------------------
(* The clients and VPP *)

(* A client gets a registration whose index none had before. *)
Connect ==
  /\ stage = "serving" /\ current = <<>>
  /\ \E c \in Clients : clients[c] = "none" /\ clients' = [clients EXCEPT ![c] = "open"]
  /\ UNCHANGED <<stage, requests, asked, current, held, heap, outbox, sent, served>>

(* The registration goes, and with it what was to be transmitted; requests  *)
(* the client sent before stay queued.                                      *)
Disconnect ==
  /\ stage = "serving" /\ current = <<>>
  /\ \E c \in Open :
       LET lost == {o \in outbox : o.client = c}
       IN /\ clients' = [clients EXCEPT ![c] = "closed"]
          /\ outbox' = outbox \ lost
          /\ heap' = heap \ {o.buf : o \in lost}
  /\ UNCHANGED <<stage, requests, asked, current, held, sent, served>>

Request ==
  /\ stage = "serving" /\ asked < MaxRequests
  /\ asked' = asked + 1
  /\ \E c \in Open, name \in Callers(services) :
       requests' = Append(requests,
         [id |-> asked + 1, client |-> c, name |-> name,
          index |-> Net(c), context |-> Net(asked + 1)])
  /\ UNCHANGED <<stage, clients, current, held, heap, outbox, sent, served>>

Transmit ==
  /\ stage = "serving"
  /\ \E o \in outbox : outbox' = outbox \ {o} /\ heap' = heap \ {o.buf}
  /\ UNCHANGED <<stage, clients, requests, asked, current, held, sent, served>>

-----------------------------------------------------------------------------
(* <caller>_handler_raw *)

(* VPP swaps the request if its message is declared autoendian. *)
Received(r) ==
  IF Message(r.name).autoendian
  THEN [r EXCEPT !.index = Swapped(@), !.context = Swapped(@)]
  ELSE r

Log(r, reached) ==
  served' = served \cup
    {[id |-> r.id, client |-> r.client, name |-> r.name,
      connected |-> r.client \in Open, reached |-> reached]}

(* VPP calls the handler under the barrier; the plugin's method is reached   *)
(* when the client is found.                                                *)
Dispatch ==
  /\ stage = "serving" /\ current = <<>> /\ requests # <<>>
  /\ requests' = Tail(requests)
  /\ LET mp == Received(Head(requests))
         reached == Handlers(mp.name) # {} /\ Registered(mp.index)
     IN /\ current' = IF reached THEN <<mp>> ELSE <<>>
        /\ Log(mp, reached)
  /\ UNCHANGED <<stage, clients, asked, held, heap, outbox, sent>>

Mp == current[1]
Service == CHOOSE s \in Handlers(Mp.name) : TRUE
StreamOf(s) == IF s.stream /\ s.via = Null THEN s.reply ELSE s.via

(* Stream::send_message swaps the message, send_message_ne sends what the   *)
(* plugin swapped itself.  The plugin copies the context of the request.    *)
StreamSend ==
  /\ Running /\ Len(sent[Mp.index.value]) < MaxSent
  /\ \E m \in held :
       /\ m.init /\ m.name = StreamOf(Service)
       /\ IntoRaw(m)
       /\ Posted(Mp.index.value, m.buf, Letter(Mp.id, m.name, Swapped(Mp.context)))
  /\ UNCHANGED <<stage, clients, requests, asked, current, served>>

(* Deviation: the reply is swapped before it gets its context. *)
ReplySwappedFirst(b) ==
  Posted(Mp.index.value, b, Letter(Mp.id, Service.reply, Mp.context))

(* The context is copied before the reply is swapped, and the reply is sent *)
(* through the registration the client index led to.                        *)
Reply(b) ==
  Posted(Mp.index.value, b, Letter(Mp.id, Service.reply, Swapped(Mp.context)))

(* The method returns a reply, Ok(reply) where replies have a retval. *)
ReturnReply ==
  /\ Running /\ Answers(Service)
  /\ \E m \in held : m.init /\ m.name = Service.reply /\ IntoRaw(m) /\ Reply(m.buf)
  /\ current' = <<>>
  /\ UNCHANGED <<stage, clients, requests, asked, served>>

(* Err(retval): the reply is made from the default. *)
ReturnError ==
  /\ Running /\ Answers(Service) /\ HasRetval(Service.reply)
  /\ \E b \in Buffers \ heap : Allocated(b) /\ Reply(b)
  /\ current' = <<>>
  /\ UNCHANGED <<stage, clients, requests, asked, held, served>>

(* The methods whose replies are the stream *)
ReturnNothing ==
  /\ Running /\ ~Answers(Service)
  /\ current' = <<>>
  /\ UNCHANGED <<stage, clients, requests, asked, held, heap, outbox, sent, served>>

(* The plugin sends an event to a client whose index it kept in host order, *)
(* outside a handler, holding the barrier.                                  *)
SendEvent ==
  /\ stage = "serving" /\ current = <<>>
  /\ \E c \in Clients, m \in held :
       /\ m.init /\ m.name \in Seen(services)
       /\ Registered(Swapped(Net(c))) /\ Len(sent[c]) < MaxSent
       /\ IntoRaw(m)
       /\ Posted(c, m.buf, Letter(0, m.name, Net(0)))
  /\ UNCHANGED <<stage, clients, requests, asked, current, served>>

-----------------------------------------------------------------------------
ServerNext ==
  \/ Generate
  \/ Connect \/ Disconnect \/ Request \/ Transmit
  \/ New \/ NewUninit \/ Write \/ DropMessage
  \/ Dispatch \/ StreamSend \/ ReturnReply \/ ReturnError \/ ReturnNothing
  \/ SendEvent

Init == InitParser /\ InitServer

Next ==
  \/ ParserNext /\ UNCHANGED serverVars
  \/ ServerNext /\ UNCHANGED parserVars

(* The generator is one thread that runs until it is done. *)
Spec == Init /\ [][Next]_vars /\ WF_vars(ParserNext /\ UNCHANGED serverVars)
-----------------------------------------------------------------------------
(* Properties *)

Word(values) == [value : values, net : BOOLEAN]
RequestType == [id : 1 .. MaxRequests, client : Clients, name : Callers(services),
                index : Word(Clients), context : Word(1 .. MaxRequests)]

TypeOK ==
  /\ outcome \in {"running", "accepted", "rejected", "overflow"}
  /\ Len(frames) \in 1 .. MaxDepth
  /\ \A i \in DOMAIN frames :
       /\ frames[i].file \in DOMAIN input
       /\ frames[i].phase \in {"imports", "statements"}
       /\ frames[i].at \in 1 .. Len(input[frames[i].file]) + 1
  /\ Range(types) \subseteq {"none", "string", "count"}
  /\ stage \in {"generating", "failed", "serving"}
  /\ clients \in [Clients -> {"none", "open", "closed"}]
  /\ asked \in 0 .. MaxRequests
  /\ ToSet(requests) \cup ToSet(current) \subseteq RequestType
  /\ Len(requests) <= MaxRequests /\ Len(current) <= 1
  /\ held \subseteq [buf : Buffers, name : MessageNames, init : BOOLEAN]
  /\ heap \subseteq Buffers
  /\ outbox \subseteq [buf : Buffers, client : Clients]
  /\ \A c \in Clients : ToSet(sent[c]) \subseteq
       [of : 0 .. MaxRequests, name : MessageNames, context : Word(0 .. MaxRequests)]

(* Every allocated block has one owner, a Message of the plugin or VPP's    *)
(* queue, and every owner has its block: into_raw, which sending, write and *)
(* assume_init go through, must neither free the block nor leave a second   *)
(* Message behind, and a drop must not meet a block that VPP was given.     *)
MessagesOwned ==
  /\ \A m, n \in held : m.buf = n.buf => m = n
  /\ \A o, p \in outbox : o.buf = p.buf => o = p
  /\ \A m \in held, o \in outbox : m.buf # o.buf
  /\ heap = {m.buf : m \in held} \cup {o.buf : o \in outbox}

(* Where, in what was sent to its client, are the letters for the request r. *)
LettersFor(r) == {i \in DOMAIN sent[r.client] : sent[r.client][i].of = r.id}

AnsweredOnce(r) ==
  LET letters == LettersFor(r)
      letter(i) == sent[r.client][i]
      isLast(i) == \A j \in letters : j <= i
      arrived == r.connected /\ Message(r.name).autoendian
  IN /\ \A c \in Clients \ {r.client} : \A l \in ToSet(sent[c]) : l.of # r.id
     /\ \A i \in letters : letter(i).context = Net(r.id)
     /\ letters # {} => r.reached
     /\ r.reached => arrived
     /\ \A s \in Handlers(r.name) :
          /\ \A i \in letters : letter(i).name # StreamOf(s) => isLast(i)
          /\ /\ arrived /\ Answers(s)
             /\ \A i \in DOMAIN current : current[i].id # r.id
             => \E i \in letters : isLast(i) /\ letter(i).name = s.reply
          /\ arrived => r.reached

(* What VPP holds for a client is given up with the client's registration. *)
NothingForTheGone == \A o \in outbox : o.client \in Open

(* A request whose message is declared autoendian and configured with a     *)
(* handler, and that arrives while its client is connected, is answered by  *)
(* one reply that carries the context of the request in network order and   *)
(* comes after its stream of messages, or by the stream alone.  Any other   *)
(* request reaches no method and is not answered at all; nothing is sent to *)
(* the other clients for a request, or to one that has gone.  The handlers  *)
(* generate_register writes have to look the registration up, copy the      *)
(* context, swap and send in the one right order.                           *)
OneAnswerEach == NothingForTheGone /\ \A r \in served : AnsweredOnce(r)
=============================================================================
