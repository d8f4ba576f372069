----------------------------- MODULE ApiParser -----------------------------
(***************************************************************************)
(* ApiParser of vpp-plugin-api-gen: a .api file and the files it imports   *)
(* are read depth first, their types enter one table, and the services of  *)
(* the messages are completed the way vppapigen.py completes them          *)
(* (src/vpp-plugin-api-gen/src/parser.rs).                                 *)
(*                                                                         *)
(* A file is a sequence of statements, the output of the grammar.  A       *)
(* message name is the sequence of its words (p_reply is <<"p", "reply">>),*)
(* the type vl_api_x_t is written "x", and a CRC, an option, a comment and *)
(* the value of an enum variant are left out.                              *)
(***************************************************************************)
EXTENDS Naturals, Sequences, FiniteSets, SequencesExt

CONSTANTS Inputs,     \* the sets of .api files that are tried: file -> statements
          Top,        \* the file the generator is started with
          MaxDepth    \* the nesting of imports at which the stack ends

(* parse_file gives every file as a list of statements, and the services   *)
(* of a statement as a list; the file the generator is started with exists. *)
ASSUME ParserAssumption ==
  /\ MaxDepth \in Nat \ {0}
  /\ \A files \in Inputs :
       /\ Top \in DOMAIN files
       /\ \A f \in DOMAIN files :
            /\ files[f] \in Seq(ToSet(files[f]))
            /\ \A s \in ToSet(files[f]) :
                 s.kind = "service" => s.services \in Seq(ToSet(s.services))

VARIABLES
  input,     \* the files on disk
  frames,    \* the activations of do_imports and process_statements
  types,     \* global_types_by_name
  messages,  \* messages of the top-level file
  services,  \* its services
  outcome    \* what ApiParser::new has come to

parserVars == <<input, frames, types, messages, services, outcome>>

Null == <<"null">>
Scalars == {"u8", "bool", "u16", "u32", "i32", "string"}

-----------------------------------------------------------------------------
(* Fields: [type, name, size, count].  size says how the field is declared: *)
(* "one", "fixed", "by" (an array of variable length whose *)
(* length is the field named count) or "bare" (a string without a bound).   *)

(* Field::vla: the array of variable length a field ends with, if any.      *)
(* types holds the same for every type, as TypeEntry::vla sees it.          *)
FieldVla(f, fields, table) ==
  IF f.type = "string" /\ f.size = "bare" THEN "string"
  ELSE IF f.size = "by" /\ \E g \in ToSet(fields) : g.name = f.count THEN "count"
  ELSE IF f.type \in DOMAIN table THEN table[f.type]
  ELSE "none"

(* ApiParser::validate_vla *)
Valid(fields, union, table) ==
  \A i \in DOMAIN fields :
    /\ ~(fields[i].type = "string" /\ fields[i].size = "one")
    /\ FieldVla(fields[i], fields, table) # "none" => ~union /\ i = Len(fields)
    /\ fields[i].size = "by" => \E g \in ToSet(fields) : g.name = fields[i].count

(* ApiParser::crc_for_fields: every named type is in the table. *)
Resolved(fields, table) ==
  \A f \in ToSet(fields) :
    f.type \in Scalars \cup DOMAIN table

(* TypeDetails::vla: a structure ends like its last field; an alias is      *)
(* looked through for a string only, not for a type that ends in an array.  *)
TypeVla(s, table) ==
  IF s.kind = "block" /\ s.fields # <<>>
  THEN FieldVla(Last(s.fields), s.fields, table)
  ELSE IF s.kind = "alias" /\ s.field.type = "string" /\ s.field.size = "bare"
  THEN "string"
  ELSE "none"

TypeKinds == {"block", "alias", "union", "enum"}
TypeName(s) == IF s.kind = "alias" THEN s.field.name ELSE s.name

-----------------------------------------------------------------------------
(* Messages *)

One(type, name) == [type |-> type, name |-> name, size |-> "one", count |-> 0]
IdField == One("u16", "_vl_msg_id")

(* Message::new *)
NewMessage(s) ==
  [name |-> s.name, fields |-> <<IdField>> \o s.fields, autoendian |-> s.autoendian]

(* Message::generated_reply *)
GeneratedReply(s) ==
  IF s.reply = "none" THEN <<>>
  ELSE << [name |-> Append(s.name, "reply"),
           fields |-> <<IdField, One("u32", "context"), One("i32", "retval")>>
                      \o (IF s.reply = "auto" THEN <<>> ELSE <<One("u32", "index")>>),
           autoendian |-> FALSE] >>

Names(msgs) == {m.name : m \in ToSet(msgs)}

(* name.strip_suffix("_" + word), when there is one to strip *)
Ends(name, word) == Len(name) > 1 /\ Last(name) = word
Base(name) == Front(name)

(* service_by_caller: of two services with one caller the later is seen. *)
Effective(svcs) ==
  {svcs[i] : i \in {j \in DOMAIN svcs :
                      \A k \in DOMAIN svcs : k > j => svcs[k].caller # svcs[j].caller}}
Callers(svcs) == {s.caller : s \in ToSet(svcs)}
Seen(svcs) == UNION {s.events : s \in Effective(svcs)}

(* The services that are written down are about messages that exist. *)
ServicesDefined(msgs, svcs) ==
  \A s \in Effective(svcs) :
    /\ s.caller \in Names(msgs)
    /\ s.reply \in Names(msgs) \cup {Null}
    /\ \A t \in ToSet(svcs) : t.reply # s.caller
    /\ s.events \subseteq Names(msgs)

(* The message has the partner its name asks for. *)
Paired(name, msgs, svcs) ==
  LET names   == Names(msgs)
      callers == Callers(svcs)
      With(w) == Append(Base(name), w)
  IN CASE Ends(name, "reply")   -> Base(name) \in callers \cup names
       [] Ends(name, "dump")    -> name \in callers \/ With("details") \in names
       [] Ends(name, "details") -> IF With("get") \in names
                                   THEN With("get") \in callers
                                   ELSE With("dump") \in names
       [] OTHER                 -> name \in callers \/ Append(name, "reply") \in names

(* Deviation: a service is made up although one was written down. *)
NeedsServiceAlways(name, svcs) ==
  /\ name \notin Seen(svcs)
  /\ ~Ends(name, "reply") /\ ~Ends(name, "details")

(* Whether a service is made up for a message nobody wrote one for. *)
NeedsService(name, svcs) ==
  /\ name \notin Seen(svcs)
  /\ ~Ends(name, "reply") /\ ~Ends(name, "details")
  /\ name \notin Callers(svcs)

ImplicitService(m) ==
  [caller |-> m.name,
   reply  |-> IF Ends(m.name, "dump") THEN Append(Base(m.name), "details")
              ELSE Append(m.name, "reply"),
   events |-> {}, stream |-> Ends(m.name, "dump"), via |-> Null]

(* The loop over the messages: what the services are after n of them *)
Completed(msgs, svcs) ==
  LET after[n \in 0 .. Len(msgs)] ==
        IF n = 0 THEN svcs
        ELSE IF NeedsService(msgs[n].name, svcs)
        THEN Append(after[n - 1], ImplicitService(msgs[n]))
        ELSE after[n - 1]
  IN after[Len(msgs)]

-----------------------------------------------------------------------------
(* Reading the files *)

Frame(file) == [file |-> file, phase |-> "imports", at |-> 1]
Here == Last(frames)
IsTop == Len(frames) = 1

(* Deviations: the walk over the statements stands still, or leaves one out. *)
AdvancedNot == frames
AdvancedTwice == [frames EXCEPT ![Len(frames)].at = @ + 2]

Advanced == [frames EXCEPT ![Len(frames)].at = @ + 1]

InitParser ==
  /\ input \in Inputs
  /\ frames = <<Frame(Top)>>
  /\ types = <<>>
  /\ messages = <<>>
  /\ services = <<>>
  /\ outcome = "running"

Reject ==
  /\ outcome' = "rejected"
  /\ UNCHANGED <<input, frames, types, messages, services>>

AtStatement(phase) ==
  /\ outcome = "running" /\ Here.phase = phase
  /\ Here.at \in DOMAIN input[Here.file]

AtEnd(phase) ==
  /\ outcome = "running" /\ Here.phase = phase
  /\ Here.at \notin DOMAIN input[Here.file]

Statement == input[Here.file][Here.at]

(* do_imports reaches an import: the file is parsed and its own imports     *)
(* come first.  Nothing remembers the files that are already being read.    *)
EnterImport ==
  /\ AtStatement("imports") /\ Statement.kind = "import"
  /\ \/ /\ Statement.file \notin DOMAIN input
        /\ Reject
     \/ /\ Statement.file \in DOMAIN input /\ Len(frames) < MaxDepth
        /\ frames' = Append(Advanced, Frame(Statement.file))
        /\ UNCHANGED <<input, types, messages, services, outcome>>
     \/ /\ Statement.file \in DOMAIN input /\ Len(frames) >= MaxDepth
        /\ outcome' = "overflow"
        /\ UNCHANGED <<input, frames, types, messages, services>>

(* do_imports passes by what is no import. *)
PassBy ==
  /\ AtStatement("imports") /\ Statement.kind # "import"
  /\ frames' = Advanced
  /\ UNCHANGED <<input, types, messages, services, outcome>>

EndImports ==
  /\ AtEnd("imports")
  /\ frames' = [frames EXCEPT ![Len(frames)] =
                  [file |-> Here.file, phase |-> "statements", at |-> 1]]
  /\ UNCHANGED <<input, types, messages, services, outcome>>

(* A message: an imported one is validated and forgotten. *)
Define ==
  /\ AtStatement("statements") /\ Statement.kind = "define"
  /\ \/ /\ \/ ~Valid(Statement.fields, FALSE, types)
           \/ IsTop /\ ~Resolved(Statement.fields, types)
        /\ Reject
     \/ /\ Valid(Statement.fields, FALSE, types)
        /\ IsTop => Resolved(Statement.fields, types)
        /\ messages' = IF IsTop
                       THEN Append(messages, NewMessage(Statement))
                            \o GeneratedReply(Statement)
                       ELSE messages
        /\ frames' = Advanced
        /\ UNCHANGED <<input, types, services, outcome>>

(* A type passes its checks; the target of an alias is not looked up. *)
TypeAccepted(s, table) ==
  CASE s.kind \in {"block", "union"} -> /\ Valid(s.fields, s.kind = "union", table)
                                        /\ Resolved(s.fields, table)
    [] s.kind = "alias" -> s.field.size # "by"
    [] s.kind = "enum"  -> TRUE

(* Deviation: a second definition replaces the first without an error. *)
IsNewOrNot(name) == TRUE

IsNew(name) == name \notin DOMAIN types

DefineType ==
  /\ AtStatement("statements") /\ Statement.kind \in TypeKinds
  /\ LET name == TypeName(Statement)
     IN \/ /\ ~TypeAccepted(Statement, types) \/ ~IsNew(name)
           /\ Reject
        \/ /\ TypeAccepted(Statement, types) /\ IsNew(name)
           /\ types' = [t \in DOMAIN types \cup {name} |->
                          IF t = name THEN TypeVla(Statement, types) ELSE types[t]]
           /\ frames' = Advanced
           /\ UNCHANGED <<input, messages, services, outcome>>

(* Services count in the top-level file only. *)
AddServices ==
  /\ AtStatement("statements") /\ Statement.kind = "service"
  /\ services' = IF IsTop THEN services \o Statement.services ELSE services
  /\ frames' = Advanced
  /\ UNCHANGED <<input, types, messages, outcome>>

(* Imports were followed before; an option decides nothing. *)
SkipStatement ==
  /\ AtStatement("statements") /\ Statement.kind \in {"import", "option"}
  /\ frames' = Advanced
  /\ UNCHANGED <<input, types, messages, services, outcome>>

EndImport ==
  /\ AtEnd("statements") /\ ~IsTop
  /\ frames' = Front(frames)
  /\ UNCHANGED <<input, types, messages, services, outcome>>

(* ApiParser::process *)
Process ==
  /\ AtEnd("statements") /\ IsTop
  /\ LET fine == /\ ServicesDefined(messages, services)
                 /\ \A n \in Names(messages) \ Seen(services) :
                      Paired(n, messages, services)
     IN \/ ~fine /\ Reject
        \/ /\ fine
           /\ services' = Completed(messages, services)
           /\ outcome' = "accepted"
           /\ UNCHANGED <<input, frames, types, messages>>

ParserNext ==
  \/ EnterImport \/ PassBy \/ EndImports
  \/ Define \/ DefineType \/ AddServices \/ SkipStatement
  \/ EndImport \/ Process

-----------------------------------------------------------------------------
(* Properties *)

(* A chain of n imports that starts in the top-level file: each of them is  *)
(* a statement, <<file, position>>, of the file the one before it names.    *)
ImportPlaces ==
  {p \in UNION {{f} \X DOMAIN input[f] : f \in DOMAIN input} :
     LET s == input[p[1]][p[2]] IN s.kind = "import" /\ s.file \in DOMAIN input}

LeadsTo(chain, n) ==
  IF n = 0 THEN Top ELSE input[chain[n][1]][chain[n][2]].file

Chains(n) ==
  {c \in [1 .. n -> ImportPlaces] : \A k \in 1 .. n : c[k][1] = LeadsTo(c, k - 1)}

Acyclic == Chains(Cardinality(DOMAIN input)) = {}

(* The statements that define a type, along the n imports of a chain *)
DefinedAlong(c, n, name) ==
  {i \in DOMAIN input[LeadsTo(c, n)] :
     LET s == input[LeadsTo(c, n)][i] IN s.kind \in TypeKinds /\ TypeName(s) = name}

Definitions(name) ==
  UNION {UNION {{c} \X DefinedAlong(c, n, name) : c \in Chains(n)} :
           n \in 0 .. MaxDepth - 1}

TypeNames == {TypeName(s) : s \in {t \in UNION {ToSet(input[f]) : f \in DOMAIN input} :
                                      t.kind \in TypeKinds}}

(* In an API that is accepted every type of the table comes from one       *)
(* statement, reached through one chain of imports, and no chain is as     *)
(* long as the stack is deep: the table, the lists of own types and the    *)
(* modules they are generated in cannot disagree about what a name means.  *)
(* The recursion of do_imports keeps no record of the files it read; it is *)
(* the error of the second insertion in process_statements that a file     *)
(* imported along two chains runs into.                                    *)
OneDefinitionEach ==
  outcome = "accepted" =>
    /\ Chains(MaxDepth) = {}
    /\ \A t \in TypeNames :
         Cardinality(Definitions(t)) = (IF t \in DOMAIN types THEN 1 ELSE 0)

(* Reading ends with a verdict unless the imports run in a circle: every   *)
(* frame of do_imports is left, and nesting stays below the stack's end.   *)
AcyclicEnds == Acyclic => <>(outcome \in {"accepted", "rejected"})

Distinct(seq) == \A i, j \in DOMAIN seq : i # j => seq[i] # seq[j]
CallerList(svcs) == [i \in DOMAIN svcs |-> svcs[i].caller]

(* The services the top-level file writes down have callers of their own. *)
WrittenOnce ==
  LET written == {i \in DOMAIN input[Top] : input[Top][i].kind = "service"}
      list(i) == input[Top][i].services
  IN \A i, j \in written : \A a \in DOMAIN list(i), b \in DOMAIN list(j) :
       list(i)[a].caller = list(j)[b].caller => i = j /\ a = b

(* When the file gives its messages and the callers of its services names  *)
(* of their own, completing the services in process() leaves every message *)
(* that is a request, by its name and by being no event, with exactly one  *)
(* service, and every service with messages that exist: neither a second   *)
(* handler with the same name is generated nor a request without one.      *)
EveryRequestHasOneService ==
  /\ outcome = "accepted"
  /\ Distinct([i \in DOMAIN messages |-> messages[i].name])
  /\ WrittenOnce
  => /\ Distinct(CallerList(services))
     /\ \A n \in Names(messages) :
          n \in Seen(services) \/ Ends(n, "reply") \/ Ends(n, "details")
            \/ n \in Callers(services)
     /\ \A s \in ToSet(services) : /\ s.caller \in Names(messages)
                                   /\ s.reply \in Names(messages) \cup {Null}
=============================================================================
