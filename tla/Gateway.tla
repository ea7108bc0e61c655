------------------------------- MODULE Gateway -------------------------------
(***************************************************************************)
(* The gateway: GraphQL operations of several clients, each a mutation or  *)
(* a query with a few root fields, resolved by calls of the voyage service *)
(* and turned into one response by the generated executor (GraphQL).  The  *)
(* voyage service is the register its own model implements (VoyageStore),  *)
(* with the one non-atomicity a caller can see: an update, and a create    *)
(* that finds the voyage, write first and read in a second statement.      *)
(***************************************************************************)
EXTENDS GraphQL, FiniteSets

CONSTANTS
    Clients,     \* HTTP requests that may be in progress at a time
    Voyages,     \* client_request_ids
    NoId,        \* the empty client_request_id
    Documents,   \* operations a client may post
    Half32,      \* 2^(w-1) for the w-bit integer that stands for int32
    NotInt,      \* a number that does not fit Go's int
    MaxVersion,  \* bound on the versions an update carries
    MaxFaults    \* bound on failed calls and disconnects

VARIABLES
    version, content, \* the voyage service: per voyage, its version and distance
    late,     \* calls the gateway gave up on that the service may still carry out
    doc,      \* per client: the operation in progress, or Nil
    stage,    \* per client: where each root field is
    reply,    \* per client: the voyage service's reply to each root field
    value,    \* per client: the marshalled value of each root field
    errs,     \* per client: the root fields that reported an error
    known,    \* voyages some answer has shown to exist
    faults    \* how many faults have happened

service == <<version, content, late>>
exec == <<doc, stage, reply, value, errs>>
vars == <<service, exec, known, faults>>

Register == INSTANCE VoyageRegister WITH
                Contents <- 0..Half32 - 1, None <- Nil

MutationNames == {"createVoyage", "updateVoyage"}
RootFields == UNION {{d.fields[i] : i \in 1..Len(d.fields)} : d \in Documents}

\* What the gateway answers of a voyage: the selected fields, here these.
VoyageObjects ==
    [clientRequestId : Voyages, version : 1..MaxVersion, distanceNm : 0..Half32 - 1]

\* A root field that passed validation: it is one of the operation's type, and its
\* arguments have their types, but for the distance, which only Go finds too large.
MutationField(f) ==
    /\ f.name \in MutationNames
    /\ f.id \in Voyages \cup {NoId}
    /\ f.distanceNm \in Int \/ f.distanceNm = NotInt
    /\ f.version \in Int /\ f.version <= MaxVersion
QueryField(f) ==
    /\ f.name \in DOMAIN QueryFields
    /\ f.name = "voyage" => f.id \in Voyages \cup {NoId}
    /\ f.name # "voyage" => f.obj = Nil \/ <<QueryFields[f.name].type, f.obj>> \in Objects

\* Operations in progress, each with what was known to exist when it was posted.
Operations ==
    {[op |-> d.op, fields |-> d.fields, knew |-> k] : d \in Documents, k \in SUBSET Voyages}

ASSUME GatewayAssumption ==
    /\ Half32 \in Nat \ {0} /\ MaxVersion \in Nat \ {0} /\ MaxFaults \in Nat
    /\ NoId \notin Voyages /\ \A x \in {Nil, Null} : x \notin Voyages /\ x \notin Int
    /\ Nil \notin Operations
    /\ \A v \in VoyageObjects :
          <<"Voyage", v>> \in Objects /\ <<"CreateVoyagePayload", [voyage |-> v]>> \in Objects
    /\ \A d \in Documents :
          /\ d.op \in {"mutation", "query"} /\ Len(d.fields) \in Nat
          /\ \A i \in 1..Len(d.fields) :
                /\ d.op = "mutation" => MutationField(d.fields[i])
                /\ d.op = "query" => QueryField(d.fields[i])

Init ==
    /\ Register!Init
    /\ late = {}
    /\ doc = [c \in Clients |-> Nil]
    /\ stage = [c \in Clients |-> <<>>]
    /\ reply = [c \in Clients |-> <<>>]
    /\ value = [c \in Clients |-> <<>>]
    /\ errs = [c \in Clients |-> {}]
    /\ known = {}
    /\ faults = 0

Fault == faults < MaxFaults /\ faults' = faults + 1

\* What a client knew to exist when it posted its operation is part of it.
Post(c, d) ==
    LET blank == [i \in 1..Len(d.fields) |-> Nil] IN
    /\ doc[c] = Nil
    /\ doc' = [doc EXCEPT ![c] = [op |-> d.op, fields |-> d.fields, knew |-> known]]
    /\ stage' = [stage EXCEPT ![c] = [i \in 1..Len(d.fields) |-> "todo"]]
    /\ reply' = [reply EXCEPT ![c] = blank]
    /\ value' = [value EXCEPT ![c] = blank]
    /\ UNCHANGED <<service, errs, known, faults>>

\* The operation does not parse or validate, is a mutation sent by GET, or is
\* neither a query nor a mutation: an error response, and no resolver runs.
Refuse(c) == doc[c] = Nil /\ UNCHANGED vars

Clear(c) ==
    /\ doc' = [doc EXCEPT ![c] = Nil]
    /\ stage' = [stage EXCEPT ![c] = <<>>]
    /\ reply' = [reply EXCEPT ![c] = <<>>]
    /\ value' = [value EXCEPT ![c] = <<>>]
    /\ errs' = [errs EXCEPT ![c] = {}]

Field(c, i) == doc[c].fields[i]
Goto(c, i, label) == stage' = [stage EXCEPT ![c][i] = label]

\* The root field is done: with a value, or with Null and an error.
Done(c, i, v) ==
    /\ value' = [value EXCEPT ![c][i] = v]
    /\ reply' = [reply EXCEPT ![c][i] = Nil]
    /\ Goto(c, i, "done")
    /\ UNCHANGED <<errs, doc, known>>
Error(c, i) ==
    /\ value' = [value EXCEPT ![c][i] = Null]
    /\ errs' = [errs EXCEPT ![c] = @ \cup {i}]
    /\ reply' = [reply EXCEPT ![c][i] = Nil]
    /\ Goto(c, i, "done")
    /\ UNCHANGED <<doc, known>>

Introspection == {f \in RootFields : f.name \in {"__type", "__schema"}}

\* Mutant of MayStart: the root fields of a mutation run concurrently too.
MayStartAny(c, i) == stage[c][i] = "todo"

\* _Mutation runs its fields one after the other, whatever became of the earlier
\* ones; _Query does so with introspection and then runs its voyage fields
\* concurrently.
MayStart(c, i) ==
    /\ stage[c][i] = "todo"
    /\ \A j \in DOMAIN stage[c] :
          \/ doc[c].op = "mutation" /\ j < i
          \/ Field(c, j) \in Introspection /\ (j < i \/ Field(c, i) \notin Introspection)
          => stage[c][j] = "done"

\* The arguments are unmarshalled, an input object's fields in order; the first
\* that has the wrong type is the error, and the resolver is not called.
ArgsOK(f) == f.name \in MutationNames => f.distanceNm # NotInt

BadArgs(c, i) ==
    /\ MayStart(c, i)
    /\ ~ArgsOK(Field(c, i))
    /\ Error(c, i)
    /\ UNCHANGED <<service, faults>>

\* __type and __schema are answered by the executor itself, from the schema alone.
Introspected == [f \in Introspection |-> Marshal(QueryFields[f.name], f.obj)]

Introspect(c, i) ==
    /\ MayStart(c, i)
    /\ Field(c, i) \in Introspection
    /\ Done(c, i, Introspected[Field(c, i)])
    /\ UNCHANGED <<service, faults>>
-----------------------------------------------------------------------------
(* The resolvers (gateway/graph) and the voyage service behind them.       *)

\* CreateVoyage alone looks at the id before it calls the service.
EmptyId(c, i) ==
    /\ MayStart(c, i)
    /\ ArgsOK(Field(c, i))
    /\ Field(c, i).name = "createVoyage" /\ Field(c, i).id = NoId
    /\ Error(c, i)
    /\ UNCHANGED <<service, faults>>

\* int32(input.DistanceNm): Go keeps the low bits.
Narrow(x) == ((x + Half32) % (2 * Half32)) - Half32

\* The message the resolver sends: a distance is cut down to 32 bits.
Call(c, i) ==
    LET f == Field(c, i) IN
    /\ MayStart(c, i)
    /\ f.name \in MutationNames \cup {"voyage"}
    /\ ArgsOK(f)
    /\ ~(f.name = "createVoyage" /\ f.id = NoId)
    /\ Goto(c, i, "called")
    /\ UNCHANGED <<service, doc, reply, value, errs, known, faults>>

\* What the service writes for a valid request.
Write(f) ==
    \/ f.name = "createVoyage" /\ Register!Create(f.id, Narrow(f.distanceNm))
    \/ f.name = "updateVoyage" /\ Register!Raise(f.id, f.version, Narrow(f.distanceNm))

Writes(f) ==
    \/ f.name = "createVoyage" /\ version[f.id] = 0
    \/ f.name = "updateVoyage" /\ version[f.id] # 0 /\ version[f.id] < f.version

\* Voyage.Validate, and the id check of GetVoyage, in the service.
Valid(f) == f.id # NoId /\ (f.name \in MutationNames => Narrow(f.distanceNm) >= 0)

Status(code) == [code |-> code]
Row(v) == [code |-> "OK", id |-> v, version |-> version[v], distanceNm |-> content[v]]

Reply(c, i, r) ==
    /\ reply' = [reply EXCEPT ![c][i] = r]
    /\ Goto(c, i, "replied")
    /\ UNCHANGED <<doc, value, errs, known>>

Reject(c, i) ==
    /\ stage[c][i] = "called"
    /\ ~Valid(Field(c, i))
    /\ Reply(c, i, Status("InvalidArgument"))
    /\ UNCHANGED <<service, faults>>

\* A create that inserts replies with the row it inserted.
Insert(c, i) ==
    LET f == Field(c, i) IN
    /\ stage[c][i] = "called" /\ Valid(f)
    /\ f.name = "createVoyage" /\ Writes(f) /\ Write(f)
    /\ Reply(c, i, [code |-> "OK", id |-> f.id, version |-> 1, distanceNm |-> Narrow(f.distanceNm)])
    /\ UNCHANGED <<late, faults>>

\* An update writes if its version is higher; it, a create that finds the voyage
\* and a query go on to read the voyage as it is by then.
Execute(c, i) ==
    LET f == Field(c, i) IN
    /\ stage[c][i] = "called" /\ Valid(f)
    /\ ~(f.name = "createVoyage" /\ Writes(f))
    /\ IF Writes(f) THEN Write(f) ELSE UNCHANGED <<version, content>>
    /\ Goto(c, i, "written")
    /\ UNCHANGED <<late, doc, reply, value, errs, known, faults>>

Get(c, i) ==
    LET v == Field(c, i).id IN
    /\ stage[c][i] = "written"
    /\ Reply(c, i, IF version[v] = 0 THEN Status("NotFound") ELSE Row(v))
    /\ UNCHANGED <<service, faults>>

\* The call fails before or after it took effect (a broken connection, a database
\* error, a quote that fails); the service may still carry it out.
CallFails(c, i) ==
    /\ Fault
    /\ stage[c][i] \in {"called", "written"}
    /\ Reply(c, i, Status("Unavailable"))
    /\ \/ UNCHANGED late
       \/ /\ stage[c][i] = "called" /\ Field(c, i).name \in MutationNames
          /\ late' = late \cup {Field(c, i)}
    /\ UNCHANGED <<version, content>>

LateArrives(f) ==
    /\ late' = late \ {f}
    /\ IF Valid(f) /\ Writes(f) THEN Write(f) ELSE UNCHANGED <<version, content>>
    /\ UNCHANGED <<exec, known, faults>>

\* Mutant of ToModelVoyage: the answer echoes the request.
ToModelVoyageEcho(f, r) ==
    [clientRequestId |-> r.id, version |-> r.version,
     distanceNm |-> IF f.name = "voyage" THEN r.distanceNm ELSE Narrow(f.distanceNm)]

\* toModelVoyage, on the fields whose values matter here.
ToModelVoyage(f, r) ==
    [clientRequestId |-> r.id, version |-> r.version, distanceNm |-> r.distanceNm]

\* What the resolver returns for an OK reply.  The quote of a create, best effort
\* and never stored, is left out.
Resolved(f, r) ==
    IF f.name = "createVoyage" THEN [voyage |-> ToModelVoyage(f, r)] ELSE ToModelVoyage(f, r)

RootType(op) == IF op = "mutation" THEN "Mutation" ELSE "Query"

\* Mutant of IsNull: the query resolver answers null whatever went wrong.
IsNullAlways(f, r) == f.name = "voyage" /\ r.code # "OK"

\* An unknown voyage is null, not an error.
IsNull(f, r) == f.name = "voyage" /\ r.code = "NotFound"

Resolve(c, i) ==
    LET f == Field(c, i)
        r == reply[c][i]
        field == FieldsOf(RootType(doc[c].op))[f.name]
    IN
    /\ stage[c][i] = "replied"
    /\ \/ r.code = "OK" /\ Done(c, i, Marshal(field, Resolved(f, r)))
       \/ IsNull(f, r) /\ Done(c, i, Marshal(field, Nil))
       \/ r.code # "OK" /\ ~IsNull(f, r) /\ Error(c, i)
    /\ UNCHANGED <<service, faults>>
-----------------------------------------------------------------------------
(* The response.                                                           *)

\* Mutant of DataNull: a failed mutation leaves a hole among the others.
DataNullNever(op, vals) == FALSE

\* _Mutation counts every null among its fields, _Query none.
DataNull(op, vals) == op = "mutation" /\ \E i \in DOMAIN vals : vals[i] = Null

\* The voyages a field's value shows to exist.
Shown(f, v) == IF v # Null /\ f.name \in MutationNames \cup {"voyage"} THEN {f.id} ELSE {}

\* All root fields are done: the response is determined.
Ready(c) == doc[c] # Nil /\ \A i \in DOMAIN stage[c] : stage[c][i] = "done"
NoData(c) == DataNull(doc[c].op, value[c])

Respond(c) ==
    /\ Ready(c)
    /\ known' = IF NoData(c) THEN known
                ELSE known \cup UNION {Shown(Field(c, i), value[c][i]) : i \in DOMAIN value[c]}
    /\ Clear(c)
    /\ UNCHANGED <<service, faults>>

\* The client gives up: its context ends the calls in progress, which the service
\* may still carry out, and makes every call not yet made fail.
Disconnect(c) ==
    /\ Fault
    /\ doc[c] # Nil
    /\ late' = late \cup {Field(c, i) : i \in {j \in DOMAIN stage[c] :
                    stage[c][j] = "called" /\ Field(c, j).name \in MutationNames}}
    /\ Clear(c)
    /\ UNCHANGED <<version, content, known>>

\* One step of a root field's goroutine, or of the service on its behalf.
Step(c) ==
    \/ \E i \in DOMAIN stage[c] :
          \/ BadArgs(c, i) \/ Introspect(c, i) \/ EmptyId(c, i) \/ Call(c, i)
          \/ Reject(c, i) \/ Insert(c, i) \/ Execute(c, i) \/ Get(c, i)
          \/ Resolve(c, i)
    \/ Respond(c)

Next ==
    \/ \E c \in Clients :
         \/ \E d \in Documents : Post(c, d)
         \/ Refuse(c)
         \/ Step(c)
         \/ \E i \in DOMAIN stage[c] : CallFails(c, i)
         \/ Disconnect(c)
    \/ \E f \in late : LateArrives(f)

Spec == Init /\ [][Next]_vars
-----------------------------------------------------------------------------
(* Properties.                                                             *)

Stages == {"todo", "called", "written", "replied", "done"}
ServiceType ==
    /\ version \in [Voyages -> 0..MaxVersion]
    /\ content \in [Voyages -> 0..Half32 - 1 \cup {Nil}]
    /\ late \in SUBSET RootFields
    /\ known \in SUBSET Voyages
    /\ faults \in 0..MaxFaults

\* The root fields of the operation in progress, by their position.
Positions(c) == IF doc[c] = Nil THEN {} ELSE 1..Len(doc[c].fields)

ExecType ==
    /\ doc \in [Clients -> Operations \cup {Nil}]
    /\ DOMAIN stage = Clients /\ DOMAIN reply = Clients
    /\ DOMAIN value = Clients /\ DOMAIN errs = Clients
    /\ \A c \in Clients :
          /\ stage[c] \in [Positions(c) -> Stages]
          /\ DOMAIN reply[c] = Positions(c) /\ DOMAIN value[c] = Positions(c)
          /\ errs[c] \subseteq Positions(c)

\* Types, and one entry per root field of the operation in progress, as the
\* executor's FieldSet has: nothing of an operation outlives its response.
TypeOK == ServiceType /\ ExecType

\* A response is what the schema's text allows: a null only where it is declared
\* nullable, nothing but null for a mutation with a failed field, and never a null
\* that no error explains but an unknown voyage or an unknown type.
ResponseConforms ==
    \A c \in Clients : Ready(c) =>
        /\ NoData(c) <=> doc[c].op = "mutation" /\ errs[c] # {}
        /\ ~NoData(c) => \A i \in DOMAIN value[c] :
              /\ FieldConforms(Conforms, RootType(doc[c].op), Field(c, i).name, value[c][i])
              /\ i \in errs[c] => value[c][i] = Null

\* The voyage of field i of an operation is known to exist when the field runs: it
\* was known when the operation was posted, or an earlier field that reported no
\* error creates it.
Exists(c, i) ==
    \/ Field(c, i).id \in doc[c].knew
    \/ \E j \in 1..(i - 1) :
          /\ Field(c, j).name = "createVoyage" /\ Field(c, j).id = Field(c, i).id
          /\ j \notin errs[c]

\* A mutation that is not among the errors of its response took effect, in order
\* ("returns nil only on a clean ack", transport.go), and so it did when another of
\* the operation failed and the response has no data: a created voyage exists, and
\* one updated after it was known, or after the create in front of it, has the asked
\* or a higher version, whoever else writes meanwhile.
CleanMeansDone ==
    \A c \in Clients : Ready(c) =>
        \A i \in DOMAIN stage[c] \ errs[c] :
            LET f == Field(c, i) IN
            /\ f.name = "createVoyage" => version[f.id] > 0
            /\ f.name = "updateVoyage" /\ Exists(c, i) => version[f.id] >= f.version

\* A null voyage without an error means the voyage was unknown: never a voyage an
\* answer had shown before the query was posted, and never a failed call.
NullMeansUnknown ==
    \A c \in Clients : Ready(c) =>
        \A i \in DOMAIN stage[c] :
            Field(c, i).name = "voyage" /\ value[c][i] = Null /\ i \notin errs[c]
                => Field(c, i).id \in Voyages \ doc[c].knew

ShownVoyage(f, v) == IF f.name = "createVoyage" THEN v.voyage ELSE v

\* What a response shows of a voyage was stored: its version is not ahead of the
\* service, and while the service is still at that version so is its distance,
\* although a create that lost to another is answered with the other's voyage.
AnswersAreStored ==
    \A c \in Clients : Ready(c) =>
        \A i \in DOMAIN stage[c] :
            LET f == Field(c, i)
                v == ShownVoyage(f, value[c][i])
            IN  f.name \in MutationNames \cup {"voyage"} /\ value[c][i] # Null =>
                    /\ v.version <= version[f.id]
                    /\ v.version = version[f.id] => v.distanceNm = content[f.id]
=============================================================================
