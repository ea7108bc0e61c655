---------------------------- MODULE GatewayProofs ----------------------------
(***************************************************************************)
(* Theorems about Gateway, for any clients, operations, voyages, integer   *)
(* width and number of faults: a mutation without an error took effect, a  *)
(* null means that the voyage was unknown, and what is shown was stored;   *)
(* and every response is one the schema allows.                            *)
(***************************************************************************)
EXTENDS Gateway, GraphQLProofs

(* The inductive invariant, by what is known of a root field at each stage. *)

\* The root fields that are resolved by a call of the voyage service.
Asked(f) == f.name \in MutationNames \cup {"voyage"}

\* The field's mutation has taken effect, or something newer has.
Landed(c, i) ==
    LET f == Field(c, i) IN
    /\ f.id \in Voyages
    /\ f.name = "createVoyage" => version[f.id] > 0
    /\ f.name = "updateVoyage" /\ Exists(c, i) => version[f.id] >= f.version

\* x is what the service held of voyage v, now or at an earlier version.
Stored(v, x) ==
    /\ x.version <= version[v]
    /\ x.version = version[v] => x.distanceNm = content[v]

CallInv(c, i) ==
    /\ stage[c][i] \in {"called", "written", "replied"} =>
          Asked(Field(c, i)) /\ ArgsOK(Field(c, i))
    /\ stage[c][i] = "written" => Valid(Field(c, i)) /\ Landed(c, i)

Rows(v) ==
    [code : {"OK"}, id : {v}, version : 1..MaxVersion, distanceNm : 0..Half32 - 1]

ReplyInv(c, i) ==
    LET f == Field(c, i)
        r == reply[c][i]
    IN
    stage[c][i] = "replied" =>
        /\ r.code = "OK" => r \in Rows(f.id) /\ Stored(f.id, r) /\ Landed(c, i)
        /\ r.code = "NotFound" /\ f.name = "voyage" => f.id \in Voyages \ doc[c].knew

\* What a voyage looks like in the answer of field f.
Wrapped(f, w) == IF f.name = "createVoyage" THEN [voyage |-> w] ELSE w

ValueInv(c, i) ==
    LET f == Field(c, i)
        x == value[c][i]
    IN
    stage[c][i] = "done" =>
        \/ i \in errs[c] /\ x = Null
        \/ i \notin errs[c] /\ f \in Introspection /\ x = Introspected[f]
        \/ /\ i \notin errs[c] /\ f.name = "voyage" /\ x = Null
           /\ f.id \in Voyages \ doc[c].knew
        \/ /\ i \notin errs[c] /\ Asked(f) /\ Landed(c, i)
           /\ \E w \in VoyageObjects : x = Wrapped(f, w) /\ Stored(f.id, w)

FieldInv(c, i) == CallInv(c, i) /\ ReplyInv(c, i) /\ ValueInv(c, i)
FieldsInv == \A c \in Clients : \A i \in Positions(c) : FieldInv(c, i)

\* A mutation's fields run in turn, and errors are those of fields that are done.
OrderInv ==
    \A c \in Clients : \A i \in Positions(c) :
        /\ i \in errs[c] => stage[c][i] = "done"
        /\ doc[c].op = "mutation" /\ stage[c][i] # "todo" =>
              \A j \in Positions(c) : j < i => stage[c][j] = "done"

\* What an answer has shown to exist exists.
KnownInv ==
    /\ \A v \in known : version[v] > 0
    /\ \A c \in Clients : doc[c] # Nil => \A v \in doc[c].knew : version[v] > 0

\* Abandoned calls are of mutations whose arguments were accepted.
LateInv == \A f \in late : f.name \in MutationNames /\ ArgsOK(f)

\* A stored distance has passed the service's check.
DistanceInv == \A v \in Voyages : version[v] # 0 => content[v] \in 0..Half32 - 1

GatewayInv == TypeOK /\ FieldsInv /\ OrderInv /\ KnownInv /\ LateInv /\ DistanceInv
-----------------------------------------------------------------------------
(* The operators.                                                          *)

\* int32(x) is in range.
LEMMA NarrowFits ==
    ASSUME NEW x \in Int
    PROVE  Narrow(x) \in -Half32 .. Half32 - 1
<1> DEFINE b == 2 * Half32
           a == x + Half32
<1>1. a \in Int /\ b \in Nat \ {0}
  BY GatewayAssumption
<1>2. a % b \in 0..(b - 1)
  <2> HIDE DEF a, b
  <2> QED BY <1>1
<1> QED
  BY <1>2, GatewayAssumption DEF Narrow

\* The root fields of the operations that clients may post.
LEMMA RootFieldTypes ==
    ASSUME NEW f \in RootFields
    PROVE  MutationField(f) \/ QueryField(f)
<1>1. PICK d \in Documents : f \in {d.fields[i] : i \in 1..Len(d.fields)}
  BY DEF RootFields
<1>2. PICK i \in 1..Len(d.fields) : f = d.fields[i]
  BY <1>1
<1> QED
  BY <1>2, GatewayAssumption

\* What an operation in progress asks for.
LEMMA OperationFields ==
    ASSUME ExecType, NEW c \in Clients, NEW i \in Positions(c)
    PROVE  /\ doc[c] # Nil /\ Positions(c) = 1..Len(doc[c].fields)
           /\ Len(doc[c].fields) \in Nat
           /\ doc[c].op \in {"mutation", "query"} /\ doc[c].knew \subseteq Voyages
           /\ Field(c, i) \in RootFields
           /\ doc[c].op = "mutation" => MutationField(Field(c, i))
           /\ doc[c].op = "query" => QueryField(Field(c, i))
<1>1. doc[c] # Nil /\ Positions(c) = 1..Len(doc[c].fields)
  BY DEF Positions
<1>2. doc[c] \in Operations
  BY <1>1 DEF ExecType
<1>3. PICK d \in Documents, k \in SUBSET Voyages :
         doc[c] = [op |-> d.op, fields |-> d.fields, knew |-> k]
  BY <1>2 DEF Operations
<1>4. doc[c].op = d.op /\ doc[c].fields = d.fields /\ doc[c].knew = k
  BY <1>3
<1>5. i \in 1..Len(d.fields) /\ Field(c, i) = d.fields[i]
  BY <1>1, <1>4 DEF Field
<1>6. Field(c, i) \in RootFields
  BY <1>5 DEF RootFields
<1> QED
  BY <1>1, <1>4, <1>5, <1>6, GatewayAssumption

\* A field that is asked of the service names a voyage, or nothing.
LEMMA AskedFields ==
    ASSUME NEW f \in RootFields, Asked(f)
    PROVE  /\ f.id \in Voyages \cup {NoId}
           /\ f \notin Introspection
           /\ f.name \in MutationNames => MutationField(f)
<1>1. DOMAIN QueryFields = {"voyage", "__type", "__schema"}
  BY DEF QueryFields
<1> QED
  BY <1>1, RootFieldTypes DEF Asked, MutationField, QueryField, MutationNames, Introspection
-----------------------------------------------------------------------------
(* What a step does to the service.                                        *)

\* Voyage v is created or raised to a higher version, with the content of a request.
Wrote(v, n, d) ==
    /\ v \in Voyages /\ n \in 1..MaxVersion /\ d \in 0..Half32 - 1
    /\ version[v] < n
    /\ version' = [version EXCEPT ![v] = n]
    /\ content' = [content EXCEPT ![v] = d]

Moves == UNCHANGED <<version, content>> \/ \E v, n, d : Wrote(v, n, d)

\* A valid request that writes.
LEMMA WriteMoves ==
    ASSUME ServiceType, NEW f \in RootFields, f.name \in MutationNames, ArgsOK(f),
           Valid(f), Writes(f), Write(f)
    PROVE  Wrote(f.id, IF f.name = "createVoyage" THEN 1 ELSE f.version, Narrow(f.distanceNm))
<1>1. MutationField(f) /\ f.id \in Voyages
  BY AskedFields DEF Asked, Valid
<1>2. f.distanceNm \in Int /\ Narrow(f.distanceNm) \in 0..Half32 - 1
  <2>1. f.distanceNm \in Int
    BY <1>1 DEF MutationField, ArgsOK
  <2>2. Narrow(f.distanceNm) \in -Half32 .. Half32 - 1
    BY <2>1, NarrowFits
  <2>3. Narrow(f.distanceNm) >= 0
    BY DEF Valid
  <2> QED
    BY <2>1, <2>2, <2>3, GatewayAssumption
<1>3. version[f.id] \in 0..MaxVersion
  BY <1>1 DEF ServiceType
<1>4. CASE f.name = "createVoyage"
  BY <1>1, <1>2, <1>3, <1>4, GatewayAssumption
  DEF Write, Register!Create, Register!Put, Wrote
<1>5. CASE f.name = "updateVoyage"
  <2>1. f.version \in 1..MaxVersion /\ version[f.id] < f.version
    BY <1>1, <1>3, <1>5 DEF Write, Register!Raise, MutationField
  <2> QED
    BY <1>1, <1>2, <1>3, <1>5, <2>1, GatewayAssumption
    DEF Write, Register!Raise, Register!Put, Wrote
<1> QED
  BY <1>4, <1>5 DEF MutationNames
-----------------------------------------------------------------------------
(* What a step does to the root fields.                                    *)

\* Changing one entry of a function of functions.
LEMMA OneEntry ==
    ASSUME NEW f, NEW c \in DOMAIN f, NEW i \in DOMAIN f[c], NEW x, NEW g,
           g = [f EXCEPT ![c][i] = x]
    PROVE  /\ DOMAIN g = DOMAIN f
           /\ \A k \in DOMAIN f : DOMAIN g[k] = DOMAIN f[k]
           /\ \A k \in DOMAIN f : k # c => g[k] = f[k]
           /\ g[c] = [f[c] EXCEPT ![i] = x]
           /\ g[c][i] = x
           /\ \A k \in DOMAIN f : \A j \in DOMAIN f[k] :
                 ~(k = c /\ j = i) => g[k][j] = f[k][j]
OBVIOUS

\* Every root field but field i of client c stays as it is.
Others(c, i) ==
    /\ doc' = doc
    /\ \A k \in Clients : \A j \in Positions(k) : ~(k = c /\ j = i) =>
          /\ stage'[k][j] = stage[k][j]
          /\ reply'[k][j] = reply[k][j]
          /\ value'[k][j] = value[k][j]
          /\ j \in errs'[k] <=> j \in errs[k]
    /\ \A k \in Clients : errs[k] \subseteq errs'[k]

\* Of field i of client c, this is the next stage, reply and value.
Becomes(c, i, s, r, x) ==
    /\ ExecType' /\ Others(c, i)
    /\ stage'[c][i] = s /\ reply'[c][i] = r /\ value'[c][i] = x

LEMMA StageStep ==
    ASSUME ExecType, NEW c \in Clients, NEW i \in Positions(c), NEW s \in Stages,
           Goto(c, i, s), doc' = doc
    PROVE  /\ DOMAIN stage' = Clients
           /\ \A k \in Clients : stage'[k] \in [Positions(k)' -> Stages]
           /\ \A k \in Clients : \A j \in Positions(k) :
                 ~(k = c /\ j = i) => stage'[k][j] = stage[k][j]
           /\ stage'[c][i] = s
<1>1. c \in DOMAIN stage /\ i \in DOMAIN stage[c]
  BY DEF ExecType
<1>2. stage' = [stage EXCEPT ![c][i] = s]
  BY DEF Goto
<1>3. \A k \in Clients : Positions(k)' = Positions(k)
  BY DEF Positions
<1>4. \A k \in Clients : k # c => stage'[k] = stage[k]
  BY <1>1, <1>2, OneEntry DEF ExecType
<1>5. stage'[c] = [stage[c] EXCEPT ![i] = s] /\ DOMAIN stage' = Clients
  BY <1>1, <1>2, OneEntry DEF ExecType
<1>6. \A k \in Clients : stage'[k] \in [Positions(k) -> Stages]
  BY <1>4, <1>5 DEF ExecType
<1> QED
  BY <1>1, <1>3, <1>4, <1>5, <1>6 DEF ExecType

LEMMA EntryStep ==
    ASSUME NEW f, DOMAIN f = Clients, \A k \in Clients : DOMAIN f[k] = Positions(k),
           NEW g, NEW c \in Clients, NEW i \in Positions(c), NEW x,
           g = [f EXCEPT ![c][i] = x]
    PROVE  /\ DOMAIN g = Clients
           /\ \A k \in Clients : DOMAIN g[k] = Positions(k)
           /\ \A k \in Clients : \A j \in Positions(k) :
                 ~(k = c /\ j = i) => g[k][j] = f[k][j]
           /\ g[c][i] = x
  BY OneEntry

\* A field that goes on to another stage.
LEMMA GotoBecomes ==
    ASSUME ExecType, NEW c \in Clients, NEW i \in Positions(c), NEW s \in Stages,
           Goto(c, i, s), UNCHANGED <<doc, reply, value, errs>>
    PROVE  Becomes(c, i, s, reply[c][i], value[c][i])
<1>1. \A k \in Clients : Positions(k)' = Positions(k)
  BY DEF Positions
<1>2. Others(c, i) /\ stage'[c][i] = s
  BY StageStep DEF Others
<1>3. DOMAIN stage' = Clients /\ \A k \in Clients : stage'[k] \in [Positions(k)' -> Stages]
  BY StageStep
<1>4. ExecType'
  BY <1>1, <1>3 DEF ExecType
<1> QED
  BY <1>2, <1>4 DEF Becomes

\* A field whose call is answered.
LEMMA ReplyBecomes ==
    ASSUME ExecType, NEW c \in Clients, NEW i \in Positions(c), NEW r, Reply(c, i, r)
    PROVE  Becomes(c, i, "replied", r, value[c][i]) /\ errs' = errs /\ known' = known
<1>0. "replied" \in Stages /\ Goto(c, i, "replied") /\ UNCHANGED <<doc, value, errs, known>>
  BY DEF Stages, Reply
<1>1. \A k \in Clients : Positions(k)' = Positions(k)
  BY <1>0 DEF Positions
<1>2. /\ DOMAIN stage' = Clients
      /\ \A k \in Clients : stage'[k] \in [Positions(k)' -> Stages]
      /\ \A k \in Clients : \A j \in Positions(k) :
            ~(k = c /\ j = i) => stage'[k][j] = stage[k][j]
      /\ stage'[c][i] = "replied"
  BY <1>0, StageStep
<1>3. /\ DOMAIN reply' = Clients
      /\ \A k \in Clients : DOMAIN reply'[k] = Positions(k)
      /\ \A k \in Clients : \A j \in Positions(k) :
            ~(k = c /\ j = i) => reply'[k][j] = reply[k][j]
      /\ reply'[c][i] = r
  BY EntryStep DEF Reply, ExecType
<1>4. Others(c, i)
  BY <1>0, <1>2, <1>3 DEF Others
<1>5. ExecType'
  BY <1>0, <1>1, <1>2, <1>3 DEF ExecType
<1> QED
  BY <1>0, <1>2, <1>3, <1>4, <1>5 DEF Becomes

\* A field that is done, with a value or with an error.
LEMMA DoneBecomes ==
    ASSUME ExecType, NEW c \in Clients, NEW i \in Positions(c), NEW x,
           value' = [value EXCEPT ![c][i] = x],
           reply' = [reply EXCEPT ![c][i] = Nil],
           Goto(c, i, "done"), UNCHANGED doc,
           DOMAIN errs' = Clients, errs[c] \subseteq errs'[c], errs'[c] \subseteq errs[c] \cup {i},
           \A k \in Clients : k # c => errs'[k] = errs[k]
    PROVE  Becomes(c, i, "done", Nil, x)
<1>0. "done" \in Stages
  BY DEF Stages
<1>1. \A k \in Clients : Positions(k)' = Positions(k)
  BY DEF Positions
<1>2. /\ DOMAIN stage' = Clients
      /\ \A k \in Clients : stage'[k] \in [Positions(k)' -> Stages]
      /\ \A k \in Clients : \A j \in Positions(k) :
            ~(k = c /\ j = i) => stage'[k][j] = stage[k][j]
      /\ stage'[c][i] = "done"
  BY <1>0, StageStep
<1>3. /\ DOMAIN reply' = Clients
      /\ \A k \in Clients : DOMAIN reply'[k] = Positions(k)
      /\ \A k \in Clients : \A j \in Positions(k) :
            ~(k = c /\ j = i) => reply'[k][j] = reply[k][j]
      /\ reply'[c][i] = Nil
  BY EntryStep DEF ExecType
<1>4. /\ DOMAIN value' = Clients
      /\ \A k \in Clients : DOMAIN value'[k] = Positions(k)
      /\ \A k \in Clients : \A j \in Positions(k) :
            ~(k = c /\ j = i) => value'[k][j] = value[k][j]
      /\ value'[c][i] = x
  BY EntryStep DEF ExecType
<1>6. /\ \A k \in Clients : errs[k] \subseteq errs'[k] /\ errs'[k] \subseteq Positions(k)
      /\ \A k \in Clients : \A j \in Positions(k) :
            ~(k = c /\ j = i) => (j \in errs'[k] <=> j \in errs[k])
  BY DEF ExecType
<1>7. Others(c, i)
  BY <1>2, <1>3, <1>4, <1>6 DEF Others
<1>8. ExecType'
  BY <1>1, <1>2, <1>3, <1>4, <1>6 DEF ExecType
<1> QED
  BY <1>2, <1>3, <1>4, <1>7, <1>8 DEF Becomes

LEMMA ErrorBecomes ==
    ASSUME ExecType, NEW c \in Clients, NEW i \in Positions(c), Error(c, i)
    PROVE  /\ Becomes(c, i, "done", Nil, Null) /\ errs'[c] = errs[c] \cup {i}
           /\ known' = known
<1>1. /\ DOMAIN errs' = Clients /\ errs'[c] = errs[c] \cup {i}
      /\ \A k \in Clients : k # c => errs'[k] = errs[k]
  BY DEF Error, ExecType
<1> QED
  BY <1>1, DoneBecomes DEF Error

LEMMA ValueBecomes ==
    ASSUME ExecType, NEW c \in Clients, NEW i \in Positions(c), NEW x, Done(c, i, x)
    PROVE  Becomes(c, i, "done", Nil, x) /\ errs'[c] = errs[c] /\ known' = known
<1>1. /\ DOMAIN errs' = Clients /\ errs'[c] = errs[c]
      /\ \A k \in Clients : k # c => errs'[k] = errs[k]
  BY DEF Done, ExecType
<1>2. /\ value' = [value EXCEPT ![c][i] = x] /\ reply' = [reply EXCEPT ![c][i] = Nil]
      /\ Goto(c, i, "done") /\ UNCHANGED doc /\ known' = known
  BY DEF Done
<1> QED
  BY <1>1, <1>2, DoneBecomes
-----------------------------------------------------------------------------
(* What is known of a field stays true while others run.                   *)

\* Versions only grow, and a content changes with its version.
LEMMA MovesUp ==
    ASSUME ServiceType, Moves, NEW v \in Voyages
    PROVE  /\ version[v] \in Nat /\ version'[v] \in Nat /\ version[v] <= version'[v]
           /\ version'[v] = version[v] => content'[v] = content[v]
<1>1. version[v] \in Nat /\ version \in [Voyages -> 0..MaxVersion] /\ DOMAIN content = Voyages
  BY GatewayAssumption DEF ServiceType
<1>2. CASE UNCHANGED <<version, content>>
  BY <1>1, <1>2
<1>3. ASSUME NEW w, NEW n, NEW d, Wrote(w, n, d)
      PROVE  /\ version'[v] \in Nat /\ version[v] <= version'[v]
             /\ version'[v] = version[v] => content'[v] = content[v]
  <2>1. /\ w \in Voyages /\ n \in Nat /\ version[w] < n
        /\ version' = [version EXCEPT ![w] = n] /\ content' = [content EXCEPT ![w] = d]
    BY <1>3, GatewayAssumption DEF Wrote
  <2>2. CASE v = w
    BY <1>1, <2>1, <2>2
  <2>3. CASE v # w
    BY <1>1, <2>1, <2>3
  <2> QED
    BY <2>2, <2>3
<1> QED
  BY <1>1, <1>2, <1>3 DEF Moves

LEMMA StoredStays ==
    ASSUME ServiceType, Moves, NEW v \in Voyages, NEW x, x.version \in Int, Stored(v, x)
    PROVE  /\ x.version <= version'[v]
           /\ x.version = version'[v] => x.distanceNm = content'[v]
  BY MovesUp DEF Stored

LEMMA LandedStays ==
    ASSUME ServiceType, ExecType, Moves, NEW c \in Clients, NEW i \in Positions(c),
           doc'[c] = doc[c], errs[c] \subseteq errs'[c], Landed(c, i)
    PROVE  Landed(c, i)'
<1>1. Field(c, i)' = Field(c, i) /\ \A j : Field(c, j)' = Field(c, j)
  BY DEF Field
<1>2. Exists(c, i)' => Exists(c, i)
  BY <1>1 DEF Exists
<1> DEFINE f == Field(c, i)
<1>3. f.id \in Voyages
  BY DEF Landed
<1>4. /\ version[f.id] \in Nat /\ version'[f.id] \in Nat /\ version[f.id] <= version'[f.id]
  BY <1>3, MovesUp
<1>5. f.name = "createVoyage" => version'[f.id] > 0
  BY <1>4 DEF Landed
<1>6. f.name = "updateVoyage" /\ Exists(c, i) => version'[f.id] >= f.version
  <2>1. f.name = "updateVoyage" => f.version \in Int
    BY OperationFields DEF MutationField, QueryField, QueryFields
  <2> QED
    BY <1>4, <2>1 DEF Landed
<1> QED
  BY <1>1, <1>2, <1>3, <1>5, <1>6 DEF Landed

LEMMA FieldStays ==
    ASSUME ServiceType, ExecType, Moves, NEW k \in Clients, NEW j \in Positions(k),
           doc'[k] = doc[k], errs[k] \subseteq errs'[k],
           stage'[k][j] = stage[k][j], reply'[k][j] = reply[k][j],
           value'[k][j] = value[k][j], j \in errs'[k] <=> j \in errs[k],
           FieldInv(k, j)
    PROVE  FieldInv(k, j)'
<1> DEFINE f == Field(k, j)
<1>1. /\ doc'[k] = doc[k] /\ Field(k, j)' = f /\ errs[k] \subseteq errs'[k]
      /\ stage'[k][j] = stage[k][j] /\ reply'[k][j] = reply[k][j]
      /\ value'[k][j] = value[k][j] /\ (j \in errs'[k] <=> j \in errs[k])
  BY DEF Field
<1>2. Landed(k, j) => Landed(k, j)' /\ f.id \in Voyages
  BY <1>1, LandedStays DEF Landed
<1>3. CallInv(k, j)'
  BY <1>1, <1>2 DEF FieldInv, CallInv, Asked, ArgsOK, Valid
<1>4. ReplyInv(k, j)'
  <2> DEFINE r == reply[k][j]
  <2>1. ASSUME stage[k][j] = "replied", r.code = "OK"
        PROVE  r \in Rows(f.id) /\ Stored(f.id, r)' /\ Landed(k, j)'
    <3>1. r \in Rows(f.id) /\ Stored(f.id, r) /\ Landed(k, j)
      BY <2>1 DEF FieldInv, ReplyInv
    <3>2. r.version \in Int
      BY <3>1, GatewayAssumption DEF Rows
    <3>3. /\ r.version <= version'[f.id]
          /\ r.version = version'[f.id] => r.distanceNm = content'[f.id]
      BY <3>1, <3>2, <1>2, StoredStays
    <3> QED
      BY <3>1, <3>3, <1>1, <1>2 DEF Stored
  <2>2. ASSUME stage[k][j] = "replied", r.code = "NotFound", f.name = "voyage"
        PROVE  f.id \in Voyages \ doc[k].knew
    BY <2>2 DEF FieldInv, ReplyInv
  <2> QED
    BY <1>1, <2>1, <2>2 DEF ReplyInv, Rows
<1>5. ValueInv(k, j)'
  <2>1. ASSUME NEW w \in VoyageObjects, Stored(f.id, w), Landed(k, j)
        PROVE  Stored(f.id, w)'
    <3>1. w.version \in Int
      BY GatewayAssumption DEF VoyageObjects
    <3>2. /\ w.version <= version'[f.id]
          /\ w.version = version'[f.id] => w.distanceNm = content'[f.id]
      BY <3>1, <2>1, <1>2, StoredStays
    <3> QED
      BY <3>2, <1>1 DEF Stored
  <2>2. ValueInv(k, j)
    BY DEF FieldInv
  <2> QED
    BY <1>1, <1>2, <2>1, <2>2 DEF ValueInv, Asked, Wrapped
<1> QED
  BY <1>3, <1>4, <1>5 DEF FieldInv

\* What the invariant says of the fields and of their order.
ExecInv == FieldsInv /\ OrderInv /\ KnownInv

LEMMA KnownStays ==
    ASSUME ServiceType, ExecType, KnownInv, Moves, doc' = doc, known' = known
    PROVE  KnownInv'
<1>1. \A v \in Voyages : version[v] > 0 => version'[v] > 0
  BY MovesUp
<1>2. known \subseteq Voyages
  BY DEF ServiceType
<1>3. \A c \in Clients : doc[c] # Nil => doc[c].knew \subseteq Voyages
  BY DEF ExecType, Operations
<1> QED
  BY <1>1, <1>2, <1>3 DEF KnownInv

\* A step of one field keeps the invariant if what it makes of that field is right,
\* and it starts the field only when it may.
LEMMA EntryKeeps ==
    ASSUME TypeOK, ExecInv, NEW c \in Clients, NEW i \in Positions(c),
           NEW s, NEW r, NEW x, Becomes(c, i, s, r, x), Moves, known' = known,
           stage[c][i] # "done",
           stage[c][i] = "todo" => MayStart(c, i),
           i \in errs'[c] => s = "done",
           FieldInv(c, i)'
    PROVE  ExecInv'
<1>1. /\ ServiceType /\ ExecType /\ Others(c, i) /\ doc' = doc /\ stage'[c][i] = s
      /\ \A k \in Clients : Positions(k)' = Positions(k)
  BY DEF TypeOK, Becomes, Others, Positions
<1>2. FieldsInv'
  <2>1. ASSUME NEW k \in Clients, NEW j \in Positions(k), ~(k = c /\ j = i)
        PROVE  FieldInv(k, j)'
    <3>1. FieldInv(k, j)
      BY DEF ExecInv, FieldsInv
    <3> QED
      BY <1>1, <2>1, <3>1, FieldStays DEF Others
  <2> QED
    BY <1>1, <2>1 DEF FieldsInv
<1>3. KnownInv'
  BY <1>1, KnownStays DEF ExecInv
<1>4. ASSUME NEW k \in Clients, NEW j \in Positions(k)
      PROVE  /\ j \in errs'[k] => stage'[k][j] = "done"
             /\ doc[k].op = "mutation" /\ stage'[k][j] # "todo" =>
                   \A l \in Positions(k) : l < j => stage'[k][l] = "done"
  <2>1. j \in errs'[k] => stage'[k][j] = "done"
    BY <1>1 DEF ExecInv, OrderInv, Others
  <2>2. ASSUME doc[k].op = "mutation", stage'[k][j] # "todo",
               NEW l \in Positions(k), l < j
        PROVE  stage'[k][l] = "done"
    <3>1. CASE k = c /\ j = i
      <4>1. stage[k][l] = "done"
        <5>1. CASE stage[c][i] = "todo"
          <6>1. \A m \in DOMAIN stage[c] : m < i => stage[c][m] = "done"
            BY <5>1, <2>2, <3>1 DEF MayStart
          <6>2. DOMAIN stage[c] = Positions(c)
            BY <1>1 DEF ExecType
          <6> QED
            BY <6>1, <6>2, <3>1, <2>2
        <5>2. CASE stage[c][i] # "todo"
          BY <5>2, <2>2, <3>1 DEF ExecInv, OrderInv
        <5> QED
          BY <5>1, <5>2
      <4>2. l # i
        BY <2>2, <3>1, OperationFields, <1>1
      <4> QED
        BY <4>1, <4>2, <3>1, <1>1 DEF Others
    <3>2. CASE ~(k = c /\ j = i)
      <4>1. stage[k][j] # "todo"
        BY <3>2, <2>2, <1>1 DEF Others
      <4>2. stage[k][l] = "done"
        BY <4>1, <2>2 DEF ExecInv, OrderInv
      <4>3. ~(k = c /\ l = i)
        BY <4>2
      <4> QED
        BY <4>2, <4>3, <1>1 DEF Others
    <3> QED
      BY <3>1, <3>2
  <2> QED
    BY <2>1, <2>2
<1>5. OrderInv'
  BY <1>1, <1>4 DEF OrderInv
<1> QED
  BY <1>2, <1>3, <1>5 DEF ExecInv
-----------------------------------------------------------------------------
(* The steps of one root field.                                            *)

\* A field that failed: null, and an error.
LEMMA ErrorKeeps ==
    ASSUME TypeOK, ExecInv, NEW c \in Clients, NEW i \in Positions(c), Error(c, i),
           MayStart(c, i) \/ stage[c][i] = "replied", UNCHANGED <<version, content>>
    PROVE  ExecInv' /\ ExecType'
<1>1. /\ Becomes(c, i, "done", Nil, Null) /\ errs'[c] = errs[c] \cup {i} /\ known' = known
  BY ErrorBecomes DEF TypeOK
<1>2. stage'[c][i] = "done" /\ value'[c][i] = Null /\ ExecType'
  BY <1>1 DEF Becomes
<1>3. FieldInv(c, i)'
  BY <1>1, <1>2 DEF FieldInv, CallInv, ReplyInv, ValueInv
<1>4. Moves /\ stage[c][i] # "done" /\ (stage[c][i] = "todo" => MayStart(c, i))
  BY DEF Moves, MayStart
<1> QED
  BY <1>1, <1>2, <1>3, <1>4, EntryKeeps

LEMMA BadArgsKeeps ==
    ASSUME TypeOK, ExecInv, NEW c \in Clients, NEW i \in Positions(c),
           BadArgs(c, i) \/ EmptyId(c, i)
    PROVE  ExecInv' /\ ExecType'
  BY ErrorKeeps DEF BadArgs, EmptyId, service

LEMMA IntrospectKeeps ==
    ASSUME TypeOK, ExecInv, NEW c \in Clients, NEW i \in Positions(c), Introspect(c, i)
    PROVE  ExecInv' /\ ExecType'
<1> DEFINE x == Introspected[Field(c, i)]
<1>1. Becomes(c, i, "done", Nil, x) /\ errs'[c] = errs[c] /\ known' = known
  BY ValueBecomes DEF TypeOK, Introspect
<1>2. /\ stage'[c][i] = "done" /\ value'[c][i] = x /\ ExecType' /\ doc' = doc
      /\ Field(c, i)' = Field(c, i)
  BY <1>1 DEF Becomes, Others, Field
<1>3. i \notin errs[c]
  BY DEF Introspect, MayStart, ExecInv, OrderInv
<1>4. FieldInv(c, i)'
  BY <1>1, <1>2, <1>3 DEF FieldInv, CallInv, ReplyInv, ValueInv, Introspect
<1>5. Moves /\ stage[c][i] # "done" /\ MayStart(c, i)
  BY DEF Moves, MayStart, Introspect, service
<1> HIDE DEF x
<1> QED
  BY <1>1, <1>2, <1>4, <1>5, EntryKeeps

LEMMA CallKeeps ==
    ASSUME TypeOK, ExecInv, NEW c \in Clients, NEW i \in Positions(c), Call(c, i)
    PROVE  ExecInv' /\ ExecType'
<1>1. /\ Becomes(c, i, "called", reply[c][i], value[c][i])
      /\ errs' = errs /\ known' = known
  BY GotoBecomes DEF TypeOK, Call, Stages
<1>2. /\ stage'[c][i] = "called" /\ ExecType' /\ Field(c, i)' = Field(c, i)
  BY <1>1 DEF Becomes, Others, Field
<1>3. i \notin errs[c]
  BY DEF Call, MayStart, ExecInv, OrderInv
<1>4. FieldInv(c, i)'
  BY <1>2 DEF FieldInv, CallInv, ReplyInv, ValueInv, Call, Asked, ArgsOK
<1>5. Moves /\ stage[c][i] # "done" /\ MayStart(c, i)
  BY DEF Moves, MayStart, Call, service
<1> QED
  BY <1>1, <1>2, <1>3, <1>4, <1>5, EntryKeeps

\* The call ends with an error that the resolver does not turn into an answer.
LEMMA StatusKeeps ==
    ASSUME TypeOK, ExecInv, NEW c \in Clients, NEW i \in Positions(c), NEW code,
           code \notin {"OK", "NotFound"}, stage[c][i] \in {"called", "written"},
           Reply(c, i, Status(code)), UNCHANGED <<version, content>>
    PROVE  ExecInv' /\ ExecType'
<1>1. /\ Becomes(c, i, "replied", Status(code), value[c][i])
      /\ errs' = errs /\ known' = known
  BY ReplyBecomes DEF TypeOK
<1>2. /\ stage'[c][i] = "replied" /\ reply'[c][i].code = code /\ ExecType'
      /\ Field(c, i)' = Field(c, i)
  BY <1>1 DEF Becomes, Others, Field, Status
<1>3. Asked(Field(c, i)) /\ ArgsOK(Field(c, i)) /\ i \notin errs[c]
  BY DEF ExecInv, FieldsInv, FieldInv, CallInv, OrderInv
<1>4. FieldInv(c, i)'
  BY <1>2, <1>3 DEF FieldInv, CallInv, ReplyInv, ValueInv, Asked, ArgsOK
<1>5. Moves /\ stage[c][i] # "done" /\ stage[c][i] # "todo"
  BY DEF Moves
<1> QED
  BY <1>1, <1>2, <1>3, <1>4, <1>5, EntryKeeps

LEMMA RejectKeeps ==
    ASSUME TypeOK, ExecInv, NEW c \in Clients, NEW i \in Positions(c),
           Reject(c, i) \/ CallFails(c, i)
    PROVE  ExecInv' /\ ExecType'
  BY StatusKeeps DEF Reject, CallFails, service

\* A field at the service is one the service is asked, of a voyage if it is valid.
LEMMA AtService ==
    ASSUME TypeOK, ExecInv, NEW c \in Clients, NEW i \in Positions(c),
           stage[c][i] \in {"called", "written"}
    PROVE  /\ Field(c, i) \in RootFields /\ Asked(Field(c, i)) /\ ArgsOK(Field(c, i))
           /\ Valid(Field(c, i)) => Field(c, i).id \in Voyages
           /\ Field(c, i).name \in MutationNames => MutationField(Field(c, i))
           /\ i \notin errs[c] /\ stage[c][i] # "done" /\ stage[c][i] # "todo"
<1>1. Field(c, i) \in RootFields
  BY OperationFields DEF TypeOK
<1>2. Asked(Field(c, i)) /\ ArgsOK(Field(c, i))
  BY DEF ExecInv, FieldsInv, FieldInv, CallInv
<1>3. i \notin errs[c]
  BY DEF ExecInv, OrderInv
<1> QED
  BY <1>1, <1>2, <1>3, AskedFields DEF Valid

LEMMA InsertKeeps ==
    ASSUME TypeOK, ExecInv, NEW c \in Clients, NEW i \in Positions(c), Insert(c, i)
    PROVE  ExecInv' /\ ExecType' /\ Moves
<1> DEFINE f == Field(c, i)
           d == Narrow(f.distanceNm)
           r == [code |-> "OK", id |-> f.id, version |-> 1, distanceNm |-> d]
<1>1. stage[c][i] = "called" /\ Valid(f) /\ f.name = "createVoyage" /\ Writes(f) /\ Write(f)
  BY DEF Insert
<1>2. /\ f \in RootFields /\ ArgsOK(f) /\ Asked(f) /\ f.id \in Voyages /\ i \notin errs[c]
      /\ f.name \in MutationNames
  BY <1>1, AtService DEF MutationNames
<1>3. Wrote(f.id, 1, d)
  BY <1>1, <1>2, WriteMoves DEF TypeOK
<1>4. Becomes(c, i, "replied", r, value[c][i]) /\ errs' = errs /\ known' = known
  BY ReplyBecomes DEF TypeOK, Insert
<1>5. /\ stage'[c][i] = "replied" /\ reply'[c][i] = r /\ ExecType'
      /\ Field(c, i)' = f
  BY <1>4 DEF Becomes, Others, Field
<1>6. version'[f.id] = 1 /\ content'[f.id] = d
  BY <1>2, <1>3 DEF Wrote, TypeOK, ServiceType
<1>7. r \in Rows(f.id)
  BY <1>3 DEF Wrote, Rows
<1>8. CallInv(c, i)' /\ ValueInv(c, i)'
  BY <1>2, <1>5 DEF CallInv, ValueInv, Asked, ArgsOK
<1>9. ReplyInv(c, i)'
  BY <1>1, <1>2, <1>5, <1>6, <1>7 DEF ReplyInv, Rows, Stored, Landed
<1>10. Moves
  BY <1>3 DEF Moves
<1> HIDE DEF r
<1> QED
  BY <1>1, <1>2, <1>4, <1>5, <1>8, <1>9, <1>10, EntryKeeps DEF FieldInv

\* A voyage that an update can rely on exists by the time the update runs.
LEMMA ExistsStill ==
    ASSUME TypeOK, ExecInv, NEW c \in Clients, NEW i \in Positions(c),
           stage[c][i] = "called", Field(c, i).name = "updateVoyage", Exists(c, i)
    PROVE  version[Field(c, i).id] > 0
<1>1. CASE Field(c, i).id \in doc[c].knew
  BY <1>1, OperationFields DEF TypeOK, ExecInv, KnownInv
<1>2. ASSUME NEW j \in 1..(i - 1), Field(c, j).name = "createVoyage",
             Field(c, j).id = Field(c, i).id, j \notin errs[c]
      PROVE  version[Field(c, i).id] > 0
  <2>1. Positions(c) = 1..Len(doc[c].fields) /\ Len(doc[c].fields) \in Nat
    BY OperationFields DEF TypeOK
  <2>2. j \in Positions(c) /\ j < i
    BY <2>1
  <2>3. doc[c].op = "mutation"
    BY OperationFields DEF TypeOK, QueryField, QueryFields
  <2>4. stage[c][j] = "done"
    BY <2>2, <2>3 DEF ExecInv, OrderInv
  <2>5. ValueInv(c, j)
    BY <2>2 DEF ExecInv, FieldsInv, FieldInv
  <2>6. Landed(c, j)
    BY <1>2, <2>4, <2>5 DEF ValueInv, Introspection
  <2> QED
    BY <1>2, <2>6 DEF Landed
<1> QED
  BY <1>1, <1>2 DEF Exists

LEMMA ExecuteKeeps ==
    ASSUME TypeOK, ExecInv, NEW c \in Clients, NEW i \in Positions(c), Execute(c, i)
    PROVE  ExecInv' /\ ExecType' /\ Moves
<1> DEFINE f == Field(c, i)
<1>1. /\ stage[c][i] = "called" /\ Valid(f) /\ ~(f.name = "createVoyage" /\ Writes(f))
      /\ IF Writes(f) THEN Write(f) ELSE UNCHANGED <<version, content>>
  BY DEF Execute
<1>2. /\ f \in RootFields /\ ArgsOK(f) /\ Asked(f) /\ f.id \in Voyages /\ i \notin errs[c]
      /\ f.name \in MutationNames => MutationField(f)
  BY <1>1, AtService
<1>3. /\ Becomes(c, i, "written", reply[c][i], value[c][i])
      /\ errs' = errs /\ known' = known
  BY GotoBecomes DEF TypeOK, Execute, Stages
<1>4. /\ stage'[c][i] = "written" /\ ExecType' /\ doc' = doc /\ \A j : Field(c, j)' = Field(c, j)
  BY <1>3 DEF Becomes, Others, Field
<1>5. Exists(c, i)' <=> Exists(c, i)
  BY <1>3, <1>4 DEF Exists
<1>6. version[f.id] \in Nat
  BY <1>2, GatewayAssumption DEF TypeOK, ServiceType
<1>7. ASSUME Writes(f)
      PROVE  Landed(c, i)' /\ Moves
  <2>1. f.name = "updateVoyage" /\ f.name \in MutationNames
    BY <1>1, <1>7 DEF Writes, MutationNames
  <2>2. Wrote(f.id, f.version, Narrow(f.distanceNm))
    BY <1>1, <1>2, <1>7, <2>1, WriteMoves DEF TypeOK
  <2>3. version'[f.id] = f.version /\ f.version \in Int
    BY <1>2, <2>2 DEF Wrote, TypeOK, ServiceType
  <2>4. Landed(c, i)'
    BY <1>2, <1>4, <2>1, <2>3 DEF Landed
  <2> QED
    BY <2>2, <2>4 DEF Moves
<1>8. ASSUME ~Writes(f)
      PROVE  Landed(c, i)' /\ Moves
  <2>1. UNCHANGED <<version, content>>
    BY <1>1, <1>8
  <2>2. f.name = "createVoyage" => version[f.id] > 0
    BY <1>6, <1>8 DEF Writes
  <2>3. ASSUME f.name = "updateVoyage", Exists(c, i)
        PROVE  version[f.id] >= f.version
    <3>1. version[f.id] > 0
      BY <1>1, <2>3, ExistsStill
    <3>2. f.version \in Int
      BY <1>2, <2>3 DEF MutationField, MutationNames
    <3> QED
      BY <1>6, <1>8, <2>3, <3>1, <3>2 DEF Writes
  <2>4. Landed(c, i)'
    BY <1>2, <1>4, <1>5, <2>1, <2>2, <2>3 DEF Landed
  <2> QED
    BY <2>1, <2>4 DEF Moves
<1>9. Landed(c, i)' /\ Moves
  BY <1>7, <1>8
<1>10. FieldInv(c, i)'
  BY <1>1, <1>2, <1>4, <1>9 DEF FieldInv, CallInv, ReplyInv, ValueInv, Asked, ArgsOK, Valid
<1> QED
  BY <1>1, <1>2, <1>3, <1>4, <1>9, <1>10, EntryKeeps

LEMMA GetKeeps ==
    ASSUME TypeOK, ExecInv, DistanceInv, NEW c \in Clients, NEW i \in Positions(c),
           Get(c, i)
    PROVE  ExecInv' /\ ExecType'
<1> DEFINE f == Field(c, i)
           v == f.id
           r == IF version[v] = 0 THEN Status("NotFound") ELSE Row(v)
<1>1. stage[c][i] = "written" /\ Reply(c, i, r) /\ UNCHANGED <<version, content>>
  BY DEF Get, service
<1>2. Asked(f) /\ ArgsOK(f) /\ v \in Voyages /\ i \notin errs[c] /\ Landed(c, i)
  <2>1. CallInv(c, i)
    BY DEF ExecInv, FieldsInv, FieldInv
  <2> QED
    BY <1>1, <2>1, AtService DEF CallInv
<1>3. Becomes(c, i, "replied", r, value[c][i]) /\ errs' = errs /\ known' = known
  <2> HIDE DEF r
  <2> QED BY <1>1, ReplyBecomes DEF TypeOK
<1>4. /\ stage'[c][i] = "replied" /\ reply'[c][i] = r /\ ExecType' /\ doc' = doc
      /\ Field(c, i)' = f
  BY <1>3 DEF Becomes, Others, Field
<1>5. Moves
  BY <1>1 DEF Moves
<1>6. CallInv(c, i)' /\ ValueInv(c, i)'
  BY <1>2, <1>4 DEF CallInv, ValueInv, Asked, ArgsOK
<1>7. ASSUME r.code = "OK"
      PROVE  /\ r \in Rows(v) /\ r.version <= version'[v] /\ Landed(c, i)'
             /\ r.version = version'[v] => r.distanceNm = content'[v]
  <2>1. version[v] # 0 /\ r = Row(v)
    BY <1>7 DEF Status
  <2>2. version[v] \in 1..MaxVersion /\ content[v] \in 0..Half32 - 1
    BY <1>2, <2>1, GatewayAssumption DEF TypeOK, ServiceType, DistanceInv
  <2>3. r \in Rows(v) /\ r.version = version[v] /\ r.distanceNm = content[v]
    BY <2>1, <2>2 DEF Row, Rows
  <2>4. /\ r.version <= version'[v]
        /\ r.version = version'[v] => r.distanceNm = content'[v]
    BY <1>1, <2>2, <2>3, GatewayAssumption
  <2>5. Landed(c, i)'
    BY <1>2, <1>3, <1>4, <1>5, LandedStays DEF TypeOK
  <2> QED
    BY <2>3, <2>4, <2>5
<1>8. ASSUME r.code = "NotFound"
      PROVE  v \in Voyages \ doc[c].knew
  <2>1. version[v] = 0
    BY <1>8 DEF Row
  <2> QED
    BY <1>2, <2>1, OperationFields DEF ExecInv, KnownInv, TypeOK
<1> HIDE DEF r
<1>9. ReplyInv(c, i)'
  BY <1>4, <1>7, <1>8 DEF ReplyInv, Rows, Stored
<1> QED
  BY <1>1, <1>2, <1>3, <1>4, <1>5, <1>6, <1>9, EntryKeeps DEF FieldInv
-----------------------------------------------------------------------------
(* What the executor makes of a voyage.                                    *)

\* A voyage has no field that is missing: it is answered as it is, alone and in the
\* payload of a create.
LEMMA VoyagesMarshalled ==
    ASSUME NEW w \in VoyageObjects
    PROVE  /\ Object[<<"Voyage", w>>] = w
           /\ Object[<<"CreateVoyagePayload", [voyage |-> w]>>] = [voyage |-> w]
<1> DEFINE o == <<"Voyage", w>>
           p == <<"CreateVoyagePayload", [voyage |-> w]>>
<1>1. o \in Objects /\ p \in Objects
  BY GatewayAssumption
<1>2. /\ DOMAIN w = {"clientRequestId", "version", "distanceNm"}
      /\ \A f \in DOMAIN w : w[f] # Nil /\ w[f] # Null
  <2>1. /\ w.clientRequestId \in Voyages /\ w.version \in Int /\ w.distanceNm \in Int
        /\ DOMAIN w = {"clientRequestId", "version", "distanceNm"}
    BY GatewayAssumption DEF VoyageObjects
  <2> QED
    BY <2>1, GatewayAssumption
<1>3. ASSUME NEW f \in DOMAIN w
      PROVE  MarshalField(Object, VoyageFields[f], w[f]) = w[f]
  BY <1>2 DEF MarshalField, MarshalN, VoyageFields, NonNull, Scalars
<1>4. FieldSet(Object, o) = w
  <2>1. FieldSet(Object, o) = [f \in DOMAIN w |-> MarshalField(Object, VoyageFields[f], w[f])]
    BY DEF FieldSet, FieldsOf
  <2>2. w = [f \in DOMAIN w |-> w[f]]
    BY DEF VoyageObjects
  <2> QED
    BY <1>3, <2>1, <2>2
<1>5. Object[o] = w
  BY <1>1, <1>2, <1>4, ObjectMade DEF Made
<1>6. w # Nil /\ w # Null
  BY <1>1, ObjectsAssumption
<1>7. FieldSet(Object, p) = [voyage |-> w]
  <2>1. MarshalField(Object, PayloadFields["voyage"], w) = w
    BY <1>5, <1>6 DEF MarshalField, MarshalN, PayloadFields, NonNull, Scalars
  <2> QED
    BY <2>1 DEF FieldSet, FieldsOf
<1>8. Object[p] = [voyage |-> w]
  BY <1>1, <1>6, <1>7, ObjectMade DEF Made
<1> QED
  BY <1>5, <1>8

\* The value of a field the service was asked: the voyage, or null for a query.
LEMMA AnswersMarshalled ==
    ASSUME TypeOK, NEW c \in Clients, NEW i \in Positions(c), Asked(Field(c, i))
    PROVE  LET f == Field(c, i)
               field == FieldsOf(RootType(doc[c].op))[f.name]
           IN  /\ \A w \in VoyageObjects : Marshal(field, Wrapped(f, w)) = Wrapped(f, w)
               /\ f.name = "voyage" => Marshal(field, Nil) = Null
<1> DEFINE f == Field(c, i)
           field == FieldsOf(RootType(doc[c].op))[f.name]
<1>1. /\ doc[c].op \in {"mutation", "query"}
      /\ doc[c].op = "mutation" => f.name \in MutationNames
      /\ doc[c].op = "query" => f.name = "voyage"
  BY OperationFields DEF TypeOK, MutationField, QueryField, QueryFields, Asked, MutationNames
<1>2. /\ f.name = "createVoyage" => field = NonNull("CreateVoyagePayload")
      /\ f.name = "updateVoyage" => field = NonNull("Voyage")
      /\ f.name = "voyage" => field = Nullable("Voyage")
  BY <1>1 DEF MutationNames, RootType, FieldsOf, MutationFields, QueryFields
<1> HIDE DEF field
<1>3. f.name = "voyage" => Marshal(field, Nil) = Null
  BY <1>2 DEF Marshal, MarshalField, MarshalO, Nullable
<1>4. ASSUME NEW w \in VoyageObjects
      PROVE  Marshal(field, Wrapped(f, w)) = Wrapped(f, w)
  <2>1. w # Nil /\ [voyage |-> w] # Nil
    BY ObjectsAssumption, GatewayAssumption
  <2>2. /\ Object[<<"Voyage", w>>] = w
        /\ Object[<<"CreateVoyagePayload", [voyage |-> w]>>] = [voyage |-> w]
    BY VoyagesMarshalled
  <2>3. CASE f.name = "createVoyage"
    BY <1>2, <2>1, <2>2, <2>3 DEF Marshal, MarshalField, MarshalN, NonNull, Scalars, Wrapped
  <2>4. CASE f.name = "updateVoyage"
    BY <1>2, <2>1, <2>2, <2>4 DEF Marshal, MarshalField, MarshalN, NonNull, Scalars, Wrapped
  <2>5. CASE f.name = "voyage"
    BY <1>2, <2>1, <2>2, <2>5
    DEF Marshal, MarshalField, MarshalO, MarshalN, Nullable, Scalars, Wrapped
  <2> QED
    BY <2>3, <2>4, <2>5 DEF Asked, MutationNames
<1> QED
  BY <1>3, <1>4 DEF field

LEMMA ResolveKeeps ==
    ASSUME TypeOK, ExecInv, NEW c \in Clients, NEW i \in Positions(c), Resolve(c, i)
    PROVE  ExecInv' /\ ExecType'
<1> DEFINE f == Field(c, i)
           r == reply[c][i]
           field == FieldsOf(RootType(doc[c].op))[f.name]
<1>1. stage[c][i] = "replied" /\ UNCHANGED <<version, content>> /\ Moves
  BY DEF Resolve, service, Moves
<1>2. Asked(f) /\ i \notin errs[c] /\ ReplyInv(c, i)
  BY <1>1 DEF ExecInv, FieldsInv, FieldInv, CallInv, OrderInv
<1>3. ASSUME NEW x, Done(c, i, x),
             \/ f.name = "voyage" /\ x = Null /\ f.id \in Voyages \ doc[c].knew
             \/ /\ Landed(c, i)
                /\ \E w \in VoyageObjects : x = Wrapped(f, w) /\ Stored(f.id, w)
      PROVE  ExecInv' /\ ExecType'
  <2>1. Becomes(c, i, "done", Nil, x) /\ errs'[c] = errs[c] /\ known' = known
    BY <1>3, ValueBecomes DEF TypeOK
  <2>2. /\ stage'[c][i] = "done" /\ value'[c][i] = x /\ ExecType' /\ doc' = doc
        /\ Field(c, i)' = f
    BY <2>1 DEF Becomes, Others, Field
  <2>3. Landed(c, i) => Landed(c, i)'
    BY <1>1, <2>1, <2>2, LandedStays DEF TypeOK
  <2>4. \A w : Stored(f.id, w) => w.version <= version'[f.id] /\
                  (w.version = version'[f.id] => w.distanceNm = content'[f.id])
    BY <1>1 DEF Stored
  <2>5. ValueInv(c, i)'
    BY <1>2, <1>3, <2>1, <2>2, <2>3, <2>4 DEF ValueInv, Asked, Wrapped, Stored
  <2>6. FieldInv(c, i)'
    BY <2>2, <2>5 DEF FieldInv, CallInv, ReplyInv
  <2> QED
    BY <1>1, <1>2, <2>1, <2>2, <2>6, EntryKeeps
<1>4. CASE r.code = "OK" /\ Done(c, i, Marshal(field, Resolved(f, r)))
  <2> DEFINE w == ToModelVoyage(f, r)
  <2>1. r \in Rows(f.id) /\ Stored(f.id, r) /\ Landed(c, i) /\ f.id \in Voyages
    BY <1>1, <1>2, <1>4 DEF ReplyInv, Landed
  <2>2. /\ w \in VoyageObjects /\ w.version = r.version /\ w.distanceNm = r.distanceNm
        /\ Resolved(f, r) = Wrapped(f, w)
    BY <2>1 DEF Rows, ToModelVoyage, VoyageObjects, Resolved, Wrapped
  <2>3. Stored(f.id, w)
    BY <2>1, <2>2 DEF Stored
  <2>4. Marshal(field, Resolved(f, r)) = Wrapped(f, w)
    BY <1>2, <2>2, AnswersMarshalled
  <2> HIDE DEF w, field, f
  <2> QED
    BY <1>3, <1>4, <2>1, <2>2, <2>3, <2>4
<1>5. CASE IsNull(f, r) /\ Done(c, i, Marshal(field, Nil))
  <2>1. f.name = "voyage" /\ f.id \in Voyages \ doc[c].knew
    BY <1>1, <1>2, <1>5 DEF IsNull, ReplyInv
  <2>2. Marshal(field, Nil) = Null
    BY <1>2, <2>1, AnswersMarshalled
  <2> HIDE DEF field, f
  <2> QED
    BY <1>3, <1>5, <2>1, <2>2
<1>6. CASE Error(c, i)
  BY <1>1, <1>6, ErrorKeeps
<1> QED
  BY <1>4, <1>5, <1>6 DEF Resolve
-----------------------------------------------------------------------------
(* The steps of a whole operation.                                         *)

\* Every client but c keeps its operation.
Apart(c) ==
    \A k \in Clients : k # c =>
        /\ doc'[k] = doc[k] /\ stage'[k] = stage[k] /\ reply'[k] = reply[k]
        /\ value'[k] = value[k] /\ errs'[k] = errs[k]

\* A step of a whole operation keeps the invariant if what it makes of that operation
\* is nothing, or fields that are all still to do.
LEMMA OperationKeeps ==
    ASSUME TypeOK, ExecInv, NEW c \in Clients, Apart(c), ExecType', Moves,
           \A i \in Positions(c)' : stage'[c][i] = "todo" /\ i \notin errs'[c],
           KnownInv'
    PROVE  ExecInv'
<1>1. \A k \in Clients : k # c => Positions(k)' = Positions(k)
  BY DEF Apart, Positions
<1>2. FieldsInv'
  <2>1. ASSUME NEW k \in Clients, NEW j \in Positions(k)', k # c
        PROVE  FieldInv(k, j)'
    <3>1. j \in Positions(k) /\ FieldInv(k, j)
      BY <1>1, <2>1 DEF ExecInv, FieldsInv
    <3> QED
      BY <2>1, <3>1, FieldStays DEF Apart, TypeOK
  <2>2. ASSUME NEW j \in Positions(c)'
        PROVE  FieldInv(c, j)'
    BY <2>2 DEF FieldInv, CallInv, ReplyInv, ValueInv
  <2> QED
    BY <2>1, <2>2 DEF FieldsInv
<1>3. OrderInv'
  <2>1. ASSUME NEW k \in Clients, NEW j \in Positions(k)', k # c
        PROVE  /\ j \in errs'[k] => stage'[k][j] = "done"
               /\ doc'[k].op = "mutation" /\ stage'[k][j] # "todo" =>
                     \A l \in Positions(k)' : l < j => stage'[k][l] = "done"
    BY <1>1, <2>1 DEF ExecInv, OrderInv, Apart
  <2> QED
    BY <2>1 DEF OrderInv
<1> QED
  BY <1>2, <1>3 DEF ExecInv

LEMMA PostKeeps ==
    ASSUME TypeOK, ExecInv, NEW c \in Clients, NEW d \in Documents, Post(c, d)
    PROVE  ExecInv' /\ ExecType'
<1> DEFINE o == [op |-> d.op, fields |-> d.fields, knew |-> known]
<1>1. /\ DOMAIN doc = Clients /\ DOMAIN stage = Clients /\ DOMAIN reply = Clients
      /\ DOMAIN value = Clients /\ DOMAIN errs = Clients /\ errs' = errs
      /\ known' = known /\ UNCHANGED <<version, content>>
  BY DEF TypeOK, ExecType, Post, service
<1>2. o \in Operations /\ o # Nil /\ known \subseteq Voyages
  <2>1. known \in SUBSET Voyages
    BY DEF TypeOK, ServiceType
  <2>2. \E e \in Documents, k \in SUBSET Voyages :
           o = [op |-> e.op, fields |-> e.fields, knew |-> k]
    BY <2>1
  <2>3. o \in Operations
    <3> HIDE DEF o
    <3> QED BY <2>2 DEF Operations
  <2> HIDE DEF o
  <2> QED BY <2>1, <2>3, GatewayAssumption
<1>3. /\ doc' = [doc EXCEPT ![c] = o]
      /\ stage' = [stage EXCEPT ![c] = [i \in 1..Len(d.fields) |-> "todo"]]
      /\ reply' = [reply EXCEPT ![c] = [i \in 1..Len(d.fields) |-> Nil]]
      /\ value' = [value EXCEPT ![c] = [i \in 1..Len(d.fields) |-> Nil]]
      /\ doc[c] = Nil
  BY DEF Post
<1>4. Apart(c)
  BY <1>1, <1>3 DEF Apart
<1>5. /\ doc'[c] = o /\ stage'[c] = [i \in 1..Len(d.fields) |-> "todo"]
      /\ reply'[c] = [i \in 1..Len(d.fields) |-> Nil]
      /\ value'[c] = [i \in 1..Len(d.fields) |-> Nil]
      /\ doc'[c].fields = d.fields /\ doc'[c].knew = known
  <2>1. o.fields = d.fields /\ o.knew = known
    OBVIOUS
  <2> HIDE DEF o
  <2> QED BY <1>1, <1>3, <2>1
<1>6. errs'[c] = {}
  BY <1>1, <1>3 DEF TypeOK, ExecType, Positions
<1>7. Positions(c)' = 1..Len(d.fields)
  BY <1>2, <1>5 DEF Positions
<1>8. \A k \in Clients : k # c => Positions(k)' = Positions(k)
  BY <1>4 DEF Apart, Positions
<1>9. ExecType'
  <2>1. doc' \in [Clients -> Operations \cup {Nil}]
    BY <1>2, <1>3 DEF TypeOK, ExecType
  <2>2. /\ DOMAIN stage' = Clients /\ DOMAIN reply' = Clients
        /\ DOMAIN value' = Clients /\ DOMAIN errs' = Clients
    BY <1>1, <1>3
  <2>3. /\ stage'[c] \in [Positions(c)' -> Stages]
        /\ DOMAIN reply'[c] = Positions(c)' /\ DOMAIN value'[c] = Positions(c)'
        /\ errs'[c] \subseteq Positions(c)'
    BY <1>5, <1>6, <1>7 DEF Stages
  <2>4. ASSUME NEW k \in Clients, k # c
        PROVE  /\ stage'[k] \in [Positions(k)' -> Stages]
               /\ DOMAIN reply'[k] = Positions(k)' /\ DOMAIN value'[k] = Positions(k)'
               /\ errs'[k] \subseteq Positions(k)'
    BY <1>4, <1>8, <2>4 DEF Apart, TypeOK, ExecType
  <2> QED
    BY <2>1, <2>2, <2>3, <2>4 DEF ExecType
<1>10. KnownInv'
  <2>1. \A v \in known : version'[v] > 0
    BY <1>1 DEF ExecInv, KnownInv
  <2>2. \A k \in Clients : k # c /\ doc'[k] # Nil => \A v \in doc'[k].knew : version'[v] > 0
    BY <1>1, <1>4 DEF ExecInv, KnownInv, Apart
  <2> QED
    BY <1>1, <1>5, <2>1, <2>2 DEF KnownInv
<1>11. \A i \in Positions(c)' : stage'[c][i] = "todo" /\ i \notin errs'[c]
  BY <1>5, <1>6, <1>7
<1>12. Moves
  BY <1>1 DEF Moves
<1> QED
  BY <1>4, <1>9, <1>10, <1>11, <1>12, OperationKeeps

\* The operation is over, and known is what its answer has shown.
LEMMA ClearKeeps ==
    ASSUME TypeOK, ExecInv, NEW c \in Clients, Clear(c), UNCHANGED <<version, content>>,
           \A v \in known' : version[v] > 0
    PROVE  ExecInv' /\ ExecType'
<1>1. /\ DOMAIN doc = Clients /\ DOMAIN stage = Clients /\ DOMAIN reply = Clients
      /\ DOMAIN value = Clients /\ DOMAIN errs = Clients
  BY DEF TypeOK, ExecType
<1>2. /\ Apart(c) /\ doc'[c] = Nil /\ stage'[c] = <<>> /\ reply'[c] = <<>>
      /\ value'[c] = <<>> /\ errs'[c] = {}
      /\ DOMAIN stage' = Clients /\ DOMAIN reply' = Clients
      /\ DOMAIN value' = Clients /\ DOMAIN errs' = Clients
  BY <1>1 DEF Clear, Apart
<1>3. Positions(c)' = {}
  BY <1>2 DEF Positions
<1>4. \A k \in Clients : k # c => Positions(k)' = Positions(k)
  BY <1>2 DEF Apart, Positions
<1>5. ExecType'
  <2>1. doc' \in [Clients -> Operations \cup {Nil}]
    BY DEF Clear, TypeOK, ExecType
  <2>2. DOMAIN <<>> = {} /\ <<>> \in [{} -> Stages]
    OBVIOUS
  <2>3. /\ stage'[c] \in [Positions(c)' -> Stages]
        /\ DOMAIN reply'[c] = Positions(c)' /\ DOMAIN value'[c] = Positions(c)'
        /\ errs'[c] \subseteq Positions(c)'
    BY <1>2, <1>3, <2>2
  <2>4. ASSUME NEW k \in Clients, k # c
        PROVE  /\ stage'[k] \in [Positions(k)' -> Stages]
               /\ DOMAIN reply'[k] = Positions(k)' /\ DOMAIN value'[k] = Positions(k)'
               /\ errs'[k] \subseteq Positions(k)'
    BY <1>2, <1>4, <2>4 DEF Apart, TypeOK, ExecType
  <2> QED
    BY <1>2, <2>1, <2>3, <2>4 DEF ExecType
<1>6. KnownInv'
  BY <1>2 DEF ExecInv, KnownInv, Apart
<1>7. Moves
  BY DEF Moves
<1> QED
  BY <1>2, <1>3, <1>5, <1>6, <1>7, OperationKeeps

\* A response shows voyages that exist.
LEMMA ShownExist ==
    ASSUME TypeOK, ExecInv, NEW c \in Clients, Ready(c), NEW i \in Positions(c),
           NEW v \in Shown(Field(c, i), value[c][i])
    PROVE  v \in Voyages /\ version[v] > 0
<1> DEFINE f == Field(c, i)
           x == value[c][i]
<1>1. x # Null /\ Asked(f) /\ v = f.id
  BY DEF Shown, Asked
<1>2. stage[c][i] = "done" /\ ValueInv(c, i)
  BY DEF Ready, TypeOK, ExecType, ExecInv, FieldsInv, FieldInv
<1>3. f \notin Introspection
  BY <1>1, OperationFields, AskedFields DEF TypeOK
<1>4. PICK w \in VoyageObjects : Stored(f.id, w)
  BY <1>1, <1>2, <1>3 DEF ValueInv
<1>5. f.id \in Voyages
  BY <1>1, <1>2, <1>3 DEF ValueInv, Landed
<1>6. w.version \in Int /\ w.version > 0 /\ w.version <= version[f.id]
  BY <1>4, GatewayAssumption DEF VoyageObjects, Stored
<1>7. version[f.id] \in Int
  BY <1>5, GatewayAssumption DEF TypeOK, ServiceType
<1> QED
  BY <1>1, <1>5, <1>6, <1>7

LEMMA RespondKeeps ==
    ASSUME TypeOK, ExecInv, NEW c \in Clients, Respond(c)
    PROVE  ExecInv' /\ ExecType' /\ known' \subseteq Voyages
<1>1. DOMAIN value[c] = Positions(c)
  BY DEF TypeOK, ExecType
<1>2. \A v \in known : v \in Voyages /\ version[v] > 0
  BY DEF ExecInv, KnownInv, TypeOK, ServiceType
<1>3. \A v \in known' : v \in Voyages /\ version[v] > 0
  BY <1>1, <1>2, ShownExist DEF Respond
<1>4. Clear(c) /\ UNCHANGED <<version, content>>
  BY DEF Respond, service
<1> QED
  BY <1>3, <1>4, ClearKeeps

LEMMA DisconnectKeeps ==
    ASSUME TypeOK, ExecInv, NEW c \in Clients, Disconnect(c)
    PROVE  ExecInv' /\ ExecType'
<1>1. Clear(c) /\ UNCHANGED <<version, content, known>>
  BY DEF Disconnect
<1> QED
  BY <1>1, ClearKeeps DEF ExecInv, KnownInv

\* Steps of the service alone, and steps that change nothing.
LEMMA ServiceKeeps ==
    ASSUME TypeOK, ExecInv, Moves, UNCHANGED <<exec, known>>
    PROVE  ExecInv' /\ ExecType'
<1>1. doc' = doc /\ stage' = stage /\ reply' = reply /\ value' = value /\ errs' = errs
  BY DEF exec
<1>2. \A k \in Clients : Positions(k)' = Positions(k)
  BY <1>1 DEF Positions
<1>3. ExecType'
  BY <1>1, <1>2 DEF TypeOK, ExecType
<1>4. FieldsInv'
  BY <1>1, <1>2, FieldStays DEF TypeOK, ExecInv, FieldsInv
<1>5. OrderInv'
  BY <1>1, <1>2 DEF ExecInv, OrderInv
<1>6. KnownInv'
  BY <1>1, KnownStays DEF TypeOK, ExecInv
<1> QED
  BY <1>3, <1>4, <1>5, <1>6 DEF ExecInv
-----------------------------------------------------------------------------
(* The service's own part of the invariant.                                *)

ServiceInv == ServiceType /\ LateInv /\ DistanceInv

\* Whatever is written came from an accepted request, cut down to 32 bits.
LEMMA DistanceStays ==
    ASSUME ServiceType, DistanceInv, Moves
    PROVE  /\ version' \in [Voyages -> 0..MaxVersion]
           /\ content' \in [Voyages -> 0..Half32 - 1 \cup {Nil}]
           /\ DistanceInv'
<1>1. CASE UNCHANGED <<version, content>>
  BY <1>1 DEF ServiceType, DistanceInv
<1>2. ASSUME NEW v, NEW n, NEW d, Wrote(v, n, d)
      PROVE  /\ version' \in [Voyages -> 0..MaxVersion]
             /\ content' \in [Voyages -> 0..Half32 - 1 \cup {Nil}]
             /\ DistanceInv'
  <2>1. /\ v \in Voyages /\ n \in 0..MaxVersion /\ d \in 0..Half32 - 1
        /\ version' = [version EXCEPT ![v] = n] /\ content' = [content EXCEPT ![v] = d]
    BY <1>2, GatewayAssumption DEF Wrote
  <2>2. /\ version' \in [Voyages -> 0..MaxVersion]
        /\ content' \in [Voyages -> 0..Half32 - 1 \cup {Nil}]
        /\ content'[v] = d
    BY <2>1 DEF ServiceType
  <2>3. ASSUME NEW u \in Voyages, u # v, version'[u] # 0
        PROVE  version[u] # 0 /\ content'[u] = content[u]
    BY <2>1, <2>3 DEF ServiceType
  <2>4. DistanceInv'
    BY <2>1, <2>2, <2>3 DEF DistanceInv
  <2> QED
    BY <2>2, <2>4
<1> QED
  BY <1>1, <1>2 DEF Moves

LEMMA ServiceStays ==
    ASSUME ServiceInv, Moves, late' \subseteq RootFields, LateInv',
           known' \subseteq Voyages, faults' \in 0..MaxFaults
    PROVE  ServiceInv'
  BY DistanceStays DEF ServiceInv, ServiceType

\* A fault is counted.
LEMMA FaultCounts ==
    ASSUME ServiceInv, Fault
    PROVE  faults' \in 0..MaxFaults
  BY GatewayAssumption DEF ServiceInv, ServiceType, Fault

LEMMA LateCalls ==
    ASSUME TypeOK, ExecInv, NEW c \in Clients, NEW i \in Positions(c),
           stage[c][i] = "called"
    PROVE  Field(c, i) \in RootFields /\ ArgsOK(Field(c, i))
  BY AtService

LEMMA CallFailsService ==
    ASSUME TypeOK, ExecInv, ServiceInv, NEW c \in Clients, NEW i \in Positions(c),
           CallFails(c, i)
    PROVE  ServiceInv'
<1>1. late' \subseteq RootFields /\ LateInv'
  <2>1. CASE late' = late
    BY <2>1 DEF ServiceInv, ServiceType, LateInv, ArgsOK
  <2>2. CASE /\ stage[c][i] = "called" /\ Field(c, i).name \in MutationNames
             /\ late' = late \cup {Field(c, i)}
    BY <2>2, LateCalls DEF ServiceInv, ServiceType, LateInv, ArgsOK
  <2> QED
    BY <2>1, <2>2 DEF CallFails
<1>2. Moves /\ faults' \in 0..MaxFaults /\ known' \subseteq Voyages
  BY FaultCounts DEF CallFails, Moves, Reply, ServiceInv, ServiceType
<1> QED
  BY <1>1, <1>2, ServiceStays

LEMMA DisconnectService ==
    ASSUME TypeOK, ExecInv, ServiceInv, NEW c \in Clients, Disconnect(c)
    PROVE  ServiceInv'
<1>1. DOMAIN stage[c] = Positions(c)
  BY DEF TypeOK, ExecType
<1>2. \A f \in late' : f \in late \/ \E i \in Positions(c) :
         f = Field(c, i) /\ stage[c][i] = "called" /\ f.name \in MutationNames
  BY <1>1 DEF Disconnect
<1>3. late' \subseteq RootFields /\ LateInv'
  BY <1>2, LateCalls DEF ServiceInv, ServiceType, LateInv, ArgsOK
<1>4. Moves /\ faults' \in 0..MaxFaults /\ known' \subseteq Voyages
  BY FaultCounts DEF Disconnect, Moves, ServiceInv, ServiceType
<1> QED
  BY <1>3, <1>4, ServiceStays

\* A call that arrives late is executed like any other.
LEMMA LateArrivesKeeps ==
    ASSUME TypeOK, ExecInv, ServiceInv, NEW f \in late, LateArrives(f)
    PROVE  Moves /\ ServiceInv'
<1>1. f \in RootFields /\ f.name \in MutationNames /\ ArgsOK(f)
  BY DEF ServiceInv, ServiceType, LateInv
<1>2. Moves
  <2>1. CASE Valid(f) /\ Writes(f)
    <3>1. Write(f)
      BY <2>1 DEF LateArrives
    <3> QED
      BY <1>1, <2>1, <3>1, WriteMoves DEF TypeOK, Moves
  <2>2. CASE ~(Valid(f) /\ Writes(f))
    BY <2>2 DEF LateArrives, Moves
  <2> QED
    BY <2>1, <2>2
<1>3. /\ late' \subseteq RootFields /\ LateInv' /\ known' \subseteq Voyages
      /\ faults' \in 0..MaxFaults
  BY DEF LateArrives, ServiceInv, ServiceType, LateInv, ArgsOK
<1> QED
  BY <1>2, <1>3, ServiceStays

\* A step of one root field leaves the abandoned calls and the faults alone.
FieldAction(c, i) ==
    \/ BadArgs(c, i) \/ Introspect(c, i) \/ EmptyId(c, i) \/ Call(c, i)
    \/ Reject(c, i) \/ Insert(c, i) \/ Execute(c, i) \/ Get(c, i) \/ Resolve(c, i)

LEMMA FieldActionKeeps ==
    ASSUME TypeOK, ExecInv, ServiceInv, NEW c \in Clients, NEW i \in Positions(c),
           FieldAction(c, i)
    PROVE  ExecInv' /\ ExecType' /\ ServiceInv'
<1>1. ExecInv' /\ ExecType'
  BY BadArgsKeeps, IntrospectKeeps, CallKeeps, RejectKeeps, InsertKeeps, ExecuteKeeps,
     GetKeeps, ResolveKeeps DEF FieldAction, ServiceInv
<1>2. Moves
  <2>1. CASE Insert(c, i) \/ Execute(c, i)
    BY <2>1, InsertKeeps, ExecuteKeeps
  <2>2. CASE BadArgs(c, i) \/ Introspect(c, i) \/ EmptyId(c, i) \/ Call(c, i)
    BY <2>2 DEF BadArgs, Introspect, EmptyId, Call, service, Moves
  <2>3. CASE Reject(c, i) \/ Get(c, i) \/ Resolve(c, i)
    BY <2>3 DEF Reject, Get, Resolve, service, Moves
  <2> QED
    BY <2>1, <2>2, <2>3 DEF FieldAction
<1>3. late' = late /\ faults' = faults /\ known' = known
  <2>1. CASE BadArgs(c, i) \/ EmptyId(c, i)
    BY <2>1 DEF BadArgs, EmptyId, Error, service
  <2>2. CASE Introspect(c, i) \/ Resolve(c, i)
    BY <2>2 DEF Introspect, Resolve, Done, Error, service
  <2>3. CASE Call(c, i) \/ Execute(c, i)
    BY <2>3 DEF Call, Execute, service
  <2>4. CASE Reject(c, i) \/ Insert(c, i) \/ Get(c, i)
    BY <2>4 DEF Reject, Insert, Get, Reply, service
  <2> QED
    BY <2>1, <2>2, <2>3, <2>4 DEF FieldAction
<1>4. late' \subseteq RootFields /\ LateInv' /\ known' \subseteq Voyages /\ faults' \in 0..MaxFaults
  BY <1>3 DEF ServiceInv, ServiceType, LateInv, ArgsOK
<1> QED
  BY <1>1, <1>2, <1>4, ServiceStays
-----------------------------------------------------------------------------
(* The invariant is inductive.                                             *)

LEMMA InvParts == GatewayInv <=> TypeOK /\ ExecInv /\ ServiceInv
  BY DEF GatewayInv, ExecInv, ServiceInv, TypeOK

LEMMA InitInv == Init => GatewayInv
<1>1. SUFFICES ASSUME Init PROVE GatewayInv
  OBVIOUS
<1>2. ServiceType
  BY <1>1, GatewayAssumption DEF Init, Register!Init, ServiceType
<1>3. \A c \in Clients : doc[c] = Nil /\ Positions(c) = {}
  BY <1>1 DEF Init, Positions
<1>4. ExecType
  <2>1. DOMAIN <<>> = {} /\ <<>> \in [{} -> Stages]
    OBVIOUS
  <2>2. \A c \in Clients :
           stage[c] = <<>> /\ reply[c] = <<>> /\ value[c] = <<>> /\ errs[c] = {}
    BY <1>1 DEF Init
  <2>3. /\ DOMAIN stage = Clients /\ DOMAIN reply = Clients
        /\ DOMAIN value = Clients /\ DOMAIN errs = Clients
        /\ doc \in [Clients -> Operations \cup {Nil}]
    BY <1>1 DEF Init
  <2> QED
    BY <1>3, <2>1, <2>2, <2>3 DEF ExecType
<1>5. FieldsInv /\ OrderInv
  BY <1>3 DEF FieldsInv, OrderInv
<1>6. KnownInv /\ LateInv
  BY <1>1, <1>3 DEF Init, KnownInv, LateInv
<1>7. DistanceInv
  BY <1>1 DEF Init, Register!Init, DistanceInv
<1> QED
  BY <1>2, <1>4, <1>5, <1>6, <1>7 DEF GatewayInv, TypeOK

LEMMA StepInv == GatewayInv /\ [Next]_vars => GatewayInv'
<1> SUFFICES ASSUME TypeOK, ExecInv, ServiceInv, [Next]_vars
             PROVE  ExecInv' /\ ExecType' /\ ServiceInv'
  <2>1. ExecType' /\ ServiceInv' => TypeOK'
    BY DEF TypeOK, ServiceInv
  <2>2. TypeOK' /\ ExecInv' /\ ServiceInv' => GatewayInv'
    BY DEF GatewayInv, ExecInv, ServiceInv
  <2> QED
    BY <2>1, <2>2, InvParts
<1>2. ASSUME Moves, late' = late, faults' = faults, known' \subseteq Voyages
      PROVE  ServiceInv'
  <2>1. late' \subseteq RootFields /\ LateInv' /\ faults' \in 0..MaxFaults
    BY <1>2 DEF ServiceInv, ServiceType, LateInv, ArgsOK
  <2> QED
    BY <1>2, <2>1, ServiceStays
<1>3. known \subseteq Voyages
  BY DEF ServiceInv, ServiceType
<1>4. CASE UNCHANGED vars
  <2>1. Moves /\ UNCHANGED <<exec, known>> /\ late' = late /\ faults' = faults
    BY <1>4 DEF vars, service, Moves
  <2> QED
    BY <1>2, <1>3, <2>1, ServiceKeeps
<1>5. ASSUME NEW c \in Clients, NEW d \in Documents, Post(c, d)
      PROVE  ExecInv' /\ ExecType' /\ ServiceInv'
  <2>1. Moves /\ late' = late /\ faults' = faults /\ known' = known
    BY <1>5 DEF Post, service, Moves
  <2> QED
    BY <1>2, <1>3, <1>5, <2>1, PostKeeps
<1>6. ASSUME NEW c \in Clients, Respond(c)
      PROVE  ExecInv' /\ ExecType' /\ ServiceInv'
  <2>1. Moves /\ late' = late /\ faults' = faults
    BY <1>6 DEF Respond, service, Moves
  <2> QED
    BY <1>2, <1>6, <2>1, RespondKeeps
<1>7. ASSUME NEW c \in Clients, NEW i \in DOMAIN stage[c],
             FieldAction(c, i) \/ CallFails(c, i)
      PROVE  ExecInv' /\ ExecType' /\ ServiceInv'
  <2>1. i \in Positions(c)
    BY <1>7 DEF TypeOK, ExecType
  <2> QED
    BY <1>7, <2>1, FieldActionKeeps, RejectKeeps, CallFailsService
<1>8. ASSUME NEW c \in Clients, Disconnect(c)
      PROVE  ExecInv' /\ ExecType' /\ ServiceInv'
  BY <1>8, DisconnectKeeps, DisconnectService
<1>9. ASSUME NEW f \in late, LateArrives(f)
      PROVE  ExecInv' /\ ExecType' /\ ServiceInv'
  <2>1. UNCHANGED <<exec, known>>
    BY <1>9 DEF LateArrives
  <2> QED
    BY <1>9, <2>1, LateArrivesKeeps, ServiceKeeps
<1> QED
  BY <1>4, <1>5, <1>6, <1>7, <1>8, <1>9 DEF Next, Refuse, Step, FieldAction
-----------------------------------------------------------------------------
(* What follows from the invariant.                                        *)

\* Every field of a response is done.
LEMMA DoneFields ==
    ASSUME GatewayInv, NEW c \in Clients, Ready(c)
    PROVE  /\ DOMAIN stage[c] = Positions(c) /\ DOMAIN value[c] = Positions(c)
           /\ \A i \in Positions(c) : stage[c][i] = "done" /\ ValueInv(c, i)
  BY DEF GatewayInv, TypeOK, ExecType, FieldsInv, FieldInv, Ready

\* A field that failed is null, and one the service was asked is no introspection.
LEMMA AnswerOf ==
    ASSUME GatewayInv, NEW c \in Clients, Ready(c), NEW i \in Positions(c),
           Asked(Field(c, i)), i \notin errs[c]
    PROVE  LET f == Field(c, i)
               x == value[c][i]
           IN  \/ f.name = "voyage" /\ x = Null /\ f.id \in Voyages \ doc[c].knew
               \/ /\ Landed(c, i)
                  /\ \E w \in VoyageObjects : x = Wrapped(f, w) /\ Stored(f.id, w)
<1>1. Field(c, i) \notin Introspection
  BY OperationFields, AskedFields DEF GatewayInv, TypeOK
<1> QED
  BY <1>1, DoneFields DEF ValueInv

\* A voyage that is shown is not null.
LEMMA ShownIsNotNull ==
    ASSUME NEW f, NEW w \in VoyageObjects
    PROVE  Wrapped(f, w) # Null
<1>1. w # Null /\ [voyage |-> w] # Null
  BY ObjectsAssumption, GatewayAssumption
<1> QED
  BY <1>1 DEF Wrapped

LEMMA InvClean == GatewayInv => CleanMeansDone
<1>1. SUFFICES ASSUME GatewayInv, NEW c \in Clients, Ready(c),
                      NEW i \in DOMAIN stage[c] \ errs[c]
               PROVE  LET f == Field(c, i) IN
                      /\ f.name = "createVoyage" => version[f.id] > 0
                      /\ f.name = "updateVoyage" /\ Exists(c, i) => version[f.id] >= f.version
  BY DEF CleanMeansDone
<1>2. i \in Positions(c)
  BY <1>1, DoneFields
<1>3. Field(c, i).name \in MutationNames => Landed(c, i)
  BY <1>1, <1>2, AnswerOf DEF Asked, MutationNames
<1> QED
  BY <1>3 DEF Landed, MutationNames

LEMMA InvNull == GatewayInv => NullMeansUnknown
<1>1. SUFFICES ASSUME GatewayInv, NEW c \in Clients, Ready(c), NEW i \in DOMAIN stage[c],
                      Field(c, i).name = "voyage", value[c][i] = Null, i \notin errs[c]
               PROVE  Field(c, i).id \in Voyages \ doc[c].knew
  BY DEF NullMeansUnknown
<1>2. i \in Positions(c)
  BY <1>1, DoneFields
<1> QED
  BY <1>1, <1>2, AnswerOf, ShownIsNotNull DEF Asked

LEMMA InvStored == GatewayInv => AnswersAreStored
<1>1. SUFFICES ASSUME GatewayInv, NEW c \in Clients, Ready(c), NEW i \in DOMAIN stage[c],
                      Asked(Field(c, i)), value[c][i] # Null
               PROVE  Stored(Field(c, i).id, ShownVoyage(Field(c, i), value[c][i]))
  BY DEF AnswersAreStored, Asked, Stored
<1>2. i \in Positions(c) /\ ValueInv(c, i) /\ stage[c][i] = "done"
  BY <1>1, DoneFields
<1>3. i \notin errs[c]
  BY <1>1, <1>2, OperationFields, AskedFields DEF GatewayInv, TypeOK, ValueInv
<1>4. PICK w \in VoyageObjects :
         value[c][i] = Wrapped(Field(c, i), w) /\ Stored(Field(c, i).id, w)
  BY <1>1, <1>2, <1>3, AnswerOf
<1>5. ShownVoyage(Field(c, i), value[c][i]) = w
  BY <1>4 DEF ShownVoyage, Wrapped
<1> QED
  BY <1>4, <1>5

\* A root field conforms if its value is made of objects that can be selected, and
\* is null only where the schema's text allows it.
LEMMA RootConforms ==
    ASSUME NEW t, NEW f, NEW v,
           Marshal(FieldsOf(t)[f], v) = Null => MayBeNull(t, f),
           Parts(FieldsOf(t)[f], v) \subseteq Objects
    PROVE  FieldConforms(Conforms, t, f, Marshal(FieldsOf(t)[f], v))
<1>1. ASSUME NEW part \in Parts(FieldsOf(t)[f], v), Object[part] # Null
      PROVE  Conforms[<<part[1], Object[part]>>]
  <2>1. <<part[1], Object[part]>> \in Answers
    BY <1>1 DEF Answers
  <2> QED
    BY <2>1, EveryAnswerConforms
<1> QED
  BY <1>1, FieldStep

\* Every root field of a query may be null.
LEMMA QueryNulls ==
    ASSUME NEW f \in DOMAIN QueryFields
    PROVE  MayBeNull("Query", f)
  BY DEF QueryFields, Nullable, MayBeNull, DeclaredNullable, FieldsOf

\* In a mutation a null is an error, and an error a null.
LEMMA MutationNulls ==
    ASSUME GatewayInv, NEW c \in Clients, Ready(c), doc[c].op = "mutation",
           NEW i \in Positions(c)
    PROVE  value[c][i] = Null <=> i \in errs[c]
<1>1. Asked(Field(c, i)) /\ Field(c, i).name # "voyage"
  BY OperationFields DEF GatewayInv, TypeOK, MutationField, MutationNames, Asked
<1>2. ASSUME i \notin errs[c]
      PROVE  value[c][i] # Null
  BY <1>1, <1>2, AnswerOf, ShownIsNotNull
<1>3. ASSUME i \in errs[c]
      PROVE  value[c][i] = Null
  BY <1>3, DoneFields DEF ValueInv
<1> QED
  BY <1>2, <1>3

\* A field that did not fail has a value the schema's text allows.
LEMMA ValueConforms ==
    ASSUME GatewayInv, NEW c \in Clients, Ready(c), NEW i \in Positions(c), i \notin errs[c]
    PROVE  FieldConforms(Conforms, RootType(doc[c].op), Field(c, i).name, value[c][i])
<1> DEFINE f == Field(c, i)
           t == RootType(doc[c].op)
           field == FieldsOf(t)[f.name]
           x == value[c][i]
<1>1. /\ doc[c].op \in {"mutation", "query"} /\ f \in RootFields
      /\ doc[c].op = "mutation" => MutationField(f)
      /\ doc[c].op = "query" => QueryField(f)
  BY OperationFields DEF GatewayInv, TypeOK
<1>2. doc[c].op = "query" => t = "Query" /\ field = QueryFields[f.name]
  BY DEF RootType, FieldsOf
<1>3. CASE f \in Introspection
  <2>1. doc[c].op = "query" /\ f.name \in {"__type", "__schema"}
    BY <1>1, <1>3 DEF Introspection, MutationField, MutationNames
  <2>2. f.obj = Nil \/ <<field.type, f.obj>> \in Objects
    BY <1>1, <1>2, <2>1 DEF QueryField
  <2>3. field = Nullable("__Type") \/ field = Nullable("__Schema")
    BY <1>2, <2>1 DEF QueryFields
  <2>4. Parts(field, f.obj) \subseteq Objects
    BY <2>2, <2>3 DEF Parts, Elements, Nullable
  <2>5. MayBeNull(t, f.name)
    BY <1>2, <2>1, QueryNulls DEF QueryFields
  <2>6. FieldConforms(Conforms, t, f.name, Marshal(field, f.obj))
    BY <2>4, <2>5, RootConforms
  <2>7. x = Marshal(field, f.obj)
    <3>1. ~Asked(f) /\ f.name # "voyage"
      BY <2>1 DEF Asked, MutationNames
    <3>2. x = Introspected[f]
      BY <3>1, DoneFields DEF ValueInv
    <3> QED
      BY <1>2, <1>3, <2>1, <3>2 DEF Introspected
  <2> QED
    BY <2>6, <2>7
<1>4. CASE f \notin Introspection
  <2>1. Asked(f)
    BY <1>4, DoneFields DEF ValueInv, Asked
  <2>2. CASE f.name = "voyage" /\ x = Null
    <3>1. doc[c].op = "query"
      BY <1>1, <2>2 DEF MutationField, MutationNames
    <3>2. MayBeNull(t, f.name)
      BY <1>2, <2>2, <3>1, QueryNulls DEF QueryFields
    <3> QED
      BY <2>2, <3>2 DEF FieldConforms
  <2>3. ASSUME NEW w \in VoyageObjects, x = Wrapped(f, w)
        PROVE  FieldConforms(Conforms, t, f.name, x)
    <3>1. x # Null /\ Marshal(field, x) = x
      BY <2>1, <2>3, ShownIsNotNull, AnswersMarshalled DEF GatewayInv
    <3>2. Parts(field, x) \subseteq Objects
      <4>1. CASE doc[c].op = "query"
        <5>1. f.name = "voyage" /\ field = Nullable("Voyage")
          BY <1>1, <1>2, <2>1, <4>1
          DEF Asked, QueryField, MutationNames, QueryFields
        <5>2. Parts(field, x) \subseteq {<<"Voyage", w>>}
          BY <2>3, <5>1 DEF Wrapped, Parts, Elements, Nullable
        <5> QED
          BY <5>2, GatewayAssumption
      <4>2. CASE doc[c].op = "mutation"
        <5>1. t = "Mutation" /\ f.name \in MutationNames
          BY <1>1, <4>2 DEF RootType, MutationField
        <5>2. field = NonNull(IF f.name = "createVoyage" THEN "CreateVoyagePayload" ELSE "Voyage")
          BY <5>1 DEF FieldsOf, MutationFields, MutationNames
        <5>3. Parts(field, x) \subseteq
                {<<"Voyage", w>>, <<"CreateVoyagePayload", [voyage |-> w]>>}
          BY <2>3, <5>2 DEF Wrapped, Parts, Elements, NonNull
        <5> QED
          BY <5>3, GatewayAssumption
      <4> QED
        BY <1>1, <4>1, <4>2
    <3> QED
      BY <3>1, <3>2, RootConforms
  <2> QED
    BY <2>1, <2>2, <2>3, AnswerOf
<1> QED
  BY <1>3, <1>4

LEMMA InvConforms == GatewayInv => ResponseConforms
<1>1. SUFFICES ASSUME GatewayInv, NEW c \in Clients, Ready(c)
               PROVE  /\ NoData(c) <=> doc[c].op = "mutation" /\ errs[c] # {}
                      /\ ~NoData(c) => \A i \in DOMAIN value[c] :
                            /\ FieldConforms(Conforms, RootType(doc[c].op), Field(c, i).name,
                                             value[c][i])
                            /\ i \in errs[c] => value[c][i] = Null
  BY DEF ResponseConforms
<1>2. DOMAIN value[c] = Positions(c) /\ errs[c] \subseteq Positions(c)
  BY <1>1 DEF GatewayInv, TypeOK, ExecType
<1>3. NoData(c) <=> doc[c].op = "mutation" /\ errs[c] # {}
  BY <1>1, <1>2, MutationNulls DEF NoData, DataNull
<1>4. ASSUME ~NoData(c), NEW i \in Positions(c), i \in errs[c]
      PROVE  /\ value[c][i] = Null
             /\ FieldConforms(Conforms, RootType(doc[c].op), Field(c, i).name, value[c][i])
  <2>1. value[c][i] = Null
    BY <1>1, <1>4, DoneFields DEF ValueInv
  <2>2. doc[c].op = "query" /\ Field(c, i).name \in DOMAIN QueryFields
    BY <1>1, <1>3, <1>4, OperationFields DEF GatewayInv, TypeOK, QueryField
  <2>3. MayBeNull(RootType(doc[c].op), Field(c, i).name)
    BY <2>2, QueryNulls DEF RootType
  <2> QED
    BY <2>1, <2>3 DEF FieldConforms
<1> QED
  BY <1>1, <1>2, <1>3, <1>4, ValueConforms
-----------------------------------------------------------------------------
(* The theorems.                                                           *)

LEMMA InvHolds == Spec => []GatewayInv
  BY InitInv, StepInv, PTL DEF Spec

\* The executor keeps one stage, reply and value per root field of the operation in
\* progress, errors only of those fields, and nothing of an operation that is over,
\* although clients come and go and calls fail (the FieldSet and the error list of
\* generated.go, which live as long as one operation); the service has a version and
\* a distance for each voyage, and only mutations that were posted reach it late.
THEOREM TypeCorrect == Spec => []TypeOK
<1>1. GatewayInv => TypeOK
  BY DEF GatewayInv
<1> QED
  BY <1>1, InvHolds, PTL

\* A mutation that is not among the errors of its response took effect, in order,
\* although others of its operation may have failed, others write and calls arrive
\* late: _Mutation runs its fields in turn, whatever became of the earlier ones, and
\* a resolver that has no error to report has read the voyage back after its write.
THEOREM CleanResponse == Spec => []CleanMeansDone
  BY InvClean, InvHolds, PTL

\* A null voyage without an error was unknown, and was not shown by any answer that
\* came before the query: Voyage (schema.resolvers.go) answers nil for NotFound
\* alone, and versions never fall back to 0.
THEOREM NullVoyage == Spec => []NullMeansUnknown
  BY InvNull, InvHolds, PTL

\* What an answer shows of a voyage is what the service stored, at its version or an
\* earlier one, although the write and the read of a call are two statements and
\* other clients' writes come between them (toModelVoyage and the voyage server).
THEOREM StoredAnswers == Spec => []AnswersAreStored
  BY InvStored, InvHolds, PTL

\* Every response is one the schema's text allows, however deep the objects of an
\* introspection are selected: data is null exactly for a mutation with a failed
\* field, and otherwise a null stands only where the schema declares one, although
\* the executor decides it object by object from its Invalids counters.
THEOREM ConformingResponse == Spec => []ResponseConforms
  BY InvConforms, InvHolds, PTL
=============================================================================
