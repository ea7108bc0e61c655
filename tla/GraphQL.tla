------------------------------- MODULE GraphQL -------------------------------
(***************************************************************************)
(* The generated GraphQL executor (gen/graphql/generated.go): how a value  *)
(* a resolver returned becomes the data of a response.  A null in a place  *)
(* the schema declares non-null is not sent: it makes the object it is in  *)
(* null, and so on upwards to the nearest place that may be null.          *)
(*                                                                         *)
(* A value is Nil, a scalar, a record or a sequence; a record has the      *)
(* selected fields and no others, so that it stands for the object and for *)
(* the selection together.  Selections nest to a finite depth, so that the *)
(* executor's functions, which call each other, are a recursive function   *)
(* of the objects that can be selected.                                    *)
(***************************************************************************)
EXTENDS Integers, Sequences

CONSTANTS Nil,      \* Go's nil: a missing object, string or slice
          Null,     \* graphql.Null in a response
          Objects,  \* objects an operation may select, each with its type
          Depth     \* how deep the selection of each of them goes

Scalars == {"ID", "String", "Int", "Boolean", "Enum"}

\* The type of a field: what it holds, and where a null may stand.
Nullable(t) == [type |-> t, nonNull |-> FALSE, list |-> FALSE]
NonNull(t) == [type |-> t, nonNull |-> TRUE, list |-> FALSE]
NullableList(t) == [type |-> t, nonNull |-> FALSE, list |-> TRUE]
NonNullList(t) == [type |-> t, nonNull |-> TRUE, list |-> TRUE]
-----------------------------------------------------------------------------
(* The field functions: per type its fields, each with the marshaller its  *)
(* ResolveField uses.                                                      *)

PayloadFields ==
    [voyage |-> NonNull("Voyage"), provisionalEstimateMinor |-> NonNull("Int"),
     estimatePending |-> NonNull("Boolean")]

MutationFields ==
    [createVoyage |-> NonNull("CreateVoyagePayload"), updateVoyage |-> NonNull("Voyage")]

QueryFields ==
    [voyage |-> Nullable("Voyage"), __type |-> Nullable("__Type"),
     __schema |-> Nullable("__Schema")]

VoyageFields ==
    [clientRequestId |-> NonNull("ID"), origin |-> NonNull("String"),
     dest |-> NonNull("String"), distanceNm |-> NonNull("Int"),
     feesMinor |-> NonNull("Int"), version |-> NonNull("Int"),
     estimateMinor |-> NonNull("Int")]

DirectiveFields ==
    [name |-> NonNull("String"), description |-> Nullable("String"),
     isRepeatable |-> NonNull("Boolean"), locations |-> NonNullList("Enum"),
     args |-> NonNullList("__InputValue")]

EnumValueFields ==
    [name |-> NonNull("String"), description |-> Nullable("String"),
     isDeprecated |-> NonNull("Boolean"), deprecationReason |-> Nullable("String")]

FieldFields ==
    [name |-> NonNull("String"), description |-> Nullable("String"),
     args |-> NonNullList("__InputValue"), type |-> NonNull("__Type"),
     isDeprecated |-> NonNull("Boolean"), deprecationReason |-> Nullable("String")]

InputValueFields ==
    [name |-> NonNull("String"), description |-> Nullable("String"),
     type |-> NonNull("__Type"), defaultValue |-> Nullable("String"),
     isDeprecated |-> NonNull("Boolean"), deprecationReason |-> Nullable("String")]

SchemaFields ==
    [description |-> Nullable("String"), types |-> NonNullList("__Type"),
     queryType |-> NonNull("__Type"), mutationType |-> Nullable("__Type"),
     subscriptionType |-> Nullable("__Type"), directives |-> NonNullList("__Directive")]

TypeNames ==
    [kind |-> NonNull("Enum"), name |-> Nullable("String"),
     description |-> Nullable("String"), specifiedByURL |-> Nullable("String")]

TypeMembers ==
    [fields |-> NullableList("__Field"), interfaces |-> NullableList("__Type"),
     possibleTypes |-> NullableList("__Type"), enumValues |-> NullableList("__EnumValue")]

TypeWrapping ==
    [inputFields |-> NullableList("__InputValue"), ofType |-> Nullable("__Type"),
     isOneOf |-> Nullable("Boolean")]

TypeFields ==
    [f \in DOMAIN TypeNames \cup DOMAIN TypeMembers \cup DOMAIN TypeWrapping |->
        IF f \in DOMAIN TypeNames THEN TypeNames[f]
        ELSE IF f \in DOMAIN TypeMembers THEN TypeMembers[f] ELSE TypeWrapping[f]]

\* The fields of each type; a type has no others.
FieldsOf(t) ==
    CASE t = "CreateVoyagePayload" -> PayloadFields
      [] t = "Mutation"            -> MutationFields
      [] t = "Query"               -> QueryFields
      [] t = "Voyage"              -> VoyageFields
      [] t = "__Directive"         -> DirectiveFields
      [] t = "__EnumValue"         -> EnumValueFields
      [] t = "__Field"             -> FieldFields
      [] t = "__InputValue"        -> InputValueFields
      [] t = "__Schema"            -> SchemaFields
      [] t = "__Type"              -> TypeFields
-----------------------------------------------------------------------------
(* The object functions: per type the fields whose null counts in Invalids *)
(* (compared with graphql.Null, not with graphql.RequiredNull).            *)

PayloadInvalids == {"voyage", "provisionalEstimateMinor", "estimatePending"}
VoyageInvalids ==
    {"clientRequestId", "origin", "dest", "distanceNm", "feesMinor", "version",
     "estimateMinor"}
DirectiveInvalids == {"name", "isRepeatable", "locations", "args"}
EnumValueInvalids == {"name", "isDeprecated"}
FieldInvalids == {"name", "args", "type", "isDeprecated"}
InputValueInvalids == {"name", "type", "isDeprecated"}
SchemaInvalids == {"types", "queryType", "directives"}
TypeInvalids == {"kind"}

Invalids(t) ==
    CASE t = "CreateVoyagePayload" -> PayloadInvalids
      [] t = "Voyage"              -> VoyageInvalids
      [] t = "__Directive"         -> DirectiveInvalids
      [] t = "__EnumValue"         -> EnumValueInvalids
      [] t = "__Field"             -> FieldInvalids
      [] t = "__InputValue"        -> InputValueInvalids
      [] t = "__Schema"            -> SchemaInvalids
      [] t = "__Type"              -> TypeInvalids
-----------------------------------------------------------------------------
(* The objects an operation may select.                                    *)

Types ==
    {"CreateVoyagePayload", "Voyage", "__Directive", "__EnumValue", "__Field",
     "__InputValue", "__Schema", "__Type"}

Elements(field, v) == IF field.list THEN {v[i] : i \in DOMAIN v} ELSE {v}

\* The objects a field's value consists of; none if it is nil or holds scalars.
Parts(field, v) ==
    IF v = Nil \/ field.type \in Scalars THEN {}
    ELSE {<<field.type, e>> : e \in Elements(field, v) \ {Nil}}

\* A selection is of fields the type has, and ends.
ASSUME ObjectsAssumption ==
    /\ Depth \in [Objects -> Nat]
    /\ \A o \in Objects :
          /\ o = <<o[1], o[2]>> /\ o[1] \in Types /\ o[2] \notin {Nil, Null}
          /\ \A f \in DOMAIN o[2] :
                /\ f \in DOMAIN FieldsOf(o[1])
                /\ \A part \in Parts(FieldsOf(o[1])[f], o[2][f]) :
                      part \in Objects /\ Depth[part] < Depth[o]
-----------------------------------------------------------------------------
(* The marshallers, given what the object functions make of each object.   *)

\* marshalN of one value: Nil is null (and an error of the field).
MarshalN(object, t, v) ==
    IF v = Nil THEN Null ELSE IF t \in Scalars THEN v ELSE object[<<t, v>>]

\* marshalN of a slice: a nil slice is an empty list, a null element a null list.
MarshalNSlice(object, t, v) ==
    LET ret == IF v = Nil THEN <<>> ELSE [i \in DOMAIN v |-> MarshalN(object, t, v[i])]
    IN  IF \E i \in DOMAIN ret : ret[i] = Null THEN Null ELSE ret

\* marshalO: Nil is null; anything else is marshalled as marshalN does.
MarshalO(object, field, v) ==
    IF v = Nil THEN Null
    ELSE IF field.list THEN MarshalNSlice(object, field.type, v)
    ELSE MarshalN(object, field.type, v)

MarshalField(object, field, v) ==
    IF ~field.nonNull THEN MarshalO(object, field, v)
    ELSE IF field.list THEN MarshalNSlice(object, field.type, v)
    ELSE MarshalN(object, field.type, v)

\* An object's selected fields, each marshalled.
FieldSet(object, o) ==
    [f \in DOMAIN o[2] |-> MarshalField(object, FieldsOf(o[1])[f], o[2][f])]

\* An object: all its selected fields, or null if one that counts is null.
Object[o \in Objects] ==
    LET out == FieldSet(Object, o)
    IN  IF \E f \in DOMAIN o[2] \cap Invalids(o[1]) : out[f] = Null THEN Null ELSE out

Marshal(field, v) == MarshalField(Object, field, v)
-----------------------------------------------------------------------------
(* The schema's text, against which responses are judged: types of the     *)
(* project's own schema, with the fields that are declared nullable.       *)

DeclaredNullable == {<<"Query", "voyage">>}

MayBeNull(t, f) ==
    IF t \in {"Voyage", "CreateVoyagePayload", "Query", "Mutation"} /\ f \notin {"__type", "__schema"}
    THEN <<t, f>> \in DeclaredNullable
    ELSE ~FieldsOf(t)[f].nonNull

\* What responses can hold in place of an object.
Answers == {<<o[1], Object[o]>> : o \in {p \in Objects : Object[p] # Null}}

\* x may stand in field f of an answer of type t: a null only where the schema
\* allows one, never in a list, and else what conforms itself.
FieldConforms(conforms, t, f, x) ==
    LET field == FieldsOf(t)[f]
        Fits(e) == field.type \in Scalars \/ conforms[<<field.type, e>>]
    IN  IF x = Null THEN MayBeNull(t, f)
        ELSE \A e \in Elements(field, x) : e # Null /\ Fits(e)

\* Every null in an answer is one the schema allows, however deep it is.
Conforms[a \in Answers] ==
    \A f \in DOMAIN a[2] : FieldConforms(Conforms, a[1], f, a[2][f])
=============================================================================
