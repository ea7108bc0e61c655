------------------------------ MODULE MCGateway ------------------------------
(* Operations for TLC: the two the onBOARD client sends, an edit of a voyage *)
(* in the operation that creates it, operations whose parts fail in          *)
(* different ways, and queries that mix voyages with introspection.          *)
EXTENDS Gateway, FiniteSetsExt

CONSTANT v1

New(v, d) == [name |-> "createVoyage", id |-> v, version |-> 1, distanceNm |-> d]
Edit(v, n, d) == [name |-> "updateVoyage", id |-> v, version |-> n, distanceNm |-> d]
Ask(v) == [name |-> "voyage", id |-> v]
AskType(t) == [name |-> "__type", obj |-> t]
AskSchema(s) == [name |-> "__schema", obj |-> s]

Mutation(fs) == [op |-> "mutation", fields |-> fs]
Query(fs) == [op |-> "query", fields |-> fs]

\* What introspection holds of this schema: a scalar, Int!, and a Voyage type
\* with a field of type Int!; of an unknown name, nothing.
IntType == [kind |-> "SCALAR", name |-> "Int", fields |-> Nil, ofType |-> Nil]
IntNonNull == [kind |-> "NON_NULL", name |-> Nil, fields |-> Nil, ofType |-> IntType]
DistanceNm ==
    [name |-> "distanceNm", description |-> Nil, args |-> Nil, type |-> IntNonNull,
     isDeprecated |-> FALSE, deprecationReason |-> Nil]
VoyageType ==
    [kind |-> "OBJECT", name |-> "Voyage", fields |-> <<DistanceNm>>,
     interfaces |-> <<>>, ofType |-> Nil]
TheSchema ==
    [description |-> Nil, types |-> <<IntType, VoyageType>>, queryType |-> VoyageType,
     mutationType |-> VoyageType, subscriptionType |-> Nil,
     directives |-> <<[name |-> "skip", description |-> Nil, isRepeatable |-> FALSE,
                       locations |-> <<"FIELD">>, args |-> Nil]>>]

\* The objects below one object, itself included, and how deep they go.
RECURSIVE Below(_), DepthOf(_)
PartsOf(o) == UNION {Parts(FieldsOf(o[1])[f], o[2][f]) : f \in DOMAIN o[2]}
Below(o) == {o} \cup UNION {Below(part) : part \in PartsOf(o)}
DepthOf(o) == Max({0} \cup {DepthOf(part) + 1 : part \in PartsOf(o)})

MCObjects ==
    {<<"Voyage", v>> : v \in VoyageObjects}
    \cup {<<"CreateVoyagePayload", [voyage |-> v]>> : v \in VoyageObjects}
    \cup Below(<<"__Schema", TheSchema>>)
MCDepth == [o \in MCObjects |-> DepthOf(o)]

\* Half32 is 4: of the distances, 10 is cut down to 2, and 4 to -4.
MCDocuments ==
    {Mutation(<<New(v1, 2), Edit(v1, 2, 1)>>),
     Mutation(<<New(NoId, 1), Edit(v1, 3, 10)>>),
     Mutation(<<Edit(v1, 2, 4), New(v1, NotInt)>>),
     Query(<<Ask(v1), AskSchema(TheSchema)>>),
     Query(<<Ask(NoId), AskType(Nil)>>)}
=============================================================================
