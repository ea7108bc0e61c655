---------------------------- MODULE GraphQLProofs ----------------------------
(***************************************************************************)
(* Proofs about the executor, for any objects whose selections have a      *)
(* finite depth: the object functions, which call each other, make of      *)
(* every object one definite answer; a voyage is answered field for field; *)
(* and an answer holds no null that the schema forbids, however deep.      *)
(***************************************************************************)
EXTENDS GraphQL, WellFoundedInduction, TLAPS

(* Induction on the depth of a selection.                                  *)

Less == {p \in Nat \X Nat : p[1] < p[2]}

\* Every non-empty set of natural numbers has a least element.
LEMMA LeastNatural ==
    ASSUME NEW T, T \subseteq Nat, T # {}
    PROVE  \E n \in T : \A m \in T : n <= m
<1>1. IsWellFoundedOn(Less, Nat)
  BY NatLessThanWellFounded, Zenon DEF OpToRel, Less
<1>2. PICK n \in T : \A m \in T : ~(<<m, n>> \in Less)
  BY <1>1, WFMin
<1>3. \A m \in T : ~(m < n)
  BY <1>2 DEF Less
<1>4. \A m \in T : n <= m
  BY <1>3
<1> QED
  BY <1>4

\* Of any objects there are, one has the least depth.
LEMMA Shallowest ==
    ASSUME NEW S, S \subseteq Objects, S # {}
    PROVE  \E o \in S : \A p \in S : ~(Depth[p] < Depth[o])
<1> DEFINE T == {Depth[o] : o \in S}
<1>1. \A o \in S : Depth[o] \in Nat
  BY ObjectsAssumption
<1>2. T \subseteq Nat /\ T # {}
  BY <1>1
<1>3. PICK n \in T : \A m \in T : n <= m
  <2> HIDE DEF T
  <2> QED BY <1>2, LeastNatural
<1>4. PICK o \in S : Depth[o] = n
  BY <1>3
<1>5. \A p \in S : Depth[p] \in T
  OBVIOUS
<1>6. \A p \in S : ~(Depth[p] < Depth[o])
  <2> HIDE DEF T
  <2> QED BY <1>1, <1>3, <1>4, <1>5
<1> QED
  BY <1>6
-----------------------------------------------------------------------------
(* The object functions are a recursion that ends.                         *)

\* What the function of o's type makes of o, given what is made of its parts.
Made(object, o) ==
    LET out == FieldSet(object, o)
    IN  IF \E f \in DOMAIN o[2] \cap Invalids(o[1]) : out[f] = Null THEN Null ELSE out

\* The parts of an object are objects, with less below them.
LEMMA PartsBelow ==
    ASSUME NEW o \in Objects, NEW f \in DOMAIN o[2],
           NEW part \in Parts(FieldsOf(o[1])[f], o[2][f])
    PROVE  part \in Objects /\ Depth[part] < Depth[o]
  BY ObjectsAssumption

\* A marshaller looks at nothing but the value's own parts.
LEMMA MarshalLocal ==
    ASSUME NEW field, NEW v, NEW g, NEW h,
           \A part \in Parts(field, v) : g[part] = h[part]
    PROVE  MarshalField(g, field, v) = MarshalField(h, field, v)
<1>1. CASE v = Nil
  BY <1>1 DEF MarshalField, MarshalO, MarshalN, MarshalNSlice
<1>2. CASE v # Nil /\ ~field.list
  <2>1. field.type \notin Scalars => <<field.type, v>> \in Parts(field, v)
    BY <1>2 DEF Parts, Elements
  <2>2. MarshalN(g, field.type, v) = MarshalN(h, field.type, v)
    BY <2>1, <1>2 DEF MarshalN
  <2> QED
    BY <2>2, <1>2 DEF MarshalField, MarshalO
<1>3. CASE v # Nil /\ field.list
  <2>1. \A i \in DOMAIN v : v[i] # Nil /\ field.type \notin Scalars
                               => <<field.type, v[i]>> \in Parts(field, v)
    BY <1>3 DEF Parts, Elements
  <2>2. \A i \in DOMAIN v : MarshalN(g, field.type, v[i]) = MarshalN(h, field.type, v[i])
    BY <2>1 DEF MarshalN
  <2>3. [i \in DOMAIN v |-> MarshalN(g, field.type, v[i])]
          = [i \in DOMAIN v |-> MarshalN(h, field.type, v[i])]
    BY <2>2
  <2>4. MarshalNSlice(g, field.type, v) = MarshalNSlice(h, field.type, v)
    BY <2>3, <1>3 DEF MarshalNSlice
  <2> QED
    BY <2>4, <1>3 DEF MarshalField, MarshalO
<1> QED
  BY <1>1, <1>2, <1>3

\* So does an object function: two that agree below o make the same of o.
LEMMA MadeLocal ==
    ASSUME NEW o \in Objects, NEW g, NEW h,
           \A p \in Objects : Depth[p] < Depth[o] => g[p] = h[p]
    PROVE  Made(g, o) = Made(h, o)
<1>1. ASSUME NEW f \in DOMAIN o[2]
      PROVE  MarshalField(g, FieldsOf(o[1])[f], o[2][f])
               = MarshalField(h, FieldsOf(o[1])[f], o[2][f])
  <2>1. \A part \in Parts(FieldsOf(o[1])[f], o[2][f]) : g[part] = h[part]
    BY PartsBelow
  <2> QED
    BY <2>1, MarshalLocal
<1>2. FieldSet(g, o) = FieldSet(h, o)
  BY <1>1 DEF FieldSet
<1> QED
  BY <1>2 DEF Made

\* g is what the object functions compute, for objects of depth below n.
Solves(g, n) == \A o \in Objects : Depth[o] < n => g[o] = Made(g, o)

LEMMA OneSolution ==
    ASSUME NEW n \in Nat, NEW g, NEW h, Solves(g, n), Solves(h, n),
           NEW o \in Objects, Depth[o] < n
    PROVE  g[o] = h[o]
<1> DEFINE S == {p \in Objects : Depth[p] < n /\ g[p] # h[p]}
<1>1. SUFFICES ASSUME S # {} PROVE FALSE
  OBVIOUS
<1>2. PICK p \in S : \A q \in S : ~(Depth[q] < Depth[p])
  BY <1>1, Shallowest
<1>3. \A q \in Objects : Depth[q] \in Nat
  BY ObjectsAssumption
<1>4. \A q \in Objects : Depth[q] < Depth[p] => g[q] = h[q]
  BY <1>2, <1>3
<1>5. Made(g, p) = Made(h, p)
  BY <1>4, MadeLocal
<1> QED
  BY <1>5, <1>2 DEF Solves

LEMMA SomeSolution == \A n \in Nat : \E g : Solves(g, n)
<1> DEFINE T == {n \in Nat : ~\E g : Solves(g, n)}
<1>1. SUFFICES ASSUME T # {} PROVE FALSE
  OBVIOUS
<1>2. PICK n \in T : \A m \in T : n <= m
  <2>1. T \subseteq Nat
    OBVIOUS
  <2> HIDE DEF T
  <2> QED BY <1>1, <2>1, LeastNatural
<1>3. \A o \in Objects : Depth[o] \in Nat
  BY ObjectsAssumption
<1>4. n # 0
  BY <1>2, <1>3 DEF Solves
<1>5. n - 1 \in Nat /\ n - 1 \notin T
  BY <1>2, <1>4
<1>6. PICK g : Solves(g, n - 1)
  BY <1>5
<1> DEFINE h == [o \in Objects |-> Made(g, o)]
<1>7. ASSUME NEW o \in Objects, Depth[o] < n
      PROVE  h[o] = Made(h, o)
  <2>1. \A p \in Objects : Depth[p] < Depth[o] => g[p] = h[p]
    BY <1>3, <1>6, <1>7 DEF Solves
  <2>2. Made(g, o) = Made(h, o)
    <3> HIDE DEF h
    <3> QED BY <2>1, MadeLocal
  <2> QED
    BY <2>2
<1>8. Solves(h, n)
  <2> HIDE DEF h
  <2> QED BY <1>7 DEF Solves
<1> QED
  BY <1>8, <1>2

\* The object functions of generated.go compute one answer for each object: the
\* recursion through the marshallers ends, whatever is selected.
THEOREM ObjectEquation == Object = [o \in Objects |-> Made(Object, o)]
<1> DEFINE upTo(n) == CHOOSE g : Solves(g, n)
           G == [o \in Objects |-> upTo(Depth[o] + 1)[o]]
<1>1. \A n \in Nat : Solves(upTo(n), n)
  BY SomeSolution
<1>2. \A o \in Objects : Depth[o] \in Nat
  BY ObjectsAssumption
<1> HIDE DEF upTo
<1>3. ASSUME NEW o \in Objects
      PROVE  G[o] = Made(G, o)
  <2> DEFINE u == upTo(Depth[o] + 1)
  <2>1. Solves(u, Depth[o] + 1)
    BY <1>1, <1>2
  <2> HIDE DEF u
  <2>2. u[o] = Made(u, o)
    BY <2>1, <1>2 DEF Solves
  <2>3. ASSUME NEW p \in Objects, Depth[p] < Depth[o]
        PROVE  G[p] = u[p]
    <3> DEFINE w == upTo(Depth[p] + 1)
    <3>1. Solves(w, Depth[p] + 1) /\ Depth[p] + 1 \in Nat
      BY <1>1, <1>2
    <3>2. Solves(u, Depth[p] + 1)
      BY <2>1, <2>3, <1>2 DEF Solves
    <3>3. G[p] = w[p]
      OBVIOUS
    <3> HIDE DEF w, G
    <3>4. w[p] = u[p]
      BY <3>1, <3>2, <1>2, OneSolution
    <3> QED
      BY <3>3, <3>4
  <2>4. Made(u, o) = Made(G, o)
    <3> HIDE DEF G
    <3> QED BY <2>3, MadeLocal
  <2>5. G[o] = u[o]
    BY DEF u
  <2> QED
    BY <2>2, <2>4, <2>5
<1>4. G = [o \in Objects |-> Made(G, o)]
  BY <1>3
<1> HIDE DEF G
<1>5. \E g : g = [o \in Objects |-> Made(g, o)]
  BY <1>4
<1>6. Object = CHOOSE g : g = [o \in Objects |-> Made(g, o)]
  BY DEF Object, Made
<1> QED
  BY <1>5, <1>6, Zenon
-----------------------------------------------------------------------------
(* Null propagation.                                                       *)

\* What one object function computes, its parts being answered.
LEMMA ObjectMade ==
    ASSUME NEW o \in Objects
    PROVE  Object[o] = Made(Object, o)
  BY ObjectEquation

\* An object is null if a field that counts is, and else its fields marshalled.
LEMMA ObjectFields ==
    ASSUME NEW o \in Objects, Object[o] # Null
    PROVE  /\ DOMAIN Object[o] = DOMAIN o[2]
           /\ \A f \in DOMAIN o[2] :
                 /\ Object[o][f] = Marshal(FieldsOf(o[1])[f], o[2][f])
                 /\ f \in Invalids(o[1]) => Object[o][f] # Null
<1>1. Object[o] = FieldSet(Object, o)
  BY ObjectMade DEF Made
<1>2. \A f \in DOMAIN o[2] \cap Invalids(o[1]) : FieldSet(Object, o)[f] # Null
  BY ObjectMade DEF Made
<1> QED
  BY <1>1, <1>2 DEF FieldSet, Marshal

\* The generated object functions count exactly the fields that the schema's text
\* declares non-null.
LEMMA InvalidsAreNonNull ==
    ASSUME NEW t \in Types, NEW f \in DOMAIN FieldsOf(t), f \notin Invalids(t)
    PROVE  MayBeNull(t, f)
<1> USE DEF NonNull, Nullable, NonNullList, NullableList
<1>1. CASE t = "CreateVoyagePayload"
  BY <1>1 DEF FieldsOf, Invalids, PayloadFields, PayloadInvalids
<1>2. CASE t = "Voyage"
  BY <1>2 DEF FieldsOf, Invalids, VoyageFields, VoyageInvalids
<1>3. CASE t = "__Directive"
  BY <1>3 DEF FieldsOf, Invalids, DirectiveFields, DirectiveInvalids, MayBeNull
<1>4. CASE t = "__EnumValue"
  BY <1>4 DEF FieldsOf, Invalids, EnumValueFields, EnumValueInvalids, MayBeNull
<1>5. CASE t = "__Field"
  BY <1>5 DEF FieldsOf, Invalids, FieldFields, FieldInvalids, MayBeNull
<1>6. CASE t = "__InputValue"
  BY <1>6 DEF FieldsOf, Invalids, InputValueFields, InputValueInvalids, MayBeNull
<1>7. CASE t = "__Schema"
  BY <1>7 DEF FieldsOf, Invalids, SchemaFields, SchemaInvalids, MayBeNull
<1>8. CASE t = "__Type"
  BY <1>8 DEF FieldsOf, Invalids, TypeFields, TypeNames, TypeMembers, TypeWrapping,
     TypeInvalids, MayBeNull
<1> QED
  BY <1>1, <1>2, <1>3, <1>4, <1>5, <1>6, <1>7, <1>8 DEF Types

\* The marshaller of a field makes of a value a null, a scalar, an answer, or a list
\* of scalars or answers none of which is null.
LEMMA MarshalConforms ==
    ASSUME NEW field, NEW v, Marshal(field, v) # Null,
           NEW e \in Elements(field, Marshal(field, v))
    PROVE  /\ e # Null
           /\ field.type \notin Scalars =>
                \E part \in Parts(field, v) : part[1] = field.type /\ e = Object[part]
<1> DEFINE t == field.type
<1>1. CASE v = Nil
  <2>1. field.list /\ Marshal(field, v) = <<>>
    BY <1>1 DEF Marshal, MarshalField, MarshalO, MarshalN, MarshalNSlice
  <2> QED
    BY <2>1 DEF Elements
<1>2. CASE v # Nil /\ ~field.list
  <2>1. e = MarshalN(Object, t, v) /\ e # Null
    BY <1>2 DEF Marshal, MarshalField, MarshalO, Elements
  <2>2. t \notin Scalars => <<t, v>> \in Parts(field, v) /\ e = Object[<<t, v>>]
    BY <2>1, <1>2 DEF MarshalN, Parts, Elements
  <2> QED
    BY <2>1, <2>2
<1>3. CASE v # Nil /\ field.list
  <2> DEFINE ret == [i \in DOMAIN v |-> MarshalN(Object, t, v[i])]
  <2>1. Marshal(field, v) = ret /\ \A i \in DOMAIN v : ret[i] # Null
    BY <1>3 DEF Marshal, MarshalField, MarshalO, MarshalNSlice
  <2>2. PICK i \in DOMAIN v : e = ret[i]
    BY <2>1, <1>3 DEF Elements
  <2>3. e = MarshalN(Object, t, v[i]) /\ e # Null
    BY <2>1, <2>2
  <2>4. t \notin Scalars => <<t, v[i]>> \in Parts(field, v) /\ e = Object[<<t, v[i]>>]
    BY <2>3, <1>3 DEF MarshalN, Parts, Elements
  <2> QED
    BY <2>3, <2>4
<1> QED
  BY <1>1, <1>2, <1>3

\* A field of an answer conforms if the answers below it do.
LEMMA FieldStep ==
    ASSUME NEW t, NEW f, NEW v, NEW conforms,
           Marshal(FieldsOf(t)[f], v) = Null => MayBeNull(t, f),
           \A part \in Parts(FieldsOf(t)[f], v) :
              Object[part] # Null => conforms[<<part[1], Object[part]>>]
    PROVE  FieldConforms(conforms, t, f, Marshal(FieldsOf(t)[f], v))
<1> DEFINE field == FieldsOf(t)[f]
           x == Marshal(field, v)
<1>1. CASE x = Null
  BY <1>1 DEF FieldConforms
<1>2. CASE x # Null
  <2>1. ASSUME NEW e \in Elements(field, x)
        PROVE  e # Null /\ (field.type \in Scalars \/ conforms[<<field.type, e>>])
    <3>1. /\ e # Null
          /\ field.type \notin Scalars =>
               \E part \in Parts(field, v) : part[1] = field.type /\ e = Object[part]
      <4> HIDE DEF field
      <4> QED BY <1>2, <2>1, MarshalConforms
    <3> QED
      BY <3>1
  <2> QED
    BY <1>2, <2>1 DEF FieldConforms
<1> QED
  BY <1>1, <1>2

\* What is marshalled for an object is null only where the schema allows it.
LEMMA NullsAllowed ==
    ASSUME NEW o \in Objects, Object[o] # Null, NEW f \in DOMAIN o[2],
           Marshal(FieldsOf(o[1])[f], o[2][f]) = Null
    PROVE  MayBeNull(o[1], f)
<1>1. f \notin Invalids(o[1])
  BY ObjectFields
<1>2. o[1] \in Types /\ f \in DOMAIN FieldsOf(o[1])
  BY ObjectsAssumption
<1> QED
  BY <1>1, <1>2, InvalidsAreNonNull

\* The definition of Conforms by recursion has a solution.
LEMMA ConformsEquation ==
    Conforms = [a \in Answers |->
                  \A f \in DOMAIN a[2] : FieldConforms(Conforms, a[1], f, a[2][f])]
<1> DEFINE all == [a \in Answers |-> TRUE]
<1>1. ASSUME NEW a \in Answers, NEW f \in DOMAIN a[2]
      PROVE  FieldConforms(all, a[1], f, a[2][f])
  <2>1. PICK o \in Objects : Object[o] # Null /\ a = <<o[1], Object[o]>>
    BY DEF Answers
  <2>2. /\ f \in DOMAIN o[2] /\ a[1] = o[1]
        /\ a[2][f] = Marshal(FieldsOf(o[1])[f], o[2][f])
    BY <2>1, ObjectFields
  <2>3. a[2][f] = Null => MayBeNull(o[1], f)
    BY <2>1, <2>2, NullsAllowed
  <2>4. ASSUME NEW part \in Parts(FieldsOf(o[1])[f], o[2][f]), Object[part] # Null
        PROVE  all[<<part[1], Object[part]>>]
    <3>1. <<part[1], Object[part]>> \in Answers
      BY <2>2, <2>4, PartsBelow DEF Answers
    <3> QED
      BY <3>1
  <2> HIDE DEF all
  <2> QED
    BY <2>2, <2>3, <2>4, FieldStep
<1>2. all = [a \in Answers |->
               \A f \in DOMAIN a[2] : FieldConforms(all, a[1], f, a[2][f])]
  <2> HIDE DEF FieldConforms
  <2> QED BY <1>1
<1> HIDE DEF all
<1>3. \E c : c = [a \in Answers |->
                     \A f \in DOMAIN a[2] : FieldConforms(c, a[1], f, a[2][f])]
  BY <1>2
<1>4. Conforms = CHOOSE c : c = [a \in Answers |->
                     \A f \in DOMAIN a[2] : FieldConforms(c, a[1], f, a[2][f])]
  BY DEF Conforms
<1> QED
  BY <1>3, <1>4, Zenon

\* Whatever the resolvers and the introspection return, an answer of the executor
\* holds a null only where the schema's text declares the field nullable, at every
\* depth and in no list: the Invalids counted in each object function of generated.go
\* carry a forbidden null up to a place that may be null.
THEOREM EveryAnswerConforms == \A a \in Answers : Conforms[a]
<1> DEFINE S == {o \in Objects : Object[o] # Null /\ ~Conforms[<<o[1], Object[o]>>]}
<1>1. SUFFICES ASSUME S # {} PROVE FALSE
  BY DEF Answers
<1>2. PICK o \in S : \A p \in S : ~(Depth[p] < Depth[o])
  BY <1>1, Shallowest
<1> DEFINE a == <<o[1], Object[o]>>
<1>3. a \in Answers /\ a[1] = o[1] /\ a[2] = Object[o]
  BY <1>2 DEF Answers
<1>4. ASSUME NEW f \in DOMAIN a[2]
      PROVE  FieldConforms(Conforms, a[1], f, a[2][f])
  <2>1. f \in DOMAIN o[2] /\ a[2][f] = Marshal(FieldsOf(o[1])[f], o[2][f])
    BY <1>2, <1>3, <1>4, ObjectFields
  <2>2. a[2][f] = Null => MayBeNull(o[1], f)
    BY <1>2, <2>1, NullsAllowed
  <2>3. ASSUME NEW part \in Parts(FieldsOf(o[1])[f], o[2][f]), Object[part] # Null
        PROVE  Conforms[<<part[1], Object[part]>>]
    <3>1. part \in Objects /\ Depth[part] < Depth[o]
      BY <1>2, <2>1, <2>3, PartsBelow
    <3> QED
      BY <3>1, <2>3, <1>2
  <2> QED
    BY <1>3, <2>1, <2>2, <2>3, FieldStep
<1>5. Conforms[a] = (\A f \in DOMAIN a[2] : FieldConforms(Conforms, a[1], f, a[2][f]))
  <2> HIDE DEF a
  <2> QED BY <1>3, ConformsEquation
<1> QED
  BY <1>2, <1>4, <1>5
=============================================================================
