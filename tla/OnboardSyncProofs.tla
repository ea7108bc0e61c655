-------------------------- MODULE OnboardSyncProofs --------------------------
(***************************************************************************)
(* Proofs about the onBOARD client, for any number of voyages, versions,   *)
(* lines and faults.                                                       *)
(***************************************************************************)
EXTENDS OnboardSync, FiniteSetTheorems, TLAPS

Lines == Operations \cup {Torn}

(* The queue file.                                                         *)

\* A non-empty set of line numbers has a greatest one.
LEMMA MaxLine ==
    ASSUME NEW n \in Nat, NEW S \in SUBSET (1..n), S # {}
    PROVE  Max(S) \in S /\ \A y \in S : y <= Max(S)
<1> DEFINE R == OpToRel(<, Nat)
           T == {k \in Nat : k <= n /\ n - k \in S}
<1>1. T \subseteq Nat
  OBVIOUS
<1>2. T # {}
  <2>1. PICK i \in S : TRUE
    OBVIOUS
  <2>2. n - i \in Nat /\ n - i <= n /\ n - (n - i) = i
    BY <2>1
  <2> QED BY <2>1, <2>2
<1>3. \E x \in T : \A y \in T : ~ (<<y, x>> \in R)
  BY <1>1, <1>2, NatLessThanWellFounded, WFMin
<1>4. PICK x \in T : \A y \in T : ~ (y < x)
  BY <1>3 DEF OpToRel
<1>5. \A y \in S : n - x >= y
  <2> TAKE y \in S
  <2>0. x \in Nat /\ y \in Nat
    OBVIOUS
  <2>1. n - y \in T
    <3>1. n - y \in Nat /\ n - y <= n /\ n - (n - y) = y
      OBVIOUS
    <3> QED BY <3>1
  <2>2. ~ (n - y < x)
    BY <2>1, <1>4
  <2> HIDE DEF T
  <2> QED BY <2>0, <2>2
<1>6. n - x \in S
  OBVIOUS
<1>7. \E m \in S : \A y \in S : m >= y
  BY <1>5, <1>6
<1> QED
  BY <1>7 DEF Max

\* The records that operations are.
LEMMA OperationFields ==
    ASSUME NEW op \in Operations
    PROVE  /\ op.kind \in {"create", "update"}
           /\ op.id \in Voyages
           /\ op.version \in 1..MaxVersion
           /\ op.version \in Nat
           /\ op.content \in Contents
           /\ op.kind = "create" => op.version = 1
           /\ op # None /\ op # Torn
BY SyncAssumption DEF Operations, Creates, Updates

\* The lines of a voyage, and what reading the file makes of them.
LinesOf(f, v) == {i \in 1..Len(f) : f[i] # Torn /\ f[i].id = v}

LEMMA ReplayAt ==
    ASSUME NEW f \in Seq(Lines), NEW v \in Voyages
    PROVE  /\ LinesOf(f, v) = {} => Replay(f)[v] = None
           /\ LinesOf(f, v) # {} =>
                \E m \in LinesOf(f, v) :
                    /\ \A i \in LinesOf(f, v) : i <= m
                    /\ Replay(f)[v] = f[m]
<1>1. Replay(f)[v] = IF LinesOf(f, v) = {} THEN None ELSE f[Max(LinesOf(f, v))]
  BY DEF Replay, LinesOf
<1>2. Len(f) \in Nat /\ LinesOf(f, v) \in SUBSET (1..Len(f))
  BY DEF LinesOf
<1> QED
  BY <1>1, <1>2, MaxLine

LEMMA ReplayType ==
    ASSUME NEW f \in Seq(Lines)
    PROVE  /\ Replay(f) \in [Voyages -> Operations \cup {None}]
           /\ \A v \in Voyages : Replay(f)[v] # None => Replay(f)[v].id = v
<1>1. Replay(f) = [v \in Voyages |-> Replay(f)[v]]
  BY DEF Replay
<1>2. ASSUME NEW v \in Voyages
      PROVE  /\ Replay(f)[v] \in Operations \cup {None}
             /\ Replay(f)[v] # None => Replay(f)[v].id = v
  BY ReplayAt DEF LinesOf, Lines
<1> QED
  BY <1>1, <1>2

\* Appending a line is an assignment to the voyage's entry.
LEMMA ReplayAppend ==
    ASSUME NEW f \in Seq(Lines), NEW op \in Operations
    PROVE  Replay(Append(f, op)) = [Replay(f) EXCEPT ![op.id] = op]
<1> DEFINE g == Append(f, op)
           n == Len(f)
<1>0. op \in Lines /\ g \in Seq(Lines) /\ n \in Nat
  BY DEF Lines
<1>1. Len(g) = n + 1 /\ g[n + 1] = op /\ \A i \in 1..n : g[i] = f[i]
  OBVIOUS
<1>2. op.id \in Voyages /\ op # Torn
  BY OperationFields
<1>3. Replay(g) = [v \in Voyages |-> Replay(g)[v]]
  BY DEF Replay
<1>4. Replay(f) = [v \in Voyages |-> Replay(f)[v]]
  BY DEF Replay
<1> HIDE DEF g
<1>5. Replay(g)[op.id] = op
  <2>1. n + 1 \in LinesOf(g, op.id) /\ \A i \in LinesOf(g, op.id) : i \in 1..(n + 1)
    BY <1>0, <1>1, <1>2 DEF LinesOf
  <2>2. PICK m \in LinesOf(g, op.id) :
            /\ \A i \in LinesOf(g, op.id) : i <= m
            /\ Replay(g)[op.id] = g[m]
    BY <2>1, <1>0, <1>2, ReplayAt
  <2>3. m = n + 1
    BY <2>1, <2>2, <1>0
  <2> QED BY <2>2, <2>3, <1>1
<1>6. ASSUME NEW v \in Voyages, v # op.id PROVE Replay(g)[v] = Replay(f)[v]
  <2>1. LinesOf(g, v) = LinesOf(f, v)
    BY <1>0, <1>1, <1>6 DEF LinesOf
  <2>2. \A i \in LinesOf(f, v) : g[i] = f[i]
    BY <1>1 DEF LinesOf
  <2>3. CASE LinesOf(f, v) = {}
    BY <2>1, <2>3, <1>0, ReplayAt
  <2>4. CASE LinesOf(f, v) # {}
    <3>1. Max(LinesOf(f, v)) \in LinesOf(f, v)
      BY <2>4, <1>0, MaxLine DEF LinesOf
    <3>2. Replay(g)[v] = g[Max(LinesOf(g, v))] /\ Replay(f)[v] = f[Max(LinesOf(f, v))]
      BY <2>1, <2>4 DEF Replay, LinesOf
    <3> QED BY <3>1, <3>2, <2>1, <2>2
  <2> QED BY <2>3, <2>4
<1> QED
  BY <1>2, <1>3, <1>4, <1>5, <1>6 DEF g

\* What compaction is given, and what it writes: one line per pending operation.
Queue(m) ==
    /\ m \in [Voyages -> Operations \cup {None}]
    /\ \A v \in Voyages : m[v] # None => m[v].id = v

LEMMA PendingFinite ==
    ASSUME NEW m, Queue(m)
    PROVE  IsFiniteSet(Pending(m)) /\ Pending(m) \subseteq Operations
<1> DEFINE All == {m[v] : v \in Voyages}
<1>1. m \in [Voyages -> Operations \cup {None}]
  BY DEF Queue
<1>2. m \in Surjection(Voyages, All)
  BY <1>1 DEF Surjection
<1>3. IsFiniteSet(Voyages)
  BY SyncAssumption
<1>4. IsFiniteSet(All)
  BY <1>2, <1>3, FS_Surjection
<1>5. Pending(m) \subseteq All
  BY DEF Pending
<1>6. IsFiniteSet(Pending(m))
  BY <1>4, <1>5, FS_Subset
<1>7. Pending(m) \subseteq Operations
  BY <1>1 DEF Pending
<1> QED
  BY <1>6, <1>7

LEMMA CompactedLines ==
    ASSUME NEW m, Queue(m)
    PROVE  /\ Compacted(m) \in Seq(Operations)
           /\ \A i \in 1..Len(Compacted(m)) : Compacted(m)[i] \in Pending(m)
           /\ \A op \in Pending(m) : \E i \in 1..Len(Compacted(m)) : Compacted(m)[i] = op
<1> DEFINE S == Pending(m)
           n == Cardinality(S)
           f == SetToSeq(S)
<1>1. IsFiniteSet(S) /\ S \subseteq Operations
  BY PendingFinite
<1>2. n \in Nat /\ ExistsBijection(1..n, S)
  BY <1>1, FS_CardinalityType
<1> HIDE DEF S, n
<1>3. \E g \in [1..n -> S] : IsInjective(g)
  BY <1>2 DEF ExistsBijection, Bijection, Injection, IsInjective
<1>4. f \in [1..n -> S] /\ IsInjective(f)
  BY <1>3 DEF SetToSeq, n
<1>5. f \in Injection(1..n, S)
  BY <1>4 DEF Injection, IsInjective
<1>6. Cardinality(1..n) = n
  BY <1>2, FS_Interval
<1>7. f \in Surjection(1..n, S)
  BY <1>1, <1>5, <1>6, FS_Injection DEF n
<1>8. f \in Seq(S) /\ Len(f) = n
  BY <1>2, <1>4
<1>9. f \in Seq(Operations)
  BY <1>1, <1>8
<1>10. Compacted(m) = f
  BY DEF Compacted, S
<1>11. \A i \in 1..n : f[i] \in S
  BY <1>4
<1>12. \A op \in S : \E i \in 1..n : f[i] = op
  BY <1>7 DEF Surjection
<1> QED
  <2> HIDE DEF f
  <2> QED BY <1>8, <1>9, <1>10, <1>11, <1>12 DEF S

\* Reading a compacted file gives back the queue it was written from.
LEMMA ReplayCompacted ==
    ASSUME NEW m, Queue(m)
    PROVE  /\ Compacted(m) \in Seq(Lines)
           /\ Parses(Compacted(m))
           /\ Replay(Compacted(m)) = m
<1> DEFINE f == Compacted(m)
<1>1. /\ f \in Seq(Operations)
      /\ \A i \in 1..Len(f) : f[i] \in Pending(m)
      /\ \A op \in Pending(m) : \E i \in 1..Len(f) : f[i] = op
  BY CompactedLines
<1>2. m \in [Voyages -> Operations \cup {None}] /\ \A v \in Voyages : m[v] # None => m[v].id = v
  BY DEF Queue
<1> HIDE DEF f
<1>3. f \in Seq(Lines)
  BY <1>1 DEF Lines
<1>4. \A i \in 1..Len(f) : f[i] \in Operations /\ f[i] # Torn
  BY <1>1, PendingFinite, OperationFields
<1>5. Parses(f)
  BY <1>4 DEF Parses
<1>6. \A i \in 1..Len(f) : \E v \in Voyages : f[i] = m[v] /\ f[i].id = v /\ m[v] # None
  BY <1>1, <1>2 DEF Pending
<1>7. ASSUME NEW v \in Voyages PROVE Replay(f)[v] = m[v]
  <2>1. \A i \in LinesOf(f, v) : f[i] = m[v] /\ m[v] # None
    BY <1>6 DEF LinesOf
  <2>2. CASE m[v] = None
    <3>1. LinesOf(f, v) = {}
      BY <2>1, <2>2
    <3> QED BY <3>1, <2>2, <1>3, ReplayAt
  <2>3. CASE m[v] # None
    <3>1. m[v] \in Pending(m)
      BY <2>3 DEF Pending
    <3>2. PICK i \in 1..Len(f) : f[i] = m[v]
      BY <3>1, <1>1
    <3>3. i \in LinesOf(f, v)
      BY <3>2, <2>3, <1>2, <1>4 DEF LinesOf
    <3> QED BY <3>3, <2>1, <1>3, ReplayAt
  <2> QED BY <2>2, <2>3
<1>8. Replay(f) = [v \in Voyages |-> Replay(f)[v]]
  BY DEF Replay
<1>9. Replay(f) = m
  BY <1>2, <1>7, <1>8
<1> QED
  BY <1>3, <1>5, <1>9 DEF f

\* Append's write.  On a file that ends in a newline it adds a line; otherwise it
\* leaves a file that does not parse.
LEMMA WrittenLine ==
    ASSUME file \in Seq(Lines), ended \in BOOLEAN, NEW op \in Lines
    PROVE  /\ Written(op) \in Seq(Lines)
           /\ Parses(Written(op)) =>
                /\ Parses(file) /\ op # Torn
                /\ Replay(Written(op)) = [Replay(file) EXCEPT ![op.id] = op]
           /\ ended /\ Parses(file) /\ op # Torn => Parses(Written(op))
<1>1. Len(file) \in Nat /\ Torn \in Lines
  BY DEF Lines
<1>2. CASE ended \/ file = <<>>
  <2>1. Written(op) = Append(file, op)
    BY <1>2 DEF Written
  <2>2. Len(Append(file, op)) = Len(file) + 1
    OBVIOUS
  <2>3. Append(file, op)[Len(file) + 1] = op
    OBVIOUS
  <2>4. \A i \in 1..Len(file) : Append(file, op)[i] = file[i]
    OBVIOUS
  <2>5. Parses(Append(file, op)) <=> Parses(file) /\ op # Torn
    BY <2>2, <2>3, <2>4, <1>1 DEF Parses
  <2>6. op # Torn => Replay(Append(file, op)) = [Replay(file) EXCEPT ![op.id] = op]
    BY ReplayAppend DEF Lines
  <2>7. Append(file, op) \in Seq(Lines)
    OBVIOUS
  <2> QED BY <2>1, <2>5, <2>6, <2>7
<1>3. CASE ~(ended \/ file = <<>>)
  <2> DEFINE g == [file EXCEPT ![Len(file)] = Torn]
  <2>1. Written(op) = g
    BY <1>3 DEF Written
  <2>2. Len(file) \in 1..Len(file)
    BY <1>1, <1>3
  <2>3. g \in Seq(Lines) /\ Len(g) = Len(file) /\ g[Len(file)] = Torn
    BY <1>1, <2>2
  <2> HIDE DEF g
  <2>4. ~Parses(g)
    BY <2>2, <2>3 DEF Parses
  <2> QED BY <2>1, <2>3, <2>4, <1>3
<1> QED
  BY <1>2, <1>3
-----------------------------------------------------------------------------
(* The shore and its late requests.                                        *)

LEMMA LateAdd ==
    ASSUME NEW B, IsABag(B), NEW op
    PROVE  /\ IsABag(B (+) SetToBag({op}))
           /\ BagToSet(B (+) SetToBag({op})) = BagToSet(B) \cup {op}
<1> DEFINE C == B (+) SetToBag({op})
<1>1. B \in [DOMAIN B -> {n \in Nat : n > 0}]
  BY DEF IsABag
<1>2. C = [e \in DOMAIN B \cup {op} |->
             (IF e \in DOMAIN B THEN B[e] ELSE 0) + (IF e \in {op} THEN 1 ELSE 0)]
  BY DEF (+), SetToBag
<1>3. \A e \in DOMAIN B : B[e] \in Nat /\ B[e] > 0
  BY <1>1
<1>4. ASSUME NEW e \in DOMAIN B \cup {op} PROVE C[e] \in Nat /\ C[e] > 0
  BY <1>2, <1>3
<1>5. DOMAIN C = DOMAIN B \cup {op}
  BY <1>2
<1>6. C = [e \in DOMAIN C |-> C[e]]
  BY <1>2
<1> QED
  <2> HIDE DEF C
  <2>1. C \in [DOMAIN C -> {n \in Nat : n > 0}]
    BY <1>4, <1>5, <1>6
  <2> QED BY <2>1, <1>5 DEF IsABag, BagToSet, C

LEMMA LateRemove ==
    ASSUME NEW B, IsABag(B), NEW op
    PROVE  /\ IsABag(B (-) SetToBag({op}))
           /\ BagToSet(B (-) SetToBag({op})) \subseteq BagToSet(B)
<1> DEFINE D == [e \in DOMAIN B |-> IF e \in {op} THEN B[e] - 1 ELSE B[e]]
           C == B (-) SetToBag({op})
<1>1. B \in [DOMAIN B -> {n \in Nat : n > 0}]
  BY DEF IsABag
<1>2. C = [e \in {d \in DOMAIN D : D[d] > 0} |-> D[e]]
  BY DEF (-), SetToBag
<1>3. \A e \in DOMAIN B : D[e] \in Nat
  BY <1>1
<1>4. DOMAIN D = DOMAIN B
  OBVIOUS
<1>5. DOMAIN C = {d \in DOMAIN B : D[d] > 0} /\ \A e \in DOMAIN C : C[e] = D[e]
  <2> HIDE DEF D
  <2> QED BY <1>2, <1>4
<1>6. C = [e \in DOMAIN C |-> C[e]]
  BY <1>2
<1> QED
  <2> HIDE DEF C, D
  <2>1. C \in [DOMAIN C -> {n \in Nat : n > 0}]
    BY <1>3, <1>5, <1>6
  <2> QED BY <2>1, <1>5 DEF IsABag, BagToSet, C

ShoreRow == [version : 0..MaxVersion, content : Contents \cup {None}]

\* A request either lands or leaves the row as it is; it never lowers a version.
LEMMA ServeRow ==
    ASSUME row \in [Voyages -> ShoreRow], NEW op \in Operations, Serve(op)
    PROVE  /\ row' \in [Voyages -> ShoreRow]
           /\ \A v \in Voyages : v # op.id => row'[v] = row[v]
           /\ \/ /\ Lands(op) /\ row[op.id].version < op.version
                 /\ row' = [row EXCEPT ![op.id] =
                               [version |-> op.version, content |-> op.content]]
                 /\ row'[op.id].version = op.version
                 /\ row'[op.id].content = op.content
              \/ row' = row
           /\ \A v \in Voyages : /\ row[v].version \in Nat /\ row'[v].version \in Nat
                                 /\ row'[v].version >= row[v].version
           /\ Found(op) => row'[op.id].version >= op.version
<1>1. /\ op.id \in Voyages /\ op.version \in 1..MaxVersion /\ op.content \in Contents
      /\ op.kind \in {"create", "update"} /\ op.version \in Nat
      /\ op.kind = "create" => op.version = 1
  BY OperationFields
<1>2. MaxVersion \in Nat
  BY SyncAssumption
<1>3. \A v \in Voyages : row[v] \in ShoreRow /\ row[v].version \in Nat
  BY <1>2 DEF ShoreRow
<1>4. CASE Lands(op)
  <2> DEFINE r == [version |-> op.version, content |-> op.content]
  <2>1. row' = [row EXCEPT ![op.id] = r]
    BY <1>4 DEF Serve
  <2>2. r \in ShoreRow /\ r.version = op.version /\ r.content = op.content
    BY <1>1, <1>2 DEF ShoreRow
  <2> HIDE DEF r
  <2>3. row' \in [Voyages -> ShoreRow] /\ row'[op.id] = r
    BY <2>1, <2>2, <1>1
  <2>4. \A v \in Voyages : v # op.id => row'[v] = row[v]
    BY <2>1
  <2>5. row[op.id].version < op.version
    BY <1>1, <1>3, <1>4 DEF Lands
  <2>6. \A v \in Voyages : /\ row[v].version \in Nat /\ row'[v].version \in Nat
                           /\ row'[v].version >= row[v].version
    BY <2>2, <2>3, <2>4, <2>5, <1>1, <1>3
  <2>7. row'[op.id].version = op.version /\ row'[op.id].content = op.content
    BY <2>2, <2>3
  <2> QED
    BY <2>1, <2>3, <2>4, <2>5, <2>6, <2>7, <1>1, <1>4 DEF r
<1>5. CASE ~Lands(op)
  <2>1. row' = row
    BY <1>5 DEF Serve
  <2>2. Found(op) => row[op.id].version >= op.version
    <3>1. row[op.id].version \in Nat
      BY <1>1, <1>3
    <3>2. CASE op.kind = "create"
      BY <3>1, <3>2, <1>1, <1>5 DEF Lands
    <3>3. CASE op.kind = "update"
      BY <3>1, <3>3, <1>1, <1>5 DEF Lands, Found
    <3> QED BY <3>2, <3>3, <1>1
  <2> QED BY <2>1, <2>2, <1>3
<1> QED
  BY <1>4, <1>5
-----------------------------------------------------------------------------
(* Type correctness.  Compaction writes what memory holds, so that the     *)
(* file keeps its type needs every pending operation under its own id.     *)

ShoreType ==
    /\ row \in [Voyages -> ShoreRow]
    /\ IsABag(late) /\ BagToSet(late) \subseteq Operations
FileType == file \in Seq(Lines) /\ ended \in BOOLEAN
WorkType ==
    /\ todo \subseteq Operations
    /\ sent \in Operations \cup {None}
    /\ merged \in Operations \cup {None}
    /\ up \in BOOLEAN
    /\ up \/ (todo = {} /\ sent = None /\ merged = None)
LedgerType ==
    /\ accepted \in [Voyages -> Operations \cup {None}]
    /\ faults \in 0..MaxFaults

Shape == ShoreType /\ FileType /\ WorkType /\ LedgerType /\ Queue(ops)

LEMMA QueuePut ==
    ASSUME NEW m, Queue(m), NEW op \in Operations
    PROVE  Queue([m EXCEPT ![op.id] = op])
BY OperationFields DEF Queue

LEMMA QueueDrop ==
    ASSUME NEW m, Queue(m), NEW v
    PROVE  Queue([m EXCEPT ![v] = None])
BY DEF Queue

LEMMA QueueEmpty ==
    Queue([v \in Voyages |-> None])
BY DEF Queue

\* A voyage's highest durable operation only rises.
LEMMA AcceptRaises ==
    ASSUME accepted \in [Voyages -> Operations \cup {None}],
           NEW op \in Operations, Accept(op)
    PROVE  /\ accepted' \in [Voyages -> Operations \cup {None}]
           /\ \A v \in Voyages : v # op.id => accepted'[v] = accepted[v]
           /\ accepted'[op.id] \in Operations
           /\ \/ /\ accepted'[op.id] = op
                 /\ accepted[op.id] = None \/ op.version > accepted[op.id].version
              \/ /\ accepted'[op.id] = accepted[op.id] /\ accepted[op.id] # None
                 /\ op.version <= accepted[op.id].version
<1>1. op.id \in Voyages /\ op.version \in Nat
  BY OperationFields
<1>2. accepted[op.id] # None => accepted[op.id].version \in Nat
  BY <1>1, OperationFields
<1>3. accepted' = [accepted EXCEPT ![op.id] =
                     IF accepted[op.id] = None \/ op.version > accepted[op.id].version
                     THEN op ELSE accepted[op.id]]
  BY <1>1 DEF Accept
<1> QED
  BY <1>1, <1>2, <1>3

\* The steps that a request's arrival is, and what the others leave alone.
LEMMA ServesAlone ==
    ASSUME Shape, [Next]_vars
    PROVE  \/ \E op \in Operations :
                  /\ Serve(op)
                  /\ \/ op \in BagToSet(late) /\ LateArrives(op)
                     \/ op \in todo /\ (Send(op) \/ SendUnquoted(op))
           \/ row' = row
<1>1. BagToSet(late) \subseteq Operations /\ todo \subseteq Operations
  BY DEF Shape, ShoreType, WorkType
<1>2. ASSUME NEW op \in todo, Send(op) \/ SendUnquoted(op) PROVE Serve(op)
  BY <1>2 DEF Send, SendUnquoted
<1>3. ASSUME NEW op \in BagToSet(late), LateArrives(op) PROVE Serve(op)
  BY <1>3 DEF LateArrives
<1>4. CASE \/ \E op \in Operations : Enqueue(op)
           \/ AppendOp \/ AppendFails \/ SyncBegin
           \/ \E op \in todo : SendRejected(op)
           \/ \E op \in todo : SendFails(op)
           \/ Ack \/ AckFails \/ Crash \/ Tear \/ Reopen \/ ReopenFails
           \/ UNCHANGED vars
  BY <1>4 DEF Enqueue, AppendOp, AppendFails, SyncBegin, SendRejected, SendFails, Ack,
              AckFails, Crash, Tear, Stop, Reopen, ReopenFails, vars
<1> QED
  BY <1>1, <1>2, <1>3, <1>4 DEF Next, SyncStep

LEMMA ShoreTypeStep ==
    ASSUME Shape, [Next]_vars
    PROVE  ShoreType'
<1>1. row \in [Voyages -> ShoreRow] /\ IsABag(late) /\ BagToSet(late) \subseteq Operations
  BY DEF Shape, ShoreType
<1>2. row' \in [Voyages -> ShoreRow]
  <2>1. ASSUME NEW op \in Operations, Serve(op) PROVE row' \in [Voyages -> ShoreRow]
    BY <2>1, <1>1, ServeRow
  <2> QED BY <2>1, <1>1, ServesAlone
<1>3. IsABag(late') /\ BagToSet(late') \subseteq Operations
  <2>1. CASE \E op \in BagToSet(late) : LateArrives(op)
    BY <2>1, <1>1, LateRemove DEF LateArrives
  <2>2. CASE \E op \in todo : SendFails(op)
    <3>1. PICK op \in todo : late' = late \/ late' = late (+) SetToBag({op})
      BY <2>2 DEF SendFails
    <3>2. op \in Operations
      BY DEF Shape, WorkType
    <3>3. CASE late' = late
      BY <3>3, <1>1
    <3>4. CASE late' = late (+) SetToBag({op})
      <4>1. /\ IsABag(late (+) SetToBag({op}))
            /\ BagToSet(late (+) SetToBag({op})) = BagToSet(late) \cup {op}
        BY <1>1, LateAdd
      <4> QED BY <4>1, <3>2, <3>4, <1>1
    <3> QED BY <3>1, <3>3, <3>4
  <2>3. CASE \/ \E op \in Operations : Enqueue(op)
             \/ AppendOp \/ AppendFails \/ SyncStep
             \/ AckFails \/ Crash \/ Tear \/ Reopen \/ ReopenFails
             \/ UNCHANGED vars
    <3>1. late' = late
      BY <2>3 DEF Enqueue, AppendOp, AppendFails, SyncStep, SyncBegin, Send, SendUnquoted,
                  SendRejected, Ack, AckFails, Crash, Tear, Stop, Reopen, ReopenFails, vars
    <3> QED BY <3>1, <1>1
  <2> QED BY <2>1, <2>2, <2>3 DEF Next
<1> QED
  BY <1>2, <1>3 DEF ShoreType

LEMMA QueueStep ==
    ASSUME Shape, [Next]_vars
    PROVE  Queue(ops')
<1>1. Queue(ops) /\ file \in Seq(Lines) /\ merged \in Operations \cup {None}
  BY DEF Shape, FileType, WorkType
<1>2. CASE AppendOp \/ AppendFails
  <2>1. merged \in Operations /\ ops' = [ops EXCEPT ![merged.id] = merged]
    BY <1>2, <1>1 DEF AppendOp, AppendFails
  <2> QED BY <2>1, <1>1, QueuePut
<1>3. CASE Ack \/ AckFails
  <2>1. ops' = [ops EXCEPT ![sent.id] = None]
    BY <1>3 DEF Ack, AckFails, Without
  <2> QED BY <2>1, <1>1, QueueDrop
<1>4. CASE Crash \/ Tear
  BY <1>4, QueueEmpty DEF Crash, Tear, Stop
<1>5. CASE Reopen
  BY <1>1, <1>5, ReplayType DEF Reopen, Queue
<1>6. CASE \/ \E op \in Operations : Enqueue(op)
           \/ SyncBegin \/ \E op \in todo : Send(op) \/ SendUnquoted(op) \/ SendRejected(op)
           \/ \E op \in todo : SendFails(op)
           \/ \E op \in BagToSet(late) : LateArrives(op)
           \/ ReopenFails \/ UNCHANGED vars
  <2>1. ops' = ops
    BY <1>6 DEF Enqueue, SyncBegin, Send, SendUnquoted, SendRejected, SendFails,
                LateArrives, ReopenFails, vars, client
  <2> QED BY <2>1, <1>1
<1> QED
  BY <1>2, <1>3, <1>4, <1>5, <1>6 DEF Next, SyncStep

LEMMA FileTypeStep ==
    ASSUME Shape, [Next]_vars
    PROVE  FileType'
<1>1. /\ file \in Seq(Lines) /\ ended \in BOOLEAN /\ Queue(ops)
      /\ merged \in Operations \cup {None}
  BY DEF Shape, FileType, WorkType
<1>2. merged # None => merged \in Lines
  BY <1>1 DEF Lines
<1>3. Torn \in Lines
  BY DEF Lines
<1>4. CASE AppendOp \/ AppendFails
  BY <1>4, <1>1, <1>2, <1>3, WrittenLine DEF AppendOp, AppendFails, FileType
<1>5. CASE Ack
  <2>1. Queue(Without(sent)) /\ ops' = Without(sent)
    BY <1>1, <1>5, QueueDrop DEF Without, Ack
  <2> QED BY <2>1, <1>5, ReplayCompacted DEF Ack, FileType
<1>6. CASE Crash
  <2>1. Queue(Without(sent))
    BY <1>1, QueueDrop DEF Without
  <2>2. CASE UNCHANGED <<file, ended, accepted>>
    BY <2>2, <1>1 DEF FileType
  <2>3. CASE merged # None /\ file' = Written(merged) /\ ended' = TRUE
    BY <2>3, <1>1, <1>2, WrittenLine DEF FileType
  <2>4. CASE file' = Compacted(Without(sent)) /\ ended' = TRUE
    BY <2>1, <2>4, ReplayCompacted DEF FileType
  <2> QED BY <2>2, <2>3, <2>4, <1>6 DEF Crash
<1>7. CASE Tear
  BY <1>7, <1>1, <1>2, <1>3, WrittenLine DEF Tear, FileType
<1>8. CASE \/ \E op \in Operations : Enqueue(op)
           \/ SyncBegin \/ \E op \in todo : Send(op) \/ SendUnquoted(op) \/ SendRejected(op)
           \/ \E op \in todo : SendFails(op)
           \/ \E op \in BagToSet(late) : LateArrives(op)
           \/ AckFails \/ Reopen \/ ReopenFails \/ UNCHANGED vars
  <2>1. file' = file /\ ended' = ended
    BY <1>8 DEF Enqueue, SyncBegin, Send, SendUnquoted, SendRejected, SendFails,
                LateArrives, AckFails, Reopen, ReopenFails, vars, client
  <2> QED BY <2>1, <1>1 DEF FileType
<1> QED
  BY <1>4, <1>5, <1>6, <1>7, <1>8 DEF Next, SyncStep

LEMMA WorkTypeStep ==
    ASSUME Shape, [Next]_vars
    PROVE  WorkType'
<1>1. /\ todo \subseteq Operations
      /\ sent \in Operations \cup {None} /\ merged \in Operations \cup {None}
      /\ up \in BOOLEAN /\ (up \/ (todo = {} /\ sent = None /\ merged = None))
  BY DEF Shape, WorkType
<1>2. Queue(ops)
  BY DEF Shape
<1>3. CASE \E op \in Operations : Enqueue(op)
  <2>1. PICK op \in Operations :
           merged' = IF ops[op.id] = None THEN op ELSE HigherVersionWins(ops[op.id], op)
    BY <1>3 DEF Enqueue
  <2>2. merged' \in Operations
    BY <2>1, <1>2, OperationFields DEF HigherVersionWins, Queue
  <2>3. up /\ up' = up /\ todo' = todo /\ sent' = sent
    BY <1>3 DEF Enqueue
  <2> QED BY <2>2, <2>3, <1>1 DEF WorkType
<1>4. CASE AppendOp \/ AppendFails
  <2>1. up' = up /\ todo' = todo /\ sent' = sent /\ merged' = None
    BY <1>4 DEF AppendOp, AppendFails
  <2> QED BY <2>1, <1>1 DEF WorkType
<1>5. CASE SyncBegin
  <2>1. up /\ up' = up /\ todo' = Pending(ops) /\ sent' = sent /\ merged' = merged
    BY <1>5 DEF SyncBegin
  <2> QED BY <2>1, <1>1, <1>2, PendingFinite DEF WorkType
<1>6. CASE \E op \in todo : Send(op) \/ SendUnquoted(op) \/ SendRejected(op) \/ SendFails(op)
  <2>1. PICK op \in todo : todo' = todo \ {op} /\ (sent' = sent \/ sent' = op)
    BY <1>6 DEF Send, SendUnquoted, SendRejected, SendFails
  <2>2. up' = up /\ merged' = merged
    BY <1>6 DEF Send, SendUnquoted, SendRejected, SendFails
  <2> QED BY <2>1, <2>2, <1>1 DEF WorkType
<1>7. CASE Ack \/ AckFails
  <2>1. up' = up /\ merged' = merged /\ sent' = None /\ (todo' = todo \/ todo' = {})
    BY <1>7 DEF Ack, AckFails
  <2> QED BY <2>1, <1>1 DEF WorkType
<1>8. CASE Crash \/ Tear
  BY <1>8 DEF Crash, Tear, Stop, WorkType
<1>9. CASE Reopen
  <2>1. up' = TRUE /\ todo' = todo /\ sent' = sent /\ merged' = merged
    BY <1>9 DEF Reopen
  <2> QED BY <2>1, <1>1 DEF WorkType
<1>10. CASE \/ \E op \in BagToSet(late) : LateArrives(op)
            \/ ReopenFails \/ UNCHANGED vars
  <2>1. up' = up /\ todo' = todo /\ sent' = sent /\ merged' = merged
    BY <1>10 DEF LateArrives, ReopenFails, vars, client
  <2> QED BY <2>1, <1>1 DEF WorkType
<1> QED
  BY <1>3, <1>4, <1>5, <1>6, <1>7, <1>8, <1>9, <1>10 DEF Next, SyncStep

LEMMA LedgerTypeStep ==
    ASSUME Shape, [Next]_vars
    PROVE  LedgerType'
<1>1. /\ accepted \in [Voyages -> Operations \cup {None}] /\ faults \in 0..MaxFaults
      /\ merged \in Operations \cup {None}
  BY DEF Shape, LedgerType, WorkType
<1>2. MaxFaults \in Nat
  BY SyncAssumption
<1>3. accepted' \in [Voyages -> Operations \cup {None}]
  <2>1. CASE merged # None /\ Accept(merged)
    BY <2>1, <1>1, AcceptRaises
  <2>2. CASE accepted' = accepted
    BY <2>2, <1>1
  <2>3. (merged # None /\ Accept(merged)) \/ accepted' = accepted
    BY DEF Next, SyncStep, Enqueue, AppendOp, AppendFails, SyncBegin, Send, SendUnquoted,
           SendRejected, SendFails, Ack, AckFails, LateArrives, Crash, Tear, Reopen,
           ReopenFails, vars
  <2> QED BY <2>1, <2>2, <2>3
<1>4. faults' \in 0..MaxFaults
  <2>1. faults' = faults \/ (faults < MaxFaults /\ faults' = faults + 1)
    BY DEF Next, SyncStep, Enqueue, AppendOp, AppendFails, SyncBegin, Send, SendUnquoted,
           SendRejected, SendFails, Ack, AckFails, LateArrives, Crash, Tear, Reopen,
           ReopenFails, vars, Fault
  <2> QED BY <2>1, <1>1, <1>2
<1> QED
  BY <1>3, <1>4 DEF LedgerType

LEMMA InitShape ==
    Init => Shape
<1> SUFFICES ASSUME Init PROVE Shape
  OBVIOUS
<1>1. MaxVersion \in Nat /\ MaxFaults \in Nat
  BY SyncAssumption
<1>2. ShoreType
  <2>1. row \in [Voyages -> ShoreRow]
    BY <1>1 DEF Init, ShoreRow
  <2>2. IsABag(late) /\ BagToSet(late) = {}
    BY DEF Init, EmptyBag, SetToBag, IsABag, BagToSet
  <2> QED BY <2>1, <2>2 DEF ShoreType
<1>3. FileType
  BY DEF Init, FileType
<1>4. WorkType
  BY DEF Init, WorkType
<1>5. LedgerType
  BY <1>1 DEF Init, LedgerType
<1>6. Queue(ops)
  BY QueueEmpty DEF Init
<1> QED
  BY <1>2, <1>3, <1>4, <1>5, <1>6 DEF Shape

LEMMA ShapeStep ==
    Shape /\ [Next]_vars => Shape'
<1> SUFFICES ASSUME Shape, [Next]_vars PROVE Shape'
  OBVIOUS
<1>1. ShoreType'
  BY ShoreTypeStep
<1>2. FileType'
  BY FileTypeStep
<1>3. WorkType'
  BY WorkTypeStep
<1>4. LedgerType'
  BY LedgerTypeStep
<1>5. Queue(ops)'
  BY QueueStep
<1> QED
  BY <1>1, <1>2, <1>3, <1>4, <1>5 DEF Shape

LEMMA ShapeInvariant ==
    SafeSpec => []Shape
BY InitShape, ShapeStep, PTL DEF SafeSpec

LEMMA MergedWinsStep ==
    Shape /\ MergedWins /\ [Next]_vars => MergedWins'
<1> SUFFICES ASSUME Shape, MergedWins, [Next]_vars PROVE MergedWins'
  OBVIOUS
<1>1. /\ merged \in Operations \cup {None} /\ sent \in Operations \cup {None}
      /\ ops \in [Voyages -> Operations \cup {None}]
      /\ \A v \in Voyages : ops[v] # None => ops[v].id = v
      /\ up \/ merged = None
  BY DEF Shape, WorkType, Queue
<1>2. CASE \E op \in Operations : Enqueue(op)
  <2>1. PICK op \in Operations :
           /\ merged' = IF ops[op.id] = None THEN op ELSE HigherVersionWins(ops[op.id], op)
           /\ ops' = ops
    BY <1>2 DEF Enqueue
  <2>2. op.id \in Voyages /\ op.version \in Nat
    BY OperationFields
  <2>3. ops[op.id] # None => ops[op.id].version \in Nat /\ ops[op.id].id = op.id
    BY <2>2, <1>1, OperationFields
  <2>4. merged'.id = op.id
    BY <2>1, <2>3 DEF HigherVersionWins
  <2>5. ops[op.id] # None => merged'.version >= ops[op.id].version
    BY <2>1, <2>2, <2>3 DEF HigherVersionWins
  <2> QED BY <2>1, <2>4, <2>5 DEF MergedWins
<1>3. CASE Ack \/ AckFails
  <2>1. merged' = merged /\ ops' = [ops EXCEPT ![sent.id] = None]
    BY <1>3 DEF Ack, AckFails, Without
  <2>2. merged # None => merged.id \in Voyages
    BY <1>1, OperationFields
  <2> QED BY <2>1, <2>2, <1>1 DEF MergedWins
<1>4. CASE AppendOp \/ AppendFails \/ Crash \/ Tear
  BY <1>4 DEF AppendOp, AppendFails, Crash, Tear, Stop, MergedWins
<1>5. CASE Reopen
  BY <1>5, <1>1 DEF Reopen, MergedWins
<1>6. CASE \/ SyncBegin \/ \E op \in todo : Send(op) \/ SendUnquoted(op) \/ SendRejected(op)
           \/ \E op \in todo : SendFails(op)
           \/ \E op \in BagToSet(late) : LateArrives(op)
           \/ ReopenFails \/ UNCHANGED vars
  <2>1. merged' = merged /\ ops' = ops
    BY <1>6 DEF SyncBegin, Send, SendUnquoted, SendRejected, SendFails,
                LateArrives, ReopenFails, vars, client
  <2> QED BY <2>1 DEF MergedWins
<1> QED
  BY <1>2, <1>3, <1>4, <1>5, <1>6 DEF Next, SyncStep

LEMMA MergedWinsInvariant ==
    SafeSpec => [](Shape /\ MergedWins)
<1>1. Init => MergedWins
  BY DEF Init, MergedWins
<1> QED
  BY <1>1, InitShape, ShapeStep, MergedWinsStep, PTL DEF SafeSpec

\* Every variable keeps its type, whatever is enqueued, fails, crashes or arrives
\* late, with Enqueue and SyncOnce running together or not, and Enqueue never takes
\* a pending operation back to a lower version.
THEOREM TypeCorrect ==
    SafeSpec => []TypeOK
<1>1. Shape /\ MergedWins => TypeOK
  BY DEF Shape, TypeOK, ShoreType, ShoreRow, FileType, Lines, WorkType, LedgerType, Queue
<1> QED
  BY <1>1, MergedWinsInvariant, PTL
-----------------------------------------------------------------------------
(* The queue on disk.                                                      *)

\* A step rewrites the file by an append, which may end up torn, or by a compaction.
LEMMA FileSteps ==
    ASSUME [Next]_vars
    PROVE  \/ file' = file
           \/ merged # None /\ (file' = Written(merged) \/ file' = Written(Torn))
           \/ sent # None /\ file' = Compacted(Without(sent))
BY DEF Next, SyncStep, Enqueue, AppendOp, AppendFails, SyncBegin, Send, SendUnquoted,
       SendRejected, SendFails, Ack, AckFails, LateArrives, Crash, Tear, Reopen,
       ReopenFails, vars, client

\* One voyage of QueueOnDisk.
Kept(v) ==
    ops[v] # None /\ Replay(file)[v] # None /\ (sent = None \/ sent.id # v) =>
        /\ Replay(file')[v] # None
        /\ ops[v] = Replay(file)[v] => Replay(file')[v].version >= ops[v].version

LEMMA KeptStep ==
    ASSUME Shape, MergedWins, [Next]_vars, Parses(file'), NEW v \in Voyages
    PROVE  Kept(v)
<1>1. /\ file \in Seq(Lines) /\ ended \in BOOLEAN /\ Queue(ops)
      /\ merged \in Operations \cup {None} /\ sent \in Operations \cup {None}
      /\ ops \in [Voyages -> Operations \cup {None}]
  BY DEF Shape, FileType, WorkType, Queue
<1>2. Torn \in Lines /\ (merged # None => merged \in Lines)
  BY <1>1 DEF Lines
<1>3. Replay(file) \in [Voyages -> Operations \cup {None}]
  BY <1>1, ReplayType
<1>4. ops[v] # None => ops[v].version \in Nat
  BY <1>1, OperationFields
<1>5. CASE file' = file
  BY <1>5, <1>4 DEF Kept
<1>6. CASE file' = Written(Torn)
  BY <1>6, <1>1, <1>2, WrittenLine
<1>7. CASE merged # None /\ file' = Written(merged)
  <2>1. Replay(file') = [Replay(file) EXCEPT ![merged.id] = merged]
    BY <1>7, <1>1, <1>2, WrittenLine
  <2>2. CASE v = merged.id
    <3>1. Replay(file')[v] = merged
      BY <2>1, <2>2, <1>3
    <3> QED BY <3>1, <2>2, <1>7 DEF Kept, MergedWins
  <2>3. CASE v # merged.id
    <3>1. Replay(file')[v] = Replay(file)[v]
      BY <2>1, <2>3, <1>3
    <3> QED BY <3>1, <1>4 DEF Kept
  <2> QED BY <2>2, <2>3
<1>8. CASE sent # None /\ file' = Compacted(Without(sent))
  <2>1. Queue(Without(sent))
    BY <1>1, QueueDrop DEF Without
  <2>2. Replay(file') = Without(sent)
    BY <2>1, <1>8, ReplayCompacted
  <2>3. v # sent.id => Replay(file')[v] = ops[v]
    BY <2>2, <1>1 DEF Without
  <2> QED BY <2>3, <1>4, <1>8 DEF Kept
<1> QED
  BY <1>5, <1>6, <1>7, <1>8, FileSteps

\* "the queue survives a crash": only an ack of a voyage takes its operation off a
\* readable file, with any number of voyages, faults and lines, Enqueue and SyncOnce
\* running at the same time.
THEOREM QueueStaysOnDisk ==
    SafeSpec => QueueOnDisk
<1>1. Shape /\ MergedWins /\ [Next]_vars =>
        [Parses(file') =>
            \A v \in Voyages :
                /\ ops[v] # None /\ Replay(file)[v] # None
                /\ sent = None \/ sent.id # v
                =>
                /\ Replay(file')[v] # None
                /\ ops[v] = Replay(file)[v] => Replay(file')[v].version >= ops[v].version
        ]_vars
  BY KeptStep DEF Kept
<1> QED
  BY <1>1, MergedWinsInvariant, PTL DEF SafeSpec, QueueOnDisk
-----------------------------------------------------------------------------
(* Nothing is lost when Enqueue and SyncOnce take turns.  A batch then     *)
(* works on what is pending: the operation an ack drops is the one that    *)
(* was sent, and the shore has it.                                         *)

Alone == merged # None => todo = {} /\ sent = None

Snapshot == todo \subseteq Pending(ops)

SentPending ==
    sent # None =>
        /\ sent = ops[sent.id] /\ sent \notin todo
        /\ row[sent.id].version >= sent.version

Turns == Alone /\ Snapshot /\ SentPending

LEMMA RowGrows ==
    ASSUME Shape, [Next]_vars, NEW v \in Voyages
    PROVE  /\ row[v].version \in Nat /\ row'[v].version \in Nat
           /\ row'[v].version >= row[v].version
<1>1. row \in [Voyages -> ShoreRow]
  BY DEF Shape, ShoreType
<1>2. CASE row' = row
  <2>1. row[v].version \in Nat
    BY <1>1, SyncAssumption DEF ShoreRow
  <2> QED BY <2>1, <1>2
<1>3. CASE \E op \in Operations : Serve(op)
  BY <1>1, <1>3, ServeRow
<1> QED
  BY <1>2, <1>3, ServesAlone

LEMMA AloneStep ==
    ASSUME ~Concurrent, Shape, Turns, [Next]_vars
    PROVE  Alone'
<1>1. Alone
  BY DEF Turns
<1>2. CASE (\E op \in Operations : Enqueue(op)) \/ SyncBegin
  BY <1>1, <1>2 DEF Enqueue, SyncBegin, Alone
<1>3. CASE AppendOp \/ AppendFails \/ Crash \/ Tear
  BY <1>3 DEF AppendOp, AppendFails, Crash, Tear, Stop, Alone
<1>4. CASE \E op \in todo : Send(op) \/ SendUnquoted(op) \/ SendRejected(op) \/ SendFails(op)
  BY <1>1, <1>4 DEF Send, SendUnquoted, SendRejected, SendFails, Alone
<1>5. CASE Ack \/ AckFails
  BY <1>1, <1>5 DEF Ack, AckFails, Alone
<1>6. CASE \/ \E op \in BagToSet(late) : LateArrives(op)
           \/ Reopen \/ ReopenFails \/ UNCHANGED vars
  BY <1>1, <1>6 DEF LateArrives, Reopen, ReopenFails, vars, client, Alone
<1> QED
  BY <1>2, <1>3, <1>4, <1>5, <1>6 DEF Next, SyncStep

LEMMA SnapshotStep ==
    ASSUME ~Concurrent, Shape, Turns, [Next]_vars
    PROVE  Snapshot'
<1>1. Alone /\ Snapshot /\ SentPending
  BY DEF Turns
<1>2. /\ ops \in [Voyages -> Operations \cup {None}]
      /\ \A v \in Voyages : ops[v] # None => ops[v].id = v
      /\ up \/ todo = {}
  BY DEF Shape, Queue, WorkType
<1>3. CASE AppendOp \/ AppendFails
  <2>1. todo' = {}
    BY <1>1, <1>3 DEF AppendOp, AppendFails, Alone
  <2> QED BY <2>1 DEF Snapshot
<1>4. CASE SyncBegin
  BY <1>4 DEF SyncBegin, Snapshot, Pending
<1>5. CASE Ack
  <2>1. sent # None /\ todo' = todo /\ ops' = [ops EXCEPT ![sent.id] = None]
    BY <1>5 DEF Ack, Without
  <2>2. ASSUME NEW op \in todo PROVE op \in Pending(ops')
    <3>1. PICK v \in Voyages : op = ops[v] /\ op # None
      BY <1>1 DEF Snapshot, Pending
    <3>2. v # sent.id
      BY <3>1, <2>1, <1>1 DEF SentPending
    <3>3. ops'[v] = op
      BY <3>1, <3>2, <2>1, <1>2
    <3> QED BY <3>1, <3>3 DEF Pending
  <2> QED BY <2>1, <2>2 DEF Snapshot
<1>6. CASE AckFails \/ Crash \/ Tear
  BY <1>6 DEF AckFails, Crash, Tear, Stop, Snapshot
<1>7. CASE Reopen
  BY <1>2, <1>7 DEF Reopen, Snapshot
<1>8. CASE \/ \E op \in Operations : Enqueue(op)
           \/ \E op \in todo : Send(op) \/ SendUnquoted(op) \/ SendRejected(op) \/ SendFails(op)
           \/ \E op \in BagToSet(late) : LateArrives(op)
           \/ ReopenFails \/ UNCHANGED vars
  <2>1. ops' = ops /\ todo' \subseteq todo
    BY <1>8 DEF Enqueue, Send, SendUnquoted, SendRejected, SendFails, LateArrives,
                ReopenFails, vars, client
  <2> QED BY <2>1, <1>1 DEF Snapshot, Pending
<1> QED
  BY <1>3, <1>4, <1>5, <1>6, <1>7, <1>8 DEF Next, SyncStep

LEMMA SentPendingStep ==
    ASSUME ~Concurrent, Shape, Turns, [Next]_vars
    PROVE  SentPending'
<1>1. Alone /\ Snapshot /\ SentPending
  BY DEF Turns
<1>2. /\ row \in [Voyages -> ShoreRow]
      /\ ops \in [Voyages -> Operations \cup {None}]
      /\ \A v \in Voyages : ops[v] # None => ops[v].id = v
      /\ todo \subseteq Operations /\ sent \in Operations \cup {None}
      /\ up \/ sent = None
  BY DEF Shape, ShoreType, Queue, WorkType
<1>3. CASE \E op \in todo : Send(op)
  <2>1. PICK op \in todo : Found(op) /\ Serve(op) /\ sent' = op /\ todo' = todo \ {op} /\ ops' = ops
    BY <1>3 DEF Send
  <2>2. op = ops[op.id]
    BY <1>1, <1>2 DEF Snapshot, Pending
  <2>3. row'[op.id].version >= op.version
    BY <2>1, <1>2, ServeRow
  <2> QED BY <2>1, <2>2, <2>3 DEF SentPending
<1>4. CASE \/ AppendOp \/ AppendFails \/ SyncBegin
           \/ \E op \in todo : SendUnquoted(op) \/ SendRejected(op) \/ SendFails(op)
           \/ Ack \/ AckFails \/ Crash \/ Tear \/ Reopen
  <2>1. sent' = None
    BY <1>1, <1>2, <1>4 DEF AppendOp, AppendFails, SyncBegin, SendUnquoted, SendRejected,
                            SendFails, Sending, Ack, AckFails, Crash, Tear, Stop, Reopen, Alone
  <2> QED BY <2>1 DEF SentPending
<1>5. CASE \/ \E op \in Operations : Enqueue(op)
           \/ \E op \in BagToSet(late) : LateArrives(op)
           \/ ReopenFails \/ UNCHANGED vars
  <2>1. sent' = sent /\ ops' = ops /\ todo' = todo
    BY <1>5 DEF Enqueue, LateArrives, ReopenFails, vars, client
  <2>2. CASE sent = None
    BY <2>1, <2>2 DEF SentPending
  <2>3. CASE sent # None
    <3>1. sent.id \in Voyages /\ sent.version \in Nat
      BY <2>3, <1>2, OperationFields
    <3>2. /\ row[sent.id].version \in Nat /\ row'[sent.id].version \in Nat
          /\ row'[sent.id].version >= row[sent.id].version
      BY <3>1, RowGrows
    <3>3. row'[sent.id].version >= sent.version
      BY <3>1, <3>2, <2>3, <1>1 DEF SentPending
    <3> QED BY <3>3, <2>1, <1>1 DEF SentPending
  <2> QED BY <2>2, <2>3
<1> QED
  BY <1>3, <1>4, <1>5 DEF Next, SyncStep

\* A queue entry e, or a shore at version n, makes up for the durable operation a.
Covered(e, a, n) ==
    a # None => (e # None /\ e.version >= a.version) \/ n >= a.version

\* The same of the file: what reopening would find.
Durable ==
    Parses(file) =>
        \A v \in Voyages : Covered(Replay(file)[v], accepted[v], row[v].version)

LEMMA NothingLostCovered ==
    NothingLost <=> (up => \A v \in Voyages : Covered(ops[v], accepted[v], row[v].version))
BY DEF NothingLost, Covered

Entries == Operations \cup {None}

LEMMA CoveredLater ==
    ASSUME NEW e \in Entries, NEW a \in Entries, NEW n \in Nat, NEW m \in Nat,
           Covered(e, a, n), m >= n
    PROVE  Covered(e, a, m)
BY OperationFields DEF Covered, Entries

\* A newer operation takes over from the pending one, and what it is made durable as.
LEMMA CoveredMerge ==
    ASSUME NEW e \in Entries, NEW a \in Entries, NEW n \in Nat, NEW op \in Operations,
           Covered(e, a, n), e # None => op.version >= e.version,
           NEW b, b \in {a, op}
    PROVE  Covered(op, b, n)
<1>1. /\ op # None /\ op.version \in Nat
      /\ e # None => e.version \in Nat
      /\ a # None => a.version \in Nat
  BY OperationFields DEF Entries
<1> QED
  BY <1>1 DEF Covered

\* An operation that the shore has may be dropped.
LEMMA CoveredAck ==
    ASSUME NEW e \in Operations, NEW a \in Entries, NEW n \in Nat,
           Covered(e, a, n), n >= e.version
    PROVE  Covered(None, a, n)
<1>1. e.version \in Nat /\ (a # None => a.version \in Nat)
  BY OperationFields DEF Entries
<1> QED
  BY <1>1 DEF Covered

\* The types of what the invariants below relate, before and after a step.
LEMMA EntryTypes ==
    ASSUME Shape
    PROVE  /\ ops \in [Voyages -> Entries] /\ accepted \in [Voyages -> Entries]
           /\ Replay(file) \in [Voyages -> Entries]
           /\ merged \in Entries /\ sent \in Entries
           /\ file \in Seq(Lines) /\ ended \in BOOLEAN
           /\ merged # None \/ sent # None => up
<1>1. file \in Seq(Lines) /\ ended \in BOOLEAN
  BY DEF Shape, FileType
<1>2. Replay(file) \in [Voyages -> Entries]
  BY <1>1, ReplayType DEF Entries
<1> QED
  BY <1>1, <1>2 DEF Shape, Queue, LedgerType, WorkType, Entries

LostInv == Turns /\ NothingLost /\ Durable

LEMMA NothingLostStep ==
    ASSUME Shape, MergedWins, LostInv, [Next]_vars
    PROVE  NothingLost'
<1> SUFFICES ASSUME up', NEW v \in Voyages
             PROVE  Covered(ops'[v], accepted'[v], row'[v].version)
  <2>1. NothingLost' <=>
           (up' => \A v \in Voyages : Covered(ops'[v], accepted'[v], row'[v].version))
    BY DEF NothingLost, Covered
  <2> QED BY <2>1
<1>1. up => Covered(ops[v], accepted[v], row[v].version)
  BY NothingLostCovered DEF LostInv
<1>2. /\ ops \in [Voyages -> Entries] /\ accepted \in [Voyages -> Entries]
      /\ merged \in Entries /\ sent \in Entries /\ Replay(file) \in [Voyages -> Entries]
      /\ merged # None \/ sent # None => up
  BY EntryTypes
<1>3. /\ row[v].version \in Nat /\ row'[v].version \in Nat
      /\ row'[v].version >= row[v].version
  BY RowGrows
<1>4. ops[v] \in Entries /\ accepted[v] \in Entries
  BY <1>2
<1>5. CASE AppendOp \/ AppendFails
  <2>1. /\ merged # None /\ up /\ row' = row
        /\ ops' = [ops EXCEPT ![merged.id] = merged]
        /\ Accept(merged) \/ accepted' = accepted
    BY <1>2, <1>5 DEF AppendOp, AppendFails
  <2>2. merged \in Operations
    BY <2>1, <1>2 DEF Entries
  <2>3. CASE v = merged.id
    <3>1. ops'[v] = merged
      BY <2>1, <2>3, <1>2
    <3>2. accepted'[v] \in {accepted[v], merged}
      BY <2>1, <2>2, <2>3, <1>2, AcceptRaises DEF Entries
    <3>3. ops[v] # None => merged.version >= ops[v].version
      BY <2>1, <2>3 DEF MergedWins
    <3> QED BY <3>1, <3>2, <3>3, <2>1, <2>2, <1>1, <1>3, <1>4, CoveredMerge
  <2>4. CASE v # merged.id
    <3>1. ops'[v] = ops[v]
      BY <2>1, <2>4, <1>2
    <3>2. accepted'[v] = accepted[v]
      BY <2>1, <2>2, <2>4, <1>2, AcceptRaises DEF Entries
    <3> QED BY <3>1, <3>2, <2>1, <1>1
  <2> QED BY <2>3, <2>4
<1>6. CASE Ack \/ AckFails
  <2>1. /\ sent # None /\ up /\ row' = row /\ accepted' = accepted
        /\ ops' = [ops EXCEPT ![sent.id] = None]
    BY <1>2, <1>6 DEF Ack, AckFails, Without
  <2>2. sent \in Operations /\ sent = ops[sent.id] /\ row[sent.id].version >= sent.version
    BY <2>1, <1>2 DEF Entries, LostInv, Turns, SentPending
  <2>3. CASE v = sent.id
    <3>1. ops'[v] = None
      BY <2>1, <2>3, <1>2
    <3> QED BY <3>1, <2>1, <2>2, <2>3, <1>1, <1>3, <1>4, CoveredAck
  <2>4. CASE v # sent.id
    <3>1. ops'[v] = ops[v]
      BY <2>1, <2>4, <1>2
    <3> QED BY <3>1, <2>1, <1>1
  <2> QED BY <2>3, <2>4
<1>7. CASE Crash \/ Tear
  BY <1>7 DEF Crash, Tear, Stop
<1>8. CASE Reopen
  <2>1. Parses(file) /\ ops' = Replay(file) /\ accepted' = accepted /\ row' = row
    BY <1>8 DEF Reopen
  <2> QED BY <2>1 DEF LostInv, Durable
<1>9. CASE \/ \E op \in Operations : Enqueue(op)
           \/ SyncBegin \/ \E op \in todo : Send(op) \/ SendUnquoted(op) \/ SendRejected(op)
           \/ \E op \in todo : SendFails(op)
           \/ \E op \in BagToSet(late) : LateArrives(op)
           \/ ReopenFails \/ UNCHANGED vars
  <2>1. ops' = ops /\ accepted' = accepted /\ up' = up
    BY <1>9 DEF Enqueue, SyncBegin, Send, SendUnquoted, SendRejected, SendFails,
                LateArrives, ReopenFails, vars, client
  <2> QED BY <2>1, <1>1, <1>3, <1>4, CoveredLater
<1> QED
  BY <1>5, <1>6, <1>7, <1>8, <1>9 DEF Next, SyncStep

\* How a step may change the file and what is durable, together.
LEMMA DurableSteps ==
    ASSUME [Next]_vars
    PROVE  \/ file' = file /\ accepted' = accepted
           \/ /\ merged # None /\ file' = Written(merged)
              /\ Accept(merged) \/ accepted' = accepted
           \/ file' = Written(Torn)
           \/ sent # None /\ file' = Compacted(Without(sent)) /\ accepted' = accepted
BY DEF Next, SyncStep, Enqueue, AppendOp, AppendFails, SyncBegin, Send, SendUnquoted,
       SendRejected, SendFails, Ack, AckFails, LateArrives, Crash, Tear, Reopen,
       ReopenFails, vars, client

LEMMA DurableStep ==
    ASSUME Shape, MergedWins, LostInv, [Next]_vars
    PROVE  Durable'
<1> SUFFICES ASSUME Parses(file'), NEW v \in Voyages
             PROVE  Covered(Replay(file')[v], accepted'[v], row'[v].version)
  BY DEF Durable
<1>1. up => Covered(ops[v], accepted[v], row[v].version)
  BY NothingLostCovered DEF LostInv
<1>2. Parses(file) => Covered(Replay(file)[v], accepted[v], row[v].version)
  BY DEF LostInv, Durable
<1>3. /\ ops \in [Voyages -> Entries] /\ accepted \in [Voyages -> Entries]
      /\ merged \in Entries /\ sent \in Entries /\ Replay(file) \in [Voyages -> Entries]
      /\ file \in Seq(Lines) /\ ended \in BOOLEAN
      /\ merged # None \/ sent # None => up
  BY EntryTypes
<1>4. /\ row[v].version \in Nat /\ row'[v].version \in Nat
      /\ row'[v].version >= row[v].version
  BY RowGrows
<1>5. ops[v] \in Entries /\ accepted[v] \in Entries /\ Replay(file)[v] \in Entries
  BY <1>3
<1>6. CASE file' = file /\ accepted' = accepted
  BY <1>6, <1>2, <1>4, <1>5, CoveredLater
<1>7. CASE /\ merged # None /\ file' = Written(merged)
           /\ Accept(merged) \/ accepted' = accepted
  <2>1. merged \in Operations /\ merged \in Lines /\ up
    BY <1>3, <1>7 DEF Entries, Lines
  <2>2. Parses(file) /\ Replay(file') = [Replay(file) EXCEPT ![merged.id] = merged]
    BY <2>1, <1>3, <1>7, WrittenLine
  <2>3. CASE v = merged.id
    <3>1. Replay(file')[v] = merged
      BY <2>2, <2>3, <1>3
    <3>2. accepted'[v] \in {accepted[v], merged}
      BY <2>1, <2>3, <1>3, <1>7, AcceptRaises DEF Entries
    <3>3. ops[v] # None => merged.version >= ops[v].version
      BY <2>3, <1>7 DEF MergedWins
    <3>4. Covered(merged, accepted'[v], row[v].version)
      BY <3>2, <3>3, <2>1, <1>1, <1>4, <1>5, CoveredMerge
    <3>5. accepted'[v] \in Entries /\ merged \in Entries
      BY <3>2, <2>1, <1>5 DEF Entries
    <3> QED BY <3>1, <3>4, <3>5, <1>4, CoveredLater
  <2>4. CASE v # merged.id
    <3>1. Replay(file')[v] = Replay(file)[v]
      BY <2>2, <2>4, <1>3
    <3>2. accepted'[v] = accepted[v]
      BY <2>1, <2>4, <1>3, <1>7, AcceptRaises DEF Entries
    <3> QED BY <3>1, <3>2, <2>2, <1>2, <1>4, <1>5, CoveredLater
  <2> QED BY <2>3, <2>4
<1>8. CASE file' = Written(Torn)
  <2>1. Torn \in Lines
    BY DEF Lines
  <2> QED BY <2>1, <1>3, <1>8, WrittenLine
<1>9. CASE sent # None /\ file' = Compacted(Without(sent)) /\ accepted' = accepted
  <2>1. Queue(Without(sent))
    BY QueueDrop DEF Without, Shape
  <2>2. Replay(file') = [ops EXCEPT ![sent.id] = None]
    BY <2>1, <1>9, ReplayCompacted DEF Without
  <2>3. /\ sent \in Operations /\ up
        /\ sent = ops[sent.id] /\ row[sent.id].version >= sent.version
    BY <1>3, <1>9 DEF Entries, LostInv, Turns, SentPending
  <2>4. CASE v = sent.id
    <3>1. Replay(file')[v] = None
      BY <2>2, <2>4, <1>3
    <3>2. Covered(None, accepted[v], row[v].version)
      BY <2>3, <2>4, <1>1, <1>4, <1>5, CoveredAck
    <3>3. None \in Entries
      BY DEF Entries
    <3> QED BY <3>1, <3>2, <3>3, <1>4, <1>5, <1>9, CoveredLater
  <2>5. CASE v # sent.id
    <3>1. Replay(file')[v] = ops[v]
      BY <2>2, <2>5, <1>3
    <3> QED BY <3>1, <2>3, <1>1, <1>4, <1>5, <1>9, CoveredLater
  <2> QED BY <2>4, <2>5
<1> QED
  BY <1>6, <1>7, <1>8, <1>9, DurableSteps

LEMMA InitLost ==
    Init => Shape /\ MergedWins /\ LostInv
<1> SUFFICES ASSUME Init PROVE Shape /\ MergedWins /\ LostInv
  OBVIOUS
<1>1. Shape /\ MergedWins
  BY InitShape DEF Init, MergedWins
<1>2. Turns
  BY DEF Init, Turns, Alone, Snapshot, SentPending
<1>3. NothingLost /\ Durable
  BY DEF Init, NothingLost, Durable, Covered
<1> QED
  BY <1>1, <1>2, <1>3 DEF LostInv

LEMMA LostInvariant ==
    ASSUME ~Concurrent
    PROVE  SafeSpec => [](Shape /\ MergedWins /\ LostInv)
<1>1. Shape /\ MergedWins /\ LostInv /\ [Next]_vars => (Shape /\ MergedWins /\ LostInv)'
  <2> SUFFICES ASSUME Shape, MergedWins, LostInv, [Next]_vars
               PROVE  Shape' /\ MergedWins' /\ LostInv'
    OBVIOUS
  <2>1. Shape' /\ MergedWins'
    BY ShapeStep, MergedWinsStep
  <2>2. Turns
    BY DEF LostInv
  <2>3. Turns'
    BY <2>2, AloneStep, SnapshotStep, SentPendingStep DEF Turns
  <2>4. NothingLost' /\ Durable'
    BY NothingLostStep, DurableStep
  <2> QED BY <2>1, <2>3, <2>4 DEF LostInv
<1> QED
  BY <1>1, InitLost, PTL DEF SafeSpec

\* Offline-first: when Enqueue and SyncOnce take turns no durable operation is lost,
\* whatever else fails: sends, appends, compactions, the process or the machine.
THEOREM NothingIsLost ==
    ASSUME ~Concurrent
    PROVE  SafeSpec => []NothingLost
<1>1. Shape /\ MergedWins /\ LostInv => NothingLost
  BY DEF LostInv
<1> QED
  BY <1>1, LostInvariant, PTL
-----------------------------------------------------------------------------
(* Convergence.  When every append is durable as well, whatever is queued  *)
(* or on its way carries a version the vessel has reached, and the content *)
(* that goes with its highest version unless the shore has moved past it.  *)

Harmless(op, a, n) ==
    /\ a # None
    /\ op.version <= a.version
    /\ op.version = a.version /\ n < op.version => op.content = a.content

Accounted ==
    /\ \A v \in Voyages :
          ops[v] # None => Harmless(ops[v], accepted[v], row[v].version)
    /\ \A v \in Voyages :
          Replay(file)[v] # None => Harmless(Replay(file)[v], accepted[v], row[v].version)
    /\ \A op \in BagToSet(late) : Harmless(op, accepted[op.id], row[op.id].version)

MergedNew ==
    merged # None =>
        \/ accepted[merged.id] = None
        \/ merged.version > accepted[merged.id].version
        \/ Harmless(merged, accepted[merged.id], row[merged.id].version)

RowAccepted ==
    \A v \in Voyages :
        row[v].version # 0 =>
            /\ accepted[v] # None
            /\ row[v].version <= accepted[v].version
            /\ row[v].version = accepted[v].version => row[v].content = accepted[v].content

Clean == ended /\ Parses(file)

ConvergeInv == Clean /\ Accounted /\ MergedNew /\ RowAccepted

NoTornLines == "append" \notin Faults /\ "tear" \notin Faults

\* What is durable of a voyage stays or is raised.
LEMMA AcceptedRises ==
    ASSUME Shape, [Next]_vars, NEW v \in Voyages
    PROVE  /\ accepted[v] \in Entries /\ accepted'[v] \in Entries
           /\ \/ accepted'[v] = accepted[v]
              \/ /\ accepted'[v] # None
                 /\ accepted[v] = None \/ accepted'[v].version > accepted[v].version
<1>1. accepted \in [Voyages -> Entries] /\ merged \in Entries
  BY EntryTypes
<1>2. (merged # None /\ Accept(merged)) \/ accepted' = accepted
  BY DEF Next, SyncStep, Enqueue, AppendOp, AppendFails, SyncBegin, Send, SendUnquoted,
         SendRejected, SendFails, Ack, AckFails, LateArrives, Crash, Tear, Reopen,
         ReopenFails, vars
<1>3. CASE accepted' = accepted
  BY <1>1, <1>3
<1>4. CASE merged # None /\ Accept(merged)
  <2>1. merged \in Operations /\ merged # None
    BY <1>1, <1>4 DEF Entries
  <2> QED BY <2>1, <1>1, <1>4, AcceptRaises DEF Entries
<1> QED
  BY <1>2, <1>3, <1>4

\* No step makes a harmless operation harmful.
LEMMA HarmlessStep ==
    ASSUME Shape, [Next]_vars, NEW v \in Voyages, NEW op \in Operations,
           Harmless(op, accepted[v], row[v].version)
    PROVE  Harmless(op, accepted'[v], row'[v].version)
<1>1. /\ row[v].version \in Nat /\ row'[v].version \in Nat
      /\ row'[v].version >= row[v].version
  BY RowGrows
<1>2. op.version \in Nat
  BY OperationFields
<1>3. accepted[v] \in Entries /\ accepted'[v] \in Entries
  BY AcceptedRises
<1>4. /\ accepted[v] # None => accepted[v].version \in Nat
      /\ accepted'[v] # None => accepted'[v].version \in Nat
  BY <1>3, OperationFields DEF Entries
<1>5. CASE accepted'[v] = accepted[v]
  BY <1>1, <1>2, <1>4, <1>5 DEF Harmless
<1>6. CASE accepted'[v] # None /\ (accepted[v] = None \/ accepted'[v].version > accepted[v].version)
  BY <1>1, <1>2, <1>4, <1>6 DEF Harmless
<1> QED
  BY <1>5, <1>6, AcceptedRises

LEMMA MergedHarmless ==
    ASSUME Shape, MergedNew, [Next]_vars, merged # None, Accept(merged)
    PROVE  Harmless(merged, accepted'[merged.id], row'[merged.id].version)
<1> DEFINE v == merged.id
<1>1. merged \in Operations /\ accepted \in [Voyages -> Operations \cup {None}]
  BY EntryTypes DEF Entries
<1>2. v \in Voyages /\ merged.version \in Nat /\ merged # None
  BY <1>1, OperationFields
<1>3. CASE Harmless(merged, accepted[v], row[v].version)
  BY <1>1, <1>2, <1>3, HarmlessStep
<1>4. CASE accepted[v] = None \/ merged.version > accepted[v].version
  <2>1. accepted[v] # None => accepted[v].version \in Nat
    BY <1>1, <1>2, OperationFields
  <2>2. accepted'[v] = merged
    BY <2>1, <1>1, <1>2, <1>4, AcceptRaises
  <2> QED BY <2>2, <1>2 DEF Harmless
<1> QED
  BY <1>3, <1>4 DEF MergedNew

\* How a step changes the file when no append fails or is torn.
LEMMA CleanSteps ==
    ASSUME NoTornLines, [Next]_vars
    PROVE  \/ file' = file /\ ended' = ended
           \/ merged # None /\ file' = Written(merged) /\ ended' /\ Accept(merged)
           \/ sent # None /\ file' = Compacted(Without(sent)) /\ ended'
BY DEF NoTornLines, Next, SyncStep, Enqueue, AppendOp, AppendFails, SyncBegin, Send,
       SendUnquoted, SendRejected, SendFails, Ack, AckFails, LateArrives, Crash, Tear,
       Reopen, ReopenFails, vars, client, Fault

LEMMA CleanStep ==
    ASSUME NoTornLines, Shape, Clean, [Next]_vars
    PROVE  Clean'
<1>1. file \in Seq(Lines) /\ ended \in BOOLEAN /\ merged \in Entries
  BY EntryTypes
<1>2. CASE file' = file /\ ended' = ended
  BY <1>2 DEF Clean, Parses
<1>3. CASE merged # None /\ file' = Written(merged) /\ ended'
  <2>1. merged \in Lines /\ merged # Torn
    BY <1>1, <1>3, OperationFields DEF Entries, Lines
  <2>2. Parses(Written(merged))
    BY <2>1, <1>1, WrittenLine DEF Clean
  <2> QED BY <2>2, <1>3 DEF Clean
<1>4. CASE sent # None /\ file' = Compacted(Without(sent)) /\ ended'
  <2>1. Queue(Without(sent))
    BY QueueDrop DEF Without, Shape
  <2>2. Parses(Compacted(Without(sent)))
    BY <2>1, ReplayCompacted
  <2> QED BY <2>2, <1>4 DEF Clean
<1> QED
  BY <1>2, <1>3, <1>4, CleanSteps

LEMMA AccountedStep ==
    ASSUME NoTornLines, Shape, MergedWins, LostInv, ConvergeInv, [Next]_vars
    PROVE  Accounted'
<1>1. /\ \A v \in Voyages :
            ops[v] # None => Harmless(ops[v], accepted[v], row[v].version)
      /\ \A v \in Voyages :
            Replay(file)[v] # None =>
                Harmless(Replay(file)[v], accepted[v], row[v].version)
      /\ \A op \in BagToSet(late) : Harmless(op, accepted[op.id], row[op.id].version)
      /\ MergedNew
  BY DEF ConvergeInv, Accounted
<1>2. /\ ops \in [Voyages -> Entries] /\ Replay(file) \in [Voyages -> Entries]
      /\ merged \in Entries /\ sent \in Entries
      /\ file \in Seq(Lines) /\ ended \in BOOLEAN
  BY EntryTypes
<1>3. BagToSet(late) \subseteq Operations /\ IsABag(late)
  BY DEF Shape, ShoreType
<1>4. merged # None /\ Accept(merged) =>
        Harmless(merged, accepted'[merged.id], row'[merged.id].version)
  BY <1>1, MergedHarmless
<1>5. ASSUME NEW v \in Voyages, ops[v] # None
      PROVE  Harmless(ops[v], accepted'[v], row'[v].version)
  <2>1. ops[v] \in Operations
    BY <1>2, <1>5 DEF Entries
  <2> QED BY <2>1, <1>1, <1>5, HarmlessStep
<1>6. ASSUME NEW v \in Voyages, Replay(file)[v] # None
      PROVE  Harmless(Replay(file)[v], accepted'[v], row'[v].version)
  <2>1. Replay(file)[v] \in Operations
    BY <1>2, <1>6 DEF Entries
  <2> QED BY <2>1, <1>1, <1>6, HarmlessStep
<1>7. ASSUME NEW v \in Voyages, ops'[v] # None
      PROVE  Harmless(ops'[v], accepted'[v], row'[v].version)
  <2>1. CASE AppendOp
    <3>1. merged # None /\ Accept(merged) /\ ops' = [ops EXCEPT ![merged.id] = merged]
      BY <2>1 DEF AppendOp
    <3>2. CASE v = merged.id
      <4>1. ops'[v] = merged
        BY <3>1, <3>2, <1>2
      <4> QED BY <4>1, <3>1, <3>2, <1>4
    <3>3. CASE v # merged.id
      <4>1. ops'[v] = ops[v]
        BY <3>1, <3>3, <1>2
      <4> QED BY <4>1, <1>5, <1>7
    <3> QED BY <3>2, <3>3
  <2>2. CASE Ack \/ AckFails
    <3>1. ops' = [ops EXCEPT ![sent.id] = None]
      BY <2>2 DEF Ack, AckFails, Without
    <3>2. ops'[v] = ops[v]
      BY <3>1, <1>2, <1>7
    <3> QED BY <3>2, <1>5, <1>7
  <2>3. CASE Crash \/ Tear
    <3>1. ops'[v] = None
      BY <2>3 DEF Crash, Tear, Stop
    <3> QED BY <3>1, <1>7
  <2>4. CASE Reopen
    <3>1. ops' = Replay(file)
      BY <2>4 DEF Reopen
    <3> QED BY <3>1, <1>6, <1>7
  <2>5. CASE AppendFails
    BY <2>5 DEF AppendFails, Fault, NoTornLines
  <2>6. CASE \/ \E op \in Operations : Enqueue(op)
             \/ SyncBegin \/ \E op \in todo : Send(op) \/ SendUnquoted(op) \/ SendRejected(op)
             \/ \E op \in todo : SendFails(op)
             \/ \E op \in BagToSet(late) : LateArrives(op)
             \/ ReopenFails \/ UNCHANGED vars
    <3>1. ops' = ops
      BY <2>6 DEF Enqueue, SyncBegin, Send, SendUnquoted, SendRejected, SendFails,
                  LateArrives, ReopenFails, vars, client
    <3> QED BY <3>1, <1>5, <1>7
  <2> QED BY <2>1, <2>2, <2>3, <2>4, <2>5, <2>6 DEF Next, SyncStep
<1>8. ASSUME NEW v \in Voyages, Replay(file')[v] # None
      PROVE  Harmless(Replay(file')[v], accepted'[v], row'[v].version)
  <2>1. CASE file' = file
    BY <2>1, <1>6, <1>8
  <2>2. CASE merged # None /\ file' = Written(merged) /\ Accept(merged)
    <3>1. merged \in Lines /\ merged # Torn /\ ended /\ Parses(file)
      BY <2>2, <1>2, OperationFields DEF Entries, Lines, ConvergeInv, Clean
    <3>2. Replay(file') = [Replay(file) EXCEPT ![merged.id] = merged]
      BY <3>1, <2>2, <1>2, WrittenLine
    <3>3. CASE v = merged.id
      <4>1. Replay(file')[v] = merged
        BY <3>2, <3>3, <1>2
      <4> QED BY <4>1, <3>3, <2>2, <1>4
    <3>4. CASE v # merged.id
      <4>1. Replay(file')[v] = Replay(file)[v]
        BY <3>2, <3>4, <1>2
      <4> QED BY <4>1, <1>6, <1>8
    <3> QED BY <3>3, <3>4
  <2>3. CASE sent # None /\ file' = Compacted(Without(sent))
    <3>1. Queue(Without(sent))
      BY QueueDrop DEF Without, Shape
    <3>2. Replay(file') = [ops EXCEPT ![sent.id] = None]
      BY <3>1, <2>3, ReplayCompacted DEF Without
    <3>3. Replay(file')[v] = ops[v]
      BY <3>2, <1>2, <1>8
    <3> QED BY <3>3, <1>5, <1>8
  <2> QED BY <2>1, <2>2, <2>3, CleanSteps
<1>9. ASSUME NEW op \in BagToSet(late')
      PROVE  Harmless(op, accepted'[op.id], row'[op.id].version)
  <2>1. CASE op \in BagToSet(late)
    <3>1. op \in Operations /\ op.id \in Voyages
      BY <2>1, <1>3, OperationFields
    <3> QED BY <3>1, <2>1, <1>1, HarmlessStep
  <2>2. CASE op \in todo
    <3>1. todo \subseteq Pending(ops)
      BY DEF LostInv, Turns, Snapshot
    <3>2. PICK v \in Voyages : op = ops[v] /\ op # None
      BY <3>1, <2>2 DEF Pending
    <3>3. op.id = v
      BY <3>2 DEF Shape, Queue
    <3> QED BY <3>2, <3>3, <1>5
  <2>3. BagToSet(late') \subseteq BagToSet(late) \cup todo
    <3>1. CASE \E x \in BagToSet(late) : LateArrives(x)
      BY <3>1, <1>3, LateRemove DEF LateArrives
    <3>2. CASE \E x \in todo : SendFails(x)
      <4>1. PICK x \in todo : late' = late \/ late' = late (+) SetToBag({x})
        BY <3>2 DEF SendFails
      <4>2. BagToSet(late (+) SetToBag({x})) = BagToSet(late) \cup {x}
        BY <1>3, LateAdd
      <4> QED BY <4>1, <4>2
    <3>3. CASE \/ \E x \in Operations : Enqueue(x)
               \/ AppendOp \/ AppendFails \/ SyncStep
               \/ AckFails \/ Crash \/ Tear \/ Reopen \/ ReopenFails
               \/ UNCHANGED vars
      <4>1. late' = late
        BY <3>3 DEF Enqueue, AppendOp, AppendFails, SyncStep, SyncBegin, Send,
                    SendUnquoted, SendRejected, Ack, AckFails, Crash, Tear, Stop, Reopen,
                    ReopenFails, vars
      <4> QED BY <4>1
    <3> QED BY <3>1, <3>2, <3>3 DEF Next
  <2> QED BY <2>1, <2>2, <2>3
<1> QED
  BY <1>7, <1>8, <1>9 DEF Accounted

LEMMA MergedNewStep ==
    ASSUME Shape, MergedWins, LostInv, ConvergeInv, [Next]_vars
    PROVE  MergedNew'
<1>1. MergedNew /\ Accounted
  BY DEF ConvergeInv
<1>2. /\ ops \in [Voyages -> Entries] /\ accepted \in [Voyages -> Entries]
      /\ merged \in Entries
  BY EntryTypes
<1>3. CASE \E op \in Operations : Enqueue(op)
  <2>1. PICK op \in Operations :
           /\ up
           /\ merged' = IF ops[op.id] = None THEN op ELSE HigherVersionWins(ops[op.id], op)
           /\ row' = row /\ accepted' = accepted
    BY <1>3 DEF Enqueue
  <2> DEFINE v == op.id
             a == accepted[v]
             n == row[v].version
  <2>2. v \in Voyages /\ op.version \in Nat
    BY OperationFields
  <2>3. /\ ops[v] # None => ops[v].version \in Nat /\ ops[v].id = v
        /\ a # None => a.version \in Nat
    BY <2>2, <1>2, OperationFields DEF Entries, Shape, Queue
  <2>4. n \in Nat
    BY <2>2, RowGrows
  <2>5. CASE merged' = ops[v] /\ ops[v] # None
    <3>1. Harmless(ops[v], a, n)
      BY <2>2, <2>5, <1>1 DEF Accounted
    <3> QED BY <3>1, <2>1, <2>3, <2>5 DEF MergedNew
  <2>6. CASE merged' = op /\ (ops[v] = None \/ op.version > ops[v].version)
    <3>1. Covered(ops[v], a, n)
      BY <2>1, <2>2, NothingLostCovered DEF LostInv
    <3>2. a = None \/ op.version > a.version \/ Harmless(op, a, n)
      BY <3>1, <2>2, <2>3, <2>4, <2>6 DEF Covered, Harmless
    <3> QED BY <3>2, <2>1, <2>6 DEF MergedNew
  <2> QED BY <2>1, <2>5, <2>6 DEF HigherVersionWins
<1>4. CASE AppendOp \/ AppendFails \/ Crash \/ Tear
  BY <1>4 DEF AppendOp, AppendFails, Crash, Tear, Stop, MergedNew
<1>5. CASE \/ SyncStep \/ \E op \in todo : SendFails(op)
           \/ \E op \in BagToSet(late) : LateArrives(op)
           \/ AckFails \/ Reopen \/ ReopenFails \/ UNCHANGED vars
  <2>1. merged' = merged /\ accepted' = accepted
    BY <1>5 DEF SyncStep, SyncBegin, Send, SendUnquoted, SendRejected, Ack, SendFails,
                LateArrives, AckFails, Reopen, ReopenFails, vars, client
  <2>2. CASE merged = None
    BY <2>1, <2>2 DEF MergedNew
  <2>3. CASE merged # None
    <3>1. merged \in Operations /\ merged.id \in Voyages
      BY <2>3, <1>2, OperationFields DEF Entries
    <3>2. Harmless(merged, accepted[merged.id], row[merged.id].version) =>
             Harmless(merged, accepted'[merged.id], row'[merged.id].version)
      BY <3>1, HarmlessStep
    <3> QED BY <3>2, <2>1, <2>3, <1>1 DEF MergedNew
  <2> QED BY <2>2, <2>3
<1> QED
  BY <1>3, <1>4, <1>5 DEF Next

LEMMA RowAcceptedStep ==
    ASSUME Shape, LostInv, ConvergeInv, [Next]_vars
    PROVE  RowAccepted'
<1>1. RowAccepted /\ Accounted
  BY DEF ConvergeInv
<1>2. row \in [Voyages -> ShoreRow]
  BY DEF Shape, ShoreType
<1>3. CASE row' = row
  <2> SUFFICES ASSUME NEW v \in Voyages, row[v].version # 0
               PROVE  /\ accepted'[v] # None
                      /\ row[v].version <= accepted'[v].version
                      /\ row[v].version = accepted'[v].version =>
                            row[v].content = accepted'[v].content
    BY <1>3 DEF RowAccepted
  <2>1. accepted[v] \in Entries /\ accepted'[v] \in Entries
    BY AcceptedRises
  <2>2. /\ accepted[v] # None => accepted[v].version \in Nat
        /\ accepted'[v] # None => accepted'[v].version \in Nat
    BY <2>1, OperationFields DEF Entries
  <2>3. row[v].version \in Nat
    BY RowGrows
  <2>4. /\ accepted[v] # None
        /\ row[v].version <= accepted[v].version
        /\ row[v].version = accepted[v].version => row[v].content = accepted[v].content
    BY <1>1 DEF RowAccepted
  <2> QED BY <2>2, <2>3, <2>4, AcceptedRises
<1>4. ASSUME NEW op \in Operations, Serve(op),
             \/ op \in BagToSet(late) /\ LateArrives(op)
             \/ op \in todo /\ (Send(op) \/ SendUnquoted(op))
      PROVE  RowAccepted'
  <2>1. accepted' = accepted
    BY <1>4 DEF LateArrives, Send, SendUnquoted
  <2>2. Harmless(op, accepted[op.id], row[op.id].version)
    <3>1. CASE op \in BagToSet(late)
      BY <3>1, <1>1 DEF Accounted
    <3>2. CASE op \in todo
      <4>1. PICK v \in Voyages : op = ops[v] /\ op # None
        BY <3>2 DEF LostInv, Turns, Snapshot, Pending
      <4>2. op.id = v
        BY <4>1 DEF Shape, Queue
      <4> QED BY <4>1, <4>2, <1>1 DEF Accounted
    <3> QED BY <3>1, <3>2, <1>4
  <2>3. CASE row' = row
    BY <2>3, <1>3
  <2>4. CASE /\ row[op.id].version < op.version
             /\ row'[op.id].version = op.version /\ row'[op.id].content = op.content
    <3>1. \A v \in Voyages : v # op.id => row'[v] = row[v]
      BY <1>2, <1>4, ServeRow
    <3> QED BY <3>1, <2>1, <2>2, <2>4, <1>1 DEF RowAccepted, Harmless
  <2> QED BY <2>3, <2>4, <1>2, <1>4, ServeRow
<1> QED
  BY <1>3, <1>4, ServesAlone

LEMMA ConvergeInvariant ==
    ASSUME ~Concurrent, NoTornLines
    PROVE  SafeSpec => [](Shape /\ MergedWins /\ LostInv /\ ConvergeInv)
<1>1. Init => ConvergeInv
  <2> SUFFICES ASSUME Init PROVE ConvergeInv
    OBVIOUS
  <2>1. Clean /\ MergedNew /\ RowAccepted
    BY DEF Init, Clean, Parses, MergedNew, RowAccepted
  <2>2. BagToSet(late) = {}
    BY DEF Init, EmptyBag, SetToBag, BagToSet
  <2>3. \A v \in Voyages : ops[v] = None /\ Replay(file)[v] = None
    BY DEF Init, Replay
  <2> QED BY <2>1, <2>2, <2>3 DEF ConvergeInv, Accounted
<1>2. Shape /\ MergedWins /\ LostInv /\ ConvergeInv /\ [Next]_vars => ConvergeInv'
  <2> SUFFICES ASSUME Shape, MergedWins, LostInv, ConvergeInv, [Next]_vars
               PROVE  ConvergeInv'
    OBVIOUS
  <2>1. Clean'
    BY CleanStep DEF ConvergeInv
  <2>2. Accounted' /\ MergedNew' /\ RowAccepted'
    BY AccountedStep, MergedNewStep, RowAcceptedStep
  <2> QED BY <2>1, <2>2 DEF ConvergeInv
<1> QED
  BY <1>1, <1>2, LostInvariant, PTL DEF SafeSpec

\* With nothing queued the shore holds exactly the vessel's highest edit: for turns
\* of Enqueue and SyncOnce and no failing appends, however sends fail, requests
\* arrive late, compactions fail and the process crashes.
THEOREM QueueConverges ==
    ASSUME ~Concurrent, NoTornLines
    PROVE  SafeSpec => []Converged
<1>1. Shape /\ MergedWins /\ LostInv /\ ConvergeInv => Converged
  <2> SUFFICES ASSUME Shape, LostInv, ConvergeInv,
                      NEW v \in Voyages, accepted[v] # None, Replay(file)[v] = None
               PROVE  row[v] = [version |-> accepted[v].version,
                                content |-> accepted[v].content]
    BY DEF Converged
  <2>1. Parses(file) /\ RowAccepted
    BY DEF ConvergeInv, Clean
  <2>2. row[v].version >= accepted[v].version
    BY <2>1 DEF LostInv, Durable, Covered
  <2>3. accepted[v] \in Operations
    BY DEF Shape, LedgerType
  <2>4. row[v] \in ShoreRow
    BY DEF Shape, ShoreType
  <2>5. accepted[v].version \in 1..MaxVersion /\ accepted[v].version \in Nat
    BY <2>3, OperationFields
  <2>6. row[v].version \in Nat
    BY <2>4, SyncAssumption DEF ShoreRow
  <2>7. row[v].version # 0
    BY <2>2, <2>5, <2>6, SyncAssumption
  <2>8. row[v].version = accepted[v].version /\ row[v].content = accepted[v].content
    BY <2>1, <2>2, <2>5, <2>6, <2>7 DEF RowAccepted
  <2>9. row[v] = [version |-> row[v].version, content |-> row[v].content]
    BY <2>4 DEF ShoreRow
  <2> QED BY <2>8, <2>9
<1> QED
  BY <1>1, ConvergeInvariant, PTL
=============================================================================
