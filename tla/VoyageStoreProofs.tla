-------------------------- MODULE VoyageStoreProofs --------------------------
(***************************************************************************)
(* Theorems about VoyageStore, for any number of handlers, voyages,        *)
(* contents and versions, any pool and any number of faults.               *)
(***************************************************************************)
EXTENDS VoyageStore, FiniteSetTheorems, TLAPS

\* What a request carries.
LEMMA RequestFields ==
  ASSUME NEW r \in Requests
  PROVE  /\ r.id \in Voyages
         /\ r.op \in {"create", "update", "get"}
         /\ r.op = "create" => r.content \in Contents
         /\ r.op = "update" => r.content \in Contents /\ r.version \in 1..MaxVersion
  BY DEF Requests, Creates, Updates, Gets

\* A handler that is not idle has a request, of the kind its place belongs to.
Serving ==
    \A h \in Handlers :
        /\ pc[h] # "idle" => req[h] \in Requests
        /\ pc[h] \in {"begin", "insert", "commit", "quote"} => req[h].op = "create"
        /\ pc[h] = "exec" => req[h].op = "update"

\* Well-typed, with requests where they belong: what the other parts build on.
Shape == TypeOK /\ Serving

\* Every step keeps requests where they belong.
LEMMA ServingStep == Shape /\ [Next]_vars => Serving'
  <1> SUFFICES ASSUME Shape, [Next]_vars PROVE Serving'
    OBVIOUS
  <1> USE DEF Goto
  <1>a. /\ Serving
        /\ pc \in [Handlers -> {"idle", "begin", "insert", "commit", "exec", "read", "quote"}]
        /\ req \in [Handlers -> Requests \cup {NoRequest}]
    BY DEF Shape, TypeOK, ConnectionType, HandlerType
  <1>1. ASSUME NEW h \in Handlers, NEW r \in Requests, Receive(h, r)
        PROVE  Serving'
    <2>1. /\ r.op = "create" => FirstStep(r.op) = "begin"
          /\ r.op = "update" => FirstStep(r.op) = "exec"
          /\ r.op = "get" => FirstStep(r.op) = "read"
      BY DEF FirstStep
    <2>2. r.op \in {"create", "update", "get"}
      BY RequestFields
    <2> QED
      BY <1>1, <1>a, <2>1, <2>2 DEF Receive, Serving
  <1>2. ASSUME NEW h \in Handlers,
               Reject(h) \/ Begin(h) \/ Acquire(h) \/ Insert(h) \/ InsertConflict(h)
                  \/ Commit(h) \/ Exec(h)
        PROVE  Serving'
    BY <1>2, <1>a DEF Serving, Reject, Begin, Acquire, Insert, InsertConflict, Commit, Exec
  <1>3. ASSUME NEW h \in Handlers,
               Read(h) \/ Quote(h) \/ CommitLostAck(h) \/ QuoteFails(h) \/ Fail(h)
        PROVE  Serving'
    BY <1>3, <1>a DEF Serving, Read, Return, Quote, CommitLostAck, QuoteFails, Fail
  <1>4. CASE Restart
    BY <1>4, <1>a DEF Serving, Restart
  <1>5. CASE UNCHANGED vars
    BY <1>5, <1>a DEF Serving, vars
  <1> QED
    BY <1>1, <1>2, <1>3, <1>4, <1>5 DEF Next, Step

\* Every step keeps the types, part by part.
LEMMA StoreTypeStep == Shape /\ [Next]_vars => StoreType'
  <1> SUFFICES ASSUME Shape, [Next]_vars PROVE StoreType'
    OBVIOUS
  <1> USE StoreAssumption DEF store, Fault
  <1>a. StoreType /\ Serving
    BY DEF Shape, TypeOK
  <1>1. ASSUME NEW h \in Handlers, UNCHANGED pool,
               \/ \E r \in Requests : Receive(h, r)
               \/ Reject(h) \/ Begin(h) \/ Acquire(h) \/ InsertConflict(h)
               \/ Read(h) \/ Quote(h) \/ QuoteFails(h)
        PROVE  StoreType'
    BY <1>1, <1>a
    DEF StoreType, Receive, Reject, Begin, Acquire, InsertConflict, Read, Quote, QuoteFails
  <1>2. ASSUME NEW h \in Handlers, UNCHANGED pool, Insert(h)
        PROVE  StoreType'
    BY <1>2, <1>a DEF StoreType, Insert
  <1>3. ASSUME NEW h \in Handlers, UNCHANGED pool, Commit(h) \/ CommitLostAck(h)
        PROVE  StoreType'
    <2>1. req[h] \in Requests /\ req[h].id \in Voyages /\ req[h].content \in Contents
      BY <1>3, <1>a, RequestFields DEF Serving, Commit, CommitLostAck
    <2>2. /\ version' = [version EXCEPT ![req[h].id] = 1]
          /\ content' = [content EXCEPT ![req[h].id] = req[h].content]
          /\ outbox' = Append(outbox, req[h].id)
          /\ inserting' = [inserting EXCEPT ![req[h].id] = None]
          /\ faults' = faults \/ (faults < MaxFaults /\ faults' = faults + 1)
      BY <1>3 DEF Commit, CommitLostAck, WriteOutbox
    <2>3. version' \in [Voyages -> 0..MaxVersion] /\ faults' \in 0..MaxFaults
      BY <1>a, <2>1, <2>2 DEF StoreType
    <2>4. /\ content' \in [Voyages -> Contents \cup {None}]
          /\ outbox' \in Seq(Voyages)
          /\ inserting' \in [Voyages -> Handlers \cup {None}]
      BY <1>a, <2>1, <2>2 DEF StoreType
    <2> QED
      BY <1>3, <1>a, <2>3, <2>4 DEF StoreType
  <1>4. ASSUME NEW h \in Handlers, UNCHANGED pool, Exec(h)
        PROVE  StoreType'
    <2>1. /\ req[h] \in Requests /\ req[h].id \in Voyages /\ req[h].content \in Contents
          /\ req[h].version \in 1..MaxVersion
      BY <1>4, <1>a, RequestFields DEF Serving, Exec
    <2>2. /\ \/ version' = version /\ content' = content
             \/ /\ version' = [version EXCEPT ![req[h].id] = req[h].version]
                /\ content' = [content EXCEPT ![req[h].id] = req[h].content]
          /\ UNCHANGED <<outbox, inserting, faults>>
      BY <1>4 DEF Exec
    <2>3. version' \in [Voyages -> 0..MaxVersion]
      BY <1>a, <2>1, <2>2 DEF StoreType
    <2>4. content' \in [Voyages -> Contents \cup {None}]
      BY <1>a, <2>1, <2>2 DEF StoreType
    <2> QED
      BY <1>4, <1>a, <2>2, <2>3, <2>4 DEF StoreType
  <1>5. ASSUME UNCHANGED pool, Restart \/ \E h \in Handlers : Fail(h)
        PROVE  StoreType'
    BY <1>5, <1>a DEF StoreType, Restart, Fail
  <1>6. CASE UNCHANGED vars
    BY <1>6, <1>a DEF StoreType, vars
  <1> QED
    BY <1>1, <1>2, <1>3, <1>4, <1>5, <1>6 DEF Next, Step

\* A connection is held only for the statement or transaction it was acquired for.
LEMMA ConnectionTypeStep == Shape /\ [Next]_vars => ConnectionType'
  <1> SUFFICES ASSUME Shape, [Next]_vars PROVE ConnectionType'
    OBVIOUS
  <1> USE DEF Goto, ConnectionType
  <1>a. ConnectionType
    BY DEF Shape, TypeOK
  <1>1. ASSUME NEW h \in Handlers, NEW r \in Requests, Receive(h, r)
        PROVE  ConnectionType'
    <2>1. FirstStep(r.op) \in {"begin", "exec", "read"}
      BY RequestFields DEF FirstStep
    <2> QED
      BY <1>1, <1>a, <2>1 DEF Receive
  <1>2. ASSUME NEW h \in Handlers,
               Reject(h) \/ Begin(h) \/ Acquire(h) \/ Insert(h) \/ InsertConflict(h)
        PROVE  ConnectionType'
    BY <1>2, <1>a DEF Reject, Begin, Acquire, Insert, InsertConflict, RollbackEmpty
  <1>3. ASSUME NEW h \in Handlers,
               Commit(h) \/ CommitLostAck(h) \/ Exec(h) \/ Read(h)
        PROVE  ConnectionType'
    BY <1>3, <1>a DEF Commit, CommitLostAck, Exec, Read, Return
  <1>4. ASSUME NEW h \in Handlers, Quote(h) \/ QuoteFails(h) \/ Fail(h)
        PROVE  ConnectionType'
    BY <1>4, <1>a DEF Quote, QuoteFails, Fail, Return
  <1>5. CASE Restart
    BY <1>5, <1>a DEF Restart
  <1>6. CASE UNCHANGED vars
    BY <1>6, <1>a DEF vars
  <1> QED
    BY <1>1, <1>2, <1>3, <1>4, <1>5, <1>6 DEF Next, Step

\* What a handler may be answered with.
LEMMA ReplyTypes ==
  /\ \A c \in Codes : Status(c) \in Replies
  /\ \A n \in 0..MaxVersion : Voyage(n) \in Replies
  BY StoreAssumption DEF Status, Voyage, Replies, Codes

\* Requests, versions read and replies keep their types.
LEMMA HandlerTypeStep == Shape /\ [Next]_vars => HandlerType'
  <1> SUFFICES ASSUME Shape, [Next]_vars PROVE HandlerType'
    OBVIOUS
  <1> USE StoreAssumption DEF HandlerType
  <1>a. HandlerType /\ Serving /\ version \in [Voyages -> 0..MaxVersion]
    BY DEF Shape, TypeOK, StoreType
  <1>b. /\ Status("none") \in Replies /\ Status("InvalidArgument") \in Replies
        /\ Status("NotFound") \in Replies /\ Status("Internal") \in Replies
    BY ReplyTypes DEF Codes
  <1>1. ASSUME NEW h \in Handlers, NEW r \in Requests, Receive(h, r)
        PROVE  HandlerType'
    BY <1>1, <1>a, <1>b DEF Receive
  <1>2. ASSUME NEW h \in Handlers,
               Reject(h) \/ Begin(h) \/ Acquire(h) \/ Insert(h) \/ InsertConflict(h)
                  \/ Exec(h)
        PROVE  HandlerType'
    BY <1>2, <1>a, <1>b DEF Reject, Begin, Acquire, Insert, InsertConflict, Exec
  <1>3. ASSUME NEW h \in Handlers, Commit(h)
        PROVE  HandlerType'
    BY <1>3, <1>a DEF Commit
  <1>4. ASSUME NEW h \in Handlers, Read(h)
        PROVE  HandlerType'
    <2>1. req[h].id \in Voyages
      BY <1>4, <1>a, RequestFields DEF Serving, Read
    <2>2. version[req[h].id] \in 0..MaxVersion /\ Voyage(version[req[h].id]) \in Replies
      BY <1>a, <2>1, ReplyTypes
    <2> QED
      BY <1>4, <1>a, <1>b, <2>2 DEF Read, Return
  <1>5. ASSUME NEW h \in Handlers,
               Quote(h) \/ QuoteFails(h) \/ Fail(h) \/ CommitLostAck(h)
        PROVE  HandlerType'
    <2>1. Voyage(got[h]) \in Replies
      BY <1>a, ReplyTypes
    <2> QED
      BY <1>5, <1>a, <1>b, <2>1 DEF Quote, QuoteFails, Fail, CommitLostAck, Return
  <1>6. CASE Restart
    BY <1>6, <1>b DEF Restart
  <1>7. CASE UNCHANGED vars
    BY <1>7, <1>a DEF vars
  <1> QED
    BY <1>1, <1>2, <1>3, <1>4, <1>5, <1>6, <1>7 DEF Next, Step

\* existed stays Boolean.
LEMMA ExistedTypeStep == Shape /\ [Next]_vars => (existed \in [Handlers -> BOOLEAN])'
  <1> SUFFICES ASSUME existed \in [Handlers -> BOOLEAN], [Next]_vars
               PROVE  existed' \in [Handlers -> BOOLEAN]
    BY DEF Shape, TypeOK
  <1>1. ASSUME NEW h \in Handlers, NEW r \in Requests, Receive(h, r)
        PROVE  existed' \in [Handlers -> BOOLEAN]
    <2>1. (version[r.id] # 0) \in BOOLEAN
      OBVIOUS
    <2>2. existed' = [existed EXCEPT ![h] = version[r.id] # 0]
      BY <1>1 DEF Receive
    <2> QED
      BY <2>1, <2>2, Zenon
  <1>2. ASSUME NEW h \in Handlers,
               Reject(h) \/ Begin(h) \/ Acquire(h) \/ Insert(h) \/ InsertConflict(h)
                  \/ Commit(h) \/ Exec(h)
        PROVE  existed' = existed
    BY <1>2 DEF Reject, Begin, Acquire, Insert, InsertConflict, Commit, Exec
  <1>3. ASSUME NEW h \in Handlers,
               Read(h) \/ Quote(h) \/ CommitLostAck(h) \/ QuoteFails(h) \/ Fail(h)
        PROVE  existed' = existed \/ existed' = [existed EXCEPT ![h] = FALSE]
    BY <1>3 DEF Read, Quote, CommitLostAck, QuoteFails, Fail, Return
  <1>4. \A h \in Handlers : [existed EXCEPT ![h] = FALSE] \in [Handlers -> BOOLEAN]
    BY Zenon
  <1>5. CASE Restart
    <2>1. existed' = [h \in Handlers |-> FALSE]
      BY <1>5 DEF Restart
    <2> QED
      BY <2>1, Zenon
  <1>6. CASE UNCHANGED vars
    BY <1>6 DEF vars
  <1> QED
    BY <1>1, <1>2, <1>3, <1>4, <1>5, <1>6 DEF Next, Step

\* The service starts idle and well-typed.
LEMMA InitShape == Init => Shape
  <1> SUFFICES ASSUME Init PROVE Shape
    OBVIOUS
  <1>1. StoreType
    BY StoreAssumption DEF Init, StoreType
  <1>2. ConnectionType
    BY DEF Init, ConnectionType
  <1>3. HandlerType
    <2>1. Status("none") \in Replies
      BY ReplyTypes DEF Codes
    <2> QED
      BY <2>1, StoreAssumption DEF Init, HandlerType
  <1>4. existed \in [Handlers -> BOOLEAN]
    BY Zenon DEF Init
  <1>5. Serving
    BY DEF Init, Serving
  <1> QED
    BY <1>1, <1>2, <1>3, <1>4, <1>5 DEF Shape, TypeOK

\* Types and requests, together, are inductive.
LEMMA ShapeStep == Shape /\ [Next]_vars => Shape'
  BY ServingStep, StoreTypeStep, ConnectionTypeStep, HandlerTypeStep, ExistedTypeStep
  DEF Shape, TypeOK

\* Every variable of the request path always has its type, and a connection is held
\* only for the statement or the transaction it was acquired for (TypeOK).
THEOREM TypeCorrect == SafeSpec => []TypeOK
  <1>1. Init => Shape
    BY InitShape
  <1>2. Shape /\ [Next]_vars => Shape'
    BY ShapeStep
  <1>3. Shape => TypeOK
    BY DEF Shape
  <1> QED
    BY <1>1, <1>2, <1>3, PTL DEF SafeSpec
-----------------------------------------------------------------------------
(* The transactions.                                                       *)

\* An insert that is not committed yet belongs to one handler, which is about to
\* commit it, and its voyage has no row: nobody else can have created it.
Owned ==
    /\ \A h \in Handlers : pc[h] = "commit" => inserting[req[h].id] = h
    /\ \A v \in Voyages : inserting[v] # None =>
          /\ pc[inserting[v]] = "commit"
          /\ req[inserting[v]].id = v
          /\ version[v] = 0

\* The row a request found when it came in is still there, and once the UPDATE ran
\* it has the version asked for or a higher one.
Landed ==
    \A h \in Handlers :
        pc[h] # "idle" /\ existed[h] =>
            /\ version[req[h].id] # 0
            /\ pc[h] = "read" /\ req[h].op = "update" => version[req[h].id] >= req[h].version

\* The inductive invariant of the request path.
StoreInv == Shape /\ Owned /\ ConflictMeansRow /\ OneEventPerVoyage /\ Landed

\* The two ways a step changes the table: a handler's transaction commits, with
\* or without its ack, or its UPDATE lands.
Commits(h) ==
    /\ pc[h] = "commit"
    /\ version' = [version EXCEPT ![req[h].id] = 1]
    /\ content' = [content EXCEPT ![req[h].id] = req[h].content]
    /\ outbox' = Append(outbox, req[h].id)

Overwrites(h) ==
    /\ pc[h] = "exec"
    /\ Lands(h)
    /\ version' = [version EXCEPT ![req[h].id] = req[h].version]
    /\ content' = [content EXCEPT ![req[h].id] = req[h].content]
    /\ outbox' = outbox

\* No other step touches the table or the outbox.
LEMMA TableStep ==
  [Next]_vars => UNCHANGED store \/ \E h \in Handlers : Commits(h) \/ Overwrites(h)
  <1> SUFFICES ASSUME [Next]_vars, ~UNCHANGED store
               PROVE  \E h \in Handlers : Commits(h) \/ Overwrites(h)
    OBVIOUS
  <1>1. ~Restart /\ ~UNCHANGED vars
    BY DEF Restart, vars
  <1>2. PICK h \in Handlers :
           \/ \E r \in Requests : Receive(h, r)
           \/ Reject(h) \/ Begin(h) \/ Acquire(h) \/ Step(h)
           \/ CommitLostAck(h) \/ QuoteFails(h) \/ Fail(h)
    BY <1>1 DEF Next
  <1>3. Commit(h) \/ CommitLostAck(h) \/ Exec(h)
    BY <1>2 DEF Receive, Reject, Begin, Acquire, Step, Insert, InsertConflict, Read,
                Quote, QuoteFails, Fail
  <1>4. CASE Commit(h) \/ CommitLostAck(h)
    BY <1>4 DEF Commit, CommitLostAck, WriteOutbox, Commits
  <1>5. CASE Exec(h)
    BY <1>5 DEF Exec, Overwrites, store
  <1> QED
    BY <1>3, <1>4, <1>5

\* What the handler that changes the table carries.
LEMMA Changer ==
  ASSUME Shape, NEW h \in Handlers, pc[h] \in {"commit", "exec"}
  PROVE  /\ req[h] \in Requests /\ req[h].id \in Voyages /\ req[h].content \in Contents
         /\ pc[h] = "exec" => req[h].version \in 1..MaxVersion
  BY RequestFields DEF Shape, Serving

\* A row is never removed and its version never goes down.
LEMMA VersionsRise ==
  ASSUME Shape, Owned, [Next]_vars, NEW v \in Voyages
  PROVE  version[v] \in Nat /\ version'[v] \in Nat /\ version'[v] >= version[v]
  <1>a. version \in [Voyages -> Nat] /\ version' \in [Voyages -> Nat]
    BY StoreTypeStep, StoreAssumption DEF Shape, TypeOK, StoreType
  <1>1. CASE UNCHANGED store
    BY <1>1, <1>a DEF store
  <1>2. ASSUME NEW h \in Handlers, Commits(h) PROVE version'[v] >= version[v]
    <2>1. req[h].id \in Voyages /\ inserting[req[h].id] # None
      BY <1>2, Changer, StoreAssumption DEF Commits, Owned
    <2>2. version[req[h].id] = 0
      BY <2>1 DEF Owned
    <2> QED
      BY <1>2, <1>a, <2>1, <2>2 DEF Commits
  <1>3. ASSUME NEW h \in Handlers, Overwrites(h) PROVE version'[v] >= version[v]
    BY <1>3, <1>a, Changer DEF Overwrites, Lands
  <1> QED
    BY <1>1, <1>2, <1>3, <1>a, TableStep

\* The table is the register: a commit creates, since an uncommitted insert has
\* no row yet (Owned), and an UPDATE that lands raises the version.
LEMMA RegisterStep ==
  ASSUME Shape, Owned, [Next]_vars
  PROVE  [Register!Next]_(Register!vars)
  <1> USE DEF Register!Next, Register!vars, Register!Create, Register!Raise, Register!Put
  <1>1. CASE UNCHANGED store
    BY <1>1 DEF store
  <1>2. ASSUME NEW h \in Handlers, Commits(h) PROVE Register!Next
    <2>1. /\ req[h].id \in Voyages /\ req[h].content \in Contents
          /\ inserting[req[h].id] # None
      BY <1>2, Changer, StoreAssumption DEF Commits, Owned
    <2>2. version[req[h].id] = 0
      BY <2>1 DEF Owned
    <2> QED
      BY <1>2, <2>1, <2>2 DEF Commits
  <1>3. ASSUME NEW h \in Handlers, Overwrites(h) PROVE Register!Next
    BY <1>3, Changer DEF Overwrites, Lands
  <1> QED
    BY <1>1, <1>2, <1>3, TableStep

\* Every step keeps the ownership of uncommitted inserts.
LEMMA OwnedStep ==
  ASSUME Shape, Owned, [Next]_vars
  PROVE  Owned'
  <1> USE StoreAssumption DEF Goto, Owned
  <1>a. /\ Serving
        /\ pc \in [Handlers -> {"idle", "begin", "insert", "commit", "exec", "read", "quote"}]
        /\ req \in [Handlers -> Requests \cup {NoRequest}]
        /\ inserting \in [Voyages -> Handlers \cup {None}]
        /\ version \in [Voyages -> 0..MaxVersion]
    BY DEF Shape, TypeOK, StoreType, ConnectionType, HandlerType
  <1>1. ASSUME NEW h \in Handlers, NEW r \in Requests, Receive(h, r)
        PROVE  Owned'
    <2>1. FirstStep(r.op) \in {"begin", "exec", "read"}
      BY RequestFields DEF FirstStep
    <2> QED
      BY <1>1, <1>a, <2>1 DEF Receive, store
  <1>2. ASSUME NEW h \in Handlers,
               \/ Reject(h) \/ Begin(h) \/ Acquire(h) \/ InsertConflict(h)
               \/ Read(h) \/ Quote(h) \/ QuoteFails(h)
        PROVE  Owned'
    <2>1. UNCHANGED <<version, inserting>> /\ pc[h] # "commit"
      BY <1>2 DEF Reject, Begin, Acquire, InsertConflict, Read, Quote, QuoteFails, store
    <2>2. \A g \in Handlers : g # h => pc'[g] = pc[g] /\ req'[g] = req[g]
      BY <1>2, <1>a DEF Reject, Begin, Acquire, InsertConflict, Read, Quote, QuoteFails, Return
    <2>3. pc'[h] # "commit"
      BY <1>2, <1>a DEF Reject, Begin, Acquire, InsertConflict, Read, Quote, QuoteFails, Return
    <2> QED
      BY <1>a, <2>1, <2>2, <2>3
  <1>3. ASSUME NEW h \in Handlers, Insert(h) PROVE Owned'
    <2>1. req[h].id \in Voyages
      BY <1>3, <1>a, RequestFields DEF Serving, Insert
    <2> QED
      BY <1>3, <1>a, <2>1 DEF Insert, CanInsert, Vacant, store
  <1>4. ASSUME NEW h \in Handlers, Commit(h) \/ CommitLostAck(h) PROVE Owned'
    <2>1. pc[h] = "commit" /\ req[h].id \in Voyages /\ inserting[req[h].id] = h
      BY <1>4, <1>a, RequestFields DEF Serving, Commit, CommitLostAck
    <2>2. /\ inserting' = [inserting EXCEPT ![req[h].id] = None]
          /\ version' = [version EXCEPT ![req[h].id] = 1]
          /\ pc'[h] # "commit"
          /\ \A g \in Handlers : g # h => pc'[g] = pc[g] /\ req'[g] = req[g]
      BY <1>4, <1>a DEF Commit, CommitLostAck, Return
    <2>3. ASSUME NEW g \in Handlers, pc'[g] = "commit"
          PROVE  inserting'[req'[g].id] = g
      <3>1. g # h /\ pc[g] = "commit" /\ req'[g] = req[g]
        BY <2>2, <2>3
      <3>2. req[g].id \in Voyages
        BY <1>a, <3>1, RequestFields DEF Serving
      <3> QED
        BY <1>a, <2>1, <2>2, <3>1, <3>2
    <2>4. ASSUME NEW v \in Voyages, inserting'[v] # None
          PROVE  /\ pc'[inserting'[v]] = "commit" /\ req'[inserting'[v]].id = v
                 /\ version'[v] = 0
      <3>1. v # req[h].id /\ inserting'[v] = inserting[v] /\ version'[v] = version[v]
        BY <1>a, <2>1, <2>2, <2>4
      <3>2. inserting[v] \in Handlers /\ inserting[v] # h
        BY <1>a, <2>1, <2>4, <3>1
      <3> QED
        BY <2>2, <2>4, <3>1, <3>2
    <2> QED
      BY <2>3, <2>4
  <1>5. ASSUME NEW h \in Handlers, Exec(h) PROVE Owned'
    <2>1. req[h].id \in Voyages
      BY <1>5, <1>a, RequestFields DEF Serving, Exec
    <2>2. \A v \in Voyages : version[v] = 0 => version'[v] = 0
      BY <1>5, <1>a, <2>1 DEF Exec, Lands
    <2>3. /\ UNCHANGED <<inserting, req>> /\ pc' = [pc EXCEPT ![h] = "read"]
          /\ pc[h] = "exec"
      BY <1>5 DEF Exec
    <2> QED
      BY <1>a, <2>2, <2>3
  <1>6. ASSUME NEW h \in Handlers, Fail(h) PROVE Owned'
    <2>1. /\ version' = version
          /\ inserting' = [v \in Voyages |-> IF inserting[v] = h THEN None ELSE inserting[v]]
          /\ pc'[h] # "commit"
          /\ \A g \in Handlers : g # h => pc'[g] = pc[g] /\ req'[g] = req[g]
      BY <1>6, <1>a DEF Fail, Return, store
    <2>2. \A g \in Handlers : pc[g] = "commit" => req[g].id \in Voyages
      BY <1>a, RequestFields DEF Serving
    <2> QED
      BY <1>a, <2>1, <2>2
  <1>7. CASE Restart
    BY <1>7, <1>a DEF Restart
  <1>8. CASE UNCHANGED vars
    BY <1>8, <1>a DEF vars, store
  <1> QED
    BY <1>1, <1>2, <1>3, <1>4, <1>5, <1>6, <1>7, <1>8 DEF Next, Step

\* A create that reads does so because of a row, and rows stay.
LEMMA ConflictStep ==
  ASSUME Shape, Owned, ConflictMeansRow, [Next]_vars
  PROVE  ConflictMeansRow'
  <1> SUFFICES ASSUME NEW h \in Handlers, pc'[h] = "read", req'[h].op = "create"
               PROVE  version'[req'[h].id] # 0
    BY DEF ConflictMeansRow
  <1>a. /\ Serving
        /\ pc \in [Handlers -> {"idle", "begin", "insert", "commit", "exec", "read", "quote"}]
        /\ req \in [Handlers -> Requests \cup {NoRequest}]
    BY DEF Shape, TypeOK, ConnectionType, HandlerType
  <1>b. \A v \in Voyages : version[v] # 0 => version'[v] # 0
    BY VersionsRise
  <1>1. CASE pc[h] = "read" /\ req'[h] = req[h]
    BY <1>1, <1>a, <1>b, RequestFields DEF ConflictMeansRow, Serving
  <1>2. ASSUME InsertConflict(h) PROVE version'[req'[h].id] # 0
    <2>1. req[h].id \in Voyages
      BY <1>2, <1>a, RequestFields DEF Serving, InsertConflict
    <2> QED
      BY <1>2, <1>b, <2>1 DEF InsertConflict, CanInsert, Vacant
  <1>3. ASSUME NEW g \in Handlers, Next,
               \/ \E r \in Requests : Receive(g, r)
               \/ Reject(g) \/ Begin(g) \/ Acquire(g) \/ Insert(g) \/ InsertConflict(g)
               \/ Commit(g) \/ Exec(g) \/ Read(g) \/ Quote(g)
               \/ CommitLostAck(g) \/ QuoteFails(g) \/ Fail(g)
        PROVE  (pc[h] = "read" /\ req'[h] = req[h]) \/ InsertConflict(h)
    <2>1. ASSUME g # h PROVE pc[h] = "read" /\ req'[h] = req[h]
      BY <1>3, <1>a, <2>1
      DEF Receive, Reject, Begin, Acquire, Insert, InsertConflict, Commit, Exec, Read,
          Quote, CommitLostAck, QuoteFails, Fail, Return, Goto
    <2>2. ASSUME g = h, NEW r \in Requests, Receive(h, r) PROVE FALSE
      <3>1. req'[h] = r /\ pc'[h] = FirstStep(r.op)
        BY <1>a, <2>2 DEF Receive, Goto
      <3> QED
        BY <3>1 DEF FirstStep
    <2>3. ASSUME g = h, Exec(h) PROVE FALSE
      BY <1>a, <2>3 DEF Exec, Serving
    <2>4. ASSUME Begin(h) \/ Insert(h) \/ Commit(h) \/ Read(h) \/ Quote(h)
                    \/ CommitLostAck(h) \/ QuoteFails(h) \/ Fail(h)
          PROVE  FALSE
      BY <1>a, <2>4
      DEF Begin, Insert, Commit, Read, Quote, CommitLostAck, QuoteFails, Fail, Return, Goto
    <2>5. ASSUME Reject(h) \/ Acquire(h) PROVE pc[h] = "read" /\ req'[h] = req[h]
      BY <2>5 DEF Reject, Acquire
    <2> QED
      BY <1>3, <2>1, <2>2, <2>3, <2>4, <2>5
  <1>4. ~Restart
    BY <1>a DEF Restart
  <1>5. CASE UNCHANGED vars
    BY <1>1, <1>5 DEF vars
  <1> QED
    BY <1>1, <1>2, <1>3, <1>4, <1>5 DEF Next, Step

\* Where v is announced in a sequence of outbox rows.
Rows(s, v) == {i \in 1..Len(s) : s[i] = v}

\* Appending a row adds one place, for its own voyage.
LEMMA AppendRow ==
  ASSUME NEW s \in Seq(Voyages), NEW u \in Voyages, NEW v \in Voyages
  PROVE  Cardinality(Rows(Append(s, u), v))
           = IF u = v THEN Cardinality(Rows(s, v)) + 1 ELSE Cardinality(Rows(s, v))
  <1> DEFINE t == Append(s, u)
  <1>1. /\ Len(s) \in Nat /\ Len(t) = Len(s) + 1 /\ t[Len(s) + 1] = u
        /\ \A i \in 1..Len(s) : t[i] = s[i]
    OBVIOUS
  <1> HIDE DEF t
  <1>2. Rows(t, v) = IF u = v THEN Rows(s, v) \cup {Len(s) + 1} ELSE Rows(s, v)
    BY <1>1 DEF Rows
  <1>3. IsFiniteSet(Rows(s, v)) /\ Len(s) + 1 \notin Rows(s, v)
    <2>1. IsFiniteSet(1..Len(s))
      BY <1>1, FS_Interval
    <2> QED
      BY <1>1, <2>1, FS_Subset DEF Rows
  <1>4. Cardinality(Rows(s, v) \cup {Len(s) + 1}) = Cardinality(Rows(s, v)) + 1
    BY <1>3, FS_AddElement
  <1> QED
    BY <1>2, <1>4 DEF t

\* Every step keeps one outbox row per voyage: the transaction that announces a
\* voyage is the one that creates it.
LEMMA OneEventStep ==
  ASSUME Shape, Owned, OneEventPerVoyage, [Next]_vars
  PROVE  OneEventPerVoyage'
  <1> SUFFICES ASSUME NEW v \in Voyages
               PROVE  Cardinality(Rows(outbox', v)) = IF version'[v] = 0 THEN 0 ELSE 1
    BY DEF OneEventPerVoyage, Rows
  <1>a. /\ Cardinality(Rows(outbox, v)) = IF version[v] = 0 THEN 0 ELSE 1
        /\ version \in [Voyages -> 0..MaxVersion] /\ outbox \in Seq(Voyages)
    BY DEF OneEventPerVoyage, Rows, Shape, TypeOK, StoreType
  <1>1. CASE UNCHANGED store
    BY <1>1, <1>a DEF store
  <1>2. ASSUME NEW h \in Handlers, Commits(h)
        PROVE  Cardinality(Rows(outbox', v)) = IF version'[v] = 0 THEN 0 ELSE 1
    <2>1. req[h].id \in Voyages /\ inserting[req[h].id] # None
      BY <1>2, Changer, StoreAssumption DEF Commits, Owned
    <2>2. version[req[h].id] = 0
      BY <2>1 DEF Owned
    <2>3. Cardinality(Rows(outbox', v))
            = IF req[h].id = v THEN Cardinality(Rows(outbox, v)) + 1
                               ELSE Cardinality(Rows(outbox, v))
      BY <1>2, <1>a, <2>1, AppendRow DEF Commits
    <2>4. version'[v] = IF req[h].id = v THEN 1 ELSE version[v]
      BY <1>2, <1>a, <2>1 DEF Commits
    <2> QED
      BY <1>a, <2>2, <2>3, <2>4
  <1>3. ASSUME NEW h \in Handlers, Overwrites(h)
        PROVE  Cardinality(Rows(outbox', v)) = IF version'[v] = 0 THEN 0 ELSE 1
    BY <1>3, <1>a, Changer DEF Overwrites, Lands
  <1> QED
    BY <1>1, <1>2, <1>3, TableStep

\* Every step keeps the row a request found, and the UPDATE leaves the version
\* asked for or finds a higher one.
LEMMA LandedStep ==
  ASSUME Shape, Owned, Landed, [Next]_vars
  PROVE  Landed'
  <1> SUFFICES ASSUME NEW h \in Handlers, pc'[h] # "idle", existed'[h]
               PROVE  /\ version'[req'[h].id] # 0
                      /\ pc'[h] = "read" /\ req'[h].op = "update" =>
                            version'[req'[h].id] >= req'[h].version
    BY DEF Landed
  <1>a. /\ Serving
        /\ pc \in [Handlers -> {"idle", "begin", "insert", "commit", "exec", "read", "quote"}]
        /\ req \in [Handlers -> Requests \cup {NoRequest}]
        /\ version \in [Voyages -> 0..MaxVersion]
    BY DEF Shape, TypeOK, StoreType, ConnectionType, HandlerType
  <1>b. \A v \in Voyages : /\ version[v] \in Nat /\ version'[v] \in Nat
                           /\ version'[v] >= version[v]
    BY VersionsRise
  <1>c. existed \in [Handlers -> BOOLEAN]
    BY DEF Shape, TypeOK
  <1>1. ASSUME req'[h] = req[h], existed[h], pc[h] # "idle",
               pc'[h] = "read" /\ req[h].op = "update" =>
                  pc[h] = "read" \/ version'[req[h].id] >= req[h].version
        PROVE  /\ version'[req'[h].id] # 0
               /\ pc'[h] = "read" /\ req'[h].op = "update" =>
                     version'[req'[h].id] >= req'[h].version
    <2>1. req[h] \in Requests /\ req[h].id \in Voyages
      BY <1>1, <1>a, RequestFields DEF Serving
    <2>2. req[h].op = "update" => req[h].version \in Nat
      BY <2>1, RequestFields, StoreAssumption
    <2> QED
      BY <1>1, <1>b, <2>1, <2>2 DEF Landed
  <1>2. ASSUME NEW r \in Requests, Receive(h, r)
        PROVE  /\ version'[req'[h].id] # 0
               /\ pc'[h] = "read" /\ req'[h].op = "update" =>
                     version'[req'[h].id] >= req'[h].version
    <2>1. req'[h] = r /\ pc'[h] = FirstStep(r.op) /\ version' = version
      BY <1>2, <1>a DEF Receive, Goto, store
    <2>2. existed' = [existed EXCEPT ![h] = version[r.id] # 0]
      BY <1>2 DEF Receive
    <2>3. version[r.id] # 0
      BY <1>c, <2>2, Zenon
    <2>4. r.op = "update" => FirstStep(r.op) # "read"
      BY DEF FirstStep
    <2> QED
      BY <2>1, <2>3, <2>4
  <1>3. ASSUME Exec(h)
        PROVE  version'[req[h].id] >= req[h].version \/ version[req[h].id] = 0
    <2>1. req[h].id \in Voyages /\ req[h].version \in Nat
      BY <1>3, Changer, StoreAssumption DEF Exec
    <2> QED
      BY <1>3, <1>a, <1>b, <2>1 DEF Exec, Lands
  <1>4. ASSUME \/ Reject(h) \/ Begin(h) \/ Acquire(h) \/ Insert(h) \/ InsertConflict(h)
               \/ Commit(h) \/ Exec(h) \/ Read(h)
        PROVE  existed[h] /\ req'[h] = req[h] /\ pc[h] # "idle"
    <2>1. existed' = existed /\ req' = req
      BY <1>4, <1>a
      DEF Reject, Begin, Acquire, Insert, InsertConflict, Commit, Exec, Read, Return, Goto
    <2>2. pc[h] # "idle"
      BY <1>4 DEF Reject, Begin, Acquire, Insert, InsertConflict, Commit, Exec, Read
    <2> QED
      BY <2>1, <2>2
  <1>5. ASSUME \/ Reject(h) \/ Begin(h) \/ Acquire(h) \/ Insert(h) \/ InsertConflict(h)
               \/ Commit(h) \/ Read(h)
        PROVE  pc'[h] = "read" /\ req[h].op = "update" => pc[h] = "read"
    BY <1>5, <1>a
    DEF Reject, Begin, Acquire, Insert, InsertConflict, Commit, Read, Return, Goto, Serving
  <1>6. ~Quote(h) /\ ~CommitLostAck(h) /\ ~QuoteFails(h) /\ ~Fail(h) /\ ~Restart
    BY <1>a DEF Quote, CommitLostAck, QuoteFails, Fail, Restart, Return, Goto
  <1>7. ASSUME NEW g \in Handlers, g # h,
               \/ \E r \in Requests : Receive(g, r)
               \/ Reject(g) \/ Begin(g) \/ Acquire(g) \/ Step(g)
               \/ CommitLostAck(g) \/ QuoteFails(g) \/ Fail(g)
        PROVE  existed[h] /\ req'[h] = req[h] /\ pc'[h] = pc[h]
    <2>1. req'[h] = req[h] /\ pc'[h] = pc[h]
      BY <1>7, <1>a
      DEF Receive, Reject, Begin, Acquire, Step, Insert, InsertConflict, Commit, Exec,
          Read, Quote, CommitLostAck, QuoteFails, Fail, Return, Goto
    <2>2. \/ existed' = existed
          \/ existed' = [existed EXCEPT ![g] = FALSE]
          \/ \E r \in Requests : existed' = [existed EXCEPT ![g] = version[r.id] # 0]
      BY <1>7
      DEF Receive, Reject, Begin, Acquire, Step, Insert, InsertConflict, Commit, Exec,
          Read, Quote, CommitLostAck, QuoteFails, Fail, Return
    <2>3. existed[h]
      BY <1>7, <1>c, <2>2, Zenon
    <2> QED
      BY <2>1, <2>3
  <1>8. CASE UNCHANGED vars
    <2>1. existed[h] /\ req' = req /\ pc' = pc
      BY <1>8 DEF vars
    <2> QED
      BY <1>1, <2>1
  <1>9. CASE Exec(h)
    <2>1. version[req[h].id] # 0
      BY <1>4, <1>9 DEF Landed
    <2> QED
      BY <1>1, <1>3, <1>4, <1>9, <2>1
  <1> QED
    BY <1>1, <1>2, <1>4, <1>5, <1>6, <1>7, <1>8, <1>9 DEF Next, Step

\* An empty database satisfies the invariant.
LEMMA InitStoreInv == Init => StoreInv
  <1> SUFFICES ASSUME Init PROVE StoreInv
    OBVIOUS
  <1>1. Shape
    BY InitShape
  <1>2. Owned /\ ConflictMeansRow
    BY DEF Init, Owned, ConflictMeansRow
  <1>3. OneEventPerVoyage
    <2>1. \A v \in Voyages : {i \in 1..Len(outbox) : outbox[i] = v} = {} /\ version[v] = 0
      BY DEF Init
    <2> QED
      BY <2>1, FS_EmptySet DEF OneEventPerVoyage
  <1>4. Landed
    BY DEF Init, Landed
  <1> QED
    BY <1>1, <1>2, <1>3, <1>4 DEF StoreInv

\* Every step keeps the invariant.
LEMMA StoreInvStep == StoreInv /\ [Next]_vars => StoreInv'
  BY ShapeStep, OwnedStep, ConflictStep, OneEventStep, LandedStep DEF StoreInv

\* The transactional outbox (Create): whatever creates race, fail or lose their ack,
\* a voyage has a row exactly when one outbox row announces it.
THEOREM OneEvent == SafeSpec => []OneEventPerVoyage
  <1>1. StoreInv => OneEventPerVoyage
    BY DEF StoreInv
  <1> QED
    BY <1>1, InitStoreInv, StoreInvStep, PTL DEF SafeSpec

\* Idempotent create: the read that follows ON CONFLICT DO NOTHING finds the row, for
\* any number of concurrent creates of the voyage.
THEOREM ConflictRow == SafeSpec => []ConflictMeansRow
  <1>1. StoreInv => ConflictMeansRow
    BY DEF StoreInv
  <1> QED
    BY <1>1, InitStoreInv, StoreInvStep, PTL DEF SafeSpec

\* An OK answer to an update of a voyage that existed when the request came in carries
\* the version asked for or a higher one, whatever ran between the UPDATE and the read.
THEOREM UpdateAnswered == SafeSpec => UpdateWins
  <1>1. ASSUME StoreInv, [Next]_vars, NEW h \in Handlers, AcksUpdate(h), existed[h]
        PROVE  reply'[h].version >= req[h].version
    <2>a. /\ Serving
          /\ pc \in [Handlers -> {"idle", "begin", "insert", "commit", "exec", "read", "quote"}]
          /\ reply \in [Handlers -> Replies]
      BY <1>1 DEF StoreInv, Shape, TypeOK, ConnectionType, HandlerType
    <2>b. req[h].op = "update" /\ pc[h] # "idle" /\ pc'[h] = "idle" /\ reply'[h].code = "OK"
      BY <1>1 DEF AcksUpdate
    <2>1. ~UNCHANGED vars /\ ~Restart
      BY <2>b DEF vars, Restart, Status
    <2>2. ASSUME NEW g \in Handlers, g # h,
                 \/ \E r \in Requests : Receive(g, r)
                 \/ Reject(g) \/ Begin(g) \/ Acquire(g) \/ Step(g)
                 \/ CommitLostAck(g) \/ QuoteFails(g) \/ Fail(g)
          PROVE  pc'[h] = pc[h]
      BY <2>2, <2>a
      DEF Receive, Reject, Begin, Acquire, Step, Insert, InsertConflict, Commit, Exec,
          Read, Quote, CommitLostAck, QuoteFails, Fail, Return, Goto
    <2>3. /\ \A r \in Requests : ~Receive(h, r)
          /\ ~Reject(h) /\ ~Begin(h) /\ ~Acquire(h) /\ ~Insert(h) /\ ~InsertConflict(h)
          /\ ~Commit(h) /\ ~Exec(h) /\ ~Quote(h)
      BY <2>a, <2>b
      DEF Receive, Reject, Begin, Acquire, Insert, InsertConflict, Commit, Exec, Quote,
          Goto, Serving
    <2>4. ~CommitLostAck(h) /\ ~QuoteFails(h) /\ ~Fail(h)
      BY <2>a, <2>b DEF CommitLostAck, QuoteFails, Fail, Return, Status
    <2>5. Read(h)
      BY <1>1, <2>b, <2>1, <2>2, <2>3, <2>4 DEF Next, Step
    <2>6. pc[h] = "read" /\ reply'[h] = Voyage(version[req[h].id])
      BY <2>5, <2>a, <2>b DEF Read, Return, Status
    <2>7. version[req[h].id] >= req[h].version
      BY <1>1, <2>b, <2>6 DEF StoreInv, Landed
    <2> QED
      BY <2>6, <2>7 DEF Voyage
  <1>2. StoreInv /\ [Next]_vars =>
          [\A h \in Handlers :
              AcksUpdate(h) /\ existed[h] => reply'[h].version >= req[h].version]_vars
    BY <1>1
  <1> QED
    BY <1>2, InitStoreInv, StoreInvStep, PTL DEF SafeSpec, UpdateWins

\* The table implements VoyageRegister: a voyage is created once, at version 1, and
\* then changes only by a strict increase of its version.
THEOREM StoreIsRegister == SafeSpec => IsRegister
  <1>1. Init => Register!Init
    BY DEF Init, Register!Init
  <1>2. StoreInv /\ [Next]_vars => [Register!Next]_(Register!vars)
    BY RegisterStep DEF StoreInv
  <1> QED
    BY <1>1, <1>2, InitStoreInv, StoreInvStep, PTL DEF SafeSpec, IsRegister, Register!Spec
=============================================================================
