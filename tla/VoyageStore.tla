----------------------------- MODULE VoyageStore -----------------------------
(***************************************************************************)
(* The voyage service's request path: the gRPC handlers (grpcserver) over  *)
(* the Postgres repository, with concurrent requests, the transactions     *)
(* they run and the bounded connection pool they share.  Postgres runs at  *)
(* READ COMMITTED: an uncommitted insert is invisible, and a second insert *)
(* of the same key waits for the first to end.                             *)
(***************************************************************************)
EXTENDS Integers, Sequences, FiniteSets

CONSTANTS
    Handlers,    \* request goroutines
    Voyages,     \* client_request_ids
    Contents,    \* what a request may carry for a voyage, already validated
    MaxVersion,  \* bound on the versions an update carries
    PoolSizes,   \* connections a pgx pool may have (pgx takes it from the host)
    MaxFaults,   \* bound on failed calls and restarts
    None         \* no holder, no content

ASSUME StoreAssumption ==
    /\ PoolSizes \subseteq Nat \ {0} /\ MaxVersion \in Nat \ {0} /\ MaxFaults \in Nat
    /\ None \notin Handlers \cup Contents

VARIABLES
    version, content, \* committed rows of voyages; version 0: no row
    outbox,           \* committed outbox rows, in commit order
    pool,             \* connections of this service's pool
    inserting,        \* per voyage: the handler with an uncommitted insert of it
    tx,               \* handlers whose transaction holds a pool connection
    conns,            \* handlers whose single statement holds one
    pc, req,          \* per handler: where it is, and its request
    got,              \* per handler: the version of the row it will return
    reply,            \* per handler: its last reply
    existed,          \* per handler: its voyage existed when the request came in
    faults            \* how many calls have failed and restarts happened

store == <<version, content, outbox>>
vars == <<store, pool, inserting, tx, conns, pc, req, got, reply, existed, faults>>

Creates == [op : {"create"}, id : Voyages, version : {1}, content : Contents]
Updates == [op : {"update"}, id : Voyages, version : 1..MaxVersion, content : Contents]
Gets == [op : {"get"}, id : Voyages, version : {0}, content : {None}]
Requests == Creates \cup Updates \cup Gets
NoRequest == [op |-> "none", id |-> None, version |-> 0, content |-> None]

Codes == {"none", "OK", "InvalidArgument", "NotFound", "Internal"}
Replies == [code : Codes, version : 0..MaxVersion]
Status(code) == [code |-> code, version |-> 0]
Voyage(n) == [code |-> "OK", version |-> n]

Init ==
    /\ version = [v \in Voyages |-> 0]
    /\ content = [v \in Voyages |-> None]
    /\ outbox = <<>>
    /\ pool \in PoolSizes
    /\ inserting = [v \in Voyages |-> None]
    /\ tx = {} /\ conns = {}
    /\ pc = [h \in Handlers |-> "idle"]
    /\ req = [h \in Handlers |-> NoRequest]
    /\ got = [h \in Handlers |-> 0]
    /\ reply = [h \in Handlers |-> Status("none")]
    /\ existed = [h \in Handlers |-> FALSE]
    /\ faults = 0

Fault == faults < MaxFaults /\ faults' = faults + 1
Goto(h, label) == pc' = [pc EXCEPT ![h] = label]
Free == Cardinality(tx) + Cardinality(conns) < pool

\* Every return path gives back what the handler holds (the deferred Rollback).
Return(h, r) ==
    /\ Goto(h, "idle")
    /\ tx' = tx \ {h} /\ conns' = conns \ {h}
    /\ reply' = [reply EXCEPT ![h] = r]
    /\ got' = [got EXCEPT ![h] = 0]
    /\ req' = [req EXCEPT ![h] = NoRequest]
    /\ existed' = [existed EXCEPT ![h] = FALSE]

FirstStep(op) == CASE op = "create" -> "begin"
                   [] op = "update" -> "exec"
                   [] op = "get"    -> "read"

\* A valid request comes in and goes to the repository.
Receive(h, r) ==
    /\ pc[h] = "idle"
    /\ req' = [req EXCEPT ![h] = r]
    /\ existed' = [existed EXCEPT ![h] = version[r.id] # 0]
    /\ Goto(h, FirstStep(r.op))
    /\ reply' = [reply EXCEPT ![h] = Status("none")]
    /\ UNCHANGED <<store, inserting, tx, conns, got, faults>>

\* Validate fails: no id, no port or a negative distance.
Reject(h) ==
    /\ pc[h] = "idle"
    /\ reply' = [reply EXCEPT ![h] = Status("InvalidArgument")]
    /\ UNCHANGED <<store, inserting, tx, conns, pc, req, got, existed, faults>>

\* pool.Begin acquires the transaction's connection.
Begin(h) ==
    /\ pc[h] = "begin"
    /\ Free
    /\ tx' = tx \cup {h}
    /\ Goto(h, "insert")
    /\ UNCHANGED <<store, inserting, conns, req, got, reply, existed, faults>>

\* pool.Exec and pool.QueryRow acquire a connection for one statement.
Acquire(h) ==
    /\ pc[h] \in {"exec", "read"}
    /\ h \notin conns
    /\ Free
    /\ conns' = conns \cup {h}
    /\ UNCHANGED <<store, inserting, tx, pc, req, got, reply, existed, faults>>
-----------------------------------------------------------------------------
(* Repository.Create.                                                      *)

\* Mutant of CanInsert: a conflict with an uncommitted insert does not wait.
CanInsertNoWait(v) == TRUE

\* The unique index makes a second insert wait for an uncommitted first one.
CanInsert(v) == inserting[v] = None

\* Mutant of RollbackEmpty: the connection is kept across the follow-up read.
RollbackKeepsConn(h) == UNCHANGED tx

\* The empty transaction of a duplicate create gives back its connection.
RollbackEmpty(h) == tx' = tx \ {h}

\* The unique index has no entry for v, committed or not.
Vacant(v) == version[v] = 0 /\ inserting[v] = None

Insert(h) ==
    LET v == req[h].id IN
    /\ pc[h] = "insert"
    /\ CanInsert(v)
    /\ Vacant(v)
    /\ inserting' = [inserting EXCEPT ![v] = h]
    /\ Goto(h, "commit")
    /\ UNCHANGED <<store, tx, conns, req, got, reply, existed, faults>>

\* Mutant of InsertConflict: the insert is tried again until it takes effect.
InsertConflictRetries(h) ==
    /\ pc[h] = "insert"
    /\ CanInsert(req[h].id)
    /\ ~Vacant(req[h].id)
    /\ UNCHANGED vars

\* ON CONFLICT DO NOTHING returned no row: roll back, then read the voyage.
InsertConflict(h) ==
    LET v == req[h].id IN
    /\ pc[h] = "insert"
    /\ CanInsert(v)
    /\ ~Vacant(v)
    /\ RollbackEmpty(h)
    /\ Goto(h, "read")
    /\ UNCHANGED <<store, inserting, conns, req, got, reply, existed, faults>>

\* Mutant of WriteOutbox: the event is not part of the transaction.
WriteOutboxNever(h) == UNCHANGED outbox

\* The voyage.created row the transaction carries.
WriteOutbox(h) == outbox' = Append(outbox, req[h].id)

Commit(h) ==
    LET v == req[h].id IN
    /\ pc[h] = "commit"
    /\ version' = [version EXCEPT ![v] = 1]
    /\ content' = [content EXCEPT ![v] = req[h].content]
    /\ WriteOutbox(h)
    /\ inserting' = [inserting EXCEPT ![v] = None]
    /\ tx' = tx \ {h}
    /\ got' = [got EXCEPT ![h] = 1]
    /\ Goto(h, "quote")
    /\ UNCHANGED <<conns, req, reply, existed, faults>>

\* COMMIT fails although the server carried it out.
CommitLostAck(h) ==
    LET v == req[h].id IN
    /\ Fault
    /\ pc[h] = "commit"
    /\ version' = [version EXCEPT ![v] = 1]
    /\ content' = [content EXCEPT ![v] = req[h].content]
    /\ WriteOutbox(h)
    /\ inserting' = [inserting EXCEPT ![v] = None]
    /\ Return(h, Status("Internal"))
-----------------------------------------------------------------------------
(* Repository.Update and Repository.Get.                                   *)

\* Mutant of Lands: an equal version also overwrites.
LandsOnTie(h) == version[req[h].id] # 0 /\ version[req[h].id] <= req[h].version

\* Mutant of Lands: the version must be higher by more than one.
LandsOffByOne(h) == version[req[h].id] # 0 /\ version[req[h].id] + 1 < req[h].version

\* WHERE client_request_id = $1 AND version < $6.
Lands(h) == version[req[h].id] # 0 /\ version[req[h].id] < req[h].version

\* The UPDATE, one statement of its own; the read that follows is another.
Exec(h) ==
    /\ pc[h] = "exec" /\ h \in conns
    /\ IF Lands(h)
       THEN /\ version' = [version EXCEPT ![req[h].id] = req[h].version]
            /\ content' = [content EXCEPT ![req[h].id] = req[h].content]
       ELSE UNCHANGED <<version, content>>
    /\ conns' = conns \ {h}
    /\ Goto(h, "read")
    /\ UNCHANGED <<outbox, inserting, tx, req, got, reply, existed, faults>>

\* Get, as every request ends (or, for a create, goes on to the quote).
Read(h) ==
    LET v == req[h].id IN
    /\ pc[h] = "read" /\ h \in conns
    /\ IF version[v] = 0
       THEN Return(h, Status(IF req[h].op = "create" THEN "Internal" ELSE "NotFound"))
       ELSE IF req[h].op = "create"
       THEN /\ got' = [got EXCEPT ![h] = version[v]]
            /\ Goto(h, "quote")
            /\ conns' = conns \ {h}
            /\ UNCHANGED <<tx, reply, req, existed>>
       ELSE Return(h, Voyage(version[v]))
    /\ UNCHANGED <<store, inserting, faults>>

\* The synchronous quote is best effort: with a price, or with estimate_pending
\* when the estimator is unavailable, the voyage is returned ...
Quote(h) ==
    /\ pc[h] = "quote"
    /\ Return(h, Voyage(got[h]))
    /\ UNCHANGED <<store, inserting, faults>>

\* ... but any other estimator error fails the request, after the commit.
QuoteFails(h) ==
    /\ Fault
    /\ pc[h] = "quote"
    /\ Return(h, Status("Internal"))
    /\ UNCHANGED <<store, inserting>>

\* Any database call fails (or encoding the event does): the deferred rollback
\* undoes the insert and gives the connection back.
Fail(h) ==
    /\ Fault
    /\ pc[h] \in {"begin", "insert", "commit", "exec", "read"}
    /\ inserting' = [v \in Voyages |-> IF inserting[v] = h THEN None ELSE inserting[v]]
    /\ Return(h, Status("Internal"))
    /\ UNCHANGED store

\* The service is killed and restarted: every request in progress is lost and
\* Postgres rolls back what was not committed.
Restart ==
    /\ Fault
    /\ inserting' = [v \in Voyages |-> None]
    /\ tx' = {} /\ conns' = {}
    /\ pc' = [h \in Handlers |-> "idle"]
    /\ reply' = [h \in Handlers |-> Status("none")]
    /\ got' = [h \in Handlers |-> 0]
    /\ req' = [h \in Handlers |-> NoRequest]
    /\ existed' = [h \in Handlers |-> FALSE]
    /\ UNCHANGED store

Step(h) ==
    Insert(h) \/ InsertConflict(h) \/ Commit(h) \/ Exec(h) \/ Read(h) \/ Quote(h)

Next ==
    /\ \/ \E h \in Handlers :
            \/ \E r \in Requests : Receive(h, r)
            \/ Reject(h)
            \/ Begin(h) \/ Acquire(h)
            \/ Step(h)
            \/ CommitLostAck(h) \/ QuoteFails(h) \/ Fail(h)
       \/ Restart
    /\ UNCHANGED pool

SafeSpec == Init /\ [][Next]_vars

\* A handler that can take a step takes it, and the pool hands out connections
\* in the order they were asked for (puddle queues its waiters), so that nobody
\* waits for ever while connections keep coming free.
Spec ==
    /\ SafeSpec
    /\ \A h \in Handlers :
          /\ WF_vars(Step(h) /\ UNCHANGED pool)
          /\ SF_vars((Begin(h) \/ Acquire(h)) /\ UNCHANGED pool)
-----------------------------------------------------------------------------
(* Properties.                                                             *)

StoreType ==
    /\ version \in [Voyages -> 0..MaxVersion]
    /\ content \in [Voyages -> Contents \cup {None}]
    /\ outbox \in Seq(Voyages)
    /\ pool \in PoolSizes
    /\ inserting \in [Voyages -> Handlers \cup {None}]
    /\ faults \in 0..MaxFaults

ConnectionType ==
    /\ pc \in [Handlers -> {"idle", "begin", "insert", "commit", "exec", "read", "quote"}]
    /\ tx \subseteq {h \in Handlers : pc[h] \in {"insert", "commit"}}
    /\ conns \subseteq {h \in Handlers : pc[h] \in {"exec", "read"}}

HandlerType ==
    /\ req \in [Handlers -> Requests \cup {NoRequest}]
    /\ got \in [Handlers -> 0..MaxVersion]
    /\ reply \in [Handlers -> Replies]

\* Every variable has its type, and a connection is held only between acquiring
\* it and the end of the statement or transaction it was acquired for.
TypeOK == StoreType /\ ConnectionType /\ HandlerType /\ existed \in [Handlers -> BOOLEAN]

\* The transactional outbox (Create): a voyage exists exactly when one outbox row
\* announces it, whatever concurrent creates, failures and lost acks there were.
OneEventPerVoyage ==
    \A v \in Voyages :
        Cardinality({i \in 1..Len(outbox) : outbox[i] = v})
            = IF version[v] = 0 THEN 0 ELSE 1

\* Idempotent create: the read that follows a conflict always finds the voyage.
ConflictMeansRow ==
    \A h \in Handlers :
        pc[h] = "read" /\ req[h].op = "create" => version[req[h].id] # 0

\* This step answers handler h's update with OK.
AcksUpdate(h) ==
    req[h].op = "update" /\ pc[h] # "idle" /\ pc'[h] = "idle" /\ reply'[h].code = "OK"

\* An OK reply to an update of a voyage that existed when the request came in
\* returns a version at least as high as the one asked for: the write landed or a
\* higher one did.
UpdateWins ==
    [][\A h \in Handlers :
          AcksUpdate(h) /\ existed[h] => reply'[h].version >= req[h].version]_vars

\* The table, seen alone, is the register of VoyageRegister: whatever transactions
\* race, fail or lose their ack, a voyage is created once at version 1 and changes
\* only by a strict increase of its version; a tie keeps the first write.
Register == INSTANCE VoyageRegister WITH
                Voyages <- Voyages, Contents <- Contents, MaxVersion <- MaxVersion,
                None <- None, version <- version, content <- content
IsRegister == Register!Spec

\* No request waits for ever: the pool is never exhausted by handlers that hold a
\* connection while they wait for another (comment in Create).
EveryRequestEnds ==
    \A h \in Handlers : pc[h] # "idle" ~> pc[h] = "idle"
=============================================================================
