------------------------------ MODULE Lifecycle ------------------------------
(***************************************************************************)
(* The processes of a deployment: how the voyage service, the estimator,   *)
(* the gateway and the migrate command start, serve and stop, how the      *)
(* services are restarted, and what they share while they do: the database *)
(* schema and the schema registry.                                         *)
(*                                                                         *)
(* Run acquires one thing after the other and defers its release; whatever *)
(* ends it, the releases run in reverse order and the process exits.  A    *)
(* service that exits with an error is restarted ("restart: on-failure");  *)
(* the migrate command is run by hand, once.                               *)
(***************************************************************************)
EXTENDS Integers, FiniteSets, Sequences

CONSTANTS
    Processes,    \* processes of the deployments
    Deployments,  \* what may be deployed: per process of a deployment, a key of Startup
    Migrations,   \* number of migration files
    MaxIds,       \* bound on the ids the schema registry assigns to a subject
    MaxFaults     \* bound on failed steps, failed listeners and kills

\* What Run (main, for migrate) does before it serves.
Startup ==
    [voyage    |-> <<"tracing", "migrate", "pool", "serde", "producer", "consumer",
                     "conn", "listen">>,
     estimator |-> <<"tracing", "serde", "consumer", "listen">>,
     gateway   |-> <<"tracing", "conn", "listen">>,
     migrate   |-> <<"migrate">>]

Deferred == {"tracing", "pool", "producer", "consumer", "conn"}
GrpcKinds == {"voyage", "estimator"}
Subjects == {"voyage.created-value", "estimate.ready-value"}

\* What a call of a service uses, in order: CreateVoyage the database and then the
\* estimator, a GraphQL operation the voyage service.
Uses == [voyage |-> <<"pool", "conn">>, estimator |-> <<>>, gateway |-> <<"conn">>,
         migrate |-> <<>>]

ASSUME LifecycleAssumption ==
    /\ Deployments \subseteq UNION {[D -> DOMAIN Startup] : D \in SUBSET Processes}
    /\ Migrations \in Nat /\ MaxIds \in Nat \ {0} /\ MaxFaults \in Nat

VARIABLES
    kind,     \* the deployment: what each of its processes runs
    phase,    \* down, starting, serving, draining or closing
    at,       \* starting: the position in Startup
    open,     \* what has been acquired and is to be released
    told,     \* told to stop (SIGINT or SIGTERM: ctx is cancelled)
    code,     \* how Run returned: ok or error; none while it has not
    call,     \* the call in progress: position in Uses, 0 if there is none
    holding,  \* whether the call holds what it is at
    worker,   \* the background loops: none, idle, or busy with a statement
    ddl,      \* the migrations whose statements the database has run, in order
    applied,  \* the migrations goose's version table lists, in order
    seen,     \* migrating: the version read from that table, or Unread
    tx,       \* migrating: the migration of the open transaction, 0 if none
    ids,      \* schema registry: per subject, the ids it has given out
    serde,    \* per process and subject: the id its serde writes, 0 if none
    faults    \* how many faults have happened

control == <<phase, at, open, told, code>>
calls == <<call, holding>>
schema == <<ddl, applied, seen, tx>>
avro == <<ids, serde>>
vars == <<kind, control, calls, worker, schema, avro, faults>>

Deployed == DOMAIN kind

Unread == -1

Init ==
    /\ kind \in Deployments
    /\ phase = [p \in Processes |-> IF p \in DOMAIN kind THEN "starting" ELSE "down"]
    /\ at = [p \in Processes |-> 1]
    /\ open = [p \in Processes |-> {}]
    /\ told = [p \in Processes |-> FALSE]
    /\ code = [p \in Processes |-> "none"]
    /\ call = [p \in Processes |-> 0]
    /\ holding = [p \in Processes |-> FALSE]
    /\ worker = [p \in Processes |-> "none"]
    /\ ddl = <<>> /\ applied = <<>>
    /\ seen = [p \in Processes |-> Unread]
    /\ tx = [p \in Processes |-> 0]
    /\ ids = [s \in Subjects |-> {}]
    /\ serde = [p \in Processes |-> [s \in Subjects |-> 0]]
    /\ faults = 0

Fault == faults < MaxFaults /\ faults' = faults + 1

Stage(p) == Startup[kind[p]][at[p]]
Starting(p, s) == phase[p] = "starting" /\ Stage(p) = s
-----------------------------------------------------------------------------
(* Starting.                                                               *)

\* Run returns before it serves, or its server ends: the deferred calls run.
Unwind(p, c) ==
    /\ phase' = [phase EXCEPT ![p] = "closing"]
    /\ code' = [code EXCEPT ![p] = c]

\* The background loops of the two services start once all clients exist.
StartsWorkers(p) == kind[p] \in GrpcKinds /\ Startup[kind[p]][at[p] + 1] = "listen"

\* The stage at hand is done.
Advance(p) ==
    IF at[p] = Len(Startup[kind[p]])
    THEN /\ IF kind[p] = "migrate" THEN Unwind(p, "ok")
            ELSE phase' = [phase EXCEPT ![p] = "serving"] /\ UNCHANGED code
         /\ UNCHANGED <<at, worker>>
    ELSE /\ at' = [at EXCEPT ![p] = @ + 1]
         /\ worker' = IF StartsWorkers(p) THEN [worker EXCEPT ![p] = "idle"] ELSE worker
         /\ UNCHANGED <<phase, code>>

\* tracing.Init, Connect, the Kafka clients, the gRPC connection, the listener.
Acquire(p) ==
    /\ phase[p] = "starting" /\ Stage(p) \in Deferred \cup {"listen"}
    /\ Stage(p) = "pool" => ~told[p]
    /\ open' = [open EXCEPT ![p] = @ \cup ({Stage(p)} \cap Deferred)]
    /\ Advance(p)
    /\ UNCHANGED <<kind, told, calls, schema, avro, faults>>

\* A stage fails: the database, the registry or the port is not there.
StartFails(p) ==
    /\ Fault
    /\ phase[p] = "starting"
    /\ Unwind(p, "error")
    /\ tx' = [tx EXCEPT ![p] = 0]
    /\ UNCHANGED <<kind, at, open, told, calls, worker, ddl, applied, seen, avro>>

\* Migrate, Connect and New run under ctx: told to stop, they fail.
Interrupted(p) ==
    /\ phase[p] = "starting" /\ Stage(p) \in {"migrate", "pool", "serde"}
    /\ told[p]
    /\ Unwind(p, "error")
    /\ tx' = [tx EXCEPT ![p] = 0]
    /\ UNCHANGED <<kind, at, open, told, calls, worker, ddl, applied, seen, avro, faults>>
-----------------------------------------------------------------------------
(* postgres.Migrate: goose applies the files one by one, each in one       *)
(* transaction with its row of the version table.  It takes no lock:       *)
(* processes that migrate at the same time meet in the DDL statements.     *)

\* Mutant of MigrateRead: it goes on one version too far.
MigrateReadPast(p) ==
    /\ Starting(p, "migrate") /\ seen[p] = Unread /\ ~told[p]
    /\ IF Len(applied) > Migrations
       THEN Advance(p) /\ UNCHANGED seen
       ELSE seen' = [seen EXCEPT ![p] = Len(applied)] /\ UNCHANGED <<phase, at, code, worker>>
    /\ UNCHANGED <<kind, open, told, calls, ddl, applied, tx, avro, faults>>

\* The version is read; with no file above it the database is up to date.
MigrateRead(p) ==
    /\ Starting(p, "migrate") /\ seen[p] = Unread /\ ~told[p]
    /\ IF Len(applied) = Migrations
       THEN Advance(p) /\ UNCHANGED seen
       ELSE seen' = [seen EXCEPT ![p] = Len(applied)] /\ UNCHANGED <<phase, at, code, worker>>
    /\ UNCHANGED <<kind, open, told, calls, ddl, applied, tx, avro, faults>>

\* The statements of the next file run in a transaction, after any other open
\* transaction that runs them.
MigrateUp(p) ==
    LET next == seen[p] + 1 IN
    /\ Starting(p, "migrate") /\ seen[p] # Unread /\ tx[p] = 0 /\ ~told[p]
    /\ \A q \in Processes : tx[q] # next
    /\ next > Len(ddl)
    /\ tx' = [tx EXCEPT ![p] = next]
    /\ UNCHANGED <<kind, control, calls, worker, ddl, applied, seen, avro, faults>>

\* Mutant of MigrateConflict: what exists already counts as migrated.
MigrateConflictIgnored(p) ==
    LET next == seen[p] + 1 IN
    /\ Starting(p, "migrate") /\ seen[p] # Unread /\ tx[p] = 0 /\ ~told[p]
    /\ \A q \in Processes : tx[q] # next
    /\ next <= Len(ddl)
    /\ seen' = [seen EXCEPT ![p] = Unread]
    /\ Advance(p)
    /\ UNCHANGED <<kind, open, told, calls, ddl, applied, tx, avro, faults>>

\* The table, column or index exists: another process was faster.
MigrateConflict(p) ==
    LET next == seen[p] + 1 IN
    /\ Starting(p, "migrate") /\ seen[p] # Unread /\ tx[p] = 0 /\ ~told[p]
    /\ \A q \in Processes : tx[q] # next
    /\ next <= Len(ddl)
    /\ Unwind(p, "error")
    /\ UNCHANGED <<kind, at, open, told, calls, worker, schema, avro, faults>>

MigrateCommit(p) ==
    /\ tx[p] # 0 /\ phase[p] = "starting"
    /\ ddl' = Append(ddl, tx[p])
    /\ applied' = Append(applied, tx[p])
    /\ tx' = [tx EXCEPT ![p] = 0]
    /\ seen' = [seen EXCEPT ![p] = Unread]
    /\ UNCHANGED <<kind, control, calls, worker, avro, faults>>
-----------------------------------------------------------------------------
(* avroserde: registration, framing, decoding.                             *)

\* The registry answers with an id of the subject, or a new one if it has none or
\* two services register at the same time.
Assigns(p, s, id) ==
    \/ id \in ids[s]
    \/ /\ id = 1 + Cardinality(ids[s])
       /\ ids[s] = {} \/ \E q \in Deployed \ {p} : Starting(q, "serde")

\* New registers the subjects in the order of eventreg.All.
Register(p, s, id) ==
    /\ Starting(p, "serde") /\ serde[p][s] = 0 /\ ~told[p]
    /\ s = "estimate.ready-value" => serde[p]["voyage.created-value"] # 0
    /\ Assigns(p, s, id)
    /\ ids' = [ids EXCEPT ![s] = @ \cup {id}]
    /\ serde' = [serde EXCEPT ![p][s] = id]
    /\ IF s = "estimate.ready-value" THEN Advance(p) ELSE UNCHANGED <<phase, at, code, worker>>
    /\ UNCHANGED <<kind, open, told, calls, schema, faults>>

\* The frame of an event: the id its writer's serde has, and the encoded body.
Encode(id, s) == [id |-> id, body |-> s]

\* Mutant of Decode: the schema is looked up by the id in the frame.
DecodeById(p, s, frame) == serde[p][s] = frame.id /\ frame.body = s

\* Decode takes the schema of the type the consumer expects and skips the id.
Decode(p, s, frame) == serde[p][s] # 0 /\ frame.body = s
-----------------------------------------------------------------------------
(* Serving.                                                                *)

\* The resource released next: the last one acquired.
Rank(p, r) == CHOOSE i \in 1..Len(Startup[kind[p]]) : Startup[kind[p]][i] = r
Innermost(p, r) == r \in open[p] /\ \A t \in open[p] : Rank(p, t) <= Rank(p, r)

\* A pool that is being closed gives out no connection.
Usable(p, r) == r \in open[p] /\ ~(phase[p] = "closing" /\ r = "pool" /\ Innermost(p, r))

\* A call arrives: a gRPC server that drains and an HTTP server that shuts down
\* accept none.
CallBegin(p) ==
    /\ phase[p] = "serving" /\ call[p] = 0
    /\ call' = [call EXCEPT ![p] = 1]
    /\ UNCHANGED <<kind, control, holding, worker, schema, avro, faults>>

CallUses(p) == call[p] # 0 /\ call[p] <= Len(Uses[kind[p]])
CallNeeds(p) == Uses[kind[p]][call[p]]

CallAcquire(p) ==
    /\ CallUses(p) /\ ~holding[p]
    /\ Usable(p, CallNeeds(p))
    /\ holding' = [holding EXCEPT ![p] = TRUE]
    /\ UNCHANGED <<kind, control, call, worker, schema, avro, faults>>

\* The call goes on to what it needs next, or is answered.
CallRelease(p) ==
    /\ holding[p]
    /\ holding' = [holding EXCEPT ![p] = FALSE]
    /\ call' = [call EXCEPT ![p] = (@ + 1) % (1 + Len(Uses[kind[p]]))]
    /\ UNCHANGED <<kind, control, worker, schema, avro, faults>>

\* What the call needs is closed, or being closed: it ends with an error.
CallFails(p) ==
    /\ CallUses(p) /\ ~holding[p]
    /\ ~Usable(p, CallNeeds(p))
    /\ call' = [call EXCEPT ![p] = 0]
    /\ UNCHANGED <<kind, control, holding, worker, schema, avro, faults>>

\* A call that needs nothing is answered.
CallEnd(p) ==
    /\ call[p] # 0 /\ ~CallUses(p)
    /\ call' = [call EXCEPT ![p] = 0]
    /\ UNCHANGED <<kind, control, holding, worker, schema, avro, faults>>

\* A background loop of a service goes on until ctx is done: the poller and the
\* estimate consumer run a statement, the estimator's consumer prices a record.
WorkBegin(p) ==
    /\ worker[p] = "idle" /\ ~told[p]
    /\ kind[p] = "voyage" => Usable(p, "pool")
    /\ worker' = [worker EXCEPT ![p] = "busy"]
    /\ UNCHANGED <<kind, control, calls, schema, avro, faults>>

WorkEnd(p) ==
    /\ worker[p] = "busy"
    /\ worker' = [worker EXCEPT ![p] = "idle"]
    /\ UNCHANGED <<kind, control, calls, schema, avro, faults>>
-----------------------------------------------------------------------------
(* Stopping.                                                               *)

\* SIGINT or SIGTERM cancels ctx.
Signal(p) ==
    /\ phase[p] # "down" /\ ~told[p] /\ kind[p] # "migrate"
    /\ told' = [told EXCEPT ![p] = TRUE]
    /\ UNCHANGED <<kind, phase, at, open, code, calls, worker, schema, avro, faults>>

\* Mutant of Stop: the gRPC server stops without draining.
StopAtOnce(p) ==
    /\ phase[p] = "serving" /\ told[p]
    /\ Unwind(p, "ok")
    /\ UNCHANGED <<kind, at, open, told, calls, worker, schema, avro, faults>>

\* Mutant of Stop: serve.GRPC does not look at ctx.
StopGatewayOnly(p) ==
    /\ phase[p] = "serving" /\ told[p] /\ kind[p] \notin GrpcKinds
    /\ Unwind(p, "ok")
    /\ UNCHANGED <<kind, at, open, told, calls, worker, schema, avro, faults>>

\* serve.GRPC calls GracefulStop.  The gateway's Run goes on as soon as Shutdown has
\* been called: ListenAndServe returns then, and Shutdown itself, which waits for
\* the requests in progress, runs in a goroutine that ends with the process.
Stop(p) ==
    /\ phase[p] = "serving" /\ told[p]
    /\ IF kind[p] \in GrpcKinds
       THEN phase' = [phase EXCEPT ![p] = "draining"] /\ UNCHANGED code
       ELSE Unwind(p, "ok")
    /\ UNCHANGED <<kind, at, open, told, calls, worker, schema, avro, faults>>

\* GracefulStop returns once no call is in progress.
Drained(p) ==
    /\ phase[p] = "draining" /\ call[p] = 0
    /\ Unwind(p, "ok")
    /\ UNCHANGED <<kind, at, open, told, calls, worker, schema, avro, faults>>

\* Mutant of ServeFails: the error of Serve is dropped.
ServeFailsQuietly(p) ==
    /\ Fault
    /\ phase[p] = "serving"
    /\ Unwind(p, "ok")
    /\ UNCHANGED <<kind, at, open, told, calls, worker, schema, avro>>

\* The listener breaks: Run returns the error at once, whatever is in progress.
ServeFails(p) ==
    /\ Fault
    /\ phase[p] = "serving"
    /\ Unwind(p, "error")
    /\ UNCHANGED <<kind, at, open, told, calls, worker, schema, avro>>

\* Mutant of CanClose: Close does not wait for connections in use.
CanCloseAnyTime(p, r) == TRUE

\* pool.Close waits until every connection has been returned.
CanClose(p, r) ==
    r = "pool" => worker[p] # "busy" /\ ~(CallUses(p) /\ CallNeeds(p) = "pool" /\ holding[p])

\* The innermost deferred call; a gRPC connection that is closed ends its calls.
Close(p, r) ==
    /\ phase[p] = "closing" /\ Innermost(p, r)
    /\ CanClose(p, r)
    /\ open' = [open EXCEPT ![p] = @ \ {r}]
    /\ IF r = "conn" /\ holding[p] /\ CallNeeds(p) = "conn"
       THEN call' = [call EXCEPT ![p] = 0] /\ holding' = [holding EXCEPT ![p] = FALSE]
       ELSE UNCHANGED calls
    /\ UNCHANGED <<kind, phase, at, told, code, worker, schema, avro, faults>>

\* The process is gone, its goroutines and calls with it; the database rolls its
\* transaction back.
Gone(p) ==
    /\ phase' = [phase EXCEPT ![p] = "down"]
    /\ at' = [at EXCEPT ![p] = 1]
    /\ open' = [open EXCEPT ![p] = {}]
    /\ call' = [call EXCEPT ![p] = 0] /\ holding' = [holding EXCEPT ![p] = FALSE]
    /\ worker' = [worker EXCEPT ![p] = "none"]
    /\ seen' = [seen EXCEPT ![p] = Unread] /\ tx' = [tx EXCEPT ![p] = 0]
    /\ serde' = [serde EXCEPT ![p] = [s \in Subjects |-> 0]]
    /\ UNCHANGED <<kind, told, ddl, applied, ids>>

\* main returns, or log.Fatalf exits with 1.
Exit(p) ==
    /\ phase[p] = "closing" /\ open[p] = {}
    /\ Gone(p)
    /\ UNCHANGED <<code, faults>>

Kill(p) ==
    /\ Fault
    /\ phase[p] # "down"
    /\ Gone(p)
    /\ code' = [code EXCEPT ![p] = "error"]

\* "restart: on-failure": an exit with an error, unless the operator asked for it.
\* The migrate command is no service of docker-compose.yml: it stays failed.
Restart(p) ==
    /\ phase[p] = "down" /\ code[p] = "error" /\ ~told[p] /\ kind[p] # "migrate"
    /\ phase' = [phase EXCEPT ![p] = "starting"]
    /\ code' = [code EXCEPT ![p] = "none"]
    /\ UNCHANGED <<kind, at, open, told, calls, worker, schema, avro, faults>>

\* The steps of Run, of the call in progress and of the background loops.
RunStep(p) ==
    \/ Acquire(p) \/ Interrupted(p)
    \/ MigrateRead(p) \/ MigrateUp(p) \/ MigrateConflict(p) \/ MigrateCommit(p)
    \/ \E s \in Subjects, id \in 1..MaxIds : Register(p, s, id)
    \/ Stop(p) \/ Drained(p)
    \/ \E r \in Deferred : Close(p, r)
    \/ Exit(p) \/ Restart(p)
CallStep(p) == CallAcquire(p) \/ CallRelease(p) \/ CallFails(p) \/ CallEnd(p)

Next ==
    \E p \in Deployed :
        \/ RunStep(p)
        \/ CallBegin(p) \/ CallStep(p)
        \/ WorkBegin(p) \/ WorkEnd(p)
        \/ Signal(p)
        \/ StartFails(p) \/ ServeFails(p) \/ Kill(p)

SafeSpec == Init /\ [][Next]_vars

\* Goroutines are scheduled, statements and calls of what is reachable return, and
\* the container runtime restarts the services.  Nothing forces a call, a signal or
\* a fault.
Spec ==
    /\ SafeSpec
    /\ \A p \in Processes :
          /\ WF_vars(p \in Deployed /\ RunStep(p))
          /\ WF_vars(p \in Deployed /\ CallStep(p))
          /\ WF_vars(p \in Deployed /\ WorkEnd(p))
-----------------------------------------------------------------------------
(* Properties.                                                             *)

Phases == {"down", "starting", "serving", "draining", "closing"}

\* Every variable has its type.
TypeOK ==
    /\ kind \in Deployments
    /\ phase \in [Processes -> Phases]
    /\ \A p \in Deployed : at[p] \in 1..Len(Startup[kind[p]])
    /\ open \in [Processes -> SUBSET Deferred]
    /\ told \in [Processes -> BOOLEAN]
    /\ code \in [Processes -> {"none", "ok", "error"}]
    /\ call \in [Processes -> 0..2]
    /\ holding \in [Processes -> BOOLEAN]
    /\ worker \in [Processes -> {"none", "idle", "busy"}]
    /\ ddl \in Seq(1..Migrations) /\ applied \in Seq(1..Migrations)
    /\ seen \in [Processes -> Unread..Migrations]
    /\ tx \in [Processes -> 0..Migrations]
    /\ ids \in [Subjects -> SUBSET (1..MaxIds)]
    /\ serde \in [Processes -> [Subjects -> 0..MaxIds]]
    /\ faults \in 0..MaxFaults

\* "On cancellation it stops gracefully" (serve.go): a gRPC service told to stop
\* closes nothing while a call is in progress; only a broken listener does.
DrainsFirst ==
    \A p \in Deployed :
        kind[p] \in GrpcKinds /\ phase[p] = "closing" /\ call[p] # 0 => code[p] = "error"

\* However Run returns, the process outlives every statement its calls and its
\* background loops, which nobody waits for, have under way: they hold connections
\* of the pool, and the pool is closed before the process exits.
ExitCutsNoStatement ==
    [][\A p \in Deployed :
        kind[p] = "voyage" /\ phase[p] = "closing" /\ open[p] = {} /\ phase'[p] = "down"
            => worker[p] # "busy" /\ ~holding[p]]_vars

\* "already-applied migrations are skipped" (migrate.go): every migration is run at
\* most once, in order, and the version table says exactly which were run.
MigratedInOrder == ddl = applied /\ \A i \in 1..Len(ddl) : ddl[i] = i

\* The voyage service never serves on a schema that lacks a migration or had one
\* applied twice, although several processes may migrate the database at the same
\* time and any may die or be told to stop between a file and the next.
ServesMigrated ==
    /\ MigratedInOrder
    /\ \A p \in Deployed :
          kind[p] = "voyage" /\ phase[p] \in {"serving", "draining"} =>
              Len(applied) = Migrations

\* Decoding is "immune to the registry assigning the same schema different IDs"
\* (serde.go): an event framed with any id ever given out for it, by whichever
\* process and incarnation, can be decoded by every process that consumes.
FramesDecode ==
    \A p \in Deployed, s \in Subjects : \A id \in ids[s] :
        worker[p] # "none" => Decode(p, s, Encode(id, s))

\* A process that is told to stop ends.
EveryStopEnds == \A p \in Processes : told[p] ~> phase[p] = "down"

\* Once the faults are over every service that was not told to stop serves for good,
\* however the processes met while migrating: none ends with an exit code of 0, after
\* which nothing restarts it, of its own accord.  The migrate command ends, and leaves
\* the full schema behind whenever it says "database is up to date".
ComesUp ==
    \A p \in Processes :
        <>[](p \in Deployed =>
                \/ phase[p] = "serving" \/ told[p]
                \/ /\ kind[p] = "migrate" /\ phase[p] = "down"
                   /\ code[p] = "ok" => Len(applied) = Migrations)
=============================================================================
