--------------------------- MODULE LifecycleProofs ---------------------------
(***************************************************************************)
(* Theorems about Lifecycle, for any deployments of any number of          *)
(* processes, any number of migration files and any number of faults.      *)
(***************************************************************************)
EXTENDS Lifecycle, TLAPS

Kinds == {"voyage", "estimator", "gateway", "migrate"}

\* p has passed stage s of its start-up.
Past(p, s) == \E i \in 1..(at[p] - 1) : Startup[kind[p]][i] = s

\* The control state has its type; what was not deployed does nothing.
ControlType ==
    /\ phase \in [Processes -> Phases]
    /\ at \in [Processes -> Nat]
    /\ \A p \in Deployed : at[p] \in 1..Len(Startup[kind[p]])
    /\ open \in [Processes -> SUBSET Deferred]
    /\ code \in [Processes -> {"none", "ok", "error"}]
    /\ worker \in [Processes -> {"none", "idle", "busy"}]
    /\ call \in [Processes -> 0..2]
    /\ faults \in 0..MaxFaults

Flags == told \in [Processes -> BOOLEAN] /\ holding \in [Processes -> BOOLEAN]

AvroType ==
    /\ ids \in [Subjects -> SUBSET (1..MaxIds)]
    /\ serde \in [Processes -> [Subjects -> 0..MaxIds]]

\* The version table and the schema agree, and at most one transaction is open: its
\* migration is the next one.  A process that is migrating has read a version that
\* leaves a file to apply, which another process may have applied since.
Schema ==
    /\ ddl \in Seq(1..Migrations) /\ applied = ddl
    /\ Len(ddl) <= Migrations
    /\ \A i \in 1..Len(ddl) : ddl[i] = i
    /\ seen \in [Processes -> Unread..(Migrations - 1)]
    /\ tx \in [Processes -> 0..Migrations]
    /\ \A p \in Processes : seen[p] <= Len(ddl)
    /\ \A p \in Processes : tx[p] # 0 =>
          /\ p \in Deployed /\ Starting(p, "migrate")
          /\ tx[p] = Len(ddl) + 1
          /\ seen[p] # Unread
    /\ \A p, q \in Processes : tx[p] # 0 /\ tx[q] # 0 => p = q

\* Past a stage, what it is for is there.
Reached(p) ==
    /\ Past(p, "migrate") => Len(ddl) = Migrations
    /\ Past(p, "serde") => \A s \in Subjects : serde[p][s] # 0
    /\ worker[p] # "none" => Past(p, "serde")
    /\ phase[p] \in {"serving", "draining"} => at[p] = Len(Startup[kind[p]])

Stages == \A p \in Deployed : Reached(p)

\* Calls are served after the start-up, and hold only what is open.
Holds(p) ==
    /\ phase[p] \in {"down", "starting"} => call[p] = 0
    /\ phase[p] = "draining" => kind[p] \in GrpcKinds
    /\ holding[p] => CallUses(p) /\ CallNeeds(p) \in open[p]
    /\ kind[p] = "voyage" /\ worker[p] = "busy" => "pool" \in open[p]

Held == \A p \in Deployed : Holds(p)

\* The inductive invariant.
LifeInv ==
    /\ kind \in Deployments
    /\ ControlType /\ Flags /\ AvroType /\ Schema /\ Stages /\ Held /\ DrainsFirst
-----------------------------------------------------------------------------
(* Start-up.                                                               *)

\* A deployment is of processes, and says what each of them runs.
LEMMA KindType ==
  ASSUME kind \in Deployments, NEW p \in Deployed
  PROVE  p \in Processes /\ kind[p] \in Kinds
  <1>1. PICK D \in SUBSET Processes : kind \in [D -> DOMAIN Startup]
    BY LifecycleAssumption
  <1>2. DOMAIN Startup = Kinds
    BY DEF Startup, Kinds
  <1> QED
    BY <1>1, <1>2 DEF Deployed

\* How long each start-up is, and what its stages are.
LEMMA StageLists ==
  /\ Startup["voyage"] = <<"tracing", "migrate", "pool", "serde", "producer", "consumer",
                           "conn", "listen">>
  /\ Startup["estimator"] = <<"tracing", "serde", "consumer", "listen">>
  /\ Startup["gateway"] = <<"tracing", "conn", "listen">>
  /\ Startup["migrate"] = <<"migrate">>
  /\ Len(Startup["voyage"]) = 8 /\ Len(Startup["estimator"]) = 4
  /\ Len(Startup["gateway"]) = 3 /\ Len(Startup["migrate"]) = 1
  BY DEF Startup

\* Start-ups have stages, and the background loops start after serde.
LEMMA StageOrder ==
  ASSUME NEW k \in Kinds
  PROVE  /\ Len(Startup[k]) \in Nat \ {0}
         /\ k \in GrpcKinds =>
               \A i \in 1..Len(Startup[k]) : Startup[k][i] = "listen" =>
                   \E j \in 1..(i - 1) : Startup[k][j] = "serde"
         /\ k = "voyage" => 2 \in 1..(Len(Startup[k]) - 1) /\ Startup[k][2] = "migrate"
  <1>1. CASE k = "voyage"
    <2>1. Startup[k] = <<"tracing", "migrate", "pool", "serde", "producer", "consumer",
                           "conn", "listen">> /\ Len(Startup[k]) = 8
      BY <1>1, StageLists
    <2>2. \A i \in 1..8 : Startup[k][i] = "listen" => i = 8
      BY <2>1
    <2>3. 4 \in 1..(8 - 1) /\ Startup[k][4] = "serde"
      BY <2>1
    <2>4. 2 \in 1..(8 - 1) /\ Startup[k][2] = "migrate"
      BY <2>1
    <2>5. 8 \in Nat \ {0}
      OBVIOUS
    <2> QED
      BY <2>1, <2>2, <2>3, <2>4, <2>5
  <1>2. CASE k = "estimator"
    <2>1. Startup[k] = <<"tracing", "serde", "consumer", "listen">> /\ Len(Startup[k]) = 4
      BY <1>2, StageLists
    <2>2. \A i \in 1..4 : Startup[k][i] = "listen" => i = 4
      BY <2>1
    <2>3. 2 \in 1..(4 - 1) /\ Startup[k][2] = "serde"
      BY <2>1
    <2> QED
      BY <1>2, <2>1, <2>2, <2>3
  <1>3. CASE k = "gateway"
    <2>1. Len(Startup[k]) = 3
      BY <1>3, StageLists
    <2> QED
      BY <1>3, <2>1 DEF GrpcKinds
  <1>4. CASE k = "migrate"
    <2>1. Len(Startup[k]) = 1
      BY <1>4, StageLists
    <2> QED
      BY <1>4, <2>1 DEF GrpcKinds
  <1> QED
    BY <1>1, <1>2, <1>3, <1>4 DEF Kinds

\* What calls use.
LEMMA UsesList ==
  ASSUME NEW k \in Kinds
  PROVE  /\ Len(Uses[k]) \in 0..2
         /\ \A i \in 1..Len(Uses[k]) : Uses[k][i] \in {"pool", "conn"}
  <1>1. /\ Uses["voyage"] = <<"pool", "conn">> /\ Len(<<"pool", "conn">>) = 2
        /\ Uses["gateway"] = <<"conn">> /\ Len(<<"conn">>) = 1
        /\ Uses["estimator"] = <<>> /\ Uses["migrate"] = <<>> /\ Len(<<>>) = 0
    BY DEF Uses
  <1>2. CASE k = "voyage"
    <2>1. Uses[k] = <<"pool", "conn">>
      BY <1>1, <1>2
    <2>2. Len(Uses[k]) = 2 /\ Uses[k][1] = "pool" /\ Uses[k][2] = "conn"
      BY <2>1
    <2> QED
      BY <2>2
  <1>3. CASE k = "gateway"
    <2>1. Uses[k] = <<"conn">>
      BY <1>1, <1>3
    <2>2. Len(Uses[k]) = 1 /\ Uses[k][1] = "conn"
      BY <2>1
    <2> QED
      BY <2>2
  <1>4. CASE k \in {"estimator", "migrate"}
    BY <1>1, <1>4
  <1> QED
    BY <1>2, <1>3, <1>4 DEF Kinds

\* What a stage that is done changes: the position moves on by one, or the process
\* leaves the start-up, to serve or, for migrate, to end.
LEMMA AdvanceEffect ==
  ASSUME kind \in Deployments, ControlType, NEW p \in Deployed, Advance(p)
  PROVE  \/ /\ at[p] < Len(Startup[kind[p]])
            /\ at' = [at EXCEPT ![p] = at[p] + 1]
            /\ UNCHANGED <<phase, code>>
            /\ \/ worker' = worker
               \/ StartsWorkers(p) /\ worker' = [worker EXCEPT ![p] = "idle"]
         \/ /\ at[p] = Len(Startup[kind[p]])
            /\ UNCHANGED <<at, worker>>
            /\ \/ /\ kind[p] = "migrate"
                  /\ phase' = [phase EXCEPT ![p] = "closing"]
                  /\ code' = [code EXCEPT ![p] = "ok"]
               \/ /\ kind[p] # "migrate"
                  /\ phase' = [phase EXCEPT ![p] = "serving"]
                  /\ code' = code
  <1>1. at[p] \in 1..Len(Startup[kind[p]]) /\ Len(Startup[kind[p]]) \in Nat
    BY KindType, StageOrder DEF ControlType
  <1> QED
    BY <1>1 DEF Advance, Unwind

\* The steps of one process, side by side.
Moves(p) ==
    \/ Acquire(p) \/ MigrateRead(p)
    \/ \E s \in Subjects, id \in 1..MaxIds : Register(p, s, id)
    \/ MigrateUp(p) \/ MigrateConflict(p) \/ MigrateCommit(p)
    \/ StartFails(p) \/ Interrupted(p)
    \/ Stop(p) \/ Drained(p) \/ ServeFails(p)
    \/ \E r \in Deferred : Close(p, r)
    \/ Exit(p) \/ Kill(p) \/ Restart(p)
    \/ CallBegin(p) \/ CallAcquire(p) \/ CallRelease(p) \/ CallFails(p) \/ CallEnd(p)
    \/ WorkBegin(p) \/ WorkEnd(p) \/ Signal(p)

\* Every step is one of them.
LEMMA StepCases == [Next]_vars => UNCHANGED vars \/ \E p \in Deployed : Moves(p)
  BY Zenon DEF Next, RunStep, CallStep, Moves

\* The deployment is fixed.
LEMMA KindFixed == [Next]_vars => kind' = kind
  BY StepCases
  DEF Moves, vars, Acquire, MigrateRead, Register, MigrateUp, MigrateConflict, MigrateCommit,
      StartFails, Interrupted, Stop, Drained, ServeFails, Close, Exit, Kill, Gone, Restart,
      CallBegin, CallAcquire, CallRelease, CallFails, CallEnd, WorkBegin, WorkEnd, Signal

\* Every step keeps the control state well-typed.
LEMMA ControlTypeStep ==
  ASSUME LifeInv, [Next]_vars
  PROVE  ControlType'
  <1> USE DEF Phases, Fault, control, calls, Unwind
  <1>a. /\ kind \in Deployments /\ ControlType /\ kind' = kind /\ Deployed' = Deployed
        /\ MaxFaults \in Nat
    BY KindFixed, LifecycleAssumption DEF LifeInv, Deployed
  <1>b. \A p \in Deployed : p \in Processes /\ Len(Startup[kind[p]]) \in Nat \ {0}
    BY <1>a, KindType, StageOrder
  <1>c. /\ at \in [Processes -> Nat]
        /\ \A p \in Deployed : at[p] \in 1..Len(Startup[kind[p]])
    BY <1>a DEF ControlType
  <1>d. faults \in 0..MaxFaults /\ MaxFaults \in Nat
    BY <1>a DEF ControlType
  <1>e. call \in [Processes -> 0..2]
    BY <1>a DEF ControlType
  <1>1. ASSUME NEW p \in Deployed, Advance(p), UNCHANGED <<call, faults>>,
               open' = open \/ open' = [open EXCEPT ![p] = @ \cup ({Stage(p)} \cap Deferred)]
        PROVE  ControlType'
    <2>a. /\ at' = at \/ (at[p] < Len(Startup[kind[p]]) /\ at' = [at EXCEPT ![p] = at[p] + 1])
          /\ \/ phase' = phase
             \/ phase' = [phase EXCEPT ![p] = "closing"]
             \/ phase' = [phase EXCEPT ![p] = "serving"]
          /\ code' = code \/ code' = [code EXCEPT ![p] = "ok"]
          /\ worker' = worker \/ worker' = [worker EXCEPT ![p] = "idle"]
      BY <1>1, <1>a, AdvanceEffect
    <2>1. /\ at' \in [Processes -> Nat]
          /\ \A q \in Deployed : at'[q] \in 1..Len(Startup[kind[q]])
      BY <1>b, <1>c, <2>a
    <2>2. phase' \in [Processes -> Phases]
      BY <1>a, <1>b, <2>a DEF ControlType
    <2>3. code' \in [Processes -> {"none", "ok", "error"}]
      BY <1>a, <1>b, <2>a DEF ControlType
    <2>4. worker' \in [Processes -> {"none", "idle", "busy"}]
      BY <1>a, <1>b, <2>a DEF ControlType
    <2>5. open' \in [Processes -> SUBSET Deferred]
      BY <1>1, <1>a, <1>b DEF ControlType
    <2> QED
      BY <1>1, <1>a, <2>1, <2>2, <2>3, <2>4, <2>5 DEF ControlType
  <1>2. ASSUME NEW p \in Deployed,
               \/ MigrateUp(p) \/ MigrateConflict(p) \/ MigrateCommit(p)
               \/ StartFails(p) \/ Interrupted(p) \/ Stop(p) \/ Drained(p) \/ ServeFails(p)
        PROVE  ControlType'
    <2>1. /\ UNCHANGED <<at, open, worker, call>>
          /\ \/ phase' = phase
             \/ phase' = [phase EXCEPT ![p] = "closing"]
             \/ phase' = [phase EXCEPT ![p] = "draining"]
          /\ \/ code' = code
             \/ code' = [code EXCEPT ![p] = "ok"]
             \/ code' = [code EXCEPT ![p] = "error"]
          /\ faults' = faults \/ (faults < MaxFaults /\ faults' = faults + 1)
      BY <1>2
      DEF MigrateUp, MigrateConflict, MigrateCommit, StartFails, Interrupted, Stop, Drained,
          ServeFails
    <2>2. phase' \in [Processes -> Phases]
      BY <1>a, <1>b, <2>1 DEF ControlType
    <2>3. code' \in [Processes -> {"none", "ok", "error"}]
      BY <1>a, <1>b, <2>1 DEF ControlType
    <2>4. faults' \in 0..MaxFaults
      BY <1>d, <2>1
    <2> QED
      BY <1>a, <2>1, <2>2, <2>3, <2>4 DEF ControlType
  <1>3. ASSUME NEW p \in Deployed, NEW r \in Deferred, Close(p, r)
        PROVE  ControlType'
    <2>1. /\ UNCHANGED <<phase, at, code, worker, faults>>
          /\ open' = [open EXCEPT ![p] = @ \ {r}]
          /\ call' = call \/ call' = [call EXCEPT ![p] = 0]
      BY <1>3 DEF Close
    <2>2. open' \in [Processes -> SUBSET Deferred] /\ call' \in [Processes -> 0..2]
      BY <1>a, <1>b, <2>1 DEF ControlType
    <2> QED
      BY <1>a, <2>1, <2>2 DEF ControlType
  <1>4. ASSUME NEW p \in Deployed, Exit(p) \/ Kill(p)
        PROVE  ControlType'
    <2>1. /\ phase' = [phase EXCEPT ![p] = "down"]
          /\ at' = [at EXCEPT ![p] = 1]
          /\ open' = [open EXCEPT ![p] = {}]
          /\ call' = [call EXCEPT ![p] = 0]
          /\ worker' = [worker EXCEPT ![p] = "none"]
          /\ code' = code \/ code' = [code EXCEPT ![p] = "error"]
          /\ faults' = faults \/ (faults < MaxFaults /\ faults' = faults + 1)
      BY <1>4 DEF Exit, Kill, Gone
    <2>2. /\ at' \in [Processes -> Nat]
          /\ \A q \in Deployed : at'[q] \in 1..Len(Startup[kind[q]])
      BY <1>a, <1>b, <2>1 DEF ControlType
    <2>3. /\ phase' \in [Processes -> Phases]
          /\ open' \in [Processes -> SUBSET Deferred]
          /\ call' \in [Processes -> 0..2]
      BY <1>a, <1>b, <2>1 DEF ControlType
    <2>4. /\ worker' \in [Processes -> {"none", "idle", "busy"}]
          /\ code' \in [Processes -> {"none", "ok", "error"}]
      BY <1>a, <1>b, <2>1 DEF ControlType
    <2>5. faults' \in 0..MaxFaults
      BY <1>d, <2>1
    <2> QED
      BY <1>a, <2>2, <2>3, <2>4, <2>5 DEF ControlType
  <1>5. ASSUME NEW p \in Deployed,
               \/ CallBegin(p) \/ CallAcquire(p) \/ CallFails(p) \/ CallEnd(p)
               \/ WorkBegin(p) \/ WorkEnd(p) \/ Signal(p) \/ Restart(p)
        PROVE  ControlType'
    <2>1. /\ UNCHANGED <<at, open, faults>>
          /\ phase' = phase \/ phase' = [phase EXCEPT ![p] = "starting"]
          /\ code' = code \/ code' = [code EXCEPT ![p] = "none"]
          /\ \/ call' = call
             \/ call' = [call EXCEPT ![p] = 0]
             \/ call' = [call EXCEPT ![p] = 1]
          /\ \/ worker' = worker
             \/ worker' = [worker EXCEPT ![p] = "idle"]
             \/ worker' = [worker EXCEPT ![p] = "busy"]
      BY <1>5
      DEF CallBegin, CallAcquire, CallFails, CallEnd, WorkBegin, WorkEnd, Signal, Restart
    <2>2. /\ phase' \in [Processes -> Phases]
          /\ code' \in [Processes -> {"none", "ok", "error"}]
      BY <1>a, <1>b, <2>1 DEF ControlType
    <2>3. call' \in [Processes -> 0..2]
      BY <1>b, <1>e, <2>1
    <2>4. worker' \in [Processes -> {"none", "idle", "busy"}]
      BY <1>a, <1>b, <2>1 DEF ControlType
    <2> QED
      BY <1>a, <2>1, <2>2, <2>3, <2>4 DEF ControlType
  <1>6. ASSUME NEW p \in Deployed, CallRelease(p)
        PROVE  ControlType'
    <2>1. Len(Uses[kind[p]]) \in 0..2
      BY <1>a, KindType, UsesList
    <2>2. call[p] \in 0..2
      BY <1>b, <1>e
    <2>a. \A n \in 0..2 : n = 0 \/ n = 1 \/ n = 2
      OBVIOUS
    <2>3. \A n, c \in 0..2 : (c + 1) % (1 + n) \in 0..2
      BY <2>a
    <2>4. (call[p] + 1) % (1 + Len(Uses[kind[p]])) \in 0..2
      BY <2>1, <2>2, <2>3
    <2> HIDE DEF Phases
    <2> QED
      BY <1>6, <1>a, <1>b, <2>4 DEF ControlType, CallRelease
  <1>7. ASSUME NEW p \in Deployed, Acquire(p) \/ MigrateRead(p) PROVE ControlType'
    <2>1. CASE Advance(p)
      BY <1>1, <1>7, <2>1 DEF Acquire, MigrateRead
    <2>2. CASE ~Advance(p)
      BY <1>7, <1>a, <2>2 DEF Acquire, MigrateRead, ControlType
    <2> QED
      BY <2>1, <2>2
  <1>8. ASSUME NEW p \in Deployed, NEW s \in Subjects, NEW id \in 1..MaxIds, Register(p, s, id)
        PROVE  ControlType'
    <2>1. CASE Advance(p)
      BY <1>1, <1>8, <2>1 DEF Register
    <2>2. CASE ~Advance(p)
      BY <1>8, <1>a, <2>2 DEF Register, ControlType
    <2> QED
      BY <2>1, <2>2
  <1>9. CASE UNCHANGED vars
    BY <1>9, <1>a DEF vars, ControlType
  <1> QED
    BY <1>2, <1>3, <1>4, <1>5, <1>6, <1>7, <1>8, <1>9, StepCases DEF Moves

\* Every step keeps the flags Boolean.
LEMMA FlagsStep ==
  ASSUME LifeInv, [Next]_vars
  PROVE  Flags'
  <1>a. told \in [Processes -> BOOLEAN] /\ holding \in [Processes -> BOOLEAN]
    BY DEF LifeInv, Flags
  <1>1. told' = told \/ \E p \in Deployed : told' = [told EXCEPT ![p] = TRUE]
    BY StepCases
    DEF Moves, vars, control, Acquire, MigrateRead, Register, MigrateUp, MigrateConflict,
        MigrateCommit, StartFails, Interrupted, Stop, Drained, ServeFails, Close, Exit, Kill,
        Gone, Restart, CallBegin, CallAcquire, CallRelease, CallFails, CallEnd, WorkBegin,
        WorkEnd, Signal
  <1>2. \/ holding' = holding
        \/ \E p \in Deployed : \/ holding' = [holding EXCEPT ![p] = TRUE]
                               \/ holding' = [holding EXCEPT ![p] = FALSE]
    BY StepCases
    DEF Moves, vars, calls, Acquire, MigrateRead, Register, MigrateUp, MigrateConflict,
        MigrateCommit, StartFails, Interrupted, Stop, Drained, ServeFails, Close, Exit, Kill,
        Gone, Restart, CallBegin, CallAcquire, CallRelease, CallFails, CallEnd, WorkBegin,
        WorkEnd, Signal
  <1>3. /\ \A p : [told EXCEPT ![p] = TRUE] \in [Processes -> BOOLEAN]
        /\ \A p : [holding EXCEPT ![p] = TRUE] \in [Processes -> BOOLEAN]
        /\ \A p : [holding EXCEPT ![p] = FALSE] \in [Processes -> BOOLEAN]
    BY <1>a, Zenon
  <1> QED
    BY <1>a, <1>1, <1>2, <1>3, Zenon DEF Flags

\* Every step keeps the registry and the serdes well-typed.
LEMMA AvroTypeStep ==
  ASSUME LifeInv, [Next]_vars
  PROVE  AvroType'
  <1>a. AvroType /\ MaxIds \in Nat
    BY LifecycleAssumption DEF LifeInv
  <1>1. \/ UNCHANGED avro
        \/ \E p \in Deployed, s \in Subjects, id \in 1..MaxIds :
              /\ ids' = [ids EXCEPT ![s] = @ \cup {id}]
              /\ serde' = [serde EXCEPT ![p][s] = id]
        \/ \E p \in Deployed :
              ids' = ids /\ serde' = [serde EXCEPT ![p] = [s \in Subjects |-> 0]]
    BY StepCases
    DEF Moves, vars, avro, Acquire, MigrateRead, Register, MigrateUp, MigrateConflict,
        MigrateCommit, StartFails, Interrupted, Stop, Drained, ServeFails, Close, Exit, Kill,
        Gone, Restart, CallBegin, CallAcquire, CallRelease, CallFails, CallEnd, WorkBegin,
        WorkEnd, Signal
  <1>2. CASE UNCHANGED avro
    BY <1>2, <1>a DEF avro, AvroType
  <1>3. ASSUME NEW p \in Deployed, NEW s \in Subjects, NEW id \in 1..MaxIds,
               ids' = [ids EXCEPT ![s] = @ \cup {id}],
               serde' = [serde EXCEPT ![p][s] = id]
        PROVE  AvroType'
    <2>1. ids' \in [Subjects -> SUBSET (1..MaxIds)]
      BY <1>3, <1>a DEF AvroType
    <2>2. serde \in [Processes -> [Subjects -> 0..MaxIds]] /\ p \in Processes
      BY <1>a, KindType DEF AvroType, LifeInv
    <2>3. [serde[p] EXCEPT ![s] = id] \in [Subjects -> 0..MaxIds]
      BY <1>a, <2>2
    <2>4. serde' \in [Processes -> [Subjects -> 0..MaxIds]]
      BY <1>3, <2>2, <2>3
    <2> QED
      BY <2>1, <2>4 DEF AvroType
  <1>4. ASSUME NEW p \in Deployed, ids' = ids,
               serde' = [serde EXCEPT ![p] = [s \in Subjects |-> 0]]
        PROVE  AvroType'
    <2>1. [s \in Subjects |-> 0] \in [Subjects -> 0..MaxIds]
      BY <1>a
    <2> QED
      BY <1>4, <1>a, <2>1 DEF AvroType
  <1> QED
    BY <1>1, <1>2, <1>3, <1>4
-----------------------------------------------------------------------------
(* Migrations.                                                             *)

\* What a step of p does to the control state of the other processes: nothing.
LEMMA OthersStay ==
  ASSUME LifeInv, NEW p \in Deployed, Moves(p)
  PROVE  \A q \in Processes : q # p =>
            /\ phase'[q] = phase[q] /\ at'[q] = at[q] /\ code'[q] = code[q]
            /\ open'[q] = open[q] /\ worker'[q] = worker[q] /\ call'[q] = call[q]
            /\ serde'[q] = serde[q]
  <1>a. /\ phase \in [Processes -> Phases] /\ at \in [Processes -> Nat]
        /\ code \in [Processes -> {"none", "ok", "error"}]
        /\ open \in [Processes -> SUBSET Deferred]
        /\ worker \in [Processes -> {"none", "idle", "busy"}]
        /\ call \in [Processes -> 0..2]
        /\ serde \in [Processes -> [Subjects -> 0..MaxIds]]
    BY DEF LifeInv, ControlType, AvroType
  <1>1. phase' = phase \/ \E x : phase' = [phase EXCEPT ![p] = x]
    BY Zenon
    DEF Moves, control, Advance, Unwind, Acquire, MigrateRead, Register, MigrateUp,
        MigrateConflict, MigrateCommit, StartFails, Interrupted, Stop, Drained, ServeFails,
        Close, Exit, Kill, Gone, Restart, CallBegin, CallAcquire, CallRelease, CallFails,
        CallEnd, WorkBegin, WorkEnd, Signal
  <1>2. at' = at \/ \E x : at' = [at EXCEPT ![p] = x]
    BY Zenon
    DEF Moves, control, Advance, Acquire, MigrateRead, Register, MigrateUp,
        MigrateConflict, MigrateCommit, StartFails, Interrupted, Stop, Drained, ServeFails,
        Close, Exit, Kill, Gone, Restart, CallBegin, CallAcquire, CallRelease, CallFails,
        CallEnd, WorkBegin, WorkEnd, Signal
  <1>3. code' = code \/ \E x : code' = [code EXCEPT ![p] = x]
    BY Zenon
    DEF Moves, control, Advance, Unwind, Acquire, MigrateRead, Register, MigrateUp,
        MigrateConflict, MigrateCommit, StartFails, Interrupted, Stop, Drained, ServeFails,
        Close, Exit, Kill, Gone, Restart, CallBegin, CallAcquire, CallRelease, CallFails,
        CallEnd, WorkBegin, WorkEnd, Signal
  <1>4. open' = open \/ \E x : open' = [open EXCEPT ![p] = x]
    BY Zenon
    DEF Moves, control, Acquire, MigrateRead, Register, MigrateUp,
        MigrateConflict, MigrateCommit, StartFails, Interrupted, Stop, Drained, ServeFails,
        Close, Exit, Kill, Gone, Restart, CallBegin, CallAcquire, CallRelease, CallFails,
        CallEnd, WorkBegin, WorkEnd, Signal
  <1>5. worker' = worker \/ \E x : worker' = [worker EXCEPT ![p] = x]
    BY Zenon
    DEF Moves, Advance, Acquire, MigrateRead, Register, MigrateUp,
        MigrateConflict, MigrateCommit, StartFails, Interrupted, Stop, Drained, ServeFails,
        Close, Exit, Kill, Gone, Restart, CallBegin, CallAcquire, CallRelease, CallFails,
        CallEnd, WorkBegin, WorkEnd, Signal
  <1>6. call' = call \/ \E x : call' = [call EXCEPT ![p] = x]
    BY Zenon
    DEF Moves, calls, Acquire, MigrateRead, Register, MigrateUp,
        MigrateConflict, MigrateCommit, StartFails, Interrupted, Stop, Drained, ServeFails,
        Close, Exit, Kill, Gone, Restart, CallBegin, CallAcquire, CallRelease, CallFails,
        CallEnd, WorkBegin, WorkEnd, Signal
  <1>7. serde' = serde \/ \E x : serde' = [serde EXCEPT ![p] = x]
    BY Zenon
    DEF Moves, avro, Acquire, MigrateRead, Register, MigrateUp,
        MigrateConflict, MigrateCommit, StartFails, Interrupted, Stop, Drained, ServeFails,
        Close, Exit, Kill, Gone, Restart, CallBegin, CallAcquire, CallRelease, CallFails,
        CallEnd, WorkBegin, WorkEnd, Signal
  <1>8. /\ \A q \in Processes : q # p => phase'[q] = phase[q] /\ at'[q] = at[q]
        /\ \A q \in Processes : q # p => code'[q] = code[q] /\ open'[q] = open[q]
    BY <1>a, <1>1, <1>2, <1>3, <1>4
  <1>9. /\ \A q \in Processes : q # p => worker'[q] = worker[q] /\ call'[q] = call[q]
        /\ \A q \in Processes : q # p => serde'[q] = serde[q]
    BY <1>a, <1>5, <1>6, <1>7
  <1> QED
    BY <1>8, <1>9

\* What a step does to the schema and to the migrations under way.  A process with
\* an open transaction stays where it is until the transaction ends.
LEMMA SchemaMoves ==
  ASSUME LifeInv, NEW p \in Deployed, Moves(p)
  PROVE  \/ UNCHANGED schema /\ (tx[p] # 0 => phase'[p] = phase[p] /\ at'[p] = at[p])
         \/ /\ Starting(p, "migrate") /\ Len(applied) # Migrations
            /\ seen' = [seen EXCEPT ![p] = Len(applied)]
            /\ UNCHANGED <<ddl, applied, tx, phase, at>>
         \/ MigrateUp(p)
         \/ MigrateCommit(p)
         \/ /\ UNCHANGED <<ddl, applied>>
            /\ tx' = [tx EXCEPT ![p] = 0]
            /\ seen' = seen \/ seen' = [seen EXCEPT ![p] = Unread]
  <1> USE DEF schema
  <1>a. tx[p] # 0 => Starting(p, "migrate") /\ seen[p] # Unread
    BY KindType DEF LifeInv, Schema
  <1>1. ASSUME NEW s \in Subjects, NEW id \in 1..MaxIds, Acquire(p) \/ Register(p, s, id)
        PROVE  UNCHANGED schema /\ tx[p] = 0
    BY <1>1, <1>a DEF Acquire, Register, Starting, Deferred
  <1>2. ASSUME MigrateRead(p)
        PROVE  \/ UNCHANGED schema /\ tx[p] = 0
               \/ /\ Starting(p, "migrate") /\ Len(applied) # Migrations
                  /\ seen' = [seen EXCEPT ![p] = Len(applied)]
                  /\ UNCHANGED <<ddl, applied, tx, phase, at>>
    BY <1>2, <1>a DEF MigrateRead
  <1>3. ASSUME StartFails(p) \/ Interrupted(p) \/ Exit(p) \/ Kill(p)
        PROVE  /\ UNCHANGED <<ddl, applied>>
               /\ tx' = [tx EXCEPT ![p] = 0]
               /\ seen' = seen \/ seen' = [seen EXCEPT ![p] = Unread]
    BY <1>3 DEF StartFails, Interrupted, Exit, Kill, Gone
  <1>4. ASSUME MigrateConflict(p) \/ Stop(p) \/ Drained(p) \/ ServeFails(p) \/ Restart(p)
        PROVE  UNCHANGED schema /\ tx[p] = 0
    BY <1>4, <1>a DEF MigrateConflict, Stop, Drained, ServeFails, Restart, Starting
  <1>5. ASSUME NEW r \in Deferred, Close(p, r)
        PROVE  UNCHANGED schema /\ tx[p] = 0
    BY <1>5, <1>a DEF Close, Starting
  <1>6. ASSUME \/ CallBegin(p) \/ CallAcquire(p) \/ CallRelease(p) \/ CallFails(p)
               \/ CallEnd(p) \/ WorkBegin(p) \/ WorkEnd(p) \/ Signal(p)
        PROVE  UNCHANGED schema /\ UNCHANGED <<phase, at>>
    BY <1>6
    DEF control, CallBegin, CallAcquire, CallRelease, CallFails, CallEnd, WorkBegin, WorkEnd,
        Signal
  <1>7. \E s \in Subjects, id \in 1..MaxIds : TRUE
    BY LifecycleAssumption DEF Subjects
  <1> QED
    BY <1>1, <1>2, <1>3, <1>4, <1>5, <1>6, <1>7 DEF Moves

\* Every step keeps the schema in order: two transactions never apply a file.
LEMMA SchemaStep ==
  ASSUME LifeInv, [Next]_vars
  PROVE  Schema'
  <1>a. /\ Schema /\ kind' = kind /\ Deployed' = Deployed
        /\ \A p \in Deployed : p \in Processes
        /\ Migrations \in Nat
    BY KindFixed, KindType, LifecycleAssumption DEF LifeInv, Deployed
  <1>b. /\ ddl \in Seq(1..Migrations) /\ applied = ddl /\ Len(ddl) \in 0..Migrations
        /\ \A i \in 1..Len(ddl) : ddl[i] = i
    BY <1>a DEF Schema
  <1>c. /\ seen \in [Processes -> Unread..(Migrations - 1)]
        /\ tx \in [Processes -> 0..Migrations]
        /\ \A p \in Processes : seen[p] <= Len(ddl)
    BY <1>a DEF Schema
  <1>1. ASSUME NEW p \in Deployed, Moves(p), UNCHANGED schema,
               tx[p] # 0 => phase'[p] = phase[p] /\ at'[p] = at[p]
        PROVE  Schema'
    <2>1. ASSUME NEW q \in Processes, tx[q] # 0 PROVE Starting(q, "migrate")'
      BY <1>1, <1>a, <2>1, OthersStay DEF Schema, Starting, Stage
    <2> QED
      BY <1>1, <1>a, <2>1 DEF Schema, schema
  <1>2. ASSUME NEW p \in Deployed, Len(applied) # Migrations,
               seen' = [seen EXCEPT ![p] = Len(applied)],
               UNCHANGED <<ddl, applied, tx, phase, at>>
        PROVE  Schema'
    <2>1. /\ seen' \in [Processes -> Unread..(Migrations - 1)]
          /\ \A q \in Processes : seen'[q] <= Len(ddl)
      <3>1. Len(applied) \in Unread..(Migrations - 1)
        BY <1>2, <1>a, <1>b DEF Unread
      <3>2. p \in Processes /\ Len(applied) <= Len(ddl)
        BY <1>a, <1>b
      <3>3. \A q \in Processes : seen'[q] = IF q = p THEN Len(applied) ELSE seen[q]
        BY <1>2, <1>c
      <3>4. seen' \in [Processes -> Unread..(Migrations - 1)]
        BY <1>2, <1>c, <3>1
      <3> QED
        BY <1>c, <3>2, <3>3, <3>4
    <2>2. \A q \in Processes : seen[q] # Unread => seen'[q] # Unread
      BY <1>2, <1>b, <1>c DEF Unread
    <2>3. \A q \in Processes : Starting(q, "migrate") => Starting(q, "migrate")'
      BY <1>2, <1>a DEF Starting, Stage
    <2> QED
      BY <1>2, <1>a, <2>1, <2>2, <2>3 DEF Schema
  <1>3. ASSUME NEW p \in Deployed, MigrateUp(p) PROVE Schema'
    <2>1. /\ seen[p] + 1 = Len(ddl) + 1 /\ Starting(p, "migrate") /\ seen[p] # Unread
          /\ tx' = [tx EXCEPT ![p] = seen[p] + 1]
          /\ UNCHANGED <<kind, phase, at, ddl, applied, seen>>
      BY <1>3, <1>a, <1>b, <1>c DEF MigrateUp, control, Unread
    <2>2. seen[p] + 1 \in 1..Migrations
      BY <1>a, <1>c, <2>1 DEF Unread
    <2>3. \A q \in Processes : tx[q] = 0
      BY <1>3, <1>a, <2>1 DEF MigrateUp, Schema
    <2>4. tx' \in [Processes -> 0..Migrations]
      BY <1>a, <1>c, <2>1, <2>2
    <2>5. \A q \in Processes : tx'[q] # 0 => q = p
      BY <1>a, <1>c, <2>1, <2>3
    <2>6. tx'[p] = Len(ddl) + 1
      BY <1>a, <1>c, <2>1
    <2>7. Starting(p, "migrate")'
      BY <2>1 DEF Starting, Stage
    <2> QED
      BY <1>a, <2>1, <2>4, <2>5, <2>6, <2>7 DEF Schema
  <1>4. ASSUME NEW p \in Deployed, MigrateCommit(p) PROVE Schema'
    <2>1. /\ tx[p] # 0 /\ ddl' = Append(ddl, tx[p]) /\ applied' = Append(applied, tx[p])
          /\ tx' = [tx EXCEPT ![p] = 0] /\ seen' = [seen EXCEPT ![p] = Unread]
      BY <1>4 DEF MigrateCommit
    <2>2. tx[p] = Len(ddl) + 1 /\ tx[p] \in 1..Migrations
      BY <1>a, <1>c, <2>1 DEF Schema
    <2>3. /\ ddl' \in Seq(1..Migrations) /\ Len(ddl') = Len(ddl) + 1
          /\ \A i \in 1..Len(ddl') : ddl'[i] = i
      BY <1>b, <2>1, <2>2
    <2>4. \A q \in Processes : tx'[q] = 0
      BY <1>a, <1>c, <2>1 DEF Schema
    <2>5. tx' \in [Processes -> 0..Migrations]
      BY <1>a, <1>c, <2>1
    <2>6. seen' \in [Processes -> Unread..(Migrations - 1)]
      BY <1>a, <1>c, <2>1 DEF Unread
    <2>7. \A q \in Processes : seen'[q] <= Len(ddl')
      BY <1>a, <1>b, <1>c, <2>1, <2>3 DEF Unread
    <2> QED
      BY <1>a, <1>b, <2>1, <2>2, <2>3, <2>4, <2>5, <2>6, <2>7 DEF Schema
  <1>5. ASSUME NEW p \in Deployed, Moves(p), UNCHANGED <<ddl, applied>>,
               tx' = [tx EXCEPT ![p] = 0],
               seen' = seen \/ seen' = [seen EXCEPT ![p] = Unread]
        PROVE  Schema'
    <2>a. p \in Processes
      BY <1>a
    <2>b. Unread \in Unread..(Migrations - 1) /\ Unread <= Len(ddl)
      BY <1>a, <1>b DEF Unread
    <2>1. /\ seen' \in [Processes -> Unread..(Migrations - 1)]
          /\ tx' \in [Processes -> 0..Migrations]
      <3>1. seen' \in [Processes -> Unread..(Migrations - 1)]
        BY <1>5, <1>c, <2>b
      <3>2. 0 \in 0..Migrations
        BY <1>a
      <3>3. tx' \in [Processes -> 0..Migrations]
        BY <1>5, <1>c, <3>2
      <3> QED
        BY <3>1, <3>3
    <2>2. \A q \in Processes : seen'[q] <= Len(ddl)
      BY <1>5, <1>c, <2>b
    <2>3. \A q \in Processes : tx'[q] # 0 => q # p /\ tx'[q] = tx[q] /\ seen'[q] = seen[q]
      BY <1>5, <1>c, <2>a
    <2>4. ASSUME NEW q \in Processes, tx'[q] # 0 PROVE Starting(q, "migrate")'
      <3>1. q # p /\ Starting(q, "migrate")
        BY <1>a, <2>3, <2>4 DEF Schema
      <3>2. phase'[q] = phase[q] /\ at'[q] = at[q]
        BY <1>5, <3>1, OthersStay
      <3> QED
        BY <1>a, <3>1, <3>2 DEF Starting, Stage
    <2> QED
      BY <1>5, <1>a, <2>1, <2>2, <2>3, <2>4 DEF Schema
  <1>6. CASE UNCHANGED vars
    BY <1>6, <1>a DEF vars, control, schema, Schema, Starting, Stage
  <1> QED
    BY <1>1, <1>2, <1>3, <1>4, <1>5, <1>6, StepCases, SchemaMoves

\* Once every file is applied that stays so.
LEMMA StaysMigrated ==
  ASSUME LifeInv, NEW p \in Deployed, Moves(p), Len(ddl) = Migrations
  PROVE  Len(ddl') = Migrations
  <1>1. ~MigrateCommit(p)
    <2>1. tx[p] \in 0..Migrations /\ Migrations \in Nat
      BY KindType, LifecycleAssumption DEF LifeInv, Schema
    <2>2. tx[p] # 0 => tx[p] = Migrations + 1
      BY KindType DEF LifeInv, Schema
    <2> QED
      BY <2>1, <2>2 DEF MigrateCommit
  <1>2. ddl' = ddl
    BY <1>1, SchemaMoves DEF schema, MigrateUp
  <1> QED
    BY <1>2

\* A stage that is done is the only one that is newly past.
LEMMA PastStep ==
  ASSUME LifeInv, NEW p \in Deployed, kind' = kind, NEW s, Past(p, s)',
         at' = at \/ at' = [at EXCEPT ![p] = at[p] + 1]
  PROVE  Past(p, s) \/ (Stage(p) = s /\ at' = [at EXCEPT ![p] = at[p] + 1])
  <1>a. at \in [Processes -> Nat] /\ p \in Processes
    BY KindType DEF LifeInv, ControlType
  <1>1. PICK i \in 1..(at'[p] - 1) : Startup[kind[p]][i] = s
    BY DEF Past
  <1>2. CASE at' = at
    BY <1>1, <1>2 DEF Past
  <1>3. CASE at' = [at EXCEPT ![p] = at[p] + 1]
    <2>1. at'[p] = at[p] + 1 /\ at[p] \in Nat
      BY <1>a, <1>3
    <2>2. i = at[p] \/ i \in 1..(at[p] - 1)
      BY <1>1, <2>1
    <2> QED
      BY <1>1, <1>3, <2>2 DEF Past, Stage
  <1> QED
    BY <1>2, <1>3

\* What is past stays past, as long as the process does not start anew.
LEMMA PastStays ==
  ASSUME LifeInv, NEW p \in Deployed, kind' = kind, NEW s, Past(p, s),
         at' = at \/ at' = [at EXCEPT ![p] = at[p] + 1]
  PROVE  Past(p, s)'
  <1>a. at \in [Processes -> Nat] /\ p \in Processes
    BY KindType DEF LifeInv, ControlType
  <1>1. at[p] \in Nat /\ at'[p] \in Nat /\ at'[p] >= at[p]
    BY <1>a
  <1> QED
    BY <1>1 DEF Past

\* A stage is done: what it is for is there.
LEMMA AdvanceReached ==
  ASSUME LifeInv, NEW p \in Deployed, Moves(p), kind' = kind, Advance(p),
         phase[p] = "starting",
         Stage(p) = "migrate" => Len(ddl) = Migrations,
         Past(p, "serde") => serde'[p] = serde[p],
         Stage(p) = "serde" => \A s \in Subjects : serde'[p][s] # 0
  PROVE  Reached(p)'
  <1>a. /\ Reached(p) /\ p \in Processes /\ kind[p] \in Kinds
        /\ at[p] \in 1..Len(Startup[kind[p]]) /\ Len(Startup[kind[p]]) \in Nat
        /\ phase \in [Processes -> Phases] /\ at \in [Processes -> Nat]
        /\ worker \in [Processes -> {"none", "idle", "busy"}]
    BY KindType, StageOrder DEF LifeInv, Stages, ControlType
  <1>b. at' = at \/ at' = [at EXCEPT ![p] = at[p] + 1]
    BY AdvanceEffect DEF LifeInv
  <1>1. Past(p, "migrate")' => Len(ddl') = Migrations
    BY <1>a, <1>b, PastStep, StaysMigrated DEF Reached
  <1>2. Past(p, "serde")' => \A s \in Subjects : serde'[p][s] # 0
    BY <1>a, <1>b, PastStep DEF Reached
  <1>3. worker'[p] # "none" => Past(p, "serde")'
    <2>1. CASE worker'[p] = worker[p]
      BY <1>a, <1>b, <2>1, PastStays DEF Reached
    <2>2. CASE worker'[p] # worker[p]
      <3>1. /\ StartsWorkers(p) /\ at[p] < Len(Startup[kind[p]])
            /\ at' = [at EXCEPT ![p] = at[p] + 1]
        BY <1>a, <2>2, AdvanceEffect DEF LifeInv
      <3>2. at'[p] = at[p] + 1 /\ at[p] + 1 \in 1..Len(Startup[kind[p]])
        BY <1>a, <3>1
      <3>3. kind[p] \in GrpcKinds /\ Startup[kind[p]][at[p] + 1] = "listen"
        BY <3>1 DEF StartsWorkers
      <3>4. \A i \in 1..Len(Startup[kind[p]]) : Startup[kind[p]][i] = "listen" =>
               \E j \in 1..(i - 1) : Startup[kind[p]][j] = "serde"
        BY <1>a, <3>3, StageOrder
      <3>5. \E j \in 1..(at'[p] - 1) : Startup[kind[p]][j] = "serde"
        BY <3>2, <3>3, <3>4
      <3> QED
        BY <3>5 DEF Past
    <2> QED
      BY <2>1, <2>2
  <1>4. phase'[p] \in {"serving", "draining"} => at'[p] = Len(Startup[kind[p]])
    BY <1>a, AdvanceEffect DEF LifeInv
  <1> QED
    BY <1>1, <1>2, <1>3, <1>4 DEF Reached

\* Every step keeps what start-up stages promise.
LEMMA StagesStep ==
  ASSUME LifeInv, [Next]_vars
  PROVE  Stages'
  <1>a. kind' = kind /\ Deployed' = Deployed
    BY KindFixed DEF Deployed
  <1>b. \A q \in Deployed : Reached(q) /\ q \in Processes
    BY KindType DEF LifeInv, Stages
  <1>c. /\ phase \in [Processes -> Phases] /\ at \in [Processes -> Nat]
        /\ worker \in [Processes -> {"none", "idle", "busy"}]
        /\ serde \in [Processes -> [Subjects -> 0..MaxIds]] /\ MaxIds \in Nat
    BY LifecycleAssumption DEF LifeInv, ControlType, AvroType
  <1>1. ASSUME NEW p \in Deployed, Moves(p), NEW q \in Deployed, q # p
        PROVE  Reached(q)'
    <2>1. /\ phase'[q] = phase[q] /\ at'[q] = at[q] /\ worker'[q] = worker[q]
          /\ serde'[q] = serde[q]
      BY <1>1, <1>b, OthersStay
    <2>2. \A s : Past(q, s)' <=> Past(q, s)
      BY <1>a, <2>1 DEF Past
    <2>3. Len(ddl) = Migrations => Len(ddl') = Migrations
      BY <1>1, StaysMigrated
    <2> QED
      BY <1>a, <1>b, <2>1, <2>2, <2>3 DEF Reached
  <1>2. ASSUME NEW p \in Deployed, Acquire(p) PROVE Reached(p)'
    <2>1. /\ Advance(p) /\ phase[p] = "starting" /\ Stage(p) \in Deferred \cup {"listen"}
          /\ serde' = serde
      BY <1>2 DEF Acquire, avro
    <2> QED
      BY <1>2, <1>a, <2>1, AdvanceReached DEF Moves, Deferred
  <1>3. ASSUME NEW p \in Deployed, MigrateRead(p) PROVE Reached(p)'
    <2>1. /\ phase[p] = "starting" /\ Stage(p) = "migrate" /\ serde' = serde /\ ddl' = ddl
          /\ \/ Advance(p) /\ Len(applied) = Migrations
             \/ UNCHANGED <<phase, at, code, worker>>
      BY <1>3 DEF MigrateRead, Starting, avro
    <2>2. CASE Advance(p) /\ Len(applied) = Migrations
      <3>1. Len(ddl) = Migrations
        BY <2>2 DEF LifeInv, Schema
      <3> QED
        BY <1>3, <1>a, <2>1, <2>2, <3>1, AdvanceReached DEF Moves
    <2>3. CASE UNCHANGED <<phase, at, code, worker>>
      BY <1>a, <1>b, <2>1, <2>3 DEF Reached, Past
    <2> QED
      BY <2>1, <2>2, <2>3
  <1>4. ASSUME NEW p \in Deployed, NEW s \in Subjects, NEW id \in 1..MaxIds, Register(p, s, id)
        PROVE  Reached(p)'
    <2>1. /\ phase[p] = "starting" /\ Stage(p) = "serde" /\ serde[p][s] = 0 /\ ddl' = ddl
          /\ serde' = [serde EXCEPT ![p][s] = id]
          /\ s = "estimate.ready-value" => serde[p]["voyage.created-value"] # 0 /\ Advance(p)
          /\ s # "estimate.ready-value" => UNCHANGED <<phase, at, code, worker>>
      BY <1>4 DEF Register, Starting, schema
    <2>2. ~Past(p, "serde")
      BY <1>b, <2>1 DEF Reached
    <2>3. CASE s = "estimate.ready-value"
      <3>1. \A t \in Subjects : serde'[p][t] # 0
        <4>1. serde'[p] = [serde[p] EXCEPT ![s] = id]
          BY <1>b, <1>c, <2>1
        <4>2. serde[p] \in [Subjects -> 0..MaxIds]
          BY <1>b, <1>c
        <4>3. \A t \in Subjects : serde'[p][t] = IF t = s THEN id ELSE serde[p][t]
          BY <4>1, <4>2
        <4>4. id # 0
          BY <1>c
        <4> QED
          BY <2>1, <2>3, <4>3, <4>4 DEF Subjects
      <3>2. Moves(p)
        BY <1>4 DEF Moves
      <3> QED
        BY <1>a, <2>1, <2>2, <2>3, <3>1, <3>2, AdvanceReached
    <2>4. CASE s # "estimate.ready-value"
      BY <1>a, <1>b, <2>1, <2>2, <2>4 DEF Reached, Past
    <2> QED
      BY <2>3, <2>4
  <1>5. ASSUME NEW p \in Deployed, Exit(p) \/ Kill(p) PROVE Reached(p)'
    <2>1. at'[p] = 1 /\ worker'[p] = "none" /\ phase'[p] = "down"
      BY <1>5, <1>b, <1>c DEF Exit, Kill, Gone
    <2>2. \A s : ~Past(p, s)'
      BY <2>1 DEF Past
    <2> QED
      BY <2>1, <2>2 DEF Reached
  <1>6. ASSUME NEW p \in Deployed, Moves(p), at' = at, serde' = serde,
               worker'[p] = "none" \/ worker[p] # "none",
               phase'[p] \in {"serving", "draining"} => phase[p] \in {"serving", "draining"}
        PROVE  Reached(p)'
    <2>1. \A s : Past(p, s)' <=> Past(p, s)
      BY <1>6, <1>a DEF Past
    <2>2. Len(ddl) = Migrations => Len(ddl') = Migrations
      BY <1>6, StaysMigrated
    <2> QED
      BY <1>6, <1>a, <1>b, <2>1, <2>2 DEF Reached
  <1>7. ASSUME NEW p \in Deployed,
               \/ MigrateUp(p) \/ MigrateConflict(p) \/ MigrateCommit(p)
               \/ StartFails(p) \/ Interrupted(p) \/ Stop(p) \/ Drained(p) \/ ServeFails(p)
               \/ (\E r \in Deferred : Close(p, r)) \/ Restart(p)
        PROVE  Reached(p)'
    <2>1. at' = at /\ serde' = serde /\ worker' = worker
      BY <1>7
      DEF control, avro, MigrateUp, MigrateConflict, MigrateCommit, StartFails, Interrupted,
          Stop, Drained, ServeFails, Close, Restart
    <2>2. phase'[p] \in {"serving", "draining"} => phase[p] \in {"serving", "draining"}
      BY <1>7, <1>b, <1>c
      DEF control, Unwind, MigrateUp, MigrateConflict, MigrateCommit, StartFails, Interrupted,
          Stop, Drained, ServeFails, Close, Restart
    <2>3. Moves(p)
      BY <1>7 DEF Moves
    <2> QED
      BY <1>6, <2>1, <2>2, <2>3
  <1>8. ASSUME NEW p \in Deployed,
               \/ CallBegin(p) \/ CallAcquire(p) \/ CallRelease(p) \/ CallFails(p)
               \/ CallEnd(p) \/ WorkBegin(p) \/ WorkEnd(p) \/ Signal(p)
        PROVE  Reached(p)'
    <2>1. at' = at /\ serde' = serde /\ phase' = phase
      BY <1>8
      DEF control, avro, CallBegin, CallAcquire, CallRelease, CallFails, CallEnd, WorkBegin,
          WorkEnd, Signal
    <2>2. worker'[p] = "none" \/ worker[p] # "none"
      BY <1>8, <1>b, <1>c
      DEF CallBegin, CallAcquire, CallRelease, CallFails, CallEnd, WorkBegin, WorkEnd, Signal
    <2>3. Moves(p)
      BY <1>8 DEF Moves
    <2> QED
      BY <1>6, <2>1, <2>2, <2>3
  <1>9. ASSUME NEW p \in Deployed, Moves(p) PROVE Reached(p)'
    BY <1>2, <1>3, <1>4, <1>5, <1>7, <1>8, <1>9 DEF Moves
  <1>10. CASE UNCHANGED vars
    BY <1>10, <1>a, <1>b DEF vars, control, schema, avro, Stages, Reached, Past
  <1> QED
    BY <1>1, <1>9, <1>10, <1>a, StepCases DEF Stages
-----------------------------------------------------------------------------
(* Calls and the background loops.                                         *)

\* What a step of p does to what the calls of other processes hold: nothing.
LEMMA OthersHold ==
  ASSUME LifeInv, NEW p \in Deployed, Moves(p), NEW q \in Processes, q # p
  PROVE  holding'[q] <=> holding[q]
  <1>1. holding \in [Processes -> BOOLEAN]
    BY DEF LifeInv, Flags
  <1>2. holding' = holding \/ \E x \in BOOLEAN : holding' = [holding EXCEPT ![p] = x]
    BY Zenon
    DEF Moves, calls, Acquire, MigrateRead, Register, MigrateUp, MigrateConflict,
        MigrateCommit, StartFails, Interrupted, Stop, Drained, ServeFails, Close, Exit, Kill,
        Gone, Restart, CallBegin, CallAcquire, CallRelease, CallFails, CallEnd, WorkBegin,
        WorkEnd, Signal
  <1> QED
    BY <1>1, <1>2, Zenon

\* Steps of p that leave its call alone and close nothing.
LEMMA CallKept ==
  ASSUME LifeInv, NEW p \in Deployed, kind' = kind, UNCHANGED calls, open[p] \subseteq open'[p],
         worker'[p] = "busy" => worker[p] = "busy",
         phase'[p] \in {"down", "starting"} => phase[p] \in {"down", "starting"},
         phase'[p] = "draining" => phase[p] = "draining" \/ kind[p] \in GrpcKinds
  PROVE  Holds(p)'
  <1>1. Holds(p)
    BY DEF LifeInv, Held
  <1>2. holding' = holding /\ call' = call
    BY DEF calls
  <1>3. (CallUses(p)' <=> CallUses(p)) /\ CallNeeds(p)' = CallNeeds(p)
    BY <1>2 DEF CallUses, CallNeeds
  <1> QED
    BY <1>1, <1>2, <1>3 DEF Holds

\* Every step keeps calls within what is open.
LEMMA HeldStep ==
  ASSUME LifeInv, [Next]_vars
  PROVE  Held'
  <1>a. kind' = kind /\ Deployed' = Deployed
    BY KindFixed DEF Deployed
  <1>b. \A q \in Deployed : Holds(q) /\ q \in Processes /\ kind[q] \in Kinds
    BY KindType DEF LifeInv, Held
  <1>c. /\ phase \in [Processes -> Phases] /\ call \in [Processes -> 0..2]
        /\ worker \in [Processes -> {"none", "idle", "busy"}]
        /\ open \in [Processes -> SUBSET Deferred]
    BY DEF LifeInv, ControlType
  <1>d. holding \in [Processes -> BOOLEAN]
    BY DEF LifeInv, Flags
  <1>1. ASSUME NEW p \in Deployed, Moves(p), NEW q \in Deployed, q # p
        PROVE  Holds(q)'
    <2>1. /\ phase'[q] = phase[q] /\ call'[q] = call[q] /\ worker'[q] = worker[q]
          /\ open'[q] = open[q]
      BY <1>1, <1>b, OthersStay
    <2>2. holding'[q] <=> holding[q]
      BY <1>1, <1>b, OthersHold
    <2>3. (CallUses(q)' <=> CallUses(q)) /\ CallNeeds(q)' = CallNeeds(q)
      BY <1>a, <2>1 DEF CallUses, CallNeeds
    <2> QED
      BY <1>a, <1>b, <2>1, <2>2, <2>3 DEF Holds
  <1>2. ASSUME NEW p \in Deployed, Acquire(p) PROVE Holds(p)'
    <2>1. /\ Advance(p) /\ phase[p] = "starting" /\ UNCHANGED calls
          /\ open' = [open EXCEPT ![p] = @ \cup ({Stage(p)} \cap Deferred)]
      BY <1>2 DEF Acquire
    <2>2. open[p] \subseteq open'[p]
      BY <1>b, <1>c, <2>1
    <2>3. /\ worker'[p] = "busy" => worker[p] = "busy"
          /\ phase'[p] # "draining"
      BY <1>b, <1>c, <2>1, AdvanceEffect DEF LifeInv
    <2> QED
      BY <1>a, <2>1, <2>2, <2>3, CallKept
  <1>3. ASSUME NEW p \in Deployed,
               MigrateRead(p) \/ \E s \in Subjects, id \in 1..MaxIds : Register(p, s, id)
        PROVE  Holds(p)'
    <2>1. /\ phase[p] = "starting" /\ UNCHANGED calls /\ open' = open
          /\ Advance(p) \/ UNCHANGED <<phase, worker>>
      BY <1>3 DEF MigrateRead, Register, Starting
    <2>2. /\ worker'[p] = "busy" => worker[p] = "busy"
          /\ phase'[p] # "draining"
      BY <1>b, <1>c, <2>1, AdvanceEffect DEF LifeInv
    <2> QED
      BY <1>a, <2>1, <2>2, CallKept
  <1>4. ASSUME NEW p \in Deployed,
               \/ MigrateUp(p) \/ MigrateConflict(p) \/ MigrateCommit(p)
               \/ StartFails(p) \/ Interrupted(p) \/ Stop(p) \/ Drained(p) \/ ServeFails(p)
               \/ Restart(p)
        PROVE  Holds(p)'
    <2>1. UNCHANGED calls /\ open' = open /\ worker' = worker
      BY <1>4
      DEF control, MigrateUp, MigrateConflict, MigrateCommit, StartFails, Interrupted, Stop,
          Drained, ServeFails, Restart
    <2>2. /\ phase'[p] \in {"down", "starting"} => phase[p] \in {"down", "starting"}
          /\ phase'[p] = "draining" => phase[p] = "draining" \/ kind[p] \in GrpcKinds
      BY <1>4, <1>b, <1>c
      DEF control, Unwind, MigrateUp, MigrateConflict, MigrateCommit, StartFails, Interrupted,
          Stop, Drained, ServeFails, Restart
    <2> QED
      BY <1>a, <2>1, <2>2, CallKept
  <1>5. ASSUME NEW p \in Deployed, NEW r \in Deferred, Close(p, r) PROVE Holds(p)'
    <2>1. /\ phase' = phase /\ worker' = worker /\ phase[p] = "closing" /\ CanClose(p, r)
          /\ open' = [open EXCEPT ![p] = @ \ {r}]
      BY <1>5 DEF Close
    <2>2. open'[p] = open[p] \ {r}
      BY <1>b, <1>c, <2>1
    <2>3. kind[p] = "voyage" /\ worker[p] = "busy" => "pool" \in open'[p]
      BY <1>b, <2>1, <2>2 DEF CanClose, Holds
    <2>4. CASE r = "conn" /\ holding[p] /\ CallNeeds(p) = "conn"
      <3>1. holding' = [holding EXCEPT ![p] = FALSE]
        BY <1>5, <2>4 DEF Close
      <3>2. ~holding'[p]
        BY <1>b, <1>d, <3>1, Zenon
      <3> QED
        BY <1>a, <2>1, <2>3, <3>2 DEF Holds
    <2>5. CASE ~(r = "conn" /\ holding[p] /\ CallNeeds(p) = "conn")
      <3>1. UNCHANGED calls
        BY <1>5, <2>5 DEF Close
      <3>2. holding' = holding /\ call' = call
        BY <3>1 DEF calls
      <3>3. (CallUses(p)' <=> CallUses(p)) /\ CallNeeds(p)' = CallNeeds(p)
        BY <1>a, <3>2 DEF CallUses, CallNeeds
      <3>4. ASSUME holding[p] PROVE CallUses(p) /\ CallNeeds(p) \in open'[p]
        <4>1. CallUses(p) /\ CallNeeds(p) \in open[p]
          BY <1>b, <3>4 DEF Holds
        <4>2. CallNeeds(p) \in {"pool", "conn"}
          <5>1. call[p] \in 1..Len(Uses[kind[p]])
            BY <1>b, <1>c, <4>1, UsesList DEF CallUses
          <5> QED
            BY <1>b, <5>1, UsesList DEF CallNeeds
        <4>3. CallNeeds(p) # r
          BY <2>1, <2>5, <3>4, <4>1, <4>2 DEF CanClose
        <4> QED
          BY <2>2, <4>1, <4>3
      <3> QED
        BY <1>a, <1>b, <2>1, <2>3, <3>2, <3>3, <3>4 DEF Holds
    <2> QED
      BY <2>4, <2>5
  <1>6. ASSUME NEW p \in Deployed, Exit(p) \/ Kill(p) PROVE Holds(p)'
    <2>1. /\ call' = [call EXCEPT ![p] = 0] /\ worker' = [worker EXCEPT ![p] = "none"]
          /\ phase' = [phase EXCEPT ![p] = "down"]
          /\ holding' = [holding EXCEPT ![p] = FALSE]
      BY <1>6 DEF Exit, Kill, Gone
    <2>2. call'[p] = 0 /\ worker'[p] = "none" /\ phase'[p] = "down"
      BY <1>b, <1>c, <2>1
    <2>3. ~holding'[p]
      BY <1>b, <1>d, <2>1, Zenon
    <2> QED
      BY <2>2, <2>3 DEF Holds
  <1>7. ASSUME NEW p \in Deployed, CallBegin(p) \/ CallFails(p) \/ CallEnd(p) PROVE Holds(p)'
    <2>1. /\ UNCHANGED <<phase, open, holding, worker>>
          /\ phase[p] \in {"down", "starting"} => call' = [call EXCEPT ![p] = 0]
      BY <1>7 DEF CallBegin, CallFails, CallEnd, control
    <2>2. ~holding[p]
      BY <1>7, <1>b DEF Holds, CallBegin, CallFails, CallEnd, CallUses
    <2>3. phase[p] \in {"down", "starting"} => call'[p] = 0
      BY <1>b, <1>c, <2>1
    <2> QED
      BY <1>a, <1>b, <2>1, <2>2, <2>3 DEF Holds
  <1>8. ASSUME NEW p \in Deployed, CallAcquire(p) PROVE Holds(p)'
    <2>1. /\ UNCHANGED <<phase, open, call, worker>> /\ CallUses(p) /\ CallNeeds(p) \in open[p]
      BY <1>8 DEF CallAcquire, control, Usable
    <2>2. (CallUses(p)' <=> CallUses(p)) /\ CallNeeds(p)' = CallNeeds(p)
      BY <1>a, <2>1 DEF CallUses, CallNeeds
    <2> QED
      BY <1>a, <1>b, <2>1, <2>2 DEF Holds
  <1>9. ASSUME NEW p \in Deployed, CallRelease(p) PROVE Holds(p)'
    <2>1. /\ UNCHANGED <<phase, open, worker>> /\ holding[p]
          /\ holding' = [holding EXCEPT ![p] = FALSE]
      BY <1>9 DEF CallRelease, control
    <2>2. ~holding'[p]
      BY <1>b, <1>d, <2>1, Zenon
    <2>3. phase[p] \notin {"down", "starting"}
      BY <1>b, <2>1 DEF Holds, CallUses
    <2> QED
      BY <1>a, <1>b, <2>1, <2>2, <2>3 DEF Holds
  <1>10. ASSUME NEW p \in Deployed, WorkBegin(p) \/ WorkEnd(p) \/ Signal(p) PROVE Holds(p)'
    <2>1. UNCHANGED <<phase, open, call, holding>>
      BY <1>10 DEF WorkBegin, WorkEnd, Signal, control, calls
    <2>2. kind[p] = "voyage" /\ worker'[p] = "busy" => "pool" \in open[p]
      BY <1>10, <1>b, <1>c DEF WorkBegin, WorkEnd, Signal, Usable, Holds
    <2>3. (CallUses(p)' <=> CallUses(p)) /\ CallNeeds(p)' = CallNeeds(p)
      BY <1>a, <2>1 DEF CallUses, CallNeeds
    <2> QED
      BY <1>a, <1>b, <2>1, <2>2, <2>3 DEF Holds
  <1>11. ASSUME NEW p \in Deployed, Moves(p) PROVE Holds(p)'
    BY <1>2, <1>3, <1>4, <1>5, <1>6, <1>7, <1>8, <1>9, <1>10, <1>11 DEF Moves
  <1>12. CASE UNCHANGED vars
    BY <1>12, <1>a, <1>b
    DEF vars, control, calls, Held, Holds, CallUses, CallNeeds
  <1> QED
    BY <1>1, <1>11, <1>12, <1>a, StepCases DEF Held

\* Every step keeps the order of a graceful stop: calls first.
LEMMA DrainsStep ==
  ASSUME LifeInv, [Next]_vars
  PROVE  DrainsFirst'
  <1>a. kind' = kind /\ Deployed' = Deployed
    BY KindFixed DEF Deployed
  <1>b. \A q \in Deployed : Holds(q) /\ q \in Processes
    BY KindType DEF LifeInv, Held
  <1>c. /\ phase \in [Processes -> Phases] /\ call \in [Processes -> 0..2]
        /\ code \in [Processes -> {"none", "ok", "error"}]
    BY DEF LifeInv, ControlType
  <1>d. DrainsFirst
    BY DEF LifeInv
  <1> DEFINE Ordered(q) == kind[q] \in GrpcKinds /\ phase[q] = "closing" /\ call[q] # 0
                              => code[q] = "error"
  <1>1. ASSUME NEW p \in Deployed, Moves(p), NEW q \in Deployed, q # p PROVE Ordered(q)'
    <2>1. phase'[q] = phase[q] /\ call'[q] = call[q] /\ code'[q] = code[q]
      BY <1>1, <1>b, OthersStay
    <2> QED
      BY <1>a, <1>d, <2>1 DEF DrainsFirst
  <1>2. ASSUME NEW p \in Deployed,
               \/ Acquire(p) \/ MigrateRead(p)
               \/ \E s \in Subjects, id \in 1..MaxIds : Register(p, s, id)
        PROVE  Ordered(p)'
    <2>1. phase[p] = "starting" /\ call' = call
      BY <1>2 DEF Acquire, MigrateRead, Register, Starting, calls
    <2>2. call'[p] = 0
      BY <1>b, <2>1 DEF Holds
    <2> QED
      BY <2>2
  <1>3. ASSUME NEW p \in Deployed,
               \/ MigrateConflict(p) \/ StartFails(p) \/ Interrupted(p) \/ ServeFails(p)
               \/ Exit(p) \/ Kill(p) \/ Restart(p) \/ Stop(p)
        PROVE  Ordered(p)'
    <2>1. \/ code' = [code EXCEPT ![p] = "error"]
          \/ phase' = [phase EXCEPT ![p] = "down"]
          \/ phase' = [phase EXCEPT ![p] = "starting"]
          \/ phase' = [phase EXCEPT ![p] = "draining"]
          \/ kind[p] \notin GrpcKinds
      BY <1>3
      DEF MigrateConflict, StartFails, Interrupted, ServeFails, Exit, Kill, Gone, Restart,
          Stop, Unwind
    <2> QED
      BY <1>a, <1>b, <1>c, <2>1
  <1>4. ASSUME NEW p \in Deployed, Drained(p) PROVE Ordered(p)'
    <2>1. call'[p] = 0
      BY <1>4 DEF Drained, calls
    <2> QED
      BY <2>1
  <1>5. ASSUME NEW p \in Deployed,
               \/ MigrateUp(p) \/ MigrateCommit(p) \/ (\E r \in Deferred : Close(p, r))
               \/ CallBegin(p) \/ CallAcquire(p) \/ CallRelease(p) \/ CallFails(p)
               \/ CallEnd(p) \/ WorkBegin(p) \/ WorkEnd(p) \/ Signal(p)
        PROVE  Ordered(p)'
    <2>1. phase' = phase /\ code' = code
      BY <1>5
      DEF MigrateUp, MigrateCommit, Close, CallBegin, CallAcquire, CallRelease, CallFails,
          CallEnd, WorkBegin, WorkEnd, Signal, control
    <2>2. \/ call' = call \/ call' = [call EXCEPT ![p] = 0]
          \/ phase[p] = "serving" \/ holding[p]
      BY <1>5
      DEF MigrateUp, MigrateCommit, Close, CallBegin, CallAcquire, CallRelease, CallFails,
          CallEnd, WorkBegin, WorkEnd, Signal, calls
    <2>3. holding[p] => call[p] # 0
      BY <1>b DEF Holds, CallUses
    <2> QED
      BY <1>a, <1>b, <1>c, <1>d, <2>1, <2>2, <2>3 DEF DrainsFirst
  <1>6. ASSUME NEW p \in Deployed, Moves(p) PROVE Ordered(p)'
    BY <1>2, <1>3, <1>4, <1>5, <1>6 DEF Moves
  <1>7. CASE UNCHANGED vars
    BY <1>7, <1>a, <1>d DEF vars, control, calls, DrainsFirst
  <1> QED
    BY <1>1, <1>6, <1>7, <1>a, StepCases DEF DrainsFirst
-----------------------------------------------------------------------------
(* The theorems.                                                           *)

\* A deployment that has just been started satisfies the invariant.
LEMMA InitLifeInv == Init => LifeInv
  <1> SUFFICES ASSUME Init PROVE LifeInv
    OBVIOUS
  <1>a. kind \in Deployments /\ \A p \in Deployed : p \in Processes /\ kind[p] \in Kinds
    BY KindType DEF Init
  <1>b. \A p \in Processes : /\ at[p] = 1 /\ call[p] = 0 /\ worker[p] = "none"
                             /\ phase[p] \in {"down", "starting"}
    BY DEF Init
  <1>1. ControlType
    <2>1. \A p \in Deployed : at[p] \in 1..Len(Startup[kind[p]])
      BY <1>a, <1>b, StageOrder
    <2>2. /\ phase \in [Processes -> Phases] /\ at \in [Processes -> Nat]
          /\ open \in [Processes -> SUBSET Deferred]
      BY DEF Init, Phases
    <2>3. /\ code \in [Processes -> {"none", "ok", "error"}]
          /\ worker \in [Processes -> {"none", "idle", "busy"}]
          /\ call \in [Processes -> 0..2] /\ faults \in 0..MaxFaults
      BY LifecycleAssumption DEF Init
    <2> QED
      BY <2>1, <2>2, <2>3 DEF ControlType
  <1>2. Flags
    BY Zenon DEF Init, Flags
  <1>3. AvroType
    BY LifecycleAssumption DEF Init, AvroType
  <1>4. Schema
    BY LifecycleAssumption DEF Init, Schema, Unread
  <1>5. Stages
    BY <1>a, <1>b DEF Stages, Reached, Past
  <1>6. Held
    <2>1. \A p \in Processes : ~holding[p]
      BY Zenon DEF Init
    <2> QED
      BY <1>a, <1>b, <2>1 DEF Held, Holds
  <1>7. DrainsFirst
    BY <1>a, <1>b DEF DrainsFirst
  <1> QED
    BY <1>a, <1>1, <1>2, <1>3, <1>4, <1>5, <1>6, <1>7 DEF LifeInv

\* Every step of every process keeps it.
LEMMA LifeInvStep == LifeInv /\ [Next]_vars => LifeInv'
  <1> SUFFICES ASSUME LifeInv, [Next]_vars PROVE LifeInv'
    OBVIOUS
  <1>1. kind' \in Deployments
    BY KindFixed DEF LifeInv
  <1> QED
    BY <1>1, ControlTypeStep, FlagsStep, AvroTypeStep, SchemaStep, StagesStep, HeldStep,
       DrainsStep DEF LifeInv

\* Every variable of a deployment always has its type (TypeOK).
THEOREM TypeCorrect == SafeSpec => []TypeOK
  <1>1. LifeInv => TypeOK
    <2> SUFFICES ASSUME LifeInv PROVE TypeOK
      OBVIOUS
    <2>1. /\ ddl \in Seq(1..Migrations) /\ applied \in Seq(1..Migrations)
          /\ tx \in [Processes -> 0..Migrations]
      BY DEF LifeInv, Schema
    <2>2. seen \in [Processes -> Unread..Migrations]
      <3>1. Migrations \in Nat
        BY LifecycleAssumption
      <3>2. \A n \in Unread..(Migrations - 1) : n \in Unread..Migrations
        BY <3>1 DEF Unread
      <3>3. seen \in [Processes -> Unread..(Migrations - 1)]
        BY DEF LifeInv, Schema
      <3> QED
        BY <3>2, <3>3
    <2> QED
      BY <2>1, <2>2 DEF LifeInv, ControlType, Flags, AvroType, TypeOK
  <1> QED
    BY <1>1, InitLifeInv, LifeInvStep, PTL DEF SafeSpec

\* "On cancellation it stops gracefully" (serve.go): a gRPC service that was told to
\* stop closes nothing under a call in progress; only a broken listener makes it.
THEOREM GracefulStop == SafeSpec => []DrainsFirst
  <1>1. LifeInv => DrainsFirst
    BY DEF LifeInv
  <1> QED
    BY <1>1, InitLifeInv, LifeInvStep, PTL DEF SafeSpec

\* However many processes migrate the database at the same time, without a lock, and
\* wherever they die: every file is applied at most once and in order, the version
\* table tells which, and no voyage service serves before all of them are.
THEOREM ServesOnFullSchema == SafeSpec => []ServesMigrated
  <1>1. LifeInv => ServesMigrated
    <2> SUFFICES ASSUME LifeInv PROVE ServesMigrated
      OBVIOUS
    <2>1. MigratedInOrder
      BY DEF LifeInv, Schema, MigratedInOrder
    <2>2. ASSUME NEW p \in Deployed, kind[p] = "voyage", phase[p] \in {"serving", "draining"}
          PROVE  Len(applied) = Migrations
      <3>1. Reached(p) /\ applied = ddl
        BY DEF LifeInv, Stages, Schema
      <3>2. at[p] = Len(Startup[kind[p]])
        BY <2>2, <3>1 DEF Reached
      <3>3. 2 \in 1..(at[p] - 1) /\ Startup[kind[p]][2] = "migrate"
        BY <2>2, <3>2, StageOrder DEF Kinds
      <3> QED
        BY <3>1, <3>3 DEF Reached, Past
    <2> QED
      BY <2>1, <2>2 DEF ServesMigrated
  <1> QED
    BY <1>1, InitLifeInv, LifeInvStep, PTL DEF SafeSpec

\* Decoding does not depend on the ids the registry gives out: any process that
\* consumes can decode an event framed with any id ever given out for it.
THEOREM AlwaysDecodes == SafeSpec => []FramesDecode
  <1>1. LifeInv => FramesDecode
    BY DEF LifeInv, Stages, Reached, FramesDecode, Decode, Encode
  <1> QED
    BY <1>1, InitLifeInv, LifeInvStep, PTL DEF SafeSpec

\* A voyage service that exits has no statement under way, although nobody waits for
\* its background loops: what holds a connection keeps the pool open.
THEOREM NoStatementCut == SafeSpec => ExitCutsNoStatement
  <1>1. ASSUME LifeInv, NEW p \in Deployed, kind[p] = "voyage", open[p] = {}
        PROVE  worker[p] # "busy" /\ ~holding[p]
    BY <1>1 DEF LifeInv, Held, Holds
  <1>2. LifeInv /\ [Next]_vars =>
          [\A p \in Deployed :
              kind[p] = "voyage" /\ phase[p] = "closing" /\ open[p] = {} /\ phase'[p] = "down"
                => worker[p] # "busy" /\ ~holding[p]]_vars
    BY <1>1
  <1> QED
    BY <1>2, InitLifeInv, LifeInvStep, PTL DEF SafeSpec, ExitCutsNoStatement
=============================================================================
