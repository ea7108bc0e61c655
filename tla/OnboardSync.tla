----------------------------- MODULE OnboardSync -----------------------------
(***************************************************************************)
(* The onBOARD sync client: the Syncer (Enqueue, SyncOnce) over its JSONL  *)
(* disk queue and its GraphQL transport, against the shore's voyages.      *)
(*                                                                         *)
(* One goroutine enqueues and one syncs; only single store calls exclude   *)
(* each other (the store's mutex).  The queue file survives a crash, the   *)
(* rest of the client does not.  A request whose deadline passed may still *)
(* reach the shore later, after requests sent after it.                    *)
(***************************************************************************)
EXTENDS Integers, Sequences, FiniteSets, Bags, SequencesExt

CONSTANTS
    Voyages,       \* client_request_ids
    Contents,      \* what an operation carries besides its id and version
    Unpriceable,   \* contents the estimator refuses to price
    MaxVersion,    \* bound on the versions the vessel's counter reaches
    MaxLines,      \* bound on the lines of the queue file
    Concurrent,    \* whether Enqueue may run while SyncOnce does
    WaitForCreate, \* whether the caller edits a voyage only once it is ashore
    Faults,        \* which faults may happen, a subset of FaultKinds
    MaxFaults,     \* bound on how many faults happen
    None,          \* no operation
    Torn           \* a line that is not valid JSON

FaultKinds ==
    {"network",  \* a Send fails; its request may still arrive later
     "append",   \* writing or syncing a line fails
     "compact",  \* rewriting the file fails
     "crash",    \* the process is killed
     "tear"}     \* the machine stops while a line is being written

Creates == [kind : {"create"}, id : Voyages, version : {1}, content : Contents]
Updates == [kind : {"update"}, id : Voyages, version : 2..MaxVersion, content : Contents]
Operations == Creates \cup Updates

ASSUME SyncAssumption ==
    /\ IsFiniteSet(Voyages)
    /\ MaxVersion \in Nat \ {0} /\ MaxLines \in Nat /\ MaxFaults \in Nat
    /\ Concurrent \in BOOLEAN /\ WaitForCreate \in BOOLEAN
    /\ Faults \subseteq FaultKinds
    /\ Unpriceable \subseteq Contents
    /\ None \notin Operations \cup {Torn} /\ Torn \notin Operations

VARIABLES
    row,      \* the shore: per voyage its version (0: no row) and content
    late,     \* requests the client gave up on that may still arrive
    up,       \* the client process is running, with the store open
    ops,      \* the store's map: per voyage its pending operation
    file,     \* the queue file, line by line
    ended,    \* its last line ends in a newline
    todo,     \* SyncOnce: operations of its snapshot still to attempt
    sent,     \* SyncOnce: operation the shore accepted, not yet acked
    merged,   \* Enqueue: operation to append, chosen from what was pending
    accepted, \* per voyage: the highest operation that became durable here
    faults    \* how many faults have happened

client == <<ops, file, ended, todo, sent, merged>>
vars == <<row, late, up, client, accepted, faults>>

Init ==
    /\ row = [v \in Voyages |-> [version |-> 0, content |-> None]]
    /\ late = EmptyBag
    /\ up = TRUE
    /\ ops = [v \in Voyages |-> None]
    /\ file = <<>> /\ ended = TRUE
    /\ todo = {} /\ sent = None /\ merged = None
    /\ accepted = [v \in Voyages |-> None]
    /\ faults = 0

Fault(k) ==
    /\ k \in Faults
    /\ faults < MaxFaults
    /\ faults' = faults + 1
-----------------------------------------------------------------------------
(* The shore, reached through the gateway: CreateVoyage is idempotent,     *)
(* UpdateVoyage lets the higher version win and needs an existing voyage.  *)

\* A create that is carried out answers with a quote of the stored voyage.
Quoted(op) == op.kind = "update" \/ row'[op.id].content \notin Unpriceable

Found(op) == op.kind = "create" \/ row[op.id].version # 0

Lands(op) ==
    \/ op.kind = "create" /\ row[op.id].version = 0
    \/ op.kind = "update" /\ row[op.id].version \in 1..(op.version - 1)

Serve(op) ==
    row' = IF Lands(op)
           THEN [row EXCEPT ![op.id] = [version |-> op.version, content |-> op.content]]
           ELSE row

\* A request the client gave up on arrives.
LateArrives(op) ==
    /\ BagIn(op, late)
    /\ Serve(op)
    /\ late' = late (-) SetToBag({op})
    /\ UNCHANGED <<up, client, accepted, faults>>
-----------------------------------------------------------------------------
(* jsonlstore.Store: the queue file.                                       *)

\* load: the last line of each id wins.
Replay(f) ==
    [v \in Voyages |->
        LET lines == {i \in 1..Len(f) : f[i] # Torn /\ f[i].id = v}
        IN  IF lines = {} THEN None ELSE f[Max(lines)]]

Parses(f) == \A i \in 1..Len(f) : f[i] # Torn

\* Append's write: on a file that does not end in a newline the new line runs on
\* from the last one, and the two together are no JSON value.
Written(op) ==
    IF ended \/ file = <<>> THEN Append(file, op)
    ELSE [file EXCEPT ![Len(file)] = Torn]

Pending(m) == {m[v] : v \in Voyages} \ {None}

\* Mutant of Compacted: the buffered writer is not flushed.
CompactedUnflushed(m) == <<>>

\* compact: one line per pending operation, renamed over the old file.
Compacted(m) == SetToSeq(Pending(m))

Without(op) == [ops EXCEPT ![op.id] = None]
-----------------------------------------------------------------------------
(* Syncer.Enqueue.                                                         *)

\* Mutant of HigherVersionWins: a tie takes the incoming operation.
IncomingWinsTie(current, incoming) ==
    IF incoming.version >= current.version THEN incoming ELSE current

HigherVersionWins(current, incoming) ==
    IF incoming.version > current.version THEN incoming ELSE current

\* What the caller may enqueue: edits are of voyages it has created.
Offered(op) ==
    op.kind = "update" =>
        /\ accepted[op.id] # None
        /\ WaitForCreate => row[op.id].version # 0

\* Mutant of Enqueue: the pending operations are not looked at.
EnqueueUnmerged(op) ==
    /\ up /\ merged = None
    /\ Concurrent \/ (todo = {} /\ sent = None)
    /\ Offered(op)
    /\ Len(file) < MaxLines
    /\ merged' = op
    /\ UNCHANGED <<row, late, up, ops, file, ended, todo, sent, accepted, faults>>

\* Pending, and the merge with a pending operation of the same voyage.
Enqueue(op) ==
    /\ up /\ merged = None
    /\ Concurrent \/ (todo = {} /\ sent = None)
    /\ Offered(op)
    /\ Len(file) < MaxLines
    /\ merged' = IF ops[op.id] = None THEN op ELSE HigherVersionWins(ops[op.id], op)
    /\ UNCHANGED <<row, late, up, ops, file, ended, todo, sent, accepted, faults>>

\* op is durable: from here on it must not be lost.
Accept(op) ==
    accepted' = [accepted EXCEPT ![op.id] =
                    IF @ = None \/ op.version > @.version THEN op ELSE @]

\* store.Append: the map, the line, the sync.
AppendOp ==
    /\ merged # None
    /\ ops' = [ops EXCEPT ![merged.id] = merged]
    /\ file' = Written(merged) /\ ended' = TRUE
    /\ Accept(merged)
    /\ merged' = None
    /\ UNCHANGED <<row, late, up, todo, sent, faults>>

\* store.Append fails: the map has the operation; the file has nothing of it, the
\* whole line (the sync failed), or, after a short write, the beginning of it, at
\* best all but the newline.
AppendFails ==
    /\ Fault("append")
    /\ merged # None
    /\ ops' = [ops EXCEPT ![merged.id] = merged]
    /\ \/ UNCHANGED <<file, ended>>
       \/ file' = Written(merged) /\ ended' \in BOOLEAN
       \/ file' = Written(Torn) /\ ended' = FALSE
    /\ merged' = None
    /\ UNCHANGED <<row, late, up, todo, sent, accepted>>
-----------------------------------------------------------------------------
(* Syncer.SyncOnce.                                                        *)

Sending == sent = None /\ todo # {}

\* The snapshot of the queue; with nothing queued SyncOnce returns at once.
SyncBegin ==
    /\ up /\ sent = None /\ todo = {}
    /\ Concurrent \/ merged = None
    /\ todo' = Pending(ops)
    /\ UNCHANGED <<row, late, up, ops, file, ended, sent, merged, accepted, faults>>

\* A clean answer: the shore has accepted the operation.
Send(op) ==
    /\ Sending /\ op \in todo
    /\ Found(op)
    /\ Serve(op) /\ Quoted(op)
    /\ sent' = op
    /\ todo' = todo \ {op}
    /\ UNCHANGED <<late, up, ops, file, ended, merged, accepted, faults>>

\* An answer with a GraphQL error, "quote voyage failed", after the voyage was
\* created: the operation stays queued.
SendUnquoted(op) ==
    /\ Sending /\ op \in todo
    /\ Serve(op) /\ ~Quoted(op)
    /\ todo' = todo \ {op}
    /\ UNCHANGED <<late, up, ops, file, ended, sent, merged, accepted, faults>>

\* An answer with a GraphQL error, "voyage not found": the operation stays queued.
SendRejected(op) ==
    /\ Sending /\ op \in todo
    /\ ~Found(op)
    /\ todo' = todo \ {op}
    /\ UNCHANGED <<row, late, up, ops, file, ended, sent, merged, accepted, faults>>

\* Mutant of SendFails: a failed send is acked like a clean one.
SendFailsAcked(op) ==
    /\ Fault("network")
    /\ Sending /\ op \in todo
    /\ sent' = op
    /\ todo' = todo \ {op}
    /\ UNCHANGED <<row, late, up, ops, file, ended, merged, accepted>>

\* No answer within the deadline, or a broken connection: the operation stays
\* queued, its request is lost or still on its way.
SendFails(op) ==
    /\ Fault("network")
    /\ Sending /\ op \in todo
    /\ todo' = todo \ {op}
    /\ late' \in {late, late (+) SetToBag({op})}
    /\ UNCHANGED <<row, up, ops, file, ended, sent, merged, accepted>>

\* store.Ack: the pending operation of that id is dropped, the file compacted.
Ack ==
    /\ sent # None
    /\ ops' = Without(sent)
    /\ file' = Compacted(ops') /\ ended' = TRUE
    /\ sent' = None
    /\ UNCHANGED <<row, late, up, todo, merged, accepted, faults>>

\* compact fails before its rename: SyncOnce returns, the file is as it was.
AckFails ==
    /\ Fault("compact")
    /\ sent # None
    /\ ops' = Without(sent)
    /\ todo' = {} /\ sent' = None
    /\ UNCHANGED <<row, late, up, file, ended, merged, accepted>>
-----------------------------------------------------------------------------
(* Crashes and cold reopening.                                             *)

Stop ==
    /\ up' = FALSE
    /\ ops' = [v \in Voyages |-> None]
    /\ todo' = {} /\ sent' = None /\ merged' = None
    /\ UNCHANGED <<row, late>>

\* The process is killed; an Append or a compaction under way has happened or not.
Crash ==
    /\ Fault("crash")
    /\ up
    /\ Stop
    /\ \/ UNCHANGED <<file, ended, accepted>>
       \/ /\ merged # None
          /\ file' = Written(merged) /\ ended' = TRUE
          /\ Accept(merged)
       \/ /\ sent # None
          /\ file' = Compacted(Without(sent)) /\ ended' = TRUE
          /\ UNCHANGED accepted

\* The machine stops between Append's write and its sync: a prefix of the line is
\* on disk, at best all of it but the newline.
Tear ==
    /\ Fault("tear")
    /\ up /\ merged # None
    /\ Stop
    /\ \/ file' = Written(Torn)
       \/ file' = Written(merged)
    /\ ended' = FALSE
    /\ UNCHANGED accepted

\* Mutant of Reopen: the file is not replayed.
ReopenEmpty ==
    /\ ~up /\ Parses(file)
    /\ up' = TRUE
    /\ UNCHANGED <<row, late, client, accepted, faults>>

\* A fresh client over the same path: Open replays the file.
Reopen ==
    /\ ~up /\ Parses(file)
    /\ up' = TRUE
    /\ ops' = Replay(file)
    /\ UNCHANGED <<row, late, file, ended, todo, sent, merged, accepted, faults>>

\* Open fails on a line that does not parse, and New with it: there is no client.
ReopenFails ==
    /\ ~up /\ ~Parses(file)
    /\ UNCHANGED vars

SyncStep ==
    \/ SyncBegin
    \/ \E op \in todo : Send(op) \/ SendUnquoted(op) \/ SendRejected(op)
    \/ Ack

Next ==
    \/ \E op \in Operations : Enqueue(op)
    \/ AppendOp \/ AppendFails
    \/ SyncStep
    \/ \E op \in todo : SendFails(op)
    \/ AckFails
    \/ \E op \in BagToSet(late) : LateArrives(op)
    \/ Crash \/ Tear
    \/ Reopen \/ ReopenFails

SafeSpec == Init /\ [][Next]_vars

\* The caller keeps syncing ("retries are infinite while an operation is queued")
\* and restarts a client that crashed; an Append under way finishes.  Nothing
\* forces a request, a fault or the arrival of a late request.
Spec ==
    /\ SafeSpec
    /\ WF_vars(SyncStep)
    /\ WF_vars(AppendOp)
    /\ WF_vars(Reopen)
-----------------------------------------------------------------------------
(* Properties.                                                             *)

\* What Enqueue is about to append beats what is pending, although it was chosen in
\* an earlier call of the store: in between, acks only remove operations.
MergedWins ==
    merged # None /\ ops[merged.id] # None => merged.version >= ops[merged.id].version

\* Every variable has its type; SyncOnce and Enqueue run only in a live client, and
\* Enqueue never takes a pending operation back to a lower version.
TypeOK ==
    /\ row \in [Voyages -> [version : 0..MaxVersion, content : Contents \cup {None}]]
    /\ IsABag(late) /\ BagToSet(late) \subseteq Operations
    /\ up \in BOOLEAN /\ ended \in BOOLEAN
    /\ ops \in [Voyages -> Operations \cup {None}]
    /\ file \in Seq(Operations \cup {Torn})
    /\ todo \subseteq Operations
    /\ sent \in Operations \cup {None}
    /\ merged \in Operations \cup {None}
    /\ up \/ (todo = {} /\ sent = None /\ merged = None)
    /\ MergedWins
    /\ accepted \in [Voyages -> Operations \cup {None}]
    /\ faults \in 0..MaxFaults

\* "the queue survives a crash" (store.go): an operation on disk whose voyage is
\* pending leaves a readable queue file only by an ack of that voyage, and one that
\* memory and disk agree on is replaced only by its own or a higher version,
\* although every compaction writes the whole file anew, Enqueue and SyncOnce run at
\* the same time, and any append, compaction or crash stops half-way.
QueueOnDisk ==
    [][Parses(file') =>
        \A v \in Voyages :
            /\ ops[v] # None /\ Replay(file)[v] # None
            /\ sent = None \/ sent.id # v
            =>
            /\ Replay(file')[v] # None
            /\ ops[v] = Replay(file)[v] => Replay(file')[v].version >= ops[v].version
      ]_vars

\* Offline-first: a running client, one that was cold-reopened after any crash it
\* could be reopened from included, still has every operation that became durable,
\* or a higher one of the same voyage, or the shore has caught up with it.
NothingLost ==
    up => \A v \in Voyages :
            accepted[v] # None =>
                \/ ops[v] # None /\ ops[v].version >= accepted[v].version
                \/ row[v].version >= accepted[v].version

\* With nothing queued the shore holds exactly the vessel's highest edit, its
\* content included, however often requests were retried and however late and out
\* of order they arrived.
Converged ==
    \A v \in Voyages :
        accepted[v] # None /\ Replay(file)[v] = None =>
            row[v] = [version |-> accepted[v].version, content |-> accepted[v].content]

\* Every durable operation eventually takes effect ashore, itself or through a
\* higher version, once the faults stop.
QueueDrains ==
    \A v \in Voyages, n \in 1..MaxVersion :
        (accepted[v] # None /\ accepted[v].version >= n) ~> (row[v].version >= n)

\* "the queue survives a crash (cold-reopen)" (store.go): a client can always be
\* opened over the file a crash left behind.
ColdReopen == ~up => Parses(file)
=============================================================================
