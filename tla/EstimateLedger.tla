--------------------------- MODULE EstimateLedger ---------------------------
(***************************************************************************)
(* What the voyage table promises its readers about estimates, with no     *)
(* outbox, broker, consumer or failure in sight.  A voyage is created once *)
(* at version 1 with its estimate pending; an update only ever raises its  *)
(* version; an estimate is written at most once, only while the voyage is  *)
(* still at version 1, and it is exactly the price of the content the      *)
(* voyage has at that moment.  It states the contract of the schema        *)
(* ("authoritative estimate, populated asynchronously") as far as the code *)
(* keeps it: nothing here re-prices an updated voyage, and no code does.   *)
(***************************************************************************)
EXTENDS Integers

CONSTANTS Voyages,     \* client_request_ids
          Contents,    \* what is priced: distance and fees
          MaxVersion,  \* bound on the versions an update carries
          Null,        \* SQL NULL: no row content, no estimate
          Price(_)     \* the price of a content, or Null when it has none

VARIABLES version, content, estimate

vars == <<version, content, estimate>>

Init ==
    /\ version = [v \in Voyages |-> 0]
    /\ content = [v \in Voyages |-> Null]
    /\ estimate = [v \in Voyages |-> Null]

Create(v, c) ==
    /\ version[v] = 0
    /\ version' = [version EXCEPT ![v] = 1]
    /\ content' = [content EXCEPT ![v] = c]
    /\ UNCHANGED estimate

Update(v, n, c) ==
    /\ version[v] # 0
    /\ n > version[v]
    /\ version' = [version EXCEPT ![v] = n]
    /\ content' = [content EXCEPT ![v] = c]
    /\ UNCHANGED estimate

Estimate(v) ==
    /\ version[v] = 1
    /\ estimate[v] = Null
    /\ Price(content[v]) # Null
    /\ estimate' = [estimate EXCEPT ![v] = Price(content[v])]
    /\ UNCHANGED <<version, content>>

Next ==
    \E v \in Voyages :
        \/ \E c \in Contents : Create(v, c)
        \/ \E n \in 1..MaxVersion, c \in Contents : Update(v, n, c)
        \/ Estimate(v)

SafeSpec == Init /\ [][Next]_vars

Spec == SafeSpec /\ \A v \in Voyages : WF_vars(Estimate(v))
=============================================================================
