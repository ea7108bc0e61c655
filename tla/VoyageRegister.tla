--------------------------- MODULE VoyageRegister ---------------------------
(***************************************************************************)
(* What the voyage service promises about one voyage, with no transaction, *)
(* connection, retry or late request in sight: it is created once, at      *)
(* version 1, and from then on its content changes only together with a    *)
(* strict increase of its version ("higher version wins").  VoyageStore    *)
(* and the shore of OnboardSync implement it; Gateway is built on top of   *)
(* it.                                                                     *)
(***************************************************************************)
EXTENDS Integers

CONSTANTS Voyages,     \* client_request_ids
          Contents,    \* what a voyage carries besides its id and version
          MaxVersion,  \* bound on the versions an update carries
          None         \* the content of a voyage that does not exist

VARIABLES version, content

vars == <<version, content>>

Init ==
    /\ version = [v \in Voyages |-> 0]
    /\ content = [v \in Voyages |-> None]

Put(v, n, c) ==
    /\ version' = [version EXCEPT ![v] = n]
    /\ content' = [content EXCEPT ![v] = c]

\* INSERT ... ON CONFLICT DO NOTHING: a second create changes nothing.
Create(v, c) == version[v] = 0 /\ Put(v, 1, c)

\* UPDATE ... WHERE client_request_id = $1 AND version < $6.
Raise(v, n, c) == version[v] # 0 /\ version[v] < n /\ Put(v, n, c)

Next ==
    \E v \in Voyages, c \in Contents :
        Create(v, c) \/ \E n \in 1..MaxVersion : Raise(v, n, c)

Spec == Init /\ [][Next]_vars
=============================================================================
