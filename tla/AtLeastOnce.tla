---------------------------- MODULE AtLeastOnce ----------------------------
(***************************************************************************)
(* What the connector promises of every message of the stream, whatever    *)
(* happens to its workers, to the NATS server and to the cluster: its rows *)
(* are in QuasarDB before the stream forgets it ("No data loss: Explicit   *)
(* ACK only after successful write", adr/002-data-flow.md).  How often the *)
(* rows are pushed is left open.                                           *)
(***************************************************************************)
CONSTANTS
  Messages,  \* the messages of the stream
  Carrying,  \* those with rows that belong in QuasarDB
  Refused    \* those that must go back to the stream, never to be settled

VARIABLES
  stored,    \* messages whose rows are in QuasarDB
  settled    \* messages the stream will not deliver again: acknowledged

vars == <<stored, settled>>

Init ==
  /\ stored = {}
  /\ settled = {}

(* Rows of some messages reach the cluster; the stream does not know it. *)
Store ==
  /\ \E S \in SUBSET Carrying : stored' = stored \cup S
  /\ UNCHANGED settled

(* The stream is told to forget messages it may forget. *)
Settle ==
  /\ \E S \in SUBSET (Messages \ Refused) :
       /\ S \cap Carrying \subseteq stored
       /\ settled' = settled \cup S
  /\ UNCHANGED stored

Next == Store \/ Settle

Spec == Init /\ [][Next]_vars
=============================================================================
