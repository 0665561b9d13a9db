------------------------------ MODULE GroupRead ------------------------------
(***************************************************************************)
(* What the agent promises of "collect all data" (群抄): an operation ends *)
(* SUCCESSFUL only when all blocks of the collector's readings have come,  *)
(* and they are uploaded block after block, each once.  The block that     *)
(* comes with the collector's end mark is uploaded after the operation is  *)
(* reported, which is the order of SendAllAck::sendAllAck.                 *)
(*                                                                         *)
(* SUCCESSFUL does not promise every reading: one whose meter the platform *)
(* does not find is thrown away, and the operation is then incomplete.     *)
(***************************************************************************)
EXTENDS Naturals, Sequences

CONSTANTS Op, Collector, NoCollector, LookupFails

VARIABLES
  status,    \* of each operation, as the platform shows it
  target,    \* the collector of each operation
  size,      \* number of blocks of readings a collector holds
  uploaded,  \* the blocks uploaded for each operation, in order
  incomplete \* the operations of which a reading was thrown away

vars == <<status, target, size, uploaded, incomplete>>

Init ==
  /\ status = [o \in Op |-> "PENDING"]
  /\ target = [o \in Op |-> NoCollector]
  /\ size \in [Collector -> Nat \ {0}]
  /\ uploaded = [o \in Op |-> <<>>]
  /\ incomplete = {}

\* An operation is begun, or refused because the manager is offline.
Begin(o, c) ==
  /\ status[o] = "PENDING"
  /\ status' = [status EXCEPT ![o] = "EXECUTING"]
  /\ target' = [target EXCEPT ![o] = c]
  /\ UNCHANGED <<size, uploaded, incomplete>>

Refuse(o, c) ==
  /\ status[o] = "PENDING"
  /\ status' = [status EXCEPT ![o] = "FAILED"]
  /\ target' = [target EXCEPT ![o] = c]
  /\ UNCHANGED <<size, uploaded, incomplete>>

\* The next block of the operation's collector is uploaded, except for the
\* readings of meters that are not found.
Upload(o) ==
  LET n == Len(uploaded[o]) + 1 IN
  /\ status[o] \in {"EXECUTING", "SUCCESSFUL"}
  /\ n <= size[target[o]]
  /\ uploaded' = [uploaded EXCEPT ![o] = Append(@, n)]
  /\ \/ UNCHANGED incomplete
     \/ LookupFails /\ incomplete' = incomplete \cup {o}
  /\ UNCHANGED <<status, target, size>>

\* The operation is reported when at most one block is still to be uploaded.
Complete(o) ==
  /\ status[o] = "EXECUTING"
  /\ Len(uploaded[o]) + 1 = size[target[o]]
  /\ status' = [status EXCEPT ![o] = "SUCCESSFUL"]
  /\ UNCHANGED <<target, size, uploaded, incomplete>>

Next ==
  \E o \in Op :
    \/ \E c \in Collector : Begin(o, c) \/ Refuse(o, c)
    \/ Upload(o)
    \/ Complete(o)

Spec == Init /\ [][Next]_vars
=============================================================================
