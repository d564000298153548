---------------------------- MODULE CallPairing ----------------------------
(***************************************************************************)
(* What the signalling server promises about calls, without connections,   *)
(* messages or names: clients come online under ids that are never used    *)
(* again, and calls are pairs of online clients of which no two share a    *)
(* client.  A call ends because an end leaves it or goes offline.          *)
(***************************************************************************)
EXTENDS Naturals

CONSTANT Ids

VARIABLES
  online,   \* ids of the clients that are registered
  retired,  \* ids of clients that are gone
  calls     \* the calls, each the set of its two ends

vars == <<online, retired, calls>>

InCall(i) == \E c \in calls : i \in c

Init ==
  /\ online = {} /\ retired = {} /\ calls = {}

Join(i) ==
  /\ i \notin online \cup retired
  /\ online' = online \cup {i}
  /\ UNCHANGED <<retired, calls>>

Call(a, b) ==
  /\ a # b /\ {a, b} \subseteq online
  /\ ~InCall(a) /\ ~InCall(b)
  /\ calls' = calls \cup {{a, b}}
  /\ UNCHANGED <<online, retired>>

End(c) ==
  /\ calls' = calls \ {c}
  /\ UNCHANGED <<online, retired>>

\* Going offline ends the client's call.
Depart(i) ==
  /\ i \in online
  /\ online' = online \ {i}
  /\ retired' = retired \cup {i}
  /\ calls' = {c \in calls : i \notin c}

Next ==
  \/ \E i \in Ids : Join(i) \/ Depart(i)
  \/ \E a, b \in Ids : Call(a, b)
  \/ \E c \in calls : End(c)

Spec == Init /\ [][Next]_vars
=============================================================================
