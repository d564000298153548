------------------------------ MODULE Registry ------------------------------
(***************************************************************************)
(* ClientRegistry of the signalling server (registry.cc): the calls and    *)
(* updates on members_, the map from a client id to its name, its Idle or  *)
(* Busy state and the id of the client it is in a call with (0 for none).  *)
(* Pure operators over the value m of that map, so that the server module  *)
(* and its proofs share them; names_ and next_id_ are updated next to them *)
(* in SignalingServer.                                                     *)
(***************************************************************************)
EXTENDS Naturals, Functions

NoPeer == 0

-----------------------------------------------------------------------------
(* The std::map operations the server is written with.                     *)

Put(f, k, v) == [x \in DOMAIN f \cup {k} |-> IF x = k THEN v ELSE f[x]]

Erase(f, k) == Restrict(f, DOMAIN f \ {k})

-----------------------------------------------------------------------------
(* Queries.                                                                *)

Has(m, id) == id \in DOMAIN m

Busy(m, id) == m[id].state = "busy"

\* Do a and b name each other?  Both must still be registered.
IsPaired(m, a, b) ==
  /\ Has(m, a) /\ Has(m, b)
  /\ m[a].peer_id = b /\ m[b].peer_id = a

GetPeer(m, id) == IF Has(m, id) THEN m[id].peer_id ELSE NoPeer

\* What a roster message shows of every client: never the peer it talks to.
Roster(m) ==
  {[id |-> i, name |-> m[i].name, state |-> m[i].state] : i \in DOMAIN m}

\* Mutant of CallResult: a busy caller may call.
CallResultAnyCaller(m, caller, target) ==
  IF caller = target THEN "target_busy"
  ELSE IF ~Has(m, caller) THEN "caller_busy"
  ELSE IF ~Has(m, target) THEN "target_offline"
  ELSE IF Busy(m, target) THEN "target_busy"
  ELSE "ok"

\* The verdict on a call; the order of the tests is the code's.
CallResult(m, caller, target) ==
  IF caller = target THEN "target_busy"
  ELSE IF ~Has(m, caller) \/ Busy(m, caller) THEN "caller_busy"
  ELSE IF ~Has(m, target) THEN "target_offline"
  ELSE IF Busy(m, target) THEN "target_busy"
  ELSE "ok"

-----------------------------------------------------------------------------
(* Updates.                                                                *)

Member(name) == [name |-> name, state |-> "idle", peer_id |-> NoPeer]

Idled(r) == [r EXCEPT !.state = "idle", !.peer_id = NoPeer]

PairedWith(r, peer) == [r EXCEPT !.state = "busy", !.peer_id = peer]

\* A successful call marks both ends.
Pair(m, caller, target) ==
  [i \in DOMAIN m |-> CASE i = caller -> PairedWith(m[i], target)
                        [] i = target -> PairedWith(m[i], caller)
                        [] OTHER      -> m[i]]

\* Mutant of Hangup: only the end that leaves is freed.
HangupOne(m, a, b) ==
  [i \in DOMAIN m |-> IF i = a THEN Idled(m[i]) ELSE m[i]]

Hangup(m, a, b) ==
  [i \in DOMAIN m |-> IF i \in {a, b} THEN Idled(m[i]) ELSE m[i]]

\* Mutant of Remove: the other end stays busy.
RemoveAlone(m, id) == Erase(m, id)

\* A removed client frees the one it was in a call with.
Remove(m, id) ==
  [i \in DOMAIN m \ {id} |-> IF i = GetPeer(m, id) THEN Idled(m[i]) ELSE m[i]]
=============================================================================
