--------------------------- MODULE MCCallSession ---------------------------
EXTENDS CallSession, FiniteSets

CONSTANTS h1, h2, h3, n1, n2, n3

\* What the server sent last is in the streams: states that differ in it only
\* are one.
View == <<registry, maps, conn, reachable, eng, down, calls, drops>>

\* Every client has registered and handled its welcome, in some order.
SignedIn ==
  LET order == CHOOSE f \in [Handles -> 1 .. Cardinality(Handles)] :
                 \A c, d \in Handles : c # d => f[c] # f[d]
      name  == CHOOSE f \in [Handles -> Names] :
                 \A c, d \in Handles : c # d => f[c] # f[d]
      ids   == {order[c] : c \in Handles}
      owner == [i \in ids |-> CHOOSE c \in Handles : order[c] = i]
  IN  /\ members = [i \in ids |-> Member(name[owner[i]])]
      /\ names = {name[c] : c \in Handles}
      /\ next_id = Cardinality(Handles) + 1
      /\ id_to_hdl = owner /\ hdl_to_id = order
      /\ last_pong = [c \in Handles |-> 0] /\ timer = PingInterval /\ pinged = <<>>
      /\ conn = [c \in Handles |-> "open"] /\ reachable = Handles
      /\ sent = Silence
      /\ eng = [c \in Handles |->
                  [IdleEngine EXCEPT !.link = "on", !.signed_in = TRUE,
                                     !.my_id = order[c]]]
      /\ down = [c \in Handles |-> <<>>]
      /\ calls = 0 /\ drops = 0

SignedInSpec == SignedIn /\ [][SessionNext]_sessionVars
=============================================================================
