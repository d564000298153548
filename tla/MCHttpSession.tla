--------------------------- MODULE MCHttpSession ---------------------------
EXTENDS HttpSession

CONSTANTS c1, c2

Limit(connect, call, hangup, disconnect, drop, candidate) ==
  [connect |-> connect, call |-> call, hangup |-> hangup,
   disconnect |-> disconnect, drop |-> drop, candidate |-> candidate]

SessionLimits ==
  {Limit(0, 1, 1, 0, 0, 0), Limit(1, 1, 0, 1, 0, 0), Limit(1, 0, 0, 2, 1, 0),
   Limit(0, 2, 0, 0, 0, 2), Limit(0, 1, 0, 0, 1, 1)}

MCSockets ==
  {<<c, k>> : c \in Clients, k \in {"control", "closed"}}
    \cup {<<c, "wait", i>> : c \in Clients, i \in 1 .. MaxId}

\* Both clients have signed in and the server holds their hanging gets.
SignedIn ==
  LET id == CHOOSE f \in [Clients -> 1 .. Cardinality(Clients)] :
              \A c, d \in Clients : c # d => f[c] # f[d]
  IN  /\ members_ = [i \in 1 .. Cardinality(Clients) |->
                       [NewMember EXCEPT !.waiting =
                          <<CHOOSE c \in Clients : id[c] = i, "wait", i>>]]
      /\ s_member_id_ = Cardinality(Clients)
      /\ sent = <<>>
      /\ client = [c \in Clients |->
                     [NewClient EXCEPT !.st = "on", !.id = id[c], !.wait = "held", !.left = FALSE,
                                       !.peers = (1 .. Cardinality(Clients)) \ {id[c]}]]
      /\ used = [u \in Uses |-> 0]

SignedInSpec == SignedIn /\ [][SessionNext]_session

\* The response sent last is with the client that got it.
View == <<members_, s_member_id_, client, used>>
=============================================================================
