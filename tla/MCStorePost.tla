---------------------------- MODULE MCStorePost ----------------------------
(***************************************************************************)
(* The POST handler on small instances, and what the documentation says of *)
(* it where the code does otherwise.                                       *)
(***************************************************************************)
EXTENDS StorePost

CONSTANTS r1, r2, c1, c2, c3

\* Connections come first, then POSTs; a connection may close at any time.
ConnectedFirstSpec ==
  Init /\ [][/\ Next
             /\ (\E c \in Clients : Register(c)) => \A r \in Requests : rc[r] = "idle"
             /\ \A r \in Requests : ~DatabaseFails(r)]_vars

\* The docstring of broadcast(): it sends to every connected client and
\* ignores problematic connections.  So a connection that closes does not
\* make the POST whose batch is stored fail.
ProblemsIgnored == \A r \in Requests : rc[r] = "error" => rows \cap Records(r) = {}
=============================================================================
