--------------------------- MODULE MCGatewayRooms ---------------------------
(* Instances of GatewayRooms for TLC.                                      *)
EXTENDS GatewayRooms, TLC

Symmetry == Permutations(Conn) \cup Permutations(User)
              \cup Permutations(Channel) \cup Permutations(Sess)
              \cup Permutations(Task)

\* For instances whose watchers are some of the connections.
SymmetryKeepConn == Permutations(User) \cup Permutations(Channel)
                      \cup Permutations(Sess) \cup Permutations(Task)
=============================================================================
