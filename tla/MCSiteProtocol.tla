--------------------------- MODULE MCSiteProtocol ---------------------------
(* A small instance of SiteProtocol for TLC. *)
EXTENDS SiteProtocol

CONSTANTS i1, s1, s2, e1, e2, c1, c2

\* One slot, for which two handshakes can compete.
MCLimit == [i \in Invite |-> 1]
MCAllowTcp == Invite
MCSubjectMatches == Invite \X Session

\* A tunnel and a site connection, each from an endpoint of its own.
MCEndpointOf == [c \in Connection |-> IF c = c1 THEN e1 ELSE e2]
MCTunnels == {c2}
=============================================================================
