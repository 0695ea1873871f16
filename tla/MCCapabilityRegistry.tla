------------------------ MODULE MCCapabilityRegistry ------------------------
(* Small instances of CapabilityRegistry for TLC. *)
EXTENDS CapabilityRegistry, TLC

CONSTANTS i1, i2, s1, s2, s3, e1, e2, c1, c2

\* i1 is the invitation a service shares, for one session here and bound to
\* the key of s1; i2 is an open link for two sessions that also admits TCP.
MCLimit == [i \in Invite |-> IF i = i1 THEN 1 ELSE 2]
MCAllowTcp == Invite \ {i1}
MCSubjectMatches == {p \in Invite \X Session : p[1] = i1 => p[2] = s1}

=============================================================================
