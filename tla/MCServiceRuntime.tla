-------------------------- MODULE MCServiceRuntime --------------------------
(* A small instance of ServiceRuntime for TLC. *)
EXTENDS ServiceRuntime

CONSTANTS i1, i2, i3, s1, s2, e1

\* Two sessions through each invitation: a second browser can come in through
\* the URL a removed one was admitted with, if that is still open.
MCLimit == [i \in Invite |-> 2]
MCAllowTcp == {i1}
MCSubjectMatches == Invite \X Session
=============================================================================
