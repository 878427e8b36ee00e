-------------------------- MODULE MCCustomerWorkspace --------------------------
(* Two customers, one additional workspace, a member's row, and two requests  *)
(* at once.                                                                   *)
EXTENDS CustomerWorkspace, TLC

CONSTANTS u1, u2, e1, c1, c2

MCMembers == {<<u1, u2>>}

Ask(t, p, b) == [tenant |-> t, project |-> p, brand |-> b]
\* Two workspaces of one tenant, another's, and a brand beside its project.
MCAsked == {Ask(u1, u1, u1), Ask(u1, e1, e1), Ask(u2, u2, u2), Ask(u1, u1, u2)}
\* A default brand, the name of the other's in this project, and an added one.
MCReplaced == {<<u1, u1>>, <<u1, u2>>, <<e1, e1>>}

CallSymmetry == Permutations(Calls)

=============================================================================
