--------------------------- MODULE MCDelegations ---------------------------
EXTENDS Delegations, TLC

CONSTANT Stranger

\* The census of a community has all users but one.
MCMembers == [c \in Communities |-> Users \ {Stranger}]
MCSymmetry == Permutations(Users \ {Stranger})
=============================================================================
