------------------------------ MODULE Parties ------------------------------
(* Whom the collections have documents of.                                  *)
CONSTANTS
  Users,        \* known to the database
  Communities
=============================================================================
