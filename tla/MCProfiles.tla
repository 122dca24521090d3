----------------------------- MODULE MCProfiles -----------------------------
(* A user with a profile and one without, who fills the list of pending ones. *)
EXTENDS Profiles
=============================================================================
