------------------------------- MODULE MCRuns -------------------------------
(* Runs on small instances. *)
EXTENDS Runs, TLC

ChatsAlike == Permutations(ChatRuns)
=============================================================================
