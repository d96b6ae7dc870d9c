----------------------------- MODULE MCLearning -----------------------------
(* An instance of Learning for TLC. *)
EXTENDS Learning
CONSTANTS web, v1, read, npmrc
=============================================================================
