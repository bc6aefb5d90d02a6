----------------------------- MODULE MCRagGraph -----------------------------
(***************************************************************************)
(* Instances of RagGraph for TLC, with a keyword in the prompt of t1 only. *)
(***************************************************************************)
EXTENDS RagGraph

CONSTANTS t1, t2, t3

MCAboutProject == Tasks \cap {t1}
=============================================================================
