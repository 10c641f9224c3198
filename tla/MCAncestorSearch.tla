-------------------------- MODULE MCAncestorSearch --------------------------
(* The ancestor search on every pair of chains up to MaxHeight.              *)
EXTENDS AncestorSearch
=============================================================================
