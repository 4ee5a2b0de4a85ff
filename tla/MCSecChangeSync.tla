-------------------------- MODULE MCSecChangeSync --------------------------
(***************************************************************************)
(* One company followed in detail, two processes, filings on two days.     *)
(* Runs may last over a midnight, and the overlap is the shortest one that *)
(* makes up for it.                                                        *)
(***************************************************************************)
EXTENDS SecChangeSync

=============================================================================
