--------------------------- MODULE MCChangingTable ---------------------------
(***************************************************************************)
(* Three files of one, two and two orders, batches of one, and targets and *)
(* small files that make a plan merge neighbours, skip one, and rewrite    *)
(* one file alone.                                                         *)
(***************************************************************************)
EXTENDS ChangingTable

MCBase == <<<<1>>, <<2, 3>>, <<4, 5>>>>
MCTargets == {2, 3}
MCSmalls == {0, 2}
=============================================================================
