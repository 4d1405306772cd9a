---------------------------- MODULE MCPagination ----------------------------
(* An instance of Pagination for TLC: a factor that would enlarge a page   *)
(* and one that would bring it below one row.                              *)
EXTENDS Pagination

MCFactors == {<<3, 2>>, <<1, 4>>}
=============================================================================
