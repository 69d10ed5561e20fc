------------------------------ MODULE MCPaging ------------------------------
(* TLC instance of Paging: two directory indices between the kernel and the *)
(* window, and the first and last page of each.                             *)
EXTENDS Paging

MCMadePages == {v \in VPages : DirIdx(v) \in Indices /\ TabIdx(v) \in {0, KDIR, PER_TAB - 1}}
=============================================================================
