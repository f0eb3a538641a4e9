---------------------------------- MODULE Sums ----------------------------------
(***************************************************************************)
(* SUM(column) of SQL and sum() of Python, over a finite set of rows.      *)
(***************************************************************************)
EXTENDS Functions

\* The sum of fun over the rows; 0 when there are none.
SumOf(fun, rows) == FoldFunctionOnSet(+, 0, fun, rows)
=================================================================================
