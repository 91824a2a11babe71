-------------------------------- MODULE Cells --------------------------------
(***************************************************************************)
(* The values of the cells of a sheet, and a sheet as rows of cells.       *)
(* Numbers are whole; the letters of a text are abstracted.                *)
(***************************************************************************)
EXTENDS Integers

\* Values and errors.
Number(n) == [k |-> "num", n |-> n, s |-> ""]
Word(s) == [k |-> "text", n |-> 0, s |-> s]
Wrong(s) == [k |-> "err", n |-> 0, s |-> s]
IsWrong(v) == v.k = "err"

\* A table: its columns, and the rows with a cell for each.
SheetOf(width, rows) == [k |-> "sheet", width |-> width, rows |-> rows]
Inside(sheet, x) == x[1] \in 1..sheet.width /\ x[2] \in DOMAIN sheet.rows
Raw(sheet, x) == sheet.rows[x[2]][x[1]]
=============================================================================
