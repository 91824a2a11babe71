------------------------------- MODULE Sheets -------------------------------
(***************************************************************************)
(* Surfaces over spreadsheets: a run reads a document of the workspace,    *)
(* computes its formulas or asks the model to rework it, and writes the    *)
(* result as the next version of a document.  How a formula is evaluated   *)
(* and what it means are parameters; Formulas.tla has both.                *)
(***************************************************************************)
EXTENDS Cells, SequencesExt

CONSTANTS
  MaxRuns,        \* bound: runs that are asked for
  CellContents,   \* what a person fills into a cell
  SharedContents, \* bound: the cells of the sheets that several runs work on
  Computed(_),    \* the sheet with its formulas evaluated
  TableOf(_)      \* what every place of the sheet means

ASSUME SheetsAssumption == MaxRuns \in Nat

VARIABLES
  docs,   \* the versions of every document
  edits   \* the runs

sheetsVars == <<docs, edits>>

Prose == [k |-> "prose"]

\* A document as the CSV decoder sees it: prose is a text in one column, and of a single
\* column the last row is lost when it is empty.
Decoded(content) ==
  IF content = Prose THEN SheetOf(1, <<<<Word("prose")>>>>)
  ELSE IF content.width = 1 /\ content.rows # <<>> /\ Last(content.rows) = <<Word("")>>
  THEN [content EXCEPT !.rows = Front(@)] ELSE content

\* One more column, with what the model wrote for the row, or nothing.
WithColumn(sheet) ==
  SheetOf(sheet.width + 1,
    [r \in DOMAIN sheet.rows |-> Append(sheet.rows[r], Word(IF r = 1 THEN "note" ELSE ""))])

Modes == {"compute", "addColumn", "summarize", "translate", "generate", "unknown"}
NoEdit == [at |-> "none", mode |-> "unknown", path |-> "none", read |-> 0, version |-> 0]

SheetsInit ==
  \E runs \in 1..MaxRuns :
    LET cells == IF runs = 1 THEN CellContents ELSE SharedContents IN
    /\ edits = [e \in 1..runs |-> NoEdit]
    /\ \E a \in cells, b \in cells, c \in cells :
         docs = [table |-> <<SheetOf(1, <<<<a>>, <<b>>, <<c>>>>)>>, other |-> <<>>]

\* A page runs one surface at a time, so that the runs are those of different pages.
Ask(e, mode, path) ==
  /\ edits[e] = NoEdit /\ (e > 1 => edits[e - 1] # NoEdit)
  /\ mode = "generate" => path = "other"
  /\ edits' = [edits EXCEPT ![e] = [NoEdit EXCEPT !.at = IF mode = "unknown" THEN "failed" ELSE "asked",
                                                !.mode = mode, !.path = path]]
  /\ UNCHANGED docs

\* The source is read as it is now; a run over a text has none.
ReadSource(e) ==
  /\ edits[e].at = "asked"
  /\ LET found == docs[edits[e].path] # <<>> \/ edits[e].mode = "generate"
     IN  edits' = [edits EXCEPT ![e].at = IF found THEN "read" ELSE "failed",
                                ![e].read = Len(docs[edits[e].path])]
  /\ UNCHANGED docs

\* Where the route puts the result: in place, unless the surface is a translation.
Target(e) == IF edits[e].mode = "translate" THEN "other" ELSE edits[e].path

\* A translation of nothing is its source.
Translations(source) == {Prose, source}

\* What the executor makes of the version that was read: the model's text, or the table
\* worked out or extended.
Outputs(e) ==
  LET source == docs[edits[e].path][edits[e].read] IN
  CASE edits[e].mode = "compute" -> {Computed(Decoded(source))}
    [] edits[e].mode = "addColumn" -> {WithColumn(Decoded(source))}
    [] edits[e].mode = "generate" -> {SheetOf(1, <<<<Number(2)>>>>)}
    [] edits[e].mode = "summarize" -> {Prose}
    [] edits[e].mode = "translate" -> Translations(source)

\* The result becomes the next version, whatever has been written since the source was read.
Store(e) ==
  /\ edits[e].at = "read"
  /\ \E out \in Outputs(e) : docs' = [docs EXCEPT ![Target(e)] = Append(@, out)]
  /\ edits' = [edits EXCEPT ![e].at = "written", ![e].version = Len(docs[Target(e)]) + 1]

\* The model's answer does not have the form, its stream breaks, or the write is refused.
Degrade(e) ==
  /\ edits[e].at = "read"
  /\ edits' = [edits EXCEPT ![e].at = "failed"] /\ UNCHANGED docs

SheetsNext ==
  \E e \in DOMAIN edits :
    \/ \E mode \in Modes, path \in {"table", "other"} : Ask(e, mode, path)
    \/ ReadSource(e) \/ Store(e) \/ Degrade(e)

SheetsSpec == SheetsInit /\ [][SheetsNext]_sheetsVars

-----------------------------------------------------------------------------
\* Every variable keeps its type.
SheetsTypeOK ==
  /\ DOMAIN docs = {"table", "other"}
  /\ \A e \in DOMAIN edits : edits[e].at \in {"none", "asked", "read", "written", "failed"}

\* A sheet shows in every formula cell of another what the formula means there, or the
\* error it comes to.
ShowsMeaning(made, read) ==
  LET table == TableOf(read) IN
  /\ Len(made.rows) = Len(read.rows)
  /\ \A x \in DOMAIN table :
       Raw(made, x) = IF IsWrong(table[x]) THEN Word(table[x].s) ELSE table[x]

\* Whatever the order in which the cells ask for each other, and whatever else is written
\* in the meantime: the version that a computing run answers with shows what the version
\* that it read means.
ComputedAsMeant ==
  \A e \in DOMAIN edits : edits[e].at = "written" /\ edits[e].mode = "compute" =>
    ShowsMeaning(docs[edits[e].path][edits[e].version], Decoded(docs[edits[e].path][edits[e].read]))
=============================================================================
