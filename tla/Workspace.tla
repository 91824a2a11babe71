----------------------------- MODULE Workspace -----------------------------
(***************************************************************************)
(* The versioned workspace of one owner and project: append-only versions  *)
(* in Postgres, behind a guard that normalizes the path, compares the      *)
(* scope with its quotas, and audits every write.  The guard lists the     *)
(* files first and writes later, and the statement that appends a version  *)
(* computes its number before its row is inserted: requests interleave in  *)
(* between, and the primary key decides between two equal numbers.         *)
(* Three operations write: a plain write, a rollback, which reads an old   *)
(* version first, and the writer, which reads the latest version and has   *)
(* the model edit it.                                                      *)
(***************************************************************************)
EXTENDS Naturals, Sequences, FiniteSets, FiniteSetsExt

CONSTANTS
  Writers,    \* requests that write, each once
  AtOnce,     \* bound on the requests in flight at the same time
  Paths,      \* normalized paths
  MaxFiles,   \* the guard's limits
  MaxBytes,
  MaxSize     \* bound on the size of a document

ASSUME WorkspaceAssumption ==
  /\ AtOnce \in Nat \ {0}
  /\ MaxFiles \in Nat
  /\ MaxBytes \in Nat
  /\ MaxSize \in Nat \ {0}

VARIABLES
  files,    \* the rows of workspace_files
  writer,   \* writer[w]: where request w stands
  trailed   \* the workspace audit rows, as <<request, version or 0>>

workspaceVars == <<files, writer, trailed>>

Sizes == 1..MaxSize
FileRow == [path : Paths, version : Nat, size : Sizes, by : Writers]

WriterPcs == {"idle", "read", "list", "number", "insert", "written", "denied",
              "returned", "failed"}

\* next is the number that the append statement computed.
WriteRequest == [pc : WriterPcs, path : Paths \cup {"none"}, size : 0..MaxSize,
                 next : Nat]
NewWrite == [pc |-> "idle", path |-> "none", size |-> 0, next |-> 0]

WorkspaceInit ==
  /\ files = {}
  /\ writer = [w \in Writers |-> NewWrite]
  /\ trailed = {}

WorkspaceTypeOK ==
  /\ files \subseteq FileRow
  /\ writer \in [Writers -> WriteRequest]
  /\ trailed \subseteq Writers \X Nat

Of(p) == {f \in files : f.path = p}
LatestVersion(p) == Max({0} \cup {f.version : f \in Of(p)})

\* list(): DISTINCT ON (path), newest version.
Entries == {f \in files : f.version = LatestVersion(f.path)}
BytesOf(S) == MapThenSumSet(LAMBDA f : f.size, S)

To(w, pc) == writer' = [writer EXCEPT ![w].pc = pc]

Underway == {w \in Writers : writer[w].pc \notin {"idle", "returned", "failed"}}
Arrives(w) == writer[w].pc = "idle" /\ Cardinality(Underway) < AtOnce

\* A request for the guard to decide.
Submit(w, p, size) ==
  writer' = [writer EXCEPT ![w] = [NewWrite EXCEPT !.pc = "list", !.path = p,
                                                   !.size = size]]

-----------------------------------------------------------------------------
(* The operations, up to the guard.                                        *)

WriteBegin(w, p, size) ==
  /\ Arrives(w)
  /\ Submit(w, p, size)
  /\ UNCHANGED <<files, trailed>>

\* A path that leaves the scope, or is none at all: audited and refused.
WriteBadPath(w) ==
  /\ Arrives(w)
  /\ To(w, "denied")
  /\ UNCHANGED <<files, trailed>>

\* rollback(): an old version's content is written again.
RollbackBegin(w, f) ==
  /\ Arrives(w)
  /\ f \in files
  /\ Submit(w, f.path, f.size)
  /\ UNCHANGED <<files, trailed>>

\* The writer reads the latest version; the model's edit has some size.
EditBegin(w, f, size) ==
  /\ Arrives(w)
  /\ f \in Entries
  /\ Submit(w, f.path, size)
  /\ UNCHANGED <<files, trailed>>

-----------------------------------------------------------------------------
(* GuardedWorkspaceRepository.write().                                     *)

\* Seeded fault: the limit is compared with the number of older files only.
FitsOffByOne(w) ==
  LET r == writer[w]
      old == {f \in Entries : f.path = r.path}
  IN  /\ old = {} => Cardinality(Entries) <= MaxFiles
      /\ BytesOf(Entries \ old) + r.size <= MaxBytes

\* A new file needs a free place; the scope with this document in the place of
\* its predecessor must fit.
Fits(w) ==
  LET r == writer[w]
      old == {f \in Entries : f.path = r.path}
  IN  /\ old = {} => Cardinality(Entries) < MaxFiles
      /\ BytesOf(Entries \ old) + r.size <= MaxBytes

GuardList(w) ==
  /\ writer[w].pc = "list"
  /\ To(w, IF Fits(w) THEN "number" ELSE "denied")
  /\ UNCHANGED <<files, trailed>>

\* The append statement: the snapshot that numbers the version ...
NumberVersion(w) ==
  /\ writer[w].pc = "number"
  /\ writer' = [writer EXCEPT ![w].pc = "insert",
                              ![w].next = LatestVersion(writer[w].path) + 1]
  /\ UNCHANGED <<files, trailed>>

NewRow(w) == [path |-> writer[w].path, version |-> writer[w].next,
           size |-> writer[w].size, by |-> w]

\* Seeded fault: no key rejects the number, and two versions share it.
InsertUnkeyed(w) ==
  /\ writer[w].pc = "insert"
  /\ files' = files \cup {NewRow(w)}
  /\ To(w, "written")
  /\ UNCHANGED trailed

\* ... and the insert, which fails on a number that is taken.
InsertVersion(w) ==
  /\ writer[w].pc = "insert"
  /\ IF \E f \in Of(writer[w].path) : f.version = writer[w].next
     THEN /\ To(w, "failed")
          /\ UNCHANGED files
     ELSE /\ files' = files \cup {NewRow(w)}
          /\ To(w, "written")
  /\ UNCHANGED trailed

\* Seeded fault: the version is looked up again, after the write.
GuardAuditLatest(w) ==
  /\ writer[w].pc \in {"written", "denied"}
  /\ trailed' = trailed \cup
       {<<w, IF writer[w].pc = "written" THEN LatestVersion(writer[w].path) ELSE 0>>}
  /\ To(w, "returned")
  /\ UNCHANGED files

GuardAudit(w) ==
  /\ writer[w].pc \in {"written", "denied"}
  /\ trailed' = trailed \cup
       {<<w, IF writer[w].pc = "written" THEN writer[w].next ELSE 0>>}
  /\ To(w, "returned")
  /\ UNCHANGED files

WorkspaceNext ==
  \E w \in Writers :
    \/ \E p \in Paths, size \in Sizes : WriteBegin(w, p, size)
    \/ WriteBadPath(w)
    \/ \E f \in files : \/ RollbackBegin(w, f)
                        \/ \E size \in Sizes : EditBegin(w, f, size)
    \/ GuardList(w)
    \/ NumberVersion(w)
    \/ InsertVersion(w)
    \/ GuardAudit(w)

WorkspaceSpec == WorkspaceInit /\ [][WorkspaceNext]_workspaceVars

-----------------------------------------------------------------------------
\* Each path has the versions 1..n, each once.
VersionsAreDense ==
  \A p \in Paths :
    /\ {f.version : f \in Of(p)} = 1..LatestVersion(p)
    /\ Cardinality(Of(p)) = LatestVersion(p)

\* The guard checks what it listed, and what it listed may be old: n requests
\* at once exceed the file quota by n - 1 at most ...
FilesAreBounded == Cardinality(Entries) <= MaxFiles + (AtOnce - 1)

\* ... and the byte quota by n - 1 documents, however many requests come after them.
OvershootIsBounded ==
  FilesAreBounded /\ BytesOf(Entries) <= MaxBytes + (AtOnce - 1) * MaxSize

\* A client that saw version n can read and restore every version below it,
\* whatever appends raced for a number (the primary key against MAX(version) +
\* 1); a request that has returned left exactly one audit row, which names the
\* version that it wrote, or none; no row speaks of a version that is not
\* stored.
WritesAreTrailed ==
  /\ VersionsAreDense
  /\ \A w \in Writers : writer[w].pc = "returned" =>
       \E entry \in trailed :
         /\ entry[1] = w
         /\ \A other \in trailed : other[1] = w => other = entry
         /\ IF entry[2] = 0 THEN \A f \in files : f.by # w
                          ELSE \E f \in files : f.by = w /\ f.version = entry[2]
=============================================================================
