--------------------------- MODULE WorkspaceProofs ---------------------------
(***************************************************************************)
(* For any number of requests at once, paths and documents, the workspace  *)
(* numbers the versions of a path without a gap, leaves one audit row of   *)
(* each write, and exceeds its limits of files and bytes by the requests   *)
(* in flight; and for any number of sub-agents and workers, a cowork brief *)
(* is made of the sections of its own run.                                 *)
(***************************************************************************)
EXTENDS Workspace, Cowork, FiniteSetTheorems, SequenceTheorems, TLAPS

-----------------------------------------------------------------------------
(* The workspace.                                                          *)

\* The versions of a path are 1..n.
Dense(p, n) ==
  /\ {f.version : f \in Of(p)} = 1..n
  /\ IsFiniteSet(Of(p)) /\ Cardinality(Of(p)) = n
PathsAreDense == \A p \in Paths : \E n \in Nat : Dense(p, n)

\* The number that a writer has computed may be taken by now, but never leaves a gap.
NumbersAreNext ==
  \A w \in Writers :
    /\ writer[w].pc \in {"list", "number", "insert", "written"} => writer[w].path \in Paths
    /\ writer[w].pc \in {"list", "number", "insert"} => writer[w].size \in Sizes
    /\ writer[w].pc = "insert" => writer[w].next \in 1..(LatestVersion(writer[w].path) + 1)
    /\ writer[w].pc = "written" =>
         writer[w].next > 0 /\ \E f \in files : f.by = w /\ f.version = writer[w].next
    /\ writer[w].pc \notin {"written", "returned"} => \A f \in files : f.by # w

\* One audit row of a request that has returned, and none of another.
Trailed(w) ==
  \E entry \in trailed :
    /\ entry[1] = w
    /\ \A other \in trailed : other[1] = w => other = entry
    /\ IF entry[2] = 0 THEN \A f \in files : f.by # w
                       ELSE \E f \in files : f.by = w /\ f.version = entry[2]
OneRowEach ==
  \A w \in Writers :
    IF writer[w].pc = "returned" THEN Trailed(w) ELSE \A entry \in trailed : entry[1] # w

\* WriteRequest that the guard let through to a path without a file.
NewComers == {w \in Writers : writer[w].pc \in {"number", "insert"} /\ Of(writer[w].path) = {}}

\* A file more than the limit for each request that listed before, and there is room for
\* AtOnce of them.
RoomIsShared ==
  /\ IsFiniteSet(Underway) /\ Cardinality(Underway) <= AtOnce
  /\ IsFiniteSet(Entries)
  /\ Cardinality(Entries) + Cardinality(NewComers) <= MaxFiles + (AtOnce - 1)

WorkspaceInv ==
  WorkspaceTypeOK /\ PathsAreDense /\ NumbersAreNext /\ OneRowEach /\ RoomIsShared

LEMMA MaxOfSegment ==
  ASSUME NEW n \in Nat
  PROVE  Max({0} \cup (1..n)) = n
<1>1. n \in {0} \cup (1..n) /\ \A y \in {0} \cup (1..n) : n >= y
  OBVIOUS
<1>2. \A x \in {0} \cup (1..n) : (\A y \in {0} \cup (1..n) : x >= y) => x = n
  <2>1. ASSUME NEW x \in {0} \cup (1..n), \A y \in {0} \cup (1..n) : x >= y
        PROVE  x = n
    <3>1. x >= n /\ x <= n /\ x \in Nat
      BY <1>1, <2>1
    <3> QED
      BY <3>1
  <2> QED
    BY <2>1
<1> QED
  BY <1>1, <1>2 DEF Max

\* The newest version of a path with n of them is n, and no other row has its number.
LEMMA LatestIs ==
  ASSUME NEW p, NEW n \in Nat, Dense(p, n)
  PROVE  LatestVersion(p) = n /\ (n = 0 <=> Of(p) = {})
<1>1. LatestVersion(p) = n
  BY MaxOfSegment DEF LatestVersion, Dense
<1>2. n = 0 => Of(p) = {}
  BY FS_EmptySet DEF Dense
<1>3. Of(p) = {} => n = 0
  BY FS_EmptySet DEF Dense
<1> QED
  BY <1>1, <1>2, <1>3

LEMMA LatestIsNumber ==
  ASSUME PathsAreDense, NEW p \in Paths
  PROVE  LatestVersion(p) \in Nat /\ Dense(p, LatestVersion(p))
BY LatestIs DEF PathsAreDense

\* The newest row of a path is the only one with its number.
LEMMA OnePerVersion ==
  ASSUME WorkspaceTypeOK, NEW p, NEW n \in Nat, Dense(p, n), NEW f \in Of(p), NEW g \in Of(p),
         f.version = g.version
  PROVE  f = g
<1>1. SUFFICES ASSUME f # g PROVE FALSE
  OBVIOUS
<1>2. \A h \in Of(p) : h.version \in 1..n
  BY DEF Dense
<1> DEFINE others == Of(p) \ {f}
<1>3. IsFiniteSet(others) /\ Cardinality(others) = n - 1
  BY FS_RemoveElement DEF Dense
<1>4. {h.version : h \in others} = 1..n
  <2>1. ASSUME NEW i \in 1..n
        PROVE  \E h \in others : h.version = i
    <3>1. PICK h \in Of(p) : h.version = i
      BY DEF Dense
    <3> QED
      BY <1>1, <3>1
  <2> QED
    BY <1>2, <2>1
<1> DEFINE v == [h \in others |-> h.version]
<1>5. v \in Surjection(others, 1..n)
  BY <1>2, <1>4 DEF Surjection
<1>6. Cardinality(1..n) = n /\ IsFiniteSet(1..n)
  BY FS_Interval
<1>7. n <= n - 1
  BY <1>3, <1>5, <1>6, FS_Surjection
<1> QED
  BY <1>7

LEMMA WorkspaceStarts == WorkspaceInit => WorkspaceInv
<1> SUFFICES ASSUME WorkspaceInit PROVE WorkspaceInv
  OBVIOUS
<1>1. NewWrite \in WriteRequest /\ NewWrite.pc = "idle"
  BY WorkspaceAssumption DEF NewWrite, WriteRequest, WriterPcs
<1>2. WorkspaceTypeOK
  BY <1>1 DEF WorkspaceInit, WorkspaceTypeOK
<1>3. PathsAreDense
  BY FS_EmptySet DEF WorkspaceInit, PathsAreDense, Dense, Of
<1>4. NumbersAreNext /\ OneRowEach
  BY <1>1 DEF WorkspaceInit, NumbersAreNext, OneRowEach
<1>5. RoomIsShared
  <2>1. Underway = {} /\ Entries = {} /\ NewComers = {}
    BY <1>1 DEF WorkspaceInit, Underway, Entries, NewComers
  <2> QED
    BY <2>1, FS_EmptySet, WorkspaceAssumption DEF RoomIsShared
<1> QED
  BY <1>2, <1>3, <1>4, <1>5 DEF WorkspaceInv

-----------------------------------------------------------------------------
\* The request of w becomes r; the others stay.
Becomes(w, r) ==
  r \in WriteRequest /\ writer' = [writer EXCEPT ![w] = r]

\* A step of one request that writes no row of either table.
LEMMA FilesStay ==
  ASSUME UNCHANGED files, NEW p, NEW n
  PROVE  /\ Of(p)' = Of(p) /\ LatestVersion(p)' = LatestVersion(p) /\ (Dense(p, n)' <=> Dense(p, n))
         /\ Entries' = Entries
BY DEF Of, LatestVersion, Dense, Entries

LEMMA RequestStep ==
  ASSUME WorkspaceInv, NEW w \in Writers, NEW r, Becomes(w, r), UNCHANGED <<files, trailed>>,
         writer[w].pc # "returned", r.pc # "returned",
         r.pc \in {"list", "number", "insert", "written"} => r.path \in Paths,
         r.pc \in {"list", "number", "insert"} => r.size \in Sizes,
         r.pc = "insert" => r.next \in 1..(LatestVersion(r.path) + 1),
         r.pc # "written", writer[w].pc # "written", RoomIsShared'
  PROVE  WorkspaceInv'
<1>1. /\ writer' \in [Writers -> WriteRequest] /\ writer'[w] = r
      /\ \A u \in Writers \ {w} : writer'[u] = writer[u]
  BY DEF WorkspaceInv, WorkspaceTypeOK, Becomes
<1>2. WorkspaceTypeOK'
  BY <1>1 DEF WorkspaceInv, WorkspaceTypeOK
<1>3. PathsAreDense'
  BY FilesStay DEF WorkspaceInv, PathsAreDense
<1>4. \A p : LatestVersion(p)' = LatestVersion(p)
  BY FilesStay
<1>5. NumbersAreNext'
  <2>1. ASSUME NEW u \in Writers
        PROVE  /\ writer'[u].pc \in {"list", "number", "insert", "written"} => writer'[u].path \in Paths
               /\ writer'[u].pc \in {"list", "number", "insert"} => writer'[u].size \in Sizes
               /\ writer'[u].pc = "insert" =>
                    writer'[u].next \in 1..(LatestVersion(writer'[u].path) + 1)
               /\ writer'[u].pc = "written" =>
                    writer'[u].next > 0 /\ \E f \in files : f.by = u /\ f.version = writer'[u].next
               /\ writer'[u].pc \notin {"written", "returned"} => \A f \in files : f.by # u
    <3>1. CASE u = w
      BY <1>1, <3>1 DEF WorkspaceInv, NumbersAreNext
    <3>2. CASE u # w
      BY <1>1, <3>2 DEF WorkspaceInv, NumbersAreNext
    <3> QED
      BY <3>1, <3>2
  <2>2. \A u \in Writers : LatestVersion(writer[u].path)' = LatestVersion(writer'[u].path)
    BY DEF LatestVersion, Of
  <2> QED
    BY <2>1, <2>2 DEF NumbersAreNext
<1>6. OneRowEach'
  <2>1. \A u \in Writers : Trailed(u)' <=> Trailed(u)
    BY DEF Trailed
  <2> QED
    BY <1>1, <2>1 DEF WorkspaceInv, OneRowEach
<1> QED
  BY <1>2, <1>3, <1>5, <1>6 DEF WorkspaceInv

\* Without a new file the room that is taken does not grow.
LEMMA RoomStays ==
  ASSUME WorkspaceInv, UNCHANGED files, NewComers' \subseteq NewComers,
         IsFiniteSet(Underway'), Cardinality(Underway') <= AtOnce
  PROVE  RoomIsShared'
<1>1. NewComers \subseteq Underway
  BY DEF NewComers, Underway
<1>2. IsFiniteSet(NewComers) /\ IsFiniteSet(NewComers')
  BY <1>1, FS_Subset DEF WorkspaceInv, RoomIsShared
<1>3. Cardinality(NewComers') <= Cardinality(NewComers)
  BY <1>2, FS_Subset
<1>4. Cardinality(NewComers') \in Nat /\ Cardinality(NewComers) \in Nat /\ Cardinality(Entries) \in Nat
  BY <1>2, FS_CardinalityType DEF WorkspaceInv, RoomIsShared
<1>5. Entries' = Entries
  BY FilesStay
<1>6. Cardinality(Entries) + Cardinality(NewComers) <= MaxFiles + (AtOnce - 1)
  BY DEF WorkspaceInv, RoomIsShared
<1>7. Cardinality(Entries') + Cardinality(NewComers') <= MaxFiles + (AtOnce - 1)
  BY <1>3, <1>4, <1>5, <1>6, WorkspaceAssumption
<1> QED
  BY <1>5, <1>7 DEF WorkspaceInv, RoomIsShared

\* A request that arrives is one of AtOnce.
LEMMA ArrivalsAreFew ==
  ASSUME WorkspaceInv, NEW w \in Writers, NEW r, Becomes(w, r), Arrives(w),
         r.pc \in {"list", "denied"}, UNCHANGED files
  PROVE  RoomIsShared'
<1>1. writer'[w] = r /\ \A u \in Writers \ {w} : writer'[u] = writer[u]
  BY DEF WorkspaceInv, WorkspaceTypeOK, Becomes
<1>2. Underway' = Underway \cup {w} /\ w \notin Underway
  BY <1>1 DEF Underway, Arrives
<1>3. IsFiniteSet(Underway') /\ Cardinality(Underway') = Cardinality(Underway) + 1
  BY <1>2, FS_AddElement DEF WorkspaceInv, RoomIsShared
<1>4. Cardinality(Underway) \in Nat
  BY FS_CardinalityType DEF WorkspaceInv, RoomIsShared
<1>5. Cardinality(Underway') <= AtOnce
  BY <1>3, <1>4, WorkspaceAssumption DEF Arrives
<1>6. NewComers' \subseteq NewComers
  BY <1>1 DEF NewComers, Of
<1> QED
  BY <1>3, <1>5, <1>6, RoomStays

\* A request that goes on, or ends, is one of those under way.
LEMMA NoneArrives ==
  ASSUME WorkspaceInv, NEW w \in Writers, NEW r, Becomes(w, r),
         writer[w].pc \notin {"idle", "returned", "failed"}
  PROVE  /\ IsFiniteSet(Underway') /\ Cardinality(Underway') <= AtOnce
         /\ IsFiniteSet(Underway') /\ Cardinality(Underway') \in Nat
<1>1. writer'[w] = r /\ \A u \in Writers \ {w} : writer'[u] = writer[u]
  BY DEF WorkspaceInv, WorkspaceTypeOK, Becomes
<1>2. Underway' \subseteq Underway
  BY <1>1 DEF Underway
<1>3. /\ IsFiniteSet(Underway') /\ Cardinality(Underway') <= Cardinality(Underway)
      /\ Cardinality(Underway') \in Nat /\ Cardinality(Underway) \in Nat
  BY <1>2, FS_Subset, FS_CardinalityType DEF WorkspaceInv, RoomIsShared
<1>4. Cardinality(Underway) <= AtOnce
  BY DEF WorkspaceInv, RoomIsShared
<1> QED
  BY <1>3, <1>4, WorkspaceAssumption

LEMMA SubmitKeeps ==
  ASSUME WorkspaceInv, NEW w \in Writers, Arrives(w), NEW p \in Paths, NEW size \in Sizes,
         Submit(w, p, size), UNCHANGED <<files, trailed>>
  PROVE  WorkspaceInv'
<1> DEFINE r == [NewWrite EXCEPT !.pc = "list", !.path = p, !.size = size]
<1>1. NewWrite \in WriteRequest
  BY WorkspaceAssumption DEF NewWrite, WriteRequest, WriterPcs
<1>2. size \in 0..MaxSize /\ "list" \in WriterPcs
  BY WorkspaceAssumption DEF Sizes, WriterPcs
<1>3. r \in WriteRequest /\ r.pc = "list" /\ r.path = p /\ r.size = size
  BY <1>1, <1>2 DEF WriteRequest
<1>4. Becomes(w, r)
  BY <1>3 DEF Becomes, Submit
<1>5. r.pc = "list" /\ r.path = p /\ r.size = size
  BY <1>3
<1> HIDE DEF r
<1>6. RoomIsShared'
  BY <1>4, <1>5, ArrivalsAreFew
<1> QED
  BY <1>4, <1>5, <1>6, RequestStep DEF Arrives

LEMMA PcStep ==
  ASSUME WorkspaceInv, NEW w \in Writers, NEW to \in WriterPcs, To(w, to)
  PROVE  /\ Becomes(w, [writer[w] EXCEPT !.pc = to])
         /\ [writer[w] EXCEPT !.pc = to].pc = to
         /\ [writer[w] EXCEPT !.pc = to].path = writer[w].path
         /\ [writer[w] EXCEPT !.pc = to].size = writer[w].size
         /\ [writer[w] EXCEPT !.pc = to].next = writer[w].next
<1>1. writer[w] \in WriteRequest
  BY DEF WorkspaceInv, WorkspaceTypeOK
<1>2. [writer[w] EXCEPT !.pc = to] \in WriteRequest
  BY <1>1 DEF WriteRequest
<1> QED
  BY <1>1, <1>2 DEF To, Becomes, WriteRequest

LEMMA WriteBadPathKeeps ==
  ASSUME WorkspaceInv, NEW w \in Writers, WriteBadPath(w)
  PROVE  WorkspaceInv'
<1> DEFINE r == [writer[w] EXCEPT !.pc = "denied"]
<1>1. Becomes(w, r) /\ r.pc = "denied"
  BY PcStep DEF WriteBadPath, WriterPcs
<1> HIDE DEF r
<1>2. Arrives(w) /\ UNCHANGED <<files, trailed>>
  BY DEF WriteBadPath
<1>3. RoomIsShared'
  BY <1>1, <1>2, ArrivalsAreFew
<1> QED
  BY <1>1, <1>2, <1>3, RequestStep DEF Arrives

LEMMA GuardListKeeps ==
  ASSUME WorkspaceInv, NEW w \in Writers, GuardList(w)
  PROVE  WorkspaceInv'
<1> DEFINE to == IF Fits(w) THEN "number" ELSE "denied"
<1> DEFINE r == [writer[w] EXCEPT !.pc = to]
<1>1. writer[w].pc = "list" /\ UNCHANGED <<files, trailed>> /\ To(w, to)
  BY DEF GuardList
<1>2. to \in {"number", "denied"} /\ to \in WriterPcs
  BY DEF WriterPcs
<1>3. to = "number" => Fits(w)
  OBVIOUS
<1> HIDE DEF to
<1>4. Becomes(w, r) /\ r.pc = to /\ r.path = writer[w].path /\ r.size = writer[w].size
  BY <1>1, <1>2, PcStep
<1> HIDE DEF r
<1>5. writer'[w] = r /\ \A u \in Writers \ {w} : writer'[u] = writer[u]
  BY <1>4 DEF WorkspaceInv, WorkspaceTypeOK, Becomes
<1>6. writer[w].path \in Paths /\ writer[w].size \in Sizes
  BY <1>1 DEF WorkspaceInv, NumbersAreNext
<1>7. IsFiniteSet(Underway') /\ Cardinality(Underway') <= AtOnce /\ Cardinality(Underway') \in Nat
  BY <1>1, <1>4, NoneArrives
<1>8. RoomIsShared'
  <2>1. CASE to = "number" /\ Of(writer[w].path) = {}
    <3>1. {f \in Entries : f.path = writer[w].path} = {}
      BY <2>1 DEF Entries, Of
    <3>2. Cardinality(Entries) < MaxFiles
      BY <1>3, <2>1, <3>1 DEF Fits
    <3>3. NewComers' \subseteq Underway'
      BY DEF NewComers, Underway
    <3>4. Cardinality(NewComers') <= Cardinality(Underway') /\ Cardinality(NewComers') \in Nat
      BY <1>7, <3>3, FS_Subset, FS_CardinalityType
    <3>5. Cardinality(Entries) \in Nat /\ IsFiniteSet(Entries)
      BY FS_CardinalityType DEF WorkspaceInv, RoomIsShared
    <3>6. Cardinality(Entries) + Cardinality(NewComers') <= MaxFiles + (AtOnce - 1)
      BY <1>7, <3>2, <3>4, <3>5, WorkspaceAssumption
    <3>7. Entries' = Entries
      BY <1>1, FilesStay
    <3> QED
      BY <1>7, <3>5, <3>6, <3>7 DEF RoomIsShared
  <2>2. CASE ~ (to = "number" /\ Of(writer[w].path) = {})
    <3>1. \A p : Of(p)' = Of(p)
      BY <1>1, FilesStay
    <3>2. \A u \in Writers : Of(writer[u].path)' = Of(writer'[u].path)
      BY <1>1 DEF Of
    <3>3. NewComers' \subseteq NewComers
      BY <1>2, <1>4, <1>5, <2>2, <3>2 DEF NewComers
    <3> QED
      BY <1>1, <1>7, <3>3, RoomStays
  <2> QED
    BY <2>1, <2>2
<1> QED
  BY <1>1, <1>2, <1>4, <1>6, <1>8, RequestStep

LEMMA NumberVersionKeeps ==
  ASSUME WorkspaceInv, NEW w \in Writers, NumberVersion(w)
  PROVE  WorkspaceInv'
<1>1. writer[w].pc = "number" /\ UNCHANGED <<files, trailed>>
  BY DEF NumberVersion
<1>2. writer[w].path \in Paths /\ writer[w].size \in Sizes
  BY <1>1 DEF WorkspaceInv, NumbersAreNext
<1>3. LatestVersion(writer[w].path) \in Nat
  BY <1>2, LatestIsNumber DEF WorkspaceInv
<1>4. PICK n \in Nat : n = LatestVersion(writer[w].path) + 1
  BY <1>3
<1> DEFINE r == [writer[w] EXCEPT !.pc = "insert", !.next = n]
<1>5. writer[w] \in WriteRequest /\ "insert" \in WriterPcs
  BY DEF WorkspaceInv, WorkspaceTypeOK, WriterPcs
<1>6. /\ r \in WriteRequest /\ r.pc = "insert" /\ r.next = n /\ r.path = writer[w].path
      /\ r.size = writer[w].size
  BY <1>5 DEF WriteRequest
<1>7. writer' = [writer EXCEPT ![w] = r]
  BY <1>4 DEF NumberVersion
<1> HIDE DEF r
<1>8. Becomes(w, r)
  BY <1>6, <1>7 DEF Becomes
<1>9. n \in 1..(LatestVersion(r.path) + 1)
  BY <1>3, <1>4, <1>6
<1>10. IsFiniteSet(Underway') /\ Cardinality(Underway') <= AtOnce
  BY <1>1, <1>8, NoneArrives
<1>11. NewComers' \subseteq NewComers
  <2>1. writer'[w] = r /\ \A u \in Writers \ {w} : writer'[u] = writer[u]
    BY <1>8 DEF WorkspaceInv, WorkspaceTypeOK, Becomes
  <2> QED
    BY <1>1, <1>6, <2>1 DEF NewComers, Of
<1>12. RoomIsShared'
  BY <1>1, <1>10, <1>11, RoomStays
<1> QED
  BY <1>1, <1>2, <1>6, <1>8, <1>9, <1>12, RequestStep

-----------------------------------------------------------------------------
\* The insert of w, of a row of path p, takes its number, which is the next one after n.
Inserts(w, p, n, made) ==
  /\ writer[w].pc = "insert" /\ writer[w].path = p /\ made = NewRow(w)
  /\ Dense(p, n) /\ \A f \in Of(p) : f.version # writer[w].next
  /\ files' = files \cup {made} /\ To(w, "written") /\ UNCHANGED trailed

LEMMA InsertIsNext ==
  ASSUME WorkspaceInv, NEW w \in Writers, NEW p, NEW n \in Nat, NEW made, Inserts(w, p, n, made)
  PROVE  /\ p \in Paths /\ made \in FileRow /\ made.path = p /\ made.by = w
         /\ made.version = n + 1 /\ made.version = writer[w].next /\ made \notin files
<1>1. writer[w] \in WriteRequest /\ writer[w].path \in Paths /\ writer[w].size \in Sizes
  BY DEF WorkspaceInv, WorkspaceTypeOK, NumbersAreNext, Inserts
<1>2. writer[w].next \in 1..(n + 1)
  BY LatestIs DEF WorkspaceInv, NumbersAreNext, Inserts
<1>3. writer[w].next \notin 1..n
  BY DEF Dense, Inserts
<1>4. writer[w].next = n + 1
  BY <1>2, <1>3
<1>5. writer[w].next \in Nat
  BY <1>1 DEF WriteRequest
<1>6. made \in FileRow /\ made.path = p /\ made.by = w /\ made.version = writer[w].next
  BY <1>1, <1>5 DEF NewRow, FileRow, Inserts
<1>7. made \notin files
  BY <1>6 DEF WorkspaceInv, NumbersAreNext, Inserts
<1> QED
  BY <1>1, <1>4, <1>6, <1>7 DEF Inserts

LEMMA InsertedPaths ==
  ASSUME WorkspaceInv, NEW w \in Writers, NEW p, NEW n \in Nat, NEW made, Inserts(w, p, n, made)
  PROVE  /\ Of(p)' = Of(p) \cup {made}
         /\ Dense(p, n + 1)' /\ LatestVersion(p) = n /\ LatestVersion(p)' = n + 1
         /\ \A q : q # p => (/\ Of(q)' = Of(q) /\ LatestVersion(q)' = LatestVersion(q)
                             /\ \A m : Dense(q, m)' <=> Dense(q, m))
<1>1. /\ p \in Paths /\ made \in FileRow /\ made.path = p /\ made.by = w
      /\ made.version = n + 1 /\ made \notin files /\ files' = files \cup {made}
  BY InsertIsNext DEF Inserts
<1>2. Of(p)' = Of(p) \cup {made} /\ made \notin Of(p)
  BY <1>1 DEF Of
<1>3. Dense(p, n + 1)'
  <2>1. IsFiniteSet(Of(p)) /\ Cardinality(Of(p)) = n /\ {f.version : f \in Of(p)} = 1..n
    BY DEF Inserts, Dense
  <2>2. IsFiniteSet(Of(p)') /\ Cardinality(Of(p)') = n + 1
    BY <1>2, <2>1, FS_AddElement
  <2>3. {f.version : f \in Of(p)'} = {f.version : f \in Of(p)} \cup {n + 1}
    BY <1>1, <1>2
  <2>4. (1..n) \cup {n + 1} = 1..(n + 1)
    OBVIOUS
  <2>5. {f.version : f \in Of(p)'} = 1..(n + 1)
    BY <2>1, <2>3, <2>4
  <2> QED
    BY <2>2, <2>5 DEF Dense
<1>4. LatestVersion(p) = n
  BY LatestIs DEF Inserts
<1>5. LatestVersion(p)' = n + 1
  <2>1. {f.version : f \in Of(p)'} = 1..(n + 1)
    BY <1>3 DEF Dense
  <2>2. Max({0} \cup (1..(n + 1))) = n + 1
    BY MaxOfSegment
  <2> QED
    BY <2>1, <2>2 DEF LatestVersion
<1>6. ASSUME NEW q, q # p
      PROVE  Of(q)' = Of(q)
  BY <1>1, <1>6 DEF Of
<1>7. ASSUME NEW q, q # p
      PROVE  LatestVersion(q)' = LatestVersion(q) /\ \A m : Dense(q, m)' <=> Dense(q, m)
  BY <1>6, <1>7 DEF LatestVersion, Dense
<1> QED
  BY <1>2, <1>3, <1>4, <1>5, <1>6, <1>7

\* The new row is the entry of its path, in the place of its predecessor when there is one.
LEMMA InsertedEntries ==
  ASSUME WorkspaceInv, NEW w \in Writers, NEW p, NEW n \in Nat, NEW made, Inserts(w, p, n, made)
  PROVE  /\ IsFiniteSet(Entries')
         /\ Of(p) = {} => Cardinality(Entries') = Cardinality(Entries) + 1
         /\ Of(p) # {} => Cardinality(Entries') = Cardinality(Entries)
<1> DEFINE kept == {f \in Entries : f.path # p}
<1>1. /\ made.path = p /\ made.version = n + 1 /\ made \notin files /\ files' = files \cup {made}
  BY InsertIsNext DEF Inserts
<1>2. /\ LatestVersion(p) = n /\ LatestVersion(p)' = n + 1
      /\ \A q : q # p => LatestVersion(q)' = LatestVersion(q)
  BY InsertedPaths
<1>3. \A f \in Of(p) : f.version \in 1..n
  BY DEF Inserts, Dense
<1>4. Entries' = kept \cup {made}
  <2>1. ASSUME NEW f \in files, f.path = p
        PROVE  f.version # n + 1
    BY <1>3, <2>1 DEF Of
  <2> QED
    BY <1>1, <1>2, <2>1 DEF Entries
<1>5. made \notin kept /\ IsFiniteSet(Entries) /\ kept \subseteq Entries
  BY <1>1 DEF WorkspaceInv, RoomIsShared, Entries
<1>6. IsFiniteSet(kept)
  BY <1>5, FS_Subset
<1>7. IsFiniteSet(Entries') /\ Cardinality(Entries') = Cardinality(kept) + 1
  BY <1>4, <1>5, <1>6, FS_AddElement
<1>8. CASE Of(p) = {}
  <2>1. kept = Entries
    BY <1>8 DEF Entries, Of
  <2> QED
    BY <1>7, <1>8, <2>1
<1>9. CASE Of(p) # {}
  <2>1. n # 0
    BY <1>9, LatestIs DEF Inserts
  <2>2. n \in {f.version : f \in Of(p)}
    BY <2>1 DEF Inserts, Dense
  <2>3. PICK old \in Of(p) : old.version = n
    BY <2>2
  <2>4. \A f \in Of(p) : f.version = n => f = old
    BY <2>3, OnePerVersion DEF WorkspaceInv, Inserts
  <2>5. old \in Entries /\ kept = Entries \ {old}
    BY <1>2, <2>3, <2>4 DEF Entries, Of
  <2>6. Cardinality(kept) = Cardinality(Entries) - 1 /\ Cardinality(Entries) \in Nat
    BY <1>5, <2>5, FS_RemoveElement, FS_CardinalityType
  <2> HIDE DEF kept
  <2>7. Cardinality(Entries') = Cardinality(Entries)
    BY <1>7, <2>6
  <2> QED
    BY <1>7, <1>9, <2>7
<1> QED
  BY <1>8, <1>9

LEMMA InsertedRoom ==
  ASSUME WorkspaceInv, NEW w \in Writers, NEW p, NEW n \in Nat, NEW made, Inserts(w, p, n, made)
  PROVE  RoomIsShared'
<1>1. writer[w].pc = "insert" /\ writer[w].path = p /\ To(w, "written")
  BY DEF Inserts
<1>2. PICK r : r = [writer[w] EXCEPT !.pc = "written"]
  OBVIOUS
<1>3. Becomes(w, r) /\ r.pc = "written"
  BY <1>1, <1>2, PcStep DEF WriterPcs
<1>4. writer'[w] = r /\ \A u \in Writers \ {w} : writer'[u] = writer[u]
  BY <1>3 DEF WorkspaceInv, WorkspaceTypeOK, Becomes
<1>5. IsFiniteSet(Underway') /\ Cardinality(Underway') <= AtOnce
  BY <1>1, <1>3, NoneArrives
<1>6. Of(p)' = Of(p) \cup {made} /\ \A q : q # p => Of(q)' = Of(q)
  BY InsertedPaths
<1>7. \A u \in Writers : Of(writer[u].path)' = {} => Of(writer'[u].path) = {}
  <2>1. \A q : Of(q) \subseteq {f \in files' : f.path = q}
    BY DEF Of, Inserts
  <2> QED
    BY <2>1 DEF Of
<1>8. NewComers' \subseteq NewComers \ {w}
  BY <1>3, <1>4, <1>7 DEF NewComers
<1>9. NewComers \subseteq Underway
  BY DEF NewComers, Underway
<1>10. IsFiniteSet(NewComers)
  BY <1>9, FS_Subset DEF WorkspaceInv, RoomIsShared
<1>11. /\ IsFiniteSet(NewComers') /\ Cardinality(NewComers') <= Cardinality(NewComers)
       /\ Cardinality(NewComers') \in Nat /\ Cardinality(NewComers) \in Nat
  BY <1>8, <1>10, FS_Subset, FS_CardinalityType
<1>12. Of(p) = {} => Cardinality(NewComers') <= Cardinality(NewComers) - 1
  <2>1. ASSUME Of(p) = {}
        PROVE  Cardinality(NewComers') <= Cardinality(NewComers) - 1
    <3>1. w \in NewComers
      BY <1>1, <2>1 DEF NewComers
    <3>2. IsFiniteSet(NewComers \ {w}) /\ Cardinality(NewComers \ {w}) = Cardinality(NewComers) - 1
      BY <1>10, <3>1, FS_RemoveElement
    <3>3. Cardinality(NewComers') <= Cardinality(NewComers \ {w})
      BY <1>8, <3>2, FS_Subset
    <3> QED
      BY <3>2, <3>3
  <2> QED
    BY <2>1
<1>13. /\ IsFiniteSet(Entries') /\ Cardinality(Entries) \in Nat
       /\ Cardinality(Entries) + Cardinality(NewComers) <= MaxFiles + (AtOnce - 1)
  BY InsertedEntries, FS_CardinalityType DEF WorkspaceInv, RoomIsShared
<1>14. Cardinality(Entries') + Cardinality(NewComers') <= MaxFiles + (AtOnce - 1)
  <2>1. CASE Of(p) = {}
    <3>1. Cardinality(Entries') = Cardinality(Entries) + 1
      BY <2>1, InsertedEntries
    <3> QED
      BY <1>11, <1>12, <1>13, <2>1, <3>1, WorkspaceAssumption
  <2>2. CASE Of(p) # {}
    <3>1. Cardinality(Entries') = Cardinality(Entries)
      BY <2>2, InsertedEntries
    <3> QED
      BY <1>11, <1>13, <3>1, WorkspaceAssumption
  <2> QED
    BY <2>1, <2>2
<1> QED
  BY <1>5, <1>13, <1>14 DEF RoomIsShared

LEMMA InsertsKeeps ==
  ASSUME WorkspaceInv, NEW w \in Writers, NEW p, NEW n \in Nat, NEW made, Inserts(w, p, n, made)
  PROVE  WorkspaceInv'
<1>1. /\ writer[w].pc = "insert" /\ writer[w].path = p /\ To(w, "written")
      /\ files' = files \cup {made} /\ UNCHANGED trailed
  BY DEF Inserts
<1>2. /\ p \in Paths /\ made \in FileRow /\ made.by = w /\ made.version = n + 1
      /\ made.version = writer[w].next
  BY InsertIsNext
<1>3. PICK r : r = [writer[w] EXCEPT !.pc = "written"]
  OBVIOUS
<1>4. Becomes(w, r) /\ r.pc = "written" /\ r.path = p /\ r.next = writer[w].next
  BY <1>1, <1>3, PcStep DEF WriterPcs
<1>5. /\ writer'[w] = r /\ writer' \in [Writers -> WriteRequest]
      /\ \A u \in Writers \ {w} : writer'[u] = writer[u]
  BY <1>4 DEF WorkspaceInv, WorkspaceTypeOK, Becomes
<1>6. WorkspaceTypeOK'
  BY <1>1, <1>2, <1>5 DEF WorkspaceInv, WorkspaceTypeOK
<1>7. PathsAreDense'
  <2>1. ASSUME NEW q \in Paths
        PROVE  \E m \in Nat : Dense(q, m)'
    <3>1. CASE q = p
      BY <3>1, InsertedPaths
    <3>2. CASE q # p
      BY <3>2, InsertedPaths DEF WorkspaceInv, PathsAreDense
    <3> QED
      BY <3>1, <3>2
  <2> QED
    BY <2>1 DEF PathsAreDense
<1>8. \A q \in Paths : LatestVersion(q) \in Nat /\ LatestVersion(q)' \in Nat
                       /\ LatestVersion(q) <= LatestVersion(q)'
  <2>1. ASSUME NEW q \in Paths
        PROVE  LatestVersion(q) \in Nat /\ LatestVersion(q)' \in Nat
               /\ LatestVersion(q) <= LatestVersion(q)'
    <3>1. CASE q = p
      <4>1. LatestVersion(q) = n /\ LatestVersion(q)' = n + 1
        BY <3>1, InsertedPaths
      <4> QED
        BY <4>1
    <3>2. CASE q # p
      <4>1. LatestVersion(q)' = LatestVersion(q) /\ LatestVersion(q) \in Nat
        BY <3>2, InsertedPaths, LatestIsNumber DEF WorkspaceInv
      <4> QED
        BY <4>1
    <3> QED
      BY <3>1, <3>2
  <2> QED
    BY <2>1
<1>9. NumbersAreNext'
  <2>1. ASSUME NEW u \in Writers
        PROVE  /\ writer'[u].pc \in {"list", "number", "insert", "written"} =>
                    writer'[u].path \in Paths
               /\ writer'[u].pc \in {"list", "number", "insert"} => writer'[u].size \in Sizes
               /\ writer'[u].pc = "written" =>
                    /\ writer'[u].next > 0
                    /\ \E f \in files' : f.by = u /\ f.version = writer'[u].next
               /\ writer'[u].pc \notin {"written", "returned"} => \A f \in files' : f.by # u
    <3>1. CASE u = w
      BY <1>1, <1>2, <1>4, <1>5, <3>1
    <3>2. CASE u # w
      BY <1>1, <1>2, <1>5, <3>2 DEF WorkspaceInv, NumbersAreNext
    <3> QED
      BY <3>1, <3>2
  <2>2. ASSUME NEW u \in Writers, writer'[u].pc = "insert"
        PROVE  writer'[u].next \in 1..(LatestVersion(writer[u].path)' + 1)
    <3>1. u # w /\ writer'[u] = writer[u]
      BY <1>4, <1>5, <2>2
    <3>2. PICK q : q = writer[u].path
      OBVIOUS
    <3>3. writer[u].next \in 1..(LatestVersion(q) + 1) /\ q \in Paths
      BY <2>2, <3>1, <3>2 DEF WorkspaceInv, NumbersAreNext
    <3>4. LatestVersion(q) \in Nat /\ LatestVersion(q)' \in Nat
          /\ LatestVersion(q) <= LatestVersion(q)'
      BY <1>8, <3>3
    <3>5. writer[u].next \in 1..(LatestVersion(q)' + 1)
      BY <3>3, <3>4
    <3>6. LatestVersion(writer[u].path)' = LatestVersion(q)'
      BY <3>1, <3>2 DEF LatestVersion, Of
    <3> QED
      BY <3>1, <3>5, <3>6
  <2> QED
    BY <2>1, <2>2 DEF NumbersAreNext
<1>10. OneRowEach'
  <2>1. ASSUME NEW u \in Writers, writer'[u].pc = "returned"
        PROVE  Trailed(u)'
    <3>1. u # w /\ writer[u].pc = "returned"
      BY <1>4, <1>5, <2>1
    <3>2. Trailed(u)
      BY <3>1 DEF WorkspaceInv, OneRowEach
    <3> QED
      BY <1>1, <1>2, <3>1, <3>2 DEF Trailed
  <2>2. ASSUME NEW u \in Writers, writer'[u].pc # "returned"
        PROVE  \A entry \in trailed : entry[1] # u
    <3>1. writer[u].pc # "returned"
      BY <1>1, <1>5, <2>2
    <3> QED
      BY <3>1 DEF WorkspaceInv, OneRowEach
  <2> QED
    BY <1>1, <2>1, <2>2 DEF OneRowEach
<1> QED
  BY <1>6, <1>7, <1>9, <1>10, InsertedRoom DEF WorkspaceInv

LEMMA InsertVersionKeeps ==
  ASSUME WorkspaceInv, NEW w \in Writers, InsertVersion(w)
  PROVE  WorkspaceInv'
<1>1. writer[w].pc = "insert" /\ UNCHANGED trailed
  BY DEF InsertVersion
<1>2. writer[w].path \in Paths
  BY <1>1 DEF WorkspaceInv, NumbersAreNext
<1>3. CASE \E f \in Of(writer[w].path) : f.version = writer[w].next
  <2>1. To(w, "failed") /\ UNCHANGED <<files, trailed>>
    BY <1>1, <1>3 DEF InsertVersion
  <2>2. PICK r : r = [writer[w] EXCEPT !.pc = "failed"]
    OBVIOUS
  <2>3. Becomes(w, r) /\ r.pc = "failed"
    BY <2>1, <2>2, PcStep DEF WriterPcs
  <2>4. writer'[w] = r /\ \A u \in Writers \ {w} : writer'[u] = writer[u]
    BY <2>3 DEF WorkspaceInv, WorkspaceTypeOK, Becomes
  <2>5. IsFiniteSet(Underway') /\ Cardinality(Underway') <= AtOnce
    BY <1>1, <2>3, NoneArrives
  <2>6. NewComers' \subseteq NewComers
    BY <2>1, <2>3, <2>4 DEF NewComers, Of
  <2>7. RoomIsShared'
    BY <2>1, <2>5, <2>6, RoomStays
  <2> QED
    BY <1>1, <2>1, <2>3, <2>7, RequestStep
<1>4. CASE ~ \E f \in Of(writer[w].path) : f.version = writer[w].next
  <2>1. PICK p : p = writer[w].path
    OBVIOUS
  <2>2. PICK made : made = NewRow(w)
    OBVIOUS
  <2>3. PICK n \in Nat : Dense(p, n)
    BY <1>2, <2>1 DEF WorkspaceInv, PathsAreDense
  <2>4. Inserts(w, p, n, made)
    BY <1>1, <1>4, <2>1, <2>2, <2>3 DEF InsertVersion, Inserts
  <2> QED
    BY <2>4, InsertsKeeps
<1> QED
  BY <1>3, <1>4

-----------------------------------------------------------------------------
LEMMA GuardAuditKeeps ==
  ASSUME WorkspaceInv, NEW w \in Writers, GuardAudit(w)
  PROVE  WorkspaceInv'
<1>1. /\ writer[w].pc \in {"written", "denied"} /\ To(w, "returned") /\ UNCHANGED files
  BY DEF GuardAudit
<1>2. PICK v : v = IF writer[w].pc = "written" THEN writer[w].next ELSE 0
  OBVIOUS
<1>3. trailed' = trailed \cup {<<w, v>>}
  BY <1>2 DEF GuardAudit
<1>4. writer[w] \in WriteRequest /\ writer[w].next \in Nat
  BY DEF WorkspaceInv, WorkspaceTypeOK, WriteRequest
<1>5. v \in Nat /\ IF v = 0 THEN \A f \in files : f.by # w
                   ELSE \E f \in files : f.by = w /\ f.version = v
  <2>1. CASE writer[w].pc = "written"
    <3>1. v = writer[w].next /\ v > 0 /\ \E f \in files : f.by = w /\ f.version = v
      BY <1>2, <2>1 DEF WorkspaceInv, NumbersAreNext
    <3>2. v \in Nat /\ v # 0
      BY <1>4, <3>1
    <3> QED
      BY <3>1, <3>2
  <2>2. CASE writer[w].pc = "denied"
    BY <1>2, <2>2 DEF WorkspaceInv, NumbersAreNext
  <2> QED
    BY <1>1, <2>1, <2>2
<1>6. PICK r : r = [writer[w] EXCEPT !.pc = "returned"]
  OBVIOUS
<1>7. Becomes(w, r) /\ r.pc = "returned"
  BY <1>1, <1>6, PcStep DEF WriterPcs
<1>8. /\ writer'[w] = r /\ writer' \in [Writers -> WriteRequest]
      /\ \A u \in Writers \ {w} : writer'[u] = writer[u]
  BY <1>7 DEF WorkspaceInv, WorkspaceTypeOK, Becomes
<1>9. WorkspaceTypeOK'
  BY <1>1, <1>3, <1>5, <1>8 DEF WorkspaceInv, WorkspaceTypeOK
<1>10. PathsAreDense'
  BY <1>1, FilesStay DEF WorkspaceInv, PathsAreDense
<1>11. NumbersAreNext'
  <2>1. \A u \in Writers : LatestVersion(writer[u].path)' = LatestVersion(writer'[u].path)
    BY <1>1 DEF LatestVersion, Of
  <2> QED
    BY <1>1, <1>7, <1>8, <2>1 DEF WorkspaceInv, NumbersAreNext
<1>12. OneRowEach'
  <2>1. Trailed(w)'
    <3>1. \A entry \in trailed : entry[1] # w
      BY <1>1 DEF WorkspaceInv, OneRowEach
    <3>2. <<w, v>> \in trailed' /\ <<w, v>>[1] = w /\ <<w, v>>[2] = v
      BY <1>3
    <3>3. \A other \in trailed' : other[1] = w => other = <<w, v>>
      BY <1>3, <3>1
    <3> QED
      BY <1>1, <1>5, <3>2, <3>3 DEF Trailed
  <2>2. ASSUME NEW u \in Writers \ {w}
        PROVE  IF writer'[u].pc = "returned" THEN Trailed(u)'
               ELSE \A entry \in trailed' : entry[1] # u
    <3>1. CASE writer[u].pc = "returned"
      <4>1. Trailed(u)
        BY <3>1 DEF WorkspaceInv, OneRowEach
      <4>2. Trailed(u)'
        BY <1>1, <1>3, <4>1 DEF Trailed
      <4> QED
        BY <1>8, <3>1, <4>2
    <3>2. CASE writer[u].pc # "returned"
      BY <1>3, <1>8, <3>2 DEF WorkspaceInv, OneRowEach
    <3> QED
      BY <3>1, <3>2
  <2> QED
    BY <1>7, <1>8, <2>1, <2>2 DEF OneRowEach
<1>13. RoomIsShared'
  <2>1. IsFiniteSet(Underway') /\ Cardinality(Underway') <= AtOnce
    BY <1>1, <1>7, NoneArrives
  <2>2. NewComers' \subseteq NewComers
    BY <1>1, <1>7, <1>8 DEF NewComers, Of
  <2> QED
    BY <1>1, <2>1, <2>2, RoomStays
<1> QED
  BY <1>9, <1>10, <1>11, <1>12, <1>13 DEF WorkspaceInv

LEMMA WorkspaceNextPreserves ==
  ASSUME WorkspaceInv, [WorkspaceNext]_workspaceVars
  PROVE  WorkspaceInv'
<1>1. CASE UNCHANGED workspaceVars
  <2>1. WorkspaceTypeOK' /\ PathsAreDense' /\ NumbersAreNext'
    BY <1>1 DEF WorkspaceInv, WorkspaceTypeOK, PathsAreDense, NumbersAreNext, Dense, Of,
                LatestVersion, workspaceVars
  <2>2. OneRowEach'
    BY <1>1 DEF WorkspaceInv, OneRowEach, Trailed, workspaceVars
  <2>3. RoomIsShared'
    BY <1>1 DEF WorkspaceInv, RoomIsShared, Underway, Entries, NewComers, LatestVersion, Of,
                workspaceVars
  <2> QED
    BY <2>1, <2>2, <2>3 DEF WorkspaceInv
<1>2. CASE WorkspaceNext
  <2>1. PICK w \in Writers :
          \/ \E p \in Paths, size \in Sizes : WriteBegin(w, p, size)
          \/ WriteBadPath(w)
          \/ \E f \in files : \/ RollbackBegin(w, f)
                              \/ \E size \in Sizes : EditBegin(w, f, size)
          \/ GuardList(w) \/ NumberVersion(w) \/ InsertVersion(w) \/ GuardAudit(w)
    BY <1>2 DEF WorkspaceNext
  <2>2. CASE \E p \in Paths, size \in Sizes : WriteBegin(w, p, size)
    BY <2>2, SubmitKeeps DEF WriteBegin
  <2>3. CASE \E f \in files : \/ RollbackBegin(w, f)
                              \/ \E size \in Sizes : EditBegin(w, f, size)
    <3>1. PICK f \in files : RollbackBegin(w, f) \/ \E size \in Sizes : EditBegin(w, f, size)
      BY <2>3
    <3>2. f.path \in Paths /\ f.size \in Sizes
      BY DEF WorkspaceInv, WorkspaceTypeOK, FileRow
    <3>3. CASE RollbackBegin(w, f)
      BY <3>2, <3>3, SubmitKeeps DEF RollbackBegin
    <3>4. CASE \E size \in Sizes : EditBegin(w, f, size)
      BY <3>2, <3>4, SubmitKeeps DEF EditBegin
    <3> QED
      BY <3>1, <3>3, <3>4
  <2>4. CASE GuardList(w)
    BY <2>4, GuardListKeeps
  <2>5. CASE WriteBadPath(w) \/ NumberVersion(w) \/ InsertVersion(w) \/ GuardAudit(w)
    BY <2>5, WriteBadPathKeeps, NumberVersionKeeps, InsertVersionKeeps, GuardAuditKeeps
  <2> QED
    BY <2>1, <2>2, <2>3, <2>4, <2>5
<1> QED
  BY <1>1, <1>2

LEMMA WorkspaceIsInvariant == WorkspaceSpec => []WorkspaceInv
BY WorkspaceStarts, WorkspaceNextPreserves, PTL DEF WorkspaceSpec

\* A path has the versions 1..n, each once, whatever appends raced for a number; a request
\* that the guard has answered left one audit row, which names the version it wrote, or none:
\* for any number of writers, paths and documents.
THEOREM WritesLeaveTheirTrail == WorkspaceSpec => []WritesAreTrailed
<1>1. WorkspaceInv => WritesAreTrailed
  <2>1. WorkspaceInv => VersionsAreDense
    <3>1. ASSUME WorkspaceInv, NEW p \in Paths
          PROVE  /\ {f.version : f \in Of(p)} = 1..LatestVersion(p)
                 /\ Cardinality(Of(p)) = LatestVersion(p)
      BY <3>1, LatestIsNumber DEF WorkspaceInv, Dense
    <3> QED
      BY <3>1 DEF VersionsAreDense
  <2> QED
    BY <2>1 DEF WritesAreTrailed, WorkspaceInv, OneRowEach, Trailed
<1> QED
  BY <1>1, WorkspaceIsInvariant, PTL

\* The guard compares the files that it listed with the limit, and a request that listed before
\* may write after: AtOnce requests exceed the limit by AtOnce - 1 files at most, for any number
\* of requests after them, any limit and any AtOnce.
THEOREM FilesOvershootByFew == WorkspaceSpec => []FilesAreBounded
<1>1. WorkspaceInv => FilesAreBounded
  <2>1. ASSUME WorkspaceInv
        PROVE  Cardinality(Entries) <= MaxFiles + (AtOnce - 1)
    <3>1. NewComers \subseteq Underway
      BY DEF NewComers, Underway
    <3>2. Cardinality(NewComers) \in Nat /\ Cardinality(Entries) \in Nat
      BY <2>1, <3>1, FS_Subset, FS_CardinalityType DEF WorkspaceInv, RoomIsShared
    <3>3. Cardinality(Entries) + Cardinality(NewComers) <= MaxFiles + (AtOnce - 1)
      BY <2>1 DEF WorkspaceInv, RoomIsShared
    <3> QED
      BY <3>2, <3>3, WorkspaceAssumption
  <2> QED
    BY <2>1 DEF FilesAreBounded
<1> QED
  BY <1>1, WorkspaceIsInvariant, PTL

-----------------------------------------------------------------------------
(* Sums over a set, by their smallest counterexample.                      *)

\* A set of numbers that is not empty has a smallest member: induction in first-order form.
LEMMA SmallestMember ==
  ASSUME NEW T \in SUBSET Nat, T # {}
  PROVE  \E m \in T : \A k \in T : m <= k
<1>1. \E m \in T : \A k \in T : <<k, m>> \notin OpToRel(<, Nat)
  BY NatLessThanWellFounded, WFMin
<1>2. \A k, m \in T : <<k, m>> \in OpToRel(<, Nat) <=> k < m
  BY DEF OpToRel
<1>3. PICK m \in T : \A k \in T : <<k, m>> \notin OpToRel(<, Nat)
  BY <1>1
<1>4. \A k \in T : ~(k < m)
  BY <1>2, <1>3
<1> QED
  BY <1>4

\* The member the fold takes next.
One(S) == CHOOSE x \in S : TRUE
Sums(sum, S) ==
  sum = [s \in SUBSET S |-> IF s = {} THEN 0 ELSE One(s).size + sum[s \ {One(s)}]]

\* The fold that adds the sizes, as a function on the parts of a set: there is one, and
\* two agree.
LEMMA BytesAre == \A S : BytesOf(S) = (CHOOSE sum : Sums(sum, S))[S]
BY DEF BytesOf, MapThenSumSet, MapThenFoldSet, Sums, One

LEMMA SumsAgree ==
  ASSUME NEW S, IsFiniteSet(S), NEW a, NEW b, Sums(a, S), Sums(b, S)
  PROVE  \A s \in SUBSET S : a[s] = b[s]
<1> DEFINE differ == {s \in SUBSET S : a[s] # b[s]}
<1> DEFINE sizes == {Cardinality(s) : s \in differ}
<1>1. SUFFICES ASSUME differ # {} PROVE FALSE
  OBVIOUS
<1>2. \A s \in SUBSET S : IsFiniteSet(s) /\ Cardinality(s) \in Nat
  BY FS_Subset, FS_CardinalityType
<1>3. sizes \in SUBSET Nat /\ sizes # {}
  BY <1>1, <1>2
<1>4. PICK m \in sizes : \A k \in sizes : m <= k
  BY <1>3, SmallestMember
<1>5. PICK s \in differ : Cardinality(s) = m
  OBVIOUS
<1>6. s # {}
  BY DEF Sums
<1> DEFINE u == s \ {One(s)}
<1>7. One(s) \in s
  BY <1>6 DEF One
<1>8. u \in SUBSET S /\ Cardinality(u) = m - 1 /\ Cardinality(u) \in Nat /\ m \in Nat
  BY <1>2, <1>5, <1>7, FS_RemoveElement
<1>9. a[u] = b[u]
  <2>1. ~(m <= m - 1)
    BY <1>8
  <2>2. Cardinality(u) \notin sizes
    BY <1>4, <1>8, <2>1
  <2> QED
    BY <1>8, <2>2
<1>10. a[s] = One(s).size + a[u] /\ b[s] = One(s).size + b[u]
  BY <1>6 DEF Sums
<1> QED
  BY <1>9, <1>10

LEMMA SumsBelow ==
  ASSUME NEW S, NEW a, Sums(a, S), NEW T \in SUBSET S
  PROVE  Sums([s \in SUBSET T |-> a[s]], T)
<1>1. \A s \in SUBSET T : s \in SUBSET S /\ s \ {One(s)} \in SUBSET T
  OBVIOUS
<1>2. \A s \in SUBSET S : a[s] = IF s = {} THEN 0 ELSE One(s).size + a[s \ {One(s)}]
  BY DEF Sums
<1> DEFINE r == [s \in SUBSET T |-> a[s]]
<1>3. \A s \in SUBSET T : r[s] = IF s = {} THEN 0 ELSE One(s).size + r[s \ {One(s)}]
  BY <1>1, <1>2
<1> QED
  BY <1>3 DEF Sums

LEMMA SumsExist ==
  ASSUME NEW S, IsFiniteSet(S)
  PROVE  \E a : Sums(a, S)
<1> DEFINE bad == {n \in Nat : \E T : IsFiniteSet(T) /\ Cardinality(T) = n /\ ~\E a : Sums(a, T)}
<1>1. SUFFICES ASSUME bad # {} PROVE FALSE
  BY FS_CardinalityType
<1>2. PICK m \in bad : \A k \in bad : m <= k
  BY <1>1, SmallestMember
<1>3. PICK T : IsFiniteSet(T) /\ Cardinality(T) = m /\ ~\E a : Sums(a, T)
  BY <1>2
<1> DEFINE F(s) == CHOOSE a : Sums(a, s)
<1>4. ASSUME NEW s \in SUBSET T, s # T
      PROVE  Sums(F(s), s) /\ IsFiniteSet(s)
  <2>1. IsFiniteSet(s) /\ Cardinality(s) \in Nat /\ Cardinality(s) <= m /\ Cardinality(s) # m
    BY <1>3, <1>4, FS_Subset, FS_CardinalityType
  <2>2. Cardinality(s) \notin bad
    BY <1>2, <2>1
  <2>3. \E a : Sums(a, s)
    BY <2>1, <2>2
  <2> QED
    BY <2>1, <2>3
<1> DEFINE below(s) == s \ {One(s)}
<1> DEFINE sum == [s \in SUBSET T |-> IF s = {} THEN 0 ELSE One(s).size + F(below(s))[below(s)]]
<1>5. \A s \in SUBSET T : s # {} => One(s) \in s /\ below(s) \in SUBSET T /\ below(s) # T
  BY DEF One
<1>6. ASSUME NEW s \in SUBSET T, s # T
      PROVE  sum[s] = F(s)[s]
  <2>1. Sums(F(s), s) /\ IsFiniteSet(s) /\ s \in SUBSET s
    BY <1>4, <1>6
  <2>2. CASE s = {}
    BY <2>1, <2>2 DEF Sums
  <2>3. CASE s # {}
    <3> DEFINE u == below(s)
    <3>1. u \in SUBSET s /\ u \in SUBSET T /\ u # T
      BY <1>5, <2>3
    <3>2. Sums(F(u), u) /\ IsFiniteSet(u)
      BY <1>4, <3>1
    <3> HIDE DEF F
    <3>3. Sums([v \in SUBSET u |-> F(s)[v]], u)
      BY <2>1, <3>1, SumsBelow
    <3>4. [v \in SUBSET u |-> F(s)[v]][u] = F(u)[u]
      BY <3>2, <3>3, SumsAgree
    <3>5. F(s)[s] = One(s).size + F(s)[u]
      BY <2>1, <2>3 DEF Sums
    <3> QED
      BY <2>3, <3>4, <3>5
  <2> QED
    BY <2>2, <2>3
<1>7. Sums(sum, T)
  <2> HIDE DEF F
  <2>1. \A s \in SUBSET T : s # {} => sum[below(s)] = F(below(s))[below(s)]
    BY <1>5, <1>6
  <2>2. \A s \in SUBSET T : sum[s] = IF s = {} THEN 0 ELSE One(s).size + sum[below(s)]
    BY <2>1
  <2> QED
    BY <2>2 DEF Sums
<1> QED
  BY <1>3, <1>7

\* The bytes of a set are those of one member and those of the others.
LEMMA BytesUnfold ==
  ASSUME NEW S, IsFiniteSet(S)
  PROVE  BytesOf(S) = IF S = {} THEN 0 ELSE One(S).size + BytesOf(S \ {One(S)})
<1> DEFINE F(s) == CHOOSE a : Sums(a, s)
<1>1. Sums(F(S), S) /\ S \in SUBSET S
  BY SumsExist
<1>2. BytesOf(S) = F(S)[S]
  BY BytesAre
<1> DEFINE u == S \ {One(S)}
<1>3. u \in SUBSET S /\ IsFiniteSet(u)
  BY FS_Subset
<1>4. Sums(F(u), u) /\ BytesOf(u) = F(u)[u]
  BY <1>3, SumsExist, BytesAre
<1> HIDE DEF F
<1>5. Sums([v \in SUBSET u |-> F(S)[v]], u)
  BY <1>1, <1>3, SumsBelow
<1>6. F(S)[u] = F(u)[u]
  BY <1>3, <1>4, <1>5, SumsAgree
<1>7. F(S)[S] = IF S = {} THEN 0 ELSE One(S).size + F(S)[u]
  BY <1>1 DEF Sums
<1> QED
  BY <1>2, <1>4, <1>6, <1>7

Sized(S) == IsFiniteSet(S) /\ \A f \in S : f.size \in Nat

\* The bytes do not depend on the order in which they are added up.
LEMMA BytesAdd ==
  ASSUME NEW S, Sized(S)
  PROVE  /\ BytesOf(S) \in Nat
         /\ \A x \in S : BytesOf(S) = x.size + BytesOf(S \ {x}) /\ BytesOf(S \ {x}) \in Nat
<1> DEFINE Good(T) == /\ BytesOf(T) \in Nat
                      /\ \A x \in T : BytesOf(T) = x.size + BytesOf(T \ {x}) /\ BytesOf(T \ {x}) \in Nat
<1> DEFINE bad == {n \in Nat : \E T : Sized(T) /\ Cardinality(T) = n /\ ~Good(T)}
<1>1. SUFFICES ASSUME bad # {} PROVE FALSE
  BY FS_CardinalityType DEF Sized
<1>2. PICK m \in bad : \A k \in bad : m <= k
  BY <1>1, SmallestMember
<1>3. PICK T : Sized(T) /\ Cardinality(T) = m /\ ~Good(T)
  BY <1>2
<1>4. ASSUME NEW x \in T
      PROVE  Sized(T \ {x}) /\ Good(T \ {x})
  <2>1. IsFiniteSet(T \ {x}) /\ Cardinality(T \ {x}) = m - 1 /\ Cardinality(T \ {x}) \in Nat
    BY <1>3, FS_RemoveElement, FS_CardinalityType DEF Sized
  <2>2. Sized(T \ {x})
    BY <1>3, <2>1 DEF Sized
  <2>3. m - 1 \notin bad
    BY <1>2, <2>1
  <2> QED
    BY <2>1, <2>2, <2>3
<1>5. CASE T = {}
  <2>1. BytesOf(T) = 0
    BY <1>3, <1>5, BytesUnfold DEF Sized
  <2>2. Good(T)
    BY <1>5, <2>1
  <2> QED
    BY <1>3, <2>2
<1>6. CASE T # {}
  <2> DEFINE y == One(T)
  <2>1. y \in T
    BY <1>6 DEF One
  <2>2. BytesOf(T) = y.size + BytesOf(T \ {y})
    BY <1>3, <1>6, BytesUnfold DEF Sized
  <2>3. Good(T \ {y}) /\ y.size \in Nat
    BY <1>3, <1>4, <2>1 DEF Sized
  <2>4. BytesOf(T) \in Nat
    BY <2>2, <2>3
  <2>5. ASSUME NEW x \in T, x # y
        PROVE  BytesOf(T) = x.size + BytesOf(T \ {x}) /\ BytesOf(T \ {x}) \in Nat
    <3> HIDE DEF y
    <3>1. x \in T \ {y} /\ y \in T \ {x}
      BY <2>1, <2>5
    <3>2. /\ BytesOf(T \ {y}) = x.size + BytesOf((T \ {y}) \ {x})
          /\ BytesOf((T \ {y}) \ {x}) \in Nat
      BY <2>3, <3>1
    <3>3. /\ BytesOf(T \ {x}) = y.size + BytesOf((T \ {x}) \ {y}) /\ BytesOf(T \ {x}) \in Nat
      BY <1>4, <3>1
    <3>4. (T \ {x}) \ {y} = (T \ {y}) \ {x}
      OBVIOUS
    <3>5. x.size \in Nat
      BY <1>3 DEF Sized
    <3> QED
      BY <2>2, <2>3, <3>2, <3>3, <3>4, <3>5
  <2>6. Good(T)
    BY <2>1, <2>2, <2>3, <2>4, <2>5
  <2> QED
    BY <1>3, <2>6
<1> QED
  BY <1>5, <1>6

\* The bytes of a part and of what is left of it.
LEMMA BytesJoin ==
  ASSUME NEW S, Sized(S), NEW T \in SUBSET S
  PROVE  BytesOf(S) = BytesOf(T) + BytesOf(S \ T) /\ BytesOf(T) \in Nat /\ BytesOf(S \ T) \in Nat
<1> DEFINE Good(U) == BytesOf(S) = BytesOf(U) + BytesOf(S \ U)
<1>1. \A U \in SUBSET S : Sized(U) /\ Sized(S \ U) /\ Cardinality(U) \in Nat
  BY FS_Subset, FS_CardinalityType DEF Sized
<1>2. \A U \in SUBSET S : BytesOf(U) \in Nat /\ BytesOf(S \ U) \in Nat
  BY <1>1, BytesAdd
<1> DEFINE bad == {n \in Nat : \E U \in SUBSET S : Cardinality(U) = n /\ ~Good(U)}
<1>3. bad = {}
  <2>1. SUFFICES ASSUME bad # {} PROVE FALSE
    OBVIOUS
  <2>2. PICK m \in bad : \A k \in bad : m <= k
    BY <2>1, SmallestMember
  <2>3. PICK U \in SUBSET S : Cardinality(U) = m /\ ~Good(U)
    BY <2>2
  <2>4. CASE U = {}
    <3>1. BytesOf(U) = 0 /\ S \ U = S
      BY <2>4, FS_EmptySet, BytesUnfold
    <3>2. BytesOf(S \ U) \in Nat
      BY <1>2
    <3> QED
      BY <2>3, <3>1, <3>2
  <2>5. CASE U # {}
    <3>1. PICK x \in U : TRUE
      BY <2>5
    <3> DEFINE V == U \ {x}
    <3>2. V \in SUBSET S /\ Cardinality(V) = m - 1 /\ Cardinality(V) \in Nat /\ m \in Nat
      BY <1>1, <2>3, <3>1, FS_RemoveElement DEF Sized
    <3>3. Good(V)
      <4>1. ~(m <= m - 1)
        BY <3>2
      <4>2. Cardinality(V) \notin bad
        BY <2>2, <3>2, <4>1
      <4> QED
        BY <3>2, <4>2
    <3>4. BytesOf(U) = x.size + BytesOf(V)
      BY <1>1, <3>1, BytesAdd
    <3>5. BytesOf(S \ V) = x.size + BytesOf((S \ V) \ {x})
      BY <1>1, <3>1, <3>2, BytesAdd
    <3>6. (S \ V) \ {x} = S \ U
      BY <3>1
    <3>7. x.size \in Nat
      BY <3>1 DEF Sized
    <3>8. BytesOf(V) \in Nat /\ BytesOf(S \ U) \in Nat
      BY <1>2, <3>2
    <3> HIDE DEF V
    <3> QED
      BY <2>3, <3>3, <3>4, <3>5, <3>6, <3>7, <3>8
  <2> QED
    BY <2>4, <2>5
<1>4. Good(T)
  BY <1>1, <1>3
<1> QED
  BY <1>2, <1>4

\* Few documents of a bounded size have few bytes.
LEMMA BytesOfFew ==
  ASSUME NEW S, Sized(S), NEW k \in Nat, \A f \in S : f.size <= k
  PROVE  BytesOf(S) <= k * Cardinality(S)
<1> DEFINE Good(U) == BytesOf(U) <= k * Cardinality(U)
<1>1. \A U \in SUBSET S : Sized(U) /\ Cardinality(U) \in Nat
  BY FS_Subset, FS_CardinalityType DEF Sized
<1> DEFINE bad == {n \in Nat : \E U \in SUBSET S : Cardinality(U) = n /\ ~Good(U)}
<1>2. bad = {}
  <2>1. SUFFICES ASSUME bad # {} PROVE FALSE
    OBVIOUS
  <2>2. PICK m \in bad : \A j \in bad : m <= j
    BY <2>1, SmallestMember
  <2>3. PICK U \in SUBSET S : Cardinality(U) = m /\ ~Good(U)
    BY <2>2
  <2>4. CASE U = {}
    <3>1. BytesOf(U) = 0 /\ Cardinality(U) = 0
      BY <2>4, FS_EmptySet, BytesUnfold
    <3> QED
      BY <2>3, <3>1
  <2>5. CASE U # {}
    <3>1. PICK x \in U : TRUE
      BY <2>5
    <3> DEFINE V == U \ {x}
    <3>2. V \in SUBSET S /\ Cardinality(V) = m - 1 /\ Cardinality(V) \in Nat /\ m \in Nat
      BY <1>1, <2>3, <3>1, FS_RemoveElement DEF Sized
    <3>3. Good(V)
      <4>1. ~(m <= m - 1)
        BY <3>2
      <4>2. Cardinality(V) \notin bad
        BY <2>2, <3>2, <4>1
      <4> QED
        BY <3>2, <4>2
    <3>4. BytesOf(U) = x.size + BytesOf(V) /\ BytesOf(V) \in Nat
      BY <1>1, <3>1, BytesAdd
    <3>5. x.size \in Nat /\ x.size <= k
      BY <3>1 DEF Sized
    <3> HIDE DEF V
    <3>6. k * m = k + k * (m - 1) /\ k * m \in Nat /\ k * (m - 1) \in Int
      BY <3>2
    <3>7. BytesOf(V) <= k * (m - 1)
      BY <3>2, <3>3
    <3>8. BytesOf(U) <= k + k * (m - 1)
      BY <3>4, <3>5, <3>6, <3>7
    <3> QED
      BY <2>3, <3>6, <3>8
  <2> QED
    BY <2>4, <2>5
<1>3. Good(S)
  BY <1>1, <1>2
<1> QED
  BY <1>3

-----------------------------------------------------------------------------
(* The bytes of the workspace: the limit is compared before the rows are     *)
(* written, so what matters is what the entries may become.                *)

\* WriteRequest that the guard let through and that have not written yet.
Incoming == {w \in Writers : writer[w].pc \in {"number", "insert"}}

\* A row that is an entry, or may become one by a write on its way.
Possible(f) ==
  \/ f \in Entries
  \/ f \in FileRow /\ f.by \in Incoming /\ f.path = writer[f.by].path /\ f.size = writer[f.by].size

\* What the entries may become, each path once.
Outlook(H) ==
  /\ IsFiniteSet(H) /\ \A f \in H : Possible(f)
  /\ \A f, g \in H : f.path = g.path => f = g

\* However the writes on their way turn out, the bytes exceed the limit by at most one
\* document of each other request.
BytesAreShared == \A H : Outlook(H) => BytesOf(H) <= MaxBytes + (AtOnce - 1) * MaxSize

BytesInv == WorkspaceInv /\ BytesAreShared

LEMMA BytesStay ==
  ASSUME BytesAreShared, \A f : Possible(f)' => Possible(f)
  PROVE  BytesAreShared'
<1>1. \A H : Outlook(H)' => Outlook(H)
  BY DEF Outlook
<1> QED
  BY <1>1 DEF BytesAreShared

\* A request that is not let through leaves what the entries may become.
LEMMA OthersStay ==
  ASSUME BytesInv, NEW w \in Writers, UNCHANGED files,
         \A u \in Writers \ {w} : writer'[u] = writer[u],
         writer'[w].pc \in {"number", "insert"} =>
           /\ writer[w].pc \in {"number", "insert"}
           /\ writer'[w].path = writer[w].path /\ writer'[w].size = writer[w].size
  PROVE  BytesAreShared'
<1>1. Entries' = Entries
  BY FilesStay
<1>2. \A u \in Incoming' : u \in Incoming /\ writer'[u].path = writer[u].path
                           /\ writer'[u].size = writer[u].size
  BY DEF Incoming
<1>3. \A f : Possible(f)' => Possible(f)
  BY <1>1, <1>2 DEF Possible
<1> QED
  BY <1>3, BytesStay DEF BytesInv

LEMMA PossibleRows ==
  ASSUME WorkspaceInv, NEW f, Possible(f)
  PROVE  f \in FileRow /\ f.size \in Nat /\ f.size <= MaxSize /\ f.path \in Paths /\ f.by \in Writers
<1>1. f \in FileRow
  BY DEF Possible, WorkspaceInv, WorkspaceTypeOK, Entries
<1> QED
  BY <1>1, WorkspaceAssumption DEF FileRow, Sizes

LEMMA OneEntryEach ==
  ASSUME WorkspaceInv, NEW f \in Entries, NEW g \in Entries, f.path = g.path
  PROVE  f = g
<1>1. f.path \in Paths /\ f \in Of(f.path) /\ g \in Of(f.path)
      /\ f.version = LatestVersion(f.path) /\ g.version = LatestVersion(f.path)
  BY DEF WorkspaceInv, WorkspaceTypeOK, Entries, Of, FileRow
<1>2. LatestVersion(f.path) \in Nat /\ Dense(f.path, LatestVersion(f.path))
  BY <1>1, LatestIsNumber DEF WorkspaceInv
<1> QED
  BY <1>1, <1>2, OnePerVersion DEF WorkspaceInv

\* The request that is let through has compared the entries, its own in their place; the
\* others on their way bring a document each.
LEMMA AdmittedBytes ==
  ASSUME BytesInv, NEW w \in Writers, writer[w].pc = "list", Fits(w), UNCHANGED files,
         \A u \in Writers \ {w} : writer'[u] = writer[u],
         writer'[w].path = writer[w].path, writer'[w].size = writer[w].size,
         NEW H, Outlook(H)', NEW mine \in H, mine.by = w, ~Possible(mine),
         \A f \in Entries : f.path = mine.path => f.size < mine.size
  PROVE  BytesOf(H) <= MaxBytes + (AtOnce - 1) * MaxSize
<1> DEFINE old == {f \in Entries : f.path = writer[w].path}
<1> DEFINE rest == H \ {mine}
<1> DEFINE present == {f \in rest : f \in Entries}
<1> DEFINE coming == rest \ present
<1>1. Entries' = Entries
  BY FilesStay
<1>2. Incoming' \subseteq Incoming \cup {w} /\ w \notin Incoming
  BY DEF Incoming
<1>3. \A f \in H : Possible(f)' /\ (f.path = mine.path => f = mine)
  BY DEF Outlook
<1>4. mine \in FileRow /\ mine.path = writer[w].path /\ mine.size = writer[w].size
  BY <1>1, <1>3 DEF Possible
<1>5. Sized(H) /\ \A f \in H : f.size <= MaxSize
  <2>1. \A f \in Entries : f \in FileRow
    BY DEF BytesInv, WorkspaceInv, WorkspaceTypeOK, Entries
  <2>2. \A f \in H : f \in FileRow
    BY <1>1, <1>3, <2>1 DEF Possible
  <2>3. \A f \in H : f.size \in Nat /\ f.size <= MaxSize
    BY <2>2, WorkspaceAssumption DEF FileRow, Sizes
  <2> QED
    BY <2>3 DEF Sized, Outlook
<1>6. Sized(rest) /\ BytesOf(H) = mine.size + BytesOf(rest) /\ BytesOf(rest) \in Nat
  <2>1. Sized(rest)
    BY <1>5, FS_Subset DEF Sized
  <2> QED
    BY <1>5, <2>1, BytesAdd
<1>7. /\ BytesOf(rest) = BytesOf(present) + BytesOf(coming)
      /\ BytesOf(present) \in Nat /\ BytesOf(coming) \in Nat
  <2>1. present \in SUBSET rest
    OBVIOUS
  <2> HIDE DEF rest, present
  <2> QED
    BY <1>6, <2>1, BytesJoin
<1>8. BytesOf(present) <= BytesOf(Entries \ old) /\ BytesOf(Entries \ old) \in Nat
  <2>1. Sized(Entries)
    BY PossibleRows DEF BytesInv, WorkspaceInv, RoomIsShared, Sized, Possible
  <2>2. Sized(Entries \ old)
    BY <2>1, FS_Subset DEF Sized
  <2>3. present \in SUBSET (Entries \ old)
    BY <1>3, <1>4
  <2> HIDE DEF present, old
  <2>4. /\ BytesOf(Entries \ old) = BytesOf(present) + BytesOf((Entries \ old) \ present)
        /\ BytesOf((Entries \ old) \ present) \in Nat /\ BytesOf(Entries \ old) \in Nat
    BY <2>2, <2>3, BytesJoin, BytesAdd
  <2> QED
    BY <1>7, <2>4
<1>9. BytesOf(Entries \ old) + mine.size <= MaxBytes
  BY <1>4 DEF Fits
<1>10. Sized(coming) /\ Cardinality(coming) \in Nat /\ Cardinality(coming) <= AtOnce - 1
  <2>1. Sized(coming) /\ Cardinality(coming) \in Nat
    BY <1>6, FS_Subset, FS_CardinalityType DEF Sized
  <2>2. \A f \in coming : /\ f.by \in Incoming' /\ f.path = writer'[f.by].path
                          /\ f \in H /\ f # mine
    BY <1>1, <1>3 DEF Possible
  <2>3. \A f \in coming : f.by # w
    BY <1>3, <1>4, <2>2
  <2>4. \A f, g \in coming : f.by = g.by => f = g
    BY <2>2 DEF Outlook
  <2> DEFINE others == Underway \ {w}
  <2>5. \A f \in coming : f.by \in others
    BY <1>2, <2>2, <2>3 DEF Incoming, Underway
  <2>6. w \in Underway
    BY DEF Underway
  <2>7. IsFiniteSet(others) /\ Cardinality(others) <= AtOnce - 1 /\ Cardinality(others) \in Nat
    <3>1. /\ IsFiniteSet(Underway) /\ Cardinality(Underway) <= AtOnce
          /\ Cardinality(Underway) \in Nat
      BY FS_CardinalityType DEF BytesInv, WorkspaceInv, RoomIsShared
    <3>2. /\ IsFiniteSet(others) /\ Cardinality(others) = Cardinality(Underway) - 1
          /\ Cardinality(others) \in Nat
      BY <2>6, <3>1, FS_RemoveElement, FS_CardinalityType
    <3> QED
      BY <3>1, <3>2, WorkspaceAssumption
  <2> DEFINE of == [f \in coming |-> f.by]
  <2>8. of \in Injection(coming, others)
    <3>1. of \in [coming -> others]
      BY <2>5
    <3>2. \A f, g \in coming : of[f] = of[g] => f = g
      BY <2>4
    <3> QED
      BY <3>1, <3>2, Zenon DEF Injection, IsInjective
  <2> HIDE DEF of, others, coming
  <2>9. Cardinality(coming) <= Cardinality(others)
    BY <2>7, <2>8, FS_Injection
  <2> QED
    BY <2>1, <2>7, <2>9, WorkspaceAssumption
<1>11. BytesOf(coming) <= (AtOnce - 1) * MaxSize
  <2>1. \A f \in coming : f.size <= MaxSize
    BY <1>5
  <2> HIDE DEF coming
  <2>2. BytesOf(coming) <= MaxSize * Cardinality(coming)
    BY <1>10, <2>1, BytesOfFew, WorkspaceAssumption
  <2>3. MaxSize * Cardinality(coming) <= (AtOnce - 1) * MaxSize
    BY <1>10, WorkspaceAssumption
  <2>4. MaxSize * Cardinality(coming) \in Nat /\ (AtOnce - 1) * MaxSize \in Nat
    BY <1>10, WorkspaceAssumption
  <2> QED
    BY <1>7, <2>2, <2>3, <2>4
<1>12. mine.size \in Nat /\ (AtOnce - 1) * MaxSize \in Nat
  BY <1>5, WorkspaceAssumption DEF Sized
<1> HIDE DEF old, rest, present, coming
<1> QED
  BY <1>6, <1>7, <1>8, <1>9, <1>11, <1>12, WorkspaceAssumption

\* A write that is let through may come.
LEMMA GuardListBytes ==
  ASSUME BytesInv, NEW w \in Writers, GuardList(w)
  PROVE  BytesAreShared'
<1>1. writer[w].pc = "list" /\ UNCHANGED files
  BY DEF GuardList
<1>2. writer[w] \in WriteRequest /\ writer \in [Writers -> WriteRequest]
  BY DEF BytesInv, WorkspaceInv, WorkspaceTypeOK
<1>3. CASE ~Fits(w)
  <2>1. writer' = [writer EXCEPT ![w].pc = "denied"]
    BY <1>3 DEF GuardList, To
  <2>2. writer'[w].pc = "denied" /\ \A u \in Writers \ {w} : writer'[u] = writer[u]
    BY <1>2, <2>1 DEF WriteRequest
  <2> QED
    BY <1>1, <2>2, OthersStay
<1>4. CASE Fits(w)
  <2>1. writer' = [writer EXCEPT ![w].pc = "number"]
    BY <1>4 DEF GuardList, To
  <2>2. /\ writer'[w].path = writer[w].path /\ writer'[w].size = writer[w].size
        /\ \A u \in Writers \ {w} : writer'[u] = writer[u]
    BY <1>2, <2>1 DEF WriteRequest
  <2>3. Entries' = Entries
    BY <1>1, FilesStay
  <2>4. \A f : Possible(f)' => Possible(f) \/ f.by = w
    BY <2>2, <2>3 DEF Possible, Incoming
  <2>5. ASSUME NEW H, Outlook(H)'
        PROVE  BytesOf(H) <= MaxBytes + (AtOnce - 1) * MaxSize
    <3>1. CASE \A f \in H : Possible(f)
      <4>1. Outlook(H)
        BY <2>5, <3>1 DEF Outlook
      <4> QED
        BY <4>1 DEF BytesInv, BytesAreShared
    <3>2. CASE \E f \in H : ~Possible(f)
      <4>1. PICK mine \in H : ~Possible(mine)
        BY <3>2
      <4>2. mine.by = w /\ Possible(mine)'
        BY <2>4, <2>5, <4>1 DEF Outlook
      <4>3. CASE \A f \in Entries : f.path = mine.path => f.size < mine.size
        BY <1>1, <1>4, <2>2, <2>5, <4>1, <4>2, <4>3, AdmittedBytes
      <4>4. CASE \E f \in Entries : f.path = mine.path /\ ~(f.size < mine.size)
        <5>1. PICK f \in Entries : f.path = mine.path /\ ~(f.size < mine.size)
          BY <4>4
        <5> DEFINE rest == H \ {mine}
        <5> DEFINE G == rest \cup {f}
        <5>2. \A g \in rest : g.path # mine.path /\ g # mine
          BY <2>5 DEF Outlook
        <5>3. \A g \in rest : Possible(g)
          <6>1. ASSUME NEW g \in rest, ~Possible(g)
                PROVE  FALSE
            <7>1. Possible(g)' /\ g.by = w
              BY <2>4, <2>5, <6>1 DEF Outlook
            <7>2. g.path = writer[w].path /\ mine.path = writer[w].path
              BY <2>2, <2>3, <4>1, <4>2, <6>1, <7>1 DEF Possible
            <7> QED
              BY <5>2, <7>2
          <6> QED
            BY <6>1
        <5>4. f \notin rest /\ Possible(f)
          BY <5>1, <5>2 DEF Possible
        <5>5. IsFiniteSet(rest) /\ IsFiniteSet(G)
          BY <2>5, FS_RemoveElement, FS_AddElement DEF Outlook
        <5>6. Outlook(G)
          BY <2>5, <5>1, <5>2, <5>3, <5>4, <5>5 DEF Outlook
        <5>7. \A g \in G : g.size \in Nat
          BY <5>3, <5>4, PossibleRows DEF BytesInv
        <5>8. mine.size \in Nat
          BY <2>3, <4>1, <4>2, WorkspaceAssumption DEF Possible, FileRow, Sizes
        <5>9. Sized(G) /\ Sized(H) /\ mine \in H /\ f \in G
          BY <2>5, <5>5, <5>7, <5>8 DEF Sized, Outlook
        <5>10. G \ {f} = rest
          BY <5>4
        <5>11. BytesOf(H) = mine.size + BytesOf(rest) /\ BytesOf(rest) \in Nat
          BY <5>9, BytesAdd
        <5>12. BytesOf(G) = f.size + BytesOf(rest) /\ BytesOf(G) \in Nat
          BY <5>9, <5>10, BytesAdd
        <5>13. BytesOf(G) <= MaxBytes + (AtOnce - 1) * MaxSize
          BY <5>6 DEF BytesInv, BytesAreShared
        <5>14. f.size \in Nat /\ (AtOnce - 1) * MaxSize \in Nat
          BY <5>7, WorkspaceAssumption
        <5> HIDE DEF G, rest
        <5> QED
          BY <5>1, <5>8, <5>11, <5>12, <5>13, <5>14, WorkspaceAssumption
      <4> QED
        BY <4>3, <4>4
    <3> QED
      BY <3>1, <3>2
  <2> QED
    BY <2>5 DEF BytesAreShared
<1> QED
  BY <1>3, <1>4

\* The row that is written was on its way.
LEMMA InsertBytes ==
  ASSUME BytesInv, NEW w \in Writers, InsertVersion(w)
  PROVE  BytesAreShared'
<1>1. writer[w].pc = "insert" /\ writer \in [Writers -> WriteRequest] /\ writer[w] \in WriteRequest
  BY DEF InsertVersion, BytesInv, WorkspaceInv, WorkspaceTypeOK
<1>2. CASE \E f \in Of(writer[w].path) : f.version = writer[w].next
  <2>1. writer' = [writer EXCEPT ![w].pc = "failed"] /\ UNCHANGED files
    BY <1>2 DEF InsertVersion, To
  <2>2. writer'[w].pc = "failed" /\ \A u \in Writers \ {w} : writer'[u] = writer[u]
    BY <1>1, <2>1 DEF WriteRequest
  <2> QED
    BY <2>1, <2>2, OthersStay
<1>3. CASE ~\E f \in Of(writer[w].path) : f.version = writer[w].next
  <2>1. PICK p, made : p = writer[w].path /\ made = NewRow(w)
    OBVIOUS
  <2>2. PICK n \in Nat : Dense(p, n)
    BY <1>1, <2>1 DEF BytesInv, WorkspaceInv, NumbersAreNext, PathsAreDense
  <2>3. Inserts(w, p, n, made)
    BY <1>1, <1>3, <2>1, <2>2 DEF InsertVersion, Inserts
  <2>4. made \in FileRow /\ made.by = w /\ made.path = p
    BY <2>3, InsertIsNext DEF BytesInv
  <2>5. made.size = writer[w].size
    BY <2>1 DEF NewRow
  <2>6. Possible(made)
    BY <1>1, <2>1, <2>4, <2>5 DEF Possible, Incoming
  <2>7. LatestVersion(p)' = n + 1 /\ \A q : q # p => LatestVersion(q)' = LatestVersion(q)
    BY <2>3, InsertedPaths DEF BytesInv
  <2>8. Entries' \subseteq Entries \cup {made}
    <3>1. \A f \in Of(p) : f.version \in 1..n
      BY <2>2 DEF Dense
    <3>2. files' = files \cup {made}
      BY <2>3 DEF Inserts
    <3>3. ASSUME NEW f \in files, f.path = p
          PROVE  f.version # n + 1
      BY <2>2, <3>1, <3>3 DEF Of
    <3> QED
      BY <2>7, <3>2, <3>3 DEF Entries
  <2>9. writer' = [writer EXCEPT ![w].pc = "written"]
    BY <2>3 DEF Inserts, To
  <2>10. writer'[w].pc = "written" /\ \A u \in Writers \ {w} : writer'[u] = writer[u]
    BY <1>1, <2>9 DEF WriteRequest
  <2>11. Incoming' \subseteq Incoming \ {w}
    BY <2>10 DEF Incoming
  <2>12. ASSUME NEW f, Possible(f)'
         PROVE  Possible(f)
    <3>1. CASE f \in Entries'
      BY <2>6, <2>8, <3>1 DEF Possible
    <3>2. CASE f \notin Entries'
      <4>1. /\ f \in FileRow /\ f.by \in Incoming' /\ f.path = writer'[f.by].path
            /\ f.size = writer'[f.by].size
        BY <2>12, <3>2 DEF Possible
      <4>2. f.by \in Incoming /\ f.by \in Writers \ {w}
        BY <2>11, <4>1 DEF Incoming
      <4> QED
        BY <2>10, <4>1, <4>2 DEF Possible
    <3> QED
      BY <3>1, <3>2
  <2> QED
    BY <2>12, BytesStay DEF BytesInv
<1> QED
  BY <1>2, <1>3

LEMMA BytesNextPreserves ==
  ASSUME BytesInv, [WorkspaceNext]_workspaceVars
  PROVE  BytesInv'
<1>1. WorkspaceInv'
  BY WorkspaceNextPreserves DEF BytesInv
<1>2. CASE UNCHANGED workspaceVars
  <2>1. \A f : Possible(f)' => Possible(f)
    BY <1>2, FilesStay DEF Possible, Incoming, workspaceVars
  <2> QED
    BY <1>1, <2>1, BytesStay DEF BytesInv
<1>3. CASE WorkspaceNext
  <2> SUFFICES BytesAreShared'
    BY <1>1 DEF BytesInv
  <2>1. PICK w \in Writers :
          \/ \E p \in Paths, size \in Sizes : WriteBegin(w, p, size)
          \/ WriteBadPath(w)
          \/ \E f \in files : \/ RollbackBegin(w, f)
                              \/ \E size \in Sizes : EditBegin(w, f, size)
          \/ GuardList(w) \/ NumberVersion(w) \/ InsertVersion(w) \/ GuardAudit(w)
    BY <1>3 DEF WorkspaceNext
  <2>2. writer \in [Writers -> WriteRequest] /\ writer[w] \in WriteRequest
    BY DEF BytesInv, WorkspaceInv, WorkspaceTypeOK
  <2>3. CASE \/ \E p \in Paths, size \in Sizes : WriteBegin(w, p, size)
             \/ \E f \in files : \/ RollbackBegin(w, f)
                                 \/ \E size \in Sizes : EditBegin(w, f, size)
    <3>1. UNCHANGED files /\ \E p, size : Submit(w, p, size)
      BY <2>3 DEF WriteBegin, RollbackBegin, EditBegin
    <3>2. PICK p, size : Submit(w, p, size)
      BY <3>1
    <3>3. writer'[w].pc = "list" /\ \A u \in Writers \ {w} : writer'[u] = writer[u]
      BY <2>2, <3>2 DEF Submit, NewWrite
    <3> QED
      BY <3>1, <3>3, OthersStay
  <2>4. CASE WriteBadPath(w) \/ GuardAudit(w)
    <3>1. UNCHANGED files /\ \E pc \in {"denied", "returned"} : To(w, pc)
      BY <2>4 DEF WriteBadPath, GuardAudit
    <3>2. PICK pc \in {"denied", "returned"} : To(w, pc)
      BY <3>1
    <3>3. writer'[w].pc = pc /\ \A u \in Writers \ {w} : writer'[u] = writer[u]
      BY <2>2, <3>2 DEF To, WriteRequest
    <3> QED
      BY <3>1, <3>3, OthersStay
  <2>5. CASE NumberVersion(w)
    <3>1. /\ writer[w].pc = "number" /\ UNCHANGED files
          /\ writer' = [writer EXCEPT ![w].pc = "insert",
                                      ![w].next = LatestVersion(writer[w].path) + 1]
      BY <2>5 DEF NumberVersion
    <3>2. /\ writer'[w].path = writer[w].path /\ writer'[w].size = writer[w].size
          /\ \A u \in Writers \ {w} : writer'[u] = writer[u]
      BY <2>2, <3>1 DEF WriteRequest
    <3> QED
      BY <3>1, <3>2, OthersStay
  <2>6. CASE GuardList(w)
    BY <2>6, GuardListBytes
  <2>7. CASE InsertVersion(w)
    BY <2>7, InsertBytes
  <2> QED
    BY <2>1, <2>3, <2>4, <2>5, <2>6, <2>7
<1> QED
  BY <1>2, <1>3

LEMMA BytesStart == WorkspaceInit => BytesInv
<1> SUFFICES ASSUME WorkspaceInit PROVE BytesAreShared
  BY WorkspaceStarts DEF BytesInv
<1>1. Entries = {} /\ Incoming = {}
  BY DEF WorkspaceInit, Entries, Incoming, NewWrite
<1>2. \A f : ~Possible(f)
  BY <1>1 DEF Possible
<1>3. ASSUME NEW H, Outlook(H)
      PROVE  BytesOf(H) <= MaxBytes + (AtOnce - 1) * MaxSize
  <2>1. H = {}
    BY <1>2, <1>3 DEF Outlook
  <2>2. BytesOf(H) = 0
    BY <2>1, FS_EmptySet, BytesUnfold
  <2>3. (AtOnce - 1) * MaxSize \in Nat
    BY WorkspaceAssumption
  <2> QED
    BY <2>2, <2>3, WorkspaceAssumption
<1> QED
  BY <1>3 DEF BytesAreShared

\* The entries exceed the file limit by at most one file, and the byte limit by at most
\* one document, of each other request that is carried out at the same time.
THEOREM OvershootIsByFew == WorkspaceSpec => []OvershootIsBounded
<1>1. WorkspaceSpec => []BytesInv
  BY BytesStart, BytesNextPreserves, PTL DEF WorkspaceSpec
<1>2. BytesInv => BytesOf(Entries) <= MaxBytes + (AtOnce - 1) * MaxSize
  <2>1. ASSUME BytesInv
        PROVE  Outlook(Entries)
    <3>1. \A f, g \in Entries : f.path = g.path => f = g
      BY <2>1, OneEntryEach DEF BytesInv
    <3> QED
      BY <2>1, <3>1 DEF Outlook, Possible, BytesInv, WorkspaceInv, RoomIsShared
  <2> QED
    BY <2>1 DEF BytesInv, BytesAreShared
<1> QED
  BY <1>1, <1>2, FilesOvershootByFew, PTL DEF OvershootIsBounded

-----------------------------------------------------------------------------
(* The cowork coordinator.  The pool hands out each sub-goal once and is   *)
(* over before the first section is written, and the sections are written  *)
(* before the first is read; so what is read back was written by this run. *)

CoworkTypes ==
  [pc : CoworkPcs, files : BOOLEAN, kept : 0..MaxSubAgents, next : Nat, at : Nat,
   read : [Subgoals -> Nat]]
Told == {"plan", "result", "file", "synthesize", "done", "error"} \X Nat

CoworkTyping ==
  /\ cowork \in CoworkTypes /\ pool \in [Workers -> Nat] /\ begun \in [Subgoals -> Nat]
  /\ results \in [Subgoals -> {"none", "ok", "failed"}]
  /\ sections \in [Subgoals -> Seq({"run", "other"})] /\ told \in Seq(Told)

\* The pool hands out the sub-goals in order: each below `next` has had one sub-agent, which
\* has ended or is the one that a worker is on.
PoolHandsOut ==
  /\ \A i \in Subgoals : begun[i] = (IF i < cowork.next THEN 1 ELSE 0)
  /\ \A w, u \in Workers : pool[w] = pool[u] /\ w # u => pool[w] = 0
  /\ \A w \in Workers : pool[w] < cowork.next /\ pool[w] <= cowork.kept
  /\ \A i \in Subgoals :
       i < cowork.next => results[i] # "none" \/ \E w \in Workers : pool[w] = i
  /\ cowork.next > 1 /\ cowork.next <= cowork.kept => pool[1] # 0
  /\ cowork.next \in 1..(cowork.kept + 1)
  /\ cowork.pc = "plan" => cowork.next = 1 /\ cowork.kept = 0

AfterPool == {"result", "write", "next", "read", "brief", "finish", "done", "error"}
IsTold(what) == \E k \in DOMAIN told : told[k][1] = what

\* Behind the pool every sub-goal that was kept has its result.
PoolIsOver ==
  IF cowork.pc \in AfterPool
  THEN cowork.next > cowork.kept /\ \A w \in Workers : pool[w] = 0
  ELSE ~IsTold("result") /\ ~IsTold("synthesize")

HasRun(i) == \E k \in DOMAIN sections[i] : sections[i][k] = "run"
ReadRun(i) == \E k \in 1..cowork.read[i] : k \in DOMAIN sections[i] /\ sections[i][k] = "run"

\* The sections of this run are written one after the other before any is read.
SectionsAreWritten ==
  cowork.files =>
    /\ cowork.pc \in {"result", "write"} => \A i \in Subgoals : i < cowork.at => HasRun(i)
    /\ cowork.pc = "next" => \A i \in Subgoals : i <= cowork.at => HasRun(i)
    /\ cowork.pc = "read" => \A i \in Subgoals : i <= cowork.kept => HasRun(i)
    /\ \A i \in Subgoals : cowork.read[i] > 0 => ReadRun(i)
    /\ IsTold("synthesize") =>
         /\ cowork.pc \in {"brief", "finish", "done", "error"}
         /\ \A i \in Subgoals : i <= cowork.kept => cowork.read[i] > 0

CoworkInv ==
  /\ CoworkTyping /\ PoolHandsOut /\ PoolIsOver /\ SectionsAreWritten
  /\ cowork.pc \in {"result", "write", "next"} => cowork.at \in 1..cowork.kept
  /\ cowork.pc \in {"plan", "pool"} => cowork.at = 1

LEMMA MinOfTwo ==
  ASSUME NEW a \in Nat, NEW b \in Nat
  PROVE  Min({a, b}) \in Nat /\ Min({a, b}) <= a /\ Min({a, b}) <= b /\ Min({a, b}) \in {a, b}
<1>1. \E x \in {a, b} : \A y \in {a, b} : x <= y
  <2>1. CASE a <= b
    BY <2>1
  <2>2. CASE b <= a
    BY <2>2
  <2> QED
    BY <2>1, <2>2
<1>2. Min({a, b}) \in {a, b} /\ \A y \in {a, b} : Min({a, b}) <= y
  BY <1>1 DEF Min
<1> QED
  BY <1>2

LEMMA CoworkStarts == CoworkInit => CoworkInv
<1> SUFFICES ASSUME CoworkInit PROVE CoworkInv
  OBVIOUS
<1>1. /\ cowork.pc = "plan" /\ cowork.files \in BOOLEAN /\ cowork.kept = 0 /\ cowork.next = 1
      /\ cowork.at = 1 /\ cowork.read = [i \in Subgoals |-> 0]
      /\ cowork = [pc |-> cowork.pc, files |-> cowork.files, kept |-> cowork.kept,
                   next |-> cowork.next, at |-> cowork.at, read |-> cowork.read]
  BY DEF CoworkInit
<1>2. cowork \in CoworkTypes
  <2>1. /\ cowork.pc \in CoworkPcs /\ cowork.kept \in 0..MaxSubAgents /\ cowork.next \in Nat
        /\ cowork.at \in Nat /\ cowork.read \in [Subgoals -> Nat]
    BY <1>1, CoworkAssumption DEF CoworkPcs
  <2> QED
    BY <1>1, <2>1 DEF CoworkTypes
<1>3. CoworkTyping
  <2>1. <<>> \in Seq(Told) /\ <<>> \in Seq({"run", "other"})
    OBVIOUS
  <2> QED
    BY <1>2, <2>1 DEF CoworkInit, CoworkTyping
<1>4. PoolHandsOut
  BY <1>1, CoworkAssumption DEF CoworkInit, PoolHandsOut, Subgoals
<1>5. PoolIsOver /\ SectionsAreWritten
  BY <1>1 DEF CoworkInit, PoolIsOver, SectionsAreWritten, AfterPool, IsTold, Subgoals
<1> QED
  BY <1>1, <1>3, <1>4, <1>5 DEF CoworkInv

LEMMA TellAdds ==
  ASSUME CoworkTyping, NEW event \in Told, told' = Append(told, event)
  PROVE  told' \in Seq(Told) /\ \A what : IsTold(what)' <=> IsTold(what) \/ event[1] = what
<1>1. PICK n \in Nat : n = Len(told)
  BY DEF CoworkTyping
<1>2. /\ DOMAIN told = 1..n /\ DOMAIN told' = 1..(n + 1) /\ told'[n + 1] = event
      /\ \A k \in 1..n : told'[k] = told[k]
  BY <1>1 DEF CoworkTyping
<1>3. ASSUME NEW what
      PROVE  IsTold(what)' <=> IsTold(what) \/ event[1] = what
  <2>1. ASSUME NEW k \in 1..n, told[k][1] = what
        PROVE  k \in 1..(n + 1) /\ told'[k][1] = what
    BY <1>2, <2>1
  <2>2. ASSUME NEW k \in 1..(n + 1), told'[k][1] = what
        PROVE  event[1] = what \/ (k \in 1..n /\ told[k][1] = what)
    BY <1>2, <2>2
  <2>3. n + 1 \in 1..(n + 1)
    OBVIOUS
  <2> QED
    BY <1>2, <2>1, <2>2, <2>3 DEF IsTold
<1>4. told' \in Seq(Told)
  BY DEF CoworkTyping
<1> QED
  BY <1>3, <1>4

\* A step of the run's program counter, with the rest of the run's record as it was.
PcMoves(pc) ==
  /\ cowork' \in CoworkTypes /\ cowork'.pc = pc /\ cowork'.files = cowork.files
  /\ cowork'.kept = cowork.kept /\ cowork'.next = cowork.next /\ cowork'.at = cowork.at
  /\ cowork'.read = cowork.read

LEMMA PcOnly ==
  ASSUME CoworkTyping, NEW pc \in CoworkPcs, cowork' = [cowork EXCEPT !.pc = pc]
  PROVE  PcMoves(pc)
<1>1. cowork \in CoworkTypes
  BY DEF CoworkTyping
<1> QED
  BY <1>1 DEF CoworkTypes, PcMoves

LEMMA PoolStays ==
  ASSUME CoworkInv, UNCHANGED <<pool, begun, results>>, cowork'.next = cowork.next,
         cowork'.kept = cowork.kept, cowork'.pc # "plan"
  PROVE  PoolHandsOut'
BY DEF CoworkInv, PoolHandsOut

LEMMA SectionsStay ==
  ASSUME UNCHANGED sections, cowork'.read = cowork.read, NEW i
  PROVE  (HasRun(i)' <=> HasRun(i)) /\ (ReadRun(i)' <=> ReadRun(i))
BY DEF HasRun, ReadRun

\* A section of which this run wrote a version still has it when another one is appended.
LEMMA AppendKeepsRun ==
  ASSUME CoworkTyping, NEW i \in Subgoals, NEW by \in {"run", "other"},
         sections' = [sections EXCEPT ![i] = Append(@, by)]
  PROVE  /\ sections' \in [Subgoals -> Seq({"run", "other"})]
         /\ \A j \in Subgoals : HasRun(j) => HasRun(j)'
         /\ by = "run" => HasRun(i)'
         /\ cowork'.read = cowork.read => \A j \in Subgoals : ReadRun(j) => ReadRun(j)'
<1>1. sections \in [Subgoals -> Seq({"run", "other"})]
  BY DEF CoworkTyping
<1>2. PICK n \in Nat : n = Len(sections[i])
  BY <1>1
<1>3. /\ sections' \in [Subgoals -> Seq({"run", "other"})]
      /\ \A j \in Subgoals \ {i} : sections'[j] = sections[j]
      /\ sections'[i] = Append(sections[i], by)
  BY <1>1
<1>4. /\ DOMAIN sections[i] = 1..n /\ DOMAIN sections'[i] = 1..(n + 1)
      /\ \A k \in 1..n : sections'[i][k] = sections[i][k]
      /\ sections'[i][n + 1] = by
  BY <1>1, <1>2, <1>3
<1>5. ASSUME NEW j \in Subgoals, NEW k \in DOMAIN sections[j]
      PROVE  k \in DOMAIN sections'[j] /\ sections'[j][k] = sections[j][k]
  <2>1. CASE j = i
    BY <1>4, <2>1
  <2>2. CASE j # i
    BY <1>3, <2>2
  <2> QED
    BY <2>1, <2>2
<1>6. by = "run" => HasRun(i)'
  BY <1>4 DEF HasRun
<1> QED
  BY <1>3, <1>5, <1>6 DEF HasRun, ReadRun

LEMMA OneThenAnother ==
  ASSUME NEW S, NEW a \in S, NEW b \in S, NEW s, s = <<a>> \o <<b>> \/ s = <<a>> \o <<>>
  PROVE  s \in Seq(S) /\ \A k \in DOMAIN s : s[k] \in {a, b}
<1>1. <<a>> \in Seq({a, b}) /\ <<b>> \in Seq({a, b}) /\ <<>> \in Seq({a, b})
  OBVIOUS
<1>2. s \in Seq({a, b})
  BY <1>1, ConcatProperties
<1>3. <<a>> \in Seq(S) /\ <<b>> \in Seq(S) /\ <<>> \in Seq(S)
  OBVIOUS
<1>4. s \in Seq(S)
  BY <1>3, ConcatProperties
<1> QED
  BY <1>2, <1>4

LEMMA PlanPreserves ==
  ASSUME CoworkInv, CoworkPlan \/ CoworkPlanThrows
  PROVE  CoworkInv'
<1>1. /\ cowork \in CoworkTypes /\ cowork.pc = "plan" /\ cowork.next = 1 /\ cowork.kept = 0
      /\ ~IsTold("result") /\ ~IsTold("synthesize") /\ UNCHANGED <<pool, begun, results, sections>>
      /\ CoworkTyping
  BY DEF CoworkInv, CoworkTyping, PoolHandsOut, PoolIsOver, AfterPool, CoworkPlan, CoworkPlanThrows
<1>2. CASE CoworkPlanThrows
  <2>1. PcMoves("thrown") /\ told' = told
    BY <1>1, <1>2, PcOnly DEF CoworkPlanThrows, CoworkPcs
  <2>2. PoolHandsOut'
    BY <1>1, <2>1, PoolStays DEF PcMoves
  <2>3. PoolIsOver' /\ CoworkTyping'
    BY <1>1, <2>1 DEF PcMoves, PoolIsOver, AfterPool, IsTold, CoworkTyping
  <2>4. SectionsAreWritten'
    BY <1>1, <2>1, SectionsStay DEF CoworkInv, SectionsAreWritten, PcMoves, IsTold
  <2> QED
    BY <2>1, <2>2, <2>3, <2>4 DEF CoworkInv, PcMoves
<1>3. CASE CoworkPlan
  <2>1. PICK planned \in 0..MaxPlanned :
          /\ cowork' = [cowork EXCEPT !.kept = Min({planned, MaxSubAgents}),
                                      !.pc = IF Min({planned, MaxSubAgents}) = 0 THEN "done" ELSE "pool"]
          /\ told' = <<<<"plan", Min({planned, MaxSubAgents})>>>>
                       \o (IF Min({planned, MaxSubAgents}) = 0 THEN <<<<"done", 0>>>> ELSE <<>>)
    BY <1>3 DEF CoworkPlan
  <2>2. PICK kept \in 0..MaxSubAgents, pc \in {"done", "pool"} :
          /\ kept = Min({planned, MaxSubAgents}) /\ pc = IF kept = 0 THEN "done" ELSE "pool"
    BY MinOfTwo, CoworkAssumption
  <2>3. cowork' = [cowork EXCEPT !.kept = kept, !.pc = pc]
    BY <2>1, <2>2
  <2>4. /\ cowork' \in CoworkTypes /\ cowork'.pc = pc /\ cowork'.kept = kept
        /\ cowork'.files = cowork.files /\ cowork'.next = 1 /\ cowork'.at = cowork.at
        /\ cowork'.read = cowork.read
    BY <1>1, <2>3 DEF CoworkTypes, CoworkPcs
  <2>5. PICK plan \in Told, done \in Told :
          /\ plan = <<"plan", kept>> /\ plan[1] = "plan" /\ done = <<"done", 0>> /\ done[1] = "done"
    <3>1. kept \in Nat
      BY <2>2
    <3>2. <<"plan", kept>> \in Told /\ <<"done", 0>> \in Told
      BY <3>1 DEF Told
    <3> QED
      BY <3>2
  <2>6. told' \in Seq(Told) /\ ~IsTold("result")' /\ ~IsTold("synthesize")'
    <3>1. told' = <<plan>> \o <<done>> \/ told' = <<plan>> \o <<>>
      BY <2>1, <2>2, <2>5
    <3>2. told' \in Seq(Told) /\ \A k \in DOMAIN told' : told'[k] \in {plan, done}
      BY <3>1, OneThenAnother
    <3> QED
      BY <2>5, <3>2 DEF IsTold
  <2>7. CoworkTyping'
    BY <1>1, <2>4, <2>6 DEF CoworkTyping
  <2>8. PoolHandsOut'
    BY <1>1, <2>2, <2>4, CoworkAssumption DEF CoworkInv, CoworkTyping, PoolHandsOut
  <2>9. PoolIsOver'
    <3>1. \A w \in Workers : pool[w] = 0
      BY <1>1 DEF CoworkInv, CoworkTyping, PoolHandsOut
    <3>2. pc = "done" => kept = 0
      BY <2>2
    <3> QED
      BY <1>1, <2>2, <2>4, <2>6, <3>1, <3>2 DEF PoolIsOver, AfterPool
  <2>10. SectionsAreWritten'
    BY <1>1, <2>4, <2>6, SectionsStay DEF CoworkInv, SectionsAreWritten
  <2> QED
    BY <1>1, <2>2, <2>4, <2>7, <2>8, <2>9, <2>10 DEF CoworkInv
<1> QED
  BY <1>2, <1>3

\* The workers start on the first sub-goals, each on its own.
LEMMA StartPreserves ==
  ASSUME CoworkInv, PoolStart
  PROVE  CoworkInv'
<1>1. /\ cowork \in CoworkTypes /\ cowork.pc = "pool" /\ cowork.next = 1 /\ cowork.kept \in 0..MaxSubAgents
      /\ UNCHANGED <<results, sections, told>> /\ CoworkTyping
      /\ Concurrency \in Nat \ {0} /\ MaxSubAgents \in Nat
      /\ \A i \in Subgoals : begun[i] = 0
  BY CoworkAssumption DEF CoworkInv, CoworkTyping, CoworkTypes, PoolHandsOut, PoolStart, Subgoals
<1>2. PICK size \in Nat : /\ size = Min({Concurrency, cowork.kept}) /\ size <= Concurrency
                          /\ size <= cowork.kept /\ size \in {Concurrency, cowork.kept}
  BY <1>1, MinOfTwo
<1>3. /\ pool' = [w \in Workers |-> IF w <= size THEN w ELSE 0]
      /\ begun' = [i \in Subgoals |-> IF i <= size THEN begun[i] + 1 ELSE begun[i]]
      /\ cowork' = [cowork EXCEPT !.next = size + 1]
  BY <1>2 DEF PoolStart
<1>4. /\ cowork' \in CoworkTypes /\ cowork'.pc = "pool" /\ cowork'.kept = cowork.kept
      /\ cowork'.next = size + 1 /\ cowork'.files = cowork.files /\ cowork'.at = cowork.at
      /\ cowork'.read = cowork.read
  <2>1. PICK n \in Nat : n = size + 1
    BY <1>2
  <2>2. cowork' = [cowork EXCEPT !.next = n]
    BY <1>3, <2>1
  <2>3. /\ cowork' \in CoworkTypes /\ cowork'.pc = "pool" /\ cowork'.kept = cowork.kept
        /\ cowork'.next = n /\ cowork'.files = cowork.files /\ cowork'.at = cowork.at
        /\ cowork'.read = cowork.read
    BY <1>1, <2>2 DEF CoworkTypes
  <2> QED
    BY <2>1, <2>3
<1>5. pool' \in [Workers -> Nat] /\ begun' \in [Subgoals -> Nat]
  BY <1>1, <1>2, <1>3 DEF Workers
<1>6. CoworkTyping'
  BY <1>1, <1>4, <1>5 DEF CoworkTyping
<1>7. PoolHandsOut'
  <2>1. \A i \in Subgoals : begun'[i] = (IF i < cowork'.next THEN 1 ELSE 0)
    BY <1>1, <1>2, <1>3, <1>4 DEF Subgoals
  <2>2. \A w \in Workers : pool'[w] = IF w <= size THEN w ELSE 0
    BY <1>3
  <2>3. \A w, u \in Workers : pool'[w] = pool'[u] /\ w # u => pool'[w] = 0
    BY <1>2, <2>2 DEF Workers
  <2>4. \A w \in Workers : pool'[w] < cowork'.next /\ pool'[w] <= cowork'.kept
    BY <1>1, <1>2, <1>4, <2>2 DEF Workers
  <2>5. ASSUME NEW i \in Subgoals, i < cowork'.next
        PROVE  \E w \in Workers : pool'[w] = i
    <3>1. i \in Workers /\ i <= size
      BY <1>1, <1>2, <1>4, <2>5 DEF Subgoals, Workers
    <3> QED
      BY <2>2, <3>1
  <2>6. cowork'.next > 1 => pool'[1] # 0
    <3>1. 1 \in Workers
      BY <1>1 DEF Workers
    <3>2. 1 <= size => pool'[1] = 1
      BY <2>2, <3>1
    <3>3. cowork'.next > 1 => 1 <= size
      BY <1>2, <1>4
    <3> QED
      BY <3>2, <3>3
  <2>7. cowork'.next \in 1..(cowork'.kept + 1) /\ cowork'.pc # "plan"
    BY <1>1, <1>2, <1>4
  <2> QED
    BY <2>1, <2>3, <2>4, <2>5, <2>6, <2>7 DEF PoolHandsOut
<1>8. PoolIsOver'
  BY <1>1, <1>4 DEF CoworkInv, PoolIsOver, AfterPool, IsTold
<1>9. SectionsAreWritten'
  BY <1>1, <1>4, SectionsStay DEF CoworkInv, SectionsAreWritten, IsTold
<1> QED
  BY <1>1, <1>4, <1>6, <1>7, <1>8, <1>9 DEF CoworkInv

\* A sub-agent ends with a result, and its worker goes on with the next sub-goal.
LEMMA EndsPreserves ==
  ASSUME CoworkInv, NEW w \in Workers, SubAgentEnds(w)
  PROVE  CoworkInv'
<1>1. /\ cowork \in CoworkTypes /\ pool[w] # 0 /\ cowork.next \in Nat \ {0}
      /\ cowork.kept \in 0..MaxSubAgents /\ MaxSubAgents \in Nat
      /\ UNCHANGED <<sections, told>> /\ CoworkTyping
  BY CoworkAssumption DEF CoworkInv, CoworkTyping, CoworkTypes, SubAgentEnds, PoolHandsOut
<1>2. PICK g \in Subgoals : g = pool[w] /\ g < cowork.next /\ g <= cowork.kept
  BY <1>1 DEF CoworkInv, CoworkTyping, PoolHandsOut, Subgoals
<1>3. cowork.pc \notin AfterPool
  BY <1>1 DEF CoworkInv, PoolIsOver
<1>4. PICK outcome \in {"ok", "failed"} : results' = [results EXCEPT ![g] = outcome]
  BY <1>2 DEF SubAgentEnds
<1>5. /\ results' \in [Subgoals -> {"none", "ok", "failed"}] /\ results'[g] # "none"
      /\ \A i \in Subgoals : results[i] # "none" => results'[i] # "none"
  BY <1>1, <1>4 DEF CoworkTyping
<1>6. cowork.pc # "plan"
  BY <1>1, <1>2 DEF CoworkInv, PoolHandsOut, Subgoals
<1>7. CASE /\ cowork.next <= cowork.kept /\ pool' = [pool EXCEPT ![w] = cowork.next]
           /\ begun' = [begun EXCEPT ![cowork.next] = @ + 1]
           /\ cowork' = [cowork EXCEPT !.next = @ + 1]
  <2>1. PICK n \in Subgoals : n = cowork.next
    BY <1>1, <1>7 DEF Subgoals
  <2>2. /\ cowork' \in CoworkTypes /\ cowork'.pc = cowork.pc /\ cowork'.kept = cowork.kept
        /\ cowork'.next = n + 1 /\ cowork'.files = cowork.files /\ cowork'.at = cowork.at
        /\ cowork'.read = cowork.read
    <3>1. PICK k \in Nat : k = n + 1
      BY <2>1, <1>1
    <3>2. cowork' = [cowork EXCEPT !.next = k]
      BY <1>7, <2>1, <3>1
    <3>3. /\ cowork' \in CoworkTypes /\ cowork'.pc = cowork.pc /\ cowork'.kept = cowork.kept
          /\ cowork'.next = k /\ cowork'.files = cowork.files /\ cowork'.at = cowork.at
          /\ cowork'.read = cowork.read
      BY <1>1, <3>2 DEF CoworkTypes
    <3> QED
      BY <3>1, <3>3
  <2>3. /\ pool' \in [Workers -> Nat] /\ pool'[w] = n
        /\ \A u \in Workers \ {w} : pool'[u] = pool[u]
    BY <1>1, <1>7, <2>1 DEF CoworkTyping
  <2>4. /\ begun' \in [Subgoals -> Nat] /\ begun'[n] = begun[n] + 1
        /\ \A i \in Subgoals \ {n} : begun'[i] = begun[i]
    BY <1>1, <1>7, <2>1 DEF CoworkTyping
  <2>5. CoworkTyping'
    BY <1>1, <1>5, <2>2, <2>3, <2>4 DEF CoworkTyping
  <2>6. PoolHandsOut'
    <3>1. \A i \in Subgoals : begun'[i] = (IF i < cowork'.next THEN 1 ELSE 0)
      BY <1>1, <2>1, <2>2, <2>4 DEF CoworkInv, PoolHandsOut, Subgoals
    <3>2. \A u \in Workers : pool[u] < n /\ pool[u] \in Nat /\ pool[u] <= cowork.kept
      BY <1>1, <2>1 DEF CoworkInv, CoworkTyping, PoolHandsOut
    <3>3. \A u, v \in Workers : pool'[u] = pool'[v] /\ u # v => pool'[u] = 0
      BY <1>1, <2>1, <2>3, <3>2 DEF CoworkInv, PoolHandsOut, Subgoals
    <3>4. \A u \in Workers : pool'[u] < cowork'.next /\ pool'[u] <= cowork'.kept
      BY <1>1, <1>7, <2>1, <2>2, <2>3, <3>2 DEF Subgoals
    <3>5. ASSUME NEW i \in Subgoals, i < cowork'.next
          PROVE  results'[i] # "none" \/ \E u \in Workers : pool'[u] = i
      <4>1. CASE i = n
        BY <2>3, <4>1
      <4>2. CASE i # n
        <5>1. i < cowork.next
          BY <1>1, <2>1, <2>2, <3>5, <4>2 DEF Subgoals
        <5>2. CASE results[i] # "none"
          BY <1>5, <5>2
        <5>3. ASSUME NEW u \in Workers, pool[u] = i
              PROVE  results'[i] # "none" \/ \E v \in Workers : pool'[v] = i
          BY <1>2, <1>5, <2>3, <5>3
        <5> QED
          BY <5>1, <5>2, <5>3 DEF CoworkInv, PoolHandsOut
      <4> QED
        BY <4>1, <4>2
    <3>6. cowork'.next > 1 /\ cowork'.next <= cowork'.kept => pool'[1] # 0
      <4>1. cowork.next > 1
        BY <1>1, <1>2, <2>1 DEF Subgoals
      <4>2. 1 \in Workers
        BY CoworkAssumption DEF Workers
      <4> QED
        BY <1>1, <1>7, <2>1, <2>2, <2>3, <4>1, <4>2 DEF CoworkInv, PoolHandsOut, Subgoals
    <3>7. cowork'.next \in 1..(cowork'.kept + 1) /\ cowork'.pc # "plan"
      BY <1>1, <1>6, <1>7, <2>1, <2>2
    <3> QED
      BY <3>1, <3>3, <3>4, <3>5, <3>6, <3>7 DEF PoolHandsOut
  <2>7. PoolIsOver'
    BY <1>1, <1>3, <2>2 DEF CoworkInv, PoolIsOver, IsTold
  <2>8. SectionsAreWritten'
    BY <1>1, <2>2, SectionsStay DEF CoworkInv, SectionsAreWritten, IsTold
  <2> QED
    BY <2>2, <2>5, <2>6, <2>7, <2>8 DEF CoworkInv
<1>8. CASE /\ ~(cowork.next <= cowork.kept) /\ pool' = [pool EXCEPT ![w] = 0]
           /\ UNCHANGED <<begun, cowork>>
  <2>1. /\ pool' \in [Workers -> Nat] /\ pool'[w] = 0
        /\ \A u \in Workers \ {w} : pool'[u] = pool[u]
    BY <1>1, <1>8 DEF CoworkTyping
  <2>2. CoworkTyping'
    BY <1>1, <1>5, <1>8, <2>1 DEF CoworkTyping
  <2>3. PoolHandsOut'
    <3>1. \A u, v \in Workers : pool'[u] = pool'[v] /\ u # v => pool'[u] = 0
      BY <2>1 DEF CoworkInv, PoolHandsOut
    <3>2. \A u \in Workers : pool'[u] < cowork'.next /\ pool'[u] <= cowork'.kept
      BY <1>1, <1>8, <2>1 DEF CoworkInv, PoolHandsOut
    <3>3. ASSUME NEW i \in Subgoals, i < cowork.next
          PROVE  results'[i] # "none" \/ \E u \in Workers : pool'[u] = i
      <4>1. CASE results[i] # "none"
        BY <1>5, <4>1
      <4>2. ASSUME NEW u \in Workers, pool[u] = i
            PROVE  results'[i] # "none" \/ \E v \in Workers : pool'[v] = i
        BY <1>2, <1>5, <2>1, <4>2
      <4> QED
        BY <3>3, <4>1, <4>2 DEF CoworkInv, PoolHandsOut
    <3> QED
      BY <1>8, <3>1, <3>2, <3>3 DEF CoworkInv, PoolHandsOut
  <2>4. PoolIsOver' /\ SectionsAreWritten'
    BY <1>1, <1>3, <1>8, SectionsStay DEF CoworkInv, PoolIsOver, SectionsAreWritten, IsTold
  <2> QED
    BY <1>8, <2>2, <2>3, <2>4 DEF CoworkInv
<1> QED
  BY <1>7, <1>8 DEF SubAgentEnds

\* The pool is over when every worker has returned: no sub-goal is left to hand out.
LEMMA OverPreserves ==
  ASSUME CoworkInv, PoolEnds
  PROVE  CoworkInv'
<1>1. /\ cowork.pc = "pool" /\ cowork.next > 1 /\ (\A w \in Workers : pool[w] = 0) /\ CoworkTyping
      /\ UNCHANGED <<pool, begun, results, sections, told>> /\ cowork' = [cowork EXCEPT !.pc = "result"]
      /\ cowork.next \in Nat /\ cowork.kept \in Nat
  BY CoworkAssumption DEF PoolEnds, CoworkInv, CoworkTyping, CoworkTypes
<1>2. PcMoves("result")
  BY <1>1, PcOnly DEF CoworkPcs
<1>3. cowork.next > cowork.kept
  <2>1. 1 \in Workers
    BY CoworkAssumption DEF Workers
  <2> QED
    BY <1>1, <2>1 DEF CoworkInv, PoolHandsOut
<1>4. PoolHandsOut'
  BY <1>1, <1>2, PoolStays DEF PcMoves
<1>5. PoolIsOver' /\ CoworkTyping'
  BY <1>1, <1>2, <1>3 DEF PcMoves, PoolIsOver, AfterPool, CoworkTyping
<1>6. cowork'.at = 1
  BY <1>1, <1>2 DEF CoworkInv, PcMoves
<1>7. SectionsAreWritten'
  <2>1. ~IsTold("synthesize")
    BY <1>1 DEF CoworkInv, PoolIsOver, AfterPool
  <2> QED
    BY <1>1, <1>2, <1>6, <2>1, SectionsStay
    DEF CoworkInv, SectionsAreWritten, PcMoves, IsTold, Subgoals
<1>8. cowork'.kept > 0
  BY <1>1, <1>2 DEF CoworkInv, PoolHandsOut, PcMoves
<1> QED
  BY <1>1, <1>2, <1>4, <1>5, <1>6, <1>7, <1>8 DEF CoworkInv, PcMoves

\* A step behind the pool that tells something and touches no section.
LEMMA TellPreserves ==
  ASSUME CoworkInv, cowork.pc \in AfterPool \ {"done"}, NEW pc \in AfterPool, PcMoves(pc),
         NEW event \in Told, told' = Append(told, event),
         UNCHANGED <<pool, begun, results, sections>>, SectionsAreWritten',
         pc \in {"result", "write", "next"} => cowork.at \in 1..cowork.kept,
         pc = "brief" \/ pc = "finish" \/ pc = "done" \/ pc = "error" \/ pc = "write" \/ pc = "next"
  PROVE  CoworkInv'
<1>1. CoworkTyping'
  BY TellAdds DEF CoworkInv, CoworkTyping, PcMoves
<1>2. PoolHandsOut'
  BY PoolStays DEF PcMoves, AfterPool
<1>3. PoolIsOver'
  BY DEF CoworkInv, PoolIsOver, PcMoves
<1> QED
  BY <1>1, <1>2, <1>3 DEF CoworkInv, PcMoves, AfterPool

LEMMA EventsAreTold ==
  ASSUME NEW n \in Nat
  PROVE  /\ <<"result", n>> \in Told /\ <<"file", n>> \in Told /\ <<"synthesize", n>> \in Told
         /\ <<"done", n>> \in Told /\ <<"error", n>> \in Told
BY DEF Told

\* What is synthesized has read every section of the run.
LEMMA SayPreserves ==
  ASSUME CoworkInv, TellResult \/ Synthesize \/ WriteBrief \/ CoworkFinish \/ CoworkError
  PROVE  CoworkInv'
<1>1. CoworkTyping /\ cowork \in CoworkTypes /\ cowork.at \in Nat
      /\ UNCHANGED <<pool, begun, results, sections>>
  BY DEF CoworkInv, CoworkTyping, CoworkTypes, TellResult, Synthesize, WriteBrief, CoworkFinish,
         CoworkError
<1>2. CASE TellResult
  <2>1. PICK pc \in {"write", "next"} :
          cowork' = [cowork EXCEPT !.pc = pc] /\ (cowork.files <=> pc = "write")
    BY <1>1, <1>2 DEF TellResult, CoworkTypes
  <2>2. PcMoves(pc)
    BY <1>1, <2>1, PcOnly DEF CoworkPcs
  <2>3. PICK event \in Told : event = <<"result", cowork.at>> /\ event[1] = "result"
    BY <1>1, EventsAreTold
  <2>4. told' = Append(told, event) /\ cowork.pc = "result"
    BY <1>2, <2>3 DEF TellResult, Tell
  <2>5. IsTold("synthesize")' <=> IsTold("synthesize")
    BY <1>1, <2>3, <2>4, TellAdds
  <2>6. SectionsAreWritten'
    BY <1>1, <2>1, <2>2, <2>4, <2>5, SectionsStay DEF CoworkInv, SectionsAreWritten, PcMoves
  <2>7. cowork.pc \in AfterPool \ {"done"} /\ pc \in AfterPool /\ cowork.at \in 1..cowork.kept
    BY <2>1, <2>4 DEF AfterPool, CoworkInv
  <2> QED
    BY <1>1, <2>1, <2>2, <2>4, <2>6, <2>7, TellPreserves
<1>3. CASE Synthesize
  <2>1. PICK pc \in {"brief", "finish"} : cowork' = [cowork EXCEPT !.pc = pc]
    BY <1>3 DEF Synthesize
  <2>2. PcMoves(pc)
    BY <1>1, <2>1, PcOnly DEF CoworkPcs
  <2>3. PICK event \in Told : event = <<"synthesize", 0>>
    BY EventsAreTold
  <2>4. told' = Append(told, event) /\ cowork.pc = "read"
        /\ (cowork.files => \A i \in 1..cowork.kept : cowork.read[i] > 0)
    BY <1>3, <2>3 DEF Synthesize, Tell
  <2>5. cowork'.files => \A i \in Subgoals : i <= cowork'.kept => cowork'.read[i] > 0
    <3>1. cowork.kept \in 0..MaxSubAgents
      BY <1>1 DEF CoworkTypes
    <3> QED
      BY <2>2, <2>4, <3>1, CoworkAssumption DEF PcMoves, Subgoals
  <2>6. SectionsAreWritten'
    BY <1>1, <2>1, <2>2, <2>4, <2>5, SectionsStay DEF CoworkInv, SectionsAreWritten, PcMoves
  <2>7. cowork.pc \in AfterPool \ {"done"} /\ pc \in AfterPool
    BY <2>1, <2>4 DEF AfterPool
  <2> QED
    BY <1>1, <2>1, <2>2, <2>4, <2>6, <2>7, TellPreserves
<1>4. CASE WriteBrief \/ CoworkFinish \/ CoworkError
  <2>1. PICK pc \in {"finish", "done", "error"} : cowork' = [cowork EXCEPT !.pc = pc]
    BY <1>4 DEF WriteBrief, CoworkFinish, CoworkError
  <2>2. PcMoves(pc)
    BY <1>1, <2>1, PcOnly DEF CoworkPcs
  <2>3. PICK event \in Told : told' = Append(told, event) /\ event[1] # "synthesize"
    <3>1. \/ told' = Append(told, <<"file", 0>>) \/ told' = Append(told, <<"done", 0>>)
          \/ told' = Append(told, <<"error", 0>>)
      BY <1>4 DEF WriteBrief, CoworkFinish, CoworkError, Tell
    <3>2. /\ <<"file", 0>> \in Told /\ <<"done", 0>> \in Told /\ <<"error", 0>> \in Told
      BY EventsAreTold
    <3> QED
      BY <3>1, <3>2
  <2>4. cowork.pc \in {"brief", "finish", "write", "read"}
    BY <1>4 DEF WriteBrief, CoworkFinish, CoworkError
  <2>5. IsTold("synthesize")' <=> IsTold("synthesize")
    BY <1>1, <2>3, TellAdds
  <2>6. SectionsAreWritten'
    BY <1>1, <2>1, <2>2, <2>5, SectionsStay DEF CoworkInv, SectionsAreWritten, PcMoves
  <2>7. cowork.pc \in AfterPool \ {"done"} /\ pc \in AfterPool
    BY <2>1, <2>4 DEF AfterPool
  <2> QED
    BY <1>1, <2>1, <2>2, <2>3, <2>6, <2>7, TellPreserves
<1> QED
  BY <1>2, <1>3, <1>4

LEMMA WritePreserves ==
  ASSUME CoworkInv, WriteSection
  PROVE  CoworkInv'
<1>1. /\ CoworkTyping /\ cowork.pc = "write" /\ cowork' = [cowork EXCEPT !.pc = "next"]
      /\ UNCHANGED <<pool, begun, results>> /\ cowork.at \in Nat
      /\ sections' = [sections EXCEPT ![cowork.at] = Append(@, "run")]
      /\ cowork.at \in 1..cowork.kept /\ cowork.kept \in 0..MaxSubAgents
  BY DEF CoworkInv, CoworkTyping, CoworkTypes, WriteSection
<1>2. cowork.at \in Subgoals
  BY <1>1, CoworkAssumption DEF Subgoals
<1>3. PcMoves("next")
  BY <1>1, PcOnly DEF CoworkPcs
<1> PICK at \in Subgoals : at = cowork.at
  BY <1>2
<1>4. PICK event \in Told : told' = Append(told, event) /\ event[1] = "file"
  BY <1>1, EventsAreTold DEF WriteSection, Tell
<1>5. told' \in Seq(Told) /\ (IsTold("synthesize")' <=> IsTold("synthesize"))
  BY <1>1, <1>4, TellAdds
<1>6. /\ sections' \in [Subgoals -> Seq({"run", "other"})] /\ HasRun(at)'
      /\ \A j \in Subgoals : (HasRun(j) => HasRun(j)') /\ (ReadRun(j) => ReadRun(j)')
  BY <1>1, <1>2, <1>3, AppendKeepsRun DEF PcMoves
<1>7. CoworkTyping'
  BY <1>1, <1>3, <1>5, <1>6 DEF CoworkTyping, PcMoves
<1>8. PoolHandsOut'
  BY <1>1, <1>3, PoolStays DEF PcMoves
<1>9. PoolIsOver'
  BY <1>1, <1>3 DEF CoworkInv, PoolIsOver, AfterPool, PcMoves
<1>10. SectionsAreWritten'
  <2>1. \A i \in Subgoals : i <= cowork.at => i < cowork.at \/ i = cowork.at
    BY <1>1 DEF Subgoals
  <2>2. HasRun(at)'
    BY <1>6
  <2>3. cowork.files => \A i \in Subgoals : i <= at => HasRun(i)'
    BY <1>1, <1>6, <2>1, <2>2 DEF CoworkInv, SectionsAreWritten
  <2> QED
    BY <1>1, <1>3, <1>5, <1>6, <2>2, <2>3 DEF CoworkInv, SectionsAreWritten, PcMoves
<1> QED
  BY <1>1, <1>3, <1>7, <1>8, <1>9, <1>10 DEF CoworkInv, PcMoves

LEMMA ForeignPreserves ==
  ASSUME CoworkInv, ForeignWrite
  PROVE  CoworkInv'
<1>1. PICK i \in Subgoals : sections' = [sections EXCEPT ![i] = Append(@, "other")]
  BY DEF ForeignWrite
<1>2. UNCHANGED <<cowork, pool, begun, results, told>> /\ CoworkTyping
  BY DEF ForeignWrite, CoworkInv
<1>3. /\ sections' \in [Subgoals -> Seq({"run", "other"})]
      /\ \A j \in Subgoals : (HasRun(j) => HasRun(j)') /\ (ReadRun(j) => ReadRun(j)')
  BY <1>1, <1>2, AppendKeepsRun
<1>4. CoworkTyping'
  BY <1>2, <1>3 DEF CoworkTyping
<1>5. SectionsAreWritten'
  BY <1>2, <1>3 DEF CoworkInv, SectionsAreWritten, IsTold
<1>6. PoolHandsOut' /\ PoolIsOver'
  BY <1>2 DEF CoworkInv, PoolHandsOut, PoolIsOver, IsTold
<1> QED
  BY <1>2, <1>4, <1>5, <1>6 DEF CoworkInv

\* The next section, or the reading of all of them.
LEMMA NextSectionPreserves ==
  ASSUME CoworkInv, NextSection
  PROVE  CoworkInv'
<1>1. /\ CoworkTyping /\ cowork \in CoworkTypes /\ cowork.pc = "next"
      /\ UNCHANGED <<pool, begun, results, sections, told>> /\ cowork.at \in 1..cowork.kept
      /\ cowork.at \in Nat /\ cowork.kept \in Nat
  BY CoworkAssumption DEF CoworkInv, CoworkTyping, CoworkTypes, NextSection
<1>2. PICK pc \in {"result", "read"}, at \in Nat :
        /\ cowork' = [cowork EXCEPT !.at = at, !.pc = pc]
        /\ pc = "result" => at = cowork.at + 1 /\ cowork.at < cowork.kept
        /\ pc = "read" => ~(cowork.at < cowork.kept)
  <2>1. CASE cowork.at < cowork.kept
    <3>1. cowork' = [cowork EXCEPT !.at = cowork.at + 1, !.pc = "result"] /\ cowork.at + 1 \in Nat
      BY <1>1, <2>1 DEF NextSection
    <3> QED
      BY <2>1, <3>1
  <2>2. CASE ~(cowork.at < cowork.kept)
    <3>1. cowork' = [cowork EXCEPT !.at = 1, !.pc = "read"]
      BY <2>2 DEF NextSection
    <3> QED
      BY <2>2, <3>1
  <2> QED
    BY <2>1, <2>2
<1>3. /\ cowork' \in CoworkTypes /\ cowork'.pc = pc /\ cowork'.files = cowork.files
      /\ cowork'.kept = cowork.kept /\ cowork'.next = cowork.next /\ cowork'.at = at
      /\ cowork'.read = cowork.read
  BY <1>1, <1>2 DEF CoworkTypes, CoworkPcs
<1>4. CoworkTyping'
  BY <1>1, <1>3 DEF CoworkTyping
<1>5. PoolHandsOut'
  BY <1>1, <1>3, PoolStays
<1>6. PoolIsOver'
  BY <1>1, <1>3 DEF CoworkInv, PoolIsOver, AfterPool
<1>7. SectionsAreWritten'
  <2>1. ~(cowork.files /\ IsTold("synthesize"))
    BY <1>1 DEF CoworkInv, SectionsAreWritten
  <2>2. cowork.files => \A i \in Subgoals : i <= cowork.at => HasRun(i)
    BY <1>1 DEF CoworkInv, SectionsAreWritten
  <2>3. pc = "result" => \A i \in Subgoals : i < at => i <= cowork.at
    BY <1>1, <1>2 DEF Subgoals
  <2>4. pc = "read" => \A i \in Subgoals : i <= cowork.kept => i <= cowork.at
    BY <1>1, <1>2 DEF Subgoals
  <2> QED
    BY <1>1, <1>3, <2>1, <2>2, <2>3, <2>4, SectionsStay DEF CoworkInv, SectionsAreWritten, IsTold
<1> QED
  BY <1>1, <1>2, <1>3, <1>4, <1>5, <1>6, <1>7 DEF CoworkInv

\* A section is read when this run has written it.
LEMMA ReadPreserves ==
  ASSUME CoworkInv, ReadSection
  PROVE  CoworkInv'
<1>1. /\ CoworkTyping /\ cowork \in CoworkTypes /\ cowork.pc = "read" /\ cowork.files
      /\ UNCHANGED <<pool, begun, results, sections, told>>
      /\ cowork.kept \in 0..MaxSubAgents /\ MaxSubAgents \in Nat
  BY CoworkAssumption DEF CoworkInv, CoworkTyping, CoworkTypes, ReadSection
<1>2. PICK i \in 1..cowork.kept : cowork' = [cowork EXCEPT !.read[i] = Len(sections[i])]
  BY DEF ReadSection
<1>3. i \in Subgoals /\ HasRun(i)
  BY <1>1, <1>2 DEF Subgoals, CoworkInv, SectionsAreWritten
<1>4. PICK n \in Nat : n = Len(sections[i]) /\ DOMAIN sections[i] = 1..n
  BY <1>1, <1>3 DEF CoworkTyping
<1>5. cowork' = [cowork EXCEPT !.read = [cowork.read EXCEPT ![i] = n]]
  BY <1>1, <1>2, <1>4 DEF CoworkTypes
<1>6. PICK read \in [Subgoals -> Nat] : /\ read = [cowork.read EXCEPT ![i] = n]
                                        /\ read[i] = n
                                        /\ \A j \in Subgoals \ {i} : read[j] = cowork.read[j]
  <2>1. cowork.read \in [Subgoals -> Nat]
    BY <1>1 DEF CoworkTypes
  <2>2. [cowork.read EXCEPT ![i] = n] \in [Subgoals -> Nat]
    BY <1>4, <2>1
  <2> QED
    BY <1>3, <2>1, <2>2
<1>7. /\ cowork' \in CoworkTypes /\ cowork'.pc = "read" /\ cowork'.files = cowork.files
      /\ cowork'.kept = cowork.kept /\ cowork'.next = cowork.next /\ cowork'.at = cowork.at
      /\ cowork'.read = read
  BY <1>1, <1>5, <1>6 DEF CoworkTypes
<1>8. CoworkTyping'
  BY <1>1, <1>7 DEF CoworkTyping
<1>9. PoolHandsOut'
  BY <1>1, <1>7, PoolStays
<1>10. PoolIsOver'
  BY <1>1, <1>7 DEF CoworkInv, PoolIsOver, AfterPool
<1>11. SectionsAreWritten'
  <2>1. ~IsTold("synthesize") /\ \A j \in Subgoals : j <= cowork.kept => HasRun(j)
    BY <1>1 DEF CoworkInv, SectionsAreWritten
  <2>2. ReadRun(i)'
    BY <1>1, <1>3, <1>4, <1>6, <1>7 DEF HasRun, ReadRun
  <2>3. ASSUME NEW j \in Subgoals, j # i, cowork'.read[j] > 0
        PROVE  ReadRun(j)'
    BY <1>1, <1>6, <1>7, <2>3 DEF CoworkInv, SectionsAreWritten, ReadRun
  <2>4. \A j \in Subgoals : HasRun(j)' <=> HasRun(j)
    BY <1>1 DEF HasRun
  <2> QED
    BY <1>1, <1>7, <2>1, <2>2, <2>3, <2>4 DEF SectionsAreWritten, IsTold
<1> QED
  BY <1>1, <1>7, <1>8, <1>9, <1>10, <1>11 DEF CoworkInv

LEMMA CoworkNextPreserves ==
  ASSUME CoworkInv, [CoworkNext]_coworkVars
  PROVE  CoworkInv'
<1>1. CASE UNCHANGED coworkVars
  BY <1>1 DEF CoworkInv, CoworkTyping, PoolHandsOut, PoolIsOver, SectionsAreWritten, IsTold, HasRun,
              ReadRun, coworkVars
<1>2. ASSUME NEW w \in Workers, SubAgentEnds(w)
      PROVE  CoworkInv'
  BY <1>2, EndsPreserves
<1>3. CASE CoworkPlan \/ CoworkPlanThrows \/ PoolStart \/ PoolEnds
  BY <1>3, PlanPreserves, StartPreserves, OverPreserves
<1>4. CASE TellResult \/ Synthesize \/ WriteBrief \/ CoworkFinish \/ CoworkError
  BY <1>4, SayPreserves
<1>5. CASE WriteSection \/ NextSection \/ ReadSection \/ ForeignWrite
  BY <1>5, WritePreserves, NextSectionPreserves, ReadPreserves, ForeignPreserves
<1> QED
  BY <1>1, <1>2, <1>3, <1>4, <1>5 DEF CoworkNext

LEMMA InvBriefs == CoworkInv => BriefIsOfThisRun
<1> SUFFICES ASSUME CoworkInv PROVE BriefIsOfThisRun
  OBVIOUS
<1>1. cowork.kept \in 0..MaxSubAgents /\ MaxSubAgents \in Nat /\ cowork.next \in Nat
  BY CoworkAssumption DEF CoworkInv, CoworkTyping, CoworkTypes
<1>2. \A i \in Subgoals : begun[i] <= 1
  BY DEF CoworkInv, PoolHandsOut
<1>3. \A w, u \in Workers : pool[w] = pool[u] /\ w # u => pool[w] = 0
  BY DEF CoworkInv, PoolHandsOut
<1>4. ASSUME IsTold("result"), NEW i \in 1..cowork.kept
      PROVE  begun[i] = 1 /\ results[i] # "none"
  <2>1. cowork.next > cowork.kept /\ \A w \in Workers : pool[w] = 0
    BY <1>4 DEF CoworkInv, PoolIsOver
  <2>2. i \in Subgoals /\ i < cowork.next /\ i # 0
    BY <1>1, <2>1 DEF Subgoals
  <2> QED
    BY <2>1, <2>2 DEF CoworkInv, PoolHandsOut
<1>5. ASSUME IsTold("synthesize"), cowork.files, NEW i \in 1..cowork.kept
      PROVE  \E k \in 1..cowork.read[i] : sections[i][k] = "run"
  <2>1. i \in Subgoals /\ i <= cowork.kept
    BY <1>1 DEF Subgoals
  <2>2. cowork.read[i] > 0
    BY <1>5, <2>1 DEF CoworkInv, SectionsAreWritten
  <2> QED
    BY <1>5, <2>1, <2>2 DEF CoworkInv, SectionsAreWritten, ReadRun
<1> QED
  BY <1>2, <1>3, <1>4, <1>5 DEF BriefIsOfThisRun, IsTold

\* Whatever the fan-out, the size of the pool and what others write: each kept sub-goal has
\* one sub-agent, nothing is told of results before all have ended, and the brief is made
\* from sections that this run has written.
THEOREM BriefsAreOfTheirRun == CoworkSpec => []BriefIsOfThisRun
<1>1. CoworkInit => CoworkInv
  BY CoworkStarts
<1>2. CoworkInv /\ [CoworkNext]_coworkVars => CoworkInv'
  BY CoworkNextPreserves
<1> QED
  BY <1>1, <1>2, InvBriefs, PTL DEF CoworkSpec
-----------------------------------------------------------------------------
(* Types.                                                                  *)

\* The run is never past the last sub-goal.
AtASubgoal == cowork.at \in Subgoals

LEMMA StaysAtASubgoal == CoworkInv /\ AtASubgoal /\ [CoworkNext]_coworkVars => AtASubgoal'
<1> SUFFICES ASSUME CoworkInv, AtASubgoal, [CoworkNext]_coworkVars PROVE AtASubgoal'
  OBVIOUS
<1>1. /\ cowork \in CoworkTypes /\ cowork.at \in Subgoals /\ cowork.kept \in 0..MaxSubAgents
      /\ MaxSubAgents \in Nat \ {0} /\ Subgoals = 1..MaxSubAgents
  BY CoworkAssumption DEF CoworkInv, CoworkTyping, CoworkTypes, AtASubgoal, Subgoals
<1>2. ASSUME NEW new, NEW kept, NEW pc, NEW next,
             \/ new = [cowork EXCEPT !.kept = kept, !.pc = pc] \/ new = [cowork EXCEPT !.pc = pc]
             \/ new = [cowork EXCEPT !.next = next]
             \/ new = cowork
      PROVE  new.at = cowork.at
  BY <1>1, <1>2 DEF CoworkTypes
<1>3. CASE NextSection
  <2>1. CASE cowork.at < cowork.kept
    <3>1. cowork'.at = cowork.at + 1
      BY <1>1, <1>3, <2>1 DEF NextSection, CoworkTypes
    <3> QED
      BY <1>1, <2>1, <3>1 DEF AtASubgoal
  <2>2. CASE ~(cowork.at < cowork.kept)
    <3>1. cowork'.at = 1
      BY <1>1, <1>3, <2>2 DEF NextSection, CoworkTypes
    <3> QED
      BY <1>1, <3>1 DEF AtASubgoal
  <2> QED
    BY <2>1, <2>2
<1>4. CASE CoworkPlan
  BY <1>1, <1>2, <1>4 DEF CoworkPlan, AtASubgoal
<1>5. CASE PoolStart
  BY <1>1, <1>2, <1>5 DEF PoolStart, AtASubgoal
<1>6. ASSUME NEW w \in Workers, SubAgentEnds(w)
      PROVE  AtASubgoal'
  <2>1. cowork' = cowork \/ cowork' = [cowork EXCEPT !.next = cowork.next + 1]
    BY <1>1, <1>6 DEF SubAgentEnds, CoworkTypes
  <2> QED
    BY <1>1, <1>2, <2>1 DEF AtASubgoal
<1>7. CASE ReadSection
  <2>1. PICK i, v : cowork' = [cowork EXCEPT !.read[i] = v]
    BY <1>7 DEF ReadSection
  <2>2. cowork'.at = cowork.at
    BY <1>1, <2>1 DEF CoworkTypes
  <2> QED
    BY <1>1, <2>2 DEF AtASubgoal
<1>8. CASE \/ CoworkPlanThrows \/ PoolEnds \/ TellResult \/ WriteSection \/ Synthesize \/ WriteBrief
           \/ CoworkFinish \/ CoworkError \/ ForeignWrite \/ UNCHANGED coworkVars
  <2>1. cowork' = cowork \/ \E pc : cowork' = [cowork EXCEPT !.pc = pc]
    BY <1>8 DEF CoworkPlanThrows, PoolEnds, TellResult, WriteSection, Synthesize, WriteBrief,
                CoworkFinish, CoworkError, ForeignWrite, coworkVars
  <2> QED
    BY <1>1, <1>2, <2>1 DEF AtASubgoal
<1> QED
  BY <1>3, <1>4, <1>5, <1>6, <1>7, <1>8 DEF CoworkNext

\* Every variable of the coordinator keeps its type.
LEMMA CoworkIsTyped == CoworkSpec => []CoworkTypeOK
<1>1. ASSUME CoworkInv, AtASubgoal
      PROVE  CoworkTypeOK
  <2>1. /\ cowork \in CoworkTypes /\ MaxSubAgents \in Nat /\ Subgoals = 1..MaxSubAgents
        /\ cowork.next \in 1..(cowork.kept + 1) /\ pool \in [Workers -> Nat]
    BY <1>1, CoworkAssumption DEF CoworkInv, CoworkTyping, PoolHandsOut, Subgoals
  <2>2. cowork.next \in 1..(MaxSubAgents + 1)
    BY <2>1 DEF CoworkTypes
  <2>3. \A w \in Workers : pool[w] \in 0..MaxSubAgents
    <3>1. cowork.kept \in 0..MaxSubAgents /\ \A w \in Workers : pool[w] <= cowork.kept
      BY <1>1, <2>1 DEF CoworkInv, PoolHandsOut, CoworkTypes
    <3> QED
      BY <2>1, <3>1
  <2>4. pool \in [Workers -> 0..MaxSubAgents]
    BY <2>1, <2>3
  <2> QED
    BY <1>1, <2>1, <2>2, <2>4 DEF CoworkTypeOK, CoworkInv, CoworkTyping, CoworkTypes, AtASubgoal
<1>2. CoworkInit => AtASubgoal
  BY CoworkAssumption DEF CoworkInit, AtASubgoal, Subgoals
<1> QED
  BY <1>1, <1>2, CoworkStarts, CoworkNextPreserves, StaysAtASubgoal, PTL DEF CoworkSpec

\* Every variable of the workspace keeps its type.
LEMMA WorkspaceIsTyped == WorkspaceSpec => []WorkspaceTypeOK
<1>1. WorkspaceInv => WorkspaceTypeOK
  BY DEF WorkspaceInv
<1> QED
  BY <1>1, WorkspaceIsInvariant, PTL
=============================================================================
