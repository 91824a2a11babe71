------------------------------- MODULE Stores -------------------------------
(***************************************************************************)
(* The repositories, of which every one exists twice: in memory and in     *)
(* Postgres.  Both take the same calls; what they answer is compared.  A   *)
(* repository is described by what its calls do to its rows: how a row of  *)
(* a known key is met when one is created or saved, which other calls      *)
(* there are, and in which order the rows are listed.                      *)
(***************************************************************************)
EXTENDS Naturals, Sequences, SequencesExt

CONSTANTS
  Tenants,  \* the owners of the rows
  RowKeys,  \* ids and names, ordered: numbers
  MaxWrites \* bound: calls that write

ASSUME StoresAssumption == RowKeys \subseteq Nat /\ MaxWrites \in Nat

VARIABLES
  repo,  \* the repository looked at
  mem,   \* its rows in memory, in the order of insertion
  sql,   \* its rows in Postgres, in the order of creation
  moved, \* history: the keys of rows that another owner created again
  writes \* bound: counts the calls that write

storesVars == <<repo, mem, sql, moved, writes>>

\* What a repository does when a row is created or saved whose key it has, by which
\* other call a row changes ("delete", "mark" or none), and how it lists.  A row that is
\* replaced takes the owner of the new one; one that is updated stays in its owner's list,
\* since the statement sets every column but the owner's.
Does(create, save, others, list) == [create |-> create, save |-> save, others |-> others, list |-> list]

MemTasks == Does("replace", "replace", {}, "oldest")
SqlTasks == Does("replace", "replace", {}, "oldest")
MemUsers == Does("keep", "none", {}, "none")
SqlUsers == Does("keep", "none", {}, "none")
MemProjects == Does("replace", "none", {}, "oldest")
SqlProjects == Does("update", "none", {}, "oldest")
MemSkills == Does("replace", "replace", {"delete"}, "oldest")
SqlSkills == Does("update", "update", {"delete"}, "oldest")
MemConnectors == Does("replace", "replace", {"delete"}, "oldest")
SqlConnectors == Does("update", "update", {"delete"}, "oldest")
MemJobs == Does("replace", "replace", {}, "oldest")
SqlJobs == Does("update", "update", {}, "newest")
MemSchedules == Does("replace", "replace", {"delete"}, "oldest")
SqlSchedules == Does("update", "update", {"delete"}, "oldest")
MemNotifications == Does("append", "none", {"mark"}, "oldest")
SqlNotifications == Does("keep", "none", {"mark"}, "newest")
MemAudit == Does("append", "none", {}, "oldest")
SqlAudit == Does("keep", "none", {}, "oldest")
MemMedia == Does("replace", "replace", {}, "oldest")
SqlMedia == Does("update", "update", {}, "oldest")
MemPlugins == Does("replace", "replace", {"delete"}, "oldest")
SqlPlugins == Does("update", "update", {"delete"}, "key")
MemEvents == Does("append", "none", {}, "oldest")
SqlEvents == Does("keep", "none", {}, "oldest")
MemConversations == Does("replace", "replace", {}, "stamp")
SqlConversations == Does("keep", "update", {}, "stamp")
MemTokens == Does("replace", "none", {"delete", "mark"}, "oldest")
SqlTokens == Does("keep", "none", {"delete", "mark"}, "newest")
MemSubscriptions == Does("replace", "replace", {}, "none")
SqlSubscriptions == Does("update", "update", {}, "none")
MemPasskeys == Does("replace", "none", {"delete"}, "oldest")
SqlPasskeys == Does("update", "none", {"delete"}, "oldest")
MemIdentities == Does("replace", "none", {}, "oldest")
SqlIdentities == Does("replace", "none", {}, "oldest")
MemNotes == Does("append", "none", {"clear"}, "oldest")
SqlNotes == Does("append", "none", {"clear"}, "oldest")

Memory == [
  tasks |-> MemTasks, users |-> MemUsers, projects |-> MemProjects, skills |-> MemSkills,
  connectors |-> MemConnectors, jobs |-> MemJobs, schedules |-> MemSchedules,
  notifications |-> MemNotifications, audit |-> MemAudit, media |-> MemMedia,
  plugins |-> MemPlugins, events |-> MemEvents, conversations |-> MemConversations,
  tokens |-> MemTokens, subscriptions |-> MemSubscriptions, passkeys |-> MemPasskeys,
  identities |-> MemIdentities, notes |-> MemNotes]

Postgres == [
  tasks |-> SqlTasks, users |-> SqlUsers, projects |-> SqlProjects, skills |-> SqlSkills,
  connectors |-> SqlConnectors, jobs |-> SqlJobs, schedules |-> SqlSchedules,
  notifications |-> SqlNotifications, audit |-> SqlAudit, media |-> SqlMedia,
  plugins |-> SqlPlugins, events |-> SqlEvents, conversations |-> SqlConversations,
  tokens |-> SqlTokens, subscriptions |-> SqlSubscriptions, passkeys |-> SqlPasskeys,
  identities |-> SqlIdentities, notes |-> SqlNotes]

Repos == DOMAIN Memory

\* In memory skills and plugins lie in a map per owner, everything else under its id.
KeyedPerOwner == {"skills", "plugins"}

\* Seeded fault: the table of skills has the name alone as its primary key.
PrimaryKeyOfName(r) == IF r = "plugins" THEN {"owner", "key"} ELSE {"key"}

\* The primary keys of the tables.
PrimaryKey(r) == IF r \in {"skills", "plugins"} THEN {"owner", "key"} ELSE {"key"}

\* Rows whose key comes with the request, a passkey's id among them, or from a provider;
\* all others get an id of their own.
Chosen == {"users", "skills", "plugins", "subscriptions", "identities", "passkeys"}

StoresInit == repo \in Repos /\ mem = <<>> /\ sql = <<>> /\ moved = {} /\ writes = 0

-----------------------------------------------------------------------------
\* Where a store has a row that a new one collides with.
Met(rows, entry, cols) == {i \in DOMAIN rows : \A c \in cols : rows[i][c] = entry[c]}

Put(rows, entry, cols, how) ==
  LET met == Met(rows, entry, cols)
      over(old) == IF how = "update" THEN [entry EXCEPT !.owner = old.owner] ELSE entry IN
  CASE how = "append" \/ met = {} -> Append(rows, entry)
    [] how = "keep" /\ met # {} -> rows
    [] OTHER -> [i \in DOMAIN rows |-> IF i \in met THEN over(rows[i]) ELSE rows[i]]

MemCols == IF repo \in KeyedPerOwner THEN {"owner", "key"} ELSE {"key"}

Write(o, k, memHow, sqlHow) ==
  LET entry == [owner |-> o, key |-> k, stamp |-> writes + 1] IN
  /\ writes < MaxWrites /\ writes' = writes + 1
  /\ mem' = Put(mem, entry, MemCols, memHow)
  /\ sql' = Put(sql, entry, PrimaryKey(repo), sqlHow)
  /\ UNCHANGED repo

\* Whether a row is there under this key that another owner has.
OfAnother(o, k) == \E i \in DOMAIN mem : mem[i].key = k /\ mem[i].owner # o

CreateRow(o, k) ==
  /\ repo \in Chosen \/ \A i \in DOMAIN mem : mem[i].key # k
  /\ repo \in {"users", "subscriptions"} => ~OfAnother(o, k)
  /\ Write(o, k, Memory[repo].create, Postgres[repo].create)
  /\ moved' = IF repo = "passkeys" /\ OfAnother(o, k) THEN moved \cup {k} ELSE moved

\* A row that was read before is saved, for the owner it had.
SaveRow(i) ==
  /\ i \in DOMAIN mem
  /\ Memory[repo].save # "none"
  /\ Write(mem[i].owner, mem[i].key, Memory[repo].save, Postgres[repo].save)
  /\ UNCHANGED moved

\* The rows a call is about: one of its owner, or all of them.
About(r, o, k, how) == r.owner = o /\ (how = "clear" \/ r.key = k)

\* The rows that a call leaves, in their order.
LeftBy(rows, o, k, how) ==
  FoldLeft(LAMBDA left, r : IF About(r, o, k, how) THEN left ELSE Append(left, r), <<>>, rows)

\* A row is deleted or marked for its owner only; clearing takes all of an owner.
ChangeRow(o, k, how) ==
  LET changed(rows) ==
        IF how = "mark"
        THEN [i \in DOMAIN rows |->
                IF About(rows[i], o, k, how) THEN [rows[i] EXCEPT !.stamp = writes + 1] ELSE rows[i]]
        ELSE LeftBy(rows, o, k, how) IN
  /\ how \in Memory[repo].others \cap Postgres[repo].others
  /\ writes < MaxWrites /\ writes' = writes + 1
  /\ mem' = changed(mem) /\ sql' = changed(sql)
  /\ UNCHANGED <<repo, moved>>

StoresNext ==
  \/ \E o \in Tenants, k \in RowKeys :
       CreateRow(o, k) \/ \E how \in {"delete", "mark", "clear"} : ChangeRow(o, k, how)
  \/ \E i \in 1..MaxWrites : SaveRow(i)

StoresSpec == StoresInit /\ [][StoresNext]_storesVars

-----------------------------------------------------------------------------
Owned(rows, o) == SelectSeq(rows, LAMBDA r : r.owner = o)

Listed(rows, o, order) ==
  CASE order = "newest" -> Reverse(Owned(rows, o))
    [] order = "key" -> SortSeq(Owned(rows, o), LAMBDA r, s : r.key < s.key)
    [] order = "stamp" -> SortSeq(Owned(rows, o), LAMBDA r, s : r.stamp > s.stamp)
    [] OTHER -> Owned(rows, o)

\* Every variable keeps its type.
StoresTypeOK ==
  /\ repo \in Repos /\ moved \subseteq RowKeys /\ writes \in 0..MaxWrites
  /\ {mem, sql} \subseteq Seq([owner : Tenants, key : RowKeys, stamp : 1..MaxWrites])

\* The repositories whose backends list in one order: jobs, notifications, tokens and
\* plugins come otherwise from Postgres than from memory.
OrderedAlike == {r \in Repos : Memory[r].list = Postgres[r].list}

\* The rows under the keys that no second owner has registered.
Unmoved(rows) == {r \in ToSet(rows) : r.key \notin moved}

\* After the same calls both stores hold the same rows, each with its owner and the value
\* it was last given, and list an owner's in the same order where they order alike:
\* however rows were met, saved again, deleted and created anew.  A passkey that is
\* registered again by another owner is his in memory and stays the first one's in
\* Postgres (passkey.ts, repos.ts): such a row may differ, and no other.
SameRows ==
  /\ Unmoved(mem) = Unmoved(sql)
  /\ moved = {} =>
       /\ Len(mem) = Len(sql)
       /\ repo \in OrderedAlike =>
            \A o \in Tenants : Listed(mem, o, Memory[repo].list) = Listed(sql, o, Postgres[repo].list)
=============================================================================
