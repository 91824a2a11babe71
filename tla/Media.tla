------------------------------- MODULE Media -------------------------------
(***************************************************************************)
(* The generation of one media task.  Every GET of its event stream (and   *)
(* every delivery of its job) runs the whole of it: create the row, screen *)
(* the prompt, submit to the first provider that takes it, poll a bounded  *)
(* number of times, host the assets, meter and save.  Runs of one task     *)
(* share its row and the cost ledger.                                      *)
(***************************************************************************)
EXTENDS Naturals, Sequences, FiniteSets

CONSTANTS
  Viewers,     \* the runs of the task
  Providers,   \* length of the media route
  MaxPolls

ASSUME MediaAssumption == Providers \in Nat \ {0} /\ MaxPolls \in Nat

VARIABLES
  asked,       \* whether the prompt is disallowed or nobody serves the alias
  task,        \* the row: its status and the run that wrote it
  viewing,     \* viewing[v]: where run v stands
  generating,  \* the generations providers have accepted, as <<run, provider>>
  ledger       \* the generations metered

mediaVars == <<asked, task, viewing, generating, ledger>>

MediaPcs == {"idle", "screen", "submit", "mark", "poll", "host", "meter", "save",
             "fail", "ready", "failed", "blocked"}
MediaStatuses == {"none", "submitted", "processing", "ready", "failed"}
NoViewer == "none"

MediaInit ==
  /\ asked \in {"fine", "disallowed", "unpriced"}
  /\ task = [status |-> "none", by |-> NoViewer]
  /\ viewing = [v \in Viewers |-> [pc |-> "idle", provider |-> 1, polls |-> 0]]
  /\ generating = {}
  /\ ledger = <<>>

MediaGo(v, pc) == viewing' = [viewing EXCEPT ![v].pc = pc]

\* A save rewrites the whole row from the run's own copy.
SaveTask(v, status) == task' = [status |-> status, by |-> v]

\* The estimate comes first: it throws when no candidate has an adapter.
MediaUnpriced(v) ==
  /\ viewing[v].pc = "idle" /\ asked = "unpriced"
  /\ MediaGo(v, "fail")
  /\ UNCHANGED <<asked, task, generating, ledger>>

MediaCreate(v) ==
  /\ viewing[v].pc = "idle" /\ asked # "unpriced"
  /\ SaveTask(v, "submitted") /\ MediaGo(v, "screen")
  /\ UNCHANGED <<asked, generating, ledger>>

\* A disallowed prompt ends here, before anything is spent on it.
MediaScreen(v) ==
  /\ viewing[v].pc = "screen"
  /\ \/ asked = "fine" /\ MediaGo(v, "submit") /\ UNCHANGED task
     \/ asked = "disallowed" /\ SaveTask(v, "failed") /\ MediaGo(v, "blocked")
  /\ UNCHANGED <<asked, generating, ledger>>

Generation(v) == <<v, viewing[v].provider>>

\* A provider takes the job and says so.
MediaSubmit(v) ==
  /\ viewing[v].pc = "submit" /\ viewing[v].provider <= Providers
  /\ generating' = generating \cup {Generation(v)}
  /\ MediaGo(v, "mark")
  /\ UNCHANGED <<asked, task, ledger>>

\* It has no adapter, refuses, or takes the job and its answer is lost: the next
\* one is asked.
MediaFallBack(v) ==
  /\ viewing[v].pc = "submit" /\ viewing[v].provider <= Providers
  /\ generating' \in {generating, generating \cup {Generation(v)}}
  /\ viewing' = [viewing EXCEPT ![v].provider = @ + 1]
  /\ UNCHANGED <<asked, task, ledger>>

MediaExhaust(v) ==
  /\ viewing[v].pc = "submit" /\ viewing[v].provider > Providers
  /\ MediaGo(v, "fail")
  /\ UNCHANGED <<asked, task, generating, ledger>>

MediaMark(v) ==
  /\ viewing[v].pc = "mark"
  /\ SaveTask(v, "processing") /\ MediaGo(v, "poll")
  /\ UNCHANGED <<asked, generating, ledger>>

\* One poll and at most MaxPolls more; a poll that fails, a provider that failed
\* and one that takes too long all fail the task.
MediaPoll(v) ==
  /\ viewing[v].pc = "poll"
  /\ \/ MediaGo(v, "host")
     \/ MediaGo(v, "fail")
     \/ /\ viewing[v].polls < MaxPolls
        /\ viewing' = [viewing EXCEPT ![v].polls = @ + 1]
  /\ UNCHANGED <<asked, task, generating, ledger>>

\* Seeded fault: the cost is recorded as soon as the provider is done.
MediaHostMetered(v) ==
  /\ viewing[v].pc = "host"
  /\ ledger' = Append(ledger, Generation(v))
  /\ MediaGo(v, "save") \/ MediaGo(v, "fail")
  /\ UNCHANGED <<asked, task, generating>>

\* The assets are copied to our own store: a copy can fail.
MediaHost(v) ==
  /\ viewing[v].pc = "host"
  /\ MediaGo(v, "meter") \/ MediaGo(v, "fail")
  /\ UNCHANGED <<asked, task, generating, ledger>>

MediaMeter(v) ==
  /\ viewing[v].pc = "meter"
  /\ ledger' = Append(ledger, Generation(v))
  /\ MediaGo(v, "save")
  /\ UNCHANGED <<asked, task, generating>>

MediaSave(v) ==
  /\ viewing[v].pc = "save"
  /\ SaveTask(v, "ready") /\ MediaGo(v, "ready")
  /\ UNCHANGED <<asked, generating, ledger>>

MediaFail(v) ==
  /\ viewing[v].pc = "fail"
  /\ SaveTask(v, "failed") /\ MediaGo(v, "failed")
  /\ UNCHANGED <<asked, generating, ledger>>

MediaNext ==
  \E v \in Viewers :
    \/ MediaUnpriced(v) \/ MediaCreate(v) \/ MediaScreen(v)
    \/ MediaSubmit(v) \/ MediaFallBack(v) \/ MediaExhaust(v)
    \/ MediaMark(v) \/ MediaPoll(v)
    \/ MediaHost(v) \/ MediaMeter(v) \/ MediaSave(v)
    \/ MediaFail(v)

MediaSpec == MediaInit /\ [][MediaNext]_mediaVars

-----------------------------------------------------------------------------
\* Every variable keeps its type.
MediaTypeOK ==
  /\ asked \in {"fine", "disallowed", "unpriced"}
  /\ task \in [status : MediaStatuses, by : Viewers \cup {NoViewer}]
  /\ viewing \in [Viewers -> [pc : MediaPcs, provider : 1..(Providers + 1), polls : 0..MaxPolls]]
  /\ generating \subseteq Viewers \X (1..Providers)
  /\ ledger \in Seq(Viewers \X (1..Providers))

\* What is metered was generated, once, by the provider it names, and its run
\* goes on to save it as ready; a ready row is metered; a prompt that moderation
\* refuses, or a task nobody can price, costs nothing -- however the runs of a
\* task overwrite its row.
MeteredAsDelivered ==
  /\ \A i, j \in DOMAIN ledger : ledger[i] = ledger[j] => i = j
  /\ \A i \in DOMAIN ledger : /\ ledger[i] \in generating
                              /\ viewing[ledger[i][1]].pc \in {"save", "ready"}
  /\ task.status = "ready" => \E i \in DOMAIN ledger : ledger[i] = Generation(task.by)
  /\ asked # "fine" => generating = {}
=============================================================================
