----------------------------- MODULE MCServices -----------------------------
(***************************************************************************)
(* Services that share no state: a property of one cannot depend on how    *)
(* its steps interleave with those of another.  One run checks them all:   *)
(* the initial state chooses which of them is in focus, and only that one  *)
(* takes steps.                                                            *)
(***************************************************************************)
EXTENDS MCScheduler, MCAgent, Billing, Workspace, Collab, ModelRouter, Chat, Media, Cowork

VARIABLE focus

servicesVars ==
  <<focus, schedulerVars, agentVars, billingVars, workspaceVars, collabVars,
    routerVars, chatVars, mediaVars, coworkVars>>

Services == {"scheduler", "agent", "billing", "workspace", "collab", "router", "chat",
             "media", "cowork"}

\* A choice that only the service in focus sees is made for that one alone.
Init ==
  /\ focus \in Services
  /\ SchedulerInit /\ AgentInit /\ BillingInit /\ WorkspaceInit /\ CollabInit
  /\ RouterInit /\ ChatInit /\ MediaInit /\ CoworkInit
  /\ focus # "billing" => serial = [o \in Owners |-> TRUE]
  /\ focus # "router" => /\ keys = [c \in 1..Candidates |-> 1]
                         /\ call.kind = "json"
  /\ focus # "media" => asked = "fine"
  /\ focus # "cowork" => cowork.files

Next ==
  /\ UNCHANGED focus
  /\ \/ focus = "scheduler" /\ SchedulerNext
     \/ focus # "scheduler" /\ UNCHANGED schedulerVars
  /\ \/ focus = "agent" /\ AgentNext /\ Apart'
     \/ focus # "agent" /\ UNCHANGED agentVars
  /\ \/ focus = "billing" /\ BillingNext
     \/ focus # "billing" /\ UNCHANGED billingVars
  /\ \/ focus = "workspace" /\ WorkspaceNext
     \/ focus # "workspace" /\ UNCHANGED workspaceVars
  /\ \/ focus = "collab" /\ CollabNext
     \/ focus # "collab" /\ UNCHANGED collabVars
  /\ \/ focus = "router" /\ RouterNext
     \/ focus # "router" /\ UNCHANGED routerVars
  /\ \/ focus = "chat" /\ ChatNext
     \/ focus # "chat" /\ UNCHANGED chatVars
  /\ \/ focus = "media" /\ MediaNext
     \/ focus # "media" /\ UNCHANGED mediaVars
  /\ \/ focus = "cowork" /\ CoworkNext
     \/ focus # "cowork" /\ UNCHANGED coworkVars

\* The runs of an agent are scheduled fairly; nothing else needs fairness.
Fairness == \A r \in AgentRuns : WF_agentVars(focus = "agent" /\ GoesOn(r))

Spec == Init /\ [][Next]_servicesVars /\ Fairness

\* The service in focus keeps its types; the others do not move.
ServicesTypeOK ==
  /\ focus = "scheduler" => SchedulerTypeOK
  /\ focus = "agent" => AgentTypeOK
  /\ focus = "billing" => BillingTypeOK
  /\ focus = "workspace" => WorkspaceTypeOK
  /\ focus = "collab" => CollabTypeOK
  /\ focus = "router" => RouterTypeOK
  /\ focus = "chat" => ChatTypeOK
  /\ focus = "media" => MediaTypeOK
  /\ focus = "cowork" => CoworkTypeOK
=============================================================================
