------------------------------ MODULE Platform -------------------------------
(***************************************************************************)
(* Parts of the platform that share no state: the initial state chooses    *)
(* the part that takes steps, as in MCServices.                            *)
(***************************************************************************)
EXTENDS Accounts, Research, Tasks, Stores, Gateway, Pages, Sheets, Framing

VARIABLE focus

platformVars ==
  <<focus, accountsVars, researchVars, tasksVars, storesVars, gatewayVars, pagesVars,
    sheetsVars, framingVars>>

Parts == {"accounts", "research", "tasks", "stores", "gateway", "pages", "sheets", "framing"}

\* A choice that only the part in focus sees is made for that one alone.
Init ==
  /\ focus \in Parts
  /\ IF focus = "accounts" THEN AccountsInit ELSE AccountsInit /\ way = "demo"
  /\ ResearchInit /\ TasksInit /\ GatewayInit
  /\ StoresInit /\ (focus # "stores" => repo = "jobs")
  /\ PagesInit /\ (focus # "pages" => page = "schedules")
  /\ IF focus = "sheets" THEN SheetsInit ELSE docs = [table |-> <<>>, other |-> <<>>] /\ edits = <<>>
  /\ IF focus = "framing" THEN FramingInit ELSE
       /\ reader = "chat" /\ frames = <<>>
       /\ arrived = 0 /\ unread = <<>> /\ got = <<>> /\ outcome = "reading"

Next ==
  /\ UNCHANGED focus
  /\ \/ focus = "accounts" /\ AccountsNext
     \/ focus # "accounts" /\ UNCHANGED accountsVars
  /\ \/ focus = "research" /\ ResearchNext
     \/ focus # "research" /\ UNCHANGED researchVars
  /\ \/ focus = "tasks" /\ TasksNext
     \/ focus # "tasks" /\ UNCHANGED tasksVars
  /\ \/ focus = "stores" /\ StoresNext
     \/ focus # "stores" /\ UNCHANGED storesVars
  /\ \/ focus = "gateway" /\ GatewayNext
     \/ focus # "gateway" /\ UNCHANGED gatewayVars
  /\ \/ focus = "pages" /\ PagesNext
     \/ focus # "pages" /\ UNCHANGED pagesVars
  /\ \/ focus = "sheets" /\ SheetsNext
     \/ focus # "sheets" /\ UNCHANGED sheetsVars
  /\ \/ focus = "framing" /\ FramingNext
     \/ focus # "framing" /\ UNCHANGED framingVars

Spec == Init /\ [][Next]_platformVars

\* The part in focus keeps its types; the others do not move.
PlatformTypeOK ==
  /\ focus = "accounts" => AccountsTypeOK
  /\ focus = "research" => ResearchTypeOK
  /\ focus = "tasks" => TasksTypeOK
  /\ focus = "stores" => StoresTypeOK
  /\ focus = "gateway" => GatewayTypeOK
  /\ focus = "pages" => PagesTypeOK
  /\ focus = "sheets" => SheetsTypeOK
  /\ focus = "framing" => FramingTypeOK
=============================================================================
