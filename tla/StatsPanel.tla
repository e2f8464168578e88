----------------------------- MODULE StatsPanel -----------------------------
(***************************************************************************)
(* src/src/ui/stats_panel.cpp: the SQL tabs.  Every tab has a query, a     *)
(* result and a flag that its query is running; all of them use the one    *)
(* QueryDb, and only the selected tab is rendered, so only the selected    *)
(* tab looks for a result.                                                 *)
(*                                                                         *)
(* A frame polls before it runs a query, but the query thread can set its  *)
(* flags between the two, so polling and running are separate steps here.  *)
(***************************************************************************)
EXTENDS QueryDb, FiniteSets

CONSTANT Tabs           \* tabs the user may open

ASSUME TabsAssumption == Tabs # {}

VARIABLES open,         \* the tabs of tabs_
          active,       \* active_tab_
          tabs,         \* running: query_running, answer: the request the
                        \* displayed result answers (0: has_result is false)
          askedBy       \* which tab made each request; not in the code

tabVars   == <<open, active, tabs, askedBy>>
panelVars == <<dbVars, tabVars>>

NewTab == [running |-> FALSE, answer |-> 0]

(* load_tabs: the saved tabs; ensure_default_tab: one tab when there are none. *)
PanelInit ==
  /\ DbInit
  /\ open \in SUBSET Tabs \ {{}}
  /\ active \in open
  /\ tabs = [t \in Tabs |-> NewTab]
  /\ askedBy = <<>>

Rendered(t) == shown /\ ui = "idle" /\ active = t

(* render_tab: the query of this tab is running and the database is done. *)
PollTab(t) ==
  /\ Rendered(t)
  /\ tabs[t].running
  /\ TakeResult
  /\ tabs' = [tabs EXCEPT ![t] = [running |-> FALSE, answer |-> asyncResult.req]]
  /\ UNCHANGED <<open, active, askedBy>>

StartedBy(t) ==
  /\ ExecuteAsync
  /\ tabs' = [tabs EXCEPT ![t].running = TRUE]
  /\ askedBy' = Append(askedBy, t)
  /\ UNCHANGED <<open, active>>

(* The Run button, or Ctrl+Enter, of a tab that is not running. *)
RunTab(t) ==
  /\ Rendered(t)
  /\ ~tabs[t].running
  /\ StartedBy(t)

(* Seeded variant: "Use & Run" does not mark the tab as running. *)
UseAndRunUnmarked(t) ==
  /\ Rendered(t)
  /\ ExecuteAsync
  /\ askedBy' = Append(askedBy, t)
  /\ UNCHANGED <<open, active, tabs>>

(* "Use & Run" of the query builder: it looks only at the database. *)
UseAndRun(t) ==
  /\ Rendered(t)
  /\ StartedBy(t)

CancelTab(t) ==
  /\ Rendered(t)
  /\ tabs[t].running
  /\ CancelQuery
  /\ UNCHANGED tabVars

ClearTab(t) ==
  /\ Rendered(t)
  /\ ~tabs[t].running
  /\ tabs' = [tabs EXCEPT ![t].answer = 0]
  /\ UNCHANGED <<dbVars, open, active, askedBy>>

SelectTab(t) ==
  /\ shown /\ ui = "idle"
  /\ t \in open \ {active}
  /\ active' = t
  /\ UNCHANGED <<dbVars, open, tabs, askedBy>>

(* The + button: ImGui selects a new tab. *)
AddTab(t) ==
  /\ shown /\ ui = "idle"
  /\ t \in Tabs \ open
  /\ open' = open \union {t}
  /\ active' = t
  /\ tabs' = [tabs EXCEPT ![t] = NewTab]
  /\ UNCHANGED <<dbVars, askedBy>>

(* Seeded variant: the selection stays on the tab that is gone. *)
CloseTabKeepsActive(t) ==
  /\ shown /\ ui = "idle"
  /\ t \in open
  /\ Cardinality(open) > 1
  /\ open' = open \ {t}
  /\ tabs' = [tabs EXCEPT ![t] = NewTab]
  /\ UNCHANGED <<dbVars, active, askedBy>>

(* The last tab has no close button.  Closing does not touch the database.  ImGui
   knows a tab by its position, so any of the others may be selected next. *)
CloseTab(t) ==
  /\ shown /\ ui = "idle"
  /\ t \in open
  /\ Cardinality(open) > 1
  /\ open' = open \ {t}
  /\ active' \in open'
  /\ tabs' = [tabs EXCEPT ![t] = NewTab]
  /\ UNCHANGED <<dbVars, askedBy>>

TabAction(t) ==
  \/ PollTab(t) \/ RunTab(t) \/ UseAndRun(t) \/ CancelTab(t) \/ ClearTab(t)
  \/ SelectTab(t) \/ AddTab(t) \/ CloseTab(t)

(* What goes on without the tabs: the threads, loads, the schema browser. *)
Background ==
  /\ \/ QueryStep \/ IndexStep \/ ShowSchema \/ ExecuteReturns
     \/ BeginLoad \/ LoadStep \/ Close \/ CloseStep \/ Closed
  /\ UNCHANGED tabVars

PanelNext == Background \/ \E t \in Tabs : TabAction(t)

PanelSpec == PanelInit /\ [][PanelNext]_panelVars

(* Frames are rendered, so the selected tab polls. *)
PanelFairness ==
  /\ WF_panelVars(UNCHANGED tabVars /\ (InstallHandler \/ PrepareFails \/ Prepare \/ StepBegin))
  /\ WF_panelVars(UNCHANGED tabVars /\ StepInterrupted)
  /\ WF_panelVars(UNCHANGED tabVars /\ (RemoveHandler \/ Publish \/ ClearRunning \/ SetDone))
  /\ WF_panelVars(UNCHANGED tabVars /\ ExecuteReturns)
  /\ \A t \in Tabs : WF_panelVars(PollTab(t))

FairPanelSpec == PanelSpec /\ PanelFairness

-----------------------------------------------------------------------------
(* The type of the tabs. *)
PanelTypeOK ==
  /\ open \in SUBSET Tabs /\ active \in open
  /\ tabs \in [Tabs -> [running : BOOLEAN, answer : Requests]]
  /\ askedBy \in Seq(Tabs) /\ Len(askedBy) = requests

(* A result is handed out once: no two tabs show the answer to the same query. *)
OneTaker ==
  \A s, t \in Tabs : tabs[s].answer # 0 /\ tabs[s].answer = tabs[t].answer => s = t

OnlyAsker(t) == \A r \in 1..requests : askedBy[r] = t

(* While one tab asks all the questions, it shows the answer to its last one
   whenever it is not waiting. *)
SoleAskerUpToDate ==
  \A t \in open : OnlyAsker(t) /\ ~tabs[t].running => tabs[t].answer \in {0, requests}

(* Cancel brings the only asking tab back from "Running...", as long as the tab
   stays rendered and no newer query clears the flag. *)
CancelSettlesTab ==
  \A t \in Tabs :
    (OnlyAsker(t) /\ tabs[t].running /\ cancel /\ QueryActive)
      ~> (~tabs[t].running \/ ~Rendered(t) \/ ~OnlyAsker(t) \/ ~cancel)

(* Every result shows up in the tab that asked for it. *)
DeliveredToRequester ==
  \A t \in open : tabs[t].answer # 0 => askedBy[tabs[t].answer] = t
=============================================================================
