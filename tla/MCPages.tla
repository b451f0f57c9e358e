------------------------------ MODULE MCPages ------------------------------
(***************************************************************************)
(* The two pages of the browser, the map and the tabs of the sensors, each *)
(* beside a Store that receives what it shows.  They share nothing: a      *)
(* behaviour has the steps of one of them.                                 *)
(***************************************************************************)
EXTENDS RoadUi

CONSTANTS Sensors, Limit, Polls, MaxReadings, MaxTime, MaxLosses

VARIABLES
  tab,                                                    \* "map" or "sensors"
  table, toCast, wire, ws, asked, answer, latest, losses  \* as in SensorsUi

tabVars == <<table, toCast, wire, ws, asked, answer, latest, losses>>

Tabs == INSTANCE SensorsUi WITH Requests <- Polls, rows <- table, shown <- latest

ASSUME Tabs!SensorsUiAssumption

EventuallyLatest == Tabs!EventuallyLatest

\* Steps of the one page and of the other.
OnMap(A) == tab = "map" /\ A /\ UNCHANGED <<tab, tabVars>>
OnTabs(A) == tab = "sensors" /\ A /\ UNCHANGED <<tab, roadVars>>

allVars == <<tab, roadVars, tabVars>>

PagesInit == RoadInit /\ Tabs!Init /\ tab \in {"map", "sensors"}

\* The fairness is the one of module SensorsUi.
FairPages ==
  /\ PagesInit
  /\ [][OnMap(RoadNext) \/ OnTabs(Tabs!Next)]_allVars
  /\ WF_allVars(OnTabs(Tabs!Broadcast)) /\ WF_allVars(OnTabs(Tabs!OnMessage))
  /\ WF_allVars(OnTabs(Tabs!Open)) /\ WF_allVars(OnTabs(Tabs!Retry))
  /\ \A q \in Polls :
       /\ WF_allVars(OnTabs(Tabs!Hydrate(q)))
       /\ SF_allVars(OnTabs(Tabs!ListFiltered(q))) /\ SF_allVars(OnTabs(Tabs!Hydrated(q)))
=============================================================================
