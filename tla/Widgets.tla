------------------------------- MODULE Widgets -------------------------------
(***************************************************************************)
(* The widgets of rv2-ui that keep state over several events, on one page: *)
(* they share no signal, each moves when its own events come.              *)
(***************************************************************************)
EXTENDS CommandSelect, Motion, Tabs

WidgetsSpec == SelectSpec /\ MotionSpec /\ TabsSpec

\* The widgets of the UI kit act once per cause, and on what was on the screen when
\* they were used: a press of the trigger turns the popup over once, a choice reports
\* a drawn value, the cord hears once of a movement past its detent and once of a click,
\* and no poke of the blob is lost.
WidgetsActOnce ==
    /\ [](OneHighlight /\ PressTogglesOnce)
    /\ [][ReportsTheDrawn]_selectVars
    /\ [](CordPullsOncePerCause /\ BlobCountsEveryPoke)
    /\ []TabsFollowTheirUse
=============================================================================
