--------------------------------- MODULE Tabs ---------------------------------
(***************************************************************************)
(* The tab list of the UI kit, rv2-ui/src/tabs.rs.  The value belongs to   *)
(* the caller, a page whose view is in its URL; the handlers of the tabs   *)
(* captured the position of the value as the last render drew it, and keys *)
(* may come before the caller has taken over what they reported.           *)
(***************************************************************************)
EXTENDS Integers, Sequences, SequencesExt

CONSTANTS TabValues,    \* the tabs, in order
          Views,        \* the views a URL may name, some of which no tab has
          MaxKeys       \* bound: clicks, keys and navigations

\* There is a tab, and a tab's value is its key among its siblings.
ASSUME TabsAssumption ==
    TabValues \in Seq(Range(TabValues)) \ {<<>>} /\ IsInjective(TabValues)

VARIABLES view,         \* the caller's value
          drawnView,    \* the value as it was drawn
          held,         \* the tab that holds the focus, 0 when none does
          asked,        \* the last call of onselect: [from, by, value]
          keys

tabVars == <<view, drawnView, held, asked, keys>>

-----------------------------------------------------------------------------

\* A value that no tab has leaves the first one current.
CurrentTab(value) ==
    IF value \in ToSet(TabValues) THEN SelectInSeq(TabValues, LAMBDA tab : tab = value) ELSE 1

\* onmove, from the tab that is current, not from the one that holds the focus.
NextTab(step) ==
    LET current == CurrentTab(drawnView) IN
    CASE step = "previous" -> IF current = 1 THEN 1 ELSE current - 1
      [] step = "next" -> IF current = Len(TabValues) THEN current ELSE current + 1
      [] step = "first" -> 1
      [] step = "last" -> Len(TabValues)

Unasked == [by |-> "none", value |-> "none", from |-> "none"]

TabsInit ==
    /\ view \in Views /\ drawnView = view
    /\ held = 0 /\ asked = Unasked /\ keys = 0

UseTabs == keys < MaxKeys /\ keys' = keys + 1

DrawTabs ==
    /\ drawnView # view /\ drawnView' = view
    /\ UNCHANGED <<view, held, asked, keys>>

\* onclick reports its tab whether or not it is the current one.
ClickTab(i) ==
    /\ UseTabs
    /\ held' = i
    /\ asked' = [by |-> "click", value |-> TabValues[i], from |-> drawnView]
    /\ view' = TabValues[i]
    /\ UNCHANGED drawnView

\* The roving tabindex: of the tabs, Tab stops at the current one.
FocusTab ==
    /\ UseTabs
    /\ held' = CurrentTab(drawnView)
    /\ UNCHANGED <<view, drawnView, asked>>

\* onkeydown: a step that leads nowhere calls nobody.
KeyOnTab(step) ==
    /\ UseTabs /\ held # 0
    /\ IF NextTab(step) = CurrentTab(drawnView) THEN UNCHANGED <<view, asked>>
       ELSE /\ asked' = [by |-> step, value |-> TabValues[NextTab(step)], from |-> drawnView]
            /\ view' = TabValues[NextTab(step)]
    /\ UNCHANGED <<drawnView, held>>

\* The URL changes by other means.
Navigate(v) ==
    /\ UseTabs /\ view # v
    /\ view' = v /\ asked' = Unasked
    /\ UNCHANGED <<drawnView, held>>

TabsNext ==
    \/ DrawTabs \/ FocusTab
    \/ \E i \in DOMAIN TabValues : ClickTab(i)
    \/ \E step \in {"previous", "next", "first", "last"} : KeyOnTab(step)
    \/ \E v \in Views : Navigate(v)

TabsSpec == TabsInit /\ [][TabsNext]_tabVars

-----------------------------------------------------------------------------

\* Unless the URL changed by other means, the view is the tab last reported; a key never
\* reports the tab that was drawn as current, unless no tab has its value, and an arrow
\* moves by one tab from it, at most, however many keys came before the next drawing.
TabsFollowTheirUse ==
    asked # Unasked =>
        /\ view = asked.value
        /\ LET from == CurrentTab(asked.from)
               to == CurrentTab(asked.value)
           IN  /\ asked.by # "click" => to # from
               /\ asked.by \in {"previous", "next"} => to - from \in {-1, 1}
=============================================================================
