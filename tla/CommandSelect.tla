---------------------------- MODULE CommandSelect ----------------------------
(***************************************************************************)
(* The searchable drop-down of the UI kit, rv2-ui/src/command_select.rs.   *)
(*                                                                         *)
(* The component keeps three signals (open, query, active).  Its handlers  *)
(* read the signals as they are now, but the options, the value and the    *)
(* highlighted index as the last render drew them: `drawn' is what those   *)
(* closures captured.  A browser event may come before the signals of the  *)
(* previous one were rendered, and both moves of the focus are tasks that  *)
(* run some time after the handler that spawned them.                      *)
(*                                                                         *)
(* A label is the set of words it contains and a query the set of words    *)
(* typed, which is all that command_matches looks at.                      *)
(***************************************************************************)
EXTENDS Integers, Sequences, SequencesExt

CONSTANTS Options,      \* the option values, in the caller's order
          WordsOf,     \* WordsOf[o]: the words that o's label contains
          Queries,      \* what a user may type: sets of words
          MaxEvents     \* bound: browser events and changes of the props

ASSUME OptionsAssumption == Options \in Seq(Range(Options)) \ {<<>>}

VARIABLES open, query, active,
          select,       \* the props: [value, disabled]
          drawn,        \* the last render
          focus,        \* "trigger", "search" or "elsewhere"
          homing,       \* a task of return_focus is still to run
          pressed,      \* the press of the trigger under way, if any
          reported,     \* the values onchange was called with
          events

selectVars == <<open, query, active, select, drawn, focus, homing, pressed, reported, events>>

-----------------------------------------------------------------------------

\* command_matches: every word of the query is in the label.
CommandMatches(o, words) == words \subseteq WordsOf[o]

Visible(words) ==
    LET shown[n \in 0..Len(Options)] ==
            IF n = 0 THEN <<>>
            ELSE IF CommandMatches(Options[n], words) THEN Append(shown[n - 1], Options[n])
            ELSE shown[n - 1]
    IN  shown[Len(Options)]

\* Signals count from 0, sequences from 1.
Clamp(index, count) == IF index < count THEN index ELSE IF count = 0 THEN 0 ELSE count - 1

\* command_step: wraps at both ends; the caller has checked count # 0.
CommandStep(current, count, previous) ==
    LET from == Clamp(current, count)
    IN  IF previous THEN (from + count - 1) % count ELSE (from + 1) % count

PositionOf(value) ==
    IF value \in ToSet(Options) THEN SelectInSeq(Options, LAMBDA o : o = value) - 1 ELSE 0

Drawing == [visible  |-> Visible(query),
            current  |-> Clamp(active, Len(Visible(query))),
            value    |-> select.value,
            expanded |-> open /\ ~select.disabled,
            disabled |-> select.disabled]

NotPressed == [under |-> FALSE, was |-> FALSE, excused |-> FALSE]

SelectInit ==
    /\ open = FALSE /\ query = {} /\ active = 0
    /\ select = [value |-> Head(Options), disabled |-> FALSE]
    /\ drawn = Drawing
    /\ focus = "elsewhere" /\ homing = FALSE
    /\ pressed = NotPressed
    /\ reported = <<>>
    /\ events = 0

Event == events < MaxEvents /\ events' = events + 1

\* Vdom render: what was written is drawn; a popup that goes takes the focus with it.
Render ==
    /\ drawn # Drawing
    /\ drawn' = Drawing
    /\ focus' = IF focus = "search" /\ ~Drawing.expanded THEN "elsewhere" ELSE focus
    /\ UNCHANGED <<open, query, active, select, homing, pressed, reported, events>>

\* The search box asks for the focus when it is mounted.
SearchTakesFocus ==
    /\ drawn.expanded /\ focus # "search"
    /\ focus' = "search"
    /\ UNCHANGED <<open, query, active, select, drawn, homing, pressed, reported, events>>

\* return_focus: leaving the search box blurs it, and its onblur closes the popup.
FocusReturns ==
    /\ homing
    /\ homing' = FALSE
    /\ focus' = IF drawn.disabled THEN focus ELSE "trigger"
    /\ open' = IF focus = "search" /\ focus' = "trigger" THEN FALSE ELSE open
    /\ UNCHANGED <<query, active, select, drawn, pressed, reported, events>>

\* A defect: the press of the trigger is left to the browser, whose blur closes the popup.
UnpreventedPressTrigger ==
    /\ Event /\ ~drawn.disabled /\ ~pressed.under
    /\ pressed' = [under |-> TRUE, was |-> open, excused |-> homing]
    /\ focus' = "trigger"
    /\ open' = IF focus = "search" THEN FALSE ELSE open
    /\ UNCHANGED <<query, active, select, drawn, homing, reported>>

\* onpointerdown of the trigger: while open the browser's default (to move the
\* focus, hence to blur the search box) is prevented.
PressTrigger ==
    /\ Event /\ ~drawn.disabled /\ ~pressed.under
    /\ pressed' = [under |-> TRUE, was |-> open, excused |-> homing]
    /\ focus' = IF open THEN focus ELSE "trigger"
    /\ UNCHANGED <<open, query, active, select, drawn, homing, reported>>

\* The end of a press, or a key on the focused trigger.
ClickTrigger ==
    /\ Event /\ ~drawn.disabled /\ (pressed.under \/ focus = "trigger")
    /\ pressed' = NotPressed
    /\ query' = {}
    /\ active' = PositionOf(drawn.value)
    /\ open' = ~open
    /\ homing' = (homing \/ open)
    /\ UNCHANGED <<select, drawn, focus, reported>>

\* A key may come while the trigger is held, or after it was let go somewhere else; a key
\* that turns the popup over under a press excuses what the click makes of it.
HoldPress(turning) ==
    pressed' \in {NotPressed,
                 IF turning /\ pressed.under THEN [pressed EXCEPT !.excused = TRUE] ELSE pressed}

ArrowOnTrigger(previous) ==
    /\ Event /\ ~drawn.disabled /\ focus = "trigger"
    /\ HoldPress(TRUE)
    /\ query' = {}
    /\ active' = IF previous THEN Len(Options) - 1 ELSE 0
    /\ open' = TRUE
    /\ UNCHANGED <<select, drawn, focus, homing, reported>>

Searching == Event /\ drawn.expanded /\ focus = "search"

Type(words) ==
    /\ Searching /\ HoldPress(FALSE)
    /\ query' = words /\ active' = 0
    /\ UNCHANGED <<open, select, drawn, focus, homing, reported>>

\* onblur: the user tabs away, to the trigger or past it, or presses outside.
LeaveSearch ==
    /\ Searching /\ HoldPress(TRUE)
    /\ open' = FALSE /\ focus' \in {"elsewhere", "trigger"}
    /\ UNCHANGED <<query, active, select, drawn, homing, reported>>

StepHighlight(previous) ==
    /\ Searching /\ HoldPress(FALSE) /\ drawn.visible # <<>>
    /\ active' = CommandStep(drawn.current, Len(drawn.visible), previous)
    /\ UNCHANGED <<open, query, select, drawn, focus, homing, reported>>

HomeOrEnd(home) ==
    /\ Searching /\ HoldPress(FALSE) /\ drawn.visible # <<>>
    /\ active' = IF home THEN 0 ELSE Len(drawn.visible) - 1
    /\ UNCHANGED <<open, query, select, drawn, focus, homing, reported>>

\* Both ways to choose: close, send the focus home, report a value that is new.
Choose(value) ==
    /\ open' = FALSE
    /\ homing' = TRUE
    /\ reported' = IF value = drawn.value THEN reported ELSE Append(reported, value)
    /\ UNCHANGED <<query, active, select, drawn, focus>>

Enter ==
    /\ Searching /\ HoldPress(TRUE) /\ drawn.visible # <<>>
    /\ Choose(drawn.visible[drawn.current + 1])

Escape ==
    /\ Searching /\ HoldPress(TRUE)
    /\ open' = FALSE /\ homing' = TRUE
    /\ UNCHANGED <<query, active, select, drawn, focus, reported>>

\* onpointerdown of an option prevents the blur; the click chooses.
ClickOption(i) ==
    /\ Event /\ drawn.expanded /\ i \in DOMAIN drawn.visible
    /\ pressed' = NotPressed
    /\ Choose(drawn.visible[i])

Hover(i) ==
    /\ Event /\ drawn.expanded /\ i \in DOMAIN drawn.visible
    /\ active' = i - 1
    /\ UNCHANGED <<open, query, select, drawn, focus, homing, pressed, reported>>

\* The parent takes over the last reported value, or disables the control.
ParentFollows ==
    /\ reported # <<>> /\ select.value # Last(reported)
    /\ select' = [select EXCEPT !.value = Last(reported)]
    /\ UNCHANGED <<open, query, active, drawn, focus, homing, pressed, reported, events>>

ParentToggles ==
    /\ Event
    /\ select' = [select EXCEPT !.disabled = ~@]
    /\ pressed' = NotPressed
    /\ UNCHANGED <<open, query, active, drawn, focus, homing, reported>>

SelectNext ==
    \/ Render \/ SearchTakesFocus \/ FocusReturns
    \/ PressTrigger \/ ClickTrigger
    \/ \E previous \in BOOLEAN : ArrowOnTrigger(previous) \/ StepHighlight(previous)
    \/ \E words \in Queries : Type(words)
    \/ LeaveSearch \/ Enter \/ Escape
    \/ \E home \in BOOLEAN : HomeOrEnd(home)
    \/ \E i \in 1..Len(Options) : ClickOption(i) \/ Hover(i)
    \/ ParentFollows \/ ParentToggles

SelectSpec == SelectInit /\ [][SelectNext]_selectVars

-----------------------------------------------------------------------------

\* What is reported is what the screen showed: a value of the drawn list other
\* than the drawn selection, and the popup closes with it.
ReportsTheDrawn ==
    reported' # reported =>
        /\ drawn.expanded /\ ~open'
        /\ Last(reported') \in ToSet(drawn.visible) \ {drawn.value}

\* The highlighted option is one of those drawn, however the list shrank.
OneHighlight ==
    drawn.visible # <<>> => drawn.current < Len(drawn.visible)

\* A press of the trigger and its click turn the popup over once: while the press
\* is under way nothing closes an open popup under it (its own blur would, and
\* the click would open it again), unless a focus task was left over before it or
\* the user's own key does.
PressTogglesOnce ==
    pressed.under /\ ~pressed.excused => open = pressed.was
=============================================================================
