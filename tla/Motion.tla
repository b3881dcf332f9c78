------------------------------- MODULE Motion -------------------------------
(***************************************************************************)
(* The two stateful toys of rv2-ui/src/motion.rs: the pull cord, dragged   *)
(* with a pointer or activated by a key, and the blob that runs out of     *)
(* patience.  Travel is counted in steps; the drawing is left out.         *)
(***************************************************************************)
EXTENDS Integers

CONSTANTS Actuation,    \* travel at which the cord actuates
          Travel,       \* how far the knob follows the pointer
          Patience,     \* pokes the blob tolerates
          MaxGestures   \* bound: presses, keys and pokes

\* A patience of 0 is one of 1: the first poke is already too many.
ASSUME MotionAssumption ==
    Actuation \in Nat \ {0} /\ Travel \in Nat /\ Patience \in Nat \ {0}

VARIABLES pull, dragging, fired, settling,
          onKnob,       \* the button holds a press: its release there is a click
          heard,        \* on_pull since the last press: [moves, clicks]
          pokes,        \* of each blob: TRUE has a handler of overpokes
          overpokes,    \* the calls of that handler
          poked,        \* ghost: the pokes the blob with the handler ever got
          gestures

motionVars == <<pull, dragging, fired, settling, onKnob, heard, pokes, overpokes, poked, gestures>>
blobVars == <<pokes, overpokes, poked>>
cordVars == <<pull, dragging, fired, settling, onKnob, heard>>

Quiet == [moves |-> 0, clicks |-> 0]

MotionInit ==
    /\ pull = 0 /\ dragging = FALSE /\ fired = FALSE /\ settling = FALSE
    /\ onKnob = FALSE /\ heard = Quiet
    /\ pokes = [handled \in BOOLEAN |-> 0]
    /\ overpokes = 0 /\ poked = 0
    /\ gestures = 0

Gesture == gestures < MaxGestures /\ gestures' = gestures + 1

\* onpointerdown of the knob (start).
Grab ==
    /\ Gesture /\ ~onKnob
    /\ dragging' = TRUE /\ settling' = FALSE /\ fired' = FALSE
    /\ onKnob' = TRUE
    /\ heard' = Quiet
    /\ UNCHANGED <<pull, blobVars>>

\* on_move, over the knob or over the rest of the cord.
Move(y) ==
    /\ dragging
    /\ pull' = IF y > Travel THEN Travel ELSE y
    /\ LET detent == pull' >= Actuation /\ ~fired IN
       /\ fired' = (fired \/ detent)
       /\ heard' = IF detent THEN [heard EXCEPT !.moves = @ + 1] ELSE heard
    /\ UNCHANGED <<dragging, settling, onKnob, blobVars, gestures>>

\* release: onpointerup and onpointerleave share it.
LetGo ==
    /\ dragging' = FALSE
    /\ pull' = IF dragging THEN 0 ELSE pull
    /\ settling' = (settling \/ dragging)

\* The pointer leaves the cord; the button still holds its press.
Leave ==
    /\ dragging
    /\ LetGo
    /\ UNCHANGED <<fired, onKnob, heard, blobVars, gestures>>

\* Up over the knob: the up bubbles to release, then the button is clicked.
ReleaseOnKnob ==
    /\ onKnob
    /\ LetGo
    /\ onKnob' = FALSE
    /\ heard' = [heard EXCEPT !.clicks = @ + 1]
    /\ UNCHANGED <<fired, blobVars, gestures>>

\* Up anywhere else: no click.
ReleaseOffKnob ==
    /\ onKnob
    /\ LetGo
    /\ onKnob' = FALSE
    /\ UNCHANGED <<fired, heard, blobVars, gestures>>

\* The keyboard's click, with no press of the pointer.
KeyOnKnob ==
    /\ Gesture /\ ~onKnob
    /\ heard' = [moves |-> 0, clicks |-> 1]
    /\ UNCHANGED <<pull, dragging, fired, settling, onKnob, blobVars>>

\* poke: the count starts over only where a handler was called.
Poke(handled) ==
    /\ Gesture
    /\ LET n == pokes[handled] + 1
           enough == n >= Patience /\ handled
       IN  /\ pokes' = [pokes EXCEPT ![handled] = IF enough THEN 0 ELSE n]
           /\ overpokes' = IF enough THEN overpokes + 1 ELSE overpokes
    /\ poked' = IF handled THEN poked + 1 ELSE poked
    /\ UNCHANGED cordVars

MotionNext ==
    \/ Grab \/ Leave \/ ReleaseOnKnob \/ ReleaseOffKnob \/ KeyOnKnob
    \/ \E y \in 0..Travel + 1 : Move(y)
    \/ \E handled \in BOOLEAN : Poke(handled)

MotionSpec == MotionInit /\ [][MotionNext]_motionVars

-----------------------------------------------------------------------------

\* However a drag wanders across the detent it actuates at most once by its movement,
\* and then on the way, not at the release; a click pulls once, and not before the drag
\* it ends is over.  A drag that is let go on the knob is both, and pulls twice.
CordPullsOncePerCause ==
    /\ heard.moves <= 1 /\ heard.clicks <= 1
    /\ heard.clicks = 1 => ~onKnob /\ ~dragging
    /\ heard.moves = 1 => fired
    /\ pull >= Actuation => fired /\ heard.moves = 1
    /\ ~dragging => pull = 0

\* motion.rs:435: `Latched so one drag fires once, however far past the detent it goes.'
OneDragFiresOnce == heard.moves + heard.clicks <= 1

\* The blob overflows once per Patience pokes, none lost and none counted twice.
BlobCountsEveryPoke ==
    poked = overpokes * Patience + pokes[TRUE]
=============================================================================
