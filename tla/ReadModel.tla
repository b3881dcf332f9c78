------------------------------ MODULE ReadModel ------------------------------
(***************************************************************************)
(* What a projection of the post streams promises: the list it shows is    *)
(* the store's history up to some position, the position only moves        *)
(* forward, and it never shows a post that history has not or no longer    *)
(* has.  The promise is about life 0: it ends with the first restart of    *)
(* what keeps the list.                                                    *)
(***************************************************************************)
EXTENDS PostHistory

VARIABLES log, pos, list, life

vars == <<log, pos, list, life>>

ListAt(n) ==
    \A p \in Posts : IF LiveIn(log, p, n) THEN ShowsIn(log, p, n, list[p])
                                         ELSE list[p] = NoView

Init == log = <<>> /\ pos = 0 /\ list = [p \in Posts |-> NoView] /\ life = 0

Write ==
    /\ Len(log') = Len(log) + 1
    /\ SubSeq(log', 1, Len(log)) = log
    /\ UNCHANGED <<pos, list>>

Advance ==
    /\ pos' \in pos..Len(log)
    /\ ListAt(pos)'
    /\ UNCHANGED log

Spec == Init /\ [][life' = 0 => Write \/ Advance]_vars

=============================================================================
