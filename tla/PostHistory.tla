----------------------------- MODULE PostHistory -----------------------------
(***************************************************************************)
(* What a history of post events means, said without folding: a post is    *)
(* there from its creation to its deletion, and a field shows the last     *)
(* event that carried it.  This is what folds and projections are measured *)
(* against.                                                                *)
(***************************************************************************)
EXTENDS PostFolds

IsCreation(e, p) == e.type = "created" /\ e.post = p
IsDeletion(e, p) == e.type = "deleted" /\ e.post = p

Writes(e, p, f) == e.post = p /\ f \in e.sets
Touches(e, p) == e.post = p /\ e.sets # {}

(* After the first n events of h the post exists.                          *)
LiveIn(h, p, n) ==
    /\ \E i \in 1..n : IsCreation(h[i], p)
    /\ \A i \in 1..n : ~IsDeletion(h[i], p)

(* v is the version of the last of the first n events to write field f.    *)
LastWrite(h, p, f, v, n) ==
    /\ v \in 1..n
    /\ Writes(h[v], p, f)
    /\ \A i \in (v + 1)..n : ~Writes(h[i], p, f)

(* view shows post p as the first n events of h left it.                   *)
ShowsIn(h, p, n, view) ==
    /\ LastWrite(h, p, "title", view.title, n)
    /\ LastWrite(h, p, "content", view.content, n)
    /\ \E i \in 1..n : Touches(h[i], p) /\ h[i].at = view.updated
    /\ \A i \in 1..n : Touches(h[i], p) => h[i].at <= view.updated

=============================================================================
