----------------------------- MODULE PostFolds -----------------------------
(***************************************************************************)
(* What one content.post.* event does to a post: PostFolder (folders.rs),  *)
(* the seeded reducer the projection worker runs over the whole collection *)
(* (workers.rs) and the fold-on-read of one stream (tenant_query.rs).      *)
(*                                                                         *)
(* The text of a post is abstracted to its provenance: a field holds the   *)
(* version of the event that wrote it, so two views are equal exactly when *)
(* they show the same writes.  Version 0 is never written: a view whose    *)
(* fields are 0 is the code's None.                                        *)
(***************************************************************************)
EXTENDS Naturals, SequencesExt

CONSTANTS Posts,      \* ids of posts
          Times       \* the instants a handler's clock may read

ASSUME TimesAssumption == Times \subseteq Nat /\ Times # {}

Fields == {"title", "content"}

View == [title : Nat, content : Nat, updated : Nat]

NoView == [title |-> 0, content |-> 0, updated |-> 0]

(***************************************************************************)
(* ver is the event's position in the store, sets the fields its payload   *)
(* carries, at its occurred_at.                                            *)
(***************************************************************************)
Event == [type : {"created", "edited", "deleted", "undecodable"},
          post : Posts, sets : SUBSET Fields, ver : Nat \ {0}, at : Times]

LaterAssigned(s, t) == t    \* a defect: assigned, not kept at its maximum

(* An out-of-order replay must not move the instant of the last change     *)
(* backwards: the later of the two is kept.                                *)
Later(s, t) == IF s >= t THEN s ELSE t

Patch(v, e) ==
    [title   |-> IF "title" \in e.sets THEN e.ver ELSE v.title,
     content |-> IF "content" \in e.sets THEN e.ver ELSE v.content,
     updated |-> Later(v.updated, e.at)]

Fresh(e) == [title |-> e.ver, content |-> e.ver, updated |-> e.at]

(***************************************************************************)
(* The folder: what is known of the post, and the latch a delete sets.     *)
(***************************************************************************)
EmptyFolder == [inner |-> NoView, deleted |-> FALSE]

SeededFolder(v) == [inner |-> v, deleted |-> FALSE]

Apply(folder, e) ==
    IF e.type = "created" THEN [folder EXCEPT !.inner = Fresh(e)]
    ELSE IF e.type = "edited" /\ folder.inner # NoView
         THEN [folder EXCEPT !.inner = Patch(folder.inner, e)]
    ELSE IF e.type = "deleted" THEN [folder EXCEPT !.deleted = TRUE]
    ELSE folder          \* undecodable, or an edit of an unknown post

FinalizeUnlatched(folder) == folder.inner    \* a defect: the latch is not read

Finalize(folder) == IF folder.deleted THEN NoView ELSE folder.inner

(***************************************************************************)
(* The two users of the folder.  The worker folds one event into its map   *)
(* of live posts; a read folds those events of a history that it was       *)
(* given, oldest event first.                                              *)
(***************************************************************************)
ApplyUnseeded(model, e) ==    \* a defect: every event starts a new folder
    [model EXCEPT ![e.post] = Finalize(Apply(EmptyFolder, e))]

ApplyPostEvent(model, e) ==
    [model EXCEPT ![e.post] = Finalize(Apply(SeededFolder(@), e))]

Folded(h, given) ==
    LET folder[n \in Nat] ==
            IF n = 0 THEN EmptyFolder
            ELSE IF n \in given THEN Apply(folder[n - 1], h[n]) ELSE folder[n - 1]
    IN  folder

FoldEvents(h, given) == Finalize(Folded(h, given)[Len(h)])

=============================================================================
