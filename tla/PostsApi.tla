------------------------------ MODULE PostsApi ------------------------------
(***************************************************************************)
(* The post handlers of the API (handlers/posts.rs): each request reads    *)
(* the post by folding its stream, authorizes, appends one event without   *)
(* an expected version, and folds the stream again for its answer.  The    *)
(* requests interleave at every await; any call to Core may fail, and an   *)
(* append may be stored and its answer lost.  A request whose client goes  *)
(* away, or whose process dies, leaves Core as a failed call would: it is  *)
(* not distinguished from one that is answered an error.                   *)
(*                                                                         *)
(* A post is named after the request that mints its id.  An event's actor  *)
(* is who sent the request; the code keeps it as author_id in created and  *)
(* nowhere in the other events.                                            *)
(***************************************************************************)
EXTENDS PostHistory

CONSTANTS Requests,       \* those in Posts may create, and mint their own name
          Actors,         \* authenticated users
          Nobody,         \* the author of a post that does not exist
          ReadLimit,      \* how many events a read of one stream asks for
          ScanLimit,      \* FALLBACK_SCAN_LIMIT
          QueryAddsTenant \* the query URL is a gateway, not Core itself

ASSUME RequestsAssumption == Posts \subseteq Requests /\ Posts # {}
ASSUME LimitsAssumption == ReadLimit \in Nat /\ ScanLimit \in Nat
ASSUME TenantAssumption == QueryAddsTenant \in BOOLEAN
ASSUME ActorsAssumption == Actors # {} /\ Nobody \notin Actors

VARIABLES
    log,       \* Core: the content.post.* events, oldest first
    call,      \* request -> operation, actor and post
    pc,        \* request -> where its handler is
    view,      \* request -> the post it loaded, then the one it answered
    listed,    \* request -> the posts it answered
    answer,    \* request -> status code
    tracked,   \* analytics: posts whose post_published was tracked
    own,       \* history: request -> positions of the events it appended
    gone,      \* history: request -> posts answered 204 before it arrived
    there      \* history: request -> posts alive when it arrived

handler == <<call, listed, gone, there>>
vars == <<log, call, pc, view, listed, answer, tracked, own, gone, there>>

StoreEvent ==
    [type : {"created", "edited", "deleted"}, post : Posts, actor : Actors,
     sets : SUBSET Fields, ver : Nat, at : Times]

Ops == {"create", "get", "update", "delete", "list"}

Unread == [op |-> "get", actor |-> Nobody, post |-> CHOOSE p \in Posts : TRUE]

Init ==
    /\ log = <<>> /\ tracked = {}
    /\ call = [r \in Requests |-> Unread]
    /\ pc = [r \in Requests |-> "idle"]
    /\ view = [r \in Requests |-> NoView]
    /\ listed = [r \in Requests |-> {}]
    /\ answer = [r \in Requests |-> "none"]
    /\ own = [r \in Requests |-> {}]
    /\ gone = [r \in Requests |-> {}]
    /\ there = [r \in Requests |-> {}]

-----------------------------------------------------------------------------
(* Reads of Core.                                                          *)

StreamOf(p) == {i \in DOMAIN log : log[i].post = p}
Oldest(positions, n) == {i \in positions : Cardinality({j \in positions : j <= i}) <= n}

(* fold_entity sends the tenant itself; Core answers oldest first.         *)
Load(p) == FoldEvents(log, Oldest(StreamOf(p), ReadLimit))

(* author_id of the view: who sent the creation.                           *)
AuthorOf(p) ==
    IF \E i \in 1..Len(log) : IsCreation(log[i], p)
    THEN log[CHOOSE i \in 1..Len(log) : IsCreation(log[i], p)].actor
    ELSE Nobody

(* The SDK's query has no tenant to send: Core answers it with no events.  *)
Scanned == IF QueryAddsTenant THEN Oldest(DOMAIN log, ScanLimit) ELSE {}

FoldAnyPost == {p \in Posts : StreamOf(p) \cap Scanned # {}}  \* a defect: not folded

FoldAllPosts == {p \in Posts : FoldEvents(log, StreamOf(p) \cap Scanned) # NoView}

AnyoneMayEdit(actor, author) == TRUE    \* a defect: authenticated is enough

CanEditPost(actor, author) == actor = author

-----------------------------------------------------------------------------
(* The handlers, one action for each stretch between two awaits.           *)

Gone == {p \in Posts : \E r \in Requests :
            call[r].op = "delete" /\ call[r].post = p /\ answer[r] = "204"}
There == {p \in Posts : LiveIn(log, p, Len(log))}

Answer(r, a) ==
    /\ pc' = [pc EXCEPT ![r] = "answered"]
    /\ answer' = [answer EXCEPT ![r] = a]

(* The request arrives; create validates before any call to Core.          *)
Begin(r) ==
    /\ pc[r] = "idle"
    /\ \E op \in Ops, a \in Actors, p \in Posts :
          /\ (op = "create") <=> (p = r)
          /\ call' = [call EXCEPT ![r] = [op |-> op, actor |-> a, post |-> p]]
          /\ \/ /\ pc' = [pc EXCEPT ![r] = IF op = "create" THEN "append" ELSE "load"]
                /\ answer' = answer
             \/ op = "create" /\ Answer(r, "422")
    /\ gone' = [gone EXCEPT ![r] = Gone]
    /\ there' = [there EXCEPT ![r] = There]
    /\ UNCHANGED <<log, view, listed, tracked, own>>

(* load found the post: get answers it, update and delete authorize on it. *)
Loaded(r) ==
    /\ pc[r] = "load" /\ call[r].op # "list"
    /\ Load(call[r].post) # NoView
    /\ UNCHANGED <<log, handler, tracked, own>>

Keep(r, v) == view' = [view EXCEPT ![r] = v]

GetFound(r) ==
    Loaded(r) /\ call[r].op = "get" /\ Keep(r, Load(call[r].post)) /\ Answer(r, "200")

Forbid(r) ==
    /\ Loaded(r) /\ call[r].op \in {"update", "delete"}
    /\ ~CanEditPost(call[r].actor, AuthorOf(call[r].post))
    /\ Answer(r, "403") /\ UNCHANGED view

Permit(r) ==
    /\ Loaded(r) /\ call[r].op \in {"update", "delete"}
    /\ CanEditPost(call[r].actor, AuthorOf(call[r].post))
    /\ \/ /\ pc' = [pc EXCEPT ![r] = "append"] /\ answer' = answer
          /\ Keep(r, Load(call[r].post))
       \/ call[r].op = "update" /\ Answer(r, "422") /\ UNCHANGED view   \* post::edit

(* load answers an empty fold and an unreachable Core with the same error, *)
(* before the append and after it.                                         *)
NotFound(r) ==
    /\ pc[r] \in {"load", "readback"} /\ call[r].op # "list"
    /\ Answer(r, "404") /\ Keep(r, NoView)
    /\ UNCHANGED <<log, handler, tracked, own>>

(* EventWriter::append: no expected version, the event goes to the end.    *)
TypeOf(op) ==
    IF op = "create" THEN "created" ELSE IF op = "update" THEN "edited" ELSE "deleted"

SetsOf(op) ==
    IF op = "create" THEN {Fields}
    ELSE IF op = "update" THEN (SUBSET Fields) \ {{}} ELSE {{}}

Store(r) ==
    /\ pc[r] = "append"
    /\ \E sets \in SetsOf(call[r].op), t \in Times :
          log' = Append(log, [type |-> TypeOf(call[r].op), post |-> call[r].post,
                              actor |-> call[r].actor, sets |-> sets,
                              ver |-> Len(log) + 1, at |-> t])
    /\ own' = [own EXCEPT ![r] = @ \cup {Len(log) + 1}]
    /\ UNCHANGED <<handler, tracked>>

RetryAppend(r) == Store(r) /\ UNCHANGED <<pc, answer, view>>   \* a defect: tried again

AppendStored(r) ==
    /\ Store(r)
    /\ \/ call[r].op = "delete" /\ Answer(r, "204") /\ Keep(r, NoView)
       \/ /\ call[r].op # "delete" /\ UNCHANGED <<view, answer>>
          /\ pc' = [pc EXCEPT ![r] = "readback"]

AppendAnswerLost(r) == Store(r) /\ Answer(r, "502") /\ Keep(r, NoView)

AppendFails(r) ==
    /\ pc[r] = "append"
    /\ Answer(r, "502") /\ Keep(r, NoView)
    /\ UNCHANGED <<log, handler, tracked, own>>

(* A defect: the answer is what the handler loaded to authorize on.        *)
AnswerLoaded(r) ==
    /\ pc[r] = "readback"
    /\ Answer(r, IF call[r].op = "create" THEN "201" ELSE "200")
    /\ tracked' = IF call[r].op = "create" THEN tracked \cup {call[r].post} ELSE tracked
    /\ UNCHANGED <<log, handler, view, own>>

ReadBack(r) ==
    /\ pc[r] = "readback"
    /\ Load(call[r].post) # NoView
    /\ Keep(r, Load(call[r].post))
    /\ Answer(r, IF call[r].op = "create" THEN "201" ELSE "200")
    /\ tracked' = IF call[r].op = "create" THEN tracked \cup {call[r].post} ELSE tracked
    /\ UNCHANGED <<log, handler, own>>

(* GET /posts of a process without a worker.                               *)
ListFallback(r) ==
    /\ pc[r] = "load" /\ call[r].op = "list"
    /\ \/ listed' = [listed EXCEPT ![r] = FoldAllPosts] /\ Answer(r, "200")
       \/ listed' = listed /\ Answer(r, "502")
    /\ UNCHANGED <<log, call, view, tracked, own, gone, there>>

Next ==
    \E r \in Requests :
        \/ Begin(r) \/ GetFound(r) \/ Forbid(r) \/ Permit(r) \/ NotFound(r)
        \/ AppendStored(r) \/ AppendAnswerLost(r) \/ AppendFails(r)
        \/ ReadBack(r) \/ ListFallback(r)

Spec == Init /\ [][Next]_vars

-----------------------------------------------------------------------------
(* Properties.                                                             *)

(* R4: whatever interleaves between the read a handler authorizes on and   *)
(* its append, only a post's author has ever changed or deleted it.        *)
OnlyAuthorsWrite ==
    \A p \in Posts : \A i \in 1..Len(log) :
        log[i].post = p => log[i].actor = AuthorOf(p)

(* A request appends at most one event; a success says it did, a refusal   *)
(* that it did not, and a publication is tracked when it was answered.     *)
AnswersMatchTheStore ==
    \A r \in Requests :
        /\ \A i, j \in own[r] : i = j
        /\ answer[r] \in {"201", "204"} \/ (answer[r] = "200" /\ call[r].op = "update")
           => own[r] # {}
        /\ answer[r] \in {"403", "422"} => own[r] = {}
        /\ r \in tracked <=> answer[r] = "201"

Fits(p) == Cardinality(StreamOf(p)) <= ReadLimit

(* The read-back after an append is there to prove the write landed: the   *)
(* view a writer is answered shows its own write or a later one, while the *)
(* stream fits the limit a read asks for.                                  *)
WritersReadTheirWrite ==
    \A r \in Requests :
        answer[r] \in {"200", "201"} /\ Fits(call[r].post) =>
            \A i \in own[r] : \A f \in log[i].sets : view[r][f] >= i

(* A post answered 204 is gone for every request that arrives later, even  *)
(* if an edit authorized before the delete is appended after it.           *)
DeletedIsFinal ==
    \A r \in Requests :
        answer[r] = "200" /\ call[r].op # "list" /\ Fits(call[r].post) =>
            call[r].post \notin gone[r]

(* state.rs:55, of a boot without a worker: "GET /posts has a working      *)
(* fold-on-read fallback" -- so it lists the posts that were alive when    *)
(* the request arrived and still are, and none that were gone.             *)
FallbackListsThePosts ==
    \A r \in Requests :
        answer[r] = "200" /\ call[r].op = "list" /\ Len(log) <= ScanLimit =>
            /\ \A p \in there[r] : LiveIn(log, p, Len(log)) => p \in listed[r]
            /\ listed[r] \cap gone[r] = {}

-----------------------------------------------------------------------------
(* The inductive invariant behind the theorem.                             *)

StoreTyped ==
    /\ log \in Seq(StoreEvent)
    /\ call \in [Requests -> [op : Ops, actor : Actors \cup {Nobody}, post : Posts]]
    /\ pc \in [Requests -> {"idle", "load", "append", "readback", "answered"}]
    /\ \A r \in Requests : pc[r] # "idle" => call[r].actor \in Actors

(* Only the request that minted a post's id ever creates it, once: when it *)
(* reaches its append the stream has no creation, and it appends once.     *)
CreatedOnce ==
    /\ \A i \in 1..Len(log) :
          log[i].type = "created" => pc[log[i].post] \in {"readback", "answered"}
    /\ \A i, j \in 1..Len(log) :
          log[i].type = "created" /\ log[j].type = "created" /\ log[i].post = log[j].post
          => i = j
    /\ \A r \in Requests :
          pc[r] # "idle" /\ call[r].op = "create" => call[r].post = r

(* A handler about to change a post is still its author's: nobody else's   *)
(* append can have changed who that is since it was authorized.            *)
PermittedIsAuthor ==
    \A r \in Requests :
        pc[r] = "append" /\ call[r].op # "create" =>
            /\ call[r].op \in {"update", "delete"}
            /\ \E i \in 1..Len(log) : IsCreation(log[i], call[r].post)
            /\ call[r].actor = AuthorOf(call[r].post)

IInv == StoreTyped /\ CreatedOnce /\ PermittedIsAuthor /\ OnlyAuthorsWrite

=============================================================================
