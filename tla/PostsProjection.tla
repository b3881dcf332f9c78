--------------------------- MODULE PostsProjection ---------------------------
(***************************************************************************)
(* The posts_v1 projection: the worker that folds content.post.* events    *)
(* into the list GET /posts serves, the durable state it keeps in Core and *)
(* what a crash and a restart of the API process do to it.                 *)
(*                                                                         *)
(* Durable, in Core: the event store, the cursor of the consumer and the   *)
(* projection KV.  In process memory: the map of live posts, the stream    *)
(* position and the snapshot being pushed.  Booting is four steps of       *)
(* start_posts_worker -- read the KV, attach the stream, merge what was    *)
(* read -- and the stream is already being folded when the merge happens.  *)
(*                                                                         *)
(* The SDK's worker is external.  What is assumed of it is what the code's *)
(* comments say: it starts from the server-side cursor with an empty       *)
(* state, delivers the events in order, pushes a snapshot of every entity  *)
(* after FlushEvery events and moves the cursor after AckEvery, finishing  *)
(* a push that is due before the cursor moves.                             *)
(***************************************************************************)
EXTENDS PostHistory

CONSTANTS FlushEvery,    \* state_flush_every(25)
          AckEvery,      \* checkpoint_interval(100)
          MaxLog,        \* bound: events ever appended
          MaxCrashes     \* bound: process crashes

ASSUME FlushAssumption == FlushEvery \in Nat \ {0}
ASSUME AckAssumption ==
    AckEvery \in Nat \ {0} /\ \E m \in 1..AckEvery : AckEvery = m * FlushEvery
ASSUME BoundsAssumption == MaxLog \in Nat /\ MaxCrashes \in Nat

VARIABLES
    log,         \* Core: the content.post.* events, oldest first
    cursor,      \* Core: events acknowledged by the durable consumer
    kv,          \* Core: the projection KV, post -> view last pushed
    phase,       \* the API process
    seed,        \* what hydration read from the KV
    cold,        \* hydration failed: this process started without the KV
    state,       \* the worker's map of live posts
    base,        \* the cursor this process's stream started from
    pos,         \* events folded, counted from the start of the store
    sinceFlush,  \* events folded since the last push began
    outbox,      \* the snapshot still to be pushed
    crashes

core == <<log, cursor, kv>>
worker == <<state, base, pos, sinceFlush, outbox>>
vars == <<log, cursor, kv, phase, seed, cold, state, base, pos, sinceFlush,
          outbox, crashes>>

Empty == [p \in Posts |-> NoView]

Running == phase \in {"seeding", "serving"}
FlushDue == sinceFlush = FlushEvery
AckDue == pos - cursor >= AckEvery
Flushing == outbox # Empty

Init ==
    /\ log = <<>> /\ cursor = 0 /\ kv = Empty
    /\ phase = "down" /\ seed = Empty /\ cold = FALSE
    /\ state = Empty /\ base = 0 /\ pos = 0 /\ sinceFlush = 0
    /\ outbox = Empty /\ crashes = 0

-----------------------------------------------------------------------------
(* Defects a change to the code could introduce, for the runs' mutants.    *)

FoldNextUngated ==
    /\ Running /\ ~Flushing /\ pos < Len(log)
    /\ state' = ApplyPostEvent(state, log[pos + 1])
    /\ pos' = pos + 1
    /\ sinceFlush' = sinceFlush + 1
    /\ UNCHANGED <<core, phase, seed, cold, base, outbox, crashes>>

(* Acknowledging by time or by batch rather than after a complete push.    *)
AckEarly ==
    /\ Running /\ cursor < pos
    /\ cursor' = pos
    /\ UNCHANGED <<log, kv, phase, seed, cold, worker, crashes>>

(* Serving the list without merging what was hydrated.                     *)
SeedForgotten ==
    /\ phase = "seeding"
    /\ phase' = "serving"
    /\ UNCHANGED <<core, seed, cold, worker, crashes>>

(* insert instead of or_insert: the snapshot wins over what was folded.    *)
SeedOverwrites ==
    /\ phase = "seeding"
    /\ phase' = "serving"
    /\ state' = [p \in Posts |-> IF seed[p] # NoView THEN seed[p] ELSE state[p]]
    /\ UNCHANGED <<core, seed, cold, base, pos, sinceFlush, outbox, crashes>>

(* Every push starts another one.                                          *)
BeginFlushAgain ==
    /\ Running /\ ~Flushing /\ sinceFlush = FlushEvery
    /\ outbox' = state
    /\ UNCHANGED <<core, phase, seed, cold, state, base, pos, sinceFlush, crashes>>

-----------------------------------------------------------------------------
(* The writers: any API process appending through EventWriter.             *)

Existing(p) == \E i \in 1..Len(log) : IsCreation(log[i], p)

AppendEvent(type, p, sets) ==
    /\ Len(log) < MaxLog
    /\ \E t \in Times :
          log' = Append(log, [type |-> type, post |-> p, sets |-> sets,
                              ver |-> Len(log) + 1, at |-> t])
    /\ UNCHANGED <<cursor, kv, phase, seed, cold, worker, crashes>>

(* A post's id is minted by the handler: its stream is created once.       *)
CreatePost(p) == ~Existing(p) /\ AppendEvent("created", p, Fields)

(* The handler saw the post when it loaded it; by the time it appends,     *)
(* another request may have deleted it.                                    *)
EditPost(p) ==
    /\ Existing(p)
    /\ \E sets \in (SUBSET Fields) \ {{}} : AppendEvent("edited", p, sets)

DeletePost(p) == Existing(p) /\ AppendEvent("deleted", p, {})

-----------------------------------------------------------------------------
(* Booting: start_posts_worker.                                            *)

Hydrate ==
    /\ phase = "down"
    /\ phase' = "hydrated"
    /\ \/ seed' = kv /\ cold' = FALSE
       \/ seed' = Empty /\ cold' = TRUE       \* the error is swallowed
    /\ UNCHANGED <<core, worker, crashes>>

StartWorker ==
    /\ phase = "hydrated"
    /\ phase' = "seeding"
    /\ state' = Empty /\ base' = cursor /\ pos' = cursor
    /\ sinceFlush' = 0 /\ outbox' = Empty
    /\ UNCHANGED <<core, seed, cold, crashes>>

(* The consumer could not be registered: build_state goes on without a     *)
(* handle, for the life of the process.                                    *)
StartFails ==
    /\ phase = "hydrated"
    /\ phase' = "noworker"
    /\ UNCHANGED <<core, seed, cold, worker, crashes>>

Seed ==
    /\ phase = "seeding"
    /\ phase' = "serving"
    /\ state' = [p \in Posts |-> IF state[p] # NoView THEN state[p] ELSE seed[p]]
    /\ UNCHANGED <<core, seed, cold, base, pos, sinceFlush, outbox, crashes>>

-----------------------------------------------------------------------------
(* The worker's task.                                                      *)

FoldNext ==
    /\ Running /\ ~Flushing /\ ~FlushDue /\ ~AckDue
    /\ pos < Len(log)
    /\ state' = ApplyPostEvent(state, log[pos + 1])
    /\ pos' = pos + 1
    /\ sinceFlush' = sinceFlush + 1
    /\ UNCHANGED <<core, phase, seed, cold, base, outbox, crashes>>

(* flush_entities: only the posts now in the map are pushed.               *)
BeginFlush ==
    /\ Running /\ ~Flushing /\ FlushDue
    /\ outbox' = state
    /\ sinceFlush' = 0
    /\ UNCHANGED <<core, phase, seed, cold, state, base, pos, crashes>>

PutEntity(p) ==
    /\ Running /\ outbox[p] # NoView
    /\ kv' = [kv EXCEPT ![p] = outbox[p]]
    /\ outbox' = [outbox EXCEPT ![p] = NoView]
    /\ UNCHANGED <<log, cursor, phase, seed, cold, state, base, pos,
                   sinceFlush, crashes>>

Ack ==
    /\ Running /\ ~Flushing /\ ~FlushDue /\ AckDue
    /\ cursor' = pos
    /\ UNCHANGED <<log, kv, phase, seed, cold, worker, crashes>>

-----------------------------------------------------------------------------
Crash ==
    /\ phase # "down"
    /\ crashes < MaxCrashes
    /\ crashes' = crashes + 1
    /\ phase' = "down" /\ seed' = Empty /\ cold' = FALSE
    /\ state' = Empty /\ base' = 0 /\ pos' = 0 /\ sinceFlush' = 0
    /\ outbox' = Empty
    /\ UNCHANGED core

Writer(p) == CreatePost(p) \/ EditPost(p) \/ DeletePost(p)
Boot == Hydrate \/ StartWorker \/ StartFails \/ Seed
Push == BeginFlush \/ \E p \in Posts : PutEntity(p)

Next ==
    \/ \E p \in Posts : CreatePost(p) \/ EditPost(p) \/ DeletePost(p)
    \/ Hydrate \/ StartWorker \/ StartFails \/ Seed
    \/ FoldNext \/ BeginFlush \/ (\E p \in Posts : PutEntity(p)) \/ Ack
    \/ Crash

Spec == Init /\ [][Next]_vars

(* The runtime schedules the process's tasks; nobody has to write, and a   *)
(* crash never has to happen.                                              *)
FairSpec == Spec /\ WF_vars(Boot) /\ WF_vars(FoldNext) /\ WF_vars(Push) /\ WF_vars(Ack)

-----------------------------------------------------------------------------
(* Properties.                                                             *)

Model == INSTANCE ReadModel
            WITH pos <- IF phase = "serving" THEN pos ELSE 0,
                 list <- IF phase = "serving" THEN state ELSE Empty,
                 life <- crashes

(* Every variable ranges over its type; the stream position, the cursor    *)
(* and the store are in order while a worker runs.                         *)
TypeOK ==
    /\ log \in Seq(Event) /\ Len(log) <= MaxLog
    /\ cursor \in 0..Len(log)
    /\ kv \in [Posts -> View] /\ seed \in [Posts -> View]
    /\ state \in [Posts -> View] /\ outbox \in [Posts -> View]
    /\ phase \in {"down", "hydrated", "seeding", "serving", "noworker"}
    /\ cold \in BOOLEAN
    /\ base \in 0..Len(log) /\ pos \in 0..Len(log)
    /\ Running => base <= cursor /\ cursor <= pos
    /\ sinceFlush \in 0..FlushEvery
    /\ crashes \in 0..MaxCrashes

(* The cursor is a promise not to ask again: a post alive at the cursor    *)
(* has been pushed to the KV, or no later boot could ever list it          *)
(* (checkpoint_interval and state_flush_every in start_posts_worker).      *)
AckedPostsAreFlushed ==
    \A p \in Posts : LiveIn(log, p, cursor) => kv[p] # NoView

(* The restart bug start_posts_worker exists to avoid: once a process that *)
(* could hydrate serves the list, no post alive at the worker's position   *)
(* is missing from it, whatever was pushed, acknowledged or lost in the    *)
(* crash before.                                                           *)
NoLivePostMissing ==
    phase = "serving" /\ ~cold =>
        \A p \in Posts : LiveIn(log, p, pos) => state[p] # NoView

(* A post whose whole stream this process has replayed shows exactly its   *)
(* last writes, even when the KV it hydrated from held a view of it from   *)
(* another position: what was folded wins over the snapshot.               *)
ReplayedPostsAreExact ==
    Running =>
        \A p \in Posts :
            /\ LiveIn(log, p, pos)
            /\ \E i \in (base + 1)..pos : IsCreation(log[i], p)
            => ShowsIn(log, p, pos, state[p])

(* A post leaves the list of a running worker only because the worker      *)
(* folded its deletion: no push, merge or acknowledgement drops one.       *)
OnlyDeletesUnlist ==
    [][\A p \in Posts :
          Running /\ Running' /\ state[p] # NoView /\ state'[p] = NoView
          => pos' = pos + 1 /\ IsDeletion(log[pos'], p)]_vars

(* Until a first crash the list GET /posts serves is the fold of the       *)
(* store's history, as the abstract read model promises.                   *)
FirstLifeIsExact == Model!Spec

(* Once the writers and the crashes stop, a booted worker folds everything:*)
(* no push or acknowledgement it waits for is left undone.                 *)
CatchesUp ==
    <>[](phase = "noworker" \/ (phase = "serving" /\ pos = Len(log)))

(* workers.rs:124-126, of hydrating and replaying from the cursor:         *)
(* "Overlap is harmless; the gap is closed" -- so a worker that has folded *)
(* everything does not list a post whose stream says it was deleted.       *)
DeletedPostsStayGone ==
    phase = "serving" /\ pos = Len(log) =>
        \A p \in Posts : ~LiveIn(log, p, pos) => state[p] = NoView

(* workers.rs:176-177, of the merge: "anything the worker has already      *)
(* folded since the cursor is newer than the flushed snapshot and must     *)
(* win" -- so the title a post shows is no older than one this process     *)
(* has folded.                                                             *)
FoldedSinceTheCursorWins ==
    phase = "serving" /\ ~cold =>
        \A p \in Posts : \A i \in (base + 1)..pos :
            LiveIn(log, p, pos) /\ Writes(log[i], p, "title") => state[p].title >= i

-----------------------------------------------------------------------------
(* The inductive invariant behind the theorems: why a crash at any step    *)
(* leaves the KV and the cursor in a state a later boot recovers from.     *)

(* A stream is created once, before anything else happens in it, and the   *)
(* payload of each kind of event carries the fields the handlers put there.*)
StoreInOrder ==
    /\ \A i \in 1..Len(log) :
          /\ log[i].ver = i
          /\ log[i].type \in {"created", "edited", "deleted"}
          /\ log[i].type = "created" => log[i].sets = Fields
          /\ log[i].type = "edited" => log[i].sets # {}
          /\ log[i].type = "deleted" => log[i].sets = {}
          /\ log[i].type # "created" => \E j \in 1..(i - 1) : IsCreation(log[j], log[i].post)
    /\ \A p \in Posts : \A i, j \in 1..Len(log) :
          IsCreation(log[i], p) /\ IsCreation(log[j], p) => i = j

(* A checkpoint is due after a whole number of pushes.                     *)
CursorOnAPush ==
    Running => /\ pos - cursor <= AckEvery
               /\ \E k \in Nat : pos - cursor = k * FlushEvery + sinceFlush

(* Nothing alive is only in memory for longer than one interval: it is in  *)
(* the KV, or in the map and so in the next push, or in the push under way.*)
NothingForgotten ==
    Running => \A p \in Posts :
        /\ LiveIn(log, p, pos) => kv[p] # NoView \/ state[p] # NoView
        /\ LiveIn(log, p, pos - sinceFlush) => kv[p] # NoView \/ outbox[p] # NoView

(* Between its read of the KV and the merge, a warm boot holds every post  *)
(* that was alive at its cursor.                                           *)
SeedSuffices ==
    ~cold => \A p \in Posts :
        /\ phase = "hydrated" /\ LiveIn(log, p, cursor) => seed[p] # NoView
        /\ phase = "seeding" /\ LiveIn(log, p, pos) => state[p] # NoView \/ seed[p] # NoView

IInv ==
    /\ TypeOK /\ StoreInOrder /\ CursorOnAPush
    /\ AckedPostsAreFlushed /\ NothingForgotten
    /\ SeedSuffices /\ NoLivePostMissing
    /\ ReplayedPostsAreExact

=============================================================================
