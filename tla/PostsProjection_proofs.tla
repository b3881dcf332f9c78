----------------------- MODULE PostsProjection_proofs -----------------------
(***************************************************************************)
(* Proofs about PostsProjection, for every set of posts, every clock,      *)
(* every pair of push and checkpoint intervals the assumptions allow and   *)
(* any number of events and crashes.                                       *)
(***************************************************************************)
EXTENDS PostsProjection, SequenceTheorems, TLAPS

USE TimesAssumption, FlushAssumption, BoundsAssumption

(***************************************************************************)
(* The folder returns views.                                               *)
(***************************************************************************)

(* Folding one event into the map keeps it a map of views.                 *)
LEMMA ApplyTyped ==
    ASSUME NEW m \in [Posts -> View], NEW e \in Event
    PROVE  ApplyPostEvent(m, e) \in [Posts -> View]
<1> DEFINE f == SeededFolder(m[e.post])
<1>1. e.post \in Posts /\ e.ver \in Nat /\ e.at \in Nat /\ m[e.post] \in View
    BY DEF Event
<1>2. NoView \in View /\ Fresh(e) \in View /\ Patch(m[e.post], e) \in View
    BY <1>1 DEF NoView, Fresh, Patch, View, Later
<1>3. f.inner = m[e.post] /\ f.deleted = FALSE /\ f = [inner |-> m[e.post], deleted |-> FALSE]
    BY DEF SeededFolder
<1>4. Finalize(Apply(f, e)) \in View
    BY <1>1, <1>2, <1>3 DEF Finalize, Apply
<1>5. QED
    BY <1>1, <1>4 DEF ApplyPostEvent
(* What folding one event does to each post of the map.                    *)
LEMMA ApplyCases ==
    ASSUME NEW m \in [Posts -> View], NEW e \in Event
    PROVE  LET r == ApplyPostEvent(m, e)
           IN  /\ \A p \in Posts : p # e.post => r[p] = m[p]
               /\ e.type = "created" => r[e.post] = Fresh(e)
               /\ e.type = "edited" /\ m[e.post] # NoView => r[e.post] = Patch(m[e.post], e)
               /\ e.type = "edited" /\ m[e.post] = NoView => r[e.post] = NoView
               /\ e.type = "deleted" => r[e.post] = NoView
<1> DEFINE v == m[e.post]
           f == [inner |-> v, deleted |-> FALSE]
           r == ApplyPostEvent(m, e)
<1>1. e.post \in Posts /\ SeededFolder(v) = f
    BY DEF Event, SeededFolder
<1>2. r = [m EXCEPT ![e.post] = Finalize(Apply(f, e))]
    BY <1>1 DEF ApplyPostEvent
<1>3. /\ \A p \in Posts : p # e.post => r[p] = m[p]
      /\ r[e.post] = Finalize(Apply(f, e))
    BY <1>1, <1>2
<1>4. e.type = "created" => Finalize(Apply(f, e)) = Fresh(e)
    BY DEF Apply, Finalize
<1>5. e.type = "edited" /\ v # NoView => Finalize(Apply(f, e)) = Patch(v, e)
    BY DEF Apply, Finalize
<1>6. e.type = "edited" /\ v = NoView => Finalize(Apply(f, e)) = NoView
    BY DEF Apply, Finalize
<1>7. e.type = "deleted" => Finalize(Apply(f, e)) = NoView
    BY DEF Apply, Finalize
<1>8. QED
    BY <1>3, <1>4, <1>5, <1>6, <1>7

(***************************************************************************)
(* Type correctness.                                                       *)
(***************************************************************************)

(* Appending an event of the right shape keeps the store a store.          *)
LEMMA AppendTyped ==
    ASSUME TypeOK, NEW type \in {"created", "edited", "deleted"},
           NEW p \in Posts, NEW sets \in SUBSET Fields,
           AppendEvent(type, p, sets)
    PROVE  TypeOK' /\ Len(log') = Len(log) + 1
<1>1. PICK t \in Times :
         log' = Append(log, [type |-> type, post |-> p, sets |-> sets,
                             ver |-> Len(log) + 1, at |-> t])
    BY DEF AppendEvent
<1> DEFINE e == [type |-> type, post |-> p, sets |-> sets,
                 ver |-> Len(log) + 1, at |-> t]
<1>2. log \in Seq(Event) /\ Len(log) \in Nat /\ Len(log) < MaxLog
    BY DEF TypeOK, AppendEvent
<1>3. e \in Event
    BY <1>2 DEF Event
<1>4. log' \in Seq(Event) /\ Len(log') = Len(log) + 1
    BY <1>1, <1>2, <1>3, AppendProperties
<1>5. UNCHANGED <<cursor, kv, phase, seed, cold, state, base, pos, sinceFlush,
                  outbox, crashes>>
    BY DEF AppendEvent, worker
<1>6. QED
    BY <1>2, <1>4, <1>5 DEF TypeOK, Running

LEMMA EmptyTyped == Empty \in [Posts -> View]
    BY DEF Empty, NoView, View

LEMMA TypeInit == Init => TypeOK
<1> SUFFICES ASSUME Init PROVE TypeOK
    OBVIOUS
<1>1. log \in Seq(Event) /\ Len(log) = 0
    BY DEF Init
<1>2. QED
    <2>1. log \in Seq(Event) /\ Len(log) <= MaxLog
        BY <1>1
    <2>2. /\ cursor \in 0..Len(log) /\ base \in 0..Len(log) /\ pos \in 0..Len(log)
          /\ sinceFlush \in 0..FlushEvery /\ crashes \in 0..MaxCrashes
        BY <1>1 DEF Init
    <2>3. /\ kv \in [Posts -> View] /\ seed \in [Posts -> View]
          /\ state \in [Posts -> View] /\ outbox \in [Posts -> View]
        BY EmptyTyped DEF Init
    <2>4. /\ phase \in {"down", "hydrated", "seeding", "serving", "noworker"}
          /\ cold \in BOOLEAN /\ ~Running
        BY DEF Init, Running
    <2>5. QED
        BY <2>1, <2>2, <2>3, <2>4 DEF TypeOK

(* Each step keeps the types.                                              *)
LEMMA TypeStep == TypeOK /\ [Next]_vars => TypeOK'
<1> SUFFICES ASSUME TypeOK, [Next]_vars PROVE TypeOK'
    OBVIOUS
<1> USE EmptyTyped
<1>0. Len(log) \in Nat
    BY DEF TypeOK
<1>1. ASSUME NEW p \in Posts, CreatePost(p) PROVE TypeOK'
    <2>1. Fields \in SUBSET Fields
        OBVIOUS
    <2>2. QED
        BY <1>1, <2>1, AppendTyped DEF CreatePost
<1>2. ASSUME NEW p \in Posts, EditPost(p) PROVE TypeOK'
    BY <1>2, AppendTyped DEF EditPost
<1>3. ASSUME NEW p \in Posts, DeletePost(p) PROVE TypeOK'
    <2>1. {} \in SUBSET Fields
        OBVIOUS
    <2>2. QED
        BY <1>3, <2>1, AppendTyped DEF DeletePost
<1>4. ASSUME Hydrate PROVE TypeOK'
    BY <1>4 DEF TypeOK, Hydrate, core, worker, Running
<1>5. ASSUME StartWorker PROVE TypeOK'
    BY <1>5, <1>0 DEF TypeOK, StartWorker, core, Running
<1>6. ASSUME StartFails PROVE TypeOK'
    BY <1>6 DEF TypeOK, StartFails, core, worker, Running
<1>7. ASSUME Seed PROVE TypeOK'
    BY <1>7 DEF TypeOK, Seed, core, Running
<1>8. ASSUME FoldNext PROVE TypeOK'
    <2>1. log[pos + 1] \in Event
        BY <1>8, <1>0 DEF TypeOK, FoldNext
    <2>2. state' \in [Posts -> View]
        BY <1>8, <2>1, ApplyTyped DEF TypeOK, FoldNext
    <2>3. QED
        BY <1>8, <1>0, <2>2 DEF TypeOK, FoldNext, core, Running, FlushDue
<1>9. ASSUME BeginFlush PROVE TypeOK'
    BY <1>9 DEF TypeOK, BeginFlush, core, Running
<1>10. ASSUME NEW p \in Posts, PutEntity(p) PROVE TypeOK'
    <2>1. NoView \in View
        BY DEF NoView, View
    <2>2. QED
        BY <1>10, <2>1 DEF TypeOK, PutEntity, Running
<1>11. ASSUME Ack PROVE TypeOK'
    BY <1>11, <1>0 DEF TypeOK, Ack, worker, Running
<1>12. ASSUME Crash PROVE TypeOK'
    <2>1. Len(log) \in Nat /\ UNCHANGED log /\ phase' = "down" /\ crashes' = crashes + 1
        BY <1>12, <1>0 DEF Crash, core
    <2>2. /\ base' \in 0..Len(log') /\ pos' \in 0..Len(log')
          /\ sinceFlush' \in 0..FlushEvery /\ crashes' \in 0..MaxCrashes
        BY <1>12, <2>1 DEF Crash, TypeOK
    <2>3. QED
        BY <1>12, <2>1, <2>2 DEF TypeOK, Crash, core, Running
<1>13. CASE UNCHANGED vars
    BY <1>13 DEF TypeOK, vars, Running
<1>14. QED
    BY <1>1, <1>2, <1>3, <1>4, <1>5, <1>6, <1>7, <1>8, <1>9, <1>10, <1>11,
       <1>12, <1>13 DEF Next

(* The types, and the order base <= cursor <= pos <= length of the store,  *)
(* hold in every reachable state.                                          *)
THEOREM TypeCorrect == Spec => []TypeOK
    BY TypeInit, TypeStep, PTL DEF Spec

(***************************************************************************)
(* Histories: what a longer history says of a post.                        *)
(***************************************************************************)

(* What the first n events say depends on nothing else.                    *)
LEMMA PrefixDecides ==
    ASSUME NEW h, NEW g, NEW n \in Nat, \A i \in 1..n : g[i] = h[i], NEW p
    PROVE  /\ LiveIn(g, p, n) <=> LiveIn(h, p, n)
           /\ \A v : ShowsIn(g, p, n, v) <=> ShowsIn(h, p, n, v)
<1>1. LiveIn(g, p, n) <=> LiveIn(h, p, n)
    BY DEF LiveIn
<1>2. ASSUME NEW f, NEW v
      PROVE  LastWrite(g, p, f, v, n) <=> LastWrite(h, p, f, v, n)
    BY DEF LastWrite
<1>3. ASSUME NEW v PROVE ShowsIn(g, p, n, v) <=> ShowsIn(h, p, n, v)
    BY <1>2 DEF ShowsIn
<1>4. QED
    BY <1>1, <1>3

(* A post alive after one more event was alive before it or is created by  *)
(* it, and that event does not delete it.                                  *)
LEMMA LiveStep ==
    ASSUME NEW h, NEW n \in Nat, NEW p, LiveIn(h, p, n + 1)
    PROVE  /\ LiveIn(h, p, n) \/ IsCreation(h[n + 1], p)
           /\ ~IsDeletion(h[n + 1], p)
    BY DEF LiveIn

(* An event of another stream changes nothing a post shows.                *)
LEMMA ShowsOther ==
    ASSUME NEW h, NEW n \in Nat, NEW p, NEW v, ShowsIn(h, p, n, v), h[n + 1].post # p
    PROVE  ShowsIn(h, p, n + 1, v)
<1>1. ASSUME NEW f, NEW w, LastWrite(h, p, f, w, n) PROVE LastWrite(h, p, f, w, n + 1)
    BY <1>1 DEF LastWrite, Writes
<1>2. QED
    BY <1>1 DEF ShowsIn, Touches

(* An edit shows in the fields it carries and in no other.                 *)
LEMMA ShowsEdited ==
    ASSUME NEW h, NEW n \in Nat, NEW p, NEW v \in View, ShowsIn(h, p, n, v),
           h[n + 1].post = p, h[n + 1].ver = n + 1, h[n + 1].at \in Nat,
           \A i \in 1..n : h[i].at \in Nat, h[n + 1].sets # {}
    PROVE  ShowsIn(h, p, n + 1, Patch(v, h[n + 1]))
<1> DEFINE e == h[n + 1]
           w == Patch(v, e)
<1>1. /\ w.title = IF "title" \in e.sets THEN n + 1 ELSE v.title
      /\ w.content = IF "content" \in e.sets THEN n + 1 ELSE v.content
      /\ w.updated = Later(v.updated, e.at)
    BY DEF Patch
<1>2. ASSUME NEW f, NEW x, LastWrite(h, p, f, x, n)
      PROVE  LastWrite(h, p, f, IF f \in e.sets THEN n + 1 ELSE x, n + 1)
    BY <1>2 DEF LastWrite, Writes
<1>3. LastWrite(h, p, "title", w.title, n + 1) /\ LastWrite(h, p, "content", w.content, n + 1)
    BY <1>1, <1>2 DEF ShowsIn
<1>4. \A i \in 1..(n + 1) : Touches(h[i], p) => h[i].at <= w.updated
    BY <1>1 DEF ShowsIn, Touches, Later, View
<1>5. \E i \in 1..(n + 1) : Touches(h[i], p) /\ h[i].at = w.updated
    <2>1. PICK j \in 1..n : Touches(h[j], p) /\ h[j].at = v.updated
        BY DEF ShowsIn
    <2>2. Touches(h[n + 1], p)
        BY DEF Touches
    <2>3. QED
        BY <1>1, <2>1, <2>2 DEF Later
<1>6. QED
    BY <1>3, <1>4, <1>5 DEF ShowsIn

(* A creation shows as the first event of the post.                        *)
LEMMA ShowsCreated ==
    ASSUME NEW h, NEW n \in Nat, NEW p, h[n + 1].post = p, h[n + 1].ver = n + 1,
           h[n + 1].at \in Nat, h[n + 1].sets = Fields,
           \A i \in 1..n : h[i].post # p
    PROVE  ShowsIn(h, p, n + 1, Fresh(h[n + 1]))
<1>1. ASSUME NEW f \in Fields PROVE LastWrite(h, p, f, n + 1, n + 1)
    BY DEF LastWrite, Writes
<1>2. Touches(h[n + 1], p)
    BY DEF Touches, Fields
<1>3. QED
    BY <1>1, <1>2 DEF ShowsIn, Fresh, Touches, Fields

(* Views that were folded from something are not None.                     *)
LEMMA NotNone ==
    ASSUME NEW v \in View, NEW e \in Event
    PROVE  /\ Fresh(e) # NoView
           /\ v # NoView => Patch(v, e) # NoView
           /\ \A h, p : \A n \in Nat : ShowsIn(h, p, n, v) => v # NoView
<1>1. e.ver \in Nat \ {0} /\ e.at \in Nat
    BY DEF Event
<1>2. Fresh(e).title # 0 /\ NoView.title = 0
    BY <1>1 DEF Fresh, NoView
<1>3. ASSUME v # NoView PROVE Patch(v, e) # NoView
    <2>1. v = [title |-> v.title, content |-> v.content, updated |-> v.updated]
        BY DEF View
    <2>2. v.title # 0 \/ v.content # 0 \/ v.updated # 0
        BY <1>3, <2>1 DEF NoView
    <2>3. v.title \in Nat /\ v.content \in Nat /\ v.updated \in Nat
        BY DEF View
    <2>4. /\ Patch(v, e).title = IF "title" \in e.sets THEN e.ver ELSE v.title
          /\ Patch(v, e).content = IF "content" \in e.sets THEN e.ver ELSE v.content
          /\ Patch(v, e).updated = Later(v.updated, e.at)
        BY DEF Patch
    <2>5. Patch(v, e).title # 0 \/ Patch(v, e).content # 0 \/ Patch(v, e).updated # 0
        BY <1>1, <2>2, <2>3, <2>4 DEF Later
    <2>6. QED
        BY <2>5 DEF NoView
<1>4. ASSUME NEW h, NEW p, NEW n \in Nat, ShowsIn(h, p, n, v) PROVE v # NoView
    <2>1. v.title \in 1..n
        BY <1>4 DEF ShowsIn, LastWrite
    <2>2. QED
        BY <2>1 DEF NoView
<1>5. QED
    BY <1>2, <1>3, <1>4

(***************************************************************************)
(* The inductive invariant, action by action.                              *)
(***************************************************************************)

LEMMA InitIInv == Init => IInv
<1> SUFFICES ASSUME Init PROVE IInv
    OBVIOUS
<1>1. Len(log) = 0 /\ cursor = 0 /\ phase = "down" /\ ~Running
    BY DEF Init, Running
<1>2. \A p : ~LiveIn(log, p, 0)
    BY DEF LiveIn
<1>3. QED
    BY <1>1, <1>2, TypeInit
       DEF IInv, StoreInOrder, CursorOnAPush, AckedPostsAreFlushed, NothingForgotten,
           SeedSuffices, NoLivePostMissing, ReplayedPostsAreExact

LEMMA ProductIsNat == ASSUME NEW m \in Nat, NEW n \in Nat PROVE m * n \in Nat
    OBVIOUS

(* The last push of a running worker is at or after the cursor.            *)
LEMMA SinceFlushBounded ==
    ASSUME TypeOK, CursorOnAPush, Running
    PROVE  sinceFlush <= pos - cursor
<1>1. PICK k \in Nat : pos - cursor = k * FlushEvery + sinceFlush
    BY DEF CursorOnAPush
<1>2. k * FlushEvery \in Nat
    BY ProductIsNat
<1>3. sinceFlush \in Nat /\ pos \in Int /\ cursor \in Int
    BY DEF TypeOK
<1>4. QED
    BY <1>1, <1>2, <1>3

(* Appending leaves what is known of every earlier position as it was.     *)
LEMMA AppendKeeps ==
    ASSUME IInv, NEW type \in {"created", "edited", "deleted"},
           NEW q \in Posts, NEW sets \in SUBSET Fields,
           AppendEvent(type, q, sets),
           type = "created" => ~Existing(q) /\ sets = Fields,
           type # "created" => Existing(q),
           type = "edited" => sets # {},
           type = "deleted" => sets = {}
    PROVE  IInv'
<1>1. PICK t \in Times :
         log' = Append(log, [type |-> type, post |-> q, sets |-> sets,
                             ver |-> Len(log) + 1, at |-> t])
    BY DEF AppendEvent
<1> DEFINE e == [type |-> type, post |-> q, sets |-> sets,
                 ver |-> Len(log) + 1, at |-> t]
           L == Len(log)
<1>2. TypeOK' /\ Len(log') = L + 1 /\ L \in Nat /\ TypeOK
    <2>1. TypeOK
        BY DEF IInv
    <2>2. log \in Seq(Event)
        BY <2>1 DEF TypeOK
    <2>3. QED
        BY <2>1, <2>2, AppendTyped
<1>3. /\ \A i \in 1..L : log'[i] = log[i]
      /\ log'[L + 1] = e
    BY <1>1, <1>2 DEF TypeOK
<1>4. UNCHANGED <<cursor, kv, phase, seed, cold, state, base, pos, sinceFlush,
                  outbox, crashes>> /\ (Running' <=> Running)
    BY DEF AppendEvent, worker, Running
<1>5. cursor \in 0..L /\ pos \in 0..L /\ base \in 0..L
    BY <1>2 DEF TypeOK
<1>6. ASSUME NEW n \in 0..L, NEW p
      PROVE  /\ LiveIn(log', p, n) <=> LiveIn(log, p, n)
             /\ \A v : ShowsIn(log', p, n, v) <=> ShowsIn(log, p, n, v)
    <2>1. n \in Nat /\ \A i \in 1..n : log'[i] = log[i]
        BY <1>2, <1>3
    <2>2. QED
        BY <2>1, PrefixDecides
<1>7. StoreInOrder'
    <2>1. ASSUME NEW i \in 1..(L + 1)
          PROVE  /\ log'[i].ver = i
                 /\ log'[i].type \in {"created", "edited", "deleted"}
                 /\ log'[i].type = "created" => log'[i].sets = Fields
                 /\ log'[i].type = "edited" => log'[i].sets # {}
                 /\ log'[i].type = "deleted" => log'[i].sets = {}
                 /\ log'[i].type # "created" =>
                       \E j \in 1..(i - 1) : IsCreation(log'[j], log'[i].post)
        <3>1. CASE i = L + 1
            BY <1>2, <1>3, <3>1 DEF Existing
        <3>2. CASE i \in 1..L
            BY <1>2, <1>3, <3>2 DEF IInv, StoreInOrder
        <3>3. QED
            BY <1>2, <3>1, <3>2
    <2>2. ASSUME NEW p \in Posts, NEW i \in 1..(L + 1), NEW j \in 1..(L + 1),
                 IsCreation(log'[i], p), IsCreation(log'[j], p)
          PROVE  i = j
        <3>1. CASE i \in 1..L /\ j \in 1..L
            BY <1>3, <2>2, <3>1 DEF IInv, StoreInOrder
        <3>2. ASSUME NEW k \in 1..L, IsCreation(log'[k], p), IsCreation(log'[L + 1], p)
              PROVE  FALSE
            BY <1>3, <3>2 DEF Existing, IsCreation
        <3>3. QED
            BY <1>2, <2>2, <3>1, <3>2
    <2>3. QED
        BY <1>2, <2>1, <2>2 DEF StoreInOrder
<1>8. CursorOnAPush' /\ AckedPostsAreFlushed'
    BY <1>4, <1>5, <1>6 DEF IInv, CursorOnAPush, AckedPostsAreFlushed
<1>9. NothingForgotten'
    <2>1. Running => pos - sinceFlush \in 0..L
        <3>1. Running => sinceFlush <= pos - cursor
            BY <1>2, SinceFlushBounded DEF IInv
        <3>2. sinceFlush \in Nat
            BY <1>2 DEF TypeOK
        <3>3. QED
            BY <1>2, <1>5, <3>1, <3>2
    <2>2. QED
        BY <1>4, <1>5, <1>6, <2>1 DEF IInv, NothingForgotten
<1>10. SeedSuffices' /\ NoLivePostMissing'
    BY <1>4, <1>5, <1>6 DEF IInv, SeedSuffices, NoLivePostMissing
<1>11. ReplayedPostsAreExact'
    <2> SUFFICES ASSUME Running', NEW p \in Posts, LiveIn(log', p, pos'),
                        NEW i \in (base' + 1)..pos', IsCreation(log'[i], p)
                 PROVE  ShowsIn(log', p, pos', state'[p])
        BY DEF ReplayedPostsAreExact
    <2>1. i \in (base + 1)..pos /\ IsCreation(log[i], p) /\ LiveIn(log, p, pos) /\ Running
        BY <1>3, <1>4, <1>5, <1>6
    <2>2. ShowsIn(log, p, pos, state[p])
        BY <2>1 DEF IInv, ReplayedPostsAreExact
    <2>3. QED
        BY <1>4, <1>5, <1>6, <2>2
<1>12. QED
    BY <1>2, <1>7, <1>8, <1>9, <1>10, <1>11 DEF IInv

(* The three steps before the merge.                                       *)
LEMMA BootKeeps ==
    ASSUME IInv, Hydrate \/ StartWorker \/ StartFails PROVE IInv'
<1> USE DEF core, worker, Running
<1>1. TypeOK /\ TypeOK' /\ UNCHANGED <<log, cursor, kv>>
    BY TypeStep DEF IInv, Next, Hydrate, StartWorker, StartFails
<1>2. StoreInOrder' /\ AckedPostsAreFlushed'
    BY <1>1 DEF IInv, StoreInOrder, AckedPostsAreFlushed
<1>3. CASE Hydrate
    BY <1>1, <1>2, <1>3
       DEF Hydrate, IInv, CursorOnAPush, NothingForgotten, SeedSuffices,
           NoLivePostMissing, ReplayedPostsAreExact, AckedPostsAreFlushed
<1>4. CASE StartFails
    BY <1>1, <1>2, <1>4
       DEF StartFails, IInv, CursorOnAPush, NothingForgotten, SeedSuffices,
           NoLivePostMissing, ReplayedPostsAreExact
<1>5. CASE StartWorker
    <2>1. /\ phase = "hydrated" /\ phase' = "seeding" /\ UNCHANGED <<seed, cold>>
          /\ base' = cursor /\ pos' = cursor /\ sinceFlush' = 0 /\ cursor \in Nat
        BY <1>1, <1>5 DEF StartWorker, TypeOK
    <2>2. CursorOnAPush'
        <3>1. pos' - cursor' = 0 * FlushEvery + sinceFlush'
            BY <1>1, <2>1, FlushAssumption
        <3>2. pos' - cursor' <= AckEvery
            BY <1>1, <2>1, AckAssumption
        <3>3. QED
            BY <3>1, <3>2 DEF CursorOnAPush
    <2>3. NothingForgotten' /\ SeedSuffices'
        BY <1>1, <2>1 DEF IInv, AckedPostsAreFlushed, NothingForgotten, SeedSuffices
    <2>4. NoLivePostMissing'
        BY <2>1 DEF NoLivePostMissing
    <2>5. ReplayedPostsAreExact'
        BY <2>1 DEF ReplayedPostsAreExact
    <2>6. QED
        BY <1>1, <1>2, <2>2, <2>3, <2>4, <2>5 DEF IInv
<1>6. QED
    BY <1>3, <1>4, <1>5

(* The merge adds posts and replaces none.                                 *)
LEMMA SeedKeeps == ASSUME IInv, Seed PROVE IInv'
<1>1. /\ TypeOK /\ TypeOK' /\ Running /\ Running'
      /\ UNCHANGED <<log, cursor, kv, seed, cold, base, pos, sinceFlush, outbox>>
      /\ phase = "seeding" /\ phase' = "serving"
    BY TypeStep DEF IInv, Next, Seed, core, Running
<1>2. \A p \in Posts : state'[p] = IF state[p] # NoView THEN state[p] ELSE seed[p]
    BY DEF Seed
<1>3. StoreInOrder' /\ AckedPostsAreFlushed' /\ CursorOnAPush'
    BY <1>1 DEF IInv, StoreInOrder, AckedPostsAreFlushed, CursorOnAPush
<1>4. NothingForgotten'
    BY <1>1, <1>2 DEF IInv, NothingForgotten
<1>5. SeedSuffices' /\ NoLivePostMissing'
    BY <1>1, <1>2 DEF IInv, SeedSuffices, NoLivePostMissing
<1>6. ReplayedPostsAreExact'
    <2> SUFFICES ASSUME NEW p \in Posts, LiveIn(log, p, pos),
                        NEW i \in (base + 1)..pos, IsCreation(log[i], p)
                 PROVE  ShowsIn(log, p, pos, state'[p])
        BY <1>1 DEF ReplayedPostsAreExact
    <2>1. ShowsIn(log, p, pos, state[p])
        BY <1>1 DEF IInv, ReplayedPostsAreExact
    <2>2. state[p] \in View /\ pos \in Nat
        BY <1>1 DEF TypeOK
    <2>3. state[p].title \in 1..pos
        BY <2>1 DEF ShowsIn, LastWrite
    <2>4. state[p] # NoView
        BY <2>2, <2>3 DEF NoView
    <2>5. QED
        BY <1>2, <2>1, <2>4
<1>7. QED
    BY <1>1, <1>3, <1>4, <1>5, <1>6 DEF IInv

(* A push only adds to the KV, and the map it copies covers what the next  *)
(* checkpoint will promise.                                                *)
LEMMA PushKeeps ==
    ASSUME IInv, BeginFlush \/ \E p \in Posts : PutEntity(p) PROVE IInv'
<1>1. /\ TypeOK /\ TypeOK' /\ Running /\ Running'
      /\ UNCHANGED <<log, cursor, phase, seed, cold, state, base, pos>>
    BY TypeStep DEF IInv, Next, BeginFlush, PutEntity, core, Running
<1>2. /\ StoreInOrder' /\ SeedSuffices' /\ NoLivePostMissing' /\ ReplayedPostsAreExact'
    BY <1>1 DEF IInv, StoreInOrder, SeedSuffices, NoLivePostMissing, ReplayedPostsAreExact
<1>3. CASE BeginFlush
    <2>1. /\ UNCHANGED kv /\ outbox' = state /\ sinceFlush' = 0 /\ sinceFlush = FlushEvery
          /\ pos \in Nat /\ cursor \in Nat
        BY <1>1, <1>3 DEF BeginFlush, core, FlushDue, TypeOK
    <2>2. AckedPostsAreFlushed'
        BY <1>1, <2>1 DEF IInv, AckedPostsAreFlushed
    <2>3. NothingForgotten'
        BY <1>1, <2>1 DEF IInv, NothingForgotten
    <2>4. CursorOnAPush'
        <3>1. PICK k \in Nat : pos - cursor = k * FlushEvery + sinceFlush
            BY <1>1 DEF IInv, CursorOnAPush
        <3>2. k + 1 \in Nat /\ pos' - cursor' = (k + 1) * FlushEvery + sinceFlush'
            BY <1>1, <2>1, <3>1, FlushAssumption
        <3>3. pos' - cursor' <= AckEvery
            BY <1>1 DEF IInv, CursorOnAPush
        <3>4. QED
            BY <3>2, <3>3 DEF CursorOnAPush
    <2>5. QED
        BY <1>1, <1>2, <2>2, <2>3, <2>4 DEF IInv
<1>4. ASSUME NEW q \in Posts, PutEntity(q) PROVE IInv'
    <2>1. /\ UNCHANGED sinceFlush /\ outbox[q] # NoView
          /\ kv' = [kv EXCEPT ![q] = outbox[q]]
          /\ outbox' = [outbox EXCEPT ![q] = NoView]
        BY <1>4 DEF PutEntity
    <2>2. /\ \A p \in Posts : kv[p] # NoView => kv'[p] # NoView
          /\ \A p \in Posts : outbox[p] # NoView => kv'[p] # NoView \/ outbox'[p] # NoView
        BY <1>1, <2>1 DEF TypeOK
    <2>3. AckedPostsAreFlushed' /\ NothingForgotten' /\ CursorOnAPush'
        BY <1>1, <2>1, <2>2 DEF IInv, AckedPostsAreFlushed, NothingForgotten, CursorOnAPush
    <2>4. QED
        BY <1>1, <1>2, <2>3 DEF IInv
<1>5. QED
    BY <1>3, <1>4

(* A multiple of the push interval that is also less than an interval away *)
(* from another multiple is that multiple.                                 *)
LEMMA NoRemainder ==
    ASSUME NEW F \in Nat \ {0}, NEW m \in Nat, NEW k \in Nat, NEW r \in 0..(F - 1),
           m * F = k * F + r
    PROVE  r = 0
<1>1. (m - k) * F = r
    OBVIOUS
<1>2. CASE m - k <= 0
    <2>1. (m - k) * F <= 0
        BY <1>2
    <2>2. QED
        BY <1>1, <2>1
<1>3. CASE m - k >= 1
    <2>1. (m - k) * F >= F
        BY <1>3
    <2>2. QED
        BY <1>1, <2>1
<1>4. QED
    BY <1>2, <1>3

(* The cursor moves only when everything folded has been pushed.           *)
LEMMA AckKeeps == ASSUME IInv, Ack PROVE IInv'
<1>1. /\ TypeOK /\ TypeOK' /\ Running /\ Running' /\ cursor' = pos
      /\ UNCHANGED <<log, kv, phase, seed, cold, state, base, pos, sinceFlush, outbox>>
    BY TypeStep DEF IInv, Next, Ack, worker, Running
<1>2. outbox = Empty /\ sinceFlush # FlushEvery /\ pos - cursor >= AckEvery
    BY DEF Ack, Flushing, FlushDue, AckDue
<1>3. pos \in Nat /\ cursor \in Nat /\ sinceFlush \in 0..(FlushEvery - 1)
    BY <1>1, <1>2, FlushAssumption DEF TypeOK
<1>4. sinceFlush = 0
    <2>1. PICK k \in Nat : pos - cursor = k * FlushEvery + sinceFlush
        BY <1>1 DEF IInv, CursorOnAPush
    <2>2. PICK m \in 1..AckEvery : AckEvery = m * FlushEvery
        BY AckAssumption
    <2>3. pos - cursor = AckEvery
        BY <1>1, <1>2, <1>3, AckAssumption DEF IInv, CursorOnAPush
    <2>4. m \in Nat /\ m * FlushEvery = k * FlushEvery + sinceFlush
        BY <2>1, <2>2, <2>3, AckAssumption
    <2>5. QED
        BY <1>3, <2>4, NoRemainder, FlushAssumption
<1>5. \A p \in Posts : LiveIn(log, p, pos) => kv[p] # NoView
    <2>1. \A p \in Posts : outbox[p] = NoView
        BY <1>2 DEF Empty
    <2>2. pos - sinceFlush = pos
        BY <1>3, <1>4
    <2>3. QED
        BY <1>1, <2>1, <2>2 DEF IInv, NothingForgotten
<1>6. AckedPostsAreFlushed'
    BY <1>1, <1>5 DEF AckedPostsAreFlushed
<1>7. CursorOnAPush'
    <2>1. pos' - cursor' = 0 * FlushEvery + sinceFlush' /\ pos' - cursor' <= AckEvery
        BY <1>1, <1>3, <1>4, FlushAssumption, AckAssumption
    <2>2. QED
        BY <2>1 DEF CursorOnAPush
<1>8. NothingForgotten' /\ StoreInOrder' /\ NoLivePostMissing' /\ ReplayedPostsAreExact'
    BY <1>1 DEF IInv, NothingForgotten, StoreInOrder, NoLivePostMissing, ReplayedPostsAreExact
<1>9. SeedSuffices'
    BY <1>1 DEF IInv, SeedSuffices, Running
<1>10. QED
    BY <1>1, <1>6, <1>7, <1>8, <1>9 DEF IInv

(* Folding the next event keeps every live post somewhere and every        *)
(* replayed post exact.                                                    *)
LEMMA FoldKeeps == ASSUME IInv, FoldNext PROVE IInv'
<1> DEFINE e == log[pos + 1]
           q == e.post
<1>1. /\ TypeOK /\ TypeOK' /\ Running /\ Running'
      /\ UNCHANGED <<log, cursor, kv, phase, seed, cold, base, outbox>>
      /\ pos' = pos + 1 /\ sinceFlush' = sinceFlush + 1
      /\ state' = ApplyPostEvent(state, e)
    BY TypeStep DEF IInv, Next, FoldNext, core, Running
<1>2. /\ pos \in Nat /\ pos + 1 \in 1..Len(log) /\ cursor \in Nat /\ base \in Nat
      /\ sinceFlush \in Nat /\ state \in [Posts -> View] /\ base <= pos
      /\ pos - cursor < AckEvery
    BY <1>1, AckAssumption DEF TypeOK, FoldNext, AckDue
<1>3. e \in Event /\ q \in Posts /\ e.at \in Nat /\ e.ver = pos + 1
    <2>1. e \in Event
        BY <1>1, <1>2 DEF TypeOK
    <2>2. e.ver = pos + 1
        BY <1>2 DEF IInv, StoreInOrder
    <2>3. QED
        BY <2>1, <2>2, TimesAssumption DEF Event
<1>4. /\ \A p \in Posts : p # q => state'[p] = state[p]
      /\ e.type = "created" => state'[q] = Fresh(e)
      /\ e.type = "edited" /\ state[q] # NoView => state'[q] = Patch(state[q], e)
    BY <1>1, <1>2, <1>3, ApplyCases
<1>5. e.type \in {"created", "edited", "deleted"}
    BY <1>2 DEF IInv, StoreInOrder
(* A post alive after the event is kept by the fold, or is created by it.  *)
<1>6. ASSUME NEW p \in Posts, LiveIn(log, p, pos + 1)
      PROVE  /\ state[p] # NoView => state'[p] # NoView
             /\ LiveIn(log, p, pos) \/ state'[p] # NoView
    <2>1. (LiveIn(log, p, pos) \/ IsCreation(e, p)) /\ ~IsDeletion(e, p)
        BY <1>2, <1>6, LiveStep
    <2>2. CASE p # q
        BY <1>4, <2>1, <2>2 DEF IsCreation
    <2>3. CASE p = q /\ e.type = "created"
        BY <1>2, <1>3, <1>4, <2>3, NotNone
    <2>4. CASE p = q /\ e.type = "edited"
        BY <1>2, <1>3, <1>4, <2>1, <2>4, NotNone DEF IsCreation
    <2>5. QED
        BY <1>5, <2>1, <2>2, <2>3, <2>4 DEF IsDeletion
<1>7. StoreInOrder' /\ AckedPostsAreFlushed'
    BY <1>1 DEF IInv, StoreInOrder, AckedPostsAreFlushed
<1>8. CursorOnAPush'
    <2>1. PICK k \in Nat : pos - cursor = k * FlushEvery + sinceFlush
        BY <1>1 DEF IInv, CursorOnAPush
    <2>2. k * FlushEvery \in Nat
        BY ProductIsNat, FlushAssumption
    <2>3. pos' - cursor' = k * FlushEvery + sinceFlush'
        BY <1>1, <1>2, <2>1, <2>2
    <2>4. pos' - cursor' <= AckEvery
        BY <1>1, <1>2, AckAssumption
    <2>5. QED
        BY <2>3, <2>4 DEF CursorOnAPush
<1>9. NothingForgotten'
    <2>1. pos' - sinceFlush' = pos - sinceFlush
        BY <1>1, <1>2
    <2>2. QED
        BY <1>1, <1>6, <2>1 DEF IInv, NothingForgotten
<1>10. SeedSuffices' /\ NoLivePostMissing'
    BY <1>1, <1>6 DEF IInv, SeedSuffices, NoLivePostMissing, Running
<1>11. ReplayedPostsAreExact'
    <2> SUFFICES ASSUME NEW p \in Posts, LiveIn(log, p, pos + 1),
                        NEW c \in (base + 1)..(pos + 1), IsCreation(log[c], p)
                 PROVE  ShowsIn(log, p, pos + 1, state'[p])
        BY <1>1 DEF ReplayedPostsAreExact
    <2>1. (LiveIn(log, p, pos) \/ IsCreation(e, p)) /\ ~IsDeletion(e, p)
        BY <1>2, LiveStep
    <2>2. ASSUME e.type # "created" \/ p # q
          PROVE  ShowsIn(log, p, pos, state[p]) /\ state[p] # NoView
        <3>1. LiveIn(log, p, pos) /\ c \in (base + 1)..pos
            BY <1>2, <2>1, <2>2 DEF IsCreation
        <3>2. ShowsIn(log, p, pos, state[p])
            BY <1>1, <3>1 DEF IInv, ReplayedPostsAreExact
        <3>3. QED
            BY <1>2, <1>3, <3>2, NotNone
    <2>3. CASE p # q
        BY <1>2, <1>4, <2>2, <2>3, ShowsOther
    <2>4. CASE p = q /\ e.type = "edited"
        <3>1. /\ e.sets # {}
              /\ \A i \in 1..pos : log[i].at \in Nat
            <4>1. e.sets # {}
                BY <1>2, <2>4 DEF IInv, StoreInOrder
            <4>2. \A i \in 1..pos : log[i] \in Event
                BY <1>1, <1>2 DEF TypeOK
            <4>3. QED
                BY <4>1, <4>2, TimesAssumption DEF Event
        <3>2. ShowsIn(log, p, pos + 1, Patch(state[p], e))
            BY <1>2, <1>3, <2>2, <2>4, <3>1, ShowsEdited
        <3>3. QED
            BY <1>4, <2>2, <2>4, <3>2
    <2>5. CASE p = q /\ e.type = "created"
        <3>1. e.sets = Fields
            BY <1>2, <2>5 DEF IInv, StoreInOrder
        <3>2. ASSUME NEW i \in 1..pos, log[i].post = p PROVE FALSE
            <4>1. \E j \in 1..pos : IsCreation(log[j], p)
                <5>1. CASE log[i].type = "created"
                    BY <3>2, <5>1 DEF IsCreation
                <5>2. CASE log[i].type # "created"
                    BY <1>2, <3>2, <5>2 DEF IInv, StoreInOrder
                <5>3. QED
                    BY <5>1, <5>2
            <4>2. PICK j \in 1..pos : IsCreation(log[j], p)
                BY <4>1
            <4>3. p \in Posts /\ IsCreation(log[pos + 1], p)
                BY <1>3, <2>5 DEF IsCreation
            <4>4. j \in 1..Len(log) /\ j # pos + 1
                BY <1>2
            <4>5. QED
                BY <1>2, <4>2, <4>3, <4>4 DEF IInv, StoreInOrder
        <3>3. ShowsIn(log, p, pos + 1, Fresh(e))
            BY <1>2, <1>3, <2>5, <3>1, <3>2, ShowsCreated
        <3>4. QED
            BY <1>4, <2>5, <3>3
    <2>6. QED
        BY <1>5, <2>1, <2>3, <2>4, <2>5 DEF IsDeletion
<1>12. QED
    BY <1>1, <1>7, <1>8, <1>9, <1>10, <1>11 DEF IInv

(* Losing the process loses nothing the cursor promised.                   *)
LEMMA CrashKeeps == ASSUME IInv, Crash PROVE IInv'
<1>1. TypeOK' /\ UNCHANGED <<log, cursor, kv>> /\ phase' = "down" /\ ~Running'
    BY TypeStep DEF IInv, Next, Crash, core, Running
<1>2. QED
    BY <1>1 DEF IInv, StoreInOrder, AckedPostsAreFlushed, CursorOnAPush, NothingForgotten,
                SeedSuffices, NoLivePostMissing, ReplayedPostsAreExact

LEMMA StepIInv == IInv /\ [Next]_vars => IInv'
<1> SUFFICES ASSUME IInv, [Next]_vars PROVE IInv'
    OBVIOUS
<1>1. ASSUME NEW p \in Posts, CreatePost(p) PROVE IInv'
    <2>1. Fields \in SUBSET Fields
        OBVIOUS
    <2>2. QED
        BY <1>1, <2>1, AppendKeeps DEF CreatePost
<1>2. ASSUME NEW p \in Posts, EditPost(p) PROVE IInv'
    BY <1>2, AppendKeeps DEF EditPost
<1>3. ASSUME NEW p \in Posts, DeletePost(p) PROVE IInv'
    <2>1. {} \in SUBSET Fields
        OBVIOUS
    <2>2. QED
        BY <1>3, <2>1, AppendKeeps DEF DeletePost
<1>4. CASE UNCHANGED vars
    BY <1>4, TypeStep
       DEF vars, IInv, StoreInOrder, AckedPostsAreFlushed, CursorOnAPush, NothingForgotten,
           SeedSuffices, NoLivePostMissing, ReplayedPostsAreExact, Running
<1>5. QED
    BY <1>1, <1>2, <1>3, <1>4, BootKeeps, SeedKeeps, PushKeeps, AckKeeps, FoldKeeps,
       CrashKeeps DEF Next

LEMMA Inductive == Spec => []IInv
    BY InitIInv, StepIInv, PTL DEF Spec

(* Whatever crashes, every post alive at the durable cursor has been       *)
(* pushed to the KV: the checkpoint never runs ahead of the pushes.        *)
THEOREM CheckpointSafe == Spec => []AckedPostsAreFlushed
<1>1. IInv => AckedPostsAreFlushed
    BY DEF IInv
<1>2. QED
    BY <1>1, Inductive, PTL

(* A process that hydrated never serves a list that lacks a live post.     *)
THEOREM RestartSafe == Spec => []NoLivePostMissing
<1>1. IInv => NoLivePostMissing
    BY DEF IInv
<1>2. QED
    BY <1>1, Inductive, PTL

(* What this process has replayed whole, it shows exactly.                 *)
THEOREM ReplayExact == Spec => []ReplayedPostsAreExact
<1>1. IInv => ReplayedPostsAreExact
    BY DEF IInv
<1>2. QED
    BY <1>1, Inductive, PTL

(***************************************************************************)
(* Steps: what one step may do to the list.                                *)
(***************************************************************************)

(* Only the fold of a deletion takes a post off a running worker's list:   *)
(* no push, merge or acknowledgement does.                                 *)
THEOREM OnlyDeletes == Spec => OnlyDeletesUnlist
<1> DEFINE Kept == \A p \in Posts :
                      Running /\ Running' /\ state[p] # NoView /\ state'[p] = NoView
                      => pos' = pos + 1 /\ IsDeletion(log[pos'], p)
<1>1. IInv /\ [Next]_vars => [Kept]_vars
    <2> SUFFICES ASSUME IInv, Next, NEW p \in Posts, Running, Running',
                        state[p] # NoView, state'[p] = NoView
                 PROVE  pos' = pos + 1 /\ IsDeletion(log[pos'], p)
        OBVIOUS
    <2>1. CASE FoldNext
        <3>1. /\ pos' = pos + 1 /\ pos + 1 \in 1..Len(log)
              /\ state' = ApplyPostEvent(state, log[pos + 1])
              /\ log[pos + 1] \in Event /\ state \in [Posts -> View]
            BY <2>1 DEF FoldNext, IInv, TypeOK
        <3>2. log[pos + 1].type \in {"created", "edited", "deleted"}
            BY <3>1 DEF IInv, StoreInOrder
        <3>3. state[p] \in View
            BY <3>1
        <3>4. QED
            BY <3>1, <3>2, <3>3, ApplyCases, NotNone DEF IsDeletion
    <2>2. CASE Seed
        BY <2>2 DEF Seed
    <2>3. CASE Hydrate \/ StartWorker \/ StartFails \/ Crash
        BY <2>3 DEF Hydrate, StartWorker, StartFails, Crash, Running
    <2>4. CASE BeginFlush \/ Ack \/ \E q \in Posts : PutEntity(q)
        BY <2>4 DEF BeginFlush, Ack, PutEntity, worker
    <2>5. CASE \E q \in Posts : CreatePost(q) \/ EditPost(q) \/ DeletePost(q)
        BY <2>5 DEF CreatePost, EditPost, DeletePost, AppendEvent, worker
    <2>6. QED
        BY <2>1, <2>2, <2>3, <2>4, <2>5 DEF Next
<1>2. QED
    BY <1>1, Inductive, PTL DEF Spec, OnlyDeletesUnlist

(***************************************************************************)
(* Refinement: until a first crash the projection implements ReadModel.    *)
(***************************************************************************)

(* In its first life a process finds nothing in the KV when it boots, so   *)
(* it folds the whole store and lists nothing that is not alive.           *)
FirstLife ==
    crashes = 0 =>
        /\ seed = Empty /\ base = 0
        /\ ~Running /\ phase # "noworker" => kv = Empty /\ cursor = 0
        /\ Running => \A p \in Posts : ~LiveIn(log, p, pos) => state[p] = NoView

RInv == IInv /\ FirstLife

(* An event that leaves a post dead leaves it unlisted.                    *)
LEMMA FoldUnlists ==
    ASSUME IInv, FoldNext, NEW p \in Posts, ~LiveIn(log, p, pos + 1),
           ~LiveIn(log, p, pos) => state[p] = NoView
    PROVE  state'[p] = NoView
<1> DEFINE e == log[pos + 1]
<1>1. /\ pos \in Nat /\ pos + 1 \in 1..Len(log) /\ e \in Event
      /\ state' = ApplyPostEvent(state, e) /\ state \in [Posts -> View]
    BY DEF FoldNext, IInv, TypeOK
<1>2. /\ e.type \in {"created", "edited", "deleted"} /\ e.post \in Posts
      /\ p # e.post => state'[p] = state[p]
      /\ p = e.post /\ e.type = "edited" /\ state[p] = NoView => state'[p] = NoView
      /\ p = e.post /\ e.type = "deleted" => state'[p] = NoView
    BY <1>1, ApplyCases DEF IInv, StoreInOrder, Event
<1>3. CASE ~IsCreation(e, p) /\ ~IsDeletion(e, p)
    <2>1. ~LiveIn(log, p, pos)
        BY <1>1, <1>3 DEF LiveIn
    <2>2. QED
        BY <1>2, <1>3, <2>1 DEF IsCreation, IsDeletion
<1>4. CASE IsDeletion(e, p)
    BY <1>2, <1>4 DEF IsDeletion
<1>5. CASE IsCreation(e, p)
    <2>1. PICK i \in 1..pos + 1 : IsDeletion(log[i], p)
        BY <1>1, <1>5 DEF LiveIn
    <2>2. i \in 1..pos /\ i \in 1..Len(log) /\ log[i].type = "deleted" /\ log[i].post = p
        BY <1>1, <1>5, <2>1 DEF IsCreation, IsDeletion
    <2>3. PICK j \in 1..(i - 1) : IsCreation(log[j], p)
        BY <2>2 DEF IInv, StoreInOrder
    <2>4. j \in 1..Len(log) /\ j # pos + 1
        BY <1>1, <2>2, <2>3
    <2>5. QED
        BY <1>1, <1>5, <2>3, <2>4 DEF IInv, StoreInOrder
<1>6. QED
    BY <1>3, <1>4, <1>5

LEMMA InitFirstLife == Init => FirstLife
    BY DEF Init, FirstLife, Running

(* The first life goes on as it began.                                     *)
LEMMA StepFirstLife == RInv /\ [Next]_vars => FirstLife'
<1> SUFFICES ASSUME IInv, FirstLife, [Next]_vars, crashes' = 0 PROVE FirstLife'
    BY DEF RInv, FirstLife
<1> USE DEF FirstLife, Running
<1>0. crashes \in Nat /\ Len(log) \in Nat /\ pos \in 0..Len(log)
    BY DEF IInv, TypeOK
<1>1. CASE Crash
    BY <1>0, <1>1 DEF Crash
<1>2. CASE FoldNext
    <2>1. /\ UNCHANGED <<log, cursor, kv, phase, seed, base, crashes>> /\ pos' = pos + 1
        BY <1>2 DEF FoldNext, core
    <2>2. ASSUME NEW p \in Posts, ~LiveIn(log, p, pos') PROVE state'[p] = NoView
        BY <1>2, <2>1, <2>2, FoldUnlists DEF FoldNext
    <2>3. Running /\ Running'
        BY <1>2, <2>1 DEF FoldNext
    <2>4. QED
        BY <2>1, <2>2, <2>3
<1>3. CASE Hydrate \/ StartFails
    BY <1>3 DEF Hydrate, StartFails, core, worker
<1>4. CASE StartWorker
    <2>1. state' = Empty /\ base' = cursor /\ UNCHANGED <<kv, seed, crashes, cursor>>
        BY <1>4 DEF StartWorker, core
    <2>2. QED
        BY <1>4, <2>1 DEF StartWorker, Empty
<1>5. CASE Seed
    BY <1>5 DEF Seed, core, Empty
<1>6. CASE BeginFlush \/ Ack \/ \E q \in Posts : PutEntity(q)
    BY <1>6 DEF BeginFlush, Ack, PutEntity, core, worker
<1>7. CASE \E q \in Posts : CreatePost(q) \/ EditPost(q) \/ DeletePost(q)
    <2>1. /\ UNCHANGED <<cursor, kv, phase, seed, base, pos, state, crashes>>
          /\ \A i \in 1..pos : log'[i] = log[i]
        <3>1. PICK e : log' = Append(log, e)
            BY <1>7 DEF CreatePost, EditPost, DeletePost, AppendEvent
        <3>2. log \in Seq(Event)
            BY DEF IInv, TypeOK
        <3>3. UNCHANGED <<cursor, kv, phase, seed, base, pos, state, crashes>>
            BY <1>7 DEF CreatePost, EditPost, DeletePost, AppendEvent, worker
        <3>4. QED
            BY <1>0, <3>1, <3>2, <3>3
    <2>2. \A p \in Posts : LiveIn(log', p, pos) <=> LiveIn(log, p, pos)
        BY <1>0, <2>1, PrefixDecides
    <2>3. QED
        BY <2>1, <2>2
<1>8. CASE UNCHANGED vars
    BY <1>8 DEF vars
<1>9. QED
    BY <1>1, <1>2, <1>3, <1>4, <1>5, <1>6, <1>7, <1>8 DEF Next

(* The abstract model judges views by the same history.                    *)
LEMMA SameHistory ==
    /\ \A h, p, n : Model!LiveIn(h, p, n) <=> LiveIn(h, p, n)
    /\ \A h, p, n, v : Model!ShowsIn(h, p, n, v) <=> ShowsIn(h, p, n, v)
    /\ Model!NoView = NoView
<1>1. \A h, p, n : Model!LiveIn(h, p, n) <=> LiveIn(h, p, n)
    BY DEF Model!LiveIn, LiveIn, Model!IsCreation, IsCreation, Model!IsDeletion, IsDeletion
<1>2. \A h, p, f, v, n : Model!LastWrite(h, p, f, v, n) <=> LastWrite(h, p, f, v, n)
    BY DEF Model!LastWrite, LastWrite, Model!Writes, Writes
<1>3. \A h, p, n, v : Model!ShowsIn(h, p, n, v) <=> ShowsIn(h, p, n, v)
    BY <1>2 DEF Model!ShowsIn, ShowsIn, Model!Touches, Touches
<1>4. Model!NoView = NoView
    BY DEF Model!NoView, NoView
<1>5. QED
    BY <1>1, <1>3, <1>4

(* The list of a process in its first life is the history it has folded.   *)
ListIsHistory ==
    crashes = 0 /\ phase = "serving" =>
        \A p \in Posts : IF LiveIn(log, p, pos) THEN ShowsIn(log, p, pos, state[p])
                                                ELSE state[p] = NoView

LEMMA FirstListExact == RInv => ListIsHistory
<1> SUFFICES ASSUME RInv, crashes = 0, phase = "serving", NEW p \in Posts
             PROVE  IF LiveIn(log, p, pos) THEN ShowsIn(log, p, pos, state[p])
                                           ELSE state[p] = NoView
    BY DEF ListIsHistory
<1>1. base = 0 /\ Running /\ pos \in Nat
    BY DEF RInv, FirstLife, Running, IInv, TypeOK
<1>2. LiveIn(log, p, pos) => \E i \in (base + 1)..pos : IsCreation(log[i], p)
    BY <1>1 DEF LiveIn
<1>3. QED
    BY <1>1, <1>2 DEF RInv, FirstLife, IInv, ReplayedPostsAreExact

(* Every step of a first life is a write, an advance or a stutter.         *)
LEMMA StepRefines ==
    ASSUME RInv, RInv', [Next]_vars, crashes' = 0
    PROVE  Model!Write \/ Model!Advance \/ UNCHANGED Model!vars
<1>0. /\ crashes \in Nat /\ log \in Seq(Event) /\ Len(log) \in Nat
      /\ pos \in 0..Len(log) /\ pos' \in 0..Len(log')
    BY DEF RInv, IInv, TypeOK
<1>c. crashes' = crashes
    BY <1>0 DEF Next, vars, CreatePost, EditPost, DeletePost, AppendEvent, Hydrate, StartWorker,
                StartFails, Seed, FoldNext, BeginFlush, PutEntity, Ack, Crash
<1>1. CASE \E q \in Posts : CreatePost(q) \/ EditPost(q) \/ DeletePost(q)
    <2>1. PICK e \in Event : log' = Append(log, e)
        <3>1. PICK e : log' = Append(log, e)
            BY <1>1 DEF CreatePost, EditPost, DeletePost, AppendEvent
        <3>2. log' \in Seq(Event) /\ Len(log') = Len(log) + 1 /\ log'[Len(log) + 1] = e
            BY <1>0, <3>1 DEF RInv, IInv, TypeOK
        <3>3. QED
            BY <1>0, <3>1, <3>2
    <2>2. Len(log') = Len(log) + 1 /\ SubSeq(log', 1, Len(log)) = log
        BY <1>0, <2>1
    <2>3. UNCHANGED <<phase, pos, state>>
        BY <1>1 DEF CreatePost, EditPost, DeletePost, AppendEvent, worker
    <2>4. QED
        BY <2>2, <2>3 DEF Model!Write
<1>2. CASE ~\E q \in Posts : CreatePost(q) \/ EditPost(q) \/ DeletePost(q)
    <2>0. UNCHANGED log
        BY <1>2 DEF Next, vars, Hydrate, StartWorker, StartFails, Seed, FoldNext, BeginFlush,
                    PutEntity, Ack, Crash, core
    <2>1. CASE phase' = "serving"
        <3>1. \A p \in Posts : IF LiveIn(log', p, pos') THEN ShowsIn(log', p, pos', state'[p])
                                                       ELSE state'[p] = NoView
            <4>1. ListIsHistory'
                BY FirstListExact, PTL
            <4>2. QED
                BY <2>1, <4>1 DEF ListIsHistory
        <3>2. phase = "serving" => pos <= pos'
            <4>1. CASE FoldNext
                BY <1>0, <4>1 DEF FoldNext
            <4>2. CASE phase = "serving" /\ ~FoldNext
                BY <1>0, <1>2, <2>1, <4>2
                   DEF Next, vars, Hydrate, StartWorker, StartFails, Seed, BeginFlush, PutEntity,
                       Ack, Crash, worker
            <4>3. QED
                BY <4>1, <4>2
        <3>3. QED
            BY <1>0, <2>0, <2>1, <3>1, <3>2, SameHistory DEF Model!Advance, Model!ListAt
    <2>2. CASE phase' # "serving" /\ phase # "serving"
        BY <1>c, <2>0, <2>2 DEF Model!vars
    <2>3. CASE phase' # "serving" /\ phase = "serving"
        BY <1>0, <1>2, <2>3
           DEF Next, vars, Hydrate, StartWorker, StartFails, Seed, FoldNext, BeginFlush, PutEntity,
               Ack, Crash
    <2>4. QED
        BY <2>1, <2>2, <2>3
<1>3. QED
    BY <1>1, <1>2

(* Until a first crash, what GET /posts lists is the store's history up to *)
(* a position that only moves forward: the projection implements ReadModel.*)
THEOREM FirstLifeRefines == Spec => FirstLifeIsExact
<1>1. Init => RInv /\ Model!Init
    <2>1. Init => Model!Init
        BY SameHistory DEF Init, Model!Init, Empty
    <2>2. QED
        BY <2>1, InitIInv, InitFirstLife DEF RInv
<1>2. RInv /\ [Next]_vars => RInv'
    BY StepIInv, StepFirstLife DEF RInv
<1>3. RInv /\ RInv' /\ [Next]_vars => [crashes' = 0 => Model!Write \/ Model!Advance]_(Model!vars)
    BY StepRefines
<1>4. QED
    BY <1>1, <1>2, <1>3, PTL DEF Spec, FirstLifeIsExact, Model!Spec

=============================================================================
