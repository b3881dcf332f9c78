-------------------------- MODULE PostsApi_proofs --------------------------
(***************************************************************************)
(* The post handlers, for any number of requests, actors and posts and     *)
(* whatever calls to Core fail.  First the authorization: the read each    *)
(* handler authorizes on may be stale when it appends, and that does not   *)
(* matter, because who a post's author is never changes.  Then what each   *)
(* request did against what it was answered.  Last, what a fold of a       *)
(* stream says of the events in it, by induction along the stream, and     *)
(* from it that the answers show the writes, the deletions and the posts.  *)
(***************************************************************************)
EXTENDS PostsApi, Induction, FiniteSetTheorems

USE RequestsAssumption, TimesAssumption, ActorsAssumption

(* Appending to the store adds one event at its end and keeps the others.  *)
LEMMA AppendGrows ==
    ASSUME NEW S, NEW s \in Seq(S), NEW e \in S
    PROVE  /\ Append(s, e) \in Seq(S)
           /\ Len(Append(s, e)) = Len(s) + 1 /\ Len(s) \in Nat
           /\ \A i \in 1..Len(s) : Append(s, e)[i] = s[i]
           /\ Append(s, e)[Len(s) + 1] = e
  OBVIOUS

(* A post created once has the author its creation names.                  *)
LEMMA AuthorIsTheCreator ==
    ASSUME NEW p \in Posts, NEW i \in 1..Len(log), IsCreation(log[i], p),
           CreatedOnce
    PROVE  AuthorOf(p) = log[i].actor
<1>1. \A j \in 1..Len(log) : IsCreation(log[j], p) => j = i
  BY DEF CreatedOnce, IsCreation
<1>2. (CHOOSE j \in 1..Len(log) : IsCreation(log[j], p)) = i   BY <1>1
<1> QED BY <1>2 DEF AuthorOf

(* An author keeps the post whatever is appended.                          *)
LEMMA AuthorIsStable ==
    ASSUME NEW p \in Posts, NEW i \in 1..Len(log), IsCreation(log[i], p),
           CreatedOnce, CreatedOnce',
           log \in Seq(StoreEvent), NEW e \in StoreEvent, log' = Append(log, e)
    PROVE  /\ AuthorOf(p)' = AuthorOf(p)
           /\ \E j \in 1..Len(log') : IsCreation(log'[j], p)
<1>1. /\ i \in 1..Len(log') /\ log'[i] = log[i]   BY AppendGrows
<1>2. AuthorOf(p) = log[i].actor   BY AuthorIsTheCreator
<1>3. AuthorOf(p)' = log'[i].actor
  <2>1. IsCreation(log'[i], p)   BY <1>1
  <2>2. \A j \in 1..Len(log') : IsCreation(log'[j], p) => j = i
    <3>1. \A j, k \in 1..Len(log') :
             log'[j].type = "created" /\ log'[k].type = "created"
             /\ log'[j].post = log'[k].post => j = k
      BY ONLY CreatedOnce' DEF CreatedOnce
    <3> QED BY ONLY <1>1, <2>1, <3>1 DEF IsCreation
  <2>3. (CHOOSE j \in 1..Len(log') : IsCreation(log'[j], p)) = i   BY <1>1, <2>1, <2>2
  <2> QED BY <1>1, <2>1, <2>3 DEF AuthorOf
<1> QED BY <1>1, <1>2, <1>3

-----------------------------------------------------------------------------
(* No request has started, nothing is stored.                              *)
LEMMA InitIInv == Init => IInv
<1> SUFFICES ASSUME Init PROVE IInv   OBVIOUS
<1>1. Unread \in [op : Ops, actor : Actors \cup {Nobody}, post : Posts]
  BY DEF Unread, Ops
<1>2. log \in Seq(StoreEvent) /\ Len(log) = 0   BY DEF Init
<1>3. StoreTyped   BY <1>1, <1>2 DEF Init, StoreTyped
<1> QED BY <1>2, <1>3 DEF Init, IInv, CreatedOnce, PermittedIsAuthor, OnlyAuthorsWrite

(* A step that appends nothing authorizes at most the author.              *)
LEMMA ReadKeeps ==
    ASSUME IInv, NEW r \in Requests,
           \/ Begin(r) \/ GetFound(r) \/ Forbid(r) \/ Permit(r) \/ NotFound(r)
           \/ AppendFails(r) \/ ReadBack(r) \/ ListFallback(r)
    PROVE  IInv'
<1> USE DEF IInv
<1>1. log' = log
  BY DEF Begin, GetFound, Forbid, Permit, NotFound, AppendFails, ReadBack, ListFallback, Loaded
<1>2. \A p \in Posts : AuthorOf(p)' = AuthorOf(p)   BY <1>1 DEF AuthorOf
<1>5. \A i \in 1..Len(log) : log[i] \in StoreEvent   BY DEF StoreTyped
<1>6. \A i \in 1..Len(log) : log[i].post \in Requests   BY <1>5 DEF StoreEvent
<1>3. StoreTyped' /\ CreatedOnce' /\ PermittedIsAuthor'
  <2>1. CASE Begin(r)
    <3>1. PICK op \in Ops, a \in Actors, p \in Posts :
             /\ (op = "create") <=> (p = r)
             /\ call' = [call EXCEPT ![r] = [op |-> op, actor |-> a, post |-> p]]
      BY <2>1 DEF Begin
    <3>2. /\ pc[r] = "idle"
          /\ \/ pc' = [pc EXCEPT ![r] = IF op = "create" THEN "append" ELSE "load"]
             \/ pc' = [pc EXCEPT ![r] = "answered"]
      BY <2>1, <3>1 DEF Begin, Answer, StoreTyped
    <3>3. StoreTyped'   BY <1>1, <3>1, <3>2 DEF StoreTyped
    <3>4. CreatedOnce'   BY <1>1, <1>6, <3>1, <3>2 DEF StoreTyped, CreatedOnce
    <3>5. PermittedIsAuthor'
      BY <1>1, <1>2, <3>1, <3>2 DEF StoreTyped, PermittedIsAuthor
    <3> QED BY <3>3, <3>4, <3>5
  <2>2. CASE Permit(r)
    <3>1. call' = call /\ pc[r] = "load" /\ call[r].op \in {"update", "delete"}
          /\ call[r].actor = AuthorOf(call[r].post)
          /\ \/ pc' = [pc EXCEPT ![r] = "append"]
             \/ pc' = [pc EXCEPT ![r] = "answered"]
      BY <2>2 DEF Permit, Loaded, CanEditPost, Answer, handler
    <3>2. call[r].actor \in Actors /\ call[r].post \in Posts   BY <3>1 DEF StoreTyped
    <3>3. \E i \in 1..Len(log) : IsCreation(log[i], call[r].post)
      BY <3>1, <3>2 DEF AuthorOf
    <3>4. StoreTyped'   BY <1>1, <3>1 DEF StoreTyped
    <3>5. CreatedOnce'
      <4>1. \A s \in Requests :
               /\ pc[s] \in {"readback", "answered"} => pc'[s] = pc[s]
               /\ pc'[s] # "idle" => pc[s] # "idle"
        BY <3>1 DEF StoreTyped
      <4> QED BY ONLY IInv, <1>1, <1>6, <3>1, <4>1 DEF IInv, CreatedOnce
    <3>6. \A s \in Requests : s # r => pc'[s] = pc[s]   BY <3>1 DEF StoreTyped
    <3>7. PermittedIsAuthor'
      <4> SUFFICES ASSUME NEW s \in Requests, pc'[s] = "append", call[s].op # "create"
                   PROVE  /\ call[s].op \in {"update", "delete"}
                          /\ \E i \in 1..Len(log) : IsCreation(log[i], call[s].post)
                          /\ call[s].actor = AuthorOf(call[s].post)
        BY <1>1, <1>2, <3>1 DEF PermittedIsAuthor, StoreTyped
      <4>1. CASE s = r   BY <3>1, <3>3, <4>1
      <4>2. CASE s # r   BY <3>6, <4>2 DEF PermittedIsAuthor
      <4> QED BY <4>1, <4>2
    <3> QED BY <3>4, <3>5, <3>7
  <2>3. CASE \/ GetFound(r) \/ Forbid(r) \/ NotFound(r)
             \/ AppendFails(r) \/ ReadBack(r) \/ ListFallback(r)
    <3>1. call' = call /\ pc' = [pc EXCEPT ![r] = "answered"] /\ pc[r] # "idle"
      BY <2>3 DEF GetFound, Forbid, NotFound, AppendFails, ReadBack, ListFallback, Loaded,
                  Answer, handler
    <3>2. StoreTyped'   BY <1>1, <3>1 DEF StoreTyped
    <3>3. CreatedOnce'   BY <1>1, <1>6, <3>1 DEF StoreTyped, CreatedOnce
    <3>4. PermittedIsAuthor'
      BY <1>1, <1>2, <3>1 DEF StoreTyped, PermittedIsAuthor
    <3> QED BY <3>2, <3>3, <3>4
  <2> QED BY <2>1, <2>2, <2>3
<1>4. OnlyAuthorsWrite'
  BY <1>1, <1>2 DEF OnlyAuthorsWrite
<1> QED BY <1>3, <1>4

(* An append is its author's: the creator's own, or one whose actor the    *)
(* post was found to belong to.                                            *)
LEMMA AppendKeeps ==
    ASSUME IInv, NEW r \in Requests, AppendStored(r) \/ AppendAnswerLost(r)
    PROVE  IInv'
<1> USE DEF IInv
<1> DEFINE n == Len(log) + 1
<1>1. Store(r) /\ call' = call /\ pc[r] = "append"
  BY DEF AppendStored, AppendAnswerLost, Store, handler
<1>2. \E q \in {"readback", "answered"} : pc' = [pc EXCEPT ![r] = q]
  BY DEF AppendStored, AppendAnswerLost, Answer
<1>3. call[r].actor \in Actors /\ call[r].post \in Posts /\ call[r].op \in Ops
  BY <1>1 DEF StoreTyped
<1>4. PICK sets \in SetsOf(call[r].op), t \in Times :
         log' = Append(log, [type |-> TypeOf(call[r].op), post |-> call[r].post,
                             actor |-> call[r].actor, sets |-> sets,
                             ver |-> Len(log) + 1, at |-> t])
  BY <1>1 DEF Store
<1> DEFINE e == [type |-> TypeOf(call[r].op), post |-> call[r].post,
                 actor |-> call[r].actor, sets |-> sets, ver |-> Len(log) + 1, at |-> t]
<1>5. e \in StoreEvent
  <2>1. sets \subseteq Fields   BY DEF SetsOf
  <2>2. TypeOf(call[r].op) \in {"created", "edited", "deleted"}   BY DEF TypeOf
  <2>3. Len(log) + 1 \in Nat   BY DEF StoreTyped
  <2> QED BY <1>3, <2>1, <2>2, <2>3 DEF StoreEvent
<1>6. /\ log \in Seq(StoreEvent) /\ log' \in Seq(StoreEvent)
      /\ Len(log) \in Nat /\ Len(log') = n
      /\ \A i \in 1..Len(log) : log'[i] = log[i]
      /\ log'[n] = e
  <2>1. log \in Seq(StoreEvent) /\ log' = Append(log, e)   BY <1>4 DEF StoreTyped
  <2> QED BY ONLY <2>1, <1>5, AppendGrows
<1>7. StoreTyped'   BY <1>1, <1>2, <1>6 DEF StoreTyped
<1>8. CreatedOnce'
  <2>1. call[r].op = "create" =>
           call[r].post = r /\ \A i \in 1..Len(log) : log[i].type = "created" => log[i].post # r
    BY <1>1 DEF CreatedOnce
  <2>2. e.type = "created" => call[r].op = "create"   BY <1>3 DEF TypeOf, Ops
  <2>3. \A i \in 1..Len(log) : log[i].post \in Posts
    <3>1. \A i \in 1..Len(log) : log[i] \in StoreEvent   BY <1>6
    <3> QED BY <3>1 DEF StoreEvent
  <2>4. \A i \in 1..n : i \in 1..Len(log) \/ i = n   BY <1>6
  <2>5. \A i \in 1..n : log'[i].type = "created" => pc'[log'[i].post] \in {"readback", "answered"}
    <3> SUFFICES ASSUME NEW i \in 1..n, log'[i].type = "created"
                 PROVE pc'[log'[i].post] \in {"readback", "answered"}   OBVIOUS
    <3>1. CASE i = n   BY <3>1, <1>2, <1>6, <2>1, <2>2 DEF StoreTyped
    <3>2. CASE i \in 1..Len(log)
      <4>1. log'[i] = log[i] /\ pc[log[i].post] \in {"readback", "answered"}
            /\ log[i].post \in Requests
        BY <3>2, <1>6, <2>3 DEF CreatedOnce
      <4> QED BY <4>1, <1>2 DEF StoreTyped
    <3> QED BY <3>1, <3>2, <2>4
  <2>6. \A i, j \in 1..n : log'[i].type = "created" /\ log'[j].type = "created"
                           /\ log'[i].post = log'[j].post => i = j
    BY <1>6, <2>1, <2>2, <2>4 DEF CreatedOnce
  <2>7. \A q \in Requests : pc'[q] # "idle" /\ call'[q].op = "create" => call'[q].post = q
    BY <1>1, <1>2 DEF CreatedOnce, StoreTyped
  <2> QED BY <1>6, <2>5, <2>6, <2>7 DEF CreatedOnce
<1>9. \A p \in Posts :
         (\E i \in 1..Len(log) : IsCreation(log[i], p)) =>
            /\ AuthorOf(p)' = AuthorOf(p)
            /\ \E j \in 1..Len(log') : IsCreation(log'[j], p)
  <2> SUFFICES ASSUME NEW p \in Posts, NEW i \in 1..Len(log), IsCreation(log[i], p)
               PROVE  /\ AuthorOf(p)' = AuthorOf(p)
                      /\ \E j \in 1..Len(log') : IsCreation(log'[j], p)
    OBVIOUS
  <2> HIDE DEF e
  <2> QED BY <1>4, <1>5, <1>6, <1>8, AuthorIsStable DEF e
<1>10. PermittedIsAuthor'
  <2>1. \A q \in Requests : pc'[q] = "append" => pc[q] = "append" /\ call[q].post \in Posts
    BY <1>2 DEF StoreTyped
  <2> QED BY <1>1, <1>9, <2>1 DEF PermittedIsAuthor
<1>11. OnlyAuthorsWrite'
  <2> SUFFICES ASSUME NEW p \in Posts, NEW i \in 1..n, log'[i].post = p
               PROVE  log'[i].actor = AuthorOf(p)'
    BY <1>6 DEF OnlyAuthorsWrite
  <2>1. CASE i \in 1..Len(log)
    <3>1. log'[i] = log[i] /\ log[i].actor = AuthorOf(p)
      BY <2>1, <1>6 DEF OnlyAuthorsWrite
    <3>2. log[i] \in StoreEvent   BY <2>1, <1>6
    <3>3. AuthorOf(p) # Nobody   BY <3>1, <3>2 DEF StoreEvent
    <3>4. \E j \in 1..Len(log) : IsCreation(log[j], p)   BY <3>3 DEF AuthorOf
    <3> QED BY <3>1, <3>4, <1>9
  <2>2. CASE i = n /\ call[r].op = "create"
    <3>1. IsCreation(log'[n], p)   BY <2>2, <1>6 DEF IsCreation, TypeOf
    <3>2. n \in 1..Len(log')   BY <1>6
    <3>3. \A j \in 1..Len(log') : IsCreation(log'[j], p) => j = n
      BY <1>8, <3>1, <3>2 DEF CreatedOnce, IsCreation
    <3>4. (CHOOSE j \in 1..Len(log') : IsCreation(log'[j], p)) = n
      BY <3>1, <3>2, <3>3
    <3>5. AuthorOf(p)' = log'[n].actor   BY <3>1, <3>2, <3>4 DEF AuthorOf
    <3> QED BY <2>2, <3>5
  <2>3. CASE i = n /\ call[r].op # "create"
    <3>1. /\ \E j \in 1..Len(log) : IsCreation(log[j], call[r].post)
          /\ call[r].actor = AuthorOf(call[r].post)
      BY <2>3, <1>1 DEF PermittedIsAuthor
    <3>2. call[r].post = p /\ log'[i].actor = call[r].actor   BY <2>3, <1>6
    <3> QED BY <3>1, <3>2, <1>9
  <2> QED BY <2>1, <2>2, <2>3, <1>6
<1> QED BY ONLY <1>7, <1>8, <1>10, <1>11 DEF IInv

(* The invariant is inductive.                                             *)
THEOREM Inductive == Spec => []IInv
<1>1. IInv /\ [Next]_vars => IInv'
  <2> SUFFICES ASSUME IInv, [Next]_vars PROVE IInv'   OBVIOUS
  <2>1. CASE UNCHANGED vars
    <3>1. log' = log /\ call' = call /\ pc' = pc   BY <2>1 DEF vars
    <3>2. \A p \in Posts : AuthorOf(p)' = AuthorOf(p)   BY <3>1 DEF AuthorOf
    <3>3. \A r \in Requests : call[r].post \in Posts   BY DEF IInv, StoreTyped
    <3> QED BY <3>1, <3>2, <3>3
            DEF IInv, StoreTyped, CreatedOnce, PermittedIsAuthor, OnlyAuthorsWrite
  <2>2. CASE Next   BY <2>2, ReadKeeps, AppendKeeps DEF Next
  <2> QED BY <2>1, <2>2
<1> QED BY InitIInv, <1>1, PTL DEF Spec

(* R4: only a post's author has ever changed or deleted it.                *)
THEOREM AuthorsOnly == Spec => []OnlyAuthorsWrite
<1>1. IInv => OnlyAuthorsWrite   BY DEF IInv
<1> QED BY Inductive, <1>1, PTL

-----------------------------------------------------------------------------
(* Answers.  A request has appended nothing before its append, one event   *)
(* when it reads back, and has no answer until it is answered.             *)
Statuses == {"none", "200", "201", "204", "403", "404", "422", "502"}

LedgerTyped ==
    /\ own \in [Requests -> SUBSET Nat] /\ answer \in [Requests -> Statuses]
    /\ tracked \subseteq Requests

AppendsAtItsStep ==
    \A r \in Requests :
        /\ pc[r] \in {"idle", "load", "append"} => own[r] = {}
        /\ pc[r] = "readback" => own[r] # {} /\ call[r].op \in {"create", "update"}
        /\ pc[r] # "answered" => answer[r] = "none"

AInv == LedgerTyped /\ AppendsAtItsStep /\ AnswersMatchTheStore

(* Before any request nothing is appended and nothing answered.            *)
LEMMA InitAInv == Init => AInv
BY DEF Init, AInv, LedgerTyped, AppendsAtItsStep, AnswersMatchTheStore, Statuses

(* What one request does leaves the answers of the others as they are.     *)
LEMMA OthersKeep ==
    ASSUME IInv, AInv, NEW r \in Requests, NEW q \in Requests, q # r,
           \A s \in Requests : s # r =>
              pc'[s] = pc[s] /\ call'[s] = call[s] /\ own'[s] = own[s] /\ answer'[s] = answer[s],
           q \in tracked' <=> q \in tracked
    PROVE  /\ pc'[q] \in {"idle", "load", "append"} => own'[q] = {}
           /\ pc'[q] = "readback" => own'[q] # {} /\ call'[q].op \in {"create", "update"}
           /\ pc'[q] # "answered" => answer'[q] = "none"
           /\ \A i, j \in own'[q] : i = j
           /\ answer'[q] \in {"201", "204"} \/ (answer'[q] = "200" /\ call'[q].op = "update")
              => own'[q] # {}
           /\ answer'[q] \in {"403", "422"} => own'[q] = {}
           /\ q \in tracked' <=> answer'[q] = "201"
BY DEF AInv, AppendsAtItsStep, AnswersMatchTheStore

(* Every step keeps the ledger of appends and answers.                     *)
LEMMA StepAInv == IInv /\ IInv' /\ AInv /\ [Next]_vars => AInv'
<1> SUFFICES ASSUME IInv, IInv', AInv, [Next]_vars PROVE AInv'   OBVIOUS
<1> DEFINE Its(q) ==
       /\ pc'[q] \in {"idle", "load", "append"} => own'[q] = {}
       /\ pc'[q] = "readback" => own'[q] # {} /\ call'[q].op \in {"create", "update"}
       /\ pc'[q] # "answered" => answer'[q] = "none"
       /\ \A i, j \in own'[q] : i = j
       /\ answer'[q] \in {"201", "204"} \/ (answer'[q] = "200" /\ call'[q].op = "update")
          => own'[q] # {}
       /\ answer'[q] \in {"403", "422"} => own'[q] = {}
       /\ q \in tracked' <=> answer'[q] = "201"
<1>1. ASSUME LedgerTyped', \A q \in Requests : Its(q) PROVE AInv'
  BY <1>1 DEF AInv, AppendsAtItsStep, AnswersMatchTheStore
<1> USE DEF IInv, StoreTyped, AInv, LedgerTyped, Statuses
<1> HIDE DEF Its
(* A step of r that answers it, or moves it on, and appends nothing.       *)
<1>2. ASSUME NEW r \in Requests, NEW a \in Statuses, NEW c,
             call' = [call EXCEPT ![r] = c], c = call[r] \/ pc[r] = "idle",
             pc' = [pc EXCEPT ![r] = "answered"], answer' = [answer EXCEPT ![r] = a],
             UNCHANGED <<own, tracked>>, pc[r] # "answered", a \notin {"none", "201", "204"},
             a \in {"403", "422"} => pc[r] # "readback",
             a = "200" => c.op # "update"
      PROVE  AInv'
  <2>1. LedgerTyped'   BY <1>2
  <2>2. /\ call'[r] = c /\ pc'[r] = "answered" /\ answer'[r] = a /\ own'[r] = own[r]
        /\ tracked' = tracked
      BY <1>2
  <2>3. /\ \A i, j \in own[r] : i = j
        /\ a \in {"403", "422"} => own[r] = {}
        /\ r \notin tracked
      BY <1>2 DEF AppendsAtItsStep, AnswersMatchTheStore
  <2>6. a \notin {"none", "201", "204"} /\ (a = "200" => c.op # "update")
      BY <1>2
  <2>4. Its(r)
      BY ONLY <2>2, <2>3, <2>6 DEF Its
  <2>5. \A q \in Requests : q # r => Its(q)
      BY <1>2, OthersKeep DEF Its
  <2> QED BY <1>1, <2>1, <2>4, <2>5
<1>3. ASSUME NEW r \in Requests, NEW c, NEW to \in {"load", "append"},
             call' = [call EXCEPT ![r] = c], pc[r] \in {"idle", "load"},
             pc' = [pc EXCEPT ![r] = to], UNCHANGED <<own, tracked, answer>>
      PROVE  AInv'
  <2>1. LedgerTyped'   BY <1>3
  <2>2. /\ pc'[r] = to /\ answer'[r] = answer[r] /\ own'[r] = own[r] /\ tracked' = tracked
        /\ own[r] = {} /\ answer[r] = "none" /\ r \notin tracked
      BY <1>3 DEF AppendsAtItsStep, AnswersMatchTheStore
  <2>4. Its(r)
      BY ONLY <1>3, <2>2 DEF Its
  <2>3. \A q \in Requests : q # r => Its(q)
      BY <1>3, OthersKeep DEF Its
  <2> QED BY <1>1, <2>1, <2>3, <2>4
<1>4. ASSUME NEW r \in Requests, Begin(r) PROVE AInv'
  <2>1. PICK c \in [op : Ops, actor : Actors, post : Posts] :
           /\ pc[r] = "idle" /\ call' = [call EXCEPT ![r] = c]
           /\ \/ /\ pc' = [pc EXCEPT ![r] = IF c.op = "create" THEN "append" ELSE "load"]
                 /\ answer' = answer
              \/ Answer(r, "422")
           /\ UNCHANGED <<own, tracked>>
      BY <1>4 DEF Begin
  <2> QED BY <1>2, <1>3, <2>1 DEF Answer
<1>5. ASSUME NEW r \in Requests, GetFound(r) \/ Forbid(r) \/ NotFound(r) PROVE AInv'
  <2>1. /\ call' = call /\ UNCHANGED <<own, tracked>> /\ pc[r] \in {"load", "readback"}
        /\ \/ call[r].op = "get" /\ pc[r] = "load" /\ Answer(r, "200")
           \/ pc[r] = "load" /\ Answer(r, "403")
           \/ Answer(r, "404")
      BY <1>5 DEF GetFound, Forbid, NotFound, Loaded, handler
  <2>2. call' = [call EXCEPT ![r] = call[r]]   BY <2>1
  <2> QED BY <1>2, <2>1, <2>2 DEF Answer
<1>6. ASSUME NEW r \in Requests, Permit(r) PROVE AInv'
  <2>1. /\ call' = call /\ UNCHANGED <<own, tracked>> /\ pc[r] = "load"
        /\ \/ pc' = [pc EXCEPT ![r] = "append"] /\ answer' = answer
           \/ Answer(r, "422")
      BY <1>6 DEF Permit, Loaded, handler
  <2>2. call' = [call EXCEPT ![r] = call[r]]   BY <2>1
  <2> QED BY <1>2, <1>3, <2>1, <2>2 DEF Answer
<1>7. ASSUME NEW r \in Requests, AppendFails(r) \/ ListFallback(r) PROVE AInv'
  <2>1. /\ call' = call /\ UNCHANGED <<own, tracked>>
        /\ \/ pc[r] = "append" /\ Answer(r, "502")
           \/ pc[r] = "load" /\ call[r].op = "list" /\ (Answer(r, "200") \/ Answer(r, "502"))
      BY <1>7 DEF AppendFails, ListFallback, handler
  <2>2. call' = [call EXCEPT ![r] = call[r]]   BY <2>1
  <2> QED BY <1>2, <2>1, <2>2 DEF Answer
<1>8. ASSUME NEW r \in Requests, AppendStored(r) \/ AppendAnswerLost(r) PROVE AInv'
  <2>1. /\ call' = call /\ tracked' = tracked /\ pc[r] = "append" /\ Len(log) + 1 \in Nat
        /\ own' = [own EXCEPT ![r] = @ \cup {Len(log) + 1}]
        /\ \/ call[r].op = "delete" /\ Answer(r, "204")
           \/ call[r].op # "delete" /\ answer' = answer /\ pc' = [pc EXCEPT ![r] = "readback"]
           \/ Answer(r, "502")
      BY <1>8 DEF AppendStored, AppendAnswerLost, Store, handler
  <2>2. LedgerTyped'   BY <2>1 DEF Answer
  <2>3. own'[r] = {Len(log) + 1} /\ r \notin tracked /\ answer[r] = "none"
      BY <2>1 DEF AppendsAtItsStep, AnswersMatchTheStore
  <2>4. call[r].op \in {"create", "update", "delete"}
      BY <2>1 DEF PermittedIsAuthor
  <2>5. Its(r)
    <3>1. /\ call'[r] = call[r] /\ r \notin tracked'
          /\ \/ pc'[r] = "answered" /\ answer'[r] \in {"204", "502"}
             \/ pc'[r] = "readback" /\ answer'[r] = "none" /\ call[r].op # "delete"
        BY <2>1, <2>3 DEF Answer
    <3> QED BY <2>3, <2>4, <3>1 DEF Its
  <2>6. \A s \in Requests : s # r =>
           pc'[s] = pc[s] /\ call'[s] = call[s] /\ own'[s] = own[s] /\ answer'[s] = answer[s]
      BY <2>1 DEF Answer
  <2>7. \A q \in Requests : q # r => Its(q)
      BY ONLY <2>1, <2>6, OthersKeep, IInv, AInv, r \in Requests DEF Its
  <2> QED BY <1>1, <2>2, <2>5, <2>7
<1>9. ASSUME NEW r \in Requests, ReadBack(r) PROVE AInv'
  <2>1. /\ pc[r] = "readback" /\ call' = call /\ own' = own
        /\ Answer(r, IF call[r].op = "create" THEN "201" ELSE "200")
        /\ tracked' = IF call[r].op = "create" THEN tracked \cup {call[r].post} ELSE tracked
      BY <1>9 DEF ReadBack, handler
  <2>2. call[r].op = "create" => call[r].post = r   BY <2>1 DEF CreatedOnce
  <2>3. LedgerTyped'   BY <2>1, <2>2 DEF Answer
  <2>4. own[r] # {} /\ r \notin tracked
      BY <2>1 DEF AppendsAtItsStep, AnswersMatchTheStore
  <2>5. Its(r)   BY <2>1, <2>2, <2>4 DEF Its, Answer, AnswersMatchTheStore
  <2>6. \A q \in Requests : q # r => Its(q)   BY <2>1, <2>2, OthersKeep DEF Its, Answer
  <2> QED BY <1>1, <2>3, <2>5, <2>6
<1>10. CASE UNCHANGED vars
  BY <1>10 DEF vars, AppendsAtItsStep, AnswersMatchTheStore
<1> QED BY <1>4, <1>5, <1>6, <1>7, <1>8, <1>9, <1>10 DEF Next

(* No answer misreports the store: at most one event per request, one      *)
(* behind every success, none behind a refusal, and a publication tracked  *)
(* when and only when it was answered.                                     *)
THEOREM AnswersHonest == Spec => []AnswersMatchTheStore
<1>1. AInv => AnswersMatchTheStore   BY DEF AInv
<1> QED BY Inductive, InitAInv, StepAInv, <1>1, PTL DEF Spec

-----------------------------------------------------------------------------
(* What a fold says of the events it was given.                            *)

(* A fold of events of the store, position by position.                    *)
Folder == [inner : View, deleted : BOOLEAN]

Folds(F, h, given) ==
    /\ F \in [Nat -> Folder] /\ F[0] = EmptyFolder
    /\ \A n \in Nat \ {0} :
          F[n] = IF n \in given THEN Apply(F[n - 1], h[n]) ELSE F[n - 1]

(* An event makes a folder of a folder.                                    *)
LEMMA ApplyTyped ==
    ASSUME NEW x \in Folder, NEW e \in StoreEvent
    PROVE  Apply(x, e) \in Folder
<1>1. Fresh(e) \in View   BY DEF Fresh, View, StoreEvent
<1>2. Patch(x.inner, e) \in View
  <2>1. x.inner.title \in Nat /\ x.inner.content \in Nat /\ x.inner.updated \in Nat
    BY DEF Folder, View
  <2>2. e.ver \in Nat /\ e.at \in Nat   BY DEF StoreEvent
  <2> QED BY <2>1, <2>2 DEF Patch, View, Later
<1> QED BY <1>1, <1>2 DEF Apply, Folder

(* The recursion that a fold is written as defines one.                    *)
LEMMA Unfolding ==
    ASSUME NEW h \in Seq(StoreEvent), NEW given \in SUBSET (1..Len(h))
    PROVE  Folds(Folded(h, given), h, given)
<1> DEFINE step == [n \in Nat |-> [x \in Folder |-> IF n \in given THEN Apply(x, h[n]) ELSE x]]
<1>1. step \in [Nat -> [Folder -> Folder]]
  <2>1. ASSUME NEW n \in Nat, NEW x \in Folder
        PROVE  (IF n \in given THEN Apply(x, h[n]) ELSE x) \in Folder
    <3>1. n \in given => h[n] \in StoreEvent   OBVIOUS
    <3> QED BY <3>1, ApplyTyped
  <2> QED BY <2>1
<1>2. EmptyFolder \in Folder   BY DEF EmptyFolder, Folder, NoView, View
<1>3. PICK F \in [Nat -> Folder] :
         F[0] = EmptyFolder /\ \A n \in Nat \ {0} : F[n] = step[n][F[n - 1]]
  <2> HIDE DEF step
  <2>1. \E f : Recurs(f, EmptyFolder, step, Folder)   BY <1>1, <1>2, Recursion
  <2> QED BY <2>1 DEF Recurs
<1> DEFINE At(f, n) == IF n = 0 THEN EmptyFolder
                         ELSE IF n \in given THEN Apply(f[n - 1], h[n]) ELSE f[n - 1]
<1>4. ASSUME NEW n \in Nat PROVE F[n] = At(F, n)
  <2>1. CASE n = 0   BY <1>3, <2>1
  <2>2. CASE n # 0
    <3>1. n - 1 \in Nat /\ F[n - 1] \in Folder   BY <2>2
    <3> QED BY <1>3, <2>2, <3>1
  <2> QED BY <2>1, <2>2
<1>5. F = [n \in Nat |-> At(F, n)]
  <2> HIDE DEF At
  <2> QED BY <1>4
<1> DEFINE G == CHOOSE f : f = [n \in Nat |-> At(f, n)]
<1>6. G = [n \in Nat |-> At(G, n)]
  <2> HIDE DEF At
  <2> QED BY <1>5
<1>7. G = Folded(h, given)   BY DEF Folded
<1> HIDE DEF G
<1>8. ASSUME NEW n \in Nat PROVE G[n] = At(G, n)
  <2> HIDE DEF At
  <2> QED BY <1>6
<1>9. \A n \in Nat : G[n] \in Folder
  <2> DEFINE S == {n \in Nat : G[n] \in Folder}
  <2>1. 0 \in S   BY <1>8, <1>2
  <2>2. \A n \in Nat : n \in S => n + 1 \in S
    <3> SUFFICES ASSUME NEW n \in Nat, G[n] \in Folder PROVE G[n + 1] \in Folder   OBVIOUS
    <3>1. n + 1 # 0 /\ (n + 1) - 1 = n /\ n + 1 \in Nat   OBVIOUS
    <3>2. G[n + 1] = IF n + 1 \in given THEN Apply(G[n], h[n + 1]) ELSE G[n]   BY <1>8, <3>1
    <3>3. n + 1 \in given => h[n + 1] \in StoreEvent   OBVIOUS
    <3> QED BY <3>2, <3>3, ApplyTyped
  <2> HIDE DEF S
  <2>3. \A n \in Nat : n \in S   BY <2>1, <2>2, InductionOnASet
  <2> QED BY <2>3 DEF S
<1>10. G[0] = EmptyFolder   BY <1>8
<1>11. \A n \in Nat \ {0} : G[n] = IF n \in given THEN Apply(G[n - 1], h[n]) ELSE G[n - 1]
  BY <1>8
<1>12. G \in [Nat -> Folder]
  <2>1. G = [n \in Nat |-> G[n]]
    <3> HIDE DEF At
    <3> QED BY <1>6, <1>8
  <2> QED BY <1>9, <2>1
<1> QED BY <1>7, <1>10, <1>11, <1>12 DEF Folds

(* What the fold of a history says of the post after n of its events: it   *)
(* is deleted when one of them deleted it, known when one created it, and  *)
(* each field is at least as new as every one of them that set it.         *)
Tells(x, h, p, n) ==
    /\ x.deleted <=> \E i \in 1..n : IsDeletion(h[i], p)
    /\ (\A i \in 1..n : ~IsCreation(h[i], p)) => x.inner = NoView
    /\ \A i \in 1..n : \A f \in Fields : Writes(h[i], p, f) => x.inner[f] >= i

(* A history as the handlers write it.                                     *)
InOrder(h) ==
    \A i \in 1..Len(h) :
        /\ h[i].ver = i
        /\ h[i].type = "created" => h[i].sets = Fields
        /\ h[i].type = "deleted" => h[i].sets = {}
        /\ h[i].type = "edited" => \E j \in 1..(i - 1) : IsCreation(h[j], h[i].post)

(* One event of the post keeps what its folder tells true.                 *)
LEMMA ApplyTells ==
    ASSUME NEW h \in Seq(StoreEvent), InOrder(h), NEW p \in Posts,
           NEW n \in Nat, n + 1 \in 1..Len(h), h[n + 1].post = p,
           NEW x \in Folder, Tells(x, h, p, n)
    PROVE  Tells(Apply(x, h[n + 1]), h, p, n + 1)
<1> DEFINE e == h[n + 1]
<1>1. e \in StoreEvent   OBVIOUS
<1>2. /\ e.ver = n + 1 /\ e.post = p /\ e.type \in {"created", "edited", "deleted"}
      /\ e.sets \subseteq Fields
  BY <1>1 DEF InOrder, StoreEvent
<1>3. /\ e.type = "created" => e.sets = Fields
      /\ e.type = "deleted" => e.sets = {}
      /\ e.type = "edited" => \E j \in 1..n : IsCreation(h[j], p)
  <2>1. (n + 1) - 1 = n   OBVIOUS
  <2> QED BY <2>1 DEF InOrder
<1>4. \A i \in 1..n + 1 : i \in 1..n \/ i = n + 1   OBVIOUS
<1>5. /\ x.inner \in View /\ x.deleted \in BOOLEAN
      /\ x = [inner |-> x.inner, deleted |-> x.deleted]
  BY DEF Folder
<1> HIDE DEF e
<1>6. h[n + 1] = e   BY DEF e
<1>7. CASE e.type = "created"
  <2> DEFINE y == Apply(x, e)
  <2>1. y.inner = Fresh(e) /\ y.deleted = x.deleted   BY <1>7, <1>5 DEF Apply
  <2> HIDE DEF y
  <2>2. y.inner["title"] = n + 1 /\ y.inner["content"] = n + 1   BY <2>1, <1>2 DEF Fresh
  <2>3. IsCreation(h[n + 1], p) /\ ~IsDeletion(h[n + 1], p)
    BY <1>2, <1>6, <1>7 DEF IsCreation, IsDeletion
  <2>4. y.deleted <=> \E i \in 1..n + 1 : IsDeletion(h[i], p)   BY <1>4, <2>1, <2>3 DEF Tells
  <2>5. ~(\A i \in 1..n + 1 : ~IsCreation(h[i], p))   BY <2>3
  <2>6. \A i \in 1..n + 1 : \A f \in Fields : y.inner[f] >= i   BY <2>2 DEF Fields
  <2>7. Tells(y, h, p, n + 1)   BY <2>4, <2>5, <2>6 DEF Tells
  <2> QED BY <2>7, <1>6 DEF y
<1>8. CASE e.type = "edited"
  <2> DEFINE y == Apply(x, e)
  <2>1. PICK j \in 1..n : IsCreation(h[j], p)   BY <1>3, <1>8
  <2>2. x.inner.title >= 1
    <3>1. j \in 1..Len(h) /\ h[j].type = "created" /\ h[j].post = p
      BY <2>1 DEF IsCreation
    <3>2. h[j].sets = Fields   BY <3>1 DEF InOrder
    <3>3. Writes(h[j], p, "title")   BY <3>1, <3>2 DEF Writes, Fields
    <3>4. x.inner["title"] >= j   BY <2>1, <3>3 DEF Tells, Fields
    <3> QED BY <3>4, <1>5 DEF View
  <2>3. x.inner # NoView   BY <2>2 DEF NoView
  <2>4. y.inner = Patch(x.inner, e) /\ y.deleted = x.deleted
    BY <1>5, <1>8, <2>3 DEF Apply
  <2> HIDE DEF y
  <2>5. \A f \in Fields : y.inner[f] = IF f \in e.sets THEN n + 1 ELSE x.inner[f]
    BY <2>4, <1>2 DEF Patch, Fields
  <2>6. ~IsDeletion(h[n + 1], p)   BY <1>6, <1>8 DEF IsDeletion
  <2>7. y.deleted <=> \E i \in 1..n + 1 : IsDeletion(h[i], p)   BY <1>4, <2>4, <2>6 DEF Tells
  <2>8. ASSUME NEW i \in 1..n + 1, NEW f \in Fields, Writes(h[i], p, f)
        PROVE  y.inner[f] >= i
    <3>1. CASE f \in e.sets   BY <2>5, <3>1
    <3>2. CASE f \notin e.sets
      <4>1. i \in 1..n   BY <3>2, <2>8, <1>4, <1>6 DEF Writes
      <4>2. x.inner[f] >= i   BY <4>1, <2>8 DEF Tells
      <4> QED BY <4>2, <3>2, <2>5
    <3> QED BY <3>1, <3>2
  <2>9. ~(\A i \in 1..n + 1 : ~IsCreation(h[i], p))   BY <2>1
  <2>10. Tells(y, h, p, n + 1)   BY <2>7, <2>8, <2>9 DEF Tells
  <2> QED BY <2>10, <1>6 DEF y
<1>9. CASE e.type = "deleted"
  <2> DEFINE y == Apply(x, e)
  <2>1. y.inner = x.inner /\ y.deleted = TRUE   BY <1>5, <1>9 DEF Apply
  <2> HIDE DEF y
  <2>2. IsDeletion(h[n + 1], p) /\ ~IsCreation(h[n + 1], p)
    BY <1>2, <1>6, <1>9 DEF IsDeletion, IsCreation
  <2>3. y.deleted <=> \E i \in 1..n + 1 : IsDeletion(h[i], p)   BY <2>1, <2>2
  <2>4. ASSUME \A i \in 1..n + 1 : ~IsCreation(h[i], p) PROVE y.inner = NoView
    BY <2>1, <2>4 DEF Tells
  <2>5. ASSUME NEW i \in 1..n + 1, NEW f \in Fields, Writes(h[i], p, f)
        PROVE  y.inner[f] >= i
    <3>1. e.sets = {}   BY <1>3, <1>9
    <3>2. i \in 1..n   BY <3>1, <2>5, <1>4, <1>6 DEF Writes
    <3> QED BY <3>2, <2>1, <2>5 DEF Tells
  <2>6. Tells(y, h, p, n + 1)   BY <2>3, <2>4, <2>5 DEF Tells
  <2> QED BY <2>6, <1>6 DEF y
<1> QED BY <1>2, <1>7, <1>8, <1>9

(* An event of another post changes nothing of what is known of this one.  *)
LEMMA SkipTells ==
    ASSUME NEW h \in Seq(StoreEvent), NEW p \in Posts,
           NEW n \in Nat, n + 1 \in 1..Len(h), h[n + 1].post # p,
           NEW x, Tells(x, h, p, n)
    PROVE  Tells(x, h, p, n + 1)
<1>1. \A i \in 1..n + 1 : i \in 1..n \/ i = n + 1   OBVIOUS
<1>2. 1..n \subseteq 1..n + 1   OBVIOUS
<1>3. ~IsDeletion(h[n + 1], p) /\ ~IsCreation(h[n + 1], p)
      /\ \A f \in Fields : ~Writes(h[n + 1], p, f)
  BY DEF IsDeletion, IsCreation, Writes
<1> QED BY <1>1, <1>2, <1>3 DEF Tells

(* The events of one post.                                                 *)
Of(h, p) == {i \in 1..Len(h) : h[i].post = p}

(* A fold of a whole stream tells what its events did.                     *)
LEMMA FoldTells ==
    ASSUME NEW h \in Seq(StoreEvent), InOrder(h), NEW p \in Posts
    PROVE  Tells(Folded(h, Of(h, p))[Len(h)], h, p, Len(h))
<1> DEFINE F == Folded(h, Of(h, p))
<1>1. Of(h, p) \in SUBSET (1..Len(h))   BY DEF Of
<1>2. Folds(F, h, Of(h, p))   BY <1>1, Unfolding
<1>3. /\ F \in [Nat -> Folder] /\ F[0] = EmptyFolder
      /\ \A n \in Nat \ {0} : F[n] = IF n \in Of(h, p) THEN Apply(F[n - 1], h[n]) ELSE F[n - 1]
  BY <1>2 DEF Folds
<1> HIDE DEF F
<1> DEFINE S == {n \in Nat : n <= Len(h) => Tells(F[n], h, p, n)}
<1>4. 0 \in S   BY <1>3 DEF Tells, EmptyFolder
<1>5. \A n \in Nat : n \in S => n + 1 \in S
  <2> SUFFICES ASSUME NEW n \in Nat, n \in S, n + 1 <= Len(h)
               PROVE  Tells(F[n + 1], h, p, n + 1)
    OBVIOUS
  <2>1. n + 1 \in 1..Len(h) /\ Tells(F[n], h, p, n) /\ F[n] \in Folder   BY <1>3
  <2>2. F[n + 1] = IF n + 1 \in Of(h, p) THEN Apply(F[n], h[n + 1]) ELSE F[n]
    <3>1. n + 1 \in Nat \ {0} /\ (n + 1) - 1 = n   OBVIOUS
    <3> QED BY <1>3, <3>1
  <2>3. CASE h[n + 1].post = p
    <3>1. n + 1 \in Of(h, p)   BY <2>1, <2>3 DEF Of
    <3>2. F[n + 1] = Apply(F[n], h[n + 1])   BY <2>2, <3>1
    <3>3. Tells(Apply(F[n], h[n + 1]), h, p, n + 1)   BY <2>1, <2>3, ApplyTells
    <3> QED BY <3>2, <3>3
  <2>4. CASE h[n + 1].post # p
    <3>1. F[n + 1] = F[n]   BY <2>2, <2>4 DEF Of
    <3>2. Tells(F[n], h, p, n + 1)   BY <2>1, <2>4, SkipTells
    <3> QED BY <3>1, <3>2
  <2> QED BY <2>3, <2>4
<1>6. \A n \in Nat : n \in S
  <2> HIDE DEF S
  <2> QED BY <1>4, <1>5, InductionOnASet
<1>7. Len(h) \in Nat   OBVIOUS
<1> QED BY <1>6, <1>7 DEF F

-----------------------------------------------------------------------------
(* What a read of Core is given: the whole stream, while it fits.          *)

USE LimitsAssumption, TenantAssumption

(* The log only grows at its end.                                          *)
Grows ==
    /\ log \in Seq(StoreEvent) /\ log' \in Seq(StoreEvent)
    /\ \A i \in 1..Len(log) : i \in 1..Len(log') /\ log'[i] = log[i]

(* The positions of the log, and those of one post.                        *)
LEMMA LogIsIndexed ==
    ASSUME log \in Seq(StoreEvent), NEW p
    PROVE  /\ DOMAIN log = 1..Len(log) /\ Len(log) \in Nat
           /\ StreamOf(p) = Of(log, p) /\ StreamOf(p) \in SUBSET (1..Len(log))
           /\ IsFiniteSet(StreamOf(p)) /\ Cardinality(StreamOf(p)) \in Nat
<1>1. DOMAIN log = 1..Len(log) /\ Len(log) \in Nat   OBVIOUS
<1>2. StreamOf(p) = Of(log, p) /\ StreamOf(p) \in SUBSET (1..Len(log))
  BY <1>1 DEF StreamOf, Of
<1>3. IsFiniteSet(1..Len(log))   BY <1>1, FS_Interval
<1>4. IsFiniteSet(StreamOf(p))   BY ONLY <1>2, <1>3, FS_Subset
<1>5. Cardinality(StreamOf(p)) \in Nat   BY ONLY <1>4, FS_CardinalityType
<1> QED BY <1>1, <1>2, <1>4, <1>5

(* A limit that a set of positions keeps to leaves it whole.               *)
LEMMA OldestOfFew ==
    ASSUME NEW S \in SUBSET Nat, IsFiniteSet(S), NEW n \in Nat, Cardinality(S) <= n
    PROVE  Oldest(S, n) = S
<1>1. ASSUME NEW i \in S PROVE Cardinality({j \in S : j <= i}) <= n
  <2> DEFINE T == {j \in S : j <= i}
  <2>1. T \in SUBSET S   OBVIOUS
  <2> HIDE DEF T
  <2>2. IsFiniteSet(T) /\ Cardinality(T) <= Cardinality(S)   BY ONLY <2>1, IsFiniteSet(S), FS_Subset
  <2>3. Cardinality(T) \in Nat /\ Cardinality(S) \in Nat   BY ONLY <2>2, IsFiniteSet(S), FS_CardinalityType
  <2>4. Cardinality(T) <= n   BY <2>2, <2>3
  <2> QED BY <2>4 DEF T
<1> QED BY <1>1 DEF Oldest

(* A stream that fits today fitted at every moment before.                 *)
LEMMA FitsBefore ==
    ASSUME Grows, NEW p, Fits(p)'
    PROVE  Fits(p)
<1>1. StreamOf(p) \in SUBSET StreamOf(p)'   BY DEF Grows, StreamOf
<1>2. /\ IsFiniteSet(StreamOf(p)) /\ Cardinality(StreamOf(p)) \in Nat
  BY LogIsIndexed DEF Grows
<1>3. StreamOf(p)' \in SUBSET (1..Len(log'))   BY DEF Grows, StreamOf
<1>4. Len(log') \in Nat   BY DEF Grows
<1>5. IsFiniteSet(1..Len(log'))   BY ONLY <1>4, FS_Interval
<1>6. IsFiniteSet(StreamOf(p)')   BY ONLY <1>3, <1>5, FS_Subset
<1>7. Cardinality(StreamOf(p)') \in Nat   BY ONLY <1>6, FS_CardinalityType
<1>8. Cardinality(StreamOf(p)) <= Cardinality(StreamOf(p)')   BY ONLY <1>1, <1>6, FS_Subset
<1> DEFINE c == Cardinality(StreamOf(p))
           d == Cardinality(StreamOf(p)')
<1>9. d <= ReadLimit   BY DEF Fits
<1>10. c <= ReadLimit
  <2> HIDE DEF c, d
  <2> QED BY <1>2, <1>7, <1>8, <1>9 DEF c, d
<1> QED BY <1>10 DEF Fits

(* What a read of a post folds is its whole stream, while that fits.       *)
LEMMA LoadIsWhole ==
    ASSUME log \in Seq(StoreEvent), NEW p, Fits(p)
    PROVE  Load(p) = FoldEvents(log, Of(log, p))
<1>1. /\ StreamOf(p) = Of(log, p) /\ StreamOf(p) \in SUBSET Nat /\ IsFiniteSet(StreamOf(p))
      /\ Cardinality(StreamOf(p)) <= ReadLimit
  BY LogIsIndexed DEF Fits
<1>2. Oldest(StreamOf(p), ReadLimit) = StreamOf(p)   BY <1>1, OldestOfFew
<1> QED BY <1>1, <1>2 DEF Load

(* And so of a scan of all of them, when the query carries the tenant.     *)
LEMMA ScanIsWhole ==
    ASSUME log \in Seq(StoreEvent), NEW p, QueryAddsTenant = TRUE, Len(log) <= ScanLimit
    PROVE  StreamOf(p) \cap Scanned = Of(log, p)
<1>1. /\ DOMAIN log = 1..Len(log) /\ Len(log) \in Nat
      /\ StreamOf(p) = Of(log, p) /\ StreamOf(p) \in SUBSET (1..Len(log))
  BY LogIsIndexed
<1>2. IsFiniteSet(1..Len(log)) /\ Cardinality(1..Len(log)) = Len(log)
  <2>1. ASSUME NEW n \in Nat PROVE IsFiniteSet(1..n) /\ Cardinality(1..n) = n
    <3>1. IsFiniteSet(1..n) /\ Cardinality(1..n) = IF 1 > n THEN 0 ELSE n - 1 + 1
      BY ONLY n \in Nat, FS_Interval
    <3> QED BY ONLY n \in Nat, <3>1
  <2> QED BY <1>1, <2>1
<1>3. Oldest(1..Len(log), ScanLimit) = 1..Len(log)
  <2>1. 1..Len(log) \in SUBSET Nat /\ Cardinality(1..Len(log)) <= ScanLimit   BY <1>1, <1>2
  <2> QED BY <2>1, <1>2, OldestOfFew
<1> QED BY <1>1, <1>3 DEF Scanned

(* What a view says that was folded from the whole stream.                 *)
LEMMA WholeFoldTells ==
    ASSUME log \in Seq(StoreEvent), InOrder(log), NEW p \in Posts,
           NEW v, v = FoldEvents(log, Of(log, p))
    PROVE  /\ (\E i \in 1..Len(log) : IsDeletion(log[i], p)) => v = NoView
           /\ LiveIn(log, p, Len(log)) => v # NoView
           /\ v # NoView => \A i \in 1..Len(log) : \A f \in Fields :
                               Writes(log[i], p, f) => v[f] >= i
<1> DEFINE x == Folded(log, Of(log, p))[Len(log)]
<1>1. v = Finalize(x)   BY DEF FoldEvents
<1>2. Tells(x, log, p, Len(log))   BY FoldTells
<1> HIDE DEF x
<1>3. (\E i \in 1..Len(log) : IsDeletion(log[i], p)) => v = NoView
  BY <1>1, <1>2 DEF Tells, Finalize
<1>4. ASSUME LiveIn(log, p, Len(log)) PROVE v # NoView
  <2>1. PICK i \in 1..Len(log) : IsCreation(log[i], p)   BY <1>4 DEF LiveIn
  <2>2. v = x.inner   BY <1>1, <1>2, <1>4 DEF LiveIn, Tells, Finalize
  <2>3. Writes(log[i], p, "title")   BY <2>1 DEF InOrder, IsCreation, Writes, Fields
  <2>4. x.inner["title"] >= i   BY <1>2, <2>3 DEF Tells, Fields
  <2>5. x.inner # NoView   BY <2>4 DEF NoView
  <2> QED BY <2>2, <2>5
<1>5. ASSUME v # NoView, NEW i \in 1..Len(log), NEW f \in Fields, Writes(log[i], p, f)
      PROVE  v[f] >= i
  BY <1>1, <1>2, <1>5 DEF Tells, Finalize
<1> QED BY <1>3, <1>4, <1>5

(* A read answers a view.                                                  *)
LEMMA LoadIsAView ==
    ASSUME log \in Seq(StoreEvent), NEW p
    PROVE  Load(p) \in View
<1> DEFINE given == Oldest(StreamOf(p), ReadLimit)
<1>1. given \in SUBSET (1..Len(log)) /\ Len(log) \in Nat   BY LogIsIndexed DEF Oldest
<1> HIDE DEF given
<1>2. Folds(Folded(log, given), log, given)   BY <1>1, Unfolding
<1>3. Folded(log, given)[Len(log)] \in Folder   BY <1>1, <1>2 DEF Folds
<1> QED BY <1>3 DEF given, Load, FoldEvents, Finalize, Folder, View, NoView

-----------------------------------------------------------------------------
(* What the answers say.                                                   *)

(* What each request did, saw gone and saw alive is in the store.          *)
Remembered(r) ==
    /\ \A i \in own[r] : i \in 1..Len(log) /\ log[i].post = call[r].post
    /\ \A p \in gone[r] : \E i \in 1..Len(log) : IsDeletion(log[i], p)
    /\ \A p \in there[r] : \E i \in 1..Len(log) : IsCreation(log[i], p)
    /\ call[r].op = "delete" /\ answer[r] = "204" =>
          \E i \in 1..Len(log) : IsDeletion(log[i], call[r].post)

(* What each answer says, as the three properties have it.                 *)
ReadsItsWrite(r) ==
    answer[r] \in {"200", "201"} /\ Fits(call[r].post) =>
        \A i \in own[r] : \A f \in log[i].sets : view[r][f] >= i

SeesNoDeleted(r) ==
    answer[r] = "200" /\ call[r].op # "list" /\ Fits(call[r].post) =>
        call[r].post \notin gone[r]

ListsThePosts(r) ==
    QueryAddsTenant = TRUE /\ answer[r] = "200" /\ call[r].op = "list" /\ Len(log) <= ScanLimit =>
        /\ \A p \in there[r] : LiveIn(log, p, Len(log)) => p \in listed[r]
        /\ listed[r] \cap gone[r] = {}

Truthful(r) == Remembered(r) /\ ReadsItsWrite(r) /\ SeesNoDeleted(r) /\ ListsThePosts(r)

ReadsTyped ==
    /\ view \in [Requests -> View] /\ listed \in [Requests -> SUBSET Posts]
    /\ gone \in [Requests -> SUBSET Posts] /\ there \in [Requests -> SUBSET Posts]

RInv == ReadsTyped /\ InOrder(log) /\ \A r \in Requests : Truthful(r)

(* Before any request nothing is remembered and nothing answered.          *)
LEMMA InitRInv == Init => RInv
<1> SUFFICES ASSUME Init PROVE RInv   OBVIOUS
<1>1. ReadsTyped   BY DEF Init, ReadsTyped, NoView, View
<1>2. InOrder(log)
  <2>1. Len(log) = 0   BY DEF Init
  <2> QED BY <2>1 DEF InOrder
<1>3. \A r \in Requests : Truthful(r)
  BY DEF Init, Truthful, Remembered, ReadsItsWrite, SeesNoDeleted, ListsThePosts
<1> QED BY <1>1, <1>2, <1>3 DEF RInv

(* What a request has been answered stays true whatever else is appended.  *)
LEMMA TruthStays ==
    ASSUME IInv, AInv, RInv, Grows, NEW q \in Requests,
           call'[q] = call[q], answer'[q] = answer[q], own'[q] = own[q], view'[q] = view[q],
           listed'[q] = listed[q], gone'[q] = gone[q], there'[q] = there[q]
    PROVE  Truthful(q)'
<1>1. Truthful(q)   BY DEF RInv
<1>2. Len(log) \in Nat /\ Len(log') \in Nat /\ Len(log) <= Len(log')
  BY DEF Grows
<1>3. Remembered(q)'
  <2>1. Remembered(q)   BY <1>1 DEF Truthful
  <2>2. \A i \in 1..Len(log) : i \in 1..Len(log') /\ log'[i] = log[i]   BY DEF Grows
  <2>3. \A i \in own[q] : i \in 1..Len(log') /\ log'[i].post = call[q].post
    BY ONLY <2>1, <2>2 DEF Remembered
  <2>4. /\ \A p \in gone[q] : \E i \in 1..Len(log') : IsDeletion(log'[i], p)
        /\ call[q].op = "delete" /\ answer[q] = "204" =>
              \E i \in 1..Len(log') : IsDeletion(log'[i], call[q].post)
    BY ONLY <2>1, <2>2 DEF Remembered
  <2>5. \A p \in there[q] : \E i \in 1..Len(log') : IsCreation(log'[i], p)
    BY ONLY <2>1, <2>2 DEF Remembered
  <2> QED BY <2>3, <2>4, <2>5 DEF Remembered
<1>4. ReadsItsWrite(q)'
  <2> SUFFICES ASSUME answer[q] \in {"200", "201"}, Fits(call[q].post)',
                      NEW i \in own[q], NEW f \in log'[i].sets
               PROVE  view[q][f] >= i
    BY DEF ReadsItsWrite
  <2>1. Fits(call[q].post)   BY FitsBefore
  <2>2. log'[i] = log[i]   BY <1>1 DEF Truthful, Remembered, Grows
  <2> QED BY <1>1, <2>1, <2>2 DEF Truthful, ReadsItsWrite
<1>5. SeesNoDeleted(q)'
  <2> SUFFICES ASSUME answer[q] = "200", call[q].op # "list", Fits(call[q].post)'
               PROVE  call[q].post \notin gone[q]
    BY DEF SeesNoDeleted
  <2>1. Fits(call[q].post)   BY FitsBefore
  <2> QED BY <1>1, <2>1 DEF Truthful, SeesNoDeleted
<1>6. ListsThePosts(q)'
  <2> SUFFICES ASSUME QueryAddsTenant = TRUE, answer[q] = "200", call[q].op = "list",
                      Len(log') <= ScanLimit
               PROVE  /\ \A p \in there[q] : LiveIn(log', p, Len(log')) => p \in listed[q]
                      /\ listed[q] \cap gone[q] = {}
    BY DEF ListsThePosts
  <2>1. Len(log) <= ScanLimit   BY ONLY <1>2, Len(log') <= ScanLimit, LimitsAssumption
  <2>2. ASSUME NEW p \in there[q], LiveIn(log', p, Len(log')) PROVE LiveIn(log, p, Len(log))
    <3>1. \E i \in 1..Len(log) : IsCreation(log[i], p)   BY <1>1 DEF Truthful, Remembered
    <3> QED BY <2>2, <3>1 DEF LiveIn, Grows
  <2> QED BY <1>1, <2>1, <2>2 DEF Truthful, ListsThePosts
<1> QED BY <1>3, <1>4, <1>5, <1>6 DEF Truthful

(* A request that is answered no success says nothing, and remembers what  *)
(* it did.                                                                 *)
LEMMA SilenceIsTruthful ==
    ASSUME IInv, AInv, RInv, Grows, NEW q \in Requests,
           call'[q] = call[q], own'[q] = own[q], gone'[q] = gone[q], there'[q] = there[q],
           answer'[q] \notin {"200", "201", "204"}
    PROVE  Truthful(q)'
<1>1. Truthful(q)   BY DEF RInv
<1>2. Remembered(q)'   BY <1>1 DEF Truthful, Remembered, Grows
<1> QED BY <1>2 DEF Truthful, ReadsItsWrite, SeesNoDeleted, ListsThePosts

(* A request arrives: it has done nothing, and what it sees gone or alive  *)
(* is so in the store.                                                     *)
LEMMA BeginIsTruthful ==
    ASSUME IInv, AInv, RInv, NEW r \in Requests, Begin(r)
    PROVE  Truthful(r)' /\ ReadsTyped'
<1>1. /\ pc[r] = "idle" /\ log' = log /\ own' = own /\ view' = view /\ listed' = listed
      /\ gone' = [gone EXCEPT ![r] = Gone] /\ there' = [there EXCEPT ![r] = There]
  BY DEF Begin
<1>2. own[r] = {} /\ answer[r] = "none"   BY <1>1 DEF AInv, AppendsAtItsStep
<1>3. answer'[r] \in {"none", "422"}
  BY <1>2 DEF Begin, Answer, AInv, LedgerTyped
<1>4. ASSUME NEW p \in Gone PROVE \E i \in 1..Len(log) : IsDeletion(log[i], p)
  <2>1. PICK q \in Requests : call[q].op = "delete" /\ call[q].post = p /\ answer[q] = "204"
    BY DEF Gone
  <2>2. Remembered(q)   BY DEF RInv, Truthful
  <2> QED BY <2>1, <2>2 DEF Remembered
<1>5. ASSUME NEW p \in There PROVE \E i \in 1..Len(log) : IsCreation(log[i], p)
  BY DEF There, LiveIn
<1>6. ReadsTyped'   BY <1>1 DEF RInv, ReadsTyped, Gone, There
<1>7. gone'[r] = Gone /\ there'[r] = There /\ own'[r] = {}
  BY <1>1, <1>2 DEF RInv, ReadsTyped
<1>8. Remembered(r)'   BY <1>1, <1>3, <1>4, <1>5, <1>7 DEF Remembered
<1>9. ReadsItsWrite(r)' /\ SeesNoDeleted(r)' /\ ListsThePosts(r)'
  BY <1>3 DEF ReadsItsWrite, SeesNoDeleted, ListsThePosts
<1> QED BY <1>6, <1>8, <1>9 DEF Truthful

(* A read of a whole stream that finds the post shows every event the      *)
(* request stored, and a post that no one was told is gone.                *)
LEMMA FoundIsTruthful ==
    ASSUME IInv, AInv, RInv, NEW r \in Requests, GetFound(r) \/ ReadBack(r)
    PROVE  Truthful(r)' /\ ReadsTyped'
<1> DEFINE p == call[r].post   v == Load(p)
<1>1. /\ log' = log /\ call' = call /\ own' = own /\ listed' = listed
      /\ gone' = gone /\ there' = there
      /\ view' = [view EXCEPT ![r] = v] /\ v # NoView
      /\ call[r].op # "list" /\ call[r].op # "delete"
  <2>1. CASE GetFound(r)   BY <2>1 DEF GetFound, Loaded, Keep, handler
  <2>2. CASE ReadBack(r)
    <3>1. pc[r] = "readback" /\ call[r].op \in {"create", "update"}
      BY <2>2 DEF ReadBack, AInv, AppendsAtItsStep
    <3> QED BY <2>2, <3>1 DEF ReadBack, Keep, handler
  <2> QED BY <2>1, <2>2
<1>2. log \in Seq(StoreEvent) /\ p \in Posts   BY DEF IInv, StoreTyped
<1>3. v \in View   BY <1>2, LoadIsAView
<1>4. Truthful(r) /\ InOrder(log)   BY DEF RInv
<1> HIDE DEF v, p
<1>5. ReadsTyped' /\ view'[r] = v   BY <1>1, <1>3 DEF RInv, ReadsTyped
<1>6. Remembered(r)'   BY <1>1, <1>4 DEF Truthful, Remembered
<1>7. ASSUME Fits(p)
      PROVE  /\ ~\E i \in 1..Len(log) : IsDeletion(log[i], p)
             /\ \A i \in 1..Len(log) : \A f \in Fields : Writes(log[i], p, f) => v[f] >= i
  <2>1. v = FoldEvents(log, Of(log, p))   BY <1>2, <1>7, LoadIsWhole DEF v
  <2> QED BY <1>1, <1>2, <1>4, <2>1, WholeFoldTells
<1>8. Fits(call[r].post)' <=> Fits(p)   BY <1>1 DEF Fits, StreamOf, p
<1>9. ReadsItsWrite(r)'
  <2> SUFFICES ASSUME Fits(p), NEW i \in own[r], NEW f \in log[i].sets PROVE v[f] >= i
    BY <1>1, <1>5, <1>8 DEF ReadsItsWrite
  <2>1. i \in 1..Len(log) /\ log[i].post = p   BY <1>4 DEF Truthful, Remembered, p
  <2>2. log[i] \in StoreEvent   BY <1>2, <2>1
  <2>3. f \in Fields /\ Writes(log[i], p, f)   BY <2>1, <2>2 DEF StoreEvent, Writes
  <2> QED BY <1>7, <2>1, <2>3
<1>10. SeesNoDeleted(r)'
  <2> SUFFICES ASSUME Fits(p), p \in gone[r] PROVE FALSE
    BY <1>1, <1>8 DEF SeesNoDeleted, p
  <2> QED BY <1>4, <1>7 DEF Truthful, Remembered
<1>11. ListsThePosts(r)'   BY <1>1 DEF ListsThePosts
<1> QED BY <1>5, <1>6, <1>9, <1>10, <1>11 DEF Truthful

(* A listing folded from every event shows the posts that are alive.       *)
LEMMA ListingIsTruthful ==
    ASSUME IInv, AInv, RInv, NEW r \in Requests, ListFallback(r)
    PROVE  Truthful(r)' /\ ReadsTyped'
<1>1. /\ log' = log /\ call' = call /\ own' = own /\ view' = view
      /\ gone' = gone /\ there' = there /\ call[r].op = "list"
      /\ pc[r] = "load" /\ own[r] = {}
  BY DEF ListFallback, AInv, AppendsAtItsStep
<1>2. \/ listed' = [listed EXCEPT ![r] = FoldAllPosts] /\ Answer(r, "200")
      \/ listed' = listed /\ Answer(r, "502")
  BY DEF ListFallback
<1>3. FoldAllPosts \subseteq Posts   BY DEF FoldAllPosts
<1>4. ReadsTyped'   BY <1>1, <1>2, <1>3 DEF RInv, ReadsTyped
<1>5. Truthful(r) /\ InOrder(log) /\ log \in Seq(StoreEvent)
  BY DEF RInv, IInv, StoreTyped
<1>6. Remembered(r)'   BY <1>1, <1>5 DEF Truthful, Remembered
<1>7. ReadsItsWrite(r)' /\ SeesNoDeleted(r)'   BY <1>1 DEF ReadsItsWrite, SeesNoDeleted
<1>8. ListsThePosts(r)'
  <2> SUFFICES ASSUME QueryAddsTenant = TRUE, answer'[r] = "200", Len(log) <= ScanLimit
               PROVE  /\ \A p \in there[r] : LiveIn(log, p, Len(log)) => p \in listed'[r]
                      /\ listed'[r] \cap gone[r] = {}
    BY <1>1 DEF ListsThePosts
  <2>1. listed'[r] = FoldAllPosts
    BY <1>2 DEF Answer, RInv, ReadsTyped, AInv, LedgerTyped
  <2>2. ASSUME NEW p \in Posts
        PROVE  p \in FoldAllPosts <=> FoldEvents(log, Of(log, p)) # NoView
    <3>1. StreamOf(p) \cap Scanned = Of(log, p)   BY <1>5, ScanIsWhole
    <3> QED BY <3>1 DEF FoldAllPosts
  <2>3. there[r] \subseteq Posts /\ gone[r] \subseteq Posts   BY DEF RInv, ReadsTyped
  <2>4. ASSUME NEW p \in there[r], LiveIn(log, p, Len(log)) PROVE p \in FoldAllPosts
    <3>1. p \in Posts   BY <2>3
    <3>2. FoldEvents(log, Of(log, p)) # NoView   BY <1>5, <2>4, <3>1, WholeFoldTells
    <3> QED BY <2>2, <3>1, <3>2
  <2>5. ASSUME NEW p \in gone[r] PROVE p \notin FoldAllPosts
    <3>1. p \in Posts   BY <2>3
    <3>2. \E i \in 1..Len(log) : IsDeletion(log[i], p)   BY <1>5 DEF Truthful, Remembered
    <3>3. FoldEvents(log, Of(log, p)) = NoView   BY <1>5, <3>1, <3>2, WholeFoldTells
    <3> QED BY <2>2, <3>1, <3>3
  <2> QED BY <2>1, <2>4, <2>5
<1> QED BY <1>4, <1>6, <1>7, <1>8 DEF Truthful

(* What a handler appends keeps the log as handlers write it, and its      *)
(* answer true: a 204 is a delete's, with the deletion stored.             *)
LEMMA AppendIsTruthful ==
    ASSUME IInv, AInv, RInv, NEW r \in Requests, AppendStored(r) \/ AppendAnswerLost(r)
    PROVE  Grows /\ InOrder(log') /\ Truthful(r)' /\ ReadsTyped'
<1> DEFINE n == Len(log) + 1   p == call[r].post
<1>1. /\ pc[r] = "append" /\ call' = call /\ own' = [own EXCEPT ![r] = @ \cup {Len(log) + 1}]
      /\ listed' = listed /\ gone' = gone /\ there' = there
  BY DEF AppendStored, AppendAnswerLost, Store, handler
<1>2. PICK sets \in SetsOf(call[r].op), t \in Times :
         log' = Append(log, [type |-> TypeOf(call[r].op), post |-> call[r].post,
                             actor |-> call[r].actor, sets |-> sets,
                             ver |-> Len(log) + 1, at |-> t])
  BY DEF AppendStored, AppendAnswerLost, Store
<1> DEFINE e == [type |-> TypeOf(call[r].op), post |-> call[r].post,
                 actor |-> call[r].actor, sets |-> sets, ver |-> Len(log) + 1, at |-> t]
<1>3. /\ call[r].actor \in Actors /\ p \in Posts /\ call[r].op \in {"create", "update", "delete"}
      /\ Len(log) \in Nat /\ log \in Seq(StoreEvent)
  BY <1>1 DEF IInv, StoreTyped, PermittedIsAuthor
<1>4. e \in StoreEvent
  <2>1. sets \subseteq Fields   BY DEF SetsOf
  <2>2. TypeOf(call[r].op) \in {"created", "edited", "deleted"}   BY DEF TypeOf
  <2> QED BY <1>3, <2>1, <2>2 DEF StoreEvent
<1>5. /\ log' \in Seq(StoreEvent) /\ Len(log') = n
      /\ \A i \in 1..Len(log) : log'[i] = log[i]
      /\ log'[n] = e
  <2>1. log' = Append(log, e)   BY <1>2
  <2> HIDE DEF e
  <2> QED BY <1>3, <1>4, <2>1, AppendGrows
<1>6. /\ e.ver = n /\ e.post = p
      /\ e.type = "created" => e.sets = Fields
      /\ e.type = "deleted" => e.sets = {}
      /\ e.type = "edited" => call[r].op = "update"
      /\ call[r].op = "delete" => e.type = "deleted"
  BY <1>3 DEF TypeOf, SetsOf
<1> HIDE DEF e
<1>7. 1..Len(log) \subseteq 1..n /\ \A i \in 1..n : i \in 1..Len(log) \/ i = n
  BY <1>3
<1>8. n \in 1..n /\ n - 1 = Len(log)   BY <1>3
<1> HIDE DEF n
<1>9. Grows   BY <1>3, <1>5, <1>7 DEF Grows
<1>10. InOrder(log')
  <2> SUFFICES ASSUME NEW i \in 1..n
               PROVE  /\ log'[i].ver = i
                      /\ log'[i].type = "created" => log'[i].sets = Fields
                      /\ log'[i].type = "deleted" => log'[i].sets = {}
                      /\ log'[i].type = "edited" =>
                            \E j \in 1..(i - 1) : IsCreation(log'[j], log'[i].post)
    BY <1>5 DEF InOrder
  <2>1. CASE i \in 1..Len(log)
    <3>1. log'[i] = log[i] /\ InOrder(log)   BY <1>5, <2>1 DEF RInv
    <3>2. \A j \in 1..(i - 1) : j \in 1..Len(log) /\ log'[j] = log[j]   BY <1>3, <1>5, <2>1
    <3> QED BY <2>1, <3>1, <3>2 DEF InOrder
  <2>2. CASE i = n
    <3>1. log'[i] = e   BY <1>5, <2>2
    <3>2. e.type = "edited" => \E j \in 1..(i - 1) : IsCreation(log'[j], p)
      <4> SUFFICES ASSUME e.type = "edited"
                   PROVE  \E j \in 1..(i - 1) : IsCreation(log'[j], p)
        OBVIOUS
      <4>1. call[r].op = "update"   BY <1>6
      <4>2. \E j \in 1..Len(log) : IsCreation(log[j], p)
        BY <1>1, <4>1 DEF IInv, PermittedIsAuthor
      <4> QED BY <1>5, <1>8, <2>2, <4>2
    <3> QED BY <1>6, <2>2, <3>1, <3>2
  <2> QED BY <1>7, <2>1, <2>2
<1>11. ReadsTyped'
  <2>1. \A w : Keep(r, w) => view' = [view EXCEPT ![r] = w]   BY DEF Keep
  <2>2. view' = view \/ view' = [view EXCEPT ![r] = NoView]
    BY <2>1 DEF AppendStored, AppendAnswerLost
  <2>3. NoView \in View   BY DEF NoView, View
  <2> QED BY <1>1, <2>2, <2>3 DEF RInv, ReadsTyped
<1>12. Truthful(r)   BY DEF RInv
<1>13. own'[r] = {n}
  <2>1. own[r] = {} /\ own \in [Requests -> SUBSET Nat]
    BY <1>1 DEF AInv, AppendsAtItsStep, LedgerTyped
  <2> QED BY <1>1, <2>1 DEF n
<1>14. /\ answer'[r] \notin {"200", "201"}
       /\ answer'[r] = "204" => call[r].op = "delete"
  <2>1. answer[r] = "none" /\ answer \in [Requests -> Statuses]
    BY <1>1 DEF AInv, AppendsAtItsStep, LedgerTyped
  <2> QED BY <2>1 DEF AppendStored, AppendAnswerLost, Answer
<1>15. Remembered(r)'
  <2>1. \A i \in own'[r] : i \in 1..Len(log') /\ log'[i].post = call'[r].post
    BY <1>1, <1>5, <1>6, <1>8, <1>13
  <2>2. answer'[r] = "204" => \E i \in 1..Len(log') : IsDeletion(log'[i], call'[r].post)
    BY <1>1, <1>5, <1>6, <1>8, <1>14 DEF IsDeletion
  <2> QED BY <1>1, <1>9, <1>12, <2>1, <2>2 DEF Truthful, Remembered, Grows
<1>16. ReadsItsWrite(r)' /\ SeesNoDeleted(r)' /\ ListsThePosts(r)'
  BY <1>14 DEF ReadsItsWrite, SeesNoDeleted, ListsThePosts
<1> QED BY <1>9, <1>10, <1>11, <1>15, <1>16 DEF Truthful

(* A step changes nothing of another request.                              *)
LEMMA OthersUntouched ==
    ASSUME IInv, AInv, RInv, NEW r \in Requests, NEW q \in Requests, q # r,
           \/ Begin(r) \/ GetFound(r) \/ Forbid(r) \/ Permit(r) \/ NotFound(r)
           \/ AppendStored(r) \/ AppendAnswerLost(r) \/ AppendFails(r)
           \/ ReadBack(r) \/ ListFallback(r)
    PROVE  /\ call'[q] = call[q] /\ answer'[q] = answer[q] /\ own'[q] = own[q]
           /\ view'[q] = view[q] /\ listed'[q] = listed[q]
           /\ gone'[q] = gone[q] /\ there'[q] = there[q]
<1> USE DEF IInv, StoreTyped, AInv, LedgerTyped, RInv, ReadsTyped
<1>1. CASE Begin(r)
  <2>1. \E c : call' = [call EXCEPT ![r] = c]   BY <1>1 DEF Begin
  <2>2. answer' = answer \/ answer' = [answer EXCEPT ![r] = "422"]
    BY <1>1 DEF Begin, Answer
  <2>3. UNCHANGED <<own, view, listed>> /\ gone' = [gone EXCEPT ![r] = Gone]
        /\ there' = [there EXCEPT ![r] = There]
    BY <1>1 DEF Begin
  <2> QED BY <2>1, <2>2, <2>3
<1>2. CASE GetFound(r) \/ Forbid(r) \/ Permit(r) \/ NotFound(r) \/ AppendFails(r)
  <2>1. UNCHANGED <<call, own, listed, gone, there>>
    BY <1>2 DEF GetFound, Forbid, Permit, NotFound, AppendFails, Loaded, handler
  <2>2. answer' = answer \/ \E a : answer' = [answer EXCEPT ![r] = a]
    BY <1>2 DEF GetFound, Forbid, Permit, NotFound, AppendFails, Answer
  <2>3. view' = view \/ \E v : view' = [view EXCEPT ![r] = v]
    BY <1>2 DEF GetFound, Forbid, Permit, NotFound, AppendFails, Keep
  <2> QED BY <2>1, <2>2, <2>3
<1>3. CASE AppendStored(r) \/ AppendAnswerLost(r)
  <2>1. UNCHANGED <<call, listed, gone, there>> /\ \E o : own' = [own EXCEPT ![r] = o]
    BY <1>3 DEF AppendStored, AppendAnswerLost, Store, handler
  <2>2. answer' = answer \/ \E a : answer' = [answer EXCEPT ![r] = a]
    BY <1>3 DEF AppendStored, AppendAnswerLost, Answer
  <2>3. view' = view \/ \E v : view' = [view EXCEPT ![r] = v]
    BY <1>3 DEF AppendStored, AppendAnswerLost, Keep
  <2> QED BY <2>1, <2>2, <2>3
<1>4. CASE ReadBack(r)
  <2>1. UNCHANGED <<call, own, listed, gone, there>>
        /\ (\E v : view' = [view EXCEPT ![r] = v])
        /\ \E a : answer' = [answer EXCEPT ![r] = a]
    BY <1>4 DEF ReadBack, Keep, Answer, handler
  <2> QED BY <2>1
<1>5. CASE ListFallback(r)
  <2>1. UNCHANGED <<call, own, view, gone, there>>
        /\ (\E a : answer' = [answer EXCEPT ![r] = a])
        /\ (listed' = listed \/ \E s : listed' = [listed EXCEPT ![r] = s])
    BY <1>5 DEF ListFallback, Answer
  <2> QED BY <2>1
<1> QED BY <1>1, <1>2, <1>3, <1>4, <1>5

(* Every step of a request keeps every answer true.                        *)
LEMMA StepRInv == IInv /\ AInv /\ RInv /\ [Next]_vars => RInv'
<1> SUFFICES ASSUME IInv, AInv, RInv, [Next]_vars PROVE RInv'   OBVIOUS
<1>1. log' = log => Grows   BY DEF Grows, IInv, StoreTyped
<1>2. ASSUME NEW r \in Requests,
             Forbid(r) \/ Permit(r) \/ NotFound(r) \/ AppendFails(r)
      PROVE  log' = log /\ Truthful(r)' /\ ReadsTyped'
  <2>1. UNCHANGED <<log, call, own, listed, gone, there>>
    BY <1>2 DEF Forbid, Permit, NotFound, AppendFails, Loaded, handler
  <2>2. answer'[r] \notin {"200", "201", "204"}
    <3>1. answer \in [Requests -> Statuses]   BY DEF AInv, LedgerTyped
    <3>2. pc[r] # "answered"
      BY <1>2 DEF Forbid, Permit, NotFound, AppendFails, Loaded
    <3>3. answer[r] = "none"   BY <3>2 DEF AInv, AppendsAtItsStep
    <3> QED BY <1>2, <3>1, <3>3 DEF Forbid, Permit, NotFound, AppendFails, Answer
  <2>3. view' \in [Requests -> View]
    <3>1. \/ view' = view \/ view' = [view EXCEPT ![r] = NoView]
          \/ view' = [view EXCEPT ![r] = Load(call[r].post)]
      BY <1>2 DEF Forbid, Permit, NotFound, AppendFails, Keep
    <3>2. NoView \in View   BY DEF NoView, View
    <3>3. Load(call[r].post) \in View   BY LoadIsAView DEF IInv, StoreTyped
    <3>4. view \in [Requests -> View]   BY DEF RInv, ReadsTyped
    <3> QED BY <3>1, <3>2, <3>3, <3>4
  <2>4. Truthful(r)'   BY <1>1, <2>1, <2>2, SilenceIsTruthful
  <2> QED BY <2>1, <2>3, <2>4 DEF RInv, ReadsTyped
<1>3. CASE UNCHANGED vars
  <2>1. ReadsTyped' /\ InOrder(log')   BY <1>3 DEF vars, RInv, ReadsTyped
  <2>2. \A q \in Requests : Truthful(q)'   BY <1>1, <1>3, TruthStays DEF vars
  <2> QED BY <2>1, <2>2 DEF RInv
<1>4. CASE Next
  <2>1. PICK r \in Requests :
           \/ Begin(r) \/ GetFound(r) \/ Forbid(r) \/ Permit(r) \/ NotFound(r)
           \/ AppendStored(r) \/ AppendAnswerLost(r) \/ AppendFails(r)
           \/ ReadBack(r) \/ ListFallback(r)
    BY <1>4 DEF Next
  <2>2. Grows /\ InOrder(log') /\ Truthful(r)' /\ ReadsTyped'
    <3>1. CASE Begin(r)
      <4>1. log' = log   BY <3>1 DEF Begin
      <4> QED BY <1>1, <3>1, <4>1, BeginIsTruthful DEF RInv
    <3>2. CASE GetFound(r) \/ ReadBack(r)
      <4>1. log' = log   BY <3>2 DEF GetFound, ReadBack, Loaded
      <4> QED BY <1>1, <3>2, <4>1, FoundIsTruthful DEF RInv
    <3>3. CASE ListFallback(r)
      <4>1. log' = log   BY <3>3 DEF ListFallback
      <4> QED BY <1>1, <3>3, <4>1, ListingIsTruthful DEF RInv
    <3>4. CASE Forbid(r) \/ Permit(r) \/ NotFound(r) \/ AppendFails(r)
      BY <1>1, <1>2, <3>4 DEF RInv
    <3>5. CASE AppendStored(r) \/ AppendAnswerLost(r)   BY <3>5, AppendIsTruthful
    <3> QED BY <2>1, <3>1, <3>2, <3>3, <3>4, <3>5
  <2>3. ASSUME NEW q \in Requests, q # r PROVE Truthful(q)'
    BY <2>1, <2>2, <2>3, OthersUntouched, TruthStays
  <2> QED BY <2>2, <2>3 DEF RInv
<1> QED BY <1>3, <1>4

(* Every answer is true of the store it was read from, and stays so.       *)
THEOREM AnswersTrue == Spec => []RInv
BY Inductive, InitAInv, StepAInv, InitRInv, StepRInv, PTL DEF Spec

(* The view a writer is answered shows its own write or a later one.       *)
THEOREM WritersRead == Spec => []WritersReadTheirWrite
<1>1. RInv => WritersReadTheirWrite
  BY DEF RInv, Truthful, ReadsItsWrite, WritersReadTheirWrite
<1> QED BY AnswersTrue, <1>1, PTL

(* No request is answered a post that was gone when it arrived.            *)
THEOREM DeletesLast == Spec => []DeletedIsFinal
<1>1. RInv => DeletedIsFinal
  BY DEF RInv, Truthful, SeesNoDeleted, DeletedIsFinal
<1> QED BY AnswersTrue, <1>1, PTL

(* Behind a query that carries the tenant, the fold-on-read fallback lists *)
(* the posts; without it, it does not (the run posts_fallback).            *)
THEOREM FallbackWorks == QueryAddsTenant = TRUE => (Spec => []FallbackListsThePosts)
<1> SUFFICES ASSUME QueryAddsTenant = TRUE PROVE Spec => []FallbackListsThePosts   OBVIOUS
<1>1. RInv => FallbackListsThePosts
  BY DEF RInv, Truthful, ListsThePosts, FallbackListsThePosts
<1> QED BY AnswersTrue, <1>1, PTL

=============================================================================
