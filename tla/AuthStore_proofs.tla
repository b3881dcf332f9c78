-------------------------- MODULE AuthStore_proofs --------------------------
(***************************************************************************)
(* What holds of the auth store for any number of users, sessions and      *)
(* requests, any limit of the reads and any length of the run.             *)
(***************************************************************************)
EXTENDS AuthStore, TLAPS

Authenticated == {"me", "update_user", "change_email", "delete_user"}

(* Every user and every session of the log has its stream.                 *)
LogOK ==
    /\ \A i \in DOMAIN created : users[created[i]] # <<>>
    /\ \A i \in DOMAIN opened : sessions[opened[i]] # <<>>

(* The user a request acts for is known and has a stream.                  *)
HasUser(r) == req[r].user \in Users /\ users[req[r].user] # <<>>

HasToken(r) == req[r].token \in Tokens /\ sessions[req[r].token] # <<>>

(* What a request holds at each of its steps.                              *)
RequestOK(r) ==
    LET q == req[r] IN
    /\ q.pc \in {"read_session", "read_user"} =>
          q.op \in Authenticated /\ (q.op = "change_email" => q.email \in Emails)
    /\ q.pc \in {"find_email", "load_found"} => q.op \in {"sign_in", "change_email"}
    /\ q.pc = "list_all" => q.op = "sweep"
    /\ q.pc \in {"check_email", "create_user", "find_email", "append_user"} => q.email \in Emails
    /\ q.pc \in {"read_user", "create_session", "append_session"} => q.user \in Users
    /\ q.pc \in {"in", "read_user_again", "append_user", "list_sessions", "delete_user"} => HasUser(r)
    /\ q.pc \in {"find_email", "load_found"} /\ q.op = "change_email" => HasUser(r)
    /\ q.pc = "delete_listed" /\ q.op # "sweep" => HasUser(r)
    /\ q.pc = "load_found" => q.found \in Users
    /\ q.pc \in {"read_session", "read_touch", "append_session", "sign_out"} => HasToken(r)
    /\ q.pc = "delete_listed" => q.todo \subseteq DOMAIN opened

TypeInv == TypeOK /\ LogOK /\ \A r \in Requests : RequestOK(r)

(* The log only grows, and a stream keeps its first event.                 *)
Grows ==
    /\ \A u \in Users : users[u] # <<>> => users'[u] # <<>> /\ users'[u][1] = users[u][1]
    /\ \A t \in Tokens : sessions[t] # <<>> =>
          sessions'[t] # <<>> /\ sessions'[t][1] = sessions[t][1]
    /\ DOMAIN created \subseteq DOMAIN created' /\ Len(created) <= Len(created')
    /\ \A i \in DOMAIN created : created'[i] = created[i]
    /\ DOMAIN opened \subseteq DOMAIN opened' /\ Len(opened) <= Len(opened')
    /\ \A i \in DOMAIN opened : opened'[i] = opened[i]

-----------------------------------------------------------------------------
(* What a read by id finds is in the stream.                               *)
LEMMA LatestTyped ==
    ASSUME NEW S, Deleted \in S, NEW stream \in Seq(S)
    PROVE  LatestLive(stream) \in S /\ (LatestLive(stream) # Deleted => stream # <<>>)
BY CapAssumption DEF LatestLive

(* An append leaves what a stream starts with.                             *)
LEMMA AppendKeeps ==
    ASSUME NEW S, NEW stream \in Seq(S), NEW x \in S
    PROVE  /\ Append(stream, x) \in Seq(S) /\ Append(stream, x) # <<>>
           /\ Len(Append(stream, x)) = Len(stream) + 1
           /\ \A k \in DOMAIN stream : k \in DOMAIN Append(stream, x)
                                       /\ Append(stream, x)[k] = stream[k]
           /\ Append(stream, x)[Len(stream) + 1] = x
           /\ DOMAIN Append(stream, x) = DOMAIN stream \cup {Len(stream) + 1}
           /\ stream # <<>> => 1 \in DOMAIN stream
           /\ stream = <<>> => Append(stream, x)[1] = x
<1>1. /\ Append(stream, x) \in Seq(S) /\ Len(Append(stream, x)) = Len(stream) + 1
      /\ Len(stream) \in Nat
  OBVIOUS
<1>2. DOMAIN stream = 1..Len(stream) /\ DOMAIN Append(stream, x) = 1..Len(stream) + 1
  BY <1>1
<1>3. \A k \in DOMAIN stream : k \in DOMAIN Append(stream, x) /\ Append(stream, x)[k] = stream[k]
  BY <1>1, <1>2
<1>4. Append(stream, x)[Len(stream) + 1] = x
  OBVIOUS
<1>5. /\ Append(stream, x) # <<>>
      /\ DOMAIN Append(stream, x) = DOMAIN stream \cup {Len(stream) + 1}
  BY <1>1, <1>2
<1>6. /\ stream # <<>> => 1 \in DOMAIN stream
      /\ stream = <<>> => Append(stream, x)[1] = x
  BY <1>1, <1>4
<1>7. QED
  BY <1>1, <1>3, <1>4, <1>5, <1>6

(* An event of a longer sequence is the appended one or was there before.  *)
LEMMA AppendReads ==
    ASSUME NEW S, NEW s \in Seq(S), NEW x \in S, NEW i \in DOMAIN Append(s, x)
    PROVE  /\ Append(s, x)[i] = x \/ (i \in DOMAIN s /\ Append(s, x)[i] = s[i])
           /\ Append(s, x)[i] \in S
OBVIOUS

(* A tombstone that lands within the limit is what the next read finds.    *)
LEMMA TombstoneShows ==
    ASSUME NEW S, Deleted \in S, NEW stream \in Seq(S), Len(stream) < Cap
    PROVE  LatestLive(Append(stream, Deleted)) = Deleted
BY CapAssumption DEF LatestLive

(* A stream that reads as deleted still does after another tombstone.      *)
LEMMA TombstoneKeeps ==
    ASSUME NEW S, Deleted \in S, NEW stream \in Seq(S), LatestLive(stream) = Deleted
    PROVE  LatestLive(Append(stream, Deleted)) = Deleted
BY CapAssumption DEF LatestLive

(* No step takes an event of the log away.                                 *)
LEMMA LogGrows ==
    ASSUME TypeInv, NEW r \in Requests, Step(r) \/ Fail(r) \/ UNCHANGED log
    PROVE  Grows
<1> USE DEF TypeInv, TypeOK, LogOK
<1>0. CASE UNCHANGED log
  BY <1>0 DEF Grows, log
<1>1. CASE CreateUser(r)
  <2>1. PICK u \in Users : users[u] = <<>> /\ users' = [users EXCEPT ![u] = <<req[r].email>>]
                          /\ created' = Append(created, u)
    BY <1>1 DEF CreateUser
  <2>2. UNCHANGED <<sessions, opened>>
    BY <1>1 DEF CreateUser
  <2>3. \A v \in Users : users[v] # <<>> => users'[v] = users[v]
    BY <2>1
  <2>4. Len(created') = Len(created) + 1 /\ \A i \in DOMAIN created :
            i \in DOMAIN created' /\ created'[i] = created[i]
    BY <2>1, AppendKeeps
  <2>5. QED
    BY <2>2, <2>3, <2>4 DEF Grows
<1>2. CASE CreateSession(r)
  <2>1. PICK t \in Tokens : sessions[t] = <<>> /\ opened' = Append(opened, t)
                          /\ sessions' = [sessions EXCEPT ![t] = <<req[r].user>>]
    BY <1>2 DEF CreateSession
  <2>2. UNCHANGED <<users, created>>
    BY <1>2 DEF CreateSession
  <2>3. \A s \in Tokens : sessions[s] # <<>> => sessions'[s] = sessions[s]
    BY <2>1
  <2>4. Len(opened') = Len(opened) + 1 /\ \A i \in DOMAIN opened :
            i \in DOMAIN opened' /\ opened'[i] = opened[i]
    BY <2>1, AppendKeeps
  <2>5. QED
    BY <2>2, <2>3, <2>4 DEF Grows
<1>3. CASE AppendUser(r)
  <2>1. HasUser(r) /\ req[r].email \in Emails
    BY <1>3 DEF AppendUser, RequestOK
  <2>2. users[req[r].user] \in Seq(Emails \cup {Deleted})
    BY <2>1 DEF HasUser
  <2>3. PICK x \in Emails : users' = [users EXCEPT ![req[r].user] = Append(@, x)]
    BY <1>3, <2>1 DEF AppendUser
  <2>4. \A s \in Users : users[s] # <<>> => users'[s] # <<>> /\ users'[s][1] = users[s][1]
    <3>1. /\ Append(users[req[r].user], x) # <<>>
          /\ users[req[r].user] # <<>> =>
                Append(users[req[r].user], x)[1] = users[req[r].user][1]
      BY <2>2, AppendKeeps
    <3>2. QED
      BY <2>3, <3>1
  <2>5. UNCHANGED <<sessions, created, opened>>
    BY <1>3 DEF AppendUser
  <2>6. QED
    BY <2>4, <2>5 DEF Grows
<1>4. CASE AppendSession(r)
  <2>1. HasToken(r) /\ req[r].user \in Users
    BY <1>4 DEF AppendSession, RequestOK
  <2>2. sessions[req[r].token] \in Seq(Users \cup {Deleted})
    BY <2>1 DEF HasToken
  <2>3. PICK x \in Users : sessions' = [sessions EXCEPT ![req[r].token] = Append(@, x)]
    BY <1>4, <2>1 DEF AppendSession
  <2>4. \A s \in Tokens : sessions[s] # <<>> => sessions'[s] # <<>> /\ sessions'[s][1] = sessions[s][1]
    <3>1. /\ Append(sessions[req[r].token], x) # <<>>
          /\ sessions[req[r].token] # <<>> =>
                Append(sessions[req[r].token], x)[1] = sessions[req[r].token][1]
      BY <2>2, AppendKeeps
    <3>2. QED
      BY <2>3, <3>1
  <2>5. UNCHANGED <<users, created, opened>>
    BY <1>4 DEF AppendSession
  <2>6. QED
    BY <2>4, <2>5 DEF Grows
<1>5. ASSUME NEW t \in Tokens, Bury(t), UNCHANGED <<users, created, opened>>, sessions[t] # <<>>
      PROVE  Grows
  <2>1. sessions[t] \in Seq(Users \cup {Deleted})
    OBVIOUS
  <2>2. QED
    BY <1>5, <2>1, AppendKeeps DEF Bury, Grows
<1>6. CASE DeleteListed(r)
  <2>1. PICK i \in req[r].todo : Bury(opened[i])
    BY <1>6 DEF DeleteListed, Oldest
  <2>2. i \in DOMAIN opened
    BY <1>6 DEF DeleteListed, RequestOK
  <2>3. opened[i] \in Tokens /\ sessions[opened[i]] # <<>>
    BY <2>2
  <2>4. QED
    BY <1>6, <2>1, <2>3, <1>5 DEF DeleteListed
<1>7. CASE SignOut(r)
  <2>1. HasToken(r)
    BY <1>7 DEF SignOut, RequestOK
  <2>2. QED
    BY <1>7, <2>1, <1>5 DEF SignOut, HasToken
<1>8. CASE DeleteUser(r)
  <2>1. HasUser(r)
    BY <1>8 DEF DeleteUser, RequestOK
  <2>2. users[req[r].user] \in Seq(Emails \cup {Deleted})
    BY <2>1 DEF HasUser
  <2>3. QED
    BY <1>8, <2>1, <2>2, AppendKeeps DEF DeleteUser, Grows, HasUser
<1>9. CASE UNCHANGED <<users, sessions, created, opened>>
  BY <1>9, <1>0 DEF log
<1>10. QED
  BY <1>0, <1>1, <1>2, <1>3, <1>4, <1>6, <1>7, <1>8, <1>9
     DEF Step, Fail, CheckEmail, FindEmail, LoadFound, ReadSession, ReadUser, Answer,
         ReadUserAgain, ReadTouch, ListSessions, ListAll, log

(* What a request holds outlives the steps of the others.                  *)
LEMMA OthersKeep ==
    ASSUME TypeInv, Grows, NEW o \in Requests, req'[o] = req[o]
    PROVE  RequestOK(o)'
<1>1. req[o] \in RequestType /\ RequestOK(o)
  BY DEF TypeInv, TypeOK
<1>2. HasUser(o) => HasUser(o)'
  BY DEF HasUser, Grows
<1>3. HasToken(o) => HasToken(o)'
  BY DEF HasToken, Grows
<1>4. DOMAIN opened \subseteq DOMAIN opened'
  BY DEF Grows
<1>5. QED
  BY <1>1, <1>2, <1>3, <1>4 DEF RequestOK

(* A request done with holds nothing.                                      *)
LEMMA IdleOK ==
    ASSUME NEW r \in Requests, req'[r] = Idle
    PROVE  RequestOK(r)' /\ Idle \in RequestType
BY DEF RequestOK, Idle, RequestType, PCs

(* The owner's sessions, or all of them, are the next to be deleted.       *)
LEMMA DeletingOK ==
    ASSUME NEW r \in Requests, NEW q \in RequestType, NEW todo \in SUBSET (DOMAIN opened'),
           opened' \in Seq(Tokens),
           q.op # "sweep" => q.user \in Users /\ users'[q.user] # <<>>,
           req'[r] = Deleting(q, todo)
    PROVE  RequestOK(r)' /\ Deleting(q, todo) \in RequestType
<1>0. todo \in SUBSET Nat
  OBVIOUS
<1>1. CASE todo # {}
  <2>1. Deleting(q, todo) = [q EXCEPT !.pc = "delete_listed", !.todo = todo]
    BY <1>1 DEF Deleting
  <2>2. Deleting(q, todo) \in RequestType
    BY <1>0, <2>1 DEF RequestType, PCs
  <2>3. /\ req'[r].pc = "delete_listed" /\ req'[r].todo = todo
        /\ req'[r].op = q.op /\ req'[r].user = q.user
    BY <2>1 DEF RequestType
  <2>4. QED
    BY <2>2, <2>3 DEF RequestOK, HasUser
<1>2. CASE todo = {} /\ q.op = "sweep"
  BY <1>2, IdleOK DEF Deleting
<1>3. CASE todo = {} /\ q.op # "sweep"
  <2>1. Deleting(q, todo) = [q EXCEPT !.pc = "delete_user", !.todo = todo]
    BY <1>3 DEF Deleting
  <2>2. Deleting(q, todo) \in RequestType
    BY <1>0, <2>1 DEF RequestType, PCs
  <2>3. req'[r].pc = "delete_user" /\ req'[r].op = q.op /\ req'[r].user = q.user
    BY <2>1 DEF RequestType
  <2>4. QED
    BY <1>3, <2>2, <2>3 DEF RequestOK, HasUser
<1>4. QED
  BY <1>1, <1>2, <1>3

(* A step changes nothing of the other requests.                           *)
LEMMA OnlyTheActor ==
    ASSUME req \in [Requests -> RequestType], NEW r \in Requests, Step(r) \/ Fail(r)
    PROVE  req' = [req EXCEPT ![r] = req'[r]]
<1>1. CASE CheckEmail(r) \/ CreateUser(r)
  BY <1>1 DEF CheckEmail, CreateUser, End
<1>2. CASE FindEmail(r) \/ LoadFound(r)
  BY <1>2 DEF FindEmail, LoadFound, End, Go
<1>3. CASE ReadSession(r) \/ ReadUser(r) \/ ReadUserAgain(r) \/ ReadTouch(r)
  BY <1>3 DEF ReadSession, ReadUser, ReadUserAgain, ReadTouch, End, Go
<1>4. CASE ListSessions(r) \/ ListAll(r) \/ DeleteListed(r)
  BY <1>4 DEF ListSessions, ListAll, DeleteListed
<1>5. CASE \/ CreateSession(r) \/ Answer(r) \/ AppendUser(r) \/ AppendSession(r)
           \/ SignOut(r) \/ DeleteUser(r) \/ Fail(r)
  BY <1>5 DEF CreateSession, Answer, AppendUser, AppendSession, SignOut, DeleteUser, Fail, End
<1>6. QED
  BY <1>1, <1>2, <1>3, <1>4, <1>5 DEF Step

(* A step leaves its request with what the next step needs.                *)
LEMMA ActorOK ==
    ASSUME TypeInv, NEW r \in Requests, Step(r) \/ Fail(r), Grows
    PROVE  RequestOK(r)' /\ req'[r] \in RequestType
<1>0. /\ req \in [Requests -> RequestType] /\ req[r] \in RequestType /\ RequestOK(r)
      /\ users \in [Users -> Seq(Emails \cup {Deleted})]
      /\ sessions \in [Tokens -> Seq(Users \cup {Deleted})]
      /\ created \in Seq(Users) /\ opened \in Seq(Tokens)
  BY DEF TypeInv, TypeOK
<1>q. req[r] \in RequestType
  BY <1>0
<1> DEFINE Done == RequestOK(r)' /\ req'[r] \in RequestType
<1>e. ASSUME End(r) PROVE Done
  BY <1>e, <1>0, IdleOK DEF End
<1>g. ASSUME NEW pc \in PCs, Go(r, pc)
      PROVE  req'[r] = [req[r] EXCEPT !.pc = pc] /\ req'[r] \in RequestType
  BY <1>g, <1>0, <1>q DEF Go, RequestType
<1>u. HasUser(r) /\ req'[r].user = req[r].user => HasUser(r)'
  BY DEF HasUser, Grows
<1>t. HasToken(r) /\ req'[r].token = req[r].token => HasToken(r)'
  BY DEF HasToken, Grows
<1>2. CASE CheckEmail(r)
  <2>1. ASSUME req' = [req EXCEPT ![r].pc = "create_user", ![r].saw = Len(created)] PROVE Done
    <3>1. req'[r] = [[req[r] EXCEPT !.pc = "create_user"] EXCEPT !.saw = Len(created)]
      BY <2>1, <1>0
    <3>0. Len(created) \in Nat
      BY <1>0
    <3>2. req'[r] \in RequestType
      BY <3>0, <3>1, <1>q DEF RequestType, PCs
    <3>3. req'[r].pc = "create_user" /\ req'[r].email = req[r].email
      BY <3>1, <1>0 DEF RequestType
    <3>4. QED
      BY <1>2, <1>0, <3>2, <3>3 DEF CheckEmail, RequestOK
  <2>2. QED
    BY <1>2, <1>e, <2>1 DEF CheckEmail
<1>3. CASE CreateUser(r)
  <2>1. PICK u \in Users : req' = [req EXCEPT ![r].pc = "create_session", ![r].user = u]
    BY <1>3 DEF CreateUser
  <2>2. req'[r] = [[req[r] EXCEPT !.pc = "create_session"] EXCEPT !.user = u]
    BY <2>1, <1>0
  <2>3. req'[r] \in RequestType
    BY <2>2, <1>q DEF RequestType, PCs
  <2>4. req'[r].pc = "create_session" /\ req'[r].user = u
    BY <2>2, <1>0 DEF RequestType
  <2>5. QED
    BY <2>3, <2>4 DEF RequestOK
<1>4. CASE CreateSession(r)
  BY <1>4, <1>e DEF CreateSession
<1>5. CASE FindEmail(r)
  <2>0. /\ req[r].pc = "find_email" /\ req[r].op \in {"sign_in", "change_email"}
        /\ req[r].op = "change_email" => HasUser(r)
    BY <1>5, <1>0 DEF FindEmail, RequestOK
  <2>1. ASSUME NEW i \in DOMAIN created,
               req' = [req EXCEPT ![r].pc = "load_found", ![r].found = created[i]]
        PROVE  Done
    <3>1. req'[r] = [[req[r] EXCEPT !.pc = "load_found"] EXCEPT !.found = created[i]]
      BY <2>1, <1>0
    <3>2. created[i] \in Users
      BY <1>0
    <3>3. req'[r] \in RequestType
      BY <3>1, <3>2, <1>q DEF RequestType, PCs
    <3>4. /\ req'[r].pc = "load_found" /\ req'[r].found \in Users
          /\ req'[r].op = req[r].op /\ req'[r].user = req[r].user
      BY <3>1, <3>2, <1>0 DEF RequestType
    <3>5. QED
      BY <2>0, <3>3, <3>4, <1>u DEF RequestOK
  <2>2. ASSUME req[r].op = "change_email", Go(r, "read_user_again") PROVE Done
    <3>1. req'[r] = [req[r] EXCEPT !.pc = "read_user_again"] /\ req'[r] \in RequestType
      BY <2>2, <1>g DEF PCs
    <3>2. req'[r].pc = "read_user_again" /\ req'[r].user = req[r].user
      BY <3>1, <1>0 DEF RequestType
    <3>3. QED
      BY <2>0, <2>2, <3>1, <3>2, <1>u DEF RequestOK
  <2>3. QED
    BY <1>5, <1>e, <2>1, <2>2 DEF FindEmail, SignedUpWith, Oldest
<1>6. CASE LoadFound(r)
  <2>0. /\ req[r].pc = "load_found" /\ req[r].op \in {"sign_in", "change_email"}
        /\ req[r].op = "change_email" => HasUser(r)
        /\ req[r].found \in Users
    BY <1>6, <1>0 DEF LoadFound, RequestOK
  <2>1. ASSUME req' = [req EXCEPT ![r].pc = "create_session", ![r].user = req[r].found]
        PROVE  Done
    <3>1. req'[r] = [[req[r] EXCEPT !.pc = "create_session"] EXCEPT !.user = req[r].found]
      BY <2>1, <1>0
    <3>2. req'[r] \in RequestType
      BY <2>0, <3>1, <1>q DEF RequestType, PCs
    <3>3. req'[r].pc = "create_session" /\ req'[r].user = req[r].found
      BY <3>1, <1>0 DEF RequestType
    <3>4. QED
      BY <2>0, <3>2, <3>3 DEF RequestOK
  <2>2. ASSUME req[r].op # "sign_in", Go(r, "read_user_again") PROVE Done
    <3>1. req'[r] = [req[r] EXCEPT !.pc = "read_user_again"] /\ req'[r] \in RequestType
      BY <2>2, <1>g DEF PCs
    <3>2. req'[r].pc = "read_user_again" /\ req'[r].user = req[r].user
      BY <3>1, <1>0 DEF RequestType
    <3>3. QED
      BY <2>0, <2>2, <3>1, <3>2, <1>u DEF RequestOK
  <2>3. QED
    BY <1>6, <1>e, <2>1, <2>2 DEF LoadFound
<1>7. CASE ReadSession(r)
  <2> DEFINE owner == LatestLive(sessions[req[r].token])
  <2>0. /\ req[r].op \in Authenticated
        /\ req[r].op = "change_email" => req[r].email \in Emails
        /\ HasToken(r)
    BY <1>7, <1>0 DEF ReadSession, RequestOK
  <2>1. owner \in Users \cup {Deleted}
    BY <2>0, <1>0, LatestTyped DEF HasToken
  <2>2. ASSUME owner # Deleted, req' = [req EXCEPT ![r].pc = "read_user", ![r].user = owner]
        PROVE  Done
    <3> HIDE DEF owner
    <3>1. req'[r] = [[req[r] EXCEPT !.pc = "read_user"] EXCEPT !.user = owner]
      BY <2>2, <1>0
    <3>2. req'[r] \in RequestType
      BY <2>1, <3>1, <1>q DEF RequestType, PCs
    <3>3. /\ req'[r].pc = "read_user" /\ req'[r].user \in Users
          /\ req'[r].op = req[r].op /\ req'[r].email = req[r].email
      BY <2>1, <2>2, <3>1, <1>0 DEF RequestType
    <3>4. QED
      BY <2>0, <3>2, <3>3 DEF RequestOK
  <2>3. QED
    BY <1>7, <1>e, <2>2 DEF ReadSession
<1>8. CASE ReadUser(r)
  <2>0. /\ req[r].op \in Authenticated /\ req[r].user \in Users
        /\ req[r].op = "change_email" => req[r].email \in Emails
    BY <1>8, <1>0 DEF ReadUser, RequestOK
  <2>1. ASSUME LatestLive(users[req[r].user]) # Deleted, Go(r, Handler[req[r].op])
        PROVE  Done
    <3>1. HasUser(r)
      BY <2>0, <2>1, <1>0, LatestTyped DEF HasUser
    <3>2. Handler[req[r].op] \in PCs
      BY <2>0 DEF Handler, Authenticated, PCs
    <3>3. req'[r] = [req[r] EXCEPT !.pc = Handler[req[r].op]] /\ req'[r] \in RequestType
      BY <2>1, <3>2, <1>g
    <3>4. /\ req'[r].pc = Handler[req[r].op] /\ req'[r].user = req[r].user
          /\ req'[r].op = req[r].op /\ req'[r].email = req[r].email
      BY <3>3, <1>0 DEF RequestType
    <3>5. QED
      BY <2>0, <3>1, <3>3, <3>4, <1>u DEF RequestOK, Handler, Authenticated
  <2>2. QED
    BY <1>8, <1>e, <2>1 DEF ReadUser
<1>9. CASE Answer(r) \/ AppendUser(r) \/ AppendSession(r) \/ SignOut(r) \/ DeleteUser(r) \/ Fail(r)
  BY <1>9, <1>e DEF Answer, AppendUser, AppendSession, SignOut, DeleteUser, Fail
<1>10. CASE ReadUserAgain(r)
  <2> DEFINE email == IF req[r].email = Deleted THEN LatestLive(users[req[r].user])
                      ELSE req[r].email
  <2>0. HasUser(r)
    BY <1>10, <1>0 DEF ReadUserAgain, RequestOK
  <2>1. LatestLive(users[req[r].user]) \in Emails \cup {Deleted}
    BY <2>0, <1>0, LatestTyped DEF HasUser
  <2>2. ASSUME LatestLive(users[req[r].user]) # Deleted,
               req' = [req EXCEPT ![r].pc = "append_user", ![r].email = email]
        PROVE  Done
    <3>1. email \in Emails
      BY <2>1, <2>2, <1>0 DEF RequestType
    <3> HIDE DEF email
    <3>2. req'[r] = [[req[r] EXCEPT !.pc = "append_user"] EXCEPT !.email = email]
      BY <2>2, <1>0
    <3>3. req'[r] \in RequestType
      BY <3>1, <3>2, <1>q DEF RequestType, PCs
    <3>4. req'[r].pc = "append_user" /\ req'[r].user = req[r].user /\ req'[r].email = email
      BY <3>2, <1>0 DEF RequestType
    <3>5. QED
      BY <2>0, <3>1, <3>3, <3>4, <1>u DEF RequestOK
  <2>3. LatestLive(users[req[r].user]) # Deleted =>
          req' = [req EXCEPT ![r].pc = "append_user", ![r].email = email]
    BY <1>10, <1>0 DEF ReadUserAgain
  <2>4. QED
    BY <1>10, <1>e, <2>2, <2>3 DEF ReadUserAgain
<1>11. CASE ReadTouch(r)
  <2> DEFINE owner == LatestLive(sessions[req[r].token])
  <2>0. HasToken(r)
    BY <1>11, <1>0 DEF ReadTouch, RequestOK
  <2>1. owner \in Users \cup {Deleted}
    BY <2>0, <1>0, LatestTyped DEF HasToken
  <2>2. ASSUME owner # Deleted, req' = [req EXCEPT ![r].pc = "append_session", ![r].user = owner]
        PROVE  Done
    <3> HIDE DEF owner
    <3>1. req'[r] = [[req[r] EXCEPT !.pc = "append_session"] EXCEPT !.user = owner]
      BY <2>2, <1>0
    <3>2. req'[r] \in RequestType
      BY <2>1, <3>1, <1>q DEF RequestType, PCs
    <3>3. /\ req'[r].pc = "append_session" /\ req'[r].user \in Users
          /\ req'[r].token = req[r].token
      BY <2>1, <2>2, <3>1, <1>0 DEF RequestType
    <3>4. QED
      BY <2>0, <3>2, <3>3, <1>t DEF RequestOK
  <2>3. QED
    BY <1>11, <1>e, <2>2 DEF ReadTouch
<1>12. CASE ListSessions(r)
  <2> DEFINE q == [req[r] EXCEPT !.saw = Len(opened)]
  <2>1. q \in RequestType
    <3>1. Len(opened) \in Nat
      BY <1>0
    <3>2. QED
      BY <3>1, <1>q DEF RequestType
  <2>2. q.user \in Users /\ users'[q.user] # <<>> /\ UNCHANGED opened /\ q.user = req[r].user
    BY <1>12, <1>0 DEF ListSessions, RequestOK, HasUser, log
  <2>3. SessionsOf(q.user) \in SUBSET DOMAIN opened'
    BY <2>2 DEF SessionsOf, Scanned
  <2>4. req' = [req EXCEPT ![r] = Deleting(q, SessionsOf(q.user))]
    BY <1>12, <2>2 DEF ListSessions
  <2>5. QED
    <3>1. req'[r] = Deleting(q, SessionsOf(q.user))
      BY <2>4, <1>0
    <3>2. opened' \in Seq(Tokens)
      BY <2>2, <1>0
    <3> HIDE DEF q
    <3>3. QED
      BY <2>1, <2>2, <2>3, <3>1, <3>2, DeletingOK
<1>13. CASE ListAll(r)
  <2>1. req[r].op = "sweep" /\ UNCHANGED opened
    BY <1>13, <1>0 DEF ListAll, RequestOK, log
  <2>2. req' = [req EXCEPT ![r] = Deleting(req[r], Scanned(opened))]
    BY <1>13 DEF ListAll
  <2>3. QED
    <3>1. req'[r] = Deleting(req[r], Scanned(opened))
      BY <2>2, <1>0
    <3>2. QED
      BY <2>1, <3>1, <1>0, DeletingOK DEF Scanned
<1>14. CASE DeleteListed(r)
  <2>1. PICK i \in req[r].todo : req' = [req EXCEPT ![r] = Deleting(req[r], req[r].todo \ {i})]
    BY <1>14 DEF DeleteListed, Oldest
  <2>2. UNCHANGED <<users, opened>>
    BY <1>14 DEF DeleteListed
  <2>3. req[r].op # "sweep" => HasUser(r)
    BY <1>14, <1>0 DEF DeleteListed, RequestOK
  <2>4. req[r].todo \ {i} \in SUBSET DOMAIN opened'
    BY <1>14, <1>0, <2>2 DEF DeleteListed, RequestOK
  <2>5. QED
    <3>1. req'[r] = Deleting(req[r], req[r].todo \ {i})
      BY <2>1, <1>0
    <3>2. QED
      BY <2>2, <2>3, <2>4, <3>1, <1>0, DeletingOK DEF HasUser
<1>15. QED
  BY <1>2, <1>3, <1>4, <1>5, <1>6, <1>7, <1>8, <1>9, <1>10, <1>11, <1>12, <1>13, <1>14 DEF Step

(* Every event is appended to a stream of its entity, and is a snapshot or *)
(* a tombstone.                                                            *)
LEMMA LogTyped ==
    ASSUME TypeInv, NEW r \in Requests, Step(r) \/ Fail(r) \/ UNCHANGED <<log, settled>>
    PROVE  /\ users' \in [Users -> Seq(Emails \cup {Deleted})]
           /\ sessions' \in [Tokens -> Seq(Users \cup {Deleted})]
           /\ created' \in Seq(Users) /\ opened' \in Seq(Tokens)
           /\ \A u \in Users : users'[u] # <<>> => users'[u][1] \in Emails
           /\ \A t \in Tokens : sessions'[t] # <<>> => sessions'[t][1] \in Users
           /\ \A i \in DOMAIN created' : users'[created'[i]] # <<>>
           /\ \A i \in DOMAIN opened' : sessions'[opened'[i]] # <<>>
           /\ settled' \subseteq Users \cup Tokens
<1> DEFINE Goal == /\ users' \in [Users -> Seq(Emails \cup {Deleted})]
                   /\ sessions' \in [Tokens -> Seq(Users \cup {Deleted})]
                   /\ created' \in Seq(Users) /\ opened' \in Seq(Tokens)
                   /\ \A u \in Users : users'[u] # <<>> => users'[u][1] \in Emails
                   /\ \A t \in Tokens : sessions'[t] # <<>> => sessions'[t][1] \in Users
                   /\ \A i \in DOMAIN created' : users'[created'[i]] # <<>>
                   /\ \A i \in DOMAIN opened' : sessions'[opened'[i]] # <<>>
                   /\ settled' \subseteq Users \cup Tokens
<1>0. /\ RequestOK(r) /\ settled \subseteq Users \cup Tokens
      /\ users \in [Users -> Seq(Emails \cup {Deleted})]
      /\ sessions \in [Tokens -> Seq(Users \cup {Deleted})]
      /\ created \in Seq(Users) /\ opened \in Seq(Tokens)
      /\ \A u \in Users : users[u] # <<>> => users[u][1] \in Emails
      /\ \A t \in Tokens : sessions[t] # <<>> => sessions[t][1] \in Users
      /\ \A i \in DOMAIN created : users[created[i]] # <<>>
      /\ \A i \in DOMAIN opened : sessions[opened[i]] # <<>>
  BY DEF TypeInv, TypeOK, LogOK
<1>1. CASE UNCHANGED <<log, settled>>
  BY <1>0, <1>1 DEF log
<1>2. ASSUME NEW u \in Users, users[u] # <<>>, NEW x \in Emails \cup {Deleted},
             users' = [users EXCEPT ![u] = Append(@, x)],
             UNCHANGED <<sessions, created, opened>>, settled' \subseteq Users \cup Tokens
      PROVE  Goal
  <2>1. users[u] \in Seq(Emails \cup {Deleted})
    BY <1>0
  <2>2. users'[u] \in Seq(Emails \cup {Deleted}) /\ users'[u] # <<>> /\ users'[u][1] = users[u][1]
    BY <1>0, <1>2, <2>1, AppendKeeps
  <2>3. \A v \in Users \ {u} : users'[v] = users[v]
    BY <1>0, <1>2
  <2>4. users' \in [Users -> Seq(Emails \cup {Deleted})]
    BY <1>0, <1>2, <2>2
  <2>5. \A i \in DOMAIN created : created[i] \in Users
    BY <1>0
  <2>6. QED
    BY <1>0, <1>2, <2>2, <2>3, <2>4, <2>5
<1>3. ASSUME NEW t \in Tokens, sessions[t] # <<>>, NEW x \in Users \cup {Deleted},
             sessions' = [sessions EXCEPT ![t] = Append(@, x)],
             UNCHANGED <<users, created, opened>>, settled' \subseteq Users \cup Tokens
      PROVE  Goal
  <2>1. sessions[t] \in Seq(Users \cup {Deleted})
    BY <1>0
  <2>2. /\ sessions'[t] \in Seq(Users \cup {Deleted})
        /\ sessions'[t] # <<>> /\ sessions'[t][1] = sessions[t][1]
    BY <1>0, <1>3, <2>1, AppendKeeps
  <2>3. \A s \in Tokens \ {t} : sessions'[s] = sessions[s]
    BY <1>0, <1>3
  <2>4. sessions' \in [Tokens -> Seq(Users \cup {Deleted})]
    BY <1>0, <1>3, <2>2
  <2>5. \A i \in DOMAIN opened : opened[i] \in Tokens
    BY <1>0
  <2>6. QED
    BY <1>0, <1>3, <2>2, <2>3, <2>4, <2>5
<1>4. CASE CreateUser(r)
  <2>1. PICK u \in Users : users[u] = <<>> /\ users' = [users EXCEPT ![u] = <<req[r].email>>]
                          /\ created' = Append(created, u)
    BY <1>4 DEF CreateUser
  <2>2. req[r].email \in Emails /\ UNCHANGED <<sessions, opened, settled>>
    BY <1>0, <1>4 DEF CreateUser, RequestOK
  <2>3. users'[u] \in Seq(Emails \cup {Deleted}) /\ users'[u] # <<>> /\ users'[u][1] \in Emails
    BY <1>0, <2>1, <2>2
  <2>4. users' \in [Users -> Seq(Emails \cup {Deleted})] /\ \A v \in Users \ {u} : users'[v] = users[v]
    BY <1>0, <2>1, <2>3
  <2>5. /\ created' \in Seq(Users)
        /\ \A i \in DOMAIN created' :
              created'[i] = u \/ (i \in DOMAIN created /\ created'[i] = created[i])
    <3>1. created' \in Seq(Users)
      BY <1>0, <2>1
    <3>2. created \in Seq(Users) /\ created' = Append(created, u)
      BY <1>0, <2>1
    <3>3. QED
      BY ONLY <3>1, <3>2, u \in Users, AppendReads
  <2>6. \A i \in DOMAIN created' : users'[created'[i]] # <<>>
    <3>1. SUFFICES ASSUME NEW i \in DOMAIN created' PROVE users'[created'[i]] # <<>>
      OBVIOUS
    <3>2. CASE created'[i] = u
      BY <2>3, <3>2
    <3>3. CASE i \in DOMAIN created /\ created'[i] = created[i] /\ created[i] # u
      BY <1>0, <2>4, <3>3
    <3>4. QED
      BY <2>5, <3>2, <3>3
  <2>7. QED
    BY <1>0, <2>2, <2>3, <2>4, <2>5, <2>6
<1>5. CASE CreateSession(r)
  <2>1. PICK t \in Tokens : sessions[t] = <<>> /\ sessions' = [sessions EXCEPT ![t] = <<req[r].user>>]
                          /\ opened' = Append(opened, t)
    BY <1>5 DEF CreateSession
  <2>2. req[r].user \in Users /\ UNCHANGED <<users, created, settled>>
    BY <1>0, <1>5 DEF CreateSession, RequestOK
  <2>3. sessions'[t] \in Seq(Users \cup {Deleted}) /\ sessions'[t] # <<>> /\ sessions'[t][1] \in Users
    BY <1>0, <2>1, <2>2
  <2>4. /\ sessions' \in [Tokens -> Seq(Users \cup {Deleted})]
        /\ \A s \in Tokens \ {t} : sessions'[s] = sessions[s]
    BY <1>0, <2>1, <2>3
  <2>5. /\ opened' \in Seq(Tokens)
        /\ \A i \in DOMAIN opened' :
              opened'[i] = t \/ (i \in DOMAIN opened /\ opened'[i] = opened[i])
    <3>1. opened' \in Seq(Tokens)
      BY <1>0, <2>1
    <3>2. opened \in Seq(Tokens) /\ opened' = Append(opened, t)
      BY <1>0, <2>1
    <3>3. QED
      BY ONLY <3>1, <3>2, t \in Tokens, AppendReads
  <2>6. \A i \in DOMAIN opened' : sessions'[opened'[i]] # <<>>
    <3>1. SUFFICES ASSUME NEW i \in DOMAIN opened' PROVE sessions'[opened'[i]] # <<>>
      OBVIOUS
    <3>2. CASE opened'[i] = t
      BY <2>3, <3>2
    <3>3. CASE i \in DOMAIN opened /\ opened'[i] = opened[i] /\ opened[i] # t
      BY <1>0, <2>4, <3>3
    <3>4. QED
      BY <2>5, <3>2, <3>3
  <2>7. QED
    BY <1>0, <2>2, <2>3, <2>4, <2>5, <2>6
<1>6. CASE AppendUser(r)
  <2>1. HasUser(r) /\ req[r].email \in Emails
    BY <1>0, <1>6 DEF AppendUser, RequestOK
  <2>2. QED
    BY <1>0, <1>2, <1>6, <2>1 DEF AppendUser, HasUser
<1>7. CASE AppendSession(r)
  <2>1. HasToken(r) /\ req[r].user \in Users
    BY <1>0, <1>7 DEF AppendSession, RequestOK
  <2>2. QED
    BY <1>0, <1>3, <1>7, <2>1 DEF AppendSession, HasToken
<1>8. CASE DeleteListed(r)
  <2>1. PICK i \in req[r].todo : Bury(opened[i])
    BY <1>8 DEF DeleteListed, Oldest
  <2>2. i \in DOMAIN opened
    BY <1>0, <1>8 DEF DeleteListed, RequestOK
  <2>3. opened[i] \in Tokens /\ sessions[opened[i]] # <<>>
    BY <1>0, <2>2
  <2>4. settled' \subseteq Users \cup Tokens
    BY <1>0, <2>1, <2>3 DEF Bury, Settles
  <2>5. QED
    BY <1>3, <1>8, <2>1, <2>3, <2>4 DEF DeleteListed, Bury
<1>9. CASE SignOut(r)
  <2>1. HasToken(r)
    BY <1>0, <1>9 DEF SignOut, RequestOK
  <2>2. settled' \subseteq Users \cup Tokens
    BY <1>0, <1>9, <2>1 DEF SignOut, Bury, Settles, HasToken
  <2>3. QED
    BY <1>3, <1>9, <2>1, <2>2 DEF SignOut, Bury, HasToken
<1>10. CASE DeleteUser(r)
  <2>1. HasUser(r)
    BY <1>0, <1>10 DEF DeleteUser, RequestOK
  <2>2. settled' \subseteq Users \cup Tokens
    BY <1>0, <1>10, <2>1 DEF DeleteUser, Settles, HasUser
  <2>3. QED
    BY <1>2, <1>10, <2>1, <2>2 DEF DeleteUser, HasUser
<1>11. CASE UNCHANGED <<log, settled, served>>
  BY <1>1, <1>11
<1>12. QED
  BY <1>1, <1>4, <1>5, <1>6, <1>7, <1>8, <1>9, <1>10, <1>11
     DEF Step, Fail, CheckEmail, FindEmail, LoadFound, ReadSession, ReadUser, Answer,
         ReadUserAgain, ReadTouch, ListSessions, ListAll

(* A request that arrives has what its first step needs.                   *)
LEMMA StartOK ==
    ASSUME TypeInv, NEW r \in Requests, NEW op \in Operations,
           NEW t \in Tokens \cup {Deleted}, NEW e \in Emails \cup {Deleted}, Start(r, op, t, e)
    PROVE  /\ RequestOK(r)' /\ req'[r] \in RequestType /\ req' = [req EXCEPT ![r] = req'[r]]
           /\ req'[r].pc = FirstStep[op] /\ req'[r].gone = settled
<1>1. /\ req \in [Requests -> RequestType] /\ settled \subseteq Users \cup Tokens
      /\ UNCHANGED <<users, sessions, created, opened>>
  BY DEF TypeInv, TypeOK, Start, log
<1>2. req'[r] = [pc |-> FirstStep[op], op |-> op, user |-> Deleted, token |-> t,
                 found |-> Deleted, email |-> e, todo |-> {}, saw |-> 0, gone |-> settled]
  BY <1>1 DEF Start, Idle
<1>3. FirstStep[op] \in PCs
  BY DEF FirstStep, Operations, PCs
<1>4. req'[r] \in RequestType
  BY <1>1, <1>2, <1>3 DEF RequestType
<1>5. FirstStep[op] \in {"read_session", "read_touch", "sign_out"} =>
        op \in Operations \ {"sign_up", "sign_in", "sweep"}
  BY DEF FirstStep, Operations
<1>6. FirstStep[op] \in {"read_session", "read_touch", "sign_out"} => HasToken(r)'
  BY <1>1, <1>2, <1>5 DEF Start, HasToken
<1>7. FirstStep[op] \in {"check_email", "find_email"} => e \in Emails
  BY DEF FirstStep, Operations, Start
<1>8. FirstStep[op] = "read_session" => op \in Authenticated /\ (op = "change_email" => e \in Emails)
  BY DEF FirstStep, Operations, Start, Authenticated
<1>9. FirstStep[op] = "find_email" => op = "sign_in"
  BY DEF FirstStep, Operations
<1>10. FirstStep[op] = "list_all" => op = "sweep"
  BY DEF FirstStep, Operations
<1>11. FirstStep[op] \in {"read_session", "check_email", "find_email", "sign_out",
                          "read_touch", "list_all"}
  BY DEF FirstStep, Operations
<1>12. RequestOK(r)'
  BY <1>2, <1>6, <1>7, <1>8, <1>9, <1>10, <1>11 DEF RequestOK
<1>13. QED
  BY <1>1, <1>2, <1>4, <1>12 DEF Start

(* The type invariant, with what requests hold, is inductive.              *)
LEMMA TypeStep == TypeInv /\ [Next]_vars => TypeInv'
<1> SUFFICES ASSUME TypeInv, [Next]_vars PROVE TypeInv'
  OBVIOUS
<1>0. /\ req \in [Requests -> RequestType] /\ served \in 0..MaxRequests
      /\ \A r \in Requests : RequestOK(r)
  BY DEF TypeInv, TypeOK
<1>1. CASE UNCHANGED vars
  BY <1>1 DEF vars, TypeInv, TypeOK, LogOK, RequestOK, HasUser, HasToken
<1>2. ASSUME NEW r \in Requests, NEW op \in Operations,
             NEW t \in Tokens \cup {Deleted}, NEW e \in Emails \cup {Deleted},
             Start(r, op, t, e)
      PROVE  TypeInv'
  <2>1. UNCHANGED <<log, settled>> /\ served' \in 0..MaxRequests
    BY <1>0, <1>2, BoundAssumption DEF Start
  <2>2. Grows
    BY <2>1, LogGrows
  <2>3. RequestOK(r)' /\ req'[r] \in RequestType /\ req' = [req EXCEPT ![r] = req'[r]]
    BY <1>2, StartOK
  <2>4. req' \in [Requests -> RequestType] /\ \A o \in Requests \ {r} : RequestOK(o)'
    BY <1>0, <2>2, <2>3, OthersKeep
  <2>5. QED
    BY <2>1, <2>3, <2>4, LogTyped DEF TypeInv, TypeOK, LogOK
<1>3. ASSUME NEW r \in Requests, Step(r) \/ Fail(r) PROVE TypeInv'
  <2>1. Grows
    BY <1>3, LogGrows
  <2>2. req' = [req EXCEPT ![r] = req'[r]]
    BY <1>0, <1>3, OnlyTheActor
  <2>3. RequestOK(r)' /\ req'[r] \in RequestType
    BY <1>3, <2>1, ActorOK
  <2>4. req' \in [Requests -> RequestType] /\ \A o \in Requests \ {r} : RequestOK(o)'
    BY <1>0, <2>1, <2>2, <2>3, OthersKeep
  <2>5. served' = served
    BY <1>3 DEF Step, Fail, CheckEmail, CreateUser, CreateSession, FindEmail, LoadFound,
       ReadSession, ReadUser, Answer, ReadUserAgain, AppendUser, ReadTouch, AppendSession,
       ListSessions, ListAll, DeleteListed, SignOut, DeleteUser
  <2>6. QED
    BY <1>0, <1>3, <2>3, <2>4, <2>5, LogTyped DEF TypeInv, TypeOK, LogOK
<1>4. QED
  BY <1>1, <1>2, <1>3 DEF Next

(* It holds at the start.                                                  *)
LEMMA TypeInit == Init => TypeInv
<1> SUFFICES ASSUME Init PROVE TypeInv
  OBVIOUS
<1>1. Idle \in RequestType
  BY DEF Idle, RequestType, PCs
<1>2. TypeOK /\ LogOK
  BY <1>1, BoundAssumption DEF Init, TypeOK, LogOK
<1>3. \A r \in Requests : RequestOK(r)
  BY DEF Init, RequestOK, Idle
<1>4. QED
  BY <1>2, <1>3 DEF TypeInv

(* TypeOK: streams hold snapshots and tombstones and start with a          *)
(* snapshot, whatever the requests do.                                     *)
THEOREM TypeCorrect == Spec => []TypeOK
<1>1. Spec => []TypeInv
  BY TypeInit, TypeStep, PTL DEF Spec
<1>2. TypeInv => TypeOK
  BY DEF TypeInv
<1>3. QED
  BY <1>1, <1>2, PTL

-----------------------------------------------------------------------------
(* Deletions that stay.                                                    *)

SettledOK ==
    /\ \A t \in Tokens \cap settled : sessions[t] # <<>> /\ LatestLive(sessions[t]) = Deleted
    /\ \A u \in Users \cap settled : users[u] # <<>> /\ LatestLive(users[u]) = Deleted
    /\ \A e \in settled : ~InFlight(e)

(* A request that deletes goes on deleting, or is done.                    *)
LEMMA DeletesNext ==
    ASSUME TypeInv, NEW r \in Requests, ListSessions(r) \/ ListAll(r) \/ DeleteListed(r)
    PROVE  /\ req'[r].pc \in {"delete_listed", "delete_user", "idle"}
           /\ req'[r].gone \in {req[r].gone, {}}
<1>0. req \in [Requests -> RequestType] /\ req[r] \in RequestType
  BY DEF TypeInv, TypeOK
<1>1. ASSUME NEW q \in RequestType, NEW todo, q.gone = req[r].gone, req'[r] = Deleting(q, todo)
      PROVE  /\ req'[r].pc \in {"delete_listed", "delete_user", "idle"}
             /\ req'[r].gone \in {req[r].gone, {}}
  BY <1>1 DEF Deleting, Idle, RequestType
<1>2. CASE ListSessions(r)
  <2> DEFINE q == [req[r] EXCEPT !.saw = Len(opened)]
  <2>1. Len(opened) \in Nat
    BY DEF TypeInv, TypeOK
  <2>2. q \in RequestType /\ q.gone = req[r].gone /\ q.user = req[r].user
    BY <1>0, <2>1 DEF RequestType
  <2>3. req'[r] = Deleting(q, SessionsOf(q.user))
    BY <1>0, <1>2, <2>2 DEF ListSessions
  <2> HIDE DEF q
  <2>4. QED
    BY <1>1, <2>2, <2>3
<1>3. CASE ListAll(r)
  <2>1. req'[r] = Deleting(req[r], Scanned(opened))
    BY <1>0, <1>3 DEF ListAll
  <2>2. QED
    BY <1>0, <1>1, <2>1
<1>4. CASE DeleteListed(r)
  <2>1. PICK i \in req[r].todo : req'[r] = Deleting(req[r], req[r].todo \ {i})
    BY <1>0, <1>4 DEF DeleteListed, Oldest
  <2>2. QED
    BY <1>0, <1>1, <2>1
<1>5. QED
  BY <1>2, <1>3, <1>4

(* Only the two first halves of an update bring one into flight, and only  *)
(* for an entity that reads as there; no step forgets what a request knew. *)
LEMMA Moves ==
    ASSUME TypeInv, NEW r \in Requests, Step(r) \/ Fail(r)
    PROVE  /\ req'[r].pc = "append_user" =>
                 /\ req'[r].user = req[r].user /\ req[r].user \in Users
                 /\ LatestLive(users[req[r].user]) # Deleted
           /\ req'[r].pc = "append_session" =>
                 /\ req'[r].token = req[r].token /\ req[r].token \in Tokens
                 /\ LatestLive(sessions[req[r].token]) # Deleted
           /\ req'[r].gone \in {req[r].gone, {}}
<1>0. /\ req \in [Requests -> RequestType] /\ req[r] \in RequestType /\ RequestOK(r)
  BY DEF TypeInv, TypeOK
<1>1. CASE CheckEmail(r)
  BY <1>0, <1>1 DEF CheckEmail, End, Idle, RequestType
<1>2. CASE CreateUser(r)
  BY <1>0, <1>2 DEF CreateUser, RequestType
<1>3. CASE FindEmail(r)
  BY <1>0, <1>3 DEF FindEmail, End, Idle, Go, RequestType
<1>4. CASE LoadFound(r)
  BY <1>0, <1>4 DEF LoadFound, End, Idle, Go, RequestType
<1>5. CASE ReadSession(r)
  BY <1>0, <1>5 DEF ReadSession, End, Idle, RequestType
<1>6. CASE ReadUser(r)
  <2>1. req[r].op \in Authenticated
    BY <1>0, <1>6 DEF ReadUser, RequestOK
  <2>2. QED
    BY <1>0, <1>6, <2>1 DEF ReadUser, End, Idle, Go, RequestType, Handler, Authenticated
<1>7. CASE ReadUserAgain(r)
  <2>1. req[r].user \in Users
    BY <1>0, <1>7 DEF ReadUserAgain, RequestOK, HasUser
  <2>2. QED
    BY <1>0, <1>7, <2>1 DEF ReadUserAgain, End, Idle, RequestType
<1>8. CASE ReadTouch(r)
  <2>1. req[r].token \in Tokens
    BY <1>0, <1>8 DEF ReadTouch, RequestOK, HasToken
  <2>2. QED
    BY <1>0, <1>8, <2>1 DEF ReadTouch, End, Idle, RequestType
<1>9. CASE ListSessions(r) \/ ListAll(r) \/ DeleteListed(r)
  BY <1>9, DeletesNext
<1>10. CASE \/ CreateSession(r) \/ Answer(r) \/ AppendUser(r) \/ AppendSession(r)
            \/ SignOut(r) \/ DeleteUser(r) \/ Fail(r)
  BY <1>0, <1>10 DEF CreateSession, Answer, AppendUser, AppendSession, SignOut, DeleteUser,
     Fail, End, Idle
<1>11. QED
  BY <1>1, <1>2, <1>3, <1>4, <1>5, <1>6, <1>7, <1>8, <1>9, <1>10 DEF Step

(* Only the first half of a session's update brings one into flight.       *)
LEMMA OnlyTouches ==
    ASSUME TypeInv, NEW r \in Requests, Step(r) \/ Fail(r), ~ReadTouch(r)
    PROVE  req'[r].pc # "append_session"
<1>0. /\ req \in [Requests -> RequestType] /\ req[r] \in RequestType /\ RequestOK(r)
  BY DEF TypeInv, TypeOK
<1>1. CASE CheckEmail(r) \/ CreateUser(r)
  BY <1>0, <1>1 DEF CheckEmail, CreateUser, End, Idle, RequestType
<1>2. CASE FindEmail(r) \/ LoadFound(r)
  BY <1>0, <1>2 DEF FindEmail, LoadFound, End, Go, Idle, RequestType
<1>3. CASE ReadSession(r) \/ ReadUserAgain(r)
  BY <1>0, <1>3 DEF ReadSession, ReadUserAgain, End, Idle, RequestType
<1>4. CASE ReadUser(r)
  <2>1. req[r].op \in Authenticated
    BY <1>0, <1>4 DEF ReadUser, RequestOK
  <2>2. QED
    BY <1>0, <1>4, <2>1 DEF ReadUser, End, Idle, Go, RequestType, Handler, Authenticated
<1>5. CASE ListSessions(r) \/ ListAll(r) \/ DeleteListed(r)
  BY <1>5, DeletesNext
<1>6. CASE \/ CreateSession(r) \/ Answer(r) \/ AppendUser(r) \/ AppendSession(r)
           \/ SignOut(r) \/ DeleteUser(r) \/ Fail(r)
  BY <1>0, <1>6 DEF CreateSession, Answer, AppendUser, AppendSession, SignOut, DeleteUser,
     Fail, End, Idle
<1>7. QED
  BY <1>1, <1>2, <1>3, <1>4, <1>5, <1>6 DEF Step

(* A tombstone settles its entity if at all, and keeps settled what was.   *)
LEMMA SettlesMore ==
    ASSUME NEW e, NEW stream, Settles(e, stream)
    PROVE  /\ settled \subseteq settled' /\ settled' \subseteq settled \cup {e}
           /\ e \in settled' \ settled => Len(stream) < Cap /\ ~InFlight(e)
BY DEF Settles

(* A settled session reads as deleted after every step.                    *)
LEMMA SettledSessions ==
    ASSUME TypeInv, SettledOK, NEW r \in Requests, Step(r) \/ Fail(r), NEW t \in Tokens,
           t \in settled'
    PROVE  sessions'[t] # <<>> /\ LatestLive(sessions'[t]) = Deleted
<1>0. /\ sessions \in [Tokens -> Seq(Users \cup {Deleted})] /\ RequestOK(r)
      /\ opened \in Seq(Tokens)
      /\ sessions[t] \in Seq(Users \cup {Deleted})
  BY DEF TypeInv, TypeOK
<1>1. t \in settled => sessions[t] # <<>> /\ LatestLive(sessions[t]) = Deleted /\ ~InFlight(t)
  BY DEF SettledOK
<1>2. ASSUME settled' = settled, sessions'[t] = sessions[t]
      PROVE  sessions'[t] # <<>> /\ LatestLive(sessions'[t]) = Deleted
  BY <1>1, <1>2
<1>3. CASE CreateSession(r)
  <2>1. PICK s \in Tokens : sessions[s] = <<>> /\ sessions' = [sessions EXCEPT ![s] = <<req[r].user>>]
    BY <1>3 DEF CreateSession
  <2>2. settled' = settled
    BY <1>3 DEF CreateSession
  <2>3. QED
    BY <1>0, <1>1, <2>1, <2>2
<1>4. CASE AppendSession(r)
  <2>1. settled' = settled /\ req[r].token # t
    BY <1>1, <1>4 DEF AppendSession, InFlight
  <2>2. QED
    BY <1>0, <1>2, <1>4, <2>1 DEF AppendSession
<1>5. ASSUME NEW s \in Tokens, Bury(s)
      PROVE  sessions'[t] # <<>> /\ LatestLive(sessions'[t]) = Deleted
  <2>1. CASE s = t
    <3>1. sessions'[t] = Append(sessions[t], Deleted)
      BY <1>0, <1>5, <2>1 DEF Bury
    <3>2. t \in settled \/ Len(sessions[t]) < Cap
      BY <1>5, <2>1, SettlesMore DEF Bury
    <3>3. QED
      BY <1>0, <1>1, <3>1, <3>2, TombstoneShows, TombstoneKeeps, AppendKeeps
  <2>2. CASE s # t
    <3>1. sessions'[t] = sessions[t] /\ t \in settled
      BY <1>0, <1>5, <2>2, SettlesMore DEF Bury
    <3>2. QED
      BY <1>1, <3>1
  <2>3. QED
    BY <2>1, <2>2
<1>6. CASE DeleteListed(r)
  <2>1. PICK i \in req[r].todo : Bury(opened[i])
    BY <1>6 DEF DeleteListed, Oldest
  <2>2. opened[i] \in Tokens
    BY <1>0, <1>6 DEF DeleteListed, RequestOK
  <2>3. QED
    BY <1>5, <2>1, <2>2
<1>7. CASE SignOut(r)
  BY <1>0, <1>5, <1>7 DEF SignOut, RequestOK, HasToken
<1>8. CASE DeleteUser(r)
  <2>1. req[r].user \in Users
    BY <1>0, <1>8 DEF DeleteUser, RequestOK, HasUser
  <2>2. t \in settled /\ sessions'[t] = sessions[t]
    BY <1>8, <2>1, SettlesMore, DisjointAssumption DEF DeleteUser
  <2>3. QED
    BY <1>1, <2>2
<1>9. CASE UNCHANGED <<sessions, settled>>
  BY <1>2, <1>9
<1>10. QED
  BY <1>3, <1>4, <1>6, <1>7, <1>8, <1>9
     DEF Step, Fail, CheckEmail, CreateUser, FindEmail, LoadFound, ReadSession, ReadUser, Answer,
         ReadUserAgain, AppendUser, ReadTouch, ListSessions, ListAll, log

(* And so does a settled user.                                             *)
LEMMA SettledUsers ==
    ASSUME TypeInv, SettledOK, NEW r \in Requests, Step(r) \/ Fail(r), NEW u \in Users,
           u \in settled'
    PROVE  users'[u] # <<>> /\ LatestLive(users'[u]) = Deleted
<1>0. /\ users \in [Users -> Seq(Emails \cup {Deleted})] /\ RequestOK(r)
      /\ opened \in Seq(Tokens)
      /\ users[u] \in Seq(Emails \cup {Deleted})
  BY DEF TypeInv, TypeOK
<1>1. u \in settled => users[u] # <<>> /\ LatestLive(users[u]) = Deleted /\ ~InFlight(u)
  BY DEF SettledOK
<1>2. ASSUME u \in settled, users'[u] = users[u]
      PROVE  users'[u] # <<>> /\ LatestLive(users'[u]) = Deleted
  BY <1>1, <1>2
<1>3. CASE CreateUser(r)
  <2>1. PICK v \in Users : users[v] = <<>> /\ users' = [users EXCEPT ![v] = <<req[r].email>>]
    BY <1>3 DEF CreateUser
  <2>2. settled' = settled
    BY <1>3 DEF CreateUser
  <2>3. QED
    BY <1>0, <1>1, <2>1, <2>2
<1>4. CASE AppendUser(r)
  <2>1. settled' = settled /\ req[r].user # u
    BY <1>1, <1>4 DEF AppendUser, InFlight
  <2>2. QED
    BY <1>0, <1>2, <1>4, <2>1 DEF AppendUser
<1>5. CASE DeleteUser(r)
  <2>0. req[r].user \in Users
    BY <1>0, <1>5 DEF DeleteUser, RequestOK, HasUser
  <2>1. CASE req[r].user = u
    <3>1. users'[u] = Append(users[u], Deleted)
      BY <1>0, <1>5, <2>1 DEF DeleteUser
    <3>2. u \in settled \/ Len(users[u]) < Cap
      BY <1>5, <2>1, SettlesMore DEF DeleteUser
    <3>3. QED
      BY <1>0, <1>1, <3>1, <3>2, TombstoneShows, TombstoneKeeps, AppendKeeps
  <2>2. CASE req[r].user # u
    <3>1. users'[u] = users[u] /\ u \in settled
      BY <1>0, <1>5, <2>0, <2>2, SettlesMore DEF DeleteUser
    <3>2. QED
      BY <1>2, <3>1
  <2>3. QED
    BY <2>1, <2>2
<1>6. ASSUME NEW t \in Tokens, Bury(t), users' = users
      PROVE  users'[u] # <<>> /\ LatestLive(users'[u]) = Deleted
  <2>1. u \in settled
    BY <1>6, SettlesMore, DisjointAssumption DEF Bury
  <2>2. QED
    BY <1>2, <1>6, <2>1
<1>7. CASE DeleteListed(r)
  <2>1. PICK i \in req[r].todo : Bury(opened[i])
    BY <1>7 DEF DeleteListed, Oldest
  <2>2. opened[i] \in Tokens
    BY <1>0, <1>7 DEF DeleteListed, RequestOK
  <2>3. QED
    BY <1>6, <1>7, <2>1, <2>2 DEF DeleteListed
<1>8. CASE SignOut(r)
  BY <1>0, <1>6, <1>8 DEF SignOut, RequestOK, HasToken
<1>9. CASE UNCHANGED <<users, settled>>
  BY <1>2, <1>9
<1>10. QED
  BY <1>3, <1>4, <1>5, <1>7, <1>8, <1>9
     DEF Step, Fail, CheckEmail, CreateSession, FindEmail, LoadFound, ReadSession, ReadUser, Answer,
         ReadUserAgain, ReadTouch, AppendSession, ListSessions, ListAll, log

(* A settled entity gets no update in flight.                              *)
LEMMA SettledQuiet ==
    ASSUME TypeInv, SettledOK, NEW r \in Requests, Step(r) \/ Fail(r), NEW e \in settled'
    PROVE  ~InFlight(e)'
<1>0. req' = [req EXCEPT ![r] = req'[r]] /\ req \in [Requests -> RequestType]
  BY OnlyTheActor DEF TypeInv, TypeOK
<1>1. ~InFlight(e)
  <2>1. e \in settled => ~InFlight(e)
    BY DEF SettledOK
  <2>2. CASE DeleteListed(r)
    BY <2>1, <2>2, SettlesMore DEF DeleteListed, Bury
  <2>3. CASE SignOut(r)
    BY <2>1, <2>3, SettlesMore DEF SignOut, Bury
  <2>4. CASE DeleteUser(r)
    BY <2>1, <2>4, SettlesMore DEF DeleteUser
  <2>5. CASE settled' = settled
    BY <2>1, <2>5
  <2>6. QED
    BY <2>2, <2>3, <2>4, <2>5
       DEF Step, Fail, CheckEmail, CreateUser, CreateSession, FindEmail, LoadFound, ReadSession,
           ReadUser, Answer, ReadUserAgain, AppendUser, ReadTouch, AppendSession, ListSessions,
           ListAll
<1>2. \A o \in Requests \ {r} : req'[o] = req[o]
  BY <1>0
<1>3. \/ settled' = settled
      \/ req'[r].pc \notin {"append_user", "append_session"}
  <2>1. CASE DeleteListed(r)
    BY <2>1, DeletesNext
  <2>2. CASE SignOut(r) \/ DeleteUser(r)
    BY <1>0, <2>2 DEF SignOut, DeleteUser, End, Idle
  <2>3. QED
    BY <2>1, <2>2
       DEF Step, Fail, CheckEmail, CreateUser, CreateSession, FindEmail, LoadFound, ReadSession,
           ReadUser, Answer, ReadUserAgain, AppendUser, ReadTouch, AppendSession, ListSessions,
           ListAll
<1>4. ~(req'[r].pc = "append_user" /\ req'[r].user = e)
  BY <1>3, Moves DEF SettledOK
<1>5. ~(req'[r].pc = "append_session" /\ req'[r].token = e)
  BY <1>3, Moves DEF SettledOK
<1>6. ASSUME InFlight(e)' PROVE FALSE
  <2>1. PICK o \in Requests :
           \/ req'[o].pc = "append_user" /\ req'[o].user = e
           \/ req'[o].pc = "append_session" /\ req'[o].token = e
    BY <1>6 DEF InFlight
  <2>2. CASE o = r
    BY <1>4, <1>5, <2>1, <2>2
  <2>3. CASE o # r
    BY <1>1, <1>2, <2>1, <2>3 DEF InFlight
  <2>4. QED
    BY <2>2, <2>3
<1>7. QED
  BY <1>6

(* Deletions stay along every step.                                        *)
LEMMA SettledStep == TypeInv /\ SettledOK /\ [Next]_vars => SettledOK'
<1> SUFFICES ASSUME TypeInv, SettledOK, [Next]_vars PROVE SettledOK'
  OBVIOUS
<1>1. CASE UNCHANGED vars
  BY <1>1 DEF vars, SettledOK, InFlight
<1>2. ASSUME NEW r \in Requests, NEW op \in Operations,
             NEW t \in Tokens \cup {Deleted}, NEW e \in Emails \cup {Deleted},
             Start(r, op, t, e)
      PROVE  SettledOK'
  <2>1. UNCHANGED <<users, sessions, settled>>
    BY <1>2 DEF Start, log
  <2>2. req' = [req EXCEPT ![r] = req'[r]] /\ req'[r].pc \notin {"append_user", "append_session"}
    BY <1>2, StartOK DEF FirstStep, Operations
  <2>3. \A o \in Requests \ {r} : req'[o] = req[o]
    BY <2>2 DEF TypeInv, TypeOK
  <2>4. \A x : InFlight(x)' => InFlight(x)
    BY <2>2, <2>3 DEF InFlight
  <2>5. QED
    BY <2>1, <2>4 DEF SettledOK
<1>3. ASSUME NEW r \in Requests, Step(r) \/ Fail(r) PROVE SettledOK'
  BY <1>3, SettledSessions, SettledUsers, SettledQuiet DEF SettledOK
<1>4. QED
  BY <1>1, <1>2, <1>3 DEF Next

(* DeletedStaysDeleted: a deletion that overlapped no update is final,     *)
(* whatever requests and failures follow.                                  *)
THEOREM DeletionsHold == Spec => []DeletedStaysDeleted
<1>1. Init => TypeInv /\ SettledOK
  BY TypeInit DEF Init, SettledOK
<1>2. TypeInv /\ SettledOK /\ [Next]_vars => (TypeInv /\ SettledOK)'
  BY TypeStep, SettledStep
<1>3. TypeInv /\ SettledOK => DeletedStaysDeleted
  BY DEF SettledOK, DeletedStaysDeleted
<1>4. QED
  BY <1>1, <1>2, <1>3, PTL DEF Spec

-----------------------------------------------------------------------------
(* No entry for what was deleted before.                                   *)

EntryOK ==
    \A r \in Requests :
        /\ req[r].gone \subseteq settled
        /\ req[r].pc \in {"read_user", "in", "list_sessions"} => req[r].token \notin req[r].gone
        /\ req[r].pc \in {"in", "list_sessions"} => req[r].user \notin req[r].gone

(* A request gets past its two reads only with what is there.              *)
LEMMA Enters ==
    ASSUME TypeInv, SettledOK, EntryOK, NEW r \in Requests, Step(r) \/ Fail(r)
    PROVE  /\ req'[r].pc \in {"read_user", "in", "list_sessions"} => req'[r].token \notin req'[r].gone
           /\ req'[r].pc \in {"in", "list_sessions"} => req'[r].user \notin req'[r].gone
<1>0. /\ req \in [Requests -> RequestType] /\ req[r] \in RequestType /\ RequestOK(r)
      /\ req[r].gone \subseteq settled
  BY DEF TypeInv, TypeOK, EntryOK
<1>1. CASE ReadSession(r)
  <2>1. HasToken(r)
    BY <1>0, <1>1 DEF ReadSession, RequestOK
  <2>2. LatestLive(sessions[req[r].token]) # Deleted => req[r].token \notin req[r].gone
    BY <1>0, <2>1 DEF SettledOK, HasToken
  <2>3. QED
    BY <1>0, <1>1, <2>2 DEF ReadSession, End, Idle, RequestType
<1>2. CASE ReadUser(r)
  <2>1. req[r].user \in Users /\ req[r].token \notin req[r].gone
    BY <1>0, <1>2 DEF ReadUser, RequestOK, EntryOK
  <2>2. LatestLive(users[req[r].user]) # Deleted => req[r].user \notin req[r].gone
    BY <1>0, <2>1 DEF SettledOK
  <2>3. QED
    BY <1>0, <1>2, <2>1, <2>2 DEF ReadUser, End, Idle, Go, RequestType
<1>3. CASE CheckEmail(r) \/ CreateUser(r)
  BY <1>0, <1>3 DEF CheckEmail, CreateUser, End, Idle, RequestType
<1>4. CASE FindEmail(r) \/ LoadFound(r)
  BY <1>0, <1>4 DEF FindEmail, LoadFound, End, Go, Idle, RequestType
<1>5. CASE ReadUserAgain(r) \/ ReadTouch(r)
  BY <1>0, <1>5 DEF ReadUserAgain, ReadTouch, End, Idle, RequestType
<1>6. CASE ListSessions(r) \/ ListAll(r) \/ DeleteListed(r)
  BY <1>6, DeletesNext
<1>7. CASE \/ CreateSession(r) \/ Answer(r) \/ AppendUser(r) \/ AppendSession(r)
           \/ SignOut(r) \/ DeleteUser(r) \/ Fail(r)
  BY <1>0, <1>7 DEF CreateSession, Answer, AppendUser, AppendSession, SignOut, DeleteUser,
     Fail, End, Idle
<1>8. QED
  BY <1>1, <1>2, <1>3, <1>4, <1>5, <1>6, <1>7 DEF Step

(* What a step deletes for good adds to what was.                          *)
LEMMA SettledGrows ==
    ASSUME NEW r \in Requests, Step(r) \/ Fail(r)
    PROVE  settled \subseteq settled'
<1>1. CASE DeleteListed(r)
  BY <1>1, SettlesMore DEF DeleteListed, Bury
<1>2. CASE SignOut(r) \/ DeleteUser(r)
  BY <1>2, SettlesMore DEF SignOut, Bury, DeleteUser
<1>3. CASE settled' = settled
  BY <1>3
<1>4. QED
  BY <1>1, <1>2, <1>3
     DEF Step, Fail, CheckEmail, CreateUser, CreateSession, FindEmail, LoadFound, ReadSession,
         ReadUser, Answer, ReadUserAgain, AppendUser, ReadTouch, AppendSession, ListSessions,
         ListAll

(* EntryOK is inductive, given the invariants before it.                   *)
LEMMA EntryStep == TypeInv /\ SettledOK /\ EntryOK /\ [Next]_vars => EntryOK'
<1> SUFFICES ASSUME TypeInv, SettledOK, EntryOK, [Next]_vars PROVE EntryOK'
  OBVIOUS
<1>1. CASE UNCHANGED vars
  BY <1>1 DEF vars, EntryOK
<1>2. ASSUME NEW r \in Requests, NEW op \in Operations,
             NEW t \in Tokens \cup {Deleted}, NEW e \in Emails \cup {Deleted},
             Start(r, op, t, e)
      PROVE  EntryOK'
  <2>1. settled' = settled
    BY <1>2 DEF Start
  <2>2. /\ req' = [req EXCEPT ![r] = req'[r]] /\ req'[r].gone = settled
        /\ req'[r].pc \notin {"read_user", "in", "list_sessions"}
    BY <1>2, StartOK DEF FirstStep, Operations
  <2>3. \A o \in Requests \ {r} : req'[o] = req[o]
    BY <2>2 DEF TypeInv, TypeOK
  <2>4. QED
    BY <2>1, <2>2, <2>3 DEF EntryOK
<1>3. ASSUME NEW r \in Requests, Step(r) \/ Fail(r) PROVE EntryOK'
  <2>1. settled \subseteq settled' /\ req'[r].gone \in {req[r].gone, {}}
    BY <1>3, SettledGrows, Moves
  <2>2. \A o \in Requests \ {r} : req'[o] = req[o]
    BY <1>3, OnlyTheActor DEF TypeInv, TypeOK
  <2>3. /\ req'[r].pc \in {"read_user", "in", "list_sessions"} => req'[r].token \notin req'[r].gone
        /\ req'[r].pc \in {"in", "list_sessions"} => req'[r].user \notin req'[r].gone
    BY <1>3, Enters
  <2>4. QED
    BY <2>1, <2>2, <2>3 DEF EntryOK
<1>4. QED
  BY <1>1, <1>2, <1>3 DEF Next

(* NoLateEntry: a session or a user deleted for good before a request came *)
(* in does not get it to its handler, although the reads interleave with   *)
(* everything else.                                                        *)
THEOREM EntryRefused == Spec => []NoLateEntry
<1>1. Init => TypeInv /\ SettledOK /\ EntryOK
  BY TypeInit DEF Init, SettledOK, EntryOK, Idle
<1>2. TypeInv /\ SettledOK /\ EntryOK /\ [Next]_vars => (TypeInv /\ SettledOK /\ EntryOK)'
  BY TypeStep, SettledStep, EntryStep
<1>3. EntryOK => NoLateEntry
  BY DEF EntryOK, NoLateEntry
<1>4. QED
  BY <1>1, <1>2, <1>3, PTL DEF Spec

-----------------------------------------------------------------------------
(* Sessions keep their user.                                               *)

OwnerOK ==
    /\ SessionsKeepTheirUser
    /\ \A r \in Requests : req[r].pc = "append_session" =>
          req[r].user = sessions[req[r].token][1]

(* An update appends what it read, and it read a snapshot of that stream.  *)
LEMMA OwnerStep == TypeInv /\ OwnerOK /\ [Next]_vars => OwnerOK'
<1> SUFFICES ASSUME TypeInv, OwnerOK, [Next]_vars PROVE OwnerOK'
  OBVIOUS
<1>0. /\ req \in [Requests -> RequestType] /\ opened \in Seq(Tokens)
      /\ sessions \in [Tokens -> Seq(Users \cup {Deleted})]
      /\ \A t \in Tokens : sessions[t] \in Seq(Users \cup {Deleted})
      /\ \A r \in Requests : RequestOK(r)
      /\ \A t \in Tokens : \A k \in DOMAIN sessions[t] :
            sessions[t][k] \in {sessions[t][1], Deleted}
  BY DEF TypeInv, TypeOK, OwnerOK, SessionsKeepTheirUser
<1>1. CASE UNCHANGED vars
  BY <1>1 DEF vars, OwnerOK, SessionsKeepTheirUser
<1>2. ASSUME NEW r \in Requests, NEW op \in Operations,
             NEW t \in Tokens \cup {Deleted}, NEW e \in Emails \cup {Deleted},
             Start(r, op, t, e)
      PROVE  OwnerOK'
  <2>1. sessions' = sessions
    BY <1>2 DEF Start, log
  <2>2. req' = [req EXCEPT ![r] = req'[r]] /\ req'[r].pc # "append_session"
    BY <1>2, StartOK DEF FirstStep, Operations
  <2>3. \A o \in Requests \ {r} : req'[o] = req[o]
    BY <1>0, <2>2
  <2>4. QED
    BY <2>1, <2>2, <2>3 DEF OwnerOK, SessionsKeepTheirUser
<1>3. ASSUME NEW r \in Requests, Step(r) \/ Fail(r) PROVE OwnerOK'
  <2>1. Grows /\ req' = [req EXCEPT ![r] = req'[r]]
    BY <1>0, <1>3, LogGrows, OnlyTheActor
  <2>2. ASSUME NEW o \in Requests \ {r}, req'[o].pc = "append_session"
        PROVE  req'[o].user = sessions'[req'[o].token][1]
    <3>1. req'[o] = req[o] /\ HasToken(o)
      BY <1>0, <2>1, <2>2 DEF RequestOK
    <3>2. QED
      BY <2>1, <2>2, <3>1 DEF OwnerOK, Grows, HasToken
  <2>3. ASSUME req'[r].pc = "append_session"
        PROVE  req'[r].user = sessions'[req'[r].token][1]
    <3> DEFINE owner == LatestLive(sessions[req[r].token])
    <3>1. CASE ReadTouch(r)
      <4>1. HasToken(r) /\ sessions' = sessions
        BY <1>0, <3>1 DEF ReadTouch, RequestOK, log
      <4>2. owner # Deleted /\ req'[r].user = owner /\ req'[r].token = req[r].token
        BY <1>0, <2>3, <3>1 DEF ReadTouch, End, Idle, RequestType
      <4>3. owner \in {sessions[req[r].token][1], Deleted}
        BY <1>0, <4>1, CapAssumption DEF LatestLive, HasToken
      <4>4. QED
        BY <4>1, <4>2, <4>3
    <3>2. CASE ~ReadTouch(r)
      BY <1>3, <2>3, <3>2, OnlyTouches
    <3>3. QED
      BY <3>1, <3>2
  <2>4. ASSUME NEW t \in Tokens, NEW x \in Users \cup {Deleted},
               sessions' = [sessions EXCEPT ![t] = Append(@, x)], sessions[t] # <<>>,
               x = Deleted \/ x = sessions[t][1]
        PROVE  SessionsKeepTheirUser'
    <3>1. sessions'[t] = Append(sessions[t], x) /\ \A s \in Tokens \ {t} : sessions'[s] = sessions[s]
      BY <1>0, <2>4
    <3>2. /\ DOMAIN sessions'[t] = DOMAIN sessions[t] \cup {Len(sessions[t]) + 1}
          /\ \A k \in DOMAIN sessions[t] : sessions'[t][k] = sessions[t][k]
          /\ sessions'[t][Len(sessions[t]) + 1] = x
          /\ 1 \in DOMAIN sessions[t]
      BY <1>0, <2>4, <3>1, AppendKeeps
    <3>3. \A k \in DOMAIN sessions'[t] : sessions'[t][k] \in {sessions'[t][1], Deleted}
      BY <1>0, <2>4, <3>2
    <3>4. QED
      BY <1>0, <3>1, <3>3 DEF SessionsKeepTheirUser
  <2>5. SessionsKeepTheirUser'
    <3>1. CASE CreateSession(r)
      <4>1. PICK t \in Tokens : sessions' = [sessions EXCEPT ![t] = <<req[r].user>>]
        BY <3>1 DEF CreateSession
      <4>2. QED
        BY <1>0, <4>1 DEF SessionsKeepTheirUser
    <3>2. CASE AppendSession(r)
      <4>1. HasToken(r) /\ req[r].user \in Users /\ req[r].user = sessions[req[r].token][1]
        BY <1>0, <3>2 DEF AppendSession, RequestOK, OwnerOK
      <4>2. QED
        BY <2>4, <3>2, <4>1 DEF AppendSession, HasToken
    <3>3. CASE DeleteListed(r)
      <4>1. PICK i \in req[r].todo : Bury(opened[i])
        BY <3>3 DEF DeleteListed, Oldest
      <4>2. opened[i] \in Tokens /\ sessions[opened[i]] # <<>>
        BY <1>0, <3>3 DEF DeleteListed, RequestOK, TypeInv, LogOK
      <4>3. QED
        BY <2>4, <4>1, <4>2 DEF Bury
    <3>4. CASE SignOut(r)
      BY <1>0, <2>4, <3>4 DEF SignOut, Bury, RequestOK, HasToken
    <3>5. CASE sessions' = sessions
      BY <3>5 DEF SessionsKeepTheirUser, OwnerOK
    <3>6. QED
      BY <1>3, <3>1, <3>2, <3>3, <3>4, <3>5
         DEF Step, Fail, CheckEmail, CreateUser, FindEmail, LoadFound, ReadSession, ReadUser, Answer,
             ReadUserAgain, AppendUser, ReadTouch, ListSessions, ListAll, DeleteUser, log
  <2>6. QED
    BY <2>2, <2>3, <2>5 DEF OwnerOK
<1>4. QED
  BY <1>1, <1>2, <1>3 DEF Next

(* SessionsKeepTheirUser: no interleaving of updates, deletions and        *)
(* sign-ins puts one user's snapshot into another's session.               *)
THEOREM OwnersKept == Spec => []SessionsKeepTheirUser
<1>1. Init => TypeInv /\ OwnerOK
  BY TypeInit DEF Init, OwnerOK, SessionsKeepTheirUser, Idle
<1>2. TypeInv /\ OwnerOK /\ [Next]_vars => (TypeInv /\ OwnerOK)'
  BY TypeStep, OwnerStep
<1>3. OwnerOK => SessionsKeepTheirUser
  BY DEF OwnerOK
<1>4. QED
  BY <1>1, <1>2, <1>3, PTL DEF Spec

-----------------------------------------------------------------------------
(* A user's sessions go before the user does.                              *)

Buried(t) == \E k \in DOMAIN sessions[t] : sessions[t][k] = Deleted

Deletes(r) == req[r].pc \in {"delete_listed", "delete_user"} /\ req[r].op # "sweep"

OrderOK ==
    \A r \in Requests :
        /\ req[r].pc = "delete_user" => req[r].op # "sweep"
        /\ Deletes(r) =>
              /\ req[r].saw <= Len(opened)
              /\ \A i \in 1..req[r].saw :
                    i <= ScanLimit /\ sessions[opened[i]][1] = req[r].user =>
                       Buried(opened[i]) \/ (req[r].pc = "delete_listed" /\ i \in req[r].todo)

(* A tombstone is in its stream for good.                                  *)
LEMMA BuriedStays ==
    ASSUME TypeInv, NEW r \in Requests, Step(r) \/ Fail(r), NEW t \in Tokens
    PROVE  Buried(t) => Buried(t)'
<1>0. /\ sessions \in [Tokens -> Seq(Users \cup {Deleted})] /\ opened \in Seq(Tokens)
      /\ RequestOK(r)
  BY DEF TypeInv, TypeOK
<1>1. ASSUME NEW s \in Tokens, NEW x \in Users \cup {Deleted},
             sessions' = [sessions EXCEPT ![s] = Append(@, x)]
      PROVE  Buried(t) => Buried(t)'
  <2>1. sessions[s] \in Seq(Users \cup {Deleted}) /\ sessions'[s] = Append(sessions[s], x)
    BY <1>0, <1>1
  <2>2. \A k \in DOMAIN sessions[s] : k \in DOMAIN sessions'[s] /\ sessions'[s][k] = sessions[s][k]
    BY <2>1, AppendKeeps
  <2>3. t # s => sessions'[t] = sessions[t]
    BY <1>0, <1>1
  <2>4. QED
    BY <2>2, <2>3 DEF Buried
<1>2. CASE CreateSession(r)
  <2>1. PICK s \in Tokens : sessions[s] = <<>> /\ sessions' = [sessions EXCEPT ![s] = <<req[r].user>>]
    BY <1>2 DEF CreateSession
  <2>2. ~Buried(s)
    BY <2>1 DEF Buried
  <2>3. t # s => sessions'[t] = sessions[t]
    BY <1>0, <2>1
  <2>4. QED
    BY <2>2, <2>3 DEF Buried
<1>3. CASE AppendSession(r)
  BY <1>0, <1>1, <1>3 DEF AppendSession, RequestOK, HasToken
<1>4. CASE DeleteListed(r)
  <2>1. PICK i \in req[r].todo : Bury(opened[i])
    BY <1>4 DEF DeleteListed, Oldest
  <2>2. opened[i] \in Tokens
    BY <1>0, <1>4 DEF DeleteListed, RequestOK
  <2>3. QED
    BY <1>1, <2>1, <2>2 DEF Bury
<1>5. CASE SignOut(r)
  BY <1>0, <1>1, <1>5 DEF SignOut, Bury, RequestOK, HasToken
<1>6. CASE sessions' = sessions
  BY <1>6 DEF Buried
<1>7. QED
  BY <1>2, <1>3, <1>4, <1>5, <1>6
     DEF Step, Fail, CheckEmail, CreateUser, FindEmail, LoadFound, ReadSession, ReadUser, Answer,
         ReadUserAgain, AppendUser, ReadTouch, ListSessions, ListAll, DeleteUser, log

(* Only a listing, or a deletion from one, leaves a request deleting.      *)
LEMMA OnlyDeletions ==
    ASSUME TypeInv, NEW r \in Requests, Step(r) \/ Fail(r),
           req'[r].pc \in {"delete_listed", "delete_user"}
    PROVE  ListSessions(r) \/ ListAll(r) \/ DeleteListed(r)
<1>0. /\ req \in [Requests -> RequestType] /\ req[r] \in RequestType /\ RequestOK(r)
  BY DEF TypeInv, TypeOK
<1>1. CASE CheckEmail(r) \/ CreateUser(r)
  BY <1>0, <1>1 DEF CheckEmail, CreateUser, End, Idle, RequestType
<1>2. CASE FindEmail(r) \/ LoadFound(r)
  BY <1>0, <1>2 DEF FindEmail, LoadFound, End, Go, Idle, RequestType
<1>3. CASE ReadSession(r) \/ ReadUserAgain(r) \/ ReadTouch(r)
  BY <1>0, <1>3 DEF ReadSession, ReadUserAgain, ReadTouch, End, Idle, RequestType
<1>4. CASE ReadUser(r)
  <2>1. req[r].op \in Authenticated
    BY <1>0, <1>4 DEF ReadUser, RequestOK
  <2>2. QED
    BY <1>0, <1>4, <2>1 DEF ReadUser, End, Idle, Go, RequestType, Handler, Authenticated
<1>5. CASE \/ CreateSession(r) \/ Answer(r) \/ AppendUser(r) \/ AppendSession(r)
           \/ SignOut(r) \/ DeleteUser(r) \/ Fail(r)
  BY <1>0, <1>5 DEF CreateSession, Answer, AppendUser, AppendSession, SignOut, DeleteUser,
     Fail, End, Idle
<1>6. QED
  BY <1>1, <1>2, <1>3, <1>4, <1>5 DEF Step

(* The listing covers what is there, and each deletion what it takes off.  *)
LEMMA OrderStep == TypeInv /\ OrderOK /\ [Next]_vars => OrderOK'
<1> SUFFICES ASSUME TypeInv, OrderOK, [Next]_vars PROVE OrderOK'
  OBVIOUS
<1>0. /\ req \in [Requests -> RequestType] /\ opened \in Seq(Tokens)
      /\ sessions \in [Tokens -> Seq(Users \cup {Deleted})]
      /\ \A r \in Requests : RequestOK(r) /\ req[r] \in RequestType
      /\ \A i \in DOMAIN opened : opened[i] \in Tokens /\ sessions[opened[i]] # <<>>
  BY DEF TypeInv, TypeOK, LogOK
<1>1. CASE UNCHANGED vars
  BY <1>1 DEF vars, OrderOK, Deletes, Buried
<1>2. ASSUME NEW r \in Requests, NEW op \in Operations,
             NEW t \in Tokens \cup {Deleted}, NEW e \in Emails \cup {Deleted},
             Start(r, op, t, e)
      PROVE  OrderOK'
  <2>1. UNCHANGED <<sessions, opened>>
    BY <1>2 DEF Start, log
  <2>2. /\ req' = [req EXCEPT ![r] = req'[r]]
        /\ req'[r].pc \notin {"delete_listed", "delete_user"}
    BY <1>2, StartOK DEF FirstStep, Operations
  <2>3. \A o \in Requests \ {r} : req'[o] = req[o]
    BY <1>0, <2>2
  <2>4. QED
    BY <2>1, <2>2, <2>3 DEF OrderOK, Deletes, Buried
<1>3. ASSUME NEW r \in Requests, Step(r) \/ Fail(r) PROVE OrderOK'
  <2> DEFINE Part(o) == /\ req[o].pc = "delete_user" => req[o].op # "sweep"
                        /\ Deletes(o) =>
                              /\ req[o].saw <= Len(opened)
                              /\ \A i \in 1..req[o].saw :
                                 i <= ScanLimit /\ sessions[opened[i]][1] = req[o].user =>
                                    \/ Buried(opened[i])
                                    \/ req[o].pc = "delete_listed" /\ i \in req[o].todo
  <2>1. Grows /\ req' = [req EXCEPT ![r] = req'[r]]
    BY <1>0, <1>3, LogGrows, OnlyTheActor
  <2>2. \A i \in DOMAIN opened :
            /\ opened'[i] = opened[i] /\ sessions'[opened[i]][1] = sessions[opened[i]][1]
            /\ Buried(opened[i]) => Buried(opened[i])'
    BY <1>0, <1>3, <2>1, BuriedStays DEF Grows
  <2>3. Len(opened) <= Len(opened') /\ Len(opened) \in Nat /\ Len(opened') \in Nat
        /\ DOMAIN opened = 1..Len(opened)
    BY <1>0, <1>3, <2>1, LogTyped DEF Grows
  <2>4. ASSUME NEW o \in Requests \ {r} PROVE Part(o)'
    <3>1. req'[o] = req[o] /\ Part(o) /\ req[o].saw \in Nat
      BY <1>0, <2>1 DEF OrderOK, RequestType
    <3>2. \A i \in 1..req[o].saw : req[o].saw <= Len(opened) => i \in DOMAIN opened
      BY <2>3, <3>1
    <3>3. QED
      BY <2>2, <2>3, <3>1, <3>2 DEF Deletes
  <2>5. Part(r)'
    <3>0. CASE req'[r].pc \notin {"delete_listed", "delete_user"}
      BY <3>0 DEF Deletes
    <3>1. CASE ListSessions(r)
      <4>1. UNCHANGED <<sessions, opened>>
        BY <3>1 DEF ListSessions, log
      <4> DEFINE q == [req[r] EXCEPT !.saw = Len(opened)]
      <4>2. q \in RequestType /\ q.saw = Len(opened) /\ q.user = req[r].user
        BY <1>0, <2>3 DEF RequestType
      <4>3. req'[r] = Deleting(q, SessionsOf(q.user))
        BY <1>0, <3>1, <4>2 DEF ListSessions
      <4> HIDE DEF q
      <4>4. \/ req'[r] = Idle
            \/ /\ req'[r].saw = Len(opened) /\ req'[r].user = q.user /\ q.op # "sweep"
               /\ req'[r].op = q.op /\ req'[r].todo = SessionsOf(q.user)
               /\ req'[r].pc = "delete_user" => SessionsOf(q.user) = {}
               /\ req'[r].pc \in {"delete_listed", "delete_user"}
            \/ /\ req'[r].saw = Len(opened) /\ req'[r].user = q.user /\ req'[r].op = "sweep"
               /\ req'[r].pc = "delete_listed"
        BY <4>2, <4>3 DEF Deleting, RequestType
      <4>5. CASE req'[r] = Idle
        BY <3>0, <4>5 DEF Idle
      <4>6. CASE req'[r].op = "sweep" /\ req'[r].pc = "delete_listed"
        BY <4>6 DEF Deletes
      <4>7. \A i \in DOMAIN opened : i <= ScanLimit /\ sessions[opened[i]][1] = q.user =>
                i \in SessionsOf(q.user)
        BY DEF SessionsOf, Scanned
      <4>8. QED
        BY <2>3, <4>1, <4>4, <4>5, <4>6, <4>7 DEF Deletes
    <3>2. CASE ListAll(r)
      <4>1. req[r].op = "sweep"
        BY <1>0, <3>2 DEF ListAll, RequestOK
      <4>2. req'[r] = Deleting(req[r], Scanned(opened))
        BY <1>0, <3>2 DEF ListAll
      <4>3. req'[r] = Idle \/ (req'[r].op = "sweep" /\ req'[r].pc = "delete_listed")
        BY <1>0, <4>1, <4>2 DEF Deleting, RequestType
      <4>4. QED
        BY <3>0, <4>3 DEF Deletes, Idle
    <3>3. CASE DeleteListed(r)
      <4>1. PICK i \in req[r].todo : /\ Bury(opened[i])
                                     /\ req'[r] = Deleting(req[r], req[r].todo \ {i})
        BY <1>0, <3>3 DEF DeleteListed, Oldest
      <4>2. i \in DOMAIN opened /\ req[r].pc = "delete_listed" /\ opened' = opened
        BY <1>0, <3>3 DEF DeleteListed, RequestOK
      <4>3. Buried(opened[i])'
        <5>1. opened[i] \in Tokens /\ sessions[opened[i]] \in Seq(Users \cup {Deleted})
          BY <1>0, <4>2
        <5>2. sessions'[opened[i]] = Append(sessions[opened[i]], Deleted)
          BY <1>0, <4>1, <5>1 DEF Bury
        <5>3. /\ Len(sessions[opened[i]]) + 1 \in DOMAIN sessions'[opened[i]]
              /\ sessions'[opened[i]][Len(sessions[opened[i]]) + 1] = Deleted
          BY <5>1, <5>2, AppendKeeps
        <5>4. QED
          BY <4>2, <5>3 DEF Buried
      <4>4. \/ req'[r] = Idle
            \/ /\ req'[r].saw = req[r].saw /\ req'[r].user = req[r].user
               /\ req'[r].op = req[r].op /\ req'[r].todo = req[r].todo \ {i}
               /\ req'[r].pc = "delete_user" => req[r].todo \ {i} = {} /\ req[r].op # "sweep"
               /\ req'[r].pc \in {"delete_listed", "delete_user"}
        BY <1>0, <4>1 DEF Deleting, RequestType
      <4>5. CASE req'[r] = Idle
        BY <3>0, <4>5 DEF Idle
      <4>6. CASE req[r].op = "sweep" /\ req'[r] # Idle
        BY <4>4, <4>6 DEF Deletes
      <4>7. CASE req[r].op # "sweep" /\ req'[r] # Idle
        <5>1. Part(r) /\ Deletes(r) /\ req[r].saw \in Nat
          BY <1>0, <4>2, <4>7 DEF OrderOK, Deletes, RequestType
        <5>2. \A j \in 1..req[r].saw : j \in DOMAIN opened
          BY <2>3, <5>1
        <5>3. ASSUME NEW j \in 1..req[r].saw, j <= ScanLimit,
                     sessions'[opened'[j]][1] = req'[r].user
              PROVE  Buried(opened[j])' \/ (req'[r].pc = "delete_listed" /\ j \in req'[r].todo)
          <6>1. Buried(opened[j]) \/ j \in req[r].todo
            BY <2>2, <4>2, <4>4, <4>7, <5>1, <5>2, <5>3
          <6>2. CASE Buried(opened[j])
            BY <2>2, <5>2, <6>2
          <6>3. CASE j = i
            BY <4>3, <6>3
          <6>4. CASE j \in req[r].todo \ {i}
            BY <4>4, <4>7, <6>4
          <6>5. QED
            BY <6>1, <6>2, <6>3, <6>4
        <5>4. req'[r].op # "sweep" /\ req'[r].saw = req[r].saw
          BY <4>4, <4>7
        <5>5. QED
          BY <4>2, <5>1, <5>3, <5>4 DEF Deletes
      <4>8. QED
        BY <4>5, <4>6, <4>7
    <3>4. QED
      BY <1>3, <3>0, <3>1, <3>2, <3>3, OnlyDeletions
  <2>6. QED
    BY <2>4, <2>5 DEF OrderOK
<1>4. QED
  BY <1>1, <1>2, <1>3 DEF Next

(* SessionsGoFirst: an account's record is not deleted while a session     *)
(* there when the handler listed them, and among the ScanLimit oldest of   *)
(* all users', has no tombstone, whatever else is going on.                *)
THEOREM RecordGoesLast == Spec => []SessionsGoFirst
<1>1. Init => TypeInv /\ OrderOK
  BY TypeInit DEF Init, OrderOK, Deletes, Idle
<1>2. TypeInv /\ OrderOK /\ [Next]_vars => (TypeInv /\ OrderOK)'
  BY TypeStep, OrderStep
<1>3. OrderOK => SessionsGoFirst
  BY DEF OrderOK, SessionsGoFirst, Deletes, Buried, Scanned
<1>4. QED
  BY <1>1, <1>2, <1>3, PTL DEF Spec

-----------------------------------------------------------------------------
(* Two accounts of one email only by overlapping sign-ups.                 *)

(* Whoever is about to be created found none with the email among those it *)
(* saw, within the limit of a scan, and is nobody yet.                     *)
RaceOK ==
    \A r \in Requests :
        /\ req[r].pc \in {"check_email", "create_user"} => req[r].user = Deleted
        /\ req[r].pc = "create_user" =>
              /\ req[r].saw \in 0..Len(created)
              /\ \A i \in 1..req[r].saw :
                    i <= ScanLimit => users[created[i]][1] # req[r].email

(* Only the check of the email leads to the creation.                      *)
LEMMA OnlyChecks ==
    ASSUME TypeInv, NEW r \in Requests, Step(r) \/ Fail(r)
    PROVE  req'[r].pc # "check_email" /\ (req'[r].pc = "create_user" => CheckEmail(r))
<1>0. /\ req \in [Requests -> RequestType] /\ req[r] \in RequestType /\ RequestOK(r)
  BY DEF TypeInv, TypeOK
<1>1. CASE CheckEmail(r)
  BY <1>0, <1>1 DEF CheckEmail, End, Idle, RequestType
<1>2. CASE FindEmail(r) \/ LoadFound(r)
  BY <1>0, <1>2 DEF FindEmail, LoadFound, End, Go, Idle, RequestType
<1>3. CASE ReadSession(r) \/ ReadUserAgain(r) \/ ReadTouch(r)
  BY <1>0, <1>3 DEF ReadSession, ReadUserAgain, ReadTouch, End, Idle, RequestType
<1>4. CASE ReadUser(r)
  <2>1. req[r].op \in Authenticated
    BY <1>0, <1>4 DEF ReadUser, RequestOK
  <2>2. QED
    BY <1>0, <1>4, <2>1 DEF ReadUser, End, Idle, Go, RequestType, Handler, Authenticated
<1>5. CASE ListSessions(r) \/ ListAll(r) \/ DeleteListed(r)
  BY <1>5, DeletesNext
<1>6. CASE \/ CreateSession(r) \/ Answer(r) \/ AppendUser(r) \/ AppendSession(r)
           \/ SignOut(r) \/ DeleteUser(r) \/ Fail(r)
  BY <1>0, <1>6 DEF CreateSession, Answer, AppendUser, AppendSession, SignOut,
     DeleteUser, Fail, End, Idle
<1>7. CASE CreateUser(r)
  BY <1>0, <1>7 DEF CreateUser, RequestType
<1>8. QED
  BY <1>1, <1>2, <1>3, <1>4, <1>5, <1>6, <1>7 DEF Step

(* What was seen of the sign-ups stays as it was seen.                     *)
LEMMA RaceStep == TypeInv /\ RaceOK /\ [Next]_vars => RaceOK'
<1> SUFFICES ASSUME TypeInv, RaceOK, [Next]_vars PROVE RaceOK'
  OBVIOUS
<1>0. /\ req \in [Requests -> RequestType] /\ created \in Seq(Users)
      /\ \A r \in Requests : RequestOK(r) /\ req[r] \in RequestType
      /\ \A i \in DOMAIN created : created[i] \in Users /\ users[created[i]] # <<>>
  BY DEF TypeInv, TypeOK, LogOK
<1> DEFINE Part(o) == /\ req[o].pc \in {"check_email", "create_user"} => req[o].user = Deleted
                      /\ req[o].pc = "create_user" =>
                            /\ req[o].saw \in 0..Len(created)
                            /\ \A i \in 1..req[o].saw :
                                  i <= ScanLimit => users[created[i]][1] # req[o].email
<1>1. CASE UNCHANGED vars
  BY <1>1 DEF vars, RaceOK
<1>2. ASSUME NEW r \in Requests, NEW op \in Operations,
             NEW t \in Tokens \cup {Deleted}, NEW e \in Emails \cup {Deleted},
             Start(r, op, t, e)
      PROVE  RaceOK'
  <2>1. UNCHANGED <<users, created>>
    BY <1>2 DEF Start, log
  <2>2. req'[r].user = Deleted /\ req'[r].pc # "create_user"
    BY <1>0, <1>2 DEF Start, Idle, FirstStep, Operations
  <2>3. \A o \in Requests \ {r} : req'[o] = req[o]
    BY <1>0, <1>2 DEF Start
  <2>4. QED
    BY <2>1, <2>2, <2>3 DEF RaceOK
<1>3. ASSUME NEW r \in Requests, Step(r) \/ Fail(r) PROVE RaceOK'
  <2>1. Grows /\ req' = [req EXCEPT ![r] = req'[r]]
    BY <1>0, <1>3, LogGrows, OnlyTheActor
  <2>2. Len(created) \in Nat /\ Len(created') \in Nat /\ DOMAIN created = 1..Len(created)
        /\ Len(created) <= Len(created')
    BY <1>0, <1>3, <2>1, LogTyped DEF Grows
  <2>3. \A i \in DOMAIN created :
            created'[i] = created[i] /\ users'[created[i]][1] = users[created[i]][1]
    BY <1>0, <2>1 DEF Grows
  <2>4. ASSUME NEW o \in Requests \ {r} PROVE Part(o)'
    <3>1. req'[o] = req[o] /\ Part(o)
      BY <1>0, <2>1 DEF RaceOK
    <3>2. QED
      BY <2>2, <2>3, <3>1
  <2>5. Part(r)'
    <3>1. CASE req'[r].pc \notin {"check_email", "create_user"}
      BY <3>1
    <3>2. CASE CheckEmail(r) /\ req'[r].pc = "create_user"
      <4>1. /\ UNCHANGED <<users, created>> /\ {} \in SignedUpWith(req[r].email)
            /\ req' = [req EXCEPT ![r].pc = "create_user", ![r].saw = Len(created)]
            /\ req[r].user = Deleted
        <5>1. UNCHANGED <<users, created>> /\ req[r].pc = "check_email" /\ req[r].user = Deleted
          BY <3>2 DEF CheckEmail, log, RaceOK
        <5>2. PICK hits \in SignedUpWith(req[r].email) :
                  IF hits # {} THEN End(r)
                  ELSE req' = [req EXCEPT ![r].pc = "create_user", ![r].saw = Len(created)]
          BY <3>2 DEF CheckEmail
        <5>3. hits = {}
          BY <1>0, <3>2, <5>2 DEF End, Idle
        <5>4. QED
          BY <5>1, <5>2, <5>3
      <4>2. req'[r].user = Deleted /\ req'[r].saw = Len(created) /\ req'[r].email = req[r].email
        BY <1>0, <4>1 DEF RequestType
      <4>3. \A i \in DOMAIN created : i <= ScanLimit => users[created[i]][1] # req[r].email
        BY <4>1 DEF SignedUpWith, Scanned
      <4>4. UNCHANGED <<users, created>>
        BY <4>1
      <4>5. QED
        BY ONLY <2>2, <4>2, <4>3, <4>4
    <3>3. QED
      BY <1>3, <3>1, <3>2, OnlyChecks
  <2>6. QED
    BY <2>4, <2>5 DEF RaceOK
<1>4. QED
  BY <1>1, <1>2, <1>3 DEF Next

(* SameEmailOnlyByRace: nobody is created with the email of someone whose  *)
(* sign-up its own check could have seen, whichever answer the lookup got: *)
(* the filtered one or a scan's, of the ScanLimit oldest sign-ups.         *)
THEOREM RacesOnly == Spec => SameEmailOnlyByRace
<1> DEFINE Fair == \A r \in Requests : req[r].pc = "create_user" /\ created' # created =>
                     LET u == created'[Len(created')] IN
                     req'[r].user = u =>
                        \A i \in (1..req[r].saw) \cap Scanned(created) :
                            users[created[i]][1] # users'[u][1]
<1>1. Init => TypeInv /\ RaceOK
  BY TypeInit DEF Init, RaceOK, Idle
<1>2. TypeInv /\ RaceOK /\ [Next]_vars => (TypeInv /\ RaceOK)'
  BY TypeStep, RaceStep
<1>3. TypeInv /\ RaceOK /\ [Next]_vars => [Fair]_vars
  <2> SUFFICES ASSUME TypeInv, RaceOK, Next, NEW r \in Requests, req[r].pc = "create_user",
                      created' # created, req'[r].user = created'[Len(created')],
                      NEW i \in (1..req[r].saw) \cap Scanned(created)
               PROVE  users[created[i]][1] # users'[created'[Len(created')]][1]
    OBVIOUS
  <2>0. /\ req \in [Requests -> RequestType] /\ created \in Seq(Users)
        /\ users \in [Users -> Seq(Emails \cup {Deleted})]
    BY DEF TypeInv, TypeOK
  <2>1. PICK q \in Requests : CreateUser(q)
    <3>1. ASSUME NEW q \in Requests, Step(q) \/ Fail(q), ~CreateUser(q) PROVE created' = created
      BY <3>1 DEF Step, Fail, CheckEmail, CreateSession, FindEmail, LoadFound, ReadSession,
         ReadUser, Answer, ReadUserAgain, AppendUser, ReadTouch, AppendSession, ListSessions,
         ListAll, DeleteListed, SignOut, DeleteUser, Bury, log
    <3>2. QED
      BY <3>1 DEF Next, Start, log
  <2>2. PICK u \in Users : /\ users' = [users EXCEPT ![u] = <<req[q].email>>]
                           /\ created' = Append(created, u)
                           /\ req' = [req EXCEPT ![q].pc = "create_session", ![q].user = u]
    BY <2>1 DEF CreateUser
  <2>3. created'[Len(created')] = u /\ users'[u][1] = req[q].email
    BY <2>0, <2>2
  <2>4. req[r].user = Deleted /\ Deleted \notin Users
    BY DeletedAssumption DEF RaceOK
  <2>5. q = r
    BY <2>0, <2>2, <2>3, <2>4
  <2>6. QED
    BY <2>3, <2>5 DEF RaceOK, Scanned
<1>4. QED
  BY <1>1, <1>2, <1>3, PTL DEF Spec, SameEmailOnlyByRace
=============================================================================
