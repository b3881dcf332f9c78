------------------------------ MODULE AuthStore ------------------------------
(***************************************************************************)
(* Users and sessions of better-auth as AllsourceAuthAdapter stores them,  *)
(* and the requests that use them: one stream of full snapshots per        *)
(* entity, a delete being a tombstone appended to it.  A read by id takes  *)
(* the last event of the entity's stream, of those it asks for; a read by  *)
(* field, and a listing, query the "*.created" events alone and so see the *)
(* first one, and a scan the oldest of them only.                          *)
(*                                                                         *)
(* The store has no transaction and no lock: every round trip to Core is a *)
(* step, requests interleave between any two of them, and any round trip   *)
(* may fail, which ends the request where it stands.  A client that gives  *)
(* up on an append Core applies later is a request that stays at it.       *)
(*                                                                         *)
(* A user's snapshot is abstracted to its email, a session's to its user:  *)
(* the ids are fresh uuids and the other fields are carried along.         *)
(***************************************************************************)
EXTENDS Naturals, Sequences

CONSTANTS Users, Tokens, Emails, Requests,
          Deleted,       \* the _deleted payload; also what a read answers for none
          Ops,           \* the operations requests may ask for
          Cap,           \* limit of a read by id
          ScanLimit,     \* limit of a scan over the "*.created" events
          MaxRequests    \* bound: requests served

Operations == {"me", "sign_up", "sign_in", "sign_out", "update_user", "change_email",
               "delete_user", "refresh", "sweep"}

ASSUME DisjointAssumption == Users \cap Tokens = {}
ASSUME DeletedAssumption == Deleted \notin Users /\ Deleted \notin Tokens /\ Deleted \notin Emails
ASSUME CapAssumption == Cap \in Nat /\ Cap > 0
ASSUME ScanAssumption == ScanLimit \in Nat
ASSUME BoundAssumption == MaxRequests \in Nat
ASSUME OpsAssumption == Ops \subseteq Operations

VARIABLES
    users,      \* user -> the events of its stream
    sessions,   \* token -> the events of its stream
    created,    \* users in the order of their auth.user.created events
    opened,     \* tokens in the order of their auth.session.created events
    req,        \* request slot -> what it runs and what it has read
    served,     \* history: requests started
    settled     \* history: entities deleted in view with no update in flight

log == <<users, sessions, created, opened>>
vars == <<users, sessions, created, opened, req, served, settled>>

Idle == [pc |-> "idle", op |-> "none", user |-> Deleted, token |-> Deleted,
         found |-> Deleted, email |-> Deleted, todo |-> {}, saw |-> 0, gone |-> {}]

Init ==
    /\ users = [u \in Users |-> <<>>]
    /\ sessions = [t \in Tokens |-> <<>>]
    /\ created = <<>> /\ opened = <<>>
    /\ req = [r \in Requests |-> Idle]
    /\ served = 0 /\ settled = {}

-----------------------------------------------------------------------------
(* The client's reads, and defects a change to them could introduce.       *)

(* The query before its fix: limit=1 and the first event.                  *)
FirstLive(stream) == IF stream = <<>> THEN Deleted ELSE stream[1]

(* latest_live_payload over a stream read oldest first, at most Cap of it. *)
LatestLive(stream) ==
    IF stream = <<>> THEN Deleted
    ELSE stream[IF Len(stream) <= Cap THEN Len(stream) ELSE Cap]

(* What a scan asks for of the events, answered oldest first.              *)
Scanned(events) == {i \in DOMAIN events : i <= ScanLimit}

(* Nobody is found, whatever was asked.                                    *)
NoneSignedUpWith(email) == {{}}

(* find_by_field on auth.user.created, the answers it may give: Core       *)
(* filters, or cannot, refusing the filter or ignoring it with an empty    *)
(* answer, and then the events of find_by_field_scan are filtered.         *)
SignedUpWith(email) ==
    LET hits == {i \in DOMAIN created : users[created[i]][1] = email}
    IN  {hits, hits \cap Scanned(created)}

(* The owner's sessions short of the oldest one.                           *)
LaterSessionsOf(u) == {i \in Scanned(opened) : i > 1 /\ sessions[opened[i]][1] = u}

(* find_all_by_field on auth.session.created, filtered after its limit.    *)
SessionsOf(u) == {i \in Scanned(opened) : sessions[opened[i]][1] = u}

(* Events are answered oldest first.                                       *)
Oldest(events) == {i \in events : \A j \in events : i <= j}

-----------------------------------------------------------------------------
(* Requests.                                                               *)

Go(r, pc) == req' = [req EXCEPT ![r].pc = pc]
End(r) == req' = [req EXCEPT ![r] = Idle]

(* A user or a session with a snapshot in flight that will replace it.     *)
InFlight(e) ==
    \E r \in Requests : \/ req[r].pc = "append_user" /\ req[r].user = e
                        \/ req[r].pc = "append_session" /\ req[r].token = e

Settles(e, stream) == settled' = IF Len(stream) < Cap /\ ~InFlight(e)
                                 THEN settled \cup {e} ELSE settled

FirstStep == [me |-> "read_session", update_user |-> "read_session",
              change_email |-> "read_session", delete_user |-> "read_session",
              sign_up |-> "check_email", sign_in |-> "find_email",
              sign_out |-> "sign_out", refresh |-> "read_touch", sweep |-> "list_all"]

(* A request arrives, with the token or the email its caller sends.        *)
Start(r, op, t, e) ==
    /\ req[r].pc = "idle" /\ served < MaxRequests
    /\ op \in Ops
    /\ IF op \in {"sign_up", "sign_in", "sweep"}
       THEN t = Deleted ELSE t \in Tokens /\ sessions[t] # <<>>
    /\ op \in {"sign_up", "sign_in", "change_email"} => e \in Emails
    /\ op \in {"me", "sign_out", "delete_user", "refresh", "sweep"} => e = Deleted
    /\ req' = [req EXCEPT ![r] = [Idle EXCEPT !.pc = FirstStep[op], !.op = op,
                                              !.token = t, !.email = e, !.gone = settled]]
    /\ served' = served + 1
    /\ UNCHANGED <<log, settled>>

(* A round trip fails, or the request's task goes with its process.        *)
Fail(r) ==
    /\ req[r].pc \notin {"idle", "in"}
    /\ End(r)
    /\ UNCHANGED <<log, served, settled>>

(* create_user, first half: the email is free among the sign-ups so far.   *)
CheckEmail(r) ==
    /\ req[r].pc = "check_email"
    /\ \E hits \in SignedUpWith(req[r].email) :
          IF hits # {} THEN End(r)
          ELSE req' = [req EXCEPT ![r].pc = "create_user", ![r].saw = Len(created)]
    /\ UNCHANGED <<log, served, settled>>

CreateUser(r) ==
    /\ req[r].pc = "create_user"
    /\ \E u \in Users :
         /\ users[u] = <<>>
         /\ users' = [users EXCEPT ![u] = <<req[r].email>>]
         /\ created' = Append(created, u)
         /\ req' = [req EXCEPT ![r].pc = "create_session", ![r].user = u]
    /\ UNCHANGED <<sessions, opened, served, settled>>

(* A defect: the token is one another session may have.                    *)
ReusedCreateSession(r) ==
    /\ req[r].pc = "create_session"
    /\ \E t \in Tokens :
         /\ sessions' = [sessions EXCEPT ![t] = Append(@, req[r].user)]
         /\ opened' = Append(opened, t)
    /\ End(r)
    /\ UNCHANGED <<users, created, served, settled>>

(* create_session: what signing up and signing in end with.                *)
CreateSession(r) ==
    /\ req[r].pc = "create_session"
    /\ \E t \in Tokens :
         /\ sessions[t] = <<>>
         /\ sessions' = [sessions EXCEPT ![t] = <<req[r].user>>]
         /\ opened' = Append(opened, t)
    /\ End(r)
    /\ UNCHANGED <<users, created, served, settled>>

(* get_user_by_email: the id of the first sign-up with the email, then the *)
(* user's current snapshot.  Nobody found ends a sign-in and lets a change *)
(* of email go on; somebody found is the other way round.                  *)
FindEmail(r) ==
    /\ req[r].pc = "find_email"
    /\ \E hits \in SignedUpWith(req[r].email) :
          \/ \E i \in Oldest(hits) :
                req' = [req EXCEPT ![r].pc = "load_found", ![r].found = created[i]]
          \/ hits = {} /\ req[r].op = "sign_in" /\ End(r)
          \/ hits = {} /\ req[r].op = "change_email" /\ Go(r, "read_user_again")
    /\ UNCHANGED <<log, served, settled>>

(* A defect: a sign-in is opened for the caller's own user, not yet read.  *)
UnloadedLoadFound(r) ==
    /\ req[r].pc = "load_found"
    /\ LET live == LatestLive(users[req[r].found]) # Deleted
           signing_in == req[r].op = "sign_in"
       IN \/ live # signing_in /\ End(r)
          \/ live /\ signing_in /\ Go(r, "create_session")
          \/ ~live /\ ~signing_in /\ Go(r, "read_user_again")
    /\ UNCHANGED <<log, served, settled>>

LoadFound(r) ==
    /\ req[r].pc = "load_found"
    /\ LET live == LatestLive(users[req[r].found]) # Deleted
           signing_in == req[r].op = "sign_in"
       IN \/ live # signing_in /\ End(r)
          \/ live /\ signing_in
             /\ req' = [req EXCEPT ![r].pc = "create_session", ![r].user = req[r].found]
          \/ ~live /\ ~signing_in /\ Go(r, "read_user_again")
    /\ UNCHANGED <<log, served, settled>>

(* extract_current_user, ExtractAuthUser: two reads, the session's first.  *)
ReadSession(r) ==
    /\ req[r].pc = "read_session"
    /\ LET owner == LatestLive(sessions[req[r].token]) IN
       IF owner = Deleted THEN End(r)
       ELSE req' = [req EXCEPT ![r].pc = "read_user", ![r].user = owner]
    /\ UNCHANGED <<log, served, settled>>

Handler == [me |-> "in", update_user |-> "read_user_again",
            change_email |-> "find_email", delete_user |-> "list_sessions"]

(* A defect: a live session is enough.                                     *)
TrustingReadUser(r) ==
    /\ req[r].pc = "read_user"
    /\ Go(r, Handler[req[r].op])
    /\ UNCHANGED <<log, served, settled>>

ReadUser(r) ==
    /\ req[r].pc = "read_user"
    /\ IF LatestLive(users[req[r].user]) = Deleted THEN End(r)
       ELSE Go(r, Handler[req[r].op])
    /\ UNCHANGED <<log, served, settled>>

Answer(r) ==
    /\ req[r].pc = "in"
    /\ End(r)
    /\ UNCHANGED <<log, served, settled>>

(* update_user: a read, then the whole snapshot with the fields asked for. *)
ReadUserAgain(r) ==
    /\ req[r].pc = "read_user_again"
    /\ LET snapshot == LatestLive(users[req[r].user]) IN
       IF snapshot = Deleted THEN End(r)
       ELSE req' = [req EXCEPT ![r].pc = "append_user",
                               ![r].email = IF @ = Deleted THEN snapshot ELSE @]
    /\ UNCHANGED <<log, served, settled>>

AppendUser(r) ==
    /\ req[r].pc = "append_user"
    /\ users' = [users EXCEPT ![req[r].user] = Append(@, req[r].email)]
    /\ End(r)
    /\ UNCHANGED <<sessions, created, opened, served, settled>>

(* A defect: the first half goes on with no session found.                 *)
BlindReadTouch(r) ==
    /\ req[r].pc = "read_touch"
    /\ req' = [req EXCEPT ![r].pc = "append_session", ![r].user = sessions[req[r].token][1]]
    /\ UNCHANGED <<log, served, settled>>

(* update_session_expiry and update_session_active_organization.           *)
ReadTouch(r) ==
    /\ req[r].pc = "read_touch"
    /\ LET snapshot == LatestLive(sessions[req[r].token]) IN
       IF snapshot = Deleted THEN End(r)
       ELSE req' = [req EXCEPT ![r].pc = "append_session", ![r].user = snapshot]
    /\ UNCHANGED <<log, served, settled>>

AppendSession(r) ==
    /\ req[r].pc = "append_session"
    /\ sessions' = [sessions EXCEPT ![req[r].token] = Append(@, req[r].user)]
    /\ End(r)
    /\ UNCHANGED <<users, created, opened, served, settled>>

(* What follows when todo is left to delete.                               *)
Deleting(q, todo) ==
    IF todo # {} THEN [q EXCEPT !.pc = "delete_listed", !.todo = todo]
    ELSE IF q.op = "sweep" THEN Idle
    ELSE [q EXCEPT !.pc = "delete_user", !.todo = todo]

(* delete_user_sessions.                                                   *)
ListSessions(r) ==
    /\ req[r].pc = "list_sessions"
    /\ req' = [req EXCEPT ![r] = Deleting([@ EXCEPT !.saw = Len(opened)], SessionsOf(@.user))]
    /\ UNCHANGED <<log, served, settled>>

(* delete_expired_sessions: `active` is not stored, so each session listed *)
(* decodes as inactive and is deleted, expired or not.                     *)
ListAll(r) ==
    /\ req[r].pc = "list_all"
    /\ req' = [req EXCEPT ![r] = Deleting(@, Scanned(opened))]
    /\ UNCHANGED <<log, served, settled>>

(* delete_session.                                                         *)
Bury(t) ==
    /\ sessions' = [sessions EXCEPT ![t] = Append(@, Deleted)]
    /\ Settles(t, sessions[t])

DeleteListed(r) ==
    /\ req[r].pc = "delete_listed"
    /\ \E i \in Oldest(req[r].todo) :
         /\ Bury(opened[i])
         /\ req' = [req EXCEPT ![r] = Deleting(@, @.todo \ {i})]
    /\ UNCHANGED <<users, created, opened, served>>

SignOut(r) ==
    /\ req[r].pc = "sign_out"
    /\ Bury(req[r].token)
    /\ End(r)
    /\ UNCHANGED <<users, created, opened, served>>

DeleteUser(r) ==
    /\ req[r].pc = "delete_user"
    /\ users' = [users EXCEPT ![req[r].user] = Append(@, Deleted)]
    /\ Settles(req[r].user, users[req[r].user])
    /\ End(r)
    /\ UNCHANGED <<sessions, created, opened, served>>

Step(r) ==
    \/ CheckEmail(r) \/ CreateUser(r) \/ CreateSession(r)
    \/ FindEmail(r) \/ LoadFound(r)
    \/ ReadSession(r) \/ ReadUser(r) \/ Answer(r)
    \/ ReadUserAgain(r) \/ AppendUser(r)
    \/ ReadTouch(r) \/ AppendSession(r)
    \/ ListSessions(r) \/ ListAll(r) \/ DeleteListed(r)
    \/ SignOut(r) \/ DeleteUser(r)

Next ==
    \E r \in Requests :
        \/ \E op \in Operations, t \in Tokens \cup {Deleted}, e \in Emails \cup {Deleted} :
              Start(r, op, t, e)
        \/ Step(r)
        \/ Fail(r)

Spec == Init /\ [][Next]_vars

-----------------------------------------------------------------------------
(* Properties.                                                             *)

PCs == {"idle", "check_email", "create_user", "create_session", "find_email", "load_found",
        "read_session", "read_user", "in", "read_user_again", "append_user", "read_touch",
        "append_session", "list_sessions", "list_all", "delete_listed", "delete_user",
        "sign_out"}

RequestType ==
    [pc : PCs, op : Operations \cup {"none"}, user : Users \cup {Deleted},
     token : Tokens \cup {Deleted}, found : Users \cup {Deleted},
     email : Emails \cup {Deleted}, todo : SUBSET Nat, saw : Nat,
     gone : SUBSET (Users \cup Tokens)]

(* A stream starts with a snapshot and holds snapshots and tombstones; a   *)
(* request holds what it read from one.                                    *)
TypeOK ==
    /\ users \in [Users -> Seq(Emails \cup {Deleted})]
    /\ sessions \in [Tokens -> Seq(Users \cup {Deleted})]
    /\ \A u \in Users : users[u] # <<>> => users[u][1] \in Emails
    /\ \A t \in Tokens : sessions[t] # <<>> => sessions[t][1] \in Users
    /\ created \in Seq(Users) /\ opened \in Seq(Tokens)
    /\ req \in [Requests -> RequestType]
    /\ served \in 0..MaxRequests
    /\ settled \subseteq Users \cup Tokens

(* A sign-out or a deletion that overlaps no update stays in force: from   *)
(* then on every read of the session, or of the user, finds nothing.  The  *)
(* last event decides, and an update that finds nothing writes nothing.    *)
DeletedStaysDeleted ==
    /\ \A t \in Tokens \cap settled : LatestLive(sessions[t]) = Deleted
    /\ \A u \in Users \cap settled : LatestLive(users[u]) = Deleted

(* The handler of an authenticated request runs for no session that was    *)
(* signed out, and no user who was deleted, for good before the request    *)
(* came in, although the two are read in separate round trips.             *)
NoLateEntry ==
    \A r \in Requests :
        req[r].pc \in {"in", "list_sessions"} =>
            req[r].token \notin req[r].gone /\ req[r].user \notin req[r].gone

(* A user's record goes only after every session the user had when the     *)
(* handler listed them, and the listing's limit let it see, has its        *)
(* tombstone.                                                              *)
SessionsGoFirst ==
    \A r \in Requests : req[r].pc = "delete_user" =>
        \A i \in (1..req[r].saw) \cap Scanned(opened) :
            LET stream == sessions[opened[i]] IN
            stream[1] = req[r].user => \E k \in DOMAIN stream : stream[k] = Deleted

(* Whatever updates race on a session, every snapshot of it keeps the user *)
(* it was opened for.                                                      *)
SessionsKeepTheirUser ==
    \A t \in Tokens : \A k \in DOMAIN sessions[t] :
        sessions[t][k] \in {sessions[t][1], Deleted}

(* Two users signed up with one email only by overlapping, or past the     *)
(* events a scan asks for: none that had signed up with it by the time of  *)
(* the check, and within the limit, is there when the second is created.   *)
SameEmailOnlyByRace ==
    [][\A r \in Requests : req[r].pc = "create_user" /\ created' # created =>
         LET u == created'[Len(created')] IN
         req'[r].user = u =>
            \A i \in (1..req[r].saw) \cap Scanned(created) :
                users[created[i]][1] # users'[u][1]]_vars

(* No two users who are there have one email: what "Check email            *)
(* uniqueness" and the 409 of the change of email are for.                 *)
EmailsAreUnique ==
    \A u, v \in Users :
        u # v /\ LatestLive(users[u]) # Deleted => LatestLive(users[u]) # LatestLive(users[v])

=============================================================================
