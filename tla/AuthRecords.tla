----------------------------- MODULE AuthRecords -----------------------------
(***************************************************************************)
(* The other records of better-auth as AllsourceAuthAdapter stores them:   *)
(* accounts, verifications, organizations, members, invitations, second    *)
(* factors, api keys and passkeys, and the deletion callback of the auth   *)
(* core, which goes through users, sessions, accounts and verifications.   *)
(*                                                                         *)
(* A record is a stream of full snapshots and tombstones.  Ids are fresh   *)
(* uuids: a record's id is its place among the "*.created" events, which   *)
(* every listing and every lookup by field queries; a lookup by id takes   *)
(* the stream's last event, of those it asks for.                          *)
(*                                                                         *)
(* An operation is the sequence of its round trips to Core, its plan.      *)
(* Nothing locks: requests interleave between any two round trips, and any *)
(* one may fail, which ends the request there.                             *)
(*                                                                         *)
(* Every kind is abstracted to one shape: the field it is looked up by     *)
(* (key), the record or user it belongs to (parent), one of the fields an  *)
(* update may set (val), and its expiry.                                   *)
(***************************************************************************)
EXTENDS Naturals, Sequences, FiniteSets

CONSTANTS Names,        \* slugs, users, emails, hashes, token values
          Deleted,      \* the _deleted payload; also what a read answers for none
          Any,          \* in a lookup: whatever the parent
          Requests,
          Worlds,       \* what may be stored at the start: sequences of records
          Cap,          \* events a read of one stream asks Core for
          Limit,        \* events a listing asks Core for
          MaxRecords,   \* bound: records created
          MaxRequests   \* bound: requests served

Kinds == {"user", "session", "account", "verification", "org", "member", "invitation",
          "two_factor", "api_key", "passkey"}
Expiries == {"soon", "later", "never"}
Ops == {"create", "update", "delete", "delete_org", "callback", "list"}

(* A record as its create operation stores it.                             *)
Record == [kind : Kinds, key : Names, parent : Names \cup Nat, val : {"first", "next"},
           expires : Expiries]

ASSUME DeletedAssumption == Deleted \notin Record
ASSUME WorldsAssumption == Worlds \subseteq Seq(Record)
ASSUME CapAssumption == Cap \in Nat \ {0}
ASSUME BoundsAssumption == Limit \in Nat /\ MaxRecords \in Nat /\ MaxRequests \in Nat

Fresh(kind, key, parent, expires) ==
    [kind |-> kind, key |-> key, parent |-> parent, val |-> "first", expires |-> expires]

VARIABLES
    records,    \* id -> the events of its stream
    late,       \* whether the time "soon" has come
    req,        \* request slot -> the operation it runs and what it has read
    served      \* history: requests started

vars == <<records, late, req, served>>

Idle == [op |-> "none", plan |-> <<>>, id |-> 0, held |-> Deleted, read |-> 0, saw |-> 0,
         asked |-> Deleted, answer |-> {}, gone |-> {}]

Init ==
    /\ \E w \in Worlds : records = [i \in DOMAIN w |-> <<w[i]>>]
    /\ late = FALSE
    /\ req = [r \in Requests |-> Idle]
    /\ served = 0

-----------------------------------------------------------------------------
(* Lookups.                                                                *)

(* latest_live_payload of a record's stream, read oldest first and at most *)
(* Cap of it: an event past that is seen by no read.                       *)
Latest(i) ==
    records[i][IF Len(records[i]) <= Cap THEN Len(records[i]) ELSE Cap]

Ids(kind) == {i \in DOMAIN records : records[i][1].kind = kind}

(* query_all on a "*.created" type: the first events, tombstones unseen.   *)
Created(kind) == {i \in Ids(kind) : Cardinality({j \in Ids(kind) : j < i}) < Limit}

(* A defect: the query asks for one event.                                 *)
FirstHaving(kind, field, value) ==
    {i \in Created(kind) : records[i][1][field] = value /\ \A j \in Ids(kind) : i <= j}

(* find_all_by_field: filtered after the query, and so after its limit.    *)
Having(kind, field, value) == {i \in Created(kind) : records[i][1][field] = value}

Expired(i) == records[i][1].expires = "soon" /\ late

Matching(ids, kind, key, parent) ==
    {i \in ids : /\ records[i][1].key = key
                 /\ parent # Any => records[i][1].parent = parent
                 /\ kind = "verification" => ~Expired(i)}

(* What a lookup by field may answer from: members and verifications are   *)
(* scanned; find_by_field asks Core to filter, which has no limit but may  *)
(* be unsupported, and then scans as well.                                 *)
Found(kind, key, parent) ==
    {Matching(Created(kind), kind, key, parent)} \cup
    IF kind \in {"member", "verification"} THEN {}
    ELSE {Matching(Ids(kind), kind, key, parent)}

Oldest(ids) == {i \in ids : \A j \in ids : i <= j}

-----------------------------------------------------------------------------
(* Round trips a plan is made of, and the operations.                      *)

Unused(kind, key, parent) == [do |-> "unused", kind |-> kind, key |-> key, parent |-> parent]
New(kind, key, parent, expires) ==
    [do |-> "create", record |-> Fresh(kind, key, parent, expires)]
Load(i) == [do |-> "load", id |-> i]
Save(field, to) == [do |-> "save", field |-> field, to |-> to]
Through(ids, then) == [do |-> "through", ids |-> ids, then |-> then]
Bury(i) == Through({i}, "bury")
Then(ids, then, rest) == IF ids = {} THEN rest ELSE <<Through(ids, then)>> \o rest
Each(kind, field, value, then) ==
    [do |-> "each", kind |-> kind, field |-> field, value |-> value, then |-> then]
Find(kind, key, parent, then) ==
    [do |-> "find", kind |-> kind, key |-> key, parent |-> parent, then |-> then]

Answers == {"list", "pending"}      \* a listing that is itself the answer

Sweep(kind) == [do |-> "sweep", kind |-> kind]

CreateSession(token, user) == <<New("session", token, user, "later")>>

CreateAccount(account, user) == <<New("account", account, user, "never")>>
UpdateAccount(i) == <<Load(i), Save("val", "next")>>
GetUserAccounts(user) == <<Each("account", "parent", user, "list")>>
DeleteAccount(i) == <<Bury(i)>>

CreateVerification(value, identifier, expires) ==
    <<New("verification", value, identifier, expires)>>
ConsumeVerification(value, identifier) == <<Find("verification", value, identifier, "erase")>>
DeleteVerification(i) == <<Bury(i)>>
DeleteExpiredVerifications == <<Sweep("verification")>>

CreateOrganization(slug) == <<Unused("org", slug, Any), New("org", slug, 0, "never")>>
UpdateOrganization(i, slug) == <<Load(i), Save("key", slug)>>
(* A defect: invitations outlive their organization.                       *)
HalfDeleteOrganization(i) == <<Bury(i), Each("member", "parent", i, "bury")>>
DeleteOrganization(i) ==
    <<Bury(i), Each("member", "parent", i, "bury"), Each("invitation", "parent", i, "bury")>>
ListUserOrganizations(user) == <<Each("member", "key", user, "visit")>>

(* A defect: no check for an earlier membership.                           *)
UncheckedCreateMember(org, user) == <<New("member", user, org, "never")>>
CreateMember(org, user) == <<Unused("member", user, org), New("member", user, org, "never")>>
UpdateMemberRole(i) == <<Load(i), Save("val", "next")>>
DeleteMember(i) == <<Bury(i)>>
ListOrganizationMembers(org) == <<Each("member", "parent", org, "list")>>

CreateInvitation(org, email, expires) == <<New("invitation", email, org, expires)>>
UpdateInvitationStatus(i) == <<Load(i), Save("val", "next")>>
ListOrganizationInvitations(org) == <<Each("invitation", "parent", org, "list")>>
ListUserInvitations(email) == <<Each("invitation", "key", email, "pending")>>

CreateTwoFactor(user) ==
    <<Unused("two_factor", user, Any), New("two_factor", user, 0, "never")>>
UpdateTwoFactorBackupCodes(user) ==
    <<Find("two_factor", user, Any, "rewrite"), Save("val", "next")>>
DeleteTwoFactor(user) == <<Find("two_factor", user, Any, "erase")>>

CreateApiKey(hash, user, expires) ==
    <<Unused("api_key", hash, Any), New("api_key", hash, user, expires)>>
(* A defect: the new expiry goes to the owner's field.                     *)
MisfiledUpdateApiKey(i, expires) == <<Load(i), Save("parent", expires)>>
UpdateApiKey(i, expires) == <<Load(i), Save("expires", expires)>>
ListApiKeysByUser(user) == <<Each("api_key", "parent", user, "list")>>
DeleteApiKey(i) == <<Bury(i)>>
DeleteExpiredApiKeys == <<Sweep("api_key")>>

CreatePasskey(credential, user) ==
    <<Unused("passkey", credential, Any), New("passkey", credential, user, "never")>>
UpdatePasskeyCounter(i) == <<Load(i), Save("val", "next")>>
ListPasskeysByUser(user) == <<Each("passkey", "parent", user, "list")>>
DeletePasskey(i) == <<Bury(i)>>

(* The token names the verification, whose identifier is the user.         *)
HandleDeleteUserCallback(token) == <<Find("verification", token, Any, "delete_user")>>

(* The operations that make sense of what is stored.                       *)
Users == {records[i][1].key : i \in Ids("user")}

Creations ==
    {CreateOrganization(slug) : slug \in Names} \cup
    (UNION {{CreateSession(n, u), CreateAccount(n, u), CreateApiKey(n, u, "soon"),
             CreatePasskey(n, u), CreateVerification(n, u, "soon")} : n \in Names, u \in Users}) \cup
    (UNION {{CreateMember(o, u), CreateInvitation(o, u, "soon")} : o \in Ids("org"), u \in Users}) \cup
    {CreateTwoFactor(u) : u \in Users}

Updates ==
    {UpdateAccount(i) : i \in Ids("account")} \cup
    {UpdateOrganization(i, slug) : i \in Ids("org"), slug \in Names} \cup
    {UpdateMemberRole(i) : i \in Ids("member")} \cup
    {UpdateInvitationStatus(i) : i \in Ids("invitation")} \cup
    {UpdateTwoFactorBackupCodes(u) : u \in Users} \cup
    {UpdateApiKey(i, expires) : i \in Ids("api_key"), expires \in {"soon", "later"}} \cup
    {UpdatePasskeyCounter(i) : i \in Ids("passkey")}

Deletions ==
    {DeleteAccount(i) : i \in Ids("account")} \cup
    {ConsumeVerification(n, u) : n \in Names, u \in Users} \cup
    {DeleteVerification(i) : i \in Ids("verification")} \cup
    {DeleteMember(i) : i \in Ids("member")} \cup
    {DeleteTwoFactor(u) : u \in Users} \cup
    {DeleteApiKey(i) : i \in Ids("api_key")} \cup
    {DeletePasskey(i) : i \in Ids("passkey")} \cup
    {DeleteExpiredVerifications, DeleteExpiredApiKeys}

Listings ==
    (UNION {{ListUserOrganizations(u), GetUserAccounts(u), ListUserInvitations(u),
             ListApiKeysByUser(u), ListPasskeysByUser(u)} : u \in Users}) \cup
    (UNION {{ListOrganizationMembers(o), ListOrganizationInvitations(o)} : o \in Ids("org")})

Asked(op) ==
    CASE op = "create" -> Creations
      [] op = "update" -> Updates
      [] op = "delete" -> Deletions
      [] op = "delete_org" -> {DeleteOrganization(i) : i \in Ids("org")}
      [] op = "callback" -> {HandleDeleteUserCallback(n) : n \in Names}
      [] op = "list" -> Listings

-----------------------------------------------------------------------------
(* Requests.                                                               *)

End(r) == req' = [req EXCEPT ![r] = Idle]
Go(r, plan) == req' = [req EXCEPT ![r].plan = plan]
At(r, do) == req[r].plan # <<>> /\ Head(req[r].plan).do = do
Rest(r) == Tail(req[r].plan)

(* An update that has read the record and not yet written it back.         *)
InFlight(i) == \E r \in Requests : At(r, "save") /\ req[r].id = i

Start(r, op) ==
    /\ req[r].op = "none" /\ served < MaxRequests
    /\ \E plan \in Asked(op) :
         req' = [req EXCEPT ![r] = [Idle EXCEPT
                    !.op = op, !.plan = plan, !.saw = Len(records),
                    !.id = IF op = "delete_org" THEN CHOOSE i \in Head(plan).ids : TRUE ELSE 0,
                    !.gone = {i \in DOMAIN records : Latest(i) = Deleted /\ ~InFlight(i)}]]
    /\ served' = served + 1
    /\ UNCHANGED <<records, late>>

(* A round trip fails, or the request's task goes with its process.        *)
Fail(r) ==
    /\ req[r].plan # <<>>
    /\ End(r)
    /\ UNCHANGED <<records, late, served>>

Answer(r) ==
    /\ req[r].op # "none" /\ req[r].plan = <<>>
    /\ End(r)
    /\ UNCHANGED <<records, late, served>>

(* The check before a creation: a hit is a conflict.                       *)
CheckUnused(r) ==
    /\ At(r, "unused")
    /\ LET look == Head(req[r].plan) IN
       \E hits \in Found(look.kind, look.key, look.parent) :
           IF hits # {} THEN End(r) ELSE Go(r, Rest(r))
    /\ UNCHANGED <<records, late, served>>

Create(r) ==
    /\ At(r, "create") /\ Len(records) < MaxRecords
    /\ records' = Append(records, <<Head(req[r].plan).record>>)
    /\ Go(r, Rest(r))
    /\ UNCHANGED <<late, served>>

(* A defect: an update starts from the record as created.                  *)
CreatedLoadLatest(r) ==
    /\ At(r, "load")
    /\ LET i == Head(req[r].plan).id IN
       req' = [req EXCEPT ![r].plan = Rest(r), ![r].id = i, ![r].held = records[i][1],
                          ![r].read = Len(records[i])]
    /\ UNCHANGED <<records, late, served>>

(* get_latest before an update: none is not_found.                         *)
LoadLatest(r) ==
    /\ At(r, "load")
    /\ LET i == Head(req[r].plan).id IN
       IF Latest(i) = Deleted THEN End(r)
       ELSE req' = [req EXCEPT ![r].plan = Rest(r), ![r].id = i, ![r].held = Latest(i),
                               ![r].read = Len(records[i])]
    /\ UNCHANGED <<records, late, served>>

(* The whole snapshot read, with the field asked for.                      *)
SaveSnapshot(r) ==
    /\ At(r, "save")
    /\ LET change == Head(req[r].plan) IN
       records' = [records EXCEPT ![req[r].id] =
                      Append(@, [req[r].held EXCEPT ![change.field] = change.to])]
    /\ Go(r, Rest(r))
    /\ UNCHANGED <<late, served>>

(* The user a verification names.                                          *)
UserOf(i) == {j \in Ids("user") : records[j][1].key = records[i][1].parent}

(* A defect: the token is spent first.                                     *)
TokenFirstFollowed(look, i, rest) ==
    LET user == records[i][1].parent IN
    CASE look.then = "erase" -> <<Bury(i)>>
      [] look.then = "rewrite" -> rest
      [] look.then = "delete_user" ->
           <<Bury(i), Each("session", "parent", user, "bury"),
             Each("account", "parent", user, "bury")>> \o Then(UserOf(i), "bury", <<>>)

(* What follows once a lookup by field has found record i: the snapshot it *)
(* found is the one created.                                               *)
Followed(look, i, rest) ==
    LET user == records[i][1].parent IN
    CASE look.then = "erase" -> <<Bury(i)>>
      [] look.then = "rewrite" -> rest
      [] look.then = "delete_user" ->
           <<Each("session", "parent", user, "bury"), Each("account", "parent", user, "bury")>>
           \o Then(UserOf(i), "bury", <<Bury(i)>>)

FindCreated(r) ==
    /\ At(r, "find")
    /\ LET look == Head(req[r].plan) IN
       \E hits \in Found(look.kind, look.key, look.parent) :
           \/ hits = {} /\ End(r)
           \/ \E i \in Oldest(hits) :
                req' = [req EXCEPT ![r].plan = Followed(look, i, Rest(r)), ![r].id = i,
                                   ![r].held = records[i][1]]
    /\ UNCHANGED <<records, late, served>>

(* The invitations list_user_invitations keeps, by the snapshot created:   *)
(* pending, which every invitation is created as, and not expired.         *)
StillOpen(ids) == {i \in ids : records[i][1].val = "first" /\ ~Expired(i)}

Listed(look, ids) == IF look.then = "pending" THEN StillOpen(ids) ELSE ids

(* find_all_by_field, and what is done with each record listed.            *)
ListEach(r) ==
    /\ At(r, "each")
    /\ LET look == Head(req[r].plan)
           ids == Having(look.kind, look.field, look.value)
       IN req' = [req EXCEPT
                ![r].asked = look,
                ![r].answer = IF look.then \in Answers THEN Listed(look, ids) ELSE @,
                ![r].plan = IF look.then \in Answers THEN Rest(r)
                            ELSE Then(ids, look.then, Rest(r))]
    /\ UNCHANGED <<records, late, served>>

(* delete_expired_*: expired as created, whatever an update has set since. *)
ListExpired(r) ==
    /\ At(r, "sweep")
    /\ LET ids == {i \in Created(Head(req[r].plan).kind) : Expired(i)} IN
       Go(r, Then(ids, "bury", Rest(r)))
    /\ UNCHANGED <<records, late, served>>

(* append_delete, of a record by its id and unread.                        *)
BuryNext(r) ==
    /\ At(r, "through") /\ Head(req[r].plan).then = "bury"
    /\ \E i \in Oldest(Head(req[r].plan).ids) :
         /\ records' = [records EXCEPT ![i] = Append(@, Deleted)]
         /\ Go(r, Then(Head(req[r].plan).ids \ {i}, "bury", Rest(r)))
    /\ UNCHANGED <<late, served>>

(* A defect: a membership is taken for its organization.                   *)
UnreadVisitNext(r) ==
    /\ At(r, "through") /\ Head(req[r].plan).then = "visit"
    /\ \E i \in Oldest(Head(req[r].plan).ids) :
         req' = [req EXCEPT ![r].plan = Then(Head(@).ids \ {i}, "visit", Tail(@)),
                            ![r].answer = @ \cup {records[i][1].parent}]
    /\ UNCHANGED <<records, late, served>>

(* list_user_organizations: each membership's organization, if it is there.*)
VisitNext(r) ==
    /\ At(r, "through") /\ Head(req[r].plan).then = "visit"
    /\ \E i \in Oldest(Head(req[r].plan).ids) :
         LET org == records[i][1].parent IN
         req' = [req EXCEPT ![r].plan = Then(Head(@).ids \ {i}, "visit", Tail(@)),
                            ![r].answer = IF Latest(org) = Deleted THEN @ ELSE @ \cup {org}]
    /\ UNCHANGED <<records, late, served>>

TimePasses ==
    /\ ~late
    /\ late' = TRUE
    /\ UNCHANGED <<records, req, served>>

RoundTrip(r) ==
    \/ CheckUnused(r) \/ Create(r) \/ LoadLatest(r) \/ SaveSnapshot(r)
    \/ FindCreated(r) \/ ListEach(r) \/ ListExpired(r)
    \/ BuryNext(r) \/ VisitNext(r)

Next ==
    \/ \E r \in Requests : \/ \E op \in Ops : Start(r, op)
                           \/ RoundTrip(r) \/ Answer(r) \/ Fail(r)
    \/ TimePasses

Spec == Init /\ [][Next]_vars

-----------------------------------------------------------------------------
(* Properties.                                                             *)

(* Two records share the value the creation checked only by overlapping,   *)
(* or past the events a listing asks for: none created before the request  *)
(* came in and within the limit has it.                                    *)
Checked(i, new) ==
    /\ records[i][1].kind = new.kind
    /\ new.kind \in {"org", "member", "two_factor", "api_key", "passkey"}
    /\ records[i][1].key = new.key
    /\ new.kind = "member" => records[i][1].parent = new.parent

SameKeyOnlyByRace ==
    [][\A r \in Requests : At(r, "create") /\ records' # records /\ req'[r] # req[r] =>
         ~\E i \in 1..req[r].saw :
             /\ Checked(i, Head(req[r].plan).record)
             /\ i \in Created(Head(req[r].plan).record.kind)]_vars

(* An update brings a record that reads as deleted back only if it read it *)
(* before the deletion; but the backup codes of a second factor are        *)
(* written over what was created, deleted or not.  A deletion past the Cap *)
(* events a read asks for is seen by no read, and not by this.             *)
RevivedOnlyByRace ==
    [][\A r \in Requests : At(r, "save") /\ records' # records /\ req'[r] # req[r] =>
         LET i == req[r].id IN
         Latest(i) = Deleted =>
             records[i][1].kind = "two_factor" \/ Len(records[i]) > req[r].read]_vars

(* Whatever updates race on a record, every snapshot keeps the parent and, *)
(* an organization's slug apart, the key it was created with: the fields   *)
(* that listings, which see only creations, filter by.                     *)
SnapshotsKeepTheirKeys ==
    \A i \in DOMAIN records : \A k \in DOMAIN records[i] :
        LET snapshot == records[i][k] IN
        snapshot # Deleted =>
            /\ snapshot.kind = records[i][1].kind /\ snapshot.parent = records[i][1].parent
            /\ snapshot.kind # "org" => snapshot.key = records[i][1].key

(* The records a cascade has yet to delete.                                *)
Pending(r, i) ==
    \E k \in DOMAIN req[r].plan :
        LET step == req[r].plan[k] IN
        \/ step.do = "each" /\ step.then = "bury" /\ step.kind = records[i][1].kind
        \/ step.do = "through" /\ i \in step.ids

Tombstoned(i) == \E k \in DOMAIN records[i] : records[i][k] = Deleted

Dependents(r) ==
    LET found == records[req[r].id][1] IN
    {i \in 1..req[r].saw :
        /\ i \in Created(records[i][1].kind)
        /\ \/ req[r].op = "delete_org" /\ records[i][1].kind \in {"member", "invitation"}
              /\ records[i][1].parent = req[r].id
           \/ req[r].op = "callback" /\ records[i][1].kind \in {"session", "account"}
              /\ records[i][1].parent = found.parent}

(* A cascade misses nothing that was there when it came in: every member   *)
(* and invitation of the organization, every session and account of the    *)
(* user, has its tombstone or is still to get it.                          *)
CascadesMissNothing ==
    \A r \in Requests : req[r].id # 0 =>
        \A i \in Dependents(r) : Tombstoned(i) \/ Pending(r, i)

(* The callback can be asked again after a failure: until the sessions and *)
(* accounts are gone it has touched neither the user nor the token.        *)
CallbackEndsWithTheUser ==
    \A r \in Requests : req[r].op = "callback" /\ req[r].id # 0 =>
        (\A i \in Dependents(r) : Tombstoned(i)) \/
            \A i \in {req[r].id} \cup UserOf(req[r].id) : Pending(r, i)

(* list_user_organizations reads each organization by its id: one deleted  *)
(* for good before the request came in, by a tombstone among the Cap       *)
(* events a read asks for, is never listed, although the membership that   *)
(* leads to it still is.                                                   *)
NoDeletedOrgListed ==
    \A r \in Requests : req[r].answer \cap req[r].gone \cap Ids("org") = {}

(* A listing by field sees creations only, but no record that is live and  *)
(* has the value is missing from it, within the limit; of a user's         *)
(* invitations only the expired are left out, and an accepted one, which   *)
(* was created as pending, is not.                                         *)
ListingsCoverTheLive ==
    \A r \in Requests :
        req[r].op = "list" /\ req[r].plan = <<>> /\ req[r].asked.then \in Answers =>
            {i \in 1..req[r].saw :
                /\ Latest(i) # Deleted /\ Latest(i).kind = req[r].asked.kind
                /\ Latest(i)[req[r].asked.field] = req[r].asked.value
                /\ req[r].asked.then = "pending" => i \in StillOpen({i})
                /\ i \in Created(req[r].asked.kind)} \subseteq req[r].answer

=============================================================================
