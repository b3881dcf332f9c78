---------------------------- MODULE UserProfiles ----------------------------
(***************************************************************************)
(* The domain stream of one user: what the commands of rv2-domain/user.rs  *)
(* say, how rv2-events puts it on the wire, and what UserFolder reads back *)
(* for GET and PATCH /users/{id} (handlers/users.rs).                      *)
(*                                                                         *)
(* A payload is a function from its JSON keys to values, where Null is an  *)
(* explicit null: that an absent key and a null differ is the point of the *)
(* doubly-sparse patch.  Other writers share the stream: builds that do    *)
(* not know the optional keys yet, builds that know more keys, and writers *)
(* of events that do not decode.  Timestamps come from several clocks and  *)
(* need not ascend.                                                        *)
(***************************************************************************)
EXTENDS Integers, Sequences, SequencesExt

CONSTANTS Texts,        \* the names and addresses a field may hold
          MaxTime,      \* bound: clock readings are 1..MaxTime
          MaxStream,    \* bound: events on the stream
          QueryAddsTenant \* the query URL is a gateway, not Core itself

Null == "null"
Unchanged == "unchanged"        \* None of an Option<Option<_>>
ASSUME TextsAssumption == Null \notin Texts /\ Unchanged \notin Texts
ASSUME ClockAssumption == MaxTime \in Nat \ {0}
ASSUME TenantAssumption == QueryAddsTenant \in BOOLEAN
Times == 1..MaxTime
Fields == {"full_name", "avatar_url"}
Patches == [Fields -> Texts \cup {Null, Unchanged}]     \* Null is Some(None)

VARIABLES stream,       \* the envelopes stored: [type, data]
          told,         \* ghost: the commands behind the events that decode
          patch         \* the PATCH under way: [pc, said (ghost), patch, at, answer], and own,
                        \* a ghost: where its event is, or where the stream ended at its refusal

profileVars == <<stream, told, patch>>

-----------------------------------------------------------------------------

\* DomainEvent::event_type, of the variants that matter on a user's stream.
EventType(tag) ==
    CASE tag = "UserRegistered"     -> "identity.user.registered"
      [] tag = "UserProfileUpdated" -> "identity.user.profile_updated"
      [] tag = "PostDeleted"        -> "content.post.deleted"

\* serde: a variant is its tag and its keys; `skip_serializing_if' leaves out the
\* unchanged keys of a patch, a registration writes its None as null.
Encode(event) ==
    LET kept == {f \in Fields : event.tag = "UserProfileUpdated" => event[f] # Unchanged}
    IN  [k \in {"tag", "at"} \cup kept |-> event[k]]

\* A defect: serde's own reading of a doubly optional field.
CollapsedOption(data, field) ==
    IF field \in DOMAIN data /\ data[field] # Null THEN data[field] ELSE Unchanged

\* double_option with `default': absent is unchanged, present is set or cleared.
DoubleOption(data, field) == IF field \in DOMAIN data THEN data[field] ELSE Unchanged

\* Option with `default': absent and null are both None.
SingleOption(data, field) == IF field \in DOMAIN data THEN data[field] ELSE Null

Undecodable == [tag |-> "error"]

\* decode: the tag alone tells the variant, the envelope's type must agree with it,
\* keys nobody knows are ignored.
Decode(envelope) ==
    LET data == envelope.data IN
    IF ~({"tag", "at"} \subseteq DOMAIN data) \/ envelope.type # EventType(data.tag)
    THEN Undecodable
    ELSE [k \in {"tag", "at"} \cup Fields |->
             IF k \notin Fields THEN data[k]
             ELSE IF data.tag = "UserProfileUpdated" THEN DoubleOption(data, k)
             ELSE SingleOption(data, k)]

NoUser == [created |-> 0]

\* UserFolder::apply.
ApplyToUser(user, envelope) ==
    LET event == Decode(envelope)
        Patched(field) == IF event[field] = Unchanged THEN user[field] ELSE event[field]
    IN  CASE event.tag = "UserRegistered" ->
               [full_name |-> event.full_name, avatar_url |-> event.avatar_url,
                created |-> event.at, updated |-> event.at]
          [] event.tag = "UserProfileUpdated" /\ user # NoUser ->
               [full_name |-> Patched("full_name"), avatar_url |-> Patched("avatar_url"),
                created |-> user.created,
                updated |-> IF event.at > user.updated THEN event.at ELSE user.updated]
          [] OTHER -> user

LoadUser(envelopes) ==
    LET user[n \in 0..Len(envelopes)] ==
            IF n = 0 THEN NoUser ELSE ApplyToUser(user[n - 1], envelopes[n])
    IN  user[Len(envelopes)]

\* load: the SDK's query cannot name a tenant.  A gateway derives it from the API key;
\* Core answers an empty page, with status 200.
FoundUser == LoadUser(IF QueryAddsTenant THEN stream ELSE <<>>)

-----------------------------------------------------------------------------

NoPatch == [pc |-> "none", own |-> 0, answer |-> NoUser]

ProfilesInit == stream = <<>> /\ told = <<>> /\ patch = NoPatch

Store(type, data, said) ==
    /\ Len(stream) < MaxStream
    /\ stream' = Append(stream, [type |-> type, data |-> data])
    /\ told' = Append(told, said)

\* register; a build from before the optional keys can only write it without a name.
Registered(name, at) ==
    [tag |-> "UserRegistered", at |-> at, full_name |-> name, avatar_url |-> Null]

Without(data, keys) == [k \in DOMAIN data \ keys |-> data[k]]
With(data, key) == [k \in DOMAIN data \cup {key} |-> IF k = key THEN Null ELSE data[k]]

Register(name, at, build) ==
    /\ build = "older" => name = Null
    /\ LET data == Encode(Registered(name, at)) IN
       Store("identity.user.registered",
             CASE build = "older"   -> Without(data, Fields)
               [] build = "current" -> data
               [] build = "newer"   -> With(data, "redacted_by"),
             Registered(name, at))
    /\ UNCHANGED patch

\* An event with a wrong envelope type, one with no tag, and one of another kind.
Garble(kind) ==
    /\ CASE kind = "mismatch" -> Store("identity.user.registered",
                                       Encode([tag |-> "UserProfileUpdated", at |-> MaxTime,
                                               full_name |-> Null, avatar_url |-> Null]), Undecodable)
         [] kind = "untagged" -> Store("identity.user.profile_updated", [at |-> MaxTime, full_name |-> Null], Undecodable)
         [] kind = "foreign"  -> Store("content.post.deleted", [tag |-> "PostDeleted", at |-> MaxTime], Undecodable)
    /\ UNCHANGED patch

\* The request body makes the same journey as the event: sent sparsely, read back.
Received(p) ==
    LET body == [f \in {g \in Fields : p[g] # Unchanged} |-> p[f]]
    IN  [f \in Fields |-> DoubleOption(body, f)]

\* PATCH /users/{id} by the owner: load, check, append, load again.
BeginPatch(p, at) ==
    /\ patch.pc = "none"
    /\ FoundUser # NoUser
    /\ \E f \in Fields : Received(p)[f] # Unchanged
    /\ patch' = [pc |-> "append", said |-> p, patch |-> Received(p), at |-> at, own |-> 0, answer |-> NoUser]
    /\ UNCHANGED <<stream, told>>

\* 404, 403 or 422 (an invalid text is refused as the empty patch is): nothing is written.
\* GET /users/{id} is the same read and the same 404.
RefusePatch(p, owner) ==
    /\ patch.pc = "none"
    /\ \E status \in {"not_found", "forbidden", "invalid"} :
          /\ CASE FoundUser = NoUser -> status = "not_found"
               [] FoundUser # NoUser /\ ~owner -> status = "forbidden"
               [] OTHER -> status = "invalid" /\ \A f \in Fields : Received(p)[f] = Unchanged
          /\ patch' = [NoPatch EXCEPT !.pc = status, !.own = Len(stream)]
    /\ UNCHANGED <<stream, told>>

PatchEvent(p) == [tag |-> "UserProfileUpdated", at |-> patch.at,
                  full_name |-> p.full_name, avatar_url |-> p.avatar_url]

\* The append is answered; or it is stored and its answer is lost; or it fails.
AppendPatch ==
    /\ patch.pc = "append"
    /\ LET event == PatchEvent(patch.patch)
       IN  Store(EventType(event.tag), Encode(event), PatchEvent(patch.said))
    /\ patch' \in {[patch EXCEPT !.pc = "reload", !.own = Len(stream')], [NoPatch EXCEPT !.pc = "failed"]}

AppendPatchFails ==
    /\ patch.pc = "append"
    /\ patch' = [NoPatch EXCEPT !.pc = "failed"]
    /\ UNCHANGED <<stream, told>>

Reload ==
    /\ patch.pc = "reload"
    /\ patch' = [patch EXCEPT !.pc = "done", !.answer = FoundUser]
    /\ UNCHANGED <<stream, told>>

NextPatch ==
    /\ patch.pc \in {"not_found", "forbidden", "invalid", "failed", "done"}
    /\ patch' = NoPatch
    /\ UNCHANGED <<stream, told>>

ProfilesNext ==
    \/ \E name \in Texts \cup {Null}, at \in Times, build \in {"older", "current", "newer"} :
          Register(name, at, build)
    \/ \E kind \in {"mismatch", "untagged", "foreign"} : Garble(kind)
    \/ \E p \in Patches, at \in Times : BeginPatch(p, at)
    \/ \E p \in Patches, owner \in BOOLEAN : RefusePatch(p, owner)
    \/ AppendPatch \/ AppendPatchFails \/ Reload \/ NextPatch

ProfilesSpec == ProfilesInit /\ [][ProfilesNext]_profileVars

-----------------------------------------------------------------------------

\* The last registration that was told, 0 if none; what was said of a field since;
\* and the latest clock reading since.
Registrations == {i \in DOMAIN told : told[i].tag = "UserRegistered"}
LastRegistration ==
    IF Registrations = {} THEN 0
    ELSE CHOOSE i \in Registrations : \A j \in Registrations : j <= i
Since == {i \in DOMAIN told : i >= LastRegistration /\ told[i].tag # "error"}
LastSaid(field) ==
    told[CHOOSE i \in Since : /\ told[i][field] # Unchanged
                              /\ \A j \in Since : j > i => told[j][field] = Unchanged][field]

\* The profile read back is what was said: each field holds what the last command
\* that mentioned it set or cleared, whatever was written around it and by whom.
ProfileIsWhatWasSaid ==
    LET user == FoundUser IN
    IF LastRegistration = 0 THEN user = NoUser
    ELSE /\ \A f \in Fields : user[f] = LastSaid(f)
         /\ user.created = told[LastRegistration].at
         /\ \A i \in Since : told[i].at <= user.updated
         /\ \E i \in Since : told[i].at = user.updated

\* The answer of a PATCH shows its own fields, unless someone wrote them after it.
PatchShowsItself ==
    patch.pc = "done" =>
        \A f \in Fields :
            \/ patch.said[f] = Unchanged
            \/ patch.answer[f] = patch.said[f]
            \/ \E i \in Since : i > patch.own /\ told[i][f] # Unchanged
            \/ LastRegistration > patch.own

\* users.rs:50 and :63: 404 is the answer about a user of whom no registration had been
\* stored when the stream was read.
NotFoundMeansNoStream ==
    patch.pc = "not_found" => \A i \in Registrations : i > patch.own

\* The profile that UserFolder reads is what the commands said, through the wire and
\* through the builds of other days, a PATCH is answered with its own effect, and 404
\* tells that there is no such user.  Against Core itself none of the three holds.
ProfilesSurviveTheWire ==
    ProfileIsWhatWasSaid /\ PatchShowsItself /\ NotFoundMeansNoStream
=============================================================================
