-------------------------- MODULE AuthRecords_proofs --------------------------
(***************************************************************************)
(* What creations, updates, deletions, cascades and listings do to the     *)
(* records of better-auth, for any number of records, requests and         *)
(* failures, and for any limit of Core's listings and of its reads.        *)
(***************************************************************************)
EXTENDS AuthRecords, TLAPS, SequenceTheorems

Events == Record \cup {Deleted}

(* A stream starts with the record it was created for.                     *)
Typed ==
    /\ records \in Seq(Seq(Events))
    /\ \A i \in DOMAIN records : Len(records[i]) >= 1 /\ records[i][1] \in Record

(* What is done with each record listed.                                   *)
Sequels == {"bury", "visit"} \cup Answers

(* Round trips that neither read a record for an update nor write it back. *)
Plain ==
    [do : {"unused"}, kind : Kinds, key : Names, parent : Names \cup Nat \cup {Any}]
    \cup [do : {"create"}, record : Record]
    \cup [do : {"through"}, ids : SUBSET Nat, then : Sequels]
    \cup [do : {"each"}, kind : Kinds \ {"org"}, field : {"key", "parent"},
          value : Names \cup Nat, then : Sequels]
    \cup [do : {"find"}, kind : Kinds, key : Names, parent : Names \cup Nat \cup {Any},
          then : {"erase", "delete_user"}]
    \cup [do : {"sweep"}, kind : Kinds]

(* Of these, the ones that create nothing.                                 *)
Listing ==
    [do : {"each"}, kind : Kinds \ {"org"}, field : {"key", "parent"},
     value : Names \cup Nat, then : Sequels]
Quiet ==
    [do : {"through"}, ids : SUBSET Nat, then : Sequels] \cup Listing
    \cup [do : {"find"}, kind : Kinds, key : Names, parent : Names \cup Nat \cup {Any},
          then : {"erase", "delete_user"}]
    \cup [do : {"sweep"}, kind : Kinds]

(* A creation that looks first whether its key is free; users come from    *)
(* elsewhere.                                                              *)
Making(new) == [do |-> "create", record |-> new]
Guarded(plan) ==
    \E new \in Record, scope \in Names \cup Nat \cup {Any} :
        /\ plan = <<Unused(new.kind, new.key, scope), Making(new)>>
        /\ new.kind # "user"
        /\ scope = Any \/ (new.kind = "member" /\ scope = new.parent)
Unchecked == {"session", "account", "verification", "invitation"}
Unguarded(plan) == \E new \in Record : plan = <<Making(new)>> /\ new.kind \in Unchecked

Targets == {"next"} \cup Expiries \cup Names
(* The fields of a request.                                                *)
Fields == {"op", "plan", "id", "held", "read", "saw", "asked", "answer", "gone"}
Shape(q) == q = [f \in Fields |-> q[f]]

(* Only an organization's key may be written.                              *)
GoodSave(i, field, to) ==
    \/ field = "val" /\ to = "next"
    \/ field = "expires" /\ to \in Expiries
    \/ field = "key" /\ to \in Names /\ records[i][1].kind = "org"

(* Where a read of a stream of n events looks.                             *)
Seen(n) == IF n <= Cap THEN n ELSE Cap

(* What a request is about to write back keeps what record i was created   *)
(* with, and was live where it was read; the backup codes apart.           *)
Holds(r, i) ==
    LET held == req[r].held IN
    /\ held \in Record
    /\ held.kind = records[i][1].kind /\ held.parent = records[i][1].parent
    /\ held.kind # "org" => held.key = records[i][1].key
    /\ records[i][1].kind # "two_factor" =>
          /\ req[r].read \in DOMAIN records[i] /\ Seen(req[r].read) \in DOMAIN records[i]
          /\ records[i][Seen(req[r].read)] # Deleted

Updating(plan) ==
    \E i \in DOMAIN records, field \in {"val", "expires", "key"}, to \in Targets :
        plan = <<Load(i), Save(field, to)>> /\ GoodSave(i, field, to)
Rewriting(plan) ==
    \E user \in Names :
        plan = <<Find("two_factor", user, Any, "rewrite"), Save("val", "next")>>
Writing(r) ==
    \E field \in {"val", "expires", "key"}, to \in Targets :
        /\ req[r].plan = <<Save(field, to)>>
        /\ req[r].id \in DOMAIN records
        /\ GoodSave(req[r].id, field, to) /\ Holds(r, req[r].id)

PlanOK(r) ==
    \/ req[r].plan \in Seq(Plain)
    \/ Updating(req[r].plan) \/ Rewriting(req[r].plan) \/ Writing(r)

(* An organization that was gone when a request came in.                   *)
IsGone(i) == Latest(i) = Deleted /\ ~InFlight(i)
GoneOK(r) ==
    \A i \in req[r].gone :
        /\ i \in DOMAIN records
        /\ records[i][1].kind = "org" => IsGone(i) /\ i \notin req[r].answer

RecInv ==
    /\ Typed /\ SnapshotsKeepTheirKeys
    /\ req = [r \in Requests |-> req[r]]
    /\ \A r \in Requests : Shape(req[r]) /\ PlanOK(r) /\ GoneOK(r)

-----------------------------------------------------------------------------
(* Streams only grow, and what is gone stays so.                           *)

Grows ==
    \A i \in DOMAIN records :
        /\ i \in DOMAIN records'
        /\ records'[i][1] = records[i][1]
        /\ \A k \in DOMAIN records[i] : k \in DOMAIN records'[i] /\ records'[i][k] = records[i][k]

StaysGone ==
    \A i \in DOMAIN records : records[i][1].kind = "org" /\ IsGone(i) => IsGone(i)'

(* What one request does leaves the plans and answers of the others right. *)
LEMMA Moves ==
    ASSUME RecInv, NEW r \in Requests, NEW new, Shape(new), req' = [req EXCEPT ![r] = new],
           Typed', SnapshotsKeepTheirKeys', Grows, StaysGone, PlanOK(r)', GoneOK(r)'
    PROVE  RecInv'
<1>1. req' = [q \in Requests |-> req'[q]] /\ \A q \in Requests : Shape(req'[q])   BY DEF RecInv
<1>2. ASSUME NEW q \in Requests, q # r PROVE PlanOK(q)' /\ GoneOK(q)'
  <2>1. req'[q] = req[q]   BY <1>2 DEF RecInv
  <2>2. PlanOK(q) /\ GoneOK(q)   BY DEF RecInv
  <2>3. ASSUME NEW i \in DOMAIN records, NEW field, NEW to, GoodSave(i, field, to)
        PROVE  i \in DOMAIN records' /\ GoodSave(i, field, to)'
      BY <2>3 DEF Grows, GoodSave
  <2>4. ASSUME NEW i \in DOMAIN records, Holds(q, i) PROVE Holds(q, i)'
      BY <2>1, <2>4 DEF Grows, Holds
  <2>5. ASSUME NEW i \in req'[q].gone
        PROVE  i \in DOMAIN records' /\ (records'[i][1].kind = "org" =>
                                            IsGone(i)' /\ i \notin req'[q].answer)
    <3>1. i \in DOMAIN records /\ (records[i][1].kind = "org" => IsGone(i) /\ i \notin req[q].answer)
        BY <2>1, <2>2, <2>5 DEF GoneOK
    <3> QED BY <2>1, <3>1 DEF Grows, StaysGone
  <2>6. GoneOK(q)'   BY <2>5 DEF GoneOK
  <2>7. CASE req[q].plan \in Seq(Plain)   BY <2>1, <2>6, <2>7 DEF PlanOK
  <2>8. CASE Updating(req[q].plan)
    <3>1. PICK i \in DOMAIN records, field \in {"val", "expires", "key"}, to \in Targets :
              req[q].plan = <<Load(i), Save(field, to)>> /\ GoodSave(i, field, to)
        BY <2>8 DEF Updating
    <3>2. i \in DOMAIN records' /\ GoodSave(i, field, to)'   BY <2>3, <3>1
    <3>3. Updating(req[q].plan)'   BY <2>1, <3>1, <3>2 DEF Updating
    <3> QED BY <2>6, <3>3 DEF PlanOK
  <2>9. CASE Rewriting(req[q].plan)   BY <2>1, <2>6, <2>9 DEF PlanOK, Rewriting
  <2>10. CASE Writing(q)
    <3>1. PICK field \in {"val", "expires", "key"}, to \in Targets :
              /\ req[q].plan = <<Save(field, to)>>
              /\ req[q].id \in DOMAIN records
              /\ GoodSave(req[q].id, field, to) /\ Holds(q, req[q].id)
        BY <2>10 DEF Writing
    <3>2. /\ req[q].id \in DOMAIN records' /\ GoodSave(req[q].id, field, to)'
          /\ Holds(q, req[q].id)'
        BY <2>1, <2>3, <2>4, <3>1
    <3>3. Writing(q)'   BY <2>1, <3>1, <3>2 DEF Writing
    <3> QED BY <2>6, <3>3 DEF PlanOK
  <2> QED BY <2>2, <2>7, <2>8, <2>9, <2>10 DEF PlanOK
<1> QED BY <1>1, <1>2 DEF RecInv

(* A request that goes on adds to its answer no organization that is gone. *)
LEMMA GoesOn ==
    ASSUME RecInv, NEW r \in Requests, NEW new, Shape(new), req' = [req EXCEPT ![r] = new],
           Typed', SnapshotsKeepTheirKeys', Grows, StaysGone, PlanOK(r)',
           new.gone = req[r].gone \/ new.gone = {},
           \A i \in new.answer : i \in req[r].answer \/ i \notin req[r].gone
                                   \/ records[i][1].kind # "org"
    PROVE  RecInv'
<1>1. req'[r] = new   BY DEF RecInv
<1>2. GoneOK(r)   BY DEF RecInv
<1>3. ASSUME NEW i \in req'[r].gone
      PROVE  i \in DOMAIN records' /\ (records'[i][1].kind = "org" =>
                                          IsGone(i)' /\ i \notin req'[r].answer)
  <2>1. i \in req[r].gone   BY <1>1, <1>3
  <2>2. i \in DOMAIN records /\ (records[i][1].kind = "org" => IsGone(i) /\ i \notin req[r].answer)
      BY <1>2, <2>1 DEF GoneOK
  <2> QED BY <1>1, <2>1, <2>2 DEF Grows, StaysGone
<1>4. GoneOK(r)'   BY <1>3 DEF GoneOK
<1> QED BY <1>4, Moves

(* While nothing is stored, and no request comes to write, nothing that is *)
(* gone comes back.                                                        *)
LEMMA NothingStored ==
    ASSUME RecInv, NEW r \in Requests, NEW new, req' = [req EXCEPT ![r] = new],
           UNCHANGED records,
           new.plan # <<>> /\ Head(new.plan).do = "save" =>
               \A i \in DOMAIN records :
                   i = new.id /\ records[i][1].kind = "org" => Latest(i) # Deleted
    PROVE  Typed' /\ SnapshotsKeepTheirKeys' /\ Grows /\ StaysGone
<1>1. Typed' /\ SnapshotsKeepTheirKeys'   BY DEF RecInv, Typed, SnapshotsKeepTheirKeys
<1>2. Grows   BY DEF Grows
<1>3. ASSUME NEW i \in DOMAIN records, records[i][1].kind = "org", IsGone(i) PROVE IsGone(i)'
  <2>1. Latest(i)' = Deleted /\ Latest(i) = Deleted   BY <1>3 DEF IsGone, Latest
  <2>2. req'[r] = new /\ \A q \in Requests \ {r} : req'[q] = req[q]   BY DEF RecInv
  <2>3. ~InFlight(i)'   BY <1>3, <2>1, <2>2 DEF IsGone, InFlight, At
  <2> QED BY <2>1, <2>3 DEF IsGone
<1> QED BY <1>1, <1>2, <1>3 DEF StaysGone

-----------------------------------------------------------------------------
(* Plans.                                                                  *)

(* What the stages of a plain plan carry.                                  *)
LEMMA PlainParts ==
    ASSUME NEW s \in Plain
    PROVE  /\ s.do \in {"unused", "create", "through", "each", "find", "sweep"}
           /\ s.do = "create" => s.record \in Record
           /\ s.do = "through" => s.ids \subseteq Nat
           /\ s.do = "each" => s.kind \in Kinds \ {"org"}
           /\ s.do = "find" => s.then \in {"erase", "delete_user"} /\ s.kind \in Kinds
           /\ s.do = "sweep" => s.kind \in Kinds
BY DEF Plain

(* Where a request stands tells what its plan is.                          *)
LEMMA HeadsOf ==
    ASSUME RecInv, NEW r \in Requests, req[r].plan # <<>>
    PROVE  /\ At(r, "save") => Writing(r)
           /\ At(r, "load") => Updating(req[r].plan)
           /\ At(r, "find") => req[r].plan \in Seq(Plain) \/ Rewriting(req[r].plan)
           /\ Head(req[r].plan).do \in {"unused", "create", "through", "each", "sweep"} =>
                 req[r].plan \in Seq(Plain)
           /\ req[r].plan \in Seq(Plain) =>
                 Head(req[r].plan) \in Plain /\ Rest(r) \in Seq(Plain)
<1> DEFINE plan == req[r].plan
<1>1. PlanOK(r)   BY DEF RecInv
<1>2. plan \in Seq(Plain) => Head(plan) \in Plain /\ Tail(plan) \in Seq(Plain)   OBVIOUS
<1>3. plan \in Seq(Plain) => Head(plan).do \notin {"save", "load"}   BY <1>2, PlainParts
<1>4. Updating(plan) => Head(plan).do = "load"   BY DEF Updating, Load
<1>5. Rewriting(plan) => Head(plan).do = "find"   BY DEF Rewriting, Find
<1>6. Writing(r) => Head(plan).do = "save"   BY DEF Writing, Save
<1> QED BY <1>1, <1>2, <1>3, <1>4, <1>5, <1>6 DEF PlanOK, At, Rest

(* A request that ends.                                                    *)
LEMMA Ends ==
    ASSUME RecInv, NEW r \in Requests, End(r), UNCHANGED records
    PROVE  RecInv'
<1>1. Shape(Idle) /\ Idle.plan = <<>> /\ Idle.gone = {} /\ Idle.answer = {}
  BY DEF Idle, Shape, Fields
<1>2. req' = [req EXCEPT ![r] = Idle]   BY DEF End
<1>3. req'[r].plan = <<>>   BY <1>1, <1>2 DEF RecInv
<1>4. PlanOK(r)'   BY <1>3 DEF PlanOK
<1>5. Typed' /\ SnapshotsKeepTheirKeys' /\ Grows /\ StaysGone   BY <1>1, <1>2, NothingStored
<1> QED BY <1>1, <1>2, <1>4, <1>5, GoesOn

(* A request that goes on with plain round trips.                          *)
LEMMA GoesPlain ==
    ASSUME RecInv, NEW r \in Requests, NEW new, Shape(new), req' = [req EXCEPT ![r] = new],
           UNCHANGED records, new.plan \in Seq(Plain), new.gone = req[r].gone,
           \A i \in new.answer : i \in req[r].answer \/ i \notin req[r].gone
                                   \/ records[i][1].kind # "org"
    PROVE  RecInv'
<1>1. req'[r] = new   BY DEF RecInv
<1>2. PlanOK(r)'   BY <1>1 DEF PlanOK
<1>3. new.plan # <<>> => Head(new.plan) \in Plain   OBVIOUS
<1>4. new.plan # <<>> => Head(new.plan).do # "save"   BY <1>3, PlainParts
<1>5. Typed' /\ SnapshotsKeepTheirKeys' /\ Grows /\ StaysGone   BY <1>4, NothingStored
<1> QED BY <1>2, <1>5, GoesOn

(* A request that goes on with a plain plan keeps the invariant.           *)
LEMMA PlanGoesPlain ==
    ASSUME RecInv, NEW r \in Requests, NEW plan \in Seq(Plain), Go(r, plan), UNCHANGED records
    PROVE  RecInv'
<1> DEFINE new == [req[r] EXCEPT !.plan = plan]
<1>1. Shape(req[r])   BY DEF RecInv
<1>2. Shape(new) /\ new.plan = plan /\ new.gone = req[r].gone /\ new.answer = req[r].answer
  BY <1>1 DEF Shape, Fields
<1>3. req' = [req EXCEPT ![r] = new]   BY DEF Go, RecInv
<1> HIDE DEF new
<1> QED BY <1>2, <1>3, GoesPlain

(* A sequel put before a plain plan leaves it plain.                       *)
LEMMA ThenIsPlain ==
    ASSUME NEW ids \in SUBSET Nat, NEW then \in Sequels, NEW rest \in Seq(Plain)
    PROVE  Then(ids, then, rest) \in Seq(Plain)
<1>1. Through(ids, then) \in Plain   BY DEF Through, Plain
<1>2. ASSUME NEW S, NEW s \in S, NEW sequel \in Seq(S) PROVE <<s>> \o sequel \in Seq(S)
  <2>1. <<s>> \in Seq(S)   OBVIOUS
  <2> QED BY <2>1
<1>3. <<Through(ids, then)>> \o rest \in Seq(Plain)   BY <1>1, <1>2
<1> QED BY <1>3 DEF Then

(* The lookups answer with records of their kind.                          *)
LEMMA LookupsFind ==
    ASSUME RecInv
    PROVE  /\ DOMAIN records \subseteq Nat
           /\ \A kind : Created(kind) \subseteq Ids(kind) /\ Ids(kind) \subseteq DOMAIN records
           /\ \A kind, key, parent : \A hits \in Found(kind, key, parent) :
                 \A i \in Oldest(hits) :
                     i \in DOMAIN records /\ records[i][1].kind = kind /\ records[i][1].key = key
<1>1. DOMAIN records \subseteq Nat   BY DEF RecInv, Typed
<1>2. \A kind : Created(kind) \subseteq Ids(kind) /\ Ids(kind) \subseteq DOMAIN records
  BY DEF Created, Ids
<1>3. ASSUME NEW kind, NEW key, NEW parent, NEW hits \in Found(kind, key, parent)
      PROVE  \A i \in hits : i \in Ids(kind) /\ records[i][1].key = key
  BY <1>2 DEF Found, Matching
<1> QED BY <1>1, <1>2, <1>3 DEF Oldest, Ids

(* What the operations ask for.                                            *)
LEMMA AskedFor ==
    ASSUME RecInv, NEW op \in Ops, NEW plan \in Asked(op)
    PROVE  /\ op = "create" => Guarded(plan) \/ Unguarded(plan)
           /\ op = "update" => Updating(plan) \/ Rewriting(plan)
           /\ op = "delete" => plan \in Seq(Quiet)
           /\ op = "delete_org" => \E i \in Ids("org") : plan = DeleteOrganization(i)
           /\ op = "callback" => \E n \in Names : plan = HandleDeleteUserCallback(n)
           /\ op = "list" => \E look \in Listing : plan = <<look>>
<1>1. Users \subseteq Names
  BY DEF RecInv, Typed, Users, Ids, Record
<1>2. /\ \A kind : Ids(kind) \subseteq Nat /\ Ids(kind) \subseteq DOMAIN records
      /\ \A kind : \A i \in Ids(kind) : records[i][1].kind = kind
  BY LookupsFind DEF Ids
<1>3. ASSUME NEW kind \in Unchecked, NEW key \in Names, NEW parent \in Names \cup Nat,
             NEW expires \in Expiries
      PROVE  Unguarded(<<New(kind, key, parent, expires)>>)
  <2> DEFINE new == Fresh(kind, key, parent, expires)
  <2>1. new \in Record /\ new.kind = kind   BY DEF Fresh, Record, Kinds, Unchecked
  <2>2. New(kind, key, parent, expires) = Making(new)   BY DEF New, Making
  <2> HIDE DEF new
  <2> QED BY <2>1, <2>2 DEF Unguarded
<1>4. ASSUME NEW kind \in Kinds \ {"user"}, NEW key \in Names,
             NEW scope \in Names \cup Nat \cup {Any},
             NEW parent \in Names \cup Nat, NEW expires \in Expiries,
             scope = Any \/ (kind = "member" /\ scope = parent)
      PROVE  Guarded(<<Unused(kind, key, scope), New(kind, key, parent, expires)>>)
  <2> DEFINE new == Fresh(kind, key, parent, expires)
  <2>1. new \in Record /\ new.kind = kind /\ new.key = key /\ new.parent = parent
      BY DEF Fresh, Record
  <2>2. New(kind, key, parent, expires) = Making(new)   BY DEF New, Making
  <2> HIDE DEF new
  <2> QED BY <1>4, <2>1, <2>2 DEF Guarded
<1>5. ASSUME NEW i \in Nat PROVE <<Bury(i)>> \in Seq(Quiet)
  <2>1. {i} \in SUBSET Nat   OBVIOUS
  <2>2. Bury(i) \in Quiet   BY <2>1 DEF Bury, Through, Quiet, Sequels
  <2> QED BY <2>2
<1>6. ASSUME NEW kind \in Kinds \ {"org"}, NEW field \in {"key", "parent"},
             NEW value \in Names \cup Nat, NEW then \in Sequels
      PROVE  Each(kind, field, value, then) \in Listing
  BY DEF Each, Listing
<1>7. ASSUME NEW kind \in Kinds, NEW key \in Names, NEW parent \in Names \cup Nat \cup {Any},
             NEW then \in {"erase", "delete_user"}
      PROVE  <<Find(kind, key, parent, then)>> \in Seq(Quiet)
  <2>1. Find(kind, key, parent, then) \in Quiet   BY DEF Find, Quiet
  <2> QED BY <2>1
<1>8. ASSUME NEW i \in DOMAIN records, NEW field \in {"val", "expires", "key"},
             NEW to \in Targets, GoodSave(i, field, to)
      PROVE  Updating(<<Load(i), Save(field, to)>>)
  BY <1>8 DEF Updating
<1>9. CASE op = "create"
  <2>1. ASSUME NEW n \in Names, NEW u \in Users
        PROVE  /\ Unguarded(CreateSession(n, u)) /\ Unguarded(CreateAccount(n, u))
               /\ Unguarded(CreateVerification(n, u, "soon"))
      BY <1>1, <1>3 DEF CreateSession, CreateAccount, CreateVerification, Unchecked, Expiries
  <2>2. ASSUME NEW n \in Names, NEW u \in Users
        PROVE  Guarded(CreateApiKey(n, u, "soon")) /\ Guarded(CreatePasskey(n, u))
      BY <1>1, <1>4 DEF CreateApiKey, CreatePasskey, Kinds, Expiries
  <2>3. ASSUME NEW n \in Names PROVE Guarded(CreateOrganization(n))
      BY <1>4 DEF CreateOrganization, Kinds, Expiries
  <2>4. ASSUME NEW u \in Users PROVE Guarded(CreateTwoFactor(u))
      BY <1>1, <1>4 DEF CreateTwoFactor, Kinds, Expiries
  <2>5. ASSUME NEW o \in Ids("org"), NEW u \in Users
        PROVE  Guarded(CreateMember(o, u)) /\ Unguarded(CreateInvitation(o, u, "soon"))
      BY <1>1, <1>2, <1>3, <1>4
         DEF CreateMember, CreateInvitation, Kinds, Unchecked, Expiries
  <2>6. \/ \E n \in Names : plan = CreateOrganization(n)
        \/ \E n \in Names, u \in Users :
              plan \in {CreateSession(n, u), CreateAccount(n, u), CreateApiKey(n, u, "soon"),
                       CreatePasskey(n, u), CreateVerification(n, u, "soon")}
        \/ \E o \in Ids("org"), u \in Users : plan \in {CreateMember(o, u), CreateInvitation(o, u, "soon")}
        \/ \E u \in Users : plan = CreateTwoFactor(u)
    <3> DEFINE Ones(n, u) == {CreateSession(n, u), CreateAccount(n, u), CreateApiKey(n, u, "soon"),
                              CreatePasskey(n, u), CreateVerification(n, u, "soon")}
               Others(o, u) == {CreateMember(o, u), CreateInvitation(o, u, "soon")}
    <3>1. \/ plan \in {CreateOrganization(n) : n \in Names}
          \/ plan \in UNION {Ones(n, u) : n \in Names, u \in Users}
          \/ plan \in UNION {Others(o, u) : o \in Ids("org"), u \in Users}
          \/ plan \in {CreateTwoFactor(u) : u \in Users}
        BY <1>9 DEF Creations, Asked
    <3> HIDE DEF Ones, Others
    <3>2. \/ \E n \in Names : plan = CreateOrganization(n)
          \/ \E n \in Names, u \in Users : plan \in Ones(n, u)
          \/ \E o \in Ids("org"), u \in Users : plan \in Others(o, u)
          \/ \E u \in Users : plan = CreateTwoFactor(u)
        BY <3>1
    <3> QED BY <3>2 DEF Ones, Others
  <2> QED BY <1>9, <2>1, <2>2, <2>3, <2>4, <2>5, <2>6
<1>10. CASE op = "update"
  <2>1. {"next"} \cup Expiries \subseteq Targets /\ Names \subseteq Targets   BY DEF Targets
  <2>2. \A i \in DOMAIN records : GoodSave(i, "val", "next")   BY DEF GoodSave
  <2>3. \A i \in DOMAIN records : Updating(<<Load(i), Save("val", "next")>>)   BY <1>8, <2>1, <2>2
  <2>4. ASSUME NEW i \in Ids("org"), NEW slug \in Names
        PROVE  Updating(UpdateOrganization(i, slug))
      BY <1>2, <1>8, <2>1 DEF UpdateOrganization, GoodSave
  <2>5. ASSUME NEW i \in Ids("api_key"), NEW expires \in {"soon", "later"}
        PROVE  Updating(UpdateApiKey(i, expires))
      BY <1>2, <1>8, <2>1 DEF UpdateApiKey, GoodSave, Expiries
  <2>6. ASSUME NEW u \in Users PROVE Rewriting(UpdateTwoFactorBackupCodes(u))
      BY <1>1 DEF UpdateTwoFactorBackupCodes, Rewriting
  <2> QED BY <1>2, <1>10, <2>3, <2>4, <2>5, <2>6
          DEF Asked, Updates, UpdateAccount, UpdateMemberRole, UpdateInvitationStatus, UpdatePasskeyCounter
<1>11. CASE op = "delete"
  <2>1. \A i \in Nat : <<Bury(i)>> \in Seq(Quiet)   BY <1>5
  <2>2. \A kind \in {"verification", "api_key"} : <<Sweep(kind)>> \in Seq(Quiet)
    <3>1. \A kind \in {"verification", "api_key"} : Sweep(kind) \in Quiet   BY DEF Sweep, Quiet, Kinds
    <3> QED BY <3>1
  <2>3. \A n \in Names, u \in Users : ConsumeVerification(n, u) \in Seq(Quiet)
      BY <1>1, <1>7 DEF ConsumeVerification, Kinds
  <2>4. \A u \in Users : DeleteTwoFactor(u) \in Seq(Quiet)
      BY <1>1, <1>7 DEF DeleteTwoFactor, Kinds
  <2>5. \/ \E i \in Nat : plan = <<Bury(i)>>
        \/ \E kind \in {"verification", "api_key"} : plan = <<Sweep(kind)>>
        \/ \E n \in Names, u \in Users : plan = ConsumeVerification(n, u)
        \/ \E u \in Users : plan = DeleteTwoFactor(u)
      BY <1>2, <1>11
          DEF Asked, Deletions, DeleteAccount, DeleteVerification, DeleteMember, DeleteApiKey,
              DeletePasskey, DeleteExpiredVerifications, DeleteExpiredApiKeys
  <2> QED BY <1>11, <2>1, <2>2, <2>3, <2>4, <2>5
<1>12. CASE op \in {"delete_org", "callback"}   BY <1>12 DEF Asked
<1>13. CASE op = "list"
  <2>1. ASSUME NEW u \in Users
        PROVE  \E a, b, c, d, e \in Listing :
                  /\ ListUserOrganizations(u) = <<a>> /\ GetUserAccounts(u) = <<b>>
                  /\ ListUserInvitations(u) = <<c>> /\ ListApiKeysByUser(u) = <<d>>
                  /\ ListPasskeysByUser(u) = <<e>>
    <3>1. u \in Names \cup Nat   BY <1>1
    <3>2. /\ Each("member", "key", u, "visit") \in Listing
          /\ Each("account", "parent", u, "list") \in Listing
          /\ Each("invitation", "key", u, "pending") \in Listing
          /\ Each("api_key", "parent", u, "list") \in Listing
          /\ Each("passkey", "parent", u, "list") \in Listing
        BY <1>6, <3>1 DEF Kinds, Sequels, Answers
    <3> QED BY <3>2 DEF ListUserOrganizations, GetUserAccounts, ListUserInvitations,
                       ListApiKeysByUser, ListPasskeysByUser
  <2>2. ASSUME NEW o \in Ids("org")
        PROVE  \E a, b \in Listing : /\ ListOrganizationMembers(o) = <<a>>
                                     /\ ListOrganizationInvitations(o) = <<b>>
    <3>1. o \in Names \cup Nat   BY <1>2
    <3>2. /\ Each("member", "parent", o, "list") \in Listing
          /\ Each("invitation", "parent", o, "list") \in Listing
        BY <1>6, <3>1 DEF Kinds, Sequels, Answers
    <3> QED BY <3>2 DEF ListOrganizationMembers, ListOrganizationInvitations
  <2>3. \/ \E u \in Users :
              plan \in {ListUserOrganizations(u), GetUserAccounts(u), ListUserInvitations(u),
                       ListApiKeysByUser(u), ListPasskeysByUser(u)}
        \/ \E o \in Ids("org") : plan \in {ListOrganizationMembers(o), ListOrganizationInvitations(o)}
    <3> DEFINE OfUser(u) == {ListUserOrganizations(u), GetUserAccounts(u), ListUserInvitations(u),
                             ListApiKeysByUser(u), ListPasskeysByUser(u)}
               OfOrg(o) == {ListOrganizationMembers(o), ListOrganizationInvitations(o)}
    <3>1. \/ plan \in UNION {OfUser(u) : u \in Users}
          \/ plan \in UNION {OfOrg(o) : o \in Ids("org")}
        BY <1>13 DEF Asked, Listings
    <3> HIDE DEF OfUser, OfOrg
    <3>2. (\E u \in Users : plan \in OfUser(u)) \/ (\E o \in Ids("org") : plan \in OfOrg(o))
        BY <3>1
    <3> QED BY <3>2 DEF OfUser, OfOrg
  <2> QED BY <1>13, <2>1, <2>2, <2>3
<1> QED BY <1>9, <1>10, <1>11, <1>12, <1>13 DEF Ops

(* The plan of every operation is plain, an update or a rewriting.         *)
LEMMA AskedPlans ==
    ASSUME RecInv, NEW op \in Ops, NEW plan \in Asked(op)
    PROVE  plan \in Seq(Plain) \/ Updating(plan) \/ Rewriting(plan)
<1>1. Quiet \subseteq Plain /\ Listing \subseteq Plain   BY DEF Quiet, Listing, Plain
<1>2. CASE plan \in Seq(Quiet)   BY <1>1, <1>2
<1>3. CASE Guarded(plan)
  <2>1. PICK new \in Record, scope \in Names \cup Nat \cup {Any} :
            plan = <<Unused(new.kind, new.key, scope), Making(new)>>
      BY <1>3 DEF Guarded
  <2>2. Unused(new.kind, new.key, scope) \in Plain   BY DEF Unused, Plain, Record
  <2>3. Making(new) \in Plain   BY DEF Making, Plain
  <2> QED BY <2>1, <2>2, <2>3
<1>4. CASE Unguarded(plan)
  <2>1. PICK new \in Record : plan = <<Making(new)>>   BY <1>4 DEF Unguarded
  <2>2. Making(new) \in Plain   BY DEF Making, Plain
  <2> QED BY <2>1, <2>2
<1>5. CASE \E i \in Ids("org") : plan = DeleteOrganization(i)
  <2>1. PICK i \in Ids("org") : plan = DeleteOrganization(i)   BY <1>5
  <2>2. i \in Nat /\ {i} \in SUBSET Nat   BY LookupsFind
  <2>3. Bury(i) \in Plain   BY <2>2 DEF Bury, Through, Plain, Sequels
  <2>4. Each("member", "parent", i, "bury") \in Plain /\ Each("invitation", "parent", i, "bury") \in Plain
      BY <2>2 DEF Each, Plain, Kinds, Sequels
  <2> QED BY <2>1, <2>3, <2>4 DEF DeleteOrganization
<1>6. CASE \E n \in Names : plan = HandleDeleteUserCallback(n)
  <2>1. PICK n \in Names : plan = HandleDeleteUserCallback(n)   BY <1>6
  <2>2. Find("verification", n, Any, "delete_user") \in Plain   BY DEF Find, Plain, Kinds
  <2> QED BY <2>1, <2>2 DEF HandleDeleteUserCallback
<1>7. CASE \E look \in Listing : plan = <<look>>   BY <1>1, <1>7
<1> QED BY <1>2, <1>3, <1>4, <1>5, <1>6, <1>7, AskedFor DEF Ops

-----------------------------------------------------------------------------
(* Steps.                                                                  *)

(* The empty store keeps the invariant.                                    *)
LEMMA InitHolds == Init => RecInv
<1> SUFFICES ASSUME Init PROVE RecInv   OBVIOUS
<1>1. PICK w \in Worlds : records = [i \in DOMAIN w |-> <<w[i]>>]   BY DEF Init
<1>2. w \in Seq(Record)   BY WorldsAssumption
<1>3. /\ DOMAIN w = 1..Len(w) /\ Len(w) \in Nat /\ \A i \in DOMAIN w : w[i] \in Record
  BY <1>2
<1>4. \A i \in DOMAIN w : <<w[i]>> \in Seq(Events)   BY <1>3 DEF Events
<1>5. records \in [1..Len(w) -> Seq(Events)]   BY <1>1, <1>3, <1>4
<1>6. records \in Seq(Seq(Events))   BY <1>3, <1>5
<1>7. \A i \in DOMAIN records : /\ Len(records[i]) = 1 /\ records[i][1] \in Record
                                  /\ DOMAIN records[i] = {1}
  BY <1>1, <1>3
<1>8. Typed /\ SnapshotsKeepTheirKeys   BY <1>6, <1>7 DEF Typed, SnapshotsKeepTheirKeys
<1>9. Shape(Idle) /\ Idle.plan = <<>> /\ Idle.gone = {}   BY DEF Idle, Shape, Fields
<1>10. /\ req = [r \in Requests |-> req[r]]
       /\ \A r \in Requests : Shape(req[r]) /\ PlanOK(r) /\ GoneOK(r)
  <2>1. req = [r \in Requests |-> Idle]   BY DEF Init
  <2>2. \A r \in Requests : req[r] = Idle   BY <2>1
  <2>3. req = [r \in Requests |-> req[r]] /\ \A r \in Requests : Shape(req[r])
      BY <1>9, <2>1, <2>2
  <2>4. \A r \in Requests : req[r].plan = <<>> /\ req[r].gone = {}   BY <1>9, <2>2
  <2>5. \A r \in Requests : PlanOK(r)
    <3>1. <<>> \in Seq(Plain)   OBVIOUS
    <3> QED BY <2>4, <3>1 DEF PlanOK
  <2>6. \A r \in Requests : GoneOK(r)   BY <2>4 DEF GoneOK
  <2> QED BY <2>3, <2>5, <2>6
<1> QED BY <1>8, <1>10 DEF RecInv

Starts(op, plan, saw, id, gone) ==
    [Idle EXCEPT !.op = op, !.plan = plan, !.saw = saw, !.id = id, !.gone = gone]
Asks(op, plan, saw, id, gone) ==
    [op |-> op, plan |-> plan, id |-> id, held |-> Deleted, read |-> 0,
     saw |-> saw, asked |-> Deleted, answer |-> {}, gone |-> gone]

(* A request starts as what it asks.                                       *)
LEMMA Started ==
    ASSUME NEW op, NEW plan, NEW saw, NEW id, NEW gone
    PROVE  Starts(op, plan, saw, id, gone) = Asks(op, plan, saw, id, gone)
<1>1. Idle = Asks("none", <<>>, 0, 0, {})   BY DEF Idle, Asks
<1>2. \A p : [Asks("none", p, 0, 0, {}) EXCEPT !.op = op] = Asks(op, p, 0, 0, {})   BY DEF Asks
<1>3. \A p : [Asks(op, p, 0, 0, {}) EXCEPT !.plan = plan] = Asks(op, plan, 0, 0, {})   BY DEF Asks
<1>4. [Asks(op, plan, 0, 0, {}) EXCEPT !.saw = saw] = Asks(op, plan, saw, 0, {})   BY DEF Asks
<1>5. [Asks(op, plan, saw, 0, {}) EXCEPT !.id = id] = Asks(op, plan, saw, id, {})   BY DEF Asks
<1>6. [Asks(op, plan, saw, id, {}) EXCEPT !.gone = gone] = Asks(op, plan, saw, id, gone)   BY DEF Asks
<1>7. [Idle EXCEPT !.op = op] = Asks(op, <<>>, 0, 0, {})   BY <1>1, <1>2, Zenon
<1>8. [[Idle EXCEPT !.op = op] EXCEPT !.plan = plan] = Asks(op, plan, 0, 0, {})
  BY <1>3, <1>7, Zenon
<1> QED BY <1>4, <1>5, <1>6, <1>8, Zenon DEF Starts

(* What was gone when a request comes in is what it is measured by.        *)
LEMMA StartKeeps ==
    ASSUME RecInv, NEW r \in Requests, NEW op \in Ops, Start(r, op)
    PROVE  RecInv'
<1>1. PICK plan \in Asked(op) :
         req' = [req EXCEPT ![r] = [Idle EXCEPT
                    !.op = op, !.plan = plan, !.saw = Len(records),
                    !.id = IF op = "delete_org" THEN CHOOSE i \in Head(plan).ids : TRUE ELSE 0,
                    !.gone = {i \in DOMAIN records : Latest(i) = Deleted /\ ~InFlight(i)}]]
  BY Zenon DEF Start
<1> DEFINE id == IF op = "delete_org" THEN CHOOSE i \in Head(plan).ids : TRUE ELSE 0
           gone == {i \in DOMAIN records : Latest(i) = Deleted /\ ~InFlight(i)}
           new == Asks(op, plan, Len(records), id, gone)
<1>2. plan \in Seq(Plain) \/ Updating(plan) \/ Rewriting(plan)   BY AskedPlans
<1>3. plan # <<>> => Head(plan).do # "save"
  <2>1. CASE plan \in Seq(Plain)
    <3>1. plan # <<>> => Head(plan) \in Plain   BY <2>1
    <3> QED BY <2>1, <3>1, PlainParts
  <2>2. CASE Updating(plan)
    <3>1. PICK i \in DOMAIN records, field \in {"val", "expires", "key"}, to \in Targets :
              plan = <<Load(i), Save(field, to)>>
        BY <2>2 DEF Updating
    <3> QED BY <3>1 DEF Load
  <2>3. CASE Rewriting(plan)
    <3>1. PICK user \in Names :
              plan = <<Find("two_factor", user, Any, "rewrite"), Save("val", "next")>>
        BY <2>3 DEF Rewriting
    <3> QED BY <3>1 DEF Find
  <2> QED BY <1>2, <2>1, <2>2, <2>3
<1>7. req' = [req EXCEPT ![r] = new]
  <2>1. req' = [req EXCEPT ![r] = Starts(op, plan, Len(records), id, gone)]
      BY <1>1, Zenon DEF Starts
  <2> HIDE DEF id, gone
  <2> QED BY <2>1, Started
<1> HIDE DEF id, gone
<1>6. Shape(new)   BY DEF Shape, Fields, Asks
<1>8. new.plan = plan /\ new.gone = gone /\ new.answer = {}   BY DEF Asks
<1> HIDE DEF new
<1>9. req'[r] = new /\ UNCHANGED records   BY <1>7 DEF RecInv, Start
<1>10. Typed' /\ SnapshotsKeepTheirKeys' /\ Grows /\ StaysGone
  BY <1>3, <1>7, <1>8, <1>9, NothingStored
<1>11. PlanOK(r)'   BY <1>2, <1>8, <1>9 DEF PlanOK, Updating, Rewriting, GoodSave
<1>12. ASSUME NEW i \in req'[r].gone
       PROVE  i \in DOMAIN records' /\ (records'[i][1].kind = "org" =>
                                           IsGone(i)' /\ i \notin req'[r].answer)
  <2>1. i \in DOMAIN records /\ IsGone(i)   BY <1>8, <1>9, <1>12 DEF gone, IsGone
  <2> QED BY <1>8, <1>9, <1>10, <2>1 DEF StaysGone
<1>13. GoneOK(r)'   BY <1>12 DEF GoneOK
<1> QED BY <1>6, <1>7, <1>10, <1>11, <1>13, Moves

(* A creation starts a stream of its own.                                  *)
LEMMA CreateKeeps ==
    ASSUME RecInv, NEW r \in Requests, Create(r)
    PROVE  RecInv'
<1>1. req[r].plan # <<>> /\ Head(req[r].plan).do = "create"   BY DEF Create, At
<1>2. Head(req[r].plan) \in Plain /\ Rest(r) \in Seq(Plain)   BY <1>1, HeadsOf
<1> DEFINE record == Head(req[r].plan).record
<1>3. record \in Record   BY <1>1, <1>2, PlainParts
<1>4. records' = Append(records, <<record>>) /\ Go(r, Rest(r))   BY DEF Create
<1> HIDE DEF record
<1>5. <<record>> \in Seq(Events) /\ Len(<<record>>) = 1 /\ <<record>>[1] = record
      /\ DOMAIN <<record>> = {1}
  BY <1>3 DEF Events
<1>6. records \in Seq(Seq(Events))   BY DEF RecInv, Typed
<1>7. /\ records' \in Seq(Seq(Events))
      /\ DOMAIN records' = DOMAIN records \cup {Len(records) + 1}
      /\ records'[Len(records) + 1] = <<record>>
      /\ \A i \in DOMAIN records : records'[i] = records[i]
  BY <1>4, <1>5, <1>6
<1>8. Typed'   BY <1>3, <1>5, <1>7 DEF RecInv, Typed
<1>9. Grows   BY <1>7 DEF Grows
<1>10. SnapshotsKeepTheirKeys'
  BY <1>5, <1>7 DEF RecInv, SnapshotsKeepTheirKeys
<1> DEFINE new == [req[r] EXCEPT !.plan = Rest(r)]
<1>11. /\ Shape(new) /\ new.plan = Rest(r) /\ new.gone = req[r].gone
       /\ new.answer = req[r].answer
  BY DEF RecInv, Shape, Fields
<1>12. req' = [req EXCEPT ![r] = new]   BY <1>4 DEF Go, RecInv
<1> HIDE DEF new
<1>13. req'[r] = new /\ \A q \in Requests \ {r} : req'[q] = req[q]   BY <1>12 DEF RecInv
<1>14. new.plan # <<>> => Head(new.plan).do # "save"
  <2>1. new.plan # <<>> => Head(new.plan) \in Plain   BY <1>2, <1>11
  <2> QED BY <2>1, PlainParts
<1>15. ASSUME NEW i \in DOMAIN records, IsGone(i) PROVE IsGone(i)'
  <2>1. ~InFlight(i)'   BY <1>13, <1>14, <1>15 DEF IsGone, InFlight, At
  <2>2. Latest(i)' = Latest(i)   BY <1>7 DEF Latest
  <2> QED BY <1>15, <2>1, <2>2 DEF IsGone
<1>16. PlanOK(r)'   BY <1>2, <1>11, <1>13 DEF PlanOK
<1> QED BY <1>8, <1>9, <1>10, <1>11, <1>12, <1>15, <1>16, GoesOn DEF StaysGone

(* The check that a key is unused changes no record.                       *)
LEMMA CheckKeeps ==
    ASSUME RecInv, NEW r \in Requests, CheckUnused(r)
    PROVE  RecInv'
<1>1. req[r].plan # <<>> /\ Head(req[r].plan).do = "unused"   BY DEF CheckUnused, At
<1>2. Rest(r) \in Seq(Plain)   BY <1>1, HeadsOf
<1>3. UNCHANGED records /\ (End(r) \/ Go(r, Rest(r)))   BY DEF CheckUnused
<1> QED BY <1>2, <1>3, Ends, PlanGoesPlain

(* A read by id answers an event of the stream.                            *)
LEMMA LatestIsSeen ==
    ASSUME Typed, NEW i \in DOMAIN records
    PROVE  /\ Len(records[i]) \in DOMAIN records[i] /\ Seen(Len(records[i])) \in DOMAIN records[i]
           /\ Latest(i) = records[i][Seen(Len(records[i]))] /\ Latest(i) \in Events
<1>1. records \in Seq(Seq(Events)) /\ Len(records[i]) >= 1   BY DEF Typed
<1>2. records[i] \in Seq(Events)   BY <1>1
<1>3. Cap \in Nat /\ Cap >= 1   BY CapAssumption
<1>4. Seen(Len(records[i])) \in 1..Len(records[i])   BY <1>1, <1>2, <1>3 DEF Seen
<1>5. Latest(i) = records[i][Seen(Len(records[i]))]   BY DEF Latest, Seen
<1> QED BY <1>1, <1>2, <1>4, <1>5

(* An update goes on to write only what was live when it read it.          *)
LEMMA LoadKeeps ==
    ASSUME RecInv, NEW r \in Requests, LoadLatest(r)
    PROVE  RecInv'
<1>1. At(r, "load") /\ req[r].plan # <<>>   BY DEF LoadLatest, At
<1>2. PICK i \in DOMAIN records, field \in {"val", "expires", "key"}, to \in Targets :
         req[r].plan = <<Load(i), Save(field, to)>> /\ GoodSave(i, field, to)
  BY <1>1, HeadsOf DEF Updating
<1>3. Head(req[r].plan).id = i /\ Rest(r) = <<Save(field, to)>>   BY <1>2 DEF Load, Rest
<1>4. CASE Latest(i) = Deleted
  <2>1. End(r) /\ UNCHANGED records   BY <1>3, <1>4 DEF LoadLatest
  <2> QED BY <2>1, Ends
<1>5. CASE Latest(i) # Deleted
  <2> DEFINE new == [req[r] EXCEPT !.plan = Rest(r), !.id = i, !.held = Latest(i),
                                   !.read = Len(records[i])]
  <2>1. req' = [req EXCEPT ![r] = new] /\ UNCHANGED records
      BY <1>3, <1>5 DEF LoadLatest, RecInv
  <2>2. i \in Nat /\ records[i] \in Seq(Events) /\ Len(records[i]) \in DOMAIN records[i]
        /\ Len(records[i]) \in Nat /\ Latest(i) \in Events
      BY LatestIsSeen DEF RecInv, Typed
  <2>3. Latest(i) \in Record   BY <1>5, <2>2 DEF Events
  <2>4. Shape(req[r])   BY DEF RecInv
  <2>5. /\ Shape(new) /\ new.plan = Rest(r) /\ new.id = i /\ new.held = Latest(i)
        /\ new.read = Len(records[i]) /\ new.gone = req[r].gone /\ new.answer = req[r].answer
      BY <2>4 DEF Shape, Fields
  <2>7. new.plan = <<Save(field, to)>>   BY <1>3, <2>5
  <2> HIDE DEF new
  <2>8. req'[r] = new   BY <2>1 DEF RecInv
  <2>9. Typed' /\ SnapshotsKeepTheirKeys' /\ Grows /\ StaysGone
      BY <1>5, <2>1, <2>5, <2>7, NothingStored
  <2>10. /\ Latest(i).kind = records[i][1].kind /\ Latest(i).parent = records[i][1].parent
         /\ Latest(i).kind # "org" => Latest(i).key = records[i][1].key
    <3>1. SnapshotsKeepTheirKeys   BY DEF RecInv
    <3>2. Seen(Len(records[i])) \in DOMAIN records[i] /\ Latest(i) = records[i][Seen(Len(records[i]))]
        BY LatestIsSeen DEF RecInv
    <3> QED BY <1>5, <3>1, <3>2 DEF SnapshotsKeepTheirKeys
  <2>11. Holds(r, i)'
    <3>1. Seen(Len(records[i])) \in DOMAIN records[i] /\ Latest(i) = records[i][Seen(Len(records[i]))]
        BY LatestIsSeen DEF RecInv
    <3> QED BY <1>5, <2>1, <2>2, <2>3, <2>5, <2>8, <2>10, <3>1 DEF Holds
  <2>12. GoodSave(i, field, to)'   BY <1>2, <2>1 DEF GoodSave
  <2>13. PlanOK(r)'   BY <2>1, <2>5, <2>7, <2>8, <2>11, <2>12 DEF PlanOK, Writing
  <2>14. Shape(new) /\ new.gone = req[r].gone /\ \A j \in new.answer : j \in req[r].answer
      BY <2>5
  <2> QED BY <2>1, <2>9, <2>13, <2>14, GoesOn
<1> QED BY <1>4, <1>5

(* Another event of a stream: a tombstone, or a snapshot that keeps what   *)
(* the record was created with.                                            *)
LEMMA AppendsEvent ==
    ASSUME RecInv, NEW i \in DOMAIN records, NEW e \in Events,
           records' = [records EXCEPT ![i] = Append(@, e)],
           e # Deleted => /\ e.kind = records[i][1].kind /\ e.parent = records[i][1].parent
                          /\ e.kind # "org" => e.key = records[i][1].key
    PROVE  /\ Typed' /\ SnapshotsKeepTheirKeys' /\ Grows
           /\ Latest(i)' \in {e, Latest(i)}
           /\ \A j \in DOMAIN records : j # i => Latest(j)' = Latest(j)
<1>1. records \in Seq(Seq(Events)) /\ records[i] \in Seq(Events) /\ Len(records[i]) >= 1
  BY DEF RecInv, Typed
<1> DEFINE stream == Append(records[i], e)
<1>2. /\ stream \in Seq(Events) /\ Len(stream) = Len(records[i]) + 1
      /\ DOMAIN stream = DOMAIN records[i] \cup {Len(records[i]) + 1}
      /\ stream[Len(records[i]) + 1] = e
      /\ \A k \in DOMAIN records[i] : stream[k] = records[i][k]
  BY <1>1
<1>3. 1 \in DOMAIN records[i]   BY <1>1
<1>4. records' = [records EXCEPT ![i] = stream]   OBVIOUS
<1> HIDE DEF stream
<1>5. /\ records' \in Seq(Seq(Events)) /\ DOMAIN records' = DOMAIN records
      /\ records'[i] = stream /\ \A j \in DOMAIN records : j # i => records'[j] = records[j]
  BY <1>1, <1>2, <1>4
<1>6. Typed'   BY <1>2, <1>3, <1>5 DEF RecInv, Typed
<1>7. Grows   BY <1>2, <1>3, <1>5 DEF Grows
<1>8. SnapshotsKeepTheirKeys'
  <2>1. ASSUME NEW j \in DOMAIN records', NEW k \in DOMAIN records'[j], records'[j][k] # Deleted
        PROVE  /\ records'[j][k].kind = records'[j][1].kind
               /\ records'[j][k].parent = records'[j][1].parent
               /\ records'[j][k].kind # "org" => records'[j][k].key = records'[j][1].key
      BY <1>2, <1>3, <1>5, <2>1 DEF RecInv, SnapshotsKeepTheirKeys
  <2> QED BY <2>1 DEF SnapshotsKeepTheirKeys
<1>9. \A j \in DOMAIN records : j # i => Latest(j)' = Latest(j)   BY <1>5 DEF Latest
<1>10. Latest(i)' \in {e, Latest(i)}
  <2> DEFINE n == Len(records[i])
  <2>1. n \in Nat /\ DOMAIN records[i] = 1..n /\ Cap \in Nat /\ Cap >= 1
      BY <1>1, CapAssumption
  <2>2. Latest(i)' = stream[Seen(n + 1)] /\ Latest(i) = records[i][Seen(n)]
      BY <1>2, <1>5 DEF Latest, Seen
  <2>3. CASE n + 1 <= Cap   BY <1>2, <2>2, <2>3 DEF Seen
  <2>4. CASE ~(n + 1 <= Cap)
    <3>1. Seen(n + 1) = Seen(n) /\ Seen(n) \in 1..n   BY <1>1, <2>1, <2>4 DEF Seen
    <3> QED BY <1>2, <2>1, <2>2, <3>1
  <2> QED BY <2>3, <2>4
<1> QED BY <1>6, <1>7, <1>8, <1>9, <1>10

(* A snapshot that is saved is an event.                                   *)
LEMMA SavesEvents ==
    ASSUME RecInv, NEW r \in Requests, SaveSnapshot(r)
    PROVE  [req[r].held EXCEPT ![Head(req[r].plan).field] = Head(req[r].plan).to] \in Events
<1>1. At(r, "save") /\ req[r].plan # <<>>   BY DEF SaveSnapshot, At
<1>2. PICK field \in {"val", "expires", "key"}, to \in Targets :
         /\ req[r].plan = <<Save(field, to)>>
         /\ req[r].id \in DOMAIN records
         /\ GoodSave(req[r].id, field, to) /\ Holds(r, req[r].id)
  BY <1>1, HeadsOf DEF Writing
<1>3. Head(req[r].plan).field = field /\ Head(req[r].plan).to = to   BY <1>2 DEF Save
<1>4. req[r].held \in Record   BY <1>2 DEF Holds
<1>5. CASE field = "val" /\ to = "next"   BY <1>3, <1>4, <1>5 DEF Record, Events
<1>6. CASE field = "expires" /\ to \in Expiries   BY <1>3, <1>4, <1>6 DEF Record, Events
<1>7. CASE field = "key" /\ to \in Names   BY <1>3, <1>4, <1>7 DEF Record, Events
<1> QED BY <1>2, <1>5, <1>6, <1>7 DEF GoodSave

(* What is written back changes one field that may change.                 *)
LEMMA SaveKeeps ==
    ASSUME RecInv, NEW r \in Requests, SaveSnapshot(r)
    PROVE  RecInv'
<1>1. At(r, "save") /\ req[r].plan # <<>>   BY DEF SaveSnapshot, At
<1>2. PICK field \in {"val", "expires", "key"}, to \in Targets :
         /\ req[r].plan = <<Save(field, to)>>
         /\ req[r].id \in DOMAIN records
         /\ GoodSave(req[r].id, field, to) /\ Holds(r, req[r].id)
  BY <1>1, HeadsOf DEF Writing
<1> DEFINE i == req[r].id
           held == req[r].held
           e == [held EXCEPT ![field] = to]
<1>3. Head(req[r].plan) = Save(field, to) /\ Rest(r) = <<>>   BY <1>2 DEF Rest
<1>4. records' = [records EXCEPT ![i] = Append(@, e)] /\ Go(r, Rest(r))
  <2>1. Head(req[r].plan).field = field /\ Head(req[r].plan).to = to   BY <1>3 DEF Save
  <2>2. records' = [records EXCEPT ![i] =
            Append(@, [held EXCEPT ![Head(req[r].plan).field] = Head(req[r].plan).to])]
      BY Zenon DEF SaveSnapshot
  <2> QED BY <2>1, <2>2 DEF SaveSnapshot
<1>5. /\ e \in Events
      /\ e # Deleted => /\ e.kind = records[i][1].kind /\ e.parent = records[i][1].parent
                        /\ e.kind # "org" => e.key = records[i][1].key
  <2>1. held \in Record /\ held.kind = records[i][1].kind /\ held.parent = records[i][1].parent
        /\ (held.kind # "org" => held.key = records[i][1].key)
      BY <1>2 DEF Holds
  <2> HIDE DEF held, i
  <2>2. CASE field = "val" /\ to = "next"
      BY <2>1, <2>2 DEF Record, Events
  <2>3. CASE field = "expires" /\ to \in Expiries
      BY <2>1, <2>3 DEF Record, Events
  <2>4. CASE field = "key" /\ to \in Names /\ records[i][1].kind = "org"
      BY <2>1, <2>4 DEF Record, Events
  <2> QED BY <1>2, <2>2, <2>3, <2>4 DEF GoodSave, i
<1> HIDE DEF e
<1>12. i \in DOMAIN records   BY <1>2
<1> HIDE DEF i
<1>6. /\ Typed' /\ SnapshotsKeepTheirKeys' /\ Grows
      /\ \A j \in DOMAIN records : j # i => Latest(j)' = Latest(j)
  BY <1>4, <1>5, <1>12, AppendsEvent
<1> DEFINE new == [req[r] EXCEPT !.plan = Rest(r)]
<1>7. /\ Shape(new) /\ new.plan = <<>> /\ new.gone = req[r].gone
      /\ new.answer = req[r].answer
  <2>1. Shape(req[r])   BY DEF RecInv
  <2> QED BY <1>3, <2>1 DEF Shape, Fields
<1>8. req' = [req EXCEPT ![r] = new]   BY <1>4 DEF Go, RecInv
<1> HIDE DEF new
<1>9. req'[r] = new /\ \A q \in Requests \ {r} : req'[q] = req[q]   BY <1>8 DEF RecInv
<1>10. ASSUME NEW j \in DOMAIN records, IsGone(j) PROVE IsGone(j)'
  <2>1. j # i   BY <1>1, <1>10 DEF IsGone, InFlight, i
  <2>2. ~InFlight(j)'   BY <1>7, <1>9, <1>10 DEF IsGone, InFlight, At
  <2> QED BY <1>6, <1>10, <2>1, <2>2 DEF IsGone
<1>11. PlanOK(r)'
  <2>1. <<>> \in Seq(Plain)   OBVIOUS
  <2> QED BY <1>7, <1>9, <2>1 DEF PlanOK
<1> QED BY <1>6, <1>7, <1>8, <1>10, <1>11, GoesOn DEF StaysGone

(* A lookup by field leads to deletions, or to the backup codes.           *)
LEMMA FindKeeps ==
    ASSUME RecInv, NEW r \in Requests, FindCreated(r)
    PROVE  RecInv'
<1> DEFINE look == Head(req[r].plan)
<1>1. At(r, "find") /\ req[r].plan # <<>> /\ UNCHANGED records   BY DEF FindCreated, At
<1>2. PICK hits \in Found(look.kind, look.key, look.parent) :
         \/ hits = {} /\ End(r)
         \/ \E i \in Oldest(hits) :
              req' = [req EXCEPT ![r].plan = Followed(look, i, Rest(r)), ![r].id = i,
                                 ![r].held = records[i][1]]
  BY DEF FindCreated
<1>3. CASE End(r)   BY <1>1, <1>3, Ends
<1>4. ASSUME NEW i \in Oldest(hits),
             req' = [req EXCEPT ![r].plan = Followed(look, i, Rest(r)), ![r].id = i,
                                ![r].held = records[i][1]]
      PROVE  RecInv'
  <2> DEFINE plan == Followed(look, i, Rest(r))
             new == [req[r] EXCEPT !.plan = plan, !.id = i, !.held = records[i][1]]
  <2>1. i \in DOMAIN records /\ records[i][1].kind = look.kind   BY LookupsFind
  <2>2. i \in Nat /\ records[i][1] \in Record /\ records[i][1] \in Events
      BY <2>1, LookupsFind DEF RecInv, Typed, Events
  <2>3. records[i][1].parent \in Names \cup Nat   BY <2>2 DEF Record
  <2>4. Bury(i) \in Plain /\ <<Bury(i)>> \in Seq(Plain)
    <3>1. {i} \in SUBSET Nat   BY <2>2
    <3>2. Bury(i) \in Plain   BY <3>1 DEF Bury, Through, Plain, Sequels
    <3> QED BY <3>2
  <2>5. Shape(req[r])   BY DEF RecInv
  <2> HIDE DEF plan
  <2>6. req' = [req EXCEPT ![r] = new]   BY <1>4 DEF RecInv, plan
  <2>7. /\ Shape(new) /\ new.plan = plan /\ new.id = i /\ new.held = records[i][1]
        /\ new.gone = req[r].gone /\ new.answer = req[r].answer
      BY <2>5 DEF Shape, Fields
  <2> HIDE DEF new
  <2>8. CASE req[r].plan \in Seq(Plain)
    <3>1. look \in Plain /\ look.do = "find"   BY <1>1, <2>8, HeadsOf DEF At
    <3>2. look.then \in {"erase", "delete_user"}   BY <3>1, PlainParts
    <3>3. CASE look.then = "erase"
      <4>1. plan = <<Bury(i)>>   BY <3>3 DEF plan, Followed
      <4> QED BY <1>1, <2>4, <2>6, <2>7, <4>1, GoesPlain
    <3>4. CASE look.then = "delete_user"
      <4> DEFINE user == records[i][1].parent
                 tail == Then(UserOf(i), "bury", <<Bury(i)>>)
                 sessions == Each("session", "parent", user, "bury")
                 accounts == Each("account", "parent", user, "bury")
      <4>1. UserOf(i) \in SUBSET Nat   BY LookupsFind DEF UserOf
      <4>2. tail \in Seq(Plain)   BY <2>4, <4>1, ThenIsPlain DEF Sequels
      <4>3. sessions \in Plain /\ accounts \in Plain
          BY <2>3 DEF Each, Plain, Sequels, Kinds
      <4>4. plan = <<sessions, accounts>> \o tail   BY <3>4 DEF plan, Followed
      <4>5. <<sessions, accounts>> \in Seq(Plain)   BY <4>3
      <4> HIDE DEF tail, sessions, accounts
      <4>6. plan \in Seq(Plain)   BY <4>2, <4>4, <4>5
      <4> QED BY <1>1, <2>6, <2>7, <4>6, GoesPlain
    <3> QED BY <3>2, <3>3, <3>4
  <2>9. CASE Rewriting(req[r].plan)
    <3>1. PICK user \in Names :
              req[r].plan = <<Find("two_factor", user, Any, "rewrite"), Save("val", "next")>>
        BY <2>9 DEF Rewriting
    <3>2. look.then = "rewrite" /\ look.kind = "two_factor" /\ Rest(r) = <<Save("val", "next")>>
        BY <3>1 DEF Find, Rest
    <3>3. plan = <<Save("val", "next")>>   BY <3>2 DEF plan, Followed
    <3>5. req'[r] = new   BY <2>6 DEF RecInv
    <3>6. records[i][1].kind = "two_factor"   BY <2>1, <3>2
    <3>7. Typed' /\ SnapshotsKeepTheirKeys' /\ Grows /\ StaysGone
        BY <1>1, <2>6, <2>7, <3>3, <3>6, NothingStored
    <3>8. Holds(r, i)'   BY <1>1, <2>2, <2>7, <3>5, <3>6 DEF Holds
    <3>9. GoodSave(i, "val", "next")'   BY DEF GoodSave
    <3>10. Writing(r)'
        BY <1>1, <2>1, <2>7, <3>3, <3>5, <3>8, <3>9 DEF Writing, Targets
    <3>11. PlanOK(r)'   BY <3>10 DEF PlanOK
    <3> QED BY <2>6, <2>7, <3>7, <3>11, GoesOn
  <2> QED BY <1>1, <2>8, <2>9, HeadsOf
<1> QED BY <1>2, <1>3, <1>4

(* A listing by field is never one of organizations.                       *)
LEMMA ListKeeps ==
    ASSUME RecInv, NEW r \in Requests, ListEach(r)
    PROVE  RecInv'
<1> DEFINE look == Head(req[r].plan)
           ids == Having(look.kind, look.field, look.value)
           answer == IF look.then \in Answers THEN Listed(look, ids) ELSE req[r].answer
           plan == IF look.then \in Answers THEN Rest(r) ELSE Then(ids, look.then, Rest(r))
           new == [req[r] EXCEPT !.asked = look, !.answer = answer, !.plan = plan]
<1>1. req[r].plan # <<>> /\ look.do = "each" /\ UNCHANGED records   BY DEF ListEach, At
<1>2. look \in Plain /\ Rest(r) \in Seq(Plain)   BY <1>1, HeadsOf
<1>3. look.kind \in Kinds \ {"org"} /\ look.then \in Sequels   BY <1>1, <1>2 DEF Plain
<1>4. ids \subseteq Nat /\ \A i \in ids : records[i][1].kind = look.kind
  BY LookupsFind DEF Having, Ids
<1>5. plan \in Seq(Plain)   BY <1>2, <1>3, <1>4, ThenIsPlain
<1>6. req' = [req EXCEPT ![r] = new]   BY DEF ListEach, RecInv
<1> HIDE DEF plan, ids
<1>7. Shape(req[r])   BY DEF RecInv
<1>10. \A i \in answer : i \in req[r].answer \/ records[i][1].kind # "org"
  BY <1>3, <1>4 DEF Listed, StillOpen
<1> HIDE DEF answer, look
<1>11. /\ Shape(new) /\ new.plan = plan /\ new.answer = answer /\ new.gone = req[r].gone
  BY <1>7 DEF Shape, Fields
<1> HIDE DEF new
<1> QED BY <1>1, <1>5, <1>6, <1>10, <1>11, GoesPlain

(* The listing of what has expired changes no record.                      *)
LEMMA SweepKeeps ==
    ASSUME RecInv, NEW r \in Requests, ListExpired(r)
    PROVE  RecInv'
<1> DEFINE ids == {i \in Created(Head(req[r].plan).kind) : Expired(i)}
<1>1. req[r].plan # <<>> /\ Head(req[r].plan).do = "sweep" /\ UNCHANGED records
  BY DEF ListExpired, At
<1>2. Rest(r) \in Seq(Plain)   BY <1>1, HeadsOf
<1>3. ids \in SUBSET Nat   BY LookupsFind
<1>4. Go(r, Then(ids, "bury", Rest(r)))   BY DEF ListExpired
<1>5. Then(ids, "bury", Rest(r)) \in Seq(Plain)   BY <1>2, <1>3, ThenIsPlain DEF Sequels
<1> QED BY <1>1, <1>4, <1>5, PlanGoesPlain

(* An organization a membership leads to is listed if it is there.         *)
LEMMA VisitKeeps ==
    ASSUME RecInv, NEW r \in Requests, VisitNext(r)
    PROVE  RecInv'
<1> DEFINE look == Head(req[r].plan)
<1>1. req[r].plan # <<>> /\ look.do = "through" /\ UNCHANGED records   BY DEF VisitNext, At
<1>2. look \in Plain /\ Rest(r) \in Seq(Plain) /\ look.ids \subseteq Nat
  BY <1>1, HeadsOf, PlainParts
<1>3. PICK i \in Oldest(look.ids) :
         LET org == records[i][1].parent IN
         req' = [req EXCEPT ![r].plan = Then(Head(@).ids \ {i}, "visit", Tail(@)),
                            ![r].answer = IF Latest(org) = Deleted THEN @ ELSE @ \cup {org}]
  BY DEF VisitNext
<1> DEFINE org == records[i][1].parent
           plan == Then(look.ids \ {i}, "visit", Rest(r))
           answer == IF Latest(org) = Deleted THEN req[r].answer ELSE req[r].answer \cup {org}
           new == [req[r] EXCEPT !.plan = plan, !.answer = answer]
<1>4. plan \in Seq(Plain)   BY <1>2, ThenIsPlain DEF Sequels
<1> HIDE DEF plan
<1>5. req' = [req EXCEPT ![r] = new]   BY <1>3 DEF RecInv, plan, Rest
<1>6. Shape(req[r])   BY DEF RecInv
<1> HIDE DEF answer
<1>7. Shape(new) /\ new.plan = plan /\ new.answer = answer /\ new.gone = req[r].gone
  BY <1>6 DEF Shape, Fields
<1> HIDE DEF new
<1>8. ASSUME NEW j \in answer, j \in req[r].gone PROVE j \in req[r].answer \/ records[j][1].kind # "org"
  <2>1. GoneOK(r)   BY DEF RecInv
  <2>2. records[j][1].kind = "org" => Latest(j) = Deleted   BY <1>8, <2>1 DEF GoneOK, IsGone
  <2> QED BY <1>8, <2>2 DEF answer
<1> QED BY <1>1, <1>4, <1>5, <1>7, <1>8, GoesPlain

(* A tombstone keeps the invariant.                                        *)
LEMMA BuryKeeps ==
    ASSUME RecInv, NEW r \in Requests, BuryNext(r)
    PROVE  RecInv'
<1> DEFINE look == Head(req[r].plan)
<1>1. req[r].plan # <<>> /\ look.do = "through"   BY DEF BuryNext, At
<1>2. look \in Plain /\ Rest(r) \in Seq(Plain)   BY <1>1, HeadsOf
<1>3. look.ids \subseteq Nat   BY <1>1, <1>2, PlainParts
<1>4. PICK i \in Oldest(look.ids) :
         /\ records' = [records EXCEPT ![i] = Append(@, Deleted)]
         /\ Go(r, Then(look.ids \ {i}, "bury", Rest(r)))
  BY DEF BuryNext
<1> DEFINE plan == Then(look.ids \ {i}, "bury", Rest(r))
<1>5. plan \in Seq(Plain) /\ Go(r, plan)   BY <1>2, <1>3, <1>4, ThenIsPlain DEF Sequels
<1> HIDE DEF plan
<1>6. CASE i \notin DOMAIN records
  <2>1. records \in Seq(Seq(Events))   BY DEF RecInv, Typed
  <2>2. UNCHANGED records   BY <1>4, <1>6, <2>1
  <2> QED BY <1>5, <2>2, PlanGoesPlain
<1>7. CASE i \in DOMAIN records
  <2>1. /\ Typed' /\ SnapshotsKeepTheirKeys' /\ Grows /\ Latest(i)' \in {Deleted, Latest(i)}
        /\ \A j \in DOMAIN records : j # i => Latest(j)' = Latest(j)
      BY <1>4, <1>7, AppendsEvent DEF Events
  <2> DEFINE new == [req[r] EXCEPT !.plan = plan]
  <2>2. Shape(req[r])   BY DEF RecInv
  <2>3. Shape(new) /\ new.plan = plan /\ new.gone = req[r].gone /\ new.answer = req[r].answer
      BY <2>2 DEF Shape, Fields
  <2>4. req' = [req EXCEPT ![r] = new]   BY <1>5 DEF Go, RecInv
  <2> HIDE DEF new
  <2>5. req'[r] = new /\ \A q \in Requests \ {r} : req'[q] = req[q]   BY <2>4 DEF RecInv
  <2>6. new.plan # <<>> => Head(new.plan).do # "save"
    <3>1. new.plan # <<>> => Head(new.plan) \in Plain   BY <1>5, <2>3
    <3> QED BY <3>1, PlainParts
  <2>7. ASSUME NEW j \in DOMAIN records, IsGone(j) PROVE IsGone(j)'
    <3>1. ~InFlight(j)'   BY <2>5, <2>6, <2>7 DEF IsGone, InFlight, At
    <3> QED BY <2>1, <2>7, <3>1 DEF IsGone
  <2>8. PlanOK(r)'   BY <1>5, <2>3, <2>5 DEF PlanOK
  <2> QED BY <2>1, <2>3, <2>4, <2>7, <2>8, GoesOn DEF StaysGone
<1> QED BY <1>6, <1>7

(* Every step keeps the invariant.                                         *)
LEMMA StepKeeps ==
    ASSUME RecInv, [Next]_vars
    PROVE  RecInv'
<1>1. ASSUME NEW r \in Requests, NEW op \in Ops, Start(r, op) PROVE RecInv'   BY <1>1, StartKeeps
<1>2. ASSUME NEW r \in Requests, RoundTrip(r) PROVE RecInv'
  BY <1>2, CheckKeeps, CreateKeeps, LoadKeeps, SaveKeeps, FindKeeps, ListKeeps, SweepKeeps,
     BuryKeeps, VisitKeeps DEF RoundTrip
<1>3. ASSUME NEW r \in Requests, Answer(r) \/ Fail(r) PROVE RecInv'
  BY <1>3, Ends DEF Answer, Fail
<1>4. CASE TimePasses \/ UNCHANGED vars
  <2>1. UNCHANGED <<records, req>>   BY <1>4 DEF TimePasses, vars
  <2>2. Typed' /\ SnapshotsKeepTheirKeys'   BY <2>1 DEF RecInv, Typed, SnapshotsKeepTheirKeys
  <2>3. ASSUME NEW r \in Requests PROVE Shape(req[r])' /\ PlanOK(r)' /\ GoneOK(r)'
    <3>1. Shape(req[r]) /\ PlanOK(r) /\ GoneOK(r)   BY DEF RecInv
    <3>2. PlanOK(r)'
      <4>1. \A i, field, to : GoodSave(i, field, to) => GoodSave(i, field, to)'   BY <2>1 DEF GoodSave
      <4>2. CASE req[r].plan \in Seq(Plain)   BY <2>1, <4>2 DEF PlanOK
      <4>3. CASE Updating(req[r].plan)   BY <2>1, <4>1, <4>3 DEF PlanOK, Updating
      <4>4. CASE Rewriting(req[r].plan)   BY <2>1, <4>4 DEF PlanOK, Rewriting
      <4>5. CASE Writing(r)
        <5>1. \A i : Holds(r, i) => Holds(r, i)'   BY <2>1 DEF Holds
        <5> QED BY <2>1, <4>1, <4>5, <5>1 DEF PlanOK, Writing
      <4> QED BY <3>1, <4>2, <4>3, <4>4, <4>5 DEF PlanOK
    <3>3. GoneOK(r)'   BY <2>1, <3>1 DEF GoneOK, IsGone, Latest, InFlight, At
    <3> QED BY <2>1, <3>1, <3>2, <3>3
  <2> QED BY <2>1, <2>2, <2>3 DEF RecInv
<1> QED BY <1>1, <1>2, <1>3, <1>4 DEF Next

(* The records keep their invariant in every state.                        *)
LEMMA RecordsInvariant == Spec => []RecInv
<1>1. RecInv /\ [Next]_vars => RecInv'   BY StepKeeps
<1> QED BY <1>1, InitHolds, PTL DEF Spec

-----------------------------------------------------------------------------

(* Whatever updates race on a record, every snapshot keeps the parent and, *)
(* an organization's slug apart, the key it was created with: what the     *)
(* listings, which see only creations, filter by (adapter.rs).             *)
THEOREM RecordsKeepTheirKeys == Spec => []SnapshotsKeepTheirKeys
<1>1. RecInv => SnapshotsKeepTheirKeys   BY DEF RecInv
<1> QED BY <1>1, RecordsInvariant, PTL

(* An update brings a record that reads as deleted back, one whose         *)
(* tombstone is among the Cap events a read asks for, only if it read it   *)
(* before the deletion, the backup codes of a second factor apart          *)
(* (adapter.rs, and client.rs get_latest_raw).                             *)
THEOREM OnlyRacesRevive == Spec => RevivedOnlyByRace
<1>1. ASSUME RecInv
      PROVE  \A r \in Requests : At(r, "save") =>
                 LET i == req[r].id IN
                 Latest(i) = Deleted =>
                     records[i][1].kind = "two_factor" \/ Len(records[i]) > req[r].read
  <2> SUFFICES ASSUME NEW r \in Requests, At(r, "save"), Latest(req[r].id) = Deleted,
                      records[req[r].id][1].kind # "two_factor"
               PROVE  Len(records[req[r].id]) > req[r].read
      OBVIOUS
  <2> DEFINE i == req[r].id
  <2>5. req[r].plan # <<>>   BY DEF At
  <2>6. Writing(r)   BY <1>1, <2>5, HeadsOf
  <2>1. i \in DOMAIN records /\ Holds(r, i)   BY <2>6 DEF Writing
  <2>2. req[r].read \in DOMAIN records[i] /\ records[i][Seen(req[r].read)] # Deleted
      BY <2>1 DEF Holds
  <2>3. Len(records[i]) \in Nat /\ DOMAIN records[i] = 1..Len(records[i])
    <3>1. records \in Seq(Seq(Events))   BY <1>1 DEF RecInv, Typed
    <3>2. records[i] \in Seq(Events)   BY <2>1, <3>1
    <3> QED BY <3>2
  <2>4. req[r].read # Len(records[i])   BY <2>2 DEF Latest, Seen
  <2> QED BY <2>2, <2>3, <2>4
<1>2. RecInv /\ [Next]_vars =>
          [\A r \in Requests : At(r, "save") /\ records' # records /\ req'[r] # req[r] =>
             LET i == req[r].id IN
             Latest(i) = Deleted =>
                 records[i][1].kind = "two_factor" \/ Len(records[i]) > req[r].read]_vars
  BY <1>1
<1> QED BY <1>2, RecordsInvariant, PTL DEF Spec, RevivedOnlyByRace

(* No organization that was deleted for good before a request came in is   *)
(* in the request's answer, although memberships still lead to it          *)
(* (adapter.rs, list_user_organizations).                                  *)
THEOREM GoneStayUnlisted == Spec => []NoDeletedOrgListed
<1>1. RecInv => NoDeletedOrgListed
  BY DEF RecInv, GoneOK, NoDeletedOrgListed, Ids
<1> QED BY <1>1, RecordsInvariant, PTL

-----------------------------------------------------------------------------
(* Creations, listings and cascades.  The events before a request came in  *)
(* are the first of every listing whatever is appended meanwhile, so what  *)
(* a request found or deletes of them stays as it was.                     *)

(* None of the records it could have seen has the key it looked for.       *)
Clear(r) ==
    \E new \in Record :
        /\ req[r].plan = <<Making(new)>> /\ new.kind # "user"
        /\ ~\E i \in 1..req[r].saw : Checked(i, new) /\ i \in Created(new.kind)

CreationOK(r) ==
    \/ req[r].plan \in Seq(Quiet)
    \/ Guarded(req[r].plan) \/ Clear(r)
    \/ Updating(req[r].plan) \/ Rewriting(req[r].plan)
    \/ \E field \in {"val", "expires", "key"}, to \in Targets :
           req[r].plan = <<Save(field, to)>>

Covered(r) ==
    \A i \in 1..req[r].saw :
        /\ i \in Created(req[r].asked.kind)
        /\ records[i][1][req[r].asked.field] = req[r].asked.value
        /\ req[r].asked.then = "pending" => i \in StillOpen({i})
        => i \in req[r].answer

ListOK(r) ==
    req[r].op = "list" =>
        \/ \E look \in Listing : req[r].plan = <<look>>
        \/ req[r].asked \in Listing /\ (req[r].asked.then \in Answers => Covered(r))

(* A request that deletes what belongs to an organization or a user.       *)
Cascading(r) == req[r].op = "delete_org" \/ (req[r].op = "callback" /\ req[r].id # 0)
Swept(r) == IF req[r].op = "delete_org" THEN {"member", "invitation"} ELSE {"session", "account"}
Owner(r) == IF req[r].op = "delete_org" THEN req[r].id ELSE records[req[r].id][1].parent

Erasing(r) ==
    [do : {"through"}, ids : SUBSET Nat, then : {"bury"}]
    \cup [do : {"each"}, kind : Swept(r), field : {"parent"}, value : {Owner(r)}, then : {"bury"}]

CascadeOK(r) ==
    Cascading(r) =>
        /\ req[r].id \in DOMAIN records
        /\ req[r].plan \in Seq(Erasing(r))
        /\ \A i \in Dependents(r) : Tombstoned(i) \/ Pending(r, i)

AllGone(r) == \A i \in Dependents(r) : Tombstoned(i)
(* The user, and the token last.                                           *)
Ending(r) == Then(UserOf(req[r].id), "bury", <<Bury(req[r].id)>>)

CallbackOK(r) ==
    req[r].op = "callback" =>
        \/ req[r].id = 0 /\ \E n \in Names : req[r].plan = HandleDeleteUserCallback(n)
        \/ /\ req[r].id \in Ids("verification")
           /\ AllGone(r) \/ \E first \in Seq(Erasing(r)) : req[r].plan = first \o Ending(r)

SawOK(r) == req[r].saw \in Nat /\ 1..req[r].saw \subseteq DOMAIN records

RequestOK(r) == SawOK(r) /\ CreationOK(r) /\ ListOK(r) /\ CascadeOK(r) /\ CallbackOK(r)

RequestsInv == \A r \in Requests : RequestOK(r)

(* What a plan has yet to delete.                                          *)
Awaits(plan, i) ==
    \E k \in DOMAIN plan :
        LET step == plan[k] IN
        \/ step.do = "each" /\ step.then = "bury" /\ step.kind = records[i][1].kind
        \/ step.do = "through" /\ i \in step.ids

-----------------------------------------------------------------------------
(* Plans as sequences.                                                     *)

(* A sequel put before a plan is of the same stages.                       *)
LEMMA ThenIn ==
    ASSUME NEW S, NEW ids, NEW then, NEW rest \in Seq(S), Through(ids, then) \in S
    PROVE  Then(ids, then, rest) \in Seq(S)
<1>1. <<Through(ids, then)>> \in Seq(S)   OBVIOUS
<1>2. <<Through(ids, then)>> \o rest \in Seq(S)   BY <1>1
<1> QED BY <1>2 DEF Then

(* What a plan awaits, its head or its tail does.                          *)
LEMMA AwaitsHead ==
    ASSUME NEW S, NEW plan \in Seq(S), plan # <<>>, NEW i
    PROVE  Awaits(plan, i) <=> Awaits(<<Head(plan)>>, i) \/ Awaits(Tail(plan), i)
<1>1. Len(plan) \in Nat /\ Len(plan) >= 1 /\ DOMAIN plan = 1..Len(plan) /\ Head(plan) = plan[1]
  OBVIOUS
<1>2. /\ DOMAIN Tail(plan) = 1..(Len(plan) - 1)
      /\ \A k \in DOMAIN Tail(plan) : Tail(plan)[k] = plan[k + 1]
  OBVIOUS
<1>3. DOMAIN <<Head(plan)>> = {1} /\ <<Head(plan)>>[1] = plan[1]   BY <1>1
<1> DEFINE Has(step) == \/ step.do = "each" /\ step.then = "bury" /\ step.kind = records[i][1].kind
                        \/ step.do = "through" /\ i \in step.ids
<1>4. \A p : Awaits(p, i) <=> \E k \in DOMAIN p : Has(p[k])   BY DEF Awaits
<1> HIDE DEF Has
<1>5. \A k \in DOMAIN plan : k = 1 \/ (k - 1 \in DOMAIN Tail(plan) /\ Tail(plan)[k - 1] = plan[k])
  BY <1>1, <1>2
<1>6. \A k \in DOMAIN Tail(plan) : k + 1 \in DOMAIN plan /\ plan[k + 1] = Tail(plan)[k]
  BY <1>1, <1>2
<1>7. 1 \in DOMAIN plan   BY <1>1
<1>8. Awaits(plan, i) => Awaits(<<Head(plan)>>, i) \/ Awaits(Tail(plan), i)
  BY <1>3, <1>4, <1>5
<1>9. Awaits(<<Head(plan)>>, i) \/ Awaits(Tail(plan), i) => Awaits(plan, i)
  BY <1>3, <1>4, <1>6, <1>7
<1> QED BY <1>8, <1>9

(* What two plans await one after the other, one of them does.             *)
LEMMA AwaitsConcat ==
    ASSUME NEW S, NEW a \in Seq(S), NEW b \in Seq(S), NEW i
    PROVE  Awaits(a \o b, i) <=> Awaits(a, i) \/ Awaits(b, i)
<1> DEFINE Has(step) == \/ step.do = "each" /\ step.then = "bury" /\ step.kind = records[i][1].kind
                        \/ step.do = "through" /\ i \in step.ids
<1>1. \A p : Awaits(p, i) <=> \E k \in DOMAIN p : Has(p[k])   BY DEF Awaits
<1> HIDE DEF Has
<1>2. Len(a) \in Nat /\ Len(b) \in Nat /\ DOMAIN a = 1..Len(a) /\ DOMAIN b = 1..Len(b)   OBVIOUS
<1>3. /\ DOMAIN (a \o b) = 1..(Len(a) + Len(b))
      /\ \A k \in 1..Len(a) : (a \o b)[k] = a[k]
      /\ \A k \in 1..Len(b) : (a \o b)[Len(a) + k] = b[k]
  OBVIOUS
<1>4. ASSUME NEW k \in DOMAIN (a \o b), Has((a \o b)[k]) PROVE Awaits(a, i) \/ Awaits(b, i)
  <2>1. CASE k \in 1..Len(a)   BY <1>1, <1>2, <1>3, <1>4, <2>1
  <2>2. CASE k \notin 1..Len(a)
    <3>1. k - Len(a) \in 1..Len(b) /\ k = Len(a) + (k - Len(a))   BY <1>2, <1>3, <2>2
    <3>2. (a \o b)[k] = b[k - Len(a)]   BY <1>3, <3>1
    <3> QED BY <1>1, <1>2, <1>4, <3>1, <3>2
  <2> QED BY <2>1, <2>2
<1>5. ASSUME NEW k \in DOMAIN a, Has(a[k]) PROVE Awaits(a \o b, i)
  <2>1. k \in DOMAIN (a \o b) /\ (a \o b)[k] = a[k]   BY <1>2, <1>3
  <2> QED BY <1>1, <1>5, <2>1
<1>6. ASSUME NEW k \in DOMAIN b, Has(b[k]) PROVE Awaits(a \o b, i)
  <2>1. Len(a) + k \in DOMAIN (a \o b) /\ (a \o b)[Len(a) + k] = b[k]   BY <1>2, <1>3
  <2> QED BY <1>1, <1>6, <2>1
<1> QED BY <1>1, <1>4, <1>5, <1>6

(* What a burial put before a plan awaits is its ids, or the plan's.       *)
LEMMA AwaitsThen ==
    ASSUME NEW S, NEW ids, NEW rest \in Seq(S), Through(ids, "bury") \in S, NEW i
    PROVE  Awaits(Then(ids, "bury", rest), i) <=> i \in ids \/ Awaits(rest, i)
<1>1. CASE ids = {}   BY <1>1 DEF Then
<1>2. CASE ids # {}
  <2>1. <<Through(ids, "bury")>> \in Seq(S)   OBVIOUS
  <2>2. Then(ids, "bury", rest) = <<Through(ids, "bury")>> \o rest   BY <1>2 DEF Then
  <2>3. Awaits(<<Through(ids, "bury")>>, i) <=> i \in ids   BY DEF Awaits, Through
  <2>4. Awaits(<<Through(ids, "bury")>> \o rest, i)
            <=> Awaits(<<Through(ids, "bury")>>, i) \/ Awaits(rest, i)
      BY <2>1, AwaitsConcat
  <2> QED BY <2>2, <2>3, <2>4
<1> QED BY <1>1, <1>2

(* A first part that is not empty gives up its head.                       *)
LEMMA ConcatTail ==
    ASSUME NEW S, NEW a \in Seq(S), NEW b \in Seq(S), a # <<>>
    PROVE  Head(a \o b) = Head(a) /\ Tail(a \o b) = Tail(a) \o b
<1>1. Len(a) \in Nat /\ Len(b) \in Nat /\ Len(a) >= 1   OBVIOUS
<1>2. Head(a \o b) = Head(a)   BY <1>1
<1>3. Tail(a) \in Seq(S) /\ Len(Tail(a)) = Len(a) - 1   OBVIOUS
<1>4. a \o b \in Seq(S) /\ Len(a \o b) = Len(a) + Len(b)   OBVIOUS
<1>5. Tail(a \o b) \in Seq(S) /\ Len(Tail(a \o b)) = Len(a) + Len(b) - 1   BY <1>1, <1>4
<1>6. Tail(a) \o b \in Seq(S) /\ Len(Tail(a) \o b) = Len(a) - 1 + Len(b)   BY <1>3
<1>7. \A k \in 1..(Len(a) + Len(b) - 1) : Tail(a \o b)[k] = (a \o b)[k + 1]   BY <1>1, <1>4
<1>8. \A k \in 1..(Len(a) + Len(b) - 1) : (Tail(a) \o b)[k] = (a \o b)[k + 1]
  <2> SUFFICES ASSUME NEW k \in 1..(Len(a) + Len(b) - 1) PROVE (Tail(a) \o b)[k] = (a \o b)[k + 1]
      OBVIOUS
  <2>1. CASE k <= Len(a) - 1
    <3>1. (Tail(a) \o b)[k] = Tail(a)[k]   BY <1>1, <1>3, <2>1
    <3>2. Tail(a)[k] = a[k + 1]   BY <1>1, <2>1
    <3>3. (a \o b)[k + 1] = a[k + 1]   BY <1>1, <2>1
    <3> QED BY <3>1, <3>2, <3>3
  <2>2. CASE k > Len(a) - 1
    <3>1. (Tail(a) \o b)[k] = b[k - (Len(a) - 1)]   BY <1>1, <1>3, <2>2
    <3>2. (a \o b)[k + 1] = b[k + 1 - Len(a)]   BY <1>1, <2>2
    <3>3. k - (Len(a) - 1) = k + 1 - Len(a)   BY <1>1
    <3> QED BY <3>1, <3>2, <3>3
  <2> QED BY <1>1, <2>1, <2>2
<1>9. \A k \in 1..(Len(a) + Len(b) - 1) : Tail(a \o b)[k] = (Tail(a) \o b)[k]   BY <1>7, <1>8
<1>10. Tail(a \o b) = Tail(a) \o b   BY <1>1, <1>5, <1>6, <1>9
<1> QED BY <1>2, <1>10

-----------------------------------------------------------------------------
(* What the records keep.                                                  *)

UsersStay == Ids("user")' = Ids("user")

(* What has expired stays expired.                                         *)
TimeStays == late => late'

(* An event that was among the first stays so.                             *)
LEMMA CreatedStays ==
    ASSUME RecInv, RecInv', Grows, NEW i \in DOMAIN records, NEW kind
    PROVE  /\ records'[i][1] = records[i][1]
           /\ i \in Ids(kind)' <=> i \in Ids(kind)
           /\ i \in Created(kind)' <=> i \in Created(kind)
<1>1. /\ Len(records) \in Nat /\ DOMAIN records = 1..Len(records)
      /\ Len(records') \in Nat /\ DOMAIN records' = 1..Len(records')
  <2>1. records \in Seq(Seq(Events)) /\ records' \in Seq(Seq(Events))   BY DEF RecInv, Typed
  <2> QED BY <2>1
<1>2. \A j \in DOMAIN records : j \in DOMAIN records' /\ records'[j][1] = records[j][1]
  BY DEF Grows
<1>3. \A j \in DOMAIN records : j \in Ids(kind)' <=> j \in Ids(kind)   BY <1>2 DEF Ids
<1>4. {j \in Ids(kind)' : j < i} = {j \in Ids(kind) : j < i}
  <2>1. Ids(kind) \subseteq DOMAIN records /\ Ids(kind)' \subseteq DOMAIN records'   BY DEF Ids
  <2>2. \A j \in DOMAIN records' : j < i => j \in DOMAIN records   BY <1>1
  <2> QED BY <1>3, <2>1, <2>2
<1>5. i \in Created(kind) <=> i \in Ids(kind) /\ Cardinality({j \in Ids(kind) : j < i}) < Limit
  BY DEF Created
<1>6. i \in Created(kind)' <=> i \in Ids(kind)' /\ Cardinality({j \in Ids(kind)' : j < i}) < Limit
  BY DEF Created
<1> QED BY <1>2, <1>3, <1>4, <1>5, <1>6

(* An invitation that is open was open before.                             *)
LEMMA OpenStays ==
    ASSUME Grows, TimeStays, NEW i \in DOMAIN records
    PROVE  i \in StillOpen({i})' => i \in StillOpen({i})
BY DEF Grows, TimeStays, StillOpen, Expired

(* A tombstone is never taken back.                                        *)
LEMMA TombstonesStay ==
    ASSUME Grows, NEW i \in DOMAIN records, Tombstoned(i)
    PROVE  Tombstoned(i)'
BY DEF Grows, Tombstoned

(* What a cascade is after stays what it was.                              *)
LEMMA DependentsStay ==
    ASSUME RecInv, RecInv', Grows, NEW r \in Requests, SawOK(r), Cascading(r),
           req[r].id \in DOMAIN records,
           req'[r].op = req[r].op, req'[r].id = req[r].id, req'[r].saw = req[r].saw
    PROVE  /\ Dependents(r)' = Dependents(r) /\ Dependents(r) \subseteq DOMAIN records
           /\ Cascading(r)' /\ Owner(r)' = Owner(r) /\ Swept(r)' = Swept(r)
           /\ Erasing(r)' = Erasing(r)
           /\ \A i \in Dependents(r) : /\ records[i][1].kind \in Swept(r)
                                       /\ records[i][1].parent = Owner(r)
                                       /\ i \in Created(records[i][1].kind)
<1>1. 1..req[r].saw \subseteq DOMAIN records   BY DEF SawOK
<1>2. records'[req[r].id][1] = records[req[r].id][1]   BY DEF Grows
<1>3. \A i \in 1..req[r].saw :
         /\ records'[i][1] = records[i][1]
         /\ i \in Created(records[i][1].kind)' <=> i \in Created(records[i][1].kind)
  BY <1>1, CreatedStays
<1>4. Cascading(r)' /\ Owner(r)' = Owner(r) /\ Swept(r)' = Swept(r)
  BY <1>2 DEF Cascading, Owner, Swept
<1>5. Erasing(r)' = Erasing(r)   BY <1>4 DEF Erasing
<1> QED BY <1>1, <1>2, <1>3, <1>4, <1>5 DEF Dependents, Cascading, Owner, Swept

(* What a deletion has to end with stays what it was.                      *)
LEMMA EndingStays ==
    ASSUME RecInv, RecInv', Grows, UsersStay, NEW r \in Requests, req[r].id \in DOMAIN records,
           req'[r].id = req[r].id
    PROVE  Ending(r)' = Ending(r) /\ UserOf(req[r].id)' = UserOf(req[r].id)
<1>1. records'[req[r].id][1] = records[req[r].id][1]   BY DEF Grows
<1>2. Ids("user") \subseteq DOMAIN records   BY DEF Ids
<1>3. \A j \in Ids("user") : records'[j][1].key = records[j][1].key   BY <1>2 DEF Grows
<1>4. UserOf(req[r].id)' = UserOf(req[r].id)   BY <1>1, <1>3 DEF UserOf, UsersStay
<1> QED BY <1>4 DEF Ending

(* Records are numbered from one.                                          *)
LEMMA ZeroIsNoRecord ==
    ASSUME RecInv
    PROVE  0 \notin DOMAIN records /\ \A kind : 0 \notin Ids(kind)
<1>1. records \in Seq(Seq(Events))   BY DEF RecInv, Typed
<1>2. 0 \notin DOMAIN records   BY <1>1
<1> QED BY <1>2 DEF Ids

(* A request nobody moves is still right, whatever the others append.      *)
LEMMA OthersStay ==
    ASSUME RecInv, RecInv', Grows, TimeStays, UsersStay, NEW r \in Requests, RequestOK(r),
           req'[r] = req[r]
    PROVE  RequestOK(r)'
<1>1. 1..req[r].saw \subseteq DOMAIN records /\ DOMAIN records \subseteq DOMAIN records'
  BY DEF RequestOK, SawOK, Grows
<1>2. SawOK(r)'   BY <1>1 DEF RequestOK, SawOK
<1>3. CreationOK(r)'
  <2>1. CreationOK(r)   BY DEF RequestOK
  <2>2. CASE Clear(r)
    <3>1. PICK new \in Record :
              /\ req[r].plan = <<Making(new)>> /\ new.kind # "user"
              /\ ~\E i \in 1..req[r].saw : Checked(i, new) /\ i \in Created(new.kind)
        BY <2>2 DEF Clear
    <3>2. \A i \in 1..req[r].saw : ~(Checked(i, new)' /\ i \in Created(new.kind)')
        BY <1>1, <3>1, CreatedStays DEF Checked
    <3>3. Clear(r)'   BY <3>1, <3>2 DEF Clear
    <3> QED BY <3>3 DEF CreationOK
  <2>3. CASE Updating(req[r].plan)
    <3>1. PICK i \in DOMAIN records, field \in {"val", "expires", "key"}, to \in Targets :
              req[r].plan = <<Load(i), Save(field, to)>> /\ GoodSave(i, field, to)
        BY <2>3 DEF Updating
    <3>2. i \in DOMAIN records' /\ GoodSave(i, field, to)'   BY <3>1 DEF GoodSave, Grows
    <3>3. Updating(req[r].plan)'   BY <3>1, <3>2 DEF Updating
    <3> QED BY <3>3 DEF CreationOK
  <2> QED BY <2>1, <2>2, <2>3 DEF CreationOK, Guarded, Rewriting
<1>4. ListOK(r)'
  <2>1. ListOK(r)   BY DEF RequestOK
  <2>2. Covered(r) => Covered(r)'
    <3> SUFFICES ASSUME Covered(r), NEW i \in 1..req[r].saw, i \in Created(req[r].asked.kind)',
                        records'[i][1][req[r].asked.field] = req[r].asked.value,
                        req[r].asked.then = "pending" => i \in StillOpen({i})'
                 PROVE  i \in req[r].answer
        BY DEF Covered
    <3>1. /\ i \in Created(req[r].asked.kind) /\ records'[i][1] = records[i][1]
          /\ i \in StillOpen({i})' => i \in StillOpen({i})
        BY <1>1, CreatedStays, OpenStays
    <3> QED BY <3>1 DEF Covered
  <2> QED BY <2>1, <2>2 DEF ListOK
<1>5. ASSUME Cascading(r)
      PROVE  /\ CascadeOK(r)' /\ Dependents(r)' = Dependents(r) /\ Erasing(r)' = Erasing(r)
             /\ \A i \in Dependents(r) : Tombstoned(i) => Tombstoned(i)'
  <2>1. /\ req[r].id \in DOMAIN records /\ req[r].plan \in Seq(Erasing(r))
        /\ \A i \in Dependents(r) : Tombstoned(i) \/ Pending(r, i)
      BY <1>5 DEF RequestOK, CascadeOK
  <2>2. /\ Dependents(r)' = Dependents(r) /\ Dependents(r) \subseteq DOMAIN records
        /\ Erasing(r)' = Erasing(r)
      BY <1>5, <2>1, DependentsStay DEF RequestOK
  <2>3. \A i \in Dependents(r) : Tombstoned(i) => Tombstoned(i)'   BY <2>2, TombstonesStay
  <2>4. \A i \in Dependents(r) : Pending(r, i) => Pending(r, i)'
    <3>1. \A i \in Dependents(r) : records'[i][1].kind = records[i][1].kind   BY <2>2 DEF Grows
    <3> QED BY <3>1 DEF Pending
  <2>5. req'[r].id \in DOMAIN records'   BY <1>1, <2>1
  <2> QED BY <2>1, <2>2, <2>3, <2>4, <2>5 DEF CascadeOK
<1>6. CascadeOK(r)'
  <2>1. CASE ~Cascading(r)   BY <2>1 DEF CascadeOK, Cascading
  <2> QED BY <1>5, <2>1
<1>7. 0 \notin Ids("verification")   BY ZeroIsNoRecord
<1>8. CallbackOK(r)'
  <2> SUFFICES ASSUME req[r].op = "callback", req[r].id # 0 PROVE CallbackOK(r)'
      BY <1>7 DEF RequestOK, CallbackOK
  <2>1. Cascading(r)   BY DEF Cascading
  <2>2. /\ req[r].id \in Ids("verification")
        /\ AllGone(r) \/ \E first \in Seq(Erasing(r)) : req[r].plan = first \o Ending(r)
      BY DEF RequestOK, CallbackOK
  <2>3. req[r].id \in DOMAIN records   BY <2>2 DEF Ids
  <2>4. req[r].id \in Ids("verification")'   BY <2>2, <2>3, CreatedStays
  <2>5. AllGone(r) => AllGone(r)'   BY <1>5, <2>1 DEF AllGone
  <2>6. Ending(r)' = Ending(r)   BY <2>3, EndingStays
  <2> QED BY <1>5, <2>1, <2>2, <2>4, <2>5, <2>6 DEF CallbackOK
<1> QED BY <1>2, <1>3, <1>4, <1>6, <1>8 DEF RequestOK

-----------------------------------------------------------------------------
(* What a request that moves comes to.                                     *)

(* What the stages of a quiet plan carry.                                  *)
LEMMA QuietParts ==
    ASSUME NEW s \in Quiet
    PROVE  /\ s.do \in {"through", "each", "find", "sweep"}
           /\ s.do = "each" => s \in Listing
           /\ s.do = "through" => s.ids \subseteq Nat
           /\ s.do = "find" => s.then \in {"erase", "delete_user"}
BY DEF Quiet, Listing

(* What is left of the plan of a creation, by the stage it stands at.      *)
LEMMA StandsAt ==
    ASSUME NEW r \in Requests, CreationOK(r), req[r].plan # <<>>
    PROVE  LET plan == req[r].plan IN
           /\ At(r, "unused") => Guarded(plan)
           /\ At(r, "create") => Clear(r)
           /\ At(r, "find") => plan \in Seq(Quiet) \/ Rewriting(plan)
           /\ At(r, "load") => Updating(plan)
           /\ At(r, "save") => Rest(r) = <<>>
           /\ Head(plan).do \in {"through", "each", "sweep"} => plan \in Seq(Quiet)
           /\ plan \in Seq(Quiet) => Head(plan) \in Quiet /\ Rest(r) \in Seq(Quiet)
<1> DEFINE plan == req[r].plan
<1>1. plan \in Seq(Quiet) => Head(plan) \in Quiet /\ Tail(plan) \in Seq(Quiet)   OBVIOUS
<1>2. plan \in Seq(Quiet) => Head(plan).do \in {"through", "each", "find", "sweep"}
  BY <1>1, QuietParts
<1>3. Guarded(plan) => Head(plan).do = "unused"   BY DEF Guarded, Unused
<1>4. Clear(r) => Head(plan).do = "create"   BY DEF Clear, Making
<1>5. Updating(plan) => Head(plan).do = "load"   BY DEF Updating, Load
<1>6. Rewriting(plan) => Head(plan).do = "find"   BY DEF Rewriting, Find
<1>7. (\E field \in {"val", "expires", "key"}, to \in Targets : plan = <<Save(field, to)>>)
          => Head(plan).do = "save" /\ Tail(plan) = <<>>
  BY DEF Save
<1> QED BY <1>1, <1>2, <1>3, <1>4, <1>5, <1>6, <1>7 DEF CreationOK, At, Rest

(* What a cascade and its lookup stand at.                                 *)
LEMMA CascadeHeads ==
    ASSUME RecInv, NEW r \in Requests, RequestOK(r), req[r].plan # <<>>
    PROVE  /\ Cascading(r) =>
                 /\ Head(req[r].plan) \in Erasing(r) /\ Rest(r) \in Seq(Erasing(r))
                 /\ Head(req[r].plan).do \in {"through", "each"}
                 /\ Head(req[r].plan).then = "bury"
           /\ req[r].op = "callback" /\ ~Cascading(r) => Head(req[r].plan).do = "find"
<1>1. ASSUME Cascading(r)
      PROVE  Head(req[r].plan) \in Erasing(r) /\ Rest(r) \in Seq(Erasing(r))
  <2>1. req[r].plan \in Seq(Erasing(r))   BY <1>1 DEF RequestOK, CascadeOK
  <2> QED BY <2>1 DEF Rest
<1>2. \A s \in Erasing(r) : s.do \in {"through", "each"} /\ s.then = "bury"   BY DEF Erasing
<1>3. ASSUME req[r].op = "callback", req[r].id = 0 PROVE Head(req[r].plan).do = "find"
  <2>1. CASE \E n \in Names : req[r].plan = HandleDeleteUserCallback(n)
      BY <2>1 DEF HandleDeleteUserCallback, Find
  <2>2. req[r].id \notin Ids("verification")   BY <1>3, ZeroIsNoRecord
  <2> QED BY <1>3, <2>1, <2>2 DEF RequestOK, CallbackOK
<1> QED BY <1>1, <1>2, <1>3 DEF Cascading

(* A request that is over.                                                 *)
LEMMA OverIsOK ==
    ASSUME NEW r \in Requests, req'[r] = Idle
    PROVE  RequestOK(r)'
<1>1. /\ Idle.op = "none" /\ Idle.plan = <<>> /\ Idle.saw = 0   BY DEF Idle
<1>2. <<>> \in Seq(Quiet)   OBVIOUS
<1> QED BY <1>1, <1>2 DEF RequestOK, SawOK, CreationOK, ListOK, CascadeOK, CallbackOK, Cascading

(* Round trips that are neither a lookup by field nor part of a cascade.   *)
LEMMA OthersGoOn ==
    ASSUME RecInv, RecInv', Grows, TimeStays, NEW r \in Requests, RequestOK(r), req[r].plan # <<>>,
           Head(req[r].plan).do \in {"unused", "create", "load", "save", "sweep"}
               \/ (Head(req[r].plan).do = "through" /\ Head(req[r].plan).then = "visit"),
           req'[r].op = req[r].op, req'[r].saw = req[r].saw, req'[r].asked = req[r].asked,
           req[r].answer \subseteq req'[r].answer, CreationOK(r)'
    PROVE  RequestOK(r)'
<1>1. 1..req[r].saw \subseteq DOMAIN records /\ DOMAIN records \subseteq DOMAIN records'
  BY DEF RequestOK, SawOK, Grows
<1>2. SawOK(r)'   BY <1>1 DEF RequestOK, SawOK
<1>3. ListOK(r)'
  <2> SUFFICES ASSUME req[r].op = "list" PROVE ListOK(r)'   BY DEF ListOK
  <2>1. \A look \in Listing : look.do = "each"   BY DEF Listing
  <2>2. req[r].asked \in Listing /\ (req[r].asked.then \in Answers => Covered(r))
      BY <2>1 DEF RequestOK, ListOK
  <2>3. Covered(r) => Covered(r)'
    <3> SUFFICES ASSUME Covered(r), NEW i \in 1..req[r].saw, i \in Created(req[r].asked.kind)',
                        records'[i][1][req[r].asked.field] = req[r].asked.value,
                        req[r].asked.then = "pending" => i \in StillOpen({i})'
                 PROVE  i \in req'[r].answer
        BY DEF Covered
    <3>1. /\ i \in Created(req[r].asked.kind) /\ records'[i][1] = records[i][1]
          /\ i \in StillOpen({i})' => i \in StillOpen({i})
        BY <1>1, CreatedStays, OpenStays
    <3> QED BY <3>1 DEF Covered
  <2> QED BY <2>2, <2>3 DEF ListOK
<1>4. req[r].op \notin {"delete_org", "callback"}   BY CascadeHeads DEF Cascading
<1> QED BY <1>2, <1>3, <1>4 DEF RequestOK, CascadeOK, CallbackOK, Cascading

(* A request that comes in: its cascade has everything yet to delete.      *)
LEMMA StartIsOK ==
    ASSUME RecInv, NEW r \in Requests, NEW op \in Ops, Start(r, op)
    PROVE  RequestOK(r)'
<1>1. PICK plan \in Asked(op) :
         req' = [req EXCEPT ![r] = [Idle EXCEPT
                    !.op = op, !.plan = plan, !.saw = Len(records),
                    !.id = IF op = "delete_org" THEN CHOOSE i \in Head(plan).ids : TRUE ELSE 0,
                    !.gone = {i \in DOMAIN records : Latest(i) = Deleted /\ ~InFlight(i)}]]
  BY Zenon DEF Start
<1> DEFINE id == IF op = "delete_org" THEN CHOOSE i \in Head(plan).ids : TRUE ELSE 0
           gone == {i \in DOMAIN records : Latest(i) = Deleted /\ ~InFlight(i)}
           new == Asks(op, plan, Len(records), id, gone)
<1>2. req' = [req EXCEPT ![r] = new]
  <2>1. req' = [req EXCEPT ![r] = Starts(op, plan, Len(records), id, gone)]
      BY <1>1, Zenon DEF Starts
  <2> HIDE DEF id, gone
  <2> QED BY <2>1, Started
<1> HIDE DEF gone
<1>3. new.op = op /\ new.plan = plan /\ new.id = id /\ new.saw = Len(records)   BY DEF Asks
<1> HIDE DEF new, id
<1>4. req'[r] = new /\ records' = records   BY <1>2 DEF RecInv, Start
<1>5. Len(records) \in Nat /\ DOMAIN records = 1..Len(records)
  <2>1. records \in Seq(Seq(Events))   BY DEF RecInv, Typed
  <2> QED BY <2>1
<1>6. SawOK(r)'   BY <1>3, <1>4, <1>5 DEF SawOK
<1>7. \A S : \A s \in S : <<s>> \in Seq(S)   OBVIOUS
<1>8. CASE op = "create"
  <2>1. ASSUME Unguarded(plan) PROVE Clear(r)'
    <3>1. PICK made \in Record : plan = <<Making(made)>> /\ made.kind \in Unchecked
        BY <2>1 DEF Unguarded
    <3> QED BY <1>3, <1>4, <3>1 DEF Clear, Checked, Unchecked
  <2>2. CreationOK(r)'   BY <1>3, <1>4, <1>8, <2>1, AskedFor DEF CreationOK
  <2> QED BY <1>3, <1>4, <1>6, <1>8, <2>2
          DEF RequestOK, ListOK, CascadeOK, CallbackOK, Cascading
<1>9. CASE op = "update"
  <2>1. Updating(plan) => Updating(plan)'   BY <1>4 DEF Updating, GoodSave
  <2>2. CreationOK(r)'   BY <1>3, <1>4, <1>9, <2>1, AskedFor DEF CreationOK, Rewriting
  <2> QED BY <1>3, <1>4, <1>6, <1>9, <2>2
          DEF RequestOK, ListOK, CascadeOK, CallbackOK, Cascading
<1>10. CASE op = "delete"
  <2>1. CreationOK(r)'   BY <1>3, <1>4, <1>10, AskedFor DEF CreationOK
  <2> QED BY <1>3, <1>4, <1>6, <1>10, <2>1
          DEF RequestOK, ListOK, CascadeOK, CallbackOK, Cascading
<1>11. CASE op = "delete_org"
  <2>1. PICK o \in Ids("org") : plan = DeleteOrganization(o)   BY <1>11, AskedFor
  <2>2. o \in Nat /\ {o} \in SUBSET Nat /\ o \in DOMAIN records   BY LookupsFind
  <2> DEFINE members == Each("member", "parent", o, "bury")
             invitations == Each("invitation", "parent", o, "bury")
  <2>3. plan = <<Bury(o), members, invitations>> /\ Head(plan).ids = {o}
      BY <2>1 DEF DeleteOrganization, Bury, Through
  <2>4. id = o   BY <1>11, <2>3 DEF id
  <2>5. Bury(o) \in Quiet /\ members \in Quiet /\ invitations \in Quiet
      BY <2>2 DEF Bury, Through, Each, Quiet, Listing, Kinds, Sequels
  <2>6. plan \in Seq(Quiet)   BY <2>3, <2>5
  <2>7. CreationOK(r)'   BY <1>3, <1>4, <2>6 DEF CreationOK
  <2>8. Bury(o) \in Erasing(r)' /\ members \in Erasing(r)' /\ invitations \in Erasing(r)'
    <3>1. Owner(r)' = o /\ Swept(r)' = {"member", "invitation"}
        BY <1>3, <1>4, <1>11, <2>4 DEF Owner, Swept
    <3> QED BY <2>2, <3>1 DEF Erasing, Bury, Through, Each
  <2>9. plan \in Seq(Erasing(r)')   BY <2>3, <2>8
  <2>10. ASSUME NEW i \in Dependents(r)' PROVE Pending(r, i)'
    <3>1. records'[i][1].kind \in {"member", "invitation"}
        BY <1>3, <1>4, <1>11, <2>10 DEF Dependents
    <3>2. CASE records'[i][1].kind = "member"
      <4>1. 2 \in DOMAIN plan /\ plan[2] = members   BY <2>3
      <4> QED BY <1>3, <1>4, <3>2, <4>1 DEF Pending, Each
    <3>3. CASE records'[i][1].kind = "invitation"
      <4>1. 3 \in DOMAIN plan /\ plan[3] = invitations   BY <2>3
      <4> QED BY <1>3, <1>4, <3>3, <4>1 DEF Pending, Each
    <3> QED BY <3>1, <3>2, <3>3
  <2>11. CascadeOK(r)'   BY <1>3, <1>4, <2>2, <2>4, <2>9, <2>10 DEF CascadeOK
  <2> QED BY <1>3, <1>4, <1>6, <1>11, <2>7, <2>11 DEF RequestOK, ListOK, CallbackOK
<1>12. CASE op = "callback"
  <2>1. PICK n \in Names : plan = HandleDeleteUserCallback(n)   BY <1>12, AskedFor
  <2>2. Find("verification", n, Any, "delete_user") \in Quiet   BY DEF Find, Quiet, Kinds
  <2>3. plan \in Seq(Quiet)   BY <2>1, <2>2 DEF HandleDeleteUserCallback
  <2>4. id = 0   BY <1>12 DEF id
  <2> QED BY <1>3, <1>4, <1>6, <1>12, <2>1, <2>3, <2>4
          DEF RequestOK, CreationOK, ListOK, CascadeOK, CallbackOK, Cascading
<1>13. CASE op = "list"
  <2>1. PICK look \in Listing : plan = <<look>>   BY <1>13, AskedFor
  <2>2. look \in Quiet   BY DEF Quiet
  <2>3. plan \in Seq(Quiet)   BY <2>1, <2>2
  <2> QED BY <1>3, <1>4, <1>6, <1>13, <2>1, <2>3
          DEF RequestOK, CreationOK, ListOK, CascadeOK, CallbackOK, Cascading
<1> QED BY <1>8, <1>9, <1>10, <1>11, <1>12, <1>13 DEF Ops

(* A lookup that found nothing leaves the key free, of what was there.     *)
LEMMA CheckIsOK ==
    ASSUME RecInv, RecInv', Grows, TimeStays, NEW r \in Requests, RequestOK(r), CheckUnused(r)
    PROVE  RequestOK(r)'
<1>1. At(r, "unused") /\ req[r].plan # <<>> /\ UNCHANGED records   BY DEF CheckUnused, At
<1>2. Guarded(req[r].plan)   BY <1>1, StandsAt DEF RequestOK
<1>3. PICK new \in Record, scope \in Names \cup Nat \cup {Any} :
          /\ req[r].plan = <<Unused(new.kind, new.key, scope), Making(new)>>
          /\ new.kind # "user"
          /\ scope = Any \/ (new.kind = "member" /\ scope = new.parent)
  BY <1>2 DEF Guarded
<1>4. Head(req[r].plan) = Unused(new.kind, new.key, scope) /\ Rest(r) = <<Making(new)>>
  BY <1>3 DEF Rest
<1>5. PICK hits \in Found(new.kind, new.key, scope) :
          IF hits # {} THEN End(r) ELSE Go(r, Rest(r))
  BY <1>4 DEF CheckUnused, Unused
<1>6. CASE End(r)
  <2>1. req'[r] = Idle   BY <1>6 DEF End, RecInv
  <2> QED BY <2>1, OverIsOK
<1>7. CASE hits = {} /\ Go(r, Rest(r))
  <2>1. req'[r] = [req[r] EXCEPT !.plan = Rest(r)]   BY <1>7 DEF Go, RecInv
  <2> DEFINE rest == Rest(r)
  <2>2. Shape(req[r])   BY DEF RecInv
  <2> HIDE DEF rest
  <2>3. /\ req'[r].plan = rest /\ req'[r].op = req[r].op /\ req'[r].saw = req[r].saw
        /\ req'[r].asked = req[r].asked /\ req'[r].answer = req[r].answer
      BY <2>1, <2>2 DEF Shape, Fields, rest
  <2>4. ASSUME NEW i \in 1..req[r].saw, Checked(i, new), i \in Created(new.kind) PROVE FALSE
    <3>1. i \in Ids(new.kind)   BY <2>4, LookupsFind
    <3>2. \A ids : i \in ids => i \in Matching(ids, new.kind, new.key, scope)
        BY <1>3, <2>4 DEF Matching, Checked
    <3>3. i \in hits   BY <2>4, <3>1, <3>2 DEF Found
    <3> QED BY <1>7, <3>3
  <2>5. Clear(r)'
    <3>1. \A i \in 1..req[r].saw : ~(Checked(i, new)' /\ i \in Created(new.kind)')
        BY <1>1, <2>4 DEF Checked, Created, Ids
    <3> QED BY <1>3, <1>4, <2>3, <3>1 DEF Clear, rest
  <2>6. CreationOK(r)'   BY <2>5 DEF CreationOK
  <2>7. Head(req[r].plan).do = "unused"   BY <1>1 DEF At
  <2> QED BY <1>1, <2>3, <2>6, <2>7, OthersGoOn
<1> QED BY <1>5, <1>6, <1>7

(* A plan that is cut to its rest.                                         *)
LEMMA RestGoesOn ==
    ASSUME RecInv, RecInv', Grows, TimeStays, NEW r \in Requests, RequestOK(r), req[r].plan # <<>>,
           NEW plan, Go(r, plan), plan \in Seq(Quiet),
           Head(req[r].plan).do \in {"create", "save", "sweep"}
    PROVE  RequestOK(r)'
<1>1. req'[r] = [req[r] EXCEPT !.plan = plan]   BY DEF Go, RecInv
<1>2. Shape(req[r])   BY DEF RecInv
<1>3. /\ req'[r].plan = plan /\ req'[r].op = req[r].op /\ req'[r].saw = req[r].saw
      /\ req'[r].asked = req[r].asked /\ req'[r].answer = req[r].answer
  BY <1>1, <1>2 DEF Shape, Fields
<1>4. CreationOK(r)'   BY <1>3 DEF CreationOK
<1> QED BY <1>3, <1>4, OthersGoOn

(* A request that stores an event, or lists what expired, stays in order.  *)
LEMMA StoreIsOK ==
    ASSUME RecInv, RecInv', Grows, TimeStays, NEW r \in Requests, RequestOK(r),
           Create(r) \/ SaveSnapshot(r) \/ ListExpired(r)
    PROVE  RequestOK(r)'
<1>1. CreationOK(r)   BY DEF RequestOK
<1>2. <<>> \in Seq(Quiet)   OBVIOUS
<1>3. CASE Create(r)
  <2>1. At(r, "create") /\ req[r].plan # <<>> /\ Head(req[r].plan).do = "create" /\ Go(r, Rest(r))
      BY <1>3 DEF Create, At
  <2>2. Clear(r)   BY <1>1, <2>1, StandsAt
  <2>3. Rest(r) = <<>>   BY <2>2 DEF Clear, Rest
  <2> QED BY <1>2, <2>1, <2>3, RestGoesOn
<1>4. CASE SaveSnapshot(r)
  <2>1. At(r, "save") /\ req[r].plan # <<>> /\ Head(req[r].plan).do = "save" /\ Go(r, Rest(r))
      BY <1>4 DEF SaveSnapshot, At
  <2>2. Rest(r) = <<>>   BY <1>1, <2>1, StandsAt
  <2> QED BY <1>2, <2>1, <2>2, RestGoesOn
<1>5. CASE ListExpired(r)
  <2> DEFINE ids == {i \in Created(Head(req[r].plan).kind) : Expired(i)}
  <2>1. req[r].plan # <<>> /\ Head(req[r].plan).do = "sweep" /\ Go(r, Then(ids, "bury", Rest(r)))
      BY <1>5 DEF ListExpired, At
  <2>2. Rest(r) \in Seq(Quiet)   BY <1>1, <2>1, StandsAt
  <2>3. ids \in SUBSET Nat   BY LookupsFind
  <2> HIDE DEF ids
  <2>4. Through(ids, "bury") \in Quiet   BY <2>3 DEF Through, Quiet, Sequels
  <2>5. Then(ids, "bury", Rest(r)) \in Seq(Quiet)   BY <2>2, <2>4, ThenIn
  <2> QED BY <2>1, <2>5, RestGoesOn
<1> QED BY <1>3, <1>4, <1>5

(* A request that loads a record stays in order.                           *)
LEMMA LoadIsOK ==
    ASSUME RecInv, RecInv', Grows, TimeStays, NEW r \in Requests, RequestOK(r), LoadLatest(r)
    PROVE  RequestOK(r)'
<1>1. At(r, "load") /\ req[r].plan # <<>> /\ Head(req[r].plan).do = "load"
  BY DEF LoadLatest, At
<1>2. Updating(req[r].plan)   BY <1>1, StandsAt DEF RequestOK
<1>3. PICK i \in DOMAIN records, field \in {"val", "expires", "key"}, to \in Targets :
         req[r].plan = <<Load(i), Save(field, to)>>
  BY <1>2 DEF Updating
<1>4. Head(req[r].plan).id = i /\ Rest(r) = <<Save(field, to)>>   BY <1>3 DEF Load, Rest
<1>5. CASE End(r)
  <2>1. req'[r] = Idle   BY <1>5 DEF End, RecInv
  <2> QED BY <2>1, OverIsOK
<1>6. CASE req' = [req EXCEPT ![r].plan = Rest(r), ![r].id = i, ![r].held = Latest(i),
                              ![r].read = Len(records[i])]
  <2> DEFINE new == [req[r] EXCEPT !.plan = Rest(r), !.id = i, !.held = Latest(i),
                                   !.read = Len(records[i])]
  <2>1. req'[r] = new   BY <1>6 DEF RecInv
  <2>2. Shape(req[r])   BY DEF RecInv
  <2>3. /\ new.plan = Rest(r) /\ new.op = req[r].op /\ new.saw = req[r].saw
        /\ new.asked = req[r].asked /\ new.answer = req[r].answer
      BY <2>2 DEF Shape, Fields
  <2> HIDE DEF new
  <2>4. CreationOK(r)'   BY <1>4, <2>1, <2>3 DEF CreationOK
  <2> QED BY <1>1, <2>1, <2>3, <2>4, OthersGoOn
<1> QED BY <1>4, <1>5, <1>6 DEF LoadLatest

(* A request that visits the next record stays in order.                   *)
LEMMA VisitIsOK ==
    ASSUME RecInv, RecInv', Grows, TimeStays, NEW r \in Requests, RequestOK(r), VisitNext(r)
    PROVE  RequestOK(r)'
<1> DEFINE look == Head(req[r].plan)
<1>1. req[r].plan # <<>> /\ look.do = "through" /\ look.then = "visit"   BY DEF VisitNext, At
<1>2. look \in Quiet /\ Rest(r) \in Seq(Quiet)   BY <1>1, StandsAt DEF RequestOK
<1>3. look.ids \subseteq Nat   BY <1>1, <1>2, QuietParts
<1>4. PICK i \in Oldest(look.ids) :
         LET org == records[i][1].parent IN
         req' = [req EXCEPT ![r].plan = Then(Head(@).ids \ {i}, "visit", Tail(@)),
                            ![r].answer = IF Latest(org) = Deleted THEN @ ELSE @ \cup {org}]
  BY DEF VisitNext
<1> DEFINE org == records[i][1].parent
           ids == look.ids \ {i}
           plan == Then(ids, "visit", Rest(r))
           answer == IF Latest(org) = Deleted THEN req[r].answer ELSE req[r].answer \cup {org}
           new == [req[r] EXCEPT !.plan = plan, !.answer = answer]
<1>5. Through(ids, "visit") \in Quiet   BY <1>3 DEF Through, Quiet, Sequels
<1>6. plan \in Seq(Quiet)   BY <1>2, <1>5, ThenIn
<1> HIDE DEF plan
<1>7. req'[r] = new   BY <1>4 DEF RecInv, plan, Rest
<1>8. Shape(req[r])   BY DEF RecInv
<1>9. req[r].answer \subseteq answer   OBVIOUS
<1> HIDE DEF answer
<1>10. /\ new.plan = plan /\ new.answer = answer /\ new.op = req[r].op
       /\ new.saw = req[r].saw /\ new.asked = req[r].asked
  BY <1>8 DEF Shape, Fields
<1> HIDE DEF new
<1>11. CreationOK(r)'   BY <1>6, <1>7, <1>10 DEF CreationOK
<1> QED BY <1>1, <1>7, <1>9, <1>10, <1>11, OthersGoOn

(* The user and the token, in that order.                                  *)
LEMMA EndingErases ==
    ASSUME RecInv, NEW r \in Requests, req[r].id \in DOMAIN records
    PROVE  Ending(r) \in Seq(Erasing(r)) /\ UserOf(req[r].id) \in SUBSET Nat
<1>1. UserOf(req[r].id) \in SUBSET Nat /\ {req[r].id} \in SUBSET Nat
  BY LookupsFind DEF UserOf
<1>2. Bury(req[r].id) \in Erasing(r)   BY <1>1 DEF Bury, Through, Erasing
<1>3. Through(UserOf(req[r].id), "bury") \in Erasing(r)   BY <1>1 DEF Through, Erasing
<1>4. <<Bury(req[r].id)>> \in Seq(Erasing(r))   BY <1>2
<1>5. Ending(r) \in Seq(Erasing(r))   BY <1>3, <1>4, ThenIn DEF Ending
<1> QED BY <1>1, <1>5

(* The end of a cascade awaits the user, and the record it began with.     *)
LEMMA EndingAwaits ==
    ASSUME RecInv, NEW r \in Requests, req[r].id \in DOMAIN records, NEW i
    PROVE  Awaits(Ending(r), i) <=> i \in UserOf(req[r].id) \/ i = req[r].id
<1> DEFINE users == UserOf(req[r].id)
           last == <<Bury(req[r].id)>>
<1>1. users \in SUBSET Nat /\ {req[r].id} \in SUBSET Nat   BY LookupsFind DEF UserOf
<1>2. Bury(req[r].id) \in Erasing(r)   BY <1>1 DEF Bury, Through, Erasing
<1>3. Through(users, "bury") \in Erasing(r)   BY <1>1 DEF Through, Erasing
<1>4. last \in Seq(Erasing(r))   BY <1>2
<1>5. Awaits(last, i) <=> i = req[r].id   BY DEF Awaits, Bury, Through
<1>6. Ending(r) = Then(users, "bury", last)   BY DEF Ending
<1> HIDE DEF users, last
<1>7. Awaits(Then(users, "bury", last), i) <=> i \in users \/ Awaits(last, i)
  BY <1>3, <1>4, AwaitsThen
<1> QED BY <1>5, <1>6, <1>7 DEF users

(* The first step of a cascade is done: of what was awaited, something is  *)
(* awaited by what replaces it and the rest has its tombstone.             *)
LEMMA CascadeGoesOn ==
    ASSUME RecInv, RecInv', Grows, UsersStay, NEW r \in Requests, RequestOK(r),
           req[r].plan # <<>>, Cascading(r), NEW ids \in SUBSET Nat,
           req'[r].op = req[r].op, req'[r].id = req[r].id, req'[r].saw = req[r].saw,
           req'[r].plan = Then(ids, "bury", Rest(r)),
           \A i \in Dependents(r) :
               Awaits(<<Head(req[r].plan)>>, i) => i \in ids \/ Tombstoned(i)'
    PROVE  CascadeOK(r)' /\ CallbackOK(r)'
<1>1. /\ req[r].id \in DOMAIN records /\ req[r].plan \in Seq(Erasing(r))
      /\ \A i \in Dependents(r) : Tombstoned(i) \/ Pending(r, i)
  BY DEF RequestOK, CascadeOK
<1>2. /\ Dependents(r)' = Dependents(r) /\ Dependents(r) \subseteq DOMAIN records
      /\ Cascading(r)' /\ Erasing(r)' = Erasing(r)
      /\ \A i \in Dependents(r) : records[i][1].kind \in Swept(r)
  BY <1>1, DependentsStay DEF RequestOK
<1>3. Head(req[r].plan) \in Erasing(r) /\ Rest(r) \in Seq(Erasing(r))   BY CascadeHeads
<1>4. Through(ids, "bury") \in Erasing(r)   BY DEF Erasing, Through
<1>5. \A i \in Dependents(r) : Tombstoned(i) => Tombstoned(i)'   BY <1>2, TombstonesStay
<1>6. CascadeOK(r)'
  <2>1. req'[r].plan \in Seq(Erasing(r))   BY <1>3, <1>4, ThenIn
  <2>2. req'[r].id \in DOMAIN records'   BY <1>1 DEF Grows
  <2>3. ASSUME NEW i \in Dependents(r), ~Tombstoned(i)' PROVE Pending(r, i)'
    <3>1. Awaits(req[r].plan, i)   BY <1>1, <1>5, <2>3 DEF Pending, Awaits
    <3>2. i \in ids \/ Awaits(Rest(r), i)   BY <1>1, <2>3, <3>1, AwaitsHead DEF Rest
    <3>3. Awaits(Then(ids, "bury", Rest(r)), i)   BY <1>3, <1>4, <3>2, AwaitsThen
    <3>4. records'[i][1].kind = records[i][1].kind   BY <1>2 DEF Grows
    <3> HIDE DEF Then
    <3> QED BY <3>3, <3>4 DEF Pending, Awaits
  <2> QED BY <1>2, <2>1, <2>2, <2>3 DEF CascadeOK
<1>7. CallbackOK(r)'
  <2> SUFFICES ASSUME req[r].op = "callback" PROVE CallbackOK(r)'   BY DEF CallbackOK
  <2>1. /\ req[r].id \in Ids("verification")
        /\ AllGone(r) \/ \E first \in Seq(Erasing(r)) : req[r].plan = first \o Ending(r)
      BY DEF Cascading, RequestOK, CallbackOK
  <2>2. req'[r].id \in Ids("verification")'   BY <1>1, <2>1, CreatedStays
  <2>3. AllGone(r) => AllGone(r)'   BY <1>2, <1>5 DEF AllGone
  <2>4. Ending(r)' = Ending(r)   BY <1>1, EndingStays
  <2>5. ASSUME NEW first \in Seq(Erasing(r)), req[r].plan = first \o Ending(r), first # <<>>
        PROVE  \E next \in Seq(Erasing(r)) : req'[r].plan = next \o Ending(r)
    <3>1. Ending(r) \in Seq(Erasing(r))   BY <1>1, EndingErases
    <3>2. Rest(r) = Tail(first) \o Ending(r)   BY <2>5, <3>1, ConcatTail DEF Rest
    <3>3. Tail(first) \in Seq(Erasing(r))   BY <2>5
    <3>4. Then(ids, "bury", Tail(first)) \in Seq(Erasing(r))   BY <1>4, <3>3, ThenIn
    <3>5. Then(ids, "bury", Tail(first) \o Ending(r)) = Then(ids, "bury", Tail(first)) \o Ending(r)
      <4>1. CASE ids = {}   BY <4>1 DEF Then
      <4>2. CASE ids # {}
        <5>1. <<Through(ids, "bury")>> \in Seq(Erasing(r))   BY <1>4
        <5> HIDE DEF Ending
        <5>2. <<Through(ids, "bury")>> \o (Tail(first) \o Ending(r))
                = (<<Through(ids, "bury")>> \o Tail(first)) \o Ending(r)
            BY <3>1, <3>3, <5>1, ConcatAssociative
        <5> QED BY <4>2, <5>2 DEF Then
      <4> QED BY <4>1, <4>2
    <3> QED BY <3>2, <3>4, <3>5
  <2>6. ASSUME req[r].plan = Ending(r) PROVE AllGone(r)
    <3> SUFFICES ASSUME NEW i \in Dependents(r), Pending(r, i) PROVE FALSE
        BY <1>1 DEF AllGone
    <3>1. records[i][1].kind \in {"session", "account"}   BY <1>2 DEF Swept
    <3>2. Awaits(Ending(r), i)   BY <2>6 DEF Pending, Awaits
    <3>3. i \in UserOf(req[r].id) \/ i = req[r].id   BY <1>1, <3>2, EndingAwaits
    <3> QED BY <2>1, <3>1, <3>3 DEF UserOf, Ids
  <2>7. \A first \in Seq(Erasing(r)) :
            req[r].plan = first \o Ending(r) => first # <<>> \/ req[r].plan = Ending(r)
    <3>1. Ending(r) \in Seq(Erasing(r))   BY <1>1, EndingErases
    <3>2. <<>> \o Ending(r) = Ending(r)   BY <3>1
    <3> QED BY <3>2
  <2> QED BY <1>2, <2>1, <2>2, <2>3, <2>4, <2>5, <2>6, <2>7 DEF CallbackOK
<1> QED BY <1>6, <1>7

(* A listing by field covers what was there when the request came in.      *)
LEMMA ListIsOK ==
    ASSUME RecInv, RecInv', Grows, TimeStays, UsersStay, NEW r \in Requests, RequestOK(r), ListEach(r)
    PROVE  RequestOK(r)'
<1> DEFINE look == Head(req[r].plan)
           ids == Having(look.kind, look.field, look.value)
           answer == IF look.then \in Answers THEN Listed(look, ids) ELSE req[r].answer
           plan == IF look.then \in Answers THEN Rest(r) ELSE Then(ids, look.then, Rest(r))
           new == [req[r] EXCEPT !.asked = look, !.answer = answer, !.plan = plan]
<1>1. req[r].plan # <<>> /\ look.do = "each" /\ UNCHANGED records   BY DEF ListEach, At
<1>2. look \in Quiet /\ Rest(r) \in Seq(Quiet)   BY <1>1, StandsAt DEF RequestOK
<1>3. look \in Listing /\ look.then \in Sequels   BY <1>1, <1>2, QuietParts DEF Listing
<1>4. ids \in SUBSET Nat   BY LookupsFind DEF Having
<1>5. Through(ids, look.then) \in Quiet   BY <1>3, <1>4 DEF Through, Quiet
<1>6. plan \in Seq(Quiet)   BY <1>2, <1>5, ThenIn
<1>7. req' = [req EXCEPT ![r] = new]   BY DEF ListEach, RecInv
<1>8. plan = IF look.then \in Answers THEN Rest(r) ELSE Then(ids, look.then, Rest(r))   OBVIOUS
<1>9. look.then \in Answers => answer = Listed(look, ids)   OBVIOUS
<1> HIDE DEF plan, answer
<1>10. req'[r] = new   BY <1>7 DEF RecInv
<1>11. Shape(req[r])   BY DEF RecInv
<1>12. /\ new.plan = plan /\ new.answer = answer /\ new.asked = look
       /\ new.op = req[r].op /\ new.saw = req[r].saw /\ new.id = req[r].id
  BY <1>11 DEF Shape, Fields
<1> HIDE DEF new
<1>13. SawOK(r)'   BY <1>1, <1>10, <1>12 DEF RequestOK, SawOK
<1>14. CreationOK(r)'   BY <1>6, <1>10, <1>12 DEF CreationOK
<1>15. ListOK(r)'
  <2>1. look.then \in Answers => Covered(r)'
    <3> SUFFICES ASSUME look.then \in Answers, NEW i \in 1..req[r].saw,
                        i \in Created(look.kind), records[i][1][look.field] = look.value,
                        look.then = "pending" => i \in StillOpen({i})
                 PROVE  i \in answer
        BY <1>1, <1>10, <1>12 DEF Covered, Created, Ids, StillOpen, Expired, TimeStays
    <3>1. i \in ids   BY DEF Having
    <3> QED BY <1>9, <3>1 DEF Listed, StillOpen
  <2> QED BY <1>3, <1>10, <1>12, <2>1 DEF ListOK
<1>16. CASE Cascading(r)
  <2>1. look \in Erasing(r) /\ look.then = "bury"   BY <1>1, <1>16, CascadeHeads
  <2>2. look.kind \in Swept(r) /\ look.field = "parent" /\ look.value = Owner(r)
      BY <1>1, <2>1 DEF Erasing
  <2>3. req'[r].plan = Then(ids, "bury", Rest(r))   BY <1>10, <1>8, <1>12, <2>1 DEF Answers
  <2>4. ASSUME NEW i \in Dependents(r), Awaits(<<look>>, i) PROVE i \in ids
    <3>1. look.kind = records[i][1].kind   BY <1>1, <2>4 DEF Awaits
    <3>2. records[i][1].parent = Owner(r) /\ i \in Created(records[i][1].kind)
        BY <1>16, <2>4 DEF Dependents, Owner, Cascading
    <3> QED BY <2>2, <3>1, <3>2 DEF Having
  <2> HIDE DEF ids, look
  <2>5. CascadeOK(r)' /\ CallbackOK(r)'
      BY <1>1, <1>4, <1>10, <1>12, <1>16, <2>3, <2>4, CascadeGoesOn DEF look
  <2> QED BY <1>13, <1>14, <1>15, <2>5 DEF RequestOK
<1>17. CASE ~Cascading(r)
  <2>1. req[r].op \notin {"delete_org", "callback"}
      BY <1>1, <1>17, CascadeHeads DEF Cascading
  <2> QED BY <1>10, <1>12, <1>13, <1>14, <1>15, <2>1
          DEF RequestOK, CascadeOK, CallbackOK, Cascading
<1> QED BY <1>16, <1>17

(* A tombstone more.                                                       *)
LEMMA BuryIsOK ==
    ASSUME RecInv, RecInv', Grows, TimeStays, UsersStay, NEW r \in Requests, RequestOK(r), BuryNext(r)
    PROVE  RequestOK(r)'
<1> DEFINE look == Head(req[r].plan)
<1>1. req[r].plan # <<>> /\ look.do = "through" /\ look.then = "bury"   BY DEF BuryNext, At
<1>2. look \in Quiet /\ Rest(r) \in Seq(Quiet)   BY <1>1, StandsAt DEF RequestOK
<1>3. look.ids \subseteq Nat   BY <1>1, <1>2, QuietParts
<1>4. PICK i \in Oldest(look.ids) :
         /\ records' = [records EXCEPT ![i] = Append(@, Deleted)]
         /\ Go(r, Then(look.ids \ {i}, "bury", Rest(r)))
  BY DEF BuryNext
<1> DEFINE ids == look.ids \ {i}
           plan == Then(ids, "bury", Rest(r))
<1>5. ids \in SUBSET Nat /\ Through(ids, "bury") \in Quiet
  BY <1>3 DEF Through, Quiet, Sequels
<1>6. plan \in Seq(Quiet)   BY <1>2, <1>5, ThenIn
<1>7. plan = Then(ids, "bury", Rest(r))   OBVIOUS
<1>8. req'[r] = [req[r] EXCEPT !.plan = plan]   BY <1>4 DEF Go, RecInv
<1> HIDE DEF plan
<1>9. Shape(req[r])   BY DEF RecInv
<1>10. /\ req'[r].plan = plan /\ req'[r].answer = req[r].answer /\ req'[r].asked = req[r].asked
       /\ req'[r].op = req[r].op /\ req'[r].saw = req[r].saw /\ req'[r].id = req[r].id
  BY <1>8, <1>9 DEF Shape, Fields
<1>11. 1..req[r].saw \subseteq DOMAIN records /\ DOMAIN records \subseteq DOMAIN records'
  BY DEF RequestOK, SawOK, Grows
<1>12. SawOK(r)'   BY <1>10, <1>11 DEF RequestOK, SawOK
<1>13. CreationOK(r)'   BY <1>6, <1>10 DEF CreationOK
<1>14. ListOK(r)'
  <2> SUFFICES ASSUME req[r].op = "list" PROVE ListOK(r)'   BY <1>10 DEF ListOK
  <2>1. \A other \in Listing : other.do = "each"   BY DEF Listing
  <2>2. req[r].asked \in Listing /\ (req[r].asked.then \in Answers => Covered(r))
      BY <1>1, <2>1 DEF RequestOK, ListOK
  <2>3. Covered(r) => Covered(r)'
    <3> SUFFICES ASSUME Covered(r), NEW j \in 1..req[r].saw, j \in Created(req[r].asked.kind)',
                        records'[j][1][req[r].asked.field] = req[r].asked.value,
                        req[r].asked.then = "pending" => j \in StillOpen({j})'
                 PROVE  j \in req[r].answer
        BY <1>10 DEF Covered
    <3>1. /\ j \in Created(req[r].asked.kind) /\ records'[j][1] = records[j][1]
          /\ j \in StillOpen({j})' => j \in StillOpen({j})
        BY <1>10, <1>11, CreatedStays, OpenStays
    <3> QED BY <3>1 DEF Covered
  <2> QED BY <1>10, <2>2, <2>3 DEF ListOK
<1>15. CASE Cascading(r)
  <2>1. Dependents(r) \subseteq DOMAIN records   BY <1>11 DEF Dependents
  <2>2. ASSUME NEW j \in Dependents(r), Awaits(<<look>>, j) PROVE j \in ids \/ Tombstoned(j)'
    <3>1. j \in look.ids   BY <1>1, <2>2 DEF Awaits
    <3>2. ASSUME j = i PROVE Tombstoned(j)'
      <4>1. i \in DOMAIN records   BY <2>1, <3>2
      <4>2. records \in Seq(Seq(Events)) /\ records[i] \in Seq(Events)
          BY <4>1 DEF RecInv, Typed
      <4>3. records'[i] = Append(records[i], Deleted)   BY <1>4, <4>1, <4>2
      <4>4. Len(records[i]) + 1 \in DOMAIN records'[i] /\ records'[i][Len(records[i]) + 1] = Deleted
          BY <4>2, <4>3
      <4> QED BY <3>2, <4>4 DEF Tombstoned
    <3> QED BY <3>1, <3>2
  <2> HIDE DEF ids, look
  <2>3. CascadeOK(r)' /\ CallbackOK(r)'
      BY <1>1, <1>5, <1>7, <1>10, <1>15, <2>2, CascadeGoesOn DEF look
  <2> QED BY <1>12, <1>13, <1>14, <2>3 DEF RequestOK
<1>16. CASE ~Cascading(r)
  <2>1. req[r].op \notin {"delete_org", "callback"}
      BY <1>1, <1>16, CascadeHeads DEF Cascading
  <2> QED BY <1>10, <1>12, <1>13, <1>14, <2>1
          DEF RequestOK, CascadeOK, CallbackOK, Cascading
<1> QED BY <1>15, <1>16

(* The callback has found its token: all it is to delete is ahead of it.   *)
LEMMA FindIsOK ==
    ASSUME RecInv, RecInv', Grows, TimeStays, UsersStay, NEW r \in Requests, RequestOK(r), FindCreated(r)
    PROVE  RequestOK(r)'
<1> DEFINE look == Head(req[r].plan)
<1>1. At(r, "find") /\ req[r].plan # <<>> /\ look.do = "find" /\ UNCHANGED records
  BY DEF FindCreated, At
<1>2. PICK hits \in Found(look.kind, look.key, look.parent) :
         \/ hits = {} /\ End(r)
         \/ \E i \in Oldest(hits) :
              req' = [req EXCEPT ![r].plan = Followed(look, i, Rest(r)), ![r].id = i,
                                 ![r].held = records[i][1]]
  BY DEF FindCreated
<1>3. CASE End(r)
  <2>1. req'[r] = Idle   BY <1>3 DEF End, RecInv
  <2> QED BY <2>1, OverIsOK
<1>4. ASSUME NEW i \in Oldest(hits),
             req' = [req EXCEPT ![r].plan = Followed(look, i, Rest(r)), ![r].id = i,
                                ![r].held = records[i][1]]
      PROVE  RequestOK(r)'
  <2> DEFINE plan == Followed(look, i, Rest(r))
             new == [req[r] EXCEPT !.plan = plan, !.id = i, !.held = records[i][1]]
  <2>1. i \in DOMAIN records /\ records[i][1].kind = look.kind   BY LookupsFind
  <2>2. i \in Nat /\ {i} \in SUBSET Nat /\ records[i][1] \in Record   BY <2>1, LookupsFind DEF RecInv, Typed
  <2> DEFINE user == records[i][1].parent
  <2>3. user \in Names \cup Nat   BY <2>2 DEF Record
  <2>4. Bury(i) \in Quiet /\ <<Bury(i)>> \in Seq(Quiet)
    <3>1. Bury(i) \in Quiet   BY <2>2 DEF Bury, Through, Quiet, Sequels
    <3> QED BY <3>1
  <2> HIDE DEF plan
  <2>5. req'[r] = new   BY <1>4 DEF RecInv, plan
  <2>6. Shape(req[r])   BY DEF RecInv
  <2>7. /\ new.plan = plan /\ new.id = i /\ new.op = req[r].op /\ new.saw = req[r].saw
        /\ new.asked = req[r].asked /\ new.answer = req[r].answer
      BY <2>6 DEF Shape, Fields
  <2> HIDE DEF new
  <2>8. SawOK(r)'   BY <1>1, <2>5, <2>7 DEF RequestOK, SawOK
  <2>9. ListOK(r)'
    <3> SUFFICES ASSUME req[r].op = "list" PROVE ListOK(r)'   BY <2>5, <2>7 DEF ListOK
    <3>1. \A other \in Listing : other.do = "each"   BY DEF Listing
    <3>2. req[r].asked \in Listing /\ (req[r].asked.then \in Answers => Covered(r))
        BY <1>1, <3>1 DEF RequestOK, ListOK
    <3>3. Covered(r) => Covered(r)'
        BY <1>1, <2>5, <2>7 DEF Covered, Created, Ids, StillOpen, Expired, TimeStays
    <3> QED BY <2>5, <2>7, <3>2, <3>3 DEF ListOK
  <2>10. ~Cascading(r)   BY <1>1, CascadeHeads
  <2>11. req[r].plan \in Seq(Quiet) \/ Rewriting(req[r].plan)   BY <1>1, StandsAt DEF RequestOK
  <2>12. CASE look.then = "delete_user"
    <3> DEFINE sessions == Each("session", "parent", user, "bury")
               accounts == Each("account", "parent", user, "bury")
               ending == Then(UserOf(i), "bury", <<Bury(i)>>)
    <3>1. plan = <<sessions, accounts>> \o ending   BY <2>12 DEF plan, Followed
    <3>2. sessions \in Quiet /\ accounts \in Quiet
        BY <2>3 DEF Each, Quiet, Listing, Sequels, Kinds
    <3>3. UserOf(i) \in SUBSET Nat   BY LookupsFind DEF UserOf
    <3>4. ending \in Seq(Quiet)
      <4>1. Through(UserOf(i), "bury") \in Quiet   BY <3>3 DEF Through, Quiet, Sequels
      <4> QED BY <2>4, <4>1, ThenIn
    <3>5. Ending(r)' = ending
      <4>1. UserOf(i)' = UserOf(i)   BY <1>1 DEF UserOf, Ids
      <4> QED BY <2>5, <2>7, <4>1 DEF Ending
    <3> HIDE DEF ending
    <3>6. <<sessions, accounts>> \in Seq(Quiet)   BY <3>2
    <3>7. CreationOK(r)'   BY <2>5, <2>7, <3>1, <3>4, <3>6 DEF CreationOK
    <3>8. CASE req[r].op = "callback"
      <4>1. Cascading(r)' /\ Swept(r)' = {"session", "account"} /\ Owner(r)' = user
        <5>1. i # 0   BY <2>1, ZeroIsNoRecord
        <5> QED BY <1>1, <2>5, <2>7, <3>8, <5>1 DEF Cascading, Swept, Owner
      <4>2. sessions \in Erasing(r)' /\ accounts \in Erasing(r)'   BY <4>1 DEF Erasing, Each
      <4>3. <<sessions, accounts>> \in Seq(Erasing(r)')   BY <4>2
      <4>4. Ending(r)' \in Seq(Erasing(r)')
        <5>1. Bury(i) \in Erasing(r)'   BY <2>2 DEF Erasing, Bury, Through
        <5>2. Through(UserOf(i), "bury") \in Erasing(r)'   BY <3>3 DEF Erasing, Through
        <5>3. <<Bury(i)>> \in Seq(Erasing(r)')   BY <5>1
        <5> QED BY <3>5, <5>2, <5>3, ThenIn DEF ending
      <4>5. plan \in Seq(Erasing(r)')   BY <3>1, <3>5, <4>3, <4>4
      <4>6. ASSUME NEW j \in Dependents(r)' PROVE Pending(r, j)'
        <5>1. records'[j][1].kind \in {"session", "account"}
            BY <2>5, <2>7, <3>8, <4>6 DEF Dependents
        <5>2. 1 \in DOMAIN plan /\ 2 \in DOMAIN plan /\ plan[1] = sessions /\ plan[2] = accounts
            BY <3>1, <3>4, <3>6
        <5>3. \E k \in DOMAIN plan : plan[k].do = "each" /\ plan[k].then = "bury"
                                       /\ plan[k].kind = records'[j][1].kind
            BY <5>1, <5>2 DEF Each
        <5> QED BY <2>5, <2>7, <5>3 DEF Pending
      <4>7. CascadeOK(r)'   BY <1>1, <2>1, <2>5, <2>7, <4>5, <4>6 DEF CascadeOK
      <4>8. i \in Ids("verification")
        <5>1. req[r].id = 0   BY <2>10, <3>8 DEF Cascading
        <5>2. PICK n \in Names : req[r].plan = HandleDeleteUserCallback(n)
            BY <3>8, <5>1, ZeroIsNoRecord DEF RequestOK, CallbackOK
        <5>3. look.kind = "verification"   BY <5>2 DEF HandleDeleteUserCallback, Find
        <5> QED BY <2>1, <5>3 DEF Ids
      <4>9. CallbackOK(r)'
        <5>1. i \in Ids("verification")'   BY <1>1, <4>8 DEF Ids
        <5>2. plan = <<sessions, accounts>> \o Ending(r)'   BY <3>1, <3>5
        <5> QED BY <2>5, <2>7, <4>3, <5>1, <5>2 DEF CallbackOK
      <4> QED BY <2>8, <2>9, <3>7, <4>7, <4>9 DEF RequestOK
    <3>9. CASE req[r].op # "callback"
      BY <2>5, <2>7, <2>8, <2>9, <2>10, <3>7, <3>9
         DEF RequestOK, CascadeOK, CallbackOK, Cascading
    <3> QED BY <3>8, <3>9
  <2>13. CASE look.then # "delete_user"
    <3>1. CreationOK(r)'
      <4>1. CASE req[r].plan \in Seq(Quiet)
        <5>1. look \in Quiet   BY <1>1, <4>1, StandsAt DEF RequestOK
        <5>2. look.then = "erase"   BY <1>1, <2>13, <5>1, QuietParts
        <5>3. plan = <<Bury(i)>>   BY <5>2 DEF plan, Followed
        <5> QED BY <2>4, <2>5, <2>7, <5>3 DEF CreationOK
      <4>2. CASE Rewriting(req[r].plan)
        <5>1. PICK name \in Names :
                  req[r].plan = <<Find("two_factor", name, Any, "rewrite"), Save("val", "next")>>
            BY <4>2 DEF Rewriting
        <5>2. look.then = "rewrite" /\ Rest(r) = <<Save("val", "next")>>   BY <5>1 DEF Find, Rest
        <5>3. plan = <<Save("val", "next")>>   BY <5>2 DEF plan, Followed
        <5> QED BY <2>5, <2>7, <5>3 DEF CreationOK, Targets
      <4> QED BY <2>11, <4>1, <4>2
    <3>2. req[r].op # "callback"
      <4> SUFFICES ASSUME req[r].op = "callback" PROVE FALSE   OBVIOUS
      <4>1. req[r].id = 0   BY <2>10 DEF Cascading
      <4>2. PICK n \in Names : req[r].plan = HandleDeleteUserCallback(n)
          BY <4>1, ZeroIsNoRecord DEF RequestOK, CallbackOK
      <4> QED BY <2>13, <4>2 DEF HandleDeleteUserCallback, Find
    <3> QED BY <2>5, <2>7, <2>8, <2>9, <2>10, <3>1, <3>2
            DEF RequestOK, CascadeOK, CallbackOK, Cascading
  <2> QED BY <2>12, <2>13
<1> QED BY <1>2, <1>3, <1>4

-----------------------------------------------------------------------------
(* Every step.                                                             *)

(* Streams grow, and no user comes with them.                              *)
LEMMA StepGrows ==
    ASSUME RecInv, RequestsInv, [Next]_vars
    PROVE  Grows /\ UsersStay
<1>1. CASE UNCHANGED records   BY <1>1 DEF Grows, UsersStay, Ids
<1>2. ASSUME NEW r \in Requests, Create(r) PROVE Grows /\ UsersStay
  <2>1. At(r, "create") /\ req[r].plan # <<>>   BY <1>2 DEF Create, At
  <2>2. PICK new \in Record : req[r].plan = <<Making(new)>> /\ new.kind # "user"
      BY <2>1, StandsAt DEF RequestsInv, RequestOK, Clear
  <2>3. records' = Append(records, <<new>>)   BY <1>2, <2>2 DEF Create, Making
  <2>4. records \in Seq(Seq(Events)) /\ <<new>> \in Seq(Events)
      BY DEF RecInv, Typed, Events
  <2>5. /\ DOMAIN records' = DOMAIN records \cup {Len(records) + 1}
        /\ records'[Len(records) + 1] = <<new>>
        /\ \A i \in DOMAIN records : records'[i] = records[i]
      BY <2>3, <2>4
  <2> QED BY <2>2, <2>5 DEF Grows, UsersStay, Ids
<1>3. ASSUME NEW i, NEW e \in Events, records' = [records EXCEPT ![i] = Append(@, e)]
      PROVE  Grows /\ UsersStay
  <2>1. records \in Seq(Seq(Events))   BY DEF RecInv, Typed
  <2>2. \A j \in DOMAIN records : Len(records[j]) >= 1   BY DEF RecInv, Typed
  <2>3. DOMAIN records' = DOMAIN records
        /\ \A j \in DOMAIN records : records'[j] = IF j = i THEN Append(records[j], e) ELSE records[j]
      BY <1>3, <2>1
  <2>4. ASSUME NEW j \in DOMAIN records
        PROVE  /\ records'[j][1] = records[j][1]
               /\ \A k \in DOMAIN records[j] : k \in DOMAIN records'[j] /\ records'[j][k] = records[j][k]
    <3>1. records[j] \in Seq(Events) /\ Len(records[j]) >= 1   BY <2>1, <2>2
    <3>2. /\ \A k \in DOMAIN records[j] :
                k \in DOMAIN Append(records[j], e) /\ Append(records[j], e)[k] = records[j][k]
          /\ 1 \in DOMAIN records[j]
        BY <3>1
    <3> QED BY <2>3, <3>2
  <2> QED BY <2>3, <2>4 DEF Grows, UsersStay, Ids
<1>4. ASSUME NEW r \in Requests, BuryNext(r) PROVE Grows /\ UsersStay
  <2>1. \E i : records' = [records EXCEPT ![i] = Append(@, Deleted)]   BY <1>4 DEF BuryNext
  <2> QED BY <1>3, <2>1 DEF Events
<1>5. ASSUME NEW r \in Requests, SaveSnapshot(r) PROVE Grows /\ UsersStay
  <2> DEFINE e == [req[r].held EXCEPT ![Head(req[r].plan).field] = Head(req[r].plan).to]
  <2>1. records' = [records EXCEPT ![req[r].id] = Append(@, e)]   BY <1>5 DEF SaveSnapshot
  <2>2. e \in Events   BY <1>5, SavesEvents
  <2> HIDE DEF e
  <2> QED BY <1>3, <2>1, <2>2
<1> QED BY <1>1, <1>2, <1>4, <1>5
        DEF Next, RoundTrip, Start, Answer, Fail, CheckUnused, LoadLatest, FindCreated, ListEach,
            ListExpired, VisitNext, TimePasses, vars

(* Time does not go back.                                                  *)
LEMMA TimeOnlyPasses ==
    ASSUME [Next]_vars
    PROVE  TimeStays
<1>1. ASSUME NEW r \in Requests, NEW op, Start(r, op) \/ RoundTrip(r) \/ Answer(r) \/ Fail(r)
      PROVE  late' = late
  BY <1>1 DEF Start, RoundTrip, Answer, Fail, CheckUnused, Create, LoadLatest, SaveSnapshot,
      FindCreated, ListEach, ListExpired, BuryNext, VisitNext
<1>2. ASSUME TimePasses \/ UNCHANGED vars PROVE TimeStays   BY <1>2 DEF TimePasses, TimeStays, vars
<1> QED BY <1>1, <1>2 DEF Next, TimeStays

(* One request moves at a time.                                            *)
LEMMA StartMovesOne ==
    ASSUME RecInv, NEW q \in Requests, NEW op, Start(q, op)
    PROVE  \A r \in Requests : r # q => req'[r] = req[r]
<1>1. \E new : req' = [req EXCEPT ![q] = new]   BY Zenon DEF Start
<1> QED BY <1>1 DEF RecInv

(* A round trip is of one request.                                         *)
LEMMA RoundTripMovesOne ==
    ASSUME RecInv, NEW q \in Requests, RoundTrip(q)
    PROVE  \A r \in Requests : r # q => req'[r] = req[r]
<1>1. CASE CheckUnused(q) \/ Create(q) \/ SaveSnapshot(q) \/ ListExpired(q) \/ BuryNext(q)
  <2>1. \E new : req' = [req EXCEPT ![q] = new] \/ req' = [req EXCEPT ![q].plan = new]
      BY <1>1 DEF CheckUnused, Create, SaveSnapshot, ListExpired, BuryNext, End, Go
  <2> QED BY <2>1 DEF RecInv
<1>2. CASE LoadLatest(q)
  <2>1. \E a, b, c, d : \/ req' = [req EXCEPT ![q] = Idle]
                        \/ req' = [req EXCEPT ![q].plan = a, ![q].id = b, ![q].held = c, ![q].read = d]
      BY <1>2 DEF LoadLatest, End
  <2> QED BY <2>1 DEF RecInv
<1>3. CASE FindCreated(q)
  <2>1. \E a, b, c : \/ req' = [req EXCEPT ![q] = Idle]
                     \/ req' = [req EXCEPT ![q].plan = a, ![q].id = b, ![q].held = c]
      BY <1>3 DEF FindCreated, End
  <2> QED BY <2>1 DEF RecInv
<1>4. CASE ListEach(q)   BY <1>4 DEF ListEach, RecInv
<1>5. CASE VisitNext(q)   BY <1>5 DEF VisitNext, RecInv
<1> QED BY <1>1, <1>2, <1>3, <1>4, <1>5 DEF RoundTrip

(* Every step keeps the requests in order.                                 *)
LEMMA RequestsGoOn ==
    ASSUME RecInv, RequestsInv, [Next]_vars
    PROVE  RequestsInv'
<1>1. RecInv'   BY StepKeeps
<1>2. Grows /\ UsersStay /\ TimeStays   BY StepGrows, TimeOnlyPasses
<1>3. ASSUME NEW r \in Requests, req'[r] = req[r] PROVE RequestOK(r)'
  BY <1>1, <1>2, <1>3, OthersStay DEF RequestsInv
<1>4. ASSUME NEW q \in Requests, RequestOK(q)', \A r \in Requests : r # q => req'[r] = req[r]
      PROVE  RequestsInv'
  BY <1>3, <1>4 DEF RequestsInv
<1>5. ASSUME NEW q \in Requests, NEW op \in Ops, Start(q, op) PROVE RequestsInv'
  <2>1. \A r \in Requests : r # q => req'[r] = req[r]   BY <1>5, StartMovesOne
  <2> QED BY <1>4, <1>5, <2>1, StartIsOK
<1>6. ASSUME NEW q \in Requests, Answer(q) \/ Fail(q) PROVE RequestsInv'
  <2>1. req' = [req EXCEPT ![q] = Idle]   BY <1>6 DEF Answer, Fail, End
  <2>2. req'[q] = Idle /\ \A r \in Requests : r # q => req'[r] = req[r]   BY <2>1 DEF RecInv
  <2> QED BY <1>4, <2>2, OverIsOK
<1>7. ASSUME NEW q \in Requests, RoundTrip(q) PROVE RequestsInv'
  <2>1. RequestOK(q)   BY DEF RequestsInv
  <2>2. RequestOK(q)'
    BY <1>1, <1>2, <1>7, <2>1, CheckIsOK, StoreIsOK, LoadIsOK, FindIsOK, ListIsOK, BuryIsOK,
       VisitIsOK DEF RoundTrip
  <2>3. \A r \in Requests : r # q => req'[r] = req[r]   BY <1>7, RoundTripMovesOne
  <2> QED BY <1>4, <2>2, <2>3
<1>8. CASE TimePasses \/ UNCHANGED vars
  BY <1>3, <1>8 DEF RequestsInv, TimePasses, vars
<1> QED BY <1>5, <1>6, <1>7, <1>8 DEF Next

(* The records and the requests keep their invariants in every state.      *)
LEMMA RequestsInvariant == Spec => [](RecInv /\ RequestsInv)
<1>1. Init => RequestsInv
  <2> SUFFICES ASSUME Init, NEW r \in Requests PROVE RequestOK(r)   BY DEF RequestsInv
  <2>1. req[r].op = "none" /\ req[r].plan = <<>> /\ req[r].saw = 0   BY DEF Init, Idle
  <2>2. <<>> \in Seq(Quiet)   OBVIOUS
  <2> QED BY <2>1, <2>2
          DEF RequestOK, SawOK, CreationOK, ListOK, CascadeOK, CallbackOK, Cascading
<1>2. RecInv /\ RequestsInv /\ [Next]_vars => RecInv' /\ RequestsInv'
  BY StepKeeps, RequestsGoOn
<1> QED BY <1>1, <1>2, InitHolds, PTL DEF Spec

-----------------------------------------------------------------------------

(* Every member and invitation of an organization that is being deleted,   *)
(* every session and account of a user whose deletion was confirmed, has   *)
(* its tombstone or is still to get it, whatever is created or fails       *)
(* meanwhile, of those that were there when the request came in and within *)
(* Core's limit (adapter.rs delete_organization, the deletion callback).   *)
THEOREM NothingIsMissed == Spec => []CascadesMissNothing
<1>1. RecInv /\ RequestsInv => CascadesMissNothing
  <2> SUFFICES ASSUME RequestsInv, NEW r \in Requests, req[r].id # 0, NEW i \in Dependents(r)
               PROVE  Tombstoned(i) \/ Pending(r, i)
      BY DEF CascadesMissNothing
  <2>1. Cascading(r)   BY DEF Dependents, Cascading
  <2> QED BY <2>1 DEF RequestsInv, RequestOK, CascadeOK
<1> QED BY <1>1, RequestsInvariant, PTL

(* Until the user's sessions and accounts are gone the deletion callback   *)
(* has touched neither the user nor the token that lets it be asked again  *)
(* (better-auth's delete-user callback over adapter.rs).                   *)
THEOREM UserIsLast == Spec => []CallbackEndsWithTheUser
<1>1. RecInv /\ RequestsInv => CallbackEndsWithTheUser
  <2> SUFFICES ASSUME RecInv, RequestsInv, NEW r \in Requests,
                      req[r].op = "callback", req[r].id # 0, ~AllGone(r),
                      NEW i \in {req[r].id} \cup UserOf(req[r].id)
               PROVE  Pending(r, i)
      BY DEF CallbackEndsWithTheUser, AllGone
  <2>1. req[r].id \in DOMAIN records   BY DEF RequestsInv, RequestOK, CascadeOK, Cascading
  <2>2. PICK first \in Seq(Erasing(r)) : req[r].plan = first \o Ending(r)
      BY DEF RequestsInv, RequestOK, CallbackOK
  <2>3. Ending(r) \in Seq(Erasing(r))   BY <2>1, EndingErases
  <2>4. Awaits(Ending(r), i)   BY <2>1, EndingAwaits
  <2>5. Awaits(first \o Ending(r), i)   BY <2>3, <2>4, AwaitsConcat
  <2> QED BY <2>2, <2>5 DEF Pending, Awaits
<1> QED BY <1>1, RequestsInvariant, PTL

(* A listing by field sees creations only, yet no record that is live to a *)
(* read and has the value is missing from it, within the limit: what is    *)
(* filtered by is never rewritten.  A user's invitations come without the  *)
(* expired ones (adapter.rs list_user_invitations and the other callers of *)
(* find_all_by_field).                                                     *)
THEOREM ListingsAreWhole == Spec => []ListingsCoverTheLive
<1>1. RecInv /\ RequestsInv => ListingsCoverTheLive
  <2> SUFFICES ASSUME RecInv, RequestsInv, NEW r \in Requests,
                      req[r].op = "list", req[r].plan = <<>>, req[r].asked.then \in Answers,
                      NEW i \in 1..req[r].saw,
                      Latest(i) # Deleted, Latest(i).kind = req[r].asked.kind,
                      Latest(i)[req[r].asked.field] = req[r].asked.value,
                      req[r].asked.then = "pending" => i \in StillOpen({i}),
                      i \in Created(req[r].asked.kind)
               PROVE  i \in req[r].answer
      BY DEF ListingsCoverTheLive
  <2>1. req[r].asked \in Listing /\ Covered(r)
    <3>1. \A look : req[r].plan # <<look>>   OBVIOUS
    <3> QED BY <3>1 DEF RequestsInv, RequestOK, ListOK
  <2>2. req[r].asked.kind # "org" /\ req[r].asked.field \in {"key", "parent"}
      BY <2>1 DEF Listing
  <2>3. i \in DOMAIN records   BY DEF RequestsInv, RequestOK, SawOK
  <2>4. Seen(Len(records[i])) \in DOMAIN records[i] /\ Latest(i) = records[i][Seen(Len(records[i]))]
      BY <2>3, LatestIsSeen DEF RecInv
  <2>5. /\ Latest(i).parent = records[i][1].parent
        /\ Latest(i).kind # "org" => Latest(i).key = records[i][1].key
      BY <2>3, <2>4 DEF RecInv, SnapshotsKeepTheirKeys
  <2>6. records[i][1][req[r].asked.field] = req[r].asked.value   BY <2>2, <2>5
  <2> QED BY <2>1, <2>6 DEF Covered
<1> QED BY <1>1, RequestsInvariant, PTL

(* Two records share a slug, a membership, a second factor's user, an api  *)
(* key's hash or a passkey's credential only if their creations overlapped *)
(* or the earlier one lies past Core's limit (the checks before the        *)
(* creations in adapter.rs).                                               *)
THEOREM KeysClashOnlyByRace == Spec => SameKeyOnlyByRace
<1> DEFINE Free(r) == ~\E i \in 1..req[r].saw :
                          /\ Checked(i, Head(req[r].plan).record)
                          /\ i \in Created(Head(req[r].plan).record.kind)
<1>1. ASSUME RecInv, RequestsInv, NEW r \in Requests, At(r, "create") PROVE Free(r)
  <2>1. req[r].plan # <<>>   BY <1>1 DEF At
  <2>2. Clear(r)   BY <1>1, <2>1, StandsAt DEF RequestsInv, RequestOK
  <2>3. PICK new \in Record :
            /\ req[r].plan = <<Making(new)>>
            /\ ~\E i \in 1..req[r].saw : Checked(i, new) /\ i \in Created(new.kind)
      BY <2>2 DEF Clear
  <2>4. Head(req[r].plan).record = new   BY <2>3 DEF Making
  <2> QED BY <2>3, <2>4
<1> HIDE DEF Free
<1>2. RecInv /\ RequestsInv =>
          \A r \in Requests : At(r, "create") /\ records' # records /\ req'[r] # req[r] => Free(r)
  BY <1>1
<1>3. RecInv /\ RequestsInv /\ [Next]_vars =>
          [\A r \in Requests :
             At(r, "create") /\ records' # records /\ req'[r] # req[r] => Free(r)]_vars
  BY <1>2
<1> QED BY <1>3, RequestsInvariant, PTL DEF Spec, SameKeyOnlyByRace, Free

=============================================================================
