# A verification project for rust-v2

TLA+ modules, TLC configurations and TLAPS proofs for rust-v2: an API process
that keeps everything it knows in AllSource Core, an append-only event store,
serves it back through folds and a projection, and is used from a browser
application; with the widgets and the tooling around it. The texts of posts,
e-mails and pages are not modelled; what is written where, in which order, and
what a crash, a lost answer or another request does in between, is.

## The system

| Part | State it keeps | Operations | Talks to |
|---|---|---|---|
| Post fold (`folders.rs`, `tenant_query.rs`) | none: a fold of one stream | apply, finalize, fold one entity | called by the handlers and the worker |
| Projection worker `posts_v1` (`workers.rs`) | the map of live posts in memory; a cursor and a KV in Core | hydrate, attach, merge, fold, flush, acknowledge | Core's durable consumer; `GET /posts` reads its map |
| Post handlers (`handlers/posts.rs`, `domain/post.rs`, `writer.rs`) | one future per request | create, list, get, update, delete | Core (append, query), the worker's map, analytics |
| User fold and handlers (`folders.rs`, `handlers/users.rs`, `domain/user.rs`) | none: a fold of one stream | get, patch | Core |
| Job scheduler (`rv2-jobs`, `main.rs`) | one task per job, a stop channel | every, shutdown | the jobs' closures; `main` shuts it down |
| Auth store (`better-auth-allsource`) | none: snapshots and tombstones in Core | users, sessions, accounts, verifications, organizations, members, invitations, second factors, api keys, passkeys | Core, through scans and per-entity reads |
| Vendored auth core (`vendor/better-auth`) | none | dispatch through middlewares, hooks and plugins; update user, delete user, change e-mail | the auth store, the plugins |
| Middleware | none | authenticate | in front of the handlers; reads the auth store |
| Rate limiter (`rate_limit.rs`) | a bucket per client | admit | in front of every limited route |
| Process (`main.rs`, `state.rs`, `config.rs`, `health.rs`, `observability.rs`, `jobs.rs`) | settings, clients, the step it is at | boot, readiness, shutdown | everything |
| Analytics (`rv2-analytics`) | a bounded queue | track, deliver, flush | the handlers and `main` |
| Events (`rv2-events`), DTOs, roles | none | encode, decode | everything |
| AI boundary (`rv2-ai`) | none: values that are built and checked | request, generate, validate, decide | a generator the product supplies |
| Browser application (`apps/app`, `rv2-client`) | what is mounted and shown | shell, list, publish, post, sign in | the HTTP API, the cookie jar |
| UI kit (`rv2-ui`) | signals of each widget | keys, presses, drags, focus | the page that owns the value |
| Tooling (`xtask`) | the checkout, staged releases, `target/` | stage, notify; ci, styles, live, core | cargo, curl, tailwindcss |

The hard behaviours: steps of several requests interleave at every `await`, and
nothing is compared when an event is appended (`writer.rs:105`); every call to
Core may fail or lose its answer; the read model lives in process memory and
only its cursor and a snapshot are durable, and two tasks touch the map while a
process boots; records of better-auth are snapshots that updates rewrite whole;
answers reach a browser out of order and after what asked for them is gone;
events of a widget come before the last one was drawn; commands of the tooling
are interrupted and run again over what they left.

What makes each correct:

- *Folds*: replaying a stream gives the same view as folding it continuously; a
  delete is a latch; `updated_at` never moves back; an explicit null and an
  absent key stay different from a request body to the profile read back.
- *Worker*: an acknowledged post can be hydrated; after a crash no live post is
  missing; what was replayed is exact; the worker catches up.
- *Handlers*: only authors write; an answer says what the store holds; a writer
  reads its write; a deleted post stays deleted.
- *Scheduler*: nothing runs after shutdown; missed ticks do not pile up; a run
  that fails is followed by another; shutdown ends.
- *Auth store*: what was deleted stays deleted and lets nobody in, whatever
  updates are about; what a record is looked up by never changes; a cascade
  misses nothing that was there when it came in; keys are shared only by a race.
- *Auth dispatch*: nobody acts behind a guard that refused, or as anybody but
  whom a hook or the session named; every answer passes the after chain once.
- *Limiter*: a client is charged for its own requests whatever it sends.
- *Process*: served by sound settings only; readiness says what was; every
  tracked event is accounted for; a shutdown leaves nothing behind.
- *Drafts*: what is used was decided on and is grounded in its own request.
- *Browser*: a screen belongs to the session that it was read with.
- *Widgets*: one cause, one effect, on what was drawn.
- *Tooling*: a directory that looks like a release is one; a gate that passed
  says something true of the checkout.

`PROJECT.json` lists every component and, under `hazards`, what is hard to test
in this code, at its line, with the property that covers it.

## Modules

| Module | Models |
|---|---|
| `PostFolds` | what one `content.post.*` event does to a post |
| `PostHistory` | the meaning of a history of events, said without folding; the properties of posts are measured against it |
| `ReadModel` | abstract: a list that is the store's history up to a position that only moves forward |
| `PostsProjection` | the worker, its durable state, boots and crashes |
| `PostsApi` | the handlers, interleaved at their awaits over a failing Core |
| `JobScheduler` | the job loops, their clock, and shutdown as `main` runs it |
| `AuthStore` | users and sessions in the auth adapter, and the requests of the auth core, the middleware and the plugins over it |
| `AuthRecords` | every other kind of record in the adapter, and the callback that deletes a user |
| `AuthDispatch` | a request on its way through the auth router, and the two readers of tokens |
| `RateLimiter` | who pays for a request behind proxies |
| `UserProfiles` | profile commands, their wire format, the fold, and `PATCH /users/{id}` |
| `ApiProcess` | boot, readiness, the analytics queue, shutdown |
| `Drafts` | requests, candidates, drafts and decisions |
| `BrowserSession` | the shell, the screens, their requests and the cookie |
| `CommandSelect`, `Motion`, `Tabs` | the widgets that keep state over several events |
| `Widgets` | the three on one page |
| `Release` | `stage-web`, `stage-app`, `indexnow` |
| `Gate` | `ci`, `styles`, `live`, `core` |
| `MCProjection`, `MCPostsApi`, `MCScheduler`, `MCAuthStore`, `MCAuthRecords` | small instances |
| `MCSurfaces` | the components from `AuthDispatch` to `Gate` side by side, a behaviour exercising one of them |
| `PostsProjection_proofs`, `PostsApi_proofs`, `JobScheduler_proofs`, `AuthStore_proofs`, `AuthRecords_proofs` | theorems of the modules they are named after |
| `Service_proofs` | theorems of `AuthDispatch`, `RateLimiter`, `ApiProcess`, `Drafts`, `UserProfiles` |
| `Frontend_proofs` | theorems of `BrowserSession`, `Gate`, `Release`, `Widgets` |
| `Induction` | lemmas on natural numbers that the proofs about folds and recursions rest on |

### Correspondence

*Views.* A field of a view is the position of the event that wrote it, so two
views are equal exactly when they show the same writes; 0 stands for `None`.

*PostsProjection.* `log`, `cursor` and `kv` are Core; `state`, `pos`,
`sinceFlush` and `outbox` the worker task; `phase` is where
`start_posts_worker` is: `Hydrate` reads the KV (or fails: `cold`),
`StartWorker` attaches the stream at the server-side cursor with an empty map,
`Seed` merges what was read, and `FoldNext` may run before it. `BeginFlush` and
`PutEntity` push a snapshot entity by entity, `Ack` moves the cursor. `Crash`
empties the process. The SDK's worker is not in the repository: its steps are
modelled from the builder's calls and from the comments that record what it was
observed to do, in particular that a push that is due ends before the cursor
moves (`workers.rs:124`: the flushed state corresponds to the cursor).

*PostsApi.* One action for each stretch of a handler between two awaits;
`call`, `pc` and `view` are its locals. A request that may create a post mints
its own name, which makes ids fresh. `NotFound` is enabled whenever a read is
under way, because `load` turns a transport error into 404. `own`, `gone` and
`there` are history.

*JobScheduler.* A poll of the biased select is two steps, the stop channel and
then the ticker, because `main` sends the stop from another thread. `due` is
the time left to the ticker's deadline; `left`, `starts` and `late` are
history. A closure that panics before it returns its future kills the loop
(`dead`); a future that panics is an outcome.

*AuthStore.* An entity is a stream: the snapshots appended for it and its
tombstones, abstracted to what the requests compare, a user's e-mail and a
session's user. A read by id takes the last of the first `Cap` events
(`client.rs:147`). `created` and `opened` are the order of the `*.created` events,
which is all that a lookup by field and a listing query, and of which a listing
asks for the first `ScanLimit` and filters them afterwards (`client.rs:389`). A
lookup by e-mail (`SignedUpWith`) has two answers: Core filters the events
itself, or it refuses the filter or answers with nothing, and the client filters
the first `ScanLimit` (`client.rs:268-324`). One action for each
round trip to Core; the locals of a handler are the fields of `req[r]`, and
`Fail` ends a request at any of them: an error, a refusal for a reason outside
the model (an expired session, a wrong password, a malformed body), or the
death of the process. An append whose answer is lost, and which Core applies
later or never, is a request that stays at it. `settled`, `gone` and `saw` are
history. Sign-up, sign-in, sign-out, the refresh of a session and the sweep of
expired ones are called by code outside the repository (`better-auth-core` and
its plugins): they are modelled as the sequence of adapter operations they
need. The check of a username has the shape of the check of an e-mail and is
left out.

*AuthRecords.* All the remaining kinds have one shape: the field a record is
looked up by (`key`), what it belongs to (`parent`), one field an update may
set, its expiry. A record's id is its place among the creations. An operation
is the sequence of its round trips, its plan; an action performs the head of one
request's plan, and a listing puts a round trip per record it found in front of
the rest. `Created` is the query for `*.created` events with its limit,
`Latest` the read of one stream, with its own (`Cap`). What a listing found is
answered whole, or as `list_user_invitations` has it, without what expired
(`StillOpen`); its other condition, pending, is one on the snapshot created and
leaves out nothing, an accepted invitation included. `saw`, `gone` and the position `read` are
history; `late` is whether the time `soon` has come.

*AuthDispatch.* `call` is the request and where it is, `trace` what was done to
it. A middleware passes, answers or fails; a hook may name a user; a handler
acts. A request may also come from inside the process, with a claim of its own.
`api` and `parts` are what the two token readers say of one visit.

*RateLimiter.* A proxy appends the address it heard from; the key is counted
from the right by the number of trusted hops, blanks and unreadable entries
included as the code has them. `account` is what each client would have left in
a bucket of its own.

*UserProfiles.* A payload is a function from its keys, with `Null` a value. Builds
that do not know the optional keys, or know more of them, write to the same
stream; `told` is history: what each of them meant. `FoundUser` is the read of
GET and PATCH (`users.rs:23-31`): it goes through the SDK, as the listing fallback
of the posts does, and finds a stream only where the query URL is a gateway that
adds the tenant (`QueryAddsTenant`).

*ApiProcess.* `at` is the step of `main`; `Stops(step)` is the settings at which
that step returns an error. `AskReady`, `CoreAnswers` and `Answer` are a probe, with
`seen` (history) what Core was while it ran. `queue` and `ledger` are the
analytics client; `Kill` may come anywhere.

*Drafts.* A text is its trimmed length. A candidate is any text with any
citations.

*BrowserSession.* A task is a request of a mounted component; unmounting drops
the task (`kept` is false), not the request, and the browser keeps its cookie.
`Serve` is the server, `Hear` the answer, in any order.

*CommandSelect, Tabs, Motion.* Signals are read as they are, captured values as
they were `drawn`; events come before or after a drawing, and a task that moves
the focus runs some time after the handler that spawned it. Keys may come while a press is held: an arrow, Escape, Enter, or a Tab from the
search box to the trigger or past it, between the press and its click
(`HoldPress`).

*Release and Gate.* A step of a command is an action and may fail or be
interrupted; what it did stays. In `Release` a page is its faults, the assets
it mentions and its inline scripts, whose bodies mention assets as well
(`BodyMentions`): `stage-web` turns each into an asset of its own, `stage-app`
does so for `index.html` only, and pruning reads the raw text of all pages, the
bodies left in them included. In `Gate` a file is a few lines, each with the
word the greps look for and its mark; a grep that breaks off has found the
offender before that or nothing.

Three things are assumed of Core: an append is atomic, a query sees every
append that was applied, events are answered oldest first (the comment at
`client.rs:134`). And one of `better-auth-core`: that a stored session names
its user under the key `get_user_sessions` asks for (`user_id`), without which
the listing would be empty. Its types are not in the repository; a vendored
test (`response_shape_tests.rs:209`) accepts both spellings.

## Runs

| Run | Asks | Bounds |
|---|---|---|
| `projection` | do crashes at any step lose a live post? does anything but a deletion unlist one? is the list exact until a crash, and does it catch up? | 2 posts, 5 events at 2 instants, pushes every 2, acknowledgements every 4, 2 crashes |
| `projection_deletes` | violation: is "overlap harmless" for a deleted post? | the same, at one instant |
| `projection_edits` | violation: does what was folded since the cursor win? | the same, at one instant |
| `posts_api` | authorization, answers, read-back, deletion under interleaving | 1 post, 4 requests of 2 users, reads of 3 events |
| `posts_fallback` | violation: does the fallback list posts when the query URL is Core? | the same |
| `scheduler` | shutdown, missed ticks, panics | 2 jobs of periods 2 and 3, ticks up to 3 late |
| `scheduler_panic` | violation: does a schedule survive every panic? | the same |
| `auth_store` | do deletions hold, and does authentication respect them, under interleaving and failure? | 4 users, 3 sessions, 2 e-mails, 5 requests of which 2 overlap, reads of 3 events, scans of 2 |
| `auth_emails` | violation: has each e-mail one user? | 2 users, 2 e-mails, 4 requests, none overlapping |
| `auth_records` | do updates, cascades, sweeps, the callback and listings keep what they promise when they overlap? | 3 small stores, 2 overlapping requests, reads and listings of 2 events, 10 records |
| `surfaces` | each of the components around the posts and the accounts, on its own | below |
| `motion_drag` | violation: does one drag fire once? | one drag |

Why the bounds are enough. The cursor of the projection moves after a multiple
of the pushes, so 2 and 4 show what 25 and 100 do: an acknowledgement with one
push behind it and events on both sides; five events are a first
acknowledgement, a lost push and a replay; two crashes are a boot from what an
earlier boot recovered. Four requests are a creation, an edit authorized before
a deletion and appended after it, and a read. A read limit of 3 is exceeded by
the fourth event. Ticks 3 late miss one deadline of the longer period and two
of the shorter. Of five requests to the auth store two make a user and its
session, and three are left for an update that races a deletion and what comes
after; two at a time are every pair of handlers; the read limit of 3 stands for
1000 and some streams exceed it, the scan limit of 2 for 10000, and the third
session is past it, as is the third sign-up when a fourth asks for its e-mail.
Where no liveness is checked posts are symmetric, and so are users and the
requests that do not create; in the auth store, tokens, e-mails and requests.
Two runs have a constraint on states: in `projection` the second event's clock is
ahead of the others (`OneClockAhead`), which is time going forth and back, and in
`auth_store` users sign up in the order of their names (`SignedInOrder`), which
leaves out nothing, since ids are fresh.

`auth_records` (211,208 distinct states) starts in one of three stores, so that
two requests are enough to meet each other over what exists: two organizations,
with three members and an invitation; a user with a session, three accounts and
a verification, which is what the callback goes through; a user with a second
factor, an api key, a passkey and a verification of another. Every pair of
operations overlaps in each. A listing asks for 2 events: the third member and
the third account are past it from the start, and so are the records that
requests create behind two others of their kind. A read asks for 2 events as well:
an update and a deletion of one record put the tombstone past it.

`surfaces` (1.5 million distinct states, under three minutes) is one run because the
modules share no state, in the code either: `subject` picks one, the others rest
in their initial states, so the number of states is the sum of the parts'.

| Part | Property | Bounds, and what they let happen | States |
|---|---|---|---|
| `CommandSelect` | `WidgetsActOnce` | three options, two sharing a word; 5 events: a press, its blur, its click, a query and a key before the next drawing | 10,000 |
| `Motion` | `WidgetsActOnce` | travel past the detent by one; 5 gestures, two of them whole drags | 500 |
| `Tabs` | `WidgetsActOnce` | three tabs and a view none of them has; 4 keys | 400 |
| `Drafts` | `AcceptedIsGrounded` | 2 fact ids, 2 facts, 2 citations, lengths up to one past the limit: repeated, foreign and missing citations | 6,000 |
| `UserProfiles` | `ProfilesSurviveTheWire` | 3 events at 2 instants by any build: a registration, a patch, and one in between | 225,000 |
| `Release` | `ReleaseIsWhole` | two invocations: any build and any one fault, then a plain one over what the first left | 77,000 |
| `Gate` | `GateTellsTheTruth` | 2 apps, files of 3 lines, 2 edits, 2 commands: one interrupted or failed and one that finds what it left | 520,000 |
| `BrowserSession` | `ScreensTellTheSession` | 2 members, 2 posts, 2 sessions, 4 requests: a sign-in or a revocation between two answers to one screen | 429,000 |
| `RateLimiter` | `BucketsAreTheClients` | none, one or two proxies; each kind of entry a client may put in the header; bursts of 2 | 144 |
| `AuthDispatch` | `DispatchIsGuarded` | 2 plugins, one of them naming users, a disabled path of each kind | 1,000 |
| `ApiProcess` | `ProcessIsAccountable` | every setting at fault alone; a queue of 1, 2 publishes, 1 probe, 2 outages or recoveries | 272,000 |

Deadlock is not checked: the writers, the requests, the jobs and the users may
all be done; a process may have exited.

`AuthRecords` and `PostsApi` have no type invariant of their own among the
properties: their types are part of the invariants that are proved (`Typed` and
`Shape`, `StoreTyped` and `LedgerTyped`).

### Fairness

`FairSpec` of the projection asks that the process's own tasks go on (boot,
fold, push, acknowledge): the runtime schedules them and Core answers them
eventually. Nothing is asked of writers and crashes. `FairRuns` of the
scheduler asks that the clock runs, that woken tasks are polled, that `main`
goes on with its shutdown, and that a run ends. The last is an assumption on
the jobs (`FiniteRuns`) and nothing in the crate ensures it: there is no
timeout on a run, and `ShutdownTerminates` is false without it.

## What the violations show

1. *A deleted post comes back.* `flush_entities` pushes the posts in the map,
   so the KV of a deleted post keeps its last view. A boot whose cursor is past
   the deletion merges it back.
2. *An edit is lost at boot.* The stream is attached before the snapshot is
   merged. An edit replayed in between finds no view, is dropped, and the merge
   puts the older view in.
3. *The fallback lists nothing.* It reads through the SDK, which cannot send a
   tenant; Core answers it with an empty result.
4. *A closure's panic ends its schedule.* `run_once` calls `job()` on the loop's
   own task.
5. *Two users have one e-mail.* Lookups by e-mail read the `auth.user.created`
   events only. A user who signed up with one e-mail and changed to another is
   not found under the second, so somebody else signs up with it; the first
   e-mail stays taken. No two requests overlap in this run. Under concurrency
   the check and the append of a sign-up race as well: `SameEmailOnlyByRace`
   says that, within the limit of a scan, nothing else lets two sign-ups share an
   e-mail.
6. *One drag fires twice.* The cord pulls as the drag passes the detent
   (`motion.rs:461`), and the click that the browser makes of a release on the knob
   pulls again (`motion.rs:506`), without a look at the latch. The comment
   (`motion.rs:435`) has one drag fire once. `CordPullsOncePerCause` says what does
   hold: at most one pull by the movement and one by the click, the latter when the
   drag is over.

### Noticed while modelling, and what the properties allow for it

Posts. A boot whose hydration failed serves a partial list, although a handle
that is missing altogether would make `GET /posts` use the fallback; `load`
answers 404 when Core is unreachable, also after a successful append.

Users and sessions. An update that read a session or a user before its deletion and
appends after it brings it back (`DeletedStaysDeleted` excludes deletions with an
update in flight); a stream that reached the read limit reads the same for good, and a
deletion past it is not seen (excluded as well: `settled` takes streams below `Cap`):
every extension of a session appends a snapshot, and a sign-out that follows 1000 of
them is seen by no read, which the comment (`client.rs:137`) takes to be far more than
a stream has. A scan asks for 10000 `*.created` events, oldest first and of all users:
past them a deleted user keeps the sessions the deletion did not list, with no
tombstone, and where Core cannot filter a second sign-up with the same e-mail passes
its check with no race (`SessionsGoFirst` and `SameEmailOnlyByRace` speak of what is
within the limit). `delete_expired_sessions` deletes every session, because the
`active` it tests is not stored and decodes as false; nothing in the repository calls
it.

Other records. Reads have the same limit of 1000: past it a deleted organization is
listed and an update revives a deleted record with no race (`NoDeletedOrgListed` and
`RevivedOnlyByRace` say that they speak of tombstones within it). The invitations of a
user leave out the expired, as of their creation, and keep those accepted since, whose
state an update set. A removed member is still listed: listings see creations only,
and `ListingsCoverTheLive` says no more than that no live record is missing. A
consumed verification is found again, for the same reason, and can be consumed again.
An organization's slug is compared with the created ones when it is created, and with
none when it is renamed. The rewrite of backup codes starts from the created snapshot
and brings a deleted second factor back (the exception in `RevivedOnlyByRace`).

Profiles. They are read through the SDK as the fallback's list is: with the query URL
at Core, GET and PATCH answer 404 for a registered user (`ProfilesSurviveTheWire`,
which has a 404 mean that there is no such user, is checked and proved where the
query adds the tenant; the violation of `posts_fallback` has the same cause).

Requests. The two token readers differ on a blank or padded bearer and on an
empty first cookie: one of them then sees no token (`DispatchIsGuarded` says that
they never see two different sessions). The limiter reads one
header: it takes the proxies to join their entries to it.

Process. A listener that cannot be bound leaves `main` without the shutdown steps:
nothing is flushed, and nothing was tracked yet. A comment
(`observability.rs:185`) has the request counter "below the rate limiter", so that
a 429 is counted; counters are not modelled.

Browser. A 429 or a network error on `GET /me` leaves the shell without a session
and without a redirect; a 401 on the list is shown as an error; after a jump in the
history from one post to another the first stays on the screen, because its
resource captured the id it was mounted with (which is what `ShownIsCurrent`
compares with); text typed
while a publish is under way is cleared by its success.

Tooling. The greps and the look at the dependency tree ignore the exit status of
what they run, and the greps read below the current directory: a `ci` started in a
subdirectory passes them blind (`command.blind`). An interrupted download leaves
`target/tailwindcss`, which is taken for the compiler by every later run and
fails it.

## Theorems

All for every value of the constants, within the assumptions named in the
modules. The bounds on steps (`MaxLog`, `MaxRequests` and the like) are
constants as well, so no theorem depends on how small the runs are.

- `PostsProjection_proofs`: type correctness, `AckedPostsAreFlushed`,
  `NoLivePostMissing`, `ReplayedPostsAreExact`. The inductive invariant `IInv`
  adds to them: the store is in order (`StoreInOrder`); a checkpoint is due
  after whole pushes (`CursorOnAPush`), where the assumption that `AckEvery` is
  a multiple of `FlushEvery` is used; nothing alive is only in memory for longer
  than a flush interval (`NothingForgotten`), the heart of the argument: at an
  acknowledgement the remainder is 0, so everything alive has been pushed; and
  a boot under way holds the posts alive at its cursor (`SeedSuffices`).
  `OnlyDeletesUnlist` follows step by step from the same invariant.
- The refinement, in the same module: `FirstLifeRefines` is that the projection
  implements `ReadModel` until a first crash (`FirstLifeIsExact`). `FirstLife`
  strengthens `IInv`: a process in its first life found nothing in the KV and
  folds the whole store, so what is not alive is not listed. Then the list is
  the history at its position (`ListIsHistory`), and each step of the projection
  moves the list along the store or leaves it (`StepRefines`).
- `Induction`: what stands in for the induction schemas, which the provers cannot
  instantiate. A nonempty set of naturals has a least member (`LeastNat`, from the
  library's well-founded induction), so a set that has 0 and every successor is
  all of them (`InductionOnASet`); and a function that is defined from its value
  at `n - 1` exists and obeys its equation (`Recursion`).
- `PostsApi_proofs`: `OnlyAuthorsWrite`. The read a handler authorizes on may
  be stale when it appends; the invariant says why that is harmless: a stream is
  created once, by the request that minted its id (`CreatedOnce`), so the author
  a handler was compared with is still the author (`PermittedIsAuthor`). And
  `AnswersMatchTheStore`, over it: a request has appended nothing before its
  append, one event when it reads back, and has no answer before it is answered
  (`AppendsAtItsStep`).
- What the answers say, in the same module: `WritersReadTheirWrite`,
  `DeletedIsFinal` and, where the query carries the tenant (which is its
  hypothesis: the running system's does not, see `posts_fallback`),
  `FallbackListsThePosts`. `FoldTells` is the induction along the stream: the
  fold of the first `n` events is at or past every write among them, shows
  nothing while nothing was created, and is deleted exactly when one of them is a
  deletion. The invariant `RInv` has what each request remembers in the store
  (`Remembered`) and its answer true of it (`Truthful`), and `TruthStays`: the
  store only grows, which changes no answer.
- `JobScheduler_proofs`: type correctness, `NothingRunsAfterShutdown`,
  `AtMostOneStartPerPeriod`, `AtMostOneStartAfterStop`. The invariant says that
  the deadline differs from the end of the current period by a multiple of the
  period (`TickerOnSchedule`); that skipping missed ticks lands on the end of
  the period is the lemma `SkipLandsOnThePeriod`, with its arithmetic in
  `NoMultipleBetween`.
- `AuthStore_proofs`: type correctness, `DeletedStaysDeleted`, `NoLateEntry`,
  `SessionsGoFirst`, `SessionsKeepTheirUser`, `SameEmailOnlyByRace`, for any
  number of users, sessions and overlapping requests and any limits of reads and
  scans. The limits are part of what is claimed: a deletion is settled by a
  tombstone within `Cap`, and `SessionsGoFirst` and `SameEmailOnlyByRace` speak of
  the sessions and sign-ups that a scan sees.
  `TypeInv` adds to the type what each request holds where it stands
  (`RequestOK`: a request past a read holds what it read) and that the two
  orders list the streams that exist (`LogOK`). Over it, `SettledOK`: the stream
  of a settled entity ends in a tombstone within the limit and no update of it
  is in flight, the second part being what makes it inductive, since an update
  that starts later reads the tombstone and gives up. `EntryOK`: what a request
  read was not settled when it came in, and what is settled stays so. `OwnerOK`:
  the snapshot an update is about to append names the user of the stream.
  `OrderOK`: of the sessions a deletion saw within the limit, each has its
  tombstone or is still to do. `RaceOK`: whoever is about to be created found none
  with its e-mail among those it saw within the limit, by whichever of the two
  lookups, and streams keep what they start with.
- `AuthRecords_proofs`: `SnapshotsKeepTheirKeys`, `RevivedOnlyByRace`,
  `NoDeletedOrgListed`, for any stores, any number of records and overlapping
  requests, and any limits of reads and listings. What reads as deleted does so by
  a tombstone that is the last of the first `Cap` events; that a stream reads as
  its last event while it is short, and as before once it is longer, is why a read
  is still good when its update appends. The invariant `RecInv` types the plans:
  a plan is round trips that write nothing back, or a read and the write it
  leads to, or the write alone, and then what is held was live where it was read
  and has the keys the record was created with (`Holds`). What was gone for good
  when a request came in has no update in flight and so stays gone (`GoneOK`).
- `CascadesMissNothing`, `CallbackEndsWithTheUser`, `ListingsCoverTheLive` and
  `SameKeyOnlyByRace`, in the same module, by `RequestsInv` over `RecInv`. Of what
  a cascade owes, each record has its tombstone or is pending in the plan
  (`CascadeOK`), the second being what a listing turns into visits and a visit
  into a burial (`Awaits`). While the burial of the user is still planned it
  comes with the token's after everything else (`CallbackOK`). A listing that
  answered covers what was created before it, is within its limit and, of a user's
  invitations, had not expired (`ListOK`; time only passes);
  whoever is past its check found the key with nobody it could see (`CreationOK`).
- `Service_proofs`, `DispatchIsGuarded`, for any plugins, routes, disabled paths
  and sessions. `OnTheWay` is what a request has passed where it stands, `Acted`
  what was true of whoever acted; that the two token readers never see two
  sessions in one visit is the lemma `OneSession`.
- `Service_proofs`, `BucketsAreTheClients`, for any clients, proxies, headers and
  burst. That the entry counted from the right is the client's, whatever the
  client put in front of it, is a lemma about positions in the header; then every
  bucket holds what its owner's account does (`LimiterInv`).
- `Service_proofs`, `ProcessIsAccountable`, for any settings, any limit of the
  queue and any number of publishes, probes and outages. The parts of the
  invariant are the boot (`NoStopBefore`: the steps passed did not stop it), the
  ledger (`LedgerBalances`), the probe (what was heard was seen) and the
  shutdown (what each of its steps leaves done for the next).
- `Service_proofs`, `AcceptedIsGrounded`, for any fact ids and limits: the request
  of a stage was built (`BuiltFirst`), and a draft or an outcome with citations
  passed validation against that request.
- `Service_proofs`, `ProfilesSurviveTheWire`, for any texts and clock, and any
  builds that write to the stream, where the query carries the tenant, which is its
  hypothesis as it is of the listing fallback: at Core itself no profile is found. Each envelope decodes to the command it was
  sent for or to nothing (`StreamMeans`); the fold, an induction along the stream,
  then tells what the commands said (`TellsUser`); and a PATCH is answered with
  itself or with what was written over it (`PatchKept`).
- `Frontend_proofs`, `ScreensTellTheSession`, for any members, posts and number of
  sessions and requests. `BrowserInv` says what every answer under way is worth:
  it speaks of the session its cookie was of when it was sent, a bootstrap that is
  still awaited is this shell's, an awaited list was asked for after the last
  publication heard of, and a form waits for exactly one request.
- `Frontend_proofs`, `GateTellsTheTruth`, for any apps, edits and commands.
  `GateInv` has what the steps that a command is past have found, while nobody
  edited (`ScansHold`), which stylesheets are current where it stands
  (`WrittenCurrent`, `CommittedCurrent`), and that a check writes none of the
  committed ones (`CiLeavesSheets`).
- `Frontend_proofs`, `ReleaseIsWhole`, for any outputs with the pages of their
  paths and finitely many assets (`OutputsAssumption`), any faults, and failures
  at any step. `ReleaseInv` has what each step finds in the directory and each
  end leaves of it (`StagingHolds`), robots.txt being the last to be written, and
  the key file after it (`KeyComesLast`). Pruning keeps what the pages, with the scripts that stayed inline, reach and
  no more: the recursion takes as many passes as there are assets, and a set
  that grows within a finite one has stopped by then (`GrowthStops`).
- `Frontend_proofs`, `WidgetsActOnce`, for any options, words, tabs, distances and
  patience. The select's invariant has one highlighted option and no task that
  moves the focus under a press, but one left over from before it (`SelectInv`); what it reports was drawn, by
  an induction over the options that a query leaves. A drag holds the knob, and
  has moved the cord past the detent at most once before it is released
  (`CordInv`): of the cord the theorem has one pull for each cause, and not one for
  a drag, which is false of it (`motion_drag`). A tab goes to its neighbour because values are distinct.

The assumptions on constants are what the code's own types and literals give
(`Actuation` and `Patience` are positive, there is an option and a tab), except
for three that are about use: `AckEvery` is a multiple of `FlushEvery`
(100 and 25 at `workers.rs:165`), the blank and the unreadable
header entry are no client (`LimiterAssumption`), and tabs have distinct values
(`TabsAssumption`), since a value is a tab's key among its siblings.

Only model-checked, and why. Liveness (`CatchesUp`, `EveryRunIsFollowed`,
`ShutdownTerminates`) is beyond the prover; every other property of a passing
run is the statement of a theorem. The properties that the code violates are
TLC's: a counterexample needs no proof.

## Not modelled

- *Post listing*: the sorting and paging of `GET /posts`, pure functions of the
  view they are given.
- *Conversions*: that of stream ids; the field-for-field conversion of the
  AllSource clients; DTOs.
- *Auth*: the plugins and `better-auth-core`, which are other crates, beyond what
  the adapter and the dispatch see of them; the OpenAPI document; roles, which are
  parsed and which no handler compares.
- *E-mail*: rendering and one HTTP call; the mailer is built at boot and nothing
  calls it.
- *Observability*: counters and labels.
- *Browser*: the public site, which is static pages; of the HTTP client, sign-out
  and the calls on users, on a post's update and on its deletion, which nothing in
  the application makes.
- *UI kit*: layout, drawing and toggles of one signal. The gradient builder, whose
  effect captured the sheet it was mounted with, reports one change; no
  property is stated of it.
- *Texts*: of posts, pages and e-mails, and the words of generated drafts.
- *Deployment*: container files, build scripts and vendored plugins.
- *Hazards without a property*: `load` answering 404 for an unreachable Core, and
  the partial list after a failed hydration. Both are what the code does by
  design, and are described above.
