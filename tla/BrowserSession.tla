---------------------------- MODULE BrowserSession ----------------------------
(***************************************************************************)
(* The signed-in application in a browser, apps/app/src/views.rs on        *)
(* crates/rv2-client: the Shell that asks `GET /me' when it is mounted,    *)
(* the Posts screen with its list and its form, PostDetail and Login.      *)
(*                                                                         *)
(* Every request is a task of the component that sent it.  Unmounting the  *)
(* component drops the task, not the request: the server still handles it, *)
(* and the browser still keeps a Set-Cookie.  The server and the network   *)
(* answer in any order.                                                    *)
(***************************************************************************)
EXTENDS Integers, Sequences, SequencesExt

CONSTANTS Members,      \* the people who can sign in
          PostIds,
          MaxRequests,  \* bound: requests the browser sends
          MaxSessions   \* bound: sessions the server issues

ASSUME BrowserAssumption == PostIds \cap {"none", "error"} = {}

Places == {[name |-> "dashboard"], [name |-> "posts"], [name |-> "login"]}
             \cup {[name |-> "post", id |-> p] : p \in PostIds}

VARIABLES cookie,       \* the session in the browser's jar, a number, 0 for none
          issued,       \* the sessions: [user, live]
          screen,       \* what is mounted and what it shows
          tasks,        \* requests not yet answered to the browser
          requests

browserVars == <<cookie, issued, screen, tasks, requests>>

-----------------------------------------------------------------------------

IsLive(session) == session \in DOMAIN issued /\ issued[session].live

\* `authed': the browser attaches whatever cookie it holds when the request leaves.
Request(n, kind, jar, arg) ==
    [n |-> n, kind |-> kind, cookie |-> jar, arg |-> arg, kept |-> TRUE, answer |-> "none"]

\* Tasks die with their component; of requests nobody reads, only a sign-in still
\* does something that is modelled here: it issues a session and sets the cookie.
Unmounted(kinds) ==
    {IF t.kind \in kinds THEN [t EXCEPT !.kept = FALSE] ELSE t :
        t \in {u \in tasks : u.kind \in kinds => u.kind = "signin"}}

ShellKinds == {"me", "list", "create", "post"}
ChildKinds == {"list", "create", "post"}

NoShell == [sent |-> 0, boot |-> "none", session |-> "none"]
NoList == [shown |-> "none", asked |-> 0]
NoForm == [submitting |-> FALSE, error |-> FALSE]

\* What the screen under the shell asks for when it mounts.
ChildRequest(place, n, jar) ==
    CASE place.name = "posts" -> {Request(n, "list", jar, 0)}
      [] place.name = "post" -> {Request(n, "post", jar, place.id)}
      [] OTHER -> {}

\* Posts: a list read and a form; PostDetail: a read for the id it was mounted with.
\* bounced: the cookie the shell had sent when it gave way to Login, or -1.
Screen(place, shell, login, bounced) ==
    [place |-> place, shell |-> shell, login |-> login, bounced |-> bounced,
     list |-> NoList, form |-> NoForm, heard |-> 0,
     detail |-> [of |-> IF place.name = "post" THEN place.id ELSE "none", shown |-> "none"]]

\* Shell: the bootstrap, `use_resource(get_session)', leaves with the mount.
MountShell(place, jar) ==
    Screen(place, [sent |-> jar, boot |-> "pending", session |-> "none"], NoForm, -1)

MountLogin(bounced) == Screen([name |-> "login"], NoShell, NoForm, bounced)

\* Mounting a whole place, and the requests that leave with it.
Mount(place, jar, left) ==
    IF place.name = "login"
    THEN screen' = MountLogin(-1) /\ tasks' = left /\ UNCHANGED requests
    ELSE LET asked == {Request(requests + 1, "me", jar, 0)}
                          \cup ChildRequest(place, requests + 2, jar)
         IN  /\ screen' = MountShell(place, jar)
             /\ tasks' = left \cup asked
             /\ requests' = requests + Cardinality(asked)

MaySend(k) == requests + k <= MaxRequests

-----------------------------------------------------------------------------

\* A visitor with a session from an earlier day, or without a cookie.
BrowserInit ==
    /\ \E member \in Members : issued = <<[user |-> member, live |-> TRUE]>>
    /\ cookie \in {0, 1} /\ tasks = {} /\ requests = 0
    /\ screen = MountLogin(-1)

\* The page is loaded anew: nothing of it survives but the cookie.
Load(place) ==
    /\ MaySend(2)
    /\ Mount(place, cookie, Unmounted(ShellKinds \cup {"signin"}))
    /\ UNCHANGED <<cookie, issued>>

\* A link to another screen of the shell: the shell stays, the screen is replaced.
Follow(place) ==
    /\ screen.place.name # "login" /\ place.name \notin {"login", screen.place.name}
    /\ place.name = "post" => screen.place.name = "posts" /\ screen.list.shown = "posts"
    /\ MaySend(1)
    /\ LET asked == ChildRequest(place, requests + 1, cookie) IN
       /\ screen' = Screen(place, screen.shell, screen.login, screen.bounced)
       /\ tasks' = Unmounted(ChildKinds) \cup asked
       /\ requests' = requests + Cardinality(asked)
    /\ UNCHANGED <<cookie, issued>>

\* The history may hold another post, visited earlier: the route changes and PostDetail
\* is rendered with another id, but the resource closed over the id of its mount.
JumpToPost(id) ==
    /\ screen.place.name = "post" /\ screen.place.id # id
    /\ screen' = [screen EXCEPT !.place.id = id]
    /\ UNCHANGED <<cookie, issued, tasks, requests>>

\* A defect: the read under way is left to answer after the new one.
AnotherList(left, jar) ==
    left \cup {Request(requests + 1, "list", jar, screen'.heard)}

\* Resource::restart: the read under way is cancelled, what is shown stays.
RestartList(left, jar) ==
    {t \in left : t.kind # "list"} \cup {Request(requests + 1, "list", jar, screen'.heard)}

\* The retry of the list's error banner.
Retry ==
    /\ screen.place.name = "posts" /\ screen.list.shown = "error"
    /\ MaySend(1)
    /\ UNCHANGED screen
    /\ tasks' = RestartList(tasks, cookie)
    /\ requests' = requests + 1
    /\ UNCHANGED <<cookie, issued>>

\* The button of a form is disabled while its request is under way.
Publish ==
    /\ screen.place.name = "posts" /\ ~screen.form.submitting
    /\ MaySend(1)
    /\ screen' = [screen EXCEPT !.form = [submitting |-> TRUE, error |-> FALSE]]
    /\ tasks' = tasks \cup {Request(requests + 1, "create", cookie, 0)}
    /\ requests' = requests + 1
    /\ UNCHANGED <<cookie, issued>>

SubmitLogin(member) ==
    /\ screen.place.name = "login" /\ ~screen.login.submitting
    /\ MaySend(1)
    /\ screen' = [screen EXCEPT !.login = [submitting |-> TRUE, error |-> FALSE]]
    /\ tasks' = tasks \cup {Request(requests + 1, "signin", cookie, member)}
    /\ requests' = requests + 1
    /\ UNCHANGED <<cookie, issued>>

-----------------------------------------------------------------------------

\* The server: a limit, a refusal or a failure is an answer outside 2xx and not 401;
\* without a live session every route but sign-in is 401, and so is a bad password.
Serve(t) ==
    /\ t.answer = "none"
    /\ \E answer \in {"ok", "unauthenticated", "error"} :
          /\ t.kind = "signin" /\ answer = "ok" => Len(issued) < MaxSessions
          /\ t.kind # "signin" => (answer = "ok") = IsLive(t.cookie) \/ answer = "error"
          /\ tasks' = (tasks \ {t}) \cup {[t EXCEPT !.answer = answer,
                          !.arg = IF t.kind = "signin" /\ answer = "ok"
                                  THEN Len(issued) + 1 ELSE t.arg]}
          /\ issued' = IF t.kind = "signin" /\ answer = "ok"
                       THEN Append(issued, [user |-> t.arg, live |-> TRUE]) ELSE issued
    /\ UNCHANGED <<cookie, screen, requests>>

\* The session expires, or is revoked from elsewhere.
Revoke(session) ==
    /\ IsLive(session)
    /\ issued' = [issued EXCEPT ![session].live = FALSE]
    /\ UNCHANGED <<cookie, screen, tasks, requests>>

\* `send' and `discard_body': 2xx, 401, or an error, which is another status, a body that
\* does not decode or no answer; the request may have been handled all the same.
Outcomes(t) == (IF t.answer = "none" THEN {} ELSE {t.answer}) \cup {"error"}

HearMe(t, outcome) ==
    /\ t.kind = "me"
    /\ \/ /\ outcome = "ok"
          /\ screen' = [screen EXCEPT !.shell.boot = "ok",
                                      !.shell.session = issued[t.cookie].user]
          /\ tasks' = tasks \ {t}
       \/ /\ outcome = "unauthenticated"
          /\ screen' = MountLogin(screen.shell.sent)
          /\ tasks' = Unmounted(ShellKinds)
       \/ /\ outcome = "error"
          /\ screen' = [screen EXCEPT !.shell.boot = "error"]
          /\ tasks' = tasks \ {t}
    /\ UNCHANGED <<cookie, requests>>

HearList(t, outcome) ==
    /\ t.kind = "list"
    /\ screen' = [screen EXCEPT !.list = [shown |-> IF outcome = "ok" THEN "posts" ELSE "error",
                                          asked |-> t.arg]]
    /\ tasks' = tasks \ {t}
    /\ UNCHANGED <<cookie, requests>>

HearPost(t, outcome) ==
    /\ t.kind = "post"
    /\ screen' = [screen EXCEPT !.detail.shown = IF outcome = "ok" THEN t.arg ELSE "error"]
    /\ tasks' = tasks \ {t}
    /\ UNCHANGED <<cookie, requests>>

HearCreate(t, outcome) ==
    /\ t.kind = "create"
    /\ \/ /\ outcome = "ok" /\ MaySend(1)
          /\ screen' = [screen EXCEPT !.form = NoForm, !.heard = @ + 1]
          /\ tasks' = RestartList(tasks \ {t}, cookie)
          /\ requests' = requests + 1
       \/ /\ outcome # "ok"
          /\ screen' = [screen EXCEPT !.form = [submitting |-> FALSE, error |-> TRUE]]
          /\ tasks' = tasks \ {t}
          /\ UNCHANGED requests
    /\ UNCHANGED cookie

HearSignIn(t, outcome) ==
    /\ t.kind = "signin"
    /\ \/ /\ outcome = "ok" /\ MaySend(1)
          /\ cookie' = t.arg
          /\ Mount([name |-> "dashboard"], t.arg, tasks \ {t})
       \/ /\ outcome # "ok"
          /\ screen' = [screen EXCEPT !.login = [submitting |-> FALSE, error |-> TRUE]]
          /\ tasks' = tasks \ {t}
          /\ UNCHANGED <<cookie, requests>>

Hear(t) ==
    /\ t.kept
    /\ \E outcome \in Outcomes(t) :
          HearMe(t, outcome) \/ HearList(t, outcome) \/ HearPost(t, outcome)
             \/ HearCreate(t, outcome) \/ HearSignIn(t, outcome)
    /\ UNCHANGED issued

\* The answer to a task that is gone: only the cookie is stored.
HearNobody(t) ==
    /\ ~t.kept
    /\ \/ t.kind = "signin" /\ t.answer = "ok" /\ cookie' = t.arg
       \/ UNCHANGED cookie
    /\ tasks' = tasks \ {t}
    /\ UNCHANGED <<issued, screen, requests>>

BrowserNext ==
    \/ \E place \in Places : Load(place) \/ Follow(place)
    \/ \E id \in PostIds : JumpToPost(id)
    \/ Retry \/ Publish
    \/ \E member \in Members : SubmitLogin(member)
    \/ \E t \in tasks : Serve(t) \/ Hear(t) \/ HearNobody(t)
    \/ \E session \in DOMAIN issued : Revoke(session)

BrowserSpec == BrowserInit /\ [][BrowserNext]_browserVars

-----------------------------------------------------------------------------

Awaited(kind) == {t \in tasks : t.kept /\ t.kind = kind}

\* The shell names the owner of the cookie this mount of it sent, and only a cookie
\* without a live session is sent to Login.
SessionIsOwners ==
    /\ screen.shell.session # "none" => issued[screen.shell.sent].user = screen.shell.session
    /\ screen.bounced # -1 => ~IsLive(screen.bounced)

\* Once no read is under way the list was asked for after the last publication the
\* screen was told of, and a post is shown where the screen was mounted for it.
ShownIsCurrent ==
    /\ screen.list.shown = "posts" /\ Awaited("list") = {} => screen.list.asked = screen.heard
    /\ screen.detail.shown \in PostIds => screen.detail.shown = screen.detail.of

\* A form is locked exactly while one request of it is under way.
FormsWaitForOne ==
    /\ Cardinality(Awaited("create")) = IF screen.form.submitting THEN 1 ELSE 0
    /\ Cardinality(Awaited("signin")) = IF screen.login.submitting THEN 1 ELSE 0

ScreensTellTheSession == SessionIsOwners /\ ShownIsCurrent /\ FormsWaitForOne
=============================================================================
