--------------------------- MODULE Frontend_proofs ---------------------------
(***************************************************************************)
(* What holds of the frontends, whatever their members, posts, sources,    *)
(* commands and builds are: the application in a browser, the gate that    *)
(* the sources and the stylesheets of the applications pass, the staging   *)
(* of what is released, and the widgets of a page.  They share no state.   *)
(***************************************************************************)
EXTENDS BrowserSession, Gate, Release, Widgets, Induction, FiniteSetTheorems, SequenceTheorems

-----------------------------------------------------------------------------
(***************************************************************************)
(* The signed-in application: what a screen shows is of its own session.   *)
(***************************************************************************)

TaskKinds == ShellKinds \cup {"signin"}
TaskAnswers == {"ok", "unauthenticated", "error"}

Arguments == Int \cup Members \cup PostIds \cup {"none"}

TaskRecords ==
    [n : Int, kind : TaskKinds, cookie : Int, arg : Arguments, kept : BOOLEAN,
     answer : TaskAnswers \cup {"none"}]

FormRecords == [submitting : BOOLEAN, error : BOOLEAN]

ShellRecords ==
    [sent : Int, boot : {"none", "pending", "ok", "error"}, session : Members \cup {"none"}]

ScreenRecords ==
    [place : Places, bounced : Int, login : FormRecords, form : FormRecords, heard : Int,
     shell : ShellRecords,
     list : [shown : {"none", "posts", "error"}, asked : Arguments],
     detail : [of : PostIds \cup {"none"},
               shown : Arguments \cup {"error"}]]

BrowserTyped ==
    /\ issued \in Seq([user : Members, live : BOOLEAN]) /\ cookie \in 0..Len(issued)
    /\ screen \in ScreenRecords /\ tasks \in SUBSET TaskRecords /\ requests \in Int

(* What was sent and answered speaks of sessions the server issued.        *)
TasksSpeakOfIssued ==
    \A t \in tasks :
        /\ t.cookie \in 0..Len(issued)
        /\ t.kind = "me" /\ t.answer = "ok" => t.cookie \in DOMAIN issued
        /\ t.kind = "me" /\ t.answer = "unauthenticated" => ~IsLive(t.cookie)
        /\ t.kind = "signin" /\ t.answer = "ok" => t.arg \in DOMAIN issued
        /\ t.kind = "signin" /\ t.answer = "none" => t.arg \in Members

ShellSpeaksOfIssued ==
    /\ screen.shell.sent \in 0..Len(issued) /\ screen.bounced \in -1..Len(issued)
    /\ screen.shell.session # "none" =>
          screen.shell.sent \in DOMAIN issued /\ issued[screen.shell.sent].user = screen.shell.session
    /\ screen.bounced # -1 => ~IsLive(screen.bounced)

(* The bootstrap under way is the one of this mount of the shell.          *)
BootIsOfTheShell ==
    \A t \in Awaited("me") : t.cookie = screen.shell.sent

(* The sign-in screen waits for nothing but its own form.                  *)
LoginAwaitsSignIn ==
    screen.place.name = "login" => \A t \in tasks : t.kept => t.kind = "signin"

(* A read of the list under way was asked for after the last publication.  *)
ListIsOfTheScreen ==
    /\ \A t \in Awaited("list") : t.arg = screen.heard
    /\ screen.list.shown = "posts" /\ Awaited("list") = {} => screen.list.asked = screen.heard

DetailIsOfTheMount ==
    /\ \A t \in Awaited("post") : t.arg = screen.detail.of
    /\ screen.detail.shown \in PostIds => screen.detail.shown = screen.detail.of

OneAwaited(kind) == \E t \in Awaited(kind) : \A u \in Awaited(kind) : u = t

FormWaits(form, kind) == IF form.submitting THEN OneAwaited(kind) ELSE Awaited(kind) = {}

FormsWait ==
    /\ FormWaits(screen.form, "create") /\ FormWaits(screen.login, "signin")
    /\ screen.place.name # "login" => ~screen.login.submitting

BrowserInv ==
    /\ BrowserTyped /\ TasksSpeakOfIssued /\ ShellSpeaksOfIssued /\ BootIsOfTheShell
    /\ LoginAwaitsSignIn
    /\ ListIsOfTheScreen /\ DetailIsOfTheMount /\ FormsWait

-----------------------------------------------------------------------------

(* What a request carries.                                                 *)
LEMMA RequestRecord ==
    ASSUME NEW n \in Int, NEW kind \in TaskKinds, NEW jar \in Int,
           NEW arg \in Arguments
    PROVE  /\ Request(n, kind, jar, arg) \in TaskRecords
           /\ Request(n, kind, jar, arg).kind = kind /\ Request(n, kind, jar, arg).cookie = jar
           /\ Request(n, kind, jar, arg).arg = arg /\ Request(n, kind, jar, arg).kept
           /\ Request(n, kind, jar, arg).answer = "none"
BY DEF Request, TaskRecords

(* An unmounted component leaves no task that is read; the tasks of the    *)
(* others are as they were.                                                *)
LEMMA Unmounting ==
    ASSUME tasks \in SUBSET TaskRecords, NEW kinds
    PROVE  \A t \in Unmounted(kinds) :
               /\ t \in TaskRecords
               /\ t.kind \in kinds => t.kind = "signin" /\ ~t.kept
               /\ t.kind \notin kinds => t \in tasks
               /\ \E u \in tasks : /\ t.kind = u.kind /\ t.cookie = u.cookie
                                  /\ t.answer = u.answer /\ t.arg = u.arg
<1>1. ASSUME NEW t \in Unmounted(kinds)
      PROVE  /\ t \in TaskRecords
             /\ t.kind \in kinds => t.kind = "signin" /\ ~t.kept
             /\ t.kind \notin kinds => t \in tasks
             /\ \E u \in tasks : /\ t.kind = u.kind /\ t.cookie = u.cookie
                                /\ t.answer = u.answer /\ t.arg = u.arg
  <2>1. PICK u \in tasks : /\ u.kind \in kinds => u.kind = "signin"
                           /\ t = IF u.kind \in kinds THEN [u EXCEPT !.kept = FALSE] ELSE u
    BY DEF Unmounted
  <2>2. u \in TaskRecords   OBVIOUS
  <2>3. t \in TaskRecords /\ t.kind = u.kind /\ t.cookie = u.cookie /\ t.answer = u.answer /\ t.arg = u.arg
           /\ (u.kind \in kinds => ~t.kept) /\ (u.kind \notin kinds => t = u)
    BY <2>1, <2>2 DEF TaskRecords
  <2> QED BY <2>1, <2>3
<1> QED BY <1>1

(* Unmounting a component leaves the tasks of the others.                  *)
LEMMA UnmountingKeeps ==
    ASSUME NEW kinds, NEW t \in tasks, t.kind \notin kinds
    PROVE  t \in Unmounted(kinds)
BY DEF Unmounted

(* A screen as it is mounted, and the sign-in screen.                      *)
Fresh(s, place, shell, login, bounced) ==
    /\ s \in ScreenRecords /\ s.place = place /\ s.shell = shell /\ s.login = login
    /\ s.bounced = bounced /\ s.list.shown = "none" /\ s.form.submitting = FALSE /\ s.heard = 0
    /\ s.detail.shown = "none" /\ (place.name = "post" => s.detail.of = place.id)

FreshLogin(s, bounced) ==
    /\ s \in ScreenRecords /\ s.place = [name |-> "login"] /\ s.bounced = bounced
    /\ s.shell.sent = 0 /\ s.shell.session = "none" /\ s.login.submitting = FALSE
    /\ s.list.shown = "none" /\ s.form.submitting = FALSE /\ s.heard = 0 /\ s.detail.shown = "none"

(* Mounting a screen of the shell starts it empty.                         *)
LEMMA ScreenRecord ==
    ASSUME NEW place \in Places, NEW shell \in ShellRecords, NEW login \in FormRecords,
           NEW bounced \in Int
    PROVE  Fresh(Screen(place, shell, login, bounced), place, shell, login, bounced)
BY DEF Fresh, Screen, ScreenRecords, FormRecords, Places, NoList, NoForm, Arguments

(* Mounting Login starts it empty, and forgets the shell.                  *)
LEMMA LoginRecord ==
    ASSUME NEW bounced \in Int
    PROVE  FreshLogin(MountLogin(bounced), bounced)
<1>1. NoForm \in FormRecords /\ NoForm.submitting = FALSE   BY DEF NoForm, FormRecords
<1>2. NoShell \in ShellRecords /\ NoShell.sent = 0 /\ NoShell.session = "none"
  BY DEF NoShell, ShellRecords
<1>3. [name |-> "login"] \in Places   BY DEF Places
<1>4. Fresh(MountLogin(bounced), [name |-> "login"], NoShell, NoForm, bounced)
  BY <1>1, <1>2, <1>3, ScreenRecord DEF MountLogin
<1> QED BY <1>1, <1>2, <1>4 DEF Fresh, FreshLogin

(* What a screen asks for when it mounts.                                  *)
LEMMA ChildRequests ==
    ASSUME NEW place \in Places, NEW n \in Int, NEW jar \in Int
    PROVE  /\ IsFiniteSet(ChildRequest(place, n, jar))
           /\ \A t \in ChildRequest(place, n, jar) :
                 /\ t \in TaskRecords /\ t.cookie = jar /\ t.kept /\ t.answer = "none"
                 /\ \/ t.kind = "list" /\ t.arg = 0 /\ place.name = "posts"
                    \/ t.kind = "post" /\ place.name = "post" /\ t.arg = place.id
<1>1. place.name = "post" => place.id \in PostIds   BY DEF Places
<1>2. CASE place.name = "posts"
  <2>1. ChildRequest(place, n, jar) = {Request(n, "list", jar, 0)}   BY <1>2 DEF ChildRequest
  <2>2. "list" \in TaskKinds /\ 0 \in Arguments   BY DEF TaskKinds, ShellKinds, Arguments
  <2> DEFINE r == Request(n, "list", jar, 0)
  <2>3. /\ r \in TaskRecords /\ r.kind = "list" /\ r.cookie = jar /\ r.arg = 0 /\ r.kept
        /\ r.answer = "none"
    BY <2>2, RequestRecord
  <2> HIDE DEF r
  <2>4. ChildRequest(place, n, jar) = {r}   BY <2>1 DEF r
  <2> QED BY <1>2, <2>3, <2>4, FS_Singleton
<1>3. CASE place.name = "post"
  <2>1. ChildRequest(place, n, jar) = {Request(n, "post", jar, place.id)}   BY <1>3 DEF ChildRequest
  <2>2. "post" \in TaskKinds   BY DEF TaskKinds, ShellKinds
  <2> DEFINE r == Request(n, "post", jar, place.id)
  <2>3. /\ r \in TaskRecords /\ r.kind = "post" /\ r.cookie = jar /\ r.arg = place.id /\ r.kept
        /\ r.answer = "none"
    <3>1. place.id \in Arguments   BY <1>1, <1>3 DEF Arguments
    <3> QED BY <2>2, <3>1, RequestRecord
  <2> HIDE DEF r
  <2>4. ChildRequest(place, n, jar) = {r}   BY <2>1 DEF r
  <2> QED BY <1>1, <1>3, <2>3, <2>4, FS_Singleton
<1>4. CASE place.name \notin {"posts", "post"}
  <2>1. ChildRequest(place, n, jar) = {}   BY <1>4 DEF ChildRequest
  <2> QED BY <2>1, FS_EmptySet
<1> QED BY <1>2, <1>3, <1>4

(* Tasks that nobody reads keep no form waiting.                           *)
LEMMA NobodyWaits ==
    ASSUME NEW kind, \A t \in tasks : t.kept => t.kind # kind
    PROVE  Awaited(kind) = {}
BY DEF Awaited
-----------------------------------------------------------------------------

(* The sign-in screen of a visitor tells nothing wrong.                    *)
LEMMA BrowserStarts == BrowserInit => BrowserInv
<1> SUFFICES ASSUME BrowserInit PROVE BrowserInv   OBVIOUS
<1>1. PICK member \in Members : issued = <<[user |-> member, live |-> TRUE]>>   BY DEF BrowserInit
<1>2. issued \in Seq([user : Members, live : BOOLEAN]) /\ Len(issued) = 1   BY <1>1
<1>3. /\ screen \in ScreenRecords /\ screen.place.name = "login" /\ screen.shell.sent = 0
      /\ screen.shell.session = "none" /\ screen.login.submitting = FALSE /\ screen.bounced = -1
      /\ screen.list.shown = "none" /\ screen.form.submitting = FALSE /\ screen.detail.shown = "none"
  <2>1. -1 \in Int   OBVIOUS
  <2>2. FreshLogin(MountLogin(-1), -1)   BY <2>1, LoginRecord
  <2> QED BY <2>2 DEF BrowserInit, FreshLogin
<1>4. tasks = {} /\ requests = 0 /\ cookie \in {0, 1}   BY DEF BrowserInit
<1>5. BrowserTyped   BY <1>2, <1>3, <1>4 DEF BrowserTyped
<1>6. \A kind : Awaited(kind) = {}   BY <1>4 DEF Awaited
<1> QED BY <1>2, <1>3, <1>4, <1>5, <1>6, BrowserAssumption
    DEF BrowserInv, TasksSpeakOfIssued, ShellSpeaksOfIssued, BootIsOfTheShell, LoginAwaitsSignIn,
        ListIsOfTheScreen, DetailIsOfTheMount, FormsWait, FormWaits

(* A place is mounted with nothing awaited but what it asks for itself.    *)
LEMMA MountKeeps ==
    ASSUME BrowserInv, NEW place \in Places, NEW jar \in 0..Len(issued), NEW left,
           \A t \in left : /\ t \in TaskRecords /\ ~t.kept
                          /\ \E u \in tasks : /\ t.kind = u.kind /\ t.cookie = u.cookie
                                             /\ t.answer = u.answer /\ t.arg = u.arg,
           Mount(place, jar, left), cookie' = jar, issued' = issued
    PROVE  BrowserInv'
<1> DEFINE initial == {Request(requests + 1, "me", jar, 0)} \cup ChildRequest(place, requests + 2, jar)
<1>1. jar \in Int /\ requests \in Int   BY DEF BrowserInv, BrowserTyped
<1>2. ASSUME NEW t \in initial
      PROVE  /\ t \in TaskRecords /\ t.cookie = jar /\ t.kept /\ t.answer = "none"
             /\ \/ t.kind = "me"
                \/ t.kind = "list" /\ t.arg = 0
                \/ t.kind = "post" /\ place.name = "post" /\ t.arg = place.id
  <2>1. CASE t = Request(requests + 1, "me", jar, 0)
    <3>1. "me" \in TaskKinds /\ requests + 1 \in Int /\ 0 \in Arguments
      BY <1>1 DEF TaskKinds, ShellKinds, Arguments
    <3> QED BY <1>1, <2>1, <3>1, RequestRecord
  <2>2. CASE t \in ChildRequest(place, requests + 2, jar)
    <3>1. requests + 2 \in Int   BY <1>1
    <3> QED BY <1>1, <2>2, <3>1, ChildRequests
  <2> QED BY <1>2, <2>1, <2>2
<1>3. Cardinality(initial) \in Int
  <2>1. IsFiniteSet(ChildRequest(place, requests + 2, jar))   BY <1>1, ChildRequests
  <2>2. initial = ChildRequest(place, requests + 2, jar) \cup {Request(requests + 1, "me", jar, 0)}   OBVIOUS
  <2>3. IsFiniteSet(initial)   BY <2>1, <2>2, FS_AddElement
  <2> HIDE DEF initial
  <2> QED BY <2>3, FS_CardinalityType
<1>4. ASSUME NEW new \in {{}, initial}, tasks' = left \cup new, requests' \in Int,
             screen' \in ScreenRecords, screen'.place = place, screen'.bounced = -1,
             screen'.shell.sent \in 0..Len(issued), screen'.shell.session = "none",
             screen'.login.submitting = FALSE, screen'.list.shown = "none",
             screen'.form.submitting = FALSE, screen'.heard = 0, screen'.detail.shown = "none",
             place.name = "post" => screen'.detail.of = place.id,
             IF place.name = "login" THEN new = {} ELSE screen'.shell.sent = jar
      PROVE  BrowserInv'
  <2> HIDE DEF initial
  <2>1. \A t \in tasks' : t.kept => t \in new   BY <1>4
  <2>2. \A t \in new : t \in initial   BY <1>4
  <2>3. BrowserTyped'
    <3>1. tasks' \in SUBSET TaskRecords   BY <1>2, <1>4, <2>2
    <3> QED BY <1>4, <3>1 DEF BrowserInv, BrowserTyped
  <2>4. TasksSpeakOfIssued'
    <3>1. ASSUME NEW t \in left
          PROVE  /\ t.cookie \in 0..Len(issued)
                 /\ t.kind = "me" /\ t.answer = "ok" => t.cookie \in DOMAIN issued
                 /\ t.kind = "me" /\ t.answer = "unauthenticated" => ~IsLive(t.cookie)
                 /\ t.kind = "signin" /\ t.answer = "ok" => t.arg \in DOMAIN issued
                 /\ t.kind = "signin" /\ t.answer = "none" => t.arg \in Members
      BY DEF BrowserInv, TasksSpeakOfIssued
    <3>2. ASSUME NEW t \in new PROVE t.cookie \in 0..Len(issued) /\ t.answer = "none" /\ t.kind # "signin"
      BY <1>2, <2>2
    <3> QED BY <1>4, <3>1, <3>2 DEF TasksSpeakOfIssued, IsLive
  <2>5. ShellSpeaksOfIssued'   BY <1>4 DEF ShellSpeaksOfIssued
  <2>6. BootIsOfTheShell'   BY <1>2, <1>4, <2>1, <2>2 DEF BootIsOfTheShell, Awaited
  <2>7. LoginAwaitsSignIn'   BY <1>4, <2>1 DEF LoginAwaitsSignIn
  <2>8. ListIsOfTheScreen'   BY <1>2, <1>4, <2>1, <2>2 DEF ListIsOfTheScreen, Awaited
  <2>9. DetailIsOfTheMount'
    BY <1>2, <1>4, <2>1, <2>2, BrowserAssumption DEF DetailIsOfTheMount, Awaited
  <2>10. FormsWait'
    <3>1. \A t \in tasks' : t.kept => t.kind \notin {"create", "signin"}   BY <1>2, <2>1, <2>2
    <3> QED BY <1>4, <3>1 DEF FormsWait, FormWaits, Awaited
  <2> QED BY <2>3, <2>4, <2>5, <2>6, <2>7, <2>8, <2>9, <2>10 DEF BrowserInv
<1>5. CASE place.name = "login"
  <2>1. screen' = MountLogin(-1) /\ tasks' = left \cup {} /\ requests' = requests
    BY <1>5 DEF Mount
  <2>2. place = [name |-> "login"]   BY <1>5 DEF Places
  <2>4. /\ screen' \in ScreenRecords /\ screen'.place = place /\ screen'.bounced = -1
        /\ screen'.shell.sent = 0 /\ screen'.shell.session = "none" /\ screen'.login.submitting = FALSE
        /\ screen'.list.shown = "none" /\ screen'.form.submitting = FALSE /\ screen'.heard = 0
        /\ screen'.detail.shown = "none"
    <3>1. -1 \in Int   OBVIOUS
    <3>2. FreshLogin(MountLogin(-1), -1)   BY <3>1, LoginRecord
    <3> QED BY <2>1, <2>2, <3>2 DEF FreshLogin
  <2>5. 0 \in 0..Len(issued)   BY DEF BrowserInv, BrowserTyped
  <2>6. (tasks' = left \cup {}) /\ {} \in {{}, initial} /\ requests' \in Int   BY <1>1, <2>1
  <2> HIDE DEF initial
  <2> QED BY <1>4, <1>5, <2>4, <2>5, <2>6
<1>6. CASE place.name # "login"
  <2>1. screen' = MountShell(place, jar) /\ tasks' = left \cup initial
           /\ requests' = requests + Cardinality(initial)
    BY <1>6 DEF Mount
  <2>4. /\ screen' \in ScreenRecords /\ screen'.place = place /\ screen'.bounced = -1
        /\ screen'.shell.sent = jar /\ screen'.shell.session = "none" /\ screen'.login.submitting = FALSE
        /\ screen'.list.shown = "none" /\ screen'.form.submitting = FALSE /\ screen'.heard = 0
        /\ screen'.detail.shown = "none" /\ (place.name = "post" => screen'.detail.of = place.id)
    <3>1. NoForm \in FormRecords /\ NoForm.submitting = FALSE   BY DEF NoForm, FormRecords
    <3> DEFINE shell == [sent |-> jar, boot |-> "pending", session |-> "none"]
    <3>2. shell \in ShellRecords /\ shell.sent = jar /\ shell.session = "none" /\ -1 \in Int
      BY <1>1 DEF ShellRecords
    <3>3. screen' = Screen(place, shell, NoForm, -1)   BY <2>1 DEF MountShell
    <3> HIDE DEF shell
    <3>4. Fresh(Screen(place, shell, NoForm, -1), place, shell, NoForm, -1)
      BY <3>1, <3>2, ScreenRecord
    <3> QED BY <3>1, <3>2, <3>3, <3>4 DEF Fresh
  <2>5. initial \in {{}, initial} /\ requests' \in Int   BY <1>1, <1>3, <2>1
  <2> HIDE DEF initial
  <2> QED BY <1>4, <1>6, <2>1, <2>4, <2>5
<1> QED BY <1>5, <1>6

-----------------------------------------------------------------------------

(* An answered request leaves the others as they were.                     *)
LEMMA Answered ==
    ASSUME BrowserInv, NEW t \in tasks, tasks' = tasks \ {t}, issued' = issued
    PROVE  /\ tasks' \in SUBSET TaskRecords /\ TasksSpeakOfIssued'
           /\ \A kind : Awaited(kind)' \subseteq Awaited(kind)
           /\ \A kind : t.kind # kind \/ ~t.kept => Awaited(kind)' = Awaited(kind)
           /\ screen'.place = screen.place => LoginAwaitsSignIn'
<1>1. tasks' \in SUBSET TaskRecords   BY DEF BrowserInv, BrowserTyped
<1>2. TasksSpeakOfIssued'   BY DEF BrowserInv, TasksSpeakOfIssued, IsLive
<1>3. \A kind : Awaited(kind)' \subseteq Awaited(kind)   BY DEF Awaited
<1>4. \A kind : t.kind # kind \/ ~t.kept => Awaited(kind)' = Awaited(kind)   BY DEF Awaited
<1>5. screen'.place = screen.place => LoginAwaitsSignIn'   BY DEF BrowserInv, LoginAwaitsSignIn
<1> QED BY <1>1, <1>2, <1>3, <1>4, <1>5

(* A request that leaves with the jar's cookie speaks of issued sessions.  *)
LEMMA Sent ==
    ASSUME BrowserInv, NEW left, NEW r \in TaskRecords, r.cookie = cookie, r.answer = "none",
           r.kind = "signin" => r.arg \in Members,
           \A t \in left : t \in tasks, tasks' = left \cup {r}, issued' = issued
    PROVE  tasks' \in SUBSET TaskRecords /\ TasksSpeakOfIssued'
<1>1. tasks' \in SUBSET TaskRecords   BY DEF BrowserInv, BrowserTyped
<1>2. cookie \in 0..Len(issued)   BY DEF BrowserInv, BrowserTyped
<1>3. TasksSpeakOfIssued'   BY <1>2 DEF BrowserInv, TasksSpeakOfIssued, IsLive
<1> QED BY <1>1, <1>3

(* The answer of the list is of the last publication the screen heard of.  *)
LEMMA HearListKeeps ==
    ASSUME BrowserInv, NEW t \in tasks, t.kept, NEW outcome, HearList(t, outcome), issued' = issued
    PROVE  BrowserInv'
<1>1. tasks' = tasks \ {t} /\ t.kind = "list" /\ cookie' = cookie /\ requests' = requests
  BY DEF HearList
<1>2. t \in TaskRecords /\ screen \in ScreenRecords   BY DEF BrowserInv, BrowserTyped
<1>3. /\ screen' \in ScreenRecords /\ screen'.place = screen.place /\ screen'.shell = screen.shell
      /\ screen'.login = screen.login /\ screen'.bounced = screen.bounced
      /\ screen'.form = screen.form /\ screen'.heard = screen.heard /\ screen'.detail = screen.detail
      /\ screen'.list.asked = t.arg
  BY <1>2 DEF HearList, ScreenRecords, TaskRecords
<1>4. BrowserTyped'   BY <1>1, <1>3, Answered DEF BrowserInv, BrowserTyped
<1>5. t.arg = screen.heard   BY <1>1 DEF BrowserInv, ListIsOfTheScreen, Awaited
<1>6. ShellSpeaksOfIssued'   BY <1>3 DEF BrowserInv, ShellSpeaksOfIssued, IsLive
<1>7. BootIsOfTheShell'   BY <1>1, <1>3, Answered DEF BrowserInv, BootIsOfTheShell
<1>8. ListIsOfTheScreen'   BY <1>1, <1>3, <1>5, Answered DEF BrowserInv, ListIsOfTheScreen
<1>9. DetailIsOfTheMount'   BY <1>1, <1>3, Answered DEF BrowserInv, DetailIsOfTheMount
<1>10. FormsWait'
  <2>1. Awaited("create")' = Awaited("create") /\ Awaited("signin")' = Awaited("signin")
    BY <1>1, Answered
  <2> QED BY <1>3, <2>1 DEF BrowserInv, FormsWait, FormWaits, OneAwaited
<1> QED BY <1>1, <1>3, <1>4, <1>6, <1>7, <1>8, <1>9, <1>10, Answered DEF BrowserInv

(* The answer for a post is shown where the screen asked for that post.    *)
LEMMA HearPostKeeps ==
    ASSUME BrowserInv, NEW t \in tasks, t.kept, NEW outcome, HearPost(t, outcome), issued' = issued
    PROVE  BrowserInv'
<1>1. tasks' = tasks \ {t} /\ t.kind = "post" /\ cookie' = cookie /\ requests' = requests
  BY DEF HearPost
<1>2. t \in TaskRecords /\ screen \in ScreenRecords   BY DEF BrowserInv, BrowserTyped
<1>3. /\ screen' \in ScreenRecords /\ screen'.place = screen.place /\ screen'.shell = screen.shell
      /\ screen'.login = screen.login /\ screen'.bounced = screen.bounced
      /\ screen'.form = screen.form /\ screen'.heard = screen.heard /\ screen'.list = screen.list
      /\ screen'.detail.of = screen.detail.of /\ screen'.detail.shown \in {t.arg, "error"}
  BY <1>2 DEF HearPost, ScreenRecords, TaskRecords
<1>4. BrowserTyped'   BY <1>1, <1>3, Answered DEF BrowserInv, BrowserTyped
<1>5. t.arg = screen.detail.of   BY <1>1 DEF BrowserInv, DetailIsOfTheMount, Awaited
<1>6. ShellSpeaksOfIssued'   BY <1>3 DEF BrowserInv, ShellSpeaksOfIssued, IsLive
<1>7. BootIsOfTheShell'   BY <1>1, <1>3, Answered DEF BrowserInv, BootIsOfTheShell
<1>8. ListIsOfTheScreen'
  <2>1. Awaited("list")' = Awaited("list")   BY <1>1, Answered
  <2> QED BY <1>3, <2>1 DEF BrowserInv, ListIsOfTheScreen
<1>9. DetailIsOfTheMount'
  BY <1>1, <1>3, <1>5, Answered, BrowserAssumption DEF BrowserInv, DetailIsOfTheMount
<1>10. FormsWait'
  <2>1. Awaited("create")' = Awaited("create") /\ Awaited("signin")' = Awaited("signin")
    BY <1>1, Answered
  <2> QED BY <1>3, <2>1 DEF BrowserInv, FormsWait, FormWaits, OneAwaited
<1> QED BY <1>1, <1>3, <1>4, <1>6, <1>7, <1>8, <1>9, <1>10, Answered DEF BrowserInv

(* The answer to a task that is gone changes nothing on the screen.        *)
LEMMA HearNobodyKeeps ==
    ASSUME BrowserInv, NEW t \in tasks, HearNobody(t)
    PROVE  BrowserInv'
<1>1. tasks' = tasks \ {t} /\ ~t.kept /\ issued' = issued /\ screen' = screen /\ requests' = requests
  BY DEF HearNobody
<1>2. cookie' \in 0..Len(issued)
  BY DEF HearNobody, BrowserInv, BrowserTyped, TasksSpeakOfIssued
<1>3. BrowserTyped'   BY <1>1, <1>2, Answered DEF BrowserInv, BrowserTyped
<1>4. \A kind : Awaited(kind)' = Awaited(kind)   BY <1>1, Answered
<1>5. ShellSpeaksOfIssued'   BY <1>1 DEF BrowserInv, ShellSpeaksOfIssued, IsLive
<1>6. BootIsOfTheShell'   BY <1>1, <1>4 DEF BrowserInv, BootIsOfTheShell
<1>7. ListIsOfTheScreen'   BY <1>1, <1>4 DEF BrowserInv, ListIsOfTheScreen
<1>8. DetailIsOfTheMount'   BY <1>1, <1>4 DEF BrowserInv, DetailIsOfTheMount
<1>9. FormsWait'   BY <1>1, <1>4 DEF BrowserInv, FormsWait, FormWaits, OneAwaited
<1> QED BY <1>1, <1>3, <1>5, <1>6, <1>7, <1>8, <1>9, Answered DEF BrowserInv

(* The shell names the owner of the cookie it sent, and gives way to Login *)
(* only when the server knew no session by it.                             *)
LEMMA HearMeKeeps ==
    ASSUME BrowserInv, NEW t \in tasks, t.kept, NEW outcome \in Outcomes(t), HearMe(t, outcome),
           issued' = issued
    PROVE  BrowserInv'
<1>1. t.kind = "me" /\ cookie' = cookie /\ requests' = requests   BY DEF HearMe
<1>2. t \in TaskRecords /\ screen \in ScreenRecords   BY DEF BrowserInv, BrowserTyped
<1>3. t.cookie = screen.shell.sent   BY <1>1 DEF BrowserInv, BootIsOfTheShell, Awaited
<1>4. CASE screen' \in {[screen EXCEPT !.shell.boot = "ok",
                                       !.shell.session = issued[t.cookie].user],
                        [screen EXCEPT !.shell.boot = "error"]}
           /\ tasks' = tasks \ {t}
           /\ (screen' # [screen EXCEPT !.shell.boot = "error"] => t.answer = "ok")
  <2>1. t.answer = "ok" => t.cookie \in DOMAIN issued /\ issued[t.cookie].user \in Members
    <3>1. t.answer = "ok" => t.cookie \in DOMAIN issued   BY <1>1 DEF BrowserInv, TasksSpeakOfIssued
    <3>2. issued \in Seq([user : Members, live : BOOLEAN])   BY DEF BrowserInv, BrowserTyped
    <3>3. \A n \in DOMAIN issued : issued[n] \in [user : Members, live : BOOLEAN]
      <4> DEFINE R == [user : Members, live : BOOLEAN]
      <4>1. issued \in Seq(R)   BY <3>2
      <4> HIDE DEF R
      <4>2. \A n \in DOMAIN issued : issued[n] \in R   BY <4>1
      <4> QED BY <4>2 DEF R
    <3> QED BY <3>1, <3>3
  <2>2. /\ screen' \in ScreenRecords /\ screen'.place = screen.place /\ screen'.list = screen.list
        /\ screen'.login = screen.login /\ screen'.bounced = screen.bounced
        /\ screen'.form = screen.form /\ screen'.heard = screen.heard
        /\ screen'.detail = screen.detail /\ screen'.shell.sent = screen.shell.sent
        /\ \/ screen'.shell.session = screen.shell.session
           \/ t.answer = "ok" /\ screen'.shell.session = issued[t.cookie].user
    <3>1. CASE screen' = [screen EXCEPT !.shell.boot = "error"]
      BY <1>2, <3>1 DEF ScreenRecords, ShellRecords
    <3>2. CASE t.answer = "ok" /\ screen' = [screen EXCEPT !.shell.boot = "ok",
                                              !.shell.session = issued[t.cookie].user]
      <4> DEFINE user == issued[t.cookie].user
      <4>1. user \in Members /\ screen' = [screen EXCEPT !.shell.boot = "ok", !.shell.session = user]
        BY <2>1, <3>2
      <4> HIDE DEF user
      <4>2. /\ screen' \in ScreenRecords /\ screen'.place = screen.place
            /\ screen'.list = screen.list /\ screen'.login = screen.login
            /\ screen'.bounced = screen.bounced /\ screen'.form = screen.form
            /\ screen'.heard = screen.heard /\ screen'.detail = screen.detail
            /\ screen'.shell.sent = screen.shell.sent /\ screen'.shell.session = user
        BY <1>2, <4>1 DEF ScreenRecords, ShellRecords
      <4> QED BY <3>2, <4>2 DEF user
    <3> QED BY <1>4, <3>1, <3>2
  <2>3. BrowserTyped'   BY <1>1, <1>4, <2>2, Answered DEF BrowserInv, BrowserTyped
  <2>4. ShellSpeaksOfIssued'
    BY <1>3, <2>1, <2>2 DEF BrowserInv, ShellSpeaksOfIssued, IsLive
  <2>5. BootIsOfTheShell'   BY <1>4, <2>2, Answered DEF BrowserInv, BootIsOfTheShell
  <2>6. \A kind \in {"list", "post", "create", "signin"} : Awaited(kind)' = Awaited(kind)
    BY <1>1, <1>4, Answered
  <2>7. ListIsOfTheScreen'   BY <2>2, <2>6 DEF BrowserInv, ListIsOfTheScreen
  <2>8. DetailIsOfTheMount'   BY <2>2, <2>6 DEF BrowserInv, DetailIsOfTheMount
  <2>9. FormsWait'   BY <2>2, <2>6 DEF BrowserInv, FormsWait, FormWaits, OneAwaited
  <2> QED BY <1>4, <2>2, <2>3, <2>4, <2>5, <2>7, <2>8, <2>9, Answered DEF BrowserInv
<1>5. CASE t.answer = "unauthenticated" /\ screen' = MountLogin(screen.shell.sent)
           /\ tasks' = Unmounted(ShellKinds)
  <2>1. tasks \in SUBSET TaskRecords   BY DEF BrowserInv, BrowserTyped
  <2>2. screen.shell.sent \in 0..Len(issued) /\ ~IsLive(screen.shell.sent)
    BY <1>1, <1>3, <1>5 DEF BrowserInv, TasksSpeakOfIssued, ShellSpeaksOfIssued
  <2>3. FreshLogin(screen', screen.shell.sent)
    <3>1. screen.shell.sent \in Int   BY <2>2
    <3> QED BY <1>5, <3>1, LoginRecord
  <2>4. /\ screen' \in ScreenRecords /\ screen'.place = [name |-> "login"]
        /\ screen'.bounced = screen.shell.sent
        /\ screen'.shell.sent = 0 /\ screen'.shell.session = "none"
        /\ screen'.login.submitting = FALSE /\ screen'.list.shown = "none"
        /\ screen'.form.submitting = FALSE /\ screen'.detail.shown = "none"
    BY <2>3 DEF FreshLogin
  <2>5. \A u \in tasks : ~(u.kept /\ u.kind = "signin")
    <3>1. screen.place.name # "login"   BY <1>1 DEF BrowserInv, LoginAwaitsSignIn
    <3> QED BY <3>1 DEF BrowserInv, FormsWait, FormWaits, Awaited
  <2>6. \A u \in tasks' : u \in TaskRecords /\ ~u.kept
    <3>1. ASSUME NEW u \in tasks' PROVE u \in TaskRecords /\ ~u.kept
      <4>1. /\ u \in TaskRecords /\ (u.kind \in ShellKinds => ~u.kept)
            /\ (u.kind \notin ShellKinds => u \in tasks)
        BY <1>5, <2>1, Unmounting
      <4>2. u.kind \notin ShellKinds => u.kind = "signin"   BY <4>1 DEF TaskRecords, TaskKinds
      <4> QED BY <2>5, <4>1, <4>2
    <3> QED BY <3>1
  <2>7. \A kind : Awaited(kind)' = {}   BY <2>6 DEF Awaited
  <2>8. BrowserTyped'   BY <1>1, <2>4, <2>6 DEF BrowserInv, BrowserTyped
  <2>9. TasksSpeakOfIssued'
    <3>1. ASSUME NEW u \in tasks'
          PROVE  /\ u.cookie \in 0..Len(issued)
                 /\ u.kind = "me" /\ u.answer = "ok" => u.cookie \in DOMAIN issued
                 /\ u.kind = "me" /\ u.answer = "unauthenticated" => ~IsLive(u.cookie)
                 /\ u.kind = "signin" /\ u.answer = "ok" => u.arg \in DOMAIN issued
                 /\ u.kind = "signin" /\ u.answer = "none" => u.arg \in Members
      <4>1. PICK w \in tasks : /\ u.kind = w.kind /\ u.cookie = w.cookie
                               /\ u.answer = w.answer /\ u.arg = w.arg
        BY <1>5, <2>1, Unmounting
      <4> QED BY <4>1 DEF BrowserInv, TasksSpeakOfIssued
    <3> QED BY <3>1 DEF TasksSpeakOfIssued, IsLive
  <2>10. ShellSpeaksOfIssued'
    <3>1. 0 \in 0..Len(issued) /\ screen.shell.sent \in -1..Len(issued)
      BY <2>2 DEF BrowserInv, BrowserTyped
    <3> QED BY <2>2, <2>4, <3>1 DEF ShellSpeaksOfIssued, IsLive
  <2>11. BootIsOfTheShell' /\ LoginAwaitsSignIn'
    BY <2>6, <2>7 DEF BootIsOfTheShell, LoginAwaitsSignIn
  <2>12. ListIsOfTheScreen'   BY <2>4, <2>7 DEF ListIsOfTheScreen
  <2>13. DetailIsOfTheMount'   BY <2>4, <2>7, BrowserAssumption DEF DetailIsOfTheMount
  <2>14. FormsWait'   BY <2>4, <2>7 DEF FormsWait, FormWaits
  <2> QED BY <2>8, <2>9, <2>10, <2>11, <2>12, <2>13, <2>14 DEF BrowserInv
<1>6. outcome \in {"ok", "unauthenticated"} => t.answer = outcome
  BY DEF Outcomes
<1> QED BY <1>4, <1>5, <1>6 DEF HearMe

(* A publication restarts the read of the list; a failed one leaves it.    *)
LEMMA HearCreateKeeps ==
    ASSUME BrowserInv, NEW t \in tasks, t.kept, NEW outcome, HearCreate(t, outcome), issued' = issued
    PROVE  BrowserInv'
<1>1. t.kind = "create" /\ cookie' = cookie   BY DEF HearCreate
<1>2. t \in TaskRecords /\ screen \in ScreenRecords /\ requests \in Int /\ cookie \in Int
  BY DEF BrowserInv, BrowserTyped
<1>3. screen.place.name # "login"   BY <1>1 DEF BrowserInv, LoginAwaitsSignIn
<1>4. Awaited("create") \ {t} = {}
  <2>1. OneAwaited("create")   BY <1>1 DEF BrowserInv, FormsWait, FormWaits, Awaited
  <2> QED BY <1>1, <2>1 DEF OneAwaited, Awaited
<1>5. CASE /\ screen' = [screen EXCEPT !.form = NoForm, !.heard = @ + 1]
           /\ tasks' = RestartList(tasks \ {t}, cookie) /\ requests' = requests + 1
  <2>1. /\ screen' \in ScreenRecords /\ screen'.place = screen.place /\ screen'.shell = screen.shell
        /\ screen'.login = screen.login /\ screen'.bounced = screen.bounced
        /\ screen'.form.submitting = FALSE /\ screen'.detail = screen.detail
        /\ screen'.heard \in Int
    <3>1. NoForm \in FormRecords /\ NoForm.submitting = FALSE   BY DEF NoForm, FormRecords
    <3>2. screen.heard + 1 \in Int   BY <1>2 DEF ScreenRecords
    <3> QED BY <1>2, <1>5, <3>1, <3>2 DEF ScreenRecords
  <2> DEFINE r == Request(requests + 1, "list", cookie, screen'.heard)
             left == {u \in tasks \ {t} : u.kind # "list"}
  <2>2. /\ r \in TaskRecords /\ r.kind = "list" /\ r.cookie = cookie /\ r.arg = screen'.heard
        /\ r.kept /\ r.answer = "none"
    <3>1. "list" \in TaskKinds /\ requests + 1 \in Int /\ screen'.heard \in Arguments
      BY <1>2, <2>1 DEF TaskKinds, ShellKinds, Arguments
    <3> QED BY <1>2, <3>1, RequestRecord
  <2>3. tasks' = left \cup {r}   BY <1>5 DEF RestartList
  <2> HIDE DEF r
  <2>4. tasks' \in SUBSET TaskRecords /\ TasksSpeakOfIssued'
    <3>1. \A u \in left : u \in tasks   OBVIOUS
    <3> HIDE DEF left
    <3> QED BY <2>2, <2>3, <3>1, Sent
  <2>5. Awaited("list")' = {r}   BY <2>2, <2>3 DEF Awaited
  <2>6. \A kind : kind # "list" => Awaited(kind)' = Awaited(kind) \ {t}   BY <2>2, <2>3 DEF Awaited
  <2>7. Awaited("create")' = {} /\ Awaited("signin")' = Awaited("signin")
    BY <1>1, <1>4, <2>6 DEF Awaited
  <2>8. BrowserTyped'
    <3>1. requests' \in Int   BY <1>2, <1>5
    <3> QED BY <1>1, <2>1, <2>4, <3>1 DEF BrowserInv, BrowserTyped
  <2>9. ShellSpeaksOfIssued'   BY <2>1 DEF BrowserInv, ShellSpeaksOfIssued, IsLive
  <2>10. BootIsOfTheShell'   BY <2>1, <2>6 DEF BrowserInv, BootIsOfTheShell
  <2>11. LoginAwaitsSignIn'   BY <1>3, <2>1 DEF LoginAwaitsSignIn
  <2>12. ListIsOfTheScreen'   BY <2>2, <2>5 DEF ListIsOfTheScreen
  <2>13. DetailIsOfTheMount'   BY <2>1, <2>6 DEF BrowserInv, DetailIsOfTheMount
  <2>14. FormsWait'   BY <2>1, <2>7 DEF BrowserInv, FormsWait, FormWaits, OneAwaited
  <2> QED BY <2>4, <2>8, <2>9, <2>10, <2>11, <2>12, <2>13, <2>14 DEF BrowserInv
<1>6. CASE /\ screen' = [screen EXCEPT !.form = [submitting |-> FALSE, error |-> TRUE]]
           /\ tasks' = tasks \ {t} /\ requests' = requests
  <2>1. /\ screen' \in ScreenRecords /\ screen'.place = screen.place /\ screen'.shell = screen.shell
        /\ screen'.login = screen.login /\ screen'.bounced = screen.bounced
        /\ screen'.form.submitting = FALSE /\ screen'.detail = screen.detail
        /\ screen'.heard = screen.heard /\ screen'.list = screen.list
    BY <1>2, <1>6 DEF ScreenRecords, FormRecords
  <2>2. BrowserTyped'   BY <1>1, <1>6, <2>1, Answered DEF BrowserInv, BrowserTyped
  <2>3. ShellSpeaksOfIssued'   BY <2>1 DEF BrowserInv, ShellSpeaksOfIssued, IsLive
  <2>4. \A kind \in {"me", "list", "post", "signin"} : Awaited(kind)' = Awaited(kind)
    BY <1>1, <1>6, Answered
  <2>5. Awaited("create")' = {}   BY <1>4, <1>6 DEF Awaited
  <2>6. BootIsOfTheShell'   BY <2>1, <2>4 DEF BrowserInv, BootIsOfTheShell
  <2>7. ListIsOfTheScreen'   BY <2>1, <2>4 DEF BrowserInv, ListIsOfTheScreen
  <2>8. DetailIsOfTheMount'   BY <2>1, <2>4 DEF BrowserInv, DetailIsOfTheMount
  <2>9. FormsWait'   BY <2>1, <2>4, <2>5 DEF BrowserInv, FormsWait, FormWaits, OneAwaited
  <2> QED BY <1>6, <2>1, <2>2, <2>3, <2>6, <2>7, <2>8, <2>9, Answered DEF BrowserInv
<1> QED BY <1>5, <1>6 DEF HearCreate

(* A sign-in mounts the dashboard with its own cookie; a refused one       *)
(* unlocks the form.                                                       *)
LEMMA HearSignInKeeps ==
    ASSUME BrowserInv, NEW t \in tasks, t.kept, NEW outcome \in Outcomes(t),
           HearSignIn(t, outcome), issued' = issued
    PROVE  BrowserInv'
<1>1. t.kind = "signin"   BY DEF HearSignIn
<1>2. t \in TaskRecords /\ screen \in ScreenRecords   BY DEF BrowserInv, BrowserTyped
<1>3. Awaited("signin") \ {t} = {} /\ screen.login.submitting
  <2>1. OneAwaited("signin") /\ screen.login.submitting
    BY <1>1 DEF BrowserInv, FormsWait, FormWaits, Awaited
  <2> QED BY <1>1, <2>1 DEF OneAwaited, Awaited
<1>4. screen.place.name = "login"   BY <1>3 DEF BrowserInv, FormsWait
<1>5. \A u \in tasks \ {t} : ~u.kept   BY <1>3, <1>4 DEF BrowserInv, LoginAwaitsSignIn, Awaited
<1>6. CASE outcome = "ok" /\ cookie' = t.arg /\ Mount([name |-> "dashboard"], t.arg, tasks \ {t})
  <2>1. t.answer = "ok"   BY <1>6 DEF Outcomes
  <2>2. t.arg \in DOMAIN issued   BY <1>1, <2>1 DEF BrowserInv, TasksSpeakOfIssued
  <2>3. issued \in Seq([user : Members, live : BOOLEAN])   BY DEF BrowserInv, BrowserTyped
  <2>4. t.arg \in 0..Len(issued)   BY <2>2, <2>3
  <2>5. [name |-> "dashboard"] \in Places   BY DEF Places
  <2>6. \A u \in tasks \ {t} :
            /\ u \in TaskRecords /\ ~u.kept
            /\ \E w \in tasks : /\ u.kind = w.kind /\ u.cookie = w.cookie
                               /\ u.answer = w.answer /\ u.arg = w.arg
    BY <1>5 DEF BrowserInv, BrowserTyped
  <2> QED BY <1>6, <2>4, <2>5, <2>6, MountKeeps
<1>7. CASE /\ screen' = [screen EXCEPT !.login = [submitting |-> FALSE, error |-> TRUE]]
           /\ tasks' = tasks \ {t} /\ cookie' = cookie /\ requests' = requests
  <2>1. /\ screen' \in ScreenRecords /\ screen'.place = screen.place /\ screen'.shell = screen.shell
        /\ screen'.form = screen.form /\ screen'.bounced = screen.bounced
        /\ screen'.login.submitting = FALSE /\ screen'.detail = screen.detail
        /\ screen'.heard = screen.heard /\ screen'.list = screen.list
    BY <1>2, <1>7 DEF ScreenRecords, FormRecords
  <2>2. BrowserTyped'   BY <1>7, <2>1, Answered DEF BrowserInv, BrowserTyped
  <2>3. ShellSpeaksOfIssued'   BY <2>1 DEF BrowserInv, ShellSpeaksOfIssued, IsLive
  <2>4. \A kind \in {"me", "list", "post", "create"} : Awaited(kind)' = Awaited(kind)
    BY <1>1, <1>7, Answered
  <2>5. Awaited("signin")' = {}   BY <1>3, <1>7 DEF Awaited
  <2>6. BootIsOfTheShell'   BY <2>1, <2>4 DEF BrowserInv, BootIsOfTheShell
  <2>7. ListIsOfTheScreen'   BY <2>1, <2>4 DEF BrowserInv, ListIsOfTheScreen
  <2>8. DetailIsOfTheMount'   BY <2>1, <2>4 DEF BrowserInv, DetailIsOfTheMount
  <2>9. FormsWait'   BY <2>1, <2>4, <2>5 DEF BrowserInv, FormsWait, FormWaits, OneAwaited
  <2> QED BY <1>7, <2>1, <2>2, <2>3, <2>6, <2>7, <2>8, <2>9, Answered DEF BrowserInv
<1> QED BY <1>6, <1>7 DEF HearSignIn

-----------------------------------------------------------------------------

(* The sessions only grow, and none comes back to life.                    *)
LEMMA IssuedGrows ==
    ASSUME BrowserInv, Len(issued') \in Nat, DOMAIN issued' = 1..Len(issued'),
           Len(issued') >= Len(issued),
           \A n \in DOMAIN issued : /\ issued'[n].user = issued[n].user
                                    /\ issued'[n].live => issued[n].live
    PROVE  /\ 0..Len(issued) \subseteq 0..Len(issued') /\ DOMAIN issued \subseteq DOMAIN issued'
           /\ \A n \in -1..Len(issued) : ~IsLive(n) => ~IsLive(n)'
<1>1. Len(issued) \in Nat /\ DOMAIN issued = 1..Len(issued)   BY DEF BrowserInv, BrowserTyped
<1>2. 0..Len(issued) \subseteq 0..Len(issued') /\ DOMAIN issued \subseteq DOMAIN issued'   BY <1>1
<1>3. ASSUME NEW n \in -1..Len(issued), ~IsLive(n) PROVE ~IsLive(n)'
  <2>1. CASE n \in DOMAIN issued   BY <1>3, <2>1 DEF IsLive
  <2>2. CASE n \notin DOMAIN issued
    <3>1. n \notin DOMAIN issued'   BY <1>1, <1>3, <2>2
    <3> QED BY <3>1 DEF IsLive
  <2> QED BY <2>1, <2>2
<1> QED BY <1>2, <1>3

(* What the shell shows of a session outlives its revocation.              *)
LEMMA ShellOutlives ==
    ASSUME BrowserInv, screen' = screen, Len(issued') \in Nat, DOMAIN issued' = 1..Len(issued'),
           Len(issued') >= Len(issued),
           \A n \in DOMAIN issued : /\ issued'[n].user = issued[n].user
                                    /\ issued'[n].live => issued[n].live
    PROVE  ShellSpeaksOfIssued'
<1>1. /\ 0..Len(issued) \subseteq 0..Len(issued') /\ DOMAIN issued \subseteq DOMAIN issued'
      /\ \A n \in -1..Len(issued) : ~IsLive(n) => ~IsLive(n)'
  BY IssuedGrows
<1>2. Len(issued) \in Nat   BY DEF BrowserInv, BrowserTyped
<1>3. screen.bounced \in -1..Len(issued')   BY <1>2 DEF BrowserInv, ShellSpeaksOfIssued
<1>4. screen.bounced # -1 => ~IsLive(screen.bounced)'
  BY <1>1 DEF BrowserInv, ShellSpeaksOfIssued
<1>5. screen.shell.sent \in 0..Len(issued')   BY <1>1 DEF BrowserInv, ShellSpeaksOfIssued
<1>6. screen.shell.session # "none" =>
          screen.shell.sent \in DOMAIN issued' /\ issued'[screen.shell.sent].user = screen.shell.session
  BY <1>1 DEF BrowserInv, ShellSpeaksOfIssued
<1> QED BY <1>3, <1>4, <1>5, <1>6 DEF ShellSpeaksOfIssued

(* A revocation takes no session away, and revives none.                   *)
LEMMA RevokeKeeps ==
    ASSUME BrowserInv, NEW session, Revoke(session)
    PROVE  BrowserInv'
<1>1. /\ session \in DOMAIN issued /\ cookie' = cookie /\ screen' = screen /\ tasks' = tasks
      /\ requests' = requests /\ issued' = [issued EXCEPT ![session].live = FALSE]
  BY DEF Revoke, IsLive
<1> DEFINE R == [user : Members, live : BOOLEAN]
<1>2. issued \in Seq(R)   BY DEF BrowserInv, BrowserTyped
<1>3. \A r \in R : [r EXCEPT !.live = FALSE] \in R /\ [r EXCEPT !.live = FALSE].user = r.user
                   /\ [r EXCEPT !.live = FALSE].live = FALSE
  OBVIOUS
<1>4. issued' = [issued EXCEPT ![session] = [issued[session] EXCEPT !.live = FALSE]]   BY <1>1
<1> HIDE DEF R
<1>5. issued[session] \in R   BY <1>1, <1>2
<1>6. issued' \in Seq(R) /\ Len(issued') = Len(issued) /\ DOMAIN issued' = DOMAIN issued
      /\ Len(issued) \in Nat /\ DOMAIN issued = 1..Len(issued)
  <2> DEFINE revoked == [issued[session] EXCEPT !.live = FALSE]
  <2>1. revoked \in R   BY <1>3, <1>5
  <2>3. issued' = [issued EXCEPT ![session] = revoked]   BY <1>4
  <2> HIDE DEF revoked
  <2>2. Len(issued) \in Nat /\ DOMAIN issued = 1..Len(issued)   BY <1>2
  <2>4. session \in 1..Len(issued)   BY <1>1, <2>2
  <2>5. [issued EXCEPT ![session] = revoked] \in Seq(R)
           /\ Len([issued EXCEPT ![session] = revoked]) = Len(issued)
    BY <1>2, <2>1, <2>4, ExceptSeq
  <2>6. issued' \in Seq(R) /\ Len(issued') = Len(issued)   BY <2>3, <2>5
  <2> QED BY <2>2, <2>6
<1>7. \A n \in DOMAIN issued : /\ issued'[n].user = issued[n].user
                               /\ issued'[n].live => issued[n].live
  BY <1>1, <1>3, <1>4, <1>5
<1>8. BrowserTyped'   BY <1>1, <1>6 DEF BrowserInv, BrowserTyped, R
<1>9. /\ Len(issued') \in Nat /\ DOMAIN issued' = 1..Len(issued') /\ Len(issued') >= Len(issued)
  BY <1>6
<1>10. ShellSpeaksOfIssued'   BY <1>1, <1>7, <1>9, ShellOutlives
<1>11. /\ 0..Len(issued) \subseteq 0..Len(issued') /\ DOMAIN issued \subseteq DOMAIN issued'
       /\ \A n \in -1..Len(issued) : ~IsLive(n) => ~IsLive(n)'
  BY <1>7, <1>9, IssuedGrows
<1>12. TasksSpeakOfIssued'
  <2>1. \A n : n \in 0..Len(issued) => n \in -1..Len(issued)   BY <1>6
  <2> QED BY <1>1, <1>11, <2>1 DEF BrowserInv, TasksSpeakOfIssued
<1> QED BY <1>1, <1>8, <1>10, <1>12
    DEF BrowserInv, BootIsOfTheShell, LoginAwaitsSignIn, ListIsOfTheScreen, DetailIsOfTheMount,
        FormsWait, FormWaits, OneAwaited, Awaited

(* The server answers what it was asked: a sign-in issues the session its  *)
(* answer names, and every other answer is of the cookie that was sent.    *)
LEMMA ServeKeeps ==
    ASSUME BrowserInv, NEW t \in tasks, Serve(t)
    PROVE  BrowserInv'
<1>1. PICK answer \in TaskAnswers :
          /\ t.kind # "signin" => (answer = "ok") = IsLive(t.cookie) \/ answer = "error"
          /\ tasks' = (tasks \ {t}) \cup {[t EXCEPT !.answer = answer,
                          !.arg = IF t.kind = "signin" /\ answer = "ok"
                                  THEN Len(issued) + 1 ELSE t.arg]}
          /\ issued' = IF t.kind = "signin" /\ answer = "ok"
                       THEN Append(issued, [user |-> t.arg, live |-> TRUE]) ELSE issued
  BY DEF Serve, TaskAnswers
<1>2. cookie' = cookie /\ screen' = screen /\ requests' = requests   BY DEF Serve
<1> DEFINE R == [user : Members, live : BOOLEAN]
<1>3. issued \in Seq(R) /\ t \in TaskRecords   BY DEF BrowserInv, BrowserTyped
<1>4. t.kind = "signin" => [user |-> t.arg, live |-> TRUE] \in R
  <2>1. t.kind = "signin" => t.arg \in Members   BY DEF Serve, BrowserInv, TasksSpeakOfIssued
  <2> QED BY <2>1
<1>5. /\ issued' \in Seq(R) /\ Len(issued') \in Nat /\ DOMAIN issued' = 1..Len(issued')
      /\ Len(issued') >= Len(issued) /\ \A n \in DOMAIN issued : issued'[n] = issued[n]
      /\ (t.kind = "signin" /\ answer = "ok" => Len(issued) + 1 \in DOMAIN issued')
  <2> HIDE DEF R
  <2> DEFINE session == [user |-> t.arg, live |-> TRUE]
  <2>1. CASE t.kind = "signin" /\ answer = "ok"
    <3>1. session \in R /\ issued' = Append(issued, session)   BY <1>1, <1>4, <2>1
    <3> HIDE DEF session
    <3> QED BY <1>3, <3>1
  <2>2. CASE ~(t.kind = "signin" /\ answer = "ok")   BY <1>1, <1>3, <2>2
  <2> QED BY <2>1, <2>2
<1>6. PICK r \in TaskRecords :
          /\ r.kind = t.kind /\ r.cookie = t.cookie /\ r.kept = t.kept /\ r.answer = answer
          /\ r.arg = IF t.kind = "signin" /\ answer = "ok" THEN Len(issued) + 1 ELSE t.arg
          /\ tasks' = (tasks \ {t}) \cup {r}
  <2> DEFINE arg == IF t.kind = "signin" /\ answer = "ok" THEN Len(issued) + 1 ELSE t.arg
             s == [t EXCEPT !.answer = answer, !.arg = arg]
  <2>1. arg \in Arguments   BY <1>3 DEF Arguments, TaskRecords
  <2>2. tasks' = (tasks \ {t}) \cup {s}   BY <1>1
  <2> HIDE DEF arg
  <2>3. /\ s \in TaskRecords /\ s.kind = t.kind /\ s.cookie = t.cookie /\ s.kept = t.kept
        /\ s.answer = answer /\ s.arg = arg
    BY <1>3, <2>1 DEF TaskRecords
  <2> HIDE DEF s
  <2> QED BY <2>2, <2>3 DEF arg
<1>7. tasks' = (tasks \ {t}) \cup {r}   BY <1>6
<1>8. ~(t.kind = "signin" /\ answer = "ok") => r.arg = t.arg   BY <1>6
<1>9. t.kind = "signin" /\ answer = "ok" => r.arg \in DOMAIN issued'   BY <1>5, <1>6
<1>10. \A n \in DOMAIN issued : /\ issued'[n].user = issued[n].user
                                /\ issued'[n].live => issued[n].live
  BY <1>5
<1>11. /\ 0..Len(issued) \subseteq 0..Len(issued') /\ DOMAIN issued \subseteq DOMAIN issued'
       /\ \A n \in -1..Len(issued) : ~IsLive(n) => ~IsLive(n)'
  BY <1>5, <1>10, IssuedGrows
<1>12. BrowserTyped'
  <2>1. tasks' \in SUBSET TaskRecords   BY <1>6, <1>7 DEF BrowserInv, BrowserTyped
  <2>2. cookie \in 0..Len(issued')   BY <1>11 DEF BrowserInv, BrowserTyped
  <2> QED BY <1>2, <1>5, <2>1, <2>2 DEF BrowserInv, BrowserTyped
<1>13. TasksSpeakOfIssued'
  <2>1. \A n : n \in 0..Len(issued) => n \in -1..Len(issued)   BY <1>3
  <2>2. ASSUME NEW u \in tasks
        PROVE  /\ u.cookie \in 0..Len(issued')
               /\ u.kind = "me" /\ u.answer = "ok" => u.cookie \in DOMAIN issued'
               /\ u.kind = "me" /\ u.answer = "unauthenticated" => ~IsLive(u.cookie)'
               /\ u.kind = "signin" /\ u.answer = "ok" => u.arg \in DOMAIN issued'
               /\ u.kind = "signin" /\ u.answer = "none" => u.arg \in Members
    BY <1>11, <2>1 DEF BrowserInv, TasksSpeakOfIssued
  <2>3. /\ r.cookie \in 0..Len(issued')
        /\ r.kind = "me" /\ r.answer = "ok" => r.cookie \in DOMAIN issued'
        /\ r.kind = "me" /\ r.answer = "unauthenticated" => ~IsLive(r.cookie)'
        /\ r.kind = "signin" /\ r.answer = "ok" => r.arg \in DOMAIN issued'
        /\ r.answer # "none"
    <3>1. r.cookie \in 0..Len(issued) /\ r.cookie \in -1..Len(issued)
      BY <1>6, <2>1 DEF BrowserInv, TasksSpeakOfIssued
    <3>2. r.kind = "me" /\ r.answer = "ok" => IsLive(r.cookie)   BY <1>1, <1>6
    <3>3. r.kind = "me" /\ r.answer = "unauthenticated" => ~IsLive(r.cookie)   BY <1>1, <1>6
    <3> QED BY <1>6, <1>9, <1>11, <3>1, <3>2, <3>3 DEF IsLive, TaskAnswers
  <2> QED BY <1>7, <2>2, <2>3 DEF TasksSpeakOfIssued, IsLive
<1>14. ShellSpeaksOfIssued'   BY <1>2, <1>5, <1>10, ShellOutlives
<1>15. \A kind : Awaited(kind)' = IF t \in Awaited(kind)
                                  THEN (Awaited(kind) \ {t}) \cup {r} ELSE Awaited(kind)
  BY <1>6, <1>7 DEF Awaited
<1>16. BootIsOfTheShell'   BY <1>2, <1>6, <1>15 DEF BrowserInv, BootIsOfTheShell
<1>17. LoginAwaitsSignIn'   BY <1>2, <1>6, <1>7 DEF BrowserInv, LoginAwaitsSignIn
<1>18. ListIsOfTheScreen'
  <2>1. t \in Awaited("list") => r.arg = t.arg   BY <1>8 DEF Awaited
  <2> QED BY <1>2, <1>15, <2>1 DEF BrowserInv, ListIsOfTheScreen
<1>19. DetailIsOfTheMount'
  <2>1. t \in Awaited("post") => r.arg = t.arg   BY <1>8 DEF Awaited
  <2> QED BY <1>2, <1>15, <2>1 DEF BrowserInv, DetailIsOfTheMount
<1>20. \A kind : /\ Awaited(kind) = {} => Awaited(kind)' = {}
                 /\ OneAwaited(kind) => OneAwaited(kind)'
  BY <1>15 DEF OneAwaited
<1>21. FormsWait'   BY <1>2, <1>20 DEF BrowserInv, FormsWait, FormWaits
<1> QED BY <1>12, <1>13, <1>14, <1>16, <1>17, <1>18, <1>19, <1>21 DEF BrowserInv

-----------------------------------------------------------------------------

(* Loading a page mounts it with nothing of the page before.               *)
LEMMA LoadKeeps ==
    ASSUME BrowserInv, NEW place \in Places, Load(place)
    PROVE  BrowserInv'
<1> DEFINE left == Unmounted(ShellKinds \cup {"signin"})
<1>1. Mount(place, cookie, left) /\ cookie' = cookie /\ issued' = issued   BY DEF Load
<1>2. tasks \in SUBSET TaskRecords /\ cookie \in 0..Len(issued)   BY DEF BrowserInv, BrowserTyped
<1>3. \A t \in left : /\ t \in TaskRecords /\ (t.kind \in ShellKinds \cup {"signin"} => ~t.kept)
                      /\ \E u \in tasks : /\ t.kind = u.kind /\ t.cookie = u.cookie
                                         /\ t.answer = u.answer /\ t.arg = u.arg
  BY <1>2, Unmounting
<1>4. \A t \in left : t.kind \in ShellKinds \cup {"signin"}   BY <1>3 DEF TaskRecords, TaskKinds
<1> HIDE DEF left
<1> QED BY <1>1, <1>2, <1>3, <1>4, MountKeeps

(* A link replaces the screen and its tasks; the shell and its own stay.   *)
LEMMA FollowKeeps ==
    ASSUME BrowserInv, NEW place \in Places, Follow(place)
    PROVE  BrowserInv'
<1> DEFINE initial == ChildRequest(place, requests + 1, cookie)
<1>1. /\ screen.place.name # "login" /\ place.name # "login"
      /\ screen' = Screen(place, screen.shell, screen.login, screen.bounced)
      /\ tasks' = Unmounted(ChildKinds) \cup initial /\ requests' = requests + Cardinality(initial)
      /\ cookie' = cookie /\ issued' = issued
  BY DEF Follow
<1>2. /\ tasks \in SUBSET TaskRecords /\ screen \in ScreenRecords /\ requests \in Int
      /\ cookie \in 0..Len(issued) /\ cookie \in Int
  BY DEF BrowserInv, BrowserTyped
<1>3. IsFiniteSet(initial)
      /\ \A t \in initial : /\ t \in TaskRecords /\ t.cookie = cookie /\ t.kept /\ t.answer = "none"
                          /\ \/ t.kind = "list" /\ t.arg = 0 /\ place.name = "posts"
                             \/ t.kind = "post" /\ place.name = "post" /\ t.arg = place.id
  <2>1. requests + 1 \in Int   BY <1>2
  <2> QED BY <1>2, <2>1, ChildRequests
<1> HIDE DEF initial
<1>4. Fresh(screen', place, screen.shell, screen.login, screen.bounced)
  <2>1. screen.shell \in ShellRecords /\ screen.login \in FormRecords /\ screen.bounced \in Int
    BY <1>2 DEF ScreenRecords
  <2>2. Fresh(Screen(place, screen.shell, screen.login, screen.bounced),
              place, screen.shell, screen.login, screen.bounced)
    BY <2>1, ScreenRecord
  <2> QED BY <1>1, <2>2
<1>5. /\ screen' \in ScreenRecords /\ screen'.place = place /\ screen'.shell = screen.shell
      /\ screen'.login = screen.login /\ screen'.bounced = screen.bounced
      /\ screen'.list.shown = "none" /\ screen'.form.submitting = FALSE /\ screen'.heard = 0
      /\ screen'.detail.shown = "none" /\ (place.name = "post" => screen'.detail.of = place.id)
  BY <1>4 DEF Fresh
<1>6. \A t \in Unmounted(ChildKinds) : /\ t \in TaskRecords
                                       /\ t.kept => t \in tasks /\ t.kind \in {"me", "signin"}
  <2>1. ASSUME NEW t \in Unmounted(ChildKinds)
        PROVE  /\ t \in TaskRecords
               /\ t.kept => t \in tasks /\ t.kind \in {"me", "signin"}
    <3>1. /\ t \in TaskRecords /\ (t.kind \in ChildKinds => ~t.kept)
          /\ (t.kind \notin ChildKinds => t \in tasks)
      BY <1>2, Unmounting
    <3>2. t.kind \notin ChildKinds => t.kind \in {"me", "signin"}
      BY <3>1 DEF TaskRecords, TaskKinds, ShellKinds, ChildKinds
    <3> QED BY <3>1, <3>2
  <2> QED BY <2>1
<1>7. BrowserTyped'
  <2>1. requests' \in Int   BY <1>1, <1>2, <1>3, FS_CardinalityType
  <2>2. tasks' \in SUBSET TaskRecords   BY <1>1, <1>3, <1>6
  <2> QED BY <1>1, <1>5, <2>1, <2>2 DEF BrowserInv, BrowserTyped
<1>8. TasksSpeakOfIssued'
  <2>1. ASSUME NEW u \in Unmounted(ChildKinds)
        PROVE  /\ u.cookie \in 0..Len(issued)
               /\ u.kind = "me" /\ u.answer = "ok" => u.cookie \in DOMAIN issued
               /\ u.kind = "me" /\ u.answer = "unauthenticated" => ~IsLive(u.cookie)
               /\ u.kind = "signin" /\ u.answer = "ok" => u.arg \in DOMAIN issued
               /\ u.kind = "signin" /\ u.answer = "none" => u.arg \in Members
    <3>1. PICK w \in tasks : /\ u.kind = w.kind /\ u.cookie = w.cookie
                             /\ u.answer = w.answer /\ u.arg = w.arg
      BY <1>2, Unmounting
    <3> QED BY <3>1 DEF BrowserInv, TasksSpeakOfIssued
  <2>2. \A u \in initial : u.cookie \in 0..Len(issued) /\ u.answer = "none" /\ u.kind # "signin"
    BY <1>2, <1>3
  <2> QED BY <1>1, <2>1, <2>2 DEF TasksSpeakOfIssued, IsLive
<1>9. ShellSpeaksOfIssued'   BY <1>1, <1>5 DEF BrowserInv, ShellSpeaksOfIssued, IsLive
<1>10. BootIsOfTheShell'
  <2>1. \A t \in Awaited("me")' : t \in Awaited("me")   BY <1>1, <1>3, <1>6 DEF Awaited
  <2> QED BY <1>5, <2>1 DEF BrowserInv, BootIsOfTheShell
<1>11. LoginAwaitsSignIn'   BY <1>1, <1>5 DEF LoginAwaitsSignIn
<1>12. ListIsOfTheScreen'
  <2>1. \A t \in Awaited("list")' : t.arg = 0   BY <1>1, <1>3, <1>6 DEF Awaited
  <2> QED BY <1>5, <2>1 DEF ListIsOfTheScreen
<1>13. DetailIsOfTheMount'
  <2>1. \A t \in Awaited("post")' : place.name = "post" /\ t.arg = place.id
    BY <1>1, <1>3, <1>6 DEF Awaited
  <2> QED BY <1>5, <2>1, BrowserAssumption DEF DetailIsOfTheMount
<1>14. FormsWait'
  <2>1. Awaited("create")' = {}   BY <1>1, <1>3, <1>6 DEF Awaited
  <2>2. screen.login.submitting = FALSE /\ Awaited("signin") = {}
    BY <1>1, <1>2 DEF BrowserInv, FormsWait, FormWaits, ScreenRecords, FormRecords
  <2>3. Awaited("signin")' = {}   BY <1>1, <1>3, <1>6, <2>2 DEF Awaited
  <2> QED BY <1>5, <2>1, <2>2, <2>3 DEF FormsWait, FormWaits
<1> QED BY <1>7, <1>8, <1>9, <1>10, <1>11, <1>12, <1>13, <1>14 DEF BrowserInv

(* The history changes the post in the route, and nothing the screen shows. *)
LEMMA JumpKeeps ==
    ASSUME BrowserInv, NEW id \in PostIds, JumpToPost(id)
    PROVE  BrowserInv'
<1>1. screen \in ScreenRecords   BY DEF BrowserInv, BrowserTyped
<1>2. screen.place.name = "post" /\ screen' = [screen EXCEPT !.place.id = id]   BY DEF JumpToPost
<1>3. [screen.place EXCEPT !.id = id] \in Places /\ [screen.place EXCEPT !.id = id].name = "post"
  <2>1. screen.place \in Places   BY <1>1 DEF ScreenRecords
  <2>2. PICK p \in PostIds : screen.place = [name |-> "post", id |-> p]   BY <1>2, <2>1 DEF Places
  <2>3. [screen.place EXCEPT !.id = id] = [name |-> "post", id |-> id]   BY <2>2
  <2> QED BY <2>3 DEF Places
<1>4. /\ screen' \in ScreenRecords /\ screen'.place.name = "post" /\ screen'.shell = screen.shell
      /\ screen'.login = screen.login /\ screen'.bounced = screen.bounced
      /\ screen'.form = screen.form /\ screen'.heard = screen.heard /\ screen'.list = screen.list
      /\ screen'.detail = screen.detail
  <2> DEFINE place == [screen.place EXCEPT !.id = id]
  <2>1. place \in Places /\ place.name = "post" /\ screen' = [screen EXCEPT !.place = place]
    BY <1>1, <1>2, <1>3 DEF ScreenRecords
  <2> HIDE DEF place
  <2> QED BY <1>1, <2>1 DEF ScreenRecords
<1>5. tasks' = tasks /\ cookie' = cookie /\ issued' = issued /\ requests' = requests
  BY DEF JumpToPost
<1>6. BrowserTyped'   BY <1>4, <1>5 DEF BrowserInv, BrowserTyped
<1>7. \A kind : Awaited(kind)' = Awaited(kind)   BY <1>5 DEF Awaited
<1>8. FormsWait'   BY <1>2, <1>4, <1>7 DEF BrowserInv, FormsWait, FormWaits, OneAwaited
<1>9. ShellSpeaksOfIssued' /\ TasksSpeakOfIssued'
  BY <1>4, <1>5 DEF BrowserInv, ShellSpeaksOfIssued, TasksSpeakOfIssued, IsLive
<1>10. BootIsOfTheShell' /\ LoginAwaitsSignIn' /\ ListIsOfTheScreen' /\ DetailIsOfTheMount'
  BY <1>4, <1>5, <1>7 DEF BrowserInv, BootIsOfTheShell, LoginAwaitsSignIn, ListIsOfTheScreen,
                          DetailIsOfTheMount
<1> QED BY <1>6, <1>8, <1>9, <1>10 DEF BrowserInv

(* A retry cancels the read under way and asks as of the same publication. *)
LEMMA RetryKeeps ==
    ASSUME BrowserInv, Retry
    PROVE  BrowserInv'
<1>1. /\ screen.place.name = "posts" /\ screen.list.shown = "error" /\ screen' = screen
      /\ tasks' = RestartList(tasks, cookie) /\ requests' = requests + 1
      /\ cookie' = cookie /\ issued' = issued
  BY DEF Retry
<1>2. screen \in ScreenRecords /\ requests \in Int /\ cookie \in Int   BY DEF BrowserInv, BrowserTyped
<1> DEFINE r == Request(requests + 1, "list", cookie, screen'.heard)
           left == {u \in tasks : u.kind # "list"}
<1>3. /\ r \in TaskRecords /\ r.kind = "list" /\ r.cookie = cookie /\ r.arg = screen'.heard
      /\ r.kept /\ r.answer = "none"
  <2>1. "list" \in TaskKinds /\ requests + 1 \in Int /\ screen'.heard \in Arguments
    BY <1>1, <1>2 DEF TaskKinds, ShellKinds, Arguments, ScreenRecords
  <2> QED BY <1>2, <2>1, RequestRecord
<1>4. tasks' = left \cup {r}   BY <1>1 DEF RestartList
<1> HIDE DEF r
<1>5. tasks' \in SUBSET TaskRecords /\ TasksSpeakOfIssued'
  <2>1. \A u \in left : u \in tasks   OBVIOUS
  <2> HIDE DEF left
  <2> QED BY <1>1, <1>3, <1>4, <2>1, Sent
<1>6. Awaited("list")' = {r}   BY <1>3, <1>4 DEF Awaited
<1>7. \A kind : kind # "list" => Awaited(kind)' = Awaited(kind)   BY <1>3, <1>4 DEF Awaited
<1>8. BrowserTyped'
  <2>1. requests' \in Int   BY <1>1, <1>2
  <2> QED BY <1>1, <1>5, <2>1 DEF BrowserInv, BrowserTyped
<1>9. ShellSpeaksOfIssued' /\ LoginAwaitsSignIn'
  BY <1>1 DEF BrowserInv, ShellSpeaksOfIssued, LoginAwaitsSignIn, IsLive
<1>10. BootIsOfTheShell' /\ DetailIsOfTheMount'
  BY <1>1, <1>7 DEF BrowserInv, BootIsOfTheShell, DetailIsOfTheMount
<1>11. ListIsOfTheScreen'   BY <1>3, <1>6 DEF ListIsOfTheScreen
<1>12. FormsWait'
  <2>1. Awaited("create")' = Awaited("create") /\ Awaited("signin")' = Awaited("signin")
    BY <1>7
  <2> QED BY <1>1, <2>1 DEF BrowserInv, FormsWait, FormWaits, OneAwaited
<1> QED BY <1>5, <1>8, <1>9, <1>10, <1>11, <1>12 DEF BrowserInv

(* A form that is submitted is locked, and waits for the one it sent.      *)
LEMMA PublishKeeps ==
    ASSUME BrowserInv, Publish
    PROVE  BrowserInv'
<1>1. /\ screen.place.name = "posts" /\ ~screen.form.submitting
      /\ screen' = [screen EXCEPT !.form = [submitting |-> TRUE, error |-> FALSE]]
      /\ tasks' = tasks \cup {Request(requests + 1, "create", cookie, 0)}
      /\ requests' = requests + 1 /\ cookie' = cookie /\ issued' = issued
  BY DEF Publish
<1>2. screen \in ScreenRecords /\ requests \in Int /\ cookie \in Int   BY DEF BrowserInv, BrowserTyped
<1>3. /\ screen' \in ScreenRecords /\ screen'.place = screen.place /\ screen'.shell = screen.shell
      /\ screen'.login = screen.login /\ screen'.bounced = screen.bounced
      /\ screen'.form.submitting /\ screen'.heard = screen.heard /\ screen'.list = screen.list
      /\ screen'.detail = screen.detail
  BY <1>1, <1>2 DEF ScreenRecords, FormRecords
<1> DEFINE r == Request(requests + 1, "create", cookie, 0)
<1>4. /\ r \in TaskRecords /\ r.kind = "create" /\ r.cookie = cookie /\ r.kept /\ r.answer = "none"
  <2>1. "create" \in TaskKinds /\ requests + 1 \in Int /\ 0 \in Arguments
    BY <1>2 DEF TaskKinds, ShellKinds, Arguments
  <2> QED BY <1>2, <2>1, RequestRecord
<1>5. tasks' = tasks \cup {r}   BY <1>1
<1> HIDE DEF r
<1>6. tasks' \in SUBSET TaskRecords /\ TasksSpeakOfIssued'   BY <1>1, <1>4, <1>5, Sent
<1>7. /\ Awaited("create")' = Awaited("create") \cup {r}
      /\ \A kind : kind # "create" => Awaited(kind)' = Awaited(kind)
  BY <1>4, <1>5 DEF Awaited
<1>8. BrowserTyped'
  <2>1. requests' \in Int   BY <1>1, <1>2
  <2> QED BY <1>1, <1>3, <1>6, <2>1 DEF BrowserInv, BrowserTyped
<1>9. ShellSpeaksOfIssued' /\ LoginAwaitsSignIn'
  BY <1>1, <1>3 DEF BrowserInv, ShellSpeaksOfIssued, LoginAwaitsSignIn, IsLive
<1>10. BootIsOfTheShell' /\ DetailIsOfTheMount' /\ ListIsOfTheScreen'
  BY <1>3, <1>7 DEF BrowserInv, BootIsOfTheShell, DetailIsOfTheMount, ListIsOfTheScreen
<1>11. FormsWait'
  <2>1. Awaited("create") = {}   BY <1>1 DEF BrowserInv, FormsWait, FormWaits
  <2>2. OneAwaited("create")'   BY <1>7, <2>1 DEF OneAwaited
  <2>3. Awaited("signin")' = Awaited("signin")   BY <1>7
  <2> QED BY <1>3, <2>2, <2>3 DEF BrowserInv, FormsWait, FormWaits, OneAwaited
<1> QED BY <1>6, <1>8, <1>9, <1>10, <1>11 DEF BrowserInv

(* The sign-in form likewise.                                              *)
LEMMA SubmitLoginKeeps ==
    ASSUME BrowserInv, NEW member \in Members, SubmitLogin(member)
    PROVE  BrowserInv'
<1>1. /\ screen.place.name = "login" /\ ~screen.login.submitting
      /\ screen' = [screen EXCEPT !.login = [submitting |-> TRUE, error |-> FALSE]]
      /\ tasks' = tasks \cup {Request(requests + 1, "signin", cookie, member)}
      /\ requests' = requests + 1 /\ cookie' = cookie /\ issued' = issued
  BY DEF SubmitLogin
<1>2. screen \in ScreenRecords /\ requests \in Int /\ cookie \in Int   BY DEF BrowserInv, BrowserTyped
<1>3. /\ screen' \in ScreenRecords /\ screen'.place = screen.place /\ screen'.shell = screen.shell
      /\ screen'.form = screen.form /\ screen'.bounced = screen.bounced
      /\ screen'.login.submitting /\ screen'.heard = screen.heard /\ screen'.list = screen.list
      /\ screen'.detail = screen.detail
  BY <1>1, <1>2 DEF ScreenRecords, FormRecords
<1> DEFINE r == Request(requests + 1, "signin", cookie, member)
<1>4. /\ r \in TaskRecords /\ r.kind = "signin" /\ r.cookie = cookie /\ r.kept /\ r.answer = "none"
      /\ r.arg = member
  <2>1. "signin" \in TaskKinds /\ requests + 1 \in Int /\ member \in Arguments
    BY <1>2 DEF TaskKinds, Arguments
  <2> QED BY <1>2, <2>1, RequestRecord
<1>5. tasks' = tasks \cup {r}   BY <1>1
<1> HIDE DEF r
<1>6. tasks' \in SUBSET TaskRecords /\ TasksSpeakOfIssued'   BY <1>1, <1>4, <1>5, Sent
<1>7. /\ Awaited("signin")' = Awaited("signin") \cup {r}
      /\ \A kind : kind # "signin" => Awaited(kind)' = Awaited(kind)
  BY <1>4, <1>5 DEF Awaited
<1>8. BrowserTyped'
  <2>1. requests' \in Int   BY <1>1, <1>2
  <2> QED BY <1>1, <1>3, <1>6, <2>1 DEF BrowserInv, BrowserTyped
<1>9. ShellSpeaksOfIssued'   BY <1>1, <1>3 DEF BrowserInv, ShellSpeaksOfIssued, IsLive
<1>10. LoginAwaitsSignIn'   BY <1>3, <1>4, <1>5 DEF BrowserInv, LoginAwaitsSignIn
<1>11. BootIsOfTheShell' /\ DetailIsOfTheMount' /\ ListIsOfTheScreen'
  BY <1>3, <1>7 DEF BrowserInv, BootIsOfTheShell, DetailIsOfTheMount, ListIsOfTheScreen
<1>12. FormsWait'
  <2>1. Awaited("signin") = {}   BY <1>1 DEF BrowserInv, FormsWait, FormWaits
  <2>2. OneAwaited("signin")'   BY <1>7, <2>1 DEF OneAwaited
  <2>3. Awaited("create")' = Awaited("create")   BY <1>7
  <2> QED BY <1>1, <1>3, <2>2, <2>3 DEF BrowserInv, FormsWait, FormWaits, OneAwaited
<1> QED BY <1>6, <1>8, <1>9, <1>10, <1>11, <1>12 DEF BrowserInv

-----------------------------------------------------------------------------

(* Every step keeps the invariant.                                         *)
LEMMA BrowserKept == BrowserInv /\ [BrowserNext]_browserVars => BrowserInv'
<1> SUFFICES ASSUME BrowserInv, [BrowserNext]_browserVars PROVE BrowserInv'   OBVIOUS
<1>1. CASE UNCHANGED browserVars
  BY <1>1 DEF browserVars, BrowserInv, BrowserTyped, TasksSpeakOfIssued, ShellSpeaksOfIssued,
      BootIsOfTheShell, LoginAwaitsSignIn, ListIsOfTheScreen, DetailIsOfTheMount, FormsWait,
      FormWaits, OneAwaited, Awaited, IsLive
<1>2. CASE \E place \in Places : Load(place) \/ Follow(place)   BY <1>2, LoadKeeps, FollowKeeps
<1>3. CASE \E id \in PostIds : JumpToPost(id)   BY <1>3, JumpKeeps
<1>4. CASE Retry \/ Publish   BY <1>4, RetryKeeps, PublishKeeps
<1>5. CASE \E member \in Members : SubmitLogin(member)   BY <1>5, SubmitLoginKeeps
<1>6. CASE \E t \in tasks : Serve(t) \/ Hear(t) \/ HearNobody(t)
  <2>1. PICK t \in tasks : Serve(t) \/ Hear(t) \/ HearNobody(t)   BY <1>6
  <2>2. CASE Hear(t)
    <3>1. t.kept /\ issued' = issued   BY <2>2 DEF Hear
    <3>2. PICK outcome \in Outcomes(t) :
             HearMe(t, outcome) \/ HearList(t, outcome) \/ HearPost(t, outcome)
                \/ HearCreate(t, outcome) \/ HearSignIn(t, outcome)
      BY <2>2 DEF Hear
    <3> QED BY <3>1, <3>2, HearMeKeeps, HearListKeeps, HearPostKeeps, HearCreateKeeps, HearSignInKeeps
  <2> QED BY <2>1, <2>2, ServeKeeps, HearNobodyKeeps
<1>7. CASE \E session \in DOMAIN issued : Revoke(session)   BY <1>7, RevokeKeeps
<1> QED BY <1>1, <1>2, <1>3, <1>4, <1>5, <1>6, <1>7 DEF BrowserNext

(* A form waits for one request, or for none.                              *)
LEMMA WaitsForOne ==
    ASSUME NEW form \in FormRecords, NEW kind, FormWaits(form, kind)
    PROVE  Cardinality(Awaited(kind)) = IF form.submitting THEN 1 ELSE 0
<1>1. CASE form.submitting
  <2>1. PICK t \in Awaited(kind) : \A u \in Awaited(kind) : u = t   BY <1>1 DEF FormWaits, OneAwaited
  <2>2. Awaited(kind) = {t}   BY <2>1
  <2> QED BY <1>1, <2>2, FS_Singleton
<1>2. CASE ~form.submitting
  <2>1. Awaited(kind) = {}   BY <1>2 DEF FormWaits
  <2> QED BY <1>2, <2>1, FS_EmptySet
<1> QED BY <1>1, <1>2

(* The invariant says what the screen tells.                               *)
LEMMA BrowserTells == BrowserInv => ScreensTellTheSession
<1> SUFFICES ASSUME BrowserInv PROVE ScreensTellTheSession   OBVIOUS
<1>1. SessionIsOwners   BY DEF BrowserInv, ShellSpeaksOfIssued, SessionIsOwners
<1>2. ShownIsCurrent   BY DEF BrowserInv, ListIsOfTheScreen, DetailIsOfTheMount, ShownIsCurrent
<1>3. FormsWaitForOne
  <2>1. screen.form \in FormRecords /\ screen.login \in FormRecords
    BY DEF BrowserInv, BrowserTyped, ScreenRecords
  <2>2. FormWaits(screen.form, "create") /\ FormWaits(screen.login, "signin")
    BY DEF BrowserInv, FormsWait
  <2> QED BY <2>1, <2>2, WaitsForOne DEF FormsWaitForOne
<1> QED BY <1>1, <1>2, <1>3 DEF ScreensTellTheSession

(* What a browser shows is of its own session: the shell names the owner   *)
(* of the cookie this mount of it sent, only a cookie without a live       *)
(* session is sent to Login, an idle list was asked for after the last     *)
(* publication the screen was told of, a post is shown where it was asked  *)
(* for, and a form is locked exactly while its one request is under way    *)
(* (views.rs): for any members, posts, requests and order of answers.      *)
THEOREM BrowserTellsTheSession == BrowserSpec => []ScreensTellTheSession
<1>1. BrowserInit => BrowserInv   BY BrowserStarts
<1>2. BrowserInv /\ [BrowserNext]_browserVars => BrowserInv'   BY BrowserKept
<1>3. BrowserInv => ScreensTellTheSession   BY BrowserTells
<1> QED BY <1>1, <1>2, <1>3, PTL DEF BrowserSpec

-----------------------------------------------------------------------------
(***************************************************************************)
(* The gate: what its last command said is true of the tree.               *)
(***************************************************************************)

Lines == SourceLines \cup {PlainLine}
Trees == [page : [1..PageLength -> Lines], kit : [1..1 -> Lines],
          classes : Int, reach : SUBSET AppNames]
Sheets == {Css(n) : n \in Int} \cup {Torn, Tiny}
Tables == [AppNames -> Sheets]

Commands ==
    [task : DOMAIN StepsOf, at : {"running", "passed", "failed", "interrupted"},
     step : Int, part : {"fetch", "permit", "compile", "compare"}, sheet : Int,
     where : {"root", "below"}, scratch : Tables, fresh : BOOLEAN, blind : BOOLEAN,
     before : Tables]

(* The task and the step of a command are those of the list it runs.       *)
GateTyped ==
    /\ tree \in Trees /\ sheets \in Tables
    /\ \/ command = [task |-> "none", at |-> "idle"]
       \/ /\ command \in Commands
          /\ command.step \in DOMAIN StepsOf[command.task]
          /\ command.sheet \in DOMAIN Apps

Begun == command.at \in {"running", "passed"}

(* The check compiles beside the committed stylesheets.                    *)
CiLeavesSheets == command.task = "ci" => sheets = command.before

(* The table that the command under way writes.                            *)
Compiled == IF command.task = "ci" THEN command.scratch ELSE sheets

(* Where the stylesheets are in the steps of a task.                       *)
StylesAt(task) == IF task = "ci" THEN 5 ELSE 1

(* A command compiles in the step of its stylesheets, and is through when  *)
(* it has come to compare them.                                            *)
PartsInOrder ==
    Begun /\ command.task \in {"ci", "styles"} =>
        /\ command.part # "compare" => command.at = "running"
        /\ command.part \in {"permit", "compile"} => command.step = StylesAt(command.task)
        /\ command.part = "fetch" => command.step <= StylesAt(command.task)
        /\ command.part = "compare" => command.step >= StylesAt(command.task)
        /\ command.part \in {"fetch", "permit"} => command.sheet = 1

(* While nobody edits the checkout, the stylesheets written so far are     *)
(* compiled from its class names.                                          *)
WrittenCurrent ==
    Begun /\ command.fresh /\ command.task \in {"ci", "styles"} =>
        /\ \A k \in 1..command.sheet - 1 : Compiled[Apps[k]] = Css(tree.classes)
        /\ command.part = "compare" =>
              \A app \in AppNames : Compiled[app] = Css(tree.classes)

(* Past the stylesheets of a check the committed ones are current.         *)
CommittedCurrent ==
    Begun /\ command.fresh /\ command.task \in {"ci", "styles"} =>
        (command.step > StylesAt(command.task) \/ command.at = "passed" =>
            \A app \in AppNames : sheets[app] = Css(tree.classes))

Past(step) == command.step > step \/ command.at = "passed"

(* What the scans that a check is past found, while nobody edits.          *)
ScansHold ==
    Begun /\ command.fresh /\ command.task = "ci" =>
        /\ ~command.blind =>
              /\ Past(6) => Offenders(tree.page \o tree.kit, "predecessor", "predecessor-mention-ok") = {}
              /\ Past(7) => Offenders(tree.page \o tree.kit, "hue", "hue-scan-ok") = {}
              /\ Past(9) => tree.reach = {}
        /\ Past(8) => RawElements(tree.page) = {}

GateInv == GateTyped /\ CiLeavesSheets /\ PartsInOrder /\ WrittenCurrent /\ CommittedCurrent /\ ScansHold
-----------------------------------------------------------------------------

(* The steps of the tasks, by number.                                      *)
LEMMA StepNumbers ==
    /\ DOMAIN StepsOf = {"ci", "styles", "live", "core"}
    /\ DOMAIN StepsOf["ci"] = 1..9 /\ Len(StepsOf["ci"]) = 9
    /\ DOMAIN StepsOf["styles"] = 1..1 /\ Len(StepsOf["styles"]) = 1
    /\ DOMAIN StepsOf["live"] = 1..3 /\ Len(StepsOf["live"]) = 3
    /\ DOMAIN StepsOf["core"] = 1..1 /\ Len(StepsOf["core"]) = 1
BY DEF StepsOf

(* Where each check stands in the lists of steps.                          *)
LEMMA StepNames ==
    /\ \A n \in 1..9 :
          /\ StepsOf["ci"][n] = "styles" <=> n = 5
          /\ StepsOf["ci"][n] = "predecessor" <=> n = 6
          /\ StepsOf["ci"][n] = "hues" <=> n = 7
          /\ StepsOf["ci"][n] = "kit" <=> n = 8
          /\ StepsOf["ci"][n] = "wasm" <=> n = 9
          /\ StepsOf["ci"][n] \in External => n < 5
    /\ StepsOf["styles"][1] = "styles"
    /\ \A n \in 1..3 : StepsOf["live"][n] \in External
    /\ StepsOf["core"][1] \in External
<1>1. StepsOf["ci"] = <<"rustfmt", "clippy", "build", "test", "styles",
                        "predecessor", "hues", "kit", "wasm">>
  BY DEF StepsOf
<1>2. ASSUME NEW n \in 1..9
      PROVE  n = 1 \/ n = 2 \/ n = 3 \/ n = 4 \/ n = 5 \/ n = 6 \/ n = 7 \/ n = 8 \/ n = 9
  OBVIOUS
<1>3. /\ StepsOf["ci"][1] = "rustfmt" /\ StepsOf["ci"][2] = "clippy" /\ StepsOf["ci"][3] = "build"
      /\ StepsOf["ci"][4] = "test" /\ StepsOf["ci"][5] = "styles" /\ StepsOf["ci"][6] = "predecessor"
      /\ StepsOf["ci"][7] = "hues" /\ StepsOf["ci"][8] = "kit" /\ StepsOf["ci"][9] = "wasm"
  BY <1>1
<1>4. ASSUME NEW n \in 1..9
      PROVE  /\ StepsOf["ci"][n] = "styles" <=> n = 5
             /\ StepsOf["ci"][n] = "predecessor" <=> n = 6
             /\ StepsOf["ci"][n] = "hues" <=> n = 7
             /\ StepsOf["ci"][n] = "kit" <=> n = 8
             /\ StepsOf["ci"][n] = "wasm" <=> n = 9
             /\ StepsOf["ci"][n] \in External => n < 5
  BY <1>2, <1>3 DEF External
<1>5. StepsOf["styles"][1] = "styles" /\ StepsOf["core"][1] \in External
  BY DEF StepsOf, External
<1>6. \A n \in 1..3 : StepsOf["live"][n] \in External
  BY DEF StepsOf, External
<1> QED BY <1>4, <1>5, <1>6

(* There is a first application, and every name has a place in the list.   *)
LEMMA AppsListed ==
    /\ Len(Apps) \in Nat /\ DOMAIN Apps = 1..Len(Apps) /\ 1 \in DOMAIN Apps
    /\ \A k \in DOMAIN Apps : Apps[k] \in AppNames
    /\ \A app \in AppNames : \E k \in 1..Len(Apps) : app = Apps[k]
<1>1. Len(Apps) \in Nat /\ DOMAIN Apps = 1..Len(Apps) /\ Len(Apps) # 0
  BY GateAssumption
<1> QED BY <1>1 DEF AppNames

(* The walk up from a raw element passes comments only.                    *)
LEMMA OnlyCommentsAbove ==
    ASSUME NEW lines, NEW i \in Nat \ {0}, NEW j \in CommentAbove(lines, i)
    PROVE  j \in 1..i - 1 /\ \A k \in j..i - 1 : lines[k].kind = "comment"
<1> DEFINE code == {k \in 1..i - 1 : lines[k].kind # "comment"}
           start == IF code = {} THEN 0 ELSE CHOOSE k \in code : \A l \in code : l <= k
<1>1. j \in start + 1..i - 1   BY DEF CommentAbove
<1>2. code # {} => start \in code /\ \A l \in code : l <= start
  <2>1. SUFFICES ASSUME code # {} PROVE \E k \in code : \A l \in code : l <= k
      OBVIOUS
  <2>2. code \in SUBSET (0..i)   OBVIOUS
  <2> HIDE DEF code
  <2> QED BY <2>1, <2>2, GreatestNat
<1>3. start \in 0..i - 1 /\ \A l \in code : l <= start
  <2>1. CASE code = {}   BY <2>1
  <2>2. CASE code # {}
    <3>1. start \in code /\ \A l \in code : l <= start   BY <1>2, <2>2
    <3>2. \A k \in code : k \in 1..i - 1   OBVIOUS
    <3> HIDE DEF code, start
    <3>3. start \in 1..i - 1   BY <3>1, <3>2
    <3> QED BY <3>1, <3>3
  <2> QED BY <2>1, <2>2
<1>4. j \in 1..i - 1   BY <1>1, <1>3
<1>5. ASSUME NEW k \in j..i - 1, lines[k].kind # "comment" PROVE FALSE
  <2>1. k \in code   BY <1>4, <1>5
  <2> HIDE DEF code, start
  <2>2. k <= start /\ start + 1 <= j /\ j <= k /\ start \in Int /\ j \in Int /\ k \in Int
      BY <1>1, <1>3, <1>4, <1>5, <2>1
  <2> QED BY <2>2
<1> QED BY <1>4, <1>5

(* The opt-out of a raw element that the scan lets pass stands beside it.  *)
LEMMA ScannedIsExcused ==
    ASSUME NEW n \in Nat, NEW lines, DOMAIN lines = 1..n, RawElements(lines) = {},
           NEW i \in 1..n, lines[i].kind = "element"
    PROVE  Excused(lines, i)
<1>1. CASE lines[i].mark = "isa-raw-ok"
  <2>1. i \in 1..i /\ \A k \in i..i - 1 : lines[k].kind = "comment"   OBVIOUS
  <2> QED BY <1>1, <2>1 DEF Excused, Marked
<1>2. CASE lines[i].mark # "isa-raw-ok"
  <2>1. PICK j \in CommentAbove(lines, i) : lines[j].mark = "isa-raw-ok"
      BY <1>2 DEF RawElements
  <2>2. j \in 1..i - 1 /\ \A k \in j..i - 1 : lines[k].kind = "comment"
      BY <2>1, OnlyCommentsAbove
  <2> QED BY <2>1, <2>2 DEF Excused, Marked
<1> QED BY <1>1, <1>2
-----------------------------------------------------------------------------

(* Nothing was run yet.                                                    *)
LEMMA GateStartsTyped == GateInit => GateTyped
<1> SUFFICES ASSUME GateInit PROVE GateTyped   OBVIOUS
<1>1. tree \in Trees
  <2>1. [i \in 1..PageLength |-> PlainLine] \in [1..PageLength -> Lines]   BY DEF Lines
  <2>2. <<PlainLine>> \in [1..1 -> Lines]   BY DEF Lines
  <2> QED BY <2>1, <2>2 DEF GateInit, Trees
<1>2. sheets \in Tables   BY DEF GateInit, Tables, Sheets
<1> QED BY <1>1, <1>2 DEF GateInit, GateTyped

(* What is running is a command that was given.                            *)
LEMMA RunningTyped ==
    ASSUME GateTyped, command.at \in {"running", "passed", "failed", "interrupted"}
    PROVE  /\ command \in Commands
           /\ command.step \in DOMAIN StepsOf[command.task]
           /\ command.sheet \in DOMAIN Apps
BY DEF GateTyped

(* A command that passes a step is at the next, or has passed.             *)
LEMMA PassedTyped ==
    ASSUME GateTyped, command.at = "running", Passed
    PROVE  /\ command' \in Commands
           /\ command'.step \in DOMAIN StepsOf[command'.task]
           /\ command'.sheet \in DOMAIN Apps
<1>1. command \in Commands /\ command.step \in DOMAIN StepsOf[command.task] /\ command.sheet \in DOMAIN Apps
  BY RunningTyped
<1>2. command.task \in {"ci", "styles", "live", "core"}   BY <1>1, StepNumbers DEF Commands
<1>3. command.step # Len(StepsOf[command.task]) => command.step + 1 \in DOMAIN StepsOf[command.task]
  BY <1>1, <1>2, StepNumbers
<1> QED BY <1>1, <1>3 DEF Passed, Commands

(* A failed command stays a command.                                       *)
LEMMA FailedTyped ==
    ASSUME GateTyped, command.at = "running", Failed
    PROVE  /\ command' \in Commands
           /\ command'.step \in DOMAIN StepsOf[command'.task]
           /\ command'.sheet \in DOMAIN Apps
BY RunningTyped DEF Failed, Commands

(* A command starts at the first step of its list.                         *)
LEMMA RunTaskTyped ==
    ASSUME GateTyped, NEW task \in DOMAIN StepsOf, NEW where \in {"root", "below"}, RunTask(task, where)
    PROVE  GateTyped'
<1>1. 1 \in DOMAIN StepsOf[task]   BY StepNumbers
<1>2. [app \in AppNames |-> Torn] \in Tables   BY DEF Tables, Sheets
<1>3. command' \in Commands /\ command'.step = 1 /\ command'.sheet = 1 /\ command'.task = task
  BY <1>2 DEF RunTask, Commands, GateTyped
<1> QED BY <1>1, <1>3, AppsListed DEF RunTask, GateTyped

(* A compilation writes a stylesheet, whole or torn.                       *)
LEMMA CompileTyped ==
    ASSUME GateTyped, CompileSheet
    PROVE  GateTyped'
<1>1. command.at = "running"   BY DEF CompileSheet, Running
<1>2. command \in Commands /\ command.step \in DOMAIN StepsOf[command.task] /\ command.sheet \in DOMAIN Apps
  BY <1>1, RunningTyped
<1>3. tree' = tree /\ tree \in Trees   BY DEF CompileSheet, GateTyped
<1>4. CASE Failed /\ UNCHANGED sheets
  BY <1>1, <1>3, <1>4, FailedTyped DEF GateTyped
<1>5. ASSUME NEW css \in {Css(tree.classes), Torn, Tiny}, sheets' = CommittedWith(css),
             IF css # Css(tree.classes) THEN Failed
             ELSE command' = IF command.sheet < Len(Apps)
                             THEN [command EXCEPT !.sheet = @ + 1, !.scratch = ScratchWith(css)]
                             ELSE [command EXCEPT !.part = "compare", !.scratch = ScratchWith(css)]
      PROVE  GateTyped'
  <2>1. css \in Sheets   BY <1>3 DEF Sheets, Trees
  <2>2. sheets' \in Tables   BY <1>5, <2>1 DEF CommittedWith, GateTyped, Tables
  <2>3. ScratchWith(css) \in Tables   BY <1>2, <2>1 DEF ScratchWith, Commands, Tables
  <2>4. CASE Failed   BY <1>1, <1>3, <2>2, <2>4, FailedTyped DEF GateTyped
  <2>5. CASE command.sheet < Len(Apps)
           /\ command' = [command EXCEPT !.sheet = @ + 1, !.scratch = ScratchWith(css)]
    <3>1. command' \in Commands
      <4> DEFINE scratch == ScratchWith(css)
      <4>1. scratch \in Tables   BY <2>3
      <4>2. command.sheet + 1 \in Int   BY <1>2 DEF Commands
      <4>3. command' = [command EXCEPT !.sheet = command.sheet + 1, !.scratch = scratch]   BY <2>5
      <4> HIDE DEF scratch
      <4> QED BY <1>2, <4>1, <4>2, <4>3 DEF Commands
    <3>2. command.sheet + 1 \in DOMAIN Apps   BY <1>2, <2>5, AppsListed
    <3>3. command'.sheet = command.sheet + 1 /\ command'.step = command.step /\ command'.task = command.task
        BY <1>2, <2>5 DEF Commands
    <3> QED BY <1>2, <1>3, <2>2, <3>1, <3>2, <3>3 DEF GateTyped
  <2>6. CASE command' = [command EXCEPT !.part = "compare", !.scratch = ScratchWith(css)]
    <3>1. command' \in Commands /\ command'.sheet = command.sheet /\ command'.step = command.step
              /\ command'.task = command.task
        BY <1>2, <2>3, <2>6 DEF Commands
    <3> QED BY <1>2, <1>3, <2>2, <3>1 DEF GateTyped
  <2> QED BY <1>5, <2>4, <2>5, <2>6
<1> QED BY <1>4, <1>5 DEF CompileSheet

(* An edit leaves a tree.                                                  *)
LEMMA EditTyped ==
    ASSUME GateTyped, NEW edited \in Trees, EditTree(edited)
    PROVE  GateTyped'
<1>1. CASE command.at = "running"
  BY <1>1, RunningTyped DEF EditTree, GateTyped, Commands
<1>2. CASE command.at # "running"
  BY <1>2 DEF EditTree, GateTyped
<1> QED BY <1>1, <1>2

(* The checkout that an edit leaves is a checkout.                         *)
LEMMA EditedTrees ==
    ASSUME GateTyped
    PROVE  /\ \A line \in SourceLines : \A i \in 1..PageLength : [tree EXCEPT !.page[i] = line] \in Trees
           /\ \A line \in SourceLines : [tree EXCEPT !.kit[1] = line] \in Trees
           /\ [tree EXCEPT !.classes = @ + 1] \in Trees
           /\ \A app \in AppNames : [tree EXCEPT !.reach = @ \cup {app}] \in Trees
<1>1. tree \in Trees   BY DEF GateTyped
<1>2. ASSUME NEW line \in SourceLines, NEW i \in 1..PageLength
      PROVE  [tree EXCEPT !.page[i] = line] \in Trees
  <2>1. [tree.page EXCEPT ![i] = line] \in [1..PageLength -> Lines]   BY <1>1 DEF Trees, Lines
  <2> QED BY <1>1, <2>1 DEF Trees
<1>3. ASSUME NEW line \in SourceLines PROVE [tree EXCEPT !.kit[1] = line] \in Trees
  <2>1. [tree.kit EXCEPT ![1] = line] \in [1..1 -> Lines]   BY <1>1 DEF Trees, Lines
  <2> QED BY <1>1, <2>1 DEF Trees
<1>4. [tree EXCEPT !.classes = @ + 1] \in Trees   BY <1>1 DEF Trees
<1>5. \A app \in AppNames : [tree EXCEPT !.reach = @ \cup {app}] \in Trees   BY <1>1 DEF Trees
<1> QED BY <1>2, <1>3, <1>4, <1>5

(* An interrupted command stays a command.                                 *)
LEMMA InterruptTyped == GateTyped /\ Interrupt => GateTyped'
<1> SUFFICES ASSUME GateTyped, Interrupt PROVE GateTyped'   OBVIOUS
<1>1. command.at = "running" /\ tree' = tree   BY DEF Interrupt
<1>2. command \in Commands /\ command.step \in DOMAIN StepsOf[command.task] /\ command.sheet \in DOMAIN Apps
  BY <1>1, RunningTyped
<1>3. command' \in Commands /\ command'.sheet = command.sheet /\ command'.step = command.step
          /\ command'.task = command.task
  BY <1>2 DEF Interrupt, Commands
<1>4. sheets' \in Tables
  BY DEF Interrupt, CommittedWith, Tables, Sheets, GateTyped
<1> QED BY <1>1, <1>2, <1>3, <1>4 DEF GateTyped

(* Every step keeps the types.                                             *)
LEMMA GateStaysTyped == GateTyped /\ [GateNext]_gateVars => GateTyped'
<1> SUFFICES ASSUME GateTyped, [GateNext]_gateVars PROVE GateTyped'   OBVIOUS
<1>1. ASSUME NEW task \in DOMAIN StepsOf, NEW where \in {"root", "below"}, RunTask(task, where)
      PROVE  GateTyped'
  BY <1>1, RunTaskTyped
<1>2. ASSUME Passed \/ Failed, command.at = "running", tree' = tree, sheets' = sheets
      PROVE  GateTyped'
  BY <1>2, PassedTyped, FailedTyped DEF GateTyped
<1>3. CASE RunExternal
  BY <1>2, <1>3 DEF RunExternal, Running
<1>4. CASE Fetch \/ Permit
  <2>1. command.at = "running" /\ tree' = tree /\ sheets' = sheets   BY <1>4 DEF Fetch, Permit, Running
  <2>2. Failed \/ command' = [command EXCEPT !.part = "compile"] \/ command' = [command EXCEPT !.part = "permit"]
    BY <1>4 DEF Fetch, Permit
  <2> QED BY <1>2, <2>1, <2>2, RunningTyped DEF GateTyped, Commands
<1>5. CASE CompileSheet   BY <1>5, CompileTyped
<1>6. CASE Compare   BY <1>2, <1>6 DEF Compare, Running
<1>7. CASE NoPredecessor \/ NoHardcodedHues
  <2>1. command.at = "running" /\ tree' = tree /\ sheets' = sheets
    BY <1>7 DEF NoPredecessor, NoHardcodedHues, Running
  <2>2. \/ Passed \/ Failed
        \/ /\ command.step < Len(StepsOf[command.task])
           /\ command' = [command EXCEPT !.step = @ + 1, !.blind = TRUE]
    BY <1>7 DEF NoPredecessor, NoHardcodedHues, Grep
  <2>3. CASE /\ command.step < Len(StepsOf[command.task])
             /\ command' = [command EXCEPT !.step = @ + 1, !.blind = TRUE]
    <3>1. command \in Commands /\ command.step \in DOMAIN StepsOf[command.task] /\ command.sheet \in DOMAIN Apps
      BY <2>1, RunningTyped
    <3>2. command.step + 1 \in DOMAIN StepsOf[command.task]
      BY <2>3, <3>1, StepNumbers DEF Commands
    <3>3. command.step + 1 \in Int   BY <3>1 DEF Commands
    <3>4. command' \in Commands /\ command'.step = command.step + 1 /\ command'.sheet = command.sheet
              /\ command'.task = command.task
      BY <2>3, <3>1, <3>3 DEF Commands
    <3> QED BY <2>1, <3>1, <3>2, <3>4 DEF GateTyped
  <2> QED BY <1>2, <2>1, <2>2, <2>3
<1>8. CASE AppsSpeakTheKit   BY <1>2, <1>8 DEF AppsSpeakTheKit, Running
<1>9. CASE WasmBoundary
  <2>1. command.at = "running" /\ tree' = tree /\ sheets' = sheets   BY <1>9 DEF WasmBoundary, Running
  <2>2. Passed \/ Failed \/ command' = [command EXCEPT !.at = "passed", !.blind = TRUE]
    BY <1>9 DEF WasmBoundary
  <2> QED BY <1>2, <2>1, <2>2, RunningTyped DEF GateTyped, Commands
<1>10. CASE Interrupt   BY <1>10, InterruptTyped
<1>11. ASSUME NEW edited \in Trees, EditTree(edited) PROVE GateTyped'
  BY <1>11, EditTyped
<1>12. CASE UNCHANGED gateVars   BY <1>12 DEF gateVars, GateTyped
<1> QED BY <1>1, <1>3, <1>4, <1>5, <1>6, <1>7, <1>8, <1>9, <1>10, <1>11, <1>12, EditedTrees
    DEF GateNext
-----------------------------------------------------------------------------

(* A step that does not touch the checkout or the record of the command    *)
(* but for its place keeps the rest of the record.                         *)
SameRecord ==
    /\ command'.task = command.task /\ command'.before = command.before
    /\ command'.fresh = command.fresh

(* A passed step leads to the next one, or ends the command, and changes   *)
(* nothing else of it.                                                     *)
LEMMA PassedFields ==
    ASSUME GateTyped, command.at = "running", Passed
    PROVE  /\ SameRecord /\ command'.part = command.part /\ command'.sheet = command.sheet
           /\ command'.scratch = command.scratch /\ command'.blind = command.blind
           /\ IF command.step = Len(StepsOf[command.task])
              THEN command'.at = "passed" /\ command'.step = command.step
              ELSE command'.at = "running" /\ command'.step = command.step + 1
BY RunningTyped DEF Passed, Commands, SameRecord

(* A failed step ends the command, and changes nothing else of it.         *)
LEMMA FailedFields ==
    ASSUME GateTyped, command.at = "running", Failed
    PROVE  SameRecord /\ command'.at = "failed"
BY RunningTyped DEF Failed, Commands, SameRecord

(* A command that is no longer under way promises nothing but the sheets   *)
(* of a check.                                                             *)
LEMMA EndedKeeps ==
    ASSUME GateInv, GateTyped', command'.at \notin {"running", "passed"},
           command'.task = "ci" => sheets' = command'.before
    PROVE  GateInv'
BY DEF GateInv, CiLeavesSheets, PartsInOrder, WrittenCurrent, CommittedCurrent, ScansHold, Begun

(* What failed claims nothing.                                             *)
LEMMA FailedKeeps ==
    ASSUME GateInv, GateTyped', command.at = "running", Failed, command.task = "ci" => sheets' = sheets
    PROVE  GateInv'
<1>1. SameRecord /\ command'.at = "failed"   BY FailedFields DEF GateInv
<1> QED BY <1>1, EndedKeeps DEF SameRecord, GateInv, CiLeavesSheets

(* What a step must have found for the command to pass it.                 *)
Finds ==
    /\ command.task \in {"ci", "styles"} =>
          command.step < StylesAt(command.task) \/ command.part = "compare"
    /\ command.task = "ci" =>
          /\ command.step = 5 => command.scratch = sheets
          /\ command.step = 6 => Offenders(tree.page \o tree.kit, "predecessor", "predecessor-mention-ok") = {}
          /\ command.step = 7 => Offenders(tree.page \o tree.kit, "hue", "hue-scan-ok") = {}
          /\ command.step = 8 => RawElements(tree.page) = {}
          /\ command.step = 9 => tree.reach = {}

(* A passed step may claim what it found of the tree.                      *)
LEMMA PassedKeeps ==
    ASSUME GateInv, GateTyped', command.at = "running", Passed, UNCHANGED <<tree, sheets>>, Finds
    PROVE  GateInv'
<1> DEFINE pred == Offenders(tree.page \o tree.kit, "predecessor", "predecessor-mention-ok") = {}
           hues == Offenders(tree.page \o tree.kit, "hue", "hue-scan-ok") = {}
           kits == RawElements(tree.page) = {}
<1>1. /\ SameRecord /\ command'.part = command.part /\ command'.sheet = command.sheet
      /\ command'.scratch = command.scratch /\ command'.blind = command.blind
      /\ IF command.step = Len(StepsOf[command.task])
         THEN command'.at = "passed" /\ command'.step = command.step
         ELSE command'.at = "running" /\ command'.step = command.step + 1
  BY PassedFields DEF GateInv
<1>2. command \in Commands /\ command.step \in DOMAIN StepsOf[command.task] /\ command.step \in Int
  BY RunningTyped DEF GateInv, Commands
<1>3. CiLeavesSheets'   BY <1>1 DEF GateInv, CiLeavesSheets, SameRecord
<1>12. /\ command.task = "ci" => command.step \in 1..9 /\ Len(StepsOf[command.task]) = 9
       /\ command.task = "styles" => command.step = 1 /\ Len(StepsOf[command.task]) = 1
  BY <1>2, StepNumbers
<1>13. /\ command.task = "ci" =>
             IF command.step = 9 THEN command'.at = "passed" /\ command'.step = command.step
             ELSE command'.at = "running" /\ command'.step = command.step + 1
       /\ command.task = "styles" => command'.at = "passed" /\ command'.step = command.step
  BY <1>1, <1>12
<1>4. PartsInOrder'
  <2>1. CASE command.task = "ci"
    <3>1. /\ command.part # "compare" => command.step < 5
          /\ command.part \in {"permit", "compile"} => command.step = 5
          /\ command.part = "compare" => command.step >= 5
          /\ command.part \in {"fetch", "permit"} => command.sheet = 1
      BY <2>1 DEF GateInv, PartsInOrder, Begun, StylesAt, Finds
    <3>2. command'.task = "ci" /\ command'.part = command.part /\ command'.sheet = command.sheet
      BY <1>1, <2>1 DEF SameRecord
    <3>3. /\ command.step \in 1..9
          /\ \/ command.step = 9 /\ command'.at = "passed" /\ command'.step = command.step
             \/ command.step # 9 /\ command'.at = "running" /\ command'.step = command.step + 1
      BY <1>12, <1>13, <2>1
    <3> QED BY <3>1, <3>2, <3>3 DEF PartsInOrder, StylesAt
  <2>2. CASE command.task = "styles"
    BY <1>1, <1>12, <1>13, <2>2 DEF GateInv, PartsInOrder, Begun, StylesAt, Finds, SameRecord
  <2> QED BY <1>1, <2>1, <2>2 DEF PartsInOrder, SameRecord
<1>5. Compiled' = Compiled   BY <1>1 DEF Compiled, SameRecord
<1>6. WrittenCurrent'
  BY <1>1, <1>5 DEF GateInv, WrittenCurrent, Begun, SameRecord
<1>7. CommittedCurrent'
  <2>1. SUFFICES ASSUME Begun', command'.fresh, command'.task \in {"ci", "styles"},
                        (command.step > StylesAt(command.task) \/ command.at = "passed")'
                 PROVE  \A app \in AppNames : sheets[app] = Css(tree.classes)
    BY DEF CommittedCurrent
  <2>2. CASE command.step > StylesAt(command.task)
    BY <1>1, <2>1, <2>2 DEF GateInv, CommittedCurrent, SameRecord, Begun
  <2>3. CASE ~(command.step > StylesAt(command.task))
    <3>1. command.step = StylesAt(command.task) /\ (command.task = "ci" => command.step = 5)
      <4>1. command.task \in {"ci", "styles"}   BY <1>1, <2>1 DEF SameRecord
      <4>2. CASE command.task = "ci"
        <5>1. command.step \in 1..9 /\ ~(command.step > 5)   BY <1>12, <2>3, <4>2 DEF StylesAt
        <5>2. command'.step > 5 \/ command'.at = "passed"   BY <1>1, <2>1, <4>2 DEF StylesAt, SameRecord
        <5>3. command'.at = "running" /\ command'.step = command.step + 1   BY <1>13, <4>2, <5>1
        <5> QED BY <4>2, <5>1, <5>2, <5>3 DEF StylesAt
      <4>3. CASE command.task = "styles"   BY <1>12, <4>3 DEF StylesAt
      <4> QED BY <4>1, <4>2, <4>3
    <3>2. command.part = "compare" /\ Compiled = sheets
      BY <1>1, <2>1, <3>1 DEF Finds, Compiled, SameRecord, StylesAt
    <3> QED BY <1>1, <2>1, <3>2 DEF GateInv, WrittenCurrent, Begun, SameRecord
  <2> QED BY <2>2, <2>3
<1>8. ScansHold'
  <2>1. SUFFICES ASSUME Begun', command'.fresh, command'.task = "ci"
                 PROVE  /\ ~command.blind =>
                              /\ Past(6)' => pred
                              /\ Past(7)' => hues
                              /\ Past(9)' => tree.reach = {}
                        /\ Past(8)' => kits
    BY <1>1 DEF ScansHold
  <2>2. /\ ~command.blind => /\ command.step > 6 => pred
                             /\ command.step > 7 => hues
                             /\ command.step > 9 => tree.reach = {}
        /\ command.step > 8 => kits
    BY <1>1, <2>1 DEF GateInv, ScansHold, Begun, SameRecord, Past
  <2>3. /\ command.step = 6 => pred
        /\ command.step = 7 => hues
        /\ command.step = 8 => kits
        /\ command.step = 9 => tree.reach = {}
    BY <1>1, <2>1 DEF Finds, SameRecord
  <2>4. \A n \in {6, 7, 8, 9} : Past(n)' => command.step > n \/ command.step = n
    BY <1>1, <1>2, <2>1, StepNumbers DEF Past, SameRecord
  <2> HIDE DEF pred, hues, kits
  <2> QED BY <2>2, <2>3, <2>4
<1> QED BY <1>3, <1>4, <1>6, <1>7, <1>8 DEF GateInv
-----------------------------------------------------------------------------

(* Nothing was claimed yet.                                                *)
LEMMA GateStarts == GateInit => GateInv
BY GateStartsTyped
DEF GateInit, GateInv, CiLeavesSheets, PartsInOrder, WrittenCurrent, CommittedCurrent, ScansHold, Begun

(* A command that starts claims nothing.                                   *)
LEMMA RunTaskKeeps ==
    ASSUME GateInv, GateTyped', NEW task \in DOMAIN StepsOf, NEW where \in {"root", "below"},
           RunTask(task, where)
    PROVE  GateInv'
<1>1. /\ command'.task = task /\ command'.at = "running" /\ command'.step = 1
      /\ command'.part = "fetch" /\ command'.sheet = 1 /\ command'.before = sheets
      /\ command'.blind = FALSE
      /\ sheets' = sheets
  BY DEF RunTask
<1>2. CiLeavesSheets'   BY <1>1 DEF CiLeavesSheets
<1>3. PartsInOrder'   BY <1>1 DEF PartsInOrder, StylesAt
<1>4. WrittenCurrent'   BY <1>1 DEF WrittenCurrent
<1>5. CommittedCurrent'   BY <1>1 DEF CommittedCurrent, StylesAt
<1>6. ScansHold'   BY <1>1 DEF ScansHold, Past
<1> QED BY <1>2, <1>3, <1>4, <1>5, <1>6 DEF GateInv

(* Where a command that is running stands.                                 *)
LEMMA RunningAt ==
    ASSUME GateTyped, command.at = "running"
    PROVE  /\ Running("styles") => command.task \in {"ci", "styles"}
                                      /\ command.step = StylesAt(command.task)
           /\ Running("predecessor") => command.task = "ci" /\ command.step = 6
           /\ Running("hues") => command.task = "ci" /\ command.step = 7
           /\ Running("kit") => command.task = "ci" /\ command.step = 8
           /\ Running("wasm") => command.task = "ci" /\ command.step = 9
           /\ \A step \in External : Running(step) =>
                 command.task # "styles" /\ (command.task = "ci" => command.step < 5)
<1>1. command.task \in {"ci", "styles", "live", "core"} /\ command.step \in DOMAIN StepsOf[command.task]
  BY RunningTyped, StepNumbers DEF Commands
<1>2. \A step \in External : step \notin {"styles", "predecessor", "hues", "kit", "wasm"}
  BY DEF External
<1>3. CASE command.task = "ci"
  <2>1. command.step \in 1..9   BY <1>1, <1>3, StepNumbers
  <2> QED BY <1>3, <2>1, StepNames DEF Running, StylesAt
<1>4. CASE command.task = "styles"
  <2>1. command.step = 1   BY <1>1, <1>4, StepNumbers
  <2> QED BY <1>2, <1>4, <2>1, StepNames DEF Running, StylesAt
<1>5. CASE command.task = "live"
  <2>1. command.step \in 1..3   BY <1>1, <1>5, StepNumbers
  <2>2. StepsOf[command.task][command.step] \in External   BY <1>5, <2>1, StepNames
  <2> QED BY <1>2, <1>5, <2>2 DEF Running
<1>6. CASE command.task = "core"
  <2>1. command.step = 1   BY <1>1, <1>6, StepNumbers
  <2>2. StepsOf[command.task][command.step] \in External   BY <1>6, <2>1, StepNames
  <2> QED BY <1>2, <1>6, <2>2 DEF Running
<1> QED BY <1>1, <1>3, <1>4, <1>5, <1>6

(* The steps of other tools claim nothing of the tree.                     *)
LEMMA RunExternalKeeps ==
    ASSUME GateInv, GateTyped', RunExternal
    PROVE  GateInv'
<1>1. command.at = "running" /\ UNCHANGED <<tree, sheets>>   BY DEF RunExternal, Running
<1>2. command.task # "styles" /\ (command.task = "ci" => command.step < 5 /\ command.step \in Int)
  BY <1>1, RunningAt, RunningTyped DEF RunExternal, GateInv, Commands
<1>3. Finds   BY <1>2 DEF Finds, StylesAt
<1> QED BY <1>1, <1>3, PassedKeeps, FailedKeeps DEF RunExternal

(* The stylesheets' step moves on from one part to the next.               *)
LEMMA PartKeeps ==
    ASSUME GateInv, GateTyped', command.at = "running", Running("styles"), command.part # "compare",
           UNCHANGED <<tree, sheets>>,
           NEW part \in {"permit", "compile"}, command.sheet = 1,
           command' = [command EXCEPT !.part = part]
    PROVE  GateInv'
<1>1. /\ SameRecord /\ command'.part = part /\ command'.sheet = command.sheet
      /\ command'.scratch = command.scratch /\ command'.blind = command.blind
      /\ command'.at = "running" /\ command'.step = command.step
  BY RunningTyped DEF Commands, SameRecord, GateInv
<1>2. command.task \in {"ci", "styles"} /\ command.step = StylesAt(command.task)
  BY RunningAt DEF GateInv
<1>3. CiLeavesSheets'   BY <1>1 DEF GateInv, CiLeavesSheets, SameRecord
<1>4. PartsInOrder'   BY <1>1, <1>2 DEF PartsInOrder, SameRecord, StylesAt
<1>5. WrittenCurrent'   BY <1>1 DEF WrittenCurrent
<1>6. CommittedCurrent'   BY <1>1, <1>2 DEF CommittedCurrent, SameRecord, StylesAt
<1>7. ScansHold'   BY <1>1, <1>2 DEF ScansHold, SameRecord, StylesAt, Past
<1> QED BY <1>3, <1>4, <1>5, <1>6, <1>7 DEF GateInv

(* Fetching and permitting the compiler change no stylesheet.              *)
LEMMA FetchPermitKeeps ==
    ASSUME GateInv, GateTyped', Fetch \/ Permit
    PROVE  GateInv'
<1>1. command.at = "running" /\ UNCHANGED <<tree, sheets>> /\ Running("styles")
         /\ command.part \in {"fetch", "permit"}
  BY DEF Fetch, Permit, Running
<1>2. command.sheet = 1   BY <1>1, RunningAt DEF GateInv, PartsInOrder, Begun
<1>3. \/ Failed
      \/ \E part \in {"permit", "compile"} : command' = [command EXCEPT !.part = part]
  BY DEF Fetch, Permit
<1> QED BY <1>1, <1>2, <1>3, FailedKeeps, PartKeeps

(* The comparison passes on equal stylesheets, or finds one stale.         *)
LEMMA CompareKeeps ==
    ASSUME GateInv, GateTyped', Compare
    PROVE  GateInv'
<1>1. /\ command.at = "running" /\ UNCHANGED <<tree, sheets>> /\ Running("styles")
      /\ command.part = "compare"
  BY DEF Compare, Running
<1>2. command.task \in {"ci", "styles"} /\ command.step = StylesAt(command.task)
  BY <1>1, RunningAt DEF GateInv
<1>3. CASE Failed   BY <1>1, <1>3, FailedKeeps
<1>4. CASE Passed /\ (command.task = "ci" => command.scratch = sheets)
  <2>1. Finds   BY <1>1, <1>2, <1>4 DEF Finds, StylesAt
  <2> QED BY <1>1, <1>4, <2>1, PassedKeeps
<1> QED BY <1>3, <1>4 DEF Compare, Target

(* Past its stylesheets a check has compared them.                         *)
LEMMA ScansCompared ==
    ASSUME GateInv, command.at = "running", command.task = "ci", command.step \in {6, 7, 8, 9}
    PROVE  command.part = "compare"
<1>1. command.part \in {"fetch", "permit", "compile", "compare"}   BY RunningTyped DEF GateInv, Commands
<1>2. /\ command.part \in {"permit", "compile"} => command.step = 5
      /\ command.part = "fetch" => command.step <= 5
  BY DEF GateInv, PartsInOrder, Begun, StylesAt
<1> QED BY <1>1, <1>2

(* A scan that read nothing is passed blindly.                             *)
LEMMA BlindKeeps ==
    ASSUME GateInv, GateTyped', command.at = "running", command.task = "ci", command.step \in {6, 7},
           UNCHANGED <<tree, sheets>>, command' = [command EXCEPT !.step = @ + 1, !.blind = TRUE]
    PROVE  GateInv'
<1>1. /\ SameRecord /\ command'.part = command.part /\ command'.sheet = command.sheet
      /\ command'.scratch = command.scratch /\ command'.blind = TRUE
      /\ command'.at = "running" /\ command'.step = command.step + 1
  BY RunningTyped DEF Commands, SameRecord, GateInv
<1>2. CiLeavesSheets'   BY <1>1 DEF GateInv, CiLeavesSheets, SameRecord
<1>3. PartsInOrder'   BY <1>1 DEF GateInv, PartsInOrder, SameRecord, StylesAt, Begun
<1>4. WrittenCurrent'
  <2>1. Compiled' = Compiled   BY <1>1 DEF Compiled, SameRecord
  <2> QED BY <1>1, <2>1 DEF GateInv, WrittenCurrent, SameRecord, Begun
<1>5. CommittedCurrent'   BY <1>1 DEF GateInv, CommittedCurrent, SameRecord, StylesAt, Begun
<1>6. ScansHold'   BY <1>1 DEF ScansHold, SameRecord, Past
<1> QED BY <1>2, <1>3, <1>4, <1>5, <1>6 DEF GateInv

(* A grep that passes has seen every line of the tree.                     *)
LEMMA GrepsKeep ==
    ASSUME GateInv, GateTyped', NoPredecessor \/ NoHardcodedHues
    PROVE  GateInv'
<1>1. command.at = "running" /\ UNCHANGED <<tree, sheets>> /\ command.task = "ci"
  BY RunningAt DEF NoPredecessor, NoHardcodedHues, Running, GateInv
<1>2. ASSUME NEW offenders, Grep(offenders), command.step \in {6, 7},
             command.step = 6 => offenders = Offenders(tree.page \o tree.kit, "predecessor", "predecessor-mention-ok"),
             command.step = 7 => offenders = Offenders(tree.page \o tree.kit, "hue", "hue-scan-ok")
      PROVE  GateInv'
  <2>1. CASE Failed   BY <1>1, <2>1, FailedKeeps
  <2>2. CASE Passed /\ offenders = {}
    <3>1. Finds   BY <1>1, <1>2, <2>2, ScansCompared DEF Finds
    <3> QED BY <1>1, <2>2, <3>1, PassedKeeps
  <2>3. CASE command' = [command EXCEPT !.step = @ + 1, !.blind = TRUE]
    BY <1>1, <1>2, <2>3, BlindKeeps
  <2> QED BY <1>2, <2>1, <2>2, <2>3 DEF Grep
<1>3. CASE NoPredecessor
  <2>1. command.step = 6   BY <1>1, <1>3, RunningAt DEF NoPredecessor, GateInv
  <2> QED BY <1>2, <1>3, <2>1 DEF NoPredecessor
<1>4. CASE NoHardcodedHues
  <2>1. command.step = 7   BY <1>1, <1>4, RunningAt DEF NoHardcodedHues, GateInv
  <2> QED BY <1>2, <1>4, <2>1 DEF NoHardcodedHues
<1> QED BY <1>3, <1>4

(* The kit's check passes on a page without a raw element, or fails.       *)
LEMMA KitKeeps ==
    ASSUME GateInv, GateTyped', AppsSpeakTheKit
    PROVE  GateInv'
<1>1. command.at = "running" /\ UNCHANGED <<tree, sheets>> /\ command.task = "ci" /\ command.step = 8
  BY RunningAt DEF AppsSpeakTheKit, Running, GateInv
<1>2. CASE Failed   BY <1>1, <1>2, FailedKeeps
<1>3. CASE Passed /\ RawElements(tree.page) = {}
  <2>1. Finds   BY <1>1, <1>3, ScansCompared DEF Finds
  <2> QED BY <1>1, <1>3, <2>1, PassedKeeps
<1> QED BY <1>2, <1>3 DEF AppsSpeakTheKit

(* The boundary check that passes has seen what the kit reaches.           *)
LEMMA WasmKeeps ==
    ASSUME GateInv, GateTyped', WasmBoundary
    PROVE  GateInv'
<1>1. command.at = "running" /\ UNCHANGED <<tree, sheets>> /\ command.task = "ci" /\ command.step = 9
  BY RunningAt DEF WasmBoundary, Running, GateInv
<1>2. CASE Failed   BY <1>1, <1>2, FailedKeeps
<1>3. CASE Passed /\ tree.reach = {}
  <2>1. Finds   BY <1>1, <1>3, ScansCompared DEF Finds
  <2> QED BY <1>1, <1>3, <2>1, PassedKeeps
<1>4. CASE command' = [command EXCEPT !.at = "passed", !.blind = TRUE]
  <2>1. /\ SameRecord /\ command'.part = command.part /\ command'.sheet = command.sheet
        /\ command'.scratch = command.scratch /\ command'.blind = TRUE
        /\ command'.at = "passed" /\ command'.step = command.step
    BY <1>1, <1>4, RunningTyped DEF Commands, SameRecord, GateInv
  <2>2. CiLeavesSheets'   BY <1>1, <2>1 DEF GateInv, CiLeavesSheets, SameRecord
  <2>3. PartsInOrder'   BY <1>1, <2>1, ScansCompared DEF PartsInOrder, SameRecord, StylesAt
  <2>4. WrittenCurrent'
    <3>1. Compiled' = Compiled   BY <1>1, <2>1 DEF Compiled, SameRecord
    <3> QED BY <1>1, <2>1, <3>1 DEF GateInv, WrittenCurrent, SameRecord, Begun
  <2>5. CommittedCurrent'   BY <1>1, <2>1 DEF GateInv, CommittedCurrent, SameRecord, StylesAt, Begun
  <2>6. ScansHold'   BY <1>1, <2>1 DEF GateInv, ScansHold, SameRecord, Past, Begun
  <2> QED BY <2>2, <2>3, <2>4, <2>5, <2>6 DEF GateInv
<1> QED BY <1>2, <1>3, <1>4 DEF WasmBoundary

(* A compiled stylesheet is the one of the tree it was compiled from.      *)
LEMMA CompileKeeps ==
    ASSUME GateInv, GateTyped', CompileSheet
    PROVE  GateInv'
<1>1. command.at = "running" /\ Running("styles") /\ command.part = "compile" /\ tree' = tree
  BY DEF CompileSheet, Running
<1>2. command.task \in {"ci", "styles"} /\ command.step = StylesAt(command.task)
  BY <1>1, RunningAt DEF GateInv
<1>3. \A css : command.task = "ci" => CommittedWith(css) = sheets
  BY DEF CommittedWith, Target
<1>4. CASE Failed   BY <1>1, <1>3, <1>4, FailedKeeps DEF CompileSheet
<1>5. ASSUME ~Failed PROVE GateInv'
  <2> DEFINE css == Css(tree.classes)
             app == Apps[command.sheet]
  <2>1. /\ sheets' = CommittedWith(css)
        /\ command' = IF command.sheet < Len(Apps)
                      THEN [command EXCEPT !.sheet = @ + 1, !.scratch = ScratchWith(css)]
                      ELSE [command EXCEPT !.part = "compare", !.scratch = ScratchWith(css)]
    BY <1>5 DEF CompileSheet
  <2> DEFINE scratch == ScratchWith(css)
  <2> HIDE DEF scratch, css
  <2>2. command \in Commands /\ command.sheet \in DOMAIN Apps /\ sheets \in Tables
    BY <1>1, RunningTyped DEF GateInv, GateTyped
  <2>3. /\ SameRecord /\ command'.scratch = scratch /\ command'.blind = command.blind
        /\ command'.at = "running" /\ command'.step = command.step
        /\ IF command.sheet < Len(Apps)
           THEN command'.sheet = command.sheet + 1 /\ command'.part = "compile"
           ELSE command'.sheet = command.sheet /\ command'.part = "compare"
    BY <1>1, <2>1, <2>2 DEF Commands, SameRecord, scratch
  <2>4. Compiled' = [Compiled EXCEPT ![app] = css]
    BY <1>2, <2>1, <2>3 DEF Compiled, SameRecord, scratch, ScratchWith, CommittedWith, Target
  <2>5. Compiled \in Tables /\ app \in AppNames
    BY <2>2, AppsListed DEF Compiled, Commands
  <2>6. CiLeavesSheets'   BY <1>3, <2>1, <2>3 DEF GateInv, CiLeavesSheets, SameRecord
  <2>7. PartsInOrder'   BY <1>2, <2>3 DEF PartsInOrder, SameRecord, StylesAt
  <2>8. WrittenCurrent'
    <3>1. SUFFICES ASSUME command.fresh
                   PROVE  /\ \A k \in 1..command'.sheet - 1 : Compiled'[Apps[k]] = css
                          /\ command'.part = "compare" => \A other \in AppNames : Compiled'[other] = css
      BY <1>1, <2>3 DEF WrittenCurrent, SameRecord, css
    <3>2. \A k \in 1..command.sheet - 1 : Compiled[Apps[k]] = css
      BY <1>1, <1>2, <3>1 DEF GateInv, WrittenCurrent, Begun, css
    <3>3. command.sheet \in 1..Len(Apps) /\ Len(Apps) \in Nat   BY <2>2, AppsListed
    <3>4. \A k \in 1..command.sheet : Apps[k] \in AppNames /\ Compiled'[Apps[k]] = css
      BY <2>4, <2>5, <3>2, <3>3, AppsListed DEF Tables
    <3>5. CASE command.sheet < Len(Apps)
      BY <2>3, <3>3, <3>4, <3>5
    <3>6. CASE ~(command.sheet < Len(Apps))
      <4>1. command.sheet = Len(Apps) /\ command'.sheet = command.sheet   BY <2>3, <3>3, <3>6
      <4> QED BY <3>3, <3>4, <4>1, AppsListed
    <3> QED BY <3>5, <3>6
  <2>9. CommittedCurrent'   BY <1>2, <2>3 DEF CommittedCurrent, SameRecord, StylesAt
  <2>10. ScansHold'   BY <1>2, <2>3 DEF ScansHold, SameRecord, StylesAt, Past
  <2> QED BY <2>6, <2>7, <2>8, <2>9, <2>10 DEF GateInv
<1> QED BY <1>4, <1>5

(* An interruption claims nothing.                                         *)
LEMMA InterruptKeeps ==
    ASSUME GateInv, GateTyped', Interrupt
    PROVE  GateInv'
<1>1. command.at = "running"   BY DEF Interrupt
<1>2. SameRecord /\ command'.at = "interrupted"
  BY <1>1, RunningTyped DEF Interrupt, Commands, SameRecord, GateInv
<1>3. command.task = "ci" => sheets' = sheets   BY DEF Interrupt, CommittedWith, Target
<1> QED BY <1>2, <1>3, EndedKeeps DEF SameRecord, GateInv, CiLeavesSheets

(* What a command said is of the tree before the edit, which it no longer  *)
(* vouches for.                                                            *)
LEMMA EditKeeps ==
    ASSUME GateInv, GateTyped', NEW edited \in Trees, EditTree(edited)
    PROVE  GateInv'
<1>1. sheets' = sheets   BY DEF EditTree
<1>2. CASE command.at = "running"
  <2>1. /\ command'.task = command.task /\ command'.before = command.before
        /\ command'.fresh = FALSE /\ command'.at = command.at /\ command'.step = command.step
        /\ command'.part = command.part /\ command'.sheet = command.sheet
    BY <1>2, RunningTyped DEF EditTree, Commands, GateInv
  <2>2. CiLeavesSheets' /\ PartsInOrder'
    BY <1>1, <2>1 DEF GateInv, CiLeavesSheets, PartsInOrder, Begun
  <2>3. WrittenCurrent' /\ CommittedCurrent' /\ ScansHold'
    BY <2>1 DEF WrittenCurrent, CommittedCurrent, ScansHold
  <2> QED BY <2>2, <2>3 DEF GateInv
<1>3. CASE command.at # "running"
  <2>1. command' = [task |-> "none", at |-> "idle"]   BY <1>3 DEF EditTree
  <2> QED BY <2>1, EndedKeeps
<1> QED BY <1>2, <1>3

(* Every action of the gate keeps it.                                      *)
LEMMA GateKept == GateInv /\ [GateNext]_gateVars => GateInv'
<1> SUFFICES ASSUME GateInv, [GateNext]_gateVars PROVE GateInv'   OBVIOUS
<1>1. GateTyped'   BY GateStaysTyped DEF GateInv
<1>2. CASE UNCHANGED gateVars
  BY <1>1, <1>2 DEF gateVars, GateInv, CiLeavesSheets, PartsInOrder, WrittenCurrent,
                    CommittedCurrent, ScansHold, Begun, Compiled, Past
<1>3. CASE GateNext
  BY <1>1, <1>3, RunTaskKeeps, RunExternalKeeps, FetchPermitKeeps, CompileKeeps, CompareKeeps,
     GrepsKeep, KitKeeps, WasmKeeps, InterruptKeeps, EditKeeps, EditedTrees
  DEF GateNext, GateInv
<1> QED BY <1>2, <1>3

(* A file of so many lines is a sequence of them.                          *)
LEMMA FileIsSeq ==
    ASSUME NEW S, NEW n \in Nat, NEW f \in [1..n -> S]
    PROVE  f \in Seq(S) /\ Len(f) = n
<1>1. f \in UNION {[1..m -> S] : m \in Nat}   OBVIOUS
<1>2. f \in Seq(S)   BY <1>1, SeqDef
<1> QED BY <1>2

(* A grep without offenders over two files has seen every line of both.    *)
LEMMA NoneOffends ==
    ASSUME NEW S, NEW page \in Seq(S), NEW kit \in Seq(S),
           NEW word, NEW optOut, Offenders(page \o kit, word, optOut) = {}
    PROVE  /\ \A i \in DOMAIN page : page[i].word = word => page[i].mark = optOut
           /\ \A i \in DOMAIN kit : kit[i].word = word => kit[i].mark = optOut
<1>1. page \o kit \in Seq(S) /\ Len(page \o kit) = Len(page) + Len(kit)   OBVIOUS
<1>2. \A i \in 1..Len(page) + Len(kit) :
          (page \o kit)[i] = IF i <= Len(page) THEN page[i] ELSE kit[i - Len(page)]
  BY ConcatProperties
<1>3. DOMAIN (page \o kit) = 1..Len(page) + Len(kit) /\ Len(page) \in Nat /\ Len(kit) \in Nat
         /\ DOMAIN page = 1..Len(page) /\ DOMAIN kit = 1..Len(kit)
  BY <1>1
<1> DEFINE both == page \o kit
<1>4. Offenders(both, word, optOut) = {}   OBVIOUS
<1> HIDE DEF both
<1>5. \A k \in DOMAIN both : both[k].word = word => both[k].mark = optOut
  BY <1>4 DEF Offenders
<1>6. ASSUME NEW i \in DOMAIN page PROVE i \in DOMAIN both /\ both[i] = page[i]
  BY <1>2, <1>3 DEF both
<1>7. ASSUME NEW i \in DOMAIN kit PROVE Len(page) + i \in DOMAIN both /\ both[Len(page) + i] = kit[i]
  <2>1. i \in Int /\ 1 <= i /\ i <= Len(kit)   BY <1>3
  <2>2. Len(page) + i \in 1..Len(page) + Len(kit) /\ ~(Len(page) + i <= Len(page))
           /\ Len(page) + i - Len(page) = i
    BY <1>3, <2>1
  <2>3. both[Len(page) + i] = kit[i]   BY <1>2, <2>2 DEF both
  <2> QED BY <1>3, <2>2, <2>3 DEF both
<1>8. \A i \in DOMAIN page : page[i].word = word => page[i].mark = optOut
  BY <1>5, <1>6
<1>9. \A i \in DOMAIN kit : kit[i].word = word => kit[i].mark = optOut
  BY <1>5, <1>7
<1> QED BY <1>8, <1>9

(* What the scans look for, line by line.                                  *)
LEMMA GateImplied == GateInv => GateTellsTheTruth
<1> SUFFICES ASSUME GateInv PROVE GateTellsTheTruth   OBVIOUS
<1>1. command.task = "ci" => sheets = command.before   BY DEF GateInv, CiLeavesSheets
<1>2. command.at = "passed" /\ command.fresh /\ command.task \in {"ci", "styles"} =>
          \A app \in AppNames : sheets[app] = Css(tree.classes)
  BY DEF GateInv, CommittedCurrent, Begun
<1>3. ASSUME command.at = "passed", command.fresh, command.task = "ci"
      PROVE  /\ \A i \in DOMAIN tree.page : tree.page[i].kind = "element" => Excused(tree.page, i)
             /\ ~command.blind =>
                /\ tree.reach = {}
                /\ \A line \in {tree.page[i] : i \in DOMAIN tree.page} \cup {tree.kit[1]} :
                      /\ line.word = "hue" => Marked(line, "hue-scan-ok")
                      /\ line.word = "predecessor" => Marked(line, "predecessor-mention-ok")
  <2>1. /\ tree.page \in [1..PageLength -> Lines] /\ tree.kit \in [1..1 -> Lines] /\ PageLength \in Nat
    BY GateAssumption DEF GateInv, GateTyped, Trees
  <2>2. RawElements(tree.page) = {}   BY <1>3 DEF GateInv, ScansHold, Begun, Past
  <2>3. \A i \in DOMAIN tree.page : tree.page[i].kind = "element" => Excused(tree.page, i)
    BY <2>1, <2>2, ScannedIsExcused
  <2>4. ASSUME ~command.blind, NEW line \in {tree.page[i] : i \in DOMAIN tree.page} \cup {tree.kit[1]}
        PROVE  /\ line.word = "hue" => Marked(line, "hue-scan-ok")
               /\ line.word = "predecessor" => Marked(line, "predecessor-mention-ok")
    <3>1. /\ Offenders(tree.page \o tree.kit, "hue", "hue-scan-ok") = {}
          /\ Offenders(tree.page \o tree.kit, "predecessor", "predecessor-mention-ok") = {}
      BY <1>3, <2>4 DEF GateInv, ScansHold, Begun, Past
    <3>5. tree.page \in Seq(Lines)   BY <2>1, FileIsSeq
    <3>6. tree.kit \in Seq(Lines)   BY <2>1, FileIsSeq
    <3>2. /\ \A i \in DOMAIN tree.page : tree.page[i].word = "hue" => tree.page[i].mark = "hue-scan-ok"
          /\ \A i \in DOMAIN tree.kit : tree.kit[i].word = "hue" => tree.kit[i].mark = "hue-scan-ok"
      BY <3>1, <3>5, <3>6, NoneOffends
    <3>3. /\ \A i \in DOMAIN tree.page :
                tree.page[i].word = "predecessor" => tree.page[i].mark = "predecessor-mention-ok"
          /\ \A i \in DOMAIN tree.kit :
                tree.kit[i].word = "predecessor" => tree.kit[i].mark = "predecessor-mention-ok"
      BY <3>1, <3>5, <3>6, NoneOffends
    <3>4. 1 \in DOMAIN tree.kit   BY <2>1
    <3> QED BY <2>4, <3>2, <3>3, <3>4 DEF Marked
  <2> QED BY <1>3, <2>3, <2>4 DEF GateInv, ScansHold, Begun, Past
<1> QED BY <1>1, <1>2, <1>3 DEF GateTellsTheTruth

(* What a passed gate says of a checkout holds (tooling/xtask, run_gate     *)
(* and its steps), for any applications, lines and lengths of a page.      *)
THEOREM GateHolds == GateSpec => []GateTellsTheTruth
<1>1. GateInit => GateInv   BY GateStarts
<1>2. GateInv /\ [GateNext]_gateVars => GateInv'   BY GateKept
<1>3. GateInv => GateTellsTheTruth   BY GateImplied
<1> QED BY <1>1, <1>2, <1>3, PTL DEF GateSpec

-----------------------------------------------------------------------------
(***************************************************************************)
(* Staging: a directory that looks like a release is one.                  *)
(***************************************************************************)

(* What the staging of an output makes of its pages and keeps to choose    *)
(* its assets from.                                                        *)
IsStatic(tool, runtime) == tool = "web" /\ runtime = "static"
RewrittenPage(tool, runtime, page) ==
    IF IsStatic(tool, runtime) THEN StripRuntime(page) ELSE ExternalizeRuntime(page)

Candidates(tool, build, runtime) ==
    IF IsStatic(tool, runtime) THEN DOMAIN build.mentions \ Scripts
    ELSE DOMAIN build.mentions
            \cup Written(build, IF tool = "web" THEN Range(Paths) ELSE {"index"})

PageDone(tool, build, runtime, pages, p) ==
    /\ pages[p] = RewrittenPage(tool, runtime, build.pages[p])
    /\ PageStages(build.pages[p], runtime)

(* Every page is rewritten; of an app, the index alone.                    *)
PagesDone(tool, build, runtime, pages) ==
    IF tool = "web"
    THEN /\ pages = [p \in Range(Paths) |-> pages[p]]
         /\ \A p \in Range(Paths) : PageDone(tool, build, runtime, pages, p)
    ELSE pages = [build.pages EXCEPT !["index"] = ExternalizeRuntime(@)]

AllRoutes == {RouteForHtml(p) : p \in Range(Paths)}

Invocations == {"refused", "copy", "pages", "index", "prune", "publish", "failed", "staged"}

IsDirectory(d) == d = [pages |-> d.pages, assets |-> d.assets, robots |-> d.robots,
                       routes |-> d.routes, key |-> d.key]

ReleaseTyped ==
    /\ dest = [web |-> dest.web, app |-> dest.app]
    /\ \A t \in Tools : IsDirectory(dest[t])
    /\ invocations \in Nat
    /\ staging.at \in Invocations \cup {"idle"}
    /\ staging.at # "idle" =>
          /\ staging = [at |-> staging.at, tool |-> staging.tool, build |-> staging.build,
                        runtime |-> staging.runtime, before |-> staging.before,
                        todo |-> staging.todo]
          /\ staging.tool \in Tools /\ staging.runtime \in Runtimes
          /\ staging.build \in UNION Range(Builds)
          /\ staging.todo \in Seq(Range(Paths))

(* What a step of the staging finds in the directory.                      *)
StepsFind(tool, build, runtime, at, todo, d) ==
    /\ at = "copy" => todo = Paths
    /\ at \in {"pages", "index", "prune", "publish"} => ~d.robots /\ ~d.key
    /\ at = "pages" =>
          /\ tool = "web" /\ d.assets = DOMAIN build.mentions
          /\ d.pages = [p \in Range(Paths) |-> d.pages[p]]
          /\ \A p \in Range(Paths) :
                \/ PageDone(tool, build, runtime, d.pages, p)
                \/ p \in Range(todo) /\ d.pages[p] = build.pages[p]
    /\ at = "index" =>
          tool = "app" /\ d.assets = DOMAIN build.mentions /\ d.pages = build.pages
    /\ at = "prune" =>
          /\ tool = "app" /\ d.assets = Candidates(tool, build, runtime)
          /\ PagesDone(tool, build, runtime, d.pages)
    /\ at = "publish" =>
          /\ d.assets = Reachable(build, d.pages, Candidates(tool, build, runtime))
          /\ PagesDone(tool, build, runtime, d.pages)

(* How an invocation leaves the directory.                                 *)
EndsLeave(tool, build, runtime, at, before, d) ==
    /\ at \in {"staged", "failed"} /\ d.robots => Whole(tool, build, runtime, d)
    /\ at = "staged" => d.robots /\ (tool = "web" => d.routes = AllRoutes)
    /\ at = "failed" /\ tool = "app" => ~d.robots
    /\ at = "refused" => d = before

StagingHolds ==
    staging.at # "idle" =>
        /\ StepsFind(staging.tool, staging.build, staging.runtime, staging.at, staging.todo,
                     dest[staging.tool])
        /\ EndsLeave(staging.tool, staging.build, staging.runtime, staging.at, staging.before,
                     dest[staging.tool])

(* The key file is written last, and only a site that has it is told of.   *)
KeyComesLast ==
    /\ dest.web.key => dest.web.robots /\ dest.web.routes = AllRoutes
    /\ online.key => online.robots /\ online.routes = AllRoutes
    /\ announced # Offline => announced.robots /\ announced.routes = AllRoutes

ReleaseInv == ReleaseTyped /\ StagingHolds /\ KeyComesLast

(* A set that grows within a finite one until it stays has stopped after   *)
(* as many steps as that one has members.                                  *)
LEMMA GrowthStops ==
    ASSUME NEW C, IsFiniteSet(C), NEW f \in [Nat -> SUBSET C],
           \A n \in Nat : f[n] \subseteq f[n + 1],
           \A n \in Nat : f[n + 1] = f[n] => f[n + 2] = f[n + 1]
    PROVE  f[Cardinality(C) + 1] = f[Cardinality(C)]
<1> DEFINE c == Cardinality(C)
           Grown == {n \in Nat : f[n + 1] = f[n] \/ Cardinality(f[n + 1]) >= n + 1}
<1>1. c \in Nat   BY FS_CardinalityType
<1>2. ASSUME NEW n \in Nat
      PROVE  IsFiniteSet(f[n]) /\ Cardinality(f[n]) \in Nat /\ Cardinality(f[n]) <= c
  BY FS_Subset, FS_CardinalityType
<1>3. ASSUME NEW n \in Nat, f[n + 1] # f[n]
      PROVE  Cardinality(f[n]) < Cardinality(f[n + 1])
  <2>1. n + 1 \in Nat /\ f[n] \subseteq f[n + 1]   OBVIOUS
  <2>2. /\ Cardinality(f[n]) <= Cardinality(f[n + 1])
        /\ Cardinality(f[n]) = Cardinality(f[n + 1]) => f[n] = f[n + 1]
    BY <1>2, <2>1, FS_Subset
  <2>3. Cardinality(f[n]) \in Nat /\ Cardinality(f[n + 1]) \in Nat   BY <1>2, <2>1
  <2> QED BY <1>3, <2>2, <2>3
<1>4. 0 \in Grown
  <2>1. CASE f[0 + 1] # f[0]
    <3>1. Cardinality(f[0]) < Cardinality(f[0 + 1])   BY <1>3, <2>1
    <3>2. Cardinality(f[0]) \in Nat /\ Cardinality(f[0 + 1]) \in Nat   BY <1>2
    <3> QED BY <3>1, <3>2
  <2> QED BY <2>1
<1>5. \A n \in Nat : n \in Grown => n + 1 \in Grown
  <2> SUFFICES ASSUME NEW n \in Nat, n \in Grown PROVE n + 1 \in Grown   OBVIOUS
  <2>1. n + 1 \in Nat /\ (n + 1) + 1 = n + 2   OBVIOUS
  <2>2. CASE f[n + 1] = f[n]   BY <2>1, <2>2
  <2>3. CASE f[n + 2] # f[n + 1]
    <3>1. f[n + 1] # f[n]   BY <2>3
    <3>2. Cardinality(f[n + 1]) >= n + 1   BY <3>1
    <3>3. Cardinality(f[n + 1]) < Cardinality(f[n + 2])   BY <1>3, <2>1, <2>3
    <3>4. Cardinality(f[n + 1]) \in Nat /\ Cardinality(f[n + 2]) \in Nat   BY <1>2, <2>1
    <3> QED BY <2>1, <3>2, <3>3, <3>4
  <2> QED BY <2>1, <2>2, <2>3
<1>6. c \in Grown
  <2> HIDE DEF Grown
  <2> QED BY <1>1, <1>4, <1>5, InductionOnASet
<1>7. Cardinality(f[c + 1]) \in Nat /\ Cardinality(f[c + 1]) <= c   BY <1>1, <1>2
<1> QED BY <1>1, <1>6, <1>7

LEMMA OccurringOfBoth ==
    ASSUME NEW A, NEW B
    PROVE  Occurring(A \cup B) = Occurring(A) \cup Occurring(B)
BY DEF Occurring

LEMMA OccurringGrows ==
    ASSUME NEW B, NEW A \in SUBSET B
    PROVE  Occurring(A) \subseteq Occurring(B)
BY DEF Occurring

LEMMA MentionsGrow ==
    ASSUME NEW build, NEW B, NEW A \in SUBSET B
    PROVE  MentionedBy(build, A) \subseteq MentionedBy(build, B)
<1>1. A \cap DOMAIN build.mentions \subseteq B \cap DOMAIN build.mentions   OBVIOUS
<1>2. Bodies(A) \subseteq Bodies(B)   BY DEF Bodies
<1> QED BY <1>1, <1>2 DEF MentionedBy

(* The passes of the pruning, and that they are what its definition makes. *)
Grown(build, candidates, S) == S \cup (candidates \cap Occurring(MentionedBy(build, S)))

Passes(f, build, pages, candidates) ==
    /\ f \in [Nat -> SUBSET candidates]
    /\ f[0] = candidates \cap Occurring(OfPages(pages))
    /\ \A n \in Nat : f[n + 1] = Grown(build, candidates, f[n])

LEMMA PassesExist ==
    ASSUME NEW build, NEW pages, NEW candidates
    PROVE  \E f : /\ Passes(f, build, pages, candidates)
                  /\ Pruned(build, pages, candidates) = f[Cardinality(candidates)]
<1> DEFINE V == SUBSET candidates
           v == candidates \cap Occurring(OfPages(pages))
           step == [n \in Nat |-> [S \in V |-> Grown(build, candidates, S)]]
<1>1. step \in [Nat -> [V -> V]]
  <2>1. ASSUME NEW S \in V PROVE Grown(build, candidates, S) \in V   BY DEF Grown
  <2> QED BY <2>1
<1>2. PICK F : Recurs(F, v, step, V)
  <2>1. v \in V   OBVIOUS
  <2> HIDE DEF step, v, V
  <2> QED BY <1>1, <2>1, Recursion
<1>3. /\ F \in [Nat -> V] /\ F[0] = v
      /\ \A n \in Nat \ {0} : F[n] = Grown(build, candidates, F[n - 1])
  <2>1. F \in [Nat -> V] /\ F[0] = v /\ \A n \in Nat \ {0} : F[n] = step[n][F[n - 1]]
    BY <1>2 DEF Recurs
  <2>2. ASSUME NEW n \in Nat \ {0} PROVE F[n] = Grown(build, candidates, F[n - 1])
    <3>1. n - 1 \in Nat /\ F[n - 1] \in V   BY <2>1
    <3>2. step[n][F[n - 1]] = Grown(build, candidates, F[n - 1])   BY <3>1
    <3> QED BY <2>1, <3>2
  <2> QED BY <2>1, <2>2
<1> HIDE DEF step
<1> DEFINE At(f, n) == IF n = 0 THEN candidates \cap Occurring(OfPages(pages))
                       ELSE f[n - 1] \cup (candidates \cap Occurring(MentionedBy(build, f[n - 1])))
           G == CHOOSE f : f = [n \in Nat |-> At(f, n)]
<1>4. F = [n \in Nat |-> At(F, n)]
  <2>1. ASSUME NEW n \in Nat PROVE F[n] = At(F, n)   BY <1>3 DEF Grown
  <2> HIDE DEF At
  <2> QED BY <1>3, <2>1
<1>5. G = [n \in Nat |-> At(G, n)]
  <2> HIDE DEF At
  <2> QED BY <1>4
<1>6. Pruned(build, pages, candidates) = G[Cardinality(candidates)]   BY DEF Pruned, At
<1> HIDE DEF G
<1>7. G[0] = v   BY <1>5
<1>8. ASSUME NEW n \in Nat PROVE G[n + 1] = Grown(build, candidates, G[n])
  <2>1. n + 1 \in Nat /\ n + 1 # 0 /\ (n + 1) - 1 = n   OBVIOUS
  <2>2. G[n + 1] = At(G, n + 1)   BY <1>5, <2>1
  <2> QED BY <2>1, <2>2 DEF Grown
<1>9. G \in [Nat -> V]
  <2> DEFINE T == {n \in Nat : G[n] \in V}
  <2>1. 0 \in T   BY <1>7
  <2>2. \A n \in Nat : n \in T => n + 1 \in T   BY <1>8 DEF Grown
  <2>3. \A n \in Nat : n \in T
    <3> HIDE DEF T
    <3> QED BY <2>1, <2>2, InductionOnASet
  <2>4. G = [n \in Nat |-> G[n]]
    <3> HIDE DEF At
    <3> QED BY <1>5
  <2> QED BY <2>3, <2>4
<1>10. Passes(G, build, pages, candidates)   BY <1>7, <1>8, <1>9 DEF Passes
<1> QED BY <1>6, <1>10

(* What the passes leave is what the pages reach, by definition.           *)
LEMMA PruningKeepsTheReachable ==
    ASSUME NEW build, NEW pages, NEW candidates, IsFiniteSet(candidates)
    PROVE  Pruned(build, pages, candidates) = Reachable(build, pages, candidates)
<1> DEFINE c == Cardinality(candidates)
           Closed == {S \in SUBSET candidates :
                        candidates \cap Occurring(OfPages(pages) \cup MentionedBy(build, S)) \subseteq S}
<1>1. PICK f : Passes(f, build, pages, candidates) /\ Pruned(build, pages, candidates) = f[c]
  BY PassesExist
<1>2. /\ f \in [Nat -> SUBSET candidates] /\ f[0] = candidates \cap Occurring(OfPages(pages))
      /\ \A n \in Nat : f[n + 1] = f[n] \cup (candidates \cap Occurring(MentionedBy(build, f[n])))
  BY <1>1 DEF Passes, Grown
<1>3. c \in Nat   BY FS_CardinalityType
<1>4. f[c + 1] = f[c]
  <2>1. \A n \in Nat : f[n] \subseteq f[n + 1]   BY <1>2
  <2>2. ASSUME NEW n \in Nat, f[n + 1] = f[n] PROVE f[n + 2] = f[n + 1]
    <3>1. n + 1 \in Nat /\ (n + 1) + 1 = n + 2   OBVIOUS
    <3>2. f[n + 2] = f[n + 1] \cup (candidates \cap Occurring(MentionedBy(build, f[n + 1])))
      BY <1>2, <3>1
    <3> QED BY <1>2, <2>2, <3>2
  <2> QED BY <1>2, <2>1, <2>2, GrowthStops
<1>5. f[c] \in Closed
  <2>1. f[0] \subseteq f[c]
    <3> DEFINE T == {n \in Nat : f[0] \subseteq f[n]}
    <3>1. 0 \in T   OBVIOUS
    <3>2. \A n \in Nat : n \in T => n + 1 \in T   BY <1>2
    <3>3. \A n \in Nat : n \in T
      <4> HIDE DEF T
      <4> QED BY <3>1, <3>2, InductionOnASet
    <3> QED BY <1>3, <3>3
  <2>2. candidates \cap Occurring(MentionedBy(build, f[c])) \subseteq f[c]   BY <1>2, <1>3, <1>4
  <2>3. Occurring(OfPages(pages) \cup MentionedBy(build, f[c]))
        = Occurring(OfPages(pages)) \cup Occurring(MentionedBy(build, f[c]))
    BY OccurringOfBoth
  <2>4. f[c] \in SUBSET candidates   BY <1>2, <1>3
  <2> QED BY <1>2, <2>1, <2>2, <2>3, <2>4
<1>6. ASSUME NEW S \in Closed PROVE f[c] \subseteq S
  <2> DEFINE T == {n \in Nat : f[n] \subseteq S}
  <2>1. Occurring(OfPages(pages) \cup MentionedBy(build, S))
        = Occurring(OfPages(pages)) \cup Occurring(MentionedBy(build, S))
    BY OccurringOfBoth
  <2>2. /\ candidates \cap Occurring(OfPages(pages)) \subseteq S
        /\ candidates \cap Occurring(MentionedBy(build, S)) \subseteq S
    BY <2>1
  <2>3. 0 \in T   BY <1>2, <2>2
  <2>4. ASSUME NEW n \in Nat, n \in T PROVE n + 1 \in T
    <3>1. f[n] \in SUBSET S   BY <2>4
    <3>2. MentionedBy(build, f[n]) \in SUBSET MentionedBy(build, S)   BY <3>1, MentionsGrow
    <3>3. Occurring(MentionedBy(build, f[n])) \subseteq Occurring(MentionedBy(build, S))
      BY <3>2, OccurringGrows
    <3> QED BY <1>2, <2>2, <3>1, <3>3
  <2>5. \A n \in Nat : n \in T
    <3> HIDE DEF T
    <3> QED BY <2>3, <2>4, InductionOnASet
  <2> QED BY <1>3, <2>5
<1>7. f[c] \subseteq candidates   BY <1>2, <1>3
<1>8. Reachable(build, pages, candidates) = {a \in candidates : \A S \in Closed : a \in S}
  BY DEF Reachable
<1> HIDE DEF Closed
<1>9. {a \in candidates : \A S \in Closed : a \in S} = f[c]   BY <1>5, <1>6, <1>7
<1> QED BY <1>1, <1>8, <1>9

IsPage(page) == page = [names |-> page.names, modules |-> page.modules,
                        inline |-> page.inline, faults |-> page.faults]

LEMMA OutputsAreWell ==
    ASSUME NEW build \in UNION Range(Builds)
    PROVE  /\ IsFiniteSet(DOMAIN build.mentions)
           /\ build.pages = [p \in Range(Paths) |-> build.pages[p]]
           /\ \A p \in Range(Paths) :
                 IsPage(build.pages[p]) /\ build.pages[p].inline \subseteq DOMAIN BodyMentions
           /\ "index" \in Range(Paths)
BY OutputsAssumption DEF Outputs, IsPage

LEMMA PagesAreRewritten ==
    ASSUME NEW page, IsPage(page)
    PROVE  /\ StripRuntime(page) = [names |-> page.names, modules |-> {}, inline |-> {}, faults |-> page.faults]
           /\ ExternalizeRuntime(page) =
                 [names |-> page.names \cup {RuntimeName[b] : b \in page.inline},
                  modules |-> page.modules, inline |-> {}, faults |-> page.faults]
<1>1. ASSUME NEW n, NEW m, NEW i, NEW f,
             page = [names |-> n, modules |-> m, inline |-> i, faults |-> f]
      PROVE  /\ StripRuntime(page) = [names |-> n, modules |-> {}, inline |-> {}, faults |-> f]
             /\ ExternalizeRuntime(page) =
                   [names |-> n \cup {RuntimeName[b] : b \in i},
                    modules |-> m, inline |-> {}, faults |-> f]
  <2>1. page.names = n /\ page.inline = i   BY <1>1
  <2>2. [page EXCEPT !.inline = {}] = [names |-> n, modules |-> m, inline |-> {}, faults |-> f]
    BY <1>1
  <2>3. StripRuntime(page) = [names |-> n, modules |-> {}, inline |-> {}, faults |-> f]
    <3>1. StripRuntime(page) = [[page EXCEPT !.inline = {}] EXCEPT !.modules = {}]
      BY DEF StripRuntime
    <3> QED BY <2>2, <3>1
  <2>4. ExternalizeRuntime(page)
        = [names |-> n \cup {RuntimeName[b] : b \in i}, modules |-> m, inline |-> {}, faults |-> f]
    <3> DEFINE more == {RuntimeName[b] : b \in i}
    <3>1. ExternalizeRuntime(page) = [page EXCEPT !.inline = {}, !.names = @ \cup more]
      BY <2>1 DEF ExternalizeRuntime
    <3> HIDE DEF more
    <3>2. ExternalizeRuntime(page) = [[page EXCEPT !.inline = {}] EXCEPT !.names = @ \cup more]
      BY <3>1
    <3>3. ExternalizeRuntime(page) = [names |-> n \cup more, modules |-> m, inline |-> {}, faults |-> f]
      BY <2>2, <3>2
    <3> QED BY <3>3 DEF more
  <2> QED BY <2>3, <2>4
<1>2. page = [names |-> page.names, modules |-> page.modules,
              inline |-> page.inline, faults |-> page.faults]
  BY DEF IsPage
<1> QED BY <1>1, <1>2

LEMMA CandidatesAreFinite ==
    ASSUME NEW build \in UNION Range(Builds), NEW tool, NEW runtime
    PROVE  IsFiniteSet(Candidates(tool, build, runtime))
<1> DEFINE names == {RuntimeName[b] : b \in DOMAIN BodyMentions}
           paths == IF tool = "web" THEN Range(Paths) ELSE {"index"}
<1>1. IsFiniteSet(DOMAIN build.mentions)   BY OutputsAreWell
<1>2. IsFiniteSet(names)
  <2>1. IsFiniteSet(DOMAIN BodyMentions)   BY OutputsAssumption DEF Outputs
  <2> DEFINE f == [b \in DOMAIN BodyMentions |-> RuntimeName[b]]
  <2>2. f \in [DOMAIN BodyMentions -> names]   OBVIOUS
  <2>3. f \in Surjection(DOMAIN BodyMentions, names)   BY <2>2 DEF Surjection
  <2> HIDE DEF f, names
  <2> QED BY <2>1, <2>3, FS_Surjection
<1>3. Written(build, paths) \subseteq names
  <2>1. \A p \in paths : build.pages[p].inline \subseteq DOMAIN BodyMentions   BY OutputsAreWell
  <2> QED BY <2>1 DEF Written
<1>4. IsFiniteSet(Written(build, paths))
  <2> HIDE DEF names, paths
  <2> QED BY <1>2, <1>3, FS_Subset
<1>5. IsFiniteSet(DOMAIN build.mentions \cup Written(build, paths))
  <2> HIDE DEF paths
  <2> QED BY <1>1, <1>4, FS_Union
<1>6. IsFiniteSet(DOMAIN build.mentions \ Scripts)   BY <1>1, FS_Subset
<1> QED BY <1>5, <1>6 DEF Candidates

(* A script that was moved out of a page is kept with the assets.          *)
LEMMA MovedScriptsAreReached ==
    ASSUME NEW build \in UNION Range(Builds), NEW tool, NEW runtime, NEW pages,
           ~IsStatic(tool, runtime), NEW paths,
           paths = IF tool = "web" THEN Range(Paths) ELSE {"index"},
           paths \subseteq DOMAIN pages,
           \A p \in paths : pages[p] = ExternalizeRuntime(build.pages[p])
    PROVE  Written(build, paths) \subseteq Reachable(build, pages, Candidates(tool, build, runtime))
<1> DEFINE C == Candidates(tool, build, runtime)
<1> SUFFICES ASSUME NEW a \in Written(build, paths) PROVE a \in Reachable(build, pages, C)
  OBVIOUS
<1>1. PICK p \in paths : \E b \in build.pages[p].inline : a = RuntimeName[b]   BY DEF Written
<1>2. p \in Range(Paths)   BY OutputsAreWell
<1>3. a \in pages[p].names
  <2>1. IsPage(build.pages[p])   BY <1>2, OutputsAreWell
  <2>2. ExternalizeRuntime(build.pages[p]).names
        = build.pages[p].names \cup {RuntimeName[b] : b \in build.pages[p].inline}
    BY <2>1, PagesAreRewritten
  <2> QED BY <1>1, <2>2
<1>4. a \in OfPages(pages)
  <2>1. a \in UNION {pages[q].names \cup pages[q].modules : q \in DOMAIN pages}   BY <1>3
  <2> QED BY <2>1 DEF OfPages
<1>5. a \in C   BY DEF Candidates
<1>6. \A S : a \in Occurring(OfPages(pages) \cup MentionedBy(build, S))   BY <1>4 DEF Occurring
<1> HIDE DEF C
<1> QED BY <1>5, <1>6 DEF Reachable

LEMMA PublishedIsWhole ==
    ASSUME NEW build \in UNION Range(Builds), NEW tool \in Tools, NEW runtime, NEW d,
           d.assets = Reachable(build, d.pages, Candidates(tool, build, runtime)),
           PagesDone(tool, build, runtime, d.pages),
           tool = "app" => d.assets \cap build.leaky = {}
    PROVE  Whole(tool, build, runtime, d)
<1>1. CASE tool = "web"
  <2>1. /\ DOMAIN d.pages = Range(Paths)
        /\ \A p \in Range(Paths) : PageDone(tool, build, runtime, d.pages, p)
    BY <1>1 DEF PagesDone
  <2>2. ASSUME NEW p \in Range(Paths)
        PROVE  /\ d.pages[p].inline = {} /\ d.pages[p].faults = build.pages[p].faults
               /\ build.pages[p].faults \cap Rejected = {}
               /\ IsStatic(tool, runtime) => /\ d.pages[p].modules = {}
                                   /\ build.pages[p].faults \cap ({"handler"} \cup LeftoverScript) = {}
    <3>1. d.pages[p] = RewrittenPage(tool, runtime, build.pages[p]) /\ PageStages(build.pages[p], runtime)
      BY <2>1 DEF PageDone
    <3>2. /\ d.pages[p].inline = {} /\ d.pages[p].faults = build.pages[p].faults
          /\ IsStatic(tool, runtime) => d.pages[p].modules = {}
      <4>1. IsPage(build.pages[p])   BY OutputsAreWell
      <4> QED BY <3>1, <4>1, PagesAreRewritten DEF RewrittenPage
    <3>3. build.pages[p].faults \cap Rejected = {}   BY <3>1 DEF PageStages
    <3>4. IsStatic(tool, runtime) => build.pages[p].faults \cap ({"handler"} \cup LeftoverScript) = {}
      BY <3>1 DEF PageStages, IsStatic
    <3> QED BY <3>2, <3>3, <3>4
  <2>3. CASE IsStatic(tool, runtime)
    <3>1. d.assets = Reachable(build, d.pages, DOMAIN build.mentions \ Scripts)
      BY <2>3 DEF Candidates
    <3> QED BY <1>1, <2>1, <2>2, <2>3, <3>1 DEF Whole, IsStatic
  <2>4. CASE ~IsStatic(tool, runtime)
    <3>1. d.assets = Reachable(build, d.pages, DOMAIN build.mentions \cup Written(build, Range(Paths)))
      BY <1>1, <2>4 DEF Candidates
    <3>2. \A p \in Range(Paths) : d.pages[p] = ExternalizeRuntime(build.pages[p])
      BY <2>1, <2>4 DEF PageDone, RewrittenPage
    <3>3. Written(build, Range(Paths)) \subseteq d.assets
      BY <1>1, <2>1, <2>4, <3>2, MovedScriptsAreReached
    <3>4. ScriptsMoved(build, d, Range(Paths))   BY <2>2, <3>3 DEF ScriptsMoved
    <3> QED BY <1>1, <2>1, <2>2, <2>4, <3>1, <3>4 DEF Whole, IsStatic
  <2> QED BY <2>3, <2>4
<1>2. CASE tool = "app"
  <2>1. d.pages = [build.pages EXCEPT !["index"] = ExternalizeRuntime(@)]   BY <1>2 DEF PagesDone
  <2>2. DOMAIN build.pages = Range(Paths) /\ "index" \in Range(Paths)   BY OutputsAreWell
  <2>3. "index" \in DOMAIN d.pages /\ d.pages["index"] = ExternalizeRuntime(build.pages["index"])
    BY <2>1, <2>2
  <2>4. ~IsStatic(tool, runtime)   BY <1>2 DEF IsStatic
  <2>5. d.assets = Reachable(build, d.pages, DOMAIN build.mentions \cup Written(build, {"index"}))
    BY <1>2, <2>4 DEF Candidates
  <2>6. Written(build, {"index"}) \subseteq d.assets
    BY <1>2, <2>3, <2>4, MovedScriptsAreReached
  <2>7. d.pages["index"].inline = {}
    <3>1. IsPage(build.pages["index"])   BY <2>2, OutputsAreWell
    <3> QED BY <2>3, <3>1, PagesAreRewritten
  <2>8. ScriptsMoved(build, d, {"index"})   BY <2>6, <2>7 DEF ScriptsMoved
  <2> QED BY <1>2, <2>5, <2>8 DEF Whole
<1> QED BY <1>1, <1>2 DEF Tools

Run(at, before, todo) ==
    [at |-> at, tool |-> staging.tool, build |-> staging.build, runtime |-> staging.runtime,
     before |-> before, todo |-> todo]

Moved(how) == [staging EXCEPT !.at = how]
Walked(todo) == [staging EXCEPT !.todo = todo]
CopiedTo(how) == [staging EXCEPT !.at = how, !.before = Absent]
Replaced(t, d) == [dest EXCEPT ![t] = d]

LEMMA RunsAre ==
    ASSUME ReleaseTyped, staging.at # "idle"
    PROVE  /\ staging = Run(staging.at, staging.before, staging.todo)
           /\ \A how : Ended(how) = Run(how, staging.before, <<>>)
           /\ \A how : Moved(how) = Run(how, staging.before, staging.todo)
           /\ \A todo : Walked(todo) = Run(staging.at, staging.before, todo)
           /\ \A how : CopiedTo(how) = Run(how, Absent, staging.todo)
<1> DEFINE a == staging.at  t == staging.tool  b == staging.build  r == staging.runtime
           e == staging.before  o == staging.todo
<1>1. staging = [at |-> a, tool |-> t, build |-> b, runtime |-> r, before |-> e, todo |-> o]
  BY DEF ReleaseTyped
<1> HIDE DEF a, t, b, r, e, o
<1>2. ASSUME NEW how
      PROVE  Moved(how)
             = [at |-> how, tool |-> t, build |-> b, runtime |-> r, before |-> e, todo |-> o]
  BY <1>1 DEF Moved
<1>3. ASSUME NEW todo
      PROVE  Walked(todo)
             = [at |-> a, tool |-> t, build |-> b, runtime |-> r, before |-> e, todo |-> todo]
  BY <1>1 DEF Walked
<1>4. ASSUME NEW how
      PROVE  Ended(how)
             = [at |-> how, tool |-> t, build |-> b, runtime |-> r, before |-> e, todo |-> <<>>]
  <2>1. Ended(how) = [Moved(how) EXCEPT !.todo = <<>>]   BY DEF Ended, Moved
  <2> QED BY <1>2, <2>1
<1>5. ASSUME NEW how
      PROVE  CopiedTo(how)
             = [at |-> how, tool |-> t, build |-> b, runtime |-> r, before |-> Absent, todo |-> o]
  <2>1. CopiedTo(how) = [Moved(how) EXCEPT !.before = Absent]   BY DEF CopiedTo, Moved
  <2> QED BY <1>2, <2>1
<1>6. staging = Run(a, e, o) /\ (\A todo : Walked(todo) = Run(a, e, todo))
  BY <1>1, <1>3 DEF Run, t, b, r
<1>7. ASSUME NEW how
      PROVE  /\ Ended(how) = Run(how, e, <<>>) /\ Moved(how) = Run(how, e, o)
             /\ CopiedTo(how) = Run(how, Absent, o)
  BY <1>2, <1>4, <1>5 DEF Run, t, b, r
<1> QED BY <1>6, <1>7 DEF a, e, o

LEMMA DirectoriesChange ==
    ASSUME ReleaseTyped, NEW t \in Tools, NEW d, NEW dd, dd = Replaced(t, d)
    PROVE  /\ dd = [web |-> dd.web, app |-> dd.app] /\ dd[t] = d
           /\ \A u \in Tools \ {t} : dd[u] = dest[u]
<1>1. DOMAIN dest = {"web", "app"}   BY DEF ReleaseTyped
<1>2. DOMAIN dd = {"web", "app"} /\ dd[t] = d /\ \A u \in Tools \ {t} : dd[u] = dest[u]
  BY <1>1 DEF Tools, Replaced
<1>3. dd = [u \in {"web", "app"} |-> dd[u]]   BY <1>1 DEF Replaced
<1>4. dd = [web |-> dd.web, app |-> dd.app]   BY <1>3
<1> QED BY <1>1, <1>2, <1>4 DEF Tools

(* A step of an invocation holds if what it leaves is what the next finds. *)
LEMMA StagingGoesOn ==
    ASSUME ReleaseInv, staging.at # "idle",
           NEW how \in Invocations, NEW todo \in Seq(Range(Paths)), NEW before, NEW d, IsDirectory(d),
           staging' = Run(how, before, todo), dest' = Replaced(staging.tool, d),
           UNCHANGED <<invocations, siteVars>>,
           StepsFind(staging.tool, staging.build, staging.runtime, how, todo, d),
           EndsLeave(staging.tool, staging.build, staging.runtime, how, before, d),
           staging.tool = "web" /\ d.key => d.robots /\ d.routes = AllRoutes
    PROVE  ReleaseInv'
<1>1. /\ staging.tool \in Tools /\ staging.runtime \in Runtimes
      /\ staging.build \in UNION Range(Builds) /\ invocations \in Nat
      /\ \A t \in Tools : IsDirectory(dest[t])
  BY DEF ReleaseInv, ReleaseTyped
<1>2. /\ staging'.at = how /\ staging'.tool = staging.tool /\ staging'.build = staging.build
      /\ staging'.runtime = staging.runtime /\ staging'.before = before /\ staging'.todo = todo
  BY DEF Run
<1>3. /\ dest' = [web |-> dest'.web, app |-> dest'.app] /\ dest'[staging.tool] = d
      /\ \A u \in Tools \ {staging.tool} : dest'[u] = dest[u]
  BY <1>1, DirectoriesChange DEF ReleaseInv
<1>4. ReleaseTyped'
  <2>1. \A t \in Tools : IsDirectory(dest'[t])   BY <1>1, <1>3
  <2>2. staging' = [at |-> staging'.at, tool |-> staging'.tool, build |-> staging'.build,
                    runtime |-> staging'.runtime, before |-> staging'.before, todo |-> staging'.todo]
    BY DEF Run
  <2>3. invocations' \in Nat   BY <1>1
  <2> QED BY <1>1, <1>2, <1>3, <2>1, <2>2, <2>3 DEF ReleaseTyped, IsDirectory
<1>5. StagingHolds'   BY <1>2, <1>3 DEF StagingHolds
<1>6. KeyComesLast'
  <2>1. dest'.web.key => dest'.web.robots /\ dest'.web.routes = AllRoutes
    <3>1. CASE staging.tool = "web"   BY <1>3, <3>1
    <3>2. CASE staging.tool # "web"
      <4>1. dest'.web = dest.web   BY <1>3, <3>2 DEF Tools
      <4> QED BY <4>1 DEF ReleaseInv, KeyComesLast
    <3> QED BY <3>1, <3>2
  <2> QED BY <2>1 DEF ReleaseInv, KeyComesLast, siteVars
<1> QED BY <1>4, <1>5, <1>6 DEF ReleaseInv

LEMMA ReleaseStarts == ReleaseInit => ReleaseInv
<1> SUFFICES ASSUME ReleaseInit PROVE ReleaseInv   OBVIOUS
<1>1. dest.web = Absent /\ dest.app = Absent /\ dest = [web |-> dest.web, app |-> dest.app]
  BY DEF ReleaseInit, Tools
<1>2. \A t \in Tools : IsDirectory(dest[t])   BY <1>1 DEF Tools, IsDirectory, Absent
<1>3. ReleaseTyped   BY <1>1, <1>2 DEF ReleaseInit, ReleaseTyped, Idle
<1>4. StagingHolds   BY DEF StagingHolds, ReleaseInit, Idle
<1>5. KeyComesLast   BY <1>1 DEF KeyComesLast, ReleaseInit, Absent, Offline
<1> QED BY <1>3, <1>4, <1>5 DEF ReleaseInv

LEMMA DestIsRecord ==
    ASSUME ReleaseTyped, staging.at # "idle"
    PROVE  /\ staging.tool = "web" => dest[staging.tool] = dest.web
           /\ staging.tool = "app" => dest[staging.tool] = dest.app
           /\ staging.tool \in Tools /\ IsDirectory(dest[staging.tool])
           /\ dest = Replaced(staging.tool, dest[staging.tool])
<1>1. staging.tool \in Tools /\ \A t \in Tools : IsDirectory(dest[t])   BY DEF ReleaseTyped
<1>2. dest = [web |-> dest.web, app |-> dest.app]   BY DEF ReleaseTyped
<1>3. dest = [u \in {"web", "app"} |-> dest[u]]   BY <1>2
<1>4. dest = Replaced(staging.tool, dest[staging.tool])   BY <1>3 DEF Replaced
<1> QED BY <1>1, <1>4

LEMMA InvokeHolds ==
    ASSUME ReleaseInv, NEW tool \in Tools, NEW runtime \in Runtimes,
           NEW build \in UNION Range(Builds), NEW bad, Invoke(tool, build, runtime, bad)
    PROVE  ReleaseInv'
<1> DEFINE how == IF bad \in ReadsOf[tool] \/ build.missing THEN "refused" ELSE "copy"
<1>1. how \in {"refused", "copy"}   OBVIOUS
<1>2. staging' = [at |-> how, tool |-> tool, build |-> build, runtime |-> runtime,
                  before |-> dest[tool], todo |-> Paths]
      /\ invocations' = invocations + 1 /\ UNCHANGED dest /\ UNCHANGED siteVars
  BY DEF Invoke
<1> HIDE DEF how
<1>3. /\ staging'.at = how /\ staging'.tool = tool /\ staging'.build = build
      /\ staging'.runtime = runtime /\ staging'.before = dest[tool] /\ staging'.todo = Paths
  BY <1>2
<1>4. ReleaseTyped'
  <2>1. Paths \in Seq(Range(Paths))   BY OutputsAssumption DEF Outputs
  <2>2. staging' = [at |-> staging'.at, tool |-> staging'.tool, build |-> staging'.build,
                    runtime |-> staging'.runtime, before |-> staging'.before, todo |-> staging'.todo]
    BY <1>2, <1>3
  <2>3. staging'.at \in Invocations   BY <1>1, <1>3 DEF Invocations
  <2> QED BY <1>2, <1>3, <2>1, <2>2, <2>3 DEF ReleaseInv, ReleaseTyped, IsDirectory
<1>5. StagingHolds'   BY <1>1, <1>2, <1>3 DEF StagingHolds, StepsFind, EndsLeave
<1>6. KeyComesLast'   BY <1>2 DEF ReleaseInv, KeyComesLast, siteVars
<1> QED BY <1>4, <1>5, <1>6 DEF ReleaseInv

LEMMA CopyHolds == ASSUME ReleaseInv, Copy PROVE ReleaseInv'
<1> DEFINE tool == staging.tool  build == staging.build  runtime == staging.runtime
           how == IF tool = "web" THEN "pages" ELSE "index"
           d == [pages |-> build.pages, assets |-> DOMAIN build.mentions, robots |-> FALSE,
                 routes |-> {}, key |-> FALSE]
<1>1. ReleaseTyped /\ staging.at = "copy" /\ staging.at # "idle"   BY DEF ReleaseInv, Copy
<1>2. tool \in Tools /\ build \in UNION Range(Builds) /\ staging.todo \in Seq(Range(Paths))
  BY <1>1 DEF ReleaseTyped
<1>3. [Absent EXCEPT !.pages = build.pages, !.assets = DOMAIN build.mentions] = d
  <2> DEFINE none == <<>>  old == Absent  no == FALSE  nothing == {}
  <2>0. old = [pages |-> none, assets |-> nothing, robots |-> no, routes |-> nothing, key |-> no]
    BY DEF Absent
  <2> HIDE DEF none, old, no, nothing
  <2>1. [old EXCEPT !.pages = build.pages]
        = [pages |-> build.pages, assets |-> nothing, robots |-> no, routes |-> nothing, key |-> no]
    BY <2>0
  <2>2. [old EXCEPT !.pages = build.pages, !.assets = DOMAIN build.mentions]
        = [[old EXCEPT !.pages = build.pages] EXCEPT !.assets = DOMAIN build.mentions]
    OBVIOUS
  <2> DEFINE new == [old EXCEPT !.pages = build.pages]  assets == DOMAIN build.mentions
  <2>3. new = [pages |-> build.pages, assets |-> nothing, robots |-> no, routes |-> nothing, key |-> no]
    BY <2>1
  <2> HIDE DEF new, assets
  <2>4. [new EXCEPT !.assets = assets]
        = [pages |-> build.pages, assets |-> assets, robots |-> no, routes |-> nothing, key |-> no]
    BY <2>3
  <2> QED BY <2>2, <2>4 DEF new, assets, old, no, nothing
<1>4. dest' = Replaced(tool, d)   BY <1>3 DEF Copy, Replaced
<1>5. staging' = Run(how, Absent, staging.todo)
  <2>1. staging' = CopiedTo(how)   BY DEF Copy, CopiedTo
  <2> QED BY <1>1, <2>1, RunsAre
<1>6. UNCHANGED <<invocations, siteVars>>   BY DEF Copy
<1>7. staging.todo = Paths   BY <1>1 DEF ReleaseInv, StagingHolds, StepsFind
<1>8. StepsFind(tool, build, runtime, how, staging.todo, d)
  <2>1. build.pages = [p \in Range(Paths) |-> build.pages[p]]   BY <1>2, OutputsAreWell
  <2> QED BY <1>2, <1>7, <2>1 DEF StepsFind, Tools
<1>9. EndsLeave(tool, build, runtime, how, Absent, d)   BY DEF EndsLeave
<1>10. how \in Invocations /\ IsDirectory(d) /\ ~d.key   BY DEF Invocations, IsDirectory
<1> HIDE DEF how, d
<1> QED BY <1>1, <1>2, <1>4, <1>5, <1>6, <1>8, <1>9, <1>10, StagingGoesOn

LEMMA PruneSiteHolds == ASSUME ReleaseInv, PruneSite PROVE ReleaseInv'
<1> DEFINE tool == staging.tool  build == staging.build  runtime == staging.runtime
           d == dest.web
           kept == IF runtime = "static" THEN RemoveScriptAssets(d.assets)
                   ELSE d.assets \cup Written(build, DOMAIN d.pages)
           e == [pages |-> d.pages, assets |-> Pruned(build, d.pages, kept), robots |-> d.robots,
                 routes |-> d.routes, key |-> d.key]
<1>1. /\ ReleaseTyped /\ staging.at = "pages" /\ staging.at # "idle" /\ staging.todo = <<>>
      /\ StepsFind(tool, build, runtime, staging.at, staging.todo, dest[tool])
  BY DEF ReleaseInv, StagingHolds, PruneSite
<1>2. build \in UNION Range(Builds) /\ <<>> \in Seq(Range(Paths))   BY <1>1 DEF ReleaseTyped
<1>3. tool = "web" /\ d = dest[tool] /\ IsDirectory(d)
  BY <1>1, DestIsRecord DEF StepsFind
<1>4. /\ ~d.robots /\ ~d.key /\ d.assets = DOMAIN build.mentions
      /\ d.pages = [p \in Range(Paths) |-> d.pages[p]]
      /\ \A p \in Range(Paths) : PageDone(tool, build, runtime, d.pages, p)
  <2>1. Range(<<>>) = {}   BY DEF Range
  <2> QED BY <1>1, <1>3, <2>1 DEF StepsFind
<1>5. kept = Candidates(tool, build, runtime)
  <2>1. DOMAIN d.pages = Range(Paths)   BY <1>4
  <2> QED BY <1>3, <1>4, <2>1 DEF Candidates, IsStatic, RemoveScriptAssets
<1>6. Pruned(build, d.pages, kept) = Reachable(build, d.pages, Candidates(tool, build, runtime))
  BY <1>2, <1>5, CandidatesAreFinite, PruningKeepsTheReachable
<1>7. dest' = Replaced(tool, e)
  <2> DEFINE a == Pruned(build, d.pages, kept)
  <2>1. dest' = [dest EXCEPT !.web.assets = a]   BY DEF PruneSite
  <2> HIDE DEF a
  <2>2. [d EXCEPT !.assets = a]
        = [pages |-> d.pages, assets |-> a, robots |-> d.robots, routes |-> d.routes, key |-> d.key]
    BY <1>3 DEF IsDirectory
  <2>3. [dest EXCEPT !.web.assets = a] = [dest EXCEPT !["web"] = [d EXCEPT !.assets = a]]
    OBVIOUS
  <2>4. dest' = [dest EXCEPT ![tool] = [d EXCEPT !.assets = a]]   BY <1>3, <2>1, <2>3
  <2> QED BY <2>2, <2>4 DEF Replaced, a
<1>8. staging' = Run("publish", staging.before, <<>>)
  <2>1. staging' = Moved("publish")   BY DEF PruneSite, Moved
  <2> QED BY <1>1, <2>1, RunsAre
<1>9. UNCHANGED <<invocations, siteVars>>   BY DEF PruneSite
<1>10. e.pages = d.pages /\ e.assets = Pruned(build, d.pages, kept) /\ e.robots = d.robots
       /\ e.key = d.key /\ IsDirectory(e)
  BY DEF IsDirectory
<1> HIDE DEF e, kept
<1>11. StepsFind(tool, build, runtime, "publish", <<>>, e)
  <2>1. PagesDone(tool, build, runtime, e.pages)   BY <1>3, <1>4, <1>10 DEF PagesDone
  <2> QED BY <1>4, <1>6, <1>10, <2>1 DEF StepsFind
<1>12. EndsLeave(tool, build, runtime, "publish", staging.before, e)   BY DEF EndsLeave
<1>13. "publish" \in Invocations   BY DEF Invocations
<1> QED BY <1>1, <1>2, <1>4, <1>7, <1>8, <1>9, <1>10, <1>11, <1>12, <1>13, StagingGoesOn

LEMMA RewritingIsIdempotent ==
    ASSUME NEW page, IsPage(page), NEW tool, NEW runtime
    PROVE  LET once == RewrittenPage(tool, runtime, page)
           IN  IsPage(once) /\ RewrittenPage(tool, runtime, once) = once
<1> DEFINE once == RewrittenPage(tool, runtime, page)
<1>1. once.inline = {} /\ IsPage(once)
      /\ (IsStatic(tool, runtime) => once.modules = {})
  <2>1. CASE IsStatic(tool, runtime)
    <3>1. once = [names |-> page.names, modules |-> {}, inline |-> {}, faults |-> page.faults]
      BY <2>1, PagesAreRewritten DEF RewrittenPage
    <3> HIDE DEF once
    <3> QED BY <3>1 DEF IsPage
  <2>2. CASE ~IsStatic(tool, runtime)
    <3> DEFINE names == page.names \cup {RuntimeName[b] : b \in page.inline}
    <3>1. once = [names |-> names, modules |-> page.modules, inline |-> {}, faults |-> page.faults]
      BY <2>2, PagesAreRewritten DEF RewrittenPage
    <3> HIDE DEF once, names
    <3> QED BY <2>2, <3>1 DEF IsPage
  <2> QED BY <2>1, <2>2
<1> HIDE DEF once
<1>2. once.names \cup {RuntimeName[b] : b \in once.inline} = once.names   BY <1>1
<1>3. IsStatic(tool, runtime) => StripRuntime(once) = once
  BY <1>1, PagesAreRewritten DEF IsPage
<1>4. ExternalizeRuntime(once) = once
  <2>1. ExternalizeRuntime(once) = [names |-> once.names \cup {RuntimeName[b] : b \in once.inline},
                  modules |-> once.modules, inline |-> {}, faults |-> once.faults]
    BY <1>1, PagesAreRewritten
  <2> QED BY <1>1, <1>2, <2>1 DEF IsPage
<1>5. RewrittenPage(tool, runtime, once) = once   BY <1>3, <1>4 DEF RewrittenPage
<1> QED BY <1>1, <1>5 DEF once

LEMMA StagePageHolds == ASSUME ReleaseInv, StagePage PROVE ReleaseInv'
<1> DEFINE tool == staging.tool  build == staging.build  runtime == staging.runtime
           todo == staging.todo  d == dest.web  path == Head(todo)  page == d.pages[path]
           new == RewrittenPage(tool, runtime, page)
           e == [pages |-> [d.pages EXCEPT ![path] = new], assets |-> d.assets,
                 robots |-> d.robots, routes |-> d.routes, key |-> d.key]
<1>1. /\ ReleaseTyped /\ staging.at = "pages" /\ staging.at # "idle" /\ todo # <<>>
      /\ StepsFind(tool, build, runtime, staging.at, todo, dest[tool])
      /\ UNCHANGED <<invocations, siteVars>>
  BY DEF ReleaseInv, StagingHolds, StagePage
<1>2. build \in UNION Range(Builds) /\ todo \in Seq(Range(Paths))   BY <1>1 DEF ReleaseTyped
<1>3. tool = "web" /\ d = dest[tool] /\ IsDirectory(d) /\ dest = Replaced(tool, d)
  BY <1>1, DestIsRecord DEF StepsFind
<1>4. /\ ~d.robots /\ ~d.key /\ d.assets = DOMAIN build.mentions
      /\ d.pages = [p \in Range(Paths) |-> d.pages[p]]
      /\ \A p \in Range(Paths) :
            \/ PageDone(tool, build, runtime, d.pages, p)
            \/ p \in Range(todo) /\ d.pages[p] = build.pages[p]
  BY <1>1, <1>3 DEF StepsFind
<1>5. /\ path \in Range(Paths) /\ Tail(todo) \in Seq(Range(Paths))
      /\ \A p \in Range(todo) : p = path \/ p \in Range(Tail(todo))
  <2>1. path \in Range(Paths) /\ Tail(todo) \in Seq(Range(Paths))   BY <1>1, <1>2
  <2>2. ASSUME NEW p \in Range(todo), p # path PROVE p \in Range(Tail(todo))
    <3>1. PICK i \in 1..Len(todo) : p = todo[i]   BY <1>2 DEF Range
    <3>2. i # 1   BY <1>1, <1>2, <2>2, <3>1
    <3>3. i - 1 \in 1..Len(Tail(todo)) /\ Tail(todo)[i - 1] = p   BY <1>1, <1>2, <3>1, <3>2
    <3>4. i - 1 \in DOMAIN Tail(todo)   BY <2>1, <3>3
    <3> QED BY <3>3, <3>4 DEF Range
  <2> QED BY <2>1, <2>2
<1>6. CASE PageStages(page, runtime)
  <2>1. staging' = Run("pages", staging.before, Tail(todo))
    <3>1. staging' = Walked(Tail(todo))   BY <1>6 DEF StagePage, Walked
    <3> QED BY <1>1, <3>1, RunsAre
  <2>2. dest' = Replaced(tool, e)
    <3>0. dest' = [dest EXCEPT !.web.pages[path] = new]
      BY <1>3, <1>6 DEF StagePage, RewrittenPage, IsStatic
    <3> HIDE DEF new, path
    <3> DEFINE pages == [d.pages EXCEPT ![path] = new]
    <3>1. [dest EXCEPT !.web.pages[path] = new] = [dest EXCEPT !["web"] = [d EXCEPT !.pages = pages]]
      OBVIOUS
    <3> HIDE DEF pages
    <3>2. [d EXCEPT !.pages = pages]
          = [pages |-> pages, assets |-> d.assets, robots |-> d.robots, routes |-> d.routes, key |-> d.key]
      BY <1>3 DEF IsDirectory
    <3>3. dest' = [dest EXCEPT ![tool] = [d EXCEPT !.pages = pages]]   BY <1>3, <3>0, <3>1
    <3> QED BY <3>2, <3>3 DEF Replaced, pages
  <2>3. /\ e.pages = [d.pages EXCEPT ![path] = new] /\ e.assets = d.assets
        /\ e.robots = d.robots /\ e.key = d.key /\ IsDirectory(e)
    BY DEF IsDirectory
  <2>4. PageDone(tool, build, runtime, e.pages, path)
    <3>1. e.pages[path] = new   BY <1>4, <1>5, <2>3
    <3>2. IsPage(build.pages[path])   BY <1>2, <1>5, OutputsAreWell
    <3>3. CASE page = build.pages[path]   BY <1>6, <3>1, <3>3 DEF PageDone
    <3>4. CASE PageDone(tool, build, runtime, d.pages, path)
      <4>1. page = RewrittenPage(tool, runtime, build.pages[path])
            /\ PageStages(build.pages[path], runtime)
        BY <3>4 DEF PageDone
      <4>2. new = page   BY <3>2, <4>1, RewritingIsIdempotent
      <4> QED BY <3>1, <4>1, <4>2 DEF PageDone
    <3> QED BY <1>4, <1>5, <3>3, <3>4
  <2> HIDE DEF e, new, path, page
  <2>5. ASSUME NEW p \in Range(Paths)
        PROVE  \/ PageDone(tool, build, runtime, e.pages, p)
               \/ p \in Range(Tail(todo)) /\ e.pages[p] = build.pages[p]
    <3>1. CASE p = path   BY <2>4, <3>1
    <3>2. CASE p # path
      <4>1. e.pages[p] = d.pages[p]   BY <1>4, <2>3, <3>2
      <4> QED BY <1>4, <1>5, <3>2, <4>1 DEF PageDone
    <3> QED BY <3>1, <3>2
  <2>6. StepsFind(tool, build, runtime, "pages", Tail(todo), e)
    <3>1. e.pages = [p \in Range(Paths) |-> e.pages[p]]   BY <1>4, <2>3
    <3> QED BY <1>3, <1>4, <2>3, <2>5, <3>1 DEF StepsFind
  <2>7. EndsLeave(tool, build, runtime, "pages", staging.before, e) /\ "pages" \in Invocations
    BY DEF EndsLeave, Invocations
  <2> QED BY <1>1, <1>4, <1>5, <2>1, <2>2, <2>3, <2>6, <2>7, StagingGoesOn
<1>7. CASE ~PageStages(page, runtime)
  <2>1. staging' = Run("failed", staging.before, <<>>)
    <3>1. staging' = Ended("failed")   BY <1>7 DEF StagePage
    <3> QED BY <1>1, <3>1, RunsAre
  <2>2. dest' = Replaced(tool, d)   BY <1>3, <1>7 DEF StagePage
  <2>3. StepsFind(tool, build, runtime, "failed", <<>>, d)   BY DEF StepsFind
  <2>4. EndsLeave(tool, build, runtime, "failed", staging.before, d)   BY <1>4 DEF EndsLeave
  <2>5. "failed" \in Invocations /\ <<>> \in Seq(Range(Paths))   BY DEF Invocations
  <2> QED BY <1>1, <1>3, <1>4, <2>1, <2>2, <2>3, <2>4, <2>5, StagingGoesOn
<1> QED BY <1>6, <1>7

(* An invocation that fails while the directory has no robots.txt.         *)
(* What publishing writes, file by file and at once.                       *)
Published(robots, routes, key) ==
    [dest EXCEPT !.web.robots = robots, !.web.routes = routes, !.web.key = key]

LEMMA SiteIsWritten ==
    ASSUME ReleaseTyped, IsDirectory(dest.web), NEW yes, NEW routes, NEW key
    PROVE  Published(yes, routes, key) =
               Replaced("web", [pages |-> dest.web.pages, assets |-> dest.web.assets,
                                robots |-> yes, routes |-> routes, key |-> key])
<1> DEFINE d == dest.web  d1 == [d EXCEPT !.robots = yes]  d2 == [d1 EXCEPT !.routes = routes]
           d3 == [d2 EXCEPT !.key = key]
<1>1. Published(yes, routes, key) =
          [[[dest EXCEPT !.web.robots = yes] EXCEPT !.web.routes = routes] EXCEPT !.web.key = key]
  BY DEF Published
<1>2. [dest EXCEPT !.web.robots = yes] = [dest EXCEPT !["web"] = d1]   OBVIOUS
<1>3. [[dest EXCEPT !["web"] = d1] EXCEPT !.web.routes = routes] = [dest EXCEPT !["web"] = d2]
  BY DEF ReleaseTyped
<1>4. [[dest EXCEPT !["web"] = d2] EXCEPT !.web.key = key] = [dest EXCEPT !["web"] = d3]
  BY DEF ReleaseTyped
<1>5. d3 = [pages |-> d.pages, assets |-> d.assets, robots |-> yes, routes |-> routes, key |-> key]
  <2>1. d1 = [pages |-> d.pages, assets |-> d.assets, robots |-> yes, routes |-> d.routes, key |-> d.key]
    BY DEF IsDirectory
  <2> HIDE DEF d1
  <2>2. d2 = [pages |-> d.pages, assets |-> d.assets, robots |-> yes, routes |-> routes, key |-> d.key]
    BY <2>1
  <2> HIDE DEF d2
  <2> QED BY <2>2
<1> HIDE DEF d1, d2, d3
<1> QED BY <1>1, <1>2, <1>3, <1>4, <1>5 DEF Replaced

LEMMA FailingHolds ==
    ASSUME ReleaseInv, staging.at \in {"pages", "index", "prune", "publish"},
           staging' = Ended("failed"), UNCHANGED <<dest, invocations, siteVars>>
    PROVE  ReleaseInv'
<1> DEFINE tool == staging.tool  build == staging.build  runtime == staging.runtime
           d == dest[tool]
<1>1. ReleaseTyped /\ staging.at # "idle" /\ ~d.robots /\ ~d.key
  BY DEF ReleaseInv, StagingHolds, StepsFind
<1>2. staging' = Run("failed", staging.before, <<>>)   BY <1>1, RunsAre
<1>3. dest' = Replaced(tool, d) /\ IsDirectory(d)   BY <1>1, DestIsRecord
<1>4. StepsFind(tool, build, runtime, "failed", <<>>, d)   BY DEF StepsFind
<1>5. EndsLeave(tool, build, runtime, "failed", staging.before, d)   BY <1>1 DEF EndsLeave
<1>6. "failed" \in Invocations /\ <<>> \in Seq(Range(Paths))   BY DEF Invocations
<1> QED BY <1>1, <1>2, <1>3, <1>4, <1>5, <1>6, StagingGoesOn

LEMMA PublishSiteHolds == ASSUME ReleaseInv, PublishSite PROVE ReleaseInv'
<1> DEFINE tool == staging.tool  build == staging.build  runtime == staging.runtime
           d == dest.web  routes == {RouteForHtml(p) : p \in DOMAIN d.pages}
           e == [pages |-> d.pages, assets |-> d.assets, robots |-> TRUE, routes |-> routes, key |-> TRUE]
<1>1. /\ ReleaseTyped /\ staging.at = "publish" /\ staging.at # "idle" /\ tool = "web"
      /\ StepsFind(tool, build, runtime, staging.at, staging.todo, dest[tool])
      /\ UNCHANGED <<invocations, siteVars>>
  BY DEF ReleaseInv, StagingHolds, PublishSite
<1>2. build \in UNION Range(Builds) /\ tool \in Tools   BY <1>1 DEF ReleaseTyped
<1>3. d = dest[tool] /\ IsDirectory(d)   BY <1>1, DestIsRecord
<1>4. /\ d.assets = Reachable(build, d.pages, Candidates(tool, build, runtime))
      /\ PagesDone(tool, build, runtime, d.pages)
  BY <1>1, <1>3 DEF StepsFind
<1>5. CASE "unsummarised" \in d.pages["index"].faults
  BY <1>1, <1>5, FailingHolds DEF PublishSite
<1>6. CASE "unsummarised" \notin d.pages["index"].faults
  <2>1. staging' = Run("staged", staging.before, <<>>)
    <3>1. staging' = Ended("staged")   BY <1>6 DEF PublishSite
    <3> QED BY <1>1, <3>1, RunsAre
  <2>2. dest' = Replaced(tool, e)
    <3>1. dest' = [dest EXCEPT !.web.robots = TRUE, !.web.routes = routes, !.web.key = TRUE]
      BY <1>6 DEF PublishSite
    <3> HIDE DEF routes
    <3> DEFINE yes == TRUE
    <3>2. dest' = Published(yes, routes, yes)   BY <3>1 DEF Published
    <3>3. e = [pages |-> d.pages, assets |-> d.assets, robots |-> yes, routes |-> routes, key |-> yes]
      OBVIOUS
    <3> HIDE DEF yes, e
    <3> QED BY <1>1, <1>3, <3>2, <3>3, SiteIsWritten
  <2>3. e.pages = d.pages /\ e.assets = d.assets /\ e.robots /\ e.routes = routes /\ IsDirectory(e)
    BY DEF IsDirectory
  <2>4. routes = AllRoutes
    <3>1. DOMAIN d.pages = Range(Paths)   BY <1>1, <1>4 DEF PagesDone
    <3> QED BY <3>1 DEF AllRoutes
  <2> HIDE DEF e
  <2>5. Whole(tool, build, runtime, e)   BY <1>1, <1>2, <1>4, <2>3, PublishedIsWhole
  <2>6. StepsFind(tool, build, runtime, "staged", <<>>, e)   BY DEF StepsFind
  <2>7. EndsLeave(tool, build, runtime, "staged", staging.before, e)
    BY <1>1, <2>3, <2>4, <2>5 DEF EndsLeave
  <2>8. "staged" \in Invocations /\ <<>> \in Seq(Range(Paths))   BY DEF Invocations
  <2> QED BY <1>1, <2>1, <2>2, <2>3, <2>4, <2>6, <2>7, <2>8, StagingGoesOn
<1> QED BY <1>5, <1>6

LEMMA StageIndexHolds == ASSUME ReleaseInv, StageIndex PROVE ReleaseInv'
<1> DEFINE tool == staging.tool  build == staging.build  runtime == staging.runtime
           d == dest.app  page == d.pages["index"]
           pages == [d.pages EXCEPT !["index"] = ExternalizeRuntime(page)]
           assets == d.assets \cup {RuntimeName[b] : b \in page.inline}
           e == [pages |-> pages, assets |-> assets, robots |-> d.robots, routes |-> d.routes, key |-> d.key]
           refused == Untitled(page) \/ page.faults \cap {"indexable", "placeholder", "unclosed"} # {}
<1>1. /\ ReleaseTyped /\ staging.at = "index" /\ staging.at # "idle"
      /\ StepsFind(tool, build, runtime, staging.at, staging.todo, dest[tool])
      /\ UNCHANGED <<invocations, siteVars>>
  BY DEF ReleaseInv, StagingHolds, StageIndex
<1>2. build \in UNION Range(Builds) /\ staging.todo \in Seq(Range(Paths))   BY <1>1 DEF ReleaseTyped
<1>3. tool = "app" /\ d = dest[tool] /\ IsDirectory(d)   BY <1>1, DestIsRecord DEF StepsFind
<1>4. ~d.robots /\ ~d.key /\ d.assets = DOMAIN build.mentions /\ d.pages = build.pages
  BY <1>1, <1>3 DEF StepsFind
<1>5. CASE refused
  <2>1. staging' = Ended("failed") /\ UNCHANGED dest   BY <1>5 DEF StageIndex
  <2> QED BY <1>1, <2>1, FailingHolds
<1>6. CASE ~refused
  <2>1. staging' = Run("prune", staging.before, staging.todo)
    <3>1. staging' = Moved("prune")   BY <1>6 DEF StageIndex, Moved
    <3> QED BY <1>1, <3>1, RunsAre
  <2>2. dest' = Replaced(tool, e)
    <3> DEFINE new == ExternalizeRuntime(page)  more == {RuntimeName[b] : b \in page.inline}
    <3>1. dest' = [dest EXCEPT !.app.pages["index"] = new, !.app.assets = @ \cup more]
      BY <1>6 DEF StageIndex
    <3> HIDE DEF new, more
    <3> DEFINE d1 == [d EXCEPT !.pages = [d.pages EXCEPT !["index"] = new]]
               d2 == [d1 EXCEPT !.assets = d1.assets \cup more]
    <3>2. [dest EXCEPT !.app.pages["index"] = new, !.app.assets = @ \cup more]
          = [[dest EXCEPT !.app.pages["index"] = new] EXCEPT !.app.assets = @ \cup more]
      OBVIOUS
    <3>3. [dest EXCEPT !.app.pages["index"] = new] = [dest EXCEPT !["app"] = d1]   OBVIOUS
    <3>4. [[dest EXCEPT !["app"] = d1] EXCEPT !.app.assets = @ \cup more] = [dest EXCEPT !["app"] = d2]
      BY <1>1 DEF ReleaseTyped
    <3>5. d2 = [pages |-> [d.pages EXCEPT !["index"] = new], assets |-> d.assets \cup more,
                robots |-> d.robots, routes |-> d.routes, key |-> d.key]
      <4> DEFINE changed == [d.pages EXCEPT !["index"] = new]
      <4> HIDE DEF changed
      <4>1. d1 = [pages |-> changed, assets |-> d.assets, robots |-> d.robots, routes |-> d.routes, key |-> d.key]
        BY <1>3 DEF IsDirectory, changed
      <4> HIDE DEF d1
      <4>2. d2 = [pages |-> changed, assets |-> d.assets \cup more, robots |-> d.robots,
                  routes |-> d.routes, key |-> d.key]
        BY <4>1
      <4> QED BY <4>2 DEF changed
    <3>6. d2 = e   BY <3>5 DEF new, more
    <3> HIDE DEF d1, d2, e
    <3> QED BY <1>3, <3>1, <3>2, <3>3, <3>4, <3>6 DEF Replaced
  <2>3. e.pages = pages /\ e.assets = assets /\ e.robots = d.robots /\ e.key = d.key /\ IsDirectory(e)
    BY DEF IsDirectory
  <2>4. assets = Candidates(tool, build, runtime)
    <3>1. Written(build, {"index"}) = {RuntimeName[b] : b \in build.pages["index"].inline}
      BY DEF Written
    <3> QED BY <1>3, <1>4, <3>1 DEF Candidates, IsStatic
  <2>5. PagesDone(tool, build, runtime, pages)   BY <1>3, <1>4 DEF PagesDone
  <2> HIDE DEF e, pages, assets
  <2>6. StepsFind(tool, build, runtime, "prune", staging.todo, e)
    BY <1>3, <1>4, <2>3, <2>4, <2>5 DEF StepsFind
  <2>7. EndsLeave(tool, build, runtime, "prune", staging.before, e) /\ "prune" \in Invocations
    BY DEF EndsLeave, Invocations
  <2> QED BY <1>1, <1>2, <1>3, <1>4, <2>1, <2>2, <2>3, <2>6, <2>7, StagingGoesOn
<1> QED BY <1>5, <1>6

LEMMA PruneAppHolds == ASSUME ReleaseInv, PruneApp PROVE ReleaseInv'
<1> DEFINE tool == staging.tool  build == staging.build  runtime == staging.runtime
           d == dest.app  assets == Pruned(build, d.pages, d.assets)
           e == [pages |-> d.pages, assets |-> assets, robots |-> d.robots, routes |-> d.routes, key |-> d.key]
<1>1. /\ ReleaseTyped /\ staging.at = "prune" /\ staging.at # "idle"
      /\ StepsFind(tool, build, runtime, staging.at, staging.todo, dest[tool])
      /\ UNCHANGED <<invocations, siteVars>>
  BY DEF ReleaseInv, StagingHolds, PruneApp
<1>2. build \in UNION Range(Builds) /\ staging.todo \in Seq(Range(Paths))   BY <1>1 DEF ReleaseTyped
<1>3. tool = "app" /\ d = dest[tool] /\ IsDirectory(d)   BY <1>1, DestIsRecord DEF StepsFind
<1>4. /\ ~d.robots /\ ~d.key /\ d.assets = Candidates(tool, build, runtime)
      /\ PagesDone(tool, build, runtime, d.pages)
  BY <1>1, <1>3 DEF StepsFind
<1>5. assets = Reachable(build, d.pages, Candidates(tool, build, runtime))
  BY <1>2, <1>4, CandidatesAreFinite, PruningKeepsTheReachable
<1>6. dest' = Replaced(tool, e)
  <2>1. dest' = [dest EXCEPT !.app.assets = assets]   BY DEF PruneApp
  <2> HIDE DEF assets
  <2>2. [d EXCEPT !.assets = assets]
        = [pages |-> d.pages, assets |-> assets, robots |-> d.robots, routes |-> d.routes, key |-> d.key]
    BY <1>3 DEF IsDirectory
  <2>3. [dest EXCEPT !.app.assets = assets] = [dest EXCEPT !["app"] = [d EXCEPT !.assets = assets]]
    OBVIOUS
  <2>4. dest' = [dest EXCEPT ![tool] = [d EXCEPT !.assets = assets]]   BY <1>3, <2>1, <2>3
  <2> QED BY <2>2, <2>4 DEF Replaced
<1>7. staging' = Run("publish", staging.before, staging.todo)
  <2>1. staging' = Moved("publish")   BY DEF PruneApp, Moved
  <2> QED BY <1>1, <2>1, RunsAre
<1>8. e.pages = d.pages /\ e.assets = assets /\ e.robots = d.robots /\ e.key = d.key /\ IsDirectory(e)
  BY DEF IsDirectory
<1> HIDE DEF e, assets
<1>9. StepsFind(tool, build, runtime, "publish", staging.todo, e)
  BY <1>3, <1>4, <1>5, <1>8 DEF StepsFind
<1>10. EndsLeave(tool, build, runtime, "publish", staging.before, e) /\ "publish" \in Invocations
  BY DEF EndsLeave, Invocations
<1> QED BY <1>1, <1>2, <1>3, <1>4, <1>6, <1>7, <1>8, <1>9, <1>10, StagingGoesOn

LEMMA PublishAppHolds == ASSUME ReleaseInv, PublishApp PROVE ReleaseInv'
<1> DEFINE tool == staging.tool  build == staging.build  runtime == staging.runtime
           d == dest.app
           refused == \/ ~Identified(build, d.assets) \/ Leaks(build, d)
                      \/ "starter" \in d.pages["index"].faults
           e == [pages |-> d.pages, assets |-> d.assets, robots |-> TRUE, routes |-> d.routes, key |-> d.key]
<1>1. /\ ReleaseTyped /\ staging.at = "publish" /\ staging.at # "idle" /\ tool = "app"
      /\ StepsFind(tool, build, runtime, staging.at, staging.todo, dest[tool])
      /\ UNCHANGED <<invocations, siteVars>>
  BY DEF ReleaseInv, StagingHolds, PublishApp
<1>2. build \in UNION Range(Builds) /\ tool \in Tools   BY <1>1 DEF ReleaseTyped
<1>3. d = dest[tool] /\ IsDirectory(d)   BY <1>1, DestIsRecord
<1>4. /\ d.assets = Reachable(build, d.pages, Candidates(tool, build, runtime))
      /\ PagesDone(tool, build, runtime, d.pages)
  BY <1>1, <1>3 DEF StepsFind
<1>5. CASE refused
  <2>1. staging' = Ended("failed") /\ UNCHANGED dest   BY <1>5 DEF PublishApp
  <2> QED BY <1>1, <2>1, FailingHolds
<1>6. CASE ~refused
  <2>1. staging' = Run("staged", staging.before, <<>>)
    <3>1. staging' = Ended("staged")   BY <1>6 DEF PublishApp
    <3> QED BY <1>1, <3>1, RunsAre
  <2>2. dest' = Replaced(tool, e)
    <3> DEFINE yes == TRUE
    <3>1. dest' = [dest EXCEPT !.app.robots = yes]   BY <1>6 DEF PublishApp
    <3>2. e = [pages |-> d.pages, assets |-> d.assets, robots |-> yes, routes |-> d.routes, key |-> d.key]
      OBVIOUS
    <3> HIDE DEF yes, e
    <3>3. [d EXCEPT !.robots = yes] = e   BY <1>3, <3>2 DEF IsDirectory
    <3>4. [dest EXCEPT !.app.robots = yes] = [dest EXCEPT !["app"] = [d EXCEPT !.robots = yes]]
      OBVIOUS
    <3>5. dest' = [dest EXCEPT ![tool] = [d EXCEPT !.robots = yes]]   BY <1>1, <3>1, <3>4
    <3> QED BY <3>3, <3>5 DEF Replaced
  <2>3. e.pages = d.pages /\ e.assets = d.assets /\ e.robots /\ IsDirectory(e)   BY DEF IsDirectory
  <2>4. d.assets \cap build.leaky = {}   BY <1>6 DEF Leaks
  <2> HIDE DEF e
  <2>5. Whole(tool, build, runtime, e)   BY <1>2, <1>4, <2>3, <2>4, PublishedIsWhole
  <2>6. StepsFind(tool, build, runtime, "staged", <<>>, e)   BY DEF StepsFind
  <2>7. EndsLeave(tool, build, runtime, "staged", staging.before, e)
    BY <1>1, <2>3, <2>5 DEF EndsLeave
  <2>8. "staged" \in Invocations /\ <<>> \in Seq(Range(Paths))   BY DEF Invocations
  <2> QED BY <1>1, <2>1, <2>2, <2>3, <2>6, <2>7, <2>8, StagingGoesOn
<1> QED BY <1>5, <1>6

LEMMA IoFailsHolds == ASSUME ReleaseInv, IoFails PROVE ReleaseInv'
<1> DEFINE tool == staging.tool  build == staging.build  runtime == staging.runtime
           before == staging.before
<1>1. /\ ReleaseTyped /\ staging.at # "idle" /\ UNCHANGED <<invocations, siteVars>>
      /\ staging' = Ended("failed")
      /\ StepsFind(tool, build, runtime, staging.at, staging.todo, dest[tool])
  BY DEF ReleaseInv, StagingHolds, IoFails
<1>2. staging' = Run("failed", before, <<>>)   BY <1>1, RunsAre
<1>3. \A d : StepsFind(tool, build, runtime, "failed", <<>>, d)   BY DEF StepsFind
<1>4. "failed" \in Invocations /\ <<>> \in Seq(Range(Paths))   BY DEF Invocations
<1>5. build \in UNION Range(Builds) /\ tool \in Tools   BY <1>1 DEF ReleaseTyped
<1>6. CASE staging.at = "copy"
  <2>1. dest' = Replaced(tool, Absent)   BY <1>6 DEF IoFails, Replaced
  <2>2. IsDirectory(Absent) /\ ~Absent.robots /\ ~Absent.key   BY DEF IsDirectory, Absent
  <2>3. EndsLeave(tool, build, runtime, "failed", before, Absent)   BY <2>2 DEF EndsLeave
  <2> QED BY <1>1, <1>2, <1>3, <1>4, <2>1, <2>2, <2>3, StagingGoesOn
<1>7. CASE staging.at # "copy" /\ UNCHANGED dest
  <2>1. staging.at \in {"pages", "index", "prune", "publish"}   BY <1>7 DEF IoFails
  <2> QED BY <1>1, <1>7, <2>1, FailingHolds
<1>8. ASSUME staging.at = "publish", tool = "web",
             NEW routes \in {{}, {RouteForHtml(p) : p \in DOMAIN dest.web.pages}},
             NEW key \in BOOLEAN, key => routes # {},
             dest' = [dest EXCEPT !.web.robots = TRUE, !.web.routes = routes, !.web.key = key]
      PROVE  ReleaseInv'
  <2> DEFINE d == dest.web
             e == [pages |-> d.pages, assets |-> d.assets, robots |-> TRUE, routes |-> routes, key |-> key]
  <2>1. d = dest[tool] /\ IsDirectory(d)   BY <1>1, <1>8, DestIsRecord
  <2>2. /\ d.assets = Reachable(build, d.pages, Candidates(tool, build, runtime))
        /\ PagesDone(tool, build, runtime, d.pages)
    BY <1>1, <1>8, <2>1 DEF StepsFind
  <2>3. dest' = Replaced(tool, e)
    <3> DEFINE yes == TRUE
    <3>1. dest' = Published(yes, routes, key)   BY <1>8 DEF Published
    <3>2. e = [pages |-> d.pages, assets |-> d.assets, robots |-> yes, routes |-> routes, key |-> key]
      OBVIOUS
    <3> HIDE DEF yes, e
    <3> QED BY <1>1, <1>8, <2>1, <3>1, <3>2, SiteIsWritten
  <2>7. key => routes = AllRoutes
    <3>1. DOMAIN d.pages = Range(Paths)   BY <1>8, <2>2 DEF PagesDone
    <3> QED BY <1>8, <3>1 DEF AllRoutes
  <2>4. /\ e.pages = d.pages /\ e.assets = d.assets /\ e.robots
        /\ e.routes = routes /\ e.key = key /\ IsDirectory(e)
    BY DEF IsDirectory
  <2> HIDE DEF e
  <2>5. Whole(tool, build, runtime, e)   BY <1>5, <1>8, <2>2, <2>4, PublishedIsWhole
  <2>6. EndsLeave(tool, build, runtime, "failed", before, e)   BY <1>8, <2>5 DEF EndsLeave
  <2> QED BY <1>1, <1>2, <1>3, <1>4, <2>3, <2>4, <2>6, <2>7, StagingGoesOn
<1> QED BY <1>6, <1>7, <1>8 DEF IoFails

LEMMA DeployHolds == ASSUME ReleaseInv, Deploy PROVE ReleaseInv'
<1>1. UNCHANGED <<dest, staging, invocations, announced>>   BY DEF Deploy
<1>2. online' = [robots |-> dest.web.robots, routes |-> dest.web.routes, key |-> dest.web.key]
  BY DEF Deploy
<1>3. ReleaseTyped' /\ StagingHolds'
  BY <1>1 DEF ReleaseInv, ReleaseTyped, StagingHolds
<1>4. KeyComesLast'   BY <1>1, <1>2 DEF ReleaseInv, KeyComesLast
<1> QED BY <1>3, <1>4 DEF ReleaseInv

LEMMA NotifyHolds == ASSUME ReleaseInv, NotifyIndexnow PROVE ReleaseInv'
<1>1. UNCHANGED <<dest, staging, invocations, online>> /\ online.key /\ announced' = online
  BY DEF NotifyIndexnow
<1>2. ReleaseTyped' /\ StagingHolds'
  BY <1>1 DEF ReleaseInv, ReleaseTyped, StagingHolds
<1>3. KeyComesLast'   BY <1>1 DEF ReleaseInv, KeyComesLast
<1> QED BY <1>2, <1>3 DEF ReleaseInv

LEMMA ReleaseKept == ReleaseInv /\ [ReleaseNext]_releaseVars => ReleaseInv'
<1> SUFFICES ASSUME ReleaseInv, [ReleaseNext]_releaseVars PROVE ReleaseInv'   OBVIOUS
<1>1. ASSUME NEW tool \in Tools, NEW runtime \in Runtimes, NEW bad, invocations < Len(Builds),
             NEW build \in Builds[invocations + 1], Invoke(tool, build, runtime, bad)
      PROVE  ReleaseInv'
  <2>1. invocations \in Nat /\ Builds \in Seq(Range(Builds))
    BY OutputsAssumption DEF Outputs, ReleaseInv, ReleaseTyped
  <2>2. invocations + 1 \in DOMAIN Builds   BY <1>1, <2>1
  <2>3. build \in UNION Range(Builds)   BY <1>1, <2>2 DEF Range
  <2> QED BY <1>1, <2>3, InvokeHolds
<1>2. CASE Copy   BY <1>2, CopyHolds
<1>3. CASE StagePage   BY <1>3, StagePageHolds
<1>4. CASE PruneSite   BY <1>4, PruneSiteHolds
<1>5. CASE PublishSite   BY <1>5, PublishSiteHolds
<1>6. CASE StageIndex   BY <1>6, StageIndexHolds
<1>7. CASE PruneApp   BY <1>7, PruneAppHolds
<1>8. CASE PublishApp   BY <1>8, PublishAppHolds
<1>9. CASE IoFails   BY <1>9, IoFailsHolds
<1>10. CASE Deploy   BY <1>10, DeployHolds
<1>11. CASE NotifyIndexnow   BY <1>11, NotifyHolds
<1>12. CASE UNCHANGED releaseVars
  BY <1>12 DEF releaseVars, ReleaseInv, ReleaseTyped, StagingHolds, KeyComesLast
<1> QED BY <1>1, <1>2, <1>3, <1>4, <1>5, <1>6, <1>7, <1>8, <1>9, <1>10, <1>11, <1>12 DEF ReleaseNext

(* For any outputs, faults of them, and errors of the file system: where   *)
(* robots.txt stands is a whole release, and only whole sites are          *)
(* announced.                                                              *)
THEOREM ReleasesAreWhole == ReleaseSpec => []ReleaseIsWhole
<1>1. ReleaseInv => ReleaseIsWhole
  <2> SUFFICES ASSUME ReleaseInv PROVE ReleaseIsWhole   OBVIOUS
  <2> DEFINE tool == staging.tool
  <2>1. ASSUME staging.at # "idle"
        PROVE  EndsLeave(tool, staging.build, staging.runtime, staging.at, staging.before, dest[tool])
    BY <2>1 DEF ReleaseInv, StagingHolds
  <2>2. ASSUME staging.at # "idle"
        PROVE  /\ tool = "web" => dest[tool] = dest.web
               /\ tool = "app" => dest[tool] = dest.app
               /\ DOMAIN staging.build.pages = Range(Paths)
    <3>1. staging.build \in UNION Range(Builds)   BY <2>2 DEF ReleaseInv, ReleaseTyped
    <3>2. staging.build.pages = [p \in Range(Paths) |-> staging.build.pages[p]]
      BY <3>1, OutputsAreWell
    <3> QED BY <3>2
  <2> QED BY <2>1, <2>2 DEF ReleaseIsWhole, ReleaseInv, KeyComesLast, EndsLeave, AllRoutes
<1> QED BY ReleaseStarts, ReleaseKept, <1>1, PTL DEF ReleaseSpec

-----------------------------------------------------------------------------
(***************************************************************************)
(* The widgets: one cause, one effect, on what was drawn.                  *)
(***************************************************************************)

OptionValues == Range(Options)

(* The list a query leaves is a list of options: its recursion is one.     *)
LEMMA VisibleAreOptions ==
    ASSUME NEW words
    PROVE  Visible(words) \in Seq(OptionValues)
<1>0. Options \in Seq(OptionValues) /\ Len(Options) \in Nat
  BY OptionsAssumption DEF OptionValues
<1> DEFINE V == Seq(OptionValues)  D == 0..Len(Options)
           Step(n, s) == IF n \in 1..Len(Options) /\ CommandMatches(Options[n], words)
                         THEN Append(s, Options[n]) ELSE s
           step == [n \in Nat |-> [s \in V |-> Step(n, s)]]
<1>1. step \in [Nat -> [V -> V]]
  <2>1. ASSUME NEW n \in Nat, NEW s \in V PROVE Step(n, s) \in V   BY <1>0
  <2> HIDE DEF Step, V
  <2> QED BY <2>1
<1>2. PICK F : Recurs(F, <<>>, step, V)
  <2>1. <<>> \in V   OBVIOUS
  <2> HIDE DEF step, V
  <2> QED BY <1>1, <2>1, Recursion
<1>3. /\ F \in [Nat -> V] /\ F[0] = <<>>
      /\ \A n \in Nat \ {0} : F[n] = Step(n, F[n - 1])
  <2>1. F \in [Nat -> V] /\ F[0] = <<>> /\ \A n \in Nat \ {0} : F[n] = step[n][F[n - 1]]
    BY <1>2 DEF Recurs
  <2>2. ASSUME NEW n \in Nat \ {0} PROVE F[n] = Step(n, F[n - 1])
    <3>1. n - 1 \in Nat /\ F[n - 1] \in V   BY <2>1
    <3> HIDE DEF Step, V
    <3>2. step[n][F[n - 1]] = Step(n, F[n - 1])   BY <3>1
    <3> QED BY <2>1, <3>2
  <2> QED BY <2>1, <2>2
<1> HIDE DEF step
<1> DEFINE At(f, n) == IF n = 0 THEN <<>>
                       ELSE IF CommandMatches(Options[n], words) THEN Append(f[n - 1], Options[n])
                       ELSE f[n - 1]
           R == [n \in D |-> F[n]]
<1>4. ASSUME NEW n \in D PROVE R[n] = At(R, n)
  <2>1. CASE n = 0   BY <1>0, <1>3, <2>1
  <2>2. CASE n # 0
    <3>1. n \in 1..Len(Options) /\ n - 1 \in D /\ n \in Nat \ {0}   BY <1>0, <2>2
    <3>2. R[n] = F[n] /\ R[n - 1] = F[n - 1]   BY <3>1
    <3>3. F[n] = Step(n, F[n - 1])   BY <1>3, <3>1
    <3> QED BY <2>2, <3>1, <3>2, <3>3
  <2> QED BY <2>1, <2>2
<1> HIDE DEF At, D
<1>5. R = [n \in D |-> At(R, n)]   BY <1>4
<1> DEFINE G == CHOOSE f : f = [n \in D |-> At(f, n)]
<1>6. G = [n \in D |-> At(G, n)]
  <2> HIDE DEF R
  <2> QED BY <1>5
<1>7. Visible(words) = G[Len(Options)]   BY DEF Visible, At, D
<1> HIDE DEF G
<1> DEFINE T == {n \in Nat : n \in D => G[n] \in V}
<1>8. 0 \in T
  <2>1. 0 \in D /\ At(G, 0) = <<>>   BY <1>0 DEF At, D
  <2> QED BY <1>6, <2>1
<1>9. ASSUME NEW n \in Nat, n \in T PROVE n + 1 \in T
  <2> SUFFICES ASSUME n + 1 \in D PROVE G[n + 1] \in V   OBVIOUS
  <2>1. n \in D /\ n + 1 # 0 /\ (n + 1) - 1 = n /\ n + 1 \in 1..Len(Options)   BY <1>0 DEF D
  <2>2. G[n] \in V /\ G[n + 1] = At(G, n + 1)   BY <1>6, <1>9, <2>1
  <2>3. Options[n + 1] \in OptionValues   BY <1>0, <2>1
  <2> QED BY <2>1, <2>2, <2>3 DEF At
<1>10. \A n \in Nat : n \in T
  <2> HIDE DEF T
  <2> QED BY <1>8, <1>9, InductionOnASet
<1>11. Len(Options) \in D   BY <1>0 DEF D
<1> QED BY <1>0, <1>7, <1>10, <1>11

SelectTyped ==
    /\ active \in Nat
    /\ reported \in Seq(OptionValues)
    /\ drawn.visible \in Seq(OptionValues) /\ drawn.current \in Nat
    /\ pressed = [under |-> pressed.under, was |-> pressed.was, excused |-> pressed.excused]

(* While a press is under way, no task moves the focus that was not left   *)
(* over before it or set off by a key.                                     *)
NoTaskUnderAPress ==
    pressed.under => (homing => pressed.excused)

SelectInv == SelectTyped /\ OneHighlight /\ PressTogglesOnce /\ NoTaskUnderAPress

LEMMA ClampIsInRange ==
    ASSUME NEW index \in Nat, NEW count \in Nat
    PROVE  Clamp(index, count) \in Nat /\ (count # 0 => Clamp(index, count) < count)
BY DEF Clamp

LEMMA PositionIsNat == ASSUME NEW value PROVE PositionOf(value) \in Nat
<1> DEFINE P == {i \in DOMAIN Options : Options[i] = value}
<1>1. CASE value \in ToSet(Options)
  <2>1. DOMAIN Options = 1..Len(Options) /\ Len(Options) \in Nat   BY OptionsAssumption
  <2>2. P # {} /\ P \in SUBSET Nat   BY <1>1, <2>1 DEF ToSet
  <2>3. SelectInSeq(Options, LAMBDA o : o = value) = Min(P)
    BY <2>1, <2>2 DEF SelectInSeq
  <2>4. Min(P) \in P   BY <2>2, LeastNat DEF Min
  <2>5. Min(P) \in Nat \ {0}   BY <2>1, <2>4
  <2> QED BY <1>1, <2>3, <2>5 DEF PositionOf
<1>2. CASE value \notin ToSet(Options)   BY <1>2 DEF PositionOf
<1> QED BY <1>1, <1>2

(* A drawing highlights one of the options it shows.                       *)
LEMMA DrawingsHighlight ==
    ASSUME active \in Nat
    PROVE  /\ Drawing.visible \in Seq(OptionValues) /\ Drawing.current \in Nat
           /\ Drawing.visible # <<>> => Drawing.current < Len(Drawing.visible)
<1> DEFINE v == Visible(query)
<1>1. v \in Seq(OptionValues)   BY VisibleAreOptions
<1> HIDE DEF v
<1>2. Len(v) \in Nat /\ (v # <<>> => Len(v) # 0)   BY <1>1
<1>3. Drawing.visible = v /\ Drawing.current = Clamp(active, Len(v))   BY DEF Drawing, v
<1> QED BY <1>1, <1>2, <1>3, ClampIsInRange

LEMMA SelectStarts == SelectInit => SelectInv
<1> SUFFICES ASSUME SelectInit PROVE SelectInv   OBVIOUS
<1>1. active \in Nat /\ drawn = Drawing /\ pressed = NotPressed /\ reported = <<>>   BY DEF SelectInit
<1>2. /\ drawn.visible \in Seq(OptionValues) /\ drawn.current \in Nat
      /\ drawn.visible # <<>> => drawn.current < Len(drawn.visible)
  BY <1>1, DrawingsHighlight
<1> QED BY <1>1, <1>2
        DEF SelectInv, SelectTyped, OneHighlight, PressTogglesOnce, NoTaskUnderAPress, NotPressed

(* A step that draws nothing and ends the press, or excuses it, or leaves  *)
(* it and opens or closes nothing.                                         *)
LEMMA SelectGoesOn ==
    ASSUME SelectInv, UNCHANGED drawn, active' \in Nat, reported' \in Seq(OptionValues),
           \/ pressed' = NotPressed \/ HoldPress(TRUE)
           \/ UNCHANGED <<pressed, open>> /\ (homing' => homing)
    PROVE  SelectInv'
<1>1. CASE pressed.under /\ pressed' = [pressed EXCEPT !.excused = TRUE]
  <2>1. pressed' = [under |-> pressed.under, was |-> pressed.was, excused |-> TRUE]
    BY <1>1 DEF SelectInv, SelectTyped
  <2> QED BY <2>1 DEF SelectInv, SelectTyped, OneHighlight, PressTogglesOnce, NoTaskUnderAPress
<1>2. CASE pressed' = NotPressed
  BY <1>2 DEF SelectInv, SelectTyped, OneHighlight, PressTogglesOnce, NoTaskUnderAPress, NotPressed
<1>3. CASE pressed' = pressed /\ ~pressed.under
  BY <1>3 DEF SelectInv, SelectTyped, OneHighlight, PressTogglesOnce, NoTaskUnderAPress
<1>4. CASE UNCHANGED <<pressed, open>> /\ (homing' => homing)
  BY <1>4 DEF SelectInv, SelectTyped, OneHighlight, PressTogglesOnce, NoTaskUnderAPress
<1> QED BY <1>1, <1>2, <1>3, <1>4 DEF HoldPress

(* A choice reports an option drawn, other than the one drawn as chosen.   *)
LEMMA ChoicesAreDrawn ==
    ASSUME SelectInv, NEW i \in DOMAIN drawn.visible, Choose(drawn.visible[i])
    PROVE  /\ reported' \in Seq(OptionValues) /\ active' \in Nat /\ UNCHANGED drawn /\ ~open'
           /\ reported' # reported =>
                 Last(reported') \in ToSet(drawn.visible) \ {drawn.value}
<1> DEFINE v == drawn.visible[i]
<1>1. drawn.visible \in Seq(OptionValues) /\ reported \in Seq(OptionValues) /\ active \in Nat
  BY DEF SelectInv, SelectTyped
<1>2. v \in OptionValues /\ v \in ToSet(drawn.visible)   BY <1>1 DEF ToSet
<1>3. UNCHANGED <<active, drawn>> /\ ~open'   BY DEF Choose
<1>4. reported' = IF v = drawn.value THEN reported ELSE Append(reported, v)   BY DEF Choose
<1> HIDE DEF v
<1>5. CASE v = drawn.value   BY <1>1, <1>3, <1>4, <1>5
<1>6. CASE v # drawn.value
  <2>1. reported' = Append(reported, v)   BY <1>4, <1>6
  <2>2. reported' \in Seq(OptionValues) /\ Last(reported') = v   BY <1>1, <1>2, <2>1 DEF Last
  <2> QED BY <1>1, <1>2, <1>3, <1>6, <2>2
<1> QED BY <1>5, <1>6

LEMMA StepIsNat ==
    ASSUME NEW current \in Nat, NEW count \in Nat \ {0}, NEW previous
    PROVE  CommandStep(current, count, previous) \in Nat
<1>1. Clamp(current, count) \in Nat   BY ClampIsInRange
<1>2. \A n \in Int : n % count \in Nat   OBVIOUS
<1> QED BY <1>1, <1>2 DEF CommandStep

LEMMA SelectKept ==
    SelectInv /\ [SelectNext]_selectVars => SelectInv' /\ (ReportsTheDrawn \/ UNCHANGED selectVars)
<1> SUFFICES ASSUME SelectInv, [SelectNext]_selectVars
             PROVE  SelectInv' /\ (ReportsTheDrawn \/ UNCHANGED selectVars)
  OBVIOUS
<1>0. /\ active \in Nat /\ reported \in Seq(OptionValues)
      /\ drawn.visible \in Seq(OptionValues) /\ drawn.current \in Nat
      /\ drawn.visible # <<>> => drawn.current < Len(drawn.visible)
  BY DEF SelectInv, SelectTyped, OneHighlight
<1>a. Len(drawn.visible) \in Nat /\ (drawn.visible # <<>> => Len(drawn.visible) # 0)   BY <1>0
<1>b. ASSUME UNCHANGED reported PROVE ReportsTheDrawn   BY <1>b DEF ReportsTheDrawn
<1>1. CASE Render
  <2>1. /\ drawn' = Drawing
        /\ UNCHANGED <<active, reported, pressed, open, homing>>
    BY <1>1 DEF Render
  <2>2. /\ drawn'.visible \in Seq(OptionValues) /\ drawn'.current \in Nat
        /\ drawn'.visible # <<>> => drawn'.current < Len(drawn'.visible)
    BY <1>0, <2>1, DrawingsHighlight
  <2> QED BY <1>b, <2>1, <2>2
          DEF SelectInv, SelectTyped, OneHighlight, PressTogglesOnce, NoTaskUnderAPress
<1>2. CASE SearchTakesFocus
  BY <1>0, <1>2, <1>b, SelectGoesOn DEF SearchTakesFocus
<1>3. CASE FocusReturns
  <2>1. UNCHANGED <<active, drawn, pressed, reported>> /\ homing /\ ~homing'
    BY <1>3 DEF FocusReturns
  <2> QED BY <1>b, <2>1
          DEF SelectInv, SelectTyped, OneHighlight, PressTogglesOnce, NoTaskUnderAPress
<1>4. CASE PressTrigger
  <2>1. /\ UNCHANGED <<active, drawn, reported, open, homing>>
        /\ pressed' = [under |-> TRUE, was |-> open, excused |-> homing]
    BY <1>4 DEF PressTrigger
  <2> QED BY <1>b, <2>1
          DEF SelectInv, SelectTyped, OneHighlight, PressTogglesOnce, NoTaskUnderAPress
<1>5. CASE ClickTrigger
  <2>1. UNCHANGED <<drawn, reported>> /\ pressed' = NotPressed /\ active' = PositionOf(drawn.value)
    BY <1>5 DEF ClickTrigger
  <2>2. active' \in Nat   BY <2>1, PositionIsNat
  <2> QED BY <1>0, <1>b, <2>1, <2>2, SelectGoesOn
<1>6. ASSUME NEW previous \in BOOLEAN, ArrowOnTrigger(previous)
      PROVE  SelectInv' /\ ReportsTheDrawn
  <2>1. UNCHANGED <<drawn, reported>> /\ HoldPress(TRUE)
        /\ active' = IF previous THEN Len(Options) - 1 ELSE 0
    BY <1>6 DEF ArrowOnTrigger
  <2>2. active' \in Nat
    <3>1. Len(Options) \in Nat \ {0}   BY OptionsAssumption
    <3> QED BY <2>1, <3>1
  <2> QED BY <1>0, <1>b, <2>1, <2>2, SelectGoesOn
<1>7. ASSUME NEW previous \in BOOLEAN, StepHighlight(previous)
      PROVE  SelectInv' /\ ReportsTheDrawn
  <2>1. /\ UNCHANGED <<drawn, reported>> /\ drawn.visible # <<>>
        /\ pressed' = NotPressed \/ (UNCHANGED <<pressed, open>> /\ (homing' => homing))
        /\ active' = CommandStep(drawn.current, Len(drawn.visible), previous)
    BY <1>7 DEF StepHighlight, HoldPress
  <2>2. active' \in Nat   BY <1>0, <1>a, <2>1, StepIsNat
  <2> QED BY <1>0, <1>b, <2>1, <2>2, SelectGoesOn
<1>8. ASSUME NEW words \in Queries, Type(words) PROVE SelectInv' /\ ReportsTheDrawn
  <2>1. /\ UNCHANGED <<drawn, reported>> /\ active' = 0
        /\ pressed' = NotPressed \/ (UNCHANGED <<pressed, open>> /\ (homing' => homing))
    BY <1>8 DEF Type, HoldPress
  <2> QED BY <1>0, <1>b, <2>1, SelectGoesOn
<1>9. CASE LeaveSearch \/ Escape
  <2>1. UNCHANGED <<drawn, reported, active>> /\ HoldPress(TRUE)
    BY <1>9 DEF LeaveSearch, Escape
  <2> QED BY <1>0, <1>b, <2>1, SelectGoesOn
<1>10. CASE Enter
  <2>1. drawn.current + 1 \in DOMAIN drawn.visible   BY <1>0, <1>a, <1>10 DEF Enter
  <2>2. Choose(drawn.visible[drawn.current + 1]) /\ HoldPress(TRUE) /\ drawn.expanded
    BY <1>10 DEF Enter, Searching
  <2> QED BY <2>1, <2>2, ChoicesAreDrawn, SelectGoesOn DEF ReportsTheDrawn
<1>11. ASSUME NEW home \in BOOLEAN, HomeOrEnd(home) PROVE SelectInv' /\ ReportsTheDrawn
  <2>1. /\ UNCHANGED <<drawn, reported>> /\ drawn.visible # <<>>
        /\ pressed' = NotPressed \/ (UNCHANGED <<pressed, open>> /\ (homing' => homing))
        /\ active' = IF home THEN 0 ELSE Len(drawn.visible) - 1
    BY <1>11 DEF HomeOrEnd, HoldPress
  <2>2. active' \in Nat   BY <1>a, <2>1
  <2> QED BY <1>0, <1>b, <2>1, <2>2, SelectGoesOn
<1>12. ASSUME NEW i \in 1..Len(Options), ClickOption(i) PROVE SelectInv' /\ ReportsTheDrawn
  <2>1. i \in DOMAIN drawn.visible /\ Choose(drawn.visible[i]) /\ pressed' = NotPressed
        /\ drawn.expanded
    BY <1>12 DEF ClickOption
  <2> QED BY <2>1, ChoicesAreDrawn, SelectGoesOn DEF ReportsTheDrawn
<1>13. ASSUME NEW i \in 1..Len(Options), Hover(i) PROVE SelectInv' /\ ReportsTheDrawn
  <2>1. UNCHANGED <<drawn, reported, pressed, open, homing>> /\ active' = i - 1
    BY <1>13 DEF Hover
  <2>2. active' \in Nat   BY <2>1, OptionsAssumption
  <2> QED BY <1>0, <1>b, <2>1, <2>2, SelectGoesOn
<1>14. CASE ParentFollows
  <2>1. UNCHANGED <<drawn, reported, pressed, open, homing, active>>   BY <1>14 DEF ParentFollows
  <2> QED BY <1>0, <1>b, <2>1, SelectGoesOn
<1>15. CASE ParentToggles
  <2>1. UNCHANGED <<drawn, reported, active>> /\ pressed' = NotPressed   BY <1>15 DEF ParentToggles
  <2> QED BY <1>0, <1>b, <2>1, SelectGoesOn
<1>16. CASE UNCHANGED selectVars
  BY <1>16 DEF selectVars, SelectInv, SelectTyped, OneHighlight, PressTogglesOnce, NoTaskUnderAPress
<1> QED BY <1>1, <1>2, <1>3, <1>4, <1>5, <1>6, <1>7, <1>8, <1>9, <1>10, <1>11, <1>12, <1>13,
           <1>14, <1>15, <1>16 DEF SelectNext

LEMMA SelectHolds ==
    SelectSpec => [](OneHighlight /\ PressTogglesOnce) /\ [][ReportsTheDrawn]_selectVars
<1>1. SelectInv => OneHighlight /\ PressTogglesOnce   BY DEF SelectInv
<1>2. SelectInv /\ [SelectNext]_selectVars => SelectInv'   BY SelectKept
<1>3. SelectInv /\ [SelectNext]_selectVars => [ReportsTheDrawn]_selectVars   BY SelectKept
<1> QED BY SelectStarts, <1>1, <1>2, <1>3, PTL DEF SelectSpec

(* A drag is of a press that holds the knob and has not clicked it; it has *)
(* moved the cord past the detent once, if it ever did.                    *)
CordInv ==
    /\ pull \in Nat
    /\ heard = [moves |-> heard.moves, clicks |-> heard.clicks]
    /\ heard.moves \in {0, 1} /\ heard.clicks \in {0, 1}
    /\ dragging => onKnob
    /\ ~dragging => pull = 0
    /\ onKnob => heard.clicks = 0
    /\ dragging /\ fired => heard.moves = 1
    /\ ~fired => heard.moves = 0
    /\ pull >= Actuation => fired

BlobInv ==
    /\ DOMAIN pokes = BOOLEAN /\ pokes[TRUE] \in Nat /\ pokes[TRUE] < Patience
    /\ overpokes \in Nat /\ poked \in Nat
    /\ poked = overpokes * Patience + pokes[TRUE]

MotionInv == CordInv /\ BlobInv

LEMMA MotionStarts == MotionInit => MotionInv
<1> SUFFICES ASSUME MotionInit PROVE MotionInv   OBVIOUS
<1>1. CordInv   BY MotionAssumption DEF MotionInit, CordInv, Quiet
<1>2. DOMAIN pokes = BOOLEAN /\ pokes[TRUE] = 0 /\ overpokes = 0 /\ poked = 0   BY DEF MotionInit
<1>3. BlobInv   BY <1>2, MotionAssumption DEF BlobInv
<1> QED BY <1>1, <1>3 DEF MotionInv

\* A poke the blob's handler hears of: the count goes up, or starts over.
LEMMA HandledPokeHolds ==
    ASSUME BlobInv, Poke(TRUE)
    PROVE  BlobInv'
<1> DEFINE n == pokes[TRUE] + 1
<1>1. Patience \in Nat \ {0}   BY MotionAssumption
<1>2. pokes[TRUE] \in Nat /\ pokes[TRUE] < Patience /\ overpokes \in Nat /\ poked \in Nat
      /\ poked = overpokes * Patience + pokes[TRUE] /\ DOMAIN pokes = BOOLEAN
  BY DEF BlobInv
<1>3. /\ pokes' = [pokes EXCEPT ![TRUE] = IF n >= Patience THEN 0 ELSE n]
      /\ overpokes' = IF n >= Patience THEN overpokes + 1 ELSE overpokes
      /\ poked' = poked + 1
  BY Zenon DEF Poke
<1>4. DOMAIN pokes' = BOOLEAN /\ pokes'[TRUE] = IF n >= Patience THEN 0 ELSE n
  BY <1>2, <1>3, Zenon
<1>5. n = pokes[TRUE] + 1   OBVIOUS
<1> DEFINE k == pokes[TRUE]
<1>6. k = pokes[TRUE]   OBVIOUS
<1> HIDE DEF n, k
<1>7. k \in Nat /\ k < Patience /\ poked = overpokes * Patience + k /\ n = k + 1
  BY <1>2, <1>5, <1>6, Zenon
<1>8. overpokes * Patience \in Nat /\ (overpokes + 1) * Patience = overpokes * Patience + Patience
  BY <1>1, <1>2
<1>9. CASE n >= Patience
  <2>1. pokes'[TRUE] = 0 /\ overpokes' = overpokes + 1 /\ poked' = poked + 1
    BY <1>3, <1>4, <1>9, Zenon
  <2>2. k = Patience - 1   BY <1>1, <1>7, <1>9
  <2> QED BY <1>1, <1>2, <1>4, <1>7, <1>8, <2>1, <2>2 DEF BlobInv
<1>10. CASE ~(n >= Patience)
  <2>1. pokes'[TRUE] = n /\ overpokes' = overpokes /\ poked' = poked + 1
    BY <1>3, <1>4, <1>10, Zenon
  <2> QED BY <1>1, <1>2, <1>4, <1>7, <1>8, <1>10, <2>1 DEF BlobInv
<1> QED BY <1>9, <1>10

LEMMA PokeHolds ==
    ASSUME BlobInv, NEW handled \in BOOLEAN, Poke(handled)
    PROVE  BlobInv'
<1>1. CASE handled = TRUE   BY <1>1, HandledPokeHolds, Zenon
<1>2. CASE handled = FALSE
  <2>1. Poke(FALSE)   BY <1>2, Zenon
  <2>2. /\ UNCHANGED <<overpokes, poked>>
        /\ pokes' = [pokes EXCEPT ![FALSE] = pokes[FALSE] + 1]
    BY <2>1 DEF Poke
  <2>3. DOMAIN pokes' = BOOLEAN /\ pokes'[TRUE] = pokes[TRUE]   BY <2>2, Zenon DEF BlobInv
  <2> QED BY <2>2, <2>3 DEF BlobInv
<1> QED BY <1>1, <1>2

LEMMA CordKept ==
    ASSUME CordInv, Grab \/ (\E y \in 0..Travel + 1 : Move(y)) \/ Leave \/ ReleaseOnKnob
                         \/ ReleaseOffKnob \/ KeyOnKnob
    PROVE  CordInv' /\ UNCHANGED blobVars
<1>0. Actuation \in Nat \ {0} /\ Travel \in Nat   BY MotionAssumption
<1>1. CASE Grab
  <2>1. UNCHANGED blobVars /\ pull' = pull /\ dragging' /\ ~fired' /\ onKnob' /\ heard' = Quiet /\ ~onKnob
    BY <1>1 DEF Grab
  <2>2. pull' = 0   BY <2>1 DEF CordInv
  <2>3. heard' = [moves |-> 0, clicks |-> 0]   BY <2>1 DEF Quiet
  <2> QED BY <1>0, <2>1, <2>2, <2>3 DEF CordInv
<1>2. ASSUME NEW y \in 0..Travel + 1, Move(y) PROVE CordInv' /\ UNCHANGED blobVars
  <2> DEFINE detent == pull' >= Actuation /\ ~fired
  <2>1. /\ dragging /\ dragging' = dragging /\ onKnob' = onKnob /\ UNCHANGED blobVars
        /\ pull' = (IF y > Travel THEN Travel ELSE y)
        /\ fired' = (fired \/ detent)
        /\ heard' = IF detent THEN [heard EXCEPT !.moves = @ + 1] ELSE heard
    BY <1>2 DEF Move
  <2>2. pull' \in Nat   BY <1>0, <2>1
  <2>3. CASE detent
    <3>1. heard.moves = 0 /\ heard = [moves |-> heard.moves, clicks |-> heard.clicks]
      BY <2>3 DEF CordInv
    <3>2. heard' = [heard EXCEPT !.moves = heard.moves + 1]   BY <2>1, <2>3
    <3>3. heard' = [moves |-> 1, clicks |-> heard.clicks]   BY <3>1, <3>2
    <3>4. fired'   BY <2>1, <2>3
    <3> QED BY <2>1, <2>2, <3>3, <3>4 DEF CordInv
  <2>4. CASE ~detent
    <3>1. heard' = heard /\ (fired' <=> fired)   BY <2>1, <2>4, Zenon
    <3>2. pull' >= Actuation => fired   BY <2>4
    <3> QED BY <2>1, <2>2, <3>1, <3>2 DEF CordInv
  <2> QED BY <2>3, <2>4
<1>3. CASE Leave \/ ReleaseOffKnob
  <2>1. /\ ~dragging' /\ pull' = (IF dragging THEN 0 ELSE pull) /\ UNCHANGED blobVars
        /\ fired' = fired /\ heard' = heard /\ (onKnob' => onKnob)
    BY <1>3 DEF Leave, ReleaseOffKnob, LetGo
  <2>2. pull' = 0   BY <2>1 DEF CordInv
  <2> QED BY <1>0, <2>1, <2>2 DEF CordInv
<1>4. CASE ReleaseOnKnob
  <2>1. /\ ~dragging' /\ pull' = (IF dragging THEN 0 ELSE pull) /\ UNCHANGED blobVars
        /\ onKnob /\ ~onKnob' /\ fired' = fired
        /\ heard' = [heard EXCEPT !.clicks = heard.clicks + 1]
    BY <1>4 DEF ReleaseOnKnob, LetGo
  <2>2. pull' = 0   BY <2>1 DEF CordInv
  <2>3. heard' = [moves |-> heard.moves, clicks |-> 1]
    <3>1. heard.clicks = 0 /\ heard = [moves |-> heard.moves, clicks |-> heard.clicks]
      BY <2>1 DEF CordInv
    <3> QED BY <2>1, <3>1
  <2> QED BY <1>0, <2>1, <2>2, <2>3 DEF CordInv
<1>5. CASE KeyOnKnob
  <2>1. /\ ~onKnob /\ heard' = [moves |-> 0, clicks |-> 1] /\ UNCHANGED blobVars
        /\ pull' = pull /\ dragging' = dragging /\ fired' = fired /\ onKnob' = onKnob
    BY <1>5 DEF KeyOnKnob
  <2>2. ~dragging   BY <2>1 DEF CordInv
  <2> QED BY <2>1, <2>2 DEF CordInv
<1> QED BY <1>1, <1>2, <1>3, <1>4, <1>5

LEMMA MotionKept == MotionInv /\ [MotionNext]_motionVars => MotionInv'
<1> SUFFICES ASSUME MotionInv, [MotionNext]_motionVars PROVE MotionInv'   OBVIOUS
<1>1. ASSUME UNCHANGED blobVars PROVE BlobInv'   BY <1>1 DEF blobVars, MotionInv, BlobInv
<1>2. ASSUME UNCHANGED cordVars PROVE CordInv'   BY <1>2 DEF cordVars, MotionInv, CordInv
<1>3. ASSUME NEW handled \in BOOLEAN, Poke(handled) PROVE MotionInv'
  <2>1. UNCHANGED cordVars   BY <1>3 DEF Poke
  <2> QED BY <1>2, <1>3, <2>1, PokeHolds DEF MotionInv
<1>4. CASE Grab \/ (\E y \in 0..Travel + 1 : Move(y)) \/ Leave \/ ReleaseOnKnob
             \/ ReleaseOffKnob \/ KeyOnKnob
  BY <1>1, <1>4, CordKept DEF MotionInv
<1>5. CASE UNCHANGED motionVars   BY <1>1, <1>2, <1>5 DEF motionVars, cordVars, blobVars, MotionInv
<1> QED BY <1>3, <1>4, <1>5 DEF MotionNext

LEMMA MotionHolds == MotionSpec => [](CordPullsOncePerCause /\ BlobCountsEveryPoke)
<1>1. MotionInv => CordPullsOncePerCause /\ BlobCountsEveryPoke
  <2> SUFFICES ASSUME MotionInv PROVE CordPullsOncePerCause /\ BlobCountsEveryPoke   OBVIOUS
  <2>1. CordPullsOncePerCause
    <3>1. pull >= Actuation => dragging   BY MotionAssumption DEF MotionInv, CordInv
    <3> QED BY <3>1 DEF MotionInv, CordInv, CordPullsOncePerCause
  <2> QED BY <2>1 DEF MotionInv, BlobInv, BlobCountsEveryPoke
<1> QED BY MotionStarts, MotionKept, <1>1, PTL DEF MotionSpec

TabPlaces == DOMAIN TabValues

LEMMA TabsAre ==
    /\ Len(TabValues) \in Nat \ {0} /\ TabPlaces = 1..Len(TabValues)
    /\ \A i, j \in TabPlaces : TabValues[i] = TabValues[j] => i = j
BY TabsAssumption DEF TabPlaces, IsInjective

LEMMA CurrentIsATab == ASSUME NEW value PROVE CurrentTab(value) \in TabPlaces
<1> DEFINE P == {i \in DOMAIN TabValues : TabValues[i] = value}
<1>1. CASE value \in ToSet(TabValues)
  <2>1. P # {} /\ P \in SUBSET Nat   BY <1>1, TabsAre DEF ToSet, TabPlaces
  <2>2. SelectInSeq(TabValues, LAMBDA tab : tab = value) = Min(P)
    BY <2>1, TabsAre DEF SelectInSeq, TabPlaces
  <2>3. Min(P) \in P   BY <2>1, LeastNat DEF Min
  <2> QED BY <1>1, <2>2, <2>3 DEF CurrentTab, TabPlaces
<1>2. CASE value \notin ToSet(TabValues)   BY <1>2, TabsAre DEF CurrentTab
<1> QED BY <1>1, <1>2

(* A tab's own value makes it the current one.                             *)
LEMMA TabsKnowTheirValue == ASSUME NEW i \in TabPlaces PROVE CurrentTab(TabValues[i]) = i
<1> DEFINE value == TabValues[i]  P == {j \in DOMAIN TabValues : TabValues[j] = value}
<1>1. P = {i}   BY TabsAre DEF TabPlaces
<1>2. value \in ToSet(TabValues) /\ i \in Nat   BY TabsAre DEF ToSet, TabPlaces
<1>3. SelectInSeq(TabValues, LAMBDA tab : tab = value) = Min(P)
  BY <1>1, TabsAre DEF SelectInSeq, TabPlaces
<1>4. Min({i}) = i   BY <1>2 DEF Min
<1> HIDE DEF P
<1> QED BY <1>1, <1>2, <1>3, <1>4 DEF CurrentTab

LEMMA NextIsATab ==
    ASSUME NEW step \in {"previous", "next", "first", "last"}
    PROVE  LET from == CurrentTab(drawnView) IN
           /\ NextTab(step) \in TabPlaces
           /\ step \in {"previous", "next"} /\ NextTab(step) # from =>
                 NextTab(step) - from \in {-1, 1}
<1> DEFINE from == CurrentTab(drawnView)
<1>1. from \in 1..Len(TabValues) /\ Len(TabValues) \in Nat \ {0}   BY CurrentIsATab, TabsAre
<1>2. NextTab(step) = CASE step = "previous" -> IF from = 1 THEN 1 ELSE from - 1
                        [] step = "next" -> IF from = Len(TabValues) THEN from ELSE from + 1
                        [] step = "first" -> 1
                        [] step = "last" -> Len(TabValues)
  BY DEF NextTab
<1> HIDE DEF from
<1>3. NextTab(step) \in 1..Len(TabValues)   BY <1>1, <1>2
<1>4. step \in {"previous", "next"} /\ NextTab(step) # from => NextTab(step) - from \in {-1, 1}
  BY <1>1, <1>2
<1> QED BY <1>3, <1>4, TabsAre DEF from

LEMMA TabsKept == TabsFollowTheirUse /\ [TabsNext]_tabVars => TabsFollowTheirUse'
<1> SUFFICES ASSUME TabsFollowTheirUse, [TabsNext]_tabVars PROVE TabsFollowTheirUse'   OBVIOUS
<1>1. CASE UNCHANGED <<view, asked>>   BY <1>1 DEF TabsFollowTheirUse
<1>2. ASSUME NEW i \in DOMAIN TabValues, ClickTab(i) PROVE TabsFollowTheirUse'
  <2>1. asked'.by = "click" /\ view' = asked'.value   BY <1>2 DEF ClickTab
  <2> QED BY <2>1 DEF TabsFollowTheirUse
<1>3. ASSUME NEW step \in {"previous", "next", "first", "last"}, KeyOnTab(step),
             ~UNCHANGED <<view, asked>>
      PROVE  TabsFollowTheirUse'
  <2> DEFINE to == NextTab(step)  from == CurrentTab(drawnView)
  <2>1. /\ to # from /\ asked' = [by |-> step, value |-> TabValues[to], from |-> drawnView]
        /\ view' = TabValues[to]
    BY <1>3 DEF KeyOnTab
  <2>2. to \in TabPlaces /\ (step \in {"previous", "next"} => to - from \in {-1, 1})
    BY <2>1, NextIsATab
  <2>3. CurrentTab(TabValues[to]) = to   BY <2>2, TabsKnowTheirValue
  <2>4. asked'.by = step /\ asked'.value = TabValues[to] /\ asked'.from = drawnView   BY <2>1
  <2> HIDE DEF to, from
  <2>5. CurrentTab(asked'.value) = to /\ CurrentTab(asked'.from) = from   BY <2>3, <2>4 DEF from
  <2> QED BY <2>1, <2>2, <2>4, <2>5 DEF TabsFollowTheirUse
<1>4. ASSUME NEW v \in Views, Navigate(v) PROVE TabsFollowTheirUse'
  BY <1>4 DEF Navigate, TabsFollowTheirUse
<1> QED BY <1>1, <1>2, <1>3, <1>4 DEF TabsNext, DrawTabs, FocusTab, tabVars

LEMMA TabsHold == TabsSpec => []TabsFollowTheirUse
<1>1. TabsInit => TabsFollowTheirUse   BY DEF TabsInit, TabsFollowTheirUse
<1> QED BY <1>1, TabsKept, PTL DEF TabsSpec

(* For any options, words, tabs, distances and patience: the widgets of a  *)
(* page act once per cause, and on what was drawn.                         *)
THEOREM WidgetsHold == WidgetsSpec => WidgetsActOnce
BY SelectHolds, MotionHolds, TabsHold, PTL DEF WidgetsSpec, WidgetsActOnce
=============================================================================
