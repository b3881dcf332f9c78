----------------------------- MODULE AuthDispatch -----------------------------
(***************************************************************************)
(* A request on its way through the auth router: the axum integration      *)
(* (handlers/axum.rs), `BetterAuth::handle_request' (core/auth.rs) and the *)
(* two readers of session tokens, the integration's own and that of        *)
(* apps/api (infrastructure/auth/middleware.rs).                           *)
(*                                                                         *)
(* Middlewares and plugins are external: a middleware lets a request pass, *)
(* answers or fails; a plugin's hook also may name the user the request is *)
(* made for, and its handler answers the paths of its routes.              *)
(***************************************************************************)
EXTENDS Integers, Sequences, SequencesExt

CONSTANTS Plugins,      \* in order of registration
          RoutesOf,     \* RoutesOf[p]: the [method, path] of plugin p
          Disabled,     \* disabled_paths
          Guests,       \* the users a hook, or a caller, may name
          Sessions      \* the tokens of live sessions

\* The routes of the core: answered by the integration itself, or dispatched; the
\* deletion of a user, which has two methods, stands for those that are dispatched.
StatusRoutes == {[method |-> "get", path |-> "/ok"], [method |-> "get", path |-> "/health"]}
CoreRoutes == {[method |-> "post", path |-> "/delete-user"],
               [method |-> "delete", path |-> "/delete-user"]}
PluginRoutes == UNION {RoutesOf[p] : p \in Range(Plugins)}
Mounted == {r \in StatusRoutes \cup CoreRoutes \cup PluginRoutes : r.path \notin Disabled}

Nobody == "nobody"

\* What may arrive over HTTP, and what a caller in the process may pass, who may also
\* have set the user it wants to be.
BodyKinds == {"fits", "declared_over", "chunked_over", "broken"}
Arrivals ==
    [entry : {"http"}, route : StatusRoutes \cup CoreRoutes \cup PluginRoutes,
     body : BodyKinds, claims : {Nobody}]
    \cup [entry : {"call"}, route : CoreRoutes \cup PluginRoutes,
          body : {"fits"}, claims : Guests \cup {Nobody}]

\* Credentials a request to the domain's routes may carry: the Authorization header, as
\* it stands after `Bearer ', and the values under the session cookie's name.
Padded(token) == <<"padded", token>>
NoToken == <<"absent">>
EmptyValue == <<"empty">>
Token(token) == <<"token", token>>
Bearers == {NoToken, EmptyValue} \cup {Token(s) : s \in Sessions} \cup {Padded(s) : s \in Sessions}
Jars == BoundedSeq({EmptyValue} \cup {Token(s) : s \in Sessions}, 2)
Visits == [entry : {"domain"}, bearer : Bearers, jar : Jars]

\* extract_token: a bearer is trimmed and a blank one ignored; the first cookie of the
\* name counts, and counts as none when it is empty.
ApiToken(visit) ==
    CASE visit.bearer[1] \in {"token", "padded"} -> Token(visit.bearer[2])
      [] OTHER -> IF visit.jar = <<>> \/ Head(visit.jar) = EmptyValue THEN NoToken ELSE Head(visit.jar)

\* extract_token_from_parts: a bearer counts as it is; of the cookies, the first that
\* is not empty.
PartsToken(visit) ==
    LET filled == {k \in DOMAIN visit.jar : visit.jar[k] # EmptyValue}
    IN  IF visit.bearer # NoToken THEN visit.bearer
        ELSE IF filled = {} THEN NoToken
        ELSE visit.jar[CHOOSE k \in filled : \A j \in filled : k <= j]

VARIABLES call,     \* the request under way: where it is, and as whom
          trace     \* what has happened to it

dispatchVars == <<call, trace>>

-----------------------------------------------------------------------------

Untouched == [named |-> <<>>, answeredBy |-> <<>>, actedAs |-> <<>>, afters |-> 0]

DispatchInit == call = [at |-> "idle"] /\ trace = Untouched

\* A defect: the request is dispatched as it was passed, with what its caller claims.
TrustingArrive(arrival) ==
    /\ call.at = "idle" /\ arrival.entry = "call"
    /\ call' = [at |-> "before", i |-> 1, req |-> arrival, dispatched |-> TRUE,
                actor |-> arrival.claims]
    /\ UNCHANGED trace

\* The integration mounts no disabled path; what it mounts for status it answers
\* itself.  BodyKinds over the limit are 413 and unreadable ones 400 before dispatch.
Arrive(arrival) ==
    /\ call.at = "idle"
    /\ LET status == arrival.entry = "http" /\ arrival.route \in StatusRoutes
           refused == /\ arrival.entry = "http"
                      /\ arrival.route \notin Mounted \/ (~status /\ arrival.body # "fits")
       IN  /\ call' = [at |-> IF refused \/ status THEN "done" ELSE "before", i |-> 1,
                       req |-> arrival, dispatched |-> ~(refused \/ status),
                       actor |-> Nobody]
           /\ trace' = [trace EXCEPT !.answeredBy =
                            IF refused THEN <<"refusal">> ELSE IF status THEN <<"status">> ELSE <<>>]

\* A route of the domain, or of another router that uses the integration's extractor.
Visit(visit) ==
    /\ call.at = "idle"
    /\ call' = [at |-> "done", req |-> visit, dispatched |-> FALSE,
                api |-> ApiToken(visit), parts |-> PartsToken(visit)]
    /\ trace' = [trace EXCEPT !.answeredBy = <<"extractor">>]

\* An answer or an error of anything in between: both go through the after chain.
Leaves(by) ==
    /\ call' = [call EXCEPT !.at = "after"]
    /\ trace' = [trace EXCEPT !.answeredBy = Append(@, by)]

\* run_before, then the check of the path without its base.
Before ==
    /\ call.at = "before"
    /\ \/ Leaves("middleware")
       \/ /\ call.req.route.path \in Disabled
          /\ Leaves("disabled")
       \/ /\ call.req.route.path \notin Disabled
          /\ call' = [call EXCEPT !.at = "hooks"]
          /\ UNCHANGED trace

\* before_request of one plugin after the other; a later one may name another user.
Hook ==
    /\ call.at = "hooks"
    /\ IF call.i > Len(Plugins)
       THEN call' = [call EXCEPT !.at = "core", !.i = 1] /\ UNCHANGED trace
       ELSE \/ call' = [call EXCEPT !.i = @ + 1] /\ UNCHANGED trace
            \/ Leaves("hook")
            \/ \E guest \in Guests :
                  /\ call' = [call EXCEPT !.i = @ + 1, !.actor = guest]
                  /\ trace' = [trace EXCEPT !.named = Append(@, guest)]

\* extract_current_user: the named user, or the owner of the session it carries.
Act(by) ==
    /\ call' = [call EXCEPT !.at = "after"]
    /\ trace' = [trace EXCEPT !.answeredBy = Append(@, by), !.actedAs = Append(@, call.actor)]

Core ==
    /\ call.at = "core"
    /\ IF call.req.route \in CoreRoutes THEN Act("core")
       ELSE call' = [call EXCEPT !.at = "plugins"] /\ UNCHANGED trace

\* on_request: the first plugin that answers, an error of its own included; one that does
\* not own the path passes, or fails.
Plugin ==
    /\ call.at = "plugins"
    /\ IF call.i > Len(Plugins) THEN Leaves("not_found")
       ELSE \/ call.req.route \in RoutesOf[Plugins[call.i]] /\ Act(Plugins[call.i])
            \/ call.req.route \notin RoutesOf[Plugins[call.i]]
                  /\ call' = [call EXCEPT !.i = @ + 1] /\ UNCHANGED trace
            \/ Leaves("failure")

\* handle_request: run_after on the response, or on the response made of the error.
After ==
    /\ call.at = "after"
    /\ call' = [call EXCEPT !.at = "done"]
    /\ trace' = [trace EXCEPT !.afters = @ + 1]

Finish == call.at = "done" /\ call' = [at |-> "idle"] /\ trace' = Untouched

DispatchNext ==
    \/ \E arrival \in Arrivals : Arrive(arrival)
    \/ \E visit \in Visits : Visit(visit)
    \/ Before \/ Hook \/ Core \/ Plugin \/ After \/ Finish

DispatchSpec == DispatchInit /\ [][DispatchNext]_dispatchVars

-----------------------------------------------------------------------------

LiveTokens == {Token(s) : s \in Sessions}

\* A disabled path or a body over the limit reaches no handler; whoever a handler acts
\* for was named last by a hook or, if by none, is read from the session, and is never
\* the caller's claim; one party answers, and every dispatched request has its answer
\* pass the after chain once, errors included.  No visit is two sessions' at once.
DispatchIsGuarded ==
    call.at # "idle" =>
        /\ trace.actedAs # <<>> =>
              /\ call.req.route.path \notin Disabled /\ call.req.body = "fits"
              /\ trace.actedAs = <<IF trace.named = <<>> THEN Nobody ELSE Last(trace.named)>>
        /\ call.at = "done" =>
              /\ Len(trace.answeredBy) = 1
              /\ trace.afters = IF call.dispatched THEN 1 ELSE 0
              /\ call.req.entry = "domain" /\ {call.api, call.parts} \subseteq LiveTokens =>
                    call.api = call.parts
=============================================================================
