--------------------------- MODULE Service_proofs ----------------------------
(***************************************************************************)
(* What holds of the API around the posts and the accounts, whatever its   *)
(* plugins, proxies, clients, environments, limits and generators are: the *)
(* dispatch of requests, the rate limiter, the life of the process, the    *)
(* drafts an AI answers and the profiles of users.  The five share no      *)
(* state: each has an invariant and a theorem of its own.                  *)
(***************************************************************************)
EXTENDS AuthDispatch, RateLimiter, ApiProcess, Drafts, UserProfiles, Induction,
        FiniteSetTheorems, SequenceTheorems

-----------------------------------------------------------------------------
(***************************************************************************)
(* The dispatch of requests through the middleware and the plugins.        *)
(***************************************************************************)

(* The user a handler of the core or of a plugin will act for.             *)
NamedLast(t) == IF t.named = <<>> THEN Nobody ELSE Last(t.named)

Inside == {"before", "hooks", "core", "plugins"}

(* The shape of the two records, where a step goes on with them.           *)
Shaped ==
    /\ trace = [named |-> trace.named, answeredBy |-> trace.answeredBy,
                actedAs |-> trace.actedAs, afters |-> trace.afters]
    /\ trace.named \in Seq(Guests)
    /\ call.at \in Inside \cup {"idle", "after", "done"}
    /\ call.at \in Inside \cup {"after"} =>
          call = [at |-> call.at, i |-> call.i, req |-> call.req,
                  dispatched |-> call.dispatched, actor |-> call.actor]

(* On its way, a request has passed every guard that is behind it; inside  *)
(* it has no answer yet, on its way out it has one.                        *)
OnTheWay ==
    /\ call.at \in Inside \cup {"after"} =>
          call.dispatched = TRUE /\ trace.afters = 0 /\ call.req.body = "fits"
          /\ call.req.entry # "domain"
    /\ call.at \in Inside =>
          trace.answeredBy = <<>> /\ trace.actedAs = <<>> /\ call.actor = NamedLast(trace)
    /\ call.at \in {"hooks", "core", "plugins"} => call.req.route.path \notin Disabled
    /\ call.at = "after" => Len(trace.answeredBy) = 1

(* Whoever acted, acted behind every guard as the user named last.         *)
Acted ==
    trace.actedAs # <<>> =>
        /\ call.req.route.path \notin Disabled /\ call.req.body = "fits"
        /\ trace.actedAs = <<NamedLast(trace)>>

Left ==
    call.at = "done" =>
        /\ Len(trace.answeredBy) = 1
        /\ trace.afters = IF call.dispatched THEN 1 ELSE 0
        /\ call.req.entry = "domain" /\ {call.api, call.parts} \subseteq LiveTokens =>
              call.api = call.parts

DInv ==
    /\ call.at = "idle" => trace = Untouched
    /\ Shaped /\ OnTheWay /\ Acted /\ Left

-----------------------------------------------------------------------------

(* Two live tokens read of one visit are the same one.                     *)
LEMMA OneSession ==
    ASSUME NEW visit \in Visits, ApiToken(visit) \in LiveTokens, PartsToken(visit) \in LiveTokens
    PROVE  ApiToken(visit) = PartsToken(visit)
<1>1. \A x \in LiveTokens : x[1] = "token"
  BY DEF LiveTokens, Token
<1>2. /\ visit.bearer \in Bearers
      /\ \E n \in 0..2 : visit.jar \in [1..n -> {EmptyValue} \cup {Token(s) : s \in Sessions}]
  BY DEF Visits, Jars, BoundedSeq, SeqOf
<1>3. CASE visit.bearer \in LiveTokens
  BY <1>3 DEF ApiToken, PartsToken, LiveTokens, Token, NoToken
<1>4. CASE visit.bearer \in {EmptyValue} \cup {Padded(s) : s \in Sessions}
  <2>1. visit.bearer # NoToken /\ visit.bearer[1] # "token"
      BY <1>4 DEF NoToken, EmptyValue, Padded
  <2> QED BY <1>1, <2>1 DEF PartsToken
<1>5. CASE visit.bearer = NoToken
  <2>1. visit.bearer[1] = "absent"   BY <1>5 DEF NoToken
  <2>2. NoToken \notin LiveTokens   BY <1>1 DEF NoToken
  <2>3. visit.jar # <<>> /\ Head(visit.jar) # EmptyValue /\ ApiToken(visit) = Head(visit.jar)
      BY <2>1, <2>2 DEF ApiToken
  <2>4. 1 \in DOMAIN visit.jar /\ Head(visit.jar) = visit.jar[1] /\ DOMAIN visit.jar \subseteq Nat
        /\ \A j \in DOMAIN visit.jar : 1 <= j
      BY <1>2, <2>3
  <2> DEFINE filled == {k \in DOMAIN visit.jar : visit.jar[k] # EmptyValue}
  <2>5. (CHOOSE k \in filled : \A j \in filled : k <= j) = 1
      BY <2>3, <2>4
  <2>6. 1 \in filled   BY <2>3, <2>4
  <2> QED BY <1>5, <2>3, <2>4, <2>5, <2>6 DEF PartsToken
<1> QED BY <1>2, <1>3, <1>4, <1>5 DEF Bearers, LiveTokens

(* A request that leaves on its way in leaves with its one answer.         *)
LEMMA LeavesKeeps ==
    ASSUME DInv, call.at \in Inside, NEW by, Leaves(by)
    PROVE  DInv'
<1>1. call' = [at |-> "after", i |-> call.i, req |-> call.req,
               dispatched |-> call.dispatched, actor |-> call.actor]
  BY DEF DInv, Shaped, Leaves
<1>2. trace' = [named |-> trace.named, answeredBy |-> <<by>>,
                actedAs |-> trace.actedAs, afters |-> trace.afters]
  <2>1. trace.answeredBy = <<>>   BY DEF DInv, OnTheWay
  <2>2. Append(<<>>, by) = <<by>>   OBVIOUS
  <2>3. trace' = [trace EXCEPT !.answeredBy = <<by>>]   BY <2>1, <2>2 DEF Leaves
  <2> QED BY <2>3 DEF DInv, Shaped
<1>3. Len(<<by>>) = 1   OBVIOUS
<1>4. Shaped'   BY <1>1, <1>2 DEF DInv, Shaped, Inside
<1>5. OnTheWay'   BY <1>1, <1>2, <1>3 DEF DInv, OnTheWay, Inside
<1>6. trace.actedAs = <<>>   BY DEF DInv, OnTheWay
<1> QED BY <1>1, <1>2, <1>4, <1>5, <1>6 DEF DInv, Acted, Left

(* A handler that acts does so as the user named last.                     *)
LEMMA ActKeeps ==
    ASSUME DInv, call.at \in {"core", "plugins"}, NEW by, Act(by)
    PROVE  DInv'
<1>1. call' = [at |-> "after", i |-> call.i, req |-> call.req,
               dispatched |-> call.dispatched, actor |-> call.actor]
  BY DEF DInv, Shaped, Act, Inside
<1>2. trace' = [named |-> trace.named, answeredBy |-> <<by>>,
                actedAs |-> <<call.actor>>, afters |-> trace.afters]
  <2>1. trace.answeredBy = <<>> /\ trace.actedAs = <<>>   BY DEF DInv, OnTheWay, Inside
  <2>2. Append(<<>>, by) = <<by>> /\ Append(<<>>, call.actor) = <<call.actor>>   OBVIOUS
  <2>3. trace' = [trace EXCEPT !.answeredBy = <<by>>, !.actedAs = <<call.actor>>]
      BY <2>1, <2>2 DEF Act
  <2> QED BY <2>3 DEF DInv, Shaped
<1>3. Len(<<by>>) = 1   OBVIOUS
<1>4. Shaped'   BY <1>1, <1>2 DEF DInv, Shaped, Inside
<1>5. OnTheWay'   BY <1>1, <1>2, <1>3 DEF DInv, OnTheWay, Inside
<1>6. /\ call.actor = NamedLast(trace) /\ call.req.body = "fits"
      /\ call.req.route.path \notin Disabled
  BY DEF DInv, OnTheWay, Inside
<1>7. Acted'   BY <1>1, <1>2, <1>6 DEF Acted, NamedLast
<1> QED BY <1>1, <1>2, <1>4, <1>5, <1>7 DEF DInv, Left

(* A request that goes on to another place, or to the next plugin, keeps   *)
(* what it has passed.                                                     *)
LEMMA GoesOn ==
    ASSUME DInv, call.at \in Inside, call.req.route.path \notin Disabled, UNCHANGED trace,
           NEW next \in {"hooks", "core", "plugins"}, NEW i,
           call' = [call EXCEPT !.at = next, !.i = i]
    PROVE  DInv'
<1>1. call' = [at |-> next, i |-> i, req |-> call.req,
               dispatched |-> call.dispatched, actor |-> call.actor]
  BY DEF DInv, Shaped
<1>2. Shaped'   BY <1>1 DEF DInv, Shaped, Inside
<1>3. OnTheWay'   BY <1>1 DEF DInv, OnTheWay, Inside, NamedLast
<1>4. Acted'   BY DEF DInv, OnTheWay, Acted
<1> QED BY <1>1, <1>2, <1>3, <1>4 DEF DInv, Left

(* A request that arrives is refused, or answered for status, or may be    *)
(* dispatched, as nobody.                                                  *)
LEMMA ArriveKeeps ==
    ASSUME DInv, NEW arrival \in Arrivals, Arrive(arrival)
    PROVE  DInv'
<1> DEFINE status == arrival.entry = "http" /\ arrival.route \in StatusRoutes
           refused == /\ arrival.entry = "http"
                      /\ arrival.route \notin Mounted \/ (~status /\ arrival.body # "fits")
           answer == IF refused THEN <<"refusal">> ELSE IF status THEN <<"status">> ELSE <<>>
<1>1. call' = [at |-> IF refused \/ status THEN "done" ELSE "before", i |-> 1,
               req |-> arrival, dispatched |-> ~(refused \/ status), actor |-> Nobody]
  BY DEF Arrive
<1>2. trace' = [named |-> <<>>, answeredBy |-> answer, actedAs |-> <<>>, afters |-> 0]
  <2>1. trace' = [trace EXCEPT !.answeredBy = answer]   BY DEF Arrive
  <2>2. trace = Untouched   BY DEF DInv, Arrive
  <2> HIDE DEF answer
  <2> QED BY <2>1, <2>2 DEF Untouched
<1>3. Len(<<"refusal">>) = 1 /\ Len(<<"status">>) = 1 /\ <<>> \in Seq(Guests)   OBVIOUS
<1>4. /\ arrival.entry \in {"http", "call"}
      /\ arrival.entry = "call" => arrival.body = "fits"
  BY DEF Arrivals
<1>5. Shaped'   BY <1>1, <1>2, <1>3 DEF Shaped, Inside
<1>6. OnTheWay'   BY <1>1, <1>2, <1>3, <1>4 DEF OnTheWay, Inside, NamedLast
<1>7. Acted'   BY <1>2 DEF Acted
<1>8. Left'
  <2>1. call'.req.entry # "domain"   BY <1>1, <1>4
  <2>2. CASE refused \/ status
    <3>1. Len(answer) = 1   BY <1>3, <2>2
    <3> HIDE DEF answer, refused, status
    <3> QED BY <1>1, <1>2, <2>1, <2>2, <3>1 DEF Left
  <2>3. CASE ~(refused \/ status)
    <3> HIDE DEF answer, refused, status
    <3> QED BY <1>1, <2>3 DEF Left
  <2> QED BY <2>2, <2>3
<1>9. call'.at # "idle"   BY <1>1
<1> QED BY <1>5, <1>6, <1>7, <1>8, <1>9 DEF DInv

(* A visit to the domain's routes is answered as one session's.            *)
LEMMA VisitKeeps ==
    ASSUME DInv, NEW visit \in Visits, Visit(visit)
    PROVE  DInv'
<1>1. call' = [at |-> "done", req |-> visit, dispatched |-> FALSE,
               api |-> ApiToken(visit), parts |-> PartsToken(visit)]
  BY DEF Visit
<1>2. trace' = [named |-> <<>>, answeredBy |-> <<"extractor">>, actedAs |-> <<>>, afters |-> 0]
  BY DEF DInv, Visit, Untouched
<1>3. Len(<<"extractor">>) = 1 /\ <<>> \in Seq(Guests)   OBVIOUS
<1>4. {call'.api, call'.parts} \subseteq LiveTokens => call'.api = call'.parts
  BY <1>1, OneSession
<1>5. Shaped'   BY <1>1, <1>2, <1>3 DEF Shaped, Inside
<1>6. OnTheWay' /\ Acted'   BY <1>1, <1>2 DEF OnTheWay, Inside, Acted
<1>7. call'.at = "done" /\ call'.dispatched = FALSE   BY <1>1
<1>8. Left'   BY <1>2, <1>3, <1>4, <1>7 DEF Left
<1> QED BY <1>5, <1>6, <1>7, <1>8 DEF DInv

(* One hook after the other, each of which may name another user.          *)
LEMMA HookKeeps ==
    ASSUME DInv, Hook
    PROVE  DInv'
<1>1. call.at = "hooks" /\ call.at \in Inside /\ call.req.route.path \notin Disabled
  BY DEF Hook, Inside, DInv, OnTheWay
<1>2. CASE call' = [call EXCEPT !.at = "core", !.i = 1] /\ UNCHANGED trace
  BY <1>1, <1>2, GoesOn
<1>3. CASE call' = [call EXCEPT !.i = @ + 1] /\ UNCHANGED trace
  <2>1. call' = [call EXCEPT !.at = "hooks", !.i = call.i + 1]
      BY <1>1, <1>3 DEF DInv, Shaped
  <2> QED BY <1>1, <1>3, <2>1, GoesOn
<1>4. CASE Leaves("hook")   BY <1>1, <1>4, LeavesKeeps
<1>5. CASE \E guest \in Guests :
             /\ call' = [call EXCEPT !.i = @ + 1, !.actor = guest]
             /\ trace' = [trace EXCEPT !.named = Append(@, guest)]
  <2>1. PICK guest \in Guests :
            /\ call' = [call EXCEPT !.i = @ + 1, !.actor = guest]
            /\ trace' = [trace EXCEPT !.named = Append(@, guest)]
      BY <1>5
  <2>2. call' = [at |-> "hooks", i |-> call.i + 1, req |-> call.req,
                 dispatched |-> call.dispatched, actor |-> guest]
      BY <1>1, <2>1 DEF DInv, Shaped
  <2> DEFINE named == Append(trace.named, guest)
  <2>3. trace' = [named |-> named, answeredBy |-> trace.answeredBy,
                  actedAs |-> trace.actedAs, afters |-> trace.afters]
      BY <2>1 DEF DInv, Shaped
  <2>4. named \in Seq(Guests) /\ named # <<>> /\ named[Len(named)] = guest
      BY <2>1 DEF DInv, Shaped
  <2> HIDE DEF named
  <2>5. Shaped'   BY <1>1, <2>2, <2>3, <2>4 DEF DInv, Shaped, Inside
  <2>6. NamedLast(trace') = guest   BY <2>3, <2>4 DEF NamedLast, Last
  <2>7. trace.actedAs = <<>> /\ trace'.actedAs = <<>>   BY <1>1, <2>3 DEF DInv, OnTheWay
  <2>8. call'.actor = NamedLast(trace)'   BY <2>2, <2>6 DEF NamedLast
  <2>9. OnTheWay'   BY <1>1, <2>2, <2>3, <2>8 DEF DInv, OnTheWay, Inside
  <2> QED BY <2>2, <2>5, <2>7, <2>9 DEF DInv, Acted, Left
<1> QED BY <1>2, <1>3, <1>4, <1>5 DEF Hook

(* Every step of a request keeps the invariant.                            *)
LEMMA DispatchStep ==
    ASSUME DInv, [DispatchNext]_dispatchVars
    PROVE  DInv'
<1>1. ASSUME NEW arrival \in Arrivals, Arrive(arrival) PROVE DInv'   BY <1>1, ArriveKeeps
<1>2. ASSUME NEW visit \in Visits, Visit(visit) PROVE DInv'   BY <1>2, VisitKeeps
<1>3. CASE Before
  <2>1. call.at \in Inside   BY <1>3 DEF Before, Inside
  <2>2. CASE Leaves("middleware") \/ Leaves("disabled")   BY <2>1, <2>2, LeavesKeeps
  <2>3. CASE /\ call.req.route.path \notin Disabled
             /\ call' = [call EXCEPT !.at = "hooks"] /\ UNCHANGED trace
    <3>1. call' = [call EXCEPT !.at = "hooks", !.i = call.i]
        BY <2>1, <2>3 DEF DInv, Shaped
    <3> QED BY <2>1, <2>3, <3>1, GoesOn
  <2> QED BY <1>3, <2>2, <2>3 DEF Before
<1>4. CASE Hook   BY <1>4, HookKeeps
<1>5. CASE Core
  <2>1. call.at = "core" /\ call.at \in Inside /\ call.req.route.path \notin Disabled
      BY <1>5 DEF Core, Inside, DInv, OnTheWay
  <2>2. CASE Act("core")   BY <2>1, <2>2, ActKeeps
  <2>3. CASE call' = [call EXCEPT !.at = "plugins"] /\ UNCHANGED trace
    <3>1. call' = [call EXCEPT !.at = "plugins", !.i = call.i]
        BY <2>1, <2>3 DEF DInv, Shaped
    <3> QED BY <2>1, <2>3, <3>1, GoesOn
  <2> QED BY <1>5, <2>2, <2>3 DEF Core
<1>6. CASE Plugin
  <2>1. call.at = "plugins" /\ call.at \in Inside /\ call.req.route.path \notin Disabled
      BY <1>6 DEF Plugin, Inside, DInv, OnTheWay
  <2>2. CASE Leaves("not_found") \/ Leaves("failure")   BY <2>1, <2>2, LeavesKeeps
  <2>3. CASE Act(Plugins[call.i])   BY <2>1, <2>3, ActKeeps
  <2>4. CASE call' = [call EXCEPT !.i = @ + 1] /\ UNCHANGED trace
    <3>1. call' = [call EXCEPT !.at = "plugins", !.i = call.i + 1]
        BY <2>1, <2>4 DEF DInv, Shaped
    <3> QED BY <2>1, <2>4, <3>1, GoesOn
  <2> QED BY <1>6, <2>2, <2>3, <2>4 DEF Plugin
<1>7. CASE After
  <2>1. call' = [at |-> "done", i |-> call.i, req |-> call.req,
                 dispatched |-> call.dispatched, actor |-> call.actor]
      BY <1>7 DEF DInv, Shaped, After
  <2>2. trace' = [named |-> trace.named, answeredBy |-> trace.answeredBy,
                  actedAs |-> trace.actedAs, afters |-> trace.afters + 1]
      BY <1>7 DEF DInv, Shaped, After
  <2>3. call.at = "after"   BY <1>7 DEF After
  <2>4. Shaped'   BY <2>1, <2>2 DEF DInv, Shaped, Inside
  <2>5. OnTheWay'   BY <2>1 DEF OnTheWay, Inside
  <2>6. Acted'   BY <2>1, <2>2 DEF DInv, Acted, NamedLast
  <2>7. Left'   BY <2>1, <2>2, <2>3 DEF DInv, OnTheWay, Left
  <2> QED BY <2>1, <2>4, <2>5, <2>6, <2>7 DEF DInv
<1>8. CASE Finish
  <2>1. call' = [at |-> "idle"] /\ trace' = Untouched   BY <1>8 DEF Finish
  <2>2. call'.at = "idle" /\ <<>> \in Seq(Guests)   BY <2>1
  <2> QED BY <2>1, <2>2 DEF DInv, Shaped, OnTheWay, Acted, Left, Inside, Untouched
<1>9. CASE UNCHANGED dispatchVars
  BY <1>9 DEF dispatchVars, DInv, Shaped, OnTheWay, Acted, Left, NamedLast
<1> QED BY <1>1, <1>2, <1>3, <1>4, <1>5, <1>6, <1>7, <1>8, <1>9 DEF DispatchNext

(* A disabled path or a body over the limit reaches no handler; whoever a  *)
(* handler acts for was named last by a hook or is read from the session,  *)
(* never taken from the caller; one party answers and the after chain sees *)
(* every dispatched answer once.  For any plugins, in any order, with any  *)
(* routes (handlers/axum.rs, core/auth.rs, auth/middleware.rs).            *)
THEOREM DispatchGuarded == DispatchSpec => []DispatchIsGuarded
<1>1. DispatchInit => DInv
  <2> SUFFICES ASSUME DispatchInit PROVE DInv   OBVIOUS
  <2>1. call = [at |-> "idle"] /\ trace = Untouched   BY DEF DispatchInit
  <2>2. call.at = "idle" /\ <<>> \in Seq(Guests)   BY <2>1
  <2> QED BY <2>1, <2>2 DEF DInv, Shaped, OnTheWay, Acted, Left, Inside, Untouched
<1>2. DInv /\ [DispatchNext]_dispatchVars => DInv'   BY DispatchStep
<1>3. DInv => DispatchIsGuarded   BY DEF DInv, Acted, Left, NamedLast, DispatchIsGuarded
<1> QED BY <1>1, <1>2, <1>3, PTL DEF DispatchSpec

-----------------------------------------------------------------------------
(***************************************************************************)
(* The rate limiter and the header it takes its clients from.              *)
(***************************************************************************)

Senders == Clients \cup ProxyHosts

(* What the routes behind the limiter are asked.                           *)
Asked ==
    {Through(client, prefix) : client \in Clients, prefix \in ClientSends}
        \cup {Direct(client) : client \in Clients}

(* Every bucket holds what an account of the same key would.               *)
LimiterInv ==
    /\ trusted \in 0..Len(Proxies)
    /\ DOMAIN buckets \subseteq Senders
    /\ account \in [Senders -> 0..Burst]
    /\ \A s \in Senders : Tokens(s) = account[s]

-----------------------------------------------------------------------------

(* The client stands in the header at n, before the proxies, and the rest  *)
(* of it is what the client put there and senders.                         *)
StandsAt(header, n, client, prefix) ==
    /\ n \in Nat \ {0} /\ DOMAIN header = 1..n + trusted - 1 /\ header[n] = client
    /\ \A i \in n..n + trusted - 1 : header[i] \in Senders
    /\ Range(header) \subseteq Range(prefix) \cup Senders

(* What the client put into the header, the client, and the proxies but    *)
(* the last: the client stands as far from the end as there are proxies.   *)
LEMMA HeaderThrough ==
    ASSUME trusted \in 1..Len(Proxies), NEW client \in Clients, NEW prefix \in ClientSends
    PROVE  StandsAt(prefix \o <<client>> \o SubSeq(Proxies, 1, trusted - 1),
                    Len(prefix) + 1, client, prefix)
<1> DEFINE S == Range(prefix) \cup Senders
           inner == SubSeq(Proxies, 1, trusted - 1)
           first == prefix \o <<client>>
<1>1. prefix \in Seq(S)
  <2>1. prefix \in Seq(Range(prefix))   BY LimiterAssumption
  <2> QED BY <2>1, SeqMonotonic
<1>2. Proxies \in Seq(S)
  <2>1. Proxies \in Seq(ProxyHosts) /\ ProxyHosts \subseteq S   BY LimiterAssumption DEF Senders
  <2> QED BY <2>1, SeqMonotonic
<1>3. <<client>> \in Seq(S)   BY DEF Senders
<1>4. inner \in Seq(S) /\ Len(inner) = trusted - 1 /\ \A i \in 1..trusted - 1 : inner[i] = Proxies[i]
  BY <1>2
<1>5. \A i \in 1..trusted - 1 : inner[i] \in Senders
  BY <1>2, <1>4 DEF Senders, ProxyHosts
<1> HIDE DEF inner
<1>6. first \in Seq(S) /\ Len(first) = Len(prefix) + 1 /\ first[Len(prefix) + 1] = client
         /\ \A i \in 1..Len(prefix) : first[i] = prefix[i]
  BY <1>1, <1>3
<1> HIDE DEF first, S
<1> DEFINE header == first \o inner
<1>14. first \in Seq(S) /\ inner \in Seq(S)   BY <1>4, <1>6
<1>7. header \in Seq(S) /\ Len(header) = Len(first) + Len(inner)   BY <1>14, ConcatProperties
<1>8. \A i \in 1..Len(first) + Len(inner) :
          header[i] = IF i <= Len(first) THEN first[i] ELSE inner[i - Len(first)]
  BY <1>14, ConcatProperties
<1> HIDE DEF header
<1>9. Len(prefix) \in Nat /\ Len(prefix) + 1 \in Nat \ {0} /\ trusted \in Nat \ {0}   BY <1>1
<1>10. DOMAIN header = 1..Len(prefix) + 1 + trusted - 1   BY <1>4, <1>6, <1>7, <1>9
<1>11. header[Len(prefix) + 1] = client   BY <1>4, <1>6, <1>8, <1>9
<1>12. ASSUME NEW i \in Len(prefix) + 1..Len(prefix) + 1 + trusted - 1
       PROVE  header[i] \in Senders
  <2>1. CASE i = Len(prefix) + 1   BY <1>11, <2>1 DEF Senders
  <2>2. CASE i # Len(prefix) + 1
    <3> DEFINE n == Len(prefix) + 1
    <3>2. n \in Nat \ {0} /\ trusted \in Nat \ {0} /\ Len(first) = n /\ Len(inner) = trusted - 1
      BY <1>4, <1>6, <1>9
    <3>3. i \in n..n + trusted - 1 /\ i # n   BY <1>12, <2>2
    <3> HIDE DEF n
    <3>1. i \in 1..Len(first) + Len(inner) /\ ~(i <= Len(first)) /\ i - Len(first) \in 1..trusted - 1
      BY <3>2, <3>3
    <3> QED BY <1>5, <1>8, <3>1
  <2> QED BY <2>1, <2>2
<1>13. Range(header) \subseteq S
  <2>1. \A i \in DOMAIN header : header[i] \in S   BY <1>7
  <2> QED BY <2>1 DEF Range
<1> QED BY <1>9, <1>10, <1>11, <1>12, <1>13 DEF StandsAt, header, first, inner, S

(* The entries from a place on, and how many of them count there are when  *)
(* all the last ones do.                                                   *)
EntriesFrom(E, i) == {j \in E : i <= j}

(* Of a set of positions that holds every one from n on, it is n that has  *)
(* as many of the set from itself on as there are positions from n on.     *)
LEMMA FromTheEndOn ==
    ASSUME NEW m \in Nat, NEW n \in 1..m, NEW E \in SUBSET (1..m), n..m \subseteq E
    PROVE  /\ Cardinality(E) \in Nat /\ Cardinality(E) >= m - n + 1
           /\ \A i \in E : Cardinality(EntriesFrom(E, i)) = m - n + 1 <=> i = n
<1>1. IsFiniteSet(1..m) /\ IsFiniteSet(n..m) /\ Cardinality(n..m) = m - n + 1
  BY FS_Interval
<1>2. IsFiniteSet(E)   BY <1>1, FS_Subset
<1>3. m - n + 1 <= Cardinality(E)   BY <1>1, <1>2, FS_Subset
<1>4. Cardinality(E) \in Nat   BY <1>2, FS_CardinalityType
<1>5. ASSUME NEW i \in E
      PROVE  Cardinality(EntriesFrom(E, i)) = m - n + 1 <=> i = n
  <2> DEFINE F == EntriesFrom(E, i)
  <2>1. i \in 1..m /\ n \in Nat /\ \A j \in E : j \in 1..m   OBVIOUS
  <2>2. \A j : j \in F <=> j \in E /\ i <= j   BY DEF EntriesFrom
  <2> HIDE DEF F
  <2>6. F \subseteq E /\ IsFiniteSet(F)   BY <1>2, <2>2, FS_Subset
  <2>3. CASE i = n
    <3>1. ASSUME NEW j \in n..m PROVE j \in F   BY <2>1, <2>2, <2>3
    <3>3. ASSUME NEW j \in F PROVE j \in n..m
      <4>1. j \in E /\ i <= j   BY <2>2
      <4> QED BY <2>1, <2>3, <4>1
    <3>2. F = n..m   BY <3>1, <3>3
    <3> QED BY <1>1, <2>3, <3>2 DEF F
  <2>4. CASE i < n
    <3>1. ASSUME NEW j \in n..m PROVE j \in F   BY <2>1, <2>2, <2>4
    <3>2. i \in F /\ i \notin n..m   BY <2>1, <2>2, <2>4
    <3>3. n..m \in SUBSET F /\ F # n..m   BY <3>1, <3>2
    <3>4. Cardinality(F) # Cardinality(n..m)   BY <2>6, <3>3, FS_Subset
    <3> QED BY <1>1, <2>1, <2>4, <3>4 DEF F
  <2>5. CASE n < i
    <3>1. ASSUME NEW j \in F PROVE j \in n..m
      <4>1. j \in E /\ i <= j   BY <2>2
      <4> QED BY <2>1, <2>5, <4>1
    <3>2. n \in n..m /\ n \notin F   BY <2>1, <2>2, <2>5
    <3>3. F \in SUBSET (n..m) /\ F # n..m   BY <3>1, <3>2
    <3>4. Cardinality(F) # Cardinality(n..m)   BY <1>1, <3>3, FS_Subset
    <3> QED BY <1>1, <2>1, <2>5, <3>4 DEF F
  <2> QED BY <2>1, <2>3, <2>4, <2>5
<1> QED BY <1>3, <1>4, <1>5

(* The limiter charges a request to whom it is due, whatever its header.   *)
LEMMA KeyIsThePayer ==
    ASSUME trusted \in 0..Len(Proxies), NEW req \in Asked
    PROVE  ClientKey(req) = Payer(req) /\ Payer(req) \in Senders
<1>1. ASSUME NEW client \in Clients, req = Direct(client)
      PROVE  ClientKey(req) = Payer(req) /\ Payer(req) \in Senders
  <2>1. req.sender = client /\ req.peer = client /\ req.header = <<>>
    BY <1>1 DEF Direct
  <2>2. Range(req.header) = {} /\ Entries(req.header) = {}
    BY <2>1 DEF Range, Entries
  <2>3. Cardinality({}) = 0   BY FS_EmptySet
  <2>4. trusted = 0 \/ 0 < trusted   OBVIOUS
  <2> QED BY <2>1, <2>2, <2>3, <2>4 DEF ClientKey, Payer, Senders
<1>2. ASSUME NEW client \in Clients, NEW prefix \in ClientSends, req = Through(client, prefix)
      PROVE  ClientKey(req) = Payer(req) /\ Payer(req) \in Senders
  <2>1. CASE trusted = 0
    <3>1. req.sender = client /\ req.peer = client   BY <1>2, <2>1 DEF Through
    <3> QED BY <2>1, <3>1 DEF ClientKey, Payer, Senders
  <2>2. CASE trusted # 0
    <3> DEFINE header == prefix \o <<client>> \o SubSeq(Proxies, 1, trusted - 1)
               n == Len(prefix) + 1
               m == n + trusted - 1
    <3>1. /\ n \in Nat \ {0} /\ DOMAIN header = 1..m /\ header[n] = client
          /\ \A i \in n..m : header[i] \in Senders
          /\ Range(header) \subseteq Range(prefix) \cup Senders
      <4>1. StandsAt(header, n, client, prefix)   BY <2>2, HeaderThrough
      <4> HIDE DEF header, n
      <4> QED BY <4>1 DEF StandsAt
    <3> HIDE DEF header, n
    <3>2. req.sender = client /\ req.peer = Proxies[trusted] /\ req.header = header
      BY <1>2, <2>2 DEF Through, header
    <3>3. trusted \in Nat \ {0} /\ m \in Nat   BY <2>2, <3>1, LimiterAssumption
    <3>4. CASE NotTextEntry \in Range(header)
      <4>1. Entries(header) = {}   BY <3>4 DEF Entries, Range
      <4>2. Cardinality({}) < trusted   BY <3>3, FS_EmptySet
      <4>3. Proxies[trusted] \in Senders   BY <2>2, LimiterAssumption DEF Senders, ProxyHosts
      <4> QED BY <3>2, <3>3, <3>4, <4>1, <4>2, <4>3 DEF ClientKey, Payer
    <3>5. CASE NotTextEntry \notin Range(header)
      <4> DEFINE E == Entries(header)
      <4>1. E = {i \in DOMAIN header : header[i] # BlankEntry}   BY <3>5 DEF Entries, Range
      <4>2. E \in SUBSET (1..m) /\ n..m \subseteq E
        BY <3>1, <3>3, <4>1, LimiterAssumption DEF Senders
      <4>3. n \in E   BY <3>1, <3>3, <4>2
      <4>9. m = n + trusted - 1   OBVIOUS
      <4> HIDE DEF E, m
      <4>4. n \in 1..m /\ m - n + 1 = trusted   BY <3>1, <3>3, <4>9
      <4>11. /\ Cardinality(E) \in Nat /\ Cardinality(E) >= m - n + 1
             /\ \A i \in E : Cardinality(EntriesFrom(E, i)) = m - n + 1 <=> i = n
        <5>1. m \in Nat /\ n \in 1..m   BY <3>3, <4>4
        <5> QED BY <4>2, <5>1, FromTheEndOn
      <4>5. ~(Cardinality(E) < trusted)   BY <3>3, <4>4, <4>11
      <4>6. (CHOOSE i \in E : Cardinality({j \in E : i <= j}) = trusted) = n
        BY <4>3, <4>4, <4>11 DEF EntriesFrom
      <4>7. ClientKey(req) = header[n]
        BY <2>2, <3>2, <4>5, <4>6 DEF ClientKey, E
      <4>8. Payer(req) = client   BY <3>2, <3>5 DEF Payer
      <4> QED BY <3>1, <4>7, <4>8 DEF Senders
    <3> QED BY <3>4, <3>5
  <2> QED BY <2>1, <2>2
<1> QED BY <1>1, <1>2 DEF Asked

-----------------------------------------------------------------------------

(* No bucket is there yet, and every account is full.                      *)
LEMMA LimiterStarts == LimiterInit => LimiterInv
BY LimiterAssumption DEF LimiterInit, LimiterInv, Senders, Tokens

(* An admitted request takes a token of its payer's and nobody else's.     *)
LEMMA AdmittedCounts ==
    ASSUME LimiterInv, NEW key \in Senders, Admit(key), UNCHANGED trusted,
           account' = [account EXCEPT ![key] = IF @ = 0 THEN 0 ELSE @ - 1]
    PROVE  LimiterInv'
<1>1. DOMAIN buckets' = DOMAIN buckets \cup {key}   BY DEF Admit
<1>2. Burst \in Nat   BY LimiterAssumption
<1>3. account' \in [Senders -> 0..Burst]   BY <1>2 DEF LimiterInv
<1>4. ASSUME NEW s \in Senders PROVE Tokens(s)' = account'[s]
  <2>1. Tokens(s) = account[s] /\ Tokens(key) = account[key]   BY DEF LimiterInv
  <2>2. CASE s = key
    <3>1. Tokens(key)' = IF Tokens(key) = 0 THEN 0 ELSE Tokens(key) - 1
      BY <1>1 DEF Admit, Tokens
    <3> QED BY <2>1, <2>2, <3>1 DEF LimiterInv
  <2>3. CASE s # key
    <3>1. Tokens(s)' = Tokens(s)   BY <1>1, <2>3 DEF Admit, Tokens
    <3> QED BY <2>1, <2>3, <3>1 DEF LimiterInv
  <2> QED BY <2>2, <2>3
<1> QED BY <1>1, <1>3, <1>4 DEF LimiterInv

(* A refill fills the buckets and the accounts alike.                      *)
LEMMA RefilledCounts ==
    ASSUME LimiterInv, Refill
    PROVE  LimiterInv'
<1>1. DOMAIN buckets' = DOMAIN buckets   BY DEF Refill
<1>2. Burst \in Nat   BY LimiterAssumption
<1>3. DOMAIN account = Senders   BY DEF LimiterInv
<1>4. account' \in [Senders -> 0..Burst]   BY <1>2, <1>3 DEF LimiterInv, Refill
<1>5. ASSUME NEW s \in Senders PROVE Tokens(s)' = account'[s]
  <2>1. Tokens(s) = account[s] /\ account[s] \in 0..Burst   BY DEF LimiterInv
  <2>2. account'[s] = IF account[s] < Burst THEN account[s] + 1 ELSE Burst   BY <1>3 DEF Refill
  <2>3. CASE s \in DOMAIN buckets
    <3>1. buckets'[s] = IF buckets[s] < Burst THEN buckets[s] + 1 ELSE Burst   BY <2>3 DEF Refill
    <3> QED BY <1>1, <2>1, <2>2, <2>3, <3>1 DEF Tokens
  <2>4. CASE s \notin DOMAIN buckets
    BY <1>1, <1>2, <2>1, <2>2, <2>4 DEF Tokens
  <2> QED BY <2>3, <2>4
<1> QED BY <1>1, <1>4, <1>5 DEF LimiterInv, Refill

(* Every step keeps buckets and accounts together.                         *)
LEMMA LimiterKept == LimiterInv /\ [LimiterNext]_limiterVars => LimiterInv'
<1> SUFFICES ASSUME LimiterInv, [LimiterNext]_limiterVars PROVE LimiterInv'   OBVIOUS
<1>1. ASSUME NEW req \in Asked, NEW route, Handle(req, route)
      PROVE  LimiterInv'
  <2>1. ClientKey(req) = Payer(req) /\ Payer(req) \in Senders
    BY KeyIsThePayer DEF LimiterInv
  <2>2. CASE route = "domain"
    <3>1. Admit(Payer(req)) /\ UNCHANGED trusted
             /\ account' = [account EXCEPT ![Payer(req)] = IF @ = 0 THEN 0 ELSE @ - 1]
      BY <1>1, <2>1, <2>2 DEF Handle
    <3> QED BY <2>1, <3>1, AdmittedCounts
  <2>3. CASE route # "domain"
    BY <1>1, <2>3 DEF Handle, LimiterInv, Tokens
  <2> QED BY <2>2, <2>3
<1>2. CASE Refill   BY <1>2, RefilledCounts
<1>3. CASE UNCHANGED limiterVars   BY <1>3 DEF limiterVars, LimiterInv, Tokens
<1>4. CASE LimiterNext
  <2>1. \A client \in Clients, prefix \in ClientSends : Through(client, prefix) \in Asked
    BY DEF Asked
  <2>2. \A client \in Clients : Direct(client) \in Asked   BY DEF Asked
  <2> QED BY <1>1, <1>2, <1>4, <2>1, <2>2 DEF LimiterNext
<1> QED BY <1>3, <1>4

(* However a client dresses its header, its requests are charged to the    *)
(* bucket that holds what they alone left (rate_limit.rs, client_key and   *)
(* layer): for any clients, proxies in any number, headers and burst.      *)
THEOREM BucketsHold == LimiterSpec => []BucketsAreTheClients
<1>1. LimiterInit => LimiterInv   BY LimiterStarts
<1>2. LimiterInv /\ [LimiterNext]_limiterVars => LimiterInv'   BY LimiterKept
<1>3. LimiterInv => BucketsAreTheClients   BY DEF LimiterInv, BucketsAreTheClients, Senders
<1> QED BY <1>1, <1>2, <1>3, PTL DEF LimiterSpec

-----------------------------------------------------------------------------
(***************************************************************************)
(* The life of the API process: boot, service, drain and exit.             *)
(***************************************************************************)

Booting == {BootSteps[i] : i \in 1..7}

(* The steps of main that were done did not stop it.                       *)
NoStopBefore(n) == \A j \in 1..n - 1 : ~Stops(BootSteps[j])

BootedInOrder ==
    /\ at \in Booting \cup Serving \cup ShuttingDown \cup Gone
    /\ settings \in Environments
    /\ \A i \in 1..7 : at = BootSteps[i] => NoStopBefore(i)
    /\ at \in Serving \cup ShuttingDown \cup {"exited"} => NoStopBefore(8)
    /\ at = "failed" => \E i \in 1..7 : Stops(BootSteps[i])

LedgerTyped ==
    /\ queue \in Nat
    /\ ledger \in [tracked : Nat, sent : Nat, dropped : Nat, reported : Nat, logged : Nat]
    /\ used \in [creates : Nat, probes : Nat, turns : Nat]

LedgerBalances ==
    ledger.tracked = ledger.sent + ledger.dropped + ledger.reported + ledger.logged + queue

(* Nothing is done for anybody before the listener is bound.               *)
NobodyServedBefore ==
    at \in Booting \cup {"failed"} =>
        ledger.tracked = 0 /\ used.probes = 0

Workers == {"none", "replaying", "caught_up"}

ProbeTyped ==
    /\ core \in BOOLEAN /\ worker \in Workers
    /\ probe \in {NoProbe}
            \cup [stage : {"asked"}, heard : SUBSET BOOLEAN, seen : SUBSET BOOLEAN]
            \cup [stage : {"answered"}, ready : BOOLEAN, seen : SUBSET BOOLEAN, worker : Workers]

ProbeHonest ==
    /\ probe.stage = "asked" => core \in probe.seen /\ probe.heard \subseteq probe.seen
    /\ probe.stage = "answered" =>
          IF probe.ready THEN TRUE \in probe.seen /\ probe.worker # "replaying"
          ELSE FALSE \in probe.seen \/ probe.worker = "replaying"

(* What each step of the shutdown leaves done for the ones after it.       *)
ShutDownInOrder ==
    /\ at \in ShuttingDown \cup {"exited"} => inflight = 0 /\ probe.stage # "asked"
    /\ at \in {"flush", "traces", "exited"} => job = "off"
    /\ at \in {"traces", "exited"} => queue = 0
    /\ at = "exited" => ~spans

ProcessInv == /\ BootedInOrder /\ LedgerTyped /\ LedgerBalances /\ NobodyServedBefore
        /\ ProbeTyped /\ ProbeHonest /\ ShutDownInOrder

-----------------------------------------------------------------------------

(* The steps of main are distinct, and none is a later stage.              *)
LEMMA StepsDiffer ==
    /\ Len(BootSteps) = 7 /\ DOMAIN BootSteps = 1..7
    /\ Booting = {"metrics", "config", "clients", "auth", "worker", "jobs", "bind"}
    /\ \A i, j \in 1..7 : BootSteps[i] = BootSteps[j] => i = j
    /\ \A i \in 1..7 : BootSteps[i] \in Booting
    /\ BootSteps[1] = "metrics"
<1>1. /\ Len(BootSteps) = 7 /\ DOMAIN BootSteps = 1..7 /\ BootSteps[1] = "metrics"
      /\ \A i, j \in 1..7 : BootSteps[i] = BootSteps[j] => i = j
  BY DEF BootSteps
<1>2. Booting = {"metrics", "config", "clients", "auth", "worker", "jobs", "bind"}
  <2>1. 1..7 = {1, 2, 3, 4, 5, 6, 7}   OBVIOUS
  <2>2. Booting = {BootSteps[1], BootSteps[2], BootSteps[3], BootSteps[4], BootSteps[5],
                   BootSteps[6], BootSteps[7]}
      BY <2>1 DEF Booting
  <2> QED BY <2>2 DEF BootSteps
<1>3. \A i \in 1..7 : BootSteps[i] \in Booting   BY DEF Booting
<1> QED BY <1>1, <1>2, <1>3

(* An environment no step of main stops on is sound.                       *)
LEMMA PassedIsSound ==
    ASSUME settings \in Environments, NoStopBefore(8)
    PROVE  Sound
<1>1. \A j \in 1..7 : ~Stops(BootSteps[j])
  BY DEF NoStopBefore
<1>2. ~Stops("metrics") /\ ~Stops("config") /\ ~Stops("clients") /\ ~Stops("auth") /\ ~Stops("bind")
  BY <1>1 DEF BootSteps
<1>3. ASSUME NEW name \in Required \cup Checked PROVE ~Refused(name)
  <2>1. \A i \in 1..9 : ~Refused(Reads[i])
      BY <1>2 DEF Stops, Reads
  <2>2. \E i \in 1..9 : name = Reads[i]
      BY <1>3 DEF Required, Checked, Reads
  <2> QED BY <2>1, <2>2
<1>4. \A name \in Required : settings[name] # "absent"
  BY <1>3 DEF Refused
<1>5. \A name \in Checked : settings[name] # "bad"
  BY <1>3 DEF Refused
<1>6. settings.metrics \notin {"bad", "taken"} /\ settings.jwt # "bad" /\ settings.port # "taken"
      /\ "odd" \notin {settings.core_url, settings.query_url}
  BY <1>2 DEF Stops
<1>7. \A name \in Checked \cup {"jwt"} : settings[name] # "taken"
  BY <1>6, TakenAssumption
<1> QED BY <1>4, <1>5, <1>6, <1>7 DEF Sound

(* An environment some step of main stops on is not sound.                 *)
LEMMA StoppedIsUnsound ==
    ASSUME NEW i \in 1..7, Stops(BootSteps[i])
    PROVE  ~Sound
<1>1. BootSteps[i] \in {"metrics", "config", "clients", "auth", "worker", "jobs", "bind"}
  BY StepsDiffer DEF Booting
<1>2. CASE BootSteps[i] = "metrics"
  BY <1>2 DEF Stops, Sound
<1>3. CASE BootSteps[i] = "config"
  <2>1. PICK k \in DOMAIN Reads : Refused(Reads[k])
      BY <1>3 DEF Stops
  <2> QED BY <2>1 DEF Refused, Sound
<1>4. CASE BootSteps[i] = "clients"
  BY <1>4 DEF Stops, Sound
<1>5. CASE BootSteps[i] = "auth"
  BY <1>5 DEF Stops, Sound
<1>6. CASE BootSteps[i] = "bind"
  BY <1>6 DEF Stops, Sound, Checked
<1>7. CASE BootSteps[i] \in {"worker", "jobs"}
  BY <1>7 DEF Stops
<1> QED BY <1>1, <1>2, <1>3, <1>4, <1>5, <1>6, <1>7

(* What Stops says depends on the settings alone.                          *)
LEMMA StopsKept ==
    ASSUME settings' = settings
    PROVE  /\ \A step : Stops(step)' <=> Stops(step)
           /\ \A n \in 1..8 : NoStopBefore(n)' <=> NoStopBefore(n)
<1>1. \A step : Stops(step)' <=> Stops(step)
  BY DEF Stops, Refused
<1>2. \A n \in 1..8 : NoStopBefore(n)' <=> NoStopBefore(n)
  BY <1>1 DEF NoStopBefore, BootSteps
<1> QED BY <1>1, <1>2

-----------------------------------------------------------------------------

(* Before main's first step nothing is served, tracked or answered.        *)
LEMMA ProcessStarts == ProcessInit => ProcessInv
<1> SUFFICES ASSUME ProcessInit PROVE ProcessInv   OBVIOUS
<1> USE DEF ProcessInit
<1>1. BootedInOrder
  <2>1. NoStopBefore(1)   BY DEF NoStopBefore
  <2> QED BY <2>1, StepsDiffer DEF BootedInOrder, Serving, ShuttingDown
<1>2. LedgerTyped /\ LedgerBalances /\ NobodyServedBefore
  BY DEF LedgerTyped, LedgerBalances, NobodyServedBefore
<1>3. ProbeTyped /\ ProbeHonest
  BY DEF ProbeTyped, ProbeHonest, NoProbe, Workers
<1>4. ShutDownInOrder
  BY DEF ShutDownInOrder, ShuttingDown
<1> QED BY <1>1, <1>2, <1>3, <1>4 DEF ProcessInv

(* A step of main is taken after the ones before it, never twice.          *)
LEMMA OrderKept == ProcessInv /\ [ProcessNext]_processVars => BootedInOrder'
<1> SUFFICES ASSUME ProcessInv, [ProcessNext]_processVars PROVE BootedInOrder'   OBVIOUS
<1> USE DEF ProcessInv, BootedInOrder, Serving, ShuttingDown, Gone
<1>0. settings' = settings
  BY DEF ProcessNext, processVars, BootStep, CatchesUp, CoreTurns, AskReady, CoreAnswers, Answer,
         Create, Track, CreateFails, Deliver, Export, Tick, RunEnds, Signal, Drained, StopJobs,
         Flush, ShutdownTraces, Kill
<1>1. CASE BootStep
  <2>1. PICK i \in 1..7 : /\ at = BootSteps[i]
                          /\ at' = IF Stops(at) THEN "failed"
                                   ELSE IF i = 7 THEN "serving" ELSE BootSteps[i + 1]
      BY <1>1, StepsDiffer DEF BootStep
  <2>2. CASE Stops(at)
      BY <1>0, <2>1, <2>2, StopsKept, StepsDiffer
  <2>3. CASE ~Stops(at)
    <3>1. NoStopBefore(i + 1)
        BY <2>1, <2>3 DEF NoStopBefore
    <3>2. NoStopBefore(i + 1)'
        BY <1>0, <3>1, StopsKept
    <3>3. CASE i = 7
        BY <1>0, <2>1, <2>3, <3>2, <3>3, StepsDiffer
    <3>4. CASE i # 7
      <4>1. at' = BootSteps[i + 1] /\ i + 1 \in 1..7   BY <2>1, <2>3, <3>4
      <4>2. at' \in Booting   BY <4>1 DEF Booting
      <4>3. \A k \in 1..7 : at' = BootSteps[k] => k = i + 1   BY <4>1, StepsDiffer
      <4> QED BY <1>0, <3>2, <4>1, <4>2, <4>3, StepsDiffer
    <3> QED BY <3>3, <3>4
  <2> QED BY <2>2, <2>3
<1>2. CASE at' = at
  BY <1>0, <1>2, StopsKept DEF Booting
<1>3. CASE Signal \/ Drained \/ StopJobs \/ Flush \/ ShutdownTraces \/ Kill
  BY <1>0, <1>3, StopsKept, StepsDiffer DEF Signal, Drained, StopJobs, Flush, ShutdownTraces, Kill
<1>4. CatchesUp \/ CoreTurns \/ AskReady \/ CoreAnswers \/ Answer \/ Create \/ Track
        \/ CreateFails \/ Deliver \/ Export \/ Tick \/ RunEnds \/ UNCHANGED processVars => at' = at
  BY DEF CatchesUp, CoreTurns, AskReady, CoreAnswers, Answer, Create, Track, CreateFails, Deliver,
         Export, Tick, RunEnds, processVars
<1> QED BY <1>1, <1>2, <1>3, <1>4 DEF ProcessNext

(* No step of a handler, of the worker or of the shutdown loses an event.  *)
LEMMA LedgerKept ==
    ProcessInv /\ [ProcessNext]_processVars => LedgerTyped' /\ LedgerBalances' /\ NobodyServedBefore'
<1> SUFFICES ASSUME ProcessInv, [ProcessNext]_processVars
             PROVE  LedgerTyped' /\ LedgerBalances' /\ NobodyServedBefore'
    OBVIOUS
<1> USE StepsDiffer
    DEF ProcessInv, LedgerTyped, LedgerBalances, NobodyServedBefore, Serving, ShuttingDown, Gone
<1>1. CASE BootStep
  <2>1. UNCHANGED <<queue, ledger, used>> /\ at \in Booting   BY <1>1 DEF BootStep, Booting
  <2> QED BY <2>1 DEF Booting
<1>2. CASE CoreTurns
  BY <1>2 DEF CoreTurns, Booting
<1>3. CASE AskReady
  <2>1. UNCHANGED <<at, queue, ledger>> /\ at = "serving"   BY <1>3 DEF AskReady
  <2>2. used' \in [creates : Nat, probes : Nat, turns : Nat]   BY <1>3 DEF AskReady
  <2>3. at' \notin Booting \cup {"failed"}   BY <2>1, StepsDiffer
  <2> QED BY <2>1, <2>2, <2>3 DEF Booting
<1>4. CASE Create
  BY <1>4 DEF Create, Booting
<1>5. CASE Track
  <2>1. UNCHANGED <<at, used>> /\ at \in {"serving", "draining"}   BY <1>5 DEF Track
  <2>2. at' \notin Booting \cup {"failed"}   BY <2>1, StepsDiffer
  <2> DEFINE L == [tracked : Nat, sent : Nat, dropped : Nat, reported : Nat, logged : Nat]
  <2> DEFINE counted == [ledger EXCEPT !.tracked = @ + 1]
  <2>3. \/ queue' = queue + 1 /\ ledger' = counted
        \/ queue' = queue /\ ledger' = [counted EXCEPT !["logged"] = @ + 1]
        \/ queue' = queue /\ ledger' = [counted EXCEPT !["dropped"] = @ + 1]
      BY <1>5 DEF Track
  <2>4. ledger \in L /\ queue \in Nat   OBVIOUS
  <2>5. /\ counted \in L /\ counted.tracked = ledger.tracked + 1 /\ counted.sent = ledger.sent
        /\ counted.dropped = ledger.dropped /\ counted.reported = ledger.reported
        /\ counted.logged = ledger.logged
      BY <2>4
  <2> HIDE DEF counted
  <2>6. ledger' \in L /\ ledger'.tracked = ledger.tracked + 1 /\ ledger'.sent = ledger.sent
        /\ ledger'.reported = ledger.reported /\ queue' \in Nat
      BY <2>3, <2>4, <2>5
  <2>7. ledger'.dropped + ledger'.logged + queue' = ledger.dropped + ledger.logged + queue + 1
      BY <2>3, <2>4, <2>5
  <2>8. LedgerTyped' /\ LedgerBalances'   BY <2>1, <2>4, <2>6, <2>7
  <2> QED BY <2>1, <2>2, <2>8 DEF Booting
<1>6. ASSUME NEW n \in 0..queue, Sends(n), used' = used,
             at \in Serving \cup ShuttingDown, at' \in Serving \cup ShuttingDown
      PROVE  LedgerTyped' /\ LedgerBalances' /\ NobodyServedBefore'
  BY <1>6 DEF Sends, Booting
<1>7. CASE Deliver
  <2>1. PICK n \in 1..queue : Sends(n)   BY <1>7 DEF Deliver
  <2>2. n \in 0..queue /\ used' = used /\ at' = at /\ at \in Serving \cup ShuttingDown
      BY <1>7, <2>1 DEF Deliver
  <2> QED BY <1>6, <2>1, <2>2
<1>8. CASE Flush
  <2>1. queue \in 0..queue /\ Sends(queue) /\ used' = used /\ at = "flush" /\ at' = "traces"
      BY <1>8 DEF Flush
  <2> QED BY <1>6, <2>1
<1>9. CASE CatchesUp \/ CoreAnswers \/ Answer \/ CreateFails \/ Export \/ Tick \/ RunEnds
            \/ UNCHANGED processVars
  BY <1>9 DEF CatchesUp, CoreAnswers, Answer, CreateFails, Export, Tick, RunEnds, processVars, Booting
<1>10. CASE Signal \/ Drained \/ StopJobs \/ ShutdownTraces \/ Kill
  BY <1>10 DEF Signal, Drained, StopJobs, ShutdownTraces, Kill, Booting
<1> QED BY <1>1, <1>2, <1>3, <1>4, <1>5, <1>7, <1>8, <1>9, <1>10 DEF ProcessNext

(* A probe is answered by what the Core and the worker were meanwhile.     *)
LEMMA ProbeKept == ProcessInv /\ [ProcessNext]_processVars => ProbeTyped' /\ ProbeHonest'
<1> SUFFICES ASSUME ProcessInv, [ProcessNext]_processVars PROVE ProbeTyped' /\ ProbeHonest'   OBVIOUS
<1> USE DEF ProcessInv, ProbeTyped, ProbeHonest, NoProbe, Workers
<1>1. CASE BootStep
  BY <1>1 DEF BootStep
<1>2. CASE CatchesUp
  BY <1>2 DEF CatchesUp
<1>3. CASE CoreTurns
  <2>1. core' \in BOOLEAN /\ worker' \in Workers   BY <1>3 DEF CoreTurns
  <2>2. CASE probe.stage = "asked"
    <3>1. probe \in [stage : {"asked"}, heard : SUBSET BOOLEAN, seen : SUBSET BOOLEAN]   BY <2>2
    <3>2. probe' = [probe EXCEPT !.seen = @ \cup {core'}]   BY <1>3, <2>2 DEF CoreTurns
    <3>3. probe' \in [stage : {"asked"}, heard : SUBSET BOOLEAN, seen : SUBSET BOOLEAN]
        BY <2>1, <3>1, <3>2
    <3>4. probe'.stage = "asked" /\ probe'.heard = probe.heard /\ probe'.seen = probe.seen \cup {core'}
        BY <3>1, <3>2
    <3> QED BY <2>1, <2>2, <3>3, <3>4
  <2>3. CASE probe.stage # "asked"
      BY <1>3, <2>1, <2>3 DEF CoreTurns
  <2> QED BY <2>2, <2>3
<1>4. CASE AskReady
  BY <1>4 DEF AskReady
<1>5. CASE CoreAnswers
  <2>1. probe \in [stage : {"asked"}, heard : SUBSET BOOLEAN, seen : SUBSET BOOLEAN]
      BY <1>5 DEF CoreAnswers
  <2>2. probe' = [probe EXCEPT !.heard = {core}] /\ core' = core /\ worker' = worker
      BY <1>5 DEF CoreAnswers
  <2>3. probe' \in [stage : {"asked"}, heard : SUBSET BOOLEAN, seen : SUBSET BOOLEAN]
      BY <2>1, <2>2
  <2>4. probe'.stage = "asked" /\ probe'.heard = {core} /\ probe'.seen = probe.seen
      BY <2>1, <2>2
  <2> QED BY <1>5, <2>2, <2>3, <2>4 DEF CoreAnswers
<1>6. CASE Answer
  <2>1. probe \in [stage : {"asked"}, heard : SUBSET BOOLEAN, seen : SUBSET BOOLEAN]
      BY <1>6 DEF Answer
  <2>2. /\ probe.heard # {} /\ core' = core /\ worker' = worker
        /\ probe' = [stage |-> "answered", ready |-> Ready, seen |-> probe.seen, worker |-> worker]
      BY <1>6 DEF Answer
  <2>3. /\ probe'.stage = "answered" /\ probe'.ready = Ready
        /\ probe'.seen = probe.seen /\ probe'.worker = worker
      BY <2>2
  <2>4. Ready \in BOOLEAN   BY DEF Ready
  <2>5. probe' \in [stage : {"answered"}, ready : BOOLEAN, seen : SUBSET BOOLEAN, worker : Workers]
      BY <2>1, <2>2, <2>4
  <2>6. CASE Ready
      BY <1>6, <2>1, <2>2, <2>3, <2>5, <2>6 DEF Ready, Answer
  <2>7. CASE ~Ready
    <3>1. FALSE \in probe.seen \/ worker = "replaying"
        BY <1>6, <2>1, <2>2, <2>7 DEF Ready, Answer
    <3> QED BY <2>2, <2>3, <2>5, <2>7, <3>1
  <2> QED BY <2>6, <2>7
<1>7. CASE Create \/ Track \/ CreateFails \/ Deliver \/ Export \/ Tick \/ RunEnds
            \/ UNCHANGED processVars
  BY <1>7 DEF Create, Track, CreateFails, Deliver, Export, Tick, RunEnds, processVars
<1>8. CASE Signal \/ Drained \/ StopJobs \/ Flush \/ ShutdownTraces \/ Kill
  BY <1>8 DEF Signal, Drained, StopJobs, Flush, ShutdownTraces, Kill
<1> QED BY <1>1, <1>2, <1>3, <1>4, <1>5, <1>6, <1>7, <1>8 DEF ProcessNext

(* Each step of the shutdown finds done what the ones before it do.        *)
LEMMA ShutdownKept == ProcessInv /\ [ProcessNext]_processVars => ShutDownInOrder'
<1> SUFFICES ASSUME ProcessInv, [ProcessNext]_processVars PROVE ShutDownInOrder'   OBVIOUS
<1> USE DEF ProcessInv, ShutDownInOrder, Serving, ShuttingDown, Gone
<1>1. CASE BootStep
  <2>1. PICK i \in 1..7 : at' = IF Stops(at) THEN "failed"
                                 ELSE IF i = 7 THEN "serving" ELSE BootSteps[i + 1]
      BY <1>1, StepsDiffer DEF BootStep
  <2>2. at' \in Booting \cup {"failed", "serving"}
      BY <2>1 DEF Booting
  <2> QED BY <2>2, StepsDiffer
<1>2. CASE CatchesUp
  BY <1>2 DEF CatchesUp
<1>3. CASE CoreTurns
  <2>1. probe.stage # "asked" => probe' = probe   BY <1>3 DEF CoreTurns
  <2> QED BY <1>3, <2>1 DEF CoreTurns
<1>4. CASE AskReady
  BY <1>4 DEF AskReady
<1>5. CASE CoreAnswers
  BY <1>5 DEF CoreAnswers
<1>6. CASE Answer
  BY <1>6 DEF Answer
<1>7. CASE Create \/ Track \/ CreateFails
  BY <1>7 DEF Create, Track, CreateFails
<1>8. CASE Deliver
  <2>1. PICK n \in 1..queue : Sends(n)   BY <1>8 DEF Deliver
  <2>2. queue \in Nat /\ n \in 1..queue   BY <2>1 DEF LedgerTyped
  <2>3. queue # 0   BY <2>2
  <2> QED BY <1>8, <2>3 DEF Deliver
<1>9. CASE Export \/ Tick \/ RunEnds \/ UNCHANGED processVars
  BY <1>9 DEF Export, Tick, RunEnds, processVars
<1>10. CASE Signal \/ Drained \/ StopJobs \/ ShutdownTraces \/ Kill
  BY <1>10 DEF Signal, Drained, StopJobs, ShutdownTraces, Kill
<1>11. CASE Flush
  <2>1. queue' = 0   BY <1>11 DEF Flush, Sends, LedgerTyped
  <2> QED BY <1>11, <2>1 DEF Flush
<1> QED BY <1>1, <1>2, <1>3, <1>4, <1>5, <1>6, <1>7, <1>8, <1>9, <1>10, <1>11 DEF ProcessNext

(* Every step keeps the inductive invariant.                               *)
LEMMA ProcessKept == ProcessInv /\ [ProcessNext]_processVars => ProcessInv'
BY OrderKept, LedgerKept, ProbeKept, ShutdownKept DEF ProcessInv

(* The inductive invariant implies the property.                           *)
LEMMA ProcessTells == ProcessInv => ProcessIsAccountable
<1> SUFFICES ASSUME ProcessInv PROVE ProcessIsAccountable   OBVIOUS
<1>1. at \in Serving \cup ShuttingDown \cup {"exited"} => Sound
  BY PassedIsSound DEF ProcessInv, BootedInOrder
<1>2. at = "failed" => ~Sound /\ ledger.tracked = 0 /\ used.probes = 0
  BY StoppedIsUnsound DEF ProcessInv, BootedInOrder, NobodyServedBefore
<1> QED BY <1>1, <1>2
        DEF ProcessInv, ProcessIsAccountable, ProbeHonest, LedgerBalances, ShutDownInOrder

(* Only sound settings are served, readiness is told for a reason, every   *)
(* tracked event is accounted for and a shutdown leaves nothing behind     *)
(* (main.rs, health.rs, rv2-analytics): for every environment and limit.   *)
THEOREM ProcessAccounts == ProcessSpec => []ProcessIsAccountable
<1>1. ProcessInit => ProcessInv   BY ProcessStarts
<1>2. ProcessInv /\ [ProcessNext]_processVars => ProcessInv'   BY ProcessKept
<1>3. ProcessInv => ProcessIsAccountable   BY ProcessTells
<1> QED BY <1>1, <1>2, <1>3, PTL DEF ProcessSpec

-----------------------------------------------------------------------------
(***************************************************************************)
(* The drafts an AI is asked for.                                          *)
(***************************************************************************)

(* The request a stage works on was built, and what passed validation      *)
(* passed it against that request.                                         *)
BuiltFirst ==
    stage \notin {"idle", "refused"} => request \in Requests /\ Build(request)

CandidateTyped == stage = "candidate" => candidate \in Candidates

Grounded(c) == c \in Candidates /\ Validated(request, c)

DraftGrounded == stage = "draft" => Grounded(draft)

OutcomeGrounded ==
    /\ stage # "decided" => outcome = Nothing
    /\ "cites" \in DOMAIN outcome => stage = "decided" /\ Grounded(outcome)

DraftsInv == BuiltFirst /\ CandidateTyped /\ DraftGrounded /\ OutcomeGrounded

-----------------------------------------------------------------------------

(* A sequence of the model is a function on an initial segment.            *)
LEMMA BoundedSeqTyped ==
    ASSUME NEW S, NEW n \in Nat, NEW s \in BoundedSeq(S, n)
    PROVE  \E m \in 0..n : s \in [1..m -> S]
BY DEF BoundedSeq, SeqOf

(* Nothing and an edited text carry no citations.                          *)
LEMMA PlainTextCitesNothing ==
    ASSUME NEW t PROVE "cites" \notin DOMAIN [text |-> t]
OBVIOUS

(* What passes validation against a built request is grounded in it.       *)
LEMMA ValidatedIsGrounded ==
    ASSUME NEW r \in Requests, Build(r), NEW c \in Candidates, Validated(r, c)
    PROVE  /\ c.text \in 1..HardMax
           /\ c.cites # <<>>
           /\ IsInjective(c.cites)
           /\ \A i \in DOMAIN c.cites :
                 \E j \in DOMAIN r.facts :
                     /\ r.facts[j].id = c.cites[i]
                     /\ \A k \in DOMAIN r.facts : r.facts[k].id = c.cites[i] => k = j
<1>1. c.text \in 1..HardMax
  <2>1. c.text \in 0..HardMax + 1 /\ r.budget \in 0..HardMax + 1
      BY DEF Candidates, Requests
  <2>2. c.text # 0 /\ c.text <= r.budget /\ r.budget <= HardMax
      BY DEF Validated, Build, Blank
  <2> QED BY <2>1, <2>2, LimitsAssumption
<1>2. c.cites # <<>>
  BY DEF Validated
<1>3. PICK m \in 0..MaxCites : c.cites \in [1..m -> FactIds]
  <2>1. c.cites \in BoundedSeq(FactIds, MaxCites)   BY DEF Candidates
  <2> QED BY <2>1, BoundedSeqTyped, LimitsAssumption
<1>4. PICK n \in 0..MaxFacts : r.facts \in [1..n -> [id : FactIds, sensitivity : Sensitivities]]
  <2>1. r.facts \in BoundedSeq([id : FactIds, sensitivity : Sensitivities], MaxFacts)
      BY DEF Requests
  <2> QED BY <2>1, BoundedSeqTyped, LimitsAssumption
<1>5. DOMAIN c.cites = 1..m /\ DOMAIN r.facts = 1..n /\ m \in Nat /\ n \in Nat
  BY <1>3, <1>4, LimitsAssumption
<1>6. IsInjective(c.cites)
  <2>1. SUFFICES ASSUME NEW a \in 1..m, NEW b \in 1..m, c.cites[a] = c.cites[b], a # b
                 PROVE  FALSE
      BY <1>5 DEF IsInjective
  <2>2. CASE a < b
      BY <1>5, <2>1, <2>2 DEF Validated
  <2>3. CASE b < a
      BY <1>5, <2>1, <2>3 DEF Validated
  <2> QED BY <1>5, <2>1, <2>2, <2>3
<1>7. ASSUME NEW i \in DOMAIN c.cites
      PROVE  \E j \in DOMAIN r.facts :
                 /\ r.facts[j].id = c.cites[i]
                 /\ \A k \in DOMAIN r.facts : r.facts[k].id = c.cites[i] => k = j
  <2>1. PICK j \in DOMAIN r.facts : r.facts[j].id = c.cites[i]
      BY <1>7 DEF Validated
  <2>2. ASSUME NEW k \in DOMAIN r.facts, r.facts[k].id = c.cites[i], k # j
        PROVE  FALSE
    <3>1. CASE k < j
        BY <1>5, <2>1, <2>2, <3>1 DEF Build, BadFact
    <3>2. CASE j < k
        BY <1>5, <2>1, <2>2, <3>2 DEF Build, BadFact
    <3> QED BY <1>5, <2>1, <2>2, <3>1, <3>2
  <2> QED BY <2>1, <2>2
<1> QED BY <1>1, <1>2, <1>6, <1>7

(* No built remote request holds a fact that stays on the device.          *)
LEMMA RemoteFactsMayLeave ==
    ASSUME NEW r \in Requests, Build(r), r.boundary # "local_only"
    PROVE  \A i \in DOMAIN r.facts : r.facts[i].sensitivity # "local_only"
<1>1. r.boundary = "remote_with_explicit_consent"
  BY DEF Requests, Boundaries
<1> QED BY <1>1 DEF Build, BadFact

-----------------------------------------------------------------------------

(* Nothing was built, generated or decided.                                *)
LEMMA DraftsStart == DraftsInit => DraftsInv
BY PlainTextCitesNothing
DEF DraftsInit, DraftsInv, BuiltFirst, CandidateTyped, DraftGrounded, OutcomeGrounded, Nothing

(* Every stage works on the request that the first one built.              *)
LEMMA DraftsKept == DraftsInv /\ [DraftsNext]_draftVars => DraftsInv'
<1> SUFFICES ASSUME DraftsInv, [DraftsNext]_draftVars PROVE DraftsInv'   OBVIOUS
<1> USE DEF DraftsInv, BuiltFirst, CandidateTyped, DraftGrounded, OutcomeGrounded, Grounded
<1>1. ASSUME NEW r \in Requests, Ask(r) PROVE DraftsInv'
  BY <1>1, PlainTextCitesNothing DEF Ask, Nothing
<1>2. ASSUME NEW c \in Candidates, Generate(c) PROVE DraftsInv'
  BY <1>2, PlainTextCitesNothing DEF Generate, Nothing
<1>3. CASE Validate
  BY <1>3, PlainTextCitesNothing DEF Validate, Nothing
<1>4. CASE Accept
  BY <1>4 DEF Accept
<1>5. ASSUME NEW text \in 0..HardMax + 1, Edit(text) PROVE DraftsInv'
  BY <1>5, PlainTextCitesNothing DEF Edit
<1>6. CASE Reject
  BY <1>6, PlainTextCitesNothing DEF Reject, Nothing
<1>7. CASE UNCHANGED draftVars
  BY <1>7 DEF draftVars, Validated
<1> QED BY <1>1, <1>2, <1>3, <1>4, <1>5, <1>6, <1>7 DEF DraftsNext

(* The inductive invariant implies the property.                           *)
LEMMA DraftsTell == DraftsInv => AcceptedIsGrounded
<1> SUFFICES ASSUME DraftsInv PROVE AcceptedIsGrounded   OBVIOUS
<1> USE DEF DraftsInv, BuiltFirst, OutcomeGrounded, Grounded
<1>1. stage \notin {"idle", "refused"} /\ request.boundary # "local_only" =>
          \A i \in DOMAIN request.facts : request.facts[i].sensitivity # "local_only"
  BY RemoteFactsMayLeave
<1>2. "cites" \in DOMAIN outcome =>
          /\ request \in Requests /\ Build(request)
          /\ outcome \in Candidates /\ Validated(request, outcome)
  OBVIOUS
<1> QED BY <1>1, <1>2, ValidatedIsGrounded DEF AcceptedIsGrounded

(* What is accepted of generated text says something within the hard limit *)
(* and cites facts of its request, each once (rv2-ai, validate_candidate): *)
(* for every HardMax and every set of fact ids.                            *)
THEOREM DraftsAreGrounded == DraftsSpec => []AcceptedIsGrounded
<1>1. DraftsInit => DraftsInv   BY DraftsStart
<1>2. DraftsInv /\ [DraftsNext]_draftVars => DraftsInv'   BY DraftsKept
<1>3. DraftsInv => AcceptedIsGrounded   BY DraftsTell
<1> QED BY <1>1, <1>2, <1>3, PTL DEF DraftsSpec

-----------------------------------------------------------------------------
(***************************************************************************)
(* The profile that is read of a user: what was said.                      *)
(***************************************************************************)

Told == Texts \cup {Null, Unchanged}
Command ==
    [tag : {"UserRegistered", "UserProfileUpdated"}, at : Times,
     full_name : Told, avatar_url : Told]

(* What a decoded event says: the command, of those that a folder heeds.   *)
Means(envelope, command) ==
    \/ /\ command.tag = "error"
       /\ Decode(envelope).tag \notin {"UserRegistered", "UserProfileUpdated"}
    \/ /\ command \in Command /\ Decode(envelope) = command
       /\ command.tag = "UserRegistered" =>
             command.full_name # Unchanged /\ command.avatar_url # Unchanged

Users == {NoUser} \cup [full_name : Told, avatar_url : Told, created : Times, updated : Times]

(* The clocks read positive numbers.                                       *)
LEMMA TimesArePositive == \A t \in Times : t \in Nat /\ t >= 1
BY ClockAssumption DEF Times

(* Registered, as the fold reads it.                                       *)
LEMMA RegisteredIsRead ==
    ASSUME NEW user \in Users, NEW e, NEW c, Means(e, c), c.tag = "UserRegistered"
    PROVE  ApplyToUser(user, e) = [full_name |-> c.full_name, avatar_url |-> c.avatar_url,
                                   created |-> c.at, updated |-> c.at]
<1>1. Decode(e) = c   BY DEF Means
<1> QED BY <1>1 DEF ApplyToUser

(* An update that finds the user changes the fields it mentions.           *)
LEMMA UpdateIsRead ==
    ASSUME NEW user \in Users, user # NoUser, NEW e, NEW c, Means(e, c),
           c.tag = "UserProfileUpdated"
    PROVE  ApplyToUser(user, e) =
              [full_name  |-> IF c.full_name = Unchanged THEN user.full_name ELSE c.full_name,
               avatar_url |-> IF c.avatar_url = Unchanged THEN user.avatar_url ELSE c.avatar_url,
               created |-> user.created,
               updated |-> IF c.at > user.updated THEN c.at ELSE user.updated]
<1>1. Decode(e) = c /\ c \in Command   BY DEF Means
<1>2. /\ c["full_name"] = c.full_name /\ c["avatar_url"] = c.avatar_url
      /\ user["full_name"] = user.full_name /\ user["avatar_url"] = user.avatar_url
  OBVIOUS
<1> QED BY <1>1, <1>2 DEF ApplyToUser

(* Everything else is passed over.                                         *)
LEMMA RestIsPassedOver ==
    ASSUME NEW user \in Users, NEW e, NEW c, Means(e, c),
           c.tag = "error" \/ (user = NoUser /\ c.tag = "UserProfileUpdated")
    PROVE  ApplyToUser(user, e) = user
<1>1. Decode(e).tag # "UserRegistered" /\ (Decode(e).tag = "UserProfileUpdated" => user = NoUser)
  BY DEF Means
<1> QED BY <1>1 DEF ApplyToUser

(* A user read on stays one.                                               *)
LEMMA ApplyIsTyped ==
    ASSUME NEW user \in Users, NEW e, NEW c, Means(e, c)
    PROVE  ApplyToUser(user, e) \in Users
<1>1. CASE c.tag = "error" \/ (user = NoUser /\ c.tag = "UserProfileUpdated")
  BY <1>1, RestIsPassedOver
<1>2. CASE c.tag = "UserRegistered"
  <2>1. c \in Command   BY <1>2 DEF Means
  <2> QED BY <1>2, <2>1, RegisteredIsRead DEF Users, Command
<1>3. CASE user # NoUser /\ c.tag = "UserProfileUpdated"
  <2>1. c \in Command   BY <1>3 DEF Means
  <2>2. user \in [full_name : Told, avatar_url : Told, created : Times, updated : Times]
    BY <1>3 DEF Users
  <2> QED BY <1>3, <2>1, <2>2, UpdateIsRead DEF Users, Command
<1>4. c.tag \in {"error", "UserRegistered", "UserProfileUpdated"}   BY DEF Means, Command
<1> QED BY <1>1, <1>2, <1>3, <1>4

Readable(s) == Len(s) \in Nat /\ \A i \in 1..Len(s) : \E c : Means(s[i], c)

Loads(user, s) ==
    /\ user \in [0..Len(s) -> Users] /\ user[0] = NoUser
    /\ \A n \in 1..Len(s) : user[n] = ApplyToUser(user[n - 1], s[n])
    /\ LoadUser(s) = user[Len(s)]

(* The recursion that reading a stream is written as defines a reading.    *)
LEMMA ReadingExists ==
    ASSUME NEW s, Readable(s)
    PROVE  \E user : Loads(user, s)
<1>0. Len(s) \in Nat   BY DEF Readable
<1> DEFINE D == 0..Len(s)
           step == [n \in Nat |-> [u \in Users |-> IF n \in 1..Len(s) THEN ApplyToUser(u, s[n]) ELSE u]]
<1>1. step \in [Nat -> [Users -> Users]]
  <2>1. ASSUME NEW n \in Nat, NEW u \in Users
        PROVE  (IF n \in 1..Len(s) THEN ApplyToUser(u, s[n]) ELSE u) \in Users
    BY ApplyIsTyped DEF Readable
  <2> QED BY <2>1
<1>2. NoUser \in Users   BY DEF Users
<1>3. PICK F : Recurs(F, NoUser, step, Users)
  <2> HIDE DEF step
  <2> QED BY <1>1, <1>2, Recursion
<1>4. /\ F \in [Nat -> Users] /\ F[0] = NoUser
      /\ \A n \in 1..Len(s) : F[n] = ApplyToUser(F[n - 1], s[n])
  <2>1. F \in [Nat -> Users] /\ F[0] = NoUser /\ \A n \in Nat \ {0} : F[n] = step[n][F[n - 1]]
    BY <1>3 DEF Recurs
  <2>2. ASSUME NEW n \in 1..Len(s) PROVE F[n] = ApplyToUser(F[n - 1], s[n])
    <3>1. n \in Nat \ {0} /\ n - 1 \in Nat /\ F[n - 1] \in Users   BY <2>1, <1>0
    <3>2. step[n][F[n - 1]] = ApplyToUser(F[n - 1], s[n])   BY <3>1
    <3> QED BY <2>1, <3>1, <3>2
  <2> QED BY <2>1, <2>2
<1> HIDE DEF step
<1> DEFINE At(f, n) == IF n = 0 THEN NoUser ELSE ApplyToUser(f[n - 1], s[n])
           R == [n \in D |-> F[n]]
<1>5. ASSUME NEW n \in D PROVE R[n] = At(R, n)
  <2>1. CASE n = 0   BY <1>0, <1>4, <2>1
  <2>2. CASE n # 0
    <3>1. n \in 1..Len(s) /\ n - 1 \in D   BY <1>0, <2>2
    <3>2. R[n] = F[n] /\ R[n - 1] = F[n - 1]   BY <3>1
    <3> QED BY <1>4, <2>2, <3>1, <3>2
  <2> QED BY <2>1, <2>2
<1> HIDE DEF At, D
<1>6. R = [n \in D |-> At(R, n)]   BY <1>5
<1> DEFINE G == CHOOSE f : f = [n \in D |-> At(f, n)]
<1>7. G = [n \in D |-> At(G, n)]
  <2> HIDE DEF R
  <2> QED BY <1>6
<1>8. LoadUser(s) = G[Len(s)]   BY DEF LoadUser, At, D
<1> HIDE DEF G
<1>9. \A n \in D : G[n] = At(G, n)   BY <1>7
<1>10. G = [n \in D |-> G[n]]   BY <1>7, <1>9
<1>11. G[0] = NoUser   BY <1>0, <1>9 DEF At, D
<1>12. \A n \in 1..Len(s) : G[n] = ApplyToUser(G[n - 1], s[n])
  BY <1>0, <1>9 DEF At, D
<1> DEFINE S == {n \in Nat : n <= Len(s) => G[n] \in Users}
<1>13. 0 \in S   BY <1>2, <1>11
<1>14. \A n \in Nat : n \in S => n + 1 \in S
  <2> SUFFICES ASSUME NEW n \in Nat, n \in S, n + 1 <= Len(s) PROVE G[n + 1] \in Users   OBVIOUS
  <2>1. n + 1 \in 1..Len(s) /\ (n + 1) - 1 = n /\ G[n] \in Users   BY <1>0
  <2>2. G[n + 1] = ApplyToUser(G[n], s[n + 1])   BY <1>12, <2>1
  <2>3. PICK c : Means(s[n + 1], c)   BY <2>1 DEF Readable
  <2> QED BY <2>1, <2>2, <2>3, ApplyIsTyped
<1>15. \A n \in Nat : n \in S
  <2> HIDE DEF S
  <2> QED BY <1>13, <1>14, InductionOnASet
<1>16. \A n \in D : G[n] \in Users   BY <1>0, <1>15 DEF D
<1>17. G \in [0..Len(s) -> Users]   BY <1>10, <1>16 DEF D
<1> QED BY <1>8, <1>11, <1>12, <1>17 DEF Loads

(* What is read of a stream after one more event is what that event makes  *)
(* of what was read before it.                                             *)
LEMMA LoadGrows ==
    ASSUME NEW s, NEW t, Readable(s), Readable(t), Len(t) = Len(s) + 1,
           \A i \in 1..Len(s) : t[i] = s[i]
    PROVE  /\ LoadUser(s) \in Users
           /\ LoadUser(t) = ApplyToUser(LoadUser(s), t[Len(t)])
<1>0. Len(s) \in Nat   BY DEF Readable
<1>1. PICK u : Loads(u, s)   BY ReadingExists
<1>2. PICK v : Loads(v, t)   BY ReadingExists
<1>3. /\ u[0] = NoUser /\ LoadUser(s) = u[Len(s)] /\ u \in [0..Len(s) -> Users]
      /\ \A n \in 1..Len(s) : u[n] = ApplyToUser(u[n - 1], s[n])
  BY <1>1 DEF Loads
<1>4. /\ v[0] = NoUser /\ LoadUser(t) = v[Len(t)]
      /\ \A n \in 1..Len(s) + 1 : v[n] = ApplyToUser(v[n - 1], t[n])
  BY <1>2 DEF Loads
<1> DEFINE S == {n \in Nat : n <= Len(s) => u[n] = v[n]}
<1>5. 0 \in S   BY <1>3, <1>4
<1>6. \A n \in Nat : n \in S => n + 1 \in S
  <2> SUFFICES ASSUME NEW n \in Nat, n \in S, n + 1 <= Len(s) PROVE u[n + 1] = v[n + 1]   OBVIOUS
  <2>1. n + 1 \in 1..Len(s) /\ n + 1 \in 1..Len(s) + 1 /\ (n + 1) - 1 = n /\ u[n] = v[n]   BY <1>0
  <2>2. u[n + 1] = ApplyToUser(u[n], s[n + 1]) /\ v[n + 1] = ApplyToUser(v[n], t[n + 1])
    BY <1>3, <1>4, <2>1
  <2> QED BY <2>1, <2>2
<1>7. \A n \in Nat : n \in S
  <2> HIDE DEF S
  <2> QED BY <1>5, <1>6, InductionOnASet
<1>8. u[Len(s)] = v[Len(s)]   BY <1>0, <1>7
<1>9. v[Len(s) + 1] = ApplyToUser(v[Len(s)], t[Len(s) + 1])
  <2>1. Len(s) + 1 \in 1..Len(s) + 1 /\ (Len(s) + 1) - 1 = Len(s)   BY <1>0
  <2> QED BY <1>4, <2>1
<1>10. LoadUser(s) \in Users   BY <1>0, <1>3
<1> QED BY <1>3, <1>4, <1>8, <1>9, <1>10

(* An empty stream is of no user.                                          *)
LEMMA LoadNothing == LoadUser(<<>>) = NoUser
<1>1. Readable(<<>>)   BY DEF Readable
<1>2. PICK u : Loads(u, <<>>)   BY <1>1, ReadingExists
<1> QED BY <1>2 DEF Loads

(* The last command to register, and what was said since, is the user.     *)
Spoke(cmds, i, f) == cmds[i].tag # "error" /\ cmds[i][f] # Unchanged

Latest(user, cmds, l, f) ==
    \E i \in l..Len(cmds) :
        /\ Spoke(cmds, i, f) /\ user[f] = cmds[i][f]
        /\ \A j \in i + 1..Len(cmds) : ~Spoke(cmds, j, f)

Profile(user, cmds, l) ==
    /\ l \in 1..Len(cmds) /\ cmds[l].tag = "UserRegistered"
    /\ \A j \in l + 1..Len(cmds) : cmds[j].tag # "UserRegistered"
    /\ user # NoUser /\ user.created = cmds[l].at
    /\ Latest(user, cmds, l, "full_name") /\ Latest(user, cmds, l, "avatar_url")
    /\ \A i \in l..Len(cmds) : cmds[i].tag # "error" => cmds[i].at <= user.updated
    /\ \E i \in l..Len(cmds) : cmds[i].tag # "error" /\ cmds[i].at = user.updated

TellsUser(user, cmds) ==
    \/ user = NoUser /\ \A i \in 1..Len(cmds) : cmds[i].tag # "UserRegistered"
    \/ \E l : Profile(user, cmds, l)

(* What the commands told is sequence-shaped: each decodes to itself.      *)
Commands(cmds) ==
    /\ Len(cmds) \in Nat
    /\ \A i \in 1..Len(cmds) : cmds[i].tag = "error" \/ cmds[i] \in Command

(* One more command tells of the user what its event makes of it.          *)
LEMMA TellingGrows ==
    ASSUME NEW user \in Users, NEW cmds, NEW d, Commands(cmds), Commands(d),
           TellsUser(user, cmds), Len(d) = Len(cmds) + 1,
           \A i \in 1..Len(cmds) : d[i] = cmds[i],
           NEW e, Means(e, d[Len(d)])
    PROVE  TellsUser(ApplyToUser(user, e), d)
<1> DEFINE n == Len(cmds) + 1   c == d[n]
<1>1. n \in Nat /\ n >= 1 /\ Len(d) = n /\ n - 1 = Len(cmds) /\ Len(cmds) \in Nat   BY DEF Commands
<1>2. \A i \in 1..n : i \in 1..Len(cmds) \/ i = n   BY <1>1
<1>3. Means(e, c)   BY <1>1
<1> HIDE DEF c
<1>4. d[n] = c   BY DEF c
<1>5. c.tag \in {"error", "UserRegistered", "UserProfileUpdated"}   BY <1>3 DEF Means, Command
<1> HIDE DEF n
<1>6. CASE c.tag = "UserRegistered"
  <2> DEFINE u == ApplyToUser(user, e)
  <2>1. c \in Command /\ c.full_name # Unchanged /\ c.avatar_url # Unchanged
    BY <1>3, <1>6 DEF Means
  <2>2. u = [full_name |-> c.full_name, avatar_url |-> c.avatar_url,
             created |-> c.at, updated |-> c.at]
    BY <1>3, <1>6, RegisteredIsRead
  <2> HIDE DEF u
  <2>3. c.at \in Nat /\ c.at >= 1   BY <2>1, TimesArePositive DEF Command
  <2>4. u # NoUser
    <3>1. u.created # 0   BY <2>2, <2>3
    <3> QED BY <3>1 DEF NoUser
  <2>5. /\ u["full_name"] = c["full_name"] /\ u["avatar_url"] = c["avatar_url"]
        /\ c["full_name"] # Unchanged /\ c["avatar_url"] # Unchanged
        /\ u.created = c.at /\ u.updated = c.at
    BY <2>1, <2>2
  <2>6. n \in 1..n /\ n \in n..n /\ n + 1..n = {} /\ \A i \in n..n : i = n   BY <1>1
  <2>7. Spoke(d, n, "full_name") /\ Spoke(d, n, "avatar_url")
    BY <1>4, <1>6, <2>5 DEF Spoke
  <2>8. Latest(u, d, n, "full_name") /\ Latest(u, d, n, "avatar_url")
    BY <1>1, <1>4, <2>5, <2>6, <2>7 DEF Latest
  <2>9. Profile(u, d, n)
    BY <1>1, <1>4, <1>6, <2>3, <2>4, <2>5, <2>6, <2>8 DEF Profile
  <2> QED BY <2>9 DEF TellsUser, u
<1>7. CASE user = NoUser /\ c.tag # "UserRegistered"
  <2>1. ApplyToUser(user, e) = user
    <3>1. c.tag = "error" \/ (user = NoUser /\ c.tag = "UserProfileUpdated")   BY <1>5, <1>7
    <3> QED BY <3>1, <1>3, RestIsPassedOver
  <2>2. \A i \in 1..Len(cmds) : cmds[i].tag # "UserRegistered"
    BY <1>7 DEF TellsUser, Profile
  <2>3. \A i \in 1..n : d[i].tag # "UserRegistered"   BY <1>2, <1>4, <1>7, <2>2
  <2> QED BY <1>1, <1>7, <2>1, <2>3 DEF TellsUser
<1>8. CASE user # NoUser /\ c.tag # "UserRegistered"
  <2>1. PICK l : Profile(user, cmds, l)   BY <1>8 DEF TellsUser
  <2>2. /\ l \in 1..Len(cmds) /\ cmds[l].tag = "UserRegistered" /\ user.created = cmds[l].at
        /\ \A j \in l + 1..Len(cmds) : cmds[j].tag # "UserRegistered"
        /\ Latest(user, cmds, l, "full_name") /\ Latest(user, cmds, l, "avatar_url")
        /\ \A i \in l..Len(cmds) : cmds[i].tag # "error" => cmds[i].at <= user.updated
        /\ \E i \in l..Len(cmds) : cmds[i].tag # "error" /\ cmds[i].at = user.updated
    BY <2>1 DEF Profile
  <2>3. /\ l \in 1..n /\ d[l] = cmds[l] /\ n \in l..n
        /\ \A j \in l + 1..n : j \in l + 1..Len(cmds) \/ j = n
        /\ \A j \in l..n : j \in l..Len(cmds) \/ j = n
        /\ \A j \in l..Len(cmds) : j \in l..n /\ j \in 1..Len(cmds) /\ d[j] = cmds[j]
    BY <1>1, <2>2
  <2>4. /\ l \in 1..n /\ d[l].tag = "UserRegistered"
        /\ \A j \in l + 1..n : d[j].tag # "UserRegistered"
    BY <2>2, <2>3, <1>4, <1>8
  <2> DEFINE u == ApplyToUser(user, e)
  <2>5. ASSUME NEW f \in Fields, Latest(user, cmds, l, f),
               IF Spoke(d, n, f) THEN u[f] = c[f] ELSE u[f] = user[f]
        PROVE  Latest(u, d, l, f)
    <3> HIDE DEF u
    <3>1. CASE Spoke(d, n, f)
      <4>1. n + 1..n = {}   BY <1>1
      <4> QED BY <1>1, <1>4, <2>3, <2>5, <3>1, <4>1 DEF Latest
    <3>2. CASE ~Spoke(d, n, f)
      <4>1. PICK i \in l..Len(cmds) :
               /\ Spoke(cmds, i, f) /\ user[f] = cmds[i][f]
               /\ \A j \in i + 1..Len(cmds) : ~Spoke(cmds, j, f)
        BY <2>5 DEF Latest
      <4>2. /\ i \in l..n /\ d[i] = cmds[i]
            /\ \A j \in i + 1..n : j = n \/ (j \in i + 1..Len(cmds) /\ d[j] = cmds[j])
        BY <1>1, <2>2, <2>3
      <4>3. Spoke(d, i, f) /\ u[f] = d[i][f]   BY <2>5, <3>2, <4>1, <4>2 DEF Spoke
      <4>4. \A j \in i + 1..n : ~Spoke(d, j, f)   BY <3>2, <4>1, <4>2 DEF Spoke
      <4> QED BY <1>1, <4>2, <4>3, <4>4 DEF Latest
    <3> QED BY <3>1, <3>2
  <2>6. CASE c.tag = "error"
    <3>1. u = user   BY <1>3, <2>6, RestIsPassedOver
    <3> HIDE DEF u
    <3>2. \A f : ~Spoke(d, n, f)   BY <1>4, <2>6 DEF Spoke
    <3>3. Latest(u, d, l, "full_name") /\ Latest(u, d, l, "avatar_url")
      BY <2>2, <2>5, <3>1, <3>2 DEF Fields
    <3>4. \A i \in l..n : d[i].tag # "error" => d[i].at <= u.updated
      BY <1>4, <2>2, <2>3, <2>6, <3>1
    <3>5. \E i \in l..n : d[i].tag # "error" /\ d[i].at = u.updated
      BY <2>2, <2>3, <3>1
    <3>6. Profile(u, d, l)   BY <1>1, <1>8, <2>2, <2>3, <2>4, <3>1, <3>3, <3>4, <3>5 DEF Profile
    <3> QED BY <3>6 DEF TellsUser, u
  <2>7. CASE c.tag = "UserProfileUpdated"
    <3>1. c \in Command   BY <1>3, <2>7 DEF Means
    <3>2. u = [full_name  |-> IF c.full_name = Unchanged THEN user.full_name ELSE c.full_name,
               avatar_url |-> IF c.avatar_url = Unchanged THEN user.avatar_url ELSE c.avatar_url,
               created |-> user.created,
               updated |-> IF c.at > user.updated THEN c.at ELSE user.updated]
      BY <1>3, <1>8, <2>7, UpdateIsRead
    <3>3. user \in [full_name : Told, avatar_url : Told, created : Times, updated : Times]
      BY <1>8 DEF Users
    <3>4. /\ c.at \in Nat /\ user.updated \in Nat /\ user.created >= 1 /\ user.created \in Nat
      BY <3>1, <3>3, TimesArePositive DEF Command
    <3> HIDE DEF u
    <3>5. u.created = user.created /\ u # NoUser
      <4>1. u.created = user.created /\ u.created # 0   BY <3>2, <3>4
      <4> QED BY <4>1 DEF NoUser
    <3>6. /\ u["full_name"] = IF c["full_name"] = Unchanged THEN user["full_name"] ELSE c["full_name"]
          /\ u["avatar_url"] = IF c["avatar_url"] = Unchanged THEN user["avatar_url"] ELSE c["avatar_url"]
      BY <3>2
    <3>7. \A f \in Fields : Spoke(d, n, f) <=> c[f] # Unchanged   BY <1>4, <2>7 DEF Spoke
    <3>8. Latest(u, d, l, "full_name") /\ Latest(u, d, l, "avatar_url")
      <4>1. "full_name" \in Fields /\ "avatar_url" \in Fields   BY DEF Fields
      <4> QED BY <2>2, <2>5, <3>6, <3>7, <4>1
    <3>9. u.updated = IF c.at > user.updated THEN c.at ELSE user.updated   BY <3>2
    <3>10. \A i \in l..n : d[i].tag # "error" => d[i].at <= u.updated
      <4>1. ASSUME NEW i \in l..Len(cmds), d[i].tag # "error" PROVE d[i].at <= u.updated
        <5>1. i \in 1..Len(cmds) /\ d[i] = cmds[i]   BY <2>3
        <5>2. cmds[i] \in Command   BY <4>1, <5>1 DEF Commands
        <5>3. cmds[i].at \in Nat   BY <5>2, TimesArePositive DEF Command
        <5>4. cmds[i].at <= user.updated   BY <2>2, <4>1, <5>1
        <5> QED BY <3>4, <3>9, <5>1, <5>3, <5>4
      <4>2. c.at <= u.updated   BY <3>4, <3>9
      <4> QED BY <1>4, <2>3, <4>1, <4>2
    <3>11. \E i \in l..n : d[i].tag # "error" /\ d[i].at = u.updated
      <4>1. CASE c.at > user.updated   BY <1>4, <2>3, <2>7, <3>9, <4>1
      <4>2. CASE ~(c.at > user.updated)   BY <2>2, <2>3, <3>9, <4>2
      <4> QED BY <4>1, <4>2
    <3>12. Profile(u, d, l)
      BY <1>1, <2>2, <2>3, <2>4, <3>5, <3>8, <3>10, <3>11 DEF Profile
    <3> QED BY <3>12 DEF TellsUser, u
  <2> QED BY <1>5, <1>8, <2>6, <2>7
<1> QED BY <1>6, <1>7, <1>8

-----------------------------------------------------------------------------
(* The wire.                                                               *)

(* A registration means what was registered, whichever build wrote it.     *)
LEMMA RegistrationMeans ==
    ASSUME NEW name \in Texts \cup {Null}, NEW when \in Times,
           NEW data, \/ data = Encode(Registered(name, when))
                     \/ data = With(Encode(Registered(name, when)), "redacted_by")
                     \/ name = Null /\ data = Without(Encode(Registered(name, when)), Fields)
    PROVE  Means([type |-> "identity.user.registered", data |-> data], Registered(name, when))
<1> DEFINE c == Registered(name, when)   full == Encode(c)
           e == [type |-> "identity.user.registered", data |-> data]
<1>1. /\ c \in Command /\ c.tag = "UserRegistered" /\ c.at = when
      /\ c.full_name = name /\ c.avatar_url = Null
      /\ c.full_name # Unchanged /\ c.avatar_url # Unchanged
  BY TextsAssumption DEF Registered, Command, Told, Null, Unchanged
<1>2. c = [k \in {"tag", "at"} \cup Fields |-> c[k]]   BY DEF Registered, Fields
<1>3. full = [k \in {"tag", "at"} \cup Fields |-> c[k]]   BY <1>1 DEF Encode
<1> HIDE DEF full, c
<1>4. /\ {"tag", "at"} \subseteq DOMAIN data
      /\ data["tag"] = c["tag"] /\ data["at"] = c["at"]
      /\ \A f \in Fields : SingleOption(data, f) = c[f]
  <2>1. CASE data = full   BY <1>3, <2>1 DEF SingleOption, Fields
  <2>2. CASE data = With(full, "redacted_by")
    <3>1. /\ DOMAIN data = {"tag", "at", "redacted_by"} \cup Fields
          /\ \A k \in {"tag", "at"} \cup Fields : data[k] = full[k]
      BY <1>3, <2>2 DEF With, Fields
    <3> QED BY <1>3, <3>1 DEF SingleOption, Fields
  <2>3. CASE name = Null /\ data = Without(full, Fields)
    <3>1. DOMAIN data = {"tag", "at"} /\ data["tag"] = c["tag"] /\ data["at"] = c["at"]
      BY <1>3, <2>3 DEF Without, Fields
    <3>2. c["full_name"] = Null /\ c["avatar_url"] = Null   BY <1>1, <2>3
    <3> QED BY <3>1, <3>2 DEF SingleOption, Fields
  <2> QED BY <2>1, <2>2, <2>3 DEF full, c
<1>5. Decode(e) = c
  <2>1. e.data = data /\ e.type = EventType(data.tag)   BY <1>1, <1>4 DEF EventType
  <2>2. \A k \in Fields : k \notin {"tag", "at"}   BY DEF Fields
  <2>3. Decode(e) = [k \in {"tag", "at"} \cup Fields |->
                       IF k \notin Fields THEN data[k] ELSE SingleOption(data, k)]
    BY <1>1, <1>4, <2>1 DEF Decode
  <2> QED BY <1>2, <1>4, <2>2, <2>3
<1> QED BY <1>1, <1>5 DEF Means, c

(* A patch means what was said, through the request's body and the event.  *)
LEMMA PatchMeans ==
    ASSUME NEW p \in Patches, NEW when \in Times,
           NEW c, c = [tag |-> "UserProfileUpdated", at |-> when,
                       full_name |-> p.full_name, avatar_url |-> p.avatar_url]
    PROVE  Means([type |-> EventType(c.tag), data |-> Encode(c)], c)
<1> DEFINE e == [type |-> EventType(c.tag), data |-> Encode(c)]   data == Encode(c)
           kept == {f \in Fields : c[f] # Unchanged}
<1>1. c \in Command /\ c.tag = "UserProfileUpdated"
  BY DEF Command, Patches, Told, Fields
<1>2. c = [k \in {"tag", "at"} \cup Fields |-> c[k]]   BY DEF Fields
<1>3. data = [k \in {"tag", "at"} \cup kept |-> c[k]]   BY <1>1 DEF Encode
<1> HIDE DEF data
<1>4. /\ {"tag", "at"} \subseteq DOMAIN data
      /\ data["tag"] = c["tag"] /\ data["at"] = c["at"]
      /\ \A f \in Fields : DoubleOption(data, f) = c[f]
  BY <1>3 DEF DoubleOption, Fields
<1>5. Decode(e) = c
  <2>1. e.data = data /\ e.type = EventType(data.tag)   BY <1>1, <1>4 DEF EventType, data
  <2>2. \A k \in Fields : k \notin {"tag", "at"}   BY DEF Fields
  <2>3. Decode(e) = [k \in {"tag", "at"} \cup Fields |->
                       IF k \notin Fields THEN data[k] ELSE DoubleOption(data, k)]
    BY <1>1, <1>4, <2>1 DEF Decode
  <2> QED BY <1>2, <1>4, <2>2, <2>3
<1> QED BY <1>1, <1>5 DEF Means

(* The body of a request is received as it was said.                       *)
LEMMA ReceivedIsSaid ==
    ASSUME NEW p \in Patches
    PROVE  Received(p) = p
<1>1. p \in [Fields -> Texts \cup {Null, Unchanged}]   BY DEF Patches
<1> QED BY <1>1 DEF Received, DoubleOption

(* A stream of envelopes of any shape.                                     *)
Envelopes(s) == \E S : s \in Seq(S)

(* A sequence of some things is one of more.                               *)
LEMMA Widened ==
    ASSUME NEW S, NEW s \in Seq(S), NEW e
    PROVE  s \in Seq(S \cup {e})
<1>1. Len(s) \in Nat /\ s \in [1..Len(s) -> S]   OBVIOUS
<1>2. s \in [1..Len(s) -> S \cup {e}]   BY <1>1
<1> QED BY <1>1, <1>2

(* Every event of the stream means the command that was told.              *)
StreamMeans ==
    /\ Envelopes(stream) /\ told \in Seq(Command \cup {Undecodable})
    /\ Len(told) = Len(stream)
    /\ \A i \in 1..Len(stream) : Means(stream[i], told[i])

UnderWay == {"append", "reload", "done"}

PatchTyped ==
    /\ patch.pc \in {"none", "not_found", "forbidden", "invalid", "failed"} \cup UnderWay
    /\ patch.pc \in UnderWay =>
          patch \in [pc : UnderWay, said : Patches, patch : Patches, at : Times,
                     own : Nat, answer : Users]

(* The user of a patch under way was registered; once appended, the patch  *)
(* is on the stream as it was said; once reloaded, its answer shows it or  *)
(* what was written over it.  A user who was not found was registered      *)
(* later, if at all.                                                       *)
OwnIsStored ==
    /\ patch.own \in 1..Len(told) /\ told[patch.own].tag = "UserProfileUpdated"
    /\ \A f \in Fields : told[patch.own][f] = patch.said[f]

Shown(f) ==
    \/ patch.said[f] = Unchanged \/ patch.answer[f] = patch.said[f]
    \/ \E i \in patch.own + 1..Len(told) : Spoke(told, i, f) \/ told[i].tag = "UserRegistered"

RegisteredLater ==
    /\ patch.own \in 0..Len(told)
    /\ \A i \in 1..Len(told) : told[i].tag = "UserRegistered" => i > patch.own

PatchKept ==
    /\ patch.pc = "not_found" => RegisteredLater
    /\ patch.pc \in UnderWay =>
          /\ patch.patch = patch.said
          /\ \E i \in 1..Len(told) : told[i].tag = "UserRegistered"
    /\ patch.pc \in {"reload", "done"} => OwnIsStored
    /\ patch.pc = "done" => \A f \in Fields : Shown(f)

ProfilesInv ==
    StreamMeans /\ TellsUser(LoadUser(stream), told) /\ PatchTyped /\ PatchKept

(* Behind a query that names the tenant the whole stream is read.          *)
LEMMA AllIsFound == QueryAddsTenant = TRUE => FoundUser = LoadUser(stream)
BY DEF FoundUser

(* Before anything is told there is no user.                               *)
LEMMA ProfilesStart == ProfilesInit => ProfilesInv
<1> SUFFICES ASSUME ProfilesInit PROVE ProfilesInv   OBVIOUS
<1>1. stream = <<>> /\ told = <<>> /\ patch = NoPatch   BY DEF ProfilesInit
<1>2. StreamMeans
  <2>1. <<>> \in Seq({}) /\ <<>> \in Seq(Command \cup {Undecodable}) /\ Len(<<>>) = 0   OBVIOUS
  <2>2. Envelopes(<<>>)   BY <2>1 DEF Envelopes
  <2> QED BY <1>1, <2>1, <2>2 DEF StreamMeans
<1>3. TellsUser(LoadUser(stream), told)   BY <1>1, LoadNothing DEF TellsUser
<1>4. PatchTyped /\ PatchKept   BY <1>1 DEF PatchTyped, PatchKept, NoPatch, UnderWay
<1> QED BY <1>2, <1>3, <1>4 DEF ProfilesInv

(* What is stored with its meaning is told of the user.                    *)
LEMMA StoreTells ==
    ASSUME ProfilesInv, NEW type, NEW data, NEW said, Store(type, data, said),
           Means([type |-> type, data |-> data], said),
           said \in Command \cup {Undecodable}
    PROVE  /\ StreamMeans' /\ TellsUser(LoadUser(stream), told)'
           /\ Len(told') = Len(told) + 1 /\ Len(told) \in Nat /\ told'[Len(told) + 1] = said
           /\ \A i \in 1..Len(told) : told'[i] = told[i]
           /\ Len(stream') = Len(told')
<1> DEFINE e == [type |-> type, data |-> data]
<1>1. stream' = Append(stream, e) /\ told' = Append(told, said)   BY DEF Store
<1>2. /\ Envelopes(stream) /\ told \in Seq(Command \cup {Undecodable}) /\ Len(told) = Len(stream)
      /\ \A i \in 1..Len(stream) : Means(stream[i], told[i])
      /\ TellsUser(LoadUser(stream), told)
  BY DEF ProfilesInv, StreamMeans
<1>3. Means(e, said)   OBVIOUS
<1> HIDE DEF e
<1>4. /\ Envelopes(stream') /\ Len(stream) \in Nat /\ Len(stream') = Len(stream) + 1
      /\ stream'[Len(stream) + 1] = e /\ \A i \in 1..Len(stream) : stream'[i] = stream[i]
  <2>1. PICK S : stream \in Seq(S)   BY <1>2 DEF Envelopes
  <2>2. stream \in Seq(S \cup {e})   BY <2>1, Widened
  <2>3. stream' \in Seq(S \cup {e})   BY <1>1, <2>2
  <2> QED BY <1>1, <2>2, <2>3 DEF Envelopes
<1>5. /\ told' \in Seq(Command \cup {Undecodable}) /\ Len(told') = Len(told) + 1
      /\ told'[Len(told) + 1] = said /\ \A i \in 1..Len(told) : told'[i] = told[i]
  BY <1>1, <1>2
<1>6. \A i \in 1..Len(stream') : Means(stream'[i], told'[i])
  <2>1. \A i \in 1..Len(stream') : i \in 1..Len(stream) \/ i = Len(stream) + 1   BY <1>4
  <2> QED BY <1>2, <1>3, <1>4, <1>5, <2>1
<1>7. StreamMeans'   BY <1>2, <1>4, <1>5, <1>6 DEF StreamMeans
<1>8. Readable(stream) /\ Readable(stream')   BY <1>2, <1>4, <1>6 DEF Readable
<1>9. LoadUser(stream) \in Users /\ LoadUser(stream') = ApplyToUser(LoadUser(stream), e)
  BY <1>4, <1>8, LoadGrows
<1>10. Commands(told) /\ Commands(told')
  <2>1. \A c \in Command \cup {Undecodable} : c.tag = "error" \/ c \in Command
    BY DEF Undecodable
  <2> QED BY <1>2, <1>5, <2>1 DEF Commands
<1>11. TellsUser(LoadUser(stream'), told')
  <2>1. Means(e, told'[Len(told')])   BY <1>3, <1>5
  <2>2. TellsUser(ApplyToUser(LoadUser(stream), e), told')
    BY <1>2, <1>5, <1>9, <1>10, <2>1, TellingGrows
  <2> QED BY <1>9, <2>2
<1> QED BY <1>2, <1>4, <1>5, <1>7, <1>11

(* What is told later keeps what a patch showed.                           *)
LEMMA PatchIsKept ==
    ASSUME PatchTyped, PatchKept, patch' = patch, Len(told) \in Nat, Len(told') \in Nat,
           Len(told) <= Len(told'), \A i \in 1..Len(told) : told'[i] = told[i]
    PROVE  PatchTyped' /\ PatchKept'
<1>1. \A i \in 1..Len(told) : i \in 1..Len(told')   OBVIOUS
<1>2. PatchTyped'   BY DEF PatchTyped
<1>3. patch.pc \in UnderWay => \E i \in 1..Len(told') : told'[i].tag = "UserRegistered"
  BY <1>1 DEF PatchKept
<1>4. OwnIsStored => OwnIsStored'   BY <1>1 DEF OwnIsStored
<1>5. ASSUME NEW f \in Fields, patch.pc = "done", Shown(f) PROVE Shown(f)'
  <2>1. patch.own \in Nat   BY <1>5 DEF PatchTyped, UnderWay
  <2>2. \A i \in patch.own + 1..Len(told) : i \in patch.own + 1..Len(told') /\ told'[i] = told[i]
    BY <2>1
  <2> QED BY <1>5, <2>2 DEF Shown, Spoke
<1>6. RegisteredLater => RegisteredLater'
  <2> SUFFICES ASSUME RegisteredLater PROVE RegisteredLater'   OBVIOUS
  <2>1. patch.own \in Nat /\ patch.own <= Len(told)   BY DEF RegisteredLater
  <2>2. ASSUME NEW i \in 1..Len(told'), told'[i].tag = "UserRegistered" PROVE i > patch.own
    <3>1. CASE i \in 1..Len(told)   BY <2>2, <3>1 DEF RegisteredLater
    <3>2. CASE i > Len(told)   BY <2>1, <3>2
    <3> QED BY <3>1, <3>2
  <2> QED BY <2>1, <2>2 DEF RegisteredLater
<1>7. PatchKept'   BY <1>3, <1>4, <1>5, <1>6 DEF PatchKept
<1> QED BY <1>2, <1>7

(* A garbled event means nothing.                                          *)
LEMMA GarbledMeansNothing ==
    ASSUME NEW kind \in {"mismatch", "untagged", "foreign"}, Garble(kind)
    PROVE  \E type, data : /\ Store(type, data, Undecodable)
                           /\ Means([type |-> type, data |-> data], Undecodable)
<1>2. CASE kind = "mismatch"
  <2> DEFINE c == [tag |-> "UserProfileUpdated", at |-> MaxTime, full_name |-> Null, avatar_url |-> Null]
             e == [type |-> "identity.user.registered", data |-> Encode(c)]
  <2>1. Store("identity.user.registered", Encode(c), Undecodable)   BY <1>2 DEF Garble
  <2>2. Encode(c)["tag"] = "UserProfileUpdated"   BY DEF Encode
  <2>3. Decode(e) = Undecodable   BY <2>2 DEF Decode, EventType
  <2>4. Means(e, Undecodable)   BY <2>3 DEF Means, Undecodable
  <2> QED BY <2>1, <2>4
<1>3. CASE kind = "untagged"
  <2> DEFINE data == [at |-> MaxTime, full_name |-> Null]
             e == [type |-> "identity.user.profile_updated", data |-> data]
  <2>1. Store("identity.user.profile_updated", data, Undecodable)   BY <1>3 DEF Garble
  <2>2. "tag" \notin DOMAIN data   OBVIOUS
  <2>3. Decode(e) = Undecodable   BY <2>2 DEF Decode
  <2>4. Means(e, Undecodable)   BY <2>3 DEF Means, Undecodable
  <2> QED BY <2>1, <2>4
<1>4. CASE kind = "foreign"
  <2> DEFINE data == [tag |-> "PostDeleted", at |-> MaxTime]
             e == [type |-> "content.post.deleted", data |-> data]
  <2>1. Store("content.post.deleted", data, Undecodable)   BY <1>4 DEF Garble
  <2>2. Decode(e).tag \in {"error", "PostDeleted"}
    <3>1. Decode(e) = Undecodable \/ Decode(e)["tag"] = data["tag"]   BY DEF Decode, Fields
    <3> QED BY <3>1 DEF Undecodable
  <2>3. Means(e, Undecodable)   BY <2>2 DEF Means, Undecodable
  <2> QED BY <2>1, <2>3
<1> QED BY <1>2, <1>3, <1>4

(* A command appended by another writer leaves the patch as it is.         *)
LEMMA OthersTell ==
    ASSUME ProfilesInv, NEW type, NEW data, NEW said, Store(type, data, said),
           Means([type |-> type, data |-> data], said),
           said \in Command \cup {Undecodable}, patch' = patch
    PROVE  ProfilesInv'
<1>1. /\ StreamMeans' /\ TellsUser(LoadUser(stream), told)'
      /\ Len(told') = Len(told) + 1 /\ Len(told) \in Nat
      /\ \A i \in 1..Len(told) : told'[i] = told[i]
  BY StoreTells
<1>2. PatchTyped' /\ PatchKept'
  <2>1. Len(told') \in Nat /\ Len(told) <= Len(told')   BY <1>1
  <2> QED BY <1>1, <2>1, PatchIsKept DEF ProfilesInv
<1> QED BY <1>1, <1>2 DEF ProfilesInv

(* A patch that is answered shows itself or what was written over it.      *)
LEMMA ReloadShows ==
    ASSUME QueryAddsTenant = TRUE, ProfilesInv, Reload
    PROVE  PatchTyped' /\ PatchKept'
<1> DEFINE u == LoadUser(stream)
<1>1. /\ patch.pc = "reload" /\ patch' = [patch EXCEPT !.pc = "done", !.answer = u]
      /\ told' = told /\ TellsUser(u, told)
      /\ patch \in [pc : UnderWay, said : Patches, patch : Patches, at : Times,
                    own : Nat, answer : Users]
      /\ patch.patch = patch.said /\ OwnIsStored
      /\ \E i \in 1..Len(told) : told[i].tag = "UserRegistered"
  BY AllIsFound DEF Reload, ProfilesInv, PatchTyped, PatchKept, UnderWay
<1>2. u \in Users
  <2>1. Envelopes(stream) /\ \A i \in 1..Len(stream) : Means(stream[i], told[i])
    BY DEF ProfilesInv, StreamMeans
  <2>2. Readable(stream)   BY <2>1 DEF Envelopes, Readable
  <2>3. PICK user : Loads(user, stream)   BY <2>2, ReadingExists
  <2> QED BY <2>2, <2>3 DEF Loads, Readable
<1> HIDE DEF u
<1>3. /\ patch'.pc = "done" /\ patch'.answer = u /\ patch'.said = patch.said
      /\ patch'.patch = patch.patch /\ patch'.own = patch.own
      /\ patch' \in [pc : UnderWay, said : Patches, patch : Patches, at : Times,
                     own : Nat, answer : Users]
  BY <1>1, <1>2 DEF UnderWay
<1>4. PatchTyped'   BY <1>3 DEF PatchTyped, UnderWay
<1>5. OwnIsStored'   BY <1>1, <1>3 DEF OwnIsStored
<1>6. PICK l : Profile(u, told, l)   BY <1>1 DEF TellsUser
<1> DEFINE o == patch.own
<1>7. o \in 1..Len(told) /\ told[o].tag = "UserProfileUpdated"
      /\ \A f \in Fields : told[o][f] = patch.said[f]
  BY <1>1 DEF OwnIsStored
<1> HIDE DEF o
<1>8. ASSUME NEW f \in Fields
      PROVE  \/ patch.said[f] = Unchanged \/ u[f] = patch.said[f]
             \/ \E i \in o + 1..Len(told) : Spoke(told, i, f) \/ told[i].tag = "UserRegistered"
  <2>1. /\ l \in 1..Len(told) /\ told[l].tag = "UserRegistered" /\ Latest(u, told, l, f)
    BY <1>6 DEF Profile, Fields
  <2>2. CASE l > o
    <3>1. l \in o + 1..Len(told)   BY <1>7, <2>1, <2>2
    <3> QED BY <2>1, <3>1
  <2>3. CASE ~(l > o) /\ patch.said[f] # Unchanged
    <3>1. PICK i \in l..Len(told) :
             /\ Spoke(told, i, f) /\ u[f] = told[i][f]
             /\ \A j \in i + 1..Len(told) : ~Spoke(told, j, f)
      BY <2>1 DEF Latest
    <3>2. Spoke(told, o, f)   BY <1>7, <2>3 DEF Spoke
    <3>3. o \notin i + 1..Len(told)   BY <3>1, <3>2
    <3>4. i = o \/ i \in o + 1..Len(told)   BY <1>7, <2>1, <3>3
    <3> QED BY <1>7, <3>1, <3>4
  <2> QED BY <2>2, <2>3
<1>9. \A f \in Fields : Shown(f)'   BY <1>1, <1>3, <1>8 DEF Shown, Spoke, o
<1> QED BY <1>1, <1>3, <1>4, <1>5, <1>9 DEF PatchKept

(* An appended patch is on the stream as it was said.                      *)
LEMMA AppendStoresThePatch ==
    ASSUME ProfilesInv, AppendPatch
    PROVE  ProfilesInv'
<1> DEFINE c == PatchEvent(patch.patch)
<1>1. /\ patch.pc = "append" /\ patch.patch = patch.said
      /\ patch \in [pc : UnderWay, said : Patches, patch : Patches, at : Times,
                    own : Nat, answer : Users]
      /\ \E i \in 1..Len(told) : told[i].tag = "UserRegistered"
  BY DEF AppendPatch, ProfilesInv, PatchTyped, PatchKept, UnderWay
<1>2. PICK p \in Patches : p = patch.said /\ p = patch.patch   BY <1>1
<1>3. c = [tag |-> "UserProfileUpdated", at |-> patch.at,
           full_name |-> p.full_name, avatar_url |-> p.avatar_url]
  BY <1>2 DEF PatchEvent
<1>4. patch.at \in Times   BY <1>1
<1>5. Means([type |-> EventType(c.tag), data |-> Encode(c)], c)   BY <1>3, <1>4, PatchMeans
<1>6. c \in Command /\ \A f \in Fields : c[f] = p[f]
  BY <1>3, <1>4 DEF Command, Patches, Told, Fields
<1>7. Store(EventType(c.tag), Encode(c), c)   BY <1>2 DEF AppendPatch
<1>8. c.tag = "UserProfileUpdated"   BY <1>3
<1> HIDE DEF c
<1>9. /\ StreamMeans' /\ TellsUser(LoadUser(stream), told)'
      /\ Len(told') = Len(told) + 1 /\ Len(told) \in Nat /\ told'[Len(told) + 1] = c
      /\ \A i \in 1..Len(told) : told'[i] = told[i]
      /\ Len(stream') = Len(told')
  BY <1>5, <1>6, <1>7, StoreTells
<1>10. \E i \in 1..Len(told') : told'[i].tag = "UserRegistered"
  <2>1. \A i \in 1..Len(told) : i \in 1..Len(told')   BY <1>9
  <2> QED BY <1>1, <1>9, <2>1
<1>11. CASE patch' = [NoPatch EXCEPT !.pc = "failed"]
  BY <1>9, <1>11 DEF ProfilesInv, PatchTyped, PatchKept, NoPatch, UnderWay
<1>12. CASE patch' = [patch EXCEPT !.pc = "reload", !.own = Len(stream')]
  <2>1. /\ patch'.pc = "reload" /\ patch'.own = Len(told') /\ patch'.said = p /\ patch'.patch = p
        /\ patch' \in [pc : UnderWay, said : Patches, patch : Patches, at : Times,
                       own : Nat, answer : Users]
    <3>1. Len(stream') \in Nat   BY <1>9
    <3>2. patch'.pc = "reload" /\ patch'.own = Len(stream') /\ patch'.said = patch.said
          /\ patch'.patch = patch.patch
      BY <1>1, <1>12
    <3>3. patch' \in [pc : UnderWay, said : Patches, patch : Patches, at : Times,
                      own : Nat, answer : Users]
      BY <1>1, <1>12, <3>1 DEF UnderWay
    <3> QED BY <1>2, <1>9, <3>2, <3>3
  <2>2. OwnIsStored'
    <3>1. Len(told') \in 1..Len(told') /\ told'[Len(told')] = c   BY <1>9
    <3> QED BY <1>6, <1>8, <2>1, <3>1 DEF OwnIsStored
  <2>3. PatchTyped' /\ PatchKept'
    BY <1>10, <2>1, <2>2 DEF PatchTyped, PatchKept, UnderWay
  <2> QED BY <1>9, <2>3 DEF ProfilesInv
<1> QED BY <1>11, <1>12 DEF AppendPatch

(* Every step keeps the stream told and the patch kept.                    *)
LEMMA ProfilesKept ==
    ASSUME QueryAddsTenant = TRUE, ProfilesInv, [ProfilesNext]_profileVars
    PROVE  ProfilesInv'
<1>0. ASSUME UNCHANGED <<stream, told>>, PatchTyped', PatchKept' PROVE ProfilesInv'
  BY <1>0 DEF ProfilesInv, StreamMeans
<1>1. ASSUME NEW name \in Texts \cup {Null}, NEW when \in Times,
             NEW build \in {"older", "current", "newer"}, Register(name, when, build)
      PROVE  ProfilesInv'
  <2> DEFINE c == Registered(name, when)
             data == CASE build = "older"   -> Without(Encode(c), Fields)
                       [] build = "current" -> Encode(c)
                       [] build = "newer"   -> With(Encode(c), "redacted_by")
  <2>1. /\ Store("identity.user.registered", data, c) /\ patch' = patch
        /\ build = "older" => name = Null
    BY <1>1 DEF Register
  <2>2. \/ data = Encode(c) \/ data = With(Encode(c), "redacted_by")
        \/ name = Null /\ data = Without(Encode(c), Fields)
    BY <2>1
  <2>3. Means([type |-> "identity.user.registered", data |-> data], c)
    <3> HIDE DEF data
    <3> QED BY <2>2, RegistrationMeans
  <2>4. c \in Command   BY DEF Registered, Command, Told
  <2> HIDE DEF data, c
  <2> QED BY <2>1, <2>3, <2>4, OthersTell
<1>2. ASSUME NEW kind \in {"mismatch", "untagged", "foreign"}, Garble(kind) PROVE ProfilesInv'
  <2>1. patch' = patch   BY <1>2 DEF Garble
  <2> QED BY <1>2, <2>1, GarbledMeansNothing, OthersTell
<1>3. ASSUME NEW p \in Patches, NEW when \in Times, BeginPatch(p, when) PROVE ProfilesInv'
  <2>1. /\ LoadUser(stream) # NoUser /\ UNCHANGED <<stream, told>>
        /\ patch' = [pc |-> "append", said |-> p, patch |-> p, at |-> when, own |-> 0,
                     answer |-> NoUser]
    BY <1>3, ReceivedIsSaid, AllIsFound DEF BeginPatch
  <2>2. PICK l : Profile(LoadUser(stream), told, l)   BY <2>1 DEF ProfilesInv, TellsUser
  <2>3. \E i \in 1..Len(told) : told[i].tag = "UserRegistered"   BY <2>2 DEF Profile
  <2>4. PatchTyped' /\ PatchKept'
    BY <2>1, <2>3 DEF PatchTyped, PatchKept, UnderWay, Users
  <2> QED BY <1>0, <2>1, <2>4
<1>8. ASSUME NEW p \in Patches, NEW owner \in BOOLEAN, RefusePatch(p, owner) PROVE ProfilesInv'
  <2>1. /\ UNCHANGED <<stream, told>>
        /\ patch'.pc \in {"not_found", "forbidden", "invalid"} /\ patch'.own = Len(stream)
        /\ patch'.pc = "not_found" => LoadUser(stream) = NoUser
    BY <1>8, AllIsFound DEF RefusePatch, NoPatch
  <2>2. ASSUME LoadUser(stream) = NoUser PROVE RegisteredLater'
    <3>1. \A i \in 1..Len(told) : told[i].tag # "UserRegistered"
      BY <2>2 DEF ProfilesInv, TellsUser, Profile
    <3>2. Len(stream) \in Nat /\ Len(stream) = Len(told)   BY DEF ProfilesInv, StreamMeans
    <3> QED BY <2>1, <3>1, <3>2 DEF RegisteredLater
  <2>3. PatchTyped' /\ PatchKept'   BY <2>1, <2>2 DEF PatchTyped, PatchKept, UnderWay
  <2> QED BY <1>0, <2>1, <2>3
<1>4. ASSUME AppendPatchFails \/ NextPatch PROVE ProfilesInv'
  <2>1. UNCHANGED <<stream, told>> /\ patch'.pc \in {"none", "failed"}
    BY <1>4 DEF AppendPatchFails, NextPatch, NoPatch
  <2>2. PatchTyped' /\ PatchKept'   BY <2>1 DEF PatchTyped, PatchKept, UnderWay
  <2> QED BY <1>0, <2>1, <2>2
<1>5. CASE AppendPatch   BY <1>5, AppendStoresThePatch
<1>6. CASE Reload
  <2>1. UNCHANGED <<stream, told>>   BY <1>6 DEF Reload
  <2> QED BY <1>0, <1>6, <2>1, ReloadShows
<1>7. CASE UNCHANGED profileVars
  <2>1. PatchTyped' /\ PatchKept'
    BY <1>7 DEF ProfilesInv, PatchTyped, PatchKept, OwnIsStored, Shown, RegisteredLater, profileVars
  <2> QED BY <1>0, <1>7, <2>1 DEF profileVars
<1> QED BY <1>1, <1>2, <1>3, <1>4, <1>5, <1>6, <1>7, <1>8 DEF ProfilesNext

(* What is told of the user, in the words of the property.                 *)
LEMMA ToldIsSaid ==
    ASSUME QueryAddsTenant = TRUE, ProfilesInv
    PROVE  ProfileIsWhatWasSaid
<1> DEFINE user == LoadUser(stream)
<1>a. FoundUser = user   BY AllIsFound
<1>1. TellsUser(user, told) /\ DOMAIN told = 1..Len(told) /\ Len(told) \in Nat
  BY DEF ProfilesInv, StreamMeans
<1> HIDE DEF user
<1>2. CASE user = NoUser /\ \A i \in 1..Len(told) : told[i].tag # "UserRegistered"
  <2>1. LastRegistration = 0   BY <1>1, <1>2 DEF LastRegistration, Registrations
  <2> QED BY <1>a, <1>2, <2>1 DEF ProfileIsWhatWasSaid
<1>3. ASSUME NEW l, Profile(user, told, l) PROVE ProfileIsWhatWasSaid
  <2>1. /\ l \in 1..Len(told) /\ told[l].tag = "UserRegistered"
        /\ \A j \in l + 1..Len(told) : told[j].tag # "UserRegistered"
        /\ user # NoUser /\ user.created = told[l].at
        /\ Latest(user, told, l, "full_name") /\ Latest(user, told, l, "avatar_url")
        /\ \A i \in l..Len(told) : told[i].tag # "error" => told[i].at <= user.updated
        /\ \E i \in l..Len(told) : told[i].tag # "error" /\ told[i].at = user.updated
    BY <1>3 DEF Profile
  <2>2. LastRegistration = l
    <3>1. l \in Registrations /\ Registrations \subseteq Nat   BY <1>1, <2>1 DEF Registrations
    <3>2. \A j \in Registrations : j <= l   BY <1>1, <2>1 DEF Registrations
    <3>3. \A i \in Registrations : (\A j \in Registrations : j <= i) => i = l
      BY <3>1, <3>2
    <3> QED BY <3>1, <3>2, <3>3 DEF LastRegistration
  <2>3. Since = {i \in l..Len(told) : told[i].tag # "error"}   BY <1>1, <2>1, <2>2 DEF Since
  <2>4. ASSUME NEW f \in Fields PROVE user[f] = LastSaid(f)
    <3>1. Latest(user, told, l, f)   BY <2>1 DEF Fields
    <3>2. PICK i \in l..Len(told) :
             /\ Spoke(told, i, f) /\ user[f] = told[i][f]
             /\ \A j \in i + 1..Len(told) : ~Spoke(told, j, f)
      BY <3>1 DEF Latest
    <3> DEFINE Is(k) == /\ told[k][f] # Unchanged
                        /\ \A j \in Since : j > k => told[j][f] = Unchanged
    <3>3. i \in Since /\ Is(i)   BY <1>1, <2>1, <2>3, <3>2 DEF Spoke
    <3>4. \A k \in Since : Is(k) => k = i
      <4> SUFFICES ASSUME NEW k \in Since, Is(k) PROVE k = i   OBVIOUS
      <4>1. k \in Nat /\ i \in Nat   BY <1>1, <2>1, <2>3
      <4>2. ~(i > k)   BY <3>2, <3>3 DEF Spoke
      <4>3. ~(k > i)
        BY <2>3, <3>3
      <4> QED BY <4>1, <4>2, <4>3
    <3>5. (CHOOSE k \in Since : Is(k)) = i
      <4> HIDE DEF Is
      <4> QED BY <3>3, <3>4
    <3>6. LastSaid(f) = told[i][f]   BY <3>5 DEF LastSaid
    <3> QED BY <3>2, <3>6
  <2>5. l # 0   BY <2>1
  <2> QED BY <2>1, <2>2, <2>3, <2>4, <2>5, <1>a DEF ProfileIsWhatWasSaid
<1> QED BY <1>1, <1>2, <1>3 DEF TellsUser

(* What a patch shows, in the words of the property.                       *)
LEMMA ShownIsItself == ProfilesInv => PatchShowsItself
<1> SUFFICES ASSUME ProfilesInv, patch.pc = "done", NEW f \in Fields
             PROVE  \/ patch.said[f] = Unchanged \/ patch.answer[f] = patch.said[f]
                    \/ \E i \in Since : i > patch.own /\ told[i][f] # Unchanged
                    \/ LastRegistration > patch.own
  BY DEF PatchShowsItself
<1>1. Shown(f) /\ OwnIsStored   BY DEF ProfilesInv, PatchKept
<1>2. DOMAIN told = 1..Len(told) /\ Len(told) \in Nat   BY DEF ProfilesInv, StreamMeans
<1>3. patch.own \in 1..Len(told)   BY <1>1 DEF OwnIsStored
<1>4. /\ LastRegistration \in 0..Len(told)
      /\ \A i \in 1..Len(told) : told[i].tag = "UserRegistered" => i <= LastRegistration
  <2>1. CASE Registrations = {}
    <3>1. LastRegistration = 0   BY <2>1 DEF LastRegistration
    <3> QED BY <1>2, <2>1, <3>1 DEF Registrations
  <2>2. CASE Registrations # {}
    <3>1. Registrations \in SUBSET (0..Len(told))   BY <1>2 DEF Registrations
    <3>2. \E i \in Registrations : \A j \in Registrations : j <= i
      BY <1>2, <2>2, <3>1, GreatestNat
    <3>3. LastRegistration \in Registrations /\ \A j \in Registrations : j <= LastRegistration
      BY <2>2, <3>2 DEF LastRegistration
    <3> QED BY <1>2, <3>1, <3>3 DEF Registrations
  <2> QED BY <2>1, <2>2
<1>5. ASSUME NEW i \in patch.own + 1..Len(told), told[i].tag = "UserRegistered"
      PROVE  LastRegistration > patch.own
  <2>1. i \in 1..Len(told) /\ i > patch.own   BY <1>2, <1>3
  <2>2. i <= LastRegistration   BY <1>4, <1>5, <2>1
  <2> QED BY <1>3, <1>4, <2>1, <2>2
<1>6. ASSUME NEW i \in patch.own + 1..Len(told), Spoke(told, i, f), ~(LastRegistration > patch.own)
      PROVE  i \in Since /\ i > patch.own /\ told[i][f] # Unchanged
  <2>1. i \in 1..Len(told) /\ i > patch.own /\ i >= LastRegistration   BY <1>2, <1>3, <1>4, <1>6
  <2> QED BY <1>2, <1>6, <2>1 DEF Since, Spoke
<1> QED BY <1>1, <1>5, <1>6 DEF Shown

(* For any texts, clocks, writers and orders of their events, the profile  *)
(* that is read is what was said, a PATCH is answered with itself, and     *)
(* only a user nobody registered is not found: behind a query that names   *)
(* the tenant: Core itself answers every read of a profile with nothing.   *)
THEOREM ProfilesSurvive ==
    QueryAddsTenant = TRUE => (ProfilesSpec => []ProfilesSurviveTheWire)
<1> SUFFICES ASSUME QueryAddsTenant = TRUE PROVE ProfilesSpec => []ProfilesSurviveTheWire
  OBVIOUS
<1>1. ProfilesInv => ProfilesSurviveTheWire
  <2>1. ProfilesInv => NotFoundMeansNoStream
    BY DEF ProfilesInv, StreamMeans, PatchKept, RegisteredLater, NotFoundMeansNoStream, Registrations
  <2> QED BY <2>1, ToldIsSaid, ShownIsItself DEF ProfilesSurviveTheWire
<1>2. ProfilesInv /\ [ProfilesNext]_profileVars => ProfilesInv'   BY ProfilesKept
<1> QED BY ProfilesStart, <1>1, <1>2, PTL DEF ProfilesSpec

=============================================================================
