------------------------------ MODULE MCSurfaces ------------------------------
(***************************************************************************)
(* The components around the posts and the accounts, each on its own: a    *)
(* behaviour exercises one of them, its subject, and the others rest in    *)
(* their initial states.  They share no state in the code either.          *)
(***************************************************************************)
EXTENDS Widgets, Drafts, UserProfiles, Release, Gate, BrowserSession,
        RateLimiter, AuthDispatch, ApiProcess

VARIABLE subject

Subjects == {"select", "motion", "tabs", "drafts", "profiles", "release", "gate", "browser",
             "limiter", "dispatch", "process"}

surfacesVars == <<subject, selectVars, motionVars, tabVars, draftVars, profileVars, releaseVars,
                  gateVars, browserVars, limiterVars, dispatchVars, processVars>>

-----------------------------------------------------------------------------

\* The drop-down: two words shared by two labels, and a query without a match.
SelectOptions == <<"ada", "bea", "cy">>
SelectWords == [ada |-> {"a", "d"}, bea |-> {"a", "b"}, cy |-> {"c"}]
SelectQueries == {{}, {"a"}, {"a", "b"}, {"z"}}

\* The builds of a release: a page that is linked to and its index, every way the
\* pages and the module script can name the assets; one fault at a time; no output.
ReleasePaths == <<"about", "index">>
ReleaseScripts == {"main.js", "app.wasm"}
ReleaseBodies == [boot |-> {"style.css"}, theme |-> {}]
ReleaseNames == [boot |-> "boot.js", theme |-> "theme.js"]
ReleaseInside == {<<"main.js", "old-main.js">>}

Page(names, modules, inline, faults) ==
    [names |-> names, modules |-> modules, inline |-> inline, faults |-> faults]

Mentions(script, module) ==
    [a \in {"main.js", "app.wasm", "style.css"} |->
        IF a = "main.js" THEN script ELSE IF a = "app.wasm" THEN module ELSE {}]

AnyBuild ==
    [pages : [about : {Page(n, {}, i, {}) : n \in {{}, {"style.css"}}, i \in {{}, {"boot"}}},
              index : {Page(n, m, i, {}) : n \in {{}, {"app.wasm"}, {"old-main.js"}},
                                           m \in {{}, {"main.js"}}, i \in {{}, {"boot", "theme"}}}],
     mentions : {Mentions(s, m) : s \in SUBSET {"app.wasm", "style.css"}, m \in {{}, {"style.css"}}},
     identified : {{"app.wasm"}}, leaky : {{}, {"style.css"}}, missing : {FALSE}]

PlainBuild ==
    [pages |-> [about |-> Page({"style.css"}, {}, {}, {}), index |-> Page({}, {"main.js"}, {"boot"}, {})],
     mentions |-> Mentions({"app.wasm"}, {}), identified |-> {"app.wasm"}, leaky |-> {}, missing |-> FALSE]

PageFaults == {"unlinked", "handler", "unclosed", "odd_module", "placeholder", "forbidden_origin",
               "starter", "anonymous", "unsummarised", "indexable", "untitled"}

ReleaseBuilds ==
    <<AnyBuild
        \cup {[PlainBuild EXCEPT !.pages[p].faults = {f}] : p \in {"about", "index"}, f \in PageFaults}
        \cup {[PlainBuild EXCEPT !.missing = TRUE]},
      {PlainBuild}>>

\* The limiter behind none, one or two proxies, and what clients put in the header.
LimiterProxies == <<"edge", "inner">>
LimiterHeaders == {<<>>, <<"stranger">>, <<"bob", "blank">>, <<"not_text">>, <<"blank">>}

\* Two plugins, the first of which names users; a path of each kind is disabled.
DispatchPlugins == <<"api_key", "email_password">>
DispatchRoutes == [api_key |-> {[method |-> "post", path |-> "/api-key/create"]},
                   email_password |-> {[method |-> "post", path |-> "/sign-in/email"],
                                       [method |-> "post", path |-> "/sign-up/email"]}]

\* The tabs, and a view that none of them has.
SurfaceTabs == <<"posts", "people", "drafts">>
SurfaceViews == {"posts", "drafts", "gone"}

\* The lines an edit may write: the words of the greps, with their own opt-out, another's
\* or none, a raw element, and a comment with the marker that excuses one.
GateApps == <<"web", "app">>
Line(kind, word, mark) == [kind |-> kind, word |-> word, mark |-> mark]
GateLines ==
    {Line("comment", "none", "isa-raw-ok"), Line("element", "none", "none"),
     Line("code", "hue", "none"), Line("code", "hue", "hue-scan-ok"),
     Line("comment", "predecessor", "hue-scan-ok")}

\* A process is started with every setting, or with one at fault.
WholeEnvironment ==
    [core_url |-> "set", query_url |-> "set", port |-> "set", cors |-> "set", hops |-> "set",
     oauth |-> "set", api_key |-> "set", jwt |-> "set", auth_url |-> "set", metrics |-> "set",
     analytics |-> "set", traces |-> "set"]
ProcessEnvironments ==
    {WholeEnvironment}
    \cup {[WholeEnvironment EXCEPT ![n] = v] : n \in DOMAIN WholeEnvironment, v \in {"absent", "bad"}}
    \cup {[WholeEnvironment EXCEPT ![n] = "odd"] : n \in {"core_url", "query_url"}}
    \cup {[WholeEnvironment EXCEPT ![n] = "taken"] : n \in {"metrics", "port"}}

-----------------------------------------------------------------------------

SurfacesInit ==
    /\ subject \in Subjects
    /\ SelectInit /\ MotionInit /\ DraftsInit /\ ProfilesInit /\ ReleaseInit /\ GateInit
    /\ DispatchInit
    /\ TabsInit /\ (subject # "tabs" => view = TabValues[1])
    /\ LimiterInit /\ (subject # "limiter" => trusted = 0)
    /\ BrowserInit /\ (subject # "browser" => cookie = 0 /\ issued[1].user = "ann")
    /\ ProcessInit /\ (subject # "process" => settings = WholeEnvironment)

Others(vars) == UNCHANGED subject /\ UNCHANGED vars

SurfacesNext ==
    \/ /\ subject = "select" /\ SelectNext
       /\ Others(<<motionVars, tabVars, draftVars, profileVars, releaseVars,
                   gateVars, browserVars, limiterVars, dispatchVars, processVars>>)
    \/ /\ subject = "motion" /\ MotionNext
       /\ Others(<<selectVars, tabVars, draftVars, profileVars, releaseVars,
                   gateVars, browserVars, limiterVars, dispatchVars, processVars>>)
    \/ /\ subject = "tabs" /\ TabsNext
       /\ Others(<<selectVars, motionVars, draftVars, profileVars, releaseVars,
                   gateVars, browserVars, limiterVars, dispatchVars, processVars>>)
    \/ /\ subject = "drafts" /\ DraftsNext
       /\ Others(<<selectVars, motionVars, tabVars, profileVars, releaseVars,
                   gateVars, browserVars, limiterVars, dispatchVars, processVars>>)
    \/ /\ subject = "profiles" /\ ProfilesNext
       /\ Others(<<selectVars, motionVars, tabVars, draftVars, releaseVars,
                   gateVars, browserVars, limiterVars, dispatchVars, processVars>>)
    \/ /\ subject = "release" /\ ReleaseNext
       /\ Others(<<selectVars, motionVars, tabVars, draftVars, profileVars,
                   gateVars, browserVars, limiterVars, dispatchVars, processVars>>)
    \/ /\ subject = "gate" /\ GateNext
       /\ Others(<<selectVars, motionVars, tabVars, draftVars, profileVars,
                   releaseVars, browserVars, limiterVars, dispatchVars, processVars>>)
    \/ /\ subject = "browser" /\ BrowserNext
       /\ Others(<<selectVars, motionVars, tabVars, draftVars, profileVars,
                   releaseVars, gateVars, limiterVars, dispatchVars, processVars>>)
    \/ /\ subject = "limiter" /\ LimiterNext
       /\ Others(<<selectVars, motionVars, tabVars, draftVars, profileVars,
                   releaseVars, gateVars, browserVars, dispatchVars, processVars>>)
    \/ /\ subject = "dispatch" /\ DispatchNext
       /\ Others(<<selectVars, motionVars, tabVars, draftVars, profileVars,
                   releaseVars, gateVars, browserVars, limiterVars, processVars>>)
    \/ /\ subject = "process" /\ ProcessNext
       /\ Others(<<selectVars, motionVars, tabVars, draftVars, profileVars,
                   releaseVars, gateVars, browserVars, limiterVars, dispatchVars>>)

SurfacesSpec == SurfacesInit /\ [][SurfacesNext]_surfacesVars
=============================================================================
