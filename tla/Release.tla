------------------------------- MODULE Release -------------------------------
(***************************************************************************)
(* Staging a release, tooling/xtask/src/discovery.rs: `stage-web' and      *)
(* `stage-app' copy a build into a directory that is deployed from, and    *)
(* rewrite, check and prune it there.  Every step may fail, by its own     *)
(* check or by an error of the file system, and what was done so far stays *)
(* on disk; the next invocation starts by removing it.                     *)
(*                                                                         *)
(* A page is what the checks look for: its faults, the bodies of its plain *)
(* inline scripts, the assets its module scripts load and the names it     *)
(* mentions elsewhere.  An asset is its name; what it mentions is in the   *)
(* build.                                                                  *)
(***************************************************************************)
EXTENDS Integers, Sequences, SequencesExt, FiniteSets

CONSTANTS Builds,       \* Builds[n]: the outputs the n-th invocation may find
          Paths,        \* the pages of a build in path order, "index" among them
          Scripts,      \* the assets with extension js or wasm
          BodyMentions, \* BodyMentions[b]: the assets an inline script mentions
          RuntimeName,  \* RuntimeName[b]: the asset it becomes, named by its hash
          Inside        \* pairs <<a, n>>: the name a occurs within the name n

\* An output has the pages of its paths, and finitely many assets.
Outputs ==
    /\ Paths \in Seq(Range(Paths)) /\ "index" \in Range(Paths)
    /\ IsFiniteSet(DOMAIN BodyMentions)
    /\ Builds \in Seq(Range(Builds))
    /\ \A build \in UNION Range(Builds) :
          /\ IsFiniteSet(DOMAIN build.mentions)
          /\ build.pages = [p \in Range(Paths) |-> build.pages[p]]
          /\ \A p \in Range(Paths) : LET page == build.pages[p] IN
                /\ page = [names |-> page.names, modules |-> page.modules,
                           inline |-> page.inline, faults |-> page.faults]
                /\ page.inline \subseteq DOMAIN BodyMentions
ASSUME OutputsAssumption == Outputs

Tools == {"web", "app"}
Runtimes == {"static", "hydrate"}

\* The variables each tool needs, any of which may be unset or malformed; Google's file
\* may be unset.
ReadsOf == [web |-> {"site_url", "app_url", "product_name", "summary", "last_modified",
                     "runtime", "google_file", "social_image"},
            app |-> {"site_url", "api_url", "product_name"}]

\* What each page check rejects, in web and in app.
LeftoverScript == {"unclosed", "odd_module"}
Rejected == {"placeholder", "forbidden_origin", "starter", "anonymous"}

VARIABLES dest,         \* dest[tool]: the staged directory
          staging,      \* the invocation under way, or how the last one ended
          invocations,
          online,       \* what was deployed of the site: [robots, routes, key]
          announced     \* what was online when IndexNow was told of it

releaseVars == <<dest, staging, invocations, online, announced>>
siteVars == <<online, announced>>

-----------------------------------------------------------------------------

Absent == [pages |-> <<>>, assets |-> {}, robots |-> FALSE, routes |-> {}, key |-> FALSE]
Offline == [robots |-> FALSE, routes |-> {}, key |-> FALSE]

Bodies(names) == {b \in DOMAIN BodyMentions : RuntimeName[b] \in names}

\* contains_bytes: an asset's name occurs in a text that mentions it, or mentions a
\* longer name around it.
Occurring(names) == names \cup {pair[1] : pair \in {q \in Inside : q[2] \in names}}

MentionedBy(build, assets) ==
    UNION {build.mentions[a] : a \in assets \cap DOMAIN build.mentions}
        \cup UNION {BodyMentions[b] : b \in Bodies(assets)}

\* The raw text of the pages, the bodies of scripts that were left inline included.
OfPages(pages) ==
    UNION {pages[p].names \cup pages[p].modules : p \in DOMAIN pages}
        \cup UNION {BodyMentions[b] : b \in UNION {pages[p].inline : p \in DOMAIN pages}}

\* A defect: a single pass over the candidates.
PrunedOnce(build, pages, candidates) ==
    LET named == candidates \cap Occurring(OfPages(pages))
    IN  named \cup (candidates \cap Occurring(MentionedBy(build, named)))

\* prune_unreferenced_assets: passes over the candidates until one adds nothing.
Pruned(build, pages, candidates) ==
    LET reached[n \in Nat] ==
            IF n = 0 THEN candidates \cap Occurring(OfPages(pages))
            ELSE reached[n - 1] \cup
                    (candidates \cap Occurring(MentionedBy(build, reached[n - 1])))
    IN  reached[Cardinality(candidates)]

\* externalize_runtime: every plain inline script becomes an asset named by its hash.
ExternalizeRuntime(page) ==
    [page EXCEPT !.inline = {}, !.names = @ \cup {RuntimeName[b] : b \in page.inline}]

\* strip_runtime: plain and module scripts go.
StripRuntime(page) == [page EXCEPT !.inline = {}, !.modules = {}]

\* remove_script_assets: what a static site has no use for.
RemoveScriptAssets(assets) == assets \ Scripts

\* replace_title: a title must be there, and closed.
Untitled(page) == "untitled" \in page.faults

\* extension_contains and bundle_contains: some module names the product and its origins;
\* no file names an origin of development.
Identified(build, assets) == assets \cap build.identified # {}
Leaks(build, bundle) ==
    \/ bundle.assets \cap build.leaky # {}
    \/ \E p \in DOMAIN bundle.pages : "forbidden_origin" \in bundle.pages[p].faults

\* route_for_html: a directory's index is the directory.
RouteForHtml(path) == IF path = "index" THEN "/" ELSE path

\* The checks one page of the site must pass, on what it is rewritten to.
PageStages(page, runtime) ==
    /\ "unlinked" \notin page.faults
    /\ runtime = "static" =>
          "handler" \notin page.faults /\ page.faults \cap LeftoverScript = {}
    /\ page.faults \cap Rejected = {}
    /\ runtime = "hydrate" => "unclosed" \notin page.faults

-----------------------------------------------------------------------------

Idle == [at |-> "idle"]
Ended(how) == [staging EXCEPT !.at = how, !.todo = <<>>]

ReleaseInit ==
    /\ dest = [tool \in Tools |-> Absent]
    /\ staging = Idle
    /\ invocations = 0
    /\ online = Offline /\ announced = Offline

\* An invocation that finds no output, or a variable it needs unset or malformed,
\* ends before it touches the directory.
Invoke(tool, build, runtime, bad) ==
    /\ staging.at \in {"idle", "refused", "failed", "staged"}
    /\ invocations < Len(Builds)
    /\ invocations' = invocations + 1
    /\ staging' = [at |-> IF bad \in ReadsOf[tool] \/ build.missing THEN "refused" ELSE "copy",
                   tool |-> tool, build |-> build, runtime |-> runtime, before |-> dest[tool],
                   todo |-> Paths]
    /\ UNCHANGED <<dest, siteVars>>

\* remove_dir_all, then copy_tree.  That the removal itself fails is left out.
Copy ==
    /\ staging.at = "copy"
    /\ dest' = [dest EXCEPT ![staging.tool] =
                   [Absent EXCEPT !.pages = staging.build.pages,
                                  !.assets = DOMAIN staging.build.mentions]]
    /\ staging' = [staging EXCEPT !.at = IF staging.tool = "web" THEN "pages" ELSE "index",
                                  !.before = Absent]
    /\ UNCHANGED <<invocations, siteVars>>

\* stage: the pages one after another; the first that fails a check ends the run.
StagePage ==
    /\ staging.at = "pages" /\ staging.todo # <<>>
    /\ LET path == Head(staging.todo)
           page == dest.web.pages[path]
       IN  IF PageStages(page, staging.runtime)
           THEN /\ dest' = [dest EXCEPT !.web.pages[path] =
                               IF staging.runtime = "static" THEN StripRuntime(page)
                               ELSE ExternalizeRuntime(page)]
                /\ staging' = [staging EXCEPT !.todo = Tail(@)]
           ELSE staging' = Ended("failed") /\ UNCHANGED dest
    /\ UNCHANGED <<invocations, siteVars>>

\* The runtime assets collected from pages are written beside the build's own.
Written(build, paths) ==
    {RuntimeName[b] : b \in UNION {build.pages[p].inline : p \in paths}}

PruneSite ==
    /\ staging.at = "pages" /\ staging.todo = <<>>
    /\ LET candidates == IF staging.runtime = "static" THEN RemoveScriptAssets(dest.web.assets)
                         ELSE dest.web.assets \cup Written(staging.build, DOMAIN dest.web.pages)
       IN  dest' = [dest EXCEPT !.web.assets = Pruned(staging.build, dest.web.pages, candidates)]
    /\ staging' = [staging EXCEPT !.at = "publish"]
    /\ UNCHANGED <<invocations, siteVars>>

\* The root page must tell the summary; then robots.txt, the sitemap and the rest.
PublishSite ==
    /\ staging.at = "publish" /\ staging.tool = "web"
    /\ IF "unsummarised" \in dest.web.pages["index"].faults
       THEN staging' = Ended("failed") /\ UNCHANGED dest
       ELSE /\ dest' = [dest EXCEPT !.web.robots = TRUE,
                                    !.web.routes = {RouteForHtml(p) : p \in DOMAIN dest.web.pages},
                                    !.web.key = TRUE]
            /\ staging' = Ended("staged")
    /\ UNCHANGED <<invocations, siteVars>>

\* stage_app rewrites index.html alone, after the checks on it.
StageIndex ==
    /\ staging.at = "index"
    /\ LET page == dest.app.pages["index"] IN
       IF Untitled(page) \/ page.faults \cap {"indexable", "placeholder", "unclosed"} # {}
       THEN staging' = Ended("failed") /\ UNCHANGED dest
       ELSE /\ dest' = [dest EXCEPT !.app.pages["index"] = ExternalizeRuntime(page),
                                    !.app.assets = @ \cup {RuntimeName[b] : b \in page.inline}]
            /\ staging' = [staging EXCEPT !.at = "prune"]
    /\ UNCHANGED <<invocations, siteVars>>

PruneApp ==
    /\ staging.at = "prune"
    /\ dest' = [dest EXCEPT !.app.assets = Pruned(staging.build, dest.app.pages, @)]
    /\ staging' = [staging EXCEPT !.at = "publish"]
    /\ UNCHANGED <<invocations, siteVars>>

\* The bundle that is left must carry its identity and no development origin.
PublishApp ==
    /\ staging.at = "publish" /\ staging.tool = "app"
    /\ IF \/ ~Identified(staging.build, dest.app.assets) \/ Leaks(staging.build, dest.app)
          \/ "starter" \in dest.app.pages["index"].faults
       THEN staging' = Ended("failed") /\ UNCHANGED dest
       ELSE /\ dest' = [dest EXCEPT !.app.robots = TRUE]
            /\ staging' = Ended("staged")
    /\ UNCHANGED <<invocations, siteVars>>

\* An error of the file system.  While copying, the old directory is already gone, and
\* Absent stands for whatever part of the build was copied: there is no robots.txt in it;
\* while publishing the site, robots.txt is the first file written, the sitemap next, the
\* key file of IndexNow after it and Google's file, where there is one, last.
IoFails ==
    /\ staging.at \in {"copy", "pages", "index", "prune", "publish"}
    /\ \/ staging.at = "copy" /\ dest' = [dest EXCEPT ![staging.tool] = Absent]
       \/ staging.at # "copy" /\ UNCHANGED dest
       \/ /\ staging.at = "publish" /\ staging.tool = "web"
          /\ "unsummarised" \notin dest.web.pages["index"].faults
          /\ \E routes \in {{}, {RouteForHtml(p) : p \in DOMAIN dest.web.pages}}, key \in BOOLEAN :
                /\ key => routes # {}
                /\ dest' = [dest EXCEPT !.web.robots = TRUE, !.web.routes = routes, !.web.key = key]
    /\ staging' = Ended("failed")
    /\ UNCHANGED <<invocations, siteVars>>

\* The operator deploys the directory of the site, whatever it is.
Deploy ==
    /\ staging.at \in {"refused", "failed", "staged"}
    /\ online' = [robots |-> dest.web.robots, routes |-> dest.web.routes, key |-> dest.web.key]
    /\ online' # online
    /\ UNCHANGED <<dest, staging, invocations, announced>>

\* notify_indexnow: only of a site whose key file can be read where it is deployed.
NotifyIndexnow ==
    /\ online.key /\ announced # online
    /\ announced' = online
    /\ UNCHANGED <<dest, staging, invocations, online>>

ReleaseNext ==
    \/ \E tool \in Tools, runtime \in Runtimes : \E bad \in {"none"} \cup ReadsOf[tool] :
          /\ invocations < Len(Builds)
          /\ \E build \in Builds[invocations + 1] : Invoke(tool, build, runtime, bad)
    \/ Copy \/ StagePage \/ PruneSite \/ PublishSite
    \/ StageIndex \/ PruneApp \/ PublishApp \/ IoFails
    \/ Deploy \/ NotifyIndexnow

ReleaseSpec == ReleaseInit /\ [][ReleaseNext]_releaseVars

-----------------------------------------------------------------------------

\* The least set of candidates that the pages reach, by definition.
Reachable(build, pages, candidates) ==
    LET closed == {S \in SUBSET candidates :
                      candidates \cap Occurring(OfPages(pages) \cup MentionedBy(build, S)) \subseteq S}
    IN  {a \in candidates : \A S \in closed : a \in S}

\* Every script of the pages survives its externalisation, and none is run inline.
ScriptsMoved(build, d, paths) ==
    Written(build, paths) \subseteq d.assets /\ \A p \in paths : d.pages[p].inline = {}

\* All pages rewritten and checked, their scripts kept as assets, and of all the
\* assets exactly those the pages reach.
Whole(tool, build, runtime, d) ==
    LET static == tool = "web" /\ runtime = "static"
        paths == IF tool = "web" THEN DOMAIN d.pages ELSE {"index"}
    IN  /\ d.assets = Reachable(build, d.pages,
                                IF static THEN DOMAIN build.mentions \ Scripts
                                ELSE DOMAIN build.mentions \cup Written(build, paths))
        /\ IF static
           THEN \A p \in paths :
                   /\ d.pages[p].inline = {} /\ d.pages[p].modules = {}
                   /\ d.pages[p].faults \cap ({"handler"} \cup LeftoverScript) = {}
           ELSE ScriptsMoved(build, d, paths)
        /\ tool = "web" => \A p \in paths : d.pages[p].faults \cap Rejected = {}
        /\ tool = "app" => d.assets \cap build.leaky = {}

\* Where robots.txt stands the directory is a whole release, and the sitemap of a
\* staged site names every page; a failed staging of the app leaves none, and a
\* refused invocation leaves the previous release as it was.  A search engine is told of
\* no site that was staged halfway, whichever directory was deployed.
ReleaseIsWhole ==
    /\ staging.at \in {"staged", "failed"} /\ dest[staging.tool].robots =>
          Whole(staging.tool, staging.build, staging.runtime, dest[staging.tool])
    /\ staging.at = "staged" =>
          /\ dest[staging.tool].robots
          /\ staging.tool = "web" =>
                dest.web.routes = {RouteForHtml(p) : p \in DOMAIN staging.build.pages}
    /\ staging.at = "failed" /\ staging.tool = "app" => ~dest.app.robots
    /\ staging.at = "refused" => dest[staging.tool] = staging.before
    /\ announced # Offline =>
          announced.robots /\ announced.routes = {RouteForHtml(p) : p \in Range(Paths)}
=============================================================================
