--------------------------------- MODULE Gate ---------------------------------
(***************************************************************************)
(* `cargo xtask ci', `styles', `live' and `core' (tooling/xtask/src:       *)
(* main.rs, styles.rs and isa.rs): what a passed gate says of a checkout   *)
(* that is edited while the commands run, are interrupted and run again.   *)
(*                                                                         *)
(* The checkout is a page of an app and a file of the kit, line by line;   *)
(* the version of the class names the stylesheets are compiled from; the   *)
(* apps that reach a server-only crate.  Cargo, curl and tailwindcss are   *)
(* external: each may succeed or fail.                                     *)
(***************************************************************************)
EXTENDS Integers, Sequences, FiniteSets

CONSTANTS Apps,         \* the apps with a stylesheet, in order
          SourceLines,  \* the lines an edit may write: [kind, word, mark]
          PageLength,
          MaxEdits,     \* bound: edits of the checkout
          MaxCommands   \* bound: commands run

AppNames == {Apps[i] : i \in DOMAIN Apps}

ASSUME GateAssumption ==
    /\ Apps \in Seq(AppNames) /\ Apps # <<>>
    /\ PageLength \in Nat

VARIABLES tree,         \* the checkout: [page, kit, classes, reach]
          sheets,       \* the committed stylesheet of each app
          compiler,     \* target/tailwindcss: "none", "torn", "fetched" or "ready"
          command,      \* the command under way, or the last one
          edits, commands

gateVars == <<tree, sheets, compiler, command, edits, commands>>

-----------------------------------------------------------------------------

\* A stylesheet: compiled from a version of the class names, cut off, or the bare import.
Css(classes) == <<"css", classes>>
Torn == <<"torn">>
Tiny == <<"tiny">>

PlainLine == [kind |-> "code", word |-> "none", mark |-> "none"]

StepsOf == [ci     |-> <<"rustfmt", "clippy", "build", "test", "styles",
                         "predecessor", "hues", "kit", "wasm">>,
            styles |-> <<"styles">>,
            live   |-> <<"health", "contract", "slice">>,
            core   |-> <<"core">>]

External == {"rustfmt", "clippy", "build", "test", "health", "contract", "slice", "core"}

\* grep takes a line for what it says, the opt-out of the check is on the line itself.
Offenders(lines, word, optOut) ==
    {i \in DOMAIN lines : lines[i].word = word /\ lines[i].mark # optOut}

\* scan: the comment directly above a raw element may carry its opt-out.
CommentAbove(lines, i) ==
    LET code == {k \in 1..i - 1 : lines[k].kind # "comment"}
        start == IF code = {} THEN 0 ELSE CHOOSE k \in code : \A l \in code : l <= k
    IN  start + 1..i - 1

RawElements(lines) ==
    {i \in DOMAIN lines :
        /\ lines[i].kind = "element" /\ lines[i].mark # "isa-raw-ok"
        /\ ~\E j \in CommentAbove(lines, i) : lines[j].mark = "isa-raw-ok"}

\* A defect: the check compiles over the committed files.
InPlaceTarget(task) == "committed"

\* Where a command's stylesheets go: the check compiles beside the committed ones.
Target(task) == IF task = "ci" THEN "scratch" ELSE "committed"

-----------------------------------------------------------------------------

GateInit ==
    /\ tree = [page |-> [i \in 1..PageLength |-> PlainLine], kit |-> <<PlainLine>>,
               classes |-> 0, reach |-> {}]
    /\ sheets = [app \in AppNames |-> Css(0)]
    /\ compiler = "none"
    /\ command = [task |-> "none", at |-> "idle"]
    /\ edits = 0 /\ commands = 0

\* Ghosts: `fresh' until the checkout is edited, `blind' once a scan that reads nothing
\* has passed for clean, `before' the stylesheets the command found.
RunTask(task, where) ==
    /\ command.at # "running" /\ commands < MaxCommands
    /\ commands' = commands + 1
    /\ command' = [task |-> task, at |-> "running", step |-> 1, part |-> "fetch", sheet |-> 1,
                   where |-> where, scratch |-> [app \in AppNames |-> Torn],
                   fresh |-> TRUE, blind |-> FALSE, before |-> sheets]
    /\ UNCHANGED <<tree, sheets, compiler, edits>>

Running(step) == command.at = "running" /\ StepsOf[command.task][command.step] = step

Passed ==
    command' = IF command.step = Len(StepsOf[command.task]) THEN [command EXCEPT !.at = "passed"]
               ELSE [command EXCEPT !.step = @ + 1]

Failed == command' = [command EXCEPT !.at = "failed"]

RunExternal ==
    /\ \E step \in External : Running(step)
    /\ Passed \/ Failed
    /\ UNCHANGED <<tree, sheets, compiler, edits, commands>>

\* ensure_tailwind: whatever is at target/tailwindcss counts as the compiler.  What a
\* failed download leaves there depends on where it broke off.
Fetch ==
    /\ Running("styles") /\ command.part = "fetch"
    /\ IF compiler # "none" THEN command' = [command EXCEPT !.part = "compile"] /\ UNCHANGED compiler
       ELSE \/ compiler' \in {"none", "torn"} /\ Failed
            \/ compiler' = "fetched" /\ command' = [command EXCEPT !.part = "permit"]
    /\ UNCHANGED <<tree, sheets, edits, commands>>

Permit ==
    /\ Running("styles") /\ command.part = "permit"
    /\ compiler' = "ready"
    /\ command' = [command EXCEPT !.part = "compile"]
    /\ UNCHANGED <<tree, sheets, edits, commands>>

CommittedWith(css) ==
    IF Target(command.task) = "committed" THEN [sheets EXCEPT ![Apps[command.sheet]] = css] ELSE sheets

ScratchWith(css) ==
    IF Target(command.task) = "scratch" THEN [command.scratch EXCEPT ![Apps[command.sheet]] = css]
    ELSE command.scratch

\* compile, one app: a compiler that cannot be run and an input that is missing write
\* nothing; a failure may cut the output off; a bare import is too small to be plausible.
CompileSheet ==
    /\ Running("styles") /\ command.part = "compile"
    /\ \/ Failed /\ UNCHANGED sheets
       \/ \E css \in {Css(tree.classes), Torn, Tiny} :
             /\ compiler = "ready"
             /\ sheets' = CommittedWith(css)
             /\ IF css # Css(tree.classes) THEN Failed
                ELSE command' = IF command.sheet < Len(Apps)
                                THEN [command EXCEPT !.sheet = @ + 1, !.scratch = ScratchWith(css)]
                                ELSE [command EXCEPT !.part = "compare", !.scratch = ScratchWith(css)]
    /\ UNCHANGED <<tree, compiler, edits, commands>>

\* styles_are_current; `styles' itself has nothing to compare.
Compare ==
    /\ Running("styles") /\ command.part = "compare"
    /\ IF command.task = "ci" /\ Target("ci") = "scratch" /\ command.scratch # sheets THEN Failed ELSE Passed
    /\ UNCHANGED <<tree, sheets, compiler, edits, commands>>

\* The two greps read below the directory they are run in, and their status is not
\* looked at: one that reads nothing finds nothing, one that breaks off after an
\* offender has found it.  One that cannot be started fails the gate.
Grep(offenders) ==
    \/ command.where = "root" /\ offenders = {} /\ Passed
    \/ Failed
    \/ /\ command.step < Len(StepsOf[command.task])
       /\ command' = [command EXCEPT !.step = @ + 1, !.blind = TRUE]

NoPredecessor ==
    /\ Running("predecessor")
    /\ Grep(Offenders(tree.page \o tree.kit, "predecessor", "predecessor-mention-ok"))
    /\ UNCHANGED <<tree, sheets, compiler, edits, commands>>

NoHardcodedHues ==
    /\ Running("hues")
    /\ Grep(Offenders(tree.page \o tree.kit, "hue", "hue-scan-ok"))
    /\ UNCHANGED <<tree, sheets, compiler, edits, commands>>

\* isa::check: the apps only, from the root of the workspace wherever it is run; it fails
\* where a file cannot be read, too.
AppsSpeakTheKit ==
    /\ Running("kit")
    /\ \/ RawElements(tree.page) = {} /\ Passed
       \/ Failed
    /\ UNCHANGED <<tree, sheets, compiler, edits, commands>>

\* wasm_boundary: the two commands, then a tree per app; the status of a tree is not
\* looked at either.
WasmBoundary ==
    /\ Running("wasm")
    /\ \/ Failed
       \/ tree.reach = {} /\ Passed
       \/ command' = [command EXCEPT !.at = "passed", !.blind = TRUE]
    /\ UNCHANGED <<tree, sheets, compiler, edits, commands>>

\* Ctrl-C: what was being written is cut off.
Interrupt ==
    /\ command.at = "running"
    /\ command' = [command EXCEPT !.at = "interrupted"]
    /\ \/ UNCHANGED <<sheets, compiler>>
       \/ /\ Running("styles") /\ command.part = "compile" /\ compiler = "ready"
          /\ sheets' = CommittedWith(Torn) /\ UNCHANGED compiler
       \/ /\ Running("styles") /\ command.part = "fetch" /\ compiler = "none"
          /\ compiler' = "torn" /\ UNCHANGED sheets
    /\ UNCHANGED <<tree, edits, commands>>

\* Someone edits the checkout.
EditTree(edited) ==
    /\ edits < MaxEdits /\ edited # tree
    /\ edits' = edits + 1
    /\ tree' = edited
    /\ command' = IF command.at = "running" THEN [command EXCEPT !.fresh = FALSE]
                  ELSE [task |-> "none", at |-> "idle"]
    /\ UNCHANGED <<sheets, compiler, commands>>

GateNext ==
    \/ \E task \in DOMAIN StepsOf, where \in {"root", "below"} : RunTask(task, where)
    \/ RunExternal \/ Fetch \/ Permit \/ CompileSheet \/ Compare
    \/ NoPredecessor \/ NoHardcodedHues \/ AppsSpeakTheKit \/ WasmBoundary
    \/ Interrupt
    \/ \E line \in SourceLines :
          \/ \E i \in 1..PageLength : EditTree([tree EXCEPT !.page[i] = line])
          \/ EditTree([tree EXCEPT !.kit[1] = line])
    \/ EditTree([tree EXCEPT !.classes = @ + 1])
    \/ \E app \in AppNames : EditTree([tree EXCEPT !.reach = @ \cup {app}])

GateSpec == GateInit /\ [][GateNext]_gateVars

-----------------------------------------------------------------------------

Marked(line, mark) == line.mark = mark

Excused(lines, i) ==
    \E j \in 1..i : Marked(lines[j], "isa-raw-ok") /\ \A k \in j..i - 1 : lines[k].kind = "comment"

\* A gate never touches the committed stylesheets, however it ends.  One that passed,
\* with a checkout nobody edited meanwhile, found every stylesheet compiled from its
\* source whatever earlier commands were interrupted or failed; and, unless a scan read
\* nothing, no unmarked colour or predecessor, no raw element without its reason beside
\* it, and no app that reaches the server's crates.  `styles' leaves every sheet current.
GateTellsTheTruth ==
    /\ command.task = "ci" => sheets = command.before
    /\ command.at = "passed" /\ command.fresh /\ command.task \in {"ci", "styles"} =>
          \A app \in AppNames : sheets[app] = Css(tree.classes)
    /\ command.at = "passed" /\ command.fresh /\ command.task = "ci" =>
          /\ \A i \in DOMAIN tree.page : tree.page[i].kind = "element" => Excused(tree.page, i)
          /\ ~command.blind =>
                /\ tree.reach = {}
                /\ \A line \in {tree.page[i] : i \in DOMAIN tree.page} \cup {tree.kit[1]} :
                      /\ line.word = "hue" => Marked(line, "hue-scan-ok")
                      /\ line.word = "predecessor" => Marked(line, "predecessor-mention-ok")
=============================================================================
