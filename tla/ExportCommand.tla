----------------------------- MODULE ExportCommand -----------------------------
(* `nest-graph-inspector export`, from bin.ts down: the process that was      *)
(* asked, the project's own copy of the CLI that it may hand over to, the     *)
(* application both load into themselves, and where the graph ends up.        *)
(*                                                                            *)
(* Process 1 is the one that was asked; process n + 1 is started by n, which  *)
(* waits for it.  Loading the application runs its code, which may write to   *)
(* standard output, or end the process, for as long as the process lives.     *)
EXTENDS GraphOutput

CONSTANTS Applications, \* a sequence of [container, entry, options, configured]
          OtherCopyName,\* the name of the inspector's module, whichever copy's
          CoreProviders,\* the core providers named by default
          MaxProcesses, \* bound: processes that may be started
          Viewed        \* bound: the applications any process may load; the
                        \* others are for a plain export to standard output

ASSUME ApplicationsAssumption ==
    /\ Viewed \subseteq DOMAIN Applications
    /\ \A a \in Range(Applications) : Len(a.container.modules) > 0 /\ a.configured \in {"value", "factory"}

VARIABLES
    copy,    \* does the project have a copy of its own that runs the CLI?
    procs,   \* [at, dir, diverted, delegated, code] of each process
    app,     \* which application was loaded, 0 before
    built,   \* has its graph been built?
    target,  \* "file" or "stdout"
    saved,   \* what is in the file, resolved from each working directory
    stdout,  \* what standard output has received
    ownEnd   \* did the application, or a signal, end one of the processes?

cliVars == <<copy, procs, app, built, target, saved, stdout, ownEnd>>

Process(delegated) ==
    [at |-> "start", dir |-> "cwd", diverted |-> FALSE, delegated |-> delegated, code |-> 0]
Gone(code) == [Process(FALSE) EXCEPT !.at = "exited", !.code = code]

CliInit ==
    /\ copy \in {"none", "runs"}
    /\ procs = <<Process(FALSE)>>
    /\ app = 0 /\ built = FALSE
    /\ target \in {"file", "stdout"}
    /\ saved = [dir \in {"cwd", "project"} |-> "old"]
    /\ stdout = {}
    /\ ownEnd = FALSE

At(p, point)    == p \in DOMAIN procs /\ procs[p].at = point
Current         == Len(procs)
Goes(p, point)  == procs' = [procs EXCEPT ![p].at = point]
Ends(p, code)   == procs' = [procs EXCEPT ![p].at = "flush", ![p].code = code]

--------------------------------------------------------------------------------
(* Until the application is loaded                                            *)

CheckProject(p) ==
    /\ At(p, "start")
    /\ Goes(p, "delegate") \/ Ends(p, 1)
    /\ UNCHANGED <<copy, app, built, target, saved, stdout, ownEnd>>

(* A copy that runs the CLI takes over, unless it cannot be started.  The one *)
(* that was started does not hand over again.                                 *)
HandsOver(p) == copy = "runs" /\ ~procs[p].delegated

DelegateToProjectPackage(p) ==
    /\ At(p, "delegate")
    /\ \/ ~HandsOver(p) /\ Goes(p, "env")
       \/ /\ HandsOver(p)
          /\ Len(procs) < MaxProcesses
          /\ procs' = Append([procs EXCEPT ![p].at = "waiting"], Process(TRUE))
       \/ HandsOver(p) /\ Ends(p, 1)
    /\ UNCHANGED <<copy, app, built, target, saved, stdout, ownEnd>>

(* A child that a signal stopped has no status. *)
ChildEnded(p) ==
    /\ At(p, "waiting") /\ At(p + 1, "exited")
    /\ procs' = [SubSeq(procs, 1, p) EXCEPT
                    ![p].at = "flush",
                    ![p].code = IF procs[p + 1].code = -1 THEN 1 ELSE procs[p + 1].code]
    /\ UNCHANGED <<copy, app, built, target, saved, stdout, ownEnd>>

(* An --env-file may be missing. *)
LoadEnv(p) ==
    /\ At(p, "env")
    /\ Goes(p, "entry") \/ Ends(p, 1)
    /\ UNCHANGED <<copy, app, built, target, saved, stdout, ownEnd>>

(* From here on the process works in the project, and its standard output,    *)
(* the CLI's own apart, is standard error.                                    *)
ResolveEntryUndiverted(p) ==
    /\ At(p, "entry")
    /\ \/ procs' = [procs EXCEPT ![p].at = "load", ![p].dir = "project"]
       \/ Ends(p, 1)
    /\ UNCHANGED <<copy, app, built, target, saved, stdout, ownEnd>>

ResolveEntry(p) ==
    /\ At(p, "entry")
    /\ \/ procs' = [procs EXCEPT ![p].at = "load", ![p].dir = "project", ![p].diverted = TRUE]
       \/ Ends(p, 1)
    /\ UNCHANGED <<copy, app, built, target, saved, stdout, ownEnd>>

--------------------------------------------------------------------------------
(* With the application in the process                                        *)

(* --require, @nestjs/core, the entry file and the library's own modules: any *)
(* of them may throw.                                                         *)
LoadModules(p) ==
    /\ At(p, "load")
    /\ \/ /\ app' \in IF copy = "none" /\ target = "stdout" THEN DOMAIN Applications ELSE Viewed
          /\ Goes(p, "boot")
       \/ Ends(p, 1) /\ UNCHANGED app
    /\ UNCHANGED <<copy, built, target, saved, stdout, ownEnd>>

(* The first inspector module's options if they are a value; the defaults,    *)
(* from the entry module, if a factory makes them, or there is no inspector   *)
(* of this copy.  Another copy's is left out by name.                         *)
DefaultOptions(a) ==
    [root |-> a.entry, ignore |-> <<>>,
     coreName |-> "NestJSCoreModule", coreProviders |-> CoreProviders]

ResolveExportOptions(a) ==
    IF \E m \in Range(a.container.modules) : m.inspector
    THEN IF a.configured = "value" THEN a.options ELSE DefaultOptions(a)
    ELSE IF \E m \in Range(a.container.modules) : m.name = OtherCopyName
    THEN [DefaultOptions(a) EXCEPT
             !.ignore = [category \in {"modules", "paths"} |->
                            IF category = "modules" THEN {OtherCopyName} ELSE {"node_modules"}]]
    ELSE DefaultOptions(a)

(* Each boot gives the global enhancers tokens of its own. *)
Booted(c, boot) ==
    LET Fresh(w)  == [w EXCEPT !.token.uuid = IF @ = 0 THEN 0 ELSE IF boot = "preview" THEN 1 ELSE 2]
        Module(m) == [m EXCEPT !.providers = Map(Fresh, m.providers)]
    IN  [boot |-> boot, modules |-> Map(Module, c.modules),
         documented |-> c.documented, colons |-> c.colons]

(* Without a root module the scan throws. *)
GraphOf(c, o) == IF RootModule(c, o) = 0 THEN NoGraph ELSE GetGraphOutput(c, o)

Preview(a) == Booted(Applications[a].container, "preview")

PreviewGraphs == [a \in DOMAIN Applications |-> GraphOf(Preview(a), ResolveExportOptions(Applications[a]))]

graph == IF built THEN PreviewGraphs[app] ELSE NoGraph

(* Preview mode may fail to boot.  A graph, once built, is kept even if the   *)
(* application then fails to close.                                           *)
ExportGraph(p) ==
    /\ At(p, "boot")
    /\ \/ /\ RootModule(Preview(app), ResolveExportOptions(Applications[app])) # 0
          /\ built' = TRUE /\ Goes(p, "close")
       \/ Ends(p, 1) /\ UNCHANGED built
    /\ UNCHANGED <<copy, app, target, saved, stdout, ownEnd>>

CloseApplication(p) ==
    /\ At(p, "close")
    /\ Goes(p, "deliver")
    /\ UNCHANGED <<copy, app, built, target, saved, stdout, ownEnd>>

(* The path was resolved before the process moved.  A write that fails may    *)
(* have emptied the file.                                                     *)
WriteFile(p) ==
    /\ At(p, "deliver") /\ target = "file"
    /\ \/ saved' = [saved EXCEPT !["cwd"] = "graph"] /\ Ends(p, 0)
       \/ \E left \in {saved["cwd"], "partial"} :
              saved' = [saved EXCEPT !["cwd"] = left] /\ Ends(p, 1)
    /\ UNCHANGED <<copy, app, built, target, stdout, ownEnd>>

WriteStdout(p) ==
    /\ At(p, "deliver") /\ target = "stdout"
    /\ stdout' = stdout \cup {"graph"}
    /\ Ends(p, 0)
    /\ UNCHANGED <<copy, app, built, target, saved, ownEnd>>

(* bin.ts exits by itself, once both streams are flushed: an application may  *)
(* have left timers and handles behind.                                       *)
ExitWhenIdle(p) ==
    /\ At(p, "flush") /\ procs[p].dir = "cwd"
    /\ procs' = [procs EXCEPT ![p] = Gone(procs[p].code)]
    /\ UNCHANGED <<copy, app, built, target, saved, stdout, ownEnd>>

Exit(p) ==
    /\ At(p, "flush")
    /\ procs' = [procs EXCEPT ![p] = Gone(procs[p].code)]
    /\ UNCHANGED <<copy, app, built, target, saved, stdout, ownEnd>>

--------------------------------------------------------------------------------
(* What the application's own code, or a signal, may do                       *)

Hosts(p) == procs[p].dir = "project"

AppWrites(p) ==
    /\ p \in DOMAIN procs /\ Hosts(p)
    /\ stdout' = IF procs[p].diverted THEN stdout ELSE stdout \cup {"other"}
    /\ UNCHANGED <<copy, procs, app, built, target, saved, ownEnd>>

(* process.exit() or an exception nobody catches, wherever the process waits; *)
(* a signal at any time, which a parent sees as no status.                    *)
ProcessDies(p) ==
    /\ p = Current /\ procs[p].at # "exited"
    /\ \/ Hosts(p) /\ procs[p].at \in {"load", "boot", "close", "flush"} /\ \E code \in {0, 1} :
              procs' = [procs EXCEPT ![p] = Gone(code)]
       \/ procs' = [procs EXCEPT ![p] = Gone(-1)]
    /\ ownEnd' = TRUE
    /\ UNCHANGED <<copy, app, built, target, saved, stdout>>

CliStep(p) ==
    \/ CheckProject(p) \/ DelegateToProjectPackage(p) \/ ChildEnded(p) \/ LoadEnv(p)
    \/ ResolveEntry(p) \/ LoadModules(p) \/ ExportGraph(p) \/ CloseApplication(p)
    \/ WriteFile(p) \/ WriteStdout(p) \/ Exit(p)

CliNext == \E p \in 1..MaxProcesses : CliStep(p) \/ AppWrites(p) \/ ProcessDies(p)

CliFairness == \A p \in 1..MaxProcesses : WF_cliVars(CliStep(p))

Exported == procs[1].at = "exited"
=============================================================================
