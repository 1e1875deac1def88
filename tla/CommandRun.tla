------------------------------ MODULE CommandRun ------------------------------
(***************************************************************************)
(* One run of the agentsearch command: main's run, App.Run and searchTarget *)
(* for each target, and the publication of its reports (report.WriteOutputs *)
(* and writeFile), with signals, kills and power failures.  A file's        *)
(* content is named by the target it reports on and the kind of document;   *)
(* "seen" is what programs read and "kept" what a power failure leaves.     *)
(* A watch ends in WatchMonitor, searches of sources in SourceDispatch.     *)
(***************************************************************************)
EXTENDS CommandOptions, AnalysisModel

CONSTANTS
    SearchRows,  \* rows that a search may give in a mode, in the order of their arrival
    OldDirs,     \* directories that exist before the run
    OldFiles,    \* reports of earlier runs in them
    MaxFaults,   \* failing file operations considered in a run
    NoReport

\* What names and formats consist of.
Words ==
    {"x", "output", "json", "cli", "REDACTED", "report", "summary"}
    \cup UNION {{line[f] : f \in DOMAIN line} : line \in Lines}
    \cup UNION {UNION {ToSet(name) : name \in ToSet(targets)} : targets \in FileTargets}

\* A row is a record with a place in the order of all rows, and so is its evidence; the rows
\* of a search that have the same place have equal content, and say the same.
WellFormedRow(row) ==
    /\ row = [source |-> row.source, type |-> row.type, target |-> row.target, status |-> row.status,
              meta |-> row.meta, evidence |-> row.evidence, order |-> row.order]
    /\ row.order \in Int /\ row.evidence \in Seq(ToSet(row.evidence))
    /\ \A item \in ToSet(row.evidence) : item.order \in Int
WellFormedRows(found) ==
    /\ found \in Seq(ToSet(found)) /\ \A row \in ToSet(found) : WellFormedRow(row)
    /\ \A r, s \in ToSet(found) : r.order = s.order => Observation(r) = Observation(s)

ASSUME CommandAssumption ==
    /\ MaxResults \in Nat /\ MaxFaults \in Nat /\ MaxSources \in Nat /\ MaxRecords \in Nat
    /\ FileTargets \subseteq Seq(Seq(Words))
    /\ \A mode \in {"websites", "password"} \cup Lookups :
          \A found \in SearchRows[mode] : WellFormedRows(found)
    /\ \A f \in OldFiles : f.dir \in OldDirs

VARIABLES
    pc, cfg, code,
    secret, app, ai,          \* what the run holds and must give up
    ended,                    \* the context: timeout or signal
    searched, rows, failed,   \* targets searched; the current search
    truncated, report, analysis,
    jobs, broken,             \* files to write for the current target; one failed
    temp, litter,             \* the temporary file; one could not be removed
    seen, kept, faults

held == <<secret, app, ai>>
search == <<rows, failed, truncated, report, analysis>>
output == <<jobs, broken>>
disk == <<temp, litter, seen, kept>>
vars == <<pc, cfg, code, held, ended, searched, search, output, disk, faults>>

Old == [target |-> 0, document |-> "old", whole |-> TRUE]
NoCode == 2

-----------------------------------------------------------------------------
\* The files of a target, in the order of WriteOutputs.

Job(dir, base, format, document) ==
    [name |-> [dir |-> dir, base |-> base, format |-> format], document |-> document]
Stdout == Job("stdout", <<>>, "txt", "canonical")

Base(target) == IF cfg.mode = "password" THEN <<"REDACTED">> ELSE cfg.targets[target]

FormatJobs(base, format) ==
    IF format \in {"json", "csv"}
    THEN <<Job(cfg.dir, base, format, "legacy"), Job(cfg.dir, base \o <<"report">>, format, "canonical")>>
    ELSE <<Job(cfg.dir, base, format, "canonical")>>

ReportJobs(base, format) ==
    IF format = "cli" THEN <<Job("output", base \o <<"report">>, "txt", "canonical"), Stdout>>
    ELSE <<Job("output", base \o <<"report">>, format, "canonical")>>

\* The files that a target's formats ask for.
Wanted(target) ==
    LET base == Base(target) IN
    FlattenSeq([i \in DOMAIN cfg.formats |-> FormatJobs(base, cfg.formats[i])]
               \o [i \in DOMAIN cfg.reports |-> ReportJobs(base, cfg.reports[i])])

\* What put has seen is not written again.
Fresh(wanted) == {i \in DOMAIN wanted : \A j \in 1 .. i - 1 : wanted[j].name # wanted[i].name}
Put(wanted) ==
    [n \in 1 .. Cardinality(Fresh(wanted)) |->
        wanted[CHOOSE i \in Fresh(wanted) : Cardinality({j \in Fresh(wanted) : j <= i}) = n]]

Planned(target) ==
    Put(Wanted(target))
    \o (IF cfg.reports = <<>> THEN <<>>
        ELSE <<Job(cfg.dir, Base(target) \o <<"summary">>, "json", "summary")>>)

Targets == 1 .. (IF cfg.mode = "password" THEN 1 ELSE Len(cfg.targets))
WantsFiles == cfg.formats # <<>> \/ cfg.reports # <<>>
Content(job) == [target |-> searched + 1, document |-> job.document, whole |-> TRUE]

-----------------------------------------------------------------------------
Init ==
    /\ pc = "start" /\ cfg = Refused /\ code = NoCode
    /\ secret = "none" /\ app = "none" /\ ai = "none" /\ ended = FALSE
    /\ searched = 0 /\ rows = <<>> /\ failed = FALSE /\ truncated = FALSE
    /\ report = NoReport /\ analysis = NoReport
    /\ jobs = <<>> /\ broken = FALSE /\ temp = "none" /\ litter = FALSE
    /\ seen = [f \in OldFiles |-> Old] /\ kept = seen /\ faults = 0

At(step) == pc = step
Go(step) == pc' = step
Fault == faults < MaxFaults /\ faults' = faults + 1

\* return 1, and the deferred calls on the way.
FailTo(step) == Go(step) /\ code' = 1

\* main.run: the command line, then the password or the providers, whichever comes first.
ParseCommand ==
    /\ At("start")
    /\ \E line \in Lines : \E c \in ParseArgs(line) :
          /\ cfg' = c
          /\ secret' = IF ~Given(line, "password") THEN "none" ELSE IF c = Refused THEN "destroyed" ELSE "held"
          /\ IF c = Refused THEN FailTo("exited")
             ELSE /\ UNCHANGED code
                  /\ Go(IF c.mode = "watch" THEN "watch" ELSE IF c.prompt /\ ~c.local THEN "prompt" ELSE "open")
    /\ UNCHANGED <<app, ai, ended, searched, search, output, disk, faults>>

\* runWatch: invalid lists, providers and storage end it, its cycles follow WatchMonitor.
RunWatch ==
    /\ At("watch") /\ Go("exited") /\ code' \in {0, 1}
    /\ UNCHANGED <<cfg, held, ended, searched, search, output, disk, faults>>

Prompt ==
    /\ At("prompt")
    /\ \/ ~ended /\ secret' = "held" /\ Go(IF app = "none" THEN "open" ELSE "run") /\ UNCHANGED code
       \/ FailTo("unwind") /\ UNCHANGED secret
    /\ UNCHANGED <<cfg, app, ai, ended, searched, search, output, disk, faults>>

\* app.NewWithContext destroys the password when it fails.
OpenApplication ==
    /\ At("open")
    /\ \/ app' = "open" /\ Go(IF cfg.prompt /\ cfg.local THEN "prompt" ELSE "run") /\ UNCHANGED <<secret, code>>
       \/ /\ FailTo("unwind") /\ UNCHANGED app
          /\ secret' = IF cfg.mode = "password" /\ secret = "held" THEN "destroyed" ELSE secret
    /\ UNCHANGED <<cfg, ai, ended, searched, search, output, disk, faults>>

\* App.Run: an analysis that cannot be configured is unavailable, never an error.
RunApp ==
    /\ At("run") /\ Go("target")
    /\ ai' \in IF cfg.ai THEN {"open", "unavailable"} ELSE {"none"}
    /\ UNCHANGED <<cfg, code, secret, app, ended, searched, search, output, disk, faults>>

\* The loop over the targets: a name that is no website target ends the run, and so does
\* the context when it has ended before a search.
NextTarget ==
    /\ At("target")
    /\ IF searched = Cardinality(Targets) THEN Go("return") /\ UNCHANGED code
       ELSE \/ /\ cfg.mode = "password" \/ ~ended
               /\ Go(IF WantsFiles THEN "prepare" ELSE "search") /\ UNCHANGED code
            \/ /\ ended \/ cfg.mode = "websites"
               /\ cfg.mode # "password" /\ FailTo("return")
    /\ UNCHANGED <<cfg, held, ended, searched, search, output, disk, faults>>

PrepareDirectory ==
    /\ At("prepare")
    /\ \/ Go("search") /\ UNCHANGED <<code, faults>>
       \/ Fault /\ FailTo("return")
    /\ UNCHANGED <<cfg, held, ended, searched, search, output, disk>>

\* The collector refuses a row beyond the limit, which ends the search with an error.  The
\* dispatcher destroys the password it searched for.
Search ==
    /\ At("search") /\ Go(IF WantsFiles THEN "report" ELSE "settle")
    /\ \E found \in SearchRows[cfg.mode], error \in BOOLEAN :
          /\ truncated' = (Len(found) > MaxResults)
          /\ rows' = SubSeq(found, 1, IF truncated' THEN MaxResults ELSE Len(found))
          /\ failed' = (error \/ truncated')
    /\ secret' = IF secret = "held" THEN "destroyed" ELSE secret
    /\ UNCHANGED <<cfg, code, app, ai, ended, searched, report, analysis, output, disk, faults>>

BuildReport ==
    /\ At("report")
    /\ \/ report' = NewReport(rows, failed, truncated) /\ Go(IF cfg.ai THEN "analyze" ELSE "outputs")
          /\ UNCHANGED <<code, faults>>
       \/ Fault /\ FailTo("return") /\ UNCHANGED report
    /\ UNCHANGED <<cfg, held, ended, searched, rows, failed, truncated, analysis, output, disk>>

\* Service.Analyze and WithAnalysis: whatever goes wrong, the run goes on with a report
\* that says that the analysis failed.
Analyze ==
    /\ At("analyze") /\ Go("outputs")
    /\ LET records == Prepare(report, cfg.mode = "password") IN
       analysis' \in {Failed("unavailable")} \cup
          (IF ai = "open" /\ ~ended THEN {Parse(answer, records) : answer \in Answers(records)} ELSE {})
    /\ UNCHANGED <<cfg, code, held, ended, searched, rows, failed, truncated, report, output, disk, faults>>

-----------------------------------------------------------------------------
\* WriteOutputs goes on after a failure; all of them are reported together.

PlanOutputs ==
    /\ At("outputs") /\ Go("create") /\ jobs' = Planned(searched + 1)
    /\ rows' = <<>> /\ report' = NoReport /\ analysis' = NoReport
    /\ UNCHANGED <<cfg, code, held, ended, searched, failed, truncated, broken, disk, faults>>

NextJob == jobs' = Tail(jobs) /\ Go("create")

\* Rendering, the checks of the destination and the temporary file; or the console.
CreateTemp ==
    /\ At("create") /\ jobs # <<>>
    /\ \/ /\ Head(jobs) # Stdout /\ temp' = "created" /\ Go("write")
          /\ UNCHANGED <<output, faults>>
       \/ Head(jobs) = Stdout /\ NextJob /\ UNCHANGED <<broken, temp, faults>>
       \/ Fault /\ NextJob /\ broken' = TRUE /\ UNCHANGED temp
    /\ UNCHANGED <<cfg, code, held, ended, searched, search, litter, seen, kept>>

\* Faulty variant: errors of Sync and Close are ignored.
WriteTempUnchecked ==
    /\ At("write") /\ Go("publish")
    /\ \/ temp' = "whole" /\ UNCHANGED faults
       \/ Fault /\ temp' = "torn"
    /\ UNCHANGED <<cfg, code, held, ended, searched, search, output, litter, seen, kept>>

\* Write, Sync and Close; an error of any leaves the file in an unknown state.
WriteTemp ==
    /\ At("write")
    /\ \/ temp' = "whole" /\ Go("publish") /\ UNCHANGED faults
       \/ Fault /\ temp' = "torn" /\ Go("remove")
    /\ UNCHANGED <<cfg, code, held, ended, searched, search, output, litter, seen, kept>>

\* publish: rename over the old file, then sync the directory.
Publish ==
    /\ At("publish")
    /\ \/ /\ seen' = [f \in DOMAIN seen \cup {Head(jobs).name} |->
                         IF f = Head(jobs).name THEN [Content(Head(jobs)) EXCEPT !.whole = temp = "whole"]
                         ELSE seen[f]]
          /\ temp' = "none" /\ Go("sync") /\ UNCHANGED faults
       \/ Fault /\ Go("remove") /\ UNCHANGED <<temp, seen>>
    /\ UNCHANGED <<cfg, code, held, ended, searched, search, output, litter, kept>>

SyncDirectory ==
    /\ At("sync") /\ NextJob
    /\ \/ /\ LET synced == {f \in DOMAIN seen : f.dir = Head(jobs).name.dir} IN
             kept' = [f \in DOMAIN kept \cup synced |-> IF f \in synced THEN seen[f] ELSE kept[f]]
          /\ UNCHANGED <<broken, faults>>
       \/ Fault /\ broken' = TRUE /\ UNCHANGED kept
    /\ UNCHANGED <<cfg, code, held, ended, searched, search, temp, litter, seen>>

\* The deferred removal, whose error is ignored.
RemoveTemp ==
    /\ At("remove") /\ NextJob /\ broken' = TRUE /\ temp' = "none"
    /\ \/ UNCHANGED <<litter, faults>>
       \/ Fault /\ litter' = TRUE
    /\ UNCHANGED <<cfg, code, held, ended, searched, search, seen, kept>>

\* Faulty variant: a website search forgives all errors.
UnsuccessfulButWebsites == (broken \/ failed) /\ cfg.mode # "websites"

\* Website searches may fail, files may not.
Unsuccessful == broken \/ (failed /\ cfg.mode # "websites")

Settle ==
    /\ At("settle") \/ (At("create") /\ jobs = <<>>)
    /\ searched' = searched + 1 /\ broken' = FALSE /\ failed' = FALSE /\ truncated' = FALSE /\ rows' = <<>>
    /\ IF Unsuccessful THEN FailTo("return") ELSE Go("target") /\ UNCHANGED code
    /\ UNCHANGED <<cfg, held, ended, report, analysis, jobs, disk, faults>>

\* The deferred calls of App.Run.
Return ==
    /\ At("return") /\ Go("unwind")
    /\ secret' = IF secret = "held" THEN "destroyed" ELSE secret
    /\ ai' = IF ai = "open" THEN "closed" ELSE ai
    /\ rows' = <<>> /\ failed' = FALSE /\ truncated' = FALSE
    /\ UNCHANGED <<cfg, code, app, ended, searched, report, analysis, output, disk, faults>>

\* The deferred calls of run; a failing Close changes the exit code.
Unwind ==
    /\ At("unwind") /\ Go("exited")
    /\ secret' = IF secret = "held" THEN "destroyed" ELSE secret
    /\ \/ app' = (IF app = "open" THEN "closed" ELSE app) /\ code' = (IF code = NoCode THEN 0 ELSE code)
       \/ app = "open" /\ app' = "closed" /\ code' = 1
    /\ UNCHANGED <<cfg, ai, ended, searched, search, output, disk, faults>>

-----------------------------------------------------------------------------
Running == pc \notin {"start", "exited", "killed", "down"}

\* A signal or the total timeout.
Interrupt ==
    /\ Running /\ pc # "watch" /\ ~ended /\ ended' = TRUE
    /\ UNCHANGED <<pc, cfg, code, held, searched, search, output, disk, faults>>

Kill ==
    /\ Running /\ Go("killed")
    /\ UNCHANGED <<cfg, code, held, ended, searched, search, output, disk, faults>>

\* What was renamed since the last sync of a directory may be as before, and a directory
\* that the run made may be gone.
PowerLoss ==
    /\ pc \notin {"start", "down"} /\ Go("down")
    /\ LET unsynced == {f \in DOMAIN seen : f \notin DOMAIN kept \/ kept[f] # seen[f]}
           made == {f.dir : f \in DOMAIN seen} \ OldDirs IN
       \E lost \in SUBSET unsynced, gone \in SUBSET made :
          seen' = [f \in {g \in DOMAIN seen : g.dir \notin gone /\ (g \in lost => g \in DOMAIN kept)} |->
                      IF f \in lost THEN kept[f] ELSE seen[f]]
    /\ kept' = seen'
    /\ UNCHANGED <<cfg, code, held, ended, searched, search, output, temp, litter, faults>>

Next ==
    \/ ParseCommand \/ RunWatch \/ Prompt \/ OpenApplication \/ RunApp
    \/ NextTarget \/ PrepareDirectory \/ Search \/ BuildReport \/ Analyze
    \/ PlanOutputs \/ CreateTemp \/ WriteTemp \/ Publish \/ SyncDirectory \/ RemoveTemp
    \/ Settle \/ Return \/ Unwind
    \/ Interrupt \/ Kill \/ PowerLoss

Spec == Init /\ [][Next]_vars

-----------------------------------------------------------------------------
\* Documents and analyses of the run stay within what their types allow; the command line
\* gave a configuration for one mode (config.ParseArgs).
TypeOK ==
    /\ cfg # Refused => WellFormedConfig(cfg)
    /\ code \in {0, 1, NoCode} /\ ended \in BOOLEAN /\ faults \in 0 .. MaxFaults
    /\ secret \in {"none", "held", "destroyed"} /\ app \in {"none", "open", "closed"}
    /\ ai \in {"none", "open", "unavailable", "closed"}
    /\ pc # "start" /\ cfg # Refused => searched \in 0 .. Cardinality(Targets)
    /\ Len(rows) <= MaxResults
    /\ report # NoReport => report.summary.results = Len(rows)
    /\ temp \in {"none", "created", "torn", "whole"}
    /\ DOMAIN kept \subseteq DOMAIN seen

\* A file with a report's name is at every moment, after a kill and after a power failure
\* too, a whole document: of an earlier run, or of a target that this run has searched; and
\* no report of an earlier run disappears (writeFile, publish).
Whole(f, content) ==
    \/ content = Old /\ f \in OldFiles
    \/ /\ content.whole /\ content.target \in 1 .. searched + 1
       /\ \E i \in DOMAIN Planned(content.target) :
             LET job == Planned(content.target)[i] IN job.name = f /\ job.document = content.document
OldOrNew == (\A f \in DOMAIN seen : Whole(f, seen[f])) /\ OldFiles \subseteq DOMAIN seen

\* The last document planned for a name.
LastPlanned(name) ==
    LET planning == {t \in Targets : \E i \in DOMAIN Planned(t) : Planned(t)[i].name = name}
        last == CHOOSE t \in planning : \A u \in planning : u <= t
        job == Planned(last)[CHOOSE i \in DOMAIN Planned(last) : Planned(last)[i].name = name] IN
    [target |-> last, document |-> job.document, whole |-> TRUE]

\* Exit code 0 means that every target was searched, that every file planned for it was
\* published with the last document of that name, even if the power fails right after
\* (except for directories that the run made), and that no temporary file is left.  However
\* a run exits, it holds no secret, no open provider and no analysis client; and no report
\* is built while the password is held (main.run, App.Run, searchTarget).
ExitHonest ==
    /\ code = 0 /\ cfg.mode # "watch" =>
          /\ searched = Cardinality(Targets) /\ ~litter /\ temp = "none"
          /\ \A t \in Targets : \A i \in DOMAIN Planned(t) :
                LET name == Planned(t)[i].name IN
                \/ name = Stdout.name
                \/ name \in DOMAIN seen /\ seen[name] = LastPlanned(name)
                \/ pc = "down" /\ name.dir \notin OldDirs
    /\ pc = "exited" => secret # "held" /\ app # "open" /\ ai # "open"
    /\ secret = "held" => report = NoReport /\ temp = "none"

\* A report says "complete" exactly if there are rows and all sources succeeded in full, and
\* "failed" never with a successful row; its counts add up, its names are unique, and the
\* order in which the sources answered does not matter (report.New).
ReportFaithful ==
    report # NoReport =>
    LET sources == {<<rows[i].type, rows[i].source>> : i \in DOMAIN rows}
        full(s) == \A i \in DOMAIN rows :
            <<rows[i].type, rows[i].source>> = s => rows[i].status \in Success /\ rows[i].meta = "none" IN
    /\ report.status = "complete" <=> rows # <<>> /\ ~failed /\ \A s \in sources : full(s)
    /\ report.status = "failed" => \A i \in DOMAIN rows : rows[i].status \notin Success
    /\ report.status = "empty" => rows = <<>> /\ ~failed
    /\ report.summary.successful = Cardinality({s \in sources : full(s)})
    /\ report.summary.successful + report.summary.failed + report.summary.partial = Cardinality(sources)
    /\ \A i, j \in DOMAIN report.observations :
          report.observations[i].id = report.observations[j].id => i = j
    /\ \A order \in Bijection(DOMAIN rows, DOMAIN rows) :
          NewReport([i \in DOMAIN rows |-> rows[order[i]]], failed, truncated) = report
    /\ \A c \in report.correlations : \E i \in DOMAIN report.observations :
          c[1] = report.observations[i].id /\ report.observations[i].row.source = "bitcoin"
    /\ analysis # NoReport => \A claim \in analysis.claims :
          /\ claim.refs # <<>>
          /\ claim.class \in {"observed", "correlated"} =>
                \E i \in DOMAIN report.observations : LET o == report.observations[i] IN
                   \/ claim.refs = <<<<o.id, "m", 1>>>> /\ claim.class = o.class
                   \/ claim.refs = <<<<o.id, "m", 0>>>> /\ claim.class = o.class
                   \/ \E k \in DOMAIN o.classes : claim.refs = <<<<o.id, "e", k>>>>
                         /\ claim.class = o.classes[k] /\ claim.text = o.row.evidence[k]

-----------------------------------------------------------------------------
(* Parts of the inductive invariant *)

Files == {"create", "write", "publish", "sync", "remove"}
Target == {"prepare", "search", "report", "analyze", "outputs", "settle"} \cup Files
Early == {"prompt", "open", "run"}
Gone == {"killed", "down"}
Steps == {"start", "watch", "target", "return", "unwind", "exited"} \cup Early \cup Target \cup Gone

\* What a configuration holds.
TypedConfig(c) ==
    /\ c.targets \in Seq(Seq(Words)) /\ c.formats \in Seq(Words) /\ c.reports \in Seq(Words)

\* Where a run is, it knows what it runs.
PlaceInv ==
    /\ pc \in Steps /\ searched \in Nat
    /\ IF cfg = Refused
       THEN pc = "start" \/ (pc \in {"exited", "down"} /\ code = 1)
       ELSE pc # "start" /\ TypedConfig(cfg) /\ (cfg.mode = "watch" => pc \in {"watch", "exited"} \cup Gone)
    /\ pc = "watch" => cfg # Refused /\ cfg.mode = "watch"
    /\ cfg = Refused \/ cfg.mode = "watch" \/ pc \in Early => searched = 0
    /\ pc \in Target => searched < Cardinality(Targets)
    /\ pc = "settle" => ~WantsFiles
    /\ pc \in {"start", "watch"} => code = NoCode
    /\ pc \notin {"exited", "down"} => code # 0

\* Who holds the password, the providers, the client, the report and the temporary file.
HeldInv ==
    /\ pc \in {"start", "watch"} => secret \in {"none", "held"} /\ app = "none" /\ ai = "none"
    /\ pc = "start" => secret = "none"
    /\ pc = "watch" => secret = "none"
    /\ pc = "exited" => secret # "held" /\ app # "open" /\ ai # "open"
    /\ secret = "held" => pc \notin Target \ {"prepare", "search"} /\ report = NoReport /\ temp = "none"
    /\ ai = "open" => pc \in Target \cup Gone \cup {"target", "return"}
    /\ report # NoReport => pc \in {"analyze", "outputs"} \cup Gone
    /\ temp # "none" => pc \in {"write", "publish", "remove"} \cup Gone
    /\ pc = "publish" => temp = "whole"
    /\ broken => pc \in Files \cup Gone

\* A report is that of the rows collected, an analysis that of the report.
ReportInv ==
    /\ WellFormedRows(rows) /\ (truncated => failed)
    /\ pc = "analyze" \/ report # NoReport => report = NewReport(rows, failed, truncated)
    /\ analysis # NoReport =>
          LET records == Prepare(report, cfg.mode = "password") IN
          /\ pc \in {"outputs"} \cup Gone
          /\ \/ analysis = Failed("unavailable")
             \/ \E answer \in Answers(records) : analysis = Parse(answer, records)

\* The files still to write are the last ones planned for the target.
JobsInv ==
    pc \in Files =>
        LET planned == Planned(searched + 1) IN
        /\ jobs \in Seq({planned[i] : i \in DOMAIN planned}) /\ Len(jobs) <= Len(planned)
        /\ \A i \in DOMAIN jobs : jobs[i] = planned[Len(planned) - Len(jobs) + i]
        /\ pc # "create" => jobs # <<>>

\* What a power failure leaves is whole, too.
KeptInv ==
    /\ DOMAIN kept \subseteq DOMAIN seen /\ OldFiles \subseteq DOMAIN kept
    /\ \A f \in DOMAIN kept : Whole(f, kept[f])
    /\ pc = "start" => seen = [f \in OldFiles |-> Old] /\ kept = seen

\* The i-th file planned for a target has been written.
Written(t, i) ==
    \/ t \in 1 .. searched
    \/ (pc \in Files /\ t = searched + 1 /\ i <= Len(Planned(t)) - Len(jobs))

\* A name has, synced, the last document written to it.
Standing(name) ==
    /\ name \in DOMAIN kept /\ kept[name] = seen[name]
    /\ \E t \in Targets : \E i \in DOMAIN Planned(t) :
          /\ Written(t, i) /\ Planned(t)[i].name = name
          /\ seen[name] = [target |-> t, document |-> Planned(t)[i].document, whole |-> TRUE]
          /\ \A u \in Targets : \A j \in DOMAIN Planned(u) :
                Written(u, j) /\ Planned(u)[j].name = name => u <= t

\* What has been written stands, but for a name that is being replaced.
AllStanding ==
    \A t \in Targets : \A i \in DOMAIN Planned(t) :
        LET name == Planned(t)[i].name IN
        Written(t, i) /\ name # Stdout.name /\ ~(pc = "sync" /\ name = Head(jobs).name) => Standing(name)

\* As long as nothing went wrong, everything stands, and only a finished run returns.
StandingInv ==
    code # 1 /\ ~broken /\ pc \notin Gone =>
        /\ ~litter
        /\ pc = "sync" => Head(jobs).name \in DOMAIN seen /\ seen[Head(jobs).name] = Content(Head(jobs))
        /\ cfg # Refused =>
              /\ pc \in {"return", "unwind", "exited"} /\ cfg.mode # "watch" => searched = Cardinality(Targets)
              /\ AllStanding

CommandInv ==
    /\ TypeOK /\ OldOrNew /\ ExitHonest /\ ReportFaithful
    /\ PlaceInv /\ HeldInv /\ ReportInv /\ JobsInv /\ KeptInv /\ StandingInv

=============================================================================
