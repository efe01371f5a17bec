---------------------------- MODULE DailyPipeline ----------------------------
(***************************************************************************)
(* DailyCompanyPipeline over one frozen scope of companies, across the     *)
(* invocations that resume it: the crawl with its retries, the company     *)
(* checkpoint (an index and one receipt file per company), the job rows,   *)
(* the capture of job details with their own receipts, the final           *)
(* reconciliation, and the scoring stage that follows.                     *)
(*                                                                         *)
(* The checkpoint is the compact one, of scopes of a hundred companies and *)
(* more; smaller scopes keep all entries in the index file itself.         *)
(*                                                                         *)
(* File replacements are single steps, and so are database transactions    *)
(* but for the one that reads rows before it writes them, which takes a    *)
(* step for either.  The process may die between any two.  One coordinator *)
(* thread makes them all; crawlers and detail readers only hand it their   *)
(* results.                                                                *)
(***************************************************************************)
EXTENDS Naturals, FiniteSets

CONSTANTS
    Companies,
    Jobs,            \* the jobs whose titles the profile admits
    OwnerOf,         \* the company of each job
    MaxAttempts,     \* crawls of a company in one scope (3 in the code)
    MaxConcurrency,  \* crawlers at work at once
    MaxUpsets,       \* bound on stops, deaths and writes by others
    None

\* An entry of the checkpoint: status "complete" or "partial" (which here includes
\* failed: the two are treated alike), the attempts counted, the listed jobs.  The
\* index holds a hash of the entry, which is the entry here.
Entry == [status : {"complete", "partial"}, attempts : Nat, jobs : SUBSET Jobs]

\* A company result on its way into the checkpoint, the listed jobs still to be given
\* rows, and what the crawl does next.
Write == [company : Companies, step : {"rows", "backup", "receipt", "index"},
          next : {"await_short", "await_delayed", "done"}, entry : Entry, left : SUBSET Jobs]

\* What a flush read of the stored rows before it writes: which are captured, and which
\* have a valid score.
Reading == [captured : SUBSET Jobs, scored : SUBSET Jobs]

ASSUME PipelineAssumption ==
    /\ OwnerOf \in [Jobs -> Companies]
    /\ {MaxAttempts, MaxConcurrency} \subseteq Nat \ {0}
    /\ MaxUpsets \in Nat
    /\ None \notin Entry \cup Write \cup Reading

VARIABLES
    rows,       \* job_snapshots with their analyses
    index,      \* the company checkpoint: company -> entry or None; None before the freeze
    receipt,    \* the receipt file of each company
    backup,     \* ... and its .bak
    details,    \* the hydration receipts, by job
    stage,      \* the stage persisted with the task: "none", "crawl", "matching", "done"
    phase,      \* what this invocation is doing, "idle" when there is none
    crawl,      \* where each company of the batch stands
    tries,      \* attempt_counts
    preRun,     \* jobs that had a row when this invocation began
    inserted,   \* jobs whose row this invocation inserted
    writing,    \* the company result being persisted, or None
    todo,       \* jobs whose details (or scores) are still to come
    batch,      \* jobs with details in memory only
    results,    \* hydration results in memory
    reading,    \* what the flush at work has read, or None
    flushing,   \* companies whose hydration receipts are to be written next
    stop,       \* stop_requested
    upsets      \* spent part of MaxUpsets

durable == <<rows, index, receipt, backup, details, stage>>
memory == <<phase, crawl, tries, preRun, inserted, writing, todo, batch, results, reading,
            flushing, stop>>
vars == <<durable, memory, upsets>>

\* A row: capture is "absent", "pending", "failed" or "complete"; analysis is
\* "open" (missing or pending), "failed" or "complete"; the job row has a valid
\* score of its own (match_score) or not; excluded by its details or not.
Absent == [capture |-> "absent", active |-> FALSE, analysis |-> "open", scored |-> FALSE,
           excluded |-> FALSE]
Scored == [capture |-> "complete", active |-> TRUE, analysis |-> "complete", scored |-> TRUE,
           excluded |-> FALSE]

JobsOf(c) == {j \in Jobs : OwnerOf[j] = c}
Present == {j \in Jobs : rows[j].capture # "absent"}
Captured == {j \in Jobs : rows[j].capture = "complete"}
InFlight == {c \in Companies : crawl[c] \in {"initial", "short", "delayed"}}
Waiting == {c \in Companies : crawl[c] \in {"queued", "await_short", "await_delayed"}}

Fresh == /\ crawl = [c \in Companies |-> "out"]
         /\ tries = [c \in Companies |-> 0]
         /\ preRun = {} /\ inserted = {}
         /\ writing = None /\ reading = None
         /\ todo = {} /\ batch = {} /\ flushing = {}
         /\ results = [j \in Jobs |-> "none"]
         /\ stop = FALSE

\* What the pipeline knew is gone when it returns, or dies.
Forgets == /\ crawl' = [c \in Companies |-> "out"]
           /\ tries' = [c \in Companies |-> 0]
           /\ preRun' = {} /\ inserted' = {}
           /\ writing' = None /\ reading' = None
           /\ todo' = {} /\ batch' = {} /\ flushing' = {}
           /\ results' = [j \in Jobs |-> "none"]

Ends(next) == Forgets /\ phase' = next /\ stop' = FALSE

\* Earlier runs have left some jobs captured and scored.
Init == /\ rows \in [Jobs -> {Absent, Scored}]
        /\ index = None
        /\ receipt = [c \in Companies |-> None]
        /\ backup = [c \in Companies |-> None]
        /\ details = [j \in Jobs |-> "none"]
        /\ stage = "none"
        /\ phase = "idle"
        /\ Fresh
        /\ upsets = 0

-----------------------------------------------------------------------------
(* The rows.                                                               *)

\* A capture that is not complete never replaces one that is.
Captures(row, capture) == IF row.capture = "complete" THEN "complete" ELSE capture

\* _persist_title_first_listing: rows for the listed jobs the invocation did not
\* find when it began.
Listed(table, jobs) ==
    [j \in Jobs |-> IF j \in jobs
                      THEN [table[j] EXCEPT !.capture = Captures(table[j], "pending"), !.active = TRUE]
                      ELSE table[j]]

HasScore(j) == rows[j].scored \/ rows[j].analysis = "complete"

\* Whatever is stored, the captured job is queued.
Queued_Always(j) == "open"

\* A captured job is queued for scoring unless a valid score was read of it.  The
\* conflict update of upsert_job_analysis_snapshot lets "pending" through.
Queued(j) == IF j \in reading.scored THEN rows[j].analysis ELSE "open"

\* persist_details for one job, after the rows were read.  A detail that excludes the
\* job closes the row this invocation inserted, but neither an older row nor one that
\* was read as captured.
Detailed(j) ==
    CASE results[j] = "complete" ->
           [rows[j] EXCEPT !.capture = "complete", !.active = TRUE, !.analysis = Queued(j)]
      [] results[j] = "failed" ->
           [rows[j] EXCEPT !.capture = Captures(rows[j], "failed"), !.active = TRUE]
      [] results[j] = "excluded" /\ j \in inserted \ reading.captured ->
           [rows[j] EXCEPT !.capture = "complete", !.active = FALSE, !.excluded = TRUE]
      [] OTHER -> rows[j]

-----------------------------------------------------------------------------
(* Beginning and resuming.                                                 *)

Recoverable(c) == index[c] \in {receipt[c], backup[c]}

\* An indexed receipt found in the backup goes back to its place.
Restored(c) == index[c]

Settled(c) == index[c] # None /\ (index[c].status = "complete" \/ index[c].attempts >= MaxAttempts)

\* An invocation may be limited to a batch; the companies never attempted come
\* first.
Batches(open) ==
    {b \in SUBSET open :
        /\ b = {} => open = {}
        /\ \A c \in b, d \in open \ b : index[c] = None \/ index[d] # None}

Attempts(c) == IF index[c] = None THEN 0 ELSE index[c].attempts

\* The count starts anew with each invocation.
PriorAttempts_Forgotten(c) == 0

\* The attempts of earlier invocations count.
PriorAttempts(c) == Attempts(c)

\* set_scope writes the empty checkpoint, then records that the scope is frozen.
Freeze ==
    /\ stage = "none" /\ phase = "idle"
    /\ index' = [c \in Companies |-> None]
    /\ stage' = "crawl"
    /\ UNCHANGED <<rows, receipt, backup, details, memory, upsets>>

\* The pipeline of the frozen scope, for the first time or resumed.  It fails
\* when an indexed receipt cannot be found.
StartCrawl ==
    /\ stage = "crawl" /\ phase = "idle"
    /\ \A c \in Companies : index[c] # None => Recoverable(c)
    /\ LET open == {c \in Companies : ~Settled(c)}
           relisted == UNION {index[c].jobs : c \in Companies \ open} \ Present
       IN  /\ rows' = Listed(rows, relisted)
           /\ inserted' = relisted
           /\ \E b \in Batches(open) :
                 crawl' = [c \in Companies |-> IF c \in b THEN "queued"
                                               ELSE IF c \in open THEN "later" ELSE "done"]
    /\ phase' = "crawl"
    /\ preRun' = Present
    /\ receipt' = [c \in Companies |-> IF index[c] = None THEN receipt[c] ELSE Restored(c)]
    /\ tries' = [c \in Companies |-> PriorAttempts(c)]
    /\ results' = details
    /\ UNCHANGED <<index, backup, details, stage, writing, todo, batch, reading, flushing, stop,
                   upsets>>

-----------------------------------------------------------------------------
(* _crawl_companies: crawls in a bounded pool; a retry waits its turn.     *)

Submit(c) ==
    /\ phase = "crawl" /\ writing = None /\ ~stop
    /\ c \in Waiting
    /\ Cardinality(InFlight) < MaxConcurrency
    /\ tries' = [tries EXCEPT ![c] = @ + 1]
    /\ crawl' = [crawl EXCEPT ![c] = CASE @ = "queued" -> "initial"
                                       [] @ = "await_short" -> "short"
                                       [] @ = "await_delayed" -> "delayed"]
    /\ UNCHANGED <<durable, phase, preRun, inserted, writing, todo, batch, results, reading,
                   flushing, stop, upsets>>

\* The retry stage has its own limits of time and number.
DropRetries ==
    /\ phase = "crawl" /\ writing = None
    /\ \E c \in Companies : crawl[c] \in {"await_short", "await_delayed"}
    /\ crawl' = [c \in Companies |-> IF crawl[c] \in {"await_short", "await_delayed"}
                                       THEN "done" ELSE crawl[c]]
    /\ UNCHANGED <<durable, phase, tries, preRun, inserted, writing, todo, batch, results,
                   reading, flushing, stop, upsets>>

\* _company_retry_kind is asked only while no stop was requested.
NextTry(c, kind) ==
    IF stop \/ tries[c] >= MaxAttempts THEN "done"
    ELSE CASE crawl[c] = "initial" /\ kind = "short" -> "await_short"
           [] crawl[c] = "initial" /\ kind = "delayed" -> "await_delayed"
           [] crawl[c] = "short" /\ kind = "short" -> "await_delayed"
           [] OTHER -> "done"

\* A partial list found before is not lost to a worse one.
Merged(previous, jobs, complete) ==
    IF previous = None \/ complete THEN jobs ELSE previous.jobs \cup jobs

\* A retry keeps the number of the crawl it repeats.
NextAttempt_Kept(c) == IF index[c] = None THEN 1 ELSE index[c].attempts

NextAttempt(c) == Attempts(c) + 1

\* A crawler returns: checkpoint_company begins.
Collect(c, jobs, kind) ==
    LET all == Merged(index[c], jobs, kind = "complete")
    IN  /\ phase = "crawl" /\ writing = None
        /\ c \in InFlight
        /\ writing' = [company |-> c, step |-> "rows", next |-> NextTry(c, kind),
                       entry |-> [status |-> IF kind = "complete" THEN "complete" ELSE "partial",
                                  attempts |-> NextAttempt(c), jobs |-> all],
                       left |-> all \ preRun]
        /\ UNCHANGED <<durable, phase, crawl, tries, preRun, inserted, todo, batch, results,
                       reading, flushing, stop, upsets>>

\* The receipt is replaced without a backup.
StepAfter_NoBackup(step) == CASE step = "rows" -> "receipt"
                              [] step = "receipt" -> "index"

\* The business data is committed before the checkpoint moves; then the receipt,
\* behind its backup, and the index that names it last.
StepAfter(step) == CASE step = "rows" -> "backup"
                     [] step = "backup" -> "receipt"
                     [] step = "receipt" -> "index"

\* The rows of a long list are committed in several transactions.
WriteListing(part) ==
    /\ writing # None /\ writing.step = "rows"
    /\ part \subseteq writing.left /\ (part = {} => writing.left = {})
    /\ rows' = Listed(rows, part)
    /\ inserted' = inserted \cup (part \ Present)
    /\ writing' = [writing EXCEPT !.left = @ \ part,
                                  !.step = IF part = writing.left THEN StepAfter(@) ELSE @]
    /\ UNCHANGED <<index, receipt, backup, details, stage, phase, crawl, tries, preRun, todo,
                   batch, results, reading, flushing, stop, upsets>>

RotateBackup ==
    /\ writing # None /\ writing.step = "backup"
    /\ backup' = [backup EXCEPT ![writing.company] =
                     IF receipt[writing.company] = None THEN @ ELSE receipt[writing.company]]
    /\ writing' = [writing EXCEPT !.step = StepAfter(@)]
    /\ UNCHANGED <<rows, index, receipt, details, stage, phase, crawl, tries, preRun, inserted,
                   todo, batch, results, reading, flushing, stop, upsets>>

WriteReceipt ==
    /\ writing # None /\ writing.step = "receipt"
    /\ receipt' = [receipt EXCEPT ![writing.company] = writing.entry]
    /\ writing' = [writing EXCEPT !.step = StepAfter(@)]
    /\ UNCHANGED <<rows, index, backup, details, stage, phase, crawl, tries, preRun, inserted,
                   todo, batch, results, reading, flushing, stop, upsets>>

WriteIndex ==
    /\ writing # None /\ writing.step = "index"
    /\ index' = [index EXCEPT ![writing.company] = writing.entry]
    /\ crawl' = [crawl EXCEPT ![writing.company] = writing.next]
    /\ writing' = None
    /\ UNCHANGED <<rows, receipt, backup, details, stage, phase, tries, preRun, inserted, todo,
                   batch, results, reading, flushing, stop, upsets>>

-----------------------------------------------------------------------------
(* After the crawl: stop, hand on the rest of the scope, or go on.         *)

CrawlDrained == phase = "crawl" /\ writing = None /\ InFlight = {} /\ (stop \/ Waiting = {})

\* PipelineInterrupted: a requested stop, or the batch limit.
Interrupt ==
    /\ \/ CrawlDrained /\ (stop \/ \E c \in Companies : crawl[c] = "later")
       \/ phase = "hydrate" /\ stop /\ batch = {} /\ flushing = {}
       \/ phase = "score" /\ stop
    /\ Ends("idle")
    /\ UNCHANGED <<durable, upsets>>

Accepted == UNION {index[c].jobs : c \in {d \in Companies : index[d] # None}}

\* Old rows are looked at again only when their details are missing; a row
\* this invocation inserted is a new candidate.
Candidates == Accepted \cap (inserted \cup (Present \ Captured))

\* The attempt counts end with the crawl.
Classify ==
    /\ CrawlDrained /\ ~stop /\ \A c \in Companies : crawl[c] # "later"
    /\ phase' = "hydrate"
    /\ todo' = Candidates
    /\ tries' = [c \in Companies |-> 0]
    /\ UNCHANGED <<durable, crawl, preRun, inserted, writing, batch, results, reading, flushing,
                   stop, upsets>>

\* _hydrate_title_first_candidates: details arrive (those of readers at work
\* when a stop is requested, too), are committed in batches, and only then noted
\* in the company's hydration receipt.  The receipt's own detail is the outcome while
\* it fits the listing, else the detail is read anew: any outcome may come.
Hydrate(j, outcome) ==
    /\ phase = "hydrate" /\ reading = None /\ flushing = {}
    /\ j \in todo
    /\ todo' = todo \ {j}
    /\ batch' = batch \cup {j}
    /\ results' = [results EXCEPT ![j] = outcome]
    /\ UNCHANGED <<durable, phase, crawl, tries, preRun, inserted, writing, reading, flushing,
                   stop, upsets>>

\* _persist_title_first looks at the stored rows without locking them.
FlushRead ==
    /\ phase = "hydrate" /\ reading = None /\ flushing = {} /\ batch # {}
    /\ reading' = [captured |-> batch \cap Captured, scored |-> {j \in batch : HasScore(j)}]
    /\ UNCHANGED <<durable, phase, crawl, tries, preRun, inserted, writing, todo, batch, results,
                   flushing, stop, upsets>>

\* It writes them as what it read tells; others may have written in between.
FlushRows ==
    /\ reading # None
    /\ rows' = [j \in Jobs |-> IF j \in batch THEN Detailed(j) ELSE rows[j]]
    /\ flushing' = {OwnerOf[j] : j \in batch}
    /\ batch' = {}
    /\ reading' = None
    /\ UNCHANGED <<index, receipt, backup, details, stage, phase, crawl, tries, preRun, inserted,
                   writing, todo, results, stop, upsets>>

\* The receipts first, the rows when the batch is full.
FlushReceipt_Early(c) ==
    /\ phase = "hydrate"
    /\ \E j \in batch : OwnerOf[j] = c
    /\ details' = [j \in Jobs |-> IF OwnerOf[j] = c THEN results[j] ELSE details[j]]
    /\ UNCHANGED <<rows, index, receipt, backup, stage, phase, crawl, tries, preRun, inserted,
                   writing, todo, batch, results, reading, flushing, stop, upsets>>

FlushReceipt(c) ==
    /\ c \in flushing
    /\ details' = [j \in Jobs |-> IF OwnerOf[j] = c THEN results[j] ELSE details[j]]
    /\ flushing' = flushing \ {c}
    /\ UNCHANGED <<rows, index, receipt, backup, stage, phase, crawl, tries, preRun, inserted,
                   writing, todo, batch, results, reading, stop, upsets>>

\* Rows a complete list no longer names.
Gone_FromPartial(c) == (preRun \cap JobsOf(c)) \ index[c].jobs

Gone(c) == IF index[c].status = "complete" THEN (preRun \cap JobsOf(c)) \ index[c].jobs ELSE {}

\* The last transaction of the pipeline: known jobs are seen again, missing
\* ones close.  A stop requested after the last look at it comes too late.
Reconcile ==
    /\ phase = "hydrate" /\ todo = {} /\ batch = {} /\ flushing = {}
    /\ LET seen == {j \in Accepted \ inserted : ~rows[j].excluded}
           gone == UNION {Gone(c) : c \in {d \in Companies : index[d] # None}}
       IN  rows' = [j \in Jobs |->
                      IF rows[j].capture = "absent" THEN rows[j]
                      ELSE [rows[j] EXCEPT !.active = (@ \/ j \in seen) /\ j \notin gone]]
    /\ phase' = "reconciled"
    /\ Forgets
    /\ UNCHANGED <<index, receipt, backup, details, stage, stop, upsets>>

-----------------------------------------------------------------------------
(* score_existing: the stage is persisted, then the plan is read.          *)

\* build_analysis_resume_plan: captured jobs without a complete analysis ...
Unanalysed == {j \in Captured : ~rows[j].excluded /\ rows[j].analysis # "complete"}

\* ... of which score_existing leaves those whose row has a score.
Plan == {j \in Unanalysed : ~rows[j].scored}

StartScore ==
    /\ \/ phase = "reconciled"
       \/ phase = "idle" /\ stage = "matching"
    /\ stage' = "matching"
    /\ phase' = "score"
    /\ todo' = Plan
    /\ UNCHANGED <<rows, index, receipt, backup, details, crawl, tries, preRun, inserted, writing,
                   batch, results, reading, flushing, stop, upsets>>

\* A failed attempt never replaces a complete analysis; a complete one sets the score
\* of the job row as well.
Rescored(row, outcome) ==
    IF outcome = "complete" THEN [row EXCEPT !.analysis = "complete", !.scored = TRUE]
    ELSE IF row.analysis = "complete" THEN row ELSE [row EXCEPT !.analysis = "failed"]

Score(j, outcome) ==
    /\ phase = "score" /\ j \in todo
    /\ rows' = [rows EXCEPT ![j] = Rescored(@, outcome)]
    /\ todo' = todo \ {j}
    /\ UNCHANGED <<index, receipt, backup, details, stage, phase, crawl, tries, preRun, inserted,
                   writing, batch, results, reading, flushing, stop, upsets>>

\* All is scored, or the provider's quota is spent: the run ends either way.
Finish ==
    /\ phase = "score" /\ (todo = {} \/ ~stop)
    /\ stage' = "done"
    /\ Ends("finished")
    /\ UNCHANGED <<rows, index, receipt, backup, details, upsets>>

-----------------------------------------------------------------------------
(* What interferes.                                                        *)

Upset == upsets < MaxUpsets /\ upsets' = upsets + 1

\* A pause, a cancellation or the time budget.
RequestStop ==
    /\ Upset
    /\ phase \in {"crawl", "hydrate", "reconciled", "score"} /\ ~stop
    /\ stop' = TRUE
    /\ UNCHANGED <<durable, phase, crawl, tries, preRun, inserted, writing, todo, batch, results,
                   reading, flushing>>

\* The process dies, or a write that fails for good ends the run.
Crash ==
    /\ Upset
    /\ phase \notin {"idle", "finished"}
    /\ Ends("idle")
    /\ UNCHANGED durable

\* Another tool captures a job.
CaptureElsewhere(j) ==
    /\ Upset
    /\ phase # "finished" /\ j \notin Captured
    /\ rows' = [rows EXCEPT ![j].capture = "complete", ![j].active = TRUE]
    /\ UNCHANGED <<index, receipt, backup, details, stage, memory>>

\* Another scorer scores a captured job that has no complete analysis.
ScoreElsewhere(j) ==
    /\ phase # "finished" /\ j \in Captured
    /\ rows[j].analysis # "complete"
    /\ rows' = [rows EXCEPT ![j] = Rescored(@, "complete")]
    /\ UNCHANGED <<index, receipt, backup, details, stage, memory, upsets>>

\* A complete list, or a failure with the retry it deserves.
Outcomes == {"complete", "none", "short", "delayed"}

Advance ==
    \/ Freeze \/ StartCrawl
    \/ \E c \in Waiting : Submit(c)
    \/ \E c \in InFlight : \E jobs \in SUBSET JobsOf(c), kind \in Outcomes : Collect(c, jobs, kind)
    \/ DropRetries
    \/ writing # None /\ \E part \in SUBSET writing.left : WriteListing(part)
    \/ RotateBackup \/ WriteReceipt \/ WriteIndex
    \/ Interrupt \/ Classify
    \/ \E j \in todo :
          \/ \E outcome \in {"complete", "failed", "excluded"} : Hydrate(j, outcome)
          \/ \E outcome \in {"complete", "failed"} : Score(j, outcome)
    \/ FlushRead \/ FlushRows
    \/ \E c \in Companies : FlushReceipt(c)
    \/ Reconcile \/ StartScore \/ Finish

Next == Advance \/ RequestStop \/ Crash \/ \E j \in Jobs : CaptureElsewhere(j) \/ ScoreElsewhere(j)

Spec == Init /\ [][Next]_vars

\* The coordinator runs on, crawlers and readers return (they are isolated
\* under timeouts), and an interrupted scope is resumed.
FairSpec == Spec /\ WF_vars(Advance)

-----------------------------------------------------------------------------
(* Properties.                                                             *)

\* Data first, checkpoint second: a listing the checkpoint holds has its rows,
\* and a detail noted as captured is in its row, at every moment of a run.
ReceiptsAreBacked ==
    /\ index # None => Accepted \subseteq Present
    /\ \A j \in Jobs : details[j] = "complete" => j \in Captured

\* Wherever the process dies, and however often, the receipt the index names
\* is still there, in its place or as the backup.
CheckpointIsRecoverable == index # None => \A c \in Companies : index[c] # None => Recoverable(c)

\* A company is crawled at most three times in a frozen scope, over all the
\* invocations that resume it, but for crawls whose result was lost.
AttemptsBounded ==
    index # None => \A c \in Companies : index[c] # None => index[c].attempts <= MaxAttempts

\* No later failure takes away what was gained: a complete capture, a valid score, a
\* complete analysis, a complete list, a job on a partial list, nor is a complete company
\* crawled again.  One writer may take an analysis: the flush of details that read the
\* job before it was scored.  The score of the job row outlives that, too.
ReadBeforeScored(j) == reading # None /\ j \in batch \ reading.scored /\ results[j] = "complete"

ResultsAreKept ==
    [][/\ Captured \subseteq Captured'
       /\ \A j \in Jobs :
             /\ rows[j].scored => rows'[j].scored
             /\ rows[j].analysis = "complete" /\ rows'[j].analysis # "complete" =>
                   ReadBeforeScored(j) /\ rows'[j].scored
       /\ index # None => \A c \in Companies : index[c] # None =>
             IF index[c].status = "complete"
               THEN index'[c] = index[c]
               ELSE index'[c].status = "complete" \/ index[c].jobs \subseteq index'[c].jobs]_vars

\* A job is taken down only by a complete list without it, which the checkpoint
\* holds, or by its own details: never by a partial or failed crawl.
ClosedOnEvidence ==
    [][\A j \in Jobs : rows[j].active /\ ~rows'[j].active =>
          \/ rows'[j].excluded
          \/ LET e == index[OwnerOf[j]] IN e # None /\ e.status = "complete" /\ j \notin e.jobs]_vars

\* A scope that keeps being resumed is finished, batch by batch, whatever
\* fails on the way.
ScopeIsFinished == <>(phase = "finished")
==============================================================================
