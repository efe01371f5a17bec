------------------------- MODULE DailyPipelineProofs -------------------------
(***************************************************************************)
(* A frozen scope, for any companies, jobs, attempts and number of crashes: *)
(* the checkpoint stays readable and never runs ahead of the rows, no       *)
(* company is crawled beyond its attempts, nothing gained is lost, and jobs *)
(* close only on evidence.                                                  *)
(***************************************************************************)
EXTENDS DailyPipeline, TLAPS

-----------------------------------------------------------------------------
(* The inductive invariant.                                                *)

Row == [capture : {"absent", "pending", "failed", "complete"}, active : BOOLEAN,
        analysis : {"open", "failed", "complete"}, scored : BOOLEAN, excluded : BOOLEAN]
Files == [Companies -> Entry \cup {None}]
Result == {"none", "complete", "failed", "excluded"}
AtWork == {"initial", "short", "delayed"}
InLine == {"queued", "await_short", "await_delayed"}

TypeOK ==
    /\ rows \in [Jobs -> Row]
    /\ receipt \in Files /\ backup \in Files
    /\ details \in [Jobs -> Result] /\ results \in [Jobs -> Result]
    /\ stage \in {"none", "crawl", "matching", "done"}
    /\ phase \in {"idle", "crawl", "hydrate", "reconciled", "score", "finished"}
    /\ crawl \in [Companies -> AtWork \cup InLine \cup {"out", "later", "done"}]
    /\ tries \in [Companies -> Nat]
    /\ preRun \subseteq Jobs /\ inserted \subseteq Jobs /\ todo \subseteq Jobs /\ batch \subseteq Jobs
    /\ writing \in Write \cup {None} /\ reading \in Reading \cup {None}
    /\ flushing \subseteq Companies
    /\ stop \in BOOLEAN

\* There is a checkpoint once the scope is frozen, and work only then.
StageInv ==
    /\ stage = "none" => index = None /\ phase = "idle"
    /\ stage # "none" => index \in Files

\* A company in line has an attempt left, one at work is on it.  Neither has a
\* complete list yet.
CrawlAt(c) ==
    /\ index[c] # None => index[c].attempts <= MaxAttempts
    /\ phase = "crawl" =>
          /\ crawl[c] \in InLine => Attempts(c) <= tries[c] /\ tries[c] < MaxAttempts
          /\ crawl[c] \in AtWork => Attempts(c) < tries[c] /\ tries[c] <= MaxAttempts
          /\ crawl[c] \in InLine \cup AtWork => index[c] = None \/ index[c].status # "complete"

\* The result being written is the one of the crawl at work; it counts that crawl
\* and keeps what the index had.
WritingInv ==
    writing # None =>
        LET c == writing.company
            e == writing.entry
        IN  /\ phase = "crawl"
            /\ crawl[c] \in AtWork
            /\ e.attempts <= tries[c]
            /\ writing.next # "done" => tries[c] < MaxAttempts /\ e.status # "complete"
            /\ index[c] # None => e.status = "complete" \/ index[c].jobs \subseteq e.jobs

\* While a company is crawled its receipt is the one the index names, until a newer
\* one has replaced it; by then the older one is the backup.
Writes(c, steps) == writing # None /\ writing.company = c /\ writing.step \in steps

FilesAt(c) ==
    index[c] # None =>
       /\ Recoverable(c)
       /\ phase = "crawl" =>
             /\ ~Writes(c, {"index"}) => receipt[c] = index[c]
             /\ Writes(c, {"receipt", "index"}) => backup[c] = index[c]

\* What the checkpoint lists has its rows, and so has the list about to be noted, but
\* for the jobs still left.
ListedInv ==
    /\ stage # "none" => Accepted \subseteq Present
    /\ preRun \subseteq Present
    /\ writing # None =>
          /\ writing.entry.jobs \ writing.left \subseteq Present
          /\ writing.step # "rows" => writing.left = {}

\* A detail read as complete is in its row, or in the batch that is not yet noted.
DetailInv ==
    /\ \A j \in Jobs : details[j] = "complete" => j \in Captured
    /\ \A j \in Jobs : results[j] = "complete" => j \in Captured \/ j \in batch
    /\ flushing # {} => batch = {}

\* Whoever completes an analysis sets the score of the job row.
ScoreInv == \A j \in Jobs : rows[j].analysis = "complete" => rows[j].scored

CrawlInv == stage # "none" => \A c \in Companies : CrawlAt(c)
FilesInv ==
    stage # "none" =>
       /\ \A c \in Companies : FilesAt(c)
       /\ \A c \in Companies : Writes(c, {"index"}) => receipt[c] = writing.entry

IInv == /\ TypeOK /\ StageInv /\ CrawlInv /\ WritingInv /\ FilesInv
        /\ ListedInv /\ DetailInv /\ ScoreInv

-----------------------------------------------------------------------------
(* The operators on rows.                                                  *)

\* What a listing leaves of the rows.
LEMMA ListedRows ==
  ASSUME NEW jobs, rows \in [Jobs -> Row]
  PROVE  LET table == Listed(rows, jobs)
         IN  /\ table \in [Jobs -> Row]
             /\ \A j \in Jobs : /\ table[j].capture = "absent" => rows[j].capture = "absent" /\ j \notin jobs
                                /\ rows[j].capture = "complete" => table[j].capture = "complete"
                                /\ table[j].analysis = rows[j].analysis
                                /\ table[j].scored = rows[j].scored
                                /\ rows[j].active => table[j].active
  BY DEF Listed, Captures, Row

\* What any write leaves of a row: it stays, with its capture and its score.
RowGrows(row, next) ==
    /\ next \in Row
    /\ next.capture = "absent" => row.capture = "absent"
    /\ row.capture = "complete" => next.capture = "complete"
    /\ row.scored => next.scored
    /\ next.analysis = "complete" => next.scored \/ row.analysis = "complete"

\* An analysis is lost to a flush that read the job before it was scored, if at all.
AnalysisKept(j) == rows[j].analysis = "complete" /\ rows'[j].analysis # "complete" => ReadBeforeScored(j)

\* What the details of a job leave of its row.
LEMMA DetailedRow ==
  ASSUME rows \in [Jobs -> Row], results \in [Jobs -> Result], NEW j \in Jobs, NEW next, next = Detailed(j)
  PROVE  /\ RowGrows(rows[j], next)
         /\ results[j] = "complete" => next.capture = "complete"
         /\ rows[j].active => next.active \/ next.excluded
         /\ next.analysis = rows[j].analysis \/ (results[j] = "complete" /\ j \notin reading.scored)
<1> USE DEF RowGrows
<1>1. rows[j] \in Row
  OBVIOUS
<1>2. CASE results[j] = "complete"
  <2>1. next = [rows[j] EXCEPT !.capture = "complete", !.active = TRUE, !.analysis = Queued(j)]
    BY <1>2 DEF Detailed
  <2>2. CASE j \in reading.scored
    <3>1. Queued(j) = rows[j].analysis
      BY <2>2 DEF Queued
    <3> QED  BY <1>1, <1>2, <2>1, <3>1 DEF Row
  <2>3. CASE j \notin reading.scored
    <3>1. Queued(j) = "open"
      BY <2>3 DEF Queued
    <3> QED  BY <1>1, <1>2, <2>1, <2>3, <3>1 DEF Row
  <2> QED  BY <2>2, <2>3
<1>3. CASE results[j] = "failed"
  BY <1>1, <1>3 DEF Detailed, Captures, Row
<1>4. CASE results[j] = "excluded" /\ j \in inserted \ reading.captured
  BY <1>1, <1>4 DEF Detailed, Row
<1>5. CASE /\ results[j] \notin {"complete", "failed"}
           /\ ~(results[j] = "excluded" /\ j \in inserted \ reading.captured)
  BY <1>1, <1>5 DEF Detailed
<1> QED  BY <1>2, <1>3, <1>4, <1>5

\* Every row of the table grows.
RowsGrow == /\ rows' \in [Jobs -> Row]
            /\ \A j \in Jobs : RowGrows(rows[j], rows'[j]) /\ AnalysisKept(j)

\* The listing of a company is committed part by part.
Lists == writing # None /\ \E part \in SUBSET writing.left : WriteListing(part)

\* The jobs on the lists of the checkpoint are jobs.
LEMMA AcceptedJobs ==
  ASSUME IInv, stage # "none"
  PROVE  Accepted \subseteq Jobs
  BY DEF IInv, StageInv, Accepted, Files, Entry

\* The steps there are.
LEMMA StepCases ==
  ASSUME IInv, [Next]_vars
  PROVE  \/ Freeze \/ StartCrawl
         \/ \E c \in Companies :
               \/ Submit(c) \/ FlushReceipt(c)
               \/ \E jobs \in SUBSET JobsOf(c), kind \in Outcomes : Collect(c, jobs, kind)
         \/ DropRetries
         \/ Lists \/ RotateBackup \/ WriteReceipt \/ WriteIndex
         \/ Interrupt \/ Classify \/ FlushRead \/ FlushRows \/ Reconcile \/ StartScore \/ Finish
         \/ \E j \in Jobs :
               \/ \E outcome \in {"complete", "failed", "excluded"} : Hydrate(j, outcome)
               \/ \E outcome \in {"complete", "failed"} : Score(j, outcome)
               \/ CaptureElsewhere(j) \/ ScoreElsewhere(j)
         \/ RequestStop \/ Crash
         \/ UNCHANGED vars
  BY DEF IInv, TypeOK, Next, Advance, Lists, Waiting, InFlight

\* What a scoring attempt leaves of a row.
LEMMA RescoredRow ==
  ASSUME NEW row \in Row, NEW outcome \in {"complete", "failed"}
  PROVE  LET next == Rescored(row, outcome)
         IN  /\ next \in Row /\ next.capture = row.capture /\ next.active = row.active
             /\ row.scored => next.scored
             /\ row.analysis = "complete" => next.analysis = "complete"
             /\ next.analysis = "complete" => next.scored \/ row.analysis = "complete"
  BY DEF Rescored, Row

\* Every step lets the rows grow.
LEMMA StepRows ==
  ASSUME IInv, [Next]_vars
  PROVE  RowsGrow
<1>0. rows \in [Jobs -> Row] /\ results \in [Jobs -> Result]
  BY DEF IInv, TypeOK
<1> USE DEF AnalysisKept
<1>1. CASE StartCrawl
  BY <1>0, <1>1, ListedRows DEF StartCrawl, RowsGrow, RowGrows
<1>2. CASE Lists
  <2>1. PICK part \in SUBSET writing.left : rows' = Listed(rows, part)
    BY <1>2 DEF Lists, WriteListing
  <2> QED  BY <1>0, <2>1, ListedRows DEF RowsGrow, RowGrows
<1>3. CASE FlushRows
  <2>1. reading # None /\ rows' = [j \in Jobs |-> IF j \in batch THEN Detailed(j) ELSE rows[j]]
    BY <1>3 DEF FlushRows
  <2>2. ASSUME NEW j \in Jobs PROVE RowGrows(rows[j], rows'[j]) /\ AnalysisKept(j)
    <3>1. CASE j \in batch
      <4>1. rows'[j] = Detailed(j)
        BY <2>1, <3>1
      <4> QED  BY <1>0, <2>1, <3>1, <4>1, DetailedRow DEF ReadBeforeScored
    <3>2. CASE j \notin batch
      BY <1>0, <2>1, <3>2 DEF RowGrows
    <3> QED  BY <3>1, <3>2
  <2>3. rows' \in [Jobs -> Row]
    BY <2>1, <2>2 DEF RowGrows
  <2> QED  BY <2>2, <2>3 DEF RowsGrow
<1>4. CASE Reconcile
  <2> DEFINE seen == {j \in Accepted \ inserted : ~rows[j].excluded}
             gone == UNION {Gone(c) : c \in {d \in Companies : index[d] # None}}
  <2>1. rows' = [j \in Jobs |-> IF rows[j].capture = "absent" THEN rows[j]
                                ELSE [rows[j] EXCEPT !.active = (@ \/ j \in seen) /\ j \notin gone]]
    BY <1>4 DEF Reconcile
  <2> HIDE DEF seen, gone
  <2>2. ASSUME NEW row \in Row, NEW active \in BOOLEAN
        PROVE  /\ [row EXCEPT !.active = active] \in Row
               /\ [row EXCEPT !.active = active].capture = row.capture
               /\ [row EXCEPT !.active = active].analysis = row.analysis
               /\ [row EXCEPT !.active = active].scored = row.scored
    BY DEF Row
  <2>3. ASSUME NEW j \in Jobs
        PROVE  /\ rows'[j] \in Row /\ rows'[j].capture = rows[j].capture
               /\ rows'[j].analysis = rows[j].analysis /\ rows'[j].scored = rows[j].scored
    <3>1. rows[j] \in Row
      BY <1>0
    <3>2. ((rows[j].active \/ j \in seen) /\ j \notin gone) \in BOOLEAN
      OBVIOUS
    <3>3. rows'[j] = rows[j]
          \/ rows'[j] = [rows[j] EXCEPT !.active = (rows[j].active \/ j \in seen) /\ j \notin gone]
      BY <2>1
    <3> QED  BY <2>2, <3>1, <3>2, <3>3
  <2>4. rows' \in [Jobs -> Row]
    BY <2>1, <2>3
  <2> QED  BY <2>3, <2>4 DEF RowsGrow, RowGrows
<1>5. ASSUME NEW j \in Jobs, NEW outcome \in {"complete", "failed"}, Score(j, outcome) PROVE RowsGrow
  <2>1. rows' = [rows EXCEPT ![j] = Rescored(rows[j], outcome)]
    BY <1>5 DEF Score
  <2> QED  BY <1>0, <2>1, RescoredRow DEF RowsGrow, RowGrows
<1>6. ASSUME NEW j \in Jobs, CaptureElsewhere(j) \/ ScoreElsewhere(j) PROVE RowsGrow
  <2>1. CASE CaptureElsewhere(j)
    <3> DEFINE row == [rows[j] EXCEPT !.capture = "complete", !.active = TRUE]
    <3>1. /\ row \in Row /\ row.capture = "complete"
          /\ row.analysis = rows[j].analysis /\ row.scored = rows[j].scored
      BY <1>0 DEF Row
    <3>2. rows' = [rows EXCEPT ![j] = row]
      BY <1>0, <2>1 DEF CaptureElsewhere
    <3> HIDE DEF row
    <3> QED  BY <1>0, <3>1, <3>2 DEF RowsGrow, RowGrows
  <2>2. CASE ScoreElsewhere(j)
    <3>1. rows' = [rows EXCEPT ![j] = Rescored(rows[j], "complete")]
      BY <2>2 DEF ScoreElsewhere
    <3> QED  BY <1>0, <3>1, RescoredRow DEF RowsGrow, RowGrows
  <2> QED  BY <1>6, <2>1, <2>2
<1>7. CASE UNCHANGED rows
  BY <1>0, <1>7 DEF RowsGrow, RowGrows
<1> QED
  BY <1>1, <1>2, <1>3, <1>4, <1>5, <1>6, <1>7, StepCases
  DEF vars, durable, memory, Freeze, Submit, Collect, FlushReceipt, DropRetries,
      RotateBackup, WriteReceipt, WriteIndex, Interrupt, Classify, Hydrate, FlushRead, StartScore,
      Finish, RequestStop, Crash

-----------------------------------------------------------------------------
(* Types and stages.                                                       *)

\* The first state satisfies the invariant.
LEMMA InitIInv == Init => IInv
<1> SUFFICES ASSUME Init PROVE IInv
  OBVIOUS
<1>1. TypeOK
  <2>1. Absent \in Row /\ Scored \in Row
    BY DEF Absent, Scored, Row
  <2>2. rows \in [Jobs -> Row]
    BY <2>1 DEF Init
  <2> QED  BY <2>2 DEF Init, Fresh, TypeOK, Files, Result
<1>2. StageInv /\ CrawlInv /\ WritingInv /\ FilesInv
  BY DEF Init, Fresh, StageInv, CrawlInv, WritingInv, FilesInv
<1>3. ListedInv /\ DetailInv /\ ScoreInv
  BY DEF Init, Fresh, ListedInv, DetailInv, ScoreInv, Absent, Scored
<1> QED  BY <1>1, <1>2, <1>3 DEF IInv

\* What is written to the checkpoint for a crawl that returned.
LEMMA CollectedWrite ==
  ASSUME IInv, NEW c \in Companies, NEW jobs \in SUBSET JobsOf(c), NEW kind \in Outcomes, Collect(c, jobs, kind)
  PROVE  /\ writing' \in Write
         /\ writing'.company = c /\ writing'.step = "rows"
         /\ writing'.left = writing'.entry.jobs \ preRun
         /\ writing'.entry.attempts = Attempts(c) + 1
         /\ writing'.next # "done" => tries[c] < MaxAttempts /\ writing'.entry.status # "complete"
         /\ index[c] # None => writing'.entry.status = "complete" \/ index[c].jobs \subseteq writing'.entry.jobs
<1> DEFINE all == Merged(index[c], jobs, kind = "complete")
           e == [status |-> IF kind = "complete" THEN "complete" ELSE "partial",
                 attempts |-> NextAttempt(c), jobs |-> all]
           next == NextTry(c, kind)
<1>1. phase = "crawl" /\ writing' = [company |-> c, step |-> "rows", next |-> next, entry |-> e,
                                      left |-> all \ preRun]
  BY DEF Collect
<1>2. index[c] \in Entry \cup {None}
  BY <1>1 DEF IInv, StageInv, Files
<1>3. all \subseteq Jobs /\ (index[c] # None => kind = "complete" \/ index[c].jobs \subseteq all)
  BY <1>2 DEF Merged, Entry, JobsOf
<1>4. Attempts(c) \in Nat /\ NextAttempt(c) = Attempts(c) + 1
  BY <1>2 DEF Attempts, NextAttempt, Entry
<1>5. /\ e \in Entry /\ e.attempts = Attempts(c) + 1
      /\ e.status = "complete" <=> kind = "complete"
      /\ index[c] # None => e.status = "complete" \/ index[c].jobs \subseteq e.jobs
  <2> HIDE DEF all
  <2> QED  BY <1>3, <1>4 DEF Entry
<1>6. /\ next \in {"await_short", "await_delayed", "done"}
      /\ next # "done" => kind # "complete" /\ tries[c] < MaxAttempts
  <2>1. tries[c] \in Nat /\ MaxAttempts \in Nat
    BY PipelineAssumption DEF IInv, TypeOK
  <2>2. CASE stop \/ tries[c] >= MaxAttempts
    BY <2>2 DEF NextTry
  <2>3. CASE ~(stop \/ tries[c] >= MaxAttempts)
    <3>1. next \in {"await_short", "await_delayed", "done"} /\ (next # "done" => kind # "complete")
      BY <2>3 DEF NextTry
    <3> QED  BY <2>1, <2>3, <3>1
  <2> QED  BY <2>2, <2>3
<1>7. all \ preRun \subseteq Jobs /\ e.jobs = all
  BY <1>3
<1> HIDE DEF all, e, next
<1> QED  BY <1>1, <1>5, <1>6, <1>7 DEF Write

\* What a step between the collection of a result and the index leaves of it.
LEMMA WritingSteps ==
  ASSUME IInv, Lists \/ RotateBackup \/ WriteReceipt
  PROVE  /\ writing # None /\ writing \in Write /\ writing' # None /\ writing' \in Write
         /\ writing'.company = writing.company /\ writing'.entry = writing.entry
         /\ writing'.next = writing.next
         /\ UNCHANGED <<index, stage, phase, crawl, tries, preRun, details>>
         /\ Lists => /\ writing.step = "rows" /\ writing'.step \in {"rows", "backup"}
                     /\ UNCHANGED <<receipt, backup>>
         /\ RotateBackup => /\ writing.step = "backup" /\ writing'.step = "receipt"
                            /\ writing'.left = writing.left
         /\ WriteReceipt => /\ writing.step = "receipt" /\ writing'.step = "index"
                            /\ writing'.left = writing.left
<1>0. writing # None /\ writing \in Write
  BY DEF Lists, RotateBackup, WriteReceipt, IInv, TypeOK
<1>1. CASE Lists
  <2>1. PICK part \in SUBSET writing.left : WriteListing(part)
    BY <1>1 DEF Lists
  <2> DEFINE step == IF part = writing.left THEN "backup" ELSE "rows"
  <2>2. writing.step = "rows" /\ writing' = [writing EXCEPT !.left = writing.left \ part, !.step = step]
    BY <2>1 DEF WriteListing, StepAfter
  <2>3. step \in {"rows", "backup"}
    OBVIOUS
  <2> HIDE DEF step
  <2>4. writing' \in Write /\ writing'.step = step /\ writing'.company = writing.company
        /\ writing'.entry = writing.entry /\ writing'.next = writing.next
    BY <1>0, <2>2, <2>3 DEF Write
  <2> QED
    BY <1>0, <2>1, <2>2, <2>3, <2>4, PipelineAssumption DEF WriteListing, RotateBackup, WriteReceipt
<1>2. CASE RotateBackup \/ WriteReceipt
  <2> DEFINE step == IF writing.step = "backup" THEN "receipt" ELSE "index"
  <2>1. writing.step \in {"backup", "receipt"} /\ writing' = [writing EXCEPT !.step = step]
    BY <1>2 DEF RotateBackup, WriteReceipt, StepAfter
  <2>2. writing' \in Write /\ writing'.step = step /\ writing'.company = writing.company
        /\ writing'.entry = writing.entry /\ writing'.next = writing.next /\ writing'.left = writing.left
    BY <1>0, <2>1 DEF Write
  <2> QED
    BY <1>0, <1>2, <2>1, <2>2, PipelineAssumption DEF RotateBackup, WriteReceipt, Lists, WriteListing
<1> QED  BY <1>1, <1>2

\* What the pipeline leaves behind when it returns is typed.
LEMMA ForgetsTyped ==
  ASSUME Forgets
  PROVE  /\ results' \in [Jobs -> Result]
         /\ crawl' \in [Companies -> AtWork \cup InLine \cup {"out", "later", "done"}]
         /\ tries' \in [Companies -> Nat]
         /\ preRun' \subseteq Jobs /\ inserted' \subseteq Jobs /\ todo' \subseteq Jobs /\ batch' \subseteq Jobs
         /\ writing' \in Write \cup {None} /\ reading' \in Reading \cup {None}
         /\ flushing' \subseteq Companies
  BY DEF Forgets, Result

\* Every step keeps the types.
LEMMA NextTypeOK ==
  ASSUME IInv, [Next]_vars
  PROVE  TypeOK'
<1> USE DEF Files
<1>0. TypeOK /\ StageInv /\ rows' \in [Jobs -> Row]
  BY StepRows DEF IInv, RowsGrow
<1>1. CASE Freeze
  BY <1>0, <1>1 DEF Freeze, TypeOK, memory
<1>2. CASE StartCrawl
  <2>1. index \in Files
    BY <1>0, <1>2 DEF StartCrawl, StageInv
  <2>2. receipt' \in Files
    BY <1>0, <1>2, <2>1 DEF StartCrawl, Restored, TypeOK
  <2>3. tries' \in [Companies -> Nat]
    BY <1>2, <2>1 DEF StartCrawl, PriorAttempts, Attempts, Entry
  <2>4. crawl' \in [Companies -> AtWork \cup InLine \cup {"out", "later", "done"}]
    BY <1>2 DEF StartCrawl, InLine
  <2>5. inserted' \subseteq Jobs /\ preRun' \subseteq Jobs
    BY <1>2, <2>1 DEF StartCrawl, Present, Settled, Entry
  <2> QED  BY <1>0, <1>2, <2>2, <2>3, <2>4, <2>5 DEF StartCrawl, TypeOK
<1>3. ASSUME NEW c \in Companies, Submit(c) PROVE TypeOK'
  <2>1. tries' \in [Companies -> Nat]
    BY <1>0, <1>3 DEF Submit, TypeOK
  <2>2. crawl' \in [Companies -> AtWork \cup InLine \cup {"out", "later", "done"}]
    BY <1>0, <1>3 DEF Submit, Waiting, AtWork, TypeOK
  <2> QED  BY <1>0, <1>3, <2>1, <2>2 DEF Submit, TypeOK, durable
<1>4. ASSUME NEW c \in Companies, NEW jobs \in SUBSET JobsOf(c), NEW kind \in Outcomes, Collect(c, jobs, kind)
      PROVE  TypeOK'
  <2>1. writing' \in Write
    BY <1>4, CollectedWrite
  <2> QED  BY <1>0, <1>4, <2>1 DEF Collect, TypeOK, durable
<1>5. CASE DropRetries
  BY <1>0, <1>5 DEF DropRetries, TypeOK, durable
<1>6. CASE Lists \/ RotateBackup \/ WriteReceipt
  <2>1. writing \in Write /\ writing' \in Write
    BY <1>6, WritingSteps
  <2>2. inserted' \subseteq Jobs
    BY <1>0, <1>6, <2>1 DEF Lists, WriteListing, RotateBackup, WriteReceipt, TypeOK, Write
  <2>3. receipt' \in Files /\ backup' \in Files
    BY <1>0, <1>6, <2>1 DEF Lists, WriteListing, RotateBackup, WriteReceipt, TypeOK, Write
  <2> QED
    BY <1>0, <1>6, <2>1, <2>2, <2>3 DEF Lists, WriteListing, RotateBackup, WriteReceipt, TypeOK
<1>7. CASE WriteIndex
  <2>1. writing \in Write /\ crawl' = [crawl EXCEPT ![writing.company] = writing.next]
    BY <1>0, <1>7 DEF WriteIndex, TypeOK
  <2>2. crawl' \in [Companies -> AtWork \cup InLine \cup {"out", "later", "done"}]
    BY <1>0, <2>1 DEF TypeOK, Write, InLine
  <2> QED  BY <1>0, <1>7, <2>2 DEF WriteIndex, TypeOK
<1>8. CASE Interrupt \/ Finish \/ Crash
  BY <1>0, <1>8, ForgetsTyped DEF Interrupt, Finish, Crash, TypeOK, Ends, Forgets, durable
<1>9. CASE Classify \/ StartScore
  <2>1. todo' \subseteq Jobs
    BY <1>0, <1>9, AcceptedJobs
    DEF Classify, StartScore, Candidates, Plan, Unanalysed, Captured, CrawlDrained, IInv, StageInv
  <2> QED  BY <1>0, <1>9, <2>1 DEF Classify, StartScore, TypeOK, durable
<1>10. ASSUME NEW j \in Jobs, NEW outcome \in {"complete", "failed", "excluded"}, Hydrate(j, outcome)
       PROVE  TypeOK'
  BY <1>0, <1>10 DEF Hydrate, TypeOK, durable, Result
<1>11. CASE FlushRead \/ FlushRows
  <2>1. CASE FlushRead
    BY <1>0, <2>1 DEF FlushRead, TypeOK, Reading, durable
  <2>2. CASE FlushRows
    BY <1>0, <2>2, PipelineAssumption DEF FlushRows, TypeOK
  <2> QED  BY <1>11, <2>1, <2>2
<1>12. ASSUME NEW c \in Companies, FlushReceipt(c) PROVE TypeOK'
  BY <1>0, <1>12 DEF FlushReceipt, TypeOK
<1>13. CASE Reconcile
  BY <1>0, <1>13, ForgetsTyped DEF Reconcile, TypeOK
<1>14. ASSUME NEW j \in Jobs, NEW outcome \in {"complete", "failed"}, Score(j, outcome) PROVE TypeOK'
  BY <1>0, <1>14 DEF Score, TypeOK
<1>15. CASE RequestStop \/ (\E j \in Jobs : CaptureElsewhere(j) \/ ScoreElsewhere(j)) \/ UNCHANGED vars
  BY <1>0, <1>15 DEF RequestStop, CaptureElsewhere, ScoreElsewhere, TypeOK, durable, memory, vars
<1> QED
  BY <1>1, <1>2, <1>3, <1>4, <1>5, <1>6, <1>7, <1>8, <1>9, <1>10, <1>11, <1>12, <1>13, <1>14, <1>15, StepCases

\* Every step keeps the stages: a checkpoint from the freeze on, work only then.
LEMMA NextStageInv ==
  ASSUME IInv, [Next]_vars
  PROVE  StageInv'
<1>0. StageInv /\ WritingInv /\ TypeOK
  BY DEF IInv
<1>1. CASE Freeze
  BY <1>0, <1>1 DEF Freeze, StageInv, Files
<1>2. CASE WriteIndex
  <2>1. writing \in Write
    BY <1>0, <1>2 DEF WriteIndex, TypeOK
  <2>2. stage # "none" /\ stage' = stage /\ index \in Files
    BY <1>0, <1>2 DEF WriteIndex, StageInv, WritingInv
  <2>3. index' \in Files
    BY <1>2, <2>1, <2>2 DEF WriteIndex, Write, Files
  <2> QED  BY <2>2, <2>3 DEF StageInv
<1>3. CASE UNCHANGED <<index, stage, phase>>
  BY <1>0, <1>3 DEF StageInv
<1>4. CASE UNCHANGED index /\ stage # "none" /\ stage' # "none"
  BY <1>0, <1>4 DEF StageInv
<1>5. ASSUME StartCrawl \/ Interrupt \/ Classify \/ Reconcile \/ StartScore \/ Finish \/ Crash
      PROVE  StageInv'
  <2>1. stage # "none"
    BY <1>0, <1>5
    DEF StartCrawl, Interrupt, Classify, Reconcile, StartScore, Finish, Crash, CrawlDrained, StageInv
  <2> QED  BY <1>4, <1>5, <2>1
           DEF StartCrawl, Interrupt, Classify, Reconcile, StartScore, Finish, Crash, durable
<1> QED
  BY <1>1, <1>2, <1>3, <1>5, StepCases
  DEF vars, durable, memory, Submit, Collect, FlushReceipt, DropRetries,
      Lists, WriteListing, RotateBackup, WriteReceipt, Hydrate, Score, FlushRead, FlushRows,
      RequestStop, CaptureElsewhere, ScoreElsewhere

-----------------------------------------------------------------------------
(* The attempts.                                                           *)

\* While nothing is crawled there is nothing to show but the counts.
LEMMA QuietKeepsCrawl ==
  ASSUME IInv, UNCHANGED index, phase' # "crawl", writing' = None, stage' # "none" => stage # "none"
  PROVE  CrawlInv' /\ WritingInv'
  BY DEF IInv, CrawlInv, CrawlAt, WritingInv

\* Attempts counted so far.
LEMMA AttemptsAre ==
  ASSUME IInv, NEW c \in Companies, stage # "none"
  PROVE  /\ Attempts(c) \in Nat
         /\ index[c] # None => index[c] \in Entry /\ Attempts(c) = index[c].attempts
         /\ index[c] = None => Attempts(c) = 0
  BY DEF IInv, StageInv, Files, Entry, Attempts

\* Every step keeps the attempts within their bound.
LEMMA NextCrawlInv ==
  ASSUME IInv, [Next]_vars
  PROVE  CrawlInv' /\ WritingInv'
<1>0. TypeOK /\ StageInv /\ CrawlInv /\ WritingInv /\ MaxAttempts \in Nat \ {0}
  BY PipelineAssumption DEF IInv
<1>1. CASE Freeze
  BY <1>0, <1>1 DEF Freeze, memory, CrawlInv, CrawlAt, WritingInv, StageInv
<1>2. CASE StartCrawl
  <2>1. stage # "none" /\ stage' = stage /\ index' = index /\ phase' = "crawl" /\ writing' = writing /\ phase = "idle"
    BY <1>2 DEF StartCrawl
  <2>2. WritingInv'
    BY <1>0, <2>1 DEF WritingInv
  <2>3. ASSUME NEW c \in Companies PROVE CrawlAt(c)'
    <3>1. Attempts(c)' = Attempts(c) /\ tries'[c] = Attempts(c)
      BY <1>2, <2>1 DEF StartCrawl, PriorAttempts, Attempts
    <3>2. index[c] # None => index[c].attempts <= MaxAttempts
      BY <1>0, <2>1 DEF CrawlInv, CrawlAt
    <3>3. crawl'[c] \in {"queued", "later", "done"} /\ (crawl'[c] = "queued" => ~Settled(c))
      BY <1>2 DEF StartCrawl, Batches
    <3>4. ~Settled(c) => Attempts(c) < MaxAttempts /\ (index[c] = None \/ index[c].status # "complete")
      BY <1>0, <2>1, <3>2, AttemptsAre DEF Settled, Entry
    <3>5. Attempts(c) \in Nat
      BY <2>1, AttemptsAre
    <3> QED  BY <2>1, <3>1, <3>2, <3>3, <3>4, <3>5 DEF CrawlAt, InLine, AtWork
  <2> QED  BY <2>2, <2>3 DEF CrawlInv
<1>3. ASSUME NEW d \in Companies, Submit(d) PROVE CrawlInv' /\ WritingInv'
  <2>1. /\ stage # "none" /\ stage' = stage /\ index' = index /\ phase = "crawl" /\ phase' = phase
        /\ writing = None /\ writing' = None
        /\ tries' = [tries EXCEPT ![d] = @ + 1]
        /\ crawl[d] \in InLine /\ \A c \in Companies \ {d} : crawl'[c] = crawl[c]
        /\ crawl'[d] \in AtWork
    BY <1>0, <1>3 DEF Submit, StageInv, durable, TypeOK, Waiting, InLine, AtWork
  <2>2. ASSUME NEW c \in Companies PROVE CrawlAt(c)'
    <3>1. CrawlAt(c) /\ tries \in [Companies -> Nat] /\ Attempts(c)' = Attempts(c) /\ Attempts(c) \in Nat
      BY <1>0, <2>1, AttemptsAre DEF CrawlInv, TypeOK, Attempts
    <3>2. CASE c = d
      <4>1. tries'[c] = tries[c] + 1 /\ crawl'[c] \in AtWork /\ crawl'[c] \notin InLine
        BY <2>1, <3>1, <3>2 DEF AtWork, InLine
      <4> QED  BY <1>0, <2>1, <3>1, <3>2, <4>1 DEF CrawlAt
    <3>3. CASE c # d
      BY <2>1, <3>1, <3>3 DEF CrawlAt
    <3> QED  BY <3>2, <3>3
  <2> QED  BY <2>1, <2>2 DEF CrawlInv, WritingInv
<1>4. ASSUME NEW c \in Companies, NEW jobs \in SUBSET JobsOf(c), NEW kind \in Outcomes, Collect(c, jobs, kind)
      PROVE  CrawlInv' /\ WritingInv'
  <2>1. /\ stage # "none" /\ phase = "crawl" /\ crawl[c] \in AtWork
        /\ UNCHANGED <<stage, index, phase, crawl, tries>>
    BY <1>0, <1>4 DEF Collect, StageInv, InFlight, AtWork, durable
  <2>2. CrawlInv'
    BY <1>0, <2>1 DEF CrawlInv, CrawlAt, Attempts
  <2>3. Attempts(c) \in Nat /\ Attempts(c) < tries[c] /\ tries[c] \in Nat
    BY <1>0, <2>1, AttemptsAre DEF CrawlInv, CrawlAt, TypeOK
  <2>4. WritingInv'
    <3>1. writing'.entry.attempts = Attempts(c) + 1 /\ writing'.company = c
      BY <1>4, CollectedWrite
    <3>2. writing'.entry.attempts <= tries[c]
      BY <2>3, <3>1
    <3> QED  BY <1>4, <2>1, <3>1, <3>2, CollectedWrite DEF WritingInv
  <2> QED  BY <2>2, <2>4
<1>5. CASE DropRetries
  BY <1>0, <1>5 DEF DropRetries, CrawlInv, CrawlAt, WritingInv, Attempts, durable, AtWork, InLine
<1>6. CASE Lists \/ RotateBackup \/ WriteReceipt
  BY <1>0, <1>6, WritingSteps DEF CrawlInv, CrawlAt, WritingInv, Attempts
<1>7. CASE WriteIndex
  <2> DEFINE d == writing.company
             e == writing.entry
  <2>1. /\ UNCHANGED <<stage, phase, tries>> /\ stage # "none" /\ phase = "crawl" /\ writing' = None
        /\ index' = [index EXCEPT ![d] = e] /\ crawl' = [crawl EXCEPT ![d] = writing.next]
        /\ d \in Companies /\ e \in Entry /\ writing.next \in {"await_short", "await_delayed", "done"}
        /\ e.attempts <= tries[d] /\ crawl[d] \in AtWork
        /\ writing.next # "done" => tries[d] < MaxAttempts /\ e.status # "complete"
    BY <1>0, <1>7 DEF WriteIndex, TypeOK, Write, WritingInv, StageInv
  <2> HIDE DEF d, e
  <2>2. index \in Files /\ crawl \in [Companies -> AtWork \cup InLine \cup {"out", "later", "done"}]
        /\ tries \in [Companies -> Nat]
    BY <1>0, <2>1 DEF StageInv, TypeOK
  <2>3. ASSUME NEW c \in Companies PROVE CrawlAt(c)'
    <3>1. CrawlAt(c)
      BY <1>0, <2>1 DEF CrawlInv
    <3>2. CASE c = d
      <4>1. index'[c] = e /\ crawl'[c] = writing.next /\ e.attempts \in Nat /\ tries[c] \in Nat
        BY <2>1, <2>2, <3>2 DEF Files, Entry
      <4>2. Attempts(c)' \in Nat /\ Attempts(c)' <= e.attempts
        BY <4>1 DEF Attempts
      <4>3. tries[c] <= MaxAttempts
        BY <2>1, <3>1, <3>2 DEF CrawlAt
      <4>4. crawl'[c] \notin AtWork /\ (crawl'[c] \in InLine => writing.next # "done")
        BY <2>1, <4>1 DEF AtWork, InLine
      <4>5. e.attempts <= MaxAttempts /\ Attempts(c)' <= tries[c]
        BY <1>0, <2>1, <3>2, <4>1, <4>2, <4>3
      <4> QED  BY <2>1, <3>2, <4>1, <4>4, <4>5 DEF CrawlAt
    <3>3. CASE c # d
      <4>1. index'[c] = index[c] /\ crawl'[c] = crawl[c] /\ Attempts(c)' = Attempts(c)
        BY <2>1, <2>2, <3>3 DEF Files, Attempts
      <4> QED  BY <2>1, <3>1, <4>1 DEF CrawlAt
    <3> QED  BY <3>2, <3>3
  <2> QED  BY <2>1, <2>3 DEF CrawlInv, WritingInv
<1>8. CASE UNCHANGED <<index, phase, crawl, tries, writing, stage>>
  BY <1>0, <1>8 DEF CrawlInv, CrawlAt, WritingInv, Attempts
<1>9. ASSUME Interrupt \/ Classify \/ Reconcile \/ StartScore \/ Finish \/ Crash
      PROVE  CrawlInv' /\ WritingInv'
  <2>1. stage # "none"
    BY <1>0, <1>9
    DEF Interrupt, Classify, Reconcile, StartScore, Finish, Crash, CrawlDrained, StageInv
  <2>2. UNCHANGED index /\ phase' # "crawl" /\ writing' = None
    BY <1>0, <1>9
    DEF Interrupt, Classify, Reconcile, StartScore, Finish, Crash, CrawlDrained, Ends, Forgets,
        durable, WritingInv
  <2> QED  BY <2>1, <2>2, QuietKeepsCrawl
<1> QED
  BY <1>1, <1>2, <1>3, <1>4, <1>5, <1>6, <1>7, <1>8, <1>9, StepCases
  DEF vars, durable, memory, FlushReceipt, Hydrate, Score, FlushRead, FlushRows, RequestStop,
      CaptureElsewhere, ScoreElsewhere

-----------------------------------------------------------------------------
(* The files of the checkpoint.                                            *)

\* Every step keeps the receipts that the index names.
LEMMA NextFilesInv ==
  ASSUME IInv, [Next]_vars
  PROVE  FilesInv'
<1>0. TypeOK /\ StageInv /\ FilesInv /\ WritingInv
  BY DEF IInv
<1>1. CASE Freeze
  BY <1>0, <1>1 DEF Freeze, FilesInv, FilesAt, Writes, WritingInv, memory
<1>2. CASE StartCrawl
  <2>1. /\ stage # "none" /\ stage' = stage /\ index' = index /\ backup' = backup /\ writing' = writing
        /\ phase = "idle" /\ receipt' = [c \in Companies |-> IF index[c] = None THEN receipt[c] ELSE index[c]]
    BY <1>2 DEF StartCrawl, Restored
  <2>2. writing = None
    BY <1>0, <2>1 DEF WritingInv
  <2> QED  BY <2>1, <2>2 DEF FilesInv, FilesAt, Recoverable, Writes
<1>3. ASSUME NEW c \in Companies, NEW jobs \in SUBSET JobsOf(c), NEW kind \in Outcomes, Collect(c, jobs, kind)
      PROVE  FilesInv'
  <2>1. writing'.step = "rows" /\ writing = None /\ UNCHANGED <<index, receipt, backup, stage, phase>>
    BY <1>3, CollectedWrite DEF Collect, durable
  <2> QED  BY <1>0, <2>1 DEF FilesInv, FilesAt, Recoverable, Writes
<1>4. CASE Lists \/ RotateBackup \/ WriteReceipt
  <2> SUFFICES ASSUME NEW d \in Companies, d = writing.company PROVE FilesInv'
    BY <1>4, WritingSteps DEF Write
  <2>1. /\ UNCHANGED <<stage, index, phase>> /\ stage # "none" /\ phase = "crawl" /\ index \in Files
        /\ writing # None /\ writing \in Write /\ writing' # None
        /\ receipt \in Files /\ backup \in Files
    BY <1>0, <1>4, WritingSteps DEF TypeOK, WritingInv, StageInv
  <2>2. writing'.company = d /\ writing'.entry = writing.entry
    BY <1>4, WritingSteps
  <2>3. ASSUME NEW c \in Companies, c # d PROVE FilesAt(c)'
    <3>1. receipt'[c] = receipt[c] /\ backup'[c] = backup[c]
      BY <1>4, <2>1, <2>3, WritingSteps DEF RotateBackup, WriteReceipt, Files
    <3>2. FilesAt(c)
      BY <1>0, <2>1 DEF FilesInv
    <3> QED  BY <2>1, <2>2, <2>3, <3>1, <3>2 DEF FilesAt, Recoverable, Writes
  <2>4. FilesAt(d)'
    <3> SUFFICES ASSUME index[d] # None
                 PROVE  /\ Recoverable(d)'
                        /\ ~Writes(d, {"index"})' => receipt'[d] = index[d]
                        /\ Writes(d, {"receipt", "index"})' => backup'[d] = index[d]
      BY <2>1 DEF FilesAt
    <3>1. FilesAt(d) /\ writing.company = d
      BY <1>0, <2>1 DEF FilesInv
    <3>2. CASE Lists
      <4>1. writing.step = "rows" /\ writing'.step \in {"rows", "backup"} /\ UNCHANGED <<receipt, backup>>
        BY <3>2, WritingSteps
      <4> QED  BY <2>1, <3>1, <4>1 DEF FilesAt, Writes, Recoverable
    <3>3. CASE RotateBackup
      <4>1. writing.step = "backup" /\ writing'.step = "receipt" /\ UNCHANGED receipt
        BY <3>3, WritingSteps DEF RotateBackup
      <4>2. receipt[d] = index[d]
        BY <2>1, <3>1, <4>1 DEF FilesAt, Writes
      <4>3. backup'[d] = index[d]
        BY <2>1, <3>3, <4>2 DEF RotateBackup, Files
      <4> QED  BY <2>1, <4>1, <4>2, <4>3 DEF Writes, Recoverable
    <3>4. CASE WriteReceipt
      <4>1. writing.step = "receipt" /\ writing'.step = "index" /\ UNCHANGED backup
        BY <3>4, WritingSteps DEF WriteReceipt
      <4>2. backup[d] = index[d]
        BY <2>1, <3>1, <4>1 DEF FilesAt, Writes
      <4>3. Writes(d, {"index"})'
        BY <2>1, <2>2, <3>4, <4>1 DEF Writes, WritingInv, WriteReceipt
      <4> QED  BY <2>1, <4>1, <4>2, <4>3 DEF Writes, Recoverable
    <3> QED  BY <1>4, <3>2, <3>3, <3>4
  <2>5. ASSUME NEW c \in Companies, Writes(c, {"index"})' PROVE receipt'[c] = writing'.entry
    <3>1. c = d /\ WriteReceipt
      BY <1>4, <2>1, <2>2, <2>5, WritingSteps DEF Writes
    <3> QED  BY <2>1, <2>2, <3>1 DEF WriteReceipt, Files
  <2> QED  BY <2>1, <2>3, <2>4, <2>5 DEF FilesInv
<1>5. CASE WriteIndex
  <2> SUFFICES ASSUME NEW d \in Companies, d = writing.company PROVE FilesInv'
    BY <1>0, <1>5 DEF WriteIndex, TypeOK, Write
  <2>1. /\ UNCHANGED <<stage, phase, receipt, backup>> /\ stage # "none" /\ phase = "crawl" /\ writing' = None
        /\ index' = [index EXCEPT ![d] = writing.entry] /\ index \in Files
        /\ writing # None /\ writing.step = "index"
    BY <1>0, <1>5 DEF WriteIndex, TypeOK, Write, WritingInv, StageInv
  <2>2. ASSUME NEW c \in Companies PROVE FilesAt(c)'
    <3>1. FilesAt(c)
      BY <1>0, <2>1 DEF FilesInv
    <3>2. CASE c = d
      <4>1. index'[c] = writing.entry /\ ~Writes(c, {"index"})'
        BY <2>1, <3>2 DEF Files, Writes
      <4>2. receipt'[c] = index'[c]
        BY <1>0, <2>1, <3>2, <4>1 DEF FilesInv, Writes
      <4> QED  BY <2>1, <4>1, <4>2 DEF FilesAt, Recoverable, Writes
    <3>3. CASE c # d
      <4>1. index'[c] = index[c] /\ ~Writes(c, {"index"}) /\ ~Writes(c, {"receipt", "index"})'
        BY <2>1, <3>3 DEF Files, Writes
      <4> QED  BY <2>1, <3>1, <4>1 DEF FilesAt, Recoverable
    <3> QED  BY <3>2, <3>3
  <2> QED  BY <2>1, <2>2 DEF FilesInv, Writes
<1>6. CASE UNCHANGED <<index, phase, writing, stage, receipt, backup>>
  BY <1>0, <1>6 DEF FilesInv, FilesAt, Recoverable, Writes
<1>7. ASSUME Interrupt \/ Classify \/ Reconcile \/ StartScore \/ Finish \/ Crash PROVE FilesInv'
  <2>1. stage # "none"
    BY <1>0, <1>7
    DEF Interrupt, Classify, Reconcile, StartScore, Finish, Crash, CrawlDrained, StageInv
  <2>2. UNCHANGED <<index, receipt, backup>> /\ phase' # "crawl" /\ writing' = None
    BY <1>0, <1>7
    DEF Interrupt, Classify, Reconcile, StartScore, Finish, Crash, CrawlDrained, Ends, Forgets,
        durable, WritingInv
  <2> QED  BY <1>0, <2>1, <2>2 DEF FilesInv, FilesAt, Recoverable, Writes
<1> QED
  BY <1>1, <1>2, <1>3, <1>4, <1>5, <1>6, <1>7, StepCases
  DEF vars, durable, memory, Submit, DropRetries, FlushReceipt, Hydrate, Score, FlushRead, FlushRows,
      RequestStop, CaptureElsewhere, ScoreElsewhere

-----------------------------------------------------------------------------
(* The rows behind the checkpoint.                                         *)

\* A job that has a row keeps it, and a captured job stays captured.
LEMMA PresentGrows ==
  ASSUME IInv, [Next]_vars
  PROVE  Present \subseteq Present' /\ Captured \subseteq Captured'
  BY StepRows DEF RowsGrow, RowGrows, Present, Captured

\* Every step keeps the rows of what is listed.
LEMMA NextListedInv ==
  ASSUME IInv, [Next]_vars
  PROVE  ListedInv'
<1>0. TypeOK /\ StageInv /\ ListedInv /\ WritingInv /\ Present \subseteq Present'
  BY PresentGrows DEF IInv
<1>1. CASE Freeze
  BY <1>0, <1>1 DEF Freeze, ListedInv, Accepted, memory, WritingInv
<1>2. CASE StartCrawl
  <2>1. UNCHANGED <<stage, writing>> /\ writing = None /\ preRun' = Present /\ Accepted' = Accepted
    BY <1>0, <1>2 DEF StartCrawl, WritingInv, Accepted
  <2> QED  BY <1>0, <2>1 DEF ListedInv
<1>3. ASSUME NEW c \in Companies, NEW jobs \in SUBSET JobsOf(c), NEW kind \in Outcomes, Collect(c, jobs, kind)
      PROVE  ListedInv'
  <2>1. /\ writing'.step = "rows" /\ writing'.left = writing'.entry.jobs \ preRun
        /\ UNCHANGED <<stage, preRun>> /\ Accepted' = Accepted
    BY <1>3, CollectedWrite DEF Collect, durable, Accepted
  <2> QED  BY <1>0, <2>1 DEF ListedInv
<1>4. CASE Lists \/ RotateBackup \/ WriteReceipt
  <2>1. /\ UNCHANGED <<stage, preRun>> /\ Accepted' = Accepted
        /\ writing # None /\ writing \in Write /\ writing'.entry = writing.entry
    BY <1>4, WritingSteps DEF Accepted
  <2>2. /\ writing.entry.jobs \ writing'.left \subseteq Present'
        /\ writing'.step # "rows" => writing'.left = {}
    <3>1. CASE Lists
      <4>1. PICK part \in SUBSET writing.left : WriteListing(part)
        BY <3>1 DEF Lists
      <4>2. /\ rows' = Listed(rows, part) /\ writing'.left = writing.left \ part
            /\ writing'.step = IF part = writing.left THEN "backup" ELSE "rows"
        BY <2>1, <4>1 DEF WriteListing, Write, StepAfter
      <4>3. part \subseteq Present'
        <5> SUFFICES ASSUME NEW j \in part PROVE j \in Present'
          OBVIOUS
        <5>1. j \in Jobs /\ rows'[j].capture # "absent"
          BY <1>0, <2>1, <4>2, ListedRows DEF TypeOK, Write
        <5> QED  BY <5>1 DEF Present
      <4> QED  BY <1>0, <2>1, <4>2, <4>3 DEF ListedInv
    <3>2. CASE RotateBackup \/ WriteReceipt
      BY <1>0, <3>2, <2>1, WritingSteps DEF ListedInv
    <3> QED  BY <1>4, <3>1, <3>2
  <2> QED  BY <1>0, <2>1, <2>2 DEF ListedInv
<1>5. CASE WriteIndex
  <2>1. /\ writing \in Write /\ writing # None /\ writing.step = "index" /\ index \in Files
        /\ index' = [index EXCEPT ![writing.company] = writing.entry] /\ writing' = None
        /\ preRun' = preRun /\ stage # "none" /\ stage' = stage
    BY <1>0, <1>5 DEF WriteIndex, TypeOK, StageInv, WritingInv
  <2>2. writing.entry.jobs \subseteq Present
    BY <1>0, <2>1 DEF ListedInv
  <2>3. Accepted' \subseteq Accepted \cup writing.entry.jobs
    BY <2>1 DEF Accepted, Files
  <2> QED  BY <1>0, <2>1, <2>2, <2>3 DEF ListedInv
<1>6. CASE UNCHANGED <<index, preRun, writing>> /\ (stage' # "none" => stage # "none")
  <2>1. Accepted' = Accepted
    BY <1>6 DEF Accepted
  <2> QED  BY <1>0, <1>6, <2>1 DEF ListedInv
<1>7. ASSUME Interrupt \/ Finish \/ Crash \/ Reconcile PROVE ListedInv'
  <2>1. /\ preRun' = {} /\ writing' = None /\ Accepted' = Accepted
        /\ stage' # "none" => stage # "none"
    BY <1>0, <1>7
    DEF Interrupt, Finish, Crash, Reconcile, Ends, Forgets, durable, Accepted, StageInv, CrawlDrained
  <2> QED  BY <1>0, <2>1 DEF ListedInv
<1> QED
  BY <1>0, <1>1, <1>2, <1>3, <1>4, <1>5, <1>6, <1>7, StepCases
  DEF vars, durable, memory, Submit, DropRetries, Classify, FlushReceipt, Hydrate, Score,
      FlushRead, FlushRows, StartScore, RequestStop, CaptureElsewhere, ScoreElsewhere, StageInv

-----------------------------------------------------------------------------
(* The details.                                                            *)

\* Every step keeps the details in their rows.
LEMMA NextDetailInv ==
  ASSUME IInv, [Next]_vars
  PROVE  DetailInv'
<1>0. TypeOK /\ DetailInv /\ Captured \subseteq Captured' /\ Captured' \subseteq Jobs
  BY PresentGrows DEF IInv, Captured
<1>1. CASE StartCrawl
  BY <1>0, <1>1 DEF StartCrawl, DetailInv
<1>2. ASSUME NEW j \in Jobs, NEW outcome \in {"complete", "failed", "excluded"}, Hydrate(j, outcome)
      PROVE  DetailInv'
  <2>1. /\ details' = details /\ batch' = batch \cup {j} /\ flushing' = {}
        /\ \A i \in Jobs : i # j => results'[i] = results[i]
    BY <1>0, <1>2 DEF Hydrate, durable, TypeOK
  <2> QED  BY <1>0, <2>1 DEF DetailInv
<1>3. CASE FlushRows
  <2>1. UNCHANGED <<details, results>> /\ batch' = {}
    BY <1>3 DEF FlushRows
  <2>2. ASSUME NEW j \in batch, results[j] = "complete" PROVE j \in Captured'
    <3>1. j \in Jobs /\ rows'[j] = Detailed(j)
      BY <1>0, <1>3, <2>2 DEF FlushRows, TypeOK
    <3>2. rows'[j].capture = "complete"
      BY <1>0, <2>2, <3>1, DetailedRow DEF TypeOK
    <3> QED  BY <3>1, <3>2 DEF Captured
  <2> QED  BY <1>0, <2>1, <2>2 DEF DetailInv
<1>4. ASSUME NEW c \in Companies, FlushReceipt(c) PROVE DetailInv'
  <2>1. /\ UNCHANGED <<results, batch>> /\ batch = {} /\ flushing' \subseteq flushing
        /\ \A j \in Jobs : details'[j] \in {details[j], results[j]}
    BY <1>0, <1>4 DEF FlushReceipt, DetailInv, TypeOK
  <2> QED  BY <1>0, <2>1 DEF DetailInv
<1>5. CASE Interrupt \/ Finish \/ Crash \/ Reconcile
  BY <1>0, <1>5 DEF Interrupt, Finish, Crash, Reconcile, Ends, Forgets, durable, DetailInv
<1>6. CASE UNCHANGED <<details, results, batch, flushing>>
  BY <1>0, <1>6 DEF DetailInv
<1> QED
  BY <1>1, <1>2, <1>3, <1>4, <1>5, <1>6, StepCases
  DEF vars, durable, memory, Freeze, Submit, Collect, DropRetries, Lists, WriteListing, RotateBackup,
      WriteReceipt, WriteIndex, Classify, FlushRead, Score, StartScore, RequestStop, CaptureElsewhere,
      ScoreElsewhere

\* Every step keeps the scores behind the analyses.
LEMMA NextScoreInv ==
  ASSUME IInv, [Next]_vars
  PROVE  ScoreInv'
  BY StepRows DEF IInv, ScoreInv, RowsGrow, RowGrows

-----------------------------------------------------------------------------
(* The invariant and what it says.                                         *)

\* Every step keeps the invariant.
LEMMA NextIInv == IInv /\ [Next]_vars => IInv'
  BY NextTypeOK, NextScoreInv, NextStageInv, NextCrawlInv, NextFilesInv, NextListedInv,
                                                                                                          NextDetailInv DEF IInv

\* The invariant holds in every state of a scope: types, the life of the checkpoint,
\* the attempts, the receipt files, the rows and details behind them.
THEOREM PipelineInvariant == Spec => []IInv
  BY InitIInv, NextIInv, PTL DEF Spec

\* A listing in the checkpoint has its rows, a detail noted as captured is in its row
\* (checkpoint_company and _flush_hydration commit the data before they note it).
THEOREM ReceiptsHaveRows == Spec => []ReceiptsAreBacked
<1>1. IInv => ReceiptsAreBacked
  BY DEF IInv, StageInv, ListedInv, DetailInv, ReceiptsAreBacked
<1> QED  BY <1>1, PipelineInvariant, PTL

\* Wherever the process dies, the receipt that the index names is in its place or in
\* the backup (_write_company_checkpoint).
THEOREM CheckpointSurvives == Spec => []CheckpointIsRecoverable
<1>1. IInv => CheckpointIsRecoverable
  BY DEF IInv, StageInv, FilesInv, FilesAt, CheckpointIsRecoverable
<1> QED  BY <1>1, PipelineInvariant, PTL

\* No more attempts are counted than the scope allows, over all its invocations
\* (_crawl_companies).
THEOREM AttemptsStayBounded == Spec => []AttemptsBounded
<1>1. IInv => AttemptsBounded
  BY DEF IInv, StageInv, CrawlInv, CrawlAt, AttemptsBounded
<1> QED  BY <1>1, PipelineInvariant, PTL

-----------------------------------------------------------------------------
(* What a step never does.                                                 *)

\* The checkpoint moves only by the freeze, and by the entry being written.
LEMMA IndexSteps ==
  ASSUME IInv, [Next]_vars
  PROVE  UNCHANGED index \/ Freeze \/ WriteIndex
  BY StepCases DEF vars, durable, memory, StartCrawl, Submit, Collect, DropRetries, Lists,
                   WriteListing, RotateBackup,
         WriteReceipt, Interrupt, Classify, Hydrate, FlushRead, FlushRows, FlushReceipt, Reconcile,
         StartScore, Score, Finish,
         RequestStop, Crash, CaptureElsewhere, ScoreElsewhere

\* No step takes away a capture, a score, a complete list or a job of a partial one
\* (upsert_job_snapshot, _merge_partial_result); an analysis goes only by a flush that
\* read the job before it was scored (_persist_title_first), and its score stays.
THEOREM NothingGainedIsLost == Spec => ResultsAreKept
<1> DEFINE Kept(c) == IF index[c].status = "complete"
                        THEN index'[c] = index[c]
                        ELSE index'[c].status = "complete" \/ index[c].jobs \subseteq index'[c].jobs
           Keeps == /\ Captured \subseteq Captured'
                    /\ \A j \in Jobs :
                          /\ rows[j].scored => rows'[j].scored
                          /\ rows[j].analysis = "complete" /\ rows'[j].analysis # "complete" =>
                                ReadBeforeScored(j) /\ rows'[j].scored
                    /\ index # None => \A c \in Companies : index[c] # None => Kept(c)
<1>1. ASSUME IInv, [Next]_vars PROVE Keeps
  <2>1. Captured \subseteq Captured'
    BY <1>1, PresentGrows
  <2>2. ASSUME NEW j \in Jobs
        PROVE  /\ rows[j].scored => rows'[j].scored
               /\ rows[j].analysis = "complete" /\ rows'[j].analysis # "complete" =>
                     ReadBeforeScored(j) /\ rows'[j].scored
    BY <1>1, StepRows DEF IInv, ScoreInv, RowsGrow, RowGrows, AnalysisKept
  <2>3. ASSUME index # None, NEW c \in Companies, index[c] # None PROVE Kept(c)
    <3>1. CASE UNCHANGED index
      BY <3>1
    <3>2. CASE Freeze
      BY <1>1, <2>3, <3>2 DEF Freeze, IInv, StageInv
    <3>3. CASE WriteIndex
      <4>1. /\ stage # "none" /\ phase = "crawl" /\ index \in Files
            /\ writing \in Write /\ index' = [index EXCEPT ![writing.company] = writing.entry]
            /\ crawl[writing.company] \in AtWork
            /\ index[writing.company] # None =>
                  writing.entry.status = "complete" \/ index[writing.company].jobs \subseteq writing.entry.jobs
        BY <1>1, <3>3 DEF WriteIndex, IInv, TypeOK, StageInv, WritingInv
      <4>2. CASE c = writing.company
        <5>1. index[c].status # "complete" /\ index'[c] = writing.entry
          BY <1>1, <2>3, <4>1, <4>2 DEF IInv, CrawlInv, CrawlAt, Files
        <5> QED  BY <2>3, <4>1, <4>2, <5>1
      <4>3. CASE c # writing.company
        BY <4>1, <4>3 DEF Files
      <4> QED  BY <4>2, <4>3
    <3> QED  BY <1>1, <3>1, <3>2, <3>3, IndexSteps
  <2> QED  BY <2>1, <2>2, <2>3
<1>2. IInv /\ [Next]_vars => [Keeps]_vars
  BY <1>1
<1> QED  BY <1>2, PipelineInvariant, PTL DEF Spec, ResultsAreKept

\* A job is taken down by its own details, or by a complete list without it
\* (_reconcile, persist_details), never by a partial or failed crawl.
THEOREM ClosureNeedsEvidence == Spec => ClosedOnEvidence
<1> DEFINE Evidence(j) == \/ rows'[j].excluded
                          \/ LET e == index[OwnerOf[j]]
                             IN  e # None /\ e.status = "complete" /\ j \notin e.jobs
           Closes == \A j \in Jobs : rows[j].active /\ ~rows'[j].active => Evidence(j)
<1>1. ASSUME IInv, [Next]_vars PROVE Closes
  <2> SUFFICES ASSUME NEW j \in Jobs, rows[j].active, ~rows'[j].active PROVE Evidence(j)
    OBVIOUS
  <2>0. rows \in [Jobs -> Row] /\ rows[j] \in Row /\ results \in [Jobs -> Result]
    BY <1>1 DEF IInv, TypeOK
  <2>1. CASE StartCrawl \/ Lists
    <3>1. PICK jobs : rows' = Listed(rows, jobs)
      BY <2>1 DEF StartCrawl, Lists, WriteListing
    <3> QED  BY <2>0, <3>1, ListedRows
  <2>2. CASE FlushRows
    <3>1. rows'[j] = Detailed(j)
      BY <2>2 DEF FlushRows
    <3> QED  BY <2>0, <3>1, DetailedRow
  <2>3. CASE Reconcile
    <3> DEFINE seen == {i \in Accepted \ inserted : ~rows[i].excluded}
               gone == UNION {Gone(c) : c \in {d \in Companies : index[d] # None}}
    <3>1. rows' = [i \in Jobs |-> IF rows[i].capture = "absent" THEN rows[i]
                                  ELSE [rows[i] EXCEPT !.active = (@ \/ i \in seen) /\ i \notin gone]]
      BY <2>3 DEF Reconcile
    <3>2. j \in gone
      <4> HIDE DEF seen, gone
      <4>1. ASSUME j \notin gone PROVE FALSE
        <5>1. \/ rows'[j] = rows[j]
              \/ rows'[j] = [rows[j] EXCEPT !.active = (rows[j].active \/ j \in seen) /\ j \notin gone]
          BY <3>1
        <5>2. ((rows[j].active \/ j \in seen) /\ j \notin gone) = TRUE
          BY <4>1
        <5>3. rows'[j] = rows[j] \/ rows'[j] = [rows[j] EXCEPT !.active = TRUE]
          BY <5>1, <5>2
        <5> QED  BY <2>0, <5>3 DEF Row
      <4> QED  BY <4>1
    <3>3. PICK c \in Companies : index[c] # None /\ j \in Gone(c)
      BY <3>2
    <3>4. index[c].status = "complete" /\ OwnerOf[j] = c /\ j \notin index[c].jobs
      BY <3>3 DEF Gone, JobsOf
    <3> QED  BY <3>3, <3>4
  <2>4. ASSUME NEW i \in Jobs, NEW outcome \in {"complete", "failed"}, Score(i, outcome) PROVE FALSE
    <3>1. rows' = [rows EXCEPT ![i] = Rescored(rows[i], outcome)]
      BY <2>4 DEF Score
    <3>2. rows'[j].active = rows[j].active
      BY <2>0, <3>1, RescoredRow
    <3> QED  BY <3>2
  <2>5. ASSUME NEW i \in Jobs, CaptureElsewhere(i) \/ ScoreElsewhere(i) PROVE FALSE
    <3>1. CASE CaptureElsewhere(i)
      <4>1. rows'[i].active /\ (i # j => rows'[j] = rows[j])
        BY <2>0, <3>1 DEF CaptureElsewhere, Row
      <4> QED  BY <4>1
    <3>2. CASE ScoreElsewhere(i)
      <4>1. rows' = [rows EXCEPT ![i] = Rescored(rows[i], "complete")]
        BY <3>2 DEF ScoreElsewhere
      <4>2. rows'[j].active = rows[j].active
        BY <2>0, <4>1, RescoredRow
      <4> QED  BY <4>2
    <3> QED  BY <2>5, <3>1, <3>2
  <2>6. CASE UNCHANGED rows
    BY <2>6
  <2> HIDE DEF Evidence
  <2> QED
    BY <1>1, <2>1, <2>2, <2>3, <2>4, <2>5, <2>6, StepCases
    DEF vars, durable, memory, Freeze, Submit, Collect, FlushReceipt, DropRetries,
        RotateBackup, WriteReceipt, WriteIndex, Interrupt, Classify, Hydrate, FlushRead, StartScore,
        Finish, RequestStop, Crash
<1>2. IInv /\ [Next]_vars => [Closes]_vars
  BY <1>1
<1> QED  BY <1>2, PipelineInvariant, PTL DEF Spec, ClosedOnEvidence
==============================================================================
