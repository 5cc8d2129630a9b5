------------------------------ MODULE BatchLedger ------------------------------
(***************************************************************************)
(* run_batch and its durable resume ledger.  Several calls of run_batch    *)
(* under ONE job id, each in a process of its own, read and append to one  *)
(* ledger file while they fire their rows' writes at the target system.    *)
(* A process may be killed at any step, an append may fail or be torn, and *)
(* a replay may fail before or after its write reached the target.         *)
(*                                                                         *)
(* A row is named by its Idempotency-Key tuple; Invalid is a row the       *)
(* pre-flight rejects.  One replay is one step here: WriteReplay models it.*)
(***************************************************************************)
EXTENDS Naturals, Sequences, FiniteSets

CONSTANTS
  Runs,        \* the calls of run_batch(resume = the one job id)
  Keys,        \* Idempotency-Key tuples
  Invalid,     \* a row that fails _preflight_row
  Requests,    \* what an operator passes: rows, on_row_error, dry_run
  MaxRows,     \* run_batch(max_rows = ...)
  HonorsKey,   \* TRUE if the target dedupes a repeated Idempotency-Key
  TornAppends, \* TRUE if an interrupted append may leave part of a line
  Overlap      \* TRUE if a run may begin while another one is live

ASSUME KeysAssumption == Invalid \notin Keys
ASSUME RequestsAssumption ==
  Requests \subseteq [rows : Seq(Keys \cup {Invalid}), policy : {"stop", "continue"},
                     dry : BOOLEAN]
ASSUME BoundAssumption == MaxRows \in Nat
ASSUME FlagsAssumption ==
  /\ HonorsKey \in BOOLEAN
  /\ TornAppends \in BOOLEAN
  /\ Overlap \in BOOLEAN

VARIABLES
  lines,      \* the ledger file, as json.loads reads each of its lines
  exists,     \* the ledger file exists
  open,       \* its last line has no newline yet
  effects,    \* external: how often the target performed each row's write
  unrecorded, \* history: writes whose row has no line, or has lost it again
  \* the local state of each call
  pc,         \* where it is
  req,        \* its arguments: rows, on_row_error, dry_run
  seen,       \* RunLedger._committed
  idx,        \* the row it is at
  stopped,    \* `stopped`
  handle,     \* RunLedger._fh is open
  pend,       \* why the row in record() is being recorded
  report      \* the results reported so far

vars == <<lines, exists, open, effects, unrecorded,
          pc, req, seen, idx, stopped, handle, pend, report>>

Header == [kind |-> "header"]
Foreign == [kind |-> "foreign"]      \* a header of another flow_key or scope
Junk == [kind |-> "junk"]            \* a line json.loads refuses
Commit(k) == [kind |-> "commit", key |-> k]
Lines == {Header, Foreign, Junk} \cup {Commit(k) : k \in Keys}

\* RunLedger.committed(): what the file says has landed, and whether the file
\* is this flow's at all.
Readable == {k \in Keys : \E i \in DOMAIN lines : lines[i] = Commit(k)}
\* Fault: committed() trusts every file at its path.
TrustsEveryFile == FALSE
IsForeign == \E i \in DOMAIN lines : lines[i] = Foreign

Live == {"rows", "open", "header", "commit"}
NoRequest == [rows |-> <<>>, policy |-> "stop", dry |-> FALSE]

Init ==
  /\ effects = [k \in Keys |-> 0]
  /\ unrecorded = [k \in Keys |-> 0]
  /\ open = FALSE
  /\ \/ exists = FALSE /\ lines = <<>>
     \* a misplaced file: a ledger another flow wrote
     \/ exists = TRUE /\ \E k \in Keys : lines = <<Foreign, Commit(k)>>
  /\ pc = [p \in Runs |-> "idle"]
  /\ req = [p \in Runs |-> NoRequest]
  /\ seen = [p \in Runs |-> {}]
  /\ idx = [p \in Runs |-> 1]
  /\ stopped = [p \in Runs |-> FALSE]
  /\ handle = [p \in Runs |-> FALSE]
  /\ pend = [p \in Runs |-> "none"]
  /\ report = [p \in Runs |-> {}]

\* A BatchRowResult; a report is the set of them, the index gives their order.
Result(i, status, code) == [index |-> i, status |-> status, code |-> code]

-------------------------------------------------------------------------------
(* Pre-flight: every refusal comes before the first row is fired.          *)

Valid(rows) == {i \in DOMAIN rows : rows[i] # Invalid}
Duplicate(rows) ==
  {i \in Valid(rows) : \E j \in Valid(rows) : j < i /\ rows[j] = rows[i]}
BadRows(rows) == (DOMAIN rows \ Valid(rows)) \cup Duplicate(rows)

InvalidReport(rows) == {Result(i, "invalid", "") : i \in BadRows(rows)}

PlannedReport(rows, done) ==
  {Result(i, IF rows[i] \in done THEN "resumed" ELSE "planned", "") : i \in DOMAIN rows}

\* run_batch up to its first row: ends, refuses, or goes on to fire rows.
Start(p, r) ==
  /\ pc[p] = "idle"
  /\ Overlap \/ \A q \in Runs : pc[q] \notin Live
  /\ req' = [req EXCEPT ![p] = r]
  /\ UNCHANGED <<lines, exists, open, effects, unrecorded, idx, stopped, handle, pend>>

Empty(p, r) ==
  /\ r.rows = <<>>
  /\ Start(p, r)
  /\ pc' = [pc EXCEPT ![p] = "ended"]
  /\ UNCHANGED <<seen, report>>

\* LedgerUnusableError, BatchBoundExceededError
Refuse(p, r) ==
  /\ r.rows # <<>>
  /\ IsForeign \/ Len(r.rows) > MaxRows
  /\ Start(p, r)
  /\ pc' = [pc EXCEPT ![p] = "refused"]
  /\ UNCHANGED <<seen, report>>

Accepted(p, r) ==
  /\ r.rows # <<>>
  /\ ~IsForeign
  /\ Len(r.rows) <= MaxRows
  /\ Start(p, r)
  /\ seen' = [seen EXCEPT ![p] = Readable]

Reject(p, r) ==
  /\ BadRows(r.rows) # {}
  /\ Accepted(p, r)
  /\ pc' = [pc EXCEPT ![p] = "invalid"]
  /\ report' = [report EXCEPT ![p] = InvalidReport(r.rows)]

Plan(p, r) ==
  /\ BadRows(r.rows) = {}
  /\ r.dry
  /\ Accepted(p, r)
  /\ pc' = [pc EXCEPT ![p] = "ended"]
  /\ report' = [report EXCEPT ![p] = PlannedReport(r.rows, Readable)]

Begin(p, r) ==
  /\ BadRows(r.rows) = {}
  /\ ~r.dry
  /\ Accepted(p, r)
  /\ pc' = [pc EXCEPT ![p] = "rows"]
  /\ UNCHANGED report

Preflight(p) ==
  \E r \in Requests :
    Empty(p, r) \/ Refuse(p, r) \/ Reject(p, r) \/ Plan(p, r) \/ Begin(p, r)

-------------------------------------------------------------------------------
(* The row loop.                                                           *)

Row(p) == req[p].rows[idx[p]]

AtRow(p) == pc[p] = "rows" /\ idx[p] <= Len(req[p].rows)

\* Report the row and go on to the next one.
Report(p, status, code) ==
  /\ report' = [report EXCEPT ![p] = @ \cup {Result(idx[p], status, code)}]
  /\ idx' = [idx EXCEPT ![p] = @ + 1]

SkipStopped(p) ==
  /\ AtRow(p)
  /\ stopped[p]
  /\ Report(p, "skipped", "")
  /\ UNCHANGED <<lines, exists, open, effects, unrecorded, pc, req, seen, stopped, handle, pend>>

SkipCommitted(p) ==
  /\ AtRow(p)
  /\ ~stopped[p]
  /\ Row(p) \in seen[p]
  /\ Report(p, "resumed", "")
  /\ UNCHANGED <<lines, exists, open, effects, unrecorded, pc, req, seen, stopped, handle, pend>>

\* Fault: a row is fired whatever the ledger says.
FiresRegardless(p) == AtRow(p) /\ ~stopped[p]

ReadyToFire(p) == AtRow(p) /\ ~stopped[p] /\ Row(p) \notin seen[p]

\* external: the target performs the write, unless it recognises the key
Performed(k) ==
  [effects EXCEPT ![k] = IF HonorsKey /\ @ > 0 THEN @ ELSE @ + 1]

\* A replay reaches the target or it does not; `lost` says its row goes
\* unrecorded if it does.
Fire(k, reaches, lost) ==
  /\ effects' = IF reaches THEN Performed(k) ELSE effects
  /\ unrecorded' =
       IF reaches /\ lost THEN [unrecorded EXCEPT ![k] = @ + 1] ELSE unrecorded
  /\ UNCHANGED <<lines, exists, open>>

EnterRecord(p, why) ==
  /\ pc' = [pc EXCEPT ![p] = IF handle[p] THEN "commit" ELSE "open"]
  /\ pend' = [pend EXCEPT ![p] = why]

\* replay() returned: its write was confirmed now, or was there already.
\* The row is reported ok first and recorded next.
ReplayOk(p) ==
  /\ ReadyToFire(p)
  /\ \E confirmed \in BOOLEAN :
       /\ confirmed \/ effects[Row(p)] > 0
       /\ Fire(Row(p), confirmed, FALSE)
  /\ report' = [report EXCEPT ![p] = @ \cup {Result(idx[p], "ok", "")}]
  /\ EnterRecord(p, "ok")
  /\ UNCHANGED <<req, seen, idx, stopped, handle>>

\* Fault: the ledger records a row for every error, with or without evidence.
RecordsAnyError(p) ==
  /\ ReadyToFire(p)
  /\ \E reaches \in BOOLEAN : Fire(Row(p), reaches, FALSE)
  /\ EnterRecord(p, "landed")
  /\ UNCHANGED <<req, seen, idx, stopped, handle, report>>

\* A FlowReplayError whose write was seen to land: recorded first, reported next.
ReplayLandedError(p) ==
  /\ ReadyToFire(p)
  /\ Fire(Row(p), TRUE, FALSE)
  /\ EnterRecord(p, "landed")
  /\ UNCHANGED <<req, seen, idx, stopped, handle, report>>

\* Any other FlowReplayError: the write may have reached the target.
ReplayError(p) ==
  /\ ReadyToFire(p)
  /\ \E reaches \in BOOLEAN : Fire(Row(p), reaches, TRUE)
  /\ Report(p, "failed", "error")
  /\ stopped' = [stopped EXCEPT ![p] = (req[p].policy = "stop")]
  /\ UNCHANGED <<pc, req, seen, handle, pend>>

\* Any other exception stops the batch whatever the policy.
ReplayRaises(p) ==
  /\ ReadyToFire(p)
  /\ \E reaches \in BOOLEAN : Fire(Row(p), reaches, TRUE)
  /\ Report(p, "failed", "raised")
  /\ stopped' = [stopped EXCEPT ![p] = TRUE]
  /\ UNCHANGED <<pc, req, seen, handle, pend>>

Finish(p) ==
  /\ pc[p] = "rows"
  /\ idx[p] > Len(req[p].rows)
  /\ pc' = [pc EXCEPT ![p] = "ended"]
  /\ UNCHANGED <<lines, exists, open, effects, unrecorded,
                 req, seen, idx, stopped, handle, pend, report>>

-------------------------------------------------------------------------------
(* RunLedger.record                                                        *)

\* Open for append; only the first opener of a missing file writes the header.
OpenLedger(p) ==
  /\ pc[p] = "open"
  /\ exists' = TRUE
  /\ handle' = [handle EXCEPT ![p] = TRUE]
  /\ pc' = [pc EXCEPT ![p] = IF exists THEN "commit" ELSE "header"]
  /\ UNCHANGED <<lines, open, effects, unrecorded, req, seen, idx, stopped, pend, report>>

\* Bytes appended after an unterminated last line become part of that line,
\* which then is no record json.loads accepts.
Glued == [lines EXCEPT ![Len(lines)] = Junk]

AppendLine(line) ==
  /\ lines' = IF open THEN Glued ELSE Append(lines, line)
  /\ open' = FALSE

\* What an append that does not return can leave behind: nothing, all of the
\* line, part of it, or all but its newline.
InterruptedAppend(line) ==
  \/ UNCHANGED <<lines, open>>
  \/ AppendLine(line)
  \/ /\ TornAppends
     /\ open' = TRUE
     /\ lines' \in IF open THEN {Glued} ELSE {Append(lines, Junk), Append(lines, line)}

\* The rows that have no line after an append: of those it had to record, and of those
\* whose line it was glued to.
Unrecorded(rows) ==
  [k \in Keys |-> IF k \in (Readable \cup rows) \ Readable'
                  THEN unrecorded[k] + 1 ELSE unrecorded[k]]

AppendHeader(p) ==
  /\ pc[p] = "header"
  /\ AppendLine(Header)
  /\ unrecorded' = Unrecorded({})
  /\ pc' = [pc EXCEPT ![p] = "commit"]
  /\ UNCHANGED <<exists, effects, req, seen, idx, stopped, handle, pend, report>>

\* The row's line is on disk: the success path goes on to the next row, the
\* handler of a landed error reports the row first.
AppendCommit(p) ==
  /\ pc[p] = "commit"
  /\ AppendLine(Commit(Row(p)))
  /\ seen' = [seen EXCEPT ![p] = @ \cup {Row(p)}]
  /\ pc' = [pc EXCEPT ![p] = "rows"]
  /\ pend' = [pend EXCEPT ![p] = "none"]
  /\ \/ /\ pend[p] = "ok"
        /\ idx' = [idx EXCEPT ![p] = @ + 1]
        /\ UNCHANGED <<report, stopped>>
     \/ /\ pend[p] = "landed"
        /\ Report(p, "failed", "landed")
        /\ stopped' = [stopped EXCEPT ![p] = (req[p].policy = "stop")]
  /\ unrecorded' = Unrecorded({Row(p)})
  /\ UNCHANGED <<exists, effects, req, handle>>

\* The shared state an interrupted record() can have changed.
Interrupted(p) ==
  /\ \/ pc[p] = "open" /\ UNCHANGED <<lines, open>>
     \/ pc[p] = "header" /\ InterruptedAppend(Header)
     \/ pc[p] = "commit" /\ InterruptedAppend(Commit(Row(p)))
  /\ unrecorded' = Unrecorded({Row(p)})
  /\ UNCHANGED <<exists, effects>>

\* record() raises OSError on the success path: run_batch's handler of any
\* exception reports the row once more, as a crash.
RecordFailsOk(p) ==
  /\ pend[p] = "ok"
  /\ Interrupted(p)
  /\ Report(p, "failed", "raised")
  /\ stopped' = [stopped EXCEPT ![p] = TRUE]
  /\ pc' = [pc EXCEPT ![p] = "rows"]
  /\ pend' = [pend EXCEPT ![p] = "none"]
  /\ UNCHANGED <<req, seen, handle>>

\* record() raises inside the handler of a landed error: nothing catches it,
\* and the report is lost with the call.
RecordFailsLanded(p) ==
  /\ pend[p] = "landed"
  /\ Interrupted(p)
  /\ pc' = [pc EXCEPT ![p] = "escaped"]
  /\ UNCHANGED <<req, seen, idx, stopped, handle, pend, report>>

-------------------------------------------------------------------------------
(* The environment kills a process: between two rows, while a row's replay *)
(* is under way, or inside record().                                       *)

Dies(p) ==
  /\ pc' = [pc EXCEPT ![p] = "dead"]
  /\ UNCHANGED <<req, seen, idx, stopped, handle, pend, report>>

CrashBetween(p) ==
  /\ pc[p] = "rows"
  /\ Dies(p)
  /\ UNCHANGED <<lines, exists, open, effects, unrecorded>>

CrashInReplay(p) ==
  /\ ReadyToFire(p)
  /\ Fire(Row(p), TRUE, TRUE)
  /\ Dies(p)

CrashInRecord(p) ==
  /\ Interrupted(p)
  /\ Dies(p)

-------------------------------------------------------------------------------
Replay(p) ==
  \/ ReplayOk(p)
  \/ ReplayLandedError(p)
  \/ ReplayError(p)
  \/ ReplayRaises(p)

Step(p) ==
  \/ SkipStopped(p)
  \/ SkipCommitted(p)
  \/ Replay(p)
  \/ OpenLedger(p)
  \/ AppendHeader(p)
  \/ AppendCommit(p)
  \/ RecordFailsOk(p)
  \/ RecordFailsLanded(p)
  \/ Finish(p)

Crash(p) ==
  \/ CrashBetween(p)
  \/ CrashInReplay(p)
  \/ CrashInRecord(p)

Next == \E p \in Runs : Preflight(p) \/ Step(p) \/ Crash(p)

Spec == Init /\ [][Next]_vars

\* A live call keeps taking steps (replay() has its own timeouts); nothing
\* obliges an operator to start one or a process to be killed.
FairSpec == Spec /\ \A p \in Runs : WF_vars(Step(p))

-------------------------------------------------------------------------------
(* Properties                                                              *)

Statuses == {"ok", "failed", "skipped", "invalid", "planned", "resumed"}
Codes == {"", "error", "raised", "landed"}

Results == [index : Nat \ {0}, status : Statuses, code : Codes]

TypeOK ==
  /\ lines \in Seq(Lines)
  /\ exists \in BOOLEAN
  /\ open \in BOOLEAN
  /\ open => lines # <<>>
  /\ effects \in [Keys -> Nat]
  /\ unrecorded \in [Keys -> Nat]
  /\ pc \in [Runs -> Live \cup {"idle", "ended", "invalid", "refused", "escaped", "dead"}]
  /\ req \in [Runs -> [rows : Seq(Keys \cup {Invalid}),
                       policy : {"stop", "continue"}, dry : BOOLEAN]]
  /\ seen \in [Runs -> SUBSET Keys]
  /\ idx \in [Runs -> Nat \ {0}]
  /\ stopped \in [Runs -> BOOLEAN]
  /\ handle \in [Runs -> BOOLEAN]
  /\ pend \in [Runs -> {"none", "ok", "landed"}]
  /\ report \in [Runs -> SUBSET Results]

Landed == {k \in Keys : effects[k] > 0}

\* The rows call p reports with status s.
WithStatus(p, s) == {req[p].rows[e.index] : e \in {d \in report[p] : d.status = s}}

\* A row reported as already committed and not run has landed: the ledger
\* never authorises a false skip, whatever was torn, glued or misplaced.
NoFalseSkip == \A p \in Runs : WithStatus(p, "resumed") \subseteq Landed

\* Every line a run would read as a commit is of a row whose write landed,
\* unless the file is a foreign one, which no run accepts.
LedgerSound == IsForeign \/ Readable \subseteq Landed

Firing(p) == pc[p] = "rows" /\ (pc'[p] # "rows" \/ idx'[p] # idx[p])
Recording(p) == pc[p] \in {"open", "header", "commit"}

\* A row's write is performed again only if the earlier one has no line because its
\* record was lost, or a run that overlaps this one recorded it after this one had read
\* the ledger, or is about to (RunLedger: "re-fires only the rows that never landed").
RefireNeedsLoss ==
  [][\A p \in Runs, k \in Keys :
       Firing(p) /\ 0 < effects[k] /\ effects[k] < effects'[k] =>
         \/ k \notin Readable /\ unrecorded[k] > 0
         \/ k \in Readable \ seen[p]
         \/ \E q \in Runs \ {p} : Recording(q) /\ Row(q) = k]_vars

OkBatch(p) ==
  /\ pc[p] = "ended"
  /\ ~req[p].dry
  /\ \A e \in report[p] : e.status \notin {"failed", "skipped"}

\* A batch that says "ok" has landed every one of its rows.
OkMeansLanded ==
  \A p \in Runs : OkBatch(p) => \A i \in DOMAIN req[p].rows : req[p].rows[i] \in Landed

\* Once a row fails under "stop", or raises under any policy, every later row
\* is skipped.
FailureStops ==
  \A p \in Runs : \A d, e \in report[p] :
    /\ d.index < e.index
    /\ d.status = "failed"
    /\ req[p].policy = "stop" \/ d.code = "raised"
    => e.status = "skipped"

\* Rows this call has confirmed, recorded without an error, and left behind.
LeftBehind(p) ==
  {req[p].rows[e.index] :
     e \in {d \in report[p] : d.status = "ok" /\ d.index < idx[p]}} \ WithStatus(p, "failed")

\* A row a run has recorded is in the file, readable, before the run fires the
\* next one (RunLedger's docstring).
RecordedIsDurable ==
  \A p \in Runs : pc[p] # "dead" => LeftBehind(p) \subseteq Readable

\* A batch that has begun comes to an end.
Terminates == \A p \in Runs : pc[p] \in Live ~> pc[p] \notin Live

Job == INSTANCE ResumableJob WITH
  Rows <- Keys,
  CanLose <- TornAppends,
  landed <- Landed,
  recorded <- IF IsForeign THEN {} ELSE Readable,
  skipped <- UNION {WithStatus(p, "resumed") : p \in Runs}

\* The ledger and its runs do only what a resumable job may.
ImplementsJob == Job!Spec

-------------------------------------------------------------------------------
(* What the code does not keep: known limits, stated for the record.        *)

\* A call of run_batch whose process lives ends with one result per row: fails if
\* record() raises, which reports the row twice or loses the report.
OneResultPerRow ==
  \A p \in Runs : pc[p] \in {"ended", "escaped"} => Cardinality(report[p]) = Len(req[p].rows)
===============================================================================
