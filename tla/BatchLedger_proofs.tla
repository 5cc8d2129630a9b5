--------------------------- MODULE BatchLedger_proofs ---------------------------
(***************************************************************************)
(* Proofs about BatchLedger, for any number of runs, keys and rows and any *)
(* mixture of kills, failed appends and torn lines: the ledger's type      *)
(* correctness, that it never authorises a false skip, and that the runs   *)
(* implement ResumableJob. And about Review, for any pages, readings and   *)
(* specs: that no sequence of calls takes the mark off a step that more    *)
(* than a guess speaks for, and that what an approved flow returns is like *)
(* what the human saw who approved it.                                     *)
(***************************************************************************)
EXTENDS BatchLedger, Review, FiniteSetTheorems, TLAPS

(* ---------------------------- appending a line ---------------------------- *)

\* Whatever an append does, in full or interrupted, the file stays a list of
\* lines, stays this flow's, and gains no commit but the one being written.
LEMMA AppendEffect ==
  ASSUME lines \in Seq(Lines), open \in BOOLEAN, open => lines # <<>>,
         NEW line \in Lines, line # Foreign, ~IsForeign,
         AppendLine(line) \/ InterruptedAppend(line)
  PROVE  /\ lines' \in Seq(Lines)
         /\ open' \in BOOLEAN
         /\ open' => lines' # <<>>
         /\ ~IsForeign'
         /\ Readable' \subseteq Readable \cup {k \in Keys : line = Commit(k)}
<1> Junk \in Lines /\ Junk # Foreign /\ \A k \in Keys : Junk # Commit(k)
  BY DEF Lines, Junk, Foreign, Commit
<1> DEFINE Grown(l) == lines' = Append(lines, l) /\ open' \in BOOLEAN
<1> DEFINE Replaced == open /\ lines' = [lines EXCEPT ![Len(lines)] = Junk] /\ open' \in BOOLEAN
<1>1. \/ UNCHANGED <<lines, open>>
      \/ Replaced
      \/ Grown(line)
      \/ Grown(Junk)
  BY DEF AppendLine, InterruptedAppend, Glued
<1>2. CASE UNCHANGED <<lines, open>>
  BY <1>2 DEF IsForeign, Readable
<1>3. CASE Replaced
  <2>1. Len(lines) \in Nat /\ Len(lines) > 0 /\ DOMAIN lines' = DOMAIN lines
        /\ Len(lines') = Len(lines) /\ lines' \in Seq(Lines)
    BY <1>3
  <2>2. \A i \in DOMAIN lines' : lines'[i] = Junk \/ lines'[i] = lines[i]
    BY <1>3, <2>1
  <2> QED
    BY <1>3, <2>1, <2>2 DEF IsForeign, Readable
<1>4. ASSUME NEW l \in {line, Junk}, Grown(l)
      PROVE  /\ lines' \in Seq(Lines)
             /\ open' \in BOOLEAN
             /\ open' => lines' # <<>>
             /\ ~IsForeign'
             /\ Readable' \subseteq Readable \cup {k \in Keys : line = Commit(k)}
  <2>1. lines' \in Seq(Lines) /\ Len(lines') = Len(lines) + 1 /\ Len(lines) \in Nat
    BY <1>4
  <2>2. \A i \in DOMAIN lines' : lines'[i] = l \/ (i \in DOMAIN lines /\ lines'[i] = lines[i])
    BY <1>4, <2>1
  <2>3. ~IsForeign'
    BY <1>4, <2>2 DEF IsForeign
  <2>4. Readable' \subseteq Readable \cup {k \in Keys : line = Commit(k)}
    BY <1>4, <2>2 DEF Readable
  <2> QED
    BY <1>4, <2>1, <2>3, <2>4
<1> QED
  BY <1>1, <1>2, <1>3, <1>4

(* --------------------------- the inductive invariant --------------------------- *)

InRecord(p) == pc[p] \in {"open", "header", "commit"}

\* A call that was not refused fires only well-formed rows at its own ledger.
Admitted(p) == pc[p] \in Live => ~IsForeign /\ req[p].rows \in Seq(Keys) /\ ~req[p].dry

\* What a call believes to be committed, or reports as such, has landed.
Believed(p) == seen[p] \subseteq Landed /\ WithStatus(p, "resumed") \subseteq Landed

\* record() is entered for a row of the batch whose write has landed.
RecordsLanded(p) ==
  InRecord(p) => idx[p] <= Len(req[p].rows) /\ Row(p) \in Landed /\ pend[p] \in {"ok", "landed"}

\* Every row left behind has landed, or the report owns up to a row that may not
\* have.
Accounted(p) ==
  pc[p] \in Live \cup {"ended"} /\ ~req[p].dry =>
    \A i \in DOMAIN req[p].rows : i < idx[p] =>
      \/ req[p].rows[i] \in Landed
      \/ \E e \in report[p] : e.status \in {"failed", "skipped"}

\* A call that ended has left every row behind.
Exhausted(p) == pc[p] = "ended" /\ ~req[p].dry => idx[p] > Len(req[p].rows)

\* A call that has not begun has reported nothing.
Fresh(p) == pc[p] = "idle" => report[p] = {} /\ idx[p] = 1

RunOK(p) ==
  /\ Fresh(p)
  /\ Admitted(p)
  /\ Believed(p)
  /\ RecordsLanded(p)
  /\ Accounted(p)
  /\ Exhausted(p)

IInv ==
  /\ TypeOK
  /\ LedgerSound
  /\ \A p \in Runs : RunOK(p)

\* Only call p's own variables changed.
OnlyCall(p) ==
  \A q \in Runs \ {p} :
    /\ pc'[q] = pc[q] /\ req'[q] = req[q] /\ seen'[q] = seen[q] /\ idx'[q] = idx[q]
    /\ pend'[q] = pend[q] /\ report'[q] = report[q]

\* An action of call p preserves the invariant if it keeps the shared state sound
\* and p's own state sound: rows only become landed and no file becomes foreign.
LEMMA Assemble ==
  ASSUME IInv, NEW p \in Runs, OnlyCall(p), TypeOK', RunOK(p)',
         Landed \subseteq Landed', IsForeign' => IsForeign, LedgerSound'
  PROVE  IInv'
<1>1. ASSUME NEW q \in Runs PROVE RunOK(q)'
  <2>1. CASE q = p
    BY <2>1
  <2>2. CASE q # p
    <3>1. /\ pc'[q] = pc[q] /\ req'[q] = req[q] /\ seen'[q] = seen[q] /\ idx'[q] = idx[q]
          /\ pend'[q] = pend[q] /\ report'[q] = report[q]
      BY <2>2 DEF OnlyCall
    <3>2. RunOK(q)
      BY DEF IInv
    <3>3. WithStatus(q, "resumed")' = WithStatus(q, "resumed")
      BY <3>1 DEF WithStatus
    <3> QED
      BY <3>1, <3>2, <3>3
      DEF RunOK, Fresh, Admitted, Believed, RecordsLanded, Accounted, Exhausted, InRecord, Row
  <2> QED
    BY <2>1, <2>2
<1> QED
  BY <1>1 DEF IInv

\* An action that leaves the file and the target alone keeps the shared state sound.
LEMMA QuietSound ==
  ASSUME LedgerSound, UNCHANGED <<lines, effects>>
  PROVE  /\ Landed \subseteq Landed'
         /\ Landed' = Landed
         /\ IsForeign' = IsForeign
         /\ LedgerSound'
BY DEF Landed, IsForeign, LedgerSound, Readable

\* So does a fired write, which lands if it reaches the target.
LEMMA FireSound ==
  ASSUME TypeOK, LedgerSound, NEW k \in Keys, NEW reaches \in BOOLEAN, NEW lost \in BOOLEAN,
         Fire(k, reaches, lost)
  PROVE  /\ Landed \subseteq Landed'
         /\ reaches => k \in Landed'
         /\ IsForeign' = IsForeign
         /\ LedgerSound'
         /\ effects' \in [Keys -> Nat]
         /\ unrecorded' \in [Keys -> Nat]
         /\ UNCHANGED <<lines, exists, open>>
<1>1. effects' \in [Keys -> Nat] /\ unrecorded' \in [Keys -> Nat]
  BY DEF TypeOK, Fire, Performed
<1>2. \A j \in Keys : effects[j] > 0 => effects'[j] > 0
  BY <1>1 DEF TypeOK, Fire, Performed
<1>3. reaches => effects'[k] > 0
  BY <1>1 DEF TypeOK, Fire, Performed
<1>4. UNCHANGED <<lines, exists, open>>
  BY DEF Fire
<1> QED
  BY <1>1, <1>2, <1>3, <1>4 DEF Landed, IsForeign, LedgerSound, Readable

\* And so does an append, in full or interrupted, of a header or of a landed row.
LEMMA AppendSound ==
  ASSUME TypeOK, LedgerSound, ~IsForeign, UNCHANGED effects,
         NEW line \in {Header} \cup {Commit(k) : k \in Landed},
         AppendLine(line) \/ InterruptedAppend(line)
  PROVE  /\ Landed' = Landed
         /\ ~IsForeign'
         /\ LedgerSound'
         /\ lines' \in Seq(Lines)
         /\ open' \in BOOLEAN
         /\ open' => lines' # <<>>
<1>1. line \in Lines /\ line # Foreign
  BY DEF Lines, Foreign, Header, Commit, Landed
<1>2. /\ lines' \in Seq(Lines)
      /\ open' \in BOOLEAN
      /\ open' => lines' # <<>>
      /\ ~IsForeign'
      /\ Readable' \subseteq Readable \cup {k \in Keys : line = Commit(k)}
  BY <1>1, AppendEffect DEF TypeOK
<1>3. Landed' = Landed
  BY DEF Landed
<1>4. {k \in Keys : line = Commit(k)} \subseteq Landed
  <2>1. \A j, k : Commit(j) = Commit(k) => j = k
    <3> SUFFICES ASSUME NEW j, NEW k, Commit(j) = Commit(k) PROVE j = k
      OBVIOUS
    <3>1. Commit(j).key = j /\ Commit(k).key = k
      BY DEF Commit
    <3> QED
      BY <3>1
  <2>2. \A k : Header # Commit(k)
    <3> SUFFICES ASSUME NEW k, Header = Commit(k) PROVE FALSE
      OBVIOUS
    <3>1. Header.kind = "header" /\ Commit(k).kind = "commit"
      BY DEF Header, Commit
    <3> QED
      BY <3>1
  <2> QED
    BY <2>1, <2>2
<1> QED
  BY <1>2, <1>3, <1>4 DEF LedgerSound

\* What an append leaves unrecorded is a count of each row.
LEMMA UnrecordedType ==
  ASSUME TypeOK, NEW rows, unrecorded' = Unrecorded(rows)
  PROVE  unrecorded' \in [Keys -> Nat]
BY DEF TypeOK, Unrecorded

(* ------------------------------ the actions, one by one ------------------------------ *)

\* What _row_result builds is a result.
LEMMA ResultType ==
  ASSUME NEW i \in Nat \ {0}, NEW status \in Statuses, NEW code \in Codes
  PROVE  Result(i, status, code) \in Results
BY DEF Result, Results

\* The state before any call of run_batch satisfies the invariant.
LEMMA InitSound == Init => IInv
<1> SUFFICES ASSUME Init PROVE IInv
  OBVIOUS
<1>1. lines \in Seq(Lines)
  <2>1. CASE lines = <<>>
    BY <2>1
  <2>2. CASE \E k \in Keys : lines = <<Foreign, Commit(k)>>
    <3>1. PICK k \in Keys : lines = <<Foreign, Commit(k)>>
      BY <2>2
    <3>2. Foreign \in Lines /\ Commit(k) \in Lines
      BY DEF Lines
    <3> QED
      BY <3>1, <3>2
  <2> QED
    BY <2>1, <2>2 DEF Init
<1>2. TypeOK
  <2>1. NoRequest \in [rows : Seq(Keys \cup {Invalid}), policy : {"stop", "continue"},
                      dry : BOOLEAN]
    BY DEF NoRequest
  <2>2. open => lines # <<>>
    BY DEF Init
  <2>3. exists \in BOOLEAN /\ open \in BOOLEAN
    BY DEF Init
  <2>4. stopped \in [Runs -> BOOLEAN] /\ handle \in [Runs -> BOOLEAN]
    BY DEF Init
  <2> QED
    BY <1>1, <2>1, <2>2, <2>3, <2>4 DEF Init, TypeOK, Live
<1>3. LedgerSound
  BY DEF Init, LedgerSound, IsForeign, Readable
<1>4. ASSUME NEW p \in Runs PROVE RunOK(p)
  BY DEF Init, RunOK, Fresh, Admitted, Believed, RecordsLanded, Accounted, Exhausted, InRecord,
         WithStatus, Live
<1> QED
  BY <1>2, <1>3, <1>4 DEF IInv

\* Everything run_batch does before its first row keeps it: ended, refused,
\* invalid and planned calls report nothing that a read of the ledger does not support.
LEMMA PreflightSound == ASSUME IInv, NEW p \in Runs, Preflight(p) PROVE IInv'
<1>1. PICK r \in Requests : Empty(p, r) \/ Refuse(p, r) \/ Reject(p, r) \/ Plan(p, r) \/ Begin(p, r)
  BY DEF Preflight
<1>2. /\ Start(p, r)
      /\ UNCHANGED <<lines, exists, open, effects, unrecorded, idx, stopped, handle, pend>>
      /\ req' = [req EXCEPT ![p] = r]
  BY <1>1 DEF Empty, Refuse, Reject, Plan, Begin, Accepted, Start
<1>3. r \in [rows : Seq(Keys \cup {Invalid}), policy : {"stop", "continue"}, dry : BOOLEAN]
  BY RequestsAssumption
<1>4. /\ Landed \subseteq Landed' /\ Landed' = Landed /\ IsForeign' = IsForeign /\ LedgerSound'
  BY <1>2, QuietSound DEF IInv
<1>5. DOMAIN r.rows \subseteq Nat \ {0}
  BY <1>3
<1>6. IInv /\ TypeOK /\ req'[p] = r
  BY <1>2, <1>3 DEF IInv, TypeOK
<1>7. req' \in [Runs -> [rows : Seq(Keys \cup {Invalid}), policy : {"stop", "continue"}, dry : BOOLEAN]]
  BY <1>2, <1>3, <1>6 DEF TypeOK
<1>8. IsForeign \/ (Readable \subseteq Landed /\ Readable \in SUBSET Keys)
  BY DEF IInv, LedgerSound, Readable
<1>9. pc[p] = "idle" /\ report[p] = {} /\ idx[p] = 1 /\ seen[p] \subseteq Landed
  BY <1>2 DEF Start, IInv, RunOK, Fresh, Believed
<1>10. CASE Empty(p, r) \/ Refuse(p, r)
  <2>1. pc' \in [Runs -> {"ended", "refused"} \cup Live \cup {"idle", "invalid", "escaped", "dead"}]
    BY <1>6, <1>10 DEF Empty, Refuse, TypeOK
  <2>2. TypeOK'
    BY <1>2, <1>6, <1>7, <1>10, <2>1 DEF Empty, Refuse, TypeOK
  <2>3. OnlyCall(p)
    BY <1>2, <1>6, <1>10 DEF Empty, Refuse, OnlyCall, TypeOK
  <2>4. seen'[p] = seen[p] /\ report'[p] = {} /\ (pc'[p] = "refused" \/ (pc'[p] = "ended" /\ r.rows = <<>>))
    BY <1>6, <1>9, <1>10 DEF Empty, Refuse, TypeOK
  <2>5. idx'[p] = 1
    BY <1>2, <1>9
  <2>6. RunOK(p)'
    BY <1>4, <1>6, <1>9, <2>4, <2>5
    DEF RunOK, Fresh, Admitted, Believed, RecordsLanded, Accounted, Exhausted, InRecord,
        WithStatus, Live
  <2> QED
    BY <1>4, <2>2, <2>3, <2>6, Assemble
<1>11. CASE Reject(p, r) \/ Plan(p, r) \/ Begin(p, r)
  <2>1. /\ ~IsForeign /\ r.rows # <<>>
        /\ seen' = [seen EXCEPT ![p] = Readable]
    BY <1>11 DEF Reject, Plan, Begin, Accepted
  <2>2. /\ pc' = [pc EXCEPT ![p] = pc'[p]] /\ report' = [report EXCEPT ![p] = report'[p]]
        /\ pc'[p] \in {"invalid", "ended", "rows"}
    BY <1>6, <1>11 DEF Reject, Plan, Begin, TypeOK
  <2>3. report'[p] \subseteq Results
    <3>1. InvalidReport(r.rows) \subseteq Results
      BY <1>5, ResultType DEF InvalidReport, BadRows, Valid, Duplicate, Statuses, Codes
    <3>2. PlannedReport(r.rows, Readable) \subseteq Results
      <4>1. \A i \in DOMAIN r.rows, s \in {"resumed", "planned"} : Result(i, s, "") \in Results
        BY <1>5, ResultType DEF Statuses, Codes
      <4> QED
        BY <4>1 DEF PlannedReport
    <3> QED
      BY <1>6, <1>9, <1>11, <3>1, <3>2 DEF Reject, Plan, Begin, TypeOK
  <2>4. TypeOK'
    <3>1. pc' \in [Runs -> Live \cup {"idle", "ended", "invalid", "refused", "escaped", "dead"}]
      BY <1>6, <2>2 DEF TypeOK, Live
    <3>2. seen' \in [Runs -> SUBSET Keys]
      BY <1>6, <1>8, <2>1 DEF TypeOK
    <3>3. report' \in [Runs -> SUBSET Results]
      BY <1>6, <2>2, <2>3 DEF TypeOK
    <3> QED
      BY <1>2, <1>6, <1>7, <3>1, <3>2, <3>3 DEF TypeOK
  <2>5. OnlyCall(p)
    BY <1>2, <1>6, <2>1, <2>2 DEF OnlyCall, TypeOK
  <2>6. seen'[p] = Readable /\ Readable \subseteq Landed /\ idx'[p] = 1
    BY <1>2, <1>6, <1>8, <1>9, <2>1 DEF TypeOK
  <2>7. \A e \in report'[p] : e.status = "resumed" => r.rows[e.index] \in Readable
    <3>1. report'[p] = InvalidReport(r.rows) \/ report'[p] = PlannedReport(r.rows, Readable)
          \/ report'[p] = {}
      BY <1>6, <1>9, <1>11 DEF Reject, Plan, Begin, TypeOK
    <3>2. \A e \in InvalidReport(r.rows) : e.status = "invalid"
      <4> TAKE e \in InvalidReport(r.rows)
      <4>1. PICK i \in BadRows(r.rows) : e = Result(i, "invalid", "")
        BY DEF InvalidReport
      <4> QED
        BY <4>1 DEF Result
    <3>3. \A e \in PlannedReport(r.rows, Readable) : e.status = "resumed" => r.rows[e.index] \in Readable
      <4> TAKE e \in PlannedReport(r.rows, Readable)
      <4>1. PICK i \in DOMAIN r.rows :
              e = Result(i, IF r.rows[i] \in Readable THEN "resumed" ELSE "planned", "")
        BY DEF PlannedReport
      <4>2. e.index = i /\ e.status = (IF r.rows[i] \in Readable THEN "resumed" ELSE "planned")
        BY <4>1 DEF Result
      <4> QED
        BY <4>2
    <3> QED
      BY <3>1, <3>2, <3>3
  <2>8. pc'[p] = "rows" => ~r.dry /\ r.rows \in Seq(Keys)
    <3> SUFFICES ASSUME pc'[p] = "rows" PROVE ~r.dry /\ r.rows \in Seq(Keys)
      OBVIOUS
    <3>1. BadRows(r.rows) = {} /\ ~r.dry
      BY <1>6, <1>11 DEF Reject, Plan, Begin, TypeOK
    <3>2. \A i \in DOMAIN r.rows : r.rows[i] \in Keys
      BY <1>3, <3>1 DEF BadRows, Valid
    <3> QED
      BY <1>3, <3>1, <3>2
  <2>9. pc'[p] = "ended" => r.dry
    BY <1>6, <1>11 DEF Reject, Plan, Begin, TypeOK
  <2>10. RunOK(p)'
    <3>1. Fresh(p)' /\ Admitted(p)' /\ RecordsLanded(p)' /\ Exhausted(p)'
      BY <1>4, <1>6, <2>1, <2>2, <2>8, <2>9 DEF Fresh, Admitted, RecordsLanded, Exhausted, InRecord, Live
    <3>2. Believed(p)'
      BY <1>4, <1>6, <2>6, <2>7 DEF Believed, WithStatus
    <3>3. Accounted(p)'
      BY <1>3, <1>6, <2>6 DEF Accounted
    <3> QED
      BY <3>1, <3>2, <3>3 DEF RunOK
  <2> QED
    BY <1>4, <2>4, <2>5, <2>10, Assemble
<1> QED
  BY <1>1, <1>10, <1>11

\* A call that reports its row and goes on to the next one stays sound, if the row
\* has landed whenever it is reported neither failed nor skipped.
LEMMA ReportSound ==
  ASSUME IInv, NEW p \in Runs, pc[p] \in Live, idx[p] <= Len(req[p].rows),
         NEW status \in Statuses, NEW code \in Codes, Report(p, status, code),
         req' = req, pc'[p] = "rows", seen'[p] \subseteq Landed',
         Landed \subseteq Landed', IsForeign' = IsForeign,
         status \in {"failed", "skipped"} \/ Row(p) \in Landed'
  PROVE  /\ idx' \in [Runs -> Nat \ {0}]
         /\ report' \in [Runs -> SUBSET Results]
         /\ \A q \in Runs \ {p} : idx'[q] = idx[q] /\ report'[q] = report[q]
         /\ RunOK(p)'
<1> DEFINE e == Result(idx[p], status, code)
<1> USE DEF IInv
<1>1. e \in Results
  BY ResultType DEF TypeOK
<1>2. /\ report'[p] = report[p] \cup {e}
      /\ idx'[p] = idx[p] + 1
      /\ \A q \in Runs \ {p} : idx'[q] = idx[q] /\ report'[q] = report[q]
  BY DEF Report, TypeOK
<1>3. idx' \in [Runs -> Nat \ {0}] /\ report' \in [Runs -> SUBSET Results]
  BY <1>1 DEF Report, TypeOK
<1>4. RunOK(p)
  OBVIOUS
<1>5. e.index = idx[p] /\ e.status = status
  BY DEF Result
<1>6. Fresh(p)' /\ Admitted(p)' /\ RecordsLanded(p)' /\ Exhausted(p)'
  BY <1>4 DEF RunOK, Fresh, Admitted, RecordsLanded, Exhausted, InRecord
<1>7. Believed(p)'
  <2> SUFFICES ASSUME NEW d \in report'[p], d.status = "resumed"
               PROVE  req[p].rows[d.index] \in Landed'
    BY DEF Believed, WithStatus
  <2>1. CASE d \in report[p]
    BY <1>4, <2>1 DEF RunOK, Believed, WithStatus
  <2>2. CASE d = e
    BY <1>5, <2>2 DEF Row
  <2> QED
    BY <1>2, <2>1, <2>2
<1>8. Accounted(p)'
  <2> SUFFICES ASSUME NEW i \in DOMAIN req[p].rows, i < idx[p] + 1, ~req[p].dry
               PROVE  \/ req[p].rows[i] \in Landed'
                      \/ \E d \in report'[p] : d.status \in {"failed", "skipped"}
    BY <1>2 DEF Accounted
  <2>1. i \in Nat /\ idx[p] \in Nat
    BY DEF TypeOK
  <2>2. CASE i = idx[p]
    BY <1>2, <1>5, <2>2 DEF Row
  <2>3. CASE i < idx[p]
    BY <1>2, <1>4, <2>3 DEF RunOK, Accounted
  <2> QED
    BY <2>1, <2>2, <2>3
<1> QED
  BY <1>2, <1>3, <1>6, <1>7, <1>8 DEF RunOK

\* Both ways of passing a row without running it keep the invariant.
LEMMA SkipSound ==
  ASSUME IInv, NEW p \in Runs, SkipStopped(p) \/ SkipCommitted(p)
  PROVE  IInv'
<1> USE DEF IInv
<1>1. PICK status \in {"skipped", "resumed"} :
        Report(p, status, "") /\ (status = "skipped" \/ Row(p) \in seen[p])
  BY DEF SkipStopped, SkipCommitted
<1>2. /\ AtRow(p)
      /\ UNCHANGED <<lines, exists, open, effects, unrecorded, pc, req, seen, stopped, handle, pend>>
  BY DEF SkipStopped, SkipCommitted
<1>3. Landed \subseteq Landed' /\ Landed' = Landed /\ IsForeign' = IsForeign /\ LedgerSound'
  BY <1>2, QuietSound
<1>4. seen[p] \subseteq Landed
  BY DEF RunOK, Believed
<1>5. status \in Statuses /\ "" \in Codes
  BY DEF Statuses, Codes
<1>6. pc[p] = "rows" /\ idx[p] <= Len(req[p].rows)
  BY <1>2 DEF AtRow
<1>7. /\ idx' \in [Runs -> Nat \ {0}] /\ report' \in [Runs -> SUBSET Results]
      /\ \A q \in Runs \ {p} : idx'[q] = idx[q] /\ report'[q] = report[q]
      /\ RunOK(p)'
  BY <1>1, <1>2, <1>3, <1>4, <1>5, <1>6, ReportSound DEF Live
<1>8. TypeOK'
  BY <1>2, <1>7 DEF TypeOK
<1>9. OnlyCall(p)
  BY <1>2, <1>7 DEF OnlyCall
<1> QED
  BY <1>3, <1>7, <1>8, <1>9, Assemble

\* At a row, the call's row is one of its keys.
LEMMA RowIsKey ==
  ASSUME IInv, NEW p \in Runs, pc[p] \in Live, idx[p] <= Len(req[p].rows)
  PROVE  Row(p) \in Keys /\ ~IsForeign
<1>1. req[p].rows \in Seq(Keys) /\ ~IsForeign
  BY DEF IInv, RunOK, Admitted
<1>2. idx[p] \in Nat \ {0}
  BY DEF IInv, TypeOK
<1> QED
  BY <1>1, <1>2 DEF Row

\* A replay that fails unrecorded keeps the invariant, landed or not.
LEMMA ReplayFailsSound ==
  ASSUME IInv, NEW p \in Runs, ReplayError(p) \/ ReplayRaises(p)
  PROVE  IInv'
<1> USE DEF IInv
<1>1. PICK reaches \in BOOLEAN, code \in {"error", "raised"}, stop \in BOOLEAN :
        /\ Fire(Row(p), reaches, TRUE)
        /\ Report(p, "failed", code)
        /\ stopped' = [stopped EXCEPT ![p] = stop]
  BY DEF ReplayError, ReplayRaises
<1>2. ReadyToFire(p) /\ UNCHANGED <<pc, req, seen, handle, pend>>
  BY DEF ReplayError, ReplayRaises
<1>3. pc[p] = "rows" /\ idx[p] <= Len(req[p].rows)
  BY <1>2 DEF ReadyToFire, AtRow
<1>4. Row(p) \in Keys
  BY <1>3, RowIsKey DEF Live
<1>5. /\ Landed \subseteq Landed' /\ IsForeign' = IsForeign /\ LedgerSound'
      /\ effects' \in [Keys -> Nat] /\ unrecorded' \in [Keys -> Nat]
      /\ UNCHANGED <<lines, exists, open>>
  BY <1>1, <1>4, FireSound
<1>6. seen'[p] \subseteq Landed'
  BY <1>2, <1>5 DEF RunOK, Believed
<1>7. "failed" \in Statuses /\ code \in Codes
  BY DEF Statuses, Codes
<1>8. /\ idx' \in [Runs -> Nat \ {0}] /\ report' \in [Runs -> SUBSET Results]
      /\ \A q \in Runs \ {p} : idx'[q] = idx[q] /\ report'[q] = report[q]
      /\ RunOK(p)'
  BY <1>1, <1>2, <1>3, <1>5, <1>6, <1>7, ReportSound DEF Live
<1>9. TypeOK'
  BY <1>1, <1>2, <1>5, <1>8 DEF TypeOK
<1>10. OnlyCall(p)
  BY <1>2, <1>8 DEF OnlyCall
<1> QED
  BY <1>5, <1>8, <1>9, <1>10, Assemble

\* A replay whose write landed keeps it on its way into RunLedger.record.
LEMMA EnterRecordSound ==
  ASSUME IInv, NEW p \in Runs, ReplayOk(p) \/ ReplayLandedError(p)
  PROVE  IInv'
<1> USE DEF IInv
<1>1. /\ ReadyToFire(p)
      /\ UNCHANGED <<req, seen, idx, stopped, handle>>
  BY DEF ReplayOk, ReplayLandedError
<1>2. pc[p] = "rows" /\ idx[p] <= Len(req[p].rows)
  BY <1>1 DEF ReadyToFire, AtRow
<1>3. Row(p) \in Keys /\ ~IsForeign
  BY <1>2, RowIsKey DEF Live
<1>4. PICK reaches \in BOOLEAN :
        Fire(Row(p), reaches, FALSE) /\ (reaches \/ effects[Row(p)] > 0)
  BY DEF ReplayOk, ReplayLandedError
<1>5. /\ Landed \subseteq Landed' /\ IsForeign' = IsForeign /\ LedgerSound'
      /\ reaches => Row(p) \in Landed'
      /\ effects' \in [Keys -> Nat] /\ unrecorded' \in [Keys -> Nat]
      /\ UNCHANGED <<lines, exists, open>>
  BY <1>3, <1>4, FireSound
<1>6. Row(p) \in Landed'
  BY <1>3, <1>4, <1>5 DEF Landed
<1>7. PICK why \in {"ok", "landed"} : EnterRecord(p, why)
  BY DEF ReplayOk, ReplayLandedError
<1>8. /\ pc' \in [Runs -> Live \cup {"idle", "ended", "invalid", "refused", "escaped", "dead"}]
      /\ pend' \in [Runs -> {"none", "ok", "landed"}]
      /\ pc'[p] \in {"open", "commit"} /\ pend'[p] \in {"ok", "landed"}
      /\ \A q \in Runs \ {p} : pc'[q] = pc[q] /\ pend'[q] = pend[q]
  BY <1>7 DEF EnterRecord, TypeOK, Live
<1>9. /\ report' \in [Runs -> SUBSET Results]
      /\ \A q \in Runs \ {p} : report'[q] = report[q]
      /\ \A e \in report'[p] : e \in report[p] \/ e.status = "ok"
      /\ report[p] \subseteq report'[p]
  <2>1. CASE ReplayOk(p)
    <3>1. report' = [report EXCEPT ![p] = @ \cup {Result(idx[p], "ok", "")}]
      BY <2>1 DEF ReplayOk
    <3>2. Result(idx[p], "ok", "") \in Results
      BY ResultType DEF TypeOK, Statuses, Codes
    <3>3. Result(idx[p], "ok", "").status = "ok"
      BY DEF Result
    <3> QED
      BY <3>1, <3>2, <3>3 DEF TypeOK
  <2>2. CASE ReplayLandedError(p)
    BY <2>2 DEF ReplayLandedError, TypeOK
  <2> QED
    BY <2>1, <2>2
<1>10. TypeOK'
  BY <1>1, <1>5, <1>8, <1>9 DEF TypeOK
<1>11. OnlyCall(p)
  BY <1>1, <1>8, <1>9 DEF OnlyCall
<1>12. RunOK(p)'
  <2>1. RunOK(p)
    OBVIOUS
  <2>2. Fresh(p)' /\ Admitted(p)' /\ RecordsLanded(p)' /\ Exhausted(p)'
    BY <1>1, <1>2, <1>5, <1>6, <1>8, <2>1
    DEF RunOK, Fresh, Admitted, RecordsLanded, Exhausted, InRecord, Row, Live
  <2>3. Believed(p)'
    BY <1>1, <1>5, <1>9, <2>1 DEF RunOK, Believed, WithStatus
  <2>4. Accounted(p)'
    BY <1>1, <1>2, <1>5, <1>9, <2>1 DEF RunOK, Accounted, Live
  <2> QED
    BY <2>2, <2>3, <2>4 DEF RunOK
<1> QED
  BY <1>5, <1>10, <1>11, <1>12, Assemble

\* A batch that has been through all of its rows keeps it as it returns.
LEMMA FinishSound == ASSUME IInv, NEW p \in Runs, Finish(p) PROVE IInv'
<1> USE DEF IInv
<1>1. Landed \subseteq Landed' /\ Landed' = Landed /\ IsForeign' = IsForeign /\ LedgerSound'
  BY QuietSound DEF Finish
<1>2. TypeOK'
  BY DEF Finish, TypeOK, Live
<1>3. OnlyCall(p)
  BY DEF Finish, OnlyCall, TypeOK
<1>4. pc'[p] = "ended" /\ pc[p] = "rows"
  BY DEF Finish, TypeOK
<1>5. RunOK(p)'
  BY <1>1, <1>4
  DEF Finish, RunOK, Fresh, Admitted, Believed, WithStatus, RecordsLanded, Accounted, Exhausted,
      InRecord, Live
<1> QED
  BY <1>1, <1>2, <1>3, <1>5, Assemble

\* A step inside record() that neither reports nor leaves it keeps the call sound.
LEMMA InsideRecordSound ==
  ASSUME IInv, NEW p \in Runs, InRecord(p), InRecord(p)',
         UNCHANGED <<req, seen, idx, pend, report>>, Landed' = Landed, IsForeign' = IsForeign
  PROVE  RunOK(p)'
<1>1. RunOK(p)
  BY DEF IInv
<1> QED
  BY <1>1
  DEF RunOK, Fresh, Admitted, Believed, WithStatus, RecordsLanded, Accounted, Exhausted,
      InRecord, Row, Live

\* record() opening the ledger file keeps the invariant.
LEMMA OpenLedgerSound == ASSUME IInv, NEW p \in Runs, OpenLedger(p) PROVE IInv'
<1> USE DEF IInv
<1>1. Landed \subseteq Landed' /\ Landed' = Landed /\ IsForeign' = IsForeign /\ LedgerSound'
  BY QuietSound DEF OpenLedger
<1>2. /\ pc' \in [Runs -> Live \cup {"idle", "ended", "invalid", "refused", "escaped", "dead"}]
      /\ pc[p] = "open" /\ pc'[p] \in {"commit", "header"}
      /\ \A q \in Runs \ {p} : pc'[q] = pc[q]
  BY DEF OpenLedger, TypeOK, Live
<1>3. exists' \in BOOLEAN /\ handle' \in [Runs -> BOOLEAN]
  BY DEF OpenLedger, TypeOK
<1>4. TypeOK'
  BY <1>2, <1>3 DEF OpenLedger, TypeOK
<1>5. OnlyCall(p)
  BY <1>2 DEF OpenLedger, OnlyCall
<1>6. RunOK(p)'
  BY <1>1, <1>2, InsideRecordSound DEF OpenLedger, InRecord
<1> QED
  BY <1>1, <1>4, <1>5, <1>6, Assemble

\* What an append to the ledger, in full or interrupted, does to the shared state.
LEMMA InRecordAppend ==
  ASSUME IInv, NEW p \in Runs, InRecord(p), UNCHANGED effects,
         NEW line \in {Header, Commit(Row(p))},
         AppendLine(line) \/ InterruptedAppend(line)
  PROVE  /\ Landed \subseteq Landed'
         /\ Landed' = Landed
         /\ IsForeign' = IsForeign
         /\ LedgerSound'
         /\ lines' \in Seq(Lines)
         /\ open' \in BOOLEAN
         /\ open' => lines' # <<>>
<1>1. Row(p) \in Landed /\ ~IsForeign
  BY DEF IInv, RunOK, RecordsLanded, Admitted, InRecord, Live
<1>2. line \in {Header} \cup {Commit(k) : k \in Landed}
  BY <1>1
<1>3. /\ Landed' = Landed
      /\ ~IsForeign'
      /\ LedgerSound'
      /\ lines' \in Seq(Lines)
      /\ open' \in BOOLEAN
      /\ open' => lines' # <<>>
  BY <1>1, <1>2, AppendSound DEF IInv
<1> QED
  BY <1>1, <1>3 DEF IsForeign

\* record() writing the header of a new file keeps the invariant.
LEMMA AppendHeaderSound == ASSUME IInv, NEW p \in Runs, AppendHeader(p) PROVE IInv'
<1> USE DEF IInv
<1>1. /\ Landed \subseteq Landed' /\ Landed' = Landed /\ IsForeign' = IsForeign /\ LedgerSound'
      /\ lines' \in Seq(Lines) /\ open' \in BOOLEAN
      /\ (open' => lines' # <<>>)
  BY InRecordAppend DEF AppendHeader, InRecord
<1>2. /\ pc' \in [Runs -> Live \cup {"idle", "ended", "invalid", "refused", "escaped", "dead"}]
      /\ pc[p] = "header" /\ pc'[p] = "commit"
      /\ \A q \in Runs \ {p} : pc'[q] = pc[q]
  BY DEF AppendHeader, TypeOK, Live
<1>3. TypeOK'
  <2>1. unrecorded' \in [Keys -> Nat]
    BY UnrecordedType DEF AppendHeader
  <2> QED
    BY <1>1, <1>2, <2>1 DEF AppendHeader, TypeOK
<1>4. OnlyCall(p)
  BY <1>2 DEF AppendHeader, OnlyCall
<1>5. RunOK(p)'
  BY <1>1, <1>2, InsideRecordSound DEF AppendHeader, InRecord
<1> QED
  BY <1>1, <1>3, <1>4, <1>5, Assemble

\* record() appending the row's line keeps it, on both of record's call sites.
LEMMA AppendCommitSound == ASSUME IInv, NEW p \in Runs, AppendCommit(p) PROVE IInv'
<1> USE DEF IInv
<1>1. /\ Landed \subseteq Landed' /\ Landed' = Landed /\ IsForeign' = IsForeign /\ LedgerSound'
      /\ lines' \in Seq(Lines) /\ open' \in BOOLEAN
      /\ (open' => lines' # <<>>)
  BY InRecordAppend DEF AppendCommit, InRecord
<1>2. /\ pc[p] = "commit" /\ idx[p] <= Len(req[p].rows) /\ Row(p) \in Landed /\ RunOK(p)
  BY DEF AppendCommit, RunOK, RecordsLanded, InRecord
<1>3. /\ pc' \in [Runs -> Live \cup {"idle", "ended", "invalid", "refused", "escaped", "dead"}]
      /\ pend' \in [Runs -> {"none", "ok", "landed"}]
      /\ pc'[p] = "rows"
      /\ \A q \in Runs \ {p} : pc'[q] = pc[q] /\ pend'[q] = pend[q] /\ seen'[q] = seen[q]
  BY DEF AppendCommit, TypeOK, Live
<1>4. Row(p) \in Keys /\ seen'[p] = seen[p] \cup {Row(p)} /\ seen' \in [Runs -> SUBSET Keys]
  BY <1>2 DEF AppendCommit, TypeOK, Landed
<1>5. seen'[p] \subseteq Landed'
  BY <1>1, <1>2, <1>4 DEF RunOK, Believed
<1>6. /\ idx' \in [Runs -> Nat \ {0}] /\ report' \in [Runs -> SUBSET Results]
      /\ \A q \in Runs \ {p} : idx'[q] = idx[q] /\ report'[q] = report[q]
      /\ stopped' \in [Runs -> BOOLEAN]
      /\ RunOK(p)'
  <2>1. CASE pend[p] = "ok"
    <3>1. idx' = [idx EXCEPT ![p] = @ + 1] /\ UNCHANGED <<report, stopped, req>>
      BY <2>1 DEF AppendCommit
    <3>2. /\ idx' \in [Runs -> Nat \ {0}] /\ report' \in [Runs -> SUBSET Results]
          /\ \A q \in Runs \ {p} : idx'[q] = idx[q] /\ report'[q] = report[q]
          /\ stopped' \in [Runs -> BOOLEAN]
          /\ idx'[p] = idx[p] + 1
      BY <3>1 DEF TypeOK
    <3>3. Fresh(p)' /\ Admitted(p)' /\ RecordsLanded(p)' /\ Exhausted(p)'
      BY <1>1, <1>2, <1>3, <3>1 DEF RunOK, Fresh, Admitted, RecordsLanded, Exhausted, InRecord, Live
    <3>4. Believed(p)'
      BY <1>1, <1>2, <1>5, <3>1 DEF RunOK, Believed, WithStatus
    <3>5. Accounted(p)'
      <4> SUFFICES ASSUME NEW i \in DOMAIN req[p].rows, i < idx[p] + 1, ~req[p].dry
                   PROVE  \/ req[p].rows[i] \in Landed
                          \/ \E d \in report[p] : d.status \in {"failed", "skipped"}
        BY <1>1, <3>1, <3>2 DEF Accounted
      <4>1. i \in Nat /\ idx[p] \in Nat
        BY DEF TypeOK
      <4>2. CASE i = idx[p]
        BY <1>2, <4>2 DEF Row
      <4>3. CASE i < idx[p]
        BY <1>2, <4>3 DEF RunOK, Accounted, Live
      <4> QED
        BY <4>1, <4>2, <4>3
    <3> QED
      BY <3>2, <3>3, <3>4, <3>5 DEF RunOK
  <2>2. CASE pend[p] = "landed"
    <3>1. /\ Report(p, "failed", "landed") /\ req' = req
          /\ stopped' = [stopped EXCEPT ![p] = (req[p].policy = "stop")]
      BY <2>2 DEF AppendCommit
    <3>2. stopped' \in [Runs -> BOOLEAN]
      BY <3>1 DEF TypeOK
    <3>3. "failed" \in Statuses /\ "landed" \in Codes
      BY DEF Statuses, Codes
    <3> QED
      BY <1>1, <1>2, <1>3, <1>5, <3>1, <3>2, <3>3, ReportSound DEF Live
  <2> QED
    BY <1>2, <2>1, <2>2 DEF RunOK, RecordsLanded, InRecord
<1>7. TypeOK'
  <2>1. unrecorded' \in [Keys -> Nat]
    BY UnrecordedType DEF AppendCommit
  <2> QED
    BY <1>1, <1>3, <1>4, <1>6, <2>1 DEF AppendCommit, TypeOK
<1>8. OnlyCall(p)
  BY <1>3, <1>6 DEF AppendCommit, OnlyCall
<1> QED
  BY <1>1, <1>6, <1>7, <1>8, Assemble

\* What an interrupted record() does to the shared state.
LEMMA InterruptedSound ==
  ASSUME IInv, NEW p \in Runs, Interrupted(p)
  PROVE  /\ InRecord(p)
         /\ Landed \subseteq Landed'
         /\ Landed' = Landed
         /\ IsForeign' = IsForeign
         /\ LedgerSound'
         /\ lines' \in Seq(Lines)
         /\ open' \in BOOLEAN
         /\ open' => lines' # <<>>
         /\ unrecorded' \in [Keys -> Nat]
         /\ UNCHANGED <<exists, effects>>
<1> USE DEF IInv
<1>1. InRecord(p) /\ UNCHANGED <<exists, effects>>
  BY DEF Interrupted, InRecord
<1>2. Row(p) \in Keys
  BY <1>1 DEF RunOK, RecordsLanded, Landed
<1>3. unrecorded' \in [Keys -> Nat]
  BY UnrecordedType DEF Interrupted
<1>4. CASE UNCHANGED <<lines, open>>
  BY <1>1, <1>3, <1>4, QuietSound DEF TypeOK
<1>5. CASE InterruptedAppend(Header) \/ InterruptedAppend(Commit(Row(p)))
  BY <1>1, <1>3, <1>5, InRecordAppend
<1> QED
  BY <1>4, <1>5 DEF Interrupted

\* An OSError from record() after a confirmed row keeps the invariant.
LEMMA RecordFailsOkSound == ASSUME IInv, NEW p \in Runs, RecordFailsOk(p) PROVE IInv'
<1> USE DEF IInv
<1>1. /\ InRecord(p)
      /\ Landed \subseteq Landed' /\ Landed' = Landed /\ IsForeign' = IsForeign /\ LedgerSound'
      /\ lines' \in Seq(Lines) /\ open' \in BOOLEAN
      /\ (open' => lines' # <<>>)
      /\ unrecorded' \in [Keys -> Nat] /\ UNCHANGED <<exists, effects>>
  BY InterruptedSound DEF RecordFailsOk
<1>2. RunOK(p) /\ idx[p] <= Len(req[p].rows) /\ pc[p] \in Live
  BY <1>1 DEF RunOK, RecordsLanded, InRecord, Live
<1>3. /\ pc' \in [Runs -> Live \cup {"idle", "ended", "invalid", "refused", "escaped", "dead"}]
      /\ pend' \in [Runs -> {"none", "ok", "landed"}]
      /\ stopped' \in [Runs -> BOOLEAN]
      /\ pc'[p] = "rows"
      /\ \A q \in Runs \ {p} : pc'[q] = pc[q] /\ pend'[q] = pend[q]
  BY DEF RecordFailsOk, TypeOK, Live
<1>4. Report(p, "failed", "raised") /\ UNCHANGED <<req, seen, handle>>
  BY DEF RecordFailsOk
<1>5. seen'[p] \subseteq Landed'
  BY <1>1, <1>2, <1>4 DEF RunOK, Believed
<1>6. "failed" \in Statuses /\ "raised" \in Codes
  BY DEF Statuses, Codes
<1>7. /\ idx' \in [Runs -> Nat \ {0}] /\ report' \in [Runs -> SUBSET Results]
      /\ \A q \in Runs \ {p} : idx'[q] = idx[q] /\ report'[q] = report[q]
      /\ RunOK(p)'
  BY <1>1, <1>2, <1>3, <1>4, <1>5, <1>6, ReportSound
<1>8. TypeOK'
  BY <1>1, <1>3, <1>4, <1>7 DEF TypeOK
<1>9. OnlyCall(p)
  BY <1>3, <1>4, <1>7 DEF OnlyCall
<1> QED
  BY <1>1, <1>7, <1>8, <1>9, Assemble

\* A call that leaves the batch for good, killed or by an escaping exception.
LEMMA GoneSound ==
  ASSUME IInv, NEW p \in Runs, NEW how \in {"escaped", "dead"},
         pc' = [pc EXCEPT ![p] = how],
         UNCHANGED <<req, seen, idx, stopped, handle, pend, report>>,
         lines' \in Seq(Lines), exists' \in BOOLEAN, open' \in BOOLEAN, open' => lines' # <<>>,
         effects' \in [Keys -> Nat], unrecorded' \in [Keys -> Nat],
         Landed \subseteq Landed', IsForeign' = IsForeign, LedgerSound'
  PROVE  IInv'
<1> USE DEF IInv
<1>1. pc' \in [Runs -> Live \cup {"idle", "ended", "invalid", "refused", "escaped", "dead"}]
      /\ pc'[p] \notin Live \cup {"idle", "ended"}
  BY DEF TypeOK, Live
<1>2. TypeOK'
  BY <1>1 DEF TypeOK
<1>3. OnlyCall(p)
  BY DEF OnlyCall, TypeOK
<1>4. RunOK(p)
  OBVIOUS
<1>5. RunOK(p)'
  BY <1>1, <1>4
  DEF RunOK, Fresh, Admitted, Believed, WithStatus, RecordsLanded, Accounted, Exhausted,
      InRecord, Live
<1> QED
  BY <1>2, <1>3, <1>5, Assemble

\* So does leaving record() for good, killed or by an escaping exception.
LEMMA GoneInRecordSound ==
  ASSUME IInv, NEW p \in Runs, RecordFailsLanded(p) \/ CrashInRecord(p)
  PROVE  IInv'
<1>1. /\ Interrupted(p)
      /\ UNCHANGED <<req, seen, idx, stopped, handle, pend, report>>
  BY DEF RecordFailsLanded, CrashInRecord, Dies
<1>2. PICK how \in {"escaped", "dead"} : pc' = [pc EXCEPT ![p] = how]
  BY DEF RecordFailsLanded, CrashInRecord, Dies
<1>3. /\ Landed \subseteq Landed' /\ IsForeign' = IsForeign /\ LedgerSound'
      /\ lines' \in Seq(Lines) /\ open' \in BOOLEAN
      /\ (open' => lines' # <<>>)
      /\ unrecorded' \in [Keys -> Nat] /\ UNCHANGED <<exists, effects>>
  BY <1>1, InterruptedSound
<1>4. exists' \in BOOLEAN /\ effects' \in [Keys -> Nat]
  BY <1>3 DEF IInv, TypeOK
<1> QED
  BY <1>1, <1>2, <1>3, <1>4, GoneSound

\* Killing a process at any step keeps the invariant.
LEMMA CrashSound ==
  ASSUME IInv, NEW p \in Runs, CrashBetween(p) \/ CrashInReplay(p)
  PROVE  IInv'
<1> USE DEF IInv
<1>1. pc' = [pc EXCEPT ![p] = "dead"] /\ UNCHANGED <<req, seen, idx, stopped, handle, pend, report>>
  BY DEF CrashBetween, CrashInReplay, Dies
<1>2. CASE CrashBetween(p)
  <2>1. UNCHANGED <<lines, exists, open, effects, unrecorded>>
    BY <1>2 DEF CrashBetween
  <2>2. Landed \subseteq Landed' /\ IsForeign' = IsForeign /\ LedgerSound'
    BY <2>1, QuietSound
  <2> QED
    BY <1>1, <2>1, <2>2, GoneSound DEF TypeOK
<1>3. CASE CrashInReplay(p)
  <2>1. pc[p] = "rows" /\ idx[p] <= Len(req[p].rows)
    BY <1>3 DEF CrashInReplay, ReadyToFire, AtRow
  <2>2. Row(p) \in Keys
    BY <2>1, RowIsKey DEF Live
  <2>3. /\ Landed \subseteq Landed' /\ IsForeign' = IsForeign /\ LedgerSound'
        /\ effects' \in [Keys -> Nat] /\ unrecorded' \in [Keys -> Nat]
        /\ UNCHANGED <<lines, exists, open>>
    BY <1>3, <2>2, FireSound DEF CrashInReplay
  <2> QED
    BY <1>1, <2>3, GoneSound DEF TypeOK
<1> QED
  BY <1>2, <1>3

(* ----------------------------------- theorems ----------------------------------- *)

\* IInv is inductive: every step of every call, and every crash, preserves it.
LEMMA StepSound == IInv /\ [Next]_vars => IInv'
<1> SUFFICES ASSUME IInv, [Next]_vars PROVE IInv'
  OBVIOUS
<1>1. CASE UNCHANGED vars
  BY <1>1
  DEF vars, IInv, TypeOK, LedgerSound, IsForeign, Readable, RunOK, Fresh, Admitted, Believed,
      WithStatus, RecordsLanded, Accounted, Exhausted, InRecord, Row, Landed
<1>2. ASSUME NEW p \in Runs, Preflight(p) \/ Step(p) \/ Crash(p) PROVE IInv'
  BY <1>2, PreflightSound, SkipSound, ReplayFailsSound, EnterRecordSound, FinishSound,
     OpenLedgerSound, AppendHeaderSound, AppendCommitSound, RecordFailsOkSound,
     GoneInRecordSound, CrashSound
  DEF Step, Crash, Replay
<1> QED
  BY <1>1, <1>2 DEF Next

\* IInv holds of every reachable state of any number of calls of run_batch.
THEOREM Invariance == Spec => []IInv
<1>1. Init => IInv
  BY InitSound
<1>2. IInv /\ [Next]_vars => IInv'
  BY StepSound
<1> QED
  BY <1>1, <1>2, PTL DEF Spec

\* Every variable keeps its type: run_batch's local state, the file and the target.
THEOREM TypeCorrect == Spec => []TypeOK
BY Invariance, PTL DEF IInv

\* The resume ledger is sound: whatever is torn, glued, misplaced, killed or run
\* at the same time, a line that reads as a commit is of a landed row, ...
THEOREM LedgerIsSound == Spec => []LedgerSound
BY Invariance, PTL DEF IInv

\* ... so no call reports as already committed a row whose write never landed.
THEOREM FalseSkipsNever == Spec => []NoFalseSkip
<1>1. IInv => NoFalseSkip
  BY DEF IInv, RunOK, Believed, NoFalseSkip
<1> QED
  BY <1>1, Invariance, PTL

\* A batch whose report holds no failed and no skipped row has landed every row.
THEOREM OkBatchesLanded == Spec => []OkMeansLanded
<1>1. IInv => OkMeansLanded
  <2> SUFFICES ASSUME IInv, NEW p \in Runs, OkBatch(p), NEW i \in DOMAIN req[p].rows
               PROVE  req[p].rows[i] \in Landed
    BY DEF OkMeansLanded
  <2>1. Accounted(p) /\ Exhausted(p) /\ pc[p] = "ended" /\ ~req[p].dry
    BY DEF IInv, RunOK, OkBatch
  <2>2. i \in Nat /\ i <= Len(req[p].rows) /\ idx[p] \in Nat /\ Len(req[p].rows) \in Nat
    BY DEF IInv, TypeOK
  <2>3. i < idx[p]
    BY <2>1, <2>2 DEF Exhausted
  <2> QED
    BY <2>1, <2>3 DEF Accounted, OkBatch
<1> QED
  BY <1>1, Invariance, PTL

(* ------------------------- writes that are performed again ------------------------- *)

\* A write that was performed has a line, is about to have one, or is counted as
\* unrecorded.
Known(k) ==
  effects[k] > 0 =>
    k \in Readable \/ unrecorded[k] > 0 \/ \E q \in Runs : InRecord(q) /\ Row(q) = k
Remembered == \A k \in Keys : Known(k)

\* A step that leaves the file and the target alone, and no call's record().
LEMMA RememberedKept ==
  ASSUME Remembered, UNCHANGED <<lines, effects, unrecorded>>,
         \A q \in Runs : InRecord(q) => InRecord(q)' /\ Row(q)' = Row(q)
  PROVE  Remembered'
BY DEF Remembered, Known, Readable

\* A write that is fired is about to be recorded, or is lost.
LEMMA RememberedFire ==
  ASSUME TypeOK, Remembered, NEW p \in Runs, pc[p] = "rows", Row(p) \in Keys,
         NEW reaches \in BOOLEAN, NEW lost \in BOOLEAN, Fire(Row(p), reaches, lost),
         ~lost => InRecord(p)' /\ Row(p)' = Row(p),
         \A q \in Runs \ {p} : pc'[q] = pc[q] /\ req'[q] = req[q] /\ idx'[q] = idx[q]
  PROVE  Remembered'
<1>1. \A q \in Runs : InRecord(q) => InRecord(q)' /\ Row(q)' = Row(q)
  BY DEF InRecord, Row
<1>2. Readable' = Readable
  BY DEF Fire, Readable
<1>3. SUFFICES ASSUME NEW k \in Keys, effects'[k] > 0 PROVE Known(k)'
  BY DEF Remembered, Known
<1>4. unrecorded[k] > 0 => unrecorded'[k] > 0
  BY DEF Fire, TypeOK
<1>5. ASSUME effects[k] > 0 PROVE Known(k)'
  BY <1>1, <1>2, <1>4, <1>5 DEF Remembered, Known
<1>6. CASE k = Row(p) /\ reaches
  <2>1. lost => unrecorded'[k] > 0
    BY <1>6 DEF Fire, TypeOK
  <2>2. ~lost => \E q \in Runs : InRecord(q)' /\ Row(q)' = k
    BY <1>6
  <2> QED
    BY <2>1, <2>2 DEF Known
<1>7. CASE k # Row(p) \/ ~reaches
  <2>1. effects'[k] = effects[k]
    BY <1>7 DEF Fire, Performed, TypeOK
  <2> QED
    BY <1>3, <1>5, <2>1
<1> QED
  BY <1>6, <1>7

\* A row that loses its line, or its record, is counted.
LEMMA RememberedAppend ==
  ASSUME TypeOK, Remembered, NEW p \in Runs, NEW rows, unrecorded' = Unrecorded(rows),
         UNCHANGED effects,
         (InRecord(p)' /\ Row(p)' = Row(p)) \/ Row(p) \in rows,
         \A q \in Runs \ {p} : pc'[q] = pc[q] /\ req'[q] = req[q] /\ idx'[q] = idx[q]
  PROVE  Remembered'
<1>1. \A q \in Runs \ {p} : InRecord(q) => InRecord(q)' /\ Row(q)' = Row(q)
  BY DEF InRecord, Row
<1>2. SUFFICES ASSUME NEW k \in Keys, effects[k] > 0 PROVE Known(k)'
  BY DEF Remembered, Known
<1>3. unrecorded[k] \in Nat /\ (unrecorded'[k] = unrecorded[k] \/ unrecorded'[k] = unrecorded[k] + 1)
  BY DEF Unrecorded, TypeOK
<1>4. CASE k \in (Readable \cup rows) \ Readable'
  BY <1>3, <1>4 DEF Unrecorded, Known
<1>5. CASE unrecorded[k] > 0
  BY <1>3, <1>5 DEF Known
<1>6. CASE k \in Readable'
  BY <1>6 DEF Known
<1>7. ASSUME NEW q \in Runs, InRecord(q), Row(q) = k, k \notin Readable', k \notin rows PROVE Known(k)'
  BY <1>1, <1>7 DEF Known
<1> QED
  BY <1>2, <1>4, <1>5, <1>6, <1>7 DEF Remembered, Known

\* No step of any call forgets a write that was performed.
LEMMA RememberedStep ==
  ASSUME IInv, Remembered, NEW p \in Runs, Preflight(p) \/ Step(p) \/ Crash(p)
  PROVE  Remembered'
<1> USE DEF IInv
<1>1. CASE Preflight(p)
  <2>1. /\ UNCHANGED <<lines, effects, unrecorded>> /\ pc[p] = "idle"
        /\ UNCHANGED idx /\ \A q \in Runs \ {p} : pc'[q] = pc[q] /\ req'[q] = req[q]
    BY <1>1 DEF Preflight, Empty, Refuse, Reject, Plan, Begin, Accepted, Start, TypeOK
  <2> QED
    BY <2>1, RememberedKept DEF InRecord, Row
<1>2. CASE SkipStopped(p) \/ SkipCommitted(p)
  <2>1. /\ UNCHANGED <<lines, effects, unrecorded, pc, req>> /\ pc[p] = "rows"
        /\ \A q \in Runs \ {p} : idx'[q] = idx[q]
    BY <1>2 DEF SkipStopped, SkipCommitted, AtRow, Report, TypeOK
  <2> QED
    BY <2>1, RememberedKept DEF InRecord, Row
<1>3. CASE Finish(p) \/ CrashBetween(p)
  <2>1. /\ UNCHANGED <<lines, effects, unrecorded, idx, req>> /\ pc[p] = "rows"
        /\ \A q \in Runs \ {p} : pc'[q] = pc[q]
    BY <1>3 DEF Finish, CrashBetween, Dies, TypeOK
  <2> QED
    BY <2>1, RememberedKept DEF InRecord, Row
<1>4. CASE OpenLedger(p)
  <2>1. /\ UNCHANGED <<lines, effects, unrecorded, idx, req>> /\ InRecord(p)'
        /\ \A q \in Runs \ {p} : pc'[q] = pc[q]
    BY <1>4 DEF OpenLedger, InRecord, TypeOK
  <2> QED
    BY <2>1, RememberedKept DEF InRecord, Row
<1>5. ASSUME NEW lost \in BOOLEAN, NEW reaches \in BOOLEAN, ReadyToFire(p), Fire(Row(p), reaches, lost),
             ~lost => InRecord(p)' /\ Row(p)' = Row(p),
             \A q \in Runs \ {p} : pc'[q] = pc[q] /\ req'[q] = req[q] /\ idx'[q] = idx[q]
      PROVE  Remembered'
  <2>1. pc[p] = "rows" /\ Row(p) \in Keys
    BY <1>5, RowIsKey DEF ReadyToFire, AtRow, Live
  <2> QED
    BY <1>5, <2>1, RememberedFire
<1>6. CASE ReplayOk(p) \/ ReplayLandedError(p)
  <2>1. /\ UNCHANGED <<req, idx>> /\ InRecord(p)'
        /\ \A q \in Runs \ {p} : pc'[q] = pc[q]
    BY <1>6 DEF ReplayOk, ReplayLandedError, EnterRecord, InRecord, TypeOK
  <2>2. PICK reaches \in BOOLEAN : ReadyToFire(p) /\ Fire(Row(p), reaches, FALSE)
    BY <1>6 DEF ReplayOk, ReplayLandedError
  <2> QED
    BY <1>5, <2>1, <2>2 DEF Row
<1>7. CASE ReplayError(p) \/ ReplayRaises(p) \/ CrashInReplay(p)
  <2>1. \A q \in Runs \ {p} : pc'[q] = pc[q] /\ req'[q] = req[q] /\ idx'[q] = idx[q]
    BY <1>7 DEF ReplayError, ReplayRaises, CrashInReplay, Dies, Report, TypeOK
  <2>2. PICK reaches \in BOOLEAN : ReadyToFire(p) /\ Fire(Row(p), reaches, TRUE)
    BY <1>7 DEF ReplayError, ReplayRaises, CrashInReplay
  <2> QED
    BY <1>5, <2>1, <2>2
<1>8. CASE AppendHeader(p)
  <2>1. /\ unrecorded' = Unrecorded({}) /\ UNCHANGED <<effects, req, idx>> /\ InRecord(p)'
        /\ \A q \in Runs \ {p} : pc'[q] = pc[q]
    BY <1>8 DEF AppendHeader, InRecord, TypeOK
  <2> QED
    BY <2>1, RememberedAppend DEF Row
<1>9. CASE AppendCommit(p)
  <2>1. /\ unrecorded' = Unrecorded({Row(p)}) /\ UNCHANGED <<effects, req>>
        /\ \A q \in Runs \ {p} : pc'[q] = pc[q] /\ idx'[q] = idx[q]
    BY <1>9 DEF AppendCommit, Report, TypeOK
  <2> QED
    BY <2>1, RememberedAppend
<1>10. CASE RecordFailsOk(p) \/ RecordFailsLanded(p) \/ CrashInRecord(p)
  <2>1. /\ unrecorded' = Unrecorded({Row(p)}) /\ UNCHANGED <<effects, req>>
        /\ \A q \in Runs \ {p} : pc'[q] = pc[q] /\ idx'[q] = idx[q]
    BY <1>10 DEF RecordFailsOk, RecordFailsLanded, CrashInRecord, Interrupted, Dies, Report, TypeOK
  <2> QED
    BY <2>1, RememberedAppend
<1> QED
  BY <1>1, <1>2, <1>3, <1>4, <1>6, <1>7, <1>8, <1>9, <1>10 DEF Step, Replay, Crash

\* Nothing is forgotten, whatever overlaps, tears or is killed.
LEMMA RememberedInvariant == Spec => []Remembered
<1>1. Init => Remembered
  BY DEF Init, Remembered, Known
<1>2. IInv /\ Remembered /\ [Next]_vars => Remembered'
  <2> SUFFICES ASSUME IInv, Remembered, [Next]_vars PROVE Remembered'
    OBVIOUS
  <2>1. CASE UNCHANGED vars
    BY <2>1, RememberedKept DEF vars, InRecord, Row
  <2> QED
    BY <2>1, RememberedStep DEF Next
<1> QED
  BY <1>1, <1>2, Invariance, PTL DEF Spec

\* A row's write is performed again only if its record was lost, or by a run that read
\* the ledger before the record was there.
THEOREM RefiresNeedLoss == Spec => RefireNeedsLoss
<1> DEFINE Excused(p, k) ==
      Firing(p) /\ 0 < effects[k] /\ effects[k] < effects'[k] =>
        \/ k \notin Readable /\ unrecorded[k] > 0
        \/ k \in Readable \ seen[p]
        \/ \E q \in Runs \ {p} : Recording(q) /\ Row(q) = k
<1>1. IInv /\ Remembered /\ [Next]_vars => \A p \in Runs, k \in Keys : Excused(p, k)
  <2> SUFFICES ASSUME IInv, Remembered, [Next]_vars, NEW p \in Runs, NEW k \in Keys,
                      Firing(p), 0 < effects[k], effects[k] < effects'[k]
               PROVE  \/ k \notin Readable /\ unrecorded[k] > 0
                      \/ k \in Readable \ seen[p]
                      \/ \E q \in Runs \ {p} : Recording(q) /\ Row(q) = k
    OBVIOUS
  <2> USE DEF IInv
  <2>1. effects[k] \in Nat /\ effects'[k] # effects[k]
    BY DEF TypeOK
  <2>2. PICK q \in Runs : Preflight(q) \/ Step(q) \/ Crash(q)
    BY <2>1 DEF Next, vars
  <2>3. PICK reaches \in BOOLEAN, lost \in BOOLEAN : ReadyToFire(q) /\ Fire(Row(q), reaches, lost)
    <3>1. ~ UNCHANGED effects
      BY <2>1
    <3>2. Replay(q) \/ CrashInReplay(q)
      BY <2>2, <3>1
      DEF Preflight, Empty, Refuse, Reject, Plan, Begin, Accepted, Start, Step, SkipStopped,
          SkipCommitted, OpenLedger, AppendHeader, AppendCommit, RecordFailsOk,
          RecordFailsLanded, Interrupted, Finish, Crash, CrashBetween, CrashInRecord
    <3> QED
      BY <3>2 DEF Replay, ReplayOk, ReplayLandedError, ReplayError, ReplayRaises, CrashInReplay
  <2>4. k = Row(q)
    BY <2>1, <2>3 DEF Fire, Performed, TypeOK
  <2>5. p = q
    <3>1. Replay(q) \/ CrashInReplay(q) => \A r \in Runs \ {q} : pc'[r] = pc[r] /\ idx'[r] = idx[r]
      BY DEF Replay, ReplayOk, ReplayLandedError, ReplayError, ReplayRaises, CrashInReplay,
             EnterRecord, Report, Dies, TypeOK
    <3>2. Replay(q) \/ CrashInReplay(q)
      BY <2>1, <2>2
      DEF Preflight, Empty, Refuse, Reject, Plan, Begin, Accepted, Start, Step, SkipStopped,
          SkipCommitted, OpenLedger, AppendHeader, AppendCommit, RecordFailsOk,
          RecordFailsLanded, Interrupted, Finish, Crash, CrashBetween, CrashInRecord
    <3> QED
      BY <3>1, <3>2 DEF Firing
  <2>6. k \notin seen[p] /\ ~InRecord(p)
    BY <2>3, <2>4, <2>5 DEF ReadyToFire, AtRow, InRecord
  <2> QED
    BY <2>6 DEF Remembered, Known, InRecord, Recording
<1> QED
  BY <1>1, Invariance, RememberedInvariant, PTL DEF Spec, RefireNeedsLoss

(* ------------------------------- failures stop ------------------------------- *)

\* A result that ends the batch: any row's under "stop", a raise under any policy.
Stops(p, e) == e.status = "failed" /\ (req[p].policy = "stop" \/ e.code = "raised")

\* A call has reported only rows it has left behind, besides the one it is recording
\* after reporting it ok, and it is stopped as soon as a result says so.
Reported(p) ==
  pc[p] \in Live =>
    \A e \in report[p] :
      /\ Stops(p, e) => stopped[p]
      /\ \/ e.index < idx[p]
         \/ InRecord(p) /\ pend[p] = "ok" /\ e.index = idx[p] /\ e.status = "ok"

StopsThere(p) ==
  \A d, e \in report[p] : d.index < e.index /\ Stops(p, d) => e.status = "skipped"

\* No row is recorded by a call that is stopped.
Heeded(p) ==
  /\ InRecord(p) => ~stopped[p]
  /\ Reported(p)
  /\ StopsThere(p)

\* What the report of a call depends on.
CallKept(p) ==
  /\ req'[p] = req[p]
  /\ idx'[p] = idx[p]
  /\ stopped'[p] = stopped[p]
  /\ pend'[p] = pend[p]
  /\ report'[p] = report[p]

\* A call that adds nothing to its report, and enters or leaves record() as before.
LEMMA HeededKept ==
  ASSUME NEW p \in Runs, Heeded(p), CallKept(p),
         \/ pc'[p] \notin Live
         \/ pc[p] \in Live /\ (InRecord(p) <=> InRecord(p)')
  PROVE  Heeded(p)'
BY DEF Heeded, Reported, StopsThere, Stops, CallKept, InRecord, Live

\* A call that reports the row it is at, and goes on.
LEMMA HeededReport ==
  ASSUME IInv, NEW p \in Runs, Heeded(p), pc[p] \in Live, pc'[p] = "rows", req'[p] = req[p],
         NEW status, NEW code, Report(p, status, code),
         stopped[p] => status = "skipped" /\ stopped'[p],
         status = "failed" /\ (req[p].policy = "stop" \/ code = "raised") => stopped'[p]
  PROVE  Heeded(p)'
<1> DEFINE new == Result(idx[p], status, code)
<1>1. new.index = idx[p] /\ new.status = status /\ new.code = code
  BY DEF Result
<1>2. report'[p] = report[p] \cup {new} /\ idx'[p] = idx[p] + 1 /\ idx[p] \in Nat
  BY DEF Report, IInv, TypeOK
<1>3. \A e \in report[p] : e.index \in Nat /\ e.index <= idx[p] /\ (Stops(p, e) => stopped[p])
  BY DEF Heeded, Reported, IInv, TypeOK, Results
<1>4. Stops(p, new) => stopped'[p]
  BY <1>1 DEF Stops
<1> HIDE DEF new
<1>5. \A e : Stops(p, e)' <=> Stops(p, e)
  BY DEF Stops
<1>6. Reported(p)'
  BY <1>1, <1>2, <1>3, <1>4, <1>5 DEF Reported
<1>7. StopsThere(p)'
  <2> SUFFICES ASSUME NEW d \in report'[p], NEW e \in report'[p], d.index < e.index, Stops(p, d)
               PROVE  e.status = "skipped"
    BY <1>5 DEF StopsThere
  <2>1. CASE d \in report[p] /\ e \in report[p]
    BY <2>1 DEF Heeded, StopsThere
  <2>2. CASE d \in report[p] /\ e = new
    BY <1>1, <1>3, <2>2
  <2>3. CASE d = new
    BY <1>1, <1>2, <1>3, <2>3
  <2> QED
    BY <1>2, <2>1, <2>2, <2>3
<1> QED
  BY <1>6, <1>7 DEF Heeded, InRecord

\* A call before its first row has reported nothing, and what it reports before
\* firing one is no failure.
LEMMA HeededPreflight ==
  ASSUME IInv, NEW p \in Runs, Heeded(p), Preflight(p)
  PROVE  Heeded(p)'
<1>1. pc[p] = "idle" /\ report[p] = {}
  BY DEF Preflight, Empty, Refuse, Reject, Plan, Begin, Accepted, Start, IInv, RunOK, Fresh
<1>2. PICK r \in Requests : Empty(p, r) \/ Refuse(p, r) \/ Reject(p, r) \/ Plan(p, r) \/ Begin(p, r)
  BY DEF Preflight
<1>3. CASE Empty(p, r) \/ Refuse(p, r) \/ Begin(p, r)
  <2>1. report'[p] = {} /\ pc'[p] \in {"ended", "refused", "rows"}
    BY <1>1, <1>2, <1>3 DEF Empty, Refuse, Begin, IInv, TypeOK
  <2> QED
    BY <2>1 DEF Heeded, Reported, StopsThere, InRecord
<1>4. CASE Reject(p, r) \/ Plan(p, r)
  <2>1. /\ pc'[p] \in {"invalid", "ended"}
        /\ report'[p] \in {InvalidReport(r.rows), PlannedReport(r.rows, Readable)}
    <3>1. p \in DOMAIN report /\ p \in DOMAIN pc
      BY DEF IInv, TypeOK
    <3>2. CASE Reject(p, r)
      BY <3>1, <3>2 DEF Reject
    <3>3. CASE Plan(p, r)
      BY <3>1, <3>3 DEF Plan
    <3> QED
      BY <1>4, <3>2, <3>3
  <2>2. /\ \A e \in InvalidReport(r.rows) : e.status # "failed"
        /\ \A e \in PlannedReport(r.rows, Readable) : e.status # "failed"
    <3>2. ASSUME NEW e \in InvalidReport(r.rows) PROVE e.status # "failed"
      <4>1. PICK i \in BadRows(r.rows) : e = Result(i, "invalid", "")
        BY DEF InvalidReport
      <4> QED
        BY <4>1 DEF Result
    <3>3. ASSUME NEW e \in PlannedReport(r.rows, Readable) PROVE e.status # "failed"
      <4>1. PICK i \in DOMAIN r.rows :
              e = Result(i, IF r.rows[i] \in Readable THEN "resumed" ELSE "planned", "")
        BY DEF PlannedReport
      <4> QED
        BY <4>1 DEF Result
    <3> QED
      BY <3>2, <3>3
  <2> QED
    BY <2>1, <2>2 DEF Heeded, Reported, StopsThere, Stops, InRecord, Live
<1> QED
  BY <1>2, <1>3, <1>4

\* Every other step of the call.
LEMMA HeededStep ==
  ASSUME IInv, NEW p \in Runs, Heeded(p), Step(p) \/ Crash(p)
  PROVE  Heeded(p)'
<1> USE DEF IInv
<1>1. CASE SkipStopped(p) \/ SkipCommitted(p)
  <2>1. PICK status \in {"skipped", "resumed"} :
          Report(p, status, "") /\ (stopped[p] => status = "skipped")
    BY <1>1 DEF SkipStopped, SkipCommitted
  <2>2. pc[p] = "rows" /\ UNCHANGED <<pc, req, stopped>>
    BY <1>1 DEF SkipStopped, SkipCommitted, AtRow
  <2> QED
    BY <2>1, <2>2, HeededReport DEF Live
<1>2. CASE ReplayOk(p)
  <2> DEFINE new == Result(idx[p], "ok", "")
  <2>1. new.index = idx[p] /\ new.status = "ok"
    BY DEF Result
  <2>2. /\ pc[p] = "rows" /\ ~stopped[p] /\ report'[p] = report[p] \cup {new}
        /\ req' = req /\ idx' = idx /\ stopped' = stopped
        /\ pc'[p] \in {"commit", "open"} /\ pend'[p] = "ok"
    BY <1>2 DEF ReplayOk, ReadyToFire, AtRow, EnterRecord, TypeOK
  <2>3. \A e \in report[p] : e.index < idx[p] /\ ~Stops(p, e)
    BY <2>2 DEF Heeded, Reported, InRecord, Live
  <2>4. ~Stops(p, new)
    BY <2>1 DEF Stops
  <2> HIDE DEF new
  <2>5. \A e : Stops(p, e)' <=> Stops(p, e)
    BY <2>2 DEF Stops
  <2> QED
    BY <2>1, <2>2, <2>3, <2>4, <2>5 DEF Heeded, Reported, StopsThere, InRecord
<1>3. CASE ReplayLandedError(p)
  <2>1. /\ pc[p] = "rows" /\ ~stopped[p] /\ report' = report /\ req' = req /\ idx' = idx
        /\ stopped' = stopped /\ pc'[p] \in {"commit", "open"}
    BY <1>3 DEF ReplayLandedError, ReadyToFire, AtRow, EnterRecord, TypeOK
  <2>2. \A e \in report[p] : e.index < idx[p] /\ ~Stops(p, e)
    BY <2>1 DEF Heeded, Reported, InRecord, Live
  <2> QED
    BY <2>1, <2>2 DEF Heeded, Reported, StopsThere, Stops, InRecord
<1>4. CASE ReplayError(p)
  <2>1. /\ pc[p] = "rows" /\ ~stopped[p] /\ pc' = pc /\ req' = req /\ Report(p, "failed", "error")
        /\ stopped'[p] = (req[p].policy = "stop")
    BY <1>4 DEF ReplayError, ReadyToFire, AtRow, TypeOK
  <2> QED
    BY <2>1, HeededReport DEF Live
<1>5. CASE ReplayRaises(p)
  <2>1. /\ pc[p] = "rows" /\ ~stopped[p] /\ pc' = pc /\ req' = req /\ Report(p, "failed", "raised")
        /\ stopped'[p] = TRUE
    BY <1>5 DEF ReplayRaises, ReadyToFire, AtRow, TypeOK
  <2> QED
    BY <2>1, HeededReport DEF Live
<1>6. CASE OpenLedger(p) \/ AppendHeader(p)
  <2>1. InRecord(p) /\ InRecord(p)' /\ CallKept(p)
    BY <1>6 DEF OpenLedger, AppendHeader, InRecord, CallKept, TypeOK
  <2> QED
    BY <2>1, HeededKept DEF InRecord, Live
<1>7. CASE AppendCommit(p) /\ pend[p] = "ok"
  <2>1. InRecord(p) /\ pc'[p] = "rows" /\ req' = req /\ idx[p] \in Nat
    BY <1>7 DEF AppendCommit, InRecord, TypeOK
  <2>3. idx'[p] = idx[p] + 1 /\ report' = report /\ stopped' = stopped
    <3>1. idx' = [idx EXCEPT ![p] = @ + 1] /\ UNCHANGED <<report, stopped>>
      BY <1>7, Zenon DEF AppendCommit
    <3> QED
      BY <3>1 DEF TypeOK
  <2>2. \A e \in report[p] : e.index \in Nat /\ e.index < idx[p] + 1 /\ ~Stops(p, e)
    <3>1. report[p] \subseteq Results /\ pc[p] \in Live /\ ~stopped[p]
      BY <2>1 DEF TypeOK, Heeded, InRecord, Live
    <3>2. \A e \in Results : e.index \in Nat
      BY DEF Results
    <3>3. \A e \in report[p] : (e.index < idx[p] \/ e.index = idx[p]) /\ ~Stops(p, e)
      BY <3>1 DEF Heeded, Reported
    <3> QED
      BY <2>1, <3>1, <3>2, <3>3
  <2> QED
    BY <2>1, <2>2, <2>3 DEF Heeded, Reported, StopsThere, Stops, InRecord
<1>8. CASE AppendCommit(p) /\ pend[p] # "ok"
  <2>1. /\ InRecord(p) /\ pc[p] = "commit" /\ pc'[p] = "rows" /\ req' = req
        /\ Report(p, "failed", "landed") /\ stopped'[p] = (req[p].policy = "stop")
    BY <1>8 DEF AppendCommit, InRecord, TypeOK
  <2>2. ~stopped[p]
    BY <2>1 DEF Heeded
  <2> QED
    BY <2>1, <2>2, HeededReport DEF Live
<1>9. CASE RecordFailsOk(p)
  <2>1. /\ InRecord(p) /\ pc'[p] = "rows" /\ req' = req
        /\ Report(p, "failed", "raised") /\ stopped'[p] = TRUE
    BY <1>9 DEF RecordFailsOk, Interrupted, InRecord, TypeOK
  <2>2. ~stopped[p] /\ pc[p] \in Live
    BY <2>1 DEF Heeded, InRecord, Live
  <2> QED
    BY <2>1, <2>2, HeededReport
<1>10. CASE RecordFailsLanded(p) \/ Finish(p) \/ Crash(p)
  <2>1. pc'[p] \in {"escaped", "ended", "dead"} /\ CallKept(p)
    BY <1>10
    DEF RecordFailsLanded, Finish, Crash, CrashBetween, CrashInReplay, CrashInRecord, Dies,
        CallKept, TypeOK
  <2> QED
    BY <2>1, HeededKept DEF Live
<1> QED
  BY <1>1, <1>2, <1>3, <1>4, <1>5, <1>6, <1>7, <1>8, <1>9, <1>10 DEF Step, Replay

\* A step of one call leaves the others' reports alone.
LEMMA OthersCalls ==
  ASSUME IInv, NEW p \in Runs, Preflight(p) \/ Step(p) \/ Crash(p), NEW q \in Runs \ {p}
  PROVE  CallKept(q) /\ pc'[q] = pc[q]
<1> USE DEF IInv, TypeOK, CallKept
<1>1. CASE Preflight(p)
  BY <1>1 DEF Preflight, Empty, Refuse, Reject, Plan, Begin, Accepted, Start
<1>2. CASE SkipStopped(p) \/ SkipCommitted(p) \/ OpenLedger(p) \/ AppendHeader(p) \/ Finish(p)
  BY <1>2 DEF SkipStopped, SkipCommitted, OpenLedger, AppendHeader, Finish, Report
<1>3. CASE Replay(p)
  BY <1>3 DEF Replay, ReplayOk, ReplayLandedError, ReplayError, ReplayRaises, EnterRecord, Report
<1>4. CASE AppendCommit(p)
  BY <1>4 DEF AppendCommit, Report
<1>5. CASE RecordFailsOk(p) \/ RecordFailsLanded(p)
  BY <1>5 DEF RecordFailsOk, RecordFailsLanded, Report
<1>6. CASE Crash(p)
  BY <1>6 DEF Crash, CrashBetween, CrashInReplay, CrashInRecord, Dies
<1> QED
  BY <1>1, <1>2, <1>3, <1>4, <1>5, <1>6 DEF Step

\* Once a row fails under "stop", or its replay or its record raises under any policy,
\* every row that run_batch reports after it is reported as skipped.
THEOREM FailuresStop == Spec => []FailureStops
<1> DEFINE AllHeeded == \A p \in Runs : Heeded(p)
<1>1. Init => AllHeeded
  BY DEF Init, Heeded, Reported, StopsThere, InRecord, Live
<1>2. IInv /\ AllHeeded /\ [Next]_vars => AllHeeded'
  <2> SUFFICES ASSUME IInv, AllHeeded, [Next]_vars, NEW q \in Runs PROVE Heeded(q)'
    OBVIOUS
  <2>1. CASE UNCHANGED vars
    BY <2>1 DEF vars, Heeded, Reported, StopsThere, Stops, InRecord
  <2>2. ASSUME NEW p \in Runs, Preflight(p) \/ Step(p) \/ Crash(p) PROVE Heeded(q)'
    <3>1. CASE q = p
      BY <2>2, <3>1, HeededPreflight, HeededStep
    <3>2. CASE q # p
      <4>1. CallKept(q) /\ pc'[q] = pc[q] /\ Heeded(q)
        BY <2>2, <3>2, OthersCalls
      <4> QED
        BY <4>1 DEF Heeded, Reported, StopsThere, Stops, CallKept, InRecord
    <3> QED
      BY <3>1, <3>2
  <2> QED
    BY <2>1, <2>2 DEF Next
<1>3. AllHeeded => FailureStops
  BY DEF Heeded, StopsThere, Stops, FailureStops
<1> QED
  BY <1>1, <1>2, <1>3, Invariance, PTL DEF Spec

(* --------------------------------- refinement --------------------------------- *)

\* Only a torn append leaves an unterminated line.
OpenIsTorn == open => TornAppends

\* A last line without its newline exists only where appends may be torn.
LEMMA OpenIsTornInvariant == Spec => []OpenIsTorn
<1>1. Init => OpenIsTorn
  BY DEF Init, OpenIsTorn
<1>2. OpenIsTorn /\ [Next]_vars => OpenIsTorn'
  <2> SUFFICES ASSUME OpenIsTorn, [Next]_vars PROVE OpenIsTorn'
    OBVIOUS
  <2>1. CASE UNCHANGED open
    BY <2>1 DEF OpenIsTorn
  <2>2. ASSUME NEW line, AppendLine(line) \/ InterruptedAppend(line) PROVE OpenIsTorn'
    BY <2>2 DEF AppendLine, InterruptedAppend, OpenIsTorn
  <2>3. ASSUME NEW p \in Runs, Preflight(p)
        PROVE  UNCHANGED open
    BY <2>3 DEF Preflight, Empty, Refuse, Reject, Plan, Begin, Accepted, Start
  <2>4. ASSUME NEW p \in Runs,
               SkipStopped(p) \/ SkipCommitted(p) \/ OpenLedger(p) \/ Finish(p) \/ CrashBetween(p)
        PROVE  UNCHANGED open
    BY <2>4 DEF SkipStopped, SkipCommitted, OpenLedger, Finish, CrashBetween
  <2>5. ASSUME NEW p \in Runs, Replay(p) \/ CrashInReplay(p)
        PROVE  UNCHANGED open
    BY <2>5 DEF Replay, ReplayOk, ReplayLandedError, ReplayError, ReplayRaises, CrashInReplay, Fire
  <2>6. ASSUME NEW p \in Runs, Interrupted(p) PROVE OpenIsTorn'
    BY <2>1, <2>2, <2>6 DEF Interrupted
  <2>7. ASSUME NEW p \in Runs, AppendHeader(p) \/ AppendCommit(p) PROVE OpenIsTorn'
    BY <2>2, <2>7 DEF AppendHeader, AppendCommit
  <2>8. ASSUME NEW p \in Runs, RecordFailsOk(p) \/ RecordFailsLanded(p) \/ CrashInRecord(p)
        PROVE  OpenIsTorn'
    BY <2>6, <2>8 DEF RecordFailsOk, RecordFailsLanded, CrashInRecord
  <2> QED
    BY <2>1, <2>3, <2>4, <2>5, <2>7, <2>8 DEF Next, vars, Step, Crash
<1> QED
  BY <1>1, <1>2, PTL DEF Spec

recordedBar == IF IsForeign THEN {} ELSE Readable
skippedBar == UNION {WithStatus(p, "resumed") : p \in Runs}

\* An append adds its own row, changes nothing, or, into a torn line, loses a row.
LEMMA AppendReadable ==
  ASSUME TypeOK, OpenIsTorn, NEW line \in Lines, AppendLine(line) \/ InterruptedAppend(line)
  PROVE  \/ Readable' = Readable
         \/ Readable' = Readable \cup {k \in Keys : line = Commit(k)}
         \/ TornAppends /\ Readable' \subseteq Readable
<1> DEFINE Grown(l) == lines' = Append(lines, l)
<1> DEFINE Replaced == open /\ lines' = [lines EXCEPT ![Len(lines)] = Junk]
<1>1. UNCHANGED lines \/ Replaced \/ Grown(line) \/ Grown(Junk)
  BY DEF AppendLine, InterruptedAppend, Glued
<1>2. CASE UNCHANGED lines
  BY <1>2 DEF Readable
<1>3. \A k \in Keys : Junk # Commit(k)
  BY DEF Junk, Commit
<1>4. CASE Replaced
  <2>1. DOMAIN lines' = DOMAIN lines /\ \A i \in DOMAIN lines' : lines'[i] = Junk \/ lines'[i] = lines[i]
    BY <1>4 DEF TypeOK
  <2> QED
    BY <1>3, <1>4, <2>1 DEF Readable, OpenIsTorn
<1>5. ASSUME NEW l \in {line, Junk}, Grown(l)
      PROVE  Readable' = Readable \cup {k \in Keys : l = Commit(k)}
  <2>1. /\ Len(lines) \in Nat /\ DOMAIN lines' = DOMAIN lines \cup {Len(lines) + 1}
        /\ lines'[Len(lines) + 1] = l
        /\ \A i \in DOMAIN lines : lines'[i] = lines[i]
    BY <1>5 DEF TypeOK
  <2> QED
    BY <2>1 DEF Readable
<1>6. {k \in Keys : Junk = Commit(k)} = {}
  BY <1>3
<1> QED
  BY <1>1, <1>2, <1>4, <1>5, <1>6

\* A call's report is all that `skipped` looks at.
LEMMA SkippedGrows ==
  ASSUME NEW p \in Runs, OnlyCall(p), WithStatus(p, "resumed") \subseteq WithStatus(p, "resumed")'
  PROVE  skippedBar' = skippedBar \cup WithStatus(p, "resumed")'
<1>1. \A q \in Runs \ {p} : WithStatus(q, "resumed")' = WithStatus(q, "resumed")
  BY DEF OnlyCall, WithStatus
<1> QED
  BY <1>1 DEF skippedBar

\* Rows reported as resumed are an abstract Skip: they have all landed.
LEMMA SkipStep ==
  ASSUME NEW p \in Runs, IInv', OnlyCall(p), UNCHANGED <<lines, effects>>,
         WithStatus(p, "resumed") \subseteq WithStatus(p, "resumed")'
  PROVE  Job!Next
<1>1. WithStatus(p, "resumed")' \subseteq Landed'
  BY DEF IInv, RunOK, Believed
<1>2. Landed' = Landed /\ recordedBar' = recordedBar /\ Landed \subseteq Keys
  BY DEF Landed, recordedBar, IsForeign, Readable
<1>3. Job!Skip(WithStatus(p, "resumed")')
  BY <1>1, <1>2, SkippedGrows DEF Job!Skip, recordedBar, skippedBar
<1> QED
  BY <1>1, <1>2, <1>3 DEF Job!Next

\* A fired write is an abstract Land, or nothing if its row had landed already.
LEMMA FireStep ==
  ASSUME IInv, NEW p \in Runs, OnlyCall(p), NEW k \in Keys, NEW reaches \in BOOLEAN,
         NEW lost \in BOOLEAN, Fire(k, reaches, lost),
         WithStatus(p, "resumed")' = WithStatus(p, "resumed")
  PROVE  Job!Next
<1>1. skippedBar' = skippedBar
  BY SkippedGrows DEF skippedBar
<1>2. recordedBar' = recordedBar
  BY DEF Fire, recordedBar, IsForeign, Readable
<1>3. Landed' = Landed \/ Landed' = Landed \cup {k}
  <2>1. effects \in [Keys -> Nat] /\ (effects' = effects \/ effects' = Performed(k))
    BY DEF IInv, TypeOK, Fire
  <2> QED
    BY <2>1 DEF Performed, Landed
<1>4. CASE Landed' = Landed \cup {k}
  BY <1>1, <1>2, <1>4 DEF Job!Next, Job!Land, recordedBar, skippedBar
<1>5. CASE Landed' = Landed
  <2>1. Job!Skip({})
    BY <1>1, <1>2, <1>5 DEF Job!Skip, recordedBar, skippedBar
  <2> QED
    BY <2>1 DEF Job!Next
<1> QED
  BY <1>3, <1>4, <1>5

\* A completed record() is an abstract Record, or a Lose into a torn line.
LEMMA RecordStep ==
  ASSUME IInv, OpenIsTorn, NEW p \in Runs, OnlyCall(p), InRecord(p), UNCHANGED effects,
         NEW line \in {Header, Commit(Row(p))},
         AppendLine(line) \/ InterruptedAppend(line),
         WithStatus(p, "resumed")' = WithStatus(p, "resumed")
  PROVE  Job!Next
<1>1. skippedBar' = skippedBar
  BY SkippedGrows DEF skippedBar
<1>2. /\ Landed' = Landed
      /\ IsForeign' = IsForeign
  BY InRecordAppend
<1>3. Row(p) \in Landed /\ ~IsForeign /\ Row(p) \in Keys
  BY DEF IInv, RunOK, RecordsLanded, Admitted, InRecord, Live, Landed
<1>4. recordedBar = Readable /\ recordedBar' = Readable'
  BY <1>2, <1>3 DEF recordedBar
<1>5. line \in Lines /\ {k \in Keys : line = Commit(k)} \in {{}, {Row(p)}}
  <2>1. CASE line = Header
    <3>1. ASSUME NEW k \in Keys PROVE line # Commit(k)
      <4>1. Header.kind = "header" /\ Commit(k).kind = "commit"
        BY DEF Header, Commit
      <4> QED
        BY <2>1, <4>1
    <3> QED
      BY <2>1, <3>1 DEF Lines
  <2>2. CASE line = Commit(Row(p))
    <3>1. \A k \in Keys : line = Commit(k) => k = Row(p)
      <4> SUFFICES ASSUME NEW k \in Keys, line = Commit(k) PROVE k = Row(p)
        OBVIOUS
      <4>1. Commit(k).key = k /\ Commit(Row(p)).key = Row(p)
        BY DEF Commit
      <4> QED
        BY <2>2, <4>1
    <3> QED
      BY <1>3, <2>2, <3>1 DEF Lines
  <2> QED
    BY <2>1, <2>2
<1>6. \/ Readable' = Readable
      \/ Readable' = Readable \cup {Row(p)}
      \/ TornAppends /\ Readable' \subseteq Readable
  BY <1>5, AppendReadable DEF IInv
<1>7. CASE Readable' = Readable
  <2>1. Job!Skip({})
    BY <1>1, <1>2, <1>4, <1>7 DEF Job!Skip, recordedBar, skippedBar
  <2> QED
    BY <2>1 DEF Job!Next
<1>8. CASE Readable' = Readable \cup {Row(p)}
  <2>1. Job!Record(Row(p))
    BY <1>1, <1>2, <1>3, <1>4, <1>8 DEF Job!Record, recordedBar, skippedBar
  <2> QED
    BY <1>3, <2>1 DEF Job!Next
<1>9. CASE TornAppends /\ Readable' \subseteq Readable
  <2>1. Job!Lose
    BY <1>1, <1>2, <1>4, <1>9 DEF Job!Lose, recordedBar, skippedBar
  <2> QED
    BY <2>1 DEF Job!Next
<1> QED
  BY <1>6, <1>7, <1>8, <1>9

\* So is an interrupted one, whatever part of its line it left behind.
LEMMA InterruptedStep ==
  ASSUME IInv, OpenIsTorn, NEW p \in Runs, OnlyCall(p), Interrupted(p),
         WithStatus(p, "resumed")' = WithStatus(p, "resumed")
  PROVE  Job!Next
<1>1. InRecord(p) /\ UNCHANGED effects
  BY InterruptedSound
<1>2. CASE UNCHANGED <<lines, open>>
  <2>1. InterruptedAppend(Header)
    BY <1>2 DEF InterruptedAppend
  <2> QED
    BY <1>1, <2>1, RecordStep
<1>3. CASE InterruptedAppend(Header) \/ InterruptedAppend(Commit(Row(p)))
  BY <1>1, <1>3, RecordStep
<1> QED
  BY <1>2, <1>3 DEF Interrupted

\* A report that only grows by rows not resumed is the same to `skipped`.
LEMMA ReportKeeps ==
  ASSUME IInv, NEW p \in Runs, NEW status, NEW code, status # "resumed",
         report' = [report EXCEPT ![p] = @ \cup {Result(idx[p], status, code)}], req' = req
  PROVE  WithStatus(p, "resumed")' = WithStatus(p, "resumed")
<1>1. report'[p] = report[p] \cup {Result(idx[p], status, code)}
  BY DEF IInv, TypeOK
<1>2. Result(idx[p], status, code).status # "resumed"
  BY DEF Result
<1> QED
  BY <1>1, <1>2 DEF WithStatus

\* Every step of one call is a step of the abstract job.
LEMMA CallSteps ==
  ASSUME IInv, IInv', OpenIsTorn, NEW p \in Runs, Preflight(p) \/ Step(p) \/ Crash(p)
  PROVE  Job!Next
<1> USE DEF IInv
<1>1. OnlyCall(p)
  <2> USE DEF OnlyCall, TypeOK
  <2>1. CASE Preflight(p)
    <3>1. PICK r \in Requests : Empty(p, r) \/ Refuse(p, r) \/ Reject(p, r) \/ Plan(p, r) \/ Begin(p, r)
      BY <2>1 DEF Preflight
    <3> QED
      BY <3>1 DEF Empty, Refuse, Reject, Plan, Begin, Accepted, Start
  <2>2. CASE SkipStopped(p) \/ SkipCommitted(p)
    BY <2>2 DEF SkipStopped, SkipCommitted, Report
  <2>3. CASE Replay(p)
    <3>1. CASE ReplayOk(p)
      <4>1. seen' = seen
        BY <3>1 DEF ReplayOk
      <4> QED
        BY <4>1, OthersCalls DEF CallKept
    <3>2. CASE ReplayLandedError(p)
      BY <3>2 DEF ReplayLandedError, EnterRecord
    <3>3. CASE ReplayError(p)
      BY <3>3 DEF ReplayError, Report
    <3>4. CASE ReplayRaises(p)
      BY <3>4 DEF ReplayRaises, Report
    <3> QED
      BY <2>3, <3>1, <3>2, <3>3, <3>4 DEF Replay
  <2>4. CASE OpenLedger(p) \/ AppendHeader(p) \/ Finish(p)
    BY <2>4 DEF OpenLedger, AppendHeader, Finish
  <2>5. CASE AppendCommit(p)
    <3>1. CASE pend[p] = "ok"
      BY <2>5, <3>1 DEF AppendCommit
    <3>2. CASE pend[p] = "landed"
      BY <2>5, <3>2 DEF AppendCommit, Report
    <3> QED
      BY <2>5, <3>1, <3>2 DEF AppendCommit
  <2>6. CASE RecordFailsOk(p) \/ RecordFailsLanded(p)
    BY <2>6 DEF RecordFailsOk, RecordFailsLanded, Report
  <2>7. CASE Crash(p)
    BY <2>7 DEF Crash, CrashBetween, CrashInReplay, CrashInRecord, Dies
  <2> QED
    BY <2>1, <2>2, <2>3, <2>4, <2>5, <2>6, <2>7 DEF Step
<1>2. CASE Preflight(p)
  <2>1. UNCHANGED <<lines, effects>>
    BY <1>2 DEF Preflight, Empty, Refuse, Reject, Plan, Begin, Accepted, Start
  <2>2. report[p] = {}
    BY <1>2 DEF Preflight, Empty, Refuse, Reject, Plan, Begin, Accepted, Start, IInv, RunOK, Fresh
  <2>3. WithStatus(p, "resumed") = {}
    BY <2>2 DEF WithStatus
  <2> QED
    BY <1>1, <2>1, <2>3, SkipStep
<1>3. CASE SkipStopped(p) \/ SkipCommitted(p)
  <2>1. UNCHANGED <<lines, effects>> /\ req' = req
    BY <1>3 DEF SkipStopped, SkipCommitted
  <2>2. report[p] \subseteq report'[p]
    <3>1. PICK status \in {"skipped", "resumed"} : Report(p, status, "")
      BY <1>3 DEF SkipStopped, SkipCommitted
    <3>2. report'[p] = report[p] \cup {Result(idx[p], status, "")}
      BY <3>1 DEF Report, TypeOK
    <3> QED
      BY <3>2
  <2>3. WithStatus(p, "resumed") \subseteq WithStatus(p, "resumed")'
    BY <2>1, <2>2 DEF WithStatus
  <2> QED
    BY <1>1, <2>1, <2>3, SkipStep
<1>4. CASE Replay(p) \/ CrashInReplay(p)
  <2>1. pc[p] = "rows" /\ idx[p] <= Len(req[p].rows)
    BY <1>4 DEF Replay, ReplayOk, ReplayLandedError, ReplayError, ReplayRaises, CrashInReplay,
                ReadyToFire, AtRow
  <2>2. Row(p) \in Keys
    BY <2>1, RowIsKey DEF Live
  <2>3. PICK reaches \in BOOLEAN, lost \in BOOLEAN : Fire(Row(p), reaches, lost)
    BY <1>4 DEF Replay, ReplayOk, ReplayLandedError, ReplayError, ReplayRaises, CrashInReplay
  <2>4. req' = req
    BY <1>4 DEF Replay, ReplayOk, ReplayLandedError, ReplayError, ReplayRaises, CrashInReplay, Dies
  <2>5. CASE report' = report
    <3>1. WithStatus(p, "resumed")' = WithStatus(p, "resumed")
      BY <2>4, <2>5 DEF WithStatus
    <3> QED
      BY <1>1, <2>2, <2>3, <3>1, FireStep
  <2>6. ASSUME NEW status \in {"ok", "failed"}, NEW code \in Codes,
               report' = [report EXCEPT ![p] = @ \cup {Result(idx[p], status, code)}]
        PROVE  Job!Next
    <3>1. WithStatus(p, "resumed")' = WithStatus(p, "resumed")
      BY <2>4, <2>6, ReportKeeps
    <3> QED
      BY <1>1, <2>2, <2>3, <3>1, FireStep
  <2>7. \/ report' = report
        \/ \E status \in {"ok", "failed"}, code \in Codes :
             report' = [report EXCEPT ![p] = @ \cup {Result(idx[p], status, code)}]
    BY <1>4 DEF Replay, ReplayOk, ReplayLandedError, ReplayError, ReplayRaises, CrashInReplay,
                Dies, Report, Codes
  <2> QED
    BY <2>5, <2>6, <2>7
<1>5. CASE Finish(p) \/ OpenLedger(p) \/ CrashBetween(p)
  <2>1. UNCHANGED <<lines, effects, req, report>>
    BY <1>5 DEF Finish, OpenLedger, CrashBetween, Dies
  <2>2. WithStatus(p, "resumed")' = WithStatus(p, "resumed")
    BY <2>1 DEF WithStatus
  <2> QED
    BY <1>1, <2>1, <2>2, SkipStep
<1>6. CASE AppendHeader(p)
  <2>1. WithStatus(p, "resumed")' = WithStatus(p, "resumed")
    BY <1>6 DEF AppendHeader, WithStatus
  <2> QED
    BY <1>1, <1>6, <2>1, RecordStep DEF AppendHeader, InRecord
<1>7. CASE AppendCommit(p)
  <2>1. req' = req
    BY <1>7 DEF AppendCommit
  <2>2. report' = report \/ report' = [report EXCEPT ![p] = @ \cup {Result(idx[p], "failed", "landed")}]
    BY <1>7 DEF AppendCommit, Report
  <2>3. WithStatus(p, "resumed")' = WithStatus(p, "resumed")
    BY <2>1, <2>2, ReportKeeps DEF WithStatus
  <2> QED
    BY <1>1, <1>7, <2>3, RecordStep DEF AppendCommit, InRecord
<1>8. CASE RecordFailsOk(p)
  <2>1. WithStatus(p, "resumed")' = WithStatus(p, "resumed")
    BY <1>8, ReportKeeps DEF RecordFailsOk, Report
  <2> QED
    BY <1>1, <1>8, <2>1, InterruptedStep DEF RecordFailsOk
<1>9. CASE RecordFailsLanded(p) \/ CrashInRecord(p)
  <2>1. WithStatus(p, "resumed")' = WithStatus(p, "resumed")
    BY <1>9 DEF RecordFailsLanded, CrashInRecord, Dies, WithStatus
  <2> QED
    BY <1>1, <1>9, <2>1, InterruptedStep DEF RecordFailsLanded, CrashInRecord
<1> QED
  BY <1>2, <1>3, <1>4, <1>5, <1>6, <1>7, <1>8, <1>9 DEF Step, Crash

\* The runs and their ledger implement the abstract job: rows land, landed rows are
\* recorded, only landed rows are skipped, and a record is lost only to a torn line.
THEOREM LedgerImplementsJob == Spec => ImplementsJob
<1>1. Init => Job!Init
  <2> SUFFICES ASSUME Init PROVE Job!Init
    OBVIOUS
  <2>1. Landed = {}
    BY DEF Init, Landed
  <2>2. recordedBar = {}
    BY DEF Init, recordedBar, IsForeign, Readable
  <2>3. skippedBar = {}
    BY DEF Init, skippedBar, WithStatus
  <2> QED
    BY <2>1, <2>2, <2>3 DEF Job!Init, recordedBar, skippedBar
<1>2. IInv /\ IInv' /\ OpenIsTorn /\ [Next]_vars => [Job!Next]_(Job!vars)
  <2>1. CASE UNCHANGED vars
    BY <2>1 DEF vars, Job!vars, Landed, IsForeign, Readable, WithStatus
  <2>2. ASSUME IInv, IInv', OpenIsTorn, Next PROVE Job!Next
    BY <2>2, CallSteps DEF Next
  <2> QED
    BY <2>1, <2>2
<1> QED
  BY <1>1, <1>2, Invariance, OpenIsTornInvariant, PTL DEF Spec, Job!Spec, ImplementsJob

(* -------------------------------- durable records -------------------------------- *)

\* A row confirmed and reported ok is in the file, unless a failure to record it is
\* reported too or its recording is under way.
Durable(p) ==
  pc[p] # "dead" =>
    \A d \in report[p] : d.status = "ok" =>
      \/ req[p].rows[d.index] \in Readable
      \/ req[p].rows[d.index] \in WithStatus(p, "failed")
      \/ InRecord(p) /\ pend[p] = "ok" /\ d.index = idx[p]

\* Where no append is torn, an append takes no line back, and one that completes
\* adds its own.
LEMMA WholeAppend ==
  ASSUME IInv, OpenIsTorn, ~TornAppends, NEW p \in Runs, InRecord(p),
         NEW line \in {Header, Commit(Row(p))},
         AppendLine(line) \/ InterruptedAppend(line)
  PROVE  /\ Readable \subseteq Readable'
         /\ AppendLine(line) /\ line = Commit(Row(p)) => Row(p) \in Readable'
<1>1. Row(p) \in Keys /\ line \in Lines
  BY DEF IInv, RunOK, RecordsLanded, Landed, InRecord, Lines
<1>2. Readable \subseteq Readable'
  BY <1>1, AppendReadable DEF IInv
<1>3. ASSUME AppendLine(line), line = Commit(Row(p)) PROVE Row(p) \in Readable'
  <2>1. lines' = Append(lines, line) /\ lines \in Seq(Lines)
    BY <1>3 DEF AppendLine, OpenIsTorn, IInv, TypeOK
  <2>2. Len(lines) + 1 \in DOMAIN lines' /\ lines'[Len(lines) + 1] = line
    BY <1>1, <2>1
  <2> QED
    BY <1>1, <1>3, <2>2 DEF Readable
<1> QED
  BY <1>2, <1>3

LEMMA WholeInterrupted ==
  ASSUME IInv, OpenIsTorn, ~TornAppends, NEW p \in Runs, Interrupted(p)
  PROVE  Readable \subseteq Readable'
<1>1. CASE UNCHANGED <<lines, open>>
  BY <1>1 DEF Readable
<1>2. CASE InterruptedAppend(Header) \/ InterruptedAppend(Commit(Row(p)))
  BY <1>2, InterruptedSound, WholeAppend
<1> QED
  BY <1>1, <1>2 DEF Interrupted

\* So the file only gains rows.
LEMMA ReadableGrows ==
  ASSUME IInv, OpenIsTorn, ~TornAppends, NEW p \in Runs, Preflight(p) \/ Step(p) \/ Crash(p)
  PROVE  Readable \subseteq Readable'
<1>1. UNCHANGED lines => Readable \subseteq Readable'
  BY DEF Readable
<1>2. CASE Preflight(p)
  BY <1>1, <1>2 DEF Preflight, Empty, Refuse, Reject, Plan, Begin, Accepted, Start
<1>3. CASE SkipStopped(p) \/ SkipCommitted(p) \/ OpenLedger(p) \/ Finish(p) \/ CrashBetween(p)
  BY <1>1, <1>3 DEF SkipStopped, SkipCommitted, OpenLedger, Finish, CrashBetween
<1>4. CASE Replay(p) \/ CrashInReplay(p)
  BY <1>1, <1>4
  DEF Replay, ReplayOk, ReplayLandedError, ReplayError, ReplayRaises, CrashInReplay, Fire
<1>5. CASE AppendHeader(p)
  BY <1>5, WholeAppend DEF AppendHeader, InRecord
<1>6. CASE AppendCommit(p)
  BY <1>6, WholeAppend DEF AppendCommit, InRecord
<1>7. CASE RecordFailsOk(p) \/ RecordFailsLanded(p) \/ CrashInRecord(p)
  BY <1>7, WholeInterrupted DEF RecordFailsOk, RecordFailsLanded, CrashInRecord
<1> QED
  BY <1>2, <1>3, <1>4, <1>5, <1>6, <1>7 DEF Step, Crash

\* A report kept, or grown by a row that is not ok, stands, unless it was being recorded.
LEMMA DurableGrown ==
  ASSUME NEW p \in Runs, Durable(p), pc[p] # "dead", req'[p] = req[p], Readable \subseteq Readable',
         report[p] \subseteq report'[p],
         \A d \in report'[p] \ report[p] :
           d.status = "ok" => InRecord(p)' /\ pend'[p] = "ok" /\ d.index = idx'[p],
         InRecord(p) /\ pend[p] = "ok" =>
           \/ InRecord(p)' /\ pend'[p] = "ok" /\ idx'[p] = idx[p]
           \/ Row(p) \in Readable'
           \/ Row(p) \in WithStatus(p, "failed")'
  PROVE  Durable(p)'
<1> SUFFICES ASSUME NEW d \in report'[p], d.status = "ok"
             PROVE  \/ req[p].rows[d.index] \in Readable'
                    \/ req[p].rows[d.index] \in WithStatus(p, "failed")'
                    \/ InRecord(p)' /\ pend'[p] = "ok" /\ d.index = idx'[p]
  BY DEF Durable
<1>1. WithStatus(p, "failed") \subseteq WithStatus(p, "failed")'
  BY DEF WithStatus
<1>2. CASE d \in report[p]
  BY <1>1, <1>2 DEF Durable, Row
<1> QED
  BY <1>2

LEMMA DurablePreflight ==
  ASSUME IInv, NEW p \in Runs, Preflight(p)
  PROVE  Durable(p)'
<1>1. pc[p] = "idle" /\ report[p] = {}
  BY DEF Preflight, Empty, Refuse, Reject, Plan, Begin, Accepted, Start, IInv, RunOK, Fresh
<1>2. PICK r \in Requests : Empty(p, r) \/ Refuse(p, r) \/ Reject(p, r) \/ Plan(p, r) \/ Begin(p, r)
  BY DEF Preflight
<1>3. report'[p] \in {{}, InvalidReport(r.rows), PlannedReport(r.rows, Readable)}
  <2>1. CASE Empty(p, r) \/ Refuse(p, r) \/ Begin(p, r)
    BY <1>1, <2>1 DEF Empty, Refuse, Begin
  <2>2. CASE Reject(p, r)
    BY <2>2 DEF Reject, IInv, TypeOK
  <2>3. CASE Plan(p, r)
    BY <2>3 DEF Plan, IInv, TypeOK
  <2> QED
    BY <1>2, <2>1, <2>2, <2>3
<1>4. ASSUME NEW e \in InvalidReport(r.rows) PROVE e.status # "ok"
  <2>1. PICK i \in BadRows(r.rows) : e = Result(i, "invalid", "")
    BY DEF InvalidReport
  <2> QED
    BY <2>1 DEF Result
<1>5. ASSUME NEW e \in PlannedReport(r.rows, Readable) PROVE e.status # "ok"
  <2>1. PICK i \in DOMAIN r.rows :
          e = Result(i, IF r.rows[i] \in Readable THEN "resumed" ELSE "planned", "")
    BY DEF PlannedReport
  <2> QED
    BY <2>1 DEF Result
<1> QED
  BY <1>3, <1>4, <1>5 DEF Durable

LEMMA DurableStep ==
  ASSUME IInv, OpenIsTorn, ~TornAppends, NEW p \in Runs, Durable(p), Step(p) \/ Crash(p)
  PROVE  Durable(p)'
<1> USE DEF IInv
<1>0. Readable \subseteq Readable'
  BY ReadableGrows
<1>1. ASSUME NEW status, status # "ok", NEW code, Report(p, status, code)
      PROVE  /\ report[p] \subseteq report'[p]
             /\ \A d \in report'[p] \ report[p] : d.status # "ok"
             /\ idx[p] = Result(idx[p], status, code).index
             /\ Result(idx[p], status, code) \in report'[p]
             /\ status = Result(idx[p], status, code).status
  BY <1>1 DEF Report, Result, TypeOK
<1>2. CASE SkipStopped(p) \/ SkipCommitted(p) \/ ReplayError(p) \/ ReplayRaises(p)
  <2>1. PICK status \in {"skipped", "resumed", "failed"}, code \in {"", "error", "raised"} :
          Report(p, status, code)
    BY <1>2 DEF SkipStopped, SkipCommitted, ReplayError, ReplayRaises
  <2>2. pc[p] = "rows" /\ req' = req
    BY <1>2 DEF SkipStopped, SkipCommitted, ReplayError, ReplayRaises, ReadyToFire, AtRow
  <2> QED
    BY <1>0, <1>1, <2>1, <2>2, DurableGrown DEF InRecord
<1>3. CASE ReplayOk(p)
  <2> DEFINE new == Result(idx[p], "ok", "")
  <2>1. new.index = idx[p]
    BY DEF Result
  <2>2. /\ pc[p] = "rows" /\ report'[p] = report[p] \cup {new}
        /\ req' = req /\ idx' = idx
        /\ pc'[p] \in {"commit", "open"} /\ pend'[p] = "ok"
    BY <1>3 DEF ReplayOk, ReadyToFire, AtRow, EnterRecord, TypeOK
  <2> HIDE DEF new
  <2> QED
    BY <1>0, <2>1, <2>2, DurableGrown DEF InRecord
<1>4. CASE ReplayLandedError(p) \/ Finish(p)
  <2>1. pc[p] = "rows" /\ report' = report /\ req' = req
    BY <1>4 DEF ReplayLandedError, ReadyToFire, AtRow, Finish
  <2> QED
    BY <1>0, <2>1, DurableGrown DEF InRecord
<1>5. CASE OpenLedger(p) \/ AppendHeader(p)
  <2>1. InRecord(p) /\ InRecord(p)' /\ report' = report /\ req' = req /\ pend' = pend /\ idx' = idx
    BY <1>5 DEF OpenLedger, AppendHeader, InRecord, TypeOK
  <2> QED
    BY <1>0, <2>1, DurableGrown DEF InRecord
<1>6. CASE AppendCommit(p)
  <2>1. pc[p] = "commit" /\ req' = req /\ Row(p) \in Readable'
    BY <1>6, WholeAppend DEF AppendCommit, InRecord
  <2>2. report[p] \subseteq report'[p] /\ \A d \in report'[p] \ report[p] : d.status # "ok"
    <3>1. report' = report \/ Report(p, "failed", "landed")
      BY <1>6 DEF AppendCommit
    <3> QED
      BY <1>1, <3>1
  <2> QED
    BY <1>0, <2>1, <2>2, DurableGrown
<1>7. CASE RecordFailsOk(p)
  <2>1. req' = req /\ Report(p, "failed", "raised") /\ pc[p] # "dead"
    BY <1>7 DEF RecordFailsOk, Interrupted
  <2>2. Row(p) \in WithStatus(p, "failed")'
    <3> DEFINE new == Result(idx[p], "failed", "raised")
    <3>1. new \in report'[p] /\ new.index = idx[p] /\ new.status = "failed"
      BY <1>1, <2>1
    <3> HIDE DEF new
    <3> QED
      BY <2>1, <3>1 DEF WithStatus, Row
  <2> QED
    BY <1>0, <1>1, <2>1, <2>2, DurableGrown
<1>8. CASE RecordFailsLanded(p)
  <2>1. pc[p] # "dead" /\ pend[p] = "landed" /\ report' = report /\ req' = req
    BY <1>8 DEF RecordFailsLanded, Interrupted
  <2> QED
    BY <1>0, <2>1, DurableGrown
<1>9. CASE Crash(p)
  <2>1. pc'[p] = "dead"
    BY <1>9 DEF Crash, CrashBetween, CrashInReplay, CrashInRecord, Dies, TypeOK
  <2> QED
    BY <2>1 DEF Durable
<1> QED
  BY <1>2, <1>3, <1>4, <1>5, <1>6, <1>7, <1>8, <1>9 DEF Step, Replay

\* Where a killed append leaves all of a line or nothing, a row that a run confirmed,
\* recorded without an error and left behind is in the file and can be read from it.
THEOREM RecordsAreDurable == ~TornAppends => (Spec => []RecordedIsDurable)
<1> SUFFICES ASSUME ~TornAppends PROVE Spec => []RecordedIsDurable
  OBVIOUS
<1> DEFINE AllDurable == \A p \in Runs : Durable(p)
<1>1. Init => AllDurable
  BY DEF Init, Durable
<1>2. IInv /\ OpenIsTorn /\ AllDurable /\ [Next]_vars => AllDurable'
  <2> SUFFICES ASSUME IInv, OpenIsTorn, AllDurable, [Next]_vars, NEW q \in Runs PROVE Durable(q)'
    OBVIOUS
  <2>1. CASE UNCHANGED vars
    BY <2>1 DEF vars, Durable, Readable, WithStatus, InRecord
  <2>2. ASSUME NEW p \in Runs, Preflight(p) \/ Step(p) \/ Crash(p) PROVE Durable(q)'
    <3>1. CASE q = p
      BY <2>2, <3>1, DurablePreflight, DurableStep
    <3>2. CASE q # p
      <4>1. CallKept(q) /\ pc'[q] = pc[q] /\ Readable \subseteq Readable' /\ Durable(q)
        BY <2>2, <3>2, OthersCalls, ReadableGrows
      <4> QED
        BY <4>1 DEF Durable, WithStatus, CallKept, InRecord
    <3> QED
      BY <3>1, <3>2
  <2> QED
    BY <2>1, <2>2 DEF Next
<1>3. IInv /\ AllDurable => RecordedIsDurable
  <2> SUFFICES ASSUME IInv, AllDurable, NEW p \in Runs, pc[p] # "dead",
                      NEW e \in report[p], e.status = "ok", e.index < idx[p],
                      req[p].rows[e.index] \notin WithStatus(p, "failed")
               PROVE  req[p].rows[e.index] \in Readable
    BY DEF RecordedIsDurable, LeftBehind
  <2>1. e.index # idx[p]
    BY DEF IInv, TypeOK, Results
  <2> QED
    BY <2>1 DEF Durable
<1> QED
  BY <1>1, <1>2, <1>3, Invariance, OpenIsTornInvariant, PTL DEF Spec

-------------------------------------------------------------------------------
(* The marks                                                               *)

\* A mark that the verb does not take back.
Lasts(s) == s.marked /\ (s.sources = {} \/ s.sources \ Demotable # {})

Recipes == [steps : Seq(StepType), how : {"learn", "record", "before 0.92"}, page : Pages,
            declared : BOOLEAN, wrote : SUBSET Nat, over : BOOLEAN]

\* A recipe is the page it was authored on, step by step; what speaks for a step keeps
\* it marked, and a marked step has its gate.
Sound(r) ==
  /\ r \in Recipes
  /\ DOMAIN r.steps = DOMAIN r.page.controls
  /\ \A i \in DOMAIN r.steps :
       /\ Evidence(r, i) => Lasts(r.steps[i])
       /\ r.steps[i].marked => r.steps[i].gate

LEMMA PageFacts ==
  ASSUME NEW p \in Pages
  PROVE  /\ p.controls \in Seq(ControlType) /\ p.provable \in BOOLEAN /\ p.reads \subseteq Reads
         /\ \A i \in DOMAIN p.controls : p.controls[i] \in ControlType
BY ReviewAssumption

LEMMA SpecFacts ==
  ASSUME NEW s \in Specs
  PROVE  s.declared \in BOOLEAN /\ s.barriers \in 0..2 /\ (s.barriers > 0 => s.declared)
BY ReviewAssumption

\* Steps made one by one from the controls of a page are a sequence.
LEMMA StepsOf ==
  ASSUME NEW n \in Nat, NEW f, DOMAIN f = 1..n, f = [i \in 1..n |-> f[i]], \A i \in 1..n : f[i] \in StepType
  PROVE  f \in Seq(StepType)
OBVIOUS

\* What was seen is of steps, by number.
LEMMA SightingFacts ==
  ASSUME NEW p \in Pages, NEW sight \in Sightings(p)
  PROVE  sight.wrote \subseteq Nat /\ OverGates(p, sight) \in BOOLEAN
<1>1. Len(p.controls) \in Nat
  BY PageFacts
<1>2. sight.wrote \subseteq 0..Len(p.controls)
  BY DEF Sightings
<1>3. OverGates(p, sight) \in BOOLEAN
  BY DEF OverGates
<1> QED
  BY <1>1, <1>2, <1>3

\* What the learn makes of a step, whatever it saw.
LEMMA LearnedFacts ==
  ASSUME NEW p \in Pages, NEW sight, NEW i \in DOMAIN p.controls
  PROVE  LET c == p.controls[i]
             s == Learned(p, sight)[i]
         IN /\ s \in StepType /\ s.control = c /\ s.gate
            /\ c.guess # "none" => s.marked /\ c.guess \in s.sources
            /\ i \in sight.wrote => s.marked /\ "wire" \in s.sources
            /\ OverGates(p, sight) => s.marked
            /\ OverGates(p, sight) /\ c.guess = "none" => s.sources \ Demotable # {}
<1> DEFINE c == p.controls[i]
           own == Classified(c) \cup If(i \in sight.wrote, "wire")
           over == OverGates(p, sight) /\ own = {}
           all == own \cup If(i \in sight.read \ sight.wrote, "body_read") \cup If(over, "overgate")
           s == [control |-> c, marked |-> over \/ own # {}, sources |-> all, gate |-> TRUE, confirm |-> FALSE]
<1>1. c \in ControlType
  BY PageFacts
<1>2. c.guess \in {"none", "keyword", "form_method"}
  BY <1>1 DEF ControlType
<1>3. Learned(p, sight)[i] = s
  BY DEF Learned
<1>4. all \subseteq Marks
  BY <1>2 DEF Classified, If, Marks
<1>5. s \in StepType
  BY <1>1, <1>4 DEF StepType
<1>6. /\ c.guess # "none" => c.guess \in own
      /\ i \in sight.wrote => "wire" \in own
      /\ over => "overgate" \in all
      /\ c.guess = "none" => own \subseteq {"wire"}
  BY <1>2 DEF Classified, If
<1>7. OverGates(p, sight) /\ c.guess = "none" => all \ Demotable # {}
  <2>1. CASE own = {}
    BY <1>6, <2>1 DEF Demotable
  <2>2. CASE own # {}
    <3>1. c.guess = "none" => "wire" \in all
      BY <1>6, <2>2
    <3> QED
      BY <3>1 DEF Demotable
  <2> QED
    BY <2>1, <2>2
<1>8. s.control = c /\ s.gate /\ s.marked = (over \/ own # {}) /\ s.sources = all /\ own \subseteq all
  OBVIOUS
<1>9. OverGates(p, sight) => over \/ own # {}
  OBVIOUS
<1>10. /\ c.guess # "none" => s.marked /\ c.guess \in s.sources
       /\ i \in sight.wrote => s.marked /\ "wire" \in s.sources
       /\ OverGates(p, sight) => s.marked
       /\ OverGates(p, sight) /\ c.guess = "none" => s.sources \ Demotable # {}
  <2> HIDE DEF own, all, over, c, s
  <2> QED
    BY <1>6, <1>7, <1>8, <1>9
<1> QED
  BY <1>3, <1>5, <1>8, <1>10

\* What a recording that is kept makes of a step.
LEMMA RecordedFacts ==
  ASSUME NEW p \in Pages, NEW i \in DOMAIN p.controls, spec \in Specs
  PROVE  LET c == p.controls[i]
             s == Recorded(p)[i]
         IN /\ s \in StepType /\ s.control = c
            /\ Keeps(p, Recorded(p)) =>
                 /\ s.marked => s.gate
                 /\ c.sends # "none" => spec.declared
                 /\ c.guess = "form_method" \/ c.sends # "none" \/ (spec.declared /\ c.form) => Lasts(s)
<1> DEFINE c == p.controls[i]
           own == Classified(c) \cup If(spec.declared /\ c.form, "declared")
                                \cup If(spec.declared /\ c.sends # "none", "wire")
           all == own \cup If(spec.declared /\ own = {} /\ c.caption, "caption")
           s == [control |-> c, marked |-> all # {}, sources |-> all,
                 gate |-> all # {} /\ (spec.declared \/ c.form), confirm |-> FALSE]
<1>1. c \in ControlType /\ spec.declared \in BOOLEAN
  BY PageFacts, SpecFacts
<1>2. /\ c.guess \in {"none", "keyword", "form_method"} /\ c.sends \in {"none", "write", "read"}
      /\ c.form \in BOOLEAN /\ c.caption \in BOOLEAN
  BY <1>1 DEF ControlType
<1>3. Recorded(p)[i] = s /\ DOMAIN Recorded(p) = DOMAIN p.controls
  BY DEF Recorded
<1>4. all \subseteq Marks
  BY <1>1, <1>2 DEF Classified, If, Marks
<1>5. s \in StepType
  BY <1>1, <1>2, <1>4 DEF StepType
<1>6. /\ c.guess = "form_method" => "form_method" \in all
      /\ spec.declared /\ c.sends # "none" => "wire" \in all
      /\ spec.declared /\ c.form => "declared" \in all
  BY <1>2 DEF Classified, If
<1>7. s.control = c /\ s.marked = (all # {}) /\ s.sources = all
  OBVIOUS
<1>8. ASSUME Keeps(p, Recorded(p))
      PROVE  /\ s.marked => s.gate
             /\ c.sends # "none" => spec.declared
             /\ c.guess = "form_method" => "form_method" \in all /\ all # {}
  <2>1. CASE spec.declared
    <3>1. \A j \in MarkedIn(Recorded(p)) : Recorded(p)[j].gate
      BY <1>8, <2>1 DEF Keeps
    <3>2. s.marked => i \in MarkedIn(Recorded(p))
      BY <1>3 DEF MarkedIn
    <3> HIDE DEF s, all
    <3> QED
      BY <1>3, <1>6, <2>1, <3>1, <3>2
  <2>2. CASE ~spec.declared
    <3>1. /\ c.sends = "none" /\ MarkedIn(Recorded(p)) = {}
      BY <1>8, <2>2 DEF Keeps
    <3>2. ~s.marked
      BY <1>3, <3>1 DEF MarkedIn
    <3> HIDE DEF s, all
    <3> QED
      BY <1>6, <3>1, <3>2
  <2> QED
    BY <2>1, <2>2
<1>9. ASSUME Keeps(p, Recorded(p)),
             c.guess = "form_method" \/ c.sends # "none" \/ (spec.declared /\ c.form)
      PROVE  Lasts(s)
  <2>1. \E m \in {"form_method", "wire", "declared"} : m \in all
    BY <1>6, <1>8, <1>9
  <2> HIDE DEF s, all
  <2> QED
    BY <1>7, <2>1 DEF Lasts, Demotable
<1> QED
  BY <1>3, <1>5, <1>7, <1>8, <1>9

LEMMA AttachFacts ==
  ASSUME NEW steps \in Seq(StepType)
  PROVE  /\ Attach(steps) \in Seq(StepType) /\ DOMAIN Attach(steps) = DOMAIN steps
         /\ \A i \in DOMAIN steps :
              LET s == Attach(steps)[i]
              IN s.control = steps[i].control /\ s.marked = steps[i].marked
                 /\ s.sources = steps[i].sources /\ s.gate = steps[i].gate
<1>1. Attach(steps) = [i \in DOMAIN steps |->
                         [steps[i] EXCEPT !.confirm = spec.barriers > 0 /\ steps[i].marked]]
  BY DEF Attach
<1>2. ASSUME NEW i \in DOMAIN steps
      PROVE  /\ Attach(steps)[i] \in StepType
             /\ LET s == Attach(steps)[i]
                IN s.control = steps[i].control /\ s.marked = steps[i].marked
                   /\ s.sources = steps[i].sources /\ s.gate = steps[i].gate
  <2>1. steps[i] \in StepType
    OBVIOUS
  <2>2. Attach(steps)[i] = [steps[i] EXCEPT !.confirm = spec.barriers > 0 /\ steps[i].marked]
    BY <1>1
  <2>3. (spec.barriers > 0 /\ steps[i].marked) \in BOOLEAN
    OBVIOUS
  <2> QED
    BY <2>1, <2>2, <2>3 DEF StepType
<1>3. Attach(steps) \in Seq(StepType)
  <2>1. Len(steps) \in Nat /\ DOMAIN steps = 1..Len(steps)
    OBVIOUS
  <2>2. DOMAIN Attach(steps) = 1..Len(steps) /\ Attach(steps) = [i \in 1..Len(steps) |-> Attach(steps)[i]]
    BY <1>1, <2>1
  <2> QED
    BY <1>2, <2>1, <2>2, StepsOf
<1> QED
  BY <1>1, <1>2, <1>3

\* The steps of the learn are those of the page.
LEMMA AuthoredSteps ==
  ASSUME NEW p \in Pages, NEW sight \in Sightings(p), spec \in Specs
  PROVE  /\ Learned(p, sight) \in Seq(StepType) /\ DOMAIN Learned(p, sight) = DOMAIN p.controls
         /\ Before92(p, sight) \in Seq(StepType) /\ DOMAIN Before92(p, sight) = DOMAIN p.controls
         /\ \A i \in DOMAIN p.controls :
              /\ Before92(p, sight)[i].sources = {}
              /\ Before92(p, sight)[i].marked = Learned(p, sight)[i].marked
              /\ Before92(p, sight)[i].gate = Learned(p, sight)[i].gate
<1>1. DOMAIN p.controls = 1..Len(p.controls) /\ Len(p.controls) \in Nat
  BY PageFacts
<1>2. Learned(p, sight) \in Seq(StepType) /\ DOMAIN Learned(p, sight) = DOMAIN p.controls
  <2>1. /\ DOMAIN Learned(p, sight) = 1..Len(p.controls)
        /\ Learned(p, sight) = [i \in 1..Len(p.controls) |-> Learned(p, sight)[i]]
    BY <1>1 DEF Learned
  <2>2. \A i \in DOMAIN p.controls : Learned(p, sight)[i] \in StepType
    BY LearnedFacts
  <2> QED
    BY <1>1, <2>1, <2>2, StepsOf
<1>4. ASSUME NEW i \in DOMAIN p.controls
      PROVE  /\ Before92(p, sight)[i] \in StepType
             /\ Before92(p, sight)[i].sources = {}
             /\ Before92(p, sight)[i].marked = Learned(p, sight)[i].marked
             /\ Before92(p, sight)[i].gate = Learned(p, sight)[i].gate
  <2>1. Before92(p, sight)[i] = [Learned(p, sight)[i] EXCEPT !.sources = {}] /\ Learned(p, sight)[i] \in StepType
    BY <1>2 DEF Before92
  <2> QED
    BY <2>1 DEF StepType
<1>5. Before92(p, sight) \in Seq(StepType) /\ DOMAIN Before92(p, sight) = DOMAIN p.controls
  <2>1. /\ DOMAIN Before92(p, sight) = 1..Len(p.controls)
        /\ Before92(p, sight) = [i \in 1..Len(p.controls) |-> Before92(p, sight)[i]]
    BY <1>1 DEF Before92
  <2> QED
    BY <1>1, <1>4, <2>1, StepsOf
<1> QED
  BY <1>2, <1>4, <1>5

\* And so are those of the recording.
LEMMA RecordedSteps ==
  ASSUME NEW p \in Pages, spec \in Specs
  PROVE  Recorded(p) \in Seq(StepType) /\ DOMAIN Recorded(p) = DOMAIN p.controls
<1>1. DOMAIN p.controls = 1..Len(p.controls) /\ Len(p.controls) \in Nat
  BY PageFacts
<1>2. /\ DOMAIN Recorded(p) = 1..Len(p.controls)
      /\ Recorded(p) = [i \in 1..Len(p.controls) |-> Recorded(p)[i]]
  BY <1>1 DEF Recorded
<1>3. \A i \in DOMAIN p.controls : Recorded(p)[i] \in StepType
  BY RecordedFacts
<1> QED
  BY <1>1, <1>2, <1>3, StepsOf

\* Every recipe is authored sound.
LEMMA LearnIsSound ==
  ASSUME NEW p \in Pages, NEW sight \in Sightings(p), spec \in Specs,
         NEW r \in Recipe(Attach(Learned(p, sight)), "learn", p, sight.wrote, OverGates(p, sight))
  PROVE  Sound(r)
<1>1. r = [steps |-> Attach(Learned(p, sight)), how |-> "learn", page |-> p, declared |-> FALSE,
           wrote |-> sight.wrote, over |-> OverGates(p, sight)]
  BY DEF Recipe
<1>2. /\ r.steps = Attach(Learned(p, sight)) /\ r.how = "learn" /\ r.page = p
      /\ r.wrote = sight.wrote /\ r.over = OverGates(p, sight)
      /\ r.steps \in Seq(StepType) /\ DOMAIN r.steps = DOMAIN p.controls
  BY <1>1, AuthoredSteps, AttachFacts
<1>3. ASSUME NEW i \in DOMAIN r.steps
      PROVE  (Evidence(r, i) => Lasts(r.steps[i])) /\ (r.steps[i].marked => r.steps[i].gate)
  <2> DEFINE c == p.controls[i]
             s == Learned(p, sight)[i]
  <2>1. i \in DOMAIN p.controls
    BY <1>2, <1>3
  <2>2. /\ s.gate
        /\ c.guess # "none" => s.marked /\ c.guess \in s.sources
        /\ i \in sight.wrote => s.marked /\ "wire" \in s.sources
        /\ OverGates(p, sight) => s.marked
        /\ OverGates(p, sight) /\ c.guess = "none" => s.sources \ Demotable # {}
    BY <2>1, LearnedFacts
  <2>3. r.steps[i].marked = s.marked /\ r.steps[i].sources = s.sources /\ r.steps[i].gate = s.gate
    BY <1>2, <2>1, AuthoredSteps, AttachFacts
  <2>4. Evidence(r, i) => \/ c.guess = "form_method"
                          \/ i \in sight.wrote
                          \/ (OverGates(p, sight) /\ c.guess = "none")
    BY <1>2 DEF Evidence
  <2>5. ASSUME Evidence(r, i) PROVE Lasts(s)
    <3>1. CASE c.guess = "form_method"
      BY <2>2, <3>1 DEF Lasts, Demotable
    <3>2. CASE i \in sight.wrote
      BY <2>2, <3>2 DEF Lasts, Demotable
    <3>3. CASE OverGates(p, sight) /\ c.guess = "none"
      BY <2>2, <3>3 DEF Lasts
    <3> QED
      BY <2>4, <2>5, <3>1, <3>2, <3>3
  <2> QED
    BY <2>2, <2>3, <2>5 DEF Lasts
<1>4. r \in Recipes
  BY <1>1, <1>2, SightingFacts DEF Recipes
<1> QED
  BY <1>2, <1>3, <1>4 DEF Sound

LEMMA RecordIsSound ==
  ASSUME NEW p \in Pages, spec \in Specs, Keeps(p, Recorded(p)), 
         NEW r \in Recipe(Attach(Recorded(p)), "record", p, {}, FALSE)
  PROVE  Sound(r)
<1>1. r = [steps |-> Attach(Recorded(p)), how |-> "record", page |-> p, declared |-> spec.declared,
           wrote |-> {}, over |-> FALSE]
  <2>1. spec.declared \in BOOLEAN
    BY SpecFacts
  <2> QED
    BY <2>1 DEF Recipe
<1>2. /\ r.steps = Attach(Recorded(p)) /\ r.how = "record" /\ r.page = p /\ r.declared = spec.declared
      /\ r.wrote = {} /\ r.over = FALSE
      /\ r.steps \in Seq(StepType) /\ DOMAIN r.steps = DOMAIN p.controls
  BY <1>1, RecordedSteps, AttachFacts
<1>3. ASSUME NEW i \in DOMAIN r.steps
      PROVE  (Evidence(r, i) => Lasts(r.steps[i])) /\ (r.steps[i].marked => r.steps[i].gate)
  <2> DEFINE c == p.controls[i]
             s == Recorded(p)[i]
  <2>1. i \in DOMAIN p.controls
    BY <1>2, <1>3
  <2>2. /\ s.marked => s.gate
        /\ c.guess = "form_method" \/ c.sends # "none" \/ (spec.declared /\ c.form) => Lasts(s)
    BY <2>1, RecordedFacts
  <2>3. r.steps[i].marked = s.marked /\ r.steps[i].sources = s.sources /\ r.steps[i].gate = s.gate
    BY <1>2, <2>1, RecordedSteps, AttachFacts
  <2>4. Evidence(r, i) => c.guess = "form_method" \/ c.sends # "none" \/ (spec.declared /\ c.form)
    BY <1>2 DEF Evidence
  <2> QED
    BY <2>2, <2>3, <2>4 DEF Lasts
<1>4. r \in Recipes
  BY <1>1, <1>2, SpecFacts DEF Recipes
<1> QED
  BY <1>2, <1>3, <1>4 DEF Sound

LEMMA OldIsSound ==
  ASSUME NEW p \in Pages, NEW sight \in Sightings(p), spec \in Specs,
         NEW r \in Recipe(Before92(p, sight), "before 0.92", p, sight.wrote, OverGates(p, sight))
  PROVE  Sound(r)
<1>1. r = [steps |-> Before92(p, sight), how |-> "before 0.92", page |-> p, declared |-> FALSE,
           wrote |-> sight.wrote, over |-> OverGates(p, sight)]
  BY DEF Recipe
<1>2. /\ r.steps = Before92(p, sight) /\ r.how = "before 0.92" /\ r.page = p
      /\ r.wrote = sight.wrote /\ r.over = OverGates(p, sight)
      /\ r.steps \in Seq(StepType) /\ DOMAIN r.steps = DOMAIN p.controls
  BY <1>1, AuthoredSteps
<1>3. ASSUME NEW i \in DOMAIN r.steps
      PROVE  (Evidence(r, i) => Lasts(r.steps[i])) /\ (r.steps[i].marked => r.steps[i].gate)
  <2> DEFINE c == p.controls[i]
             s == Learned(p, sight)[i]
  <2>1. i \in DOMAIN p.controls
    BY <1>2, <1>3
  <2>2. s.gate /\ (c.guess # "none" => s.marked) /\ (i \in sight.wrote => s.marked)
        /\ (OverGates(p, sight) => s.marked)
    BY <2>1, LearnedFacts
  <2>3. r.steps[i].marked = s.marked /\ r.steps[i].sources = {} /\ r.steps[i].gate = s.gate
    <3>1. /\ Before92(p, sight)[i].sources = {} /\ Before92(p, sight)[i].marked = s.marked
          /\ Before92(p, sight)[i].gate = s.gate
      BY <2>1, AuthoredSteps
    <3> QED
      BY <1>2, <3>1
  <2>4. Evidence(r, i) => c.guess # "none" \/ i \in sight.wrote \/ OverGates(p, sight)
    BY <1>2 DEF Evidence
  <2> QED
    BY <2>2, <2>3, <2>4 DEF Lasts
<1>4. r \in Recipes
  BY <1>1, <1>2, SightingFacts DEF Recipes
<1> QED
  BY <1>2, <1>3, <1>4 DEF Sound

\* Marking keeps it sound.
LEMMA MarkIsSound ==
  ASSUME NEW r, Sound(r), NEW i \in DOMAIN r.steps, NEW writes \in BOOLEAN,
         IF writes THEN r.steps[i].gate ELSE ~RefusesDemotion(r.steps, i),
         NEW q, q = [r EXCEPT !.steps[i] =
                       [r.steps[i] EXCEPT !.marked = writes,
                                          !.sources = @ \cup {"human"} \cup Prior(r.steps[i])]]
  PROVE  Sound(q)
<1> DEFINE s == r.steps[i]
           t == [s EXCEPT !.marked = writes, !.sources = @ \cup {"human"} \cup Prior(s)]
<1>1. /\ r \in Recipes
      /\ r.steps \in Seq(StepType) /\ s \in StepType /\ DOMAIN r.steps = DOMAIN r.page.controls
      /\ Len(r.steps) \in Nat /\ DOMAIN r.steps = 1..Len(r.steps)
      /\ \A j \in 1..Len(r.steps) : r.steps[j] \in StepType
  <2>1. /\ r \in Recipes
        /\ DOMAIN r.steps = DOMAIN r.page.controls
    BY DEF Sound
  <2>2. r.steps \in Seq(StepType)
    BY <2>1 DEF Recipes
  <2>3. Len(r.steps) \in Nat /\ DOMAIN r.steps = 1..Len(r.steps) /\ \A j \in DOMAIN r.steps : r.steps[j] \in StepType
    BY <2>2
  <2>4. s \in StepType /\ \A j \in 1..Len(r.steps) : r.steps[j] \in StepType
    BY <2>3
  <2> QED
    BY <2>1, <2>2, <2>3, <2>4
<1>2. /\ t \in StepType /\ t.marked = writes /\ t.gate = s.gate
      /\ t.sources = s.sources \cup {"human"} \cup Prior(s)
  BY <1>1 DEF StepType, Prior, If, Marks
<1>3. /\ q.steps = [r.steps EXCEPT ![i] = t] /\ q.how = r.how /\ q.page = r.page /\ q.declared = r.declared
      /\ q.wrote = r.wrote /\ q.over = r.over
      /\ q = [r EXCEPT !.steps = [r.steps EXCEPT ![i] = t]]
  BY <1>1 DEF Recipes
<1> HIDE DEF t
<1>4. /\ q.steps \in Seq(StepType) /\ DOMAIN q.steps = DOMAIN r.steps
      /\ q.steps[i] = t /\ \A j \in DOMAIN r.steps \ {i} : q.steps[j] = r.steps[j]
  <2>1. /\ DOMAIN q.steps = 1..Len(r.steps) /\ q.steps = [j \in 1..Len(r.steps) |-> q.steps[j]]
        /\ q.steps[i] = t /\ \A j \in DOMAIN r.steps \ {i} : q.steps[j] = r.steps[j]
    BY <1>1, <1>3
  <2>2. \A j \in 1..Len(r.steps) : q.steps[j] \in StepType
    BY <1>1, <1>2, <2>1
  <2> QED
    BY <1>1, <2>1, <2>2, StepsOf
<1>5. q \in Recipes
  BY <1>1, <1>3, <1>4 DEF Recipes
<1>6. \A j \in DOMAIN r.steps : Evidence(q, j) = Evidence(r, j)
  BY <1>3 DEF Evidence
<1>7. ASSUME Evidence(r, i) PROVE Lasts(t)
  <2>1. Lasts(s)
    BY <1>7 DEF Sound
  <2>2. writes
    BY <2>1 DEF RefusesDemotion, Lasts
  <2>3. CASE s.sources = {}
    BY <1>2, <2>1, <2>2, <2>3 DEF Lasts, Prior, If, Demotable
  <2>4. CASE s.sources \ Demotable # {}
    BY <1>2, <2>2, <2>4 DEF Lasts
  <2> QED
    BY <2>1, <2>3, <2>4 DEF Lasts
<1>8. t.marked => t.gate
  BY <1>2
<1>9. \A j \in DOMAIN q.steps : (Evidence(q, j) => Lasts(q.steps[j])) /\ (q.steps[j].marked => q.steps[j].gate)
  BY <1>4, <1>6, <1>7, <1>8 DEF Sound
<1> QED
  BY <1>1, <1>3, <1>4, <1>5, <1>9 DEF Sound

\* The inductive invariant.  One recipe at most and one sample; while an approval stands,
\* its hashes are those of what was blessed, and the sample is still the one behind it.
ReviewIInv ==
  /\ \A r \in recipe : Sound(r)
  /\ \A r, q \in recipe : r = q
  /\ spec \in Specs
  /\ approved \in BOOLEAN /\ held \in BOOLEAN
  /\ bound # {} <=> approved
  /\ \A b \in baseline : b.read \in Reads
  /\ \A b, c \in baseline : b = c
  /\ approved => \A b \in blessed : bound = {b.binding} /\ b.baseline = baseline

LEMMA ReviewStart == ReviewInit => ReviewIInv
<1> SUFFICES ASSUME ReviewInit
             PROVE  ReviewIInv
  OBVIOUS
<1>1. /\ spec \in Specs /\ approved = FALSE /\ bound = {} /\ baseline = {} /\ held = FALSE
      /\ \/ recipe = {}
         \/ \E p \in Pages : \E sight \in Sightings(p) :
              recipe = Recipe(Before92(p, sight), "before 0.92", p, sight.wrote, OverGates(p, sight))
  BY DEF ReviewInit
<1>2. \A r \in recipe : Sound(r)
  BY <1>1, OldIsSound
<1>3. \A r, q \in recipe : r = q
  BY <1>1 DEF Recipe
<1> QED
  BY <1>1, <1>2, <1>3 DEF ReviewIInv

LEMMA LearnKeeps ==
  ASSUME ReviewIInv, Learn
  PROVE  ReviewIInv'
<1> DEFINE Put(p, sight, e) ==
             /\ \/ /\ recipe' = Recipe(Attach(Learned(p, sight)), "learn", p, sight.wrote, OverGates(p, sight))
                   /\ baseline' = IF Reseeds THEN {[read |-> e, declared |-> spec.declared]} ELSE baseline
                \/ recipe' = {} /\ UNCHANGED baseline
             /\ UNCHANGED <<spec, approved, bound, held, blessed>>
<1>0. PICK p \in Pages : \E sight \in Sightings(p) : \E e \in p.reads : Put(p, sight, e)
  BY DEF Learn
<1>9. PICK sight \in Sightings(p) : \E e \in p.reads : Put(p, sight, e)
  BY <1>0
<1>1. PICK e \in p.reads : Put(p, sight, e)
  BY <1>9
<1>2. e \in Reads /\ spec \in Specs
  BY PageFacts DEF ReviewIInv
<1>3. \A r \in recipe' : Sound(r)
  BY <1>1, <1>2, LearnIsSound
<1>4. \A r, q \in recipe' : r = q
  BY <1>1 DEF Recipe
<1>5. \/ baseline' = baseline
      \/ baseline' = {[read |-> e, declared |-> spec.declared]} /\ ~approved
  BY <1>1 DEF Reseeds
<1>6. (\A b \in baseline' : b.read \in Reads) /\ (\A b, c \in baseline' : b = c)
  BY <1>2, <1>5 DEF ReviewIInv
<1>7. \A r \in recipe' : Sound(r)'
  BY <1>3 DEF Sound, Evidence, Lasts
<1> QED
  BY <1>1, <1>4, <1>5, <1>6, <1>7 DEF ReviewIInv

LEMMA RecordKeeps ==
  ASSUME ReviewIInv, Record
  PROVE  ReviewIInv'
<1>1. PICK p \in Pages :
        /\ \/ /\ Keeps(p, Recorded(p))
              /\ recipe' = Recipe(Attach(Recorded(p)), "record", p, {}, FALSE)
              /\ baseline' = IF Reseeds THEN {} ELSE baseline
           \/ recipe' = {} /\ UNCHANGED baseline
        /\ UNCHANGED <<spec, approved, bound, held, blessed>>
  BY DEF Record
<1>2. spec \in Specs
  BY DEF ReviewIInv
<1>3. \A r \in recipe' : Sound(r)
  BY <1>1, <1>2, RecordIsSound
<1>4. \A r, q \in recipe' : r = q
  BY <1>1 DEF Recipe
<1>5. \/ baseline' = baseline
      \/ baseline' = {} /\ ~approved
  BY <1>1 DEF Reseeds
<1>6. \A r \in recipe' : Sound(r)'
  BY <1>3 DEF Sound, Evidence, Lasts
<1> QED
  BY <1>1, <1>4, <1>5, <1>6 DEF ReviewIInv

LEMMA MarkKeeps ==
  ASSUME ReviewIInv, NEW writes \in BOOLEAN, MarkStep(writes)
  PROVE  ReviewIInv'
<1>0. PICK r \in recipe : \E i \in DOMAIN r.steps :
        /\ IF writes THEN r.steps[i].gate ELSE ~RefusesDemotion(r.steps, i)
        /\ recipe' = {[r EXCEPT !.steps[i] =
                         [r.steps[i] EXCEPT !.marked = writes,
                                            !.sources = @ \cup {"human"} \cup Prior(r.steps[i])]]}
        /\ UNCHANGED <<spec, approved, bound, baseline, held, blessed>>
  BY DEF MarkStep
<1>1. PICK i \in DOMAIN r.steps :
        /\ IF writes THEN r.steps[i].gate ELSE ~RefusesDemotion(r.steps, i)
        /\ recipe' = {[r EXCEPT !.steps[i] =
                         [r.steps[i] EXCEPT !.marked = writes,
                                            !.sources = @ \cup {"human"} \cup Prior(r.steps[i])]]}
        /\ UNCHANGED <<spec, approved, bound, baseline, held, blessed>>
  BY <1>0
<1>2. Sound(r)
  BY DEF ReviewIInv
<1>3. \A q \in recipe' : Sound(q)
  BY <1>1, <1>2, MarkIsSound
<1>4. \A q \in recipe' : Sound(q)'
  BY <1>3 DEF Sound, Evidence, Lasts
<1> QED
  BY <1>1, <1>4 DEF ReviewIInv

LEMMA OneBinding ==
  ASSUME ReviewIInv, NEW b \in Binding
  PROVE  Binding = {b}
<1>1. PICK r \in recipe : b = [steps |-> Digest(r), slots |-> spec.slots, overlay |-> spec.overlay]
  BY DEF Binding
<1>2. \A q \in recipe : q = r
  BY DEF ReviewIInv
<1> QED
  BY <1>1, <1>2 DEF Binding

LEMMA ApproveKeeps ==
  ASSUME ReviewIInv, Approve
  PROVE  ReviewIInv'
<1>1. Binding # {}
  <2>1. PICK r \in recipe : TRUE
    BY DEF Approve
  <2>2. [steps |-> Digest(r), slots |-> spec.slots, overlay |-> spec.overlay] \in Binding
    BY DEF Binding
  <2> QED
    BY <2>2
<1>2. \A b \in blessed' : bound' = {b.binding} /\ b.baseline = baseline
  <2> SUFFICES ASSUME NEW b \in blessed'
               PROVE  bound' = {b.binding} /\ b.baseline = baseline
    OBVIOUS
  <2>1. PICK x \in Binding : b = [binding |-> x, baseline |-> baseline, declared |-> spec.declared]
    BY DEF Approve
  <2>2. Binding = {x}
    BY OneBinding
  <2> QED
    BY <2>1, <2>2 DEF Approve
<1>3. UNCHANGED <<recipe, spec, baseline, held>> /\ approved' = TRUE /\ bound' = Binding
  BY DEF Approve
<1>4. \A q \in recipe : Sound(q)'
  BY DEF ReviewIInv, Sound, Evidence, Lasts
<1> QED
  BY <1>1, <1>2, <1>3, <1>4 DEF ReviewIInv

\* EditSpec, Unapprove, Quarantine, Release and stuttering leave the recipe alone.
LEMMA OthersKeep ==
  ASSUME ReviewIInv, EditSpec \/ Unapprove \/ Quarantine \/ Release \/ UNCHANGED reviewVars
  PROVE  ReviewIInv'
<1>1. \A q \in recipe : Sound(q)'
  BY DEF ReviewIInv, Sound, Evidence, Lasts
<1>2. CASE EditSpec
  BY <1>1, <1>2 DEF EditSpec, ReviewIInv
<1>3. CASE Unapprove
  BY <1>1, <1>3 DEF Unapprove, ReviewIInv
<1>4. CASE Quarantine
  BY <1>1, <1>4 DEF Quarantine, ReviewIInv
<1>5. CASE Release
  BY <1>1, <1>5 DEF Release, ReviewIInv
<1>6. CASE UNCHANGED reviewVars
  BY <1>1, <1>6 DEF reviewVars, ReviewIInv
<1> QED
  BY <1>2, <1>3, <1>4, <1>5, <1>6

LEMMA ReviewStep == ReviewIInv /\ [ReviewNext]_reviewVars => ReviewIInv'
<1> SUFFICES ASSUME ReviewIInv, [ReviewNext]_reviewVars
             PROVE  ReviewIInv'
  OBVIOUS
<1>1. CASE MarkWrites \/ MarkReads
  BY <1>1, MarkKeeps DEF MarkWrites, MarkReads
<1> QED
  BY <1>1, LearnKeeps, RecordKeeps, ApproveKeeps, OthersKeep DEF ReviewNext

LEMMA ReviewInvariance == ReviewSpec => []ReviewIInv
<1> QED
  BY ReviewStart, ReviewStep, PTL DEF ReviewSpec

\* Every value a replay may depend on is one the models say it is, whatever is called.
THEOREM ReviewTypeCorrect == ReviewSpec => []ReviewTypeOK
<1>1. ReviewIInv => ReviewTypeOK
  BY DEF ReviewIInv, ReviewTypeOK, Sound, Recipes
<1> QED
  BY <1>1, ReviewInvariance, PTL

\* mark_step (flows.py:2173-2307): no sequence of learns, recordings, edits and calls of
\* the verb takes the mark off a step that more than a guess speaks for.
THEOREM EvidenceKeepsItsMark == ReviewSpec => []EvidenceStands
<1>1. ReviewIInv => EvidenceStands
  BY DEF ReviewIInv, EvidenceStands, Sound, Lasts
<1> QED
  BY <1>1, ReviewInvariance, PTL

-------------------------------------------------------------------------------
(* What passes the contracts of a sample is like the sample                *)

LEMMA GivenFacts ==
  ASSUME NEW c, NEW at, NEW value
  PROVE  /\ DOMAIN Given(c, at, value) = {x \in {at} : c}
         /\ c => Given(c, at, value)[at] = value
BY DEF Given, If

LEMMA OverFacts ==
  ASSUME NEW f, NEW g
  PROVE  /\ DOMAIN Over(f, g) = DOMAIN f \cup DOMAIN g
         /\ \A x \in DOMAIN f : Over(f, g)[x] = f[x]
         /\ \A x \in DOMAIN g \ DOMAIN f : Over(f, g)[x] = g[x]
BY DEF Over

\* The predicates of two contracts are the same.
Agree(c, d) == DOMAIN c = DOMAIN d /\ \A a \in DOMAIN d : c[a] = d[a]

LEMMA CommonFacts ==
  ASSUME NEW vs, NEW x \in vs
  PROVE  /\ DOMAIN Common(vs) \subseteq {"type", "positive", "pattern"}
         /\ \A t \in Leaf : (\A v \in vs : v.t = t) =>
                             "type" \in DOMAIN Common(vs) /\ Common(vs)["type"] = t
         /\ (\A v \in vs : IsPositive(v)) =>
              "positive" \in DOMAIN Common(vs) /\ Common(vs)["positive"] = TRUE
         /\ (\A v \in vs : IsDate(v)) => "pattern" \in DOMAIN Common(vs)
<1> DEFINE y == CHOOSE v \in vs : TRUE
           ty == Given(\E t \in Leaf : \A v \in vs : v.t = t, "type", y.t)
           po == Given(\A v \in vs : IsPositive(v), "positive", TRUE)
           pa == Given(\A v \in vs : IsDate(v), "pattern", TRUE)
<1>1. y \in vs
  BY Zenon
<1>2. Common(vs) = Over(ty, Over(po, pa))
  BY DEF Common
<1>3. /\ DOMAIN ty \subseteq {"type"} /\ DOMAIN po \subseteq {"positive"} /\ DOMAIN pa \subseteq {"pattern"}
      /\ (\E t \in Leaf : \A v \in vs : v.t = t) => "type" \in DOMAIN ty /\ ty["type"] = y.t
      /\ (\A v \in vs : IsPositive(v)) => "positive" \in DOMAIN po /\ po["positive"] = TRUE
      /\ (\A v \in vs : IsDate(v)) => "pattern" \in DOMAIN pa
  BY DEF Given, If
<1> HIDE DEF y, ty, po, pa
<1>4. /\ DOMAIN Over(po, pa) = DOMAIN po \cup DOMAIN pa
      /\ \A a \in DOMAIN po : Over(po, pa)[a] = po[a]
  BY OverFacts
<1>5. /\ DOMAIN Common(vs) = DOMAIN ty \cup (DOMAIN po \cup DOMAIN pa)
      /\ \A a \in DOMAIN ty : Common(vs)[a] = ty[a]
      /\ \A a \in DOMAIN po : Common(vs)[a] = po[a]
  <2>1. \A a \in DOMAIN po : a \in DOMAIN Over(po, pa) \ DOMAIN ty
    BY <1>3, <1>4
  <2> QED
    BY <1>2, <1>4, <2>1 DEF Over
<1> QED
  BY <1>1, <1>3, <1>5

\* A scalar that is not refused by what values have in common is like them.
LEMMA ScalarLike ==
  ASSUME NEW vs, NEW x \in vs, NEW c, NEW v, v.t # "null", ~ScalarFails(c, v),
         \A a \in DOMAIN Common(vs) : a \in DOMAIN c /\ c[a] = Common(vs)[a]
  PROVE  /\ \A t \in Leaf : (\A o \in vs : o.t = t) => v.t = t
         /\ (\A o \in vs : IsPositive(o)) => IsPositive(v)
         /\ (\A o \in vs : IsDate(o)) => IsDate(v)
<1>1. /\ "type" \in DOMAIN c => v.t = c["type"]
      /\ "positive" \in DOMAIN c /\ c["positive"] = TRUE /\ v.t = "number" => IsPositive(v)
      /\ "pattern" \in DOMAIN c /\ v.t = "string" => IsDate(v)
  BY DEF ScalarFails, Has, Set
<1>2. ASSUME NEW t \in Leaf, \A o \in vs : o.t = t PROVE v.t = t
  BY <1>1, <1>2, CommonFacts
<1>3. ASSUME \A o \in vs : IsPositive(o) PROVE IsPositive(v)
  <2>1. v.t = "number"
    <3>1. "number" \in Leaf /\ \A o \in vs : o.t = "number"
      BY <1>3 DEF IsPositive, Leaf
    <3> QED
      BY <1>2, <3>1
  <2> QED
    BY <1>1, <1>3, <2>1, CommonFacts
<1>4. ASSUME \A o \in vs : IsDate(o) PROVE IsDate(v)
  <2>1. v.t = "string"
    <3>1. "string" \in Leaf /\ \A o \in vs : o.t = "string"
      BY <1>4 DEF IsDate, Leaf
    <3> QED
      BY <1>2, <3>1
  <2> QED
    BY <1>1, <1>4, <2>1, CommonFacts
<1> QED
  BY <1>2, <1>3, <1>4

\* A value is like the learned one if the seed of that does not refuse it.
LEMMA SingleLike ==
  ASSUME NEW o, o.t \in Leaf, NEW c, Agree(c, SeedSingle(o)), NEW v, ~ScalarFails(c, v)
  PROVE  Like(o, v)
<1> DEFINE co == Common({o})
           nu == Given(TRUE, "nullable", FALSE)
<1>1. DOMAIN nu = {"nullable"} /\ nu["nullable"] = FALSE
  BY DEF Given, If
<1>2. SeedSingle(o) = Over(co, nu)
  BY DEF SeedSingle
<1>3. DOMAIN co \subseteq {"type", "positive", "pattern"}
  BY CommonFacts
<1> HIDE DEF co, nu
<1>4. /\ "nullable" \in DOMAIN c /\ c["nullable"] = FALSE
      /\ \A a \in DOMAIN co : a \in DOMAIN c /\ c[a] = co[a]
  <2>1. /\ DOMAIN Over(co, nu) = DOMAIN co \cup {"nullable"}
        /\ \A a \in DOMAIN co : Over(co, nu)[a] = co[a]
        /\ Over(co, nu)["nullable"] = FALSE
    BY <1>1, <1>3 DEF Over
  <2> QED
    BY <1>2, <2>1 DEF Agree
<1>5. v.t # "null"
  BY <1>4 DEF ScalarFails, Has, Set
<1>6. /\ \A t \in Leaf : (\A x \in {o} : x.t = t) => v.t = t
      /\ (\A x \in {o} : IsPositive(x)) => IsPositive(v)
      /\ (\A x \in {o} : IsDate(x)) => IsDate(v)
  BY <1>4, <1>5, ScalarLike DEF co
<1> QED
  BY <1>6 DEF Like

\* A column is like the learned one if the seed of that does not refuse it.
LEMMA ColumnLike ==
  ASSUME NEW vs, NEW ws, NEW n \in Nat, DOMAIN ws = 1..n, Len(ws) = n,
         NEW cut0 \in BOOLEAN, NEW cut1 \in BOOLEAN, NEW c, Agree(c, SeedItems(vs, cut0)),
         DOMAIN c # {} => ~ListFails(c, ws, cut1)
  PROVE  LikeColumn(vs, ws, cut0 \/ cut1)
<1> DEFINE there == {v \in Range(vs) : v.t # "null"}
           gone == {i \in DOMAIN ws : ws[i].t = "null"}
           nr == Given(~cut0, "null_rate_max", 20)
           co == Common(there)
<1> SUFFICES ASSUME NEW x \in there
             PROVE  /\ (cut0 \/ cut1) \/ Cardinality(gone) * 5 <= Len(ws)
                    /\ \A v \in {w \in Range(ws) : w.t # "null"} :
                         /\ \A t \in Leaf : (\A o \in there : o.t = t) => v.t = t
                         /\ (\A o \in there : IsPositive(o)) => IsPositive(v)
                         /\ (\A o \in there : IsDate(o)) => IsDate(v)
  BY DEF LikeColumn
<1>1. /\ DOMAIN nr \subseteq {"null_rate_max"}
      /\ ~cut0 => "null_rate_max" \in DOMAIN nr /\ nr["null_rate_max"] = 20
  BY DEF Given, If
<1>2. SeedItems(vs, cut0) = Over(nr, co)
  BY DEF SeedItems
<1>3. /\ DOMAIN co \subseteq {"type", "positive", "pattern"}
      /\ \A t \in Leaf : (\A o \in there : o.t = t) => "type" \in DOMAIN co
      /\ (\A o \in there : IsPositive(o)) => "positive" \in DOMAIN co
      /\ (\A o \in there : IsDate(o)) => "pattern" \in DOMAIN co
  <2> HIDE DEF there
  <2> QED
    BY CommonFacts
<1>4. Cardinality(gone) \in Nat
  <2>1. IsFiniteSet(1..n)
    BY FS_Interval
  <2>2. gone \subseteq 1..n
    OBVIOUS
  <2> QED
    BY <2>1, <2>2, FS_Subset, FS_CardinalityType
<1> HIDE DEF there, gone, nr, co
<1>5. /\ DOMAIN c = DOMAIN nr \cup DOMAIN co
      /\ \A a \in DOMAIN nr : c[a] = nr[a]
      /\ \A a \in DOMAIN co : c[a] = co[a]
  <2>1. \A a \in DOMAIN co : a \notin DOMAIN nr
    BY <1>1, <1>3
  <2> QED
    BY <1>2, <2>1 DEF Agree, Over
<1>6. ASSUME DOMAIN c # {}
      PROVE  /\ ~cut1 => Cardinality(gone) * 100 <= Set(c, "null_rate_max", 100) * Len(ws)
             /\ \A i \in DOMAIN ws : ~ScalarFails(c, ws[i])
  <2>1. ~ListFails(c, ws, cut1)
    BY <1>6
  <2>2. /\ ~(~cut1 /\ Cardinality(gone) * 100 > Set(c, "null_rate_max", 100) * Len(ws))
        /\ \A i \in DOMAIN ws : ~ScalarFails(c, ws[i])
    BY <2>1 DEF ListFails, gone
  <2>3. ASSUME ~cut1, Set(c, "null_rate_max", 100) \in Nat
        PROVE  Cardinality(gone) * 100 <= Set(c, "null_rate_max", 100) * Len(ws)
    BY <1>4, <2>2, <2>3
  <2>4. Set(c, "null_rate_max", 100) \in Nat
    <3>1. "null_rate_max" \in DOMAIN c => "null_rate_max" \in DOMAIN nr /\ ~cut0
      BY <1>3, <1>5 DEF nr, Given, If
    <3> QED
      BY <1>1, <1>5, <3>1 DEF Set, Has
  <2> QED
    BY <2>2, <2>3, <2>4
<1>7. ASSUME ~cut0, ~cut1
      PROVE  Cardinality(gone) * 5 <= Len(ws)
  <2>1. "null_rate_max" \in DOMAIN c /\ c["null_rate_max"] = 20
    BY <1>1, <1>5, <1>7
  <2>2. Cardinality(gone) * 100 <= 20 * Len(ws)
    BY <1>6, <1>7, <2>1 DEF Set, Has
  <2> QED
    BY <1>4, <2>2
<1>8. ASSUME NEW v \in Range(ws), v.t # "null"
      PROVE  /\ \A t \in Leaf : (\A o \in there : o.t = t) => v.t = t
             /\ (\A o \in there : IsPositive(o)) => IsPositive(v)
             /\ (\A o \in there : IsDate(o)) => IsDate(v)
  <2>1. CASE DOMAIN c = {}
    BY <1>3, <1>5, <2>1
  <2>2. CASE DOMAIN c # {}
    <3>1. PICK i \in DOMAIN ws : v = ws[i]
      BY <1>8 DEF Range
    <3>2. ~ScalarFails(c, v)
      BY <1>6, <2>2, <3>1
    <3>3. \A a \in DOMAIN Common(there) : a \in DOMAIN c /\ c[a] = Common(there)[a]
      BY <1>5 DEF co
    <3> QED
      BY <1>8, <3>2, <3>3, ScalarLike
  <2> QED
    BY <2>1, <2>2
<1> QED
  BY <1>7, <1>8

LEMMA PathFacts ==
  /\ Root # Item /\ Root[1] # "item" /\ Root[1] # "key" /\ Item[1] = "item"
  /\ \A k : /\ ItemKey(k) # Root /\ ItemKey(k) # Item /\ ItemKey(k)[1] = "item" /\ ItemKey(k)[2] = k
            /\ Key(k)[1] = "key" /\ Key(k)[2] = k
BY DEF Root, Item, ItemKey, Key

\* The check of a path that a human left free.
LEMMA FreePath ==
  ASSUME NEW old, NEW new, NEW overlay, ~Violates(Effective(Seed(old), overlay), new),
         NEW p \in DOMAIN Contracts(old), p \notin DOMAIN overlay,
         DOMAIN Contracts(old)[p] # {}, "enabled" \notin DOMAIN Contracts(old)[p]
  PROVE  \E c : Agree(c, Contracts(old)[p]) /\ ~PathFails(p, c, new)
<1> DEFINE k == Contracts(old)
           eff == Effective(Seed(old), overlay)
<1>1. k[p] # NoChecks
  BY DEF NoChecks
<1>2. p \in DOMAIN Seed(old) /\ Seed(old)[p] = k[p]
  BY <1>1 DEF Seed, Restrict
<1>3. p \in DOMAIN eff /\ eff[p] = Over(NoChecks, k[p])
  BY <1>2 DEF Effective, At
<1>4. Agree(eff[p], k[p])
  <2>1. DOMAIN NoChecks = {}
    BY DEF NoChecks
  <2> QED
    BY <1>3, <2>1 DEF Agree, Over
<1>5. Set(eff[p], "enabled", TRUE)
  BY <1>4 DEF Set, Has, Agree
<1>6. ~PathFails(p, eff[p], new)
  BY <1>3, <1>5 DEF Violates
<1> QED
  BY <1>4, <1>6

LEMMA SeedDomains ==
  ASSUME NEW vs, NEW cut, NEW v
  PROVE  "enabled" \notin DOMAIN SeedItems(vs, cut) /\ "enabled" \notin DOMAIN SeedSingle(v)
<1>1. ASSUME NEW ws, NEW w \in ws PROVE "enabled" \notin DOMAIN Common(ws)
  <2>1. DOMAIN Common(ws) \subseteq {"type", "positive", "pattern"}
    BY CommonFacts
  <2> QED
    BY <2>1
<1>2. "enabled" \notin DOMAIN SeedItems(vs, cut)
  <2> DEFINE there == {x \in Range(vs) : x.t # "null"}
             nr == Given(~cut, "null_rate_max", 20)
  <2>1. CASE there = {}
    BY <2>1 DEF SeedItems, NoChecks
  <2>2. CASE there # {}
    <3>1. "enabled" \notin DOMAIN nr
      BY DEF Given, If
    <3>2. "enabled" \notin DOMAIN Common(there)
      BY <1>1, <2>2
    <3>3. SeedItems(vs, cut) = Over(nr, Common(there))
      BY <2>2 DEF SeedItems
    <3> HIDE DEF nr, there
    <3> QED
      BY <3>1, <3>2, <3>3 DEF Over
  <2> QED
    BY <2>1, <2>2
<1>3. "enabled" \notin DOMAIN SeedSingle(v)
  <2> DEFINE nu == Given(TRUE, "nullable", FALSE)
  <2>1. CASE v.t \notin Leaf
    BY <2>1 DEF SeedSingle, NoChecks
  <2>2. CASE v.t \in Leaf
    <3>1. "enabled" \notin DOMAIN nu
      BY DEF Given, If
    <3>2. "enabled" \notin DOMAIN Common({v})
      BY <1>1
    <3>3. SeedSingle(v) = Over(Common({v}), nu)
      BY <2>2 DEF SeedSingle
    <3> HIDE DEF nu
    <3> QED
      BY <3>1, <3>2, <3>3 DEF Over
  <2> QED
    BY <2>1, <2>2
<1> QED
  BY <1>2, <1>3

LEMMA SingleNotEmpty ==
  ASSUME NEW v, v.t \in Leaf
  PROVE  DOMAIN SeedSingle(v) # {}
<1> DEFINE nu == Given(TRUE, "nullable", FALSE)
<1>1. "nullable" \in DOMAIN nu
  BY DEF Given, If
<1>2. SeedSingle(v) = Over(Common({v}), nu)
  BY DEF SeedSingle
<1> HIDE DEF nu
<1> QED
  BY <1>1, <1>2 DEF Over

LEMMA ArrayPaths ==
  ASSUME NEW e, e.value.t = "array"
  PROVE  LET a == e.value.a
             floor == CountFloor(Len(a), e.cut)
             c == Contracts(e)
         IN /\ Root \in DOMAIN c /\ c[Root] = Given(floor > 0, "min_count", floor)
            /\ AllOf(a, Leaf \cup {"null"}) => Item \in DOMAIN c /\ c[Item] = SeedItems(a, e.cut)
            /\ AllOf(a, {"object"}) =>
                 \A k \in UNION {DOMAIN a[i].f : i \in DOMAIN a} :
                   ItemKey(k) \in DOMAIN c /\ c[ItemKey(k)] = SeedItems(Column(a, k), e.cut)
<1> DEFINE a == e.value.a
           floor == CountFloor(Len(a), e.cut)
           keys == UNION {DOMAIN a[i].f : i \in DOMAIN a}
           root == Given(TRUE, Root, Given(floor > 0, "min_count", floor))
           item == Given(AllOf(a, Leaf \cup {"null"}), Item, SeedItems(a, e.cut))
           rest == [p \in {ItemKey(k) : k \in IF AllOf(a, {"object"}) THEN keys ELSE {}} |->
                      SeedItems(Column(a, p[2]), e.cut)]
<1>1. Contracts(e) = Over(root, Over(item, rest))
  BY DEF Contracts
<1>2. DOMAIN root = {Root} /\ root[Root] = Given(floor > 0, "min_count", floor)
  <2> DEFINE g == Given(floor > 0, "min_count", floor)
  <2> HIDE DEF g
  <2>1. DOMAIN Given(TRUE, Root, g) = {Root} /\ Given(TRUE, Root, g)[Root] = g
    BY DEF Given, If
  <2> QED
    BY <2>1 DEF g
<1>3. /\ DOMAIN item \subseteq {Item}
      /\ AllOf(a, Leaf \cup {"null"}) => Item \in DOMAIN item /\ item[Item] = SeedItems(a, e.cut)
  <2> DEFINE ok == AllOf(a, Leaf \cup {"null"})
             g == SeedItems(a, e.cut)
  <2> HIDE DEF ok, g
  <2>1. DOMAIN Given(ok, Item, g) \subseteq {Item} /\ (ok => Item \in DOMAIN Given(ok, Item, g) /\ Given(ok, Item, g)[Item] = g)
    BY DEF Given, If
  <2> QED
    BY <2>1 DEF ok, g
<1>4. AllOf(a, {"object"}) =>
        \A k \in keys : ItemKey(k) \in DOMAIN rest /\ rest[ItemKey(k)] = SeedItems(Column(a, k), e.cut)
  BY PathFacts
<1>5. /\ Root # Item /\ \A k : ItemKey(k) # Root /\ ItemKey(k) # Item
  BY PathFacts
<1> HIDE DEF root, item, rest
<1>6. /\ DOMAIN Over(item, rest) = DOMAIN item \cup DOMAIN rest
      /\ \A x \in DOMAIN item : Over(item, rest)[x] = item[x]
      /\ \A x \in DOMAIN rest \ DOMAIN item : Over(item, rest)[x] = rest[x]
  BY OverFacts
<1>7. /\ DOMAIN Contracts(e) = DOMAIN root \cup (DOMAIN item \cup DOMAIN rest)
      /\ \A x \in DOMAIN root : Contracts(e)[x] = root[x]
      /\ \A x \in DOMAIN item \ DOMAIN root : Contracts(e)[x] = item[x]
      /\ \A x \in DOMAIN rest \ (DOMAIN item \cup DOMAIN root) : Contracts(e)[x] = rest[x]
  BY <1>1, <1>6 DEF Over
<1>8. Root \in DOMAIN Contracts(e) /\ Contracts(e)[Root] = Given(floor > 0, "min_count", floor)
  BY <1>2, <1>7
<1>9. AllOf(a, Leaf \cup {"null"}) => Item \in DOMAIN Contracts(e) /\ Contracts(e)[Item] = SeedItems(a, e.cut)
  BY <1>2, <1>3, <1>5, <1>7
<1>10. ASSUME AllOf(a, {"object"}), NEW k \in keys
       PROVE  ItemKey(k) \in DOMAIN Contracts(e) /\ Contracts(e)[ItemKey(k)] = SeedItems(Column(a, k), e.cut)
  BY <1>2, <1>3, <1>4, <1>5, <1>7, <1>10
<1> QED
  BY <1>8, <1>9, <1>10

LEMMA ReadFacts ==
  ASSUME NEW e \in Reads
  PROVE  /\ e.cut \in BOOLEAN
         /\ e.value.t \in {"number", "string", "null", "object", "array"}
         /\ e.value.t = "array" =>
              /\ Len(e.value.a) \in Nat /\ DOMAIN e.value.a = 1..Len(e.value.a)
              /\ e.value.a # <<>> => Len(e.value.a) >= 1
<1>1. e.value.t = "array" => e.value.a \in Seq(Range(e.value.a))
  BY ReviewAssumption
<1> QED
  BY <1>1, ReviewAssumption

\* A column of a list of objects.
LEMMA ColumnFacts ==
  ASSUME NEW a, NEW n \in Nat, DOMAIN a = 1..n, NEW k
  PROVE  DOMAIN Column(a, k) = 1..n /\ Len(Column(a, k)) = n
BY DEF Column

LEMMA ScalarPlausible ==
  ASSUME NEW old \in Reads, NEW new \in Reads, NEW overlay,
         ~Violates(Effective(Seed(old), overlay), new), new.value.t = old.value.t,
         old.value.t \in Leaf, Root \notin DOMAIN overlay
  PROVE  Like(old.value, new.value)
<1>1. Contracts(old) = Given(TRUE, Root, SeedSingle(old.value))
  BY DEF Contracts, Leaf
<1>2. Root \in DOMAIN Contracts(old) /\ Contracts(old)[Root] = SeedSingle(old.value)
  <2>1. \A at, value : at \in DOMAIN Given(TRUE, at, value) /\ Given(TRUE, at, value)[at] = value
    BY DEF Given, If
  <2> QED
    BY ONLY <1>1, <2>1
<1>3. PICK c : Agree(c, SeedSingle(old.value)) /\ ~PathFails(Root, c, new)
  BY <1>2, FreePath, SeedDomains, SingleNotEmpty
<1>4. ~ScalarFails(c, new.value)
  BY <1>3, PathFacts DEF PathFails, Leaf
<1> QED
  BY <1>3, <1>4, SingleLike

LEMMA ObjectPlausible ==
  ASSUME NEW old \in Reads, NEW new \in Reads, NEW overlay,
         ~Violates(Effective(Seed(old), overlay), new), new.value.t = "object", old.value.t = "object",
         NEW k \in DOMAIN old.value.f, k \in DOMAIN new.value.f, old.value.f[k].t \in Leaf,
         Key(k) \notin DOMAIN overlay
  PROVE  Like(old.value.f[k], new.value.f[k])
<1>1. Contracts(old) = [p \in {Key(j) : j \in DOMAIN old.value.f} |-> SeedSingle(old.value.f[p[2]])]
  BY DEF Contracts
<1>2. /\ Key(k) \in DOMAIN Contracts(old)
      /\ Contracts(old)[Key(k)] = SeedSingle(old.value.f[k])
  BY <1>1, PathFacts
<1>3. PICK c : Agree(c, SeedSingle(old.value.f[k])) /\ ~PathFails(Key(k), c, new)
  BY <1>2, FreePath, SeedDomains, SingleNotEmpty
<1>4. ~ScalarFails(c, new.value.f[k])
  BY <1>3, PathFacts DEF PathFails
<1> QED
  BY <1>3, <1>4, SingleLike

\* The floor is half of the sample's items, rounded down.
LEMMA FloorFacts ==
  ASSUME NEW n \in Nat, n >= 1, NEW cut, ~cut
  PROVE  /\ CountFloor(n, cut) \in Nat /\ CountFloor(n, cut) > 0
         /\ n >= 5 => n <= 2 * CountFloor(n, cut) + 1
<1>1. CountFloor(n, cut) = IF n >= 5 THEN n \div 2 ELSE 1
  BY DEF CountFloor
<1>2. CASE n >= 5
  <2>1. PICK h \in Nat : n = 2 * h \/ n = 2 * h + 1
    <3> DEFINE h == n \div 2
    <3>1. h \in Nat /\ 2 * h <= n /\ n < 2 * h + 2
      BY SMT
    <3> QED
      BY <3>1
  <2>2. n \div 2 = h
    BY <2>1, SMT
  <2> QED
    BY <1>1, <1>2, <2>1, <2>2
<1>3. CASE ~(n >= 5)
  BY <1>1, <1>3
<1> QED
  BY <1>2, <1>3

LEMMA CountPlausible ==
  ASSUME NEW old \in Reads, NEW new \in Reads, NEW overlay,
         ~Violates(Effective(Seed(old), overlay), new), new.value.t = "array", old.value.t = "array",
         Root \notin DOMAIN overlay, ~old.cut, old.value.a # <<>>
  PROVE  /\ new.value.a # <<>>
         /\ Len(old.value.a) >= 5 => 2 * Len(new.value.a) + 1 >= Len(old.value.a)
<1> DEFINE n == Len(old.value.a)
           m == Len(new.value.a)
           floor == CountFloor(n, old.cut)
           g == Given(floor > 0, "min_count", floor)
<1>1. n \in Nat /\ n >= 1 /\ m \in Nat
  BY ReadFacts
<1>2. floor \in Nat /\ floor > 0 /\ (n >= 5 => n <= 2 * floor + 1)
  BY <1>1, FloorFacts
<1>3. Root \in DOMAIN Contracts(old) /\ Contracts(old)[Root] = g
  BY ArrayPaths
<1> HIDE DEF n, m, floor
<1>4. DOMAIN g = {"min_count"} /\ g["min_count"] = floor
  BY <1>2 DEF Given, If
<1> HIDE DEF g
<1>5. PICK c : Agree(c, g) /\ ~PathFails(Root, c, new)
  BY <1>3, <1>4, FreePath
<1>6. "min_count" \in DOMAIN c /\ c["min_count"] = floor
  BY <1>4, <1>5 DEF Agree
<1>7. ~ListFails(c, new.value.a, new.cut)
  BY <1>5, <1>6, PathFacts DEF PathFails, Has
<1>8. ~(m < floor)
  BY <1>6, <1>7 DEF ListFails, Set, Has, m
<1>9. m >= 1 /\ (n >= 5 => 2 * m + 1 >= n)
  BY <1>1, <1>2, <1>8
<1> QED
  BY <1>9 DEF n, m

LEMMA ItemsPlausible ==
  ASSUME NEW old \in Reads, NEW new \in Reads, NEW overlay,
         ~Violates(Effective(Seed(old), overlay), new), new.value.t = "array", old.value.t = "array",
         AllOf(old.value.a, Leaf \cup {"null"}), Item \notin DOMAIN overlay
  PROVE  LikeColumn(old.value.a, new.value.a, old.cut \/ new.cut)
<1> DEFINE s == SeedItems(old.value.a, old.cut)
<1>1. Item \in DOMAIN Contracts(old) /\ Contracts(old)[Item] = s
  BY ArrayPaths
<1>2. PICK c : Agree(c, s) /\ (DOMAIN c # {} => ~PathFails(Item, c, new))
  <2>1. CASE DOMAIN s = {}
    BY <2>1 DEF Agree
  <2>2. CASE DOMAIN s # {}
    BY <1>1, <2>2, FreePath, SeedDomains
  <2> QED
    BY <2>1, <2>2
<1>3. DOMAIN c # {} => ~ListFails(c, new.value.a, new.cut)
  BY <1>2, PathFacts DEF PathFails
<1>4. /\ Len(new.value.a) \in Nat /\ DOMAIN new.value.a = 1..Len(new.value.a)
      /\ old.cut \in BOOLEAN /\ new.cut \in BOOLEAN
  BY ReadFacts
<1> QED
  BY <1>2, <1>3, <1>4, ColumnLike

LEMMA RowsPlausible ==
  ASSUME NEW old \in Reads, NEW new \in Reads, NEW overlay,
         ~Violates(Effective(Seed(old), overlay), new), new.value.t = "array", old.value.t = "array",
         AllOf(old.value.a, {"object"}), NEW k \in DOMAIN old.value.a[1].f, ItemKey(k) \notin DOMAIN overlay,
         NEW x \in {v \in Range(Column(old.value.a, k)) : v.t # "null"}
  PROVE  LET there == {v \in Range(Column(old.value.a, k)) : v.t # "null"} IN
         /\ ~old.cut \/ (\E t \in Leaf : \A v \in there : v.t = t) =>
              \A i \in DOMAIN new.value.a : new.value.a[i].t = "object"
         /\ LikeColumn(Column(old.value.a, k), Column(new.value.a, k), old.cut \/ new.cut)
<1> DEFINE col == Column(old.value.a, k)
           there == {v \in Range(col) : v.t # "null"}
           s == SeedItems(col, old.cut)
           ws == Column(new.value.a, k)
<1>1. /\ Len(new.value.a) \in Nat /\ DOMAIN new.value.a = 1..Len(new.value.a)
      /\ Len(old.value.a) \in Nat /\ DOMAIN old.value.a = 1..Len(old.value.a)
      /\ old.value.a # <<>> => Len(old.value.a) >= 1
      /\ old.cut \in BOOLEAN /\ new.cut \in BOOLEAN
  BY ReadFacts
<1>2. k \in UNION {DOMAIN old.value.a[i].f : i \in DOMAIN old.value.a}
  <2>1. 1 \in DOMAIN old.value.a
    BY <1>1 DEF AllOf
  <2> QED
    BY <2>1
<1>3. ItemKey(k) \in DOMAIN Contracts(old) /\ Contracts(old)[ItemKey(k)] = s
  BY <1>2, ArrayPaths
<1>4. PICK c : Agree(c, s) /\ (DOMAIN c # {} => ~PathFails(ItemKey(k), c, new))
  <2>1. CASE DOMAIN s = {}
    BY <2>1 DEF Agree
  <2>2. CASE DOMAIN s # {}
    BY <1>3, <2>2, FreePath, SeedDomains
  <2> QED
    BY <2>1, <2>2
<1>5. DOMAIN c # {} => /\ \A i \in DOMAIN new.value.a : new.value.a[i].t = "object"
                       /\ ~ListFails(c, ws, new.cut)
  BY <1>4, PathFacts DEF PathFails
<1>6. LikeColumn(col, ws, old.cut \/ new.cut)
  <2>1. DOMAIN ws = 1..Len(new.value.a) /\ Len(ws) = Len(new.value.a)
    BY <1>1, ColumnFacts
  <2> HIDE DEF col, ws
  <2> QED
    BY <1>1, <1>4, <1>5, <2>1, ColumnLike
<1>7. ASSUME ~old.cut \/ (\E t \in Leaf : \A v \in there : v.t = t)
      PROVE  DOMAIN c # {}
  <2> DEFINE nr == Given(~old.cut, "null_rate_max", 20)
             co == Common(there)
  <2>1. s = Over(nr, co)
    BY DEF SeedItems
  <2>2. ~old.cut => "null_rate_max" \in DOMAIN nr
    BY DEF Given, If
  <2>3. (\E t \in Leaf : \A v \in there : v.t = t) => "type" \in DOMAIN co
    <3> HIDE DEF there
    <3> QED
      BY CommonFacts DEF there
  <2> HIDE DEF nr, co, s
  <2>4. DOMAIN s = DOMAIN nr \cup DOMAIN co
    BY <2>1 DEF Over
  <2> QED
    BY <1>4, <1>7, <2>2, <2>3, <2>4 DEF Agree
<1> QED
  BY <1>5, <1>6, <1>7

\* What has the shape of a sample and passes its contracts may be returned in its place.
LEMMA ChecksAreEnough ==
  ASSUME NEW old \in Reads, NEW new \in Reads, NEW overlay,
         ~Violates(Effective(Seed(old), overlay), new), ShapeMatches(old.value, new.value)
  PROVE  Plausible(old, new, overlay)
<1>1. /\ new.value.t = old.value.t
      /\ old.value.t = "object" => DOMAIN new.value.f = DOMAIN old.value.f
  BY DEF ShapeMatches, Flat
<1>2. old.value.t \in Leaf /\ Root \notin DOMAIN overlay => Like(old.value, new.value)
  BY <1>1, ScalarPlausible
<1>3. old.value.t = "object" =>
        \A k \in DOMAIN old.value.f :
          old.value.f[k].t \in Leaf /\ Key(k) \notin DOMAIN overlay => Like(old.value.f[k], new.value.f[k])
  BY <1>1, ObjectPlausible
<1>4. ASSUME old.value.t = "array"
      PROVE  /\ Root \notin DOMAIN overlay /\ ~old.cut /\ old.value.a # <<>> =>
                  /\ new.value.a # <<>>
                  /\ Len(old.value.a) >= 5 => 2 * Len(new.value.a) + 1 >= Len(old.value.a)
             /\ AllOf(old.value.a, Leaf \cup {"null"}) /\ Item \notin DOMAIN overlay =>
                  LikeColumn(old.value.a, new.value.a, old.cut \/ new.cut)
             /\ AllOf(old.value.a, {"object"}) =>
                  \A k \in DOMAIN old.value.a[1].f :
                    LET there == {v \in Range(Column(old.value.a, k)) : v.t # "null"} IN
                    ItemKey(k) \notin DOMAIN overlay /\ there # {} =>
                      /\ ~old.cut \/ (\E t \in Leaf : \A v \in there : v.t = t) =>
                           \A i \in DOMAIN new.value.a : new.value.a[i].t = "object"
                      /\ LikeColumn(Column(old.value.a, k), Column(new.value.a, k), old.cut \/ new.cut)
  <2>1. Root \notin DOMAIN overlay /\ ~old.cut /\ old.value.a # <<>> =>
          /\ new.value.a # <<>>
          /\ Len(old.value.a) >= 5 => 2 * Len(new.value.a) + 1 >= Len(old.value.a)
    BY <1>1, <1>4, CountPlausible
  <2>2. AllOf(old.value.a, Leaf \cup {"null"}) /\ Item \notin DOMAIN overlay =>
          LikeColumn(old.value.a, new.value.a, old.cut \/ new.cut)
    BY <1>1, <1>4, ItemsPlausible
  <2>3. ASSUME AllOf(old.value.a, {"object"}), NEW k \in DOMAIN old.value.a[1].f,
               ItemKey(k) \notin DOMAIN overlay,
               NEW x \in {v \in Range(Column(old.value.a, k)) : v.t # "null"}
        PROVE  LET there == {v \in Range(Column(old.value.a, k)) : v.t # "null"} IN
               /\ ~old.cut \/ (\E t \in Leaf : \A v \in there : v.t = t) =>
                    \A i \in DOMAIN new.value.a : new.value.a[i].t = "object"
               /\ LikeColumn(Column(old.value.a, k), Column(new.value.a, k), old.cut \/ new.cut)
    BY <1>1, <1>4, <2>3, RowsPlausible
  <2> QED
    BY <2>1, <2>2, <2>3
<1> QED
  BY <1>1, <1>2, <1>3, <1>4 DEF Plausible

\* approve and the gates of replay (flows.py:2135, 3479, 3278): what an approved flow
\* returns was read by what a human said yes to, and is like the sample that was behind it
\* then; a declared write runs approved.
THEOREM ReturnsAreReviewed == ReviewSpec => []ReturnsAsReviewed
<1>1. ReviewIInv => ReturnsAsReviewed
  <2> SUFFICES ASSUME ReviewIInv, NEW e \in Reads, Returns(e)
               PROVE  /\ spec.declared => approved
                      /\ approved => \A b \in blessed :
                           /\ Binding = {b.binding}
                           /\ ~spec.declared =>
                                \A s \in b.baseline : s.declared \/ Plausible(s.read, e, b.binding.overlay)
    BY DEF ReturnsAsReviewed
  <2>1. (spec.declared => approved) /\ (approved => bound = Binding)
    BY DEF Returns, Reaches, Refuses
  <2>2. ASSUME approved, NEW b \in blessed
        PROVE  Binding = {b.binding} /\ b.baseline = baseline /\ b.binding.overlay = spec.overlay
    <3>1. Binding = {b.binding} /\ b.baseline = baseline
      BY <2>1, <2>2 DEF ReviewIInv
    <3>2. \A x \in Binding : x.overlay = spec.overlay
      BY DEF Binding
    <3> QED
      BY <3>1, <3>2
  <2>3. ASSUME ~spec.declared, NEW s \in baseline, ~s.declared
        PROVE  Plausible(s.read, e, spec.overlay)
    <3>1. Seeded = {s}
      BY <2>3 DEF Seeded, ReviewIInv
    <3>2. (CHOOSE b \in Seeded : TRUE) = s /\ Seeded # {}
      BY <3>1
    <3>3. ~Violates(Effective(Seed(s.read), spec.overlay), e)
      BY <2>3, <3>2 DEF Returns, Wrong
    <3>4. ShapeMatches(s.read.value, e.value)
      BY DEF Returns, Reaches, ShapeDrifts
    <3>5. s.read \in Reads
      BY DEF ReviewIInv
    <3> QED
      BY <3>3, <3>4, <3>5, ChecksAreEnough
  <2> QED
    BY <2>1, <2>2, <2>3
<1> QED
  BY <1>1, ReviewInvariance, PTL
=================================================================================
