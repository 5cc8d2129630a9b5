------------------------------ MODULE WriteReplay ------------------------------
(***************************************************************************)
(* One call of replay(): the idempotency precheck, the replay of the       *)
(* recipe step by step with its commit barriers, the whole-flow confirm,   *)
(* the verdict on the attempt, and the one retry after an auth refresh.    *)
(* The target performs a request now, later or never, and shows the        *)
(* signals of its completion or does not.  A recipe step really writes, or *)
(* is only marked as writing (the keyword classifier guessed), or reads.   *)
(*                                                                         *)
(* replay() with no provider: nothing is healed or replanned.              *)
(***************************************************************************)
EXTENDS Naturals, FiniteSets

CONSTANTS
  N,       \* the length of a recipe
  Flows,   \* the flows a call may be of
  Faults   \* what may go wrong

Kinds == {"read", "write", "keyword"}

AllFaults ==
  {"later",  \* a request that left the browser is performed when nobody waits
   "blind",  \* the precheck does not see a write that was performed
   "raise"}  \* an attempt ends in an exception that is no FlowReplayError

\* A FlowSpec and its cached recipe, as far as a pre-flight lets them through.
FlowType ==
  [steps : [1..N -> Kinds],   \* what each recorded step does
   commit : 1..N,             \* the write the whole-flow confirm and precheck are of
   declared : BOOLEAN,        \* spec.write.declares_write
   barriers : SUBSET (1..N),  \* the steps with a confirm of their own
   precheck : BOOLEAN,        \* spec.write.declares_precheck
   login : BOOLEAN,           \* auth_refresh and spec.login
   params : BOOLEAN,          \* replay(params = ...)
   extract : BOOLEAN]         \* spec.extract

MarkedIn(f) == {s \in 1..N : f.steps[s] # "read"}
WritesIn(f) == {s \in 1..N : f.steps[s] = "write"}

ASSUME LengthAssumption == N \in Nat \ {0}
ASSUME FlowsAssumption ==
  /\ Flows \subseteq FlowType
  /\ \A f \in Flows :
       /\ f.declared => f.commit \in WritesIn(f)
       /\ f.precheck => f.declared /\ ~f.params
       /\ f.barriers \subseteq IF f.declared THEN MarkedIn(f) ELSE {}
ASSUME FaultsAssumption == Faults \subseteq AllFaults

VARIABLES
  flow,       \* the flow of this call
  earlier,    \* external: its write was performed before this call
  performed,  \* external: how often this call had each step's write performed
  inflight,   \* external: requests sent and not yet performed
  missed,     \* history: a retry's precheck said no to a write already sent
  shown,      \* the steps whose completion signal is on the page
  pc,
  attempt,    \* 1, or 2 after the auth refresh
  at,         \* the step the attempt is at
  ok,         \* the steps it ran ok
  pre,        \* pre_confirm of the step it is at
  base,       \* out["_pre_confirm"]
  confirmed,  \* what finalize found
  landed,     \* landed_any
  committed,  \* committed_any
  kind,       \* why the last attempt failed
  answer,     \* what the call returned or raised
  armed       \* exc.landed

world == <<earlier, performed, inflight, missed, shown>>
tried == <<attempt, at, ok, pre, base>>
verdict == <<confirmed, landed, committed, kind>>
ending == <<answer, armed>>
vars == <<flow, world, pc, tried, verdict, ending>>

Marked == MarkedIn(flow)
Writes == WritesIn(flow)
Commit == flow.commit

Sent(s) == performed[s] + inflight[s]

Init ==
  /\ flow \in Flows
  /\ earlier \in BOOLEAN
  /\ performed = [s \in 1..N |-> 0]
  /\ inflight = [s \in 1..N |-> 0]
  /\ missed = FALSE
  /\ shown = {}
  /\ pc = "precheck"
  /\ attempt = 1
  /\ at = 1
  /\ ok = {}
  /\ pre = FALSE
  /\ base = "none"
  /\ confirmed = FALSE
  /\ landed = FALSE
  /\ committed = FALSE
  /\ kind = "none"
  /\ answer = "none"
  /\ armed = FALSE

\* The call ends.
Return(a) ==
  /\ pc' = "done"
  /\ answer' = a
  /\ armed' = FALSE

\* A FlowReplayError: the write-landed evidence is stamped on it here.
Fail(k) ==
  /\ pc' = "done"
  /\ answer' = k
  /\ armed' = (landed' \/ k = "write_unreadable")

Failures == {"drift", "escalate", "write_unverified", "write_unreadable", "shape", "quarantine"}

-------------------------------------------------------------------------------
(* _precheck_done                                                          *)

Done == earlier \/ performed[Commit] > 0

PrecheckYes ==
  /\ pc = "precheck"
  /\ flow.precheck
  /\ Done
  /\ Return("already-done")
  /\ UNCHANGED <<flow, world, tried, verdict>>

PrecheckNo ==
  /\ pc = "precheck"
  /\ flow.precheck
  /\ ~Done \/ "blind" \in Faults
  /\ pc' = "open"
  /\ missed' = (missed \/ Sent(Commit) > 0)
  /\ UNCHANGED <<flow, earlier, performed, inflight, shown, tried, verdict, ending>>

NoPrecheck ==
  /\ pc = "precheck"
  /\ ~flow.precheck
  /\ pc' = "open"
  /\ UNCHANGED <<flow, world, tried, verdict, ending>>

-------------------------------------------------------------------------------
(* The attempt, step by step.                                              *)

\* A new browser session, on a page that may still show an earlier outcome.
OpenSession ==
  /\ pc = "open"
  /\ shown' \in SUBSET Marked
  /\ at' = 1
  /\ ok' = {}
  /\ base' = "none"
  /\ confirmed' = FALSE
  /\ pc' = "step"
  /\ UNCHANGED <<flow, earlier, performed, inflight, missed, attempt, pre,
                 landed, committed, kind, ending>>

\* Fault: nobody looks whether the whole-flow confirm was there before.
BaselineUnseen ==
  /\ pc = "step"
  /\ at \in Marked
  /\ pre' = (at \in flow.barriers \cap shown)
  /\ base' = IF flow.declared THEN "absent" ELSE base
  /\ pc' = "gate"
  /\ UNCHANGED <<flow, world, attempt, at, ok, verdict, ending>>

\* Before a marked step: its own signal is looked for, and, once per attempt,
\* the whole-flow confirm (the pre_write hook of a declared write).
Baseline ==
  /\ pc = "step"
  /\ at \in Marked
  /\ pre' = (at \in flow.barriers \cap shown)
  /\ base' = IF ~flow.declared \/ base # "none" THEN base
             ELSE IF Commit \in shown THEN "present" ELSE "absent"
  /\ pc' = "gate"
  /\ UNCHANGED <<flow, world, attempt, at, ok, verdict, ending>>

\* The mutation gate: the page is not the one the step was approved on.
GateRefuses ==
  /\ pc = "gate"
  /\ pc' = "finalize"
  /\ UNCHANGED <<flow, world, tried, verdict, ending>>

\* What the request of step s comes to: never performed, performed with or
\* without its signal, or left in flight.  The page may drop earlier signals.
Request(s) ==
  \E kept \in {shown, {}} :
    \/ /\ shown' = kept
       /\ UNCHANGED <<performed, inflight>>
    \/ /\ s \in Writes
       /\ performed' = [performed EXCEPT ![s] = @ + 1]
       /\ shown' \in {kept, kept \cup {s}}
       /\ UNCHANGED inflight
    \/ /\ s \in Writes
       /\ "later" \in Faults
       /\ inflight' = [inflight EXCEPT ![s] = @ + 1]
       /\ shown' = kept
       /\ UNCHANGED performed

Acts ==
  /\ \/ pc = "step" /\ at \in 1..N \ Marked
     \/ pc = "gate"
  /\ Request(at)
  /\ UNCHANGED <<flow, earlier, missed, attempt, pre, base, verdict, ending>>

StepDone ==
  /\ ok' = ok \cup {at}
  /\ at' = at + 1
  /\ pc' = "step"

ActOk ==
  /\ Acts
  /\ \/ /\ at \in flow.barriers
        /\ pc' = "barrier"
        /\ UNCHANGED <<at, ok>>
     \/ /\ at \notin flow.barriers
        /\ StepDone

\* The action raised: its request may have left all the same.  Nothing heals a
\* step without a provider, and the loop stops at the first failure.
ActFails ==
  /\ Acts
  /\ pc' = "finalize"
  /\ UNCHANGED <<at, ok>>

\* Fault: a signal that was there all along passes the barrier.
BarrierOnPresence ==
  /\ pc = "barrier"
  /\ IF at \in shown THEN StepDone ELSE pc' = "finalize" /\ UNCHANGED <<at, ok>>
  /\ UNCHANGED <<flow, world, attempt, pre, base, verdict, ending>>

\* The commit barrier: the step's signal was not there before and is now.
Barrier ==
  /\ pc = "barrier"
  /\ IF ~pre /\ at \in shown THEN StepDone ELSE pc' = "finalize" /\ UNCHANGED <<at, ok>>
  /\ UNCHANGED <<flow, world, attempt, pre, base, verdict, ending>>

EndOfRecipe ==
  /\ pc = "step"
  /\ at > N
  /\ pc' = "finalize"
  /\ UNCHANGED <<flow, world, tried, verdict, ending>>

\* Fault: the confirm is met by a signal that was there all along.
FinalizeOnPresence ==
  /\ pc = "finalize"
  /\ confirmed' = (flow.declared /\ Commit \in shown)
  /\ pc' = "judge"
  /\ UNCHANGED <<flow, world, tried, landed, committed, kind, ending>>

\* finalize runs whether or not the loop got to its end.
Finalize ==
  /\ pc = "finalize"
  /\ confirmed' = (flow.declared /\ base # "present" /\ Commit \in shown)
  /\ pc' = "judge"
  /\ UNCHANGED <<flow, world, tried, landed, committed, kind, ending>>

-------------------------------------------------------------------------------
(* The verdict on the attempt.                                             *)

\* out["write_landed"]: a baseline was taken, and the signal came after it.
Transition == confirmed /\ base # "none"
AllWritesOk == Marked # {} /\ Marked \subseteq ok
FirstWriteOk == \E s \in Marked \cap ok : \A t \in Marked : s <= t

\* The kinds the attempt can fail with, or "ok".
Verdicts ==
  IF at <= N THEN {"drift"}
  ELSE IF flow.declared /\ ~confirmed
    THEN {IF base = "present" THEN "write_unverified" ELSE "drift"}
  ELSE {"ok"} \cup
       (IF ~flow.extract THEN {}
        ELSE {"shape", IF flow.declared THEN "write_unreadable" ELSE "drift"}
             \cup (IF flow.declared THEN {} ELSE {"quarantine"}))

\* Fault: any single-commit write may be retried, with or without a precheck.
RetryWithoutPrecheck(has_landed) ==
  /\ flow.login
  /\ ~has_landed
  /\ Marked # {} =>
       /\ flow.declared
       /\ ~flow.params
       /\ Cardinality(Marked) <= 1

\* _auth_retry_allowed
RetryAllowed(has_landed) ==
  /\ flow.login
  /\ ~has_landed
  /\ Marked # {} =>
       /\ flow.declared
       /\ Cardinality(flow.barriers) <= 1
       /\ ~flow.params
       /\ Cardinality(Marked) <= 1
       /\ flow.precheck

HardStops == {"write_unverified", "write_unreadable", "quarantine"}

\* A failed attempt is retried once, or fails the call.
Dispatch(k) ==
  /\ kind' = k
  /\ \/ /\ attempt = 1
        /\ k \notin HardStops
        /\ RetryAllowed(landed')
        /\ pc' = "refresh"
        /\ UNCHANGED ending
     \/ /\ attempt = 2 \/ k \in HardStops \/ ~RetryAllowed(landed')
        /\ Fail(k)

Judge ==
  /\ pc = "judge"
  /\ landed' = (landed \/ (Transition /\ AllWritesOk))
  /\ committed' = (committed \/ (Transition /\ FirstWriteOk))
  /\ \E k \in Verdicts :
       \/ /\ k = "ok"
          /\ Return(IF flow.declared THEN "confirmed" ELSE "data")
          /\ UNCHANGED kind
       \/ /\ k # "ok"
          /\ Dispatch(k)
  /\ UNCHANGED <<flow, world, tried, confirmed>>

\* An interstitial stops the attempt before its first step, and finalize.
Escalate ==
  /\ pc = "open"
  /\ UNCHANGED <<flow, world, tried, confirmed, landed, committed>>
  /\ Dispatch("escalate")

-------------------------------------------------------------------------------
(* The auth refresh, and what an exception does.                           *)

RefreshOk ==
  /\ pc = "refresh"
  /\ attempt' = 2
  /\ pc' = "precheck"
  /\ UNCHANGED <<flow, world, at, ok, pre, base, verdict, ending>>

RefreshFails ==
  /\ pc = "refresh"
  /\ UNCHANGED <<flow, world, tried, verdict>>
  /\ Fail(kind)

\* A browser or a model call raises.  The first attempt's exception leaves the
\* call as it is; the second one's is folded into the first one's failure.
AttemptRaises ==
  /\ "raise" \in Faults
  /\ pc \notin {"refresh", "done"}
  /\ UNCHANGED <<flow, world, tried, verdict>>
  /\ \/ attempt = 1 /\ Return("crashed")
     \/ attempt = 2 /\ Fail(kind)

-------------------------------------------------------------------------------
(* The environment.                                                        *)

\* A request in flight is performed, and may show on the page.
LandsLater ==
  /\ \E s \in 1..N :
       /\ inflight[s] > 0
       /\ inflight' = [inflight EXCEPT ![s] = @ - 1]
       /\ performed' = [performed EXCEPT ![s] = @ + 1]
       /\ shown' \in {shown, shown \cup {s}}
  /\ UNCHANGED <<flow, earlier, missed, pc, tried, verdict, ending>>

Step ==
  \/ PrecheckYes
  \/ PrecheckNo
  \/ NoPrecheck
  \/ OpenSession
  \/ Baseline
  \/ GateRefuses
  \/ ActOk
  \/ ActFails
  \/ Barrier
  \/ EndOfRecipe
  \/ Finalize
  \/ Judge
  \/ Escalate
  \/ RefreshOk
  \/ RefreshFails

Next == Step \/ AttemptRaises \/ LandsLater

Spec == Init /\ [][Next]_vars

\* Every wait of the call has a timeout, so the call keeps taking steps; nothing
\* has to raise, and the target need not ever perform a request it was sent.
FairSpec == Spec /\ WF_vars(Step)

-------------------------------------------------------------------------------
(* Properties                                                              *)

TypeOK ==
  /\ flow \in Flows
  /\ earlier \in BOOLEAN
  /\ performed \in [1..N -> Nat]
  /\ inflight \in [1..N -> Nat]
  /\ missed \in BOOLEAN
  /\ shown \subseteq 1..N
  /\ pc \in {"precheck", "open", "step", "gate", "barrier", "finalize", "judge",
             "refresh", "done"}
  /\ attempt \in {1, 2}
  /\ at \in 1..(N + 1)
  /\ ok \subseteq 1..N
  /\ pre \in BOOLEAN
  /\ base \in {"none", "absent", "present"}
  /\ confirmed \in BOOLEAN
  /\ landed \in BOOLEAN
  /\ committed \in BOOLEAN
  /\ kind \in Failures \cup {"none"}
  /\ answer \in Failures \cup {"none", "confirmed", "already-done", "data", "crashed"}
  /\ armed \in BOOLEAN

\* A call sends a write a second time only if the precheck between its two
\* attempts said no to a write that had been sent, and never a third time.
RefireNeedsMiss == \A s \in Writes : Sent(s) <= IF missed THEN 2 ELSE 1

\* The writes an answer that claims success is about: the flow's commit, and
\* every write that has a barrier of its own.
Claimed == {Commit} \cup (flow.barriers \cap Writes)

\* An answer that says "confirmed", or an error that arms the ledger, is of writes that
\* were performed, and an "already-done" of one performed before.
ClaimIsTrue ==
  /\ answer = "confirmed" \/ armed => \A s \in Claimed : performed[s] > 0
  /\ answer = "already-done" => Done

\* No write is sent before every earlier write with a barrier was performed.
BarriersOrder ==
  \A s \in flow.barriers \cap Writes, t \in Writes :
    s < t /\ Sent(t) > 0 => performed[s] > 0

\* A call ends.
CallEnds == <>(pc = "done")

Outcome ==
  CASE answer = "none" -> "none"
    [] answer \in {"confirmed", "already-done"} -> "ok"
    [] armed -> "landed"
    [] OTHER -> "unclaimed"

Contract == INSTANCE WriteContract WITH
  landed <- flow.declared /\ Done,
  answer <- Outcome

\* A call answers as run_batch's ledger needs it to.
ImplementsContract == Contract!Spec

-------------------------------------------------------------------------------
(* What the code does not keep: known limits, stated for the record.        *)

\* An attempt that saw its commit's signal come after its baseline, with every
\* write run ok, arms the error the call ends with: fails if a readback raises.
EvidenceArms ==
  pc = "done" /\ Transition /\ AllWritesOk => answer = "confirmed" \/ armed

\* A call that fails after a write's own barrier saw it land says that something
\* committed: fails if the second write of a transaction drifts.
CommitsDisclosed ==
  answer \in Failures \ {"write_unverified"} /\ ok \cap flow.barriers \cap Writes # {} =>
    committed
===============================================================================
