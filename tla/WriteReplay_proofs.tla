--------------------------- MODULE WriteReplay_proofs ---------------------------
(***************************************************************************)
(* Proofs about WriteReplay, for recipes of any length and any set of      *)
(* flows a pre-flight lets through: its type correctness, that a write is  *)
(* sent twice only when the precheck between missed it, and, as long as    *)
(* only the writes cause their signals, that what an answer claims was     *)
(* performed, that barriers keep the order of the writes, and that a call  *)
(* keeps the contract run_batch's ledger builds on. And about Runs, for    *)
(* any runs, batches and routers of one process: that a driver that was    *)
(* handed out stays up, that drivers are stopped, that a bill covers what  *)
(* a run's routers answered, and that a run denies no write a pass left    *)
(* open.                                                                   *)
(***************************************************************************)
EXTENDS WriteReplay, Runs, FiniteSetTheorems, TLAPS

(* ------------------------------- invariants ------------------------------- *)

\* A step the call is about to act on, or waits on, is a marked one.
AtMarked == pc \in {"gate", "barrier"} => at \in Marked

TypeInv == TypeOK /\ AtMarked

Session == {"step", "gate", "barrier", "finalize", "judge"}

\* The current attempt has got as far as sending step s.
Reached(s) ==
  /\ pc \notin {"precheck", "open"}
  /\ s < at \/ (s = at /\ pc \in {"barrier", "finalize", "judge", "refresh"})

\* What an earlier attempt may have sent of each write.
Earlier == IF attempt = 2 /\ (missed \/ pc = "precheck") THEN 1 ELSE 0

Bound(s) ==
  IF pc = "done" THEN IF missed THEN 2 ELSE 1
  ELSE Earlier + IF Reached(s) THEN 1 ELSE 0

\* Each attempt sends a write once; a second attempt is only made of a flow with
\* at most one marked step and a precheck, which has then looked.
RetryInv ==
  /\ \A s \in Writes : Sent(s) <= Bound(s)
  /\ missed => attempt = 2
  /\ attempt = 2 \/ pc = "refresh" => RetryAllowed(FALSE)
  /\ pc = "refresh" => attempt = 1

\* What the signals say when only writes cause them.
SignalInv ==
  /\ base = "absent" /\ Commit \in shown => performed[Commit] > 0
  /\ pc \in {"gate", "barrier"} /\ at \in flow.barriers /\ ~pre /\ at \in shown =>
       performed[at] > 0
  /\ \A s \in ok \cap flow.barriers : performed[s] > 0
  /\ pc \in {"step", "gate", "barrier", "finalize"} => ~confirmed
  /\ confirmed => flow.declared /\ base # "present"
  /\ confirmed /\ base = "absent" => performed[Commit] > 0

\* How far the attempt has got.
ProgressInv ==
  /\ pc \in Session => \A s \in 1..N : s < at => s \in ok
  /\ pc \in Session /\ flow.declared =>
       \A s \in Marked : s < at \/ (s = at /\ pc \in {"gate", "barrier"}) => base # "none"

ClaimsPerformed == flow.declared /\ \A s \in Claimed : performed[s] > 0

\* What the verdicts and the answer say was performed was.
AnswerInv ==
  /\ landed => ClaimsPerformed
  /\ pc # "done" => kind \notin HardStops /\ answer = "none" /\ ~armed
  /\ attempt = 2 \/ pc = "refresh" => kind # "none"
  /\ pc = "done" => answer # "none"
  /\ answer = "confirmed" \/ armed => ClaimsPerformed
  /\ answer = "already-done" => flow.declared /\ Done

OrderInv ==
  \A s \in flow.barriers \cap Writes, t \in Writes :
    s < t /\ Sent(t) > 0 => performed[s] > 0

ClaimInv == SignalInv /\ ProgressInv /\ AnswerInv /\ OrderInv

(* ------------------------------ type correctness ------------------------------ *)

\* What a pre-flight guarantees of the flow of a call.
LEMMA FlowFacts ==
  ASSUME TypeOK
  PROVE  /\ Writes \subseteq Marked /\ Marked \subseteq 1..N
         /\ Commit \in 1..N
         /\ flow.declared \in BOOLEAN /\ flow.precheck \in BOOLEAN
         /\ flow.declared => Commit \in Writes
         /\ flow.precheck => flow.declared
         /\ flow.barriers \subseteq Marked
         /\ flow.barriers # {} => flow.declared
<1>1. flow \in Flows /\ flow \in FlowType
  BY FlowsAssumption DEF TypeOK
<1>2. /\ flow.steps \in [1..N -> Kinds] /\ flow.commit \in 1..N
      /\ flow.declared \in BOOLEAN /\ flow.precheck \in BOOLEAN
      /\ flow.barriers \subseteq 1..N
  BY <1>1 DEF FlowType
<1>3. /\ flow.declared => flow.commit \in WritesIn(flow)
      /\ flow.precheck => flow.declared
      /\ flow.barriers \subseteq IF flow.declared THEN MarkedIn(flow) ELSE {}
  BY <1>1, FlowsAssumption
<1> QED
  BY <1>2, <1>3 DEF Marked, Writes, MarkedIn, WritesIn, Commit

\* A request leaves the target's counters and the page typed.
LEMMA RequestTyped ==
  ASSUME TypeOK, NEW s \in 1..N, Request(s)
  PROVE  /\ performed' \in [1..N -> Nat]
         /\ inflight' \in [1..N -> Nat]
         /\ shown' \subseteq 1..N
<1>1. PICK kept \in {shown, {}} :
        \/ shown' = kept /\ UNCHANGED <<performed, inflight>>
        \/ /\ performed' = [performed EXCEPT ![s] = @ + 1]
           /\ shown' \in {kept, kept \cup {s}}
           /\ UNCHANGED inflight
        \/ /\ inflight' = [inflight EXCEPT ![s] = @ + 1]
           /\ shown' = kept
           /\ UNCHANGED performed
  BY DEF Request
<1>2. kept \subseteq 1..N /\ performed \in [1..N -> Nat] /\ inflight \in [1..N -> Nat]
  BY DEF TypeOK
<1>3. shown' \subseteq 1..N
  BY <1>1, <1>2
<1>4. performed' \in [1..N -> Nat] /\ inflight' \in [1..N -> Nat]
  BY <1>1, <1>2
<1> QED
  BY <1>3, <1>4

\* Every start of a call is typed.
LEMMA InitTyped == Init => TypeInv
<1> SUFFICES ASSUME Init PROVE TypeInv
  OBVIOUS
<1>1. N \in Nat /\ 1 \in 1..(N + 1)
  BY LengthAssumption
<1>2. performed \in [1..N -> Nat] /\ inflight \in [1..N -> Nat]
  BY DEF Init
<1> QED
  BY <1>1, <1>2 DEF Init, TypeOK, TypeInv, AtMarked

\* Every step of the call and of the target keeps the types.
LEMMA StepTyped == TypeInv /\ [Next]_vars => TypeInv'
<1> USE DEF TypeInv, AtMarked, Marked
<1> SUFFICES ASSUME TypeInv, [Next]_vars PROVE TypeInv'
  OBVIOUS
<1>0. /\ N \in Nat /\ Marked \subseteq 1..N
      /\ 1 \in 1..(N + 1)
      /\ \A s \in 1..N : s + 1 \in 1..(N + 1)
  BY LengthAssumption, FlowFacts
<1>0a. flow.barriers \subseteq Marked
  BY FlowFacts
<1>1. CASE PrecheckYes
  BY <1>1 DEF PrecheckYes, Return, TypeOK, world, tried, verdict
<1>2. CASE PrecheckNo
  BY <1>2 DEF PrecheckNo, TypeOK, tried, verdict, ending
<1>3. CASE NoPrecheck
  BY <1>3 DEF NoPrecheck, TypeOK, world, tried, verdict, ending
<1>4. CASE OpenSession
  <2>1. shown' \subseteq 1..N /\ at' \in 1..(N + 1) /\ ok' \subseteq 1..N
    BY <1>4, <1>0 DEF OpenSession
  <2> QED
    BY <1>4, <2>1 DEF OpenSession, TypeOK, ending
<1>5. CASE Baseline
  BY <1>5 DEF Baseline, TypeOK, world, verdict, ending
<1>6. CASE GateRefuses
  BY <1>6 DEF GateRefuses, TypeOK, world, tried, verdict, ending
<1>7. ASSUME Acts PROVE /\ at \in 1..N
                        /\ performed' \in [1..N -> Nat]
                        /\ inflight' \in [1..N -> Nat]
                        /\ shown' \subseteq 1..N
  <2>1. at \in 1..N /\ Request(at)
    BY <1>7, <1>0 DEF Acts, TypeOK
  <2> QED
    BY <2>1, RequestTyped
<1>8. CASE ActOk
  <2>0. at \in 1..N
    BY <1>7, <1>8 DEF ActOk
  <2>1. \/ ok' = ok /\ at' = at /\ pc' = "barrier" /\ at \in flow.barriers
        \/ ok' = ok \cup {at} /\ at' = at + 1 /\ pc' = "step"
    BY <1>8 DEF ActOk, StepDone
  <2>2. ok' \subseteq 1..N /\ at' \in 1..(N + 1)
    BY <2>0, <2>1, <1>0 DEF TypeOK
  <2>3. UNCHANGED <<flow, earlier, missed, attempt, pre, base, verdict, ending>>
    BY <1>8 DEF ActOk, Acts
  <2>4. Acts
    BY <1>8 DEF ActOk
  <2>5. TypeOK'
    BY <1>7, <2>1, <2>2, <2>3, <2>4 DEF TypeOK, verdict, ending
  <2> QED
    BY <2>1, <2>3, <2>5, <1>0a
<1>9. CASE ActFails
  BY <1>7, <1>9 DEF ActFails, Acts, TypeOK, verdict, ending
<1>10. CASE Barrier
  <2>1. /\ at \in 1..N
        /\ \/ ok' = ok /\ at' = at /\ pc' = "finalize"
           \/ ok' = ok \cup {at} /\ at' = at + 1 /\ pc' = "step"
    BY <1>10, <1>0 DEF Barrier, StepDone
  <2>2. ok' \subseteq 1..N /\ at' \in 1..(N + 1)
    BY <2>1, <1>0 DEF TypeOK
  <2>3. UNCHANGED <<flow, world, attempt, pre, base, verdict, ending>>
    BY <1>10 DEF Barrier
  <2> QED
    BY <2>1, <2>2, <2>3 DEF TypeOK, world, verdict, ending
<1>11. CASE EndOfRecipe
  BY <1>11 DEF EndOfRecipe, TypeOK, world, tried, verdict, ending
<1>12. CASE Finalize
  BY <1>12 DEF Finalize, TypeOK, world, tried, ending
<1>13. CASE Judge
  <2>1. UNCHANGED <<flow, world, tried, confirmed>>
    BY <1>13 DEF Judge
  <2>2. landed' \in BOOLEAN /\ committed' \in BOOLEAN
    BY <1>13 DEF Judge
  <2>3. PICK k \in Verdicts :
          \/ k = "ok" /\ Return(IF flow.declared THEN "confirmed" ELSE "data") /\ UNCHANGED kind
          \/ k # "ok" /\ Dispatch(k)
    BY <1>13 DEF Judge
  <2>4. k \in Failures \cup {"ok"}
    BY DEF Verdicts, Failures
  <2>5. /\ pc' \in {"refresh", "done"} /\ kind' \in Failures \cup {"none"}
        /\ answer' \in Failures \cup {"none", "confirmed", "already-done", "data", "crashed"}
        /\ armed' \in BOOLEAN
    BY <2>2, <2>3, <2>4 DEF Return, Dispatch, Fail, ending, TypeOK
  <2> QED
    BY <2>1, <2>2, <2>5 DEF TypeOK, world, tried
<1>14. CASE Escalate
  BY <1>14 DEF Escalate, Dispatch, Fail, Failures, TypeOK, world, tried, ending
<1>15. CASE RefreshOk
  BY <1>15 DEF RefreshOk, TypeOK, world, verdict, ending
<1>16. CASE RefreshFails
  BY <1>16 DEF RefreshFails, Fail, TypeOK, world, tried, verdict
<1>17. CASE AttemptRaises
  BY <1>17 DEF AttemptRaises, Return, Fail, TypeOK, world, tried, verdict
<1>18. CASE LandsLater
  BY <1>18 DEF LandsLater, TypeOK, tried, verdict, ending
<1>20. CASE UNCHANGED vars
  BY <1>20 DEF TypeOK, vars, world, tried, verdict, ending
<1> QED
  BY <1>1, <1>2, <1>3, <1>4, <1>5, <1>6, <1>8, <1>9, <1>10, <1>11, <1>12, <1>13, <1>14,
     <1>15, <1>16, <1>17, <1>18, <1>20 DEF Next, Step

\* Every variable of a call keeps its type, for recipes of any length.
THEOREM TypeCorrect == Spec => []TypeOK
<1>1. Init => TypeInv
  BY InitTyped
<1>2. TypeInv /\ [Next]_vars => TypeInv'
  BY StepTyped
<1>3. TypeInv => TypeOK
  BY DEF TypeInv
<1> QED
  BY <1>1, <1>2, <1>3, PTL DEF Spec

(* --------------------------- a write sent twice --------------------------- *)

\* A flow that may be retried writes in one step at most, and has a precheck.
LEMMA RetriedOnce ==
  ASSUME TypeInv, RetryAllowed(FALSE), NEW s \in Writes
  PROVE  s = Commit /\ flow.precheck
<1>1. s \in Marked /\ Marked \subseteq 1..N
  BY FlowFacts DEF TypeInv
<1>2. flow.declared /\ flow.precheck /\ Cardinality(Marked) <= 1
  BY <1>1 DEF RetryAllowed
<1>3. Commit \in Marked
  BY <1>2, FlowFacts DEF TypeInv
<1>4. IsFiniteSet(1..N)
  BY LengthAssumption, FS_Interval
<1>5. IsFiniteSet(Marked)
  BY <1>1, <1>4, FS_Subset
<1>6. IsFiniteSet(Marked \ {s}) /\ Cardinality(Marked \ {s}) = Cardinality(Marked) - 1
  BY <1>1, <1>5, FS_RemoveElement
<1>7. Cardinality(Marked) \in Nat /\ Cardinality(Marked \ {s}) \in Nat
  BY <1>5, <1>6, FS_CardinalityType
<1>8. Marked \ {s} = {}
  BY <1>2, <1>6, <1>7, FS_EmptySet
<1> QED
  BY <1>2, <1>3, <1>8

\* An action sends the request of its own step, once, if that step writes; what
\* was performed stays performed.
LEMMA ActsSends ==
  ASSUME TypeInv, Acts
  PROVE  /\ at \in 1..N
         /\ \A s \in 1..N :
              /\ performed[s] <= performed'[s]
              /\ performed[s] + inflight[s] <= performed'[s] + inflight'[s]
              /\ s # at \/ s \notin Writes =>
                   performed'[s] = performed[s] /\ inflight'[s] = inflight[s]
              /\ performed'[s] + inflight'[s] <= performed[s] + inflight[s] + 1
<1>1. at \in 1..N
  BY FlowFacts DEF Acts, TypeInv, AtMarked
<1>2. performed \in [1..N -> Nat] /\ inflight \in [1..N -> Nat]
  BY DEF TypeInv, TypeOK
<1>3. \/ UNCHANGED <<performed, inflight>>
      \/ at \in Writes /\ performed' = [performed EXCEPT ![at] = @ + 1] /\ UNCHANGED inflight
      \/ at \in Writes /\ inflight' = [inflight EXCEPT ![at] = @ + 1] /\ UNCHANGED performed
  BY DEF Acts, Request
<1>4. CASE UNCHANGED <<performed, inflight>>
  BY <1>1, <1>2, <1>4
<1>5. CASE at \in Writes /\ performed' = [performed EXCEPT ![at] = @ + 1] /\ UNCHANGED inflight
  BY <1>1, <1>2, <1>5
<1>6. CASE at \in Writes /\ inflight' = [inflight EXCEPT ![at] = @ + 1] /\ UNCHANGED performed
  BY <1>1, <1>2, <1>6
<1> QED
  BY <1>3, <1>4, <1>5, <1>6

\* A late landing sends nothing.
LEMMA LandsSent ==
  ASSUME TypeInv, LandsLater
  PROVE  \A s \in 1..N : /\ performed[s] <= performed'[s]
                         /\ performed'[s] + inflight'[s] = performed[s] + inflight[s]
<1>1. performed \in [1..N -> Nat] /\ inflight \in [1..N -> Nat]
  BY DEF TypeInv, TypeOK
<1>2. PICK t \in 1..N : /\ inflight[t] > 0
                        /\ inflight' = [inflight EXCEPT ![t] = @ - 1]
                        /\ performed' = [performed EXCEPT ![t] = @ + 1]
  BY DEF LandsLater
<1> QED
  BY <1>1, <1>2

\* A step that sends nothing and does not lower what an attempt may have sent.
LEMMA QuietRetry ==
  ASSUME TypeInv, RetryInv, UNCHANGED <<flow, performed, inflight>>,
         \A s \in Writes : Bound(s) <= Bound(s)',
         missed' => attempt' = 2,
         attempt' = 2 \/ pc' = "refresh" => attempt = 2 \/ pc = "refresh" \/ RetryAllowed(FALSE),
         pc' = "refresh" => attempt' = 1
  PROVE  RetryInv'
<1>1. Writes' = Writes /\ (RetryAllowed(FALSE) => RetryAllowed(FALSE)')
  BY DEF Writes, WritesIn, RetryAllowed, Marked, MarkedIn
<1>2. \A s \in Writes : Sent(s)' = Sent(s) /\ Sent(s) \in Nat /\ Bound(s) \in Nat /\ Bound(s)' \in Nat
  BY FlowFacts DEF TypeInv, TypeOK, Sent, Bound, Earlier
<1>3. \A s \in Writes : Sent(s)' <= Bound(s)'
  BY <1>2 DEF RetryInv
<1> QED
  BY <1>1, <1>3 DEF RetryInv

\* Every start of a call satisfies the invariant.
LEMMA InitRetry == Init => RetryInv
<1> SUFFICES ASSUME Init PROVE RetryInv
  OBVIOUS
<1>1. \A s \in Writes : Sent(s) = 0
  <2>1. Writes \subseteq 1..N
    BY InitTyped, FlowFacts DEF TypeInv
  <2>2. performed = [s \in 1..N |-> 0] /\ inflight = [s \in 1..N |-> 0]
    BY DEF Init
  <2> QED
    BY <2>1, <2>2 DEF Sent
<1> QED
  BY <1>1 DEF Init, RetryInv, Bound, Earlier, Reached

\* Every step keeps it: only an action sends, and only the retry's precheck may
\* let a second attempt send what the first one had sent.
LEMMA StepRetry == TypeInv /\ RetryInv /\ [Next]_vars => RetryInv'
<1> SUFFICES ASSUME TypeInv, RetryInv, [Next]_vars PROVE RetryInv'
  OBVIOUS
<1>0. /\ Writes \subseteq 1..N
      /\ attempt \in {1, 2} /\ missed \in BOOLEAN /\ at \in Nat
      /\ \A s \in 1..N : performed[s] \in Nat /\ inflight[s] \in Nat
  <2>1. Writes \subseteq 1..N
    BY FlowFacts DEF TypeInv
  <2>2. /\ attempt \in {1, 2} /\ missed \in BOOLEAN /\ at \in 1..(N + 1)
        /\ performed \in [1..N -> Nat] /\ inflight \in [1..N -> Nat]
    BY DEF TypeInv, TypeOK
  <2> QED
    BY <2>1, <2>2, LengthAssumption
<1>1. CASE PrecheckYes
  <2>1. /\ UNCHANGED <<flow, performed, inflight, missed, attempt, at>>
        /\ pc = "precheck" /\ pc' = "done"
    BY <1>1 DEF PrecheckYes, Return, world, tried
  <2>2. \A s \in Writes : Bound(s) <= Bound(s)'
    BY <2>1, <1>0 DEF Bound, Earlier, Reached
  <2> QED
    BY <2>1, <2>2, QuietRetry DEF RetryInv
<1>2. CASE PrecheckNo \/ NoPrecheck
  <2>1. /\ UNCHANGED <<flow, performed, inflight, attempt, at>>
        /\ pc = "precheck" /\ pc' = "open"
    BY <1>2 DEF PrecheckNo, NoPrecheck, world, tried
  <2>2. \/ flow.precheck /\ missed' = (missed \/ Sent(Commit) > 0)
        \/ ~flow.precheck /\ missed' = missed
    BY <1>2 DEF PrecheckNo, NoPrecheck, world
  <2>3. \A s \in Writes : Sent(s) \in Nat /\ Sent(s) <= IF attempt = 2 THEN 1 ELSE 0
    BY <1>0, <2>1 DEF RetryInv, Bound, Reached, Earlier, Sent
  <2>4. flow.precheck => Commit \in Writes
    BY FlowFacts DEF TypeInv
  <2>5. missed' => attempt = 2
    <3>1. missed => attempt = 2
      BY DEF RetryInv
    <3>2. ASSUME flow.precheck, Sent(Commit) > 0 PROVE attempt = 2
      <4>1. Commit \in Writes
        BY <3>2, <2>4
      <4>2. Sent(Commit) \in Nat /\ Sent(Commit) <= IF attempt = 2 THEN 1 ELSE 0
        BY <4>1, <2>3
      <4> QED
        BY <3>2, <4>2, <1>0
    <3> QED
      BY <2>2, <3>1, <3>2
  <2>6. \A s \in Writes : Sent(s) <= Bound(s)'
    <3> SUFFICES ASSUME NEW s \in Writes PROVE Sent(s) <= Bound(s)'
      OBVIOUS
    <3>1. Bound(s)' = IF attempt = 2 /\ missed' THEN 1 ELSE 0
      BY <2>1 DEF Bound, Reached, Earlier
    <3>2. CASE attempt = 2 /\ ~missed'
      <4>1. s = Commit /\ flow.precheck
        BY <3>2, RetriedOnce DEF RetryInv
      <4>2. ~(Sent(Commit) > 0)
        BY <4>1, <2>2, <3>2
      <4> QED
        BY <4>1, <4>2, <2>3, <3>1, <3>2
    <3>3. CASE attempt # 2
      BY <2>3, <3>1, <3>3
    <3>4. CASE attempt = 2 /\ missed'
      BY <2>3, <3>1, <3>4
    <3> QED
      BY <3>2, <3>3, <3>4
  <2>7. Writes' = Writes /\ (RetryAllowed(FALSE) => RetryAllowed(FALSE)')
        /\ \A s : Sent(s)' = Sent(s)
    BY <2>1 DEF Writes, WritesIn, RetryAllowed, Marked, MarkedIn, Sent
  <2> QED
    BY <2>1, <2>5, <2>6, <2>7 DEF RetryInv
<1>3. CASE OpenSession
  <2>1. /\ UNCHANGED <<flow, performed, inflight, missed, attempt>>
        /\ pc = "open" /\ pc' = "step" /\ at' = 1
    BY <1>3 DEF OpenSession
  <2>2. \A s \in Writes : Bound(s) <= Bound(s)'
    BY <2>1, <1>0 DEF Bound, Earlier, Reached
  <2> QED
    BY <2>1, <2>2, QuietRetry DEF RetryInv
<1>4. CASE Baseline \/ GateRefuses \/ EndOfRecipe \/ Finalize
  <2>1. /\ UNCHANGED <<flow, performed, inflight, missed, attempt, at>>
        /\ \/ pc = "step" /\ pc' = "gate"
           \/ pc \in {"step", "gate"} /\ pc' = "finalize"
           \/ pc = "finalize" /\ pc' = "judge"
    BY <1>4 DEF Baseline, GateRefuses, EndOfRecipe, Finalize, world, tried
  <2>2. \A s \in Writes : Bound(s) <= Bound(s)'
    BY <2>1, <1>0 DEF Bound, Earlier, Reached
  <2> QED
    BY <2>1, <2>2, QuietRetry DEF RetryInv
<1>5. CASE Barrier
  <2>0. UNCHANGED <<flow, performed, inflight, missed, attempt>> /\ pc = "barrier"
    BY <1>5 DEF Barrier, world
  <2>1. \/ pc' = "step" /\ at' = at + 1
        \/ pc' = "finalize" /\ at' = at
    BY <1>5 DEF Barrier, StepDone
  <2>2. \A s \in Writes : Bound(s) <= Bound(s)'
    BY <2>0, <2>1, <1>0 DEF Bound, Earlier, Reached
  <2> QED
    BY <2>0, <2>1, <2>2, QuietRetry DEF RetryInv
<1>6. CASE ActOk \/ ActFails
  <2>1. Acts
    BY <1>6 DEF ActOk, ActFails
  <2>2. /\ UNCHANGED <<flow, missed, attempt>>
        /\ pc \in {"step", "gate"}
        /\ \/ pc' = "step" /\ at' = at + 1
           \/ pc' \in {"barrier", "finalize"} /\ at' = at
    BY <1>6 DEF ActOk, ActFails, Acts, StepDone
  <2>3. \A s \in 1..N : Bound(s)' = Bound(s) + IF s = at THEN 1 ELSE 0
    BY <2>2, <1>0 DEF Bound, Earlier, Reached
  <2>4. \A s \in Writes : performed'[s] + inflight'[s] <= Bound(s)'
    <3> SUFFICES ASSUME NEW s \in Writes PROVE performed'[s] + inflight'[s] <= Bound(s)'
      OBVIOUS
    <3>1. performed[s] + inflight[s] <= Bound(s) /\ Bound(s) \in Nat
      BY DEF RetryInv, Sent, Bound, Earlier
    <3>2. s \in 1..N /\ performed[s] \in Nat /\ inflight[s] \in Nat
          /\ performed'[s] \in Nat /\ inflight'[s] \in Nat
      BY <1>0, StepTyped DEF TypeInv, TypeOK
    <3>3. performed'[s] + inflight'[s] <= performed[s] + inflight[s] + IF s = at THEN 1 ELSE 0
      BY <3>2, <2>1, ActsSends
    <3> QED
      BY <3>1, <3>2, <3>3, <2>3
  <2>5. Writes' = Writes /\ (RetryAllowed(FALSE) => RetryAllowed(FALSE)')
    BY <2>2 DEF Writes, WritesIn, RetryAllowed, Marked, MarkedIn
  <2> QED
    BY <2>2, <2>4, <2>5 DEF RetryInv, Sent
<1>7. CASE Judge \/ Escalate
  <2>1. /\ UNCHANGED <<flow, performed, inflight, missed, attempt, at>>
        /\ pc \in {"judge", "open"}
        /\ pc' = "done" \/ (pc' = "refresh" /\ attempt = 1 /\ RetryAllowed(landed'))
    BY <1>7 DEF Judge, Escalate, Dispatch, Fail, Return, world, tried
  <2>2. RetryAllowed(landed') => RetryAllowed(FALSE)
    BY DEF RetryAllowed
  <2>3. \A s \in Writes : Bound(s) <= Bound(s)'
    BY <2>1, <1>0 DEF Bound, Earlier, Reached, RetryInv
  <2> QED
    BY <2>1, <2>2, <2>3, QuietRetry DEF RetryInv
<1>8. CASE RefreshOk
  <2>1. /\ UNCHANGED <<flow, performed, inflight, missed, at>>
        /\ pc = "refresh" /\ pc' = "precheck" /\ attempt' = 2 /\ attempt = 1
    BY <1>8 DEF RefreshOk, world, RetryInv
  <2>2. \A s \in Writes : Bound(s) <= Bound(s)'
    BY <2>1, <1>0 DEF Bound, Earlier, Reached
  <2> QED
    BY <2>1, <2>2, QuietRetry DEF RetryInv
<1>9. CASE RefreshFails \/ AttemptRaises
  <2>1. /\ UNCHANGED <<flow, performed, inflight, missed, attempt, at>>
        /\ pc # "done" /\ pc' = "done"
    BY <1>9 DEF RefreshFails, AttemptRaises, Return, Fail, world, tried
  <2>2. \A s \in Writes : Bound(s) <= Bound(s)'
    BY <2>1, <1>0 DEF Bound, Earlier, Reached
  <2> QED
    BY <2>1, <2>2, QuietRetry DEF RetryInv
<1>10. CASE LandsLater
  <2>1. UNCHANGED <<flow, missed, pc, attempt, at>>
    BY <1>10 DEF LandsLater, tried
  <2>2. \A s \in Writes : Sent(s)' = Sent(s) /\ Bound(s)' = Bound(s)
    BY <1>10, <1>0, <2>1, LandsSent DEF Sent, Bound, Earlier, Reached
  <2>3. Writes' = Writes /\ (RetryAllowed(FALSE) => RetryAllowed(FALSE)')
    BY <2>1 DEF Writes, WritesIn, RetryAllowed, Marked, MarkedIn
  <2> QED
    BY <2>1, <2>2, <2>3 DEF RetryInv
<1>11. CASE UNCHANGED vars
  <2>1. UNCHANGED <<flow, performed, inflight, missed, pc, attempt, at>>
    BY <1>11 DEF vars, world, tried
  <2>2. \A s \in Writes : Bound(s) <= Bound(s)'
    BY <2>1, <1>0 DEF Bound, Earlier, Reached
  <2> QED
    BY <2>1, <2>2, QuietRetry DEF RetryInv
<1> QED
  BY <1>1, <1>2, <1>3, <1>4, <1>5, <1>6, <1>7, <1>8, <1>9, <1>10, <1>11 DEF Next, Step

\* Within one call a write is sent twice only when the precheck between the two
\* attempts missed it: no interleaving of late requests, drifting pages and
\* raising attempts does it otherwise.
THEOREM RefiresNeedMisses == Spec => []RefireNeedsMiss
<1>1. Init => TypeInv /\ RetryInv
  BY InitTyped, InitRetry
<1>2. TypeInv /\ RetryInv /\ [Next]_vars => (TypeInv /\ RetryInv)'
  BY StepTyped, StepRetry
<1>3. TypeInv /\ RetryInv => RefireNeedsMiss
  <2> SUFFICES ASSUME TypeInv, RetryInv, NEW s \in Writes
               PROVE  Sent(s) <= IF missed THEN 2 ELSE 1
    BY DEF RefireNeedsMiss
  <2>1. Sent(s) \in Nat /\ missed \in BOOLEAN /\ attempt \in {1, 2}
    BY FlowFacts DEF TypeInv, TypeOK, Sent
  <2>2. CASE pc = "precheck"
    BY <2>1, <2>2 DEF RetryInv, Bound, Earlier, Reached
  <2>3. CASE pc # "precheck"
    BY <2>1, <2>3 DEF RetryInv, Bound, Earlier
  <2> QED
    BY <2>2, <2>3
<1> QED
  BY <1>1, <1>2, <1>3, PTL DEF Spec

(* ------------------------- what the answers claim ------------------------- *)

\* Once a write was performed it stays so, and the flow of a call is one flow.
LEMMA Monotone ==
  ASSUME TypeInv, [Next]_vars
  PROVE  /\ flow' = flow /\ earlier' = earlier
         /\ \A s \in 1..N : performed[s] > 0 => performed'[s] > 0
<1>1. \A s \in 1..N : performed[s] \in Nat /\ performed'[s] \in Nat
  BY StepTyped DEF TypeInv, TypeOK
<1>2. CASE ActOk \/ ActFails
  <2>1. Acts
    BY <1>2 DEF ActOk, ActFails
  <2>2. \A s \in 1..N : performed[s] <= performed'[s]
    BY <2>1, ActsSends
  <2> QED
    BY <1>1, <2>1, <2>2 DEF Acts
<1>3. CASE LandsLater
  <2>1. flow' = flow /\ earlier' = earlier
    BY <1>3 DEF LandsLater
  <2>2. \A s \in 1..N : performed[s] <= performed'[s]
    BY <1>3, LandsSent
  <2> QED
    BY <1>1, <2>1, <2>2
<1>4. CASE ~(ActOk \/ ActFails \/ LandsLater)
  <2>1. UNCHANGED <<flow, earlier, performed>>
    BY <1>4 DEF Next, Step, PrecheckYes, PrecheckNo, NoPrecheck, OpenSession, Baseline,
         GateRefuses, Barrier, EndOfRecipe, Finalize, Judge, Escalate, RefreshOk,
         RefreshFails, AttemptRaises, vars, world
  <2> QED
    BY <2>1
<1> QED
  BY <1>2, <1>3, <1>4

\* A signal that appears with a request is of a step performed just then.
LEMMA ShownCaused ==
  ASSUME TypeInv, Acts \/ LandsLater
  PROVE  \A s \in 1..N : s \in shown' => s \in shown \/ performed'[s] > 0
<1>1. performed \in [1..N -> Nat] /\ shown \subseteq 1..N
  BY DEF TypeInv, TypeOK
<1>2. CASE Acts
  <2>1. at \in 1..N /\ Request(at)
    BY <1>2, ActsSends DEF Acts
  <2>2. PICK kept \in {shown, {}} :
          \/ shown' = kept
          \/ performed' = [performed EXCEPT ![at] = @ + 1] /\ shown' \in {kept, kept \cup {at}}
    BY <2>1 DEF Request
  <2>3. kept \subseteq shown
    OBVIOUS
  <2>4. performed' = [performed EXCEPT ![at] = @ + 1] => performed'[at] > 0
    BY <1>1, <2>1
  <2> QED
    BY <2>2, <2>3, <2>4
<1>3. CASE LandsLater
  <2>1. PICK t \in 1..N : /\ performed' = [performed EXCEPT ![t] = @ + 1]
                          /\ shown' \in {shown, shown \cup {t}}
    BY <1>3 DEF LandsLater
  <2>2. performed'[t] > 0
    BY <1>1, <2>1
  <2> QED
    BY <2>1, <2>2
<1> QED
  BY <1>2, <1>3

\* Barriers: no write is sent before the barriers of the writes ahead of it.
LEMMA StepOrder ==
  ASSUME TypeInv, ClaimInv, [Next]_vars
  PROVE  OrderInv'
<1>0. /\ flow' = flow /\ Writes' = Writes
      /\ \A s \in 1..N : performed[s] > 0 => performed'[s] > 0
      /\ Writes \subseteq 1..N
  BY Monotone, FlowFacts DEF Writes, WritesIn, TypeInv
<1> SUFFICES ASSUME NEW s \in flow.barriers \cap Writes, NEW t \in Writes,
                    s < t, Sent(t)' > 0
             PROVE  performed'[s] > 0
  BY <1>0 DEF OrderInv
<1>1. s \in 1..N /\ t \in 1..N
  BY <1>0
<1>2. Sent(t) > 0 => performed'[s] > 0
  BY <1>0, <1>1 DEF ClaimInv, OrderInv
<1>3. CASE ActOk \/ ActFails
  <2>1. Acts
    BY <1>3 DEF ActOk, ActFails
  <2>2. CASE t # at
    BY <1>1, <1>2, <2>1, <2>2, ActsSends DEF Sent
  <2>3. CASE t = at
    <3>1. pc \in Session
      BY <2>1 DEF Acts, Session
    <3>2. s \in ok
      BY <1>1, <2>3, <3>1 DEF ClaimInv, ProgressInv
    <3>3. performed[s] > 0
      BY <3>2 DEF ClaimInv, SignalInv
    <3> QED
      BY <1>0, <1>1, <3>3
  <2> QED
    BY <2>2, <2>3
<1>4. CASE LandsLater
  <2>1. Sent(t)' = Sent(t)
    BY <1>1, <1>4, LandsSent DEF Sent
  <2> QED
    BY <1>2, <2>1
<1>5. CASE ~(ActOk \/ ActFails \/ LandsLater)
  <2>1. UNCHANGED <<performed, inflight>>
    BY <1>5 DEF Next, Step, PrecheckYes, PrecheckNo, NoPrecheck, OpenSession, Baseline,
         GateRefuses, Barrier, EndOfRecipe, Finalize, Judge, Escalate, RefreshOk,
         RefreshFails, AttemptRaises, vars, world
  <2> QED
    BY <1>2, <2>1 DEF Sent
<1> QED
  BY <1>3, <1>4, <1>5

\* The loop: a step is passed only when it ran ok, with its baseline taken.
LEMMA StepProgress ==
  ASSUME TypeInv, ClaimInv, [Next]_vars
  PROVE  ProgressInv'
<1>0. /\ flow' = flow /\ Marked' = Marked /\ Marked \subseteq 1..N
      /\ at \in 1..(N + 1) /\ N \in Nat /\ \A s \in 1..N : s \in Nat
  BY Monotone, FlowFacts, LengthAssumption DEF Marked, MarkedIn, TypeInv, TypeOK
<1>a. /\ pc \in Session => \A s \in 1..N : s < at => s \in ok
      /\ pc \in Session /\ flow.declared =>
           \A s \in Marked : s < at \/ (s = at /\ pc \in {"gate", "barrier"}) => base # "none"
  BY DEF ClaimInv, ProgressInv
<1> HIDE DEF Marked
<1>1. CASE OpenSession
  <2>1. at' = 1 /\ pc' = "step"
    BY <1>1 DEF OpenSession
  <2>2. \A s \in 1..N : ~(s < 1)
    BY <1>0
  <2> QED
    BY <1>0, <2>1, <2>2 DEF ProgressInv
<1>2. CASE Baseline
  <2>1. /\ UNCHANGED <<at, ok>> /\ pc = "step" /\ pc' = "gate"
        /\ flow.declared => base' # "none"
    BY <1>2 DEF Baseline
  <2> QED
    BY <1>0, <1>a, <2>1 DEF ProgressInv, Session
<1>3. CASE GateRefuses \/ EndOfRecipe \/ Finalize \/ ActFails
  <2>1. /\ UNCHANGED <<at, ok, base>> /\ pc \in Session /\ pc' \in {"finalize", "judge"}
    BY <1>3 DEF GateRefuses, EndOfRecipe, Finalize, ActFails, Acts, tried, Session
  <2> QED
    BY <1>0, <1>a, <2>1 DEF ProgressInv, Session
<1>4. CASE ActOk \/ Barrier
  <2>1. pc \in Session /\ base' = base /\ (pc = "step" => at \notin Marked)
    BY <1>4, <1>0 DEF ActOk, Barrier, Acts, Session
  <2>1a. pc \in {"step", "gate", "barrier"}
    BY <1>4 DEF ActOk, Barrier, Acts
  <2>2. \/ ok' = ok /\ at' = at /\ pc' = "finalize"
        \/ ok' = ok /\ at' = at /\ pc = "gate" /\ pc' = "barrier"
        \/ ok' = ok \cup {at} /\ at' = at + 1 /\ pc' = "step"
    BY <1>4, <2>1, FlowFacts DEF ActOk, Barrier, Acts, StepDone, TypeInv
  <2>3. CASE at' = at /\ ok' = ok /\ (pc' = "finalize" \/ (pc = "gate" /\ pc' = "barrier"))
    BY <1>0, <1>a, <2>1, <2>3 DEF ProgressInv, Session
  <2>4. CASE ok' = ok \cup {at} /\ at' = at + 1 /\ pc' = "step"
    <3>1. \A s \in 1..N : s < at' => s < at \/ s = at
      BY <1>0, <2>4
    <3>2. \A s \in 1..N : s < at' => s \in ok'
      BY <1>a, <2>1, <2>4, <3>1
    <3>3. flow.declared => \A s \in Marked : s < at' => base' # "none"
      BY <1>0, <1>a, <2>1, <2>1a, <3>1
    <3> QED
      BY <1>0, <2>4, <3>2, <3>3 DEF ProgressInv
  <2> QED
    BY <2>2, <2>3, <2>4
<1>5. CASE LandsLater \/ UNCHANGED vars
  <2>1. UNCHANGED <<pc, at, ok, base>>
    BY <1>5 DEF LandsLater, vars, tried
  <2> QED
    BY <1>0, <1>a, <2>1 DEF ProgressInv
<1>6. CASE PrecheckYes \/ PrecheckNo \/ NoPrecheck \/ Judge \/ Escalate \/ RefreshOk
           \/ RefreshFails \/ AttemptRaises
  <2>1. pc' \notin Session
    BY <1>6 DEF PrecheckYes, PrecheckNo, NoPrecheck, Judge, Escalate, RefreshOk, RefreshFails,
         AttemptRaises, Dispatch, Fail, Return, Session
  <2> QED
    BY <2>1 DEF ProgressInv
<1> QED
  BY <1>1, <1>2, <1>3, <1>4, <1>5, <1>6 DEF Next, Step

\* The signals: one that comes after its baseline is of a write performed since.
LEMMA StepSignal ==
  ASSUME TypeInv, ClaimInv, [Next]_vars
  PROVE  SignalInv'
<1>0. /\ flow' = flow /\ Commit' = Commit /\ Commit \in 1..N
      /\ flow.barriers \subseteq Marked /\ Marked \subseteq 1..N
      /\ \A s \in 1..N : performed[s] > 0 => performed'[s] > 0
  <2>1. flow' = flow /\ \A s \in 1..N : performed[s] > 0 => performed'[s] > 0
    BY Monotone
  <2> QED
    BY <2>1, FlowFacts DEF Commit, TypeInv
<1>a. /\ base = "absent" /\ Commit \in shown => performed[Commit] > 0
      /\ pc \in {"gate", "barrier"} /\ at \in flow.barriers /\ ~pre /\ at \in shown =>
           performed[at] > 0
      /\ \A s \in ok \cap flow.barriers : performed[s] > 0
      /\ pc \in {"step", "gate", "barrier", "finalize"} => ~confirmed
      /\ confirmed => flow.declared /\ base # "present"
      /\ confirmed /\ base = "absent" => performed[Commit] > 0
  BY DEF ClaimInv, SignalInv
<1> HIDE DEF Marked
<1>1. CASE OpenSession
  <2>1. base' = "none" /\ ok' = {} /\ pc' = "step" /\ confirmed' = FALSE
    BY <1>1 DEF OpenSession
  <2> QED
    BY <2>1 DEF SignalInv
<1>2. CASE Baseline
  <2>1. /\ UNCHANGED <<shown, performed, at, ok, confirmed>> /\ pc = "step" /\ pc' = "gate"
        /\ pre' = (at \in flow.barriers \cap shown)
    BY <1>2 DEF Baseline, world, verdict
  <2>2. base' = "absent" => base = "absent" \/ Commit \notin shown
    BY <1>2 DEF Baseline
  <2> QED
    BY <1>0, <1>a, <2>1, <2>2 DEF SignalInv
<1>3. CASE GateRefuses \/ EndOfRecipe
  <2>1. /\ UNCHANGED <<shown, performed, ok, confirmed, base>> /\ pc \in {"step", "gate"}
        /\ pc' = "finalize"
    BY <1>3 DEF GateRefuses, EndOfRecipe, world, tried, verdict
  <2> QED
    BY <1>0, <1>a, <2>1 DEF SignalInv
<1>4. CASE ActOk \/ ActFails
  <2>0. Acts
    BY <1>4 DEF ActOk, ActFails
  <2>1. /\ UNCHANGED <<confirmed, base, pre>> /\ at \in 1..N
        /\ pc = "gate" \/ (pc = "step" /\ at \notin Marked)
    BY <1>0, <2>0, ActsSends DEF Acts, verdict
  <2>2. \A s \in 1..N : s \in shown' => s \in shown \/ performed'[s] > 0
    BY <2>0, ShownCaused
  <2>3. \/ pc' = "finalize" /\ ok' = ok
        \/ pc' = "barrier" /\ ok' = ok /\ at' = at /\ at \in flow.barriers
        \/ pc' = "step" /\ ok' = ok \cup {at} /\ at \notin flow.barriers
    BY <1>4 DEF ActOk, ActFails, StepDone
  <2>4. ~confirmed'
    BY <1>a, <2>1
  <2>5. base' = "absent" /\ Commit \in shown' => performed'[Commit] > 0
    BY <1>0, <1>a, <2>1, <2>2
  <2>6. pc' = "barrier" /\ ~pre' /\ at' \in shown' => performed'[at'] > 0
    BY <1>0, <1>a, <2>1, <2>2, <2>3
  <2>7. \A s \in ok' \cap flow.barriers : performed'[s] > 0
    BY <1>0, <1>a, <2>3
  <2>8. pc' # "gate"
    BY <2>3
  <2> QED
    BY <1>0, <2>4, <2>5, <2>6, <2>7, <2>8 DEF SignalInv
<1>5. CASE Barrier
  <2>1. /\ UNCHANGED <<shown, performed, base, confirmed>> /\ pc = "barrier"
    BY <1>5 DEF Barrier, world, verdict
  <2>2. \/ pc' = "step" /\ ok' = ok \cup {at} /\ ~pre /\ at \in shown
        \/ pc' = "finalize" /\ ok' = ok
    BY <1>5 DEF Barrier, StepDone
  <2>3. \A s \in ok' \cap flow.barriers : performed[s] > 0
    BY <1>a, <2>1, <2>2
  <2> QED
    BY <1>0, <1>a, <2>1, <2>2, <2>3 DEF SignalInv
<1>6. CASE Finalize
  <2>1. /\ UNCHANGED <<shown, performed, base, ok>> /\ pc' = "judge"
        /\ confirmed' = (flow.declared /\ base # "present" /\ Commit \in shown)
    BY <1>6 DEF Finalize, world, tried
  <2> QED
    BY <1>0, <1>a, <2>1 DEF SignalInv
<1>7. CASE LandsLater
  <2>1. UNCHANGED <<pc, at, ok, pre, base, confirmed>>
    BY <1>7 DEF LandsLater, tried, verdict
  <2>2. \A s \in 1..N : s \in shown' => s \in shown \/ performed'[s] > 0
    BY <1>7, ShownCaused
  <2>3. base' = "absent" /\ Commit \in shown' => performed'[Commit] > 0
    BY <1>0, <1>a, <2>1, <2>2
  <2>4. pc' \in {"gate", "barrier"} /\ at' \in flow.barriers /\ ~pre' /\ at' \in shown' =>
          performed'[at'] > 0
    BY <1>0, <1>a, <2>1, <2>2
  <2>5. \A s \in ok' \cap flow.barriers : performed'[s] > 0
    BY <1>0, <1>a, <2>1
  <2> QED
    BY <1>0, <1>a, <2>1, <2>3, <2>4, <2>5 DEF SignalInv
<1>8. CASE Judge \/ Escalate \/ PrecheckYes \/ RefreshOk \/ RefreshFails \/ AttemptRaises
           \/ PrecheckNo \/ NoPrecheck
  <2>1. /\ UNCHANGED <<shown, performed, base, ok, confirmed>>
        /\ pc' \notin {"step", "gate", "barrier", "finalize"}
    BY <1>8 DEF Judge, Escalate, PrecheckYes, RefreshOk, RefreshFails, AttemptRaises,
         PrecheckNo, NoPrecheck, Dispatch, Fail, Return, world, tried, verdict
  <2> QED
    BY <1>0, <1>a, <2>1 DEF SignalInv
<1>9. CASE UNCHANGED vars
  <2>1. UNCHANGED <<shown, performed, pc, at, pre, base, ok, confirmed>>
    BY <1>9 DEF vars, world, tried, verdict
  <2> QED
    BY <1>0, <1>a, <2>1 DEF SignalInv
<1> QED
  BY <1>1, <1>2, <1>3, <1>4, <1>5, <1>6, <1>7, <1>8, <1>9 DEF Next, Step

\* An attempt judged to have confirmed its write has had every claimed write
\* performed: the baseline was taken before the first marked step.
LEMMA ConfirmedClaims ==
  ASSUME TypeInv, ClaimInv, pc = "judge", confirmed, flow.declared,
         Marked \subseteq ok
  PROVE  base # "none" => ClaimsPerformed
<1>1. flow.barriers \cap Writes \subseteq ok \cap flow.barriers
  BY FlowFacts DEF TypeInv
<1>2. \A s \in flow.barriers \cap Writes : performed[s] > 0
  BY <1>1 DEF ClaimInv, SignalInv
<1>3. base # "none" => performed[Commit] > 0
  BY DEF ClaimInv, SignalInv, TypeInv, TypeOK
<1> QED
  BY <1>2, <1>3 DEF ClaimsPerformed, Claimed

\* A recipe that ran to its end has every marked step ok and its baseline taken.
LEMMA RanToEnd ==
  ASSUME TypeInv, ClaimInv, pc = "judge", ~(at <= N), flow.declared
  PROVE  Marked \subseteq ok /\ base # "none"
<1>1. at = N + 1 /\ N \in Nat
  BY LengthAssumption DEF TypeInv, TypeOK
<1>2. \A s \in 1..N : s < at
  BY <1>1
<1>3. Marked \subseteq 1..N /\ Commit \in Marked
  BY FlowFacts DEF TypeInv
<1>4. Marked \subseteq ok
  BY <1>2, <1>3 DEF ClaimInv, ProgressInv, Session
<1>5. base # "none"
  BY <1>2, <1>3 DEF ClaimInv, ProgressInv, Session
<1> QED
  BY <1>4, <1>5

\* The answers: what an attempt's verdict or the call's answer claims, happened.
LEMMA StepAnswer ==
  ASSUME TypeInv, ClaimInv, [Next]_vars
  PROVE  AnswerInv'
<1>0. /\ flow' = flow /\ (ClaimsPerformed => ClaimsPerformed')
      /\ (flow.declared /\ Done => (flow.declared /\ Done)')
  <2>1. /\ flow' = flow /\ earlier' = earlier
        /\ \A s \in 1..N : performed[s] > 0 => performed'[s] > 0
    BY Monotone
  <2>2. Claimed' = Claimed /\ Claimed \subseteq 1..N /\ Commit' = Commit /\ Commit \in 1..N
    BY <2>1, FlowFacts DEF Claimed, Commit, Writes, WritesIn, TypeInv
  <2> QED
    BY <2>1, <2>2 DEF ClaimsPerformed, Done
<1>a. /\ landed => ClaimsPerformed
      /\ pc # "done" => kind \notin HardStops /\ answer = "none" /\ ~armed
      /\ attempt = 2 \/ pc = "refresh" => kind # "none"
      /\ pc = "done" => answer # "none"
      /\ answer = "confirmed" \/ armed => ClaimsPerformed
      /\ answer = "already-done" => flow.declared /\ Done
  BY DEF ClaimInv, AnswerInv
<1>1. CASE PrecheckYes
  <2>1. /\ pc' = "done" /\ answer' = "already-done" /\ armed' = FALSE /\ landed' = landed
        /\ flow.precheck /\ Done /\ UNCHANGED <<kind, attempt>>
    BY <1>1 DEF PrecheckYes, Return, tried, verdict
  <2>2. (flow.declared /\ Done)'
    BY <1>0, <2>1, FlowFacts DEF TypeInv
  <2> QED
    BY <1>0, <1>a, <2>1, <2>2 DEF AnswerInv
<1>2. CASE PrecheckNo \/ NoPrecheck \/ OpenSession \/ Baseline \/ GateRefuses \/ ActOk
           \/ ActFails \/ Barrier \/ EndOfRecipe \/ Finalize \/ RefreshOk
  <2>1. /\ UNCHANGED <<landed, kind, answer, armed>> /\ pc # "done" /\ pc' \notin {"done", "refresh"}
        /\ attempt' = attempt \/ pc = "refresh"
    BY <1>2 DEF PrecheckNo, NoPrecheck, OpenSession, Baseline, GateRefuses, ActOk, ActFails,
         Barrier, EndOfRecipe, Finalize, RefreshOk, Acts, StepDone, tried, verdict, ending
  <2> QED
    BY <1>0, <1>a, <2>1 DEF AnswerInv
<1>3. CASE Judge
  <2>1. /\ pc = "judge" /\ UNCHANGED <<flow, world, tried, confirmed>>
        /\ landed' = (landed \/ (Transition /\ AllWritesOk))
    BY <1>3 DEF Judge
  <2>2. PICK k \in Verdicts :
          \/ k = "ok" /\ Return(IF flow.declared THEN "confirmed" ELSE "data") /\ UNCHANGED kind
          \/ k # "ok" /\ Dispatch(k)
    BY <1>3 DEF Judge
  <2>3. landed' => ClaimsPerformed
    <3>1. ASSUME Transition, AllWritesOk PROVE ClaimsPerformed
      <4>1. confirmed /\ base # "none" /\ Marked \subseteq ok
        BY <3>1 DEF Transition, AllWritesOk
      <4>2. flow.declared
        BY <4>1 DEF ClaimInv, SignalInv
      <4> QED
        BY <2>1, <4>1, <4>2, ConfirmedClaims
    <3> QED
      BY <1>a, <2>1, <3>1
  <2>4. ASSUME flow.declared, k \in {"ok", "write_unreadable"} PROVE ClaimsPerformed
    <3>1. ~(at <= N) /\ confirmed
      BY <2>4 DEF Verdicts
    <3>2. Marked \subseteq ok /\ base # "none"
      BY <2>1, <2>4, <3>1, RanToEnd
    <3> QED
      BY <2>1, <2>4, <3>1, <3>2, ConfirmedClaims
  <2>5. k = "write_unreadable" => flow.declared
    BY <2>2 DEF Verdicts
  <2>6. k \in Failures \cup {"ok"}
    BY DEF Verdicts, Failures
  <2>7. CASE k = "ok"
    <3>1. /\ pc' = "done" /\ armed' = FALSE /\ UNCHANGED <<kind, attempt>>
          /\ answer' = IF flow.declared THEN "confirmed" ELSE "data"
      BY <2>1, <2>2, <2>7 DEF Return, Dispatch, tried
    <3> QED
      BY <1>0, <1>a, <2>3, <2>4, <2>7, <3>1 DEF AnswerInv
  <2>8. CASE k # "ok" /\ pc' = "refresh"
    <3>1. kind' = k /\ k \notin HardStops /\ UNCHANGED <<answer, armed>>
      BY <2>2, <2>8 DEF Dispatch, Fail, ending
    <3>2. k # "none"
      BY <2>6, <2>8 DEF Failures
    <3> QED
      BY <1>0, <1>a, <2>1, <2>3, <2>8, <3>1, <3>2 DEF AnswerInv
  <2>9. CASE k # "ok" /\ pc' # "refresh"
    <3>1. pc' = "done" /\ answer' = k /\ kind' = k /\ armed' = (landed' \/ k = "write_unreadable")
      BY <2>2, <2>9 DEF Dispatch, Fail
    <3>2. k \notin {"none", "confirmed", "already-done"}
      BY <2>6, <2>9 DEF Failures
    <3>3. armed' => ClaimsPerformed
      BY <2>3, <2>4, <2>5, <3>1
    <3> QED
      BY <1>0, <2>3, <3>1, <3>2, <3>3 DEF AnswerInv
  <2> QED
    BY <2>7, <2>8, <2>9
<1>4. CASE Escalate
  <2>1. pc = "open" /\ landed' = landed /\ Dispatch("escalate")
    BY <1>4 DEF Escalate
  <2>2. \/ pc' = "refresh" /\ kind' = "escalate" /\ UNCHANGED <<answer, armed>>
        \/ pc' = "done" /\ kind' = "escalate" /\ answer' = "escalate" /\ (armed' => landed')
    BY <2>1 DEF Dispatch, Fail, ending
  <2>3. "escalate" \notin HardStops
    BY DEF HardStops
  <2> QED
    BY <1>0, <1>a, <2>1, <2>2, <2>3 DEF AnswerInv
<1>5. CASE RefreshFails \/ AttemptRaises
  <2>1. /\ pc # "done" /\ UNCHANGED <<landed, kind, attempt>> /\ pc' = "done"
        /\ \/ answer' = kind /\ (attempt = 2 \/ pc = "refresh") /\ armed' = (landed' \/ kind = "write_unreadable")
           \/ answer' = "crashed" /\ armed' = FALSE
    BY <1>5 DEF RefreshFails, AttemptRaises, Return, Fail, tried, verdict
  <2>2. kind \notin HardStops /\ kind \notin {"confirmed", "already-done"}
    BY <1>a, <2>1 DEF TypeInv, TypeOK, Failures
  <2>3. armed' => landed
    BY <2>1, <2>2 DEF HardStops
  <2> QED
    BY <1>0, <1>a, <2>1, <2>2, <2>3 DEF AnswerInv
<1>6. CASE LandsLater \/ UNCHANGED vars
  <2>1. UNCHANGED <<landed, kind, answer, armed, pc, attempt>>
    BY <1>6 DEF LandsLater, vars, tried, verdict, ending
  <2> QED
    BY <1>0, <1>a, <2>1 DEF AnswerInv
<1> QED
  BY <1>1, <1>2, <1>3, <1>4, <1>5, <1>6 DEF Next, Step

\* Every start of a call satisfies the invariant.
LEMMA InitClaim == Init => ClaimInv
<1> SUFFICES ASSUME Init PROVE ClaimInv
  OBVIOUS
<1>1. SignalInv
  BY DEF Init, SignalInv
<1>2. ProgressInv
  BY DEF Init, ProgressInv, Session
<1>3. AnswerInv
  BY DEF Init, AnswerInv, HardStops
<1>4. \A t \in Writes : Sent(t) = 0
  <2>1. Writes \subseteq 1..N
    BY InitTyped, FlowFacts DEF TypeInv
  <2> QED
    BY <2>1 DEF Init, Sent
<1>5. OrderInv
  BY <1>4 DEF OrderInv
<1> QED
  BY <1>1, <1>2, <1>3, <1>5 DEF ClaimInv

\* Every step keeps it.
LEMMA StepClaim == TypeInv /\ ClaimInv /\ [Next]_vars => ClaimInv'
<1> SUFFICES ASSUME TypeInv, ClaimInv, [Next]_vars PROVE ClaimInv'
  OBVIOUS
<1>1. SignalInv'
  BY StepSignal
<1>2. ProgressInv'
  BY StepProgress
<1>3. AnswerInv'
  BY StepAnswer
<1>4. OrderInv'
  BY StepOrder
<1> QED
  BY <1>1, <1>2, <1>3, <1>4 DEF ClaimInv

\* The whole inductive invariant holds of every call.
LEMMA CausedInvariance == Spec => [](TypeInv /\ ClaimInv)
<1>1. Init => TypeInv /\ ClaimInv
  BY InitTyped, InitClaim
<1>2. TypeInv /\ ClaimInv /\ [Next]_vars => (TypeInv /\ ClaimInv)'
  BY StepTyped, StepClaim
<1> QED
  BY <1>1, <1>2, PTL DEF Spec

\* An answer that says a write landed, or an error that arms the ledger, is
\* given only when it did, whatever was late, missed or raised on the way.
THEOREM ClaimsAreTrue == Spec => []ClaimIsTrue
<1>1. Spec => [](TypeInv /\ ClaimInv)
  BY CausedInvariance
<1>2. TypeInv /\ ClaimInv => ClaimIsTrue
  BY DEF ClaimInv, AnswerInv, ClaimsPerformed, ClaimIsTrue
<1> QED
  BY <1>1, <1>2, PTL

\* No write is sent before every earlier write with a commit barrier has been
\* performed: what transaction-aware replay exists for.
THEOREM BarriersKeepOrder == Spec => []BarriersOrder
<1>1. Spec => [](TypeInv /\ ClaimInv)
  BY CausedInvariance
<1>2. TypeInv /\ ClaimInv => BarriersOrder
  BY DEF ClaimInv, OrderInv, BarriersOrder
<1> QED
  BY <1>1, <1>2, PTL

\* A call ends by answering, once, in a step that leaves the target alone.
LEMMA EndsAlone ==
  ASSUME TypeInv, ClaimInv, Next
  PROVE  \/ UNCHANGED <<answer, armed>>
         \/ pc # "done" /\ pc' = "done" /\ UNCHANGED world
<1>1. \/ UNCHANGED <<answer, armed>>
      \/ PrecheckYes \/ Judge \/ Escalate \/ RefreshFails \/ AttemptRaises
  BY DEF Next, Step, PrecheckNo, NoPrecheck, OpenSession, Baseline, GateRefuses, ActOk,
     ActFails, Barrier, EndOfRecipe, Finalize, RefreshOk, LandsLater, Acts, StepDone,
     ending
<1>2. CASE PrecheckYes \/ RefreshFails \/ AttemptRaises
  BY <1>2 DEF PrecheckYes, RefreshFails, AttemptRaises, Return, Fail
<1>3. CASE Judge \/ Escalate
  BY <1>3 DEF Judge, Escalate, Dispatch, Fail, Return, ending
<1> QED
  BY <1>1, <1>2, <1>3

\* A call keeps the contract run_batch and its ledger build on: it answers once,
\* and claims a landed write only when the write had landed.
THEOREM CallsKeepContract == Spec => ImplementsContract
<1>1. Spec => [](TypeInv /\ ClaimInv)
  BY CausedInvariance
<1>2. Init => Contract!Init
  <2> SUFFICES ASSUME Init PROVE Contract!Init
    OBVIOUS
  <2>1. (flow.declared /\ Done) \in BOOLEAN
    OBVIOUS
  <2> QED
    BY <2>1 DEF Init, Contract!Init, Outcome
<1>3. TypeInv /\ ClaimInv /\ [Next]_vars /\ (TypeInv /\ ClaimInv)' =>
        [Contract!Next]_<<flow.declared /\ Done, Outcome>>
  <2> SUFFICES ASSUME TypeInv, ClaimInv, [Next]_vars, AnswerInv'
               PROVE  [Contract!Next]_<<flow.declared /\ Done, Outcome>>
    BY DEF ClaimInv
  <2>0. /\ flow' = flow /\ (flow.declared /\ Done => (flow.declared /\ Done)')
        /\ Commit' = Commit /\ flow.declared \in BOOLEAN
    <3>1. /\ flow' = flow /\ earlier' = earlier
          /\ \A s \in 1..N : performed[s] > 0 => performed'[s] > 0
      BY Monotone
    <3>2. Commit' = Commit /\ Commit \in 1..N /\ flow.declared \in BOOLEAN
      BY <3>1, FlowFacts DEF Commit, TypeInv
    <3> QED
      BY <3>1, <3>2 DEF Done
  <2>1. CASE UNCHANGED <<answer, armed>>
    <3>1. Outcome' = Outcome
      BY <2>1 DEF Outcome
    <3>2. CASE (flow.declared /\ Done)' = (flow.declared /\ Done)
      BY <3>1, <3>2
    <3>3. CASE (flow.declared /\ Done)' # (flow.declared /\ Done)
      <4>1. (flow.declared /\ Done)' = TRUE
        BY <2>0, <3>3
      <4> QED
        BY <3>1, <4>1 DEF Contract!Next, Contract!Land
    <3> QED
      BY <3>2, <3>3
  <2>2. CASE pc # "done" /\ pc' = "done" /\ UNCHANGED world
    <3>1. Outcome = "none"
      BY <2>2 DEF ClaimInv, AnswerInv, Outcome
    <3>2. (flow.declared /\ Done)' = (flow.declared /\ Done)
      BY <2>0, <2>2 DEF world, Done
    <3>3. ClaimsPerformed => flow.declared /\ performed[Commit] > 0
      BY DEF ClaimsPerformed, Claimed
    <3>4. ClaimsPerformed' => flow.declared /\ Done
      <4>1. ClaimsPerformed' => flow'.declared /\ performed'[Commit'] > 0
        BY DEF ClaimsPerformed, Claimed
      <4> QED
        BY <2>0, <2>2, <4>1 DEF world, Done
    <3>5. /\ answer' # "none"
          /\ answer' = "confirmed" \/ armed' => flow.declared /\ Done
          /\ answer' = "already-done" => flow.declared /\ Done
      BY <2>2, <3>2, <3>4 DEF AnswerInv
    <3>6. Outcome' \in {"ok", "landed", "unclaimed"}
      BY <3>5 DEF Outcome
    <3>7. Outcome' # "unclaimed" => flow.declared /\ Done
      BY <3>5 DEF Outcome
    <3>8. Contract!Answer
      BY <3>1, <3>2, <3>6, <3>7 DEF Contract!Answer
    <3> QED
      BY <3>8 DEF Contract!Next
  <2>3. [Next]_vars => UNCHANGED <<answer, armed>> \/ Next
    BY DEF vars, ending
  <2> QED
    BY <2>1, <2>2, <2>3, EndsAlone
<1> QED
  BY <1>1, <1>2, <1>3, PTL DEF Spec, ImplementsContract, Contract!Spec

-------------------------------------------------------------------------------
(* The sum over the routers                                                *)

\* One step of the sum of what the routers have answered since a run was armed.
Fold(c, S, f) ==
  [s \in SUBSET S |-> IF s = {} THEN 0 ELSE LET x == CHOOSE x \in s : TRUE IN Since(c, x) + f[s \ {x}]]


LEMMA BillIsFold ==
  ASSUME NEW c \in Calls, watch[c] # None, Foreign \notin {setup[c].agent, setup[c].reader},
         NEW n, \E f : f = Fold(c, DOMAIN watch[c], f),
         \A f : f = Fold(c, DOMAIN watch[c], f) => f[DOMAIN watch[c]] = n
  PROVE  Bill(c) = n
<1> DEFINE It == CHOOSE f : f = Fold(c, DOMAIN watch[c], f)
<1>1. Bill(c) = It[DOMAIN watch[c]]
  BY SMT DEF Bill, MapThenFoldSet, MapThenSumSet, Fold
<1>2. It = Fold(c, DOMAIN watch[c], It)
  BY Zenon
<1> QED
  BY <1>1, <1>2

LEMMA SumOfNone ==
  ASSUME NEW c \in Calls
  PROVE  /\ \E f : f = Fold(c, {}, f)
         /\ \A f : f = Fold(c, {}, f) => f[{}] = 0
<1> DEFINE g == [s \in SUBSET {} |-> 0]
<1>1. g = Fold(c, {}, g)
  BY DEF Fold
<1>2. ASSUME NEW f, f = Fold(c, {}, f) PROVE f[{}] = 0
  BY <1>2 DEF Fold
<1> QED
  BY <1>1, <1>2

LEMMA SumOfOne ==
  ASSUME NEW c \in Calls, NEW a, Since(c, a) \in Nat
  PROVE  /\ \E f : f = Fold(c, {a}, f)
         /\ \A f : f = Fold(c, {a}, f) => f[{a}] = Since(c, a)
<1>1. /\ (CHOOSE x \in {a} : TRUE) = a
      /\ SUBSET {a} = {{}, {a}} /\ {a} \ {a} = {} /\ {} \in SUBSET {a}
  OBVIOUS
<1> DEFINE g == [s \in SUBSET {a} |-> IF s = {} THEN 0 ELSE Since(c, a)]
<1>2. g = Fold(c, {a}, g)
  BY <1>1 DEF Fold
<1>3. ASSUME NEW f, f = Fold(c, {a}, f) PROVE f[{a}] = Since(c, a)
  <2>1. f[{}] = 0 /\ f[{a}] = Since(c, a) + f[{}]
    BY <1>1, <1>3 DEF Fold
  <2> QED
    BY <2>1
<1> QED
  BY <1>2, <1>3

LEMMA SumOfTwo ==
  ASSUME NEW c \in Calls, NEW a, NEW b, a # b, Since(c, a) \in Nat, Since(c, b) \in Nat
  PROVE  /\ \E f : f = Fold(c, {a, b}, f)
         /\ \A f : f = Fold(c, {a, b}, f) => f[{a, b}] = Since(c, a) + Since(c, b)
<1>1. /\ (CHOOSE x \in {a} : TRUE) = a /\ (CHOOSE x \in {b} : TRUE) = b
      /\ (CHOOSE x \in {a, b} : TRUE) \in {a, b}
      /\ {a} \ {a} = {} /\ {b} \ {b} = {} /\ {a, b} \ {a} = {b} /\ {a, b} \ {b} = {a}
      /\ {{}, {a}, {b}, {a, b}} \subseteq SUBSET {a, b}
      /\ {a} # {b} /\ {a, b} # {a} /\ {a, b} # {b}
  OBVIOUS
<1> DEFINE g == [s \in SUBSET {a, b} |->
                  IF s = {} THEN 0 ELSE IF s = {a} THEN Since(c, a) ELSE IF s = {b} THEN Since(c, b)
                  ELSE Since(c, a) + Since(c, b)]
<1>2. g = Fold(c, {a, b}, g)
  <2>1. ASSUME NEW s \in SUBSET {a, b} PROVE g[s] = Fold(c, {a, b}, g)[s]
    <3>0. s \in {{}, {a}, {b}, {a, b}}
      OBVIOUS
    <3>1. CASE s = {}
      BY <3>1 DEF Fold
    <3>2. CASE s = {a}
      BY <3>2, <1>1 DEF Fold
    <3>3. CASE s = {b}
      BY <3>3, <1>1 DEF Fold
    <3>4. CASE s = {a, b}
      <4>1. g[{a}] = Since(c, a) /\ g[{b}] = Since(c, b) /\ g[s] = Since(c, a) + Since(c, b)
        BY <3>4, <1>1
      <4>2. Fold(c, {a, b}, g)[s] = LET x == CHOOSE x \in s : TRUE IN Since(c, x) + g[s \ {x}]
        BY <3>4 DEF Fold
      <4>3. CASE (CHOOSE x \in s : TRUE) = a
        BY <4>1, <4>2, <4>3, <3>4, <1>1
      <4>4. CASE (CHOOSE x \in s : TRUE) = b
        <5>1. Fold(c, {a, b}, g)[s] = Since(c, b) + g[{a}]
          BY <4>2, <4>4, <3>4, <1>1
        <5> QED
          BY <5>1, <4>1
      <4> QED
        BY <4>3, <4>4, <3>4, <1>1
    <3> QED
      BY <3>0, <3>1, <3>2, <3>3, <3>4
  <2>2. /\ g = [s \in SUBSET {a, b} |-> g[s]]
        /\ Fold(c, {a, b}, g) = [s \in SUBSET {a, b} |-> Fold(c, {a, b}, g)[s]]
    BY DEF Fold
  <2> QED
    BY <2>1, <2>2
<1>3. ASSUME NEW f, f = Fold(c, {a, b}, f) PROVE f[{a, b}] = Since(c, a) + Since(c, b)
  <2>1. f[{}] = 0
    BY <1>3, <1>1 DEF Fold
  <2>2. f[{a}] = Since(c, a) + f[{}]
    BY <1>3, <1>1 DEF Fold
  <2>3. f[{b}] = Since(c, b) + f[{}]
    BY <1>3, <1>1 DEF Fold
  <2>4. f[{a, b}] = Since(c, a) + f[{b}] \/ f[{a, b}] = Since(c, b) + f[{a}]
    BY <1>3, <1>1 DEF Fold
  <2> QED
    BY <2>1, <2>2, <2>3, <2>4
<1> QED
  BY <1>2, <1>3
-------------------------------------------------------------------------------
(* The driver                                                              *)

Serving == {"in", "page", "closing", "leaving"}

\* The holders that have a reference.
Served == {h \in Holders : use[h] \in Serving}

Locking == {"starting", "shaking", "stopping"}

\* The lock is held by the one who starts or stops the driver, while there is none
\* to hand out.
Locked ==
  \A h \in Holders :
    /\ use[h] \in Locking <=> lock = h
    /\ use[h] \in Locking => ~pw

\* Who gave up half way does not come back.
Gone ==
  /\ \A h \in lost : use[h] = "out" /\ (h \in Calls => pass[h] = "over" \/ fate[h] = "cancelled")
  /\ \A c \in Calls : pass[c] \in {"idle", "over"} => use[c] = "out"
  /\ \A c \in Calls : pass[c] = "idle" => fate[c] = None

\* Every reference that is counted and every driver that runs is somebody's, or was lost;
\* a driver is on its way in or out with the one who holds the lock.
Handed == IF pw THEN 1 ELSE 0
Halfway == IF lock # None /\ use[lock] \in {"shaking", "stopping"} THEN 1 ELSE 0
Counted ==
  /\ pw <=> refs > 0
  /\ Cardinality(Served) <= refs
  /\ Handed + Halfway <= running
  /\ running + refs <= Cardinality(lost) + Handed + Halfway + Cardinality(Served)

DriverInv == RunsTypeOK /\ Locked /\ Gone /\ Counted

\* The holders are finitely many, and the entry's lock may be free.
LEMMA HoldersFinite ==
  /\ IsFiniteSet(Holders) /\ None \notin Holders
  /\ \A S \in SUBSET Holders : IsFiniteSet(S) /\ Cardinality(S) \in Nat
  /\ \A c \in Calls : c \in Holders /\ c \notin Scopes
  /\ \A s \in Scopes : s \in Holders /\ s \notin Calls
<1>1. IsFiniteSet(Holders) /\ None \notin Holders
  BY HoldersAssumption, OwnersAssumption, FS_Union DEF Holders
<1>2. ASSUME NEW S \in SUBSET Holders PROVE IsFiniteSet(S) /\ Cardinality(S) \in Nat
  BY <1>1, FS_Subset, FS_CardinalityType
<1> QED
  BY <1>1, <1>2, HoldersAssumption DEF Holders

\* A holder that moves adds a reference or takes it away.
LEMMA ServedMoves ==
  ASSUME RunsTypeOK, NEW h \in Holders, NEW v, use' = [use EXCEPT ![h] = v]
  PROVE  /\ Cardinality(Served) \in Nat /\ Cardinality(Served)' \in Nat
         /\ use[h] \notin Serving /\ v \in Serving => Cardinality(Served)' = Cardinality(Served) + 1
         /\ use[h] \in Serving /\ v \notin Serving => Cardinality(Served)' = Cardinality(Served) - 1
         /\ (use[h] \in Serving <=> v \in Serving) => Cardinality(Served)' = Cardinality(Served)
<1>1. Served \in SUBSET Holders /\ Served' \in SUBSET Holders
  BY DEF Served
<1>2. IsFiniteSet(Served) /\ Cardinality(Served) \in Nat /\ Cardinality(Served)' \in Nat
  BY <1>1, HoldersFinite
<1>3. \A g \in Holders : use'[g] = IF g = h THEN v ELSE use[g]
  BY DEF RunsTypeOK
<1>4. h \in Served <=> use[h] \in Serving
  BY DEF Served
<1>5. CASE v \in Serving
  <2>1. Served' = Served \cup {h}
    BY <1>3, <1>5 DEF Served
  <2>2. Cardinality(Served)' = IF h \in Served THEN Cardinality(Served) ELSE Cardinality(Served) + 1
    BY <2>1, <1>2, FS_AddElement
  <2> QED
    BY <2>2, <1>2, <1>4, <1>5
<1>6. CASE v \notin Serving
  <2>1. Served' = Served \ {h}
    BY <1>3, <1>6 DEF Served
  <2>2. Cardinality(Served)' = IF h \in Served THEN Cardinality(Served) - 1 ELSE Cardinality(Served)
    BY <2>1, <1>2, FS_RemoveElement
  <2> QED
    BY <2>2, <1>2, <1>4, <1>6
<1> QED
  BY <1>5, <1>6

LEMMA Takes ==
  ASSUME RunsTypeOK, NEW h \in Holders, NEW v \in Serving, use[h] \notin Serving,
         use' = [use EXCEPT ![h] = v]
  PROVE  Cardinality(Served)' = Cardinality(Served) + 1
BY ServedMoves

LEMMA GivesBack ==
  ASSUME RunsTypeOK, NEW h \in Holders, NEW v, v \notin Serving, use[h] \in Serving,
         use' = [use EXCEPT ![h] = v]
  PROVE  Cardinality(Served)' = Cardinality(Served) - 1
BY ServedMoves

LEMMA Keeps ==
  ASSUME RunsTypeOK, NEW h \in Holders, NEW v, use[h] \in Serving <=> v \in Serving,
         use' = [use EXCEPT ![h] = v]
  PROVE  Cardinality(Served)' = Cardinality(Served)
BY ServedMoves

LEMMA LostGrows ==
  ASSUME RunsTypeOK, NEW h \in Holders, h \notin lost
  PROVE  /\ Cardinality(lost) \in Nat
         /\ Cardinality(lost \cup {h}) = Cardinality(lost) + 1
<1>1. IsFiniteSet(lost) /\ Cardinality(lost) \in Nat
  BY HoldersFinite DEF RunsTypeOK
<1> QED
  BY <1>1, FS_AddElement

\* A holder with a reference has a driver.
LEMMA ServedHasDriver ==
  ASSUME DriverInv, NEW h \in Holders, use[h] \in Serving
  PROVE  pw /\ refs > 0 /\ Cardinality(Served) > 0
<1>1. Served \in SUBSET Holders /\ h \in Served
  BY DEF Served
<1>2. IsFiniteSet(Served) /\ Cardinality(Served) \in Nat
  BY <1>1, HoldersFinite
<1>3. Cardinality(Served) # 0
  BY <1>1, <1>2, FS_EmptySet
<1> QED
  BY <1>2, <1>3 DEF DriverInv, Counted, RunsTypeOK
\* Holding the lock, or leaving it alone.
LEMMA LockFacts ==
  ASSUME DriverInv, NEW h \in Holders
  PROVE  /\ use[h] \in Locking <=> lock = h
         /\ lock = h => ~pw
         /\ lock = None => Halfway = 0 /\ \A g \in Holders : use[g] \notin Locking
         /\ lock = h => Halfway = (IF use[h] \in {"shaking", "stopping"} THEN 1 ELSE 0)
         /\ Halfway \in {0, 1}
         /\ pw => Halfway = 0
         /\ h \in lost => use[h] = "out"
         /\ \A g \in Holders : g # None
BY HoldersFinite DEF DriverInv, Locked, Gone, Halfway, Locking, RunsTypeOK

LEMMA Counts ==
  ASSUME DriverInv
  PROVE  /\ Cardinality(lost) \in Nat /\ Cardinality(Served) \in Nat /\ refs \in Nat /\ running \in Nat
         /\ pw \in BOOLEAN
BY HoldersFinite DEF DriverInv, RunsTypeOK, Served

LEMMA EnterKeeps ==
  ASSUME DriverInv, NEW h \in Holders, Enter(h)
  PROVE  Locked' /\ Gone' /\ Counted'
<1>1. use \in [Holders -> Drivers \cup {"out"}] /\ lock = None /\ use[h] = "asking"
  BY DEF Enter, DriverInv, RunsTypeOK
<1>2. UNCHANGED <<pw, running, lost, pass, fate>>
  BY DEF Enter, story
<1>3. CASE pw
  <2>1. refs' = refs + 1 /\ use' = [use EXCEPT ![h] = "in"] /\ lock' = None
    BY <1>1, <1>3 DEF Enter
  <2>2. Locked' /\ Gone'
    BY <2>1, <1>1, <1>2, <1>3, LockFacts, HoldersFinite DEF DriverInv, Locked, Gone, Locking
  <2>3. Halfway = 0 /\ Halfway' = 0
    BY <2>1, <1>1 DEF Halfway
  <2>4. Cardinality(Served)' = Cardinality(Served) + 1
    BY <2>1, <1>1, Takes DEF DriverInv, Serving
  <2>9. Counted'
    BY <2>1, <2>3, <2>4, <1>2, <1>3, Counts DEF DriverInv, Counted, Handed
  <2> QED
    BY <2>2, <2>9
<1>4. CASE ~pw
  <2>1. refs' = refs /\ use' = [use EXCEPT ![h] = "starting"] /\ lock' = h
    BY <1>4 DEF Enter
  <2>2. Locked' /\ Gone'
    BY <2>1, <1>1, <1>2, <1>4, LockFacts, HoldersFinite DEF DriverInv, Locked, Gone, Locking
  <2>3. Halfway = 0 /\ Halfway' = 0
    BY <2>1, <1>1 DEF Halfway
  <2>4. Cardinality(Served)' = Cardinality(Served)
    BY <2>1, <1>1, Keeps DEF DriverInv, Serving
  <2>9. Counted'
    <3>1. ~pw' /\ Handed = 0 /\ Handed' = 0
      BY <1>2, <1>4 DEF Handed
    <3> QED
      BY <2>1, <2>3, <2>4, <3>1, <1>2, <1>4, Counts DEF DriverInv, Counted
  <2> QED
    BY <2>2, <2>9
<1> QED
  BY <1>3, <1>4

LEMMA SpawnedKeeps ==
  ASSUME DriverInv, NEW h \in Holders, Spawned(h)
  PROVE  Locked' /\ Gone' /\ Counted'
<1>1. /\ use \in [Holders -> Drivers \cup {"out"}] /\ lock = h /\ use[h] = "starting" /\ ~pw
      /\ UNCHANGED <<pw, refs, lock, lost, pass, fate>>
      /\ running' = running + 1
      /\ use' = [use EXCEPT ![h] = "shaking"]
  BY LockFacts DEF Spawned, DriverInv, RunsTypeOK, story, Locking
<1>2. Locked' /\ Gone'
  BY <1>1, LockFacts, HoldersFinite DEF DriverInv, Locked, Gone, Locking
<1>3. Halfway = 0 /\ Halfway' = 1
  BY <1>1, LockFacts DEF Halfway
<1>4. Cardinality(Served)' = Cardinality(Served)
  BY <1>1, Keeps DEF DriverInv, Serving
<1>9. Counted'
  BY <1>1, <1>3, <1>4, Counts DEF DriverInv, Counted, Handed
<1> QED
  BY <1>2, <1>9

LEMMA StartedKeeps ==
  ASSUME DriverInv, NEW h \in Holders, Started(h)
  PROVE  Locked' /\ Gone' /\ Counted'
<1>1. /\ use \in [Holders -> Drivers \cup {"out"}] /\ lock = h /\ use[h] = "shaking" /\ ~pw
      /\ UNCHANGED <<running, lost, pass, fate>>
      /\ pw' = TRUE /\ refs' = refs + 1 /\ lock' = None
      /\ use' = [use EXCEPT ![h] = "in"]
  BY LockFacts DEF Started, DriverInv, RunsTypeOK, story, Locking
<1>2. Locked' /\ Gone'
  BY <1>1, LockFacts, HoldersFinite DEF DriverInv, Locked, Gone, Locking
<1>3. Halfway = 1 /\ Halfway' = 0
  BY <1>1, LockFacts DEF Halfway
<1>4. Cardinality(Served)' = Cardinality(Served) + 1
  BY <1>1, Takes DEF DriverInv, Serving
<1>9. Counted'
  BY <1>1, <1>3, <1>4, Counts DEF DriverInv, Counted, Handed
<1> QED
  BY <1>2, <1>9

LEMMA StartFailsKeeps ==
  ASSUME DriverInv, NEW h \in Holders, StartFails(h)
  PROVE  Locked' /\ Gone' /\ Counted'
<1>1. /\ use \in [Holders -> Drivers \cup {"out"}] /\ lock = h /\ use[h] \in {"starting", "shaking"} /\ ~pw
      /\ UNCHANGED <<pw, refs, lost, pass>>
      /\ running' = IF use[h] = "shaking" THEN running - 1 ELSE running
      /\ lock' = None
      /\ use' = [use EXCEPT ![h] = "out"]
      /\ \A c \in Calls : c # h => fate'[c] = fate[c]
  BY LockFacts DEF StartFails, DriverInv, RunsTypeOK, Locking
<1>2. Locked' /\ Gone'
  BY <1>1, LockFacts, HoldersFinite DEF DriverInv, Locked, Gone, Locking
<1>3. Halfway = (IF use[h] = "shaking" THEN 1 ELSE 0) /\ Halfway' = 0
  BY <1>1, LockFacts DEF Halfway
<1>4. Cardinality(Served)' = Cardinality(Served)
  BY <1>1, Keeps DEF DriverInv, Serving
<1>9. Counted'
  BY <1>1, <1>3, <1>4, Counts DEF DriverInv, Counted, Handed
<1> QED
  BY <1>2, <1>9

LEMMA LeaveKeeps ==
  ASSUME DriverInv, NEW h \in Holders, Leave(h)
  PROVE  Locked' /\ Gone' /\ Counted'
<1>1. /\ use \in [Holders -> Drivers \cup {"out"}] /\ lock = None /\ use[h] = "leaving"
      /\ UNCHANGED <<running, lost, pass, fate>>
  BY DEF Leave, DriverInv, RunsTypeOK, story
<1>2. pw /\ refs > 0 /\ refs \in Nat /\ refs' = refs - 1 /\ refs' \in Nat
  BY <1>1, ServedHasDriver, Counts DEF Leave, Serving
<1>3. Halfway = 0
  BY <1>1 DEF Halfway
<1>4. CASE refs' = 0
  <2>1. pw' = FALSE /\ lock' = h /\ use' = [use EXCEPT ![h] = "stopping"]
    BY <1>2, <1>4 DEF Leave
  <2>2. Locked' /\ Gone'
    BY <2>1, <1>1, LockFacts, HoldersFinite DEF DriverInv, Locked, Gone, Locking
  <2>3. Halfway' = 1
    BY <2>1, <1>1, LockFacts DEF Halfway
  <2>4. Cardinality(Served)' = Cardinality(Served) - 1
    BY <2>1, <1>1, GivesBack DEF DriverInv, Serving
  <2>9. Counted'
    <3>1. ~pw' /\ Handed = 1 /\ Handed' = 0
      BY <2>1, <1>2 DEF Handed
    <3> QED
      BY <2>1, <2>3, <2>4, <3>1, <1>1, <1>2, <1>3, <1>4, Counts DEF DriverInv, Counted
  <2> QED
    BY <2>2, <2>9
<1>5. CASE refs' # 0
  <2>1. UNCHANGED <<pw, lock>> /\ use' = [use EXCEPT ![h] = "out"]
    BY <1>2, <1>5 DEF Leave
  <2>2. Locked' /\ Gone'
    BY <2>1, <1>1, LockFacts, HoldersFinite DEF DriverInv, Locked, Gone, Locking
  <2>3. Halfway' = 0
    BY <2>1, <1>1 DEF Halfway
  <2>4. Cardinality(Served)' = Cardinality(Served) - 1
    BY <2>1, <1>1, GivesBack DEF DriverInv, Serving
  <2>9. Counted'
    <3>1. pw' /\ Handed = 1 /\ Handed' = 1
      BY <2>1, <1>2 DEF Handed
    <3> QED
      BY <2>1, <2>3, <2>4, <3>1, <1>1, <1>2, <1>3, <1>5, Counts DEF DriverInv, Counted
  <2> QED
    BY <2>2, <2>9
<1> QED
  BY <1>4, <1>5

LEMMA StoppedKeeps ==
  ASSUME DriverInv, NEW h \in Holders, Stopped(h)
  PROVE  Locked' /\ Gone' /\ Counted'
<1>1. /\ use \in [Holders -> Drivers \cup {"out"}] /\ lock = h /\ use[h] = "stopping" /\ ~pw
      /\ UNCHANGED <<pw, refs, lost, pass, fate>>
      /\ running' = running - 1 /\ lock' = None
      /\ use' = [use EXCEPT ![h] = "out"]
  BY LockFacts DEF Stopped, DriverInv, RunsTypeOK, story, Locking
<1>2. Locked' /\ Gone'
  BY <1>1, LockFacts, HoldersFinite DEF DriverInv, Locked, Gone, Locking
<1>3. Halfway = 1 /\ Halfway' = 0
  BY <1>1, LockFacts DEF Halfway
<1>4. Cardinality(Served)' = Cardinality(Served)
  BY <1>1, Keeps DEF DriverInv, Serving
<1>9. Counted'
  BY <1>1, <1>3, <1>4, Counts DEF DriverInv, Counted, Handed
<1> QED
  BY <1>2, <1>9
\* A holder that only moves on, keeping its reference or having none.
LEMMA MovesKeep ==
  ASSUME DriverInv, NEW h \in Holders, NEW v,
         use' = [use EXCEPT ![h] = v], UNCHANGED driver, h \notin lost,
         use[h] \notin Locking, v \notin Locking,
         use[h] \in Serving <=> v \in Serving,
         \A c \in Calls \ {h} : pass'[c] = pass[c] /\ fate'[c] = fate[c],
         h \in Calls => /\ pass'[h] \in {"idle", "over"} => v = "out"
                        /\ pass'[h] = "idle" => fate'[h] = None
  PROVE  Locked' /\ Gone' /\ Counted'
<1>1. use \in [Holders -> Drivers \cup {"out"}] /\ UNCHANGED <<pw, refs, lock, running, lost>>
  BY DEF DriverInv, RunsTypeOK, driver
<1>2. Locked' /\ Gone'
  BY <1>1, HoldersFinite DEF DriverInv, Locked, Gone, Locking
<1>3. Halfway' = Halfway
  <2>1. lock # None => use'[lock] = use[lock]
    BY <1>1, LockFacts
  <2> QED
    BY <1>1, <2>1 DEF Halfway
<1>4. Cardinality(Served)' = Cardinality(Served)
  BY <1>1, Keeps DEF DriverInv
<1>5. Handed' = Handed
  BY <1>1 DEF Handed
<1>9. Counted'
  BY <1>1, <1>3, <1>4, <1>5 DEF DriverInv, Counted
<1> QED
  BY <1>2, <1>9

\* A holder that gives up a reference, which stays counted.
LEMMA LossKeeps ==
  ASSUME DriverInv, NEW h \in Holders, use[h] \in Serving,
         use' = [use EXCEPT ![h] = "out"], UNCHANGED <<pw, refs, lock, running>>,
         lost' = lost \cup {h},
         pass' = pass, \A c \in Calls \ {h} : fate'[c] = fate[c],
         h \in Calls => fate'[h] = "cancelled" /\ pass[h] # "idle"
  PROVE  Locked' /\ Gone' /\ Counted'
<1>1. use \in [Holders -> Drivers \cup {"out"}] /\ h \notin lost
  BY DEF DriverInv, RunsTypeOK, Gone, Serving
<1>2. Locked' /\ Gone'
  BY <1>1, HoldersFinite DEF DriverInv, Locked, Gone, Locking, Serving
<1>3. Halfway' = Halfway
  <2>1. lock # None => use'[lock] = use[lock]
    BY <1>1, LockFacts DEF Serving, Locking
  <2> QED
    BY <1>1, <2>1 DEF Halfway
<1>4. Cardinality(Served)' = Cardinality(Served) - 1
  BY <1>1, GivesBack DEF DriverInv, Serving
<1>5. Handed' = Handed /\ Handed \in Nat /\ Halfway \in Nat
  BY LockFacts DEF Handed
<1>6. Cardinality(lost') = Cardinality(lost) + 1
  BY <1>1, LostGrows DEF DriverInv
<1>9. Counted'
  BY <1>1, <1>3, <1>4, <1>5, <1>6, Counts DEF DriverInv, Counted
<1> QED
  BY <1>2, <1>9

LEMMA ScopeKeeps ==
  ASSUME DriverInv, NEW s \in Scopes, Begins(s) \/ Ends(s) \/ LedgerRaises(s)
  PROVE  Locked' /\ Gone' /\ Counted'
<1>0. s \in Holders /\ s \notin Calls /\ (s \in lost => use[s] = "out")
  BY HoldersFinite, LockFacts
<1>1. CASE Begins(s)
  <2>1. PICK v \in {"asking"} : use' = [use EXCEPT ![s] = v]
    BY <1>1 DEF Begins
  <2>2. /\ UNCHANGED driver /\ s \notin lost /\ use[s] = "out"
        /\ \A c \in Calls : pass'[c] = pass[c] /\ fate'[c] = fate[c]
    BY <1>1 DEF Begins, story
  <2> QED
    BY <1>0, <2>1, <2>2, MovesKeep DEF Serving, Locking
<1>2. CASE Ends(s)
  <2>1. PICK v \in {"leaving"} : use' = [use EXCEPT ![s] = v]
    BY <1>2 DEF Ends
  <2>2. /\ UNCHANGED driver /\ s \notin lost /\ use[s] = "in"
        /\ \A c \in Calls : pass'[c] = pass[c] /\ fate'[c] = fate[c]
    BY <1>0, <1>2 DEF Ends, story
  <2> QED
    BY <1>0, <2>1, <2>2, MovesKeep DEF Serving, Locking
<1>3. CASE LedgerRaises(s)
  BY <1>0, <1>3, LossKeeps DEF LedgerRaises, story, Serving
<1> QED
  BY <1>1, <1>2, <1>3

LEMMA SessionKeeps ==
  ASSUME DriverInv, NEW c \in Calls, Opened(c) \/ OpenFails(c) \/ Made(c) \/ Closed(c)
  PROVE  Locked' /\ Gone' /\ Counted'
<1>0. /\ c \in Holders /\ use[c] \in {"in", "page", "closing"} /\ c \notin lost
      /\ pass[c] \notin {"idle", "over"}
      /\ fate \in [Calls -> {None, "ok", "failed", "raised", "cancelled"}]
  BY HoldersFinite, LockFacts DEF Opened, OpenFails, Made, Closed, DriverInv, Gone, RunsTypeOK
<1>1. /\ UNCHANGED driver /\ pass' = pass
      /\ \A d \in Calls \ {c} : fate'[d] = fate[d]
  BY <1>0 DEF Opened, OpenFails, Made, Does, Closed, story
<1>2. PICK v \in {"page", "closing", "leaving"} : use' = [use EXCEPT ![c] = v]
  BY DEF Opened, OpenFails, Made, Closed
<1> QED
  BY <1>0, <1>1, <1>2, MovesKeep DEF Serving, Locking

LEMMA CancelKeeps ==
  ASSUME DriverInv, NEW h \in Holders, Cancel(h)
  PROVE  Locked' /\ Gone' /\ Counted'
<1>0. /\ use \in [Holders -> Drivers \cup {"out"}] /\ use[h] \in Drivers /\ h \notin lost
      /\ h \in Calls => pass[h] \notin {"idle", "over"}
      /\ UNCHANGED <<pw, refs, pass>>
      /\ running' = running \/ (use[h] = "starting" /\ running' = running + 1)
      /\ lock' = IF lock = h THEN None ELSE lock
      /\ lost' = IF use[h] \in {"starting", "shaking", "leaving", "stopping"} THEN lost \cup {h} ELSE lost
  BY HoldersFinite, LockFacts DEF Cancel, DriverInv, Gone, RunsTypeOK, Drivers
<1>5. /\ \A c \in Calls \ {h} : fate'[c] = fate[c]
      /\ h \in Calls => fate'[h] = "cancelled"
  BY HoldersFinite DEF Cancel, Does, DriverInv, RunsTypeOK
<1>1. CASE use[h] \in {"asking", "in", "page", "closing"}
  <2>1. PICK v \in {"closing", "leaving", "out"} :
          use' = [use EXCEPT ![h] = v] /\ (use[h] \in Serving <=> v \in Serving)
    BY <1>1 DEF Cancel, Serving
  <2>2. UNCHANGED driver /\ use[h] \notin Locking
    BY <1>0, <1>1, LockFacts DEF driver, Locking
  <2> QED
    BY <1>0, <1>1, <1>5, <2>1, <2>2, MovesKeep DEF Locking
<1>2. CASE use[h] = "leaving"
  <2>1. use' = [use EXCEPT ![h] = "out"] /\ lock' = lock /\ lost' = lost \cup {h}
    BY <1>0, <1>2, LockFacts DEF Cancel, Locking
  <2> QED
    BY <1>0, <1>2, <1>5, <2>1, LossKeeps DEF Serving
<1>3. CASE use[h] \in Locking
  <2>1. use' = [use EXCEPT ![h] = "out"] /\ lock = h /\ lock' = None /\ ~pw
    BY <1>0, <1>3, LockFacts DEF Cancel, Locking
  <2>2. Locked' /\ Gone'
    BY <1>0, <1>5, <2>1, LockFacts, HoldersFinite DEF DriverInv, Locked, Gone, Locking
  <2>3. Cardinality(Served)' = Cardinality(Served)
    BY <1>0, <1>3, <2>1, Keeps DEF DriverInv, Serving, Locking
  <2>4. Halfway' = 0 /\ Handed = 0 /\ Handed' = 0
    BY <1>0, <2>1 DEF Halfway, Handed
  <2>5. /\ Halfway = 0 \/ (Halfway = 1 /\ running' = running)
        /\ running' \in {running, running + 1}
        /\ Cardinality(lost') = Cardinality(lost) + 1
    BY <1>0, <1>3, <2>1, LockFacts, LostGrows DEF DriverInv, Locking
  <2>9. Counted'
    BY <1>0, <2>1, <2>3, <2>4, <2>5, Counts DEF DriverInv, Counted
  <2> QED
    BY <2>2, <2>9
<1> QED
  BY <1>0, <1>1, <1>2, <1>3 DEF Drivers, Locking

\* A run that goes on to its next pass, or ends.
LEMMA OntoKeeps ==
  ASSUME DriverInv, NEW c \in Calls, NEW p, p \notin {"idle", "over"}, Onto(c, p),
         use[c] = "out", c \notin lost, UNCHANGED driver,
         \A d \in Calls \ {c} : fate'[d] = fate[d]
  PROVE  Locked' /\ Gone' /\ Counted'
<1>1. /\ pass \in [Calls -> Passes] /\ pass' = [pass EXCEPT ![c] = p] /\ c \in Holders
  BY HoldersFinite DEF Onto, DriverInv, RunsTypeOK
<1>2. PICK v \in {"asking"} : use' = [use EXCEPT ![c] = v]
  BY DEF Onto
<1> QED
  BY <1>1, <1>2, MovesKeep DEF Serving, Locking

LEMMA FinishKeeps ==
  ASSUME DriverInv, NEW c \in Calls, Finish(c), use[c] = "out", UNCHANGED driver,
         \A d \in Calls \ {c} : fate'[d] = fate[d]
  PROVE  Locked' /\ Gone' /\ Counted'
<1>1. /\ pass \in [Calls -> Passes] /\ pass' = [pass EXCEPT ![c] = "over"]
      /\ UNCHANGED <<use, pw, refs, lock, running, lost>>
  BY DEF Finish, DriverInv, RunsTypeOK, driver
<1>2. Locked' /\ Gone'
  BY <1>1 DEF DriverInv, Locked, Gone, Locking
<1>3. Served' = Served /\ Halfway' = Halfway /\ Handed' = Handed
  BY <1>1 DEF Served, Halfway, Handed
<1> QED
  BY <1>1, <1>2, <1>3 DEF DriverInv, Counted
-------------------------------------------------------------------------------
(* The bill and the record                                                 *)

\* What the bill of a run comes to, router by router.
Owed(c) ==
  (IF setup[c].agent \in Routers THEN Since(c, setup[c].agent) ELSE 0)
  + (IF setup[c].reader \in Routers \ {setup[c].agent} THEN Since(c, setup[c].reader) ELSE 0)

Watchable(c) == Foreign \notin {setup[c].agent, setup[c].reader}

\* A run is armed before anything is spent, with its own routers, and has no record
\* before it is over.
Unarmed == {"idle", "canary", "precheck"}
Armed(c) ==
  /\ pass[c] \in Unarmed => watch[c] = None /\ spent[c] = 0
  /\ pass[c] \notin Unarmed \cup {"over"} => watch[c] # None
  /\ watch[c] # None =>
       /\ watch[c] \in [Watched(c) -> Nat]
       /\ \A r \in Watched(c) : watch[c][r] <= total[r]
  /\ record[c] # None => pass[c] = "over"

\* What a run has spent is on the meters of its routers.
Metered(c) ==
  watch[c] # None /\ pass[c] # "over" /\ Watchable(c) =>
    /\ spent[c] <= Owed(c)
    /\ ~mixed[c] => spent[c] = Owed(c)

\* What is billed is what was spent.
Billed(c) ==
  record[c] # None /\ record[c].cost # Unknown =>
    /\ record[c].cost >= spent[c]
    /\ ~mixed[c] => record[c].cost = spent[c]

RunInv == \A c \in Calls : Armed(c) /\ Metered(c) /\ Billed(c)

LEMMA SetupFacts ==
  ASSUME RunsTypeOK, NEW c \in Calls
  PROVE  /\ setup[c].agent \in Routers \cup {Foreign, None} /\ setup[c].reader \in Routers \cup {Foreign, None}
         /\ setup[c].drift \in {"raise", "relearn"}
         /\ setup[c].drift = "relearn" => setup[c].agent # None /\ setup[c].reader # None
         /\ Foreign \notin Routers /\ None \notin Routers /\ Foreign # None
         /\ Watched(c) = {setup[c].agent, setup[c].reader} \cap Routers
<1>1. setup[c] \in SetupType /\ setup[c] \in Setups
  BY SetupsAssumption DEF RunsTypeOK
<1>2. setup[c].agent \in Owners /\ setup[c].reader \in Owners /\ setup[c].drift \in {"raise", "relearn"}
  BY <1>1 DEF SetupType
<1>3. Foreign \notin Routers /\ None \notin Routers /\ Foreign # None
  BY OwnersAssumption
<1> QED
  BY <1>1, <1>2, <1>3, SetupsAssumption DEF Owners, Watched

\* What a run owes is a number, and what its bill says.
LEMMA SinceType ==
  ASSUME RunsTypeOK, NEW c \in Calls, watch[c] # None, Armed(c), NEW r \in Watched(c)
  PROVE  Since(c, r) \in Nat /\ r \in Routers
<1>1. r \in Routers
  BY SetupFacts
<1>2. total[r] \in Nat /\ watch[c][r] \in Nat /\ watch[c][r] <= total[r]
  BY <1>1 DEF RunsTypeOK, Armed
<1> QED
  BY <1>1, <1>2 DEF Since

LEMMA BillIsOwed ==
  ASSUME RunsTypeOK, NEW c \in Calls, watch[c] # None, Armed(c), Watchable(c)
  PROVE  Bill(c) = Owed(c) /\ Owed(c) \in Nat
<1> DEFINE a == setup[c].agent
           b == setup[c].reader
<1>1. ASSUME NEW n, \E f : f = Fold(c, DOMAIN watch[c], f),
             \A f : f = Fold(c, DOMAIN watch[c], f) => f[DOMAIN watch[c]] = n
      PROVE  Bill(c) = n
  BY <1>1, BillIsFold DEF Watchable
<1>2. DOMAIN watch[c] = Watched(c)
  BY DEF Armed
<1>3. /\ a \in Routers => a \in Watched(c) /\ Since(c, a) \in Nat
      /\ b \in Routers => b \in Watched(c) /\ Since(c, b) \in Nat
  BY SetupFacts, SinceType
<1>4. CASE a \notin Routers /\ b \notin Routers
  <2>1. DOMAIN watch[c] = {}
    BY <1>2, <1>4, SetupFacts
  <2>2. Bill(c) = 0
    BY <1>1, <2>1, SumOfNone
  <2> QED
    BY <2>2, <1>4 DEF Owed
<1>5. CASE a \in Routers /\ b \notin Routers \ {a}
  <2>1. DOMAIN watch[c] = {a}
    BY <1>2, <1>5, SetupFacts
  <2>2. Bill(c) = Since(c, a)
    <3>1. /\ \E f : f = Fold(c, {a}, f)
          /\ \A f : f = Fold(c, {a}, f) => f[{a}] = Since(c, a)
      BY <1>3, <1>5, SumOfOne
    <3> HIDE DEF a, b
    <3> QED
      BY <1>1, <2>1, <3>1
  <2> QED
    BY <2>2, <1>3, <1>5 DEF Owed
<1>6. CASE a \notin Routers /\ b \in Routers
  <2>1. DOMAIN watch[c] = {b}
    BY <1>2, <1>6, SetupFacts
  <2>2. Bill(c) = Since(c, b)
    <3>1. /\ \E f : f = Fold(c, {b}, f)
          /\ \A f : f = Fold(c, {b}, f) => f[{b}] = Since(c, b)
      BY <1>3, <1>6, SumOfOne
    <3> HIDE DEF a, b
    <3> QED
      BY <1>1, <2>1, <3>1
  <2> QED
    BY <2>2, <1>3, <1>6 DEF Owed
<1>7. CASE a \in Routers /\ b \in Routers \ {a}
  <2>1. DOMAIN watch[c] = {a, b}
    BY <1>2, <1>7, SetupFacts
  <2>2. Bill(c) = Since(c, a) + Since(c, b)
    <3>1. /\ \E f : f = Fold(c, {a, b}, f)
          /\ \A f : f = Fold(c, {a, b}, f) => f[{a, b}] = Since(c, a) + Since(c, b)
      BY <1>3, <1>7, SumOfTwo
    <3> HIDE DEF a, b
    <3> QED
      BY <1>1, <2>1, <3>1
  <2> QED
    BY <2>2, <1>3, <1>7 DEF Owed
<1> QED
  BY <1>4, <1>5, <1>6, <1>7

\* A record is what the totals and the facts amount to.
LEMMA RecordFacts ==
  ASSUME RunsTypeOK, RunInv, NEW c \in Calls, pass[c] # "over", NEW S
  PROVE  /\ Bill(c) \in Nat \cup {Unknown}
         /\ Bill(c) # Unknown => Bill(c) >= spent[c] /\ (~mixed[c] => Bill(c) = spent[c])
         /\ Evidence(S) \in {"yes", "no", "unknown"}
<1>0. Armed(c) /\ Metered(c) /\ spent[c] \in Nat
  BY DEF RunInv, RunsTypeOK
<1>1. CASE watch[c] = None
  <2>1. spent[c] = 0
    BY <1>0, <1>1 DEF Armed
  <2> QED
    BY <1>1, <2>1 DEF Bill, Evidence
<1>2. CASE watch[c] # None /\ ~Watchable(c)
  BY <1>2 DEF Bill, Watchable, Evidence
<1>3. CASE watch[c] # None /\ Watchable(c)
  <2>1. Bill(c) = Owed(c) /\ Owed(c) \in Nat
    BY <1>0, <1>3, BillIsOwed
  <2> QED
    BY <1>0, <1>3, <2>1 DEF Metered, Evidence
<1> QED
  BY <1>1, <1>2, <1>3

\* A pass may say something of the write.
Speaks(c) == (\E e \in {"yes", "no", "unknown"} : Says(c, e)) \/ UNCHANGED facts

LEMMA SpeaksFacts ==
  ASSUME RunsTypeOK, NEW c \in Calls, Speaks(c)
  PROVE  /\ facts' \in [Calls -> SUBSET {"yes", "no", "unknown"}]
         /\ \A d \in Calls \ {c} : facts'[d] = facts[d]
         /\ facts[c] \subseteq facts'[c]
BY DEF RunsTypeOK, Speaks, Says

\* What does not touch a run leaves what is known of it.
LEMMA RunKept ==
  ASSUME RunsTypeOK, NEW d \in Calls, Armed(d), Metered(d), Billed(d),
         setup' = setup, total' = total, pass'[d] = pass[d], watch'[d] = watch[d],
         spent'[d] = spent[d], mixed'[d] = mixed[d], record'[d] = record[d]
  PROVE  Armed(d)' /\ Metered(d)' /\ Billed(d)'
<1>1. Owed(d)' = Owed(d) /\ Watchable(d)' = Watchable(d)
  BY DEF Owed, Since, Watchable
<1>2. Armed(d)' /\ Billed(d)'
  BY DEF Armed, Watched, Billed
<1>3. Metered(d)'
  BY <1>1 DEF Metered
<1> QED
  BY <1>2, <1>3

LEMMA RunFrame ==
  ASSUME RunsTypeOK, RunInv, UNCHANGED <<setup, pass, money, record>>
  PROVE  RunInv'
BY RunKept DEF RunInv, money

Recorded == [cost : Nat \cup {Unknown}, committed : {"yes", "no", "unknown"}]

\* The single exit writes a record that holds.
LEMMA FinishRecords ==
  ASSUME RunsTypeOK, RunInv, NEW c \in Calls, pass[c] # "over", Finish(c), setup' = setup
  PROVE  RunInv' /\ record' \in [Calls -> {None} \cup Recorded]
<1>1. /\ pass \in [Calls -> Passes] /\ pass' = [pass EXCEPT ![c] = "over"]
      /\ UNCHANGED <<total, watch, spent, mixed>>
      /\ record \in [Calls -> {None} \cup Recorded]
      /\ record' = IF pass[c] = "canary" THEN record
                   ELSE [record EXCEPT ![c] = [cost |-> Bill(c), committed |-> Evidence(facts'[c])]]
  BY DEF Finish, RunsTypeOK, money, Recorded
<1>3. ASSUME NEW d \in Calls \ {c} PROVE Armed(d)' /\ Metered(d)' /\ Billed(d)'
  <2>1. pass'[d] = pass[d] /\ record'[d] = record[d]
    BY <1>1
  <2>2. Armed(d) /\ Metered(d) /\ Billed(d)
    BY DEF RunInv
  <2> QED
    BY <1>1, <2>1, <2>2, RunKept
<1>4. pass'[c] = "over" /\ record[c] = None /\ spent[c] \in Nat /\ Armed(c)
  BY <1>1 DEF RunInv, Armed, RunsTypeOK
<1>5. /\ Bill(c) \in Nat \cup {Unknown}
      /\ Bill(c) # Unknown => Bill(c) >= spent[c] /\ (~mixed[c] => Bill(c) = spent[c])
      /\ Evidence(facts'[c]) \in {"yes", "no", "unknown"}
  BY RecordFacts
<1>6. \/ record' = record
      \/ /\ record' = [record EXCEPT ![c] = [cost |-> Bill(c), committed |-> Evidence(facts'[c])]]
         /\ record'[c] = [cost |-> Bill(c), committed |-> Evidence(facts'[c])]
  BY <1>1
<1>7. record' \in [Calls -> {None} \cup Recorded]
  BY <1>1, <1>5, <1>6 DEF Recorded
<1>8. Armed(c)' /\ Metered(c)'
  BY <1>1, <1>4 DEF Armed, Watched, Metered, Unarmed
<1>9. Billed(c)'
  BY <1>1, <1>4, <1>5, <1>6 DEF Billed
<1> QED
  BY <1>3, <1>7, <1>8, <1>9 DEF RunInv

\* A run that goes on is armed at its first attempt, and not again.
LEMMA OntoRun ==
  ASSUME RunsTypeOK, RunInv, NEW c \in Calls, NEW p \in Passes, Onto(c, p), setup' = setup,
         p # "over", pass[c] # "over",
         p = "attempt" \/ p \in Unarmed => pass[c] \in Unarmed,
         p # "attempt" /\ p \notin Unarmed => pass[c] \notin Unarmed
  PROVE  RunInv' /\ watch' \in [Calls -> {None} \cup UNION {[R -> Nat] : R \in SUBSET Routers}]
<1>1. /\ pass \in [Calls -> Passes] /\ pass' = [pass EXCEPT ![c] = p]
      /\ UNCHANGED <<total, spent, mixed, record>>
      /\ watch \in [Calls -> {None} \cup UNION {[R -> Nat] : R \in SUBSET Routers}]
      /\ total \in [Routers -> Nat]
  BY DEF Onto, RunsTypeOK
<1>3. /\ p = "attempt" => watch' = [watch EXCEPT ![c] = [r \in Watched(c) |-> total[r]]]
      /\ p # "attempt" => watch' = watch
  BY DEF Onto, Arm
<1>4. ASSUME NEW d \in Calls \ {c} PROVE Armed(d)' /\ Metered(d)' /\ Billed(d)'
  <2>1. pass'[d] = pass[d] /\ watch'[d] = watch[d]
    BY <1>1, <1>3
  <2>2. Armed(d) /\ Metered(d) /\ Billed(d)
    BY DEF RunInv
  <2> QED
    BY <1>1, <2>1, <2>2, RunKept
<1>5. /\ pass'[c] = p /\ record[c] = None /\ record'[c] = None
      /\ Armed(c) /\ Metered(c) /\ Watched(c)' = Watched(c) /\ Watchable(c)' = Watchable(c)
      /\ spent[c] \in Nat
  BY <1>1 DEF RunInv, Armed, Watched, Watchable, RunsTypeOK
<1>6. Billed(c)'
  BY <1>5 DEF Billed
<1>7. CASE p = "attempt"
  <2>1. watch[c] = None /\ spent[c] = 0
    BY <1>5, <1>7 DEF Armed
  <2>2. Watched(c) \subseteq Routers
    BY SetupFacts
  <2>3. /\ watch'[c] = [r \in Watched(c) |-> total[r]]
        /\ [r \in Watched(c) |-> total[r]] \in [Watched(c) -> Nat]
    BY <1>1, <1>3, <1>7, <2>2
  <2>4. watch'[c] # None
    BY <2>2, <2>3, NoneAssumption
  <2>5. watch' \in [Calls -> {None} \cup UNION {[R -> Nat] : R \in SUBSET Routers}]
    <3>1. [r \in Watched(c) |-> total[r]] \in UNION {[R -> Nat] : R \in SUBSET Routers}
      BY <2>2, <2>3
    <3> QED
      BY <1>1, <1>3, <1>7, <3>1
  <2>6. Armed(c)'
    BY <1>1, <1>5, <1>7, <2>2, <2>3, <2>4 DEF Armed, Unarmed
  <2>7. Owed(c)' = 0
    <3>1. ASSUME NEW r \in Watched(c) PROVE Since(c, r)' = 0
      BY <1>1, <2>2, <2>3 DEF Since
    <3> QED
      BY <1>1, <3>1, SetupFacts DEF Owed
  <2>8. Metered(c)'
    BY <1>1, <2>1, <2>7 DEF Metered
  <2> QED
    BY <1>4, <1>6, <2>5, <2>6, <2>8 DEF RunInv
<1>8. CASE p # "attempt"
  <2>1. watch' = watch
    BY <1>3, <1>8
  <2>2. Armed(c)'
    BY <1>1, <1>5, <1>8, <2>1 DEF Armed
  <2>3. Owed(c)' = Owed(c)
    BY <1>1, <2>1 DEF Owed, Since
  <2>4. Metered(c)'
    BY <1>1, <1>5, <2>1, <2>3 DEF Metered
  <2> QED
    BY <1>1, <1>4, <1>6, <2>1, <2>2, <2>4 DEF RunInv
<1> QED
  BY <1>7, <1>8

\* An answer is metered for the run that asked, and mixes the bills of the others that
\* watch its router.
LEMMA AnsweredRun ==
  ASSUME RunsTypeOK, RunInv, NEW c \in Calls, Answered(c)
  PROVE  /\ RunInv'
         /\ total' \in [Routers -> Nat] /\ spent' \in [Calls -> Nat] /\ mixed' \in [Calls -> BOOLEAN]
<1>1. PICK r \in Spenders(c) :
        /\ total' = IF r = Foreign THEN total ELSE [total EXCEPT ![r] = @ + 1]
        /\ spent' = [spent EXCEPT ![c] = @ + 1]
        /\ mixed' = [d \in Calls |->
                       mixed[d] \/ (d # c /\ watch[d] # None /\ pass[d] # "over" /\ r \in DOMAIN watch[d])]
  BY DEF Answered
<1>2. /\ UNCHANGED <<setup, pass, watch, record>>
      /\ total \in [Routers -> Nat] /\ spent \in [Calls -> Nat] /\ mixed \in [Calls -> BOOLEAN]
  BY DEF Answered, story, RunsTypeOK
<1>3. /\ pass[c] \in {"attempt", "retry", "repair", "learn"}
      /\ r \in {setup[c].agent, setup[c].reader} \cap (Routers \cup {Foreign})
      /\ Foreign \notin Routers
  BY <1>1, SetupFacts DEF Spenders
<1>4. \A d \in Calls : Armed(d) /\ Metered(d) /\ Billed(d)
  BY DEF RunInv
<1>5. /\ total' \in [Routers -> Nat] /\ spent' \in [Calls -> Nat] /\ mixed' \in [Calls -> BOOLEAN]
      /\ \A q \in Routers : total'[q] = IF q = r THEN total[q] + 1 ELSE total[q]
  BY <1>1, <1>2, <1>3
<1>6. /\ spent'[c] = spent[c] + 1 /\ \A d \in Calls \ {c} : spent'[d] = spent[d]
      /\ \A d \in Calls : mixed'[d] =
           (mixed[d] \/ (d # c /\ watch[d] # None /\ pass[d] # "over" /\ r \in DOMAIN watch[d]))
  BY <1>1, <1>2
<1>7. watch[c] # None /\ record[c] = None
  BY <1>3, <1>4 DEF Armed, Unarmed
<1>8. ASSUME NEW d \in Calls PROVE Armed(d)'
  <2>1. Watched(d)' = Watched(d) /\ Watched(d) \subseteq Routers
    BY <1>2, SetupFacts DEF Watched
  <2>2. d = c => pass[d] \notin Unarmed
    BY <1>3 DEF Unarmed
  <2> QED
    BY <1>2, <1>4, <1>5, <1>6, <2>1, <2>2 DEF Armed
<1>9. ASSUME NEW d \in Calls PROVE Billed(d)'
  <2>2. CASE record[d] = None
    BY <1>2, <2>2 DEF Billed
  <2>3. CASE record[d] # None
    <3>1. pass[d] = "over" /\ d # c
      BY <1>4, <1>7, <2>3 DEF Armed
    <3>2. mixed'[d] = mixed[d] /\ spent'[d] = spent[d] /\ record'[d] = record[d]
      BY <1>2, <1>6, <3>1
    <3> QED
      BY <1>4, <3>2 DEF Billed
  <2> QED
    BY <2>2, <2>3
<1>10. ASSUME NEW d \in Calls, watch[d] # None, pass[d] # "over", Watchable(d)
       PROVE  /\ spent'[d] <= Owed(d)'
              /\ ~mixed'[d] => spent'[d] = Owed(d)'
  <2>0. PICK a, b : a = setup[d].agent /\ b = setup[d].reader
    OBVIOUS
  <2>1. /\ spent[d] <= Owed(d) /\ (~mixed[d] => spent[d] = Owed(d)) /\ spent[d] \in Nat
        /\ DOMAIN watch[d] = Watched(d) /\ Watched(d) = {a, b} \cap Routers
    BY <1>2, <1>4, <1>10, <2>0, SetupFacts DEF Metered, Armed
  <2>2. \A q \in Watched(d) : Since(d, q) \in Nat
    BY <1>4, <1>10, SinceType
  <2>3. \A q \in Watched(d) : Since(d, q)' = IF q = r THEN Since(d, q) + 1 ELSE Since(d, q)
    <3>1. ASSUME NEW q \in Watched(d)
          PROVE  total[q] \in Nat /\ watch[d][q] \in Nat /\ q \in Routers
      BY <1>2, <1>4, <1>10, <2>1 DEF Armed
    <3> QED
      BY <1>2, <1>5, <3>1 DEF Since
  <2>4. Owed(d) \in Nat /\ Owed(d)' = IF r \in Watched(d) THEN Owed(d) + 1 ELSE Owed(d)
    <3>1. /\ a \in Routers => Since(d, a) \in Nat /\ Since(d, a)' = IF a = r THEN Since(d, a) + 1 ELSE Since(d, a)
          /\ b \in Routers => Since(d, b) \in Nat /\ Since(d, b)' = IF b = r THEN Since(d, b) + 1 ELSE Since(d, b)
      BY <2>1, <2>2, <2>3
    <3>2. Owed(d)' = (IF a \in Routers THEN Since(d, a)' ELSE 0)
                     + (IF b \in Routers \ {a} THEN Since(d, b)' ELSE 0)
      BY <1>2, <2>0 DEF Owed
    <3>3. Owed(d) = (IF a \in Routers THEN Since(d, a) ELSE 0)
                    + (IF b \in Routers \ {a} THEN Since(d, b) ELSE 0)
      BY <2>0 DEF Owed
    <3>4. r \in Watched(d) <=> r \in Routers /\ r \in {a, b}
      BY <2>1
    <3> QED
      BY <3>1, <3>2, <3>3, <3>4
  <2>5. CASE d = c
    <3>1. r \in Watched(d)
      BY <1>3, <1>10, <2>0, <2>1, <2>5 DEF Watchable
    <3>2. mixed'[d] = mixed[d] /\ spent'[d] = spent[d] + 1
      BY <1>2, <1>6, <2>5
    <3> QED
      BY <2>1, <2>4, <3>1, <3>2
  <2>6. CASE d # c
    <3>1. spent'[d] = spent[d] /\ (r \in Watched(d) => mixed'[d]) /\ (mixed[d] => mixed'[d])
      BY <1>2, <1>6, <1>10, <2>1, <2>6
    <3> QED
      BY <2>1, <2>4, <3>1
  <2> QED
    BY <2>5, <2>6
<1>11. ASSUME NEW d \in Calls PROVE Metered(d)'
  <2>1. Watchable(d)' = Watchable(d) /\ watch'[d] = watch[d] /\ pass'[d] = pass[d]
    BY <1>2 DEF Watchable
  <2> QED
    BY <1>10, <2>1 DEF Metered
<1> QED
  BY <1>5, <1>8, <1>9, <1>11 DEF RunInv

-------------------------------------------------------------------------------
(* From pass to pass                                                       *)

\* A pass is settled, and the run goes on or ends.
Moves(c) ==
  /\ use[c] = "out" /\ pass[c] # "over"
  /\ UNCHANGED <<driver, setup>>
  /\ fate' \in {fate, [fate EXCEPT ![c] = None]}
  /\ deed' \in {deed, [deed EXCEPT ![c] = "none"]} /\ deeds' = deeds
  /\ Speaks(c)
  /\ \/ Finish(c)
     \/ /\ c \notin lost
        /\ \E p \in Passes \ {"idle", "over"} :
             Onto(c, p) /\ (p = "attempt" \/ p \in Unarmed <=> pass[c] \in Unarmed)

LEMMA StartMoves ==
  ASSUME DriverInv, NEW c \in Calls, Start(c)
  PROVE  Moves(c)
<1>1. use[c] = "out" /\ pass[c] = "idle" /\ c \notin lost
  <2>1. c \in lost => pass[c] = "over" \/ fate[c] = "cancelled"
    BY DEF DriverInv, Gone
  <2>2. pass[c] = "idle" /\ use[c] = "out" /\ fate[c] = None
    BY DEF DriverInv, Gone, Start
  <2> QED
    BY <2>1, <2>2, NoneAssumption
<1>2. UNCHANGED <<driver, setup, fate, deed, deeds, facts>>
  BY DEF Start, tale
<1>3. Finish(c) \/ \E p \in {"attempt", "precheck", "canary"} : Onto(c, p)
  BY DEF Start
<1>4. Speaks(c)
  BY <1>2 DEF Speaks
<1> QED
  BY <1>1, <1>2, <1>3, <1>4 DEF Moves, Passes, Unarmed

\* What a run does once its pass is settled.
LEMMA SettledMoves ==
  ASSUME DriverInv, NEW c \in Calls, Settles(c), Speaks(c), pass[c] # "over",
         \/ Finish(c)
         \/ /\ fate[c] # "cancelled"
            /\ \E p \in Passes \ {"idle", "over"} :
                 Onto(c, p) /\ (p = "attempt" \/ p \in Unarmed <=> pass[c] \in Unarmed)
  PROVE  Moves(c)
<1>1. /\ use[c] = "out" /\ UNCHANGED <<driver, setup>>
      /\ fate' = [fate EXCEPT ![c] = None]
      /\ deed' = [deed EXCEPT ![c] = "none"] /\ deeds' = deeds
  BY DEF Settles
<1>2. fate[c] # "cancelled" => c \notin lost
  BY DEF DriverInv, Gone
<1> QED
  BY <1>1, <1>2 DEF Moves

LEMMA GivingUp ==
  ASSUME NEW c \in Calls, GivesUp(c)
  PROVE  Finish(c) \/ Onto(c, "repair")
BY DEF GivesUp

LEMMA VerdictIs ==
  ASSUME NEW c \in Calls
  PROVE  Verdict(c) \in {"yes", "no", "unknown"}
BY DEF Verdict

LEMMA PassMoves ==
  ASSUME DriverInv, NEW c \in Calls,
         Succeeds(c) \/ FailsWritten(c) \/ Fails(c) \/ Raises(c)
           \/ Prechecked(c) \/ Refreshed(c) \/ Learned(c) \/ Probed(c)
  PROVE  Moves(c)
<1>1. CASE Succeeds(c)
  BY <1>1, VerdictIs, SettledMoves DEF Succeeds, Engine, Speaks
<1>2. CASE FailsWritten(c)
  BY <1>2, VerdictIs, SettledMoves DEF FailsWritten, Engine, Speaks
<1>3. CASE Fails(c)
  <2>1. /\ Settles(c) /\ pass[c] \in Engine /\ fate[c] = "failed" /\ Speaks(c)
        /\ Finish(c) \/ \E p \in {"refresh", "repair", "learn"} : Onto(c, p)
    BY <1>3, VerdictIs DEF Fails, Speaks
  <2> QED
    BY <2>1, SettledMoves DEF Engine, Passes, Unarmed
<1>4. CASE Raises(c)
  <2>1. /\ Settles(c) /\ pass[c] \in Engine /\ Speaks(c)
        /\ Finish(c) \/ (fate[c] = "raised" /\ Onto(c, "repair"))
    BY <1>4, GivingUp DEF Raises, Speaks
  <2> QED
    BY <2>1, SettledMoves DEF Engine, Passes, Unarmed
<1>5. CASE Prechecked(c)
  <2>1. Settles(c) /\ pass[c] \in {"precheck", "again"}
    BY <1>5 DEF Prechecked
  <2>2. CASE fate[c] = "ok"
    <3>1. Speaks(c) /\ Finish(c)
      BY <1>5, <2>2 DEF Prechecked, Speaks
    <3> QED
      BY <2>1, <3>1, SettledMoves
  <2>3. CASE fate[c] = "failed"
    <3>1. Speaks(c) /\ Onto(c, IF pass[c] = "precheck" THEN "attempt" ELSE "retry")
      BY <1>5, <2>3 DEF Prechecked, Speaks
    <3> QED
      BY <2>1, <2>3, <3>1, SettledMoves DEF Passes, Unarmed
  <2>4. CASE fate[c] \notin {"ok", "failed"}
    <3>1. /\ Speaks(c)
          /\ Finish(c) \/ (pass[c] = "again" /\ fate[c] = "raised" /\ Onto(c, "repair"))
      BY <1>5, <2>4, GivingUp DEF Prechecked, Speaks
    <3> QED
      BY <2>1, <3>1, SettledMoves DEF Passes, Unarmed
  <2> QED
    BY <2>2, <2>3, <2>4
<1>6. CASE Refreshed(c)
  <2>1. /\ Settles(c) /\ pass[c] = "refresh" /\ Speaks(c)
        /\ \/ Finish(c)
           \/ fate[c] \in {"ok", "failed", "raised"} /\ \E p \in {"retry", "again", "repair"} : Onto(c, p)
    BY <1>6, GivingUp DEF Refreshed, Speaks
  <2> QED
    BY <2>1, SettledMoves DEF Passes, Unarmed
<1>7. CASE Learned(c)
  BY <1>7, SettledMoves DEF Learned, Speaks
<1>8. CASE Probed(c)
  BY <1>8, SettledMoves DEF Probed, Speaks
<1> QED
  BY <1>1, <1>2, <1>3, <1>4, <1>5, <1>6, <1>7, <1>8

LEMMA MovesKeepAll ==
  ASSUME DriverInv, RunInv, NEW c \in Calls, Moves(c)
  PROVE  DriverInv' /\ RunInv'
<1>1. /\ use[c] = "out" /\ pass[c] # "over" /\ UNCHANGED <<driver, setup>> /\ Speaks(c)
      /\ fate' \in {fate, [fate EXCEPT ![c] = None]} /\ RunsTypeOK
  BY DEF Moves, DriverInv
<1>2. /\ fate' \in [Calls -> {None, "ok", "failed", "raised", "cancelled"}]
      /\ \A d \in Calls \ {c} : fate'[d] = fate[d]
      /\ facts' \in [Calls -> SUBSET {"yes", "no", "unknown"}]
  BY <1>1, SpeaksFacts DEF RunsTypeOK
<1>5. deed' \in [Calls -> {"none", "blind", "seen"}] /\ deeds' \in [Calls -> SUBSET DeedKinds]
  BY DEF Moves, DriverInv, RunsTypeOK
<1>3. CASE Finish(c)
  <2>1. Locked' /\ Gone' /\ Counted'
    BY <1>1, <1>2, <1>3, FinishKeeps
  <2>2. RunInv' /\ record' \in [Calls -> {None} \cup Recorded]
    BY <1>1, <1>3, FinishRecords
  <2>3. /\ UNCHANGED <<use, money, driver, setup>> /\ pass' = [pass EXCEPT ![c] = "over"]
    BY <1>1, <1>3 DEF Finish
  <2>4. RunsTypeOK'
    BY <1>1, <1>2, <1>5, <2>2, <2>3 DEF RunsTypeOK, Passes, money, driver, Recorded
  <2> QED
    BY <2>1, <2>2, <2>4 DEF DriverInv
<1>4. ASSUME NEW p \in Passes \ {"idle", "over"}, Onto(c, p), c \notin lost,
             p = "attempt" \/ p \in Unarmed <=> pass[c] \in Unarmed
      PROVE  DriverInv' /\ RunInv'
  <2>1. Locked' /\ Gone' /\ Counted'
    BY <1>1, <1>2, <1>4, OntoKeeps
  <2>2. RunInv' /\ watch' \in [Calls -> {None} \cup UNION {[R -> Nat] : R \in SUBSET Routers}]
    BY <1>1, <1>4, OntoRun
  <2>3. /\ UNCHANGED <<total, spent, mixed, record, driver, setup>> /\ pass' = [pass EXCEPT ![c] = p]
        /\ use' = [use EXCEPT ![c] = "asking"]
    BY <1>1, <1>4 DEF Onto
  <2>4. pass' \in [Calls -> Passes] /\ use' \in [Holders -> Drivers \cup {"out"}]
    BY <1>1, <2>3 DEF RunsTypeOK, Drivers
  <2>5. RunsTypeOK'
    BY <1>1, <1>2, <1>5, <2>2, <2>3, <2>4 DEF RunsTypeOK, driver
  <2> QED
    BY <2>1, <2>2, <2>5 DEF DriverInv
<1> QED
  BY <1>3, <1>4 DEF Moves

\* The holders and their sessions leave the records alone.
Turns ==
  \/ \E h \in Holders : Enter(h) \/ Spawned(h) \/ Started(h) \/ StartFails(h) \/ Leave(h) \/ Stopped(h) \/ Cancel(h)
  \/ \E s \in Scopes : Begins(s) \/ Ends(s) \/ LedgerRaises(s)
  \/ \E c \in Calls : Opened(c) \/ OpenFails(c) \/ Made(c) \/ Closed(c)

\* What the end of a pass may leave behind.
LEMMA DeedFacts ==
  ASSUME NEW c \in Calls, NEW f \in {"ok", "failed", "raised", "cancelled"}, NEW d \in Deeds(c, f)
  PROVE  /\ d \in {"none", "untold", "seen", "blind"}
         /\ d \in {"seen", "blind"} => pass[c] \in Engine
         /\ d = "untold" => pass[c] = "learn" \/ (pass[c] \in Engine /\ f \in {"raised", "cancelled"})
BY DEF Deeds, DeedKinds

LEMMA DoesTypes ==
  ASSUME RunsTypeOK, NEW c \in Calls, NEW f \in {"ok", "failed", "raised", "cancelled"}, Does(c, f)
  PROVE  /\ fate' = [fate EXCEPT ![c] = f] /\ facts' = facts
         /\ deed' \in [Calls -> {"none", "blind", "seen"}] /\ deeds' \in [Calls -> SUBSET DeedKinds]
<1>1. PICK d \in Deeds(c, f) :
        /\ deed' = [deed EXCEPT ![c] = IF d = "untold" THEN "none" ELSE d]
        /\ deeds' = [deeds EXCEPT ![c] = @ \cup ({d} \ {"none"})]
  BY DEF Does
<1>2. d \in {"none", "untold", "seen", "blind"}
  BY <1>1, DeedFacts
<1>3. ({d} \ {"none"}) \subseteq DeedKinds
  BY <1>2 DEF DeedKinds
<1> QED
  BY <1>1, <1>2, <1>3 DEF Does, RunsTypeOK

LEMMA HolderTypes ==
  ASSUME DriverInv, NEW h \in Holders,
         Enter(h) \/ Spawned(h) \/ Started(h) \/ StartFails(h) \/ Leave(h) \/ Stopped(h) \/ Cancel(h)
  PROVE  /\ UNCHANGED <<setup, pass, money, record>>
         /\ RunsTypeOK'
<1>0. RunsTypeOK /\ h \in Holders \cup {None} /\ None \in Holders \cup {None}
  BY DEF DriverInv
<1>1. CASE Enter(h)
  BY <1>0, <1>1 DEF Enter, RunsTypeOK, Drivers, story, tale, money
<1>2. CASE Spawned(h)
  BY <1>0, <1>2 DEF Spawned, RunsTypeOK, Drivers, story, tale, money
<1>7. CASE Started(h)
  BY <1>0, <1>7 DEF Started, RunsTypeOK, Drivers, story, tale, money
<1>3. CASE StartFails(h)
  <2>1. running' \in Nat
    <3>1. use[h] = "shaking" => running >= 1 /\ Halfway = 1
      BY LockFacts, Counts DEF DriverInv, Counted, Handed, Locking
    <3> QED
      BY <1>0, <1>3, <3>1, Counts DEF StartFails
  <2>2. /\ lock' = None /\ use' = [use EXCEPT ![h] = "out"]
        /\ fate' = fate \/ fate' = [fate EXCEPT ![h] = "raised"]
        /\ UNCHANGED <<pw, refs, lost, setup, pass, tale, money, record>>
    BY <1>3 DEF StartFails
  <2> QED
    BY <1>0, <2>1, <2>2 DEF RunsTypeOK, tale, money
<1>4. CASE Leave(h)
  <2>1. /\ refs' = (IF refs > 0 THEN refs - 1 ELSE 0) /\ refs \in Nat
        /\ pw' \in {pw, FALSE} /\ lock' \in {lock, h}
        /\ \E v \in {"stopping", "out"} : use' = [use EXCEPT ![h] = v]
        /\ UNCHANGED <<running, lost, setup, story, money, record>>
    BY <1>0, <1>4 DEF Leave, RunsTypeOK
  <2>2. refs' \in Nat
    BY <2>1
  <2>3. use' \in [Holders -> Drivers \cup {"out"}]
    <3>1. PICK v \in {"stopping", "out"} : use' = [use EXCEPT ![h] = v]
      BY <2>1
    <3>2. v \in Drivers \cup {"out"}
      BY DEF Drivers
    <3> QED
      BY <1>0, <3>1, <3>2 DEF RunsTypeOK
  <2>4. pw' \in BOOLEAN /\ lock' \in Holders \cup {None}
    BY <1>0, <2>1 DEF RunsTypeOK
  <2> QED
    BY <1>0, <2>1, <2>2, <2>3, <2>4 DEF RunsTypeOK, story, tale, money
<1>5. CASE Stopped(h)
  <2>1. /\ UNCHANGED <<pw, refs, lost, setup, story, money, record>>
        /\ running' = running - 1 /\ lock' = None /\ use' = [use EXCEPT ![h] = "out"]
        /\ lock = h /\ Halfway = 1
    BY <1>5, LockFacts DEF Stopped, Locking
  <2>2. running \in Nat /\ running >= 1
    BY <2>1, Counts DEF DriverInv, Counted, Handed
  <2>3. running' \in Nat
    BY <2>1, <2>2
  <2> QED
    BY <1>0, <2>1, <2>3 DEF RunsTypeOK, story, tale, money
<1>6. CASE Cancel(h)
  <2>1. /\ \E v \in {"closing", "leaving", "out"} : use' = [use EXCEPT ![h] = v]
        /\ lock' \in {lock, None} /\ lost' \in {lost, lost \cup {h}}
        /\ running' \in {running, running + 1}
        /\ UNCHANGED <<pw, refs, setup, pass, money, record>>
    BY <1>6 DEF Cancel
  <2>2. /\ fate' \in [Calls -> {None, "ok", "failed", "raised", "cancelled"}] /\ facts' = facts
        /\ deed' \in [Calls -> {"none", "blind", "seen"}] /\ deeds' \in [Calls -> SUBSET DeedKinds]
    <3>1. CASE use[h] = "page" /\ Does(h, "cancelled") /\ h \in Calls
      BY <1>0, <3>1, DoesTypes DEF RunsTypeOK
    <3>2. CASE UNCHANGED tale /\ fate' \in {fate, [fate EXCEPT ![h] = "cancelled"]}
      BY <1>0, <3>2 DEF RunsTypeOK, tale
    <3> QED
      BY <1>6, <3>1, <3>2 DEF Cancel
  <2> QED
    BY <1>0, <2>1, <2>2 DEF RunsTypeOK, Drivers, money
<1> QED
  BY <1>1, <1>2, <1>3, <1>4, <1>5, <1>6, <1>7

LEMMA SessionTypes ==
  ASSUME RunsTypeOK,
         \/ \E s \in Scopes : Begins(s) \/ Ends(s) \/ LedgerRaises(s)
         \/ \E c \in Calls : Opened(c) \/ OpenFails(c) \/ Made(c) \/ Closed(c)
  PROVE  /\ UNCHANGED <<setup, pass, money, record>>
         /\ RunsTypeOK'
<1>1. CASE \E s \in Scopes : Begins(s) \/ Ends(s) \/ LedgerRaises(s)
  <2>1. PICK s \in Scopes : Begins(s) \/ Ends(s) \/ LedgerRaises(s)
    BY <1>1
  <2>2. /\ s \in Holders /\ \E v \in {"asking", "leaving", "out"} : use' = [use EXCEPT ![s] = v]
        /\ lost' \in {lost, lost \cup {s}}
        /\ UNCHANGED <<pw, refs, lock, running, setup, story, money, record>>
    BY <2>1, HoldersFinite DEF Begins, Ends, LedgerRaises, driver
  <2> QED
    BY <2>2 DEF RunsTypeOK, Drivers, story, tale, money
<1>2. CASE \E c \in Calls : Opened(c) \/ OpenFails(c) \/ Made(c) \/ Closed(c)
  <2>1. PICK c \in Calls : Opened(c) \/ OpenFails(c) \/ Made(c) \/ Closed(c)
    BY <1>2
  <2>2. /\ c \in Holders /\ \E v \in {"page", "closing", "leaving"} : use' = [use EXCEPT ![c] = v]
        /\ UNCHANGED <<driver, setup, pass, money, record>>
    BY <2>1, HoldersFinite DEF Opened, OpenFails, Made, Closed, story
  <2>3. /\ fate' \in [Calls -> {None, "ok", "failed", "raised", "cancelled"}] /\ facts' = facts
        /\ deed' \in [Calls -> {"none", "blind", "seen"}] /\ deeds' \in [Calls -> SUBSET DeedKinds]
    <3>1. CASE Made(c)
      <4>1. PICK f \in {"ok", "failed", "raised"} : Does(c, f)
        BY <3>1 DEF Made
      <4> QED
        BY <4>1, DoesTypes DEF RunsTypeOK
    <3>2. CASE Opened(c) \/ OpenFails(c) \/ Closed(c)
      BY <3>2 DEF Opened, OpenFails, Closed, story, tale, RunsTypeOK
    <3> QED
      BY <2>1, <3>1, <3>2
  <2> QED
    BY <2>2, <2>3 DEF RunsTypeOK, Drivers, driver, money
<1> QED
  BY <1>1, <1>2

LEMMA TurnsKeep ==
  ASSUME DriverInv, RunInv, Turns
  PROVE  DriverInv' /\ RunInv'
<1>1. UNCHANGED <<setup, pass, money, record>> /\ RunsTypeOK'
  BY HolderTypes, SessionTypes DEF Turns, DriverInv
<1>2. Locked' /\ Gone' /\ Counted'
  BY EnterKeeps, SpawnedKeeps, StartedKeeps, StartFailsKeeps, LeaveKeeps, StoppedKeeps, CancelKeeps, ScopeKeeps, SessionKeeps
     DEF Turns
<1>3. RunInv'
  BY <1>1, RunFrame DEF DriverInv
<1> QED
  BY <1>1, <1>2, <1>3 DEF DriverInv

LEMMA AnsweredKeeps ==
  ASSUME DriverInv, RunInv, NEW c \in Calls, Answered(c)
  PROVE  DriverInv' /\ RunInv'
<1>1. UNCHANGED <<driver, use, setup, story, watch, record>>
  BY DEF Answered
<1>2. Locked' /\ Gone' /\ Counted'
  BY <1>1 DEF DriverInv, Locked, Gone, Counted, Handed, Halfway, Served, driver, story, tale
<1>3. /\ RunInv'
      /\ total' \in [Routers -> Nat] /\ spent' \in [Calls -> Nat] /\ mixed' \in [Calls -> BOOLEAN]
  BY AnsweredRun DEF DriverInv
<1>4. RunsTypeOK'
  BY <1>1, <1>3 DEF DriverInv, RunsTypeOK, driver, story, tale
<1> QED
  BY <1>2, <1>3, <1>4 DEF DriverInv

-------------------------------------------------------------------------------
(* The theorems                                                            *)

LEMMA RunsBegin ==
  ASSUME RunsInit
  PROVE  DriverInv /\ RunInv
<1>1. RunsTypeOK
  BY DEF RunsInit, RunsTypeOK, Passes
<1>2. Locked /\ Gone
  BY <1>1, HoldersFinite DEF RunsInit, Locked, Gone, Locking
<1>3. Counted
  <2>1. Served = {} /\ lost = {}
    BY HoldersFinite DEF RunsInit, Served, Serving
  <2>2. Cardinality(Served) = 0 /\ Cardinality(lost) = 0
    BY <2>1, FS_EmptySet
  <2> QED
    BY <2>2 DEF RunsInit, Counted, Handed, Halfway
<1>4. RunInv
  BY DEF RunsInit, RunInv, Armed, Metered, Billed, Unarmed
<1> QED
  BY <1>1, <1>2, <1>3, <1>4 DEF DriverInv

LEMMA RunsStep ==
  ASSUME DriverInv, RunInv, [RunsNext]_runsVars
  PROVE  DriverInv' /\ RunInv'
<1>1. CASE Turns
  BY <1>1, TurnsKeep
<1>2. CASE \E c \in Calls : Answered(c)
  BY <1>2, AnsweredKeeps
<1>3. CASE \E c \in Calls : Start(c) \/ Succeeds(c) \/ FailsWritten(c) \/ Fails(c) \/ Raises(c)
                            \/ Prechecked(c) \/ Refreshed(c) \/ Learned(c) \/ Probed(c)
  BY <1>3, StartMoves, PassMoves, MovesKeepAll
<1>4. CASE UNCHANGED runsVars
  <2>1. UNCHANGED <<driver, use, setup, story, money, record>>
    BY <1>4 DEF runsVars
  <2>2. DriverInv'
    BY <2>1 DEF DriverInv, RunsTypeOK, Locked, Gone, Counted, Handed, Halfway, Served, driver, story, tale, money
  <2>3. RunInv'
    BY <2>1, RunFrame DEF DriverInv, story
  <2> QED
    BY <2>2, <2>3
<1> QED
  BY <1>1, <1>2, <1>3, <1>4 DEF RunsNext, Turns

LEMMA RunsInvariance == RunsSpec => [](DriverInv /\ RunInv)
<1>1. RunsInit => DriverInv /\ RunInv
  BY RunsBegin
<1>2. (DriverInv /\ RunInv) /\ [RunsNext]_runsVars => (DriverInv /\ RunInv)'
  BY RunsStep
<1> QED
  BY <1>1, <1>2, PTL DEF RunsSpec

-------------------------------------------------------------------------------
(* What a run says of its commit                                           *)

\* A pass that has not come to its end has no fate yet.
Early == {"asking", "starting", "shaking", "in", "page"}
Fresh == \A c \in Calls : use[c] \in Early => fate[c] = None

\* A pass that is over, and will say that it saw a commit or cannot tell.
Pending(c) ==
  /\ pass[c] \in Engine \cup {"learn"} /\ fate[c] # None
  /\ deed[c] # "none" \/ fate[c] \in {"raised", "cancelled"} \/ pass[c] = "learn"

\* What the passes did is among the facts, or will be.
Owns(c) ==
  /\ deeds[c] # {} /\ pass[c] # "over" => "yes" \in facts[c] \/ "unknown" \in facts[c] \/ Pending(c)
  /\ "yes" \in facts[c] \/ deed[c] = "seen" => "seen" \in deeds[c]

Told(c) ==
  record[c] # None =>
    /\ record[c].committed = "no" => deeds[c] = {}
    /\ record[c].committed = "yes" => "seen" \in deeds[c]

TellInv == Fresh /\ \A c \in Calls : Owns(c) /\ Told(c)

\* What does not touch a run leaves what it has to say, and so does a pass that is cut.
LEMMA TellKept ==
  ASSUME RunsTypeOK, NEW d \in Calls, Owns(d), Told(d),
         pass'[d] = pass[d], deed'[d] = deed[d], deeds'[d] = deeds[d], facts'[d] = facts[d],
         record'[d] = record[d], fate'[d] = fate[d] \/ fate'[d] \in {"raised", "cancelled"}
  PROVE  Owns(d)' /\ Told(d)'
<1>1. "raised" # None /\ "cancelled" # None
  BY NoneAssumption
<1>2. Pending(d) => Pending(d)'
  BY <1>1 DEF Pending
<1> QED
  BY <1>2 DEF Owns, Told

\* The end of a pass is pending if there is something to say of it.
LEMMA DoesTells ==
  ASSUME RunsTypeOK, TellInv, NEW c \in Calls, NEW f \in {"ok", "failed", "raised", "cancelled"},
         Does(c, f), use[c] = "page", pass[c] # "over", record[c] = None, UNCHANGED <<setup, pass, record>>
  PROVE  /\ \A d \in Calls : Owns(d)' /\ Told(d)'
         /\ fate' = [fate EXCEPT ![c] = f]
<1>1. PICK d \in Deeds(c, f) :
        /\ deed' = [deed EXCEPT ![c] = IF d = "untold" THEN "none" ELSE d]
        /\ deeds' = [deeds EXCEPT ![c] = @ \cup ({d} \ {"none"})]
  BY DEF Does
<1>2. fate' = [fate EXCEPT ![c] = f] /\ facts' = facts
  BY DEF Does
<1>3. /\ deed'[c] = (IF d = "untold" THEN "none" ELSE d) /\ deeds'[c] = deeds[c] \cup ({d} \ {"none"})
      /\ fate'[c] = f /\ f # None
      /\ \A b \in Calls \ {c} : fate'[b] = fate[b] /\ deed'[b] = deed[b] /\ deeds'[b] = deeds[b]
  BY <1>1, <1>2, NoneAssumption DEF RunsTypeOK
<1>4. ASSUME NEW b \in Calls \ {c} PROVE Owns(b)' /\ Told(b)'
  BY <1>2, <1>3, TellKept DEF TellInv
<1>5. fate[c] = None /\ Owns(c)
  BY DEF TellInv, Fresh, Early
<1>6. d # "none" => Pending(c)'
  <2>1. /\ d \in {"none", "untold", "seen", "blind"}
        /\ d \in {"seen", "blind"} => pass[c] \in Engine
        /\ d = "untold" => pass[c] = "learn" \/ (pass[c] \in Engine /\ f \in {"raised", "cancelled"})
    BY <1>1, DeedFacts
  <2> QED
    BY <1>3, <2>1 DEF Pending
<1>7. Owns(c)'
  <2>1. CASE d = "none"
    <3>1. ~Pending(c) /\ deeds'[c] = deeds[c] /\ deed'[c] = "none"
      BY <1>3, <1>5, <2>1 DEF Pending
    <3> QED
      BY <1>2, <1>5, <3>1 DEF Owns
  <2>2. CASE d # "none"
    BY <1>2, <1>3, <1>5, <1>6, <2>2 DEF Owns
  <2> QED
    BY <2>1, <2>2
<1>8. Told(c)'
  BY DEF Told
<1> QED
  BY <1>2, <1>4, <1>7, <1>8

\* The holders and their sessions.
LEMMA TurnsTell ==
  ASSUME DriverInv, RunInv, TellInv, Turns
  PROVE  TellInv'
<1>0. RunsTypeOK /\ UNCHANGED <<pass, record, setup>>
  BY HolderTypes, SessionTypes DEF Turns, DriverInv
<1>1. ASSUME NEW c \in Calls, NEW f \in {"ok", "failed", "raised", "cancelled"}, Does(c, f), use[c] = "page",
             use' = [use EXCEPT ![c] = "closing"]
      PROVE  TellInv'
  <2>1. pass[c] # "over" /\ record[c] = None
    BY <1>1 DEF DriverInv, Gone, RunInv, Armed
  <2>2. (\A d \in Calls : Owns(d)' /\ Told(d)') /\ fate' = [fate EXCEPT ![c] = f]
    BY <1>0, <1>1, <2>1, DoesTells
  <2>3. Fresh'
    BY <1>0, <1>1, <2>2, HoldersFinite DEF TellInv, Fresh, Early, RunsTypeOK
  <2> QED
    BY <2>2, <2>3 DEF TellInv
<1>2. ASSUME UNCHANGED tale, NEW h \in Holders, NEW v, use' = [use EXCEPT ![h] = v],
             \/ fate' = fate /\ (v \notin Early \/ use[h] \in Early \/ h \notin Calls)
             \/ h \in Calls /\ v \notin Early /\ \E f \in {"raised", "cancelled"} : fate' = [fate EXCEPT ![h] = f]
      PROVE  TellInv'
  <2>1. \A d \in Calls : fate'[d] = fate[d] \/ fate'[d] \in {"raised", "cancelled"}
    BY <1>0, <1>2 DEF RunsTypeOK
  <2>2. \A d \in Calls : Owns(d)' /\ Told(d)'
    BY <1>0, <1>2, <2>1, TellKept DEF TellInv, tale
  <2>3. Fresh'
    BY <1>0, <1>2, HoldersFinite DEF TellInv, Fresh, RunsTypeOK
  <2> QED
    BY <2>2, <2>3 DEF TellInv
<1>3. ASSUME NEW h \in Holders,
             Enter(h) \/ Spawned(h) \/ Started(h) \/ Leave(h) \/ Stopped(h)
      PROVE  TellInv'
  <2>1. UNCHANGED <<tale, fate>>
    BY <1>3 DEF Enter, Spawned, Started, Leave, Stopped, story
  <2>2. \E v : use' = [use EXCEPT ![h] = v] /\ (v \notin Early \/ use[h] \in Early)
    BY <1>3 DEF Enter, Spawned, Started, Leave, Stopped, Early
  <2> QED
    BY <1>2, <2>1, <2>2
<1>4. ASSUME NEW h \in Holders, StartFails(h) PROVE TellInv'
  <2>1. UNCHANGED tale /\ use' = [use EXCEPT ![h] = "out"] /\ "out" \notin Early
    BY <1>4 DEF StartFails, Early
  <2>2. fate' = fate \/ (h \in Calls /\ fate' = [fate EXCEPT ![h] = "raised"])
    BY <1>4 DEF StartFails
  <2> QED
    BY <1>2, <2>1, <2>2
<1>5. ASSUME NEW h \in Holders, Cancel(h) PROVE TellInv'
  <2>1. CASE h \in Calls /\ use[h] = "page"
    BY <1>1, <1>5, <2>1 DEF Cancel
  <2>2. CASE ~(h \in Calls /\ use[h] = "page")
    <3>1. UNCHANGED tale /\ (fate' = fate \/ (h \in Calls /\ fate' = [fate EXCEPT ![h] = "cancelled"]))
      BY <1>5, <2>2 DEF Cancel
    <3>2. PICK v \in {"closing", "leaving", "out"} : use' = [use EXCEPT ![h] = v]
      BY <1>5 DEF Cancel
    <3>3. v \notin Early
      BY DEF Early
    <3> QED
      BY <1>2, <3>1, <3>2, <3>3
  <2> QED
    BY <2>1, <2>2
<1>6. ASSUME NEW s \in Scopes, Begins(s) \/ Ends(s) \/ LedgerRaises(s) PROVE TellInv'
  <2>1. s \in Holders /\ s \notin Calls /\ UNCHANGED <<tale, fate>>
    BY <1>6, HoldersFinite DEF Begins, Ends, LedgerRaises, story
  <2>2. \E v : use' = [use EXCEPT ![s] = v]
    BY <1>6 DEF Begins, Ends, LedgerRaises
  <2> QED
    BY <1>2, <2>1, <2>2
<1>7. ASSUME NEW c \in Calls, Opened(c) \/ OpenFails(c) \/ Closed(c) PROVE TellInv'
  <2>1. UNCHANGED tale /\ (fate' = fate \/ (fate' = [fate EXCEPT ![c] = "raised"] /\ ~Opened(c)))
    BY <1>7, NoneAssumption DEF Opened, OpenFails, Closed, story
  <2>2. c \in Holders
    BY HoldersFinite
  <2>3. CASE Opened(c)
    <3>1. fate' = fate /\ use' = [use EXCEPT ![c] = "page"] /\ use[c] \in Early
      BY <2>3 DEF Opened, story, Early
    <3> QED
      BY <1>2, <2>1, <2>2, <3>1
  <2>4. CASE OpenFails(c) \/ Closed(c)
    <3>1. PICK v \in {"closing", "leaving"} : use' = [use EXCEPT ![c] = v]
      BY <2>4 DEF OpenFails, Closed
    <3>2. v \notin Early
      BY DEF Early
    <3> QED
      BY <1>2, <2>1, <2>2, <3>1, <3>2
  <2> QED
    BY <1>7, <2>3, <2>4
<1>8. ASSUME NEW c \in Calls, Made(c) PROVE TellInv'
  <2>1. PICK f \in {"ok", "failed", "raised"} : Does(c, f)
    BY <1>8 DEF Made
  <2> QED
    BY <1>1, <1>8, <2>1 DEF Made
<1> QED
  BY <1>3, <1>4, <1>5, <1>6, <1>7, <1>8 DEF Turns

\* A run that settled a pass has said what there was to say.
LEMMA SaidTells ==
  ASSUME RunsTypeOK, TellInv, NEW c \in Calls, pass[c] # "over", record[c] = None, use[c] = "out",
         Speaks(c), deeds' = deeds, deed' \in {deed, [deed EXCEPT ![c] = "none"]},
         fate' \in {fate, [fate EXCEPT ![c] = None]}, fate'[c] = None,
         deeds[c] # {} => "yes" \in facts'[c] \/ "unknown" \in facts'[c],
         "yes" \in facts'[c] => "seen" \in deeds[c],
         Finish(c) \/ \E p \in Passes \ {"idle", "over"} : Onto(c, p)
  PROVE  TellInv'
<1>1. /\ \A d \in Calls \ {c} : facts'[d] = facts[d] /\ fate'[d] = fate[d] /\ deed'[d] = deed[d]
      /\ deed'[c] \in {deed[c], "none"} /\ Owns(c)
  BY SpeaksFacts DEF RunsTypeOK, TellInv
<1>2. CASE Finish(c)
  <2>1. /\ pass' = [pass EXCEPT ![c] = "over"] /\ use' = use
        /\ record' = record \/ record' = [record EXCEPT ![c] = [cost |-> Bill(c), committed |-> Evidence(facts'[c])]]
    BY <1>2 DEF Finish
  <2>2. ASSUME NEW d \in Calls \ {c} PROVE Owns(d)' /\ Told(d)'
    <3>1. pass'[d] = pass[d] /\ record'[d] = record[d]
      BY <2>1 DEF RunsTypeOK
    <3> QED
      BY <1>1, <3>1, TellKept DEF TellInv
  <2>3. Owns(c)'
    BY <1>1, <2>1 DEF Owns, RunsTypeOK
  <2>4. Told(c)'
    <3>1. record'[c] = None \/ record'[c].committed = Evidence(facts'[c])
      BY <2>1 DEF RunsTypeOK
    <3>2. /\ Evidence(facts'[c]) = "no" => ~("yes" \in facts'[c] \/ "unknown" \in facts'[c])
          /\ Evidence(facts'[c]) = "yes" => "yes" \in facts'[c]
      BY DEF Evidence
    <3> QED
      BY <3>1, <3>2 DEF Told
  <2>5. Fresh'
    BY <1>1, <2>1 DEF TellInv, Fresh
  <2> QED
    BY <2>2, <2>3, <2>4, <2>5 DEF TellInv
<1>3. ASSUME NEW p \in Passes \ {"idle", "over"}, Onto(c, p) PROVE TellInv'
  <2>1. pass' = [pass EXCEPT ![c] = p] /\ use' = [use EXCEPT ![c] = "asking"] /\ record' = record
    BY <1>3 DEF Onto
  <2>2. ASSUME NEW d \in Calls \ {c} PROVE Owns(d)' /\ Told(d)'
    <3>1. pass'[d] = pass[d]
      BY <2>1 DEF RunsTypeOK
    <3> QED
      BY <1>1, <2>1, <3>1, TellKept DEF TellInv
  <2>3. Owns(c)'
    BY <1>1 DEF Owns
  <2>4. Told(c)'
    BY <2>1 DEF Told
  <2>5. Fresh'
    BY <1>1, <2>1, HoldersFinite DEF TellInv, Fresh, RunsTypeOK
  <2> QED
    BY <2>2, <2>3, <2>4, <2>5 DEF TellInv
<1> QED
  BY <1>2, <1>3

\* From pass to pass.
LEMMA PassTells ==
  ASSUME DriverInv, RunInv, TellInv, NEW c \in Calls,
         Start(c) \/ Succeeds(c) \/ FailsWritten(c) \/ Fails(c) \/ Raises(c)
           \/ Prechecked(c) \/ Refreshed(c) \/ Learned(c) \/ Probed(c)
  PROVE  TellInv'
<1>1. Moves(c) /\ RunsTypeOK
  BY StartMoves, PassMoves DEF DriverInv
<1>2. /\ pass[c] # "over" /\ record[c] = None /\ use[c] = "out" /\ Speaks(c) /\ deeds' = deeds
      /\ deed' \in {deed, [deed EXCEPT ![c] = "none"]} /\ fate' \in {fate, [fate EXCEPT ![c] = None]}
      /\ Finish(c) \/ \E p \in Passes \ {"idle", "over"} : Onto(c, p)
  BY <1>1 DEF Moves, RunInv, Armed
<1>3. /\ Owns(c) /\ facts[c] \subseteq facts'[c] /\ deed[c] \in {"none", "blind", "seen"}
      /\ \A e : Says(c, e) => facts'[c] = facts[c] \cup {e}
  BY <1>1, <1>2, SpeaksFacts DEF TellInv, Says, RunsTypeOK
<1>4. fate'[c] = None
  <2>1. CASE Start(c)
    BY <2>1 DEF Start, DriverInv, Gone
  <2>2. CASE Settles(c)
    BY <1>1, <2>2 DEF Settles, RunsTypeOK
  <2> QED
    BY <2>1, <2>2 DEF Succeeds, FailsWritten, Fails, Raises, Prechecked, Refreshed, Learned, Probed
<1> DEFINE Said == /\ deeds[c] # {} => "yes" \in facts'[c] \/ "unknown" \in facts'[c]
                   /\ "yes" \in facts'[c] => "seen" \in deeds[c]
<1>5. ASSUME ~Pending(c), facts' = facts \/ Says(c, "no") \/ Says(c, "unknown") PROVE Said
  BY <1>2, <1>3, <1>5 DEF Owns
<1>6. ASSUME Says(c, "unknown") PROVE Said
  BY <1>3, <1>6 DEF Owns
<1>7. CASE Start(c)
  <2>1. facts' = facts /\ fate[c] = None
    BY <1>7 DEF Start, tale, DriverInv, Gone
  <2> QED
    BY <1>2, <1>4, <1>5, <2>1, SaidTells DEF Pending, DriverInv
<1>8. CASE Succeeds(c) \/ FailsWritten(c)
  <2>1. /\ Says(c, Verdict(c)) /\ pass[c] \in Engine /\ pass[c] # "learn"
        /\ fate[c] \in {"ok", "failed"}
    BY <1>8 DEF Succeeds, FailsWritten, Engine
  <2>2. /\ deed[c] = "seen" => Verdict(c) = "yes"
        /\ deed[c] = "blind" => Verdict(c) = "unknown"
        /\ deed[c] = "none" => Verdict(c) = "no"
    BY DEF Verdict
  <2>3. CASE deed[c] = "seen"
    <3>1. Said
      BY <1>3, <2>1, <2>2, <2>3 DEF Owns
    <3> QED
      BY <1>1, <1>2, <1>4, <3>1, SaidTells
  <2>4. CASE deed[c] = "blind"
    <3>1. Said
      BY <1>6, <2>1, <2>2, <2>4
    <3> QED
      BY <1>1, <1>2, <1>4, <3>1, SaidTells
  <2>5. CASE deed[c] = "none"
    <3>1. ~Pending(c)
      BY <2>1, <2>5 DEF Pending
    <3>2. Said
      BY <1>5, <2>1, <2>2, <2>5, <3>1
    <3> QED
      BY <1>1, <1>2, <1>4, <3>2, SaidTells
  <2> QED
    BY <1>3, <2>3, <2>4, <2>5
<1>9. CASE Fails(c)
  <2>1. /\ Says(c, Verdict(c)) /\ pass[c] # "learn" /\ fate[c] = "failed" /\ deed[c] = "none"
    BY <1>3, <1>9 DEF Fails, Engine
  <2>2. Verdict(c) = "no" /\ ~Pending(c)
    BY <2>1 DEF Verdict, Pending
  <2>3. Said
    BY <1>5, <2>1, <2>2
  <2> QED
    BY <1>1, <1>2, <1>4, <2>3, SaidTells
<1>10. CASE Raises(c) \/ Learned(c)
  <2>1. Said
    BY <1>6, <1>10 DEF Raises, Learned
  <2> QED
    BY <1>1, <1>2, <1>4, <2>1, SaidTells
<1>11. CASE Prechecked(c) \/ Refreshed(c) \/ Probed(c)
  <2>1. ~Pending(c)
    BY <1>11 DEF Prechecked, Refreshed, Probed, Pending, Engine
  <2>2. facts' = facts \/ Says(c, "unknown")
    BY <1>11 DEF Prechecked, Refreshed, Probed
  <2>3. Said
    BY <1>5, <2>1, <2>2
  <2> QED
    BY <1>1, <1>2, <1>4, <2>3, SaidTells
<1> QED
  BY <1>7, <1>8, <1>9, <1>10, <1>11

LEMMA TellStep ==
  ASSUME DriverInv, RunInv, TellInv, [RunsNext]_runsVars
  PROVE  TellInv'
<1>1. CASE Turns
  BY <1>1, TurnsTell
<1>2. CASE \E c \in Calls : Start(c) \/ Succeeds(c) \/ FailsWritten(c) \/ Fails(c) \/ Raises(c)
                            \/ Prechecked(c) \/ Refreshed(c) \/ Learned(c) \/ Probed(c)
  BY <1>2, PassTells
<1>3. CASE UNCHANGED <<use, story, record>>
  <2>1. UNCHANGED <<use, pass, fate, deed, deeds, facts, record>>
    BY <1>3 DEF story, tale
  <2> QED
    BY <2>1 DEF TellInv, Fresh, Owns, Told, Pending
<1>4. (\E c \in Calls : Answered(c)) \/ UNCHANGED runsVars => UNCHANGED <<use, story, record>>
  BY DEF Answered, runsVars
<1> QED
  BY <1>1, <1>2, <1>3, <1>4 DEF RunsNext, Turns

LEMMA TellInvariance == RunsSpec => [](DriverInv /\ RunInv /\ TellInv)
<1>1. RunsInit => DriverInv /\ RunInv /\ TellInv
  <2>1. RunsInit => TellInv
    BY DEF RunsInit, TellInv, Fresh, Owns, Told, Pending
  <2> QED
    BY <2>1, RunsBegin
<1>2. (DriverInv /\ RunInv /\ TellInv) /\ [RunsNext]_runsVars => (DriverInv /\ RunInv /\ TellInv)'
  BY RunsStep, TellStep
<1> QED
  BY <1>1, <1>2, PTL DEF RunsSpec

-------------------------------------------------------------------------------
(* The theorems of the runs                                                *)

\* Every variable of the runs, the driver and the bills has its type throughout
\* (browser.py _acquire_driver, _release_driver; obs.py).
THEOREM RunsTypeCorrect == RunsSpec => []RunsTypeOK
<1>1. DriverInv /\ RunInv => RunsTypeOK
  BY DEF DriverInv
<1> QED
  BY <1>1, RunsInvariance, PTL

\* A holder that was handed the driver keeps it until it gives its reference back,
\* whatever the other holders do (browser.py _release_driver: only the last one stops it).
THEOREM DriverOutlivesUsers == RunsSpec => []DriverServes
<1>1. DriverInv /\ RunInv => DriverServes
  BY ServedHasDriver DEF DriverServes, Serving
<1> QED
  BY <1>1, RunsInvariance, PTL

\* At most one driver process runs beside those left behind by the holders that gave up
\* half way, and none but those once every holder is out.
THEOREM DriversAreStopped == RunsSpec => []NothingOrphaned
<1>1. ASSUME DriverInv PROVE NothingOrphaned
  <2>1. running + refs <= Cardinality(lost) + Handed + Halfway + Cardinality(Served)
    BY <1>1 DEF DriverInv, Counted
  <2>2. Cardinality(Served) <= refs /\ refs \in Nat /\ running \in Nat /\ Cardinality(Served) \in Nat
        /\ Cardinality(lost) \in Nat
    BY <1>1, Counts DEF DriverInv, Counted
  <2>3. Handed + Halfway <= 1 /\ Handed \in {0, 1} /\ Halfway \in {0, 1}
    <3>1. pw => Halfway = 0
      <4>1. ASSUME pw, lock # None, use[lock] \in {"shaking", "stopping"} PROVE FALSE
        <5>1. lock \in Holders
          BY <1>1, <4>1 DEF DriverInv, RunsTypeOK
        <5> QED
          BY <1>1, <4>1, <5>1 DEF DriverInv, Locked, Locking
      <4> QED
        BY <4>1 DEF Halfway
    <3> QED
      BY <3>1 DEF Handed, Halfway
  <2>4. running <= 1 + Cardinality(lost)
    BY <2>1, <2>2, <2>3
  <2>5. ASSUME \A h \in Holders : use[h] = "out" PROVE running <= Cardinality(lost)
    <3>1. Served = {}
      BY <2>5 DEF Served, Serving
    <3>2. Cardinality(Served) = 0
      BY <3>1, FS_EmptySet
    <3>3. Halfway = 0
      <4>1. lock \in Holders \cup {None}
        BY <1>1 DEF DriverInv, RunsTypeOK
      <4> QED
        BY <2>5, <4>1 DEF Halfway
    <3>4. Handed <= refs
      BY <1>1, <2>2 DEF DriverInv, Counted, Handed
    <3> QED
      BY <2>1, <2>2, <2>3, <3>2, <3>3, <3>4
  <2> QED
    BY <2>4, <2>5 DEF NothingOrphaned
<1>2. DriverInv /\ RunInv => NothingOrphaned
  BY <1>1
<1> QED
  BY <1>2, RunsInvariance, PTL

\* The cost a record states covers every answer the run had, and is exact unless another
\* run was answered by one of its routers (obs.py RouterWatch).
THEOREM BillsCoverSpending == RunsSpec => []BillHolds
<1>1. DriverInv /\ RunInv => BillHolds
  BY DEF RunInv, Billed, BillHolds
<1> QED
  BY <1>1, RunsInvariance, PTL

\* What the record says of the commit is what its passes did: a claim is of a commit seen
\* by one of them, and a denial of a run none of whose passes had one to tell of
\* (flows.py _RecordSink, _attempt_replay).
THEOREM DenialsAreFair == RunsSpec => []DenialIsFair
<1>1. DriverInv /\ RunInv /\ TellInv => DenialIsFair
  BY DEF TellInv, Told, DenialIsFair
<1> QED
  BY <1>1, TellInvariance, PTL
=================================================================================
