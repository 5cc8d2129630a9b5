------------------------------- MODULE Fleet_proofs -------------------------------
(***************************************************************************)
(* Proofs about Fleet, for any fleet, any command lines, any pages and any *)
(* number of ticks, of human acts and of faults; and about Record, which   *)
(* shares no name with it, for any page, any demonstration and any asks.   *)
(***************************************************************************)
EXTENDS Fleet, Record, SequenceTheorems, FiniteSetTheorems, WellFoundedInduction, TLAPS

Metas == [approval : Approvals, quarantine : Quarantines, due : BOOLEAN]

JobStates ==
  [pc : {"gate", "admitted", "open", "looked", "accrued", "done"}, status : Statuses, chosen : BOOLEAN,
   writes : BOOLEAN, due : BOOLEAN, value : Levels \cup {NoValue}, outlier : BOOLEAN, fresh : BOOLEAN,
   moved : BOOLEAN]

AuditFields == {"pc", "unseen", "todo", "calls", "unjudged", "quarantined", "owed", "lost", "excused"}

\* What the proofs need to know of the shape of the state.
Types ==
  /\ options \in Options
  /\ meta \in [Flows -> Metas]
  /\ torn \subseteq Flows /\ marked \subseteq Flows /\ left \subseteq Flows
  /\ ring \in [Flows -> Seq(Levels \cup {NoValue})]
  /\ job \in [Jobs -> JobStates]
  /\ audit = [x \in AuditFields |-> audit[x]]

LEMMA JobsOf == \A t \in Ticks : \A f \in Serves[t] : f \in Flows /\ <<t, f>> \in Jobs
BY FleetAssumption DEF Jobs

LEMMA JobFields ==
  \A r \in JobStates :
    /\ r.pc \in {"gate", "admitted", "open", "looked", "accrued", "done"} /\ r.status \in Statuses
    /\ r.chosen \in BOOLEAN /\ r.writes \in BOOLEAN /\ r.due \in BOOLEAN /\ r.value \in Levels \cup {NoValue}
    /\ r.outlier \in BOOLEAN /\ r.fresh \in BOOLEAN /\ r.moved \in BOOLEAN
BY DEF JobStates

\* A flow that is neither approved nor refused was left out by a human.
LeftOut ==
  \A f \in Flows : f \notin torn /\ meta[f].approval = "no" /\ meta[f].quarantine = "none" => f \in left

\* What a tick has decided, and what it will run.
Decided(t, f) ==
  LET r == job[t, f]
  IN /\ r.status = "skipped" => r.chosen
     /\ r.pc = "admitted" => \/ f \in Declares /\ options.includeWrites
                             \/ f \notin Declares /\ (f \notin marked \/ r.moved)
     /\ r.pc = "gate" => ~r.writes
     /\ r.writes => \/ f \in Declares /\ options.includeWrites
                    \/ f \notin Declares /\ r.moved

\* What a run has checked still holds of the ring, unless the ring has changed.
Looked(t, f) ==
  LET r == job[t, f]
  IN r.pc = "looked" /\ r.fresh /\ ~r.outlier => ~Refused(r.value, ring[f])

\* Evidence that an audit owes an answer to is still to be judged, or is reported.
Owed ==
  /\ audit.lost \subseteq audit.excused
  /\ ~audit.unjudged => audit.owed \subseteq audit.todo \cup audit.excused
  /\ audit.pc = "done" /\ AuditCode = 0 => audit.owed \subseteq audit.excused

IInv ==
  /\ Types
  /\ LeftOut
  /\ \A t \in Ticks : \A f \in Serves[t] : Decided(t, f) /\ Looked(t, f)
  /\ Owed

-------------------------------------------------------------------------------
(* What reading and saving a sidecar keeps.                                *)

LEMMA PoisonedIsMeta == Poisoned \in Metas /\ Poisoned.quarantine # "none"
BY DEF Poisoned, Metas, Approvals, Quarantines

LEMMA ReadKeeps ==
  ASSUME Types, LeftOut, NEW f \in Flows, ReadOnly(f), UNCHANGED left
  PROVE  meta' \in [Flows -> Metas] /\ torn' \subseteq Flows /\ LeftOut'
<1>1. Read(f) \in Metas
  BY PoisonedIsMeta DEF Types, Read
<1>2. meta' \in [Flows -> Metas] /\ torn' \subseteq Flows
  BY <1>1 DEF Types, ReadOnly
<1>3. LeftOut'
  BY PoisonedIsMeta DEF Types, LeftOut, ReadOnly, Read
<1> QED BY <1>2, <1>3

\* An update that leaves no flow unapproved and unrefused that was not.
LEMMA SaveKeeps ==
  ASSUME Types, LeftOut, NEW f \in Flows, NEW m \in Metas, Save(f, m), left' \subseteq Flows, left \subseteq left' \cup {f},
         f \notin torn /\ m.approval = "no" /\ m.quarantine = "none" => f \in left'
  PROVE  meta' \in [Flows -> Metas] /\ torn' \subseteq Flows /\ LeftOut'
<1>1. meta' \in [Flows -> Metas] /\ torn' \subseteq Flows
  BY PoisonedIsMeta DEF Types, Save
<1>2. LeftOut'
  BY PoisonedIsMeta DEF Types, LeftOut, Save
<1> QED BY <1>1, <1>2

\* A state in which neither runs, rings nor recipes changed.
LEMMA FleetKeeps ==
  ASSUME IInv, UNCHANGED <<options, marked, ring, job>>, meta' \in [Flows -> Metas], torn' \subseteq Flows,
         left' \subseteq Flows, LeftOut', Owed', audit' = [x \in AuditFields |-> audit'[x]]
  PROVE  IInv'
<1>1. Types'
  BY DEF IInv, Types
<1>2. ASSUME NEW t \in Ticks, NEW f \in Serves[t] PROVE (Decided(t, f) /\ Looked(t, f))'
  BY DEF IInv, Decided, Looked
<1> QED BY <1>1, <1>2 DEF IInv

\* A state in which one run went on.
LEMMA JobKeeps ==
  ASSUME IInv, NEW t \in Ticks, NEW f \in Serves[t], NEW r \in JobStates, job' = [job EXCEPT ![<<t, f>>] = r],
         UNCHANGED <<options, marked, ring, left, audit>>, meta' \in [Flows -> Metas], torn' \subseteq Flows, LeftOut',
         r.status = "skipped" => r.chosen,
         r.pc = "admitted" => \/ f \in Declares /\ options.includeWrites
                              \/ f \notin Declares /\ (f \notin marked \/ r.moved),
         r.pc = "gate" => ~r.writes,
         r.writes => \/ f \in Declares /\ options.includeWrites
                     \/ f \notin Declares /\ r.moved,
         r.pc = "looked" /\ r.fresh /\ ~r.outlier => ~Refused(r.value, ring[f])
  PROVE  IInv'
<1>1. <<t, f>> \in Jobs /\ job \in [Jobs -> JobStates]
  BY JobsOf DEF IInv, Types
<1>2. job' \in [Jobs -> JobStates] /\ job'[t, f] = r /\ (\A j \in Jobs : j # <<t, f>> => job'[j] = job[j])
  BY <1>1
<1>3. Types'
  BY <1>2 DEF IInv, Types
<1>4. ASSUME NEW t2 \in Ticks, NEW f2 \in Serves[t2] PROVE (Decided(t2, f2) /\ Looked(t2, f2))'
  <2>1. CASE t2 = t /\ f2 = f
    BY <1>2, <2>1 DEF Decided, Looked
  <2>2. CASE ~(t2 = t /\ f2 = f)
    <3>1. job'[t2, f2] = job[t2, f2]
      BY <1>2, <2>2, JobsOf
    <3> QED BY <3>1 DEF IInv, Decided, Looked
  <2> QED BY <2>1, <2>2
<1> QED BY <1>3, <1>4 DEF IInv, Owed, AuditCode

\* A ring that changes under the runs that have looked at it.
LEMMA RingMovedKeeps ==
  ASSUME NEW J \in [Jobs -> JobStates], NEW f
  PROVE  /\ RingMoved(f, J) \in [Jobs -> JobStates]
         /\ \A j \in Jobs : LET r == RingMoved(f, J)[j]
                            IN /\ r.pc = J[j].pc /\ r.status = J[j].status /\ r.chosen = J[j].chosen
                               /\ r.writes = J[j].writes /\ r.moved = J[j].moved
                               /\ r.value = J[j].value /\ r.outlier = J[j].outlier
                               /\ r.fresh => J[j].fresh
                               /\ j[2] = f /\ r.pc = "looked" => ~r.fresh
<1>1. ASSUME NEW r \in JobStates
      PROVE  LET o == [r EXCEPT !.fresh = FALSE]
             IN /\ o \in JobStates /\ ~o.fresh
                /\ o.pc = r.pc /\ o.status = r.status /\ o.chosen = r.chosen /\ o.writes = r.writes
                /\ o.moved = r.moved /\ o.value = r.value /\ o.outlier = r.outlier
  BY DEF JobStates
<1>2. RingMoved(f, J) \in [Jobs -> JobStates]
  BY <1>1 DEF RingMoved
<1>3. ASSUME NEW j \in Jobs
      PROVE  IF j[2] = f /\ J[j].pc = "looked" THEN RingMoved(f, J)[j] = [J[j] EXCEPT !.fresh = FALSE]
                                               ELSE RingMoved(f, J)[j] = J[j]
  BY DEF RingMoved
<1>4. ASSUME NEW j \in Jobs
      PROVE  LET r == RingMoved(f, J)[j]
             IN /\ r.pc = J[j].pc /\ r.status = J[j].status /\ r.chosen = J[j].chosen
                /\ r.writes = J[j].writes /\ r.moved = J[j].moved
                /\ r.value = J[j].value /\ r.outlier = J[j].outlier
                /\ r.fresh => J[j].fresh
                /\ j[2] = f /\ r.pc = "looked" => ~r.fresh
  <2>1. J[j] \in JobStates
    OBVIOUS
  <2>2. CASE j[2] = f /\ J[j].pc = "looked"
    BY <1>1, <1>3, <2>1, <2>2
  <2>3. CASE ~(j[2] = f /\ J[j].pc = "looked")
    BY <1>3, <2>3
  <2> QED BY <2>2, <2>3
<1> QED BY <1>2, <1>4

\* A run that did not go on while recipes and rings changed.
LEMMA OtherJob ==
  ASSUME IInv, NEW t \in Ticks, NEW f \in Serves[t], options' = options,
         job'[t, f].pc = job[t, f].pc, job'[t, f].status = job[t, f].status, job'[t, f].chosen = job[t, f].chosen,
         job'[t, f].writes = job[t, f].writes, job'[t, f].value = job[t, f].value,
         job'[t, f].outlier = job[t, f].outlier, job'[t, f].fresh => job[t, f].fresh,
         job[t, f].moved => job'[t, f].moved,
         job[t, f].pc = "looked" /\ job'[t, f].fresh => ring'[f] = ring[f],
         job[t, f].pc = "admitted" /\ f \in marked' => f \in marked \/ job'[t, f].moved
  PROVE  (Decided(t, f) /\ Looked(t, f))'
<1>1. Decided(t, f) /\ Looked(t, f)
  BY DEF IInv
<1>2. Decided(t, f)'
  BY <1>1 DEF Decided
<1>3. Looked(t, f)'
  BY <1>1 DEF Looked
<1> QED BY <1>2, <1>3

-------------------------------------------------------------------------------
(* The ticks.                                                              *)

LEMMA InitImpliesIInv == Init => IInv
<1> SUFFICES ASSUME Init PROVE IInv
  OBVIOUS
<1>1. meta \in [Flows -> Metas]
  BY DEF Init, Metas, Approvals, Quarantines
<1>2. ring \in [Flows -> Seq(Levels \cup {NoValue})]
  <2>1. PICK begun \in [Flows \ Declares -> Baselines] :
          ring = [f \in Flows |-> IF f \in Declares THEN <<>> ELSE begun[f]]
    BY DEF Init
  <2>2. <<>> \in Seq(Levels \cup {NoValue}) /\ Baselines \subseteq Seq(Levels \cup {NoValue})
    BY FleetAssumption
  <2> QED BY <2>1, <2>2
<1>3. Waiting \in JobStates
  BY DEF Waiting, JobStates, Statuses, NoValue
<1>4. job \in [Jobs -> JobStates] /\ \A j \in Jobs : job[j] = Waiting
  BY <1>3 DEF Init
<1>5. audit = [x \in AuditFields |-> audit[x]] /\ Owed
  BY DEF Init, Sleeping, AuditFields, Owed
<1>6. LeftOut
  BY DEF Init, LeftOut
<1>7. ASSUME NEW t \in Ticks, NEW f \in Serves[t] PROVE Decided(t, f) /\ Looked(t, f)
  <2>1. job[t, f] = Waiting
    BY <1>4, JobsOf
  <2>2. job[t, f].pc = "gate" /\ job[t, f].status = "none" /\ ~job[t, f].writes
    <3>1. Waiting.pc = "gate" /\ Waiting.status = "none" /\ ~Waiting.writes
      BY DEF Waiting
    <3> QED BY <2>1, <3>1
  <2> QED BY <2>2 DEF Decided, Looked
<1>8. left \subseteq Flows
  BY DEF Init
<1> QED
  BY <1>1, <1>2, <1>4, <1>5, <1>6, <1>7, <1>8, FleetAssumption DEF IInv, Types, Init

LEMMA JobIs ==
  ASSUME IInv, NEW t \in Ticks, NEW f \in Serves[t]
  PROVE  f \in Flows /\ <<t, f>> \in Jobs /\ job[<<t, f>>] \in JobStates /\ job[t, f] = job[<<t, f>>]
         /\ Decided(t, f) /\ Looked(t, f)
BY JobsOf DEF IInv, Types

LEMMA GateKeeps ==
  ASSUME IInv, NEW t \in Ticks, NEW f \in Serves[t], Gate(t, f)
  PROVE  IInv'
<1> DEFINE j == <<t, f>>
           undeclared == f \in marked \ Declares
           spared == f \in Declares /\ ~options.includeWrites
           r == IF Holds(f) \/ (~Leaves(f) /\ undeclared)
                THEN [job[j] EXCEPT !.pc = "done", !.status = "failed"]
                ELSE IF Leaves(f) \/ spared
                     THEN [job[j] EXCEPT !.pc = "done", !.status = "skipped", !.chosen = f \in left \/ ~Leaves(f)]
                     ELSE [job[j] EXCEPT !.pc = "admitted"]
<1>1. f \in Flows /\ j \in Jobs /\ job[j] \in JobStates /\ Decided(t, f) /\ job[j].pc = "gate" /\ ~job[j].writes
  BY JobIs DEF Gate, Decided
<1>2. job' = [job EXCEPT ![j] = r] /\ UNCHANGED <<options, marked, ring, left, audit>>
  BY DEF Gate, Becomes
<1>3. meta' \in [Flows -> Metas] /\ torn' \subseteq Flows /\ LeftOut'
  BY <1>1, ReadKeeps DEF Gate, IInv
<1>4. Leaves(f) => f \in left
  BY <1>1, PoisonedIsMeta DEF IInv, LeftOut, Leaves, Read
<1>5. r \in JobStates
  BY <1>1 DEF JobStates, Statuses
<1>6. /\ r.status = "skipped" => r.chosen
      /\ r.pc = "admitted" => \/ f \in Declares /\ options.includeWrites
                              \/ f \notin Declares /\ (f \notin marked \/ r.moved)
      /\ r.pc = "gate" => ~r.writes
      /\ ~r.writes /\ r.pc # "looked"
  BY <1>1, <1>4 DEF JobStates, Decided
<1> HIDE DEF r
<1> QED BY <1>2, <1>3, <1>5, <1>6, JobKeeps

LEMMA EndedKeeps ==
  ASSUME IInv, NEW t \in Ticks, NEW f \in Serves[t], NEW status \in {"ok", "failed"}, Ends(<<t, f>>, status),
         UNCHANGED <<options, marked, ring, left, audit>>, meta' \in [Flows -> Metas], torn' \subseteq Flows, LeftOut'
  PROVE  IInv'
<1> DEFINE r == Ended(job[<<t, f>>], status)
<1>1. job[<<t, f>>] \in JobStates /\ Decided(t, f)
  BY JobIs
<1>2. r \in JobStates
  BY <1>1 DEF Ended, JobStates, Statuses, NoValue
<1>3. r.status # "skipped" /\ r.pc = "done" /\ r.writes = job[<<t, f>>].writes /\ r.moved = job[<<t, f>>].moved
  BY <1>1 DEF Ended, JobStates
<1>4. job' = [job EXCEPT ![<<t, f>>] = r]
  BY DEF Ends, Becomes
<1> HIDE DEF r
<1> QED BY <1>1, <1>2, <1>3, <1>4, JobKeeps DEF Decided

LEMMA SidecarKept == IInv /\ UNCHANGED <<meta, torn, left>> => meta' \in [Flows -> Metas] /\ torn' \subseteq Flows /\ LeftOut'
BY DEF IInv, Types, LeftOut

LEMMA UnreadableKeeps ==
  ASSUME IInv, NEW t \in Ticks, NEW f \in Serves[t], Unreadable(t, f) \/ Replayed(t, f)
  PROVE  IInv'
BY SidecarKept, EndedKeeps DEF Unreadable, Replayed

LEMMA StartKeeps ==
  ASSUME IInv, NEW t \in Ticks, NEW f \in Serves[t], Start(t, f)
  PROVE  IInv'
<1> DEFINE j == <<t, f>>
           m == Read(f)
           refused == m.quarantine # "none" \/ (options.approvedOnly /\ m.approval # "yes")
           r == IF refused THEN [job[j] EXCEPT !.pc = "done", !.status = "failed"]
                ELSE [job[j] EXCEPT !.pc = "open", !.writes = IsWrite(f), !.due = m.due]
<1>1. f \in Flows /\ j \in Jobs /\ job[j] \in JobStates /\ Decided(t, f) /\ job[j].pc = "admitted"
  BY JobIs DEF Start
<1>2. job' = [job EXCEPT ![j] = r] /\ UNCHANGED <<options, marked, ring, left, audit>>
  BY DEF Start, Becomes
<1>3. meta' \in [Flows -> Metas] /\ torn' \subseteq Flows /\ LeftOut'
  BY <1>1, ReadKeeps DEF Start, IInv
<1>4. m.due \in BOOLEAN
  BY <1>1 DEF Read, Poisoned, IInv, Types, Metas
<1> HIDE DEF m
<1>5. r \in JobStates
  BY <1>1, <1>4 DEF JobStates, Statuses, IsWrite
<1>6. /\ r.status = "skipped" => r.chosen
      /\ r.pc \in {"done", "open"}
      /\ r.writes => \/ f \in Declares /\ options.includeWrites
                     \/ f \notin Declares /\ r.moved
  BY <1>1 DEF JobStates, Decided, IsWrite
<1> HIDE DEF r
<1> QED BY <1>2, <1>3, <1>5, <1>6, JobKeeps

LEMMA LookKeeps ==
  ASSUME IInv, NEW t \in Ticks, NEW f \in Serves[t], NEW v \in Levels, Look(t, f, v)
  PROVE  IInv'
<1> DEFINE j == <<t, f>>
           r == [job[j] EXCEPT !.pc = "looked", !.value = v, !.outlier = Refused(v, ring[f])]
<1>1. f \in Flows /\ j \in Jobs /\ job[j] \in JobStates /\ Decided(t, f)
  BY JobIs
<1>2. job' = [job EXCEPT ![j] = r] /\ UNCHANGED <<options, meta, torn, marked, ring, left, audit>>
  BY DEF Look, Becomes
<1>3. Refused(v, ring[f]) \in BOOLEAN
  BY DEF Refused, Warm, Deviates
<1>4. r \in JobStates
  BY <1>1, <1>3 DEF JobStates
<1>5. /\ r.status = "skipped" => r.chosen
      /\ r.pc = "looked" /\ r.value = v /\ r.outlier = Refused(v, ring[f])
      /\ r.writes => \/ f \in Declares /\ options.includeWrites
                     \/ f \notin Declares /\ r.moved
  BY <1>1 DEF JobStates, Decided
<1> HIDE DEF r
<1>6. r.pc = "looked" /\ r.fresh /\ ~r.outlier => ~Refused(r.value, ring[f])
  BY <1>5
<1>7. meta' \in [Flows -> Metas] /\ torn' \subseteq Flows /\ LeftOut'
  BY <1>2, SidecarKept
<1> QED BY <1>2, <1>4, <1>5, <1>6, <1>7, JobKeeps

LEMMA NewestIsSeq ==
  ASSUME NEW S, NEW s \in Seq(S), NEW n \in Nat
  PROVE  Newest(s, n) \in Seq(S)
BY SubSeqProperties DEF Newest

LEMMA AccrueKeeps ==
  ASSUME IInv, NEW t \in Ticks, NEW f \in Serves[t], Accrue(t, f)
  PROVE  IInv'
<1> DEFINE j == <<t, f>>
           v == job[j].value
           r == [job[j] EXCEPT !.pc = "accrued"]
           K == RingMoved(f, job)
<1>1. f \in Flows /\ j \in Jobs /\ job[j] \in JobStates /\ Decided(t, f) /\ job \in [Jobs -> JobStates]
  BY JobIs DEF IInv, Types
<1>2. /\ job' = [K EXCEPT ![j] = r] /\ ring' = [ring EXCEPT ![f] = Newest(Append(ring[f], v), RingSize)]
      /\ UNCHANGED <<options, meta, torn, marked, left, audit>>
  BY DEF Accrue
<1>3. K \in [Jobs -> JobStates]
  BY <1>1, RingMovedKeeps
<1>4. ring' \in [Flows -> Seq(Levels \cup {NoValue})] /\ \A g \in Flows : g # f => ring'[g] = ring[g]
  <2>1. Append(ring[f], v) \in Seq(Levels \cup {NoValue})
    BY <1>1, JobFields DEF IInv, Types
  <2>2. Newest(Append(ring[f], v), RingSize) \in Seq(Levels \cup {NoValue})
    BY <2>1, NewestIsSeq, FleetAssumption
  <2> QED BY <1>1, <1>2, <2>2 DEF IInv, Types
<1>5. r \in JobStates /\ r.pc = "accrued" /\ r.status = job[j].status /\ r.chosen = job[j].chosen
      /\ r.writes = job[j].writes /\ r.moved = job[j].moved
  BY <1>1 DEF JobStates
<1> HIDE DEF r, K
<1>6. job' \in [Jobs -> JobStates] /\ job'[j] = r /\ \A j2 \in Jobs : j2 # j => job'[j2] = K[j2]
  BY <1>1, <1>2, <1>3, <1>5
<1>7. Types' /\ LeftOut' /\ Owed'
  BY <1>2, <1>4, <1>6 DEF IInv, Types, LeftOut, Owed, AuditCode
<1>8. ASSUME NEW t2 \in Ticks, NEW f2 \in Serves[t2] PROVE (Decided(t2, f2) /\ Looked(t2, f2))'
  <2>1. CASE t2 = t /\ f2 = f
    <3>1. job'[t2, f2] = r
      BY <1>6, <2>1
    <3> QED BY <1>1, <1>2, <1>5, <2>1, <3>1 DEF Decided, Looked
  <2>2. CASE ~(t2 = t /\ f2 = f)
    <3>1. <<t2, f2>> \in Jobs /\ f2 \in Flows
      BY JobsOf
    <3>2. job'[t2, f2] = K[t2, f2]
      BY <1>6, <2>2, <3>1
    <3>3. /\ K[t2, f2].pc = job[t2, f2].pc /\ K[t2, f2].status = job[t2, f2].status
          /\ K[t2, f2].chosen = job[t2, f2].chosen /\ K[t2, f2].writes = job[t2, f2].writes
          /\ K[t2, f2].moved = job[t2, f2].moved /\ K[t2, f2].value = job[t2, f2].value
          /\ K[t2, f2].outlier = job[t2, f2].outlier /\ (K[t2, f2].fresh => job[t2, f2].fresh)
          /\ (f2 = f /\ K[t2, f2].pc = "looked" => ~K[t2, f2].fresh)
      <4> DEFINE k == <<t2, f2>>
      <4>1. LET o == RingMoved(f, job)[k]
            IN /\ o.pc = job[k].pc /\ o.status = job[k].status /\ o.chosen = job[k].chosen
               /\ o.writes = job[k].writes /\ o.moved = job[k].moved
               /\ o.value = job[k].value /\ o.outlier = job[k].outlier
               /\ o.fresh => job[k].fresh
               /\ k[2] = f /\ o.pc = "looked" => ~o.fresh
        BY <1>1, <3>1, RingMovedKeeps
      <4> QED BY <4>1 DEF K
    <3>4. /\ job'[t2, f2].pc = job[t2, f2].pc /\ job'[t2, f2].status = job[t2, f2].status
          /\ job'[t2, f2].chosen = job[t2, f2].chosen /\ job'[t2, f2].writes = job[t2, f2].writes
          /\ job'[t2, f2].moved = job[t2, f2].moved /\ job'[t2, f2].value = job[t2, f2].value
          /\ job'[t2, f2].outlier = job[t2, f2].outlier
          /\ (job'[t2, f2].fresh => job[t2, f2].fresh)
      BY <3>2, <3>3
    <3>5. job[t2, f2].pc = "looked" /\ job'[t2, f2].fresh => ring'[f2] = ring[f2]
      BY <1>2, <1>4, <3>1, <3>2, <3>3
    <3>6. options' = options /\ marked' = marked
      BY <1>2
    <3> HIDE DEF K
    <3> QED BY <3>4, <3>5, <3>6, OtherJob
  <2> QED BY <2>1, <2>2
<1> QED BY <1>7, <1>8 DEF IInv

LEMMA QuarantineKeeps ==
  ASSUME IInv, NEW t \in Ticks, NEW f \in Serves[t], Quarantine(t, f)
  PROVE  IInv'
<1>1. f \in Flows
  BY JobsOf
<1>2. meta' \in [Flows -> Metas] /\ torn' \subseteq Flows /\ LeftOut'
  <2>1. CASE Save(f, [meta[f] EXCEPT !.quarantine = "value"])
    <3>1. [meta[f] EXCEPT !.quarantine = "value"] \in Metas /\ [meta[f] EXCEPT !.quarantine = "value"].quarantine # "none"
      BY <1>1 DEF IInv, Types, Metas, Quarantines
    <3> QED BY <1>1, <2>1, <3>1, SaveKeeps DEF Quarantine, IInv, Types
  <2>2. CASE UNCHANGED <<meta, torn>>
    BY <2>2, SidecarKept DEF Quarantine
  <2> QED BY <2>1, <2>2 DEF Quarantine
<1> QED BY <1>2, EndedKeeps DEF Quarantine

LEMMA CaptureKeeps ==
  ASSUME IInv, NEW t \in Ticks, NEW f \in Serves[t], Capture(t, f)
  PROVE  IInv'
<1>1. f \in Flows
  BY JobsOf
<1>2. meta' \in [Flows -> Metas] /\ torn' \subseteq Flows /\ LeftOut'
  <2>1. CASE Save(f, [meta[f] EXCEPT !.due = FALSE])
    <3>1. [meta[f] EXCEPT !.due = FALSE] \in Metas
          /\ [meta[f] EXCEPT !.due = FALSE].quarantine = meta[f].quarantine
          /\ [meta[f] EXCEPT !.due = FALSE].approval = meta[f].approval
      BY <1>1 DEF IInv, Types, Metas
    <3>2. f \notin torn /\ meta[f].approval = "no" /\ meta[f].quarantine = "none" => f \in left
      BY <1>1 DEF IInv, LeftOut
    <3>3. left' = left /\ left \subseteq Flows
      BY DEF Capture, IInv, Types
    <3> QED BY <1>1, <2>1, <3>1, <3>2, <3>3, SaveKeeps DEF IInv
  <2>2. CASE UNCHANGED <<meta, torn>>
    BY <2>2, SidecarKept DEF Capture
  <2> QED BY <2>1, <2>2 DEF Capture, Consumed
<1> QED BY <1>2, EndedKeeps DEF Capture

-------------------------------------------------------------------------------
(* The audit.                                                              *)

LEMMA AuditIs == IInv => audit = [x \in AuditFields |-> audit[x]] /\ Owed
BY DEF IInv, Types

\* An audit that goes on: what it owes is still accounted for.
LEMMA Accounts ==
  ASSUME IInv, audit' = [x \in AuditFields |-> audit'[x]], audit'.pc = "running",
         audit'.lost \subseteq audit.lost \cup audit'.excused, audit.excused \subseteq audit'.excused,
         ~audit'.unjudged => ~audit.unjudged /\ audit'.owed \subseteq audit'.todo \cup audit'.excused
  PROVE  Owed'
BY AuditIs DEF Owed

LEMMA AuditBeginsOrEnds == IInv /\ (StartAudit \/ NoLlm \/ EndAudit) => IInv'
<1> SUFFICES ASSUME IInv, StartAudit \/ NoLlm \/ EndAudit PROVE IInv'
  OBVIOUS
<1>1. UNCHANGED <<options, meta, torn, marked, ring, job, left>>
  BY DEF StartAudit, NoLlm, EndAudit
<1>2. audit = [x \in AuditFields |-> audit[x]] /\ Owed
  BY AuditIs
<1>3. audit' = [x \in AuditFields |-> audit'[x]] /\ Owed'
  <2>1. CASE StartAudit
    BY <1>2, <2>1 DEF StartAudit, Becoming, Owed, AuditFields
  <2>2. CASE NoLlm
    <3>1. /\ audit' = [x \in AuditFields |-> audit'[x]]
          /\ audit'.lost = audit.lost /\ audit'.excused = audit.excused /\ audit'.quarantined = audit.quarantined
          /\ audit'.pc = "done" /\ audit'.unjudged = TRUE
      BY <1>2, <2>2 DEF NoLlm, Becoming, AuditFields
    <3>2. audit.lost \subseteq audit.excused
      BY <1>2 DEF Owed
    <3>3. AuditCode' # 0
      BY <3>1 DEF AuditCode
    <3> QED BY <3>1, <3>2, <3>3 DEF Owed
  <2>3. CASE EndAudit
    <3>1. /\ audit' = [x \in AuditFields |-> audit'[x]]
          /\ audit'.lost = audit.lost /\ audit'.excused = audit.excused /\ audit'.owed = audit.owed
          /\ audit'.todo = audit.todo /\ audit'.unjudged = (audit.unjudged \/ audit.todo # {})
      BY <1>2, <2>3 DEF EndAudit, Becoming, AuditFields
    <3>2. ~audit'.unjudged => audit.todo = {} /\ audit.owed \subseteq audit.excused
      BY <1>2, <3>1 DEF Owed
    <3> QED BY <1>2, <3>1, <3>2 DEF Owed, AuditCode
  <2> QED BY <2>1, <2>2, <2>3
<1> QED BY <1>1, <1>3, SidecarKept, FleetKeeps DEF IInv, Types

LEMMA GatherKeeps == IInv /\ (\E f \in Flows : Gather(f) \/ GatherBroken(f) \/ GatherBlinks(f)) => IInv'
<1> SUFFICES ASSUME IInv, NEW f \in Flows, Gather(f) \/ GatherBroken(f) \/ GatherBlinks(f) PROVE IInv'
  OBVIOUS
<1>1. UNCHANGED <<options, marked, ring, job, left>> /\ audit.pc = "running"
  BY DEF Gather, GatherBroken, GatherBlinks
<1>2. meta' \in [Flows -> Metas] /\ torn' \subseteq Flows /\ LeftOut'
  <2>1. UNCHANGED left /\ (ReadOnly(f) \/ UNCHANGED <<meta, torn>>)
    BY DEF Gather, GatherBroken, GatherBlinks
  <2> QED BY <2>1, SidecarKept, ReadKeeps DEF IInv
<1>3. audit = [x \in AuditFields |-> audit[x]] /\ Owed
  BY AuditIs
<1>4. audit' = [x \in AuditFields |-> audit'[x]] /\ Owed'
  <2>1. CASE GatherBroken(f)
    <3> DEFINE found == IF Judgeable(f) THEN Evidence(f) ELSE {}
    <3>1. audit' = [PassedOver(f) EXCEPT !.unjudged = TRUE, !.owed = @ \cup found]
      BY <2>1 DEF GatherBroken, Becoming
    <3> HIDE DEF found
    <3>2. audit' = [x \in AuditFields |-> audit'[x]] /\ audit'.pc = "running" /\ audit'.unjudged
          /\ audit'.lost = audit.lost /\ audit'.excused = audit.excused
      BY <1>1, <1>3, <3>1 DEF PassedOver, AuditFields
    <3> QED BY <3>2, Accounts
  <2>2. ASSUME NEW n, NEW seen, seen \subseteq Spared(f, n), audit' = Owing(f, n, seen)
        PROVE  audit' = [x \in AuditFields |-> audit'[x]] /\ Owed'
    <3>1. /\ audit' = [x \in AuditFields |-> audit'[x]] /\ audit'.pc = "running"
          /\ audit'.unjudged = audit.unjudged /\ audit'.todo = audit.todo \cup seen
          /\ audit'.owed = audit.owed \cup Evidence(f)
          /\ audit'.excused = audit.excused \cup (Evidence(f) \ seen)
          /\ audit'.lost = audit.lost \cup (Evidence(f) \ Spared(f, n))
      BY <1>1, <1>3, <2>2 DEF Owing, AuditFields
    <3>2. ~audit.unjudged =>
            audit.owed \cup Evidence(f) \subseteq (audit.todo \cup seen) \cup (audit.excused \cup (Evidence(f) \ seen))
      BY <1>3 DEF Owed
    <3>3. Evidence(f) \ Spared(f, n) \subseteq Evidence(f) \ seen
      BY <2>2
    <3> QED BY <3>1, <3>2, <3>3, Accounts
  <2>3. CASE GatherBlinks(f)
    <3>1. PICK n \in 1..Len(arts[f]) : audit' = Owing(f, n, {})
      BY <2>3 DEF GatherBlinks, Becoming
    <3>2. {} \subseteq Spared(f, n)
      OBVIOUS
    <3> QED BY <2>2, <3>1, <3>2
  <2>4. CASE audit' = PassedOver(f)
    <3>1. /\ audit' = [x \in AuditFields |-> audit'[x]] /\ audit'.pc = "running"
          /\ audit'.unjudged = audit.unjudged /\ audit'.lost = audit.lost /\ audit'.todo = audit.todo
          /\ audit'.excused = audit.excused /\ audit'.owed = audit.owed
      BY <1>1, <1>3, <2>4 DEF PassedOver, AuditFields
    <3> QED BY <1>3, <3>1, Accounts DEF Owed
  <2>5. CASE Gather(f)
    <3>1. \/ audit' = PassedOver(f)
          \/ \E n \in 0..Len(arts[f]), seen \in SUBSET Evidence(f) :
               seen \subseteq Spared(f, n) /\ audit' = Owing(f, n, seen)
      BY <2>5 DEF Gather, Loads, Becoming
    <3> QED BY <2>2, <2>4, <3>1
  <2> QED BY <2>1, <2>3, <2>5
<1> QED BY <1>1, <1>2, <1>4, FleetKeeps DEF IInv, Types

\* A candidate is of a flow that is in the fleet.
LEMMA JudgeKeeps ==
  IInv /\ (\E c \in audit.todo : JudgeClears(c) \/ JudgeEnforces(c) \/ FindingUnsaved(c) \/ JudgeFails(c)) => IInv'
<1> SUFFICES ASSUME IInv, NEW c \in audit.todo, JudgeClears(c) \/ JudgeEnforces(c) \/ FindingUnsaved(c) \/ JudgeFails(c)
             PROVE  IInv'
  OBVIOUS
<1>1. UNCHANGED <<options, marked, ring, job, left>> /\ audit.pc = "running"
  BY DEF JudgeClears, JudgeEnforces, FindingUnsaved, JudgeFails, Judging
<1>2. audit = [x \in AuditFields |-> audit[x]] /\ Owed
  BY AuditIs
<1>3. meta' \in [Flows -> Metas] /\ torn' \subseteq Flows /\ LeftOut'
  <2>1. CASE c[1] \in Flows
    <3>1. CASE ReadOnly(c[1])
      BY <1>1, <2>1, <3>1, ReadKeeps DEF IInv
    <3>2. CASE Save(c[1], [meta[c[1]] EXCEPT !.quarantine = "audit"])
      <4>1. [meta[c[1]] EXCEPT !.quarantine = "audit"] \in Metas
            /\ [meta[c[1]] EXCEPT !.quarantine = "audit"].quarantine # "none"
        BY <2>1 DEF IInv, Types, Metas, Quarantines
      <4> QED BY <1>1, <2>1, <3>2, <4>1, SaveKeeps DEF IInv, Types
    <3>3. CASE UNCHANGED <<meta, torn>>
      BY <1>1, <3>3, SidecarKept
    <3> QED BY <3>1, <3>2, <3>3 DEF JudgeClears, JudgeEnforces, FindingUnsaved, JudgeFails
  <2>2. CASE c[1] \notin Flows
    <3>1. \A m : [meta EXCEPT ![c[1]] = m] = meta
      BY <2>2 DEF IInv, Types
    <3>2. torn \ {c[1]} = torn
      BY <2>2 DEF IInv, Types
    <3>3. UNCHANGED <<meta, torn>>
      BY <3>1, <3>2 DEF JudgeClears, JudgeEnforces, FindingUnsaved, JudgeFails, ReadOnly, Save
    <3> QED BY <1>1, <3>3, SidecarKept
  <2> QED BY <2>1, <2>2
<1>4. audit' = [x \in AuditFields |-> audit'[x]] /\ Owed'
  <2>1. CASE audit' = Settled(c) \/ audit' = [Settled(c) EXCEPT !.quarantined = TRUE]
    <3>1. /\ audit' = [x \in AuditFields |-> audit'[x]] /\ audit'.pc = "running"
          /\ audit'.unjudged = audit.unjudged /\ audit'.lost = audit.lost /\ audit'.todo = audit.todo \ {c}
          /\ audit'.excused = audit.excused /\ audit'.owed = audit.owed \ {c}
      BY <1>1, <1>2, <2>1 DEF Settled, AuditFields
    <3>2. ~audit.unjudged => audit.owed \ {c} \subseteq (audit.todo \ {c}) \cup audit.excused
      BY <1>2 DEF Owed
    <3> QED BY <3>1, <3>2, Accounts
  <2>2. CASE FindingUnsaved(c)
    <3>1. audit' = [x \in AuditFields |-> audit'[x]] /\ audit'.pc = "running" /\ audit'.unjudged
          /\ audit'.lost = audit.lost /\ audit'.excused = audit.excused
      BY <1>1, <1>2, <2>2 DEF FindingUnsaved, Becoming, AuditFields
    <3> QED BY <3>1, Accounts
  <2>3. CASE JudgeFails(c)
    <3>1. /\ audit' = [x \in AuditFields |-> audit'[x]] /\ audit'.pc = "running"
          /\ audit'.unjudged = audit.unjudged /\ audit'.lost = audit.lost \cup {c} /\ audit'.todo = audit.todo \ {c}
          /\ audit'.excused = audit.excused \cup {c} /\ audit'.owed = audit.owed
      BY <1>1, <1>2, <2>3 DEF JudgeFails, Becoming, AuditFields
    <3>2. ~audit.unjudged => audit.owed \subseteq (audit.todo \ {c}) \cup (audit.excused \cup {c})
      BY <1>2 DEF Owed
    <3> QED BY <3>1, <3>2, Accounts
  <2> QED BY <2>1, <2>2, <2>3 DEF JudgeClears, JudgeEnforces, Becoming
<1> QED BY <1>1, <1>3, <1>4, FleetKeeps DEF IInv, Types

-------------------------------------------------------------------------------
(* The humans and the disk.                                                *)

LEMMA AuditKept == IInv /\ UNCHANGED audit => Owed' /\ audit' = [x \in AuditFields |-> audit'[x]]
BY DEF IInv, Types, Owed, AuditCode

\* J is what the runs become, up to what they had looked at.
SameRuns(J) ==
  \A j \in Jobs :
    /\ J[j].pc = job[j].pc /\ J[j].status = job[j].status /\ J[j].chosen = job[j].chosen
    /\ J[j].writes = job[j].writes /\ J[j].value = job[j].value /\ J[j].outlier = job[j].outlier
    /\ J[j].fresh = job[j].fresh /\ (job[j].moved => J[j].moved)
    /\ J[j].pc = "admitted" /\ j[2] \in marked' => j[2] \in marked \/ J[j].moved

\* A baseline that starts again, or stays, under recipes that may change.
LEMMA ActKeeps ==
  ASSUME IInv, NEW f \in Flows, NEW J \in [Jobs -> JobStates], SameRuns(J),
         UNCHANGED <<options, audit>>, meta' \in [Flows -> Metas], torn' \subseteq Flows, LeftOut',
         marked' \subseteq Flows, left' \subseteq Flows,
         \/ ring' = [ring EXCEPT ![f] = <<>>] /\ job' = RingMoved(f, J)
         \/ ring' = ring /\ job' = J
  PROVE  IInv'
<1>1. ring' \in [Flows -> Seq(Levels \cup {NoValue})] /\ \A g \in Flows : g # f => ring'[g] = ring[g]
  <2>1. <<>> \in Seq(Levels \cup {NoValue})
    OBVIOUS
  <2> QED BY <2>1 DEF IInv, Types
<1>2. job' \in [Jobs -> JobStates]
  BY RingMovedKeeps
<1>3. Types' /\ Owed'
  BY <1>1, <1>2, AuditKept DEF IInv, Types
<1>4. ASSUME NEW t \in Ticks, NEW g \in Serves[t] PROVE (Decided(t, g) /\ Looked(t, g))'
  <2> DEFINE k == <<t, g>>
  <2>1. k \in Jobs /\ g \in Flows /\ k[2] = g
    BY JobsOf
  <2>2. /\ J[k].pc = job[k].pc /\ J[k].status = job[k].status /\ J[k].chosen = job[k].chosen
        /\ J[k].writes = job[k].writes /\ J[k].value = job[k].value /\ J[k].outlier = job[k].outlier
        /\ J[k].fresh = job[k].fresh /\ (job[k].moved => J[k].moved)
        /\ J[k].pc = "admitted" /\ g \in marked' => g \in marked \/ J[k].moved
    BY <2>1 DEF SameRuns
  <2>3. CASE ring' = [ring EXCEPT ![f] = <<>>] /\ job' = RingMoved(f, J)
    <3>1. LET r == RingMoved(f, J)[k]
          IN /\ r.pc = J[k].pc /\ r.status = J[k].status /\ r.chosen = J[k].chosen
             /\ r.writes = J[k].writes /\ r.moved = J[k].moved
             /\ r.value = J[k].value /\ r.outlier = J[k].outlier
             /\ r.fresh => J[k].fresh
             /\ k[2] = f /\ r.pc = "looked" => ~r.fresh
      BY <2>1, RingMovedKeeps
    <3>2. /\ job'[k].pc = job[k].pc /\ job'[k].status = job[k].status /\ job'[k].chosen = job[k].chosen
          /\ job'[k].writes = job[k].writes /\ job'[k].value = job[k].value
          /\ job'[k].outlier = job[k].outlier /\ (job'[k].fresh => job[k].fresh)
          /\ (job[k].moved => job'[k].moved)
      BY <2>2, <2>3, <3>1
    <3>3. job[k].pc = "looked" /\ job'[k].fresh => ring'[g] = ring[g]
      BY <1>1, <2>1, <2>2, <2>3, <3>1
    <3>4. job[k].pc = "admitted" /\ g \in marked' => g \in marked \/ job'[k].moved
      BY <2>2, <2>3, <3>1
    <3> QED BY <3>2, <3>3, <3>4, OtherJob
  <2>4. CASE ring' = ring /\ job' = J
    BY <2>2, <2>4, OtherJob
  <2> QED BY <2>3, <2>4
<1> QED BY <1>3, <1>4 DEF IInv

LEMMA ApprovalKeeps ==
  ASSUME IInv, NEW f \in Flows, Approve(f) \/ Unapprove(f)
  PROVE  IInv'
<1>1. UNCHANGED <<options, marked, ring, job, audit>>
  BY DEF Approve, Unapprove, KeepHistory
<1>2. meta' \in [Flows -> Metas] /\ torn' \subseteq Flows /\ LeftOut' /\ left' \subseteq Flows
  <2>1. CASE Approve(f)
    <3>1. [meta[f] EXCEPT !.approval = "yes"] \in Metas /\ [meta[f] EXCEPT !.approval = "yes"].approval = "yes"
      BY DEF IInv, Types, Metas, Approvals
    <3>2. left' \subseteq Flows /\ left \subseteq left' \cup {f}
      BY <2>1 DEF Approve, IInv, Types
    <3> QED BY <2>1, <3>1, <3>2, SaveKeeps DEF Approve, IInv
  <2>2. CASE Unapprove(f)
    <3>1. [meta[f] EXCEPT !.approval = "no"] \in Metas
      BY DEF IInv, Types, Metas, Approvals
    <3>2. left' \subseteq Flows /\ left \subseteq left' \cup {f} /\ (f \notin torn => f \in left')
      BY <2>2 DEF Unapprove, IInv, Types
    <3> QED BY <2>2, <3>1, <3>2, SaveKeeps DEF Unapprove, IInv
  <2> QED BY <2>1, <2>2
<1> QED BY <1>1, <1>2, AuditKept, FleetKeeps

LEMMA SameRunsOfJobs == IInv /\ marked' = marked => job \in [Jobs -> JobStates] /\ SameRuns(job)
BY DEF IInv, Types, SameRuns

LEMMA ReleaseKeeps ==
  ASSUME IInv, NEW f \in Flows, Release(f)
  PROVE  IInv'
<1>1. UNCHANGED <<options, audit, marked>> /\ marked' \subseteq Flows
  BY DEF Release, IInv, Types
<1>2. \/ ring' = [ring EXCEPT ![f] = <<>>] /\ job' = RingMoved(f, job)
      \/ ring' = ring /\ job' = job
  BY DEF Release, ResetHistory, KeepHistory
<1>3. Read(f) \in Metas /\ (f \notin torn => Read(f) = meta[f])
  BY PoisonedIsMeta DEF Read, IInv, Types
<1>4. meta' \in [Flows -> Metas] /\ torn' \subseteq Flows
  <2>1. [Read(f) EXCEPT !.quarantine = "none", !.due = TRUE] \in Metas
    BY <1>3 DEF Metas, Quarantines
  <2> QED BY <2>1 DEF Release, IInv, Types
<1>5. left' \subseteq Flows /\ left \subseteq left'
  BY DEF Release, IInv, Types
<1>6. LeftOut'
  <2>1. ASSUME NEW g \in Flows, g \notin torn', meta'[g].approval = "no", meta'[g].quarantine = "none"
        PROVE  g \in left'
    <3>1. CASE g # f
      <4>1. meta'[g] = meta[g] /\ g \notin torn
        BY <2>1, <3>1 DEF Release, IInv, Types
      <4> QED BY <2>1, <4>1, <1>5 DEF IInv, LeftOut
    <3>2. CASE g = f /\ Read(f).quarantine = "none"
      <4>1. f \notin torn /\ meta'[f] = meta[f]
        BY <3>2, PoisonedIsMeta DEF Release, IInv, Types, Read
      <4> QED BY <2>1, <3>2, <4>1, <1>3, <1>5 DEF IInv, LeftOut
    <3>3. CASE g = f /\ Read(f).quarantine # "none"
      <4>1. meta'[f] = [Read(f) EXCEPT !.quarantine = "none", !.due = TRUE]
        BY <3>3 DEF Release, IInv, Types
      <4>2. meta'[f].approval = Read(f).approval
        BY <1>3, <4>1 DEF Metas
      <4> QED BY <2>1, <3>3, <4>2 DEF Release
    <3> QED BY <3>1, <3>2, <3>3
  <2> QED BY <2>1 DEF LeftOut
<1> QED BY <1>1, <1>2, <1>4, <1>5, <1>6, SameRunsOfJobs, ActKeeps

LEMMA RelearnKeeps ==
  ASSUME IInv, NEW f \in Flows, Relearn(f)
  PROVE  IInv'
<1> DEFINE J == [j \in Jobs |-> IF j[2] = f THEN [job[j] EXCEPT !.moved = @ \/ job[j].pc = "admitted"] ELSE job[j]]
<1>1. UNCHANGED <<options, audit, left>> /\ left' \subseteq Flows
  BY DEF Relearn, IInv, Types
<1>2. marked' \subseteq Flows /\ \A g \in Flows : g # f /\ g \in marked' => g \in marked
  BY DEF Relearn, IInv, Types
<1>3. \/ ring' = [ring EXCEPT ![f] = <<>>] /\ job' = RingMoved(f, J)
      \/ ring' = ring /\ job' = J
  BY DEF Relearn, ResetHistory, KeepHistory
<1>4. J \in [Jobs -> JobStates]
  <2>1. job \in [Jobs -> JobStates]
    BY DEF IInv, Types
  <2>2. ASSUME NEW j \in Jobs PROVE [job[j] EXCEPT !.moved = @ \/ job[j].pc = "admitted"] \in JobStates
    <3>1. job[j] \in JobStates
      BY <2>1
    <3>2. (job[j].moved \/ job[j].pc = "admitted") \in BOOLEAN
      OBVIOUS
    <3> QED BY <3>1, <3>2 DEF JobStates
  <2> QED BY <2>1, <2>2
<1>5. SameRuns(J)
  <2>1. ASSUME NEW j \in Jobs PROVE j[2] \in Flows
    BY FleetAssumption DEF Jobs
  <2>2. ASSUME NEW j \in Jobs
        PROVE  /\ J[j].pc = job[j].pc /\ J[j].status = job[j].status /\ J[j].chosen = job[j].chosen
               /\ J[j].writes = job[j].writes /\ J[j].value = job[j].value /\ J[j].outlier = job[j].outlier
               /\ J[j].fresh = job[j].fresh /\ (job[j].moved => J[j].moved)
               /\ (j[2] = f /\ J[j].pc = "admitted" => J[j].moved)
    BY DEF IInv, Types, JobStates
  <2> QED BY <1>2, <2>1, <2>2 DEF SameRuns
<1> HIDE DEF J
<1>6. meta' \in [Flows -> Metas] /\ torn' \subseteq Flows /\ LeftOut'
  <2> DEFINE m == [meta[f] EXCEPT !.approval = IF @ = "no" THEN "no" ELSE "stale", !.due = TRUE]
  <2>1. m \in Metas /\ (m.approval = "no" => meta[f].approval = "no") /\ m.quarantine = meta[f].quarantine
    BY DEF IInv, Types, Metas, Approvals
  <2>2. Save(f, m)
    BY DEF Relearn
  <2> HIDE DEF m
  <2>3. f \notin torn /\ m.approval = "no" /\ m.quarantine = "none" => f \in left'
    BY <1>1, <2>1 DEF IInv, LeftOut
  <2> QED BY <1>1, <2>1, <2>2, <2>3, SaveKeeps DEF IInv
<1> QED BY <1>1, <1>2, <1>3, <1>4, <1>5, <1>6, ActKeeps

LEMMA TearKeeps ==
  ASSUME IInv, NEW f \in Flows, Tear(f) \/ TearHistory(f)
  PROVE  IInv'
<1>1. UNCHANGED <<options, meta, marked, left, audit>> /\ marked' \subseteq Flows /\ left' \subseteq Flows
  BY DEF Tear, TearHistory, KeepHistory, IInv, Types
<1>2. meta' \in [Flows -> Metas] /\ torn' \subseteq Flows /\ LeftOut' /\ torn \subseteq torn'
  BY <1>1 DEF Tear, TearHistory, IInv, Types, LeftOut
<1>3. \/ ring' = [ring EXCEPT ![f] = <<>>] /\ job' = RingMoved(f, job)
      \/ ring' = ring /\ job' = job
  BY DEF Tear, TearHistory, ResetHistory, KeepHistory
<1> QED BY <1>1, <1>2, <1>3, SameRunsOfJobs, ActKeeps

-------------------------------------------------------------------------------
(* The theorems.                                                           *)

LEMMA NextPreservesIInv == IInv /\ [Next]_vars => IInv'
<1> SUFFICES ASSUME IInv, [Next]_vars PROVE IInv'
  OBVIOUS
<1>1. ASSUME NEW t \in Ticks, NEW f \in Serves[t],
             \/ Gate(t, f) \/ Unreadable(t, f) \/ Start(t, f) \/ Replayed(t, f)
             \/ \E v \in Levels : Look(t, f, v)
             \/ Accrue(t, f) \/ Quarantine(t, f) \/ Capture(t, f)
      PROVE  IInv'
  BY <1>1, GateKeeps, UnreadableKeeps, StartKeeps, LookKeeps, AccrueKeeps, QuarantineKeeps, CaptureKeeps
<1>2. CASE StartAudit \/ NoLlm \/ EndAudit
  BY <1>2, AuditBeginsOrEnds
<1>3. CASE \E f \in Flows : Gather(f) \/ GatherBroken(f) \/ GatherBlinks(f)
  BY <1>3, GatherKeeps
<1>4. CASE \E c \in audit.todo : JudgeClears(c) \/ JudgeEnforces(c) \/ FindingUnsaved(c) \/ JudgeFails(c)
  BY <1>4, JudgeKeeps
<1>5. ASSUME NEW f \in Handled,
             Approve(f) \/ Unapprove(f) \/ Release(f) \/ Relearn(f) \/ Tear(f) \/ TearHistory(f)
      PROVE  IInv'
  <2>1. f \in Flows
    BY FleetAssumption
  <2> QED BY <1>5, <2>1, ApprovalKeeps, ReleaseKeeps, RelearnKeeps, TearKeeps
<1>6. CASE UNCHANGED vars
  BY <1>6, SidecarKept, AuditKept, FleetKeeps DEF vars, IInv, Types
<1> QED BY <1>1, <1>2, <1>3, <1>4, <1>5, <1>6 DEF Next

LEMMA AlwaysIInv == Spec => []IInv
<1>1. Init => IInv
  BY InitImpliesIInv
<1>2. IInv /\ [Next]_vars => IInv'
  BY NextPreservesIInv
<1> QED BY <1>1, <1>2, PTL DEF Spec

\* A tick of run_all that exits 0 ran something, and a human chose whatever it left out.
THEOREM GreenIsAChoice == Spec => []GreenIsChosen
<1>1. IInv => GreenIsChosen
  <2> SUFFICES ASSUME IInv, NEW t \in Ticks, Reports(t), ExitCode(t) = 0
               PROVE  /\ \E f \in Serves[t] : job[t, f].status = "ok"
                      /\ \A f \in Serves[t] : job[t, f].status = "ok" \/ job[t, f].chosen
    BY DEF GreenIsChosen
  <2> DEFINE loud == \E f \in Serves[t] : job[t, f].status \notin {"ok", "skipped"}
             idle == \A f \in Serves[t] : job[t, f].status \notin {"ok", "failed"}
  <2>0. ExitCode(t) = IF loud THEN 1 ELSE IF idle THEN 2 ELSE 0
    BY DEF ExitCode
  <2>1. ~loud /\ ~idle
    <3> HIDE DEF loud, idle
    <3> QED BY <2>0
  <2>2. /\ \A f \in Serves[t] : job[t, f].status \in {"ok", "skipped"}
        /\ \E f \in Serves[t] : job[t, f].status \in {"ok", "failed"}
    BY <2>1
  <2>3. ASSUME NEW f \in Serves[t], job[t, f].status = "skipped" PROVE job[t, f].chosen
    BY <2>3 DEF IInv, Decided
  <2> QED BY <2>2, <2>3
<1> QED BY <1>1, AlwaysIInv, PTL

\* The write gate of run_all: a tick replays a write only when the command line asked
\* for it and the flow declares it, or the flow was learned again under the tick.
THEOREM UnattendedWritesAreGated == Spec => []UnattendedWrites
<1>1. IInv => UnattendedWrites
  BY DEF IInv, Decided, UnattendedWrites
<1> QED BY <1>1, AlwaysIInv, PTL

\* An audit drops no evidence without an answer, and exits 0 only if it judged all of it.
THEOREM AuditsLook == Spec => []AuditLooked
<1>1. IInv => AuditLooked
  BY DEF IInv, Owed, AuditLooked
<1> QED BY <1>1, AlwaysIInv, PTL

\* A number the band refuses is accrued only behind the back of the run that checked it.
THEOREM OutliersNeedARace == Spec => OutlierNeedsRace
<1>1. IInv /\ [Next]_vars =>
        [\A t \in Ticks : \A f \in Serves[t] :
           Accrue(t, f) /\ job[t, f].fresh => ~Refused(job[t, f].value, ring[f])]_vars
  <2> SUFFICES ASSUME IInv, NEW t \in Ticks, NEW f \in Serves[t], Accrue(t, f), job[t, f].fresh
               PROVE  ~Refused(job[t, f].value, ring[f])
    OBVIOUS
  <2>1. job[t, f].pc = "looked" /\ ~job[t, f].outlier
    BY DEF Accrue
  <2> QED BY <2>1 DEF IInv, Looked
<1> QED BY <1>1, AlwaysIInv, PTL DEF Spec, OutlierNeedsRace
-------------------------------------------------------------------------------
(* The anchor and the evidence.                                            *)

Artifacts == [tick : Ticks, solid : BOOLEAN]

\* The anchor is the first number that the ring ever held, however far the ring crept
\* since, and there are artifacts to look at.
Anchors ==
  /\ anchor \in [Flows -> Levels \cup {NoValue}]
  /\ first = anchor
  /\ arts \in [Flows -> Seq(Artifacts)]

LEMMA NewestKeepsLast ==
  ASSUME NEW S, NEW s \in Seq(S), NEW x \in S, NEW n \in Nat \ {0}
  PROVE  /\ Newest(Append(s, x), n) \in Seq(S)
         /\ x \in ToSet(Newest(Append(s, x), n))
<1> DEFINE a == Append(s, x)
<1>1. a \in Seq(S) /\ Len(a) = Len(s) + 1 /\ a[Len(a)] = x /\ Len(s) \in Nat
  OBVIOUS
<1> HIDE DEF a
<1>2. Newest(a, n) \in Seq(S)
  BY <1>1, NewestIsSeq
<1>3. CASE Len(a) <= n
  BY <1>1, <1>3 DEF Newest, ToSet
<1>4. CASE ~(Len(a) <= n)
  <2> DEFINE b == Newest(a, n)
  <2>1. b = SubSeq(a, Len(a) - n + 1, Len(a))
    BY <1>4 DEF Newest
  <2>2. n \in DOMAIN b /\ b[n] = a[Len(a)]
    <3> DEFINE m == Len(a)
    <3>1. m \in Nat /\ n < m /\ 1 <= m - n + 1 /\ m - n + 1 <= m /\ m - (m - n + 1) + 1 = n
          /\ (m - n + 1) + n - 1 = m
      BY <1>1, <1>4
    <3> HIDE DEF m
    <3>2. \A i \in (m - n + 1)..m : a[i] \in S
      BY <1>1, <3>1 DEF m
    <3>3. b = SubSeq(a, m - n + 1, m)
      BY <2>1 DEF m
    <3> DEFINE l == m - n + 1
    <3>4. l \in Int /\ m \in Int /\ l <= m /\ m - l + 1 = n /\ l + n - 1 = m /\ \A i \in l..m : a[i] \in S
      BY <3>1, <3>2
    <3> HIDE DEF l
    <3>5. /\ Len(SubSeq(a, l, m)) = n /\ SubSeq(a, l, m) \in Seq(S)
          /\ \A i \in 1..n : SubSeq(a, l, m)[i] = a[l + i - 1]
      <4>1. /\ SubSeq(a, l, m) \in Seq(S)
            /\ Len(SubSeq(a, l, m)) = IF l <= m THEN m - l + 1 ELSE 0
            /\ \A i \in 1..m - l + 1 : SubSeq(a, l, m)[i] = a[l + i - 1]
        BY <3>4, SubSeqProperties
      <4> QED BY <3>4, <4>1
    <3>6. b = SubSeq(a, l, m)
      BY <3>3 DEF l
    <3> HIDE DEF b
    <3>7. n \in 1..n /\ DOMAIN b = 1..n
      BY <3>1, <3>5, <3>6
    <3>8. b[n] = a[l + n - 1]
      BY <3>5, <3>6, <3>7
    <3> QED BY <3>4, <3>7, <3>8 DEF m
  <2>3. x \in ToSet(b)
    <3> HIDE DEF b
    <3> QED BY <1>1, <2>2 DEF ToSet
  <2> QED BY <1>2, <2>3 DEF a
<1> QED BY <1>2, <1>3, <1>4 DEF a

LEMMA WithoutIsSeq ==
  ASSUME NEW S, NEW s \in Seq(S), NEW a
  PROVE  Without(s, a) \in Seq(S)
<1>1. CASE \E i \in DOMAIN s : s[i] = a
  <2> DEFINE i == CHOOSE i \in DOMAIN s : s[i] = a
  <2>1. i \in DOMAIN s
    BY <1>1, Zenon
  <2>2. Without(s, a) = RemoveAt(s, i)
    BY <1>1, Zenon DEF Without
  <2> HIDE DEF i
  <2>3. SubSeq(s, 1, i - 1) \in Seq(S) /\ SubSeq(s, i + 1, Len(s)) \in Seq(S)
    BY <2>1, SubSeqProperties
  <2> QED BY <2>2, <2>3 DEF RemoveAt
<1>2. CASE ~(\E i \in DOMAIN s : s[i] = a)
  BY <1>2 DEF Without
<1> QED BY <1>1, <1>2

\* The evidence of f ends in an artifact of t, after the step.
Files(t, f) ==
  \E a \in Artifacts, s \in Seq(Artifacts) :
    a.tick = t /\ arts' = [arts EXCEPT ![f] = Newest(Append(s, a), Keep)]

\* What a capture leaves of the evidence: what was there, or a store that ends in a new artifact.
LEMMA CaptureStores ==
  ASSUME Anchors, NEW t \in Ticks, NEW f \in Serves[t], Capture(t, f)
  PROVE  UNCHANGED arts \/ Files(t, f)
<1>1. f \in Flows /\ arts[f] \in Seq(Artifacts)
  BY JobsOf DEF Anchors
<1>2. ASSUME NEW solid \in BOOLEAN, NEW s \in Seq(Artifacts),
             arts' = [arts EXCEPT ![f] = Newest(Append(s, [tick |-> t, solid |-> solid]), Keep)]
      PROVE  Files(t, f)
  <2> DEFINE a == [tick |-> t, solid |-> solid]
  <2>1. a \in Artifacts /\ a.tick = t
    BY DEF Artifacts
  <2>2. arts' = [arts EXCEPT ![f] = Newest(Append(s, a), Keep)]
    BY <1>2
  <2> HIDE DEF a
  <2> QED BY <2>1, <2>2 DEF Files
<1>3. CASE Stored(t, f)
  <2>1. PICK solid \in BOOLEAN, n \in 0..Len(arts[f]) :
          arts' = [arts EXCEPT ![f] = Newest(Append(Newest(arts[f], n), [tick |-> t, solid |-> solid]), Keep)]
    BY <1>3 DEF Stored
  <2>2. Newest(arts[f], n) \in Seq(Artifacts)
    BY <1>1, NewestIsSeq
  <2> QED BY <1>2, <2>1, <2>2
<1>4. CASE \E solid \in BOOLEAN :
             arts' = [arts EXCEPT ![f] = Newest(Append(@, [tick |-> t, solid |-> solid]), Keep)]
  BY <1>1, <1>2, <1>4
<1> QED BY <1>3, <1>4 DEF Capture

LEMMA AnchorsStep == IInv /\ Anchors /\ [Next]_vars => Anchors'
<1> SUFFICES ASSUME IInv, Anchors, [Next]_vars PROVE Anchors'
  OBVIOUS
<1> USE DEF Anchors
<1>1. CASE UNCHANGED <<anchor, first, arts>>
  BY <1>1
<1>2. ASSUME NEW f \in Flows, ResetHistory(f), UNCHANGED arts PROVE Anchors'
  BY <1>2 DEF ResetHistory
<1>3. ASSUME NEW t \in Ticks, NEW f \in Serves[t], Accrue(t, f) PROVE Anchors'
  <2>1. f \in Flows /\ job[t, f].value \in Levels \cup {NoValue}
    BY JobsOf, JobFields DEF IInv, Types
  <2>2. /\ anchor' = [anchor EXCEPT ![f] = IF @ = NoValue THEN job[t, f].value ELSE @]
        /\ first' = [first EXCEPT ![f] = IF @ = NoValue THEN job[t, f].value ELSE @]
        /\ arts' = arts
    BY <1>3 DEF Accrue, Anchored
  <2> QED BY <2>1, <2>2
<1>4. ASSUME NEW t \in Ticks, NEW f \in Serves[t], Capture(t, f) PROVE Anchors'
  <2>1. UNCHANGED <<anchor, first>>
    BY <1>4 DEF Capture
  <2>2. CASE UNCHANGED arts
    BY <2>1, <2>2
  <2>3. CASE Files(t, f)
    <3>1. PICK a \in Artifacts, s \in Seq(Artifacts) : arts' = [arts EXCEPT ![f] = Newest(Append(s, a), Keep)]
      BY <2>3 DEF Files
    <3>2. f \in Flows /\ Keep \in Nat \ {0}
      BY JobsOf, FleetAssumption
    <3>3. Newest(Append(s, a), Keep) \in Seq(Artifacts)
      BY <3>2, NewestKeepsLast
    <3> QED BY <2>1, <3>1, <3>2, <3>3
  <2> QED BY <1>4, <2>2, <2>3, CaptureStores
<1>5. ASSUME NEW c, Drop(c), UNCHANGED <<anchor, first>> PROVE Anchors'
  <2>1. \A f \in Flows : Without(arts[f], c[2]) \in Seq(Artifacts)
    BY WithoutIsSeq
  <2> QED BY <1>5, <2>1 DEF Drop
<1>6. ASSUME NEW t \in Ticks, NEW f \in Serves[t],
             \/ Gate(t, f) \/ Unreadable(t, f) \/ Start(t, f) \/ Replayed(t, f)
             \/ (\E v \in Levels : Look(t, f, v))
             \/ Accrue(t, f) \/ Quarantine(t, f) \/ Capture(t, f)
      PROVE  Anchors'
  BY <1>1, <1>3, <1>4, <1>6 DEF Gate, Unreadable, Start, Replayed, Look, Quarantine
<1>7. CASE StartAudit \/ NoLlm \/ EndAudit
  BY <1>1, <1>7 DEF StartAudit, NoLlm, EndAudit
<1>8. ASSUME NEW f \in Flows, Gather(f) \/ GatherBroken(f) \/ GatherBlinks(f) PROVE Anchors'
  <2>1. UNCHANGED <<anchor, first>>
    BY <1>8 DEF Gather, GatherBroken, GatherBlinks
  <2>2. CASE UNCHANGED arts
    BY <2>1, <2>2
  <2>3. CASE \E n \in 0..Len(arts[f]) : arts' = [arts EXCEPT ![f] = Newest(@, n)]
    <3>1. PICK n \in 0..Len(arts[f]) : arts' = [arts EXCEPT ![f] = Newest(arts[f], n)]
      BY <2>3
    <3>2. Newest(arts[f], n) \in Seq(Artifacts)
      <4>1. arts[f] \in Seq(Artifacts)
        OBVIOUS
      <4>2. n \in Nat
        BY <4>1
      <4> QED BY <4>1, <4>2, NewestIsSeq
    <3> QED BY <2>1, <3>1, <3>2
  <2> QED BY <1>8, <2>2, <2>3 DEF Gather, GatherBroken, GatherBlinks, Loads
<1>9. ASSUME NEW c, JudgeClears(c) \/ JudgeEnforces(c) \/ FindingUnsaved(c) \/ JudgeFails(c)
      PROVE  Anchors'
  BY <1>1, <1>5, <1>9 DEF JudgeClears, JudgeEnforces, FindingUnsaved, JudgeFails
<1>10. ASSUME NEW f \in Flows,
              \/ Approve(f) \/ Unapprove(f) \/ Release(f) \/ Relearn(f) \/ Tear(f)
              \/ TearHistory(f)
       PROVE  Anchors'
  BY <1>1, <1>2, <1>10 DEF Approve, Unapprove, Release, Relearn, Tear, TearHistory, KeepHistory
<1>11. CASE UNCHANGED vars
  BY <1>1, <1>11 DEF vars
<1>12. Handled \subseteq Flows
  BY FleetAssumption
<1> QED BY <1>6, <1>7, <1>8, <1>9, <1>10, <1>11, <1>12 DEF Next

LEMMA AlwaysAnchors == Spec => []Anchors
<1>1. Init => Anchors
  <2> SUFFICES ASSUME Init PROVE Anchors
    OBVIOUS
  <2>1. ring \in [Flows -> Seq(Levels \cup {NoValue})]
    BY InitImpliesIInv DEF IInv, Types
  <2>2. \A f \in Flows : ring[f] # <<>> => ring[f][1] \in Levels \cup {NoValue}
    BY <2>1
  <2> QED BY <2>2 DEF Init, Anchors
<1>2. IInv /\ Anchors /\ [Next]_vars => Anchors'
  BY AnchorsStep
<1> QED BY <1>1, <1>2, AlwaysIInv, PTL DEF Spec

\* A read that answers ok while its ring has crept a third away from the first number it
\* ever held is captured, or its capture failed: set_anchor never moves what drift_signals
\* compares with, so that the capture is never skipped (_capture_audit).
THEOREM CreepIsCaptured == Spec => CreepLeavesEvidence
<1>1. ASSUME IInv, Anchors, NEW t \in Ticks, NEW f \in Serves[t] \cap Audited,
             Capture(t, f), ~job[t, f].writes, Drifted(ring[f], first[f])
      PROVE  (\E a \in ToSet(arts'[f]) : a.tick = t) \/ (acts' = acts + 1 /\ UNCHANGED arts)
  <2>1. CASE Files(t, f)
    <3>1. PICK a \in Artifacts, s \in Seq(Artifacts) :
            a.tick = t /\ arts' = [arts EXCEPT ![f] = Newest(Append(s, a), Keep)]
      BY <2>1 DEF Files
    <3>2. f \in Flows /\ Keep \in Nat \ {0}
      BY FleetAssumption
    <3>3. a \in ToSet(Newest(Append(s, a), Keep))
      BY <3>2, NewestKeepsLast
    <3> QED BY <1>1, <3>1, <3>2, <3>3 DEF Anchors
  <2>2. CASE ~Files(t, f)
    <3>1. UNCHANGED arts
      <4>1. f \in Serves[t]
        BY <1>1
      <4> QED BY <1>1, <2>2, <4>1, CaptureStores
    <3>2. \A s \in Seq(Artifacts), solid \in BOOLEAN :
            arts' # [arts EXCEPT ![f] = Newest(Append(s, [tick |-> t, solid |-> solid]), Keep)]
      BY <2>2 DEF Artifacts, Files
    <3>3. ~Stored(t, f)
      <4>1. arts[f] \in Seq(Artifacts)
        BY <1>1, FleetAssumption DEF Anchors
      <4>2. ASSUME Stored(t, f) PROVE FALSE
        <5>1. PICK solid \in BOOLEAN, n \in 0..Len(arts[f]) :
                arts' = [arts EXCEPT ![f] = Newest(Append(Newest(arts[f], n), [tick |-> t, solid |-> solid]), Keep)]
          BY <4>2 DEF Stored
        <5>2. n \in Nat
          BY <4>1
        <5>3. Newest(arts[f], n) \in Seq(Artifacts)
          BY <4>1, <5>2, NewestIsSeq
        <5> QED BY <3>2, <5>1, <5>3
      <4> QED BY <4>2
    <3>4. ~(\E solid \in BOOLEAN :
             arts' = [arts EXCEPT ![f] = Newest(Append(@, [tick |-> t, solid |-> solid]), Keep)])
      BY <1>1, <3>2, FleetAssumption DEF Anchors
    <3>5. f \in Audited /\ ~job[<<t, f>>].writes /\ Drifted(ring[f], anchor[f])
      BY <1>1 DEF Anchors
    <3>6. Acting
      BY <1>1, <3>3, <3>4, <3>5 DEF Capture
    <3> QED BY <3>1, <3>6 DEF Acting
  <2> QED BY <2>1, <2>2
<1>2. IInv /\ Anchors /\ [Next]_vars =>
        [\A t \in Ticks : \A f \in Serves[t] \cap Audited :
           Capture(t, f) /\ ~job[t, f].writes /\ Drifted(ring[f], first[f]) =>
             \/ \E a \in ToSet(arts'[f]) : a.tick = t
             \/ acts' = acts + 1 /\ UNCHANGED arts]_vars
  BY <1>1
<1> QED BY <1>2, AlwaysIInv, AlwaysAnchors, PTL DEF Spec, CreepLeavesEvidence
-------------------------------------------------------------------------------
(* Rings and evidence stay within their bounds.                            *)

LEMMA NewestIsShort ==
  ASSUME NEW S, NEW s \in Seq(S), NEW n \in Nat \ {0}
  PROVE  Len(Newest(s, n)) <= n
<1>1. Len(s) \in Nat /\ \A i \in 1..Len(s) : s[i] \in S
  OBVIOUS
<1>2. CASE Len(s) <= n
  BY <1>2 DEF Newest
<1>3. CASE ~(Len(s) <= n)
  <2> DEFINE m == Len(s)
             l == m - n + 1
  <2>1. l \in Int /\ m \in Int /\ l <= m /\ m - l + 1 = n /\ \A i \in l..m : s[i] \in S
    BY <1>1, <1>3
  <2>2. Newest(s, n) = SubSeq(s, l, m)
    BY <1>3 DEF Newest
  <2> HIDE DEF l, m
  <2>3. Len(SubSeq(s, l, m)) = IF l <= m THEN m - l + 1 ELSE 0
    BY <2>1, SubSeqProperties
  <2> QED BY <2>1, <2>2, <2>3
<1> QED BY <1>2, <1>3

LEMMA NewestIsShorter ==
  ASSUME NEW S, NEW s \in Seq(S), NEW n \in Nat
  PROVE  Len(Newest(s, n)) <= Len(s)
<1>1. Len(s) \in Nat /\ \A i \in 1..Len(s) : s[i] \in S
  OBVIOUS
<1>2. CASE Len(s) <= n
  BY <1>1, <1>2 DEF Newest
<1>3. CASE ~(Len(s) <= n)
  <2> DEFINE m == Len(s)
             l == m - n + 1
  <2>1. l \in Int /\ m \in Nat /\ m - l + 1 = n /\ n <= m /\ \A i \in l..m : s[i] \in S
    BY <1>1, <1>3
  <2>2. Newest(s, n) = SubSeq(s, l, m)
    BY <1>3 DEF Newest
  <2> HIDE DEF l, m
  <2>3. Len(SubSeq(s, l, m)) = IF l <= m THEN m - l + 1 ELSE 0
    BY <2>1, SubSeqProperties
  <2>4. Len(SubSeq(s, l, m)) <= m
    BY <2>1, <2>3
  <2> QED BY <2>2, <2>4 DEF m
<1> QED BY <1>2, <1>3

LEMMA WithoutIsShort ==
  ASSUME NEW S, NEW s \in Seq(S), NEW a
  PROVE  Len(Without(s, a)) <= Len(s)
<1>1. Len(s) \in Nat /\ \A i \in 1..Len(s) : s[i] \in S
  OBVIOUS
<1>2. CASE \E i \in DOMAIN s : s[i] = a
  <2> DEFINE i == CHOOSE i \in DOMAIN s : s[i] = a
  <2>0. i \in DOMAIN s
    BY <1>2, Zenon
  <2>1. i \in 1..Len(s)
    BY <2>0
  <2>2. Without(s, a) = SubSeq(s, 1, i - 1) \o SubSeq(s, i + 1, Len(s))
    BY <1>2, Zenon DEF Without, RemoveAt
  <2> HIDE DEF i
  <2> DEFINE h == i - 1
             l == i + 1
             m == Len(s)
  <2>3. h \in Nat /\ l \in Nat /\ m \in Nat /\ h <= m /\ (\A k \in 1..h : s[k] \in S) /\ (\A k \in l..m : s[k] \in S)
    BY <1>1, <2>1
  <2>4. h - 1 + 1 = h /\ (~(1 <= h) => h = 0) /\ h + 0 <= m /\ h + 2 = l
    BY <2>1, <2>3
  <2>5. Without(s, a) = SubSeq(s, 1, h) \o SubSeq(s, l, m)
    BY <2>2
  <2> HIDE DEF h, l, m
  <2>6. /\ SubSeq(s, 1, h) \in Seq(S) /\ SubSeq(s, l, m) \in Seq(S)
        /\ Len(SubSeq(s, 1, h)) = IF 1 <= h THEN h - 1 + 1 ELSE 0
        /\ Len(SubSeq(s, l, m)) = IF l <= m THEN m - l + 1 ELSE 0
    BY <2>3, SubSeqProperties
  <2>7. Len(Without(s, a)) = Len(SubSeq(s, 1, h)) + Len(SubSeq(s, l, m))
    BY <2>5, <2>6
  <2>8. Len(SubSeq(s, 1, h)) = h
    BY <2>4, <2>6
  <2>9. CASE l <= m
    <3>1. h + (m - l + 1) <= m
      BY <2>3, <2>4
    <3> QED BY <2>6, <2>7, <2>8, <2>9, <3>1 DEF m
  <2>10. CASE ~(l <= m)
    BY <2>4, <2>6, <2>7, <2>8, <2>10 DEF m
  <2> QED BY <2>9, <2>10
<1>3. CASE ~(\E i \in DOMAIN s : s[i] = a)
  BY <1>1, <1>3 DEF Without
<1> QED BY <1>2, <1>3

\* What the types of IInv leave out.
Within ==
  /\ \A f \in Flows : Len(ring[f]) <= RingSize /\ Len(arts[f]) <= Keep
  /\ audit.pc \in {"idle", "running", "done"}
  /\ acts \in 0..Acts

LEMMA WithinStep == IInv /\ Anchors /\ Within /\ [Next]_vars => Within'
<1> SUFFICES ASSUME IInv, Anchors, Within, [Next]_vars PROVE Within'
  OBVIOUS
<1>0. /\ ring \in [Flows -> Seq(Levels \cup {NoValue})] /\ arts \in [Flows -> Seq(Artifacts)]
      /\ audit = [x \in AuditFields |-> audit[x]]
      /\ RingSize \in Nat \ {0} /\ Keep \in Nat \ {0} /\ Acts \in Nat
      /\ \A f \in Flows : Len(ring[f]) <= RingSize /\ Len(arts[f]) <= Keep
      /\ acts \in 0..Acts /\ audit.pc \in {"idle", "running", "done"}
  BY FleetAssumption DEF IInv, Types, Anchors, Within
<1> DEFINE Spent == acts' = acts \/ (acts < Acts /\ acts' = acts + 1)
           Ringed == \A f \in Flows : Len(ring'[f]) <= RingSize
           Capped == \A f \in Flows : Len(arts'[f]) <= Keep
           Audits == audit'.pc \in {"idle", "running", "done"}
<1>1. Spent => acts' \in 0..Acts
  BY <1>0
<1>2. ring' = ring => Ringed
  BY <1>0
<1>3. arts' = arts => Capped
  BY <1>0
<1>4. audit' = audit => Audits
  BY <1>0
<1>5. ASSUME NEW f, ResetHistory(f) PROVE Ringed
  <2>1. ring' = [ring EXCEPT ![f] = <<>>]
    BY <1>5 DEF ResetHistory
  <2> QED BY <1>0, <2>1
<1>6. ASSUME NEW t \in Ticks, NEW f \in Serves[t], Accrue(t, f) PROVE Within'
  <2>1. f \in Flows /\ job[t, f].value \in Levels \cup {NoValue}
    BY JobsOf, JobFields DEF IInv, Types
  <2>2. ring' = [ring EXCEPT ![f] = Newest(Append(ring[f], job[t, f].value), RingSize)]
    BY <1>6 DEF Accrue
  <2> DEFINE v == job[t, f].value
             s == Append(ring[f], v)
             S == Levels \cup {NoValue}
  <2>3. s \in Seq(S)
    <3>1. v \in S /\ ring[f] \in Seq(S)
      BY <1>0, <2>1
    <3> HIDE DEF v, S
    <3> QED BY <3>1
  <2> HIDE DEF s, S
  <2>4. Len(Newest(s, RingSize)) <= RingSize
    BY <1>0, <2>3, NewestIsShort
  <2>5. Ringed
    BY <1>0, <2>2, <2>4 DEF s
  <2>6. UNCHANGED <<arts, audit, acts>>
    BY <1>6 DEF Accrue
  <2> QED BY <1>1, <1>3, <1>4, <2>5, <2>6 DEF Within
<1>7. ASSUME NEW t \in Ticks, NEW f \in Serves[t], Capture(t, f) PROVE Within'
  <2>1. UNCHANGED <<ring, audit>> /\ Spent
    BY <1>7 DEF Capture, Stored, Acting
  <2>2. CASE UNCHANGED arts
    BY <1>1, <1>2, <1>3, <1>4, <2>1, <2>2 DEF Within
  <2>3. CASE Files(t, f)
    <3>1. PICK a \in Artifacts, s \in Seq(Artifacts) : arts' = [arts EXCEPT ![f] = Newest(Append(s, a), Keep)]
      BY <2>3 DEF Files
    <3>2. Append(s, a) \in Seq(Artifacts)
      OBVIOUS
    <3>3. Len(Newest(Append(s, a), Keep)) <= Keep
      BY <1>0, <3>2, NewestIsShort
    <3>4. Capped
      BY <1>0, <3>1, <3>3
    <3> QED BY <1>1, <1>2, <1>4, <2>1, <3>4 DEF Within
  <2> QED BY <1>7, <2>2, <2>3, CaptureStores
<1>8. ASSUME NEW c, Drop(c) PROVE Capped
  <2>1. \A f \in Flows : Len(Without(arts[f], c[2])) <= Len(arts[f]) /\ Len(Without(arts[f], c[2])) \in Nat
    BY <1>0, WithoutIsShort, WithoutIsSeq
  <2>2. \A f \in Flows : Len(arts'[f]) = Len(arts[f]) \/ Len(arts'[f]) = Len(Without(arts[f], c[2]))
    BY <1>0, <1>8 DEF Drop
  <2>3. \A f \in Flows : Len(arts[f]) \in Nat
    BY <1>0
  <2> QED BY <1>0, <2>1, <2>2, <2>3
<1>9. ASSUME NEW t \in Ticks, NEW f \in Serves[t],
             \/ Gate(t, f) \/ Unreadable(t, f) \/ Start(t, f) \/ Replayed(t, f)
             \/ (\E v \in Levels : Look(t, f, v)) \/ Quarantine(t, f)
      PROVE  Within'
  <2>1. UNCHANGED <<ring, arts, audit>> /\ Spent
    BY <1>9 DEF Gate, Unreadable, Start, Replayed, Look, Quarantine, Acting
  <2> QED BY <1>1, <1>2, <1>3, <1>4, <2>1 DEF Within
<1>10. CASE StartAudit \/ NoLlm \/ EndAudit
  <2>1. UNCHANGED <<ring, arts, acts>>
    BY <1>10 DEF StartAudit, NoLlm, EndAudit
  <2>2. audit'.pc \in {"running", "done"}
    BY <1>0, <1>10 DEF StartAudit, NoLlm, EndAudit, Becoming, AuditFields
  <2> QED BY <1>1, <1>2, <1>3, <2>1, <2>2 DEF Within
<1>11. ASSUME NEW f \in Flows, Gather(f) \/ GatherBroken(f) \/ GatherBlinks(f) PROVE Within'
  <2>1. UNCHANGED ring /\ Spent
    BY <1>11 DEF Gather, GatherBroken, GatherBlinks, Acting
  <2>2. audit'.pc = audit.pc
    <3> DEFINE found == IF Judgeable(f) THEN Evidence(f) ELSE {}
    <3>1. \/ audit' = PassedOver(f)
          \/ audit' = [PassedOver(f) EXCEPT !.unjudged = TRUE, !.owed = @ \cup found]
          \/ \E n, seen : audit' = Owing(f, n, seen)
      BY <1>11 DEF Gather, GatherBroken, GatherBlinks, Becoming
    <3> HIDE DEF found
    <3>2. PassedOver(f).pc = audit.pc /\ PassedOver(f) = [x \in AuditFields |-> PassedOver(f)[x]]
      BY <1>0 DEF PassedOver, AuditFields
    <3>3. \A n, seen : Owing(f, n, seen).pc = audit.pc
      BY <1>0 DEF Owing, AuditFields
    <3> QED BY <3>1, <3>2, <3>3 DEF AuditFields
  <2>3. Capped
    <3>1. CASE \E n \in 0..Len(arts[f]) : arts' = [arts EXCEPT ![f] = Newest(@, n)]
      <4>1. PICK n \in 0..Len(arts[f]) : arts' = [arts EXCEPT ![f] = Newest(arts[f], n)]
        BY <3>1
      <4>2. Len(Newest(arts[f], n)) <= Len(arts[f])
        BY <1>0, NewestIsShorter
      <4>3. Len(Newest(arts[f], n)) <= Keep
        <5> DEFINE a == Len(Newest(arts[f], n))
                   b == Len(arts[f])
        <5>1. arts[f] \in Seq(Artifacts) /\ b <= Keep
          BY <1>0
        <5>2. n \in Nat /\ b \in Nat
          BY <5>1
        <5>3. a \in Nat
          BY <5>1, <5>2, NewestIsSeq
        <5>4. a <= b
          BY <4>2
        <5> HIDE DEF a, b
        <5>5. a <= Keep
          BY <1>0, <5>1, <5>2, <5>3, <5>4
        <5> QED BY <5>5 DEF a
      <4> QED BY <1>0, <4>1, <4>3
    <3> QED BY <1>3, <1>11, <3>1 DEF Gather, GatherBroken, GatherBlinks, Loads
  <2> QED BY <1>0, <1>1, <1>2, <2>1, <2>2, <2>3 DEF Within
<1>12. ASSUME NEW c, JudgeClears(c) \/ JudgeEnforces(c) \/ FindingUnsaved(c) \/ JudgeFails(c)
       PROVE  Within'
  <2>1. UNCHANGED ring /\ Spent /\ (Drop(c) \/ UNCHANGED arts)
    BY <1>12 DEF JudgeClears, JudgeEnforces, FindingUnsaved, JudgeFails, Acting
  <2>2. audit'.pc = audit.pc
    <3>1. Settled(c).pc = audit.pc /\ Settled(c) = [x \in AuditFields |-> Settled(c)[x]]
      BY <1>0 DEF Settled, AuditFields
    <3> QED BY <1>0, <1>12, <3>1 DEF JudgeClears, JudgeEnforces, FindingUnsaved, JudgeFails, Becoming, AuditFields
  <2> QED BY <1>0, <1>1, <1>2, <1>3, <1>8, <2>1, <2>2 DEF Within
<1>13. ASSUME NEW f \in Flows,
              \/ Approve(f) \/ Unapprove(f) \/ Release(f) \/ Relearn(f) \/ Tear(f) \/ TearHistory(f)
       PROVE  Within'
  <2>1. UNCHANGED <<arts, audit>> /\ Spent /\ (ResetHistory(f) \/ UNCHANGED ring)
    BY <1>13 DEF Approve, Unapprove, Release, Relearn, Tear, TearHistory, KeepHistory, Acting
  <2> QED BY <1>1, <1>2, <1>3, <1>4, <1>5, <2>1 DEF Within
<1>14. CASE UNCHANGED vars
  BY <1>14 DEF vars, Within
<1>15. Handled \subseteq Flows
  BY FleetAssumption
<1> QED BY <1>6, <1>7, <1>9, <1>10, <1>11, <1>12, <1>13, <1>14, <1>15 DEF Next

LEMMA WithinStart == Init => Within
<1> SUFFICES ASSUME Init PROVE Within
  OBVIOUS
<1>1. PICK begun \in [Flows \ Declares -> Baselines] :
        ring = [f \in Flows |-> IF f \in Declares THEN <<>> ELSE begun[f]]
  BY DEF Init
<1>2. \A f \in Flows : Len(ring[f]) <= RingSize
  BY <1>1, FleetAssumption
<1> QED BY <1>2, FleetAssumption DEF Init, Within, Sleeping

\* The sidecars, rings, artifacts, runs and the audit keep their types and bounds
\* (history.py's ring, audit.py's AUDIT_KEEP).
THEOREM FleetTypeCorrect == Spec => []TypeOK
<1>1. IInv /\ Within => TypeOK
  BY DEF IInv, Types, Within, TypeOK, Metas, JobStates
<1> QED BY <1>1, AlwaysIInv, AlwaysAnchors, WithinStart, WithinStep, PTL DEF Spec

-------------------------------------------------------------------------------
(* A demonstration, and what record() keeps of it.                         *)

\* A dispatch on the stack is of an act written down, and of the act on whose
\* behalf the task runs if it is the human's; no act starts a second timer.
PageOK ==
  /\ \A i \in ToSet(stack) : i # 0 => i \in DOMAIN acted /\ (acted[i].human => i = root)
  /\ resets <= Len(acted)

\* A request is credited to its cause, or is one of those known to be credited to
\* something else.
CreditOK(x) ==
  /\ x.out = "hidden" <=> x.how = "beacon"
  /\ x.out = "none" => x.how \in {"fetch", "submit"}
  /\ x.by # 0 => \/ x.by = x.cause
                 \/ x.by \in DOMAIN acted /\ ~acted[x.by].human
                 \/ x.late
RequestsOK == \A k \in DOMAIN sent : CreditOK(sent[k])

Collected == Len(events.acts)
Demonstrating == pc \in {"demo", "closing"}

\* Python has the acts up to some act, the page's queue has those after it, and what
\* is lost at the end is lost by a race that is noticed.
QueueOK ==
  /\ buf.markers \cup events.markers \subseteq DOMAIN sent
  /\ \A i \in 1..Collected : events.acts[i] = i
  /\ Collected <= Len(acted)
  /\ Demonstrating =>
       /\ Collected + Len(buf.acts) = Len(acted)
       /\ \A i \in 1..Len(buf.acts) : buf.acts[i] = Collected + i
       /\ away => crossed \/ raced \/ buf = NoEvents
  /\ ~Demonstrating /\ ~raced /\ ~crossed =>
       \A i \in DOMAIN acted : acted[i].human => i <= Collected

\* The recipe that record() judges: the acts drained, without a slot yet, the ones that
\* a marker names gated.
JudgedOK ==
  /\ ask \in Asks
  /\ DOMAIN flow = 1..Collected
  /\ \A j \in DOMAIN flow : flow[j].act = j /\ flow[j].slot = NoSlot
  /\ ask.write => \A k \in Markers : Scoped(sent[k].by) => flow[sent[k].by].gated

StageOK ==
  /\ pc \in {"demo", "closing", "drained"} => disk = "old"
  /\ pc = "judge" => JudgedOK
  /\ pc = "done" => EveryWriteGated /\ NothingLost /\ CredentialsFromSlots

RecordIInv == RecordTypeOK /\ PageOK /\ RequestsOK /\ QueueOK /\ StageOK

LEMMA MaxIsIn ==
  ASSUME NEW n \in Nat, NEW S \in SUBSET (1..n), S # {}
  PROVE  Max(S) \in S /\ \A y \in S : y <= Max(S)
<1> DEFINE T == {n - i : i \in S}
<1>1. T \subseteq Nat /\ T # {}
  <2>1. \A i \in S : n - i \in Nat
    OBVIOUS
  <2>2. PICK i \in S : TRUE
    OBVIOUS
  <2>3. n - i \in T
    OBVIOUS
  <2> QED BY <2>1, <2>3
<1>2. PICK x \in T : \A y \in T : ~ (<<y, x>> \in OpToRel(<, Nat))
  BY <1>1, NatLessThanWellFounded, WFMin
<1>3. \A y \in T : ~ (y < x)
  BY <1>1, <1>2 DEF OpToRel
<1>4. PICK m \in S : x = n - m
  BY <1>2
<1>5. \A y \in S : m >= y
  <2> TAKE y \in S
  <2>1. ~ (n - y < n - m)
    BY <1>3, <1>4
  <2> QED BY <2>1
<1>6. Max(S) = CHOOSE z \in S : \A y \in S : z >= y
  BY DEF Max
<1>7. Max(S) \in S /\ \A y \in S : Max(S) >= y
  BY <1>4, <1>5, <1>6, Zenon
<1> QED BY <1>7

\* What the type invariant says, piece by piece.
LEMMA RecordFacts ==
  ASSUME RecordTypeOK
  PROVE  /\ Len(acted) \in Nat /\ DOMAIN acted = 1..Len(acted)
         /\ \A i \in DOMAIN acted : acted[i].control \in Controls /\ acted[i].human \in BOOLEAN
         /\ Len(sent) \in Nat /\ DOMAIN sent = 1..Len(sent)
         /\ \A k \in DOMAIN sent : sent[k] \in Request
         /\ buf \in Queue /\ events \in Queue
         /\ buf.acts \in Seq(1..Actuations) /\ events.acts \in Seq(1..Actuations)
         /\ buf.markers \subseteq 1..Writes /\ events.markers \subseteq 1..Writes
         /\ Len(buf.acts) \in Nat /\ DOMAIN buf.acts = 1..Len(buf.acts)
         /\ Collected \in Nat /\ DOMAIN events.acts = 1..Collected
         /\ turn \in Nat /\ resets \in Nat /\ navs \in Nat /\ drains \in Nat
         /\ DOMAIN flow = 1..Len(flow) /\ Len(flow) \in Nat
<1>1. acted \in Seq(Act) /\ sent \in Seq(Request) /\ {buf, events} \subseteq Queue
  BY DEF RecordTypeOK
<1>2. \A q \in Queue : /\ q.acts \in Seq(1..Actuations) /\ q.markers \subseteq 1..Writes
                       /\ Len(q.acts) \in Nat /\ DOMAIN q.acts = 1..Len(q.acts)
  BY DEF Queue
<1>3. \A a \in Act : a.control \in Controls /\ a.human \in BOOLEAN
  BY DEF Act
<1>4. /\ Len(acted) \in Nat /\ DOMAIN acted = 1..Len(acted) /\ \A i \in DOMAIN acted : acted[i] \in Act
      /\ Len(sent) \in Nat /\ DOMAIN sent = 1..Len(sent) /\ \A k \in DOMAIN sent : sent[k] \in Request
  BY <1>1
<1>5. turn \in Nat /\ resets \in Nat /\ navs \in Nat /\ drains \in Nat
  BY BoundsAssumption DEF RecordTypeOK
<1>6. DOMAIN flow = 1..Len(flow) /\ Len(flow) \in Nat
  BY DEF RecordTypeOK
<1> QED BY <1>1, <1>2, <1>3, <1>4, <1>5, <1>6 DEF Collected

LEMMA QueueIs ==
  ASSUME NEW s \in Seq(1..Actuations), NEW m \in SUBSET (1..Writes)
  PROVE  [acts |-> s, markers |-> m] \in Queue
BY DEF Queue

LEMMA NoEventsFacts == NoEvents \in Queue /\ NoEvents.acts = <<>> /\ NoEvents.markers = {} /\ Len(NoEvents.acts) = 0
BY DEF NoEvents, Queue

LEMMA RecordStart == RecordInit => RecordIInv
<1> SUFFICES ASSUME RecordInit PROVE RecordIInv
  OBVIOUS
<1> USE NoEventsFacts DEF RecordInit
<1>1. RecordTypeOK
  <2>1. /\ acted \in Seq(Act) /\ Len(acted) <= Actuations /\ sent \in Seq(Request) /\ Len(sent) <= Writes
        /\ stack \in Seq(0..Actuations) /\ root \in 0..Actuations /\ later \subseteq 0..Actuations
        /\ resets \in 0..Actuations /\ turn \in 0..resets /\ navs \in 0..Navs /\ drains \in 0..navs
    BY BoundsAssumption
  <2>2. flow \in Seq([act : 1..Actuations, mutating : BOOLEAN, gated : BOOLEAN,
                      slot : Labels \cup {NoSlot, "mined"}])
    OBVIOUS
  <2>3. /\ ask \in Asks \cup {NoAsk} /\ pc \in {"demo", "closing", "drained", "judge", "done"}
        /\ busy = FALSE /\ (~busy => stack = <<>> /\ root = 0) /\ {away, crossed, raced} \subseteq BOOLEAN
        /\ disk \in {"old", "none", "new"} /\ answer \in {"none", "cached", "refused", "raised", "unjudged", "unsettled"}
        /\ {buf, events} \subseteq Queue
    OBVIOUS
  <2>4. ~(turn > 0)
    OBVIOUS
  <2> QED BY ONLY <2>1, <2>2, <2>3, <2>4 DEF RecordTypeOK
<1>2. PageOK
  BY DEF PageOK, ToSet
<1>3. RequestsOK
  BY DEF RequestsOK
<1>4. QueueOK
  BY DEF QueueOK, Collected, Demonstrating
<1>5. StageOK
  BY DEF StageOK
<1> QED BY <1>1, <1>2, <1>3, <1>4, <1>5 DEF RecordIInv

\* While the page lives there is no recipe to judge.
LEMMA StageKept ==
  ASSUME StageOK, pc \in {"demo", "closing", "drained"}, pc' \in {"demo", "closing", "drained"}, disk' = disk
  PROVE  StageOK'
BY DEF StageOK

LEMMA FrontFacts ==
  ASSUME NEW S, NEW s \in Seq(S), Len(s) > 1
  PROVE  LET f == SubSeq(s, 1, Len(s) - 1)
         IN f \in Seq(S) /\ \A i \in DOMAIN f : i \in DOMAIN s /\ f[i] = s[i]
<1>1. Len(s) \in Nat /\ DOMAIN s = 1..Len(s) /\ \A i \in 1..Len(s) - 1 : s[i] \in S
  OBVIOUS
<1> DEFINE f == SubSeq(s, 1, Len(s) - 1)
<1>2. f \in Seq(S) /\ Len(f) = Len(s) - 1 /\ \A i \in 1..Len(s) - 1 : f[i] = s[i]
  <2> DEFINE m == Len(s) - 1
  <2>1. m \in Nat /\ m >= 1 /\ m - 1 + 1 = m
    BY <1>1
  <2> HIDE DEF m
  <2>2. /\ SubSeq(s, 1, m) \in Seq(S) /\ Len(SubSeq(s, 1, m)) = m
        /\ \A i \in 1..m : SubSeq(s, 1, m)[i] = s[i]
    <3>1. \A i \in 1..m : s[i] \in S
      BY <1>1 DEF m
    <3>2. /\ SubSeq(s, 1, m) \in Seq(S) /\ Len(SubSeq(s, 1, m)) = IF 1 <= m THEN m - 1 + 1 ELSE 0
          /\ \A i \in 1..m - 1 + 1 : SubSeq(s, 1, m)[i] = s[1 + i - 1]
      BY <2>1, <3>1, SubSeqProperties
    <3>3. \A i \in 1..m : 1 + i - 1 = i
      BY <2>1
    <3> QED BY <2>1, <3>2, <3>3
  <2> QED BY <2>2 DEF m
<1> HIDE DEF f
<1>3. DOMAIN f = 1..Len(s) - 1
  BY <1>2
<1> QED BY <1>1, <1>2, <1>3 DEF f

\* Tasks of the page that write nothing down and send nothing.
LEMMA QuietKeeps ==
  ASSUME RecordIInv, Keystroke \/ Defer \/ LaterRuns \/ DispatchEnds \/ ResetRuns
  PROVE  RecordIInv'
<1> USE DEF RecordIInv
<1>1. /\ Live
      /\ UNCHANGED <<ask, pc, acted, sent, buf, navs, away, drains, events, crossed, raced, flow, disk, answer>>
  BY DEF Keystroke, Defer, LaterRuns, DispatchEnds, ResetRuns, python, result
<1>2. /\ busy' \in BOOLEAN /\ stack' \in Seq(0..Actuations) /\ root' \in 0..Actuations
      /\ ~busy' => stack' = <<>> /\ root' = 0
      /\ later' \subseteq 0..Actuations
      /\ \A i \in ToSet(stack') : i = 0 \/ (i \in ToSet(stack) /\ root' = root)
  <2>1. CASE Keystroke
    BY <2>1, BoundsAssumption DEF Keystroke, RecordTypeOK, ToSet
  <2>2. CASE Defer \/ ResetRuns
    BY <2>2 DEF Defer, ResetRuns, RecordTypeOK, ToSet
  <2>3. CASE LaterRuns
    <3>1. stack = <<>> /\ stack' = stack
      BY <2>3 DEF LaterRuns, RecordTypeOK
    <3> QED BY <2>3, <3>1, BoundsAssumption DEF LaterRuns, RecordTypeOK, ToSet
  <2>4. CASE DispatchEnds
    <3>1. CASE Len(stack) > 1
      <4>1. stack' = SubSeq(stack, 1, Len(stack) - 1) /\ UNCHANGED <<busy, root, later>> /\ stack \in Seq(0..Actuations)
        BY <2>4, <3>1 DEF DispatchEnds, Front, RecordTypeOK
      <4>2. stack' \in Seq(0..Actuations) /\ \A i \in DOMAIN stack' : i \in DOMAIN stack /\ stack'[i] = stack[i]
        BY <3>1, <4>1, FrontFacts
      <4>3. \A i \in ToSet(stack') : i \in ToSet(stack)
        BY <4>2 DEF ToSet
      <4>4. busy \in BOOLEAN /\ busy /\ busy' = busy /\ root' = root /\ later' = later /\ root \in 0..Actuations /\ later \subseteq 0..Actuations
        BY <2>4, <4>1 DEF DispatchEnds, RecordTypeOK
      <4>5. busy' \in BOOLEAN
        BY <4>4
      <4>6. ~busy' => stack' = <<>> /\ root' = 0
        BY <4>4, Zenon
      <4>7. stack' \in Seq(0..Actuations) /\ root' \in 0..Actuations /\ later' \subseteq 0..Actuations
        BY <4>2, <4>4
      <4>8. \A i \in ToSet(stack') : i \in ToSet(stack) /\ root' = root
        BY <4>3, <4>4
      <4>9. \A i \in ToSet(stack') : i = 0 \/ (i \in ToSet(stack) /\ root' = root)
        BY <4>8
      <4> HIDE DEF RecordIInv
      <4> QED BY <4>5, <4>6, <4>7, <4>9
    <3>2. CASE ~(Len(stack) > 1)
      <4>1. stack' = <<>> /\ busy' = FALSE /\ root' = 0 /\ later' = later
        BY <2>4, <3>2 DEF DispatchEnds
      <4>2. ToSet(stack') = {}
        BY <4>1 DEF ToSet
      <4>3. later' \subseteq 0..Actuations /\ 0 \in 0..Actuations /\ <<>> \in Seq(0..Actuations)
        BY <4>1, BoundsAssumption DEF RecordTypeOK
      <4> QED BY <4>1, <4>2, <4>3
    <3> QED BY <3>1, <3>2
  <2> QED BY <2>1, <2>2, <2>3, <2>4
<1>3. resets' \in 0..Actuations /\ turn' \in 0..resets' /\ (turn' > 0 => turn' = turn) /\ resets' <= resets
  <2>1. CASE ResetRuns
    BY <2>1, RecordFacts, BoundsAssumption DEF ResetRuns, RecordTypeOK
  <2>2. CASE Keystroke \/ Defer \/ LaterRuns \/ DispatchEnds
    <3>1. resets' = resets /\ turn' = turn
      BY <2>2 DEF Keystroke, Defer, LaterRuns, DispatchEnds
    <3>2. resets \in 0..Actuations /\ turn \in 0..resets
      BY DEF RecordTypeOK
    <3>3. resets <= resets
      BY RecordFacts
    <3> QED BY <3>1, <3>2, <3>3
  <2> QED BY <2>1, <2>2
<1>4. RecordTypeOK'
  BY <1>1, <1>2, <1>3 DEF RecordTypeOK, Commits
<1>5. PageOK'
  <2>1. \A i \in ToSet(stack') : i # 0 => i \in DOMAIN acted' /\ (acted'[i].human => i = root')
    BY <1>1, <1>2 DEF PageOK
  <2>2. Len(acted) \in Nat /\ resets \in Nat /\ resets <= Len(acted)
    BY RecordFacts DEF PageOK
  <2>3. resets' \in Nat /\ resets' <= resets
    BY <1>3, BoundsAssumption
  <2>4. resets' <= Len(acted')
    BY <1>1, <2>2, <2>3
  <2> QED BY <2>1, <2>4 DEF PageOK
<1>6. RequestsOK' /\ QueueOK'
  BY <1>1 DEF RequestsOK, CreditOK, QueueOK, Collected, Demonstrating
<1>7. StageOK'
  BY <1>1, StageKept DEF Live
<1> QED BY <1>4, <1>5, <1>6, <1>7

\* An act is written down, and its dispatch put on the stack.
LEMMA StoreEffect ==
  ASSUME RecordIInv, NEW c \in Controls, NEW human \in BOOLEAN, Store(c, human)
  PROVE  /\ acted' \in Seq(Act) /\ Len(acted') = Len(acted) + 1 /\ Len(acted') <= Actuations
         /\ DOMAIN acted \subseteq DOMAIN acted' /\ DOMAIN acted' = DOMAIN acted \cup {Len(acted) + 1}
         /\ \A i \in DOMAIN acted : acted'[i] = acted[i]
         /\ acted'[Len(acted) + 1].human = human
         /\ buf' \in Queue /\ buf'.markers = buf.markers
         /\ buf'.acts = Append(buf.acts, Len(acted) + 1)
         /\ stack' \in Seq(0..Actuations)
         /\ \A i \in ToSet(stack') : i \in ToSet(stack) \/ i = Len(acted) + 1
         /\ resets' \in 0..Actuations /\ turn' \in 0..resets' /\ resets' <= Len(acted')
         /\ turn' > 0 => Commits' # {}
<1> USE DEF RecordIInv
<1> DEFINE n == Len(acted) + 1
           a == [control |-> c, human |-> human]
<1>1. /\ acted' = Append(acted, a) /\ n <= Actuations /\ n \in 1..Actuations
      /\ buf' = [buf EXCEPT !.acts = Append(@, n)]
      /\ stack' = Append(stack, n)
  <2>1. /\ Len(acted) < Actuations /\ acted' = Append(acted, a)
        /\ buf' = [buf EXCEPT !.acts = Append(@, n)] /\ stack' = Append(stack, n)
    BY DEF Store
  <2>2. Len(acted) \in Nat
    BY RecordFacts
  <2>3. n <= Actuations /\ n \in 1..Actuations
    BY <2>1, <2>2, BoundsAssumption
  <2> QED BY <2>1, <2>3
<1>2. a \in Act /\ a.human = human /\ a.control = c
  BY DEF Act
<1> HIDE DEF a
<1>3. acted \in Seq(Act) /\ stack \in Seq(0..Actuations)
  BY DEF RecordTypeOK
<1>4. /\ acted' \in Seq(Act) /\ Len(acted') = n /\ DOMAIN acted' = 1..n
      /\ acted'[n] = a /\ \A i \in 1..Len(acted) : acted'[i] = acted[i]
  BY <1>1, <1>2, <1>3
<1>5. DOMAIN acted = 1..Len(acted) /\ Len(acted) \in Nat
  BY RecordFacts
<1>6. DOMAIN acted \subseteq DOMAIN acted' /\ DOMAIN acted' = DOMAIN acted \cup {n}
  BY <1>4, <1>5
<1>7. buf' \in Queue /\ buf'.markers = buf.markers /\ buf'.acts = Append(buf.acts, n)
  <2>1. buf \in Queue /\ buf.acts \in Seq(1..Actuations)
    BY RecordFacts
  <2>2. Append(buf.acts, n) \in Seq(1..Actuations)
    BY <1>1, <2>1
  <2> HIDE DEF n
  <2> QED BY <1>1, <2>1, <2>2 DEF Queue
<1>8. stack' \in Seq(0..Actuations) /\ \A i \in ToSet(stack') : i \in ToSet(stack) \/ i = n
  <2>1. stack' \in Seq(0..Actuations) /\ \A j \in DOMAIN stack' : stack'[j] = n \/ (j \in DOMAIN stack /\ stack'[j] = stack[j])
    BY <1>1, <1>3
  <2> QED BY <2>1 DEF ToSet
<1>9. resets' \in 0..Actuations /\ turn' \in 0..resets' /\ resets' <= n
  <2>1. resets \in Nat /\ resets <= Len(acted) /\ turn \in 0..resets /\ resets <= Actuations
    BY RecordFacts DEF PageOK, RecordTypeOK
  <2> QED BY <1>1, <1>5, <2>1, BoundsAssumption DEF Store
<1>10. turn' > 0 => Commits' # {}
  <2>1. CASE c.kind = "commit"
    BY <1>2, <1>4, <1>5, <2>1 DEF Commits
  <2>2. CASE c.kind # "commit"
    <3>1. turn' = turn /\ (turn > 0 => Commits # {})
      BY <2>2 DEF Store, RecordTypeOK
    <3>2. Commits \subseteq Commits'
      BY <1>4, <1>5 DEF Commits
    <3> QED BY <3>1, <3>2
  <2> QED BY <2>1, <2>2
<1> QED BY <1>1, <1>2, <1>4, <1>6, <1>7, <1>8, <1>9, <1>10

\* The human acts, or the page does on its own.
LEMMA ActingKeeps ==
  ASSUME RecordIInv, HumanActs \/ PageClicks
  PROVE  RecordIInv'
<1> USE DEF RecordIInv
<1>1. PICK c \in Controls, human \in BOOLEAN :
        /\ Store(c, human)
        /\ human => pc = "demo" /\ ~busy /\ root' = Len(acted) + 1
        /\ ~human => busy /\ root' = root
  <2>1. CASE HumanActs
    BY <2>1 DEF HumanActs
  <2>2. CASE PageClicks
    BY <2>2 DEF PageClicks
  <2> QED BY <2>1, <2>2
<1>2. /\ Live
      /\ UNCHANGED <<ask, pc, sent, later, navs, away, drains, events, crossed, raced, flow, disk, answer>>
  BY DEF HumanActs, PageClicks, python, result
<1>3. /\ acted' \in Seq(Act) /\ Len(acted') = Len(acted) + 1 /\ Len(acted') <= Actuations
      /\ DOMAIN acted \subseteq DOMAIN acted' /\ DOMAIN acted' = DOMAIN acted \cup {Len(acted) + 1}
      /\ \A i \in DOMAIN acted : acted'[i] = acted[i]
      /\ acted'[Len(acted) + 1].human = human
      /\ buf' \in Queue /\ buf'.markers = buf.markers
      /\ buf'.acts = Append(buf.acts, Len(acted) + 1)
      /\ stack' \in Seq(0..Actuations)
      /\ \A i \in ToSet(stack') : i \in ToSet(stack) \/ i = Len(acted) + 1
      /\ resets' \in 0..Actuations /\ turn' \in 0..resets' /\ resets' <= Len(acted')
      /\ turn' > 0 => Commits' # {}
  BY <1>1, StoreEffect
<1>4. root' \in 0..Actuations /\ busy' \in BOOLEAN
  <2>1. root' = root \/ root' = Len(acted')
    BY <1>1, <1>3
  <2>2. busy' = TRUE
    BY DEF HumanActs, PageClicks, RecordTypeOK
  <2>3. root \in 0..Actuations
    BY DEF RecordTypeOK
  <2>4. Len(acted') \in 0..Actuations
    BY <1>3, RecordFacts, BoundsAssumption
  <2> QED BY <2>1, <2>2, <2>3, <2>4
<1>5. RecordTypeOK'
  <2>1. ~busy' => stack' = <<>> /\ root' = 0
    <3>1. busy' = TRUE
      BY DEF HumanActs, PageClicks, RecordTypeOK
    <3> QED BY <3>1
  <2> QED BY <1>2, <1>3, <1>4, <2>1 DEF RecordTypeOK
<1>6. PageOK'
  <2> SUFFICES ASSUME NEW i \in ToSet(stack'), i # 0
               PROVE  i \in DOMAIN acted' /\ (acted'[i].human => i = root')
    BY <1>3 DEF PageOK
  <2>1. CASE i = Len(acted) + 1
    BY <1>1, <1>3, <2>1
  <2>2. CASE i \in ToSet(stack)
    <3>1. busy /\ root' = root
      <4>1. ~busy => ToSet(stack) = {}
        BY DEF RecordTypeOK, ToSet
      <4> QED BY <1>1, <2>2, <4>1
    <3>2. i \in DOMAIN acted /\ (acted[i].human => i = root)
      BY <2>2 DEF PageOK
    <3> QED BY <1>3, <3>1, <3>2
  <2> QED BY <1>3, <2>1, <2>2
<1>7. RequestsOK'
  BY <1>2, <1>3 DEF RequestsOK, CreditOK
<1>8. QueueOK'
  <2>1. /\ Len(acted) \in Nat /\ Len(buf.acts) \in Nat /\ Collected \in Nat /\ buf.acts \in Seq(1..Actuations)
        /\ Collected' = Collected
    BY <1>2, RecordFacts DEF Collected
  <2>2. /\ Len(buf'.acts) = Len(buf.acts) + 1 /\ buf'.acts[Len(buf.acts) + 1] = Len(acted) + 1
        /\ \A i \in 1..Len(buf.acts) : buf'.acts[i] = buf.acts[i]
    BY <1>3, <2>1
  <2>3. ~Demonstrating /\ ~raced /\ ~crossed => \A i \in DOMAIN acted' : acted'[i].human => i <= Collected
    BY <1>1, <1>3 DEF QueueOK, Demonstrating
  <2>4. ~away
    BY <1>2 DEF Live
  <2>5. /\ buf'.markers \cup events'.markers \subseteq DOMAIN sent'
        /\ \A i \in 1..Collected' : events'.acts[i] = i
        /\ Collected' <= Len(acted')
    BY <1>2, <1>3, <2>1 DEF QueueOK
  <2>6. Demonstrating => /\ Collected + Len(buf'.acts) = Len(acted')
                         /\ \A i \in 1..Len(buf'.acts) : buf'.acts[i] = Collected + i
    <3> SUFFICES ASSUME Demonstrating
                 PROVE  /\ Collected + Len(buf'.acts) = Len(acted')
                        /\ \A i \in 1..Len(buf'.acts) : buf'.acts[i] = Collected + i
      OBVIOUS
    <3>1. Collected + Len(buf.acts) = Len(acted) /\ \A i \in 1..Len(buf.acts) : buf.acts[i] = Collected + i
      BY DEF QueueOK
    <3>2. Collected + Len(buf'.acts) = Len(acted')
      BY <1>3, <2>1, <2>2, <3>1
    <3>3. ASSUME NEW i \in 1..Len(buf'.acts) PROVE buf'.acts[i] = Collected + i
      <4>1. i \in 1..Len(buf.acts) \/ i = Len(buf.acts) + 1
        BY <2>1, <2>2
      <4>2. CASE i \in 1..Len(buf.acts)
        BY <2>2, <3>1, <4>2
      <4>3. CASE i = Len(buf.acts) + 1
        <5>1. buf'.acts[i] = Len(acted) + 1
          BY <2>2, <4>3
        <5>2. Len(acted) + 1 = Collected + i
          BY <2>1, <3>1, <4>3
        <5> QED BY <5>1, <5>2
      <4> QED BY <4>1, <4>2, <4>3
    <3> QED BY <3>2, <3>3
  <2> QED BY <1>2, <2>1, <2>3, <2>4, <2>5, <2>6 DEF QueueOK, Demonstrating
<1>9. StageOK'
  BY <1>2, StageKept DEF Live
<1> QED BY <1>5, <1>6, <1>7, <1>8, <1>9

\* A request is credited to the commit of the open turn: to its cause, or as a submit
\* event outside any dispatch of that commit.
LEMMA AttributedFacts ==
  ASSUME RecordIInv, NEW how
  PROVE  /\ Attributed(how) \in 0..Len(acted)
         /\ Attributed(how) # 0 =>
              \/ Attributed(how) \in ToSet(stack)
              \/ how = "submit"
<1> USE DEF RecordIInv
<1> DEFINE last == Max(Commits)
<1>1. CASE turn = 1
  <2>1. Commits # {} /\ Commits \subseteq 1..Len(acted) /\ Len(acted) \in Nat
    BY <1>1, RecordFacts DEF RecordTypeOK, Commits
  <2>2. last \in 1..Len(acted)
    BY <2>1, MaxIsIn
  <2>3. stack # <<>> => Last(stack) \in ToSet(stack)
    BY DEF RecordTypeOK, Last, ToSet
  <2> HIDE DEF last
  <2>4. Attributed(how) = IF (stack # <<>> /\ Last(stack) = last) \/ how = "submit" THEN last ELSE 0
    BY <1>1 DEF Attributed, last
  <2> QED BY <2>1, <2>2, <2>3, <2>4
<1>2. CASE turn # 1
  BY <1>2, RecordFacts DEF Attributed
<1> QED BY <1>1, <1>2

LEMMA SendKeeps ==
  ASSUME RecordIInv, PageSends \/ OthersSend
  PROVE  RecordIInv'
<1> USE DEF RecordIInv
<1>1. PICK r \in Request :
        /\ sent' = Append(sent, r) /\ CreditOK(r)
        /\ \/ buf' = [buf EXCEPT !.markers = @ \cup {Len(sent) + 1}] /\ UNCHANGED busy
           \/ UNCHANGED <<buf, busy>>
  <2>1. CASE PageSends
    <3>1. PICK x \in Sends, u \in Urls :
            sent' = Append(sent,
               [how |-> x.how, url |-> u, cause |-> root, by |-> Attributed(x.how),
                late |-> x.how = "submit" /\ Attributed(x.how) \notin ToSet(stack), out |-> x.out])
      BY <2>1 DEF PageSends
    <3> DEFINE by == Attributed(x.how)
               late == x.how = "submit" /\ by \notin ToSet(stack)
               r == [how |-> x.how, url |-> u, cause |-> root, by |-> by, late |-> late, out |-> x.out]
    <3>2. by \in 0..Len(acted) /\ (by # 0 => by \in ToSet(stack) \/ x.how = "submit")
      BY AttributedFacts
    <3>3. x.how \in Hows /\ x.out \in {"wire", "hidden", "none"} /\ (x.out = "hidden" <=> x.how = "beacon")
          /\ (x.out = "none" => x.how \in {"fetch", "submit"})
      BY SendsAssumption
    <3>4. late \in BOOLEAN
      OBVIOUS
    <3>5. root \in 0..Actuations /\ by \in 0..Actuations
      BY <3>2, RecordFacts, BoundsAssumption DEF RecordTypeOK
    <3>6. by # 0 => by = root \/ (by \in DOMAIN acted /\ ~acted[by].human) \/ late
      BY <3>2 DEF PageOK
    <3> HIDE DEF by, late
    <3>7. r \in Request
      BY <3>3, <3>4, <3>5 DEF Request
    <3>8. CreditOK(r)
      BY <3>3, <3>6 DEF CreditOK
    <3>9. sent' = Append(sent, r)
      BY <3>1 DEF by, late
    <3> QED BY <2>1, <3>7, <3>8, <3>9 DEF PageSends
  <2>2. CASE OthersSend
    <3>1. PICK x \in Sends, u \in Urls :
            sent' = Append(sent, [how |-> x.how, url |-> u, cause |-> 0, by |-> 0, late |-> FALSE, out |-> x.out])
      BY <2>2 DEF OthersSend
    <3> DEFINE r == [how |-> x.how, url |-> u, cause |-> 0, by |-> 0, late |-> FALSE, out |-> x.out]
    <3>2. x.how \in Hows /\ x.out \in {"wire", "hidden", "none"} /\ (x.out = "hidden" <=> x.how = "beacon")
          /\ (x.out = "none" => x.how \in {"fetch", "submit"})
      BY SendsAssumption
    <3>3. r \in Request /\ CreditOK(r)
      BY <3>2, BoundsAssumption DEF Request, CreditOK
    <3> QED BY <2>2, <3>1, <3>3 DEF OthersSend
  <2> QED BY <2>1, <2>2
<1>2. /\ Live /\ Len(sent) + 1 <= Writes
      /\ UNCHANGED <<ask, pc, acted, busy, stack, root, later, turn, resets, navs, away, drains, events, crossed,
                     raced, flow, disk, answer>>
  BY RecordFacts, BoundsAssumption DEF PageSends, OthersSend, python, result, RecordTypeOK
<1>3. /\ sent' \in Seq(Request) /\ Len(sent') = Len(sent) + 1
      /\ DOMAIN sent' = DOMAIN sent \cup {Len(sent) + 1} /\ Len(sent) + 1 \in 1..Writes
      /\ \A k \in DOMAIN sent : sent'[k] = sent[k]
      /\ sent'[Len(sent) + 1] = r
  <2>1. sent \in Seq(Request) /\ Len(sent) \in Nat
    BY DEF RecordTypeOK
  <2> QED BY <1>1, <1>2, <2>1, BoundsAssumption
<1>4. /\ buf' \in Queue /\ buf'.acts = buf.acts /\ buf'.markers \subseteq buf.markers \cup {Len(sent) + 1}
      /\ away => buf' = buf
  <2>1. buf \in Queue /\ ~away
    BY <1>2, RecordFacts DEF Live
  <2> QED BY <1>1, <1>3, <2>1 DEF Queue
<1>5. RecordTypeOK'
  BY <1>2, <1>3, <1>4 DEF RecordTypeOK, Commits
<1>6. PageOK'
  BY <1>2 DEF PageOK
<1>7. RequestsOK'
  BY <1>1, <1>2, <1>3 DEF RequestsOK, CreditOK
<1>8. QueueOK'
  BY <1>2, <1>3, <1>4 DEF QueueOK, Collected, Demonstrating
<1>9. StageOK'
  BY <1>2, StageKept DEF Live
<1> QED BY <1>5, <1>6, <1>7, <1>8, <1>9

\* A new document, and a drain scheduled if anyone listens.
LEMMA MoveKeeps ==
  ASSUME RecordIInv, Navigate \/ CrossOrigin
  PROVE  RecordIInv'
<1> USE DEF RecordIInv
<1>1. /\ pc \in {"demo", "closing"} /\ ~away /\ later' = {} /\ turn' = 0 /\ resets' = 0
      /\ navs' = navs + 1 /\ navs < Navs
      /\ drains' \in {drains, drains + 1}
      /\ UNCHANGED <<ask, pc, acted, sent, buf, busy, stack, root, events, flow, disk, answer>>
  BY DEF Navigate, CrossOrigin, NewDocument, Live, result
<1>2. /\ {away', crossed', raced'} \subseteq BOOLEAN
      /\ away' => crossed' \/ raced' \/ buf = NoEvents
      /\ ~crossed' /\ ~raced' => ~crossed /\ ~raced
  <2>1. {away, crossed, raced} \subseteq BOOLEAN
    BY DEF RecordTypeOK
  <2>2. CASE Navigate
    BY <1>1, <2>1, <2>2 DEF Navigate
  <2>3. CASE CrossOrigin
    <3>1. /\ away' = TRUE
          /\ pc = "demo" => crossed' = TRUE
          /\ pc = "closing" => crossed' = crossed
          /\ raced' = (raced \/ (pc = "closing" /\ buf # NoEvents))
      BY <1>1, <2>3 DEF CrossOrigin
    <3>2. raced' \in BOOLEAN
      BY <3>1
    <3>3. crossed' \in BOOLEAN /\ (~crossed' => ~crossed)
      <4>1. crossed \in BOOLEAN
        BY <2>1
      <4>2. CASE pc = "demo"
        BY <3>1, <4>2
      <4>3. CASE pc = "closing"
        <5>1. crossed' = crossed
          BY <3>1, <4>3
        <5> QED BY <4>1, <5>1
      <4> QED BY <1>1, <4>2, <4>3
    <3>4. buf = NoEvents \/ crossed' \/ raced'
      BY <1>1, <3>1
    <3> QED BY <3>1, <3>2, <3>3, <3>4
  <2> QED BY <2>2, <2>3
<1>3. navs' \in 0..Navs /\ drains' \in 0..navs'
  BY <1>1, RecordFacts, BoundsAssumption DEF RecordTypeOK
<1>4. RecordTypeOK'
  BY <1>1, <1>2, <1>3, RecordFacts, BoundsAssumption DEF RecordTypeOK, Commits
<1>5. PageOK' /\ RequestsOK'
  BY <1>1, RecordFacts DEF PageOK, RequestsOK, CreditOK
<1>6. QueueOK'
  BY <1>1, <1>2 DEF QueueOK, Collected, Demonstrating
<1>7. StageOK'
  BY <1>1, StageKept
<1> QED BY <1>4, <1>5, <1>6, <1>7

\* Joining what Python has and what the page's queue holds gives every act, in order.
LEMMA DrainedFacts ==
  ASSUME RecordIInv, Demonstrating, Drained
  PROVE  /\ events' \in Queue /\ buf' = NoEvents
         /\ Collected' = Len(acted)
         /\ \A i \in 1..Collected' : events'.acts[i] = i
         /\ events'.markers \subseteq DOMAIN sent
<1> USE DEF RecordIInv
<1> DEFINE e == events.acts
           b == buf.acts
<1>1. /\ e \in Seq(1..Actuations) /\ b \in Seq(1..Actuations) /\ Len(e) \in Nat /\ Len(b) \in Nat
      /\ events.markers \subseteq 1..Writes /\ buf.markers \subseteq 1..Writes /\ Len(acted) \in Nat
  BY RecordFacts DEF Collected
<1>2. /\ \A i \in 1..Len(e) : e[i] = i
      /\ Len(e) + Len(b) = Len(acted)
      /\ \A i \in 1..Len(b) : b[i] = Len(e) + i
  BY DEF QueueOK, Collected
<1>3. events'.acts = e \o b /\ events'.markers = events.markers \cup buf.markers /\ buf' = NoEvents
      /\ events' = [acts |-> e \o b, markers |-> events.markers \cup buf.markers]
  BY DEF Drained
<1> HIDE DEF e, b
<1>4. /\ e \o b \in Seq(1..Actuations) /\ Len(e \o b) = Len(e) + Len(b)
      /\ \A i \in 1..Len(e) : (e \o b)[i] = e[i]
      /\ \A i \in Len(e) + 1..Len(e) + Len(b) : (e \o b)[i] = b[i - Len(e)]
  BY <1>1
<1>5. events' \in Queue
  BY <1>1, <1>3, <1>4, QueueIs
<1>6. ASSUME NEW i \in 1..Len(acted) PROVE (e \o b)[i] = i
  <2>1. CASE i <= Len(e)
    <3>1. i \in 1..Len(e)
      BY <1>1, <2>1
    <3>2. e[i] = i /\ (e \o b)[i] = e[i]
      BY <1>2, <1>4, <3>1
    <3> QED BY <3>2
  <2>2. CASE i > Len(e)
    <3>1. i \in Len(e) + 1..Len(e) + Len(b) /\ i - Len(e) \in 1..Len(b) /\ Len(e) + (i - Len(e)) = i
      BY <1>1, <1>2, <2>2
    <3>2. (e \o b)[i] = b[i - Len(e)]
      BY <1>4, <3>1
    <3>3. b[i - Len(e)] = Len(e) + (i - Len(e))
      BY <1>2, <3>1
    <3> QED BY <3>1, <3>2, <3>3
  <2>3. i <= Len(e) \/ i > Len(e)
    BY <1>1
  <2> QED BY <2>1, <2>2, <2>3
<1>7. events'.markers \subseteq DOMAIN sent
  BY <1>3 DEF QueueOK
<1> QED BY <1>2, <1>3, <1>4, <1>5, <1>6, <1>7 DEF Collected

LEMMA DrainKeeps ==
  ASSUME RecordIInv, DrainTask \/ LastDrain
  PROVE  RecordIInv'
<1> USE DEF RecordIInv
<1>1. /\ Demonstrating /\ pc' \in {"demo", "closing", "drained"} /\ (DrainTask => pc' = pc)
      /\ (LastDrain => pc' = "drained")
      /\ drains' \in 0..navs
      /\ UNCHANGED <<ask, acted, sent, busy, stack, root, later, turn, resets, navs, away, crossed, flow, disk, answer>>
  <2>1. CASE DrainTask
    <3>1. /\ pc \in {"demo", "closing"} /\ pc' = pc /\ drains' = drains - 1 /\ drains > 0
          /\ UNCHANGED <<ask, acted, sent, busy, stack, root, later, turn, resets, navs, away, crossed, flow, disk, answer>>
      BY <2>1 DEF DrainTask, result
    <3>2. drains' \in 0..navs
      BY <3>1, RecordFacts DEF RecordTypeOK
    <3>3. LastDrain => pc' = "drained"
      BY DEF LastDrain
    <3> QED BY <3>1, <3>2, <3>3 DEF Demonstrating
  <2>2. CASE LastDrain
    <3>1. /\ pc = "closing" /\ pc' = "drained" /\ drains' = drains
          /\ UNCHANGED <<ask, acted, sent, busy, stack, root, later, turn, resets, navs, away, crossed, flow, disk, answer>>
      BY <2>2 DEF LastDrain, result
    <3>2. drains' \in 0..navs
      BY <3>1 DEF RecordTypeOK
    <3>3. DrainTask => pc' = pc
      BY DEF DrainTask
    <3> QED BY <3>1, <3>2, <3>3 DEF Demonstrating
  <2> QED BY <2>1, <2>2
<1>2. /\ raced' \in BOOLEAN
      /\ raced => raced'
      /\ \/ Drained
         \/ NotDrained /\ (LastDrain /\ ~raced' => ~raced /\ (away \/ buf = NoEvents))
  <2>1. raced \in BOOLEAN
    BY DEF RecordTypeOK
  <2>2. CASE DrainTask
    <3>1. raced' = raced /\ (Drained \/ NotDrained) /\ ~LastDrain
      BY <2>2 DEF DrainTask, LastDrain
    <3> QED BY <2>1, <3>1
  <2>3. CASE LastDrain
    <3>1. \/ Drained /\ raced' = raced
          \/ NotDrained /\ raced' = (raced \/ (~away /\ buf # NoEvents))
      BY <2>3 DEF LastDrain
    <3>2. CASE Drained /\ raced' = raced
      BY <2>1, <3>2
    <3>3. CASE NotDrained /\ raced' = (raced \/ (~away /\ buf # NoEvents))
      <4>1. raced' \in BOOLEAN
        BY <3>3
      <4> QED BY <3>3, <4>1, Zenon
    <3> QED BY <3>1, <3>2, <3>3
  <2> QED BY <2>2, <2>3
<1>3. /\ {buf', events'} \subseteq Queue
      /\ buf'.markers \cup events'.markers \subseteq DOMAIN sent
      /\ \A i \in 1..Collected' : events'.acts[i] = i
      /\ Collected' \in Nat /\ Collected' <= Len(acted)
      /\ Drained => Collected' = Len(acted) /\ buf' = NoEvents
      /\ NotDrained => buf' = buf /\ events' = events /\ Collected' = Collected
  <2>1. CASE Drained
    <3>1. /\ events' \in Queue /\ buf' = NoEvents /\ Collected' = Len(acted)
          /\ \A i \in 1..Collected' : events'.acts[i] = i
          /\ events'.markers \subseteq DOMAIN sent
      BY <1>1, <2>1, DrainedFacts
    <3>2. NotDrained => buf' = buf /\ events' = events /\ Collected' = Collected
      BY DEF NotDrained, Collected
    <3> QED BY <3>1, <3>2, NoEventsFacts, RecordFacts
  <2>2. CASE NotDrained /\ ~Drained
    <3>1. buf' = buf /\ events' = events /\ Collected' = Collected
      BY <2>2 DEF NotDrained, Collected
    <3> QED BY <2>2, <3>1, RecordFacts DEF QueueOK
  <2> QED BY <1>2, <2>1, <2>2
<1>4. RecordTypeOK'
  <2>1. {away', crossed', raced'} \subseteq BOOLEAN
    BY <1>1, <1>2 DEF RecordTypeOK
  <2> QED BY <1>1, <1>3, <2>1 DEF RecordTypeOK, Commits
<1>5. PageOK' /\ RequestsOK'
  BY <1>1 DEF PageOK, RequestsOK, CreditOK
<1>6. QueueOK'
  <2>1. Demonstrating' =>
          /\ Collected' + Len(buf'.acts) = Len(acted)
          /\ \A i \in 1..Len(buf'.acts) : buf'.acts[i] = Collected' + i
          /\ away => crossed \/ raced' \/ buf' = NoEvents
    <3>1. CASE Drained
      BY <1>3, <3>1, NoEventsFacts, RecordFacts
    <3>2. CASE NotDrained
      <4>1. buf' = buf /\ Collected' = Collected
        BY <1>3, <3>2
      <4> QED BY <1>1, <1>2, <4>1 DEF QueueOK
    <3> QED BY <1>2, <3>1, <3>2
  <2>2. ~Demonstrating' /\ ~raced' /\ ~crossed => \A i \in DOMAIN acted : acted[i].human => i <= Collected'
    <3> SUFFICES ASSUME ~Demonstrating', ~raced', ~crossed PROVE Collected' = Len(acted)
      BY RecordFacts
    <3>1. LastDrain
      BY <1>1 DEF Demonstrating
    <3>2. CASE Drained
      BY <1>3, <3>2
    <3>3. CASE NotDrained /\ ~raced /\ (away \/ buf = NoEvents)
      <4>1. buf = NoEvents
        BY <1>1, <3>3 DEF QueueOK
      <4>2. Collected + Len(buf.acts) = Len(acted)
        BY <1>1 DEF QueueOK
      <4> QED BY <1>3, <3>3, <4>1, <4>2, NoEventsFacts, RecordFacts
    <3> QED BY <1>2, <3>1, <3>2, <3>3
  <2> QED BY <1>1, <1>3, <2>1, <2>2 DEF QueueOK
<1>7. StageOK'
  BY <1>1, StageKept DEF Demonstrating
<1> QED BY <1>4, <1>5, <1>6, <1>7

LEMMA DemoEndsKeeps ==
  ASSUME RecordIInv, DemoEnds
  PROVE  RecordIInv'
BY DEF RecordIInv, DemoEnds, page, python, result, RecordTypeOK, Commits, PageOK, RequestsOK, CreditOK,
       QueueOK, Collected, Demonstrating, StageOK

\* The session closed, the page is gone.
LEMMA ClosedKeeps ==
  ASSUME RecordIInv, pc = "drained", pc' \notin {"demo", "closing"}, Closed,
         UNCHANGED <<acted, sent, navs, away, drains, events, crossed, raced>>
  PROVE  /\ busy' = FALSE /\ stack' \in Seq(0..Actuations) /\ (~busy' => stack' = <<>> /\ root' = 0)
         /\ root' \in 0..Actuations /\ later' \subseteq 0..Actuations /\ resets' \in 0..Actuations
         /\ turn' \in 0..resets' /\ turn' = 0 /\ {buf', events'} \subseteq Queue
         /\ PageOK' /\ RequestsOK' /\ QueueOK'
<1> USE DEF RecordIInv
<1>1. /\ buf' = NoEvents /\ busy' = FALSE /\ stack' = <<>> /\ root' = 0 /\ later' = {} /\ turn' = 0 /\ resets' = 0
  BY DEF Closed
<1>2. ToSet(stack') = {}
  BY <1>1 DEF ToSet
<1>3. PageOK'
  BY <1>1, <1>2, RecordFacts DEF PageOK
<1>4. RequestsOK'
  BY DEF RequestsOK, CreditOK
<1>5. QueueOK'
  BY <1>1, NoEventsFacts DEF QueueOK, Collected, Demonstrating
<1>6. events \in Queue /\ NoEvents \in Queue
  BY RecordFacts, NoEventsFacts
<1>7. 0 \in 0..Actuations
  BY BoundsAssumption
<1> QED BY <1>1, <1>3, <1>4, <1>5, <1>6, <1>7

\* A turn that is closed asks nothing of the commits.
LEMMA TurnClosed == turn' = 0 => (turn' > 0 => Commits' # {})
OBVIOUS

LEMMA DemoRaisesKeeps ==
  ASSUME RecordIInv, DemoRaises
  PROVE  RecordIInv'
<1>1. /\ pc = "drained" /\ pc' = "done" /\ answer' = "raised" /\ Closed
      /\ UNCHANGED <<ask, acted, sent, navs, away, drains, events, crossed, raced, flow, disk>>
  BY DEF DemoRaises, python
<1>2. /\ busy' = FALSE /\ stack' \in Seq(0..Actuations) /\ (~busy' => stack' = <<>> /\ root' = 0)
      /\ root' \in 0..Actuations /\ later' \subseteq 0..Actuations /\ resets' \in 0..Actuations
      /\ turn' \in 0..resets' /\ turn' = 0 /\ {buf', events'} \subseteq Queue
      /\ PageOK' /\ RequestsOK' /\ QueueOK'
  BY <1>1, ClosedKeeps
<1>3. RecordTypeOK'
  <2>1. /\ acted' \in Seq(Act) /\ Len(acted') <= Actuations /\ sent' \in Seq(Request) /\ Len(sent') <= Writes
        /\ ask' \in Asks \cup {NoAsk} /\ navs' \in 0..Navs /\ drains' \in 0..navs'
        /\ {away', crossed', raced'} \subseteq BOOLEAN /\ disk' \in {"old", "none", "new"}
    BY <1>1 DEF RecordIInv, RecordTypeOK
  <2>2. flow' \in Seq([act : 1..Actuations, mutating : BOOLEAN, gated : BOOLEAN,
                       slot : Labels \cup {NoSlot, "mined"}])
    BY <1>1 DEF RecordIInv, RecordTypeOK
  <2>3. busy' \in BOOLEAN
    BY <1>2
  <2>4. {buf', events'} \subseteq Queue /\ stack' \in Seq(0..Actuations) /\ (~busy' => stack' = <<>> /\ root' = 0)
    BY <1>2
  <2>5. turn' > 0 => Commits' # {}
    BY <1>2, TurnClosed
  <2>6. pc' \in {"demo", "closing", "drained", "judge", "done"} /\ disk' \in {"old", "none", "new"}
        /\ answer' \in {"none", "cached", "refused", "raised", "unjudged", "unsettled"}
    BY <1>1, <2>1
  <2>7. root' \in 0..Actuations /\ later' \subseteq 0..Actuations /\ resets' \in 0..Actuations /\ turn' \in 0..resets'
    BY <1>2
  <2> QED BY ONLY <2>1, <2>2, <2>3, <2>4, <2>5, <2>6, <2>7 DEF RecordTypeOK
<1>4. disk' = "old"
  BY <1>1 DEF RecordIInv, StageOK
<1>5. StageOK'
  BY <1>1, <1>4 DEF StageOK, EveryWriteGated, NothingLost, CredentialsFromSlots, Kept
<1> QED BY <1>2, <1>3, <1>5 DEF RecordIInv

\* record_demo's recipe: a step for every act drained, gated if a marker names it.
LEMMA PutKeeps ==
  ASSUME RecordIInv, Put
  PROVE  RecordIInv'
<1> USE DEF RecordIInv
<1>1. /\ pc = "drained" /\ pc' = "judge" /\ ask' \in Asks /\ disk' = "new" /\ Closed
      /\ UNCHANGED <<acted, sent, navs, away, drains, events, crossed, raced, answer>>
  BY DEF Put, python
<1>2. PICK captions : flow' = [j \in DOMAIN events.acts |-> StepOf(events.acts[j], ask'.write, captions)]
  BY DEF Put
<1>3. /\ busy' = FALSE /\ stack' \in Seq(0..Actuations) /\ (~busy' => stack' = <<>> /\ root' = 0)
      /\ root' \in 0..Actuations /\ later' \subseteq 0..Actuations /\ resets' \in 0..Actuations
      /\ turn' \in 0..resets' /\ turn' = 0 /\ {buf', events'} \subseteq Queue
      /\ PageOK' /\ RequestsOK' /\ QueueOK'
  BY <1>1, ClosedKeeps
<1>4. /\ DOMAIN events.acts = 1..Collected /\ Collected \in Nat /\ Collected <= Len(acted)
      /\ DOMAIN acted = 1..Len(acted) /\ Len(acted) \in Nat /\ Len(acted) <= Actuations
      /\ \A i \in 1..Collected : events.acts[i] = i
  BY RecordFacts DEF QueueOK, RecordTypeOK
<1>5. /\ DOMAIN flow' = 1..Collected
      /\ \A j \in 1..Collected : flow'[j] = StepOf(j, ask'.write, captions)
  BY <1>2, <1>4
<1>6. ASSUME NEW j \in 1..Collected
      PROVE  /\ flow'[j].act = j /\ flow'[j].slot = NoSlot
             /\ flow'[j].mutating = Mutates(j, ask'.write, captions)
             /\ flow'[j].gated = (flow'[j].mutating /\ acted[j].control.scope)
  BY <1>5 DEF StepOf
<1>7. flow' \in Seq([act : 1..Actuations, mutating : BOOLEAN, gated : BOOLEAN,
                     slot : Labels \cup {NoSlot, "mined"}])
  <2>1. ASSUME NEW j \in 1..Collected
        PROVE  StepOf(j, ask'.write, captions)
                 \in [act : 1..Actuations, mutating : BOOLEAN, gated : BOOLEAN, slot : Labels \cup {NoSlot, "mined"}]
    <3>1. Mutates(j, ask'.write, captions) \in BOOLEAN
      BY DEF Mutates
    <3>2. j \in 1..Actuations
      BY <1>4, BoundsAssumption
    <3> HIDE DEF RecordIInv
    <3> QED BY <3>1, <3>2 DEF StepOf
  <2> DEFINE R == [act : 1..Actuations, mutating : BOOLEAN, gated : BOOLEAN, slot : Labels \cup {NoSlot, "mined"}]
  <2>2. ASSUME NEW j \in 1..Collected PROVE StepOf(events.acts[j], ask'.write, captions) \in R
    BY <1>4, <2>1
  <2> HIDE DEF R, RecordIInv
  <2>3. flow' = [j \in 1..Collected |-> StepOf(events.acts[j], ask'.write, captions)]
    BY <1>2, <1>4
  <2> DEFINE f(j) == StepOf(events.acts[j], ask'.write, captions)
  <2>4. \A j \in 1..Collected : f(j) \in R
    BY <2>2
  <2> HIDE DEF f
  <2>5. [j \in 1..Collected |-> f(j)] \in Seq(R)
    BY <1>4, <2>4
  <2> QED BY <2>3, <2>5 DEF f, R
<1>8. RecordTypeOK'
  <2>1. /\ acted' \in Seq(Act) /\ Len(acted') <= Actuations /\ sent' \in Seq(Request) /\ Len(sent') <= Writes
        /\ ask' \in Asks \cup {NoAsk} /\ navs' \in 0..Navs /\ drains' \in 0..navs'
        /\ {away', crossed', raced'} \subseteq BOOLEAN
        /\ answer' \in {"none", "cached", "refused", "raised", "unjudged", "unsettled"}
    BY <1>1 DEF RecordTypeOK
  <2> HIDE DEF RecordIInv
  <2>3. busy' \in BOOLEAN
    BY <1>3
  <2>4. {buf', events'} \subseteq Queue /\ stack' \in Seq(0..Actuations) /\ (~busy' => stack' = <<>> /\ root' = 0)
    BY <1>3
  <2>5. turn' > 0 => Commits' # {}
    BY <1>3, TurnClosed
  <2>6. pc' \in {"demo", "closing", "drained", "judge", "done"} /\ disk' \in {"old", "none", "new"}
        /\ answer' \in {"none", "cached", "refused", "raised", "unjudged", "unsettled"}
    BY <1>1, <2>1
  <2>7. root' \in 0..Actuations /\ later' \subseteq 0..Actuations /\ resets' \in 0..Actuations /\ turn' \in 0..resets'
    BY <1>3
  <2> QED BY ONLY <1>7, <2>1, <2>3, <2>4, <2>5, <2>6, <2>7 DEF RecordTypeOK
<1>9. JudgedOK'
  <2>1. Collected' = Collected /\ Markers' = Markers /\ \A i : Scoped(i)' <=> Scoped(i)
    BY <1>1 DEF Collected, Markers, Scoped, Steps
  <2>2. ASSUME ask'.write, NEW k \in Markers, Scoped(sent[k].by) PROVE flow'[sent[k].by].gated
    <3> DEFINE i == sent[k].by
    <3>1. i \in 1..Collected
      BY <1>4, <2>2 DEF Scoped, Steps, ToSet
    <3>2. Mutates(i, ask'.write, captions)
      BY <2>2 DEF Mutates
    <3>3. acted[i].control.scope
      BY <2>2 DEF Scoped
    <3> QED BY <1>6, <3>1, <3>2, <3>3
  <2> QED BY <1>1, <1>5, <1>6, <2>1, <2>2 DEF JudgedOK
<1>10. StageOK'
  BY <1>1, <1>9 DEF StageOK
<1> QED BY <1>3, <1>8, <1>10

\* A request that no marker names is hidden behind the marker of one that never left.
LEMMA Outnumbered ==
  ASSUME RecordIInv, NEW hows, NEW marks, marks \subseteq hows, NEW u,
         ~(Cardinality(Wired(hows, u)) > Cardinality(Marked(marks, u))),
         NEW k \in Wired(hows, u), k \notin Markers
  PROVE  \E m \in Markers : sent[m].how \in marks /\ sent[m].url = u /\ sent[m].out # "wire"
<1> DEFINE S == Wired(hows, u)
           M == Marked(marks, u)
<1>1. S \subseteq DOMAIN sent /\ M \subseteq DOMAIN sent
  BY DEF RecordIInv, QueueOK, Wired, Marked, Markers
<1>2. IsFiniteSet(DOMAIN sent)
  BY RecordFacts, FS_Interval DEF RecordIInv
<1>3. IsFiniteSet(S) /\ IsFiniteSet(M) /\ Cardinality(S) \in Nat /\ Cardinality(M) \in Nat
  BY <1>1, <1>2, FS_Subset, FS_CardinalityType
<1>4. k \in S /\ k \notin M
  BY DEF Marked
<1>5. ~(Cardinality(S) > Cardinality(M))
  OBVIOUS
<1>6. \A m \in M : m \in Markers /\ sent[m].how \in marks /\ sent[m].url = u
  BY DEF Marked
<1>7. \A m \in M : m \notin S => sent[m].out # "wire"
  BY <1>1, <1>6 DEF Wired
<1> HIDE DEF S, M
<1>8. ~(M \subseteq S)
  <2> SUFFICES ASSUME M \subseteq S PROVE FALSE
    OBVIOUS
  <2>1. Cardinality(M) <= Cardinality(S) /\ (Cardinality(M) = Cardinality(S) => M = S)
    BY <1>3, FS_Subset
  <2> QED BY <1>3, <1>4, <1>5, <2>1
<1> QED BY <1>6, <1>7, <1>8

\* Every request that left is accounted for when record() keeps a write flow.
LEMMA Accounted ==
  ASSUME RecordIInv, pc = "judge", ~Rejected, ask.write, NEW k \in DOMAIN sent, sent[k].out # "none"
  PROVE  GatedAtItsCause(k) \/ KnownResidual(k)
<1>1. /\ JudgedOK /\ ~Shortfall /\ (\A m \in Markers : Scoped(sent[m].by)) /\ (Performed => Gated # {})
  BY DEF RecordIInv, StageOK, Rejected, Unattributed
<1>2. sent[k] \in Request /\ CreditOK(sent[k]) /\ (\A m \in Markers : m \in DOMAIN sent /\ CreditOK(sent[m]))
  BY RecordFacts DEF RecordIInv, RequestsOK, QueueOK, Markers
<1>3. CASE k \in Markers
  <2> DEFINE i == sent[k].by
  <2>1. i \in DOMAIN events.acts
    <3>1. i \in Steps
      BY <1>1, <1>3 DEF Scoped
    <3>2. PICK j \in DOMAIN events.acts : i = events.acts[j]
      BY <3>1 DEF Steps, ToSet
    <3>3. events.acts[j] = j
      BY <3>2, RecordFacts DEF RecordIInv, QueueOK
    <3> QED BY <3>2, <3>3
  <2>2. i # 0 /\ i \in DOMAIN flow
    BY <1>1, <2>1, RecordFacts DEF RecordIInv, JudgedOK
  <2>3. flow[i].gated /\ flow[i].act = i
    BY <1>1, <1>3, <2>2 DEF JudgedOK
  <2>4. \E j \in Gated : flow[j].act = i
    BY <2>2, <2>3 DEF Gated
  <2>5. i = sent[k].cause \/ (i \in DOMAIN acted /\ ~acted[i].human) \/ sent[k].late
    BY <1>2, <2>2 DEF CreditOK
  <2>6. CASE i = sent[k].cause
    BY <2>4, <2>6 DEF GatedAtItsCause
  <2>7. CASE ~acted[i].human \/ sent[k].late
    BY <2>2, <2>7 DEF KnownResidual
  <2> QED BY <2>5, <2>6, <2>7
<1>4. CASE k \notin Markers
  <2> DEFINE x == sent[k]
  <2>1. x.how \in Hows /\ x.url \in Urls /\ x.out \in {"wire", "hidden", "none"}
    BY <1>2 DEF Request
  <2>2. CASE x.how = "beacon"
    BY <1>4, <2>2 DEF KnownResidual
  <2>3. CASE x.how # "beacon"
    <3>1. x.out = "wire"
      BY <1>2, <2>1, <2>3 DEF CreditOK
    <3>2. CASE x.how = "socket"
      BY <1>1, <3>1, <3>2 DEF Performed, KnownResidual
    <3>3. CASE x.how \in {"fetch", "worker"}
      <4>1. k \in Wired({"fetch", "worker"}, x.url)
        BY <3>1, <3>3 DEF Wired
      <4>2. ~(Cardinality(Wired({"fetch", "worker"}, x.url)) > Cardinality(Marked({"fetch"}, x.url)))
        BY <1>1, <2>1 DEF Shortfall
      <4>3. PICK m \in Markers : sent[m].how \in {"fetch"} /\ sent[m].url = x.url /\ sent[m].out # "wire"
        BY <1>4, <4>1, <4>2, Outnumbered
      <4>4. sent[m] \in Request /\ CreditOK(sent[m])
        BY <1>2, RecordFacts DEF RecordIInv
      <4>5. sent[m].out = "none"
        BY <4>3, <4>4 DEF Request, CreditOK
      <4>6. (sent[m].how = "fetch") = (sent[k].how \in {"fetch", "worker"})
        BY <3>3, <4>3
      <4> QED BY <1>4, <4>3, <4>5, <4>6 DEF KnownResidual
    <3>4. CASE x.how \in {"form", "submit"}
      <4>1. k \in Wired({"form", "submit"}, x.url)
        BY <3>1, <3>4 DEF Wired
      <4>2. ~(Cardinality(Wired({"form", "submit"}, x.url)) > Cardinality(Marked({"form", "submit"}, x.url)))
        BY <1>1, <2>1 DEF Shortfall
      <4>3. PICK m \in Markers : sent[m].how \in {"form", "submit"} /\ sent[m].url = x.url /\ sent[m].out # "wire"
        BY <1>4, <4>1, <4>2, Outnumbered
      <4>4. sent[m] \in Request /\ CreditOK(sent[m])
        BY <1>2, RecordFacts DEF RecordIInv
      <4>5. sent[m].out = "none"
        BY <4>3, <4>4 DEF Request, CreditOK
      <4>6. (sent[m].how = "fetch") = (sent[k].how \in {"fetch", "worker"})
        BY <3>4, <4>3
      <4> QED BY <1>4, <4>3, <4>5, <4>6 DEF KnownResidual
    <3> QED BY <2>1, <2>3, <3>2, <3>3, <3>4 DEF Hows
  <2> QED BY <2>2, <2>3
<1> QED BY <1>3, <1>4

StepRow == [act : 1..Actuations, mutating : BOOLEAN, gated : BOOLEAN, slot : Labels \cup {NoSlot, "mined"}]

\* f is the recipe, but for its slots.
Slotted(f) ==
  /\ f \in Seq(StepRow)
  /\ DOMAIN f = DOMAIN flow
  /\ \A j \in DOMAIN flow : f[j].act = flow[j].act /\ f[j].gated = flow[j].gated

\* Every credential has a slot of its own, in f.
SecretsOwn(f) ==
  \A j \in Fields :
    ControlOf(j).secret =>
      /\ f[j].slot \in ask.secrets
      /\ \A i \in Fields \ {j} : f[i].slot # f[j].slot

\* A recipe whose steps have passed is left to stand, if its slots are right or record()
\* did not come to settle it.
LEMMA PassedKeeps ==
  ASSUME RecordIInv, pc = "judge", ~Rejected, NEW f, Slotted(f), flow' = f,
         pc' = "done", answer' \in {"cached", "raised", "unsettled"},
         answer' # "unsettled" => SecretsOwn(f), UNCHANGED <<ask, page, python, disk>>
  PROVE  RecordIInv'
<1>1. /\ pc' = "done" /\ flow' = f /\ answer' \in {"cached", "raised", "unsettled"}
      /\ UNCHANGED <<ask, acted, sent, buf, busy, stack, root, later, turn, resets, navs, away,
                     drains, events, crossed, raced, disk>>
  BY DEF page, python
<1>2. /\ JudgedOK /\ ~crossed
  BY DEF RecordIInv, StageOK, Rejected
<1>3. RecordTypeOK'
  <2>1. flow' \in Seq([act : 1..Actuations, mutating : BOOLEAN, gated : BOOLEAN, slot : Labels \cup {NoSlot, "mined"}])
    BY <1>1 DEF Slotted, StepRow
  <2>2. Commits' = Commits
    BY <1>1 DEF Commits
  <2>3. RecordTypeOK
    BY DEF RecordIInv
  <2> QED BY <1>1, <2>1, <2>2, <2>3 DEF RecordTypeOK
<1>4. PageOK' /\ RequestsOK'
  BY <1>1 DEF RecordIInv, PageOK, RequestsOK, CreditOK
<1>5. QueueOK'
  BY <1>1 DEF RecordIInv, QueueOK, Collected, Demonstrating
<1>6. /\ DOMAIN flow' = DOMAIN flow
      /\ \A j \in DOMAIN flow : flow'[j].act = flow[j].act /\ flow'[j].gated = flow[j].gated
      /\ Gated' = Gated
  <2>1. /\ DOMAIN flow' = DOMAIN flow
        /\ \A j \in DOMAIN flow : flow'[j].act = flow[j].act /\ flow'[j].gated = flow[j].gated
    BY <1>1 DEF Slotted
  <2>2. Gated' = {j \in DOMAIN flow' : flow'[j].gated} /\ Gated = {j \in DOMAIN flow : flow[j].gated}
    BY DEF Gated
  <2> QED BY <2>1, <2>2
<1>7. EveryWriteGated'
  <2> SUFFICES ASSUME ask.write, NEW k \in DOMAIN sent, sent[k].out # "none"
               PROVE  (GatedAtItsCause(k) \/ KnownResidual(k))'
    BY <1>1 DEF EveryWriteGated
  <2>1. GatedAtItsCause(k) \/ KnownResidual(k)
    BY Accounted
  <2>2. GatedAtItsCause(k) => GatedAtItsCause(k)'
    <3> SUFFICES ASSUME GatedAtItsCause(k) PROVE GatedAtItsCause(k)'
      OBVIOUS
    <3>1. sent[k].by = sent[k].cause
      BY DEF GatedAtItsCause
    <3>2. PICK j \in Gated : flow[j].act = sent[k].by
      BY DEF GatedAtItsCause
    <3>3. j \in Gated' /\ flow'[j].act = sent'[k].by /\ sent'[k].by = sent'[k].cause
      BY <1>1, <1>6, <3>1, <3>2 DEF Gated
    <3> QED BY <3>3 DEF GatedAtItsCause
  <2>3. KnownResidual(k) => KnownResidual(k)'
    BY <1>1, <1>6 DEF KnownResidual, Markers
  <2> QED BY <2>1, <2>2, <2>3
<1>8. NothingLost'
  <2> SUFFICES ASSUME ~raced PROVE Whole'
    BY <1>1 DEF NothingLost
  <2>1. \A j \in DOMAIN flow' : flow'[j].act = j
    BY <1>2, <1>6 DEF JudgedOK
  <2>2. \A i \in DOMAIN acted : acted[i].human => i \in DOMAIN flow
    BY <1>2, RecordFacts DEF RecordIInv, QueueOK, Demonstrating, JudgedOK
  <2> QED BY <1>1, <1>6, <2>1, <2>2 DEF Whole
<1>9. CredentialsFromSlots'
  <2>1. \A j \in DOMAIN flow : ControlOf(j)' = ControlOf(j)
    BY <1>1, <1>6 DEF ControlOf
  <2>2. Fields' = Fields
    BY <1>6, <2>1 DEF Fields
  <2>3. \A j \in Fields : ControlOf(j)' = ControlOf(j)
    BY <2>1 DEF Fields
  <2>4. SecretsOwn(f) => OwnSlots'
    BY <1>1, <2>2, <2>3 DEF OwnSlots, SecretsOwn
  <2> QED BY <2>4 DEF CredentialsFromSlots
<1>10. StageOK'
  BY <1>1, <1>7, <1>8, <1>9 DEF StageOK
<1> QED BY <1>3, <1>4, <1>5, <1>10 DEF RecordIInv

\* The recipe stands, and _reset_learn_baselines may have raised over it.
LEMMA StandingKeeps ==
  ASSUME RecordIInv, pc = "judge", ~Rejected, NEW f, Slotted(f), SecretsOwn(f), Standing(f)
  PROVE  RecordIInv'
<1>1. flow' = f /\ pc' = "done" /\ answer' \in {"cached", "raised", "unsettled"}
      /\ UNCHANGED <<ask, page, python, disk>>
  BY DEF Standing
<1> QED BY <1>1, PassedKeeps

\* A refused recipe is deleted, or is known not to have passed.
LEMMA RefusalKeeps ==
  ASSUME RecordIInv, pc = "judge", Refusal \/ Unjudged
  PROVE  RecordIInv'
<1>1. /\ pc' = "done" /\ disk' \in {"none", disk} /\ (answer' = "unjudged" \/ disk' = "none")
      /\ answer' \in {"refused", "unjudged"}
      /\ UNCHANGED <<ask, acted, sent, buf, busy, stack, root, later, turn, resets, navs, away,
                     drains, events, crossed, raced, flow>>
  BY DEF Refusal, Unjudged, page, python
<1>2. RecordTypeOK'
  BY <1>1 DEF RecordIInv, RecordTypeOK, Commits
<1>3. PageOK' /\ RequestsOK'
  BY <1>1 DEF RecordIInv, PageOK, RequestsOK, CreditOK
<1>4. QueueOK'
  BY <1>1 DEF RecordIInv, QueueOK, Collected, Demonstrating
<1>5. StageOK'
  BY <1>1 DEF StageOK, EveryWriteGated, NothingLost, CredentialsFromSlots, Kept
<1> QED BY <1>2, <1>3, <1>4, <1>5 DEF RecordIInv

LEMMA FlowRows ==
  ASSUME RecordTypeOK
  PROVE  /\ flow \in Seq(StepRow) /\ DOMAIN flow = 1..Len(flow) /\ Len(flow) \in Nat
         /\ \A j \in DOMAIN flow : flow[j] \in StepRow
<1>1. flow \in Seq(StepRow)
  BY DEF RecordTypeOK, StepRow
<1> QED BY <1>1

\* Giving some steps a slot changes nothing else of them.
LEMMA SlottedBy ==
  ASSUME RecordTypeOK, NEW f, DOMAIN f = DOMAIN flow, f = [j \in DOMAIN flow |-> f[j]],
         \A j \in DOMAIN flow : \/ f[j] = flow[j]
                                \/ \E l \in Labels \cup {NoSlot, "mined"} : f[j] = [flow[j] EXCEPT !.slot = l]
  PROVE  Slotted(f)
<1>1. flow \in Seq(StepRow) /\ DOMAIN flow = 1..Len(flow) /\ Len(flow) \in Nat /\ (\A j \in DOMAIN flow : flow[j] \in StepRow)
  BY FlowRows
<1>2. \A j \in DOMAIN flow : f[j] \in StepRow /\ f[j].act = flow[j].act /\ f[j].gated = flow[j].gated
  <2> TAKE j \in DOMAIN flow
  <2>1. flow[j] \in StepRow
    BY <1>1
  <2>2. CASE f[j] = flow[j]
    BY <2>1, <2>2
  <2>3. CASE \E l \in Labels \cup {NoSlot, "mined"} : f[j] = [flow[j] EXCEPT !.slot = l]
    BY <2>1, <2>3 DEF StepRow
  <2> QED BY <2>2, <2>3
<1>3. f \in Seq(StepRow)
  <2>1. \A j \in 1..Len(flow) : f[j] \in StepRow
    BY <1>1, <1>2
  <2>2. f = [j \in 1..Len(flow) |-> f[j]]
    BY <1>1
  <2>3. [j \in 1..Len(flow) |-> f[j]] \in Seq(StepRow)
    BY <1>1, <2>1
  <2> QED BY <2>2, <2>3
<1> QED BY <1>2, <1>3 DEF Slotted

LEMMA AskFacts ==
  ASSUME RecordIInv, pc = "judge"
  PROVE  /\ ask.bind \subseteq Labels /\ ask.secrets \subseteq Labels
         /\ NoSlot \notin Labels /\ "mined" \notin Labels
         /\ \A j \in DOMAIN flow : flow[j].slot = NoSlot
BY AsksAssumption, LabelsAssumption DEF RecordIInv, StageOK, JudgedOK, NoSlot

\* A write flow's slots are the names it binds.
LEMMA BoundFacts ==
  ASSUME RecordIInv, pc = "judge", Bindable, ~UnboundSecrets(Bound)
  PROVE  Slotted(Bound) /\ SecretsOwn(Bound)
<1>1. /\ ask.bind \subseteq Labels /\ ask.secrets \subseteq Labels /\ NoSlot \notin Labels
      /\ \A j \in DOMAIN flow : flow[j].slot = NoSlot
  BY AskFacts
<1>2. /\ DOMAIN Bound = DOMAIN flow /\ Bound = [j \in DOMAIN flow |-> Bound[j]]
      /\ \A j \in DOMAIN flow :
           Bound[j] = IF j \in Fields /\ ControlOf(j).label \in ask.bind
                        THEN [flow[j] EXCEPT !.slot = ControlOf(j).label] ELSE flow[j]
  BY DEF Bound
<1>3. Slotted(Bound)
  <2>1. ASSUME NEW j \in DOMAIN flow
        PROVE  \/ Bound[j] = flow[j]
               \/ \E l \in Labels \cup {NoSlot, "mined"} : Bound[j] = [flow[j] EXCEPT !.slot = l]
    BY <1>1, <1>2
  <2>2. RecordTypeOK
    BY DEF RecordIInv
  <2> QED BY <1>2, <2>1, <2>2, SlottedBy
<1>4. ASSUME NEW j \in Fields, Bound[j].slot # NoSlot
      PROVE  Bound[j].slot = ControlOf(j).label /\ ControlOf(j).label \in ask.bind
  <2>1. j \in DOMAIN flow /\ flow[j] \in StepRow
    BY FlowRows DEF Fields, RecordIInv
  <2>2. ControlOf(j).label \in ask.bind
    BY <1>1, <1>2, <1>4, <2>1
  <2>3. Bound[j] = [flow[j] EXCEPT !.slot = ControlOf(j).label]
    BY <1>2, <2>1, <2>2
  <2> QED BY <2>1, <2>2, <2>3 DEF StepRow
<1>5. SecretsOwn(Bound)
  <2> SUFFICES ASSUME NEW j \in Fields, ControlOf(j).secret
               PROVE  /\ Bound[j].slot \in ask.secrets
                      /\ \A i \in Fields \ {j} : Bound[i].slot # Bound[j].slot
    BY DEF SecretsOwn
  <2>1. Bound[j].slot \in ask.secrets
    BY DEF UnboundSecrets
  <2>2. Bound[j].slot = ControlOf(j).label /\ ControlOf(j).label \in ask.bind
    BY <1>1, <1>4, <2>1
  <2>3. ASSUME NEW i \in Fields \ {j}, Bound[i].slot = Bound[j].slot PROVE FALSE
    <3>1. ControlOf(i).label = ControlOf(j).label
      BY <1>1, <1>4, <2>1, <2>2, <2>3
    <3>2. i \in FieldsNamed(ControlOf(j).label) /\ j \in FieldsNamed(ControlOf(j).label)
      BY <3>1 DEF FieldsNamed
    <3>3. PICK m \in Fields : FieldsNamed(ControlOf(j).label) = {m}
      BY <2>2 DEF Bindable
    <3> QED BY <3>2, <3>3
  <2> QED BY <2>1, <2>3
<1> QED BY <1>3, <1>5

LEMMA KeepWriteKeeps ==
  ASSUME RecordIInv, KeepWrite
  PROVE  RecordIInv'
<1>1. pc = "judge" /\ ~Rejected /\ ask.write /\ Standing(Bound)
  BY DEF KeepWrite
<1>2. Bindable /\ ~UnboundSecrets(Bound)
  BY <1>1 DEF Rejected
<1>3. Slotted(Bound) /\ SecretsOwn(Bound)
  BY <1>1, <1>2, BoundFacts
<1> QED BY <1>1, <1>3, StandingKeeps

LEMMA MinedIsSlotted == RecordTypeOK => Slotted(Mined)
<1> SUFFICES ASSUME RecordTypeOK PROVE Slotted(Mined)
  OBVIOUS
<1>1. DOMAIN Mined = DOMAIN flow /\ Mined = [j \in DOMAIN flow |-> Mined[j]]
  BY DEF Mined
<1>2. ASSUME NEW j \in DOMAIN flow
      PROVE  \/ Mined[j] = flow[j]
             \/ \E l \in Labels \cup {NoSlot, "mined"} : Mined[j] = [flow[j] EXCEPT !.slot = l]
  BY DEF Mined
<1> QED BY <1>1, <1>2, SlottedBy

LEMMA VerifiedKeeps ==
  ASSUME RecordIInv, Verified
  PROVE  RecordIInv'
<1>1. pc = "judge" /\ ~Rejected /\ RecordTypeOK
  BY DEF Verified, RecordIInv
<1>2. /\ ask.secrets \subseteq Labels /\ NoSlot \notin Labels /\ "mined" \notin Labels
      /\ \A j \in DOMAIN flow : flow[j].slot = NoSlot
  BY <1>1, AskFacts
<1>3. CASE Refusal
  BY <1>1, <1>3, RefusalKeeps
<1>4. CASE ask.secrets = {} /\ ~UnboundSecrets(Mined) /\ Standing(Mined)
  <2>1. SecretsOwn(Mined)
    BY <1>4 DEF UnboundSecrets, SecretsOwn
  <2> QED BY <1>1, <1>4, <2>1, MinedIsSlotted, StandingKeeps
<1>5. CASE ~UnboundSecrets(flow) /\ Standing(flow)
  <2>1. Slotted(flow)
    BY <1>1, FlowRows DEF Slotted
  <2>2. SecretsOwn(flow)
    BY <1>2, <1>5 DEF UnboundSecrets, SecretsOwn, Fields
  <2> QED BY <1>1, <1>5, <2>1, <2>2, StandingKeeps
<1> QED BY <1>3, <1>4, <1>5 DEF Verified

LEMMA UnsettledKeeps ==
  ASSUME RecordIInv, Unsettled
  PROVE  RecordIInv'
<1>1. /\ pc = "judge" /\ ~Rejected /\ RecordTypeOK
      /\ pc' = "done" /\ answer' = "unsettled" /\ UNCHANGED <<ask, page, python, disk>>
  BY DEF Unsettled, RecordIInv
<1>2. CASE flow' = flow
  <2>1. Slotted(flow)
    BY <1>1, FlowRows DEF Slotted
  <2> QED BY <1>1, <1>2, <2>1, PassedKeeps
<1>3. CASE flow' = Mined
  BY <1>1, <1>3, MinedIsSlotted, PassedKeeps
<1> QED BY <1>2, <1>3 DEF Unsettled

LEMMA RecordStep == RecordIInv /\ [RecordNext]_recordVars => RecordIInv'
<1> SUFFICES ASSUME RecordIInv, [RecordNext]_recordVars PROVE RecordIInv'
  OBVIOUS
<1>1. CASE UNCHANGED recordVars
  <2> USE DEF RecordIInv
  <2>1. /\ UNCHANGED <<ask, pc, acted, sent, buf, busy, stack, root, later, turn, resets, navs, away>>
        /\ UNCHANGED <<drains, events, crossed, raced, flow, disk, answer>>
    BY <1>1 DEF recordVars, page, python, result
  <2>2. RecordTypeOK'
    BY <2>1 DEF RecordTypeOK, Commits
  <2>3. PageOK' /\ RequestsOK' /\ QueueOK'
    BY <2>1 DEF PageOK, RequestsOK, CreditOK, QueueOK, Collected, Demonstrating
  <2>4. JudgedOK => JudgedOK'
    BY <2>1 DEF JudgedOK, Markers, Scoped, Steps, Collected
  <2>5. /\ Fields' = Fields /\ Gated' = Gated /\ Markers' = Markers
        /\ Kept' = Kept /\ (\A j : ControlOf(j)' = ControlOf(j))
    BY <2>1 DEF Fields, ControlOf, Gated, Markers, Kept
  <2>6. EveryWriteGated => EveryWriteGated'
    BY <2>1, <2>5 DEF EveryWriteGated, GatedAtItsCause, KnownResidual
  <2>7. NothingLost => NothingLost'
    BY <2>1, <2>5 DEF NothingLost, Whole
  <2>8. CredentialsFromSlots => CredentialsFromSlots'
    BY <2>1, <2>5 DEF CredentialsFromSlots, OwnSlots
  <2>9. StageOK'
    BY <2>1, <2>4, <2>6, <2>7, <2>8 DEF StageOK
  <2> QED BY <2>2, <2>3, <2>9
<1>2. CASE HumanActs \/ PageClicks
  BY <1>2, ActingKeeps
<1>3. CASE Keystroke \/ Defer \/ LaterRuns \/ DispatchEnds \/ ResetRuns
  BY <1>3, QuietKeeps
<1>4. CASE PageSends \/ OthersSend
  BY <1>4, SendKeeps
<1>5. CASE Navigate \/ CrossOrigin
  BY <1>5, MoveKeeps
<1>6. CASE DrainTask \/ LastDrain
  BY <1>6, DrainKeeps
<1>7. CASE DemoEnds
  BY <1>7, DemoEndsKeeps
<1>8. CASE DemoRaises
  BY <1>8, DemoRaisesKeeps
<1>9. CASE Put
  BY <1>9, PutKeeps
<1>10. CASE Refuse \/ RefuseConfirm \/ NotReproduced \/ Unjudged
  <2>1. pc = "judge" /\ (Refusal \/ Unjudged)
    BY <1>10 DEF Refuse, RefuseConfirm, NotReproduced, Unjudged
  <2> QED BY <2>1, RefusalKeeps
<1>11. CASE KeepWrite
  BY <1>11, KeepWriteKeeps
<1>12. CASE Verified
  BY <1>12, VerifiedKeeps
<1>13. CASE Unsettled
  BY <1>13, UnsettledKeeps
<1> QED BY <1>1, <1>2, <1>3, <1>4, <1>5, <1>6, <1>7, <1>8, <1>9, <1>10, <1>11, <1>12, <1>13 DEF RecordNext, Page, Python

LEMMA RecordInvariant == RecordSpec => []RecordIInv
BY RecordStart, RecordStep, PTL DEF RecordSpec

\* A demonstration keeps its types; a task that is not running has no dispatch, and an
\* open turn has a commit and a timer (recorder.py, the page script's __ucturn).
THEOREM RecordTypeCorrect == RecordSpec => []RecordTypeOK
<1>1. RecordIInv => RecordTypeOK
  BY DEF RecordIInv
<1> QED BY <1>1, RecordInvariant, PTL

\* What record() judged holds for as long as its recipe stands.
LEMMA VerdictStands ==
  ASSUME RecordIInv
  PROVE  EveryWriteGated /\ NothingLost /\ CredentialsFromSlots
<1>1. CASE pc = "done"
  BY <1>1 DEF RecordIInv, StageOK
<1>2. CASE pc # "done"
  BY <1>2 DEF EveryWriteGated, NothingLost, CredentialsFromSlots, Kept
<1> QED BY <1>1, <1>2

\* A declared write flow that record() keeps gates every request that left at the act
\* that caused it, save the residuals the recorder is known to miss (record_demo,
\* flows.record's unattributed-write gate).
THEOREM WritesAreGated == RecordSpec => []EveryWriteGated
<1>1. RecordIInv => EveryWriteGated
  BY VerdictStands
<1> QED BY <1>1, RecordInvariant, PTL

\* A recipe that record() keeps has every act of the human's in order, unless the last
\* drain lost them (record_demo's _on_nav and its drains).
THEOREM ActsAreNotLost == RecordSpec => []NothingLost
<1>1. RecordIInv => NothingLost
  BY VerdictStands
<1> QED BY <1>1, RecordInvariant, PTL

\* A recipe that record() keeps, and does not leave behind without its last word, takes
\* every credential from a secret slot of its own (flows.record's binding and mining of slots).
THEOREM SecretsComeFromSlots == RecordSpec => []CredentialsFromSlots
<1>1. RecordIInv => CredentialsFromSlots
  BY VerdictStands
<1> QED BY <1>1, RecordInvariant, PTL
===============================================================================
