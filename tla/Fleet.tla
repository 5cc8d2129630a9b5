---------------------------------- MODULE Fleet ----------------------------------
(***************************************************************************)
(* A fleet of saved flows that nobody watches: cron ticks of run_all that  *)
(* may overlap, the magnitude baseline every clean read adds to, the audit *)
(* that judges the evidence the reads left, and the humans who approve,    *)
(* release and re-learn in between.  Cron hears of all this through two    *)
(* exit codes, and both are the subject of the properties.                 *)
(*                                                                         *)
(* A flow has one number on its page.  What a replay does to a page and    *)
(* who holds the sidecar's lock are the subject of WriteReplay, Repair and *)
(* TrustStore: here an update of a sidecar is one step.                    *)
(***************************************************************************)
EXTENDS Integers, Sequences, FiniteSets, SequencesExt

CONSTANTS
  Flows,      \* the saved flows
  Declares,   \* the flows whose spec declares a write (with its confirm)
  Audited,    \* the flows whose spec.audit is "enforce"
  Ticks,      \* the runs of `flow run-all`, which may overlap
  Serves,     \* the flows each of them resolves
  Options,    \* the command lines it may be scheduled with
  Approved,   \* the sets of flows that may be approved to begin with
  Levels,     \* the numbers a page can show
  Baselines,  \* the rings of observations a flow may start from
  Warmup,     \* DELTA_WARMUP: observations before the band enforces
  RingSize,   \* DELTA_RING: observations kept
  MinRing,    \* AUDIT_MIN_RING: observations before drift can be claimed
  Keep,       \* AUDIT_KEEP: artifacts kept for each flow
  Calls,      \* AUDIT_MAX_CALLS: judge calls of one audit
  Handled,    \* the flows a human or the disk acts on
  Acts        \* bound on the acts of humans and of the disk

ASSUME FleetAssumption ==
  /\ Declares \subseteq Flows /\ Handled \subseteq Flows /\ Audited \subseteq Flows \ Declares
  /\ Serves \in [Ticks -> (SUBSET Flows) \ {{}}]
  /\ Options \subseteq [approvedOnly : BOOLEAN, includeWrites : BOOLEAN]
  /\ Approved \subseteq SUBSET Flows
  /\ Levels \subseteq Nat \ {0} /\ Baselines \subseteq Seq(Levels)
  /\ \A begun \in Baselines : Len(begun) <= RingSize
  /\ {Warmup, RingSize, MinRing, Keep} \subseteq Nat \ {0}
  /\ {Calls, Acts} \subseteq Nat

NoValue == 0   \* not a value of any page

VARIABLES
  options,    \* the command line of the scheduled `flow run-all`
  meta,       \* FlowMeta of each flow: approval, quarantine, audit_due
  torn,       \* the flows whose sidecar does not parse
  marked,     \* the flows whose cached recipe has a mutating step
  ring,       \* the rolling observations of each flow, oldest first
  anchor,     \* the learn-time anchor of each flow
  arts,       \* the artifacts on disk of each flow, oldest first
  job,        \* what each tick has made of each flow
  audit,      \* the one `flow audit`
  left,       \* history: the flows whose last human act left them out
  first,      \* history: the first observation since a flow's baseline began
  acts        \* acts, faults and times that artifacts grew too old so far

vars == <<options, meta, torn, marked, ring, anchor, arts, job, audit, left, first, acts>>

Quarantines == {"none", "value", "audit", "meta_unreadable"}
\* "stale": approved, but not with the steps that are cached now.
Approvals == {"no", "stale", "yes"}
Statuses == {"none", "ok", "failed", "skipped"}

Poisoned == [approval |-> "no", quarantine |-> "meta_unreadable", due |-> FALSE]

Waiting == [pc |-> "gate", status |-> "none", chosen |-> FALSE, writes |-> FALSE, due |-> FALSE,
            value |-> NoValue, outlier |-> FALSE, fresh |-> TRUE, moved |-> FALSE]

\* unseen: the audited flows still to gather; todo: the candidates still to judge.
\* History: owed, the evidence found on disk that no answer of the judge settled;
\* lost, what of it was dropped; excused, what the audit cannot tell that it did not judge.
Sleeping == [pc |-> "idle", unseen |-> {}, todo |-> {}, calls |-> 0, unjudged |-> FALSE,
             quarantined |-> FALSE, owed |-> {}, lost |-> {}, excused |-> {}]

Jobs == UNION {{t} \X Serves[t] : t \in Ticks}

\* The bound on what humans, the disk and the passing of time do.
Acting == acts < Acts /\ acts' = acts + 1

-----------------------------------------------------------------------------
(* The magnitude band and the drift signal, in thousandths of a level. *)

Sorted(s) == SortSeq(s, <)

\* _median: twice the median, so that it stays an integer.
Median2(s) ==
  LET n == Len(s)
      t == Sorted(s)
  IN IF n % 2 = 1 THEN 2 * t[n \div 2 + 1] ELSE t[n \div 2] + t[n \div 2 + 1]

Distance(a, b) == IF a < b THEN b - a ELSE a - b

\* Four times the median absolute deviation.
Spread4(s) == Median2([i \in DOMAIN s |-> Distance(2 * s[i], Median2(s))])

\* check_magnitude: beyond five rescaled deviations and a quarter of the median.
Deviates(v, s) ==
  /\ s # <<>>
  /\ LET off == 2000 * Distance(2 * v, Median2(s))
     IN off > 7413 * Spread4(s) /\ off > 500 * Median2(s)

Warm(s) == Len(s) >= Warmup

\* _magnitude_gate refuses: the band is violated and no longer advisory.
Refused(v, s) == Warm(s) /\ Deviates(v, s)

\* drift_signals: the ring's median is 35% away from the anchor.
Drifted(s, a) ==
  /\ a # NoValue /\ Len(s) >= MinRing
  /\ 1000 * Distance(Median2(s), 2 * a) >= 350 * 2 * a

Newest(s, n) == IF Len(s) <= n THEN s ELSE SubSeq(s, Len(s) - n + 1, Len(s))

-----------------------------------------------------------------------------
(* What reading and updating a sidecar does. *)

\* A sidecar that does not parse is preserved aside and a refusal put in its place.
Read(f) == IF f \in torn THEN Poisoned ELSE meta[f]

\* A read, and what it persists when the sidecar does not parse.
ReadOnly(f) == meta' = [meta EXCEPT ![f] = Read(f)] /\ torn' = torn \ {f}

\* An update that raises when the sidecar does not parse.
Save(f, m) ==
  /\ meta' = [meta EXCEPT ![f] = IF f \in torn THEN Poisoned ELSE m]
  /\ torn' = torn \ {f}

IsWrite(f) == f \in Declares \/ f \in marked

\* _reset_history, and the end of what the ring and the anchor were of.
ResetHistory(f) ==
  /\ ring' = [ring EXCEPT ![f] = <<>>]
  /\ anchor' = [anchor EXCEPT ![f] = NoValue]
  /\ first' = [first EXCEPT ![f] = NoValue]

KeepHistory == UNCHANGED <<ring, anchor, first>>

\* The other runs that looked at the ring of f before it changed.
RingMoved(f, jobs) ==
  [j \in Jobs |-> IF j[2] = f /\ jobs[j].pc = "looked" THEN [jobs[j] EXCEPT !.fresh = FALSE]
                                                        ELSE jobs[j]]

Becomes(j, r) == job' = [job EXCEPT ![j] = r]

\* What a run ends with; what it looked at on the way is forgotten.
Ended(r, status) == [r EXCEPT !.pc = "done", !.status = status, !.value = NoValue, !.outlier = FALSE,
                              !.fresh = TRUE, !.due = FALSE]
Ends(j, status) == Becomes(j, Ended(job[j], status))

Init ==
  /\ options \in Options
  /\ \E approved \in Approved :
       /\ meta = [f \in Flows |-> [approval |-> IF f \in approved THEN "yes" ELSE "no",
                                   quarantine |-> "none", due |-> FALSE]]
       /\ left = Flows \ approved
  /\ torn = {}
  /\ marked = Declares
  /\ \E begun \in [Flows \ Declares -> Baselines] :
       ring = [f \in Flows |-> IF f \in Declares THEN <<>> ELSE begun[f]]
  /\ first = [f \in Flows |-> IF ring[f] = <<>> THEN NoValue ELSE ring[f][1]]
  /\ anchor = first
  /\ arts = [f \in Flows |-> <<>>]
  /\ job = [j \in Jobs |-> Waiting]
  /\ audit = Sleeping
  /\ acts = 0

-----------------------------------------------------------------------------
(* A tick of run_all: what it makes of each flow before it opens a browser. *)

\* Whether the flow may be replayed, or the status it is given instead.
Leaves(f) == options.approvedOnly /\ Read(f).approval = "no" /\ Read(f).quarantine = "none"
Holds(f) ==
  \/ f \in torn
  \/ options.approvedOnly /\ Read(f).approval = "no" /\ Read(f).quarantine # "none"

\* Fault: a sidecar that is not understood reads as one never approved.
GateUnaware(t, f) ==
  LET j == <<t, f>>
      unapproved == options.approvedOnly /\ Read(f).approval = "no"
      spared == IsWrite(f) /\ ~options.includeWrites /\ f \in Declares
  IN /\ job[j].pc = "gate"
     /\ Becomes(j, IF unapproved \/ spared
                   THEN [job[j] EXCEPT !.pc = "done", !.status = "skipped", !.chosen = f \in left \/ ~unapproved]
                   ELSE IF f \in marked \ Declares
                        THEN [job[j] EXCEPT !.pc = "done", !.status = "failed"]
                        ELSE [job[j] EXCEPT !.pc = "admitted"])
     /\ ReadOnly(f)
     /\ UNCHANGED <<options, marked, ring, anchor, arts, audit, left, first, acts>>

\* Fault: only a declared write is a write.
GateDeclared(t, f) ==
  LET j == <<t, f>>
      spared == f \in Declares /\ ~options.includeWrites
  IN /\ job[j].pc = "gate"
     /\ Becomes(j, IF Holds(f) THEN [job[j] EXCEPT !.pc = "done", !.status = "failed"]
                   ELSE IF Leaves(f) \/ spared
                        THEN [job[j] EXCEPT !.pc = "done", !.status = "skipped", !.chosen = TRUE]
                        ELSE [job[j] EXCEPT !.pc = "admitted"])
     /\ ReadOnly(f)
     /\ UNCHANGED <<options, marked, ring, anchor, arts, audit, left, first, acts>>

\* run_all's _one_guarded, up to the browser slot.
Gate(t, f) ==
  LET j == <<t, f>>
      undeclared == f \in marked \ Declares
      spared == f \in Declares /\ ~options.includeWrites
  IN /\ job[j].pc = "gate"
     /\ Becomes(j, IF Holds(f) \/ (~Leaves(f) /\ undeclared)
                   THEN [job[j] EXCEPT !.pc = "done", !.status = "failed"]
                   ELSE IF Leaves(f) \/ spared
                        THEN [job[j] EXCEPT !.pc = "done", !.status = "skipped",
                                            !.chosen = f \in left \/ ~Leaves(f)]
                        ELSE [job[j] EXCEPT !.pc = "admitted"])
     /\ ReadOnly(f)
     /\ UNCHANGED <<options, marked, ring, anchor, arts, audit, left, first, acts>>

\* A spec, a sidecar or a recipe that cannot be read just now.
Unreadable(t, f) ==
  /\ job[t, f].pc \in {"gate", "admitted"}
  /\ Acting
  /\ Ends(<<t, f>>, "failed")
  /\ UNCHANGED <<options, meta, torn, marked, ring, anchor, arts, audit, left, first>>

\* replay: the pre-flight of _preflight_row, and the reads the run goes on with.
Start(t, f) ==
  LET j == <<t, f>>
      m == Read(f)
      refused == m.quarantine # "none" \/ (options.approvedOnly /\ m.approval # "yes")
  IN /\ job[j].pc = "admitted"
     /\ Becomes(j, IF refused THEN [job[j] EXCEPT !.pc = "done", !.status = "failed"]
                   ELSE [job[j] EXCEPT !.pc = "open", !.writes = IsWrite(f), !.due = m.due])
     /\ ReadOnly(f)
     /\ UNCHANGED <<options, marked, ring, anchor, arts, audit, left, first, acts>>

\* A declared write confirms or it does not, and a replay can fail at any step.
Replayed(t, f) ==
  LET j == <<t, f>> IN
  /\ job[j].pc = "open"
  /\ \E status \in IF f \in Declares THEN {"ok", "failed"} ELSE {"failed"} : Ends(j, status)
  /\ UNCHANGED <<options, meta, torn, marked, ring, anchor, arts, audit, left, first, acts>>

-----------------------------------------------------------------------------
(* The value of a read, the baseline it is held against, and its evidence. *)

\* Fault: the band enforces one observation late.
LookLate(t, f, v) ==
  LET j == <<t, f>> IN
  /\ job[j].pc = "open" /\ f \notin Declares
  /\ Becomes(j, [job[j] EXCEPT !.pc = "looked", !.value = v,
                               !.outlier = Len(ring[f]) > Warmup /\ Deviates(v, ring[f])])
  /\ UNCHANGED <<options, meta, torn, marked, ring, anchor, arts, audit, left, first, acts>>

\* The page's number, checked against the ring as it is on disk just now.
Look(t, f, v) ==
  LET j == <<t, f>> IN
  /\ job[j].pc = "open" /\ f \notin Declares
  /\ Becomes(j, [job[j] EXCEPT !.pc = "looked", !.value = v, !.outlier = Refused(v, ring[f])])
  /\ UNCHANGED <<options, meta, torn, marked, ring, anchor, arts, audit, left, first, acts>>

\* Fault: the anchor follows the newest observation.
Reanchored(a, v) == v

\* set_anchor: the first observation, never overwritten.
Anchored(a, v) == IF a = NoValue THEN v ELSE a

\* _accrue_all, under the lock and on the ring it finds there.
Accrue(t, f) ==
  LET j == <<t, f>>
      v == job[j].value
  IN /\ job[j].pc = "looked" /\ ~job[j].outlier
     /\ ring' = [ring EXCEPT ![f] = Newest(Append(@, v), RingSize)]
     /\ anchor' = [anchor EXCEPT ![f] = Anchored(@, v)]
     /\ first' = [first EXCEPT ![f] = IF @ = NoValue THEN v ELSE @]
     /\ job' = [RingMoved(f, job) EXCEPT ![j] = [job[j] EXCEPT !.pc = "accrued"]]
     /\ UNCHANGED <<options, meta, torn, marked, arts, audit, left, acts>>

\* _do_quarantine: the finding is persisted, or the failure to persist it is raised.
Quarantine(t, f) ==
  LET j == <<t, f>> IN
  /\ job[j].pc = "looked" /\ job[j].outlier
  /\ Ends(j, "failed")
  /\ \/ Save(f, [meta[f] EXCEPT !.quarantine = "value"]) /\ UNCHANGED acts
     \/ Acting /\ UNCHANGED <<meta, torn>>
  /\ UNCHANGED <<options, marked, ring, anchor, arts, audit, left, first>>

\* audit.capture writes an artifact and prunes the store: the newest Keep stay, of which all
\* but the n newest of the earlier ones may have passed AUDIT_TTL_S.
Stored(t, f) ==
  \E solid \in BOOLEAN, n \in 0..Len(arts[f]) :
    /\ arts' = [arts EXCEPT ![f] = Newest(Append(Newest(@, n), [tick |-> t, solid |-> solid]), Keep)]
    /\ IF n = Len(arts[f]) THEN UNCHANGED acts ELSE Acting

\* The due flag is consumed whether audit.capture stored anything or not.
Consumed(j, f) ==
  IF job[j].due THEN Save(f, [meta[f] EXCEPT !.due = FALSE]) ELSE UNCHANGED <<meta, torn>>

\* _capture_audit: an artifact when one is due, when the ring drifted, or by sampling.
\* It is best effort: a write that fails only answers None, and what raises is swallowed,
\* before anything was stored or when the flag is saved.
Capture(t, f) ==
  LET j == <<t, f>>
      captures == f \in Audited /\ ~job[j].writes
      must == job[j].due \/ Drifted(ring[f], anchor[f])
  IN /\ job[j].pc = "accrued"
     /\ Ends(j, "ok")
     /\ \/ captures /\ Stored(t, f) /\ Consumed(j, f)
        \/ captures /\ Acting /\ UNCHANGED arts /\ Consumed(j, f)
        \/ captures /\ Acting /\ UNCHANGED <<arts, meta, torn>>
        \/ /\ captures /\ job[j].due /\ Acting /\ UNCHANGED <<meta, torn>>
           /\ \E solid \in BOOLEAN :
                arts' = [arts EXCEPT ![f] = Newest(Append(@, [tick |-> t, solid |-> solid]), Keep)]
        \/ ~(captures /\ must) /\ UNCHANGED <<arts, meta, torn, acts>>
     /\ UNCHANGED <<options, marked, ring, anchor, audit, left, first>>

\* fleet_verdict, of sweep_verdict: what is not quiet is loud, and so is a tick that ran nothing.
ExitCode(t) ==
  IF \E f \in Serves[t] : job[t, f].status \notin {"ok", "skipped"} THEN 1
  ELSE IF \A f \in Serves[t] : job[t, f].status \notin {"ok", "failed"} THEN 2 ELSE 0

Reports(t) == \A f \in Serves[t] : job[t, f].pc = "done"

-----------------------------------------------------------------------------
(* `flow audit`: every flow is gathered first, then each candidate is judged.  A flow *)
(* whose spec does not ask for it is passed over.                                     *)

Evidence(f) == {f} \X ToSet(arts[f])

Judgeable(f) == f \in Audited /\ ~IsWrite(f) /\ arts[f] # <<>>

Becoming(a) == audit' = a

StartAudit ==
  /\ audit.pc = "idle"
  /\ Becoming([audit EXCEPT !.pc = "running", !.unseen = Audited])
  /\ UNCHANGED <<options, meta, torn, marked, ring, anchor, arts, job, left, first, acts>>

\* What audit.prune spares: it deletes what has passed AUDIT_TTL_S, all but the n newest.
Spared(f, n) == {f} \X ToSet(Newest(arts[f], n))

\* Of what is spared, audit.load_artifacts answers with what it can read.
Loads(f, n, seen) ==
  /\ seen \subseteq Spared(f, n)
  /\ arts' = [arts EXCEPT ![f] = Newest(@, n)]

\* An audit that takes up `seen`, of what there was of f: of the rest it says nothing.
Owing(f, n, seen) ==
  [audit EXCEPT !.unseen = @ \ {f}, !.todo = @ \cup seen, !.owed = @ \cup Evidence(f),
                !.excused = @ \cup (Evidence(f) \ seen), !.lost = @ \cup (Evidence(f) \ Spared(f, n))]

PassedOver(f) == [audit EXCEPT !.unseen = @ \ {f}]

\* A flow never captured, without evidence, or with a refusal of its own is passed over.
Gather(f) ==
  /\ audit.pc = "running" /\ f \in audit.unseen
  /\ \/ /\ Judgeable(f)
        /\ \E n \in 0..Len(arts[f]), seen \in SUBSET Evidence(f) :
             /\ Loads(f, n, seen)
             /\ IF seen = Evidence(f) THEN UNCHANGED acts ELSE Acting
             /\ IF seen = {} THEN UNCHANGED <<meta, torn>> ELSE ReadOnly(f)
             /\ Becoming(IF seen = {} \/ Read(f).quarantine = "none" THEN Owing(f, n, seen)
                                                                    ELSE PassedOver(f))
     \/ ~Judgeable(f) /\ Becoming(PassedOver(f)) /\ UNCHANGED <<meta, torn, arts, acts>>
  /\ UNCHANGED <<options, marked, ring, anchor, job, left, first>>

\* The spec or the recipe cannot be read, or the store cannot be listed.
GatherBroken(f) ==
  /\ audit.pc = "running" /\ f \in audit.unseen
  /\ Acting
  /\ Becoming([PassedOver(f) EXCEPT !.unjudged = TRUE,
                                    !.owed = @ \cup (IF Judgeable(f) THEN Evidence(f) ELSE {})])
  /\ UNCHANGED <<options, meta, torn, marked, ring, anchor, arts, job, left, first>>

\* The sidecar cannot be read just now: _load_meta does not raise but answers with a
\* refusal, and the audit takes the flow for one that is quarantined already.
GatherBlinks(f) ==
  /\ audit.pc = "running" /\ f \in audit.unseen /\ Judgeable(f)
  /\ Acting
  /\ \E n \in 1..Len(arts[f]) : Loads(f, n, Spared(f, n)) /\ Becoming(Owing(f, n, {}))
  /\ UNCHANGED <<options, meta, torn, marked, ring, anchor, job, left, first>>

Judging(c) ==
  /\ audit.pc = "running" /\ audit.unseen = {}
  /\ c \in audit.todo /\ audit.calls < Calls

Settled(c) == [audit EXCEPT !.todo = @ \ {c}, !.calls = @ + 1, !.owed = @ \ {c}]

\* The artifact may have made room for newer ones by now.
Without(s, a) ==
  IF \E i \in DOMAIN s : s[i] = a THEN RemoveAt(s, CHOOSE i \in DOMAIN s : s[i] = a) ELSE s

Drop(c) == arts' = [arts EXCEPT ![c[1]] = Without(@, c[2])]

\* The judge finds nothing, or what it finds only counts as an advisory.
JudgeClears(c) ==
  /\ Judging(c)
  /\ Becoming(Settled(c)) /\ Drop(c)
  /\ ReadOnly(c[1]) \/ UNCHANGED <<meta, torn>>
  /\ UNCHANGED <<options, marked, ring, anchor, job, left, first, acts>>

\* decide: a finding that the evidence itself proves quarantines the flow,
\* whatever the sidecar says by now.
JudgeEnforces(c) ==
  /\ Judging(c) /\ c[2].solid
  /\ c[1] \notin torn
  /\ Save(c[1], [meta[c[1]] EXCEPT !.quarantine = "audit"])
  /\ Becoming([Settled(c) EXCEPT !.quarantined = TRUE]) /\ Drop(c)
  /\ UNCHANGED <<options, marked, ring, anchor, job, left, first, acts>>

\* Fault: an update of the sidecar that fails is skipped, and the artifact is dropped.
FindingUnsavedDropped(c) ==
  /\ Judging(c) /\ c[2].solid
  /\ \/ c[1] \in torn /\ ReadOnly(c[1]) /\ UNCHANGED acts
     \/ c[1] \notin torn /\ Acting /\ UNCHANGED <<meta, torn>>
  /\ Becoming([audit EXCEPT !.todo = @ \ {c}, !.calls = @ + 1, !.quarantined = TRUE,
                            !.lost = @ \cup {c}])
  /\ Drop(c)
  /\ UNCHANGED <<options, marked, ring, anchor, job, left, first>>

\* The finding could not be persisted: the artifact stays and counts as not judged.
FindingUnsaved(c) ==
  /\ Judging(c) /\ c[2].solid
  /\ \/ c[1] \in torn /\ ReadOnly(c[1]) /\ UNCHANGED acts
     \/ c[1] \notin torn /\ Acting /\ UNCHANGED <<meta, torn>>
  /\ Becoming([audit EXCEPT !.todo = @ \ {c}, !.calls = @ + 1, !.unjudged = TRUE])
  /\ UNCHANGED <<options, marked, ring, anchor, arts, job, left, first>>

\* audit.judge swallows the failure of its call and answers None, which counts as judged.
JudgeFails(c) ==
  /\ Judging(c)
  /\ Acting
  /\ Becoming([audit EXCEPT !.todo = @ \ {c}, !.calls = @ + 1, !.lost = @ \cup {c},
                            !.excused = @ \cup {c}])
  /\ Drop(c)
  /\ UNCHANGED <<options, meta, torn, marked, ring, anchor, job, left, first>>

\* No LLM is configured: nothing is judged, whatever was gathered.
NoLlm ==
  /\ audit.pc = "running" /\ audit.unseen = {} /\ audit.calls = 0
  /\ Becoming([audit EXCEPT !.pc = "done", !.unjudged = TRUE])
  /\ UNCHANGED <<options, meta, torn, marked, ring, anchor, arts, job, left, first, acts>>

\* The budget is checked before every call: what is left stays on disk.
EndAudit ==
  /\ audit.pc = "running" /\ audit.unseen = {}
  /\ audit.todo = {} \/ audit.calls >= Calls
  /\ Becoming([audit EXCEPT !.pc = "done", !.unjudged = @ \/ audit.todo # {}])
  /\ UNCHANGED <<options, meta, torn, marked, ring, anchor, arts, job, left, first, acts>>

\* AuditRun.exit_code
AuditCode == IF audit.quarantined THEN 2 ELSE IF audit.unjudged THEN 3 ELSE 0

-----------------------------------------------------------------------------
(* The humans, and the disk. *)

Approve(f) ==
  /\ Acting /\ Save(f, [meta[f] EXCEPT !.approval = "yes"])
  /\ left' = IF f \in torn THEN left ELSE left \ {f}
  /\ KeepHistory /\ UNCHANGED <<options, marked, arts, job, audit>>

Unapprove(f) ==
  /\ Acting /\ Save(f, [meta[f] EXCEPT !.approval = "no"])
  /\ left' = IF f \in torn THEN left ELSE left \cup {f}
  /\ KeepHistory /\ UNCHANGED <<options, marked, arts, job, audit>>

\* release clears the refusal, whoever wrote it last, and makes an audit due.  What was
\* refused and is not approved, as a sidecar that was lost, is then left out.
Release(f) ==
  /\ Acting
  /\ \E rebaseline \in BOOLEAN :
       IF rebaseline
       THEN /\ ResetHistory(f)
            /\ job' = RingMoved(f, job)
       ELSE KeepHistory /\ UNCHANGED job
  /\ meta' = [meta EXCEPT ![f] =
                IF Read(f).quarantine = "none" THEN @
                ELSE [Read(f) EXCEPT !.quarantine = "none", !.due = TRUE]]
  /\ torn' = torn \ {f}
  /\ left' = IF Read(f).quarantine # "none" /\ Read(f).approval = "no"
             THEN left \cup {f} ELSE left
  /\ UNCHANGED <<options, marked, arts, audit>>

\* learn caches a new recipe, in which the wire may have marked a step.  It keeps an
\* approved flow's approval and baseline, and starts an unapproved one's again.
Relearn(f) ==
  /\ Acting
  /\ \E marks \in IF f \in Declares THEN {TRUE} ELSE BOOLEAN :
       marked' = IF marks THEN marked \cup {f} ELSE marked \ {f}
  /\ Save(f, [meta[f] EXCEPT !.approval = IF @ = "no" THEN "no" ELSE "stale", !.due = TRUE])
  /\ LET moved == [j \in Jobs |-> IF j[2] = f THEN [job[j] EXCEPT !.moved = @ \/ job[j].pc = "admitted"] ELSE job[j]]
     IN IF f \notin torn /\ meta[f].approval = "no"
        THEN ResetHistory(f) /\ job' = RingMoved(f, moved)
        ELSE KeepHistory /\ job' = moved
  /\ UNCHANGED <<options, arts, audit, left>>

\* The sidecar's bytes are lost.
Tear(f) ==
  /\ Acting /\ torn' = torn \cup {f}
  /\ KeepHistory /\ UNCHANGED <<options, meta, marked, arts, job, audit, left>>

\* The history's bytes are lost: the next load of it preserves them and starts again.
TearHistory(f) ==
  /\ Acting /\ ring[f] # <<>> /\ ResetHistory(f) /\ job' = RingMoved(f, job)
  /\ UNCHANGED <<options, meta, torn, marked, arts, audit, left>>

Next ==
  \/ \E t \in Ticks : \E f \in Serves[t] :
       \/ Gate(t, f) \/ Unreadable(t, f) \/ Start(t, f) \/ Replayed(t, f)
       \/ \E v \in Levels : Look(t, f, v)
       \/ Accrue(t, f) \/ Quarantine(t, f) \/ Capture(t, f)
  \/ StartAudit \/ NoLlm \/ EndAudit
  \/ \E f \in Flows : Gather(f) \/ GatherBroken(f) \/ GatherBlinks(f)
  \/ \E c \in audit.todo : JudgeClears(c) \/ JudgeEnforces(c) \/ FindingUnsaved(c) \/ JudgeFails(c)
  \/ \E f \in Handled :
       Approve(f) \/ Unapprove(f) \/ Release(f) \/ Relearn(f) \/ Tear(f) \/ TearHistory(f)

Spec == Init /\ [][Next]_vars

-----------------------------------------------------------------------------
(* Properties *)

\* The domains of the variables.
TypeOK ==
  /\ options \in Options
  /\ meta \in [Flows -> [approval : Approvals, quarantine : Quarantines, due : BOOLEAN]]
  /\ torn \subseteq Flows /\ marked \subseteq Flows /\ left \subseteq Flows
  /\ \A f \in Flows : Len(ring[f]) <= RingSize /\ Len(arts[f]) <= Keep
  /\ job \in [Jobs -> [pc : {"gate", "admitted", "open", "looked", "accrued", "done"},
                       status : Statuses, chosen : BOOLEAN, writes : BOOLEAN, due : BOOLEAN,
                       value : Levels \cup {NoValue}, outlier : BOOLEAN, fresh : BOOLEAN,
                       moved : BOOLEAN]]
  /\ audit.pc \in {"idle", "running", "done"}
  /\ acts \in 0..Acts

\* A tick that exits 0 ran something, and every flow that did not run was left out by
\* a human: by an act on its approval, by releasing what was refused and not approved,
\* or by a command line without --include-writes.  (run_all, fleet_verdict.)
GreenIsChosen ==
  \A t \in Ticks : Reports(t) /\ ExitCode(t) = 0 =>
    /\ \E f \in Serves[t] : job[t, f].status = "ok"
    /\ \A f \in Serves[t] : job[t, f].status = "ok" \/ job[t, f].chosen

\* Nobody watches a tick: the writes it replays are declared ones the command line
\* asked for, unless the flow was learned again after the tick looked at it.
\* (run_all's write gate.)
UnattendedWrites ==
  \A t \in Ticks : \A f \in Serves[t] :
    job[t, f].writes => \/ f \in Declares /\ options.includeWrites
                        \/ f \notin Declares /\ job[t, f].moved

\* A number the band refuses joins a ring that enforces only if the ring changed after
\* the run had checked it: another run of the flow, a release or a learn came between.
\* (_magnitude_gate checks without the lock that _update_history accrues under.)
OutlierNeedsRace ==
  [][\A t \in Ticks : \A f \in Serves[t] :
       Accrue(t, f) /\ job[t, f].fresh => ~Refused(job[t, f].value, ring[f])]_vars

\* A read that answers ok while the ring has crept a third away from the first number
\* it ever held leaves an artifact for the audit, unless the capture itself failed in that
\* step: it is best effort and says so only in the log.  The next such read has the signal
\* again.  (set_anchor, drift_signals, _capture_audit, audit.capture.)
CreepLeavesEvidence ==
  [][\A t \in Ticks : \A f \in Serves[t] \cap Audited :
       Capture(t, f) /\ ~job[t, f].writes /\ Drifted(ring[f], first[f]) =>
         \/ \E a \in ToSet(arts'[f]) : a.tick = t
         \/ acts' = acts + 1 /\ UNCHANGED arts]_vars

\* An audit drops evidence only once a judge's answer to it took effect, and exits 0
\* only if there was none it did not judge.  Excused is what it cannot tell: a judge call
\* that failed, a sidecar that could not be read, an artifact that could not be read, and
\* one that was too old when the audit came to it.  (audit_flows, prune, load_artifacts.)
AuditLooked ==
  /\ audit.lost \subseteq audit.excused
  /\ audit.pc = "done" /\ AuditCode = 0 => audit.owed \subseteq audit.excused

-------------------------------------------------------------------------------
(* What the code does not keep: known limits, stated for the record.        *)

\* Exit 0 of an audit is never "we did not look": fails if a judge call fails, a sidecar
\* blinks, an artifact cannot be read or nobody audits for longer than AUDIT_TTL_S
\* (tests/test_fleet_skips_are_visible.py).
UnjudgedIsNeverClean == audit.pc = "done" /\ AuditCode = 0 => audit.owed = {}

\* "the due flag is CONSUMED by the capture it asked for" (_capture_audit): fails if the
\* artifact could not be written, which audit.capture answers with None.
DueIsHeeded ==
  [][\A t \in Ticks : \A f \in Serves[t] :
       Capture(t, f) /\ f \notin torn /\ meta[f].due /\ ~meta'[f].due =>
         \E a \in ToSet(arts'[f]) : a.tick = t]_vars
=================================================================================
