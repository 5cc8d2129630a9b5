---------------------------------- MODULE Runs ----------------------------------
(***************************************************************************)
(* What the runs of one event loop share: the Playwright driver, which is  *)
(* started by the first session that needs it and stopped with the last    *)
(* reference to it (browser.py), and the routers, whose running totals     *)
(* every run takes its own bill from (obs.py).                             *)
(*                                                                         *)
(* A run is one call of replay() or of canary(): a sequence of passes,     *)
(* each in a browser session of its own.  A replay with a record has a     *)
(* sink that collects what its passes saw and folds it once, at the end.   *)
(* A scope is a batch or a fleet verb, which holds a reference of its own  *)
(* while it has runs to make.                                              *)
(***************************************************************************)
EXTENDS Naturals, FiniteSets, FiniteSetsExt

CONSTANTS
  Calls,     \* the runs
  Scopes,    \* the batches and fleet verbs
  Routers,   \* the routers behind providers and extraction
  Foreign,   \* a spender that exposes no totals
  None,
  Unknown,   \* a cost that cannot be told
  Setups,    \* the ways a run may be set up
  MaxSpend,  \* bound: the answers a run gets from language models
  Mishaps   \* what may go wrong, of the names below

Holders == Calls \cup Scopes
Owners == Routers \cup {Foreign, None}

\* on_drift, and the routers behind the provider and the extraction; a relearn needs both.
SetupType == [drift : {"raise", "relearn"}, agent : Owners, reader : Owners]

ASSUME SetupsAssumption ==
  /\ Setups \subseteq SetupType
  /\ \A s \in Setups : s.drift = "relearn" => s.agent # None /\ s.reader # None
ASSUME SpendAssumption == MaxSpend \in Nat
ASSUME HoldersAssumption == IsFiniteSet(Calls) /\ IsFiniteSet(Scopes) /\ Calls \cap Scopes = {}
ASSUME NoneAssumption ==
  /\ None \notin {"ok", "failed", "raised", "cancelled"}
  /\ \A R \in SUBSET Routers : None \notin [R -> Nat]
ASSUME OwnersAssumption == {Foreign, None} \cap Routers = {} /\ Foreign # None /\ None \notin Holders

\* start: the driver, a browser or a page does not come up; close: closing a context raises; ledger: closing
\* a batch's ledger raises; raise: a pass ends in an exception; cancel: a task is cancelled where it waits.
ASSUME MishapsAssumption == Mishaps \subseteq {"start", "close", "ledger", "raise", "cancel"}

VARIABLES
  \* the driver of the loop
  pw,       \* is there one to hand out?
  refs,
  lock,     \* who holds the entry's lock
  use,      \* how far each holder is with its reference and its session
  running,  \* history: the driver processes that were started and not stopped
  lost,     \* history: the holders that gave up a start, a reference or a stop half way
  \* the runs
  setup,
  pass,     \* the pass a run is at
  fate,     \* how that pass came out
  deed,     \* what that pass saw of its commit
  deeds,    \* history: what the passes of the run did about it
  facts,    \* what the passes said of it
  \* the bills
  total,    \* UsageTotals of each router
  watch,    \* what the totals were when the run was armed
  spent,    \* history: the answers the run has had since
  mixed,    \* history: has another run been answered by one of its routers since?
  record

driver == <<pw, refs, lock, running, lost>>
tale == <<deed, deeds, facts>>
story == <<pass, fate, tale>>
money == <<total, watch, spent, mixed>>
runsVars == <<driver, use, setup, story, money, record>>

\* The passes that replay the recipe.
Engine == {"attempt", "retry", "repair"}

Drivers == {"asking", "starting", "shaking", "in", "page", "closing", "leaving", "stopping"}

RunsInit ==
  /\ pw = FALSE /\ refs = 0 /\ lock = None /\ running = 0 /\ lost = {}
  /\ use = [h \in Holders |-> "out"]
  /\ setup \in [Calls -> Setups]
  /\ pass = [c \in Calls |-> "idle"] /\ fate = [c \in Calls |-> None]
  /\ deed = [c \in Calls |-> "none"] /\ deeds = [c \in Calls |-> {}] /\ facts = [c \in Calls |-> {}]
  /\ total = [r \in Routers |-> 0]
  /\ watch = [c \in Calls |-> None]
  /\ spent = [c \in Calls |-> 0] /\ mixed = [c \in Calls |-> FALSE]
  /\ record = [c \in Calls |-> None]

-------------------------------------------------------------------------------
(* The reference to the driver: _acquire_driver and _release_driver        *)

\* Fault: the driver is started outside the lock.
EnterUnlocked(h) ==
  /\ use[h] = "asking"
  /\ IF pw
     THEN /\ refs' = refs + 1
          /\ use' = [use EXCEPT ![h] = "in"]
     ELSE /\ use' = [use EXCEPT ![h] = "starting"]
          /\ UNCHANGED refs
  /\ UNCHANGED <<lock, pw, running, lost, setup, story, money, record>>

\* The lock is free: a driver that is there is handed out, and one that is not is
\* started under the lock.
Enter(h) ==
  /\ use[h] = "asking"
  /\ lock = None
  /\ IF pw
     THEN /\ refs' = refs + 1
          /\ use' = [use EXCEPT ![h] = "in"]
          /\ UNCHANGED lock
     ELSE /\ lock' = h
          /\ use' = [use EXCEPT ![h] = "starting"]
          /\ UNCHANGED refs
  /\ UNCHANGED <<pw, running, lost, setup, story, money, record>>

\* async_playwright().start(): the process is launched, and its handshake is awaited.
Spawned(h) ==
  /\ use[h] = "starting"
  /\ running' = running + 1
  /\ use' = [use EXCEPT ![h] = "shaking"]
  /\ UNCHANGED <<pw, refs, lock, lost, setup, story, money, record>>

\* The handshake is over: only now is there a handle to stop the process by.
Started(h) ==
  /\ use[h] = "shaking"
  /\ pw' = TRUE
  /\ refs' = refs + 1
  /\ lock' = None
  /\ use' = [use EXCEPT ![h] = "in"]
  /\ UNCHANGED <<running, lost, setup, story, money, record>>

\* The launch raised, or the process died in its handshake: there is no reference, and
\* nothing to close.
StartFails(h) ==
  /\ "start" \in Mishaps
  /\ use[h] \in {"starting", "shaking"}
  /\ running' = IF use[h] = "shaking" THEN running - 1 ELSE running
  /\ lock' = None
  /\ use' = [use EXCEPT ![h] = "out"]
  /\ fate' = IF h \in Calls THEN [fate EXCEPT ![h] = "raised"] ELSE fate
  /\ UNCHANGED <<pw, refs, lost, setup, pass, tale, money, record>>

\* Fault: the driver is stopped with the last reference but one.
LeaveEarly(h) ==
  /\ use[h] = "leaving"
  /\ lock = None
  /\ refs' = IF refs > 0 THEN refs - 1 ELSE 0
  /\ IF refs' <= 1 /\ pw
     THEN /\ pw' = FALSE
          /\ lock' = h
          /\ use' = [use EXCEPT ![h] = "stopping"]
     ELSE /\ use' = [use EXCEPT ![h] = "out"]
          /\ UNCHANGED <<pw, lock>>
  /\ UNCHANGED <<running, lost, setup, story, money, record>>

\* The lock is free: the reference is dropped, and with the last one the driver is
\* stopped under the lock.
Leave(h) ==
  /\ use[h] = "leaving"
  /\ lock = None
  /\ refs' = IF refs > 0 THEN refs - 1 ELSE 0
  /\ IF refs' = 0 /\ pw
     THEN /\ pw' = FALSE
          /\ lock' = h
          /\ use' = [use EXCEPT ![h] = "stopping"]
     ELSE /\ use' = [use EXCEPT ![h] = "out"]
          /\ UNCHANGED <<pw, lock>>
  /\ UNCHANGED <<running, lost, setup, story, money, record>>

\* Whether stopping raised or not.
Stopped(h) ==
  /\ use[h] = "stopping"
  /\ running' = running - 1
  /\ lock' = None
  /\ use' = [use EXCEPT ![h] = "out"]
  /\ UNCHANGED <<pw, refs, lost, setup, story, money, record>>

-------------------------------------------------------------------------------
(* The scopes                                                              *)

\* driver_scope, or the batch's own acquire.  Bound: none begins again that has lost a
\* reference.
Begins(s) ==
  /\ use[s] = "out" /\ s \notin lost
  /\ use' = [use EXCEPT ![s] = "asking"]
  /\ UNCHANGED <<driver, setup, story, money, record>>

\* The rows are done, or the gather has raised while other runs go on.
Ends(s) ==
  /\ use[s] = "in"
  /\ use' = [use EXCEPT ![s] = "leaving"]
  /\ UNCHANGED <<driver, setup, story, money, record>>

\* run_batch's finally: ledger.close() raises, and the release is skipped.
LedgerRaises(s) ==
  /\ "ledger" \in Mishaps
  /\ use[s] = "in"
  /\ use' = [use EXCEPT ![s] = "out"]
  /\ lost' = lost \cup {s}
  /\ UNCHANGED <<pw, refs, lock, running, setup, story, money, record>>

-------------------------------------------------------------------------------
(* The session of a pass: BrowserSession.start and close                   *)

\* The browser is launched, and the context and its page are made.
Opened(c) ==
  /\ use[c] = "in"
  /\ use' = [use EXCEPT ![c] = "page"]
  /\ UNCHANGED <<driver, setup, story, money, record>>

\* One of them raises, and start() closes what it has.
OpenFails(c) ==
  /\ "start" \in Mishaps
  /\ use[c] = "in"
  /\ use' = [use EXCEPT ![c] = "closing"]
  /\ fate' = [fate EXCEPT ![c] = "raised"]
  /\ UNCHANGED <<driver, setup, pass, tale, money, record>>

DeedKinds == {"blind", "seen", "untold"}

\* What a pass may have done about the write by its end, or when it is cut, as f says: it
\* was "seen" to commit, its confirm appearing; "blind", it committed where the confirm had
\* been there before; "untold", it may have committed, in a pass that comes to no verdict.
\* With "none" nothing was committed, or only what no pass credits: no confirm came, or
\* the step failed, or nobody took it for a write.
Deeds(c, f) ==
  {d \in {"none"} \cup DeedKinds :
     /\ d \in {"seen", "blind"} => /\ pass[c] \in Engine /\ setup[c].drift # "relearn"
                                   /\ f = "failed" \/ (f = "ok" /\ d = "seen")
     /\ d = "untold" => pass[c] = "learn" \/ (pass[c] \in Engine /\ f \notin {"ok", "failed"})}

\* The run of a pass ends on the page.
Does(c, f) ==
  /\ fate' = [fate EXCEPT ![c] = f]
  /\ \E d \in Deeds(c, f) : /\ deed' = [deed EXCEPT ![c] = IF d = "untold" THEN "none" ELSE d]
                           /\ deeds' = [deeds EXCEPT ![c] = @ \cup ({d} \ {"none"})]
  /\ UNCHANGED facts

\* The pass has been made, one way or another; its finally closes the session.
Made(c) ==
  /\ use[c] = "page"
  /\ \E f \in {"ok", "failed"} \cup (IF "raise" \in Mishaps THEN {"raised"} ELSE {}) : Does(c, f)
  /\ use' = [use EXCEPT ![c] = "closing"]
  /\ UNCHANGED <<driver, setup, pass, money, record>>

\* The context and the browser are closed; the reference is given back in close()'s own
\* finally, whether or not that raised.
Closed(c) ==
  /\ use[c] = "closing"
  /\ fate' \in {fate} \cup (IF "close" \in Mishaps THEN {[fate EXCEPT ![c] = "raised"]} ELSE {})
  /\ use' = [use EXCEPT ![c] = "leaving"]
  /\ UNCHANGED <<driver, setup, pass, tale, money, record>>

\* The task is cancelled at the await it is in.  Starting the driver, waiting to leave, or
\* stopping the driver, it gives up half way; a launch it was waiting for may come to its
\* end, and leave a process that nobody has a handle of.
Cancel(h) ==
  /\ "cancel" \in Mishaps
  /\ use[h] \in Drivers
  /\ h \in Scopes => use[h] # "in"
  /\ h \in Calls => fate[h] # "cancelled"
  /\ use' = [use EXCEPT ![h] = CASE use[h] \in {"in", "page"} -> "closing"
                                 [] use[h] = "closing" -> "leaving"
                                 [] OTHER -> "out"]
  /\ lock' = IF lock = h THEN None ELSE lock
  /\ running' \in {running} \cup (IF use[h] = "starting" THEN {running + 1} ELSE {})
  /\ lost' = IF use[h] \in {"starting", "shaking", "leaving", "stopping"} THEN lost \cup {h} ELSE lost
  /\ IF h \in Calls /\ use[h] = "page"
     THEN Does(h, "cancelled")
     ELSE /\ fate' = IF h \in Calls THEN [fate EXCEPT ![h] = "cancelled"] ELSE fate
          /\ UNCHANGED tale
  /\ UNCHANGED <<pw, refs, setup, pass, money, record>>

-------------------------------------------------------------------------------
(* The bill: UsageTotals.observe, Router.complete, RouterWatch             *)

\* The routers of a run, each once, however it came by them.
Watched(c) == {setup[c].agent, setup[c].reader} \ {Foreign, None}

\* sink.arm, when the owners are known and before anything is spent.
Arm(c) == watch' = [watch EXCEPT ![c] = [r \in Watched(c) |-> total[r]]]

\* Whom the pass of a run may ask: a replay nulls its provider, and only extraction is
\* left.
Spenders(c) ==
  CASE pass[c] \in {"attempt", "retry"} -> {setup[c].reader} \ {None}
    [] pass[c] \in {"repair", "learn"} -> {setup[c].agent, setup[c].reader} \ {None}
    [] OTHER -> {}

\* A language model answers, and its router adds the answer up.
Answered(c) ==
  /\ use[c] = "page"
  /\ spent[c] < MaxSpend
  /\ \E r \in Spenders(c) :
       /\ total' = IF r = Foreign THEN total ELSE [total EXCEPT ![r] = @ + 1]
       /\ spent' = [spent EXCEPT ![c] = @ + 1]
       /\ mixed' = [d \in Calls |->
                      mixed[d] \/ (d # c /\ watch[d] # None /\ pass[d] # "over" /\ r \in DOMAIN watch[d])]
  /\ UNCHANGED <<driver, use, setup, story, watch, record>>

Since(c, r) == total[r] - watch[c][r]

\* Fault: the provider's router and the extraction router are counted each.
BillPerOwner(c) ==
  IF watch[c] = None THEN 0
  ELSE IF Foreign \in {setup[c].agent, setup[c].reader} THEN Unknown
  ELSE (IF setup[c].agent = None THEN 0 ELSE Since(c, setup[c].agent))
       + (IF setup[c].reader = None THEN 0 ELSE Since(c, setup[c].reader))

\* The cost that is written down: nothing for a run that was never armed, unknown if
\* somebody it could have asked is not watched.
Bill(c) ==
  IF watch[c] = None THEN 0
  ELSE IF Foreign \in {setup[c].agent, setup[c].reader} THEN Unknown
  ELSE MapThenSumSet(LAMBDA r : Since(c, r), DOMAIN watch[c])

-------------------------------------------------------------------------------
(* The passes of a run: replay, _replay_body, _RecordSink                  *)

\* Whether a run committed: one pass that saw it is enough, one that cannot tell forbids a
\* denial, and so does having no pass.
Evidence(fs) ==
  IF "yes" \in fs THEN "yes" ELSE IF fs = {} \/ "unknown" \in fs THEN "unknown" ELSE "no"

\* The single exit: the facts are folded and the bill is made out.
Finish(c) ==
  /\ pass' = [pass EXCEPT ![c] = "over"]
  /\ record' = IF pass[c] = "canary" THEN record
               ELSE [record EXCEPT ![c] = [cost |-> Bill(c), committed |-> Evidence(facts'[c])]]
  /\ UNCHANGED <<use, money>>

\* On to a pass in a new session.
Onto(c, p) ==
  /\ pass' = [pass EXCEPT ![c] = p]
  /\ use' = [use EXCEPT ![c] = "asking"]
  /\ IF p = "attempt" THEN Arm(c) ELSE UNCHANGED watch
  /\ UNCHANGED <<total, spent, mixed, record>>

\* A probe of the first control, or a replay: it is refused by its pre-flight, or for
\* want of a router, or goes to its precheck or its first attempt.
Start(c) ==
  /\ pass[c] = "idle"
  /\ UNCHANGED <<driver, setup, fate, tale>>
  /\ \/ Finish(c)
     \/ Onto(c, "attempt")
     \/ setup[c].drift = "raise" /\ Onto(c, "precheck")
     \/ setup[c].drift = "raise" /\ Onto(c, "canary")

\* A pass is settled when its session is closed.
Settles(c) ==
  /\ use[c] = "out" /\ fate[c] # None
  /\ fate' = [fate EXCEPT ![c] = None]
  /\ deed' = [deed EXCEPT ![c] = "none"]
  /\ UNCHANGED <<driver, setup, deeds>>

Says(c, f) == facts' = [facts EXCEPT ![c] = @ \cup {f}]

\* What an attempt that came to a verdict says: a commit behind a confirm that was there
\* before is not denied, and every other one that was not seen is.
Verdict(c) == CASE deed[c] = "seen" -> "yes" [] deed[c] = "blind" -> "unknown" [] OTHER -> "no"

\* Nothing is left to try but, on a drift that may be repaired, the repairs.
GivesUp(c) == IF setup[c].drift = "relearn" THEN Onto(c, "repair") ELSE Finish(c)

\* The attempt succeeded.
Succeeds(c) ==
  /\ Settles(c)
  /\ pass[c] \in Engine /\ fate[c] = "ok"
  /\ Says(c, Verdict(c))
  /\ Finish(c)

\* A write flow failed after its write was seen, or after a commit that nothing can
\* confirm: nothing is tried again.
FailsWritten(c) ==
  /\ Settles(c)
  /\ pass[c] \in Engine /\ fate[c] = "failed" /\ deed[c] \in {"blind", "seen"}
  /\ Says(c, Verdict(c))
  /\ Finish(c)

\* Any other failure: it is final, or the session is refreshed for one retry, or the
\* flow is repaired and then learned again.
Fails(c) ==
  /\ Settles(c)
  /\ pass[c] \in Engine /\ fate[c] = "failed" /\ deed[c] \notin {"blind", "seen"}
  /\ Says(c, Verdict(c))
  /\ \/ Finish(c)
     \/ pass[c] = "attempt" /\ Onto(c, "refresh")
     \/ pass[c] # "repair" /\ setup[c].drift = "relearn" /\ Onto(c, "repair")
     \/ pass[c] = "repair" /\ Onto(c, "learn")

\* Fault: an attempt that raised says nothing.
RaisesUnsaid(c) ==
  /\ Settles(c)
  /\ pass[c] \in Engine /\ fate[c] \in {"raised", "cancelled"}
  /\ UNCHANGED facts
  /\ IF pass[c] = "retry" /\ fate[c] = "raised" THEN GivesUp(c) ELSE Finish(c)

\* The attempt raised: its guard says so, and only the retry's exception is swallowed.
Raises(c) ==
  /\ Settles(c)
  /\ pass[c] \in Engine /\ fate[c] \in {"raised", "cancelled"}
  /\ Says(c, "unknown")
  /\ IF pass[c] = "retry" /\ fate[c] = "raised" THEN GivesUp(c) ELSE Finish(c)

\* _precheck_done: the end state holds already, or the write is to be made; the second
\* one stands inside the handler of the refresh.
Prechecked(c) ==
  /\ Settles(c)
  /\ pass[c] \in {"precheck", "again"}
  /\ CASE fate[c] = "ok" -> Says(c, "unknown") /\ Finish(c)
       [] fate[c] = "failed" -> /\ Onto(c, IF pass[c] = "precheck" THEN "attempt" ELSE "retry")
                               /\ UNCHANGED facts
       [] OTHER -> /\ UNCHANGED facts
                   /\ IF pass[c] = "again" /\ fate[c] = "raised" THEN GivesUp(c) ELSE Finish(c)

\* refresh_auth
Refreshed(c) ==
  /\ Settles(c)
  /\ pass[c] = "refresh"
  /\ UNCHANGED facts
  /\ \/ fate[c] = "ok" /\ Onto(c, "retry")
     \/ fate[c] = "ok" /\ setup[c].drift = "raise" /\ Onto(c, "again")
     \/ fate[c] \in {"failed", "raised"} /\ GivesUp(c)
     \/ fate[c] = "cancelled" /\ Finish(c)

\* learn(): an authoring run may have written, and tells nobody.
Learned(c) ==
  /\ Settles(c)
  /\ pass[c] = "learn"
  /\ Says(c, "unknown")
  /\ Finish(c)

\* canary(): no record.
Probed(c) ==
  /\ Settles(c)
  /\ pass[c] = "canary"
  /\ UNCHANGED facts
  /\ Finish(c)

RunsNext ==
  \/ \E h \in Holders : Enter(h) \/ Spawned(h) \/ Started(h) \/ StartFails(h) \/ Leave(h) \/ Stopped(h) \/ Cancel(h)
  \/ \E s \in Scopes : Begins(s) \/ Ends(s) \/ LedgerRaises(s)
  \/ \E c \in Calls :
       \/ Opened(c) \/ OpenFails(c) \/ Made(c) \/ Closed(c)
       \/ Answered(c) \/ Start(c)
       \/ Succeeds(c) \/ FailsWritten(c) \/ Fails(c) \/ Raises(c)
       \/ Prechecked(c) \/ Refreshed(c) \/ Learned(c) \/ Probed(c)

RunsSpec == RunsInit /\ [][RunsNext]_runsVars

-------------------------------------------------------------------------------
(* Properties                                                              *)

Passes == {"idle", "canary", "precheck", "attempt", "refresh", "again", "retry", "repair", "learn", "over"}

RunsTypeOK ==
  /\ pw \in BOOLEAN /\ refs \in Nat /\ lock \in Holders \cup {None} /\ running \in Nat
  /\ lost \subseteq Holders
  /\ use \in [Holders -> Drivers \cup {"out"}]
  /\ setup \in [Calls -> Setups]
  /\ pass \in [Calls -> Passes]
  /\ fate \in [Calls -> {None, "ok", "failed", "raised", "cancelled"}]
  /\ deed \in [Calls -> {"none", "blind", "seen"}] /\ deeds \in [Calls -> SUBSET DeedKinds]
  /\ facts \in [Calls -> SUBSET {"yes", "no", "unknown"}]
  /\ total \in [Routers -> Nat]
  /\ watch = [c \in Calls |-> watch[c]]
  /\ \A c \in Calls : watch[c] = None \/ \E R \in SUBSET Routers : watch[c] \in [R -> Nat]
  /\ spent \in [Calls -> Nat] /\ mixed \in [Calls -> BOOLEAN]
  /\ record \in [Calls -> {None} \cup [cost : Nat \cup {Unknown}, committed : {"yes", "no", "unknown"}]]

\* A holder that was handed the driver has it until it gives it back, whoever else
\* starts, fails, closes or is cancelled meanwhile.
DriverServes ==
  \A h \in Holders : use[h] \in {"in", "page", "closing", "leaving"} => pw

\* There is one driver at a time, and none once nobody uses it, but for one at most by
\* each holder that was cancelled while it started or released the driver, or that a
\* raising ledger kept from releasing it.
NothingOrphaned ==
  /\ running <= 1 + Cardinality(lost)
  /\ (\A h \in Holders : use[h] = "out") => running <= Cardinality(lost)

\* Known limit: that none is left.
NoneLeftRunning == (\A h \in Holders : use[h] = "out") => running = 0

\* The cost of a run is unknown or covers every answer it had, and is exactly that if no
\* other run was answered by its routers meanwhile.
BillHolds ==
  \A c \in Calls : record[c] # None /\ record[c].cost # Unknown =>
    /\ record[c].cost >= spent[c]
    /\ ~mixed[c] => record[c].cost = spent[c]

\* What the record says of the commit over all passes of the run: it claims one only if
\* some pass saw its confirm appear, and denies it only if no pass did, and none committed
\* behind a confirm that was there before, was cut after committing, or committed while
\* it authored the flow anew.
DenialIsFair ==
  \A c \in Calls : record[c] # None =>
    /\ record[c].committed = "no" => deeds[c] = {}
    /\ record[c].committed = "yes" => "seen" \in deeds[c]
===============================================================================
