--------------------------------- MODULE DryRun ---------------------------------
(***************************************************************************)
(* A dry run of a write flow (flows.dry_run): the engine replays the       *)
(* cached steps while an arbiter on the browser's context                  *)
(* (DryRunArbiter) answers every request that may write itself, and a      *)
(* report says what would have been sent, and by which step.               *)
(*                                                                         *)
(* The page sends a request whenever it likes after what causes it: the    *)
(* act of a step, at once or much later, or its own scripts.  The handler  *)
(* of a request runs after the request's event, in steps of its own.       *)
(***************************************************************************)
EXTENDS Naturals, FiniteSets

CONSTANTS
  Length,    \* the steps of the cached recipe
  Requests,  \* bound: the requests the page may send
  Urls,      \* where they go
  Page,      \* the page's own scripts, which are no step
  None,
  Faults     \* what may go wrong, of the names below

ASSUME LengthAssumption == Length \in Nat
ASSUME PageAssumption == Page \notin Nat
ASSUME NoneAssumption == None \notin {"report", "raised", "not-learned", "preflight", "websocket-unroutable",
  "websocket-frame", "ungated-write", "arbiter-fault", "leak-redirect", "leak-unrouted"}

\* raise: a step fails, or the engine raises; handler: answering a request raises; old: the browser library
\* cannot route web sockets; worker: a shared worker's requests, which no layer sees.
ASSUME FaultsAssumption == Faults \subseteq {"raise", "handler", "old", "worker"}

Steps == 1..Length
Causes == Steps \cup {Page}

\* What a request is by its method and host: a GET, HEAD or OPTIONS; a write; or a
\* POST to a telemetry host.
Kinds == {"read", "write", "telemetry"}

\* What the report says of who caused a held request.
Labels == [attribution : {"step", "ambiguous", "ungated"}, step : 0..Length,
           candidates : SUBSET Steps]

VARIABLES
  marked,      \* the recipe's mutating steps
  \* the engine
  pc,
  at,          \* the step it is at; 0 on the way to the first
  acted,       \* history: the steps whose act has begun
  \* the page and the network
  req,         \* what has become of each request
  server,      \* the requests that reached the network
  \* the arbiter
  window,      \* is a mutating step acting?
  holder,      \* the step that opened it last
  opened,      \* every step that has
  held,        \* what the report says of each request that was held
  fiction,     \* history: the step the engine was at when a request was first held
  \* the report
  aborted,
  leaked,
  skipped,     \* was an approval gate skipped?
  answer,
  representative, \* how many steps ran on pages the site had served
  warnings

engine == <<pc, at, acted>>
net == <<req, server>>
slot == <<window, holder, opened>>
ledger == <<held, fiction>>
result == <<answer, representative, warnings>>
vars == <<marked, engine, net, slot, ledger, aborted, leaked, skipped, result>>

Unsent == [phase |-> "unsent", kind |-> "read", url |-> None, cause |-> Page]

Init ==
  /\ marked \in SUBSET Steps
  /\ pc = "start" /\ at = 0 /\ acted = {}
  /\ req = [r \in Requests |-> Unsent] /\ server = {}
  /\ window = "closed" /\ holder = 0 /\ opened = {}
  /\ held = [r \in {} |-> None] /\ fiction = 0
  /\ aborted = None /\ leaked = FALSE /\ skipped = FALSE
  /\ answer = None /\ representative = 0 /\ warnings = {}

\* The first abort wins.
Latch(kind) == IF aborted = None THEN kind ELSE aborted

InSession == pc \notin {"start", "over"}

-------------------------------------------------------------------------------
(* The front of dry_run                                                    *)

\* Nothing is cached, or a check that a dry run keeps refuses.
Refuse ==
  /\ pc = "start"
  /\ aborted' \in {"not-learned", "preflight"}
  /\ pc' = "over"
  /\ answer' = "report"
  /\ UNCHANGED <<marked, at, acted, net, slot, ledger, leaked, skipped, representative, warnings>>

\* The checks of the approval are passed over and named; the arbiter is on the context
\* before there is a page.
Begin ==
  /\ pc = "start"
  /\ skipped' \in BOOLEAN
  /\ aborted' \in {None} \cup (IF "old" \in Faults THEN {"websocket-unroutable"} ELSE {})
  /\ pc' = "next"
  /\ UNCHANGED <<marked, at, acted, net, slot, ledger, leaked, result>>

-------------------------------------------------------------------------------
(* The engine                                                              *)

\* The page is a challenge, and the engine gives up before the first step; or there is
\* no step.
Escalate ==
  /\ pc = "next" /\ at = 0
  /\ pc' = "closing"
  /\ UNCHANGED <<marked, at, acted, net, slot, ledger, aborted, leaked, skipped, result>>

\* To the next step; a mutating one may be refused by its gate.
NextStep ==
  /\ pc = "next" /\ at < Length
  /\ at' = at + 1
  /\ pc' \in {"step"} \cup (IF at' \in marked THEN {"closing"} ELSE {})
  /\ UNCHANGED <<marked, acted, net, slot, ledger, aborted, leaked, skipped, result>>

\* open_window: a mutating step opens its window before it acts.
Open ==
  /\ window' = "open"
  /\ holder' = at
  /\ opened' = opened \cup {at}

Act ==
  /\ pc = "step"
  /\ IF at \in marked THEN Open ELSE UNCHANGED slot
  /\ acted' = acted \cup {at}
  /\ pc' = "act"
  /\ UNCHANGED <<marked, at, net, ledger, aborted, leaked, skipped, result>>

\* The act has returned, and the wait for its write has ended by an event or a deadline.
Acted ==
  /\ pc = "act"
  /\ pc' = IF at \in marked THEN "drain" ELSE "check"
  /\ UNCHANGED <<marked, at, acted, net, slot, ledger, aborted, leaked, skipped, result>>

InFlight == {r \in Requests : req[r].phase \in {"continuing", "holding"}}

\* drain, then close_window: a handler that is still running at the deadline aborts.
Drain ==
  /\ pc = "drain"
  /\ aborted' = IF InFlight = {} THEN aborted ELSE Latch("arbiter-fault")
  /\ window' = "closing"
  /\ pc' = "check"
  /\ UNCHANGED <<marked, at, acted, net, holder, opened, ledger, leaked, skipped, result>>

\* The grace after a window is over.
GraceEnds ==
  /\ window = "closing"
  /\ window' = "closed"
  /\ UNCHANGED <<marked, engine, net, holder, opened, ledger, aborted, leaked, skipped, result>>

\* An abort ends the replay, whatever the step came to; so does a step that failed, a
\* barrier that did not show, and the last step.
Check ==
  /\ pc = "check"
  /\ \/ pc' = "closing" /\ (aborted # None \/ at = Length \/ "raise" \in Faults)
     \/ pc' = "next" /\ aborted = None /\ at < Length
  /\ UNCHANGED <<marked, at, acted, net, slot, ledger, aborted, leaked, skipped, result>>

\* The browser, or the engine, raises: there is no report.
Raises ==
  /\ "raise" \in Faults
  /\ InSession
  /\ pc' = "over"
  /\ answer' = "raised"
  /\ UNCHANGED <<marked, at, acted, net, slot, ledger, aborted, leaked, skipped, representative,
                 warnings>>

-------------------------------------------------------------------------------
(* The page, and the arbiter's handlers                                    *)

\* The page sends a request, whose event both ledgers' listeners see.  Of a shared
\* worker's no layer sees anything, and nothing holds it.
Send(r) ==
  /\ InSession
  /\ req[r].phase = "unsent"
  /\ \E k \in Kinds, u \in Urls, c \in acted \cup {Page} :
       \/ /\ req' = [req EXCEPT ![r] = [phase |-> "sent", kind |-> k, url |-> u, cause |-> c]]
          /\ UNCHANGED server
       \/ /\ "worker" \in Faults
          /\ req' = [req EXCEPT ![r] = [phase |-> "unseen", kind |-> k, url |-> u, cause |-> c]]
          /\ server' = server \cup {r}
  /\ UNCHANGED <<marked, engine, slot, ledger, aborted, leaked, skipped, result>>

Idempotent(k) == k = "read"

\* Fault: the step whose window is the latest is named.
NamesTheLatest ==
  IF window = "closed"
  THEN [attribution |-> "ungated", step |-> 0, candidates |-> {}]
  ELSE [attribution |-> "step", step |-> holder, candidates |-> {}]

\* Which step a request that arrives now may be put down to.
Label ==
  IF window = "closed"
  THEN [attribution |-> "ungated", step |-> 0, candidates |-> {}]
  ELSE IF \E s \in Steps : opened = {s}
       THEN [attribution |-> "step", step |-> holder, candidates |-> {}]
       ELSE [attribution |-> "ambiguous", step |-> 0, candidates |-> opened]

\* Fault: what the classifier does not take for a write is let go.
ReleasesTelemetry(r) ==
  /\ InSession
  /\ req[r].phase = "sent"
  /\ IF req[r].kind # "write"
     THEN /\ req' = [req EXCEPT ![r].phase = "continuing"]
          /\ UNCHANGED ledger
     ELSE /\ req' = [req EXCEPT ![r].phase = "holding"]
          /\ held' = [q \in DOMAIN held \cup {r} |-> IF q = r THEN Label ELSE held[q]]
          /\ fiction' = IF DOMAIN held = {} THEN at ELSE fiction
  /\ UNCHANGED <<marked, engine, server, slot, aborted, leaked, skipped, result>>

\* The handler's first part: only what cannot write is let go, anything else is
\* recorded.
Handle(r) ==
  /\ InSession
  /\ req[r].phase = "sent"
  /\ IF Idempotent(req[r].kind)
     THEN /\ req' = [req EXCEPT ![r].phase = "continuing"]
          /\ UNCHANGED ledger
     ELSE /\ req' = [req EXCEPT ![r].phase = "holding"]
          /\ held' = [q \in DOMAIN held \cup {r} |-> IF q = r THEN Label ELSE held[q]]
          /\ fiction' = IF DOMAIN held = {} THEN at ELSE fiction
  /\ UNCHANGED <<marked, engine, server, slot, aborted, leaked, skipped, result>>

\* route.continue_
Continue(r) ==
  /\ req[r].phase = "continuing"
  /\ req' = [req EXCEPT ![r].phase = "done"]
  /\ server' = server \cup {r}
  /\ UNCHANGED <<marked, engine, slot, ledger, aborted, leaked, skipped, result>>

\* The server redirects r: the next hop has r's method, or a GET's, and is not routed.
\* The event layer sees it.
Redirect(r, hop) ==
  /\ InSession
  /\ req[r].phase \in {"done", "hop"} /\ r \in server
  /\ req[hop].phase = "unsent"
  /\ \E k \in {req[r].kind, "read"}, u \in Urls :
       /\ req' = [req EXCEPT ![hop] = [phase |-> "hop", kind |-> k, url |-> u,
                                       cause |-> req[r].cause]]
       /\ leaked' = (leaked \/ ~Idempotent(k))
       /\ aborted' = IF Idempotent(k) THEN aborted ELSE Latch("leak-redirect")
  /\ server' = server \cup {hop}
  /\ UNCHANGED <<marked, engine, slot, ledger, skipped, result>>

\* route.fulfill, and only then the verdict on a write outside every window.
Fulfil(r) ==
  /\ req[r].phase = "holding"
  /\ req' = [req EXCEPT ![r].phase = "done"]
  /\ aborted' = IF held[r].attribution = "ungated" THEN Latch("ungated-write") ELSE aborted
  /\ UNCHANGED <<marked, engine, server, slot, ledger, leaked, skipped, result>>

\* The answer raises, as it does when the page is gone: the request is aborted.
HandlerFails(r) ==
  /\ "handler" \in Faults
  /\ r \in InFlight
  /\ req' = [req EXCEPT ![r].phase = "failed"]
  /\ aborted' = Latch("arbiter-fault")
  /\ UNCHANGED <<marked, engine, server, slot, ledger, leaked, skipped, result>>

\* The page sends a frame over a web socket, which is mocked.
Frame ==
  /\ InSession
  /\ aborted' = Latch("websocket-frame")
  /\ UNCHANGED <<marked, engine, net, slot, ledger, leaked, skipped, result>>

-------------------------------------------------------------------------------
(* The report                                                              *)

\* The two ledgers, as reconcile compares them: by method and address.
Method(k) == IF Idempotent(k) THEN "GET" ELSE "POST"
Routed == {r \in Requests : req[r].phase \in {"continuing", "holding", "done", "failed"}}
Observed == {r \in Requests : req[r].phase \notin {"unsent", "unseen"}}
Entry(r) == <<Method(req[r].kind), req[r].url>>

\* Fault: the ledgers are compared by address alone.
EscapedByUrl ==
  {r \in Observed : ~Idempotent(req[r].kind) /\ \A q \in Routed : req[q].url # req[r].url}

Escaped == {r \in Observed : ~Idempotent(req[r].kind) /\ \A q \in Routed : Entry(q) # Entry(r)}

\* The steps a held request may belong to.
Suspects(l) == IF l.attribution = "step" THEN {l.step} ELSE l.candidates

\* Fault: a request that was put down to no step is passed over.
BeforeTheNamed ==
  {n \in 0..Length : \A r \in DOMAIN held : held[r].attribution = "step" => n < held[r].step}

\* What ran before any step that may have caused a held request; nothing did if one of
\* them has no suspect.
Before ==
  IF \E r \in DOMAIN held : Suspects(held[r]) = {}
  THEN {0}
  ELSE {n \in 0..Length : \A r \in DOMAIN held : \A s \in Suspects(held[r]) : n < s}

\* writes_reached counts the requests that were held in a window, writes_planned the
\* mutating steps.
FewerThanPlanned ==
  Cardinality(marked) > Cardinality({r \in DOMAIN held : held[r].attribution # "ungated"})

Warnings ==
  {w \in {"unknown bodies", "synthesized", "unattributed"} :
     \/ w = "unknown bodies" /\ DOMAIN held # {} /\ FewerThanPlanned
     \/ w = "synthesized" /\ DOMAIN held # {}
     \/ w = "unattributed" /\ \E r \in DOMAIN held : held[r].attribution # "step"}

\* The session is closed, the ledgers are reconciled, and the report is made.
Report ==
  /\ pc = "closing"
  /\ leaked' = (leaked \/ Escaped # {})
  /\ aborted' = IF Escaped # {} THEN Latch("leak-unrouted") ELSE aborted
  /\ \E n \in Before :
       /\ \A m \in Before : m <= n
       /\ representative' = n
  /\ warnings' = Warnings
  /\ answer' = "report"
  /\ pc' = "over"
  /\ UNCHANGED <<marked, at, acted, net, slot, ledger, skipped>>

Next ==
  \/ Refuse
  \/ Begin
  \/ Escalate
  \/ NextStep
  \/ Act
  \/ Acted
  \/ Drain
  \/ GraceEnds
  \/ Check
  \/ Raises
  \/ \E r \in Requests : Send(r) \/ Handle(r) \/ Continue(r) \/ Fulfil(r) \/ HandlerFails(r)
  \/ \E r, hop \in Requests : Redirect(r, hop)
  \/ Frame
  \/ Report

Spec == Init /\ [][Next]_vars

-------------------------------------------------------------------------------
(* Properties                                                              *)

Phases == {"unsent", "unseen", "sent", "continuing", "holding", "hop", "done", "failed"}

\* The shape of the state.
TypeOK ==
  /\ marked \subseteq Steps
  /\ pc \in {"start", "next", "step", "act", "drain", "check", "closing", "over"}
  /\ at \in 0..Length
  /\ acted \subseteq Steps
  /\ req \in [Requests -> [phase : Phases, kind : Kinds, url : Urls \cup {None}, cause : Causes]]
  /\ server \subseteq Requests
  /\ window \in {"open", "closing", "closed"}
  /\ holder \in 0..Length /\ opened \subseteq Steps
  /\ DOMAIN held \subseteq Requests /\ held \in [DOMAIN held -> Labels]
  /\ fiction \in 0..Length
  /\ aborted \in {None, "not-learned", "preflight", "websocket-unroutable", "websocket-frame",
                  "ungated-write", "arbiter-fault", "leak-redirect", "leak-unrouted"}
  /\ leaked \in BOOLEAN /\ skipped \in BOOLEAN
  /\ answer \in {None, "report", "raised"}
  /\ representative \in 0..Length
  /\ warnings \subseteq {"unknown bodies", "synthesized", "unattributed"}

\* Of the requests some layer of the browser sees, none that may write reaches the
\* network, by no path of handlers, faults and redirects: "one that writes for real is
\* worse than no dry run at all".
NothingLeaves == \A r \in server : req[r].phase # "unseen" => Idempotent(req[r].kind)

\* A report without an abort shows every address a write was sent to: none is lost to a
\* handler that failed or had not run when the session closed.
EveryWriteShown ==
  answer = "report" /\ aborted = None =>
    \A r \in Observed : ~Idempotent(req[r].kind) =>
      \E q \in DOMAIN held : Entry(q) = Entry(r)

\* A request the report puts down to a step was not caused by another mutating step,
\* however late it was sent.
NamedIsCause ==
  \A r \in DOMAIN held :
    held[r].attribution = "step" => req[r].cause \notin marked \ {held[r].step}

\* The steps a report calls representative had all been taken before the first request
\* was answered with a made-up response.
RepresentativeIsReal ==
  answer = "report" /\ DOMAIN held # {} => representative = 0 \/ representative < fiction

-------------------------------------------------------------------------------
(* What the code does not keep: known limits, stated for the record.        *)

\* _attribute says a step whose window has not opened cannot have caused a write: fails
\* for a step the recipe does not mark, and for the page's own scripts.
EveryNameIsCause ==
  \A r \in DOMAIN held : held[r].attribution = "step" => req[r].cause = held[r].step

\* Every write is in the report: fails for a second request to the address of a held
\* one that is sent as the session closes, for reconcile compares addresses.
EveryWriteListed ==
  answer = "report" /\ aborted = None =>
    \A r \in Observed : ~Idempotent(req[r].kind) => r \in DOMAIN held

\* A report with a held request warns if a mutating step never acted: fails if another
\* sent two requests, each of which counts as a planned write that was reached.
MissedIsSaid ==
  answer = "report" /\ aborted = None /\ DOMAIN held # {} /\ ~(marked \subseteq acted)
    => "unknown bodies" \in warnings
===============================================================================
