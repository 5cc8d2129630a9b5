-------------------------------- MODULE McpRail --------------------------------
(***************************************************************************)
(* The MCP write rail: tool calls that replay one flow, in server          *)
(* processes that share its files.  A call looks the flow up, and, if it   *)
(* writes, takes the flow's lock, checks it, skips a write the ledger has, *)
(* asks a human, replays, and records what landed, all under the lock.     *)
(* Meanwhile the operator re-learns, approves and unapproves the flow from *)
(* another process, clients cancel calls, and servers die.                 *)
(*                                                                         *)
(* replay() is what WriteContract says it is.                              *)
(***************************************************************************)
CONSTANTS
  Calls,      \* the tool calls; a client that retries makes another one
  Servers,    \* the server processes
  Exposing,   \* those started with --expose-writes
  Args,       \* the arguments a call may carry
  Recipes,    \* the recipes the flow may have
  Writers,    \* those with a step that is marked as writing
  None,
  Faults      \* what may go wrong

AllFaults ==
  {"cancel",      \* a client cancels a call, or disconnects
   "crash",       \* a server is killed; it is started again
   "unreadable",  \* a file cannot be read just now
   "unwritable"}  \* the ledger cannot be written just now

ASSUME ServersAssumption == Exposing \subseteq Servers
ASSUME RecipesAssumption == Writers \subseteq Recipes
ASSUME NoneAssumption ==
  None \notin Recipes \cup Servers \cup Args \cup Calls \cup [recipe : Recipes, args : Args]
ASSUME FaultsAssumption == Faults \subseteq AllFaults

VARIABLES
  spec,         \* "read", "write" (declared, with a confirm check), or
                \* "prechecked" (and with an idempotency precheck)
  recipe,       \* <key>.json
  bound,        \* the recipe the sidecar's approval is bound to
  ledger,       \* the keys the flow's ledger file has
  lost,         \* history: the keys of writes sent by calls that ended
                \* without a record
  lock,         \* each server's lock of the flow: the call that holds it
  \* the local state of each call
  pc,
  server,
  args,
  seen,         \* the recipe that made it a read
  keys,         \* the keys its pre-flight computed
  accepted,     \* a human said yes
  ran,          \* the recipe its replay ran
  wrote,        \* external: what became of its write
  answer

disk == <<recipe, bound, ledger>>
request == <<server, args>>
run == <<ran, wrote>>
vars == <<spec, disk, lost, lock, pc, request, seen, keys, accepted, run, answer>>

Declared == spec # "read"

\* The Idempotency-Keys of a run of r with arguments a: one per writing step.
Keys == [recipe : Recipes, args : Args]
KeysOf(r, a) == [recipe |-> r, args |-> a]

Init ==
  /\ spec \in {"read", "write", "prechecked"}
  /\ recipe \in Recipes \cup {None}
  /\ bound \in {recipe, None}
  /\ ledger = {}
  /\ lost = {}
  /\ lock = [s \in Servers |-> None]
  /\ pc = [c \in Calls |-> "idle"]
  /\ server = [c \in Calls |-> None]
  /\ args = [c \in Calls |-> None]
  /\ seen = [c \in Calls |-> None]
  /\ keys = [c \in Calls |-> None]
  /\ accepted = [c \in Calls |-> FALSE]
  /\ ran = [c \in Calls |-> None]
  /\ wrote = [c \in Calls |-> "no"]
  /\ answer = [c \in Calls |-> "none"]

Goto(c, label) == pc' = [pc EXCEPT ![c] = label]

\* The keys that call c put on the wire.
SentKeys(c) == KeysOf(ran[c], args[c])

\* What a call that ends without a record has sent.
Forgets(c) == IF wrote[c] # "no" THEN {SentKeys(c)} ELSE {}

End(c, a) ==
  /\ Goto(c, "done")
  /\ answer' = [answer EXCEPT ![c] = a]
  /\ lock' = [s \in Servers |-> IF lock[s] = c THEN None ELSE lock[s]]

-------------------------------------------------------------------------------
(* A client calls a tool; it is looked up in the listing as it is now.     *)

Call(c) ==
  /\ pc[c] = "idle"
  /\ \E s \in Servers, a \in Args :
       /\ server' = [server EXCEPT ![c] = s]
       /\ args' = [args EXCEPT ![c] = a]
  /\ Goto(c, "health")
  /\ UNCHANGED <<spec, disk, lost, lock, seen, keys, accepted, run, answer>>

\* What _tool_for makes of health(): why the flow is not listed, or "listed".
\* A quarantined flow stays listed.
Health(r, b) ==
  IF r = None THEN "not_learned"
  ELSE IF b = None THEN "not_approved"
  ELSE IF b # r THEN "approval_stale"
  ELSE "listed"

LookUp(c) ==
  /\ pc[c] = "health"
  /\ \/ /\ Health(recipe, bound) = "listed"
        /\ Goto(c, "classify")
        /\ UNCHANGED <<lock, answer>>
     \/ /\ Health(recipe, bound) # "listed" \/ "unreadable" \in Faults
        /\ End(c, "error")
  /\ UNCHANGED <<spec, disk, lost, request, seen, keys, accepted, run>>

\* _is_write_flow: declared, or a step of the cached recipe is marked.
IsWrite(r) == Declared \/ r \in Writers

\* The recipe is read a second time to classify the flow.  A write is a tool of
\* an exposing server only, and only if it is declared.
Classify(c) ==
  /\ pc[c] = "classify"
  /\ \/ /\ ~IsWrite(recipe)
        /\ seen' = [seen EXCEPT ![c] = recipe]
        /\ Goto(c, "gate")
        /\ UNCHANGED <<lock, answer>>
     \/ /\ IsWrite(recipe)
        /\ Declared /\ server[c] \in Exposing
        /\ Goto(c, "wait")
        /\ UNCHANGED <<seen, lock, answer>>
     \/ /\ IsWrite(recipe) => ~(Declared /\ server[c] \in Exposing)
        /\ IsWrite(recipe) \/ "unreadable" \in Faults
        /\ End(c, "error")
        /\ UNCHANGED seen
  /\ UNCHANGED <<spec, disk, lost, request, keys, accepted, run>>

-------------------------------------------------------------------------------
(* The rail: the lock, the checks, the ledger, the human.                  *)

\* _preflight_row on require_approved: the gates this state can trip.
Refuses(r, b) ==
  \/ Declared /\ r # None /\ r \notin Writers
  \/ b = None
  \/ r # None /\ b # r

\* Checks(c) is what a call does as soon as it has the lock.  A recipe that is gone has
\* no steps to compute keys from: not a refusal, but an exception nobody catches.
Checks(c) ==
  /\ \/ /\ ~Refuses(recipe, bound)
        /\ recipe # None
        /\ keys' = [keys EXCEPT ![c] = KeysOf(recipe, args[c])]
        /\ Goto(c, "ledger")
        /\ lock' = [lock EXCEPT ![server[c]] = c]
        /\ UNCHANGED answer
     \/ /\ Refuses(recipe, bound) \/ recipe = None \/ "unreadable" \in Faults
        /\ End(c, "error")
        /\ UNCHANGED keys
  /\ UNCHANGED <<spec, disk, lost, request, seen, accepted, run>>

\* Fault: waiting for the lock gives up as it does for a file lock.
PreflightUnlocked(c) == pc[c] = "wait" /\ Checks(c)

Preflight(c) == pc[c] = "wait" /\ lock[server[c]] = None /\ Checks(c)

\* The dedupe, and the refusal of a client that cannot ask a human.
CheckLedger(c) ==
  /\ pc[c] = "ledger"
  /\ \/ /\ keys[c] \in ledger
        /\ End(c, "already_done")
     \/ /\ keys[c] \notin ledger
        /\ Goto(c, "confirm")
        /\ UNCHANGED <<lock, answer>>
     \/ /\ keys[c] \notin ledger \/ "unreadable" \in Faults
        /\ End(c, "error")
  /\ UNCHANGED <<spec, disk, lost, request, seen, keys, accepted, run>>

\* The awaited elicitation: the human accepts, ...
Accept(c) ==
  /\ pc[c] = "confirm"
  /\ accepted' = [accepted EXCEPT ![c] = TRUE]
  /\ Goto(c, "gate")
  /\ UNCHANGED <<spec, disk, lost, lock, request, seen, keys, run, answer>>

\* Fault: a confirmation that could not be completed does not refuse.
DeclineUnheard(c) ==
  /\ pc[c] = "confirm"
  /\ Goto(c, "gate")
  /\ UNCHANGED <<spec, disk, lost, lock, request, seen, keys, accepted, run, answer>>

\* ... or declines, or the transport fails.
Decline(c) ==
  /\ pc[c] = "confirm"
  /\ End(c, "error")
  /\ UNCHANGED <<spec, disk, lost, request, seen, keys, accepted, run>>

-------------------------------------------------------------------------------
(* replay(): its own pre-flight, and the recipe it then runs.              *)

Gate(c) ==
  /\ pc[c] = "gate"
  /\ \/ /\ ~Refuses(recipe, bound)
        /\ Goto(c, "run")
        /\ UNCHANGED <<lock, answer>>
     \/ /\ Refuses(recipe, bound)
        /\ End(c, "error")
     \/ /\ "unreadable" \in Faults
        /\ End(c, "error")
  /\ UNCHANGED <<spec, disk, lost, request, seen, keys, accepted, run>>

\* The one-shot precheck: the end state is there, so nothing runs.
Precheck(c) ==
  /\ pc[c] = "run"
  /\ spec = "prechecked"
  /\ \E d \in Calls : wrote[d] = "performed"
  /\ Goto(c, "ok")
  /\ UNCHANGED <<spec, disk, lost, lock, request, seen, keys, accepted, run, answer>>

\* The recipe runs; a write it has is sent or not, and performed or not yet.
Run(c) ==
  /\ pc[c] = "run"
  /\ ran' = [ran EXCEPT ![c] = recipe]
  /\ \E w \in IF recipe \in Writers THEN {"no", "sent", "performed"} ELSE {"no"} :
       wrote' = [wrote EXCEPT ![c] = w]
  /\ Goto(c, "report")
  /\ UNCHANGED <<spec, disk, lost, lock, request, seen, keys, accepted, answer>>

\* What it says: ok, an error that arms the ledger, one that claims nothing, or
\* an exception that is no FlowReplayError.
Report(c) ==
  /\ pc[c] = "report"
  /\ \/ Goto(c, "unclaimed")
     \/ Goto(c, "raised")
     \/ ~Declared /\ ran[c] # None /\ Goto(c, "ok")
     \/ Declared /\ wrote[c] = "performed" /\ (Goto(c, "ok") \/ Goto(c, "landed"))
  /\ UNCHANGED <<spec, disk, lost, lock, request, seen, keys, accepted, run, answer>>

-------------------------------------------------------------------------------
(* The record, and the answer.                                             *)

Verdicts == {"ok", "landed", "unclaimed", "raised"}

Arms(c) == keys[c] # None /\ pc[c] \in {"ok", "landed"}

AnswerOf(v) == IF v = "ok" THEN "ok" ELSE "error"

Record(c) ==
  /\ Arms(c)
  /\ ledger' = ledger \cup {keys[c]}
  /\ End(c, AnswerOf(pc[c]))
  /\ UNCHANGED <<spec, recipe, bound, lost, request, seen, keys, accepted, run>>

\* record() raises, after its line got there or before.
RecordFails(c) ==
  /\ Arms(c)
  /\ "unwritable" \in Faults
  /\ ledger' \in {ledger, ledger \cup {keys[c]}}
  /\ lost' = lost \cup Forgets(c)
  /\ End(c, "error")
  /\ UNCHANGED <<spec, recipe, bound, request, seen, keys, accepted, run>>

NoRecord(c) ==
  /\ pc[c] \in Verdicts
  /\ ~Arms(c)
  /\ lost' = lost \cup Forgets(c)
  /\ End(c, AnswerOf(pc[c]))
  /\ UNCHANGED <<spec, disk, request, seen, keys, accepted, run>>

-------------------------------------------------------------------------------
(* The environment.                                                        *)

Ended == {"idle", "done"}

\* The task of a call is cancelled where it waits: for the lock, for the human,
\* or in the browser.
Cancel(c) ==
  /\ "cancel" \in Faults
  /\ pc[c] \in {"wait", "confirm", "run", "report"}
  /\ lost' = lost \cup Forgets(c)
  /\ End(c, "error")
  /\ UNCHANGED <<spec, disk, request, seen, keys, accepted, run>>

\* A server dies with its calls and its locks.
Crash(s) ==
  /\ "crash" \in Faults
  /\ LET dying == {c \in Calls : server[c] = s /\ pc[c] \notin Ended}
     IN /\ dying # {}
        /\ pc' = [c \in Calls |-> IF c \in dying THEN "done" ELSE pc[c]]
        /\ answer' = [c \in Calls |-> IF c \in dying THEN "error" ELSE answer[c]]
        /\ lost' = lost \cup UNION {Forgets(c) : c \in dying}
  /\ lock' = [lock EXCEPT ![s] = None]
  /\ UNCHANGED <<spec, disk, request, seen, keys, accepted, run>>

LandsLater(c) ==
  /\ wrote[c] = "sent"
  /\ wrote' = [wrote EXCEPT ![c] = "performed"]
  /\ UNCHANGED <<spec, disk, lost, lock, pc, request, seen, keys, accepted, ran,
                 answer>>

\* The operator's calls, in another process: learn (or a learn that refused a
\* write and dropped the recipe), approve, unapprove.
Operate ==
  /\ \/ /\ recipe' \in (Recipes \cup {None}) \ {recipe}
        /\ UNCHANGED bound
     \/ /\ bound' \in {recipe, None} \ {bound}
        /\ UNCHANGED recipe
  /\ UNCHANGED <<spec, ledger, lost, lock, pc, request, seen, keys, accepted, run, answer>>

-------------------------------------------------------------------------------
Step(c) ==
  \/ LookUp(c)
  \/ Classify(c)
  \/ Preflight(c)
  \/ CheckLedger(c)
  \/ Accept(c)
  \/ Decline(c)
  \/ Gate(c)
  \/ Precheck(c)
  \/ Run(c)
  \/ Report(c)
  \/ Record(c)
  \/ RecordFails(c)
  \/ NoRecord(c)

Next ==
  \/ \E c \in Calls : Call(c) \/ Step(c) \/ Cancel(c) \/ LandsLater(c)
  \/ \E s \in Servers : Crash(s)
  \/ Operate

Spec == Init /\ [][Next]_vars

-------------------------------------------------------------------------------
(* Properties                                                              *)

TypeOK ==
  /\ spec \in {"read", "write", "prechecked"}
  /\ recipe \in Recipes \cup {None}
  /\ bound \in Recipes \cup {None}
  /\ ledger \subseteq Keys
  /\ lost \subseteq [recipe : Recipes \cup {None}, args : Args]
  /\ lock \in [Servers -> Calls \cup {None}]
  /\ pc \in [Calls -> {"idle", "health", "classify", "wait", "ledger",
                       "confirm", "gate", "run", "report", "done"} \cup Verdicts]
  /\ server \in [Calls -> Servers \cup {None}]
  /\ args \in [Calls -> Args \cup {None}]
  /\ seen \in [Calls -> Recipes \cup {None}]
  /\ keys \in [Calls -> Keys \cup {None}]
  /\ accepted \in [Calls -> BOOLEAN]
  /\ ran \in [Calls -> Recipes \cup {None}]
  /\ wrote \in [Calls -> {"no", "sent", "performed"}]
  /\ answer \in [Calls -> {"none", "already_done", "ok", "error"}]

\* A tool call sends a write only after a human accepted it, on a server that
\* exposes writes, unless the recipe it was listed with as a read was replaced
\* by one that writes while the call was under way.
HumanAccepts ==
  \A c \in Calls : wrote[c] # "no" =>
    \/ accepted[c] /\ server[c] \in Exposing
    \/ ~Declared /\ ran[c] # seen[c]

\* The rail sends the same write (the same keys) twice in one server only if
\* the record of the first was lost, or a call ran another recipe than the one
\* its keys were computed from.
RepeatNeedsLoss ==
  \A c, d \in Calls :
    /\ c # d
    /\ server[c] = server[d]
    /\ Declared
    /\ wrote[c] # "no" /\ wrote[d] # "no"
    /\ SentKeys(c) = SentKeys(d)
    => \/ SentKeys(c) \in lost
       \/ keys[c] # SentKeys(c)
       \/ keys[d] # SentKeys(d)

\* What the ledger has, or an "already_done" is about, is the key of a call whose
\* write was performed, unless a precheck answered for it.
LedgerTrue ==
  \A k \in ledger :
    \E c \in Calls : wrote[c] = "performed" /\ (keys[c] = k \/ spec = "prechecked")
===============================================================================
