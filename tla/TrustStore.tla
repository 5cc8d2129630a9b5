------------------------------- MODULE TrustStore -------------------------------
(***************************************************************************)
(* A flow's cached recipe and its trust sidecar on disk, and the processes *)
(* that share them: replays, learn, approve, unapprove, mark, release and  *)
(* the audit judge, each one call in a process of its own.  The sidecar is *)
(* read without a lock and rewritten under one (_update_meta); the recipe  *)
(* is read and replaced with no lock at all.                               *)
(***************************************************************************)
EXTENDS TrustMeta, Sequences, FiniteSets

CONSTANTS
  Procs,   \* the processes; the authors of the recipes they learn
  First,   \* the learn that authored the recipe the flow starts with
  Ops,     \* the calls a process may make
  Faults   \* what may go wrong

AllOps == {"replay", "replay_unapproved", "learn", "approve", "unapprove", "mark",
           "release", "audit"}
AllFaults ==
  {"crash",       \* a process is killed
   "wedge",       \* a process hangs while it holds the lock
   "degrade",     \* the lock is not acquired in time, or cannot be opened
   "unreadable",  \* the sidecar cannot be read just now
   "unwritable",  \* the sidecar cannot be written just now
   "corrupt"}     \* something destroys the sidecar's contents

ASSUME AuthorsAssumption == Authors = Procs \cup {First} /\ First \notin Procs
ASSUME NoneAssumption == None \notin Authors
ASSUME OpsAssumption == Ops \subseteq AllOps /\ Faults \subseteq AllFaults

VARIABLES
  recipe,    \* <key>.json
  file,      \* <key>.meta.json: absent, there, or not a meta
  disk,      \* what it says, Virgin if it says nothing
  lock,      \* the process that holds <key>.meta.lock
  blessed,   \* history: recipes an operator's approve has read
  condemned, \* history: a quarantine was written and no release since
  honoured,  \* history: no call went on without the lock, and the file stayed intact
  \* the local state of each call
  pc,
  op,
  meta,      \* the sidecar as last read
  saw,       \* the recipe its decision is made on
  used,      \* the recipe it acts on
  todo       \* the updates it has left to make

shared == <<recipe, file, disk, lock, blessed, condemned, honoured>>
local == <<op, meta, saw, used, todo>>
vars == <<shared, pc, local>>

Step1 == [origin |-> First, marked |-> FALSE]

Init ==
  /\ \/ /\ recipe = NoRecipe
        /\ file = "absent"
        /\ disk = Virgin
     \/ /\ recipe = Step1
        /\ file = "there"
        /\ \/ disk = Apply(Learn(First, TRUE), Virgin)
           \/ disk = Apply(Approve(Step1), Apply(Learn(First, TRUE), Virgin))
  /\ lock = None
  /\ blessed = IF disk.approved THEN {Step1} ELSE {}
  /\ condemned = FALSE
  /\ honoured = TRUE
  /\ pc = [p \in Procs |-> "idle"]
  /\ op = [p \in Procs |-> "none"]
  /\ meta = [p \in Procs |-> Virgin]
  /\ saw = [p \in Procs |-> NoRecipe]
  /\ used = [p \in Procs |-> NoRecipe]
  /\ todo = [p \in Procs |-> <<>>]

Goto(p, label) == pc' = [pc EXCEPT ![p] = label]

-------------------------------------------------------------------------------
(* A call begins.                                                          *)

Entry(o) ==
  CASE o \in {"replay", "replay_unapproved", "release", "audit"} -> "read"
    [] o = "learn" -> "author"
    [] o \in {"approve", "unapprove", "mark"} -> "bind"

Start(p) ==
  /\ pc[p] = "idle"
  /\ \E o \in Ops :
       /\ op' = [op EXCEPT ![p] = o]
       /\ Goto(p, Entry(o))
  /\ UNCHANGED <<shared, meta, saw, used, todo>>

-------------------------------------------------------------------------------
(* Reading the sidecar: before anything else, or inside an update.         *)

\* A process that found garbage moves it aside first and then writes a
\* quarantine in its place, holding the lock or not.
SetAside(p) ==
  /\ file = "corrupt"
  /\ \/ pc[p] = "read" /\ Goto(p, "poison")
     \/ pc[p] = "load" /\ Goto(p, "poison_load")
  /\ \/ file' = "absent"
     \/ "unwritable" \in Faults /\ UNCHANGED file
  /\ UNCHANGED <<recipe, disk, lock, blessed, condemned, honoured, local>>

Poison(p) ==
  /\ \/ pc[p] = "poison" /\ Goto(p, "decide")
     \/ pc[p] = "poison_load" /\ Goto(p, "save")
  /\ meta' = [meta EXCEPT ![p] = Poisoned]
  /\ \/ /\ file' = "there"
        /\ disk' = Poisoned
        /\ condemned' = TRUE
     \/ /\ "unwritable" \in Faults
        /\ UNCHANGED <<file, disk, condemned>>
  /\ UNCHANGED <<recipe, lock, blessed, honoured, op, saw, used, todo>>

\* A call's own look at the sidecar takes no lock; one it cannot read reads as
\* a quarantine.
ReadMeta(p) ==
  /\ pc[p] = "read"
  /\ \/ file # "corrupt" /\ meta' = [meta EXCEPT ![p] = disk]
     \/ /\ "unreadable" \in Faults
        /\ file # "absent"
        /\ meta' = [meta EXCEPT ![p] = Poisoned]
  /\ Goto(p, "decide")
  /\ UNCHANGED <<shared, op, saw, used, todo>>

-------------------------------------------------------------------------------
(* _update_meta: lock, load, mutate, save, unlock.                         *)

\* Fault: the lock is taken whoever holds it.
AcquireHeld(p) ==
  /\ pc[p] = "lock"
  /\ lock' = p
  /\ Goto(p, "load")
  /\ UNCHANGED <<recipe, file, disk, blessed, condemned, honoured, local>>

Acquire(p) ==
  /\ pc[p] = "lock"
  /\ lock = None
  /\ lock' = p
  /\ Goto(p, "load")
  /\ UNCHANGED <<recipe, file, disk, blessed, condemned, honoured, local>>

\* Fault: only a lock file that cannot be opened is done without.
WaitsWithoutDeadline(p) ==
  /\ pc[p] = "lock"
  /\ "degrade" \in Faults
  /\ lock = None
  /\ honoured' = FALSE
  /\ Goto(p, "load")
  /\ UNCHANGED <<recipe, file, disk, lock, blessed, condemned, local>>

\* The deadline passes, or the lock file cannot be opened: it goes on unlocked.
ProceedUnlocked(p) ==
  /\ pc[p] = "lock"
  /\ \/ "degrade" \in Faults
     \/ lock # None /\ pc[lock] = "wedged"
  /\ honoured' = FALSE
  /\ Goto(p, "load")
  /\ UNCHANGED <<recipe, file, disk, lock, blessed, condemned, local>>

Load(p) ==
  /\ pc[p] = "load"
  /\ file # "corrupt"
  /\ meta' = [meta EXCEPT ![p] = disk]
  /\ Goto(p, "save")
  /\ UNCHANGED <<shared, op, saw, used, todo>>

Unlocked(p) == IF lock = p THEN None ELSE lock

\* On to the call's next update, if it has one.
Proceed(p) ==
  /\ lock' = Unlocked(p)
  /\ todo' = [todo EXCEPT ![p] = Tail(@)]
  /\ Goto(p, IF Len(todo[p]) > 1 THEN "lock" ELSE "done")
  /\ UNCHANGED <<op, meta, saw, used>>

\* An update that could not be made ends the call with an error, unless it only
\* records a run.
GiveUp(p) ==
  \/ /\ Head(todo[p]).kind = "record"
     /\ Proceed(p)
  \/ /\ Head(todo[p]).kind # "record"
     /\ lock' = Unlocked(p)
     /\ Goto(p, "raised")
     /\ UNCHANGED local

\* Fault: an update takes a sidecar it cannot read for a new one.
LoadFailsOpen(p) ==
  /\ "unreadable" \in Faults
  /\ pc[p] = "load"
  /\ file # "absent"
  /\ meta' = [meta EXCEPT ![p] = Virgin]
  /\ Goto(p, "save")
  /\ UNCHANGED <<shared, op, saw, used, todo>>

LoadFails(p) ==
  /\ "unreadable" \in Faults
  /\ pc[p] = "load"
  /\ file # "absent"
  /\ GiveUp(p)
  /\ UNCHANGED <<recipe, file, disk, blessed, condemned, honoured>>

Save(p) ==
  /\ pc[p] = "save"
  /\ file' = "there"
  /\ disk' = Apply(Head(todo[p]), meta[p])
  /\ condemned' = CASE Head(todo[p]).kind = "quarantine" -> TRUE
                    [] Head(todo[p]).kind = "release" -> FALSE
                    [] OTHER -> condemned
  /\ Proceed(p)
  /\ UNCHANGED <<recipe, blessed, honoured>>

SaveFails(p) ==
  /\ "unwritable" \in Faults
  /\ pc[p] = "save"
  /\ GiveUp(p)
  /\ UNCHANGED <<recipe, file, disk, blessed, condemned, honoured>>

-------------------------------------------------------------------------------
(* replay: pre-flight on one read of the recipe, run_cached on another.    *)

\* Fault: an approval is not bound to a recipe.
RefusesUnbound(m, r, require_approved) ==
  \/ m.quarantine # "none"
  \/ require_approved /\ ~m.approved

\* The gates of _preflight_row that read the sidecar.
Refuses(m, r, require_approved) ==
  \/ m.quarantine # "none"
  \/ require_approved /\ ~m.approved
  \/ m.approved /\ r # NoRecipe /\ m.bound # r

IsReplay(p) == op[p] \in {"replay", "replay_unapproved"}

Preflight(p) ==
  /\ pc[p] = "decide"
  /\ IsReplay(p)
  /\ saw' = [saw EXCEPT ![p] = recipe]
  /\ Goto(p, IF Refuses(meta[p], recipe, op[p] = "replay") THEN "raised" ELSE "run")
  /\ UNCHANGED <<shared, op, meta, used, todo>>

\* The run ends ok or failed, or its value breaks the contracts it has and the
\* flow is quarantined first; every run is then recorded.
RunCached(p) ==
  /\ pc[p] = "run"
  /\ used' = [used EXCEPT ![p] = recipe]
  /\ \/ todo' = [todo EXCEPT ![p] = <<Update("record")>>]
     \/ /\ recipe # NoRecipe
        /\ meta[p].baseline # None
        /\ todo' = [todo EXCEPT ![p] = <<Update("quarantine"), Update("record")>>]
  /\ Goto(p, "lock")
  /\ UNCHANGED <<shared, op, meta, saw>>

-------------------------------------------------------------------------------
(* learn: the new recipe is on disk before the sidecar hears of it.        *)

Author(p) ==
  /\ pc[p] = "author"
  /\ recipe' = [origin |-> p, marked |-> FALSE]
  /\ Goto(p, "cached")
  /\ UNCHANGED <<file, disk, lock, blessed, condemned, honoured, local>>

\* Nothing worth caching; after an unattributed write the old recipe goes too.
AuthorFails(p) ==
  /\ pc[p] = "author"
  /\ \/ UNCHANGED recipe /\ Goto(p, "read")
     \/ recipe' = NoRecipe /\ Goto(p, "done")
  /\ UNCHANGED <<file, disk, lock, blessed, condemned, honoured, local>>

\* learn reads back what is cached: its own recipe unless another call was there.
ReadBack(p) ==
  /\ pc[p] = "cached"
  /\ used' = [used EXCEPT ![p] = recipe]
  /\ Goto(p, "read")
  /\ UNCHANGED <<shared, op, meta, saw, todo>>

\* `was_approved`, read without the lock, decides whether the update reseeds.
Rebase(p) ==
  /\ pc[p] = "decide"
  /\ op[p] = "learn"
  /\ \/ /\ used[p] # NoRecipe
        /\ todo' = [todo EXCEPT ![p] = <<Learn(p, ~meta[p].approved)>>]
        /\ Goto(p, "lock")
     \/ /\ used[p] = NoRecipe
        /\ Goto(p, "done")
        /\ UNCHANGED todo
  /\ UNCHANGED <<shared, op, meta, saw, used>>

-------------------------------------------------------------------------------
(* The operator's calls.                                                   *)

\* approve, unapprove and mark_step refuse a flow that has no recipe.
NotLearned(p) ==
  /\ pc[p] = "bind"
  /\ recipe = NoRecipe
  /\ Goto(p, "raised")
  /\ UNCHANGED <<shared, local>>

BindApproval(p) ==
  /\ pc[p] = "bind"
  /\ op[p] = "approve"
  /\ recipe # NoRecipe
  /\ used' = [used EXCEPT ![p] = recipe]
  /\ blessed' = blessed \cup {recipe}
  /\ todo' = [todo EXCEPT ![p] = <<Approve(recipe)>>]
  /\ Goto(p, "lock")
  /\ UNCHANGED <<recipe, file, disk, lock, condemned, honoured, op, meta, saw>>

Unapprove(p) ==
  /\ pc[p] = "bind"
  /\ op[p] = "unapprove"
  /\ recipe # NoRecipe
  /\ todo' = [todo EXCEPT ![p] = <<Update("unapprove")>>]
  /\ Goto(p, "lock")
  /\ UNCHANGED <<shared, op, meta, saw, used>>

\* mark_step reads the recipe, ...
ReadForMark(p) ==
  /\ pc[p] = "bind"
  /\ op[p] = "mark"
  /\ recipe # NoRecipe
  /\ saw' = [saw EXCEPT ![p] = recipe]
  /\ Goto(p, "put")
  /\ UNCHANGED <<shared, op, meta, used, todo>>

\* ... and puts the recipe it read back, with the human's verdict on a step.
PutMarked(p) ==
  /\ pc[p] = "put"
  /\ \E writes \in BOOLEAN :
       recipe' = IF saw[p].marked = writes THEN recipe ELSE [saw[p] EXCEPT !.marked = writes]
  /\ Goto(p, "done")
  /\ UNCHANGED <<file, disk, lock, blessed, condemned, honoured, local>>

\* release clears a quarantine if its own look, without the lock, found one.
Release(p) ==
  /\ pc[p] = "decide"
  /\ op[p] = "release"
  /\ \/ /\ meta[p].quarantine = "none"
        /\ Goto(p, "done")
        /\ UNCHANGED todo
     \/ /\ meta[p].quarantine # "none"
        /\ Goto(p, "lock")
        /\ todo' = [todo EXCEPT ![p] = <<Update("release")>>]
  /\ UNCHANGED <<shared, op, meta, saw, used>>

\* The audit judge passes over a flow that is quarantined already, and condemns
\* another or finds nothing wrong with it.
Judge(p) ==
  /\ pc[p] = "decide"
  /\ op[p] = "audit"
  /\ \/ /\ meta[p].quarantine = "none"
        /\ Goto(p, "lock")
        /\ todo' = [todo EXCEPT ![p] = <<Update("quarantine")>>]
     \/ /\ Goto(p, "done")
        /\ UNCHANGED todo
  /\ UNCHANGED <<shared, op, meta, saw, used>>

-------------------------------------------------------------------------------
(* The environment.                                                        *)

Ended == {"idle", "done", "raised", "dead", "wedged"}

\* The operating system releases the lock of a process that dies.
Crash(p) ==
  /\ "crash" \in Faults
  /\ pc[p] \notin Ended
  /\ Goto(p, "dead")
  /\ lock' = Unlocked(p)
  /\ UNCHANGED <<recipe, file, disk, blessed, condemned, honoured, local>>

Wedge(p) ==
  /\ "wedge" \in Faults
  /\ lock = p
  /\ pc[p] \notin Ended
  /\ Goto(p, "wedged")
  /\ UNCHANGED <<shared, local>>

CorruptSidecar ==
  /\ "corrupt" \in Faults
  /\ file = "there"
  /\ file' = "corrupt"
  /\ disk' = Virgin
  /\ honoured' = FALSE
  /\ UNCHANGED <<recipe, lock, blessed, condemned, pc, local>>

-------------------------------------------------------------------------------
Updating(p) ==
  \/ Acquire(p)
  \/ ProceedUnlocked(p)
  \/ Load(p)
  \/ LoadFails(p)
  \/ Save(p)
  \/ SaveFails(p)

Reading(p) ==
  \/ SetAside(p)
  \/ Poison(p)
  \/ ReadMeta(p)

Deciding(p) ==
  \/ Preflight(p)
  \/ RunCached(p)
  \/ Author(p)
  \/ AuthorFails(p)
  \/ ReadBack(p)
  \/ Rebase(p)
  \/ NotLearned(p)
  \/ BindApproval(p)
  \/ Unapprove(p)
  \/ ReadForMark(p)
  \/ PutMarked(p)
  \/ Release(p)
  \/ Judge(p)

Step(p) == Reading(p) \/ Updating(p) \/ Deciding(p)

Next ==
  \/ \E p \in Procs : Start(p) \/ Step(p) \/ Crash(p) \/ Wedge(p)
  \/ CorruptSidecar

Spec == Init /\ [][Next]_vars

\* A call that runs keeps taking steps; nobody has to make one.
FairSpec == Spec /\ \A p \in Procs : WF_vars(Step(p))

-------------------------------------------------------------------------------
(* Properties                                                              *)

Labels == Ended \cup {"read", "decide", "poison", "poison_load", "lock", "load", "save",
                      "run", "author", "cached", "bind", "put"}

TypeOK ==
  /\ recipe \in Recipes
  /\ file \in {"absent", "there", "corrupt"}
  /\ disk \in Metas
  /\ lock \in Procs \cup {None}
  /\ blessed \subseteq Recipes
  /\ condemned \in BOOLEAN
  /\ honoured \in BOOLEAN
  /\ pc \in [Procs -> Labels]
  /\ op \in [Procs -> AllOps \cup {"none"}]
  /\ meta \in [Procs -> Metas]
  /\ saw \in [Procs -> Recipes]
  /\ used \in [Procs -> Recipes]
  /\ todo \in [Procs -> Seq(Updates)]

\* Once a quarantine is written every later read of the sidecar refuses, until
\* an operator's release: no run record, learn or approval undoes it, as long as
\* the lock is honoured and the file is intact.
QuarantineHolds == honoured /\ condemned => disk.quarantine # "none"

\* A replay that asks for approval runs only recipes an operator's approve has
\* read, unless the recipe is replaced between its pre-flight and its run.
RunsOnlyApproved ==
  \A p \in Procs :
    op[p] = "replay" /\ used[p] # NoRecipe /\ used[p] = saw[p] => used[p] \in blessed

\* A call that begins ends, whatever another process does to the lock.
CallsEnd == \A p \in Procs : pc[p] \notin Ended ~> pc[p] \in Ended

Sidecar == INSTANCE AtomicSidecar WITH meta <- disk

\* Updates of the sidecar are atomic and none is lost, as long as the lock is
\* honoured and the file is intact.
ImplementsSidecar == Sidecar!Spec

-------------------------------------------------------------------------------
(* What the code does not keep: known limits, stated for the record.        *)

\* An approval gate bound to the reviewed steps: fails if a learn replaces the recipe
\* between a replay's pre-flight and its run.
NeverRunsUnapproved ==
  \A p \in Procs : op[p] = "replay" /\ used[p] # NoRecipe => used[p] \in blessed

\* A read pin never outlives the cached recipe it was compiled for: fails if two
\* learns of a flow overlap.
PinOfTheRecipe ==
  (\A p \in Procs : pc[p] \in Ended) /\ recipe # NoRecipe =>
    disk.pin \in {None, recipe.origin}
===============================================================================
