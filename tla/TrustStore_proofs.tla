--------------------------- MODULE TrustStore_proofs ---------------------------
(***************************************************************************)
(* Proofs about TrustStore, for any number of processes and calls: its     *)
(* type correctness and its approval gate, and that updates of the sidecar *)
(* are atomic and a quarantine sticks as long as the lock is honoured and  *)
(* the file intact.                                                        *)
(***************************************************************************)
EXTENDS TrustStore, TLAPS

(* ------------------------------- what updates do ------------------------------- *)

\* Every update of a meta is a meta.
LEMMA ApplyType == ASSUME NEW u \in Updates, NEW m \in Metas PROVE Apply(u, m) \in Metas
<1>0. u.kind \in {"approve", "unapprove", "learn", "quarantine", "release", "record"}
      /\ u.steps \in Recipes /\ u.author \in Authors \cup {None}
  BY DEF Updates
<1>1. CASE u.kind = "approve"
  BY <1>1, <1>0 DEF Apply, Metas, Quarantines
<1>2. CASE u.kind = "unapprove"
  BY <1>2, <1>0 DEF Apply, Metas, Quarantines
<1>3. CASE u.kind = "learn"
  BY <1>3, <1>0 DEF Apply, Metas, Quarantines
<1>4. CASE u.kind = "quarantine"
  BY <1>4, <1>0 DEF Apply, Metas, Quarantines
<1>5. CASE u.kind = "release"
  BY <1>5, <1>0 DEF Apply, Metas, Quarantines
<1>6. CASE u.kind = "record"
  BY <1>6, <1>0 DEF Apply, Metas, Quarantines
<1> QED
  BY <1>0, <1>1, <1>2, <1>3, <1>4, <1>5, <1>6

\* What an update keeps of the approval.
LEMMA ApplyBinding ==
  ASSUME NEW u \in Updates, NEW m \in Metas
  PROVE  /\ u.kind = "approve" => Apply(u, m).bound = u.steps
         /\ u.kind # "approve" => /\ Apply(u, m).bound = m.bound
                                  /\ Apply(u, m).approved => m.approved
<1>0. u.kind \in {"approve", "unapprove", "learn", "quarantine", "release", "record"}
  BY DEF Updates
<1> QED
  BY <1>0 DEF Apply, Metas

\* What an update keeps of a quarantine.
LEMMA ApplyQuarantine ==
  ASSUME NEW u \in Updates, NEW m \in Metas
  PROVE  /\ u.kind = "quarantine" => Apply(u, m).quarantine # "none"
         /\ u.kind \notin {"quarantine", "release"} => Apply(u, m).quarantine = m.quarantine
<1>0. u.kind \in {"approve", "unapprove", "learn", "quarantine", "release", "record"}
  BY DEF Updates
<1> QED
  BY <1>0 DEF Apply, Metas

\* The metas and updates the writers build are metas and updates.
LEMMA Constructors ==
  /\ Virgin \in Metas /\ Poisoned \in Metas
  /\ \A k \in {"approve", "unapprove", "learn", "quarantine", "release", "record"} :
       Update(k) \in Updates /\ Update(k).kind = k
  /\ \A r \in Recipes : Approve(r) \in Updates /\ Approve(r).kind = "approve" /\ Approve(r).steps = r
  /\ \A a \in Authors, b \in BOOLEAN : Learn(a, b) \in Updates /\ Learn(a, b).kind = "learn"
<1>1. NoRecipe \in Recipes
  BY DEF NoRecipe, Recipes
<1>2. Virgin \in Metas
  BY <1>1 DEF Virgin, Metas, Quarantines
<1>3. Poisoned \in Metas
  BY <1>2 DEF Poisoned, Metas, Quarantines
<1>4. \A k \in {"approve", "unapprove", "learn", "quarantine", "release", "record"} :
       Update(k) \in Updates /\ Update(k).kind = k
  BY <1>1 DEF Update, Updates
<1>5. \A r \in Recipes : Approve(r) \in Updates /\ Approve(r).kind = "approve" /\ Approve(r).steps = r
  BY <1>4 DEF Approve, Update, Updates
<1>6. \A a \in Authors, b \in BOOLEAN : Learn(a, b) \in Updates /\ Learn(a, b).kind = "learn"
  BY <1>4 DEF Learn, Update, Updates
<1> QED
  BY <1>2, <1>3, <1>4, <1>5, <1>6

(* ------------------------------ type correctness ------------------------------ *)

InUpdate == {"lock", "load", "poison_load", "save"}

\* A call inside _update_meta has an update to make.
HasUpdate == \A p \in Procs : pc[p] \in InUpdate => todo[p] # <<>>

TypeInv == TypeOK /\ HasUpdate

\* Every start of the store satisfies the type invariant.
LEMMA InitTyped == Init => TypeInv
<1> SUFFICES ASSUME Init PROVE TypeInv
  OBVIOUS
<1>1. First \in Authors /\ Procs \subseteq Authors
  BY AuthorsAssumption
<1>2. Step1 \in Recipes /\ NoRecipe \in Recipes
  BY <1>1 DEF Step1, NoRecipe, Recipes
<1>3. /\ Learn(First, TRUE) \in Updates /\ Approve(Step1) \in Updates
      /\ Virgin \in Metas
  BY <1>1, <1>2, Constructors
<1>4. Apply(Learn(First, TRUE), Virgin) \in Metas
  BY <1>3, ApplyType
<1>5. Apply(Approve(Step1), Apply(Learn(First, TRUE), Virgin)) \in Metas
  BY <1>3, <1>4, ApplyType
<1>6. disk \in Metas /\ recipe \in Recipes /\ file \in {"absent", "there", "corrupt"}
  BY <1>2, <1>3, <1>4, <1>5 DEF Init
<1>7. blessed \subseteq Recipes
  BY <1>2 DEF Init
<1>8. pc = [p \in Procs |-> "idle"] /\ todo = [p \in Procs |-> <<>>]
  BY DEF Init
<1>9. TypeOK
  <2>1. /\ lock = None /\ condemned = FALSE /\ honoured = TRUE
        /\ op = [p \in Procs |-> "none"] /\ meta = [p \in Procs |-> Virgin]
        /\ saw = [p \in Procs |-> NoRecipe] /\ used = [p \in Procs |-> NoRecipe]
    BY DEF Init
  <2>2. pc \in [Procs -> Labels] /\ todo \in [Procs -> Seq(Updates)]
    BY <1>8 DEF Labels, Ended
  <2> QED
    BY <1>2, <1>3, <1>6, <1>7, <2>1, <2>2 DEF TypeOK
<1> QED
  BY <1>8, <1>9 DEF TypeInv, HasUpdate, InUpdate

\* A step that ends an update, or gives it up, leaves the lock and the call typed.
LEMMA ProceedTyped ==
  ASSUME TypeInv, NEW p \in Procs, pc[p] \in InUpdate, Proceed(p) \/ GiveUp(p)
  PROVE  /\ lock' \in Procs \cup {None}
         /\ pc' \in [Procs -> Labels]
         /\ todo' \in [Procs -> Seq(Updates)]
         /\ HasUpdate'
         /\ UNCHANGED <<op, meta, saw, used>>
<1>1. todo[p] \in Seq(Updates) /\ todo[p] # <<>>
  BY DEF TypeInv, TypeOK, HasUpdate
<1>2. /\ Tail(todo[p]) \in Seq(Updates)
      /\ Len(todo[p]) > 1 => Tail(todo[p]) # <<>>
  <2> DEFINE s == todo[p]
  <2>1. s \in Seq(Updates) /\ s # <<>>
    BY <1>1
  <2> HIDE DEF s
  <2>2. Tail(s) \in Seq(Updates)
    BY <2>1
  <2>3. Len(s) > 1 => Len(Tail(s)) > 0
    BY <2>1
  <2> QED
    BY <2>2, <2>3 DEF s
<1>3. lock' \in Procs \cup {None}
  BY DEF Proceed, GiveUp, Unlocked, TypeInv, TypeOK
<1>4. CASE Proceed(p)
  <2>1. pc' = [pc EXCEPT ![p] = IF Len(todo[p]) > 1 THEN "lock" ELSE "done"]
        /\ todo' = [todo EXCEPT ![p] = Tail(todo[p])]
        /\ UNCHANGED <<op, meta, saw, used>>
    BY <1>4 DEF Proceed, Goto
  <2>2. pc \in [Procs -> Labels] /\ todo \in [Procs -> Seq(Updates)]
    BY DEF TypeInv, TypeOK
  <2>3. pc' \in [Procs -> Labels] /\ todo' \in [Procs -> Seq(Updates)]
    BY <1>2, <2>1, <2>2 DEF Labels, Ended
  <2>4. HasUpdate'
    BY <1>2, <2>1, <2>2 DEF TypeInv, HasUpdate, InUpdate
  <2> QED
    BY <1>3, <2>1, <2>3, <2>4
<1>5. CASE ~Proceed(p)
  BY <1>3, <1>5 DEF GiveUp, Goto, local, TypeInv, TypeOK, HasUpdate, InUpdate, Labels, Ended
<1> QED
  BY <1>4, <1>5

\* Saving writes a meta.
LEMMA SaveTyped ==
  ASSUME TypeInv, NEW p \in Procs, pc[p] = "save"
  PROVE  Head(todo[p]) \in Updates /\ Apply(Head(todo[p]), meta[p]) \in Metas
<1>1. todo[p] \in Seq(Updates) /\ todo[p] # <<>> /\ meta[p] \in Metas
  BY DEF TypeInv, TypeOK, HasUpdate, InUpdate
<1>2. Head(todo[p]) \in Updates
  BY <1>1
<1> QED
  BY <1>1, <1>2, ApplyType

\* Each of the calls' own steps outside _update_meta keeps every type.
LEMMA DecidingTyped ==
  ASSUME TypeInv, NEW p \in Procs, Deciding(p) PROVE TypeInv'
<1> USE DEF TypeInv, TypeOK, HasUpdate, InUpdate, Labels, Ended, Goto, shared, local
<1>0. Authors = Procs \cup {First}
  BY AuthorsAssumption
<1>1. CASE Preflight(p)
  BY <1>1 DEF Preflight
<1>2. CASE RunCached(p)
  <2>1. <<Update("record")>> \in Seq(Updates) \ {<<>>}
        /\ <<Update("quarantine"), Update("record")>> \in Seq(Updates) \ {<<>>}
    BY Constructors
  <2> QED
    BY <1>2, <2>1 DEF RunCached
<1>3. CASE Author(p)
  <2>1. [origin |-> p, marked |-> FALSE] \in Recipes
    BY <1>0 DEF Recipes
  <2> QED
    BY <1>3, <2>1 DEF Author
<1>4. CASE AuthorFails(p)
  <2>1. NoRecipe \in Recipes
    BY DEF NoRecipe, Recipes
  <2> QED
    BY <1>4, <2>1 DEF AuthorFails
<1>5. CASE ReadBack(p)
  BY <1>5 DEF ReadBack
<1>6. CASE Rebase(p)
  <2>1. meta[p].approved \in BOOLEAN
    BY DEF Metas
  <2> DEFINE u == Learn(p, ~meta[p].approved)
  <2>2. u \in Updates
    BY <1>0, <2>1, Constructors
  <2>3. /\ \/ todo' = [todo EXCEPT ![p] = <<u>>] /\ pc' = [pc EXCEPT ![p] = "lock"]
           \/ todo' = todo /\ pc' = [pc EXCEPT ![p] = "done"]
        /\ UNCHANGED <<recipe, file, disk, lock, blessed, condemned, honoured, op, meta, saw, used>>
    BY <1>6 DEF Rebase
  <2> HIDE DEF u
  <2>4. <<u>> \in Seq(Updates) /\ <<u>> # <<>>
    BY <2>2
  <2> QED
    BY <2>3, <2>4
<1>8. CASE NotLearned(p)
  BY <1>8 DEF NotLearned
<1>9. CASE BindApproval(p)
  <2>1. Approve(recipe) \in Updates
    BY Constructors
  <2> DEFINE t == <<Approve(recipe)>>
  <2>3. t \in Seq(Updates) /\ t # <<>>
    BY <2>1
  <2>4. todo' = [todo EXCEPT ![p] = t] /\ pc' = [pc EXCEPT ![p] = "lock"]
        /\ used' = [used EXCEPT ![p] = recipe] /\ blessed' = blessed \cup {recipe}
        /\ UNCHANGED <<recipe, file, disk, lock, condemned, honoured, op, meta, saw>>
    BY <1>9 DEF BindApproval
  <2> HIDE DEF t
  <2> QED
    BY <2>3, <2>4
<1>10. CASE Unapprove(p)
  <2>1. <<Update("unapprove")>> \in Seq(Updates) \ {<<>>}
    BY Constructors
  <2> QED
    BY <1>10, <2>1 DEF Unapprove
<1>11. CASE ReadForMark(p)
  BY <1>11 DEF ReadForMark
<1>12. CASE PutMarked(p)
  <2>1. \A w \in BOOLEAN : [saw[p] EXCEPT !.marked = w] \in Recipes
    BY DEF Recipes
  <2> QED
    BY <1>12, <2>1 DEF PutMarked
<1>13. CASE Release(p)
  <2>1. <<Update("release")>> \in Seq(Updates) \ {<<>>}
    BY Constructors
  <2> QED
    BY <1>13, <2>1 DEF Release
<1>14. CASE Judge(p)
  <2>1. <<Update("quarantine")>> \in Seq(Updates) \ {<<>>}
    BY Constructors
  <2> QED
    BY <1>14, <2>1 DEF Judge
<1> QED
  BY <1>1, <1>2, <1>3, <1>4, <1>5, <1>6, <1>8, <1>9, <1>10, <1>11, <1>12, <1>13, <1>14
  DEF Deciding

\* Every step of the store keeps every type.
LEMMA StepTyped == TypeInv /\ [Next]_vars => TypeInv'
<1> SUFFICES ASSUME TypeInv, [Next]_vars PROVE TypeInv'
  OBVIOUS
<1> USE DEF Goto, shared, local
<1>0. Virgin \in Metas /\ Poisoned \in Metas
  BY Constructors
<1>1. ASSUME NEW p \in Procs, Start(p) PROVE TypeInv'
  <2>1. PICK o \in AllOps : op' = [op EXCEPT ![p] = o] /\ pc' = [pc EXCEPT ![p] = Entry(o)]
    BY <1>1, OpsAssumption DEF Start
  <2>2. Entry(o) \in {"read", "author", "bind"}
    BY DEF Entry, AllOps
  <2> QED
    BY <1>1, <2>1, <2>2 DEF Start, TypeInv, TypeOK, HasUpdate, InUpdate, Labels, Ended
<1>2. ASSUME NEW p \in Procs, SetAside(p) PROVE TypeInv'
  BY <1>2 DEF SetAside, TypeInv, TypeOK, HasUpdate, InUpdate, Labels, Ended
<1>3. ASSUME NEW p \in Procs, Poison(p) PROVE TypeInv'
  BY <1>0, <1>3 DEF Poison, TypeInv, TypeOK, HasUpdate, InUpdate, Labels, Ended
<1>4. ASSUME NEW p \in Procs, ReadMeta(p) PROVE TypeInv'
  BY <1>0, <1>4 DEF ReadMeta, TypeInv, TypeOK, HasUpdate, InUpdate, Labels, Ended
<1>5. ASSUME NEW p \in Procs, Acquire(p) \/ ProceedUnlocked(p) \/ Load(p) PROVE TypeInv'
  BY <1>5 DEF Acquire, ProceedUnlocked, Load, TypeInv, TypeOK, HasUpdate, InUpdate, Labels, Ended
<1>6. ASSUME NEW p \in Procs, LoadFails(p) \/ SaveFails(p) PROVE TypeInv'
  <2>1. pc[p] \in InUpdate /\ GiveUp(p) /\ UNCHANGED <<recipe, file, disk, blessed, condemned, honoured>>
    BY <1>6 DEF LoadFails, SaveFails, InUpdate
  <2> QED
    BY <2>1, ProceedTyped DEF TypeInv, TypeOK
<1>7. ASSUME NEW p \in Procs, Save(p) PROVE TypeInv'
  <2>1. pc[p] \in InUpdate /\ Proceed(p) /\ UNCHANGED <<recipe, blessed, honoured>>
    BY <1>7 DEF Save, InUpdate
  <2>2. disk' \in Metas /\ file' = "there" /\ condemned' \in BOOLEAN
    BY <1>7, SaveTyped DEF Save, TypeInv, TypeOK
  <2> QED
    BY <2>1, <2>2, ProceedTyped DEF TypeInv, TypeOK
<1>8. ASSUME NEW p \in Procs, Deciding(p) PROVE TypeInv'
  BY <1>8, DecidingTyped
<1>9. ASSUME NEW p \in Procs, Crash(p) \/ Wedge(p) PROVE TypeInv'
  BY <1>9 DEF Crash, Wedge, Unlocked, TypeInv, TypeOK, HasUpdate, InUpdate, Labels, Ended
<1>10. CASE CorruptSidecar
  BY <1>0, <1>10 DEF CorruptSidecar, TypeInv, TypeOK, HasUpdate
<1>11. CASE UNCHANGED vars
  BY <1>11 DEF vars, TypeInv, TypeOK, HasUpdate
<1> QED
  BY <1>1, <1>2, <1>3, <1>4, <1>5, <1>6, <1>7, <1>8, <1>9, <1>10, <1>11
  DEF Next, Step, Reading, Updating

\* The sidecar and every call's view of it keep their types, whatever goes wrong.
THEOREM TypeCorrect == Spec => []TypeOK
<1>1. Spec => []TypeInv
  BY InitTyped, StepTyped, PTL DEF Spec
<1> QED
  BY <1>1, PTL DEF TypeInv

(* ------------------------------ the approval gate ------------------------------ *)

\* An approval in a sidecar, or in one as some call last read it, is of a recipe
\* an operator's approve has read.
Granted(m) == m.approved => m.bound \in blessed

\* So is an approval still to be written.
Blesses(s) == \A i \in DOMAIN s : s[i].kind = "approve" => s[i].steps \in blessed

BeforeRun == {"idle", "read", "poison", "decide", "run"}

Elsewhere == {"author", "cached", "bind", "put"}

\* A replay that passed its pre-flight saw such a recipe, and has run nothing yet.
Gated(p) ==
  /\ op[p] = "replay" => pc[p] \notin Elsewhere
  /\ pc[p] = "idle" \/ (op[p] = "replay" /\ pc[p] \in BeforeRun) => used[p] = NoRecipe
  /\ op[p] = "replay" /\ pc[p] = "run" /\ saw[p] # NoRecipe => saw[p] \in blessed
  /\ op[p] = "replay" /\ used[p] # NoRecipe /\ used[p] = saw[p] => used[p] \in blessed

ApprovalInv ==
  /\ TypeInv
  /\ Granted(disk)
  /\ \A p \in Procs : Granted(meta[p]) /\ Blesses(todo[p]) /\ Gated(p)

\* What a step of call p must show: the others' state is as it was, and an
\* approval only ever adds to the recipes an operator has read.
LEMMA ApprovalFrame ==
  ASSUME ApprovalInv, TypeInv', NEW p \in Procs,
         blessed \subseteq blessed',
         \A q \in Procs \ {p} : /\ pc'[q] = pc[q] /\ op'[q] = op[q] /\ meta'[q] = meta[q]
                                /\ saw'[q] = saw[q] /\ used'[q] = used[q] /\ todo'[q] = todo[q],
         Granted(disk)', Granted(meta[p])', Blesses(todo[p])', Gated(p)'
  PROVE  ApprovalInv'
<1>1. \A q \in Procs \ {p} : Granted(meta[q])'
  BY DEF ApprovalInv, Granted
<1>2. \A q \in Procs \ {p} : Blesses(todo[q])'
  BY DEF ApprovalInv, Blesses
<1>3. \A q \in Procs \ {p} : Gated(q)'
  BY DEF ApprovalInv, Gated
<1> QED
  BY <1>1, <1>2, <1>3 DEF ApprovalInv

\* Every start of the store has only approvals that were granted.
LEMMA InitApproved == Init => ApprovalInv
<1> SUFFICES ASSUME Init PROVE ApprovalInv
  OBVIOUS
<1>1. TypeInv
  BY InitTyped
<1>2. /\ pc = [p \in Procs |-> "idle"] /\ op = [p \in Procs |-> "none"]
      /\ meta = [p \in Procs |-> Virgin] /\ used = [p \in Procs |-> NoRecipe]
      /\ todo = [p \in Procs |-> <<>>]
  BY DEF Init
<1>3. Granted(Virgin)
  BY DEF Granted, Virgin
<1>4. Granted(disk)
  <2>1. Step1 \in Recipes /\ First \in Authors
    BY AuthorsAssumption DEF Step1, Recipes
  <2>2. Learn(First, TRUE) \in Updates /\ Learn(First, TRUE).kind = "learn" /\ Virgin \in Metas
    BY <2>1, Constructors
  <2> DEFINE learned == Apply(Learn(First, TRUE), Virgin)
  <2>3. learned \in Metas /\ ~learned.approved
    BY <2>2, ApplyType, ApplyBinding DEF Virgin
  <2>4. Approve(Step1) \in Updates /\ Approve(Step1).kind = "approve"
        /\ Approve(Step1).steps = Step1
    BY <2>1, Constructors
  <2>5. Apply(Approve(Step1), learned).bound = Step1
    BY <2>3, <2>4, ApplyBinding
  <2>6. disk \in {Virgin, learned, Apply(Approve(Step1), learned)}
    BY DEF Init
  <2>7. disk.approved => blessed = {Step1}
    BY DEF Init
  <2>8. ~Virgin.approved
    BY DEF Virgin
  <2> HIDE DEF learned
  <2> QED
    BY <2>3, <2>5, <2>6, <2>7, <2>8 DEF Granted
<1> QED
  BY <1>1, <1>2, <1>3, <1>4 DEF ApprovalInv, Blesses, Gated

\* An update that ends or is given up leaves nothing unapproved behind.
LEMMA ProceedApproved ==
  ASSUME ApprovalInv, TypeInv', NEW p \in Procs, pc[p] \in InUpdate, Proceed(p) \/ GiveUp(p),
         UNCHANGED blessed, Granted(disk)'
  PROVE  ApprovalInv'
<1>1. /\ UNCHANGED <<op, meta, saw, used>>
      /\ pc' = [pc EXCEPT ![p] = pc'[p]] /\ pc'[p] \in {"lock", "done", "raised"}
      /\ todo' = [todo EXCEPT ![p] = todo'[p]] /\ todo'[p] \in {todo[p], Tail(todo[p])}
  BY DEF Proceed, GiveUp, Goto, local, ApprovalInv, TypeInv, TypeOK
<1>2. Blesses(todo[p])'
  <2> DEFINE s == todo[p]
             t == todo'[p]
  <2>1. s \in Seq(Updates) /\ s # <<>> /\ t \in {s, Tail(s)} /\ Blesses(s)
    BY <1>1 DEF ApprovalInv, TypeInv, TypeOK, HasUpdate
  <2> HIDE DEF s, t
  <2>2. \A i \in DOMAIN t : \E j \in DOMAIN s : t[i] = s[j]
    BY <2>1
  <2>3. \A i \in DOMAIN t : t[i].kind = "approve" => t[i].steps \in blessed'
    BY <2>1, <2>2 DEF Blesses
  <2> QED
    BY <2>3 DEF Blesses, t
<1>3. Gated(p)'
  BY <1>1 DEF Gated, ApprovalInv, TypeInv, TypeOK, BeforeRun, Elsewhere
<1>4. Granted(meta[p])'
  BY <1>1 DEF ApprovalInv, Granted
<1>5. \A q \in Procs \ {p} : /\ pc'[q] = pc[q] /\ op'[q] = op[q] /\ meta'[q] = meta[q]
                             /\ saw'[q] = saw[q] /\ used'[q] = used[q] /\ todo'[q] = todo[q]
  BY <1>1 DEF ApprovalInv, TypeInv, TypeOK
<1> QED
  BY <1>2, <1>3, <1>4, <1>5, ApprovalFrame

\* Every step of the store keeps the approval gate sound.
LEMMA StepApproved == ApprovalInv /\ [Next]_vars => ApprovalInv'
<1> SUFFICES ASSUME ApprovalInv, [Next]_vars PROVE ApprovalInv'
  OBVIOUS
<1>0. TypeInv /\ TypeInv' /\ TypeOK
  BY StepTyped DEF ApprovalInv, TypeInv
<1>p. ~Poisoned.approved /\ ~Virgin.approved
  BY DEF Poisoned, Virgin
<1> DEFINE Others(p) ==
      \A q \in Procs \ {p} : /\ pc'[q] = pc[q] /\ op'[q] = op[q] /\ meta'[q] = meta[q]
                             /\ saw'[q] = saw[q] /\ used'[q] = used[q] /\ todo'[q] = todo[q]
<1> USE DEF Goto, shared, local
<1>1. ASSUME NEW p \in Procs, Start(p) PROVE ApprovalInv'
  <2>1. PICK o \in AllOps : op' = [op EXCEPT ![p] = o] /\ pc' = [pc EXCEPT ![p] = Entry(o)]
                           /\ pc[p] = "idle"
    BY <1>1, OpsAssumption DEF Start
  <2>2. Entry(o) # "run" /\ (o = "replay" => Entry(o) = "read")
    BY DEF Entry, AllOps
  <2>3. Gated(p)'
    BY <1>1, <1>0, <2>1, <2>2 DEF Start, ApprovalInv, Gated, TypeOK, Elsewhere
  <2>4. Others(p) /\ Granted(disk)' /\ Granted(meta[p])' /\ Blesses(todo[p])'
    BY <1>1, <1>0, <2>1 DEF Start, ApprovalInv, Granted, Blesses, TypeOK
  <2> QED
    BY <1>0, <1>1, <2>3, <2>4, ApprovalFrame DEF Start
<1>2. ASSUME NEW p \in Procs, SetAside(p) PROVE ApprovalInv'
  <2>1. Gated(p)' /\ Others(p)
    BY <1>2, <1>0 DEF SetAside, ApprovalInv, Gated, TypeOK, BeforeRun, Elsewhere
  <2>2. Granted(disk)' /\ Granted(meta[p])' /\ Blesses(todo[p])'
    BY <1>2 DEF SetAside, ApprovalInv, Granted, Blesses
  <2> QED
    BY <1>0, <1>2, <2>1, <2>2, ApprovalFrame DEF SetAside
<1>3. ASSUME NEW p \in Procs, Poison(p) PROVE ApprovalInv'
  <2>1. Gated(p)' /\ Others(p)
    BY <1>3, <1>0 DEF Poison, ApprovalInv, Gated, TypeOK, BeforeRun, Elsewhere
  <2>2. Granted(disk)' /\ Granted(meta[p])'
    BY <1>3, <1>0, <1>p DEF Poison, ApprovalInv, Granted, TypeOK
  <2>3. Blesses(todo[p])'
    BY <1>3 DEF Poison, ApprovalInv, Blesses
  <2> QED
    BY <1>0, <1>3, <2>1, <2>2, <2>3, ApprovalFrame DEF Poison
<1>4. ASSUME NEW p \in Procs, ReadMeta(p) PROVE ApprovalInv'
  <2>1. Gated(p)' /\ Others(p)
    BY <1>4, <1>0 DEF ReadMeta, ApprovalInv, Gated, TypeOK, BeforeRun, Elsewhere
  <2>2. Granted(disk)' /\ Granted(meta[p])'
    BY <1>4, <1>0, <1>p DEF ReadMeta, ApprovalInv, Granted, TypeOK
  <2>3. Blesses(todo[p])'
    BY <1>4 DEF ReadMeta, ApprovalInv, Blesses
  <2> QED
    BY <1>0, <1>4, <2>1, <2>2, <2>3, ApprovalFrame DEF ReadMeta
<1>5. ASSUME NEW p \in Procs, Acquire(p) \/ ProceedUnlocked(p) \/ Load(p) PROVE ApprovalInv'
  <2>1. Gated(p)' /\ Others(p)
    BY <1>5, <1>0 DEF Acquire, ProceedUnlocked, Load, ApprovalInv, Gated, TypeOK, BeforeRun, Elsewhere
  <2>2. Granted(disk)' /\ Granted(meta[p])' /\ Blesses(todo[p])' /\ UNCHANGED blessed
    BY <1>5, <1>0 DEF Acquire, ProceedUnlocked, Load, ApprovalInv, Granted, Blesses, TypeOK
  <2> QED
    BY <1>0, <2>1, <2>2, ApprovalFrame
<1>6. ASSUME NEW p \in Procs, LoadFails(p) \/ SaveFails(p) PROVE ApprovalInv'
  <2>1. pc[p] \in InUpdate /\ GiveUp(p) /\ UNCHANGED <<disk, blessed>>
    BY <1>6 DEF LoadFails, SaveFails, InUpdate
  <2>2. Granted(disk)'
    BY <2>1 DEF ApprovalInv, Granted
  <2> QED
    BY <1>0, <2>1, <2>2, ProceedApproved
<1>7. ASSUME NEW p \in Procs, Save(p) PROVE ApprovalInv'
  <2>1. pc[p] = "save" /\ pc[p] \in InUpdate /\ Proceed(p) /\ UNCHANGED blessed
        /\ disk' = Apply(Head(todo[p]), meta[p])
    BY <1>7 DEF Save, InUpdate
  <2> DEFINE u == Head(todo[p])
             m == meta[p]
  <2>2. u \in Updates /\ m \in Metas
    BY <1>0, <2>1, SaveTyped DEF TypeOK
  <2>3. u.kind = "approve" => u.steps \in blessed
    <3> DEFINE s == todo[p]
    <3>1. s \in Seq(Updates) /\ s # <<>> /\ Blesses(s)
      BY <1>0, <2>1 DEF ApprovalInv, TypeInv, TypeOK, HasUpdate
    <3> HIDE DEF s
    <3>2. 1 \in DOMAIN s /\ Head(s) = s[1]
      BY <3>1
    <3>3. Head(s).kind = "approve" => Head(s).steps \in blessed
      BY <3>1, <3>2 DEF Blesses
    <3> QED
      BY <3>3 DEF s
  <2>4. Granted(m)
    BY DEF ApprovalInv
  <2> HIDE DEF u, m
  <2>5. Granted(Apply(u, m))
    BY <2>2, <2>3, <2>4, ApplyBinding DEF Granted
  <2>6. Granted(disk)'
    BY <2>1, <2>5 DEF Granted, u, m
  <2> QED
    BY <1>0, <2>1, <2>6, ProceedApproved
<1>8. ASSUME NEW p \in Procs, Preflight(p) PROVE ApprovalInv'
  <2>1. /\ saw' = [saw EXCEPT ![p] = recipe] /\ UNCHANGED <<shared, op, meta, used, todo>>
        /\ pc[p] = "decide" /\ op[p] \in {"replay", "replay_unapproved"}
        /\ pc' = [pc EXCEPT ![p] =
                  IF Refuses(meta[p], recipe, op[p] = "replay") THEN "raised" ELSE "run"]
    BY <1>8 DEF Preflight, IsReplay
  <2>2. op[p] = "replay" => used[p] = NoRecipe
    BY <2>1 DEF ApprovalInv, Gated, BeforeRun
  <2>3. ~Refuses(meta[p], recipe, TRUE) /\ recipe # NoRecipe => recipe \in blessed
    BY DEF Refuses, ApprovalInv, Granted
  <2>4. Gated(p)'
    BY <1>0, <2>1, <2>2, <2>3 DEF Gated, TypeOK, Elsewhere
  <2>5. Others(p) /\ Granted(disk)' /\ Granted(meta[p])' /\ Blesses(todo[p])'
    BY <1>0, <2>1 DEF ApprovalInv, Granted, Blesses, TypeOK
  <2> QED
    BY <1>0, <2>1, <2>4, <2>5, ApprovalFrame
<1>9. ASSUME NEW p \in Procs, RunCached(p) PROVE ApprovalInv'
  <2>1. /\ used' = [used EXCEPT ![p] = recipe] /\ UNCHANGED <<shared, op, meta, saw>>
        /\ pc[p] = "run" /\ pc' = [pc EXCEPT ![p] = "lock"]
        /\ todo' = [todo EXCEPT ![p] = todo'[p]]
        /\ todo'[p] \in {<<Update("record")>>, <<Update("quarantine"), Update("record")>>}
    BY <1>0, <1>9 DEF RunCached, TypeOK
  <2>2. Gated(p)'
    BY <1>0, <2>1 DEF ApprovalInv, Gated, TypeOK, BeforeRun, Elsewhere
  <2>3. Update("record").kind # "approve" /\ Update("quarantine").kind # "approve"
    BY Constructors
  <2>4. Blesses(todo[p])'
    <3>1. \A i \in DOMAIN todo'[p] : todo'[p][i] \in {Update("record"), Update("quarantine")}
      BY <2>1
    <3> QED
      BY <2>3, <3>1 DEF Blesses
  <2>5. Others(p) /\ Granted(disk)' /\ Granted(meta[p])'
    BY <1>0, <2>1 DEF ApprovalInv, Granted, TypeOK
  <2> QED
    BY <1>0, <2>1, <2>2, <2>4, <2>5, ApprovalFrame
<1>10. ASSUME NEW p \in Procs, Author(p) \/ AuthorFails(p) \/ ReadBack(p)
                               \/ NotLearned(p) \/ ReadForMark(p) \/ PutMarked(p)
       PROVE ApprovalInv'
  <2>1. pc[p] \in Elsewhere
    BY <1>10 DEF Author, AuthorFails, ReadBack, NotLearned, ReadForMark, PutMarked,
                Elsewhere
  <2>2. op[p] # "replay" /\ pc[p] # "idle"
    BY <2>1 DEF ApprovalInv, Gated, Elsewhere
  <2>3. Others(p) /\ UNCHANGED <<disk, blessed, op, meta, todo>> /\ pc'[p] # "idle"
    BY <1>0, <1>10 DEF Author, AuthorFails, ReadBack, NotLearned, ReadForMark, PutMarked,
                      TypeOK
  <2>4. Gated(p)'
    BY <2>2, <2>3 DEF Gated
  <2>5. Granted(disk)' /\ Granted(meta[p])' /\ Blesses(todo[p])'
    BY <2>3 DEF ApprovalInv, Granted, Blesses
  <2> QED
    BY <1>0, <2>3, <2>4, <2>5, ApprovalFrame
<1>11. ASSUME NEW p \in Procs,
              Rebase(p) \/ BindApproval(p) \/ Unapprove(p) \/ Release(p) \/ Judge(p)
       PROVE ApprovalInv'
  <2>1. op[p] # "replay" /\ pc[p] # "idle"
    BY <1>11 DEF Rebase, BindApproval, Unapprove, Release, Judge
  <2>2. Others(p) /\ UNCHANGED <<disk, op, meta>> /\ pc'[p] # "idle" /\ blessed \subseteq blessed'
    BY <1>0, <1>11 DEF Rebase, BindApproval, Unapprove, Release, Judge, TypeOK
  <2>3. Gated(p)'
    BY <2>1, <2>2 DEF Gated
  <2>4. Granted(disk)' /\ Granted(meta[p])'
    BY <2>2 DEF ApprovalInv, Granted
  <2>5. \/ UNCHANGED <<todo, blessed>>
        \/ \E u \in Updates : /\ todo'[p] = <<u>>
                              /\ u.kind = "approve" => u.steps \in blessed'
    <3>1. CASE Rebase(p)
      <4>1. meta[p].approved \in BOOLEAN /\ p \in Authors
        BY <1>0, AuthorsAssumption DEF TypeOK, Metas
      <4> QED
        BY <1>0, <3>1, <4>1, Constructors DEF Rebase, TypeOK
    <3>2. CASE BindApproval(p)
      <4>1. /\ Approve(recipe) \in Updates
            /\ Approve(recipe).steps = recipe
        BY <1>0, Constructors DEF TypeOK
      <4> QED
        BY <1>0, <3>2, <4>1 DEF BindApproval, TypeOK
    <3>3. CASE Unapprove(p) \/ Release(p) \/ Judge(p)
      <4>1. \/ UNCHANGED <<todo, blessed>>
            \/ \E k \in {"unapprove", "release", "quarantine"} :
                 todo' = [todo EXCEPT ![p] = <<Update(k)>>]
        BY <3>3 DEF Unapprove, Release, Judge
      <4>2. \A k \in {"unapprove", "release", "quarantine"} :
              Update(k) \in Updates /\ Update(k).kind # "approve"
        BY Constructors
      <4>3. ASSUME NEW k \in {"unapprove", "release", "quarantine"},
                   todo' = [todo EXCEPT ![p] = <<Update(k)>>]
            PROVE  \E u \in Updates : /\ todo'[p] = <<u>>
                                      /\ u.kind = "approve" => u.steps \in blessed'
        <5>1. todo'[p] = <<Update(k)>>
          BY <1>0, <4>3 DEF TypeOK
        <5> QED
          BY <4>2, <5>1
      <4> QED
        BY <4>1, <4>3
    <3> QED
      BY <1>11, <3>1, <3>2, <3>3
  <2>6. Blesses(todo[p])'
    <3>1. CASE UNCHANGED <<todo, blessed>>
      BY <3>1 DEF ApprovalInv, Blesses
    <3>2. CASE ~UNCHANGED <<todo, blessed>>
      <4>1. PICK u \in Updates :
              /\ todo'[p] = <<u>>
              /\ u.kind = "approve" => u.steps \in blessed'
        BY <2>5, <3>2
      <4> QED
        BY <4>1 DEF Blesses
    <3> QED
      BY <3>1, <3>2
  <2> QED
    BY <1>0, <2>2, <2>3, <2>4, <2>6, ApprovalFrame
<1>12. ASSUME NEW p \in Procs, Crash(p) \/ Wedge(p) PROVE ApprovalInv'
  <2>1. Gated(p)' /\ Others(p)
    BY <1>12, <1>0 DEF Crash, Wedge, Ended, ApprovalInv, Gated, TypeOK, BeforeRun, Elsewhere
  <2>2. Granted(disk)' /\ Granted(meta[p])' /\ Blesses(todo[p])' /\ UNCHANGED blessed
    BY <1>12 DEF Crash, Wedge, ApprovalInv, Granted, Blesses
  <2> QED
    BY <1>0, <2>1, <2>2, ApprovalFrame
<1>13. CASE CorruptSidecar
  BY <1>0, <1>p, <1>13 DEF CorruptSidecar, ApprovalInv, Granted, Blesses, Gated
<1>14. CASE UNCHANGED vars
  BY <1>0, <1>14 DEF vars, ApprovalInv, Granted, Blesses, Gated
<1> QED
  BY <1>1, <1>2, <1>3, <1>4, <1>5, <1>6, <1>7, <1>8, <1>9, <1>10, <1>11, <1>12, <1>13, <1>14
  DEF Next, Step, Reading, Updating, Deciding

\* Whatever crashes, hangs, fails or is corrupted, a replay that asks for
\* approval and runs the recipe its pre-flight saw runs an approved one.
THEOREM ReplayIsApproved == Spec => []RunsOnlyApproved
<1>1. Spec => []ApprovalInv
  BY InitApproved, StepApproved, PTL DEF Spec
<1>2. ApprovalInv => RunsOnlyApproved
  BY DEF ApprovalInv, Gated, RunsOnlyApproved
<1> QED
  BY <1>1, <1>2, PTL

(* -------------------- what the lock is for: atomic updates -------------------- *)

\* A call that is updating holds the lock, and what it loaded is what is there.
Exclusive(p) ==
  /\ pc[p] \notin {"poison", "poison_load"}
  /\ pc[p] \in {"load", "save"} => lock = p
  /\ pc[p] = "save" => meta[p] = disk

Held ==
  /\ file # "corrupt"
  /\ QuarantineHolds
  /\ \A p \in Procs : Exclusive(p)

LockInv == TypeInv /\ (honoured => Held)

\* At the start no call updates and nothing is condemned.
LEMMA InitLocked == Init => LockInv
<1> SUFFICES ASSUME Init PROVE LockInv
  OBVIOUS
<1>1. TypeInv
  BY InitTyped
<1>2. file # "corrupt" /\ condemned = FALSE /\ pc = [p \in Procs |-> "idle"]
  BY DEF Init
<1> QED
  BY <1>1, <1>2 DEF LockInv, Held, QuarantineHolds, Exclusive

\* Every writer leaves a quarantine alone but release, which clears it, and saves
\* on top of what is there.
LEMMA SaveLocked ==
  ASSUME LockInv, honoured, NEW p \in Procs, Save(p)
  PROVE  /\ file' = "there"
         /\ QuarantineHolds'
         /\ \E u \in Updates : disk' = Apply(u, disk)
         /\ \A q \in Procs : Exclusive(q)'
<1>1. /\ pc[p] = "save" /\ pc[p] \in InUpdate /\ file' = "there"
      /\ disk' = Apply(Head(todo[p]), meta[p])
      /\ Proceed(p)
  BY DEF Save, InUpdate
<1> DEFINE u == Head(todo[p])
<1>2. u \in Updates /\ disk \in Metas /\ meta[p] = disk /\ lock = p /\ disk' = Apply(u, disk)
  BY <1>1, SaveTyped DEF LockInv, Held, TypeInv, TypeOK, Exclusive
<1>3. condemned' = CASE u.kind = "quarantine" -> TRUE
                     [] u.kind = "release" -> FALSE
                     [] OTHER -> condemned
  BY DEF Save
<1> HIDE DEF u
<1>4. QuarantineHolds'
  <2>1. CASE u.kind = "quarantine"
    BY <1>2, <2>1, ApplyQuarantine DEF QuarantineHolds
  <2>2. CASE u.kind = "release"
    BY <1>3, <2>2 DEF QuarantineHolds
  <2>3. CASE u.kind \notin {"quarantine", "release"}
    <3>1. condemned' = condemned /\ disk'.quarantine = disk.quarantine
      BY <1>2, <1>3, <2>3, ApplyQuarantine
    <3> QED
      BY <3>1 DEF LockInv, Held, QuarantineHolds
  <2> QED
    BY <2>1, <2>2, <2>3
<1>5. /\ pc' = [pc EXCEPT ![p] = pc'[p]] /\ pc'[p] \in {"lock", "done"}
      /\ meta' = meta /\ lock' = None
  BY <1>1, <1>2 DEF Proceed, Unlocked, Goto, LockInv, TypeInv, TypeOK
<1>6. \A q \in Procs \ {p} : pc[q] \notin {"load", "save"}
  BY <1>2, NoneAssumption DEF LockInv, Held, Exclusive
<1>7. \A q \in Procs : Exclusive(q)'
  BY <1>5, <1>6 DEF LockInv, Held, TypeInv, TypeOK, Exclusive
<1> QED
  BY <1>1, <1>2, <1>4, <1>7

\* A step that leaves the sidecar alone and does not enter an update.
LEMMA QuietLocked ==
  ASSUME LockInv, TypeInv', honoured, NEW p \in Procs,
         UNCHANGED <<file, disk, condemned>>,
         \/ UNCHANGED lock
         \/ lock = p /\ lock' = None,
         \A q \in Procs \ {p} : pc'[q] = pc[q] /\ meta'[q] = meta[q],
         pc'[p] \notin {"poison", "poison_load", "load", "save"}
  PROVE  LockInv'
BY NoneAssumption DEF LockInv, Held, QuarantineHolds, Exclusive

\* A store that was dishonoured once stays so.
LEMMA Dishonour == [Next]_vars /\ honoured' => honoured
<1> SUFFICES ASSUME [Next]_vars, honoured' PROVE honoured
  OBVIOUS
<1> USE DEF shared, local
<1>1. ASSUME NEW p \in Procs, Start(p) \/ Reading(p) \/ Updating(p) \/ Crash(p) \/ Wedge(p)
      PROVE  honoured
  BY <1>1 DEF Start, Reading, SetAside, Poison, ReadMeta, Updating, Acquire, ProceedUnlocked,
              Load, LoadFails, Save, SaveFails, Crash, Wedge
<1>2. ASSUME NEW p \in Procs, Deciding(p) PROVE honoured
  BY <1>2 DEF Deciding, Preflight, RunCached, Author, AuthorFails, ReadBack, Rebase,
              NotLearned, BindApproval, Unapprove, ReadForMark, PutMarked, Release, Judge
<1>3. CASE CorruptSidecar \/ UNCHANGED vars
  BY <1>3 DEF CorruptSidecar, vars
<1> QED
  BY <1>1, <1>2, <1>3 DEF Next, Step

\* Every step of a store that is still honoured keeps the lock exclusive.
LEMMA StepLocked == LockInv /\ [Next]_vars => LockInv'
<1> SUFFICES ASSUME LockInv, [Next]_vars, honoured' PROVE LockInv'
  BY StepTyped DEF LockInv
<1>0. TypeInv' /\ TypeOK /\ TypeInv /\ honoured /\ Held /\ file # "corrupt"
  BY StepTyped, Dishonour DEF LockInv, Held, TypeInv
<1> USE DEF Goto, shared, local
<1>1. ASSUME NEW p \in Procs, Start(p) PROVE LockInv'
  <2>1. PICK o \in AllOps : pc' = [pc EXCEPT ![p] = Entry(o)]
    BY <1>1, OpsAssumption DEF Start
  <2>2. Entry(o) \in {"read", "author", "bind"}
    BY DEF Entry, AllOps
  <2> QED
    BY <1>0, <1>1, <2>1, <2>2, QuietLocked DEF Start, TypeOK
<1>2. ASSUME NEW p \in Procs, SetAside(p) \/ Poison(p) PROVE LockInv'
  BY <1>0, <1>2 DEF SetAside, Poison, Held, Exclusive
<1>3. ASSUME NEW p \in Procs, ReadMeta(p) PROVE LockInv'
  BY <1>0, <1>3, QuietLocked DEF ReadMeta, TypeOK
<1>4. ASSUME NEW p \in Procs, Acquire(p) PROVE LockInv'
  <2>1. lock = None /\ lock' = p /\ pc' = [pc EXCEPT ![p] = "load"]
        /\ UNCHANGED <<file, disk, condemned, meta>>
    BY <1>4 DEF Acquire
  <2> QED
    BY <1>0, <2>1, NoneAssumption, AuthorsAssumption
    DEF LockInv, Held, QuarantineHolds, Exclusive, TypeOK
<1>5. ASSUME NEW p \in Procs, ProceedUnlocked(p) PROVE LockInv'
  BY <1>0, <1>5 DEF ProceedUnlocked
<1>6. ASSUME NEW p \in Procs, Load(p) PROVE LockInv'
  <2>1. /\ pc[p] = "load" /\ pc' = [pc EXCEPT ![p] = "save"] /\ meta' = [meta EXCEPT ![p] = disk]
        /\ UNCHANGED <<file, disk, condemned, lock>>
    BY <1>6 DEF Load
  <2> QED
    BY <1>0, <2>1 DEF LockInv, Held, QuarantineHolds, Exclusive, TypeOK
<1>7. ASSUME NEW p \in Procs, LoadFails(p) \/ SaveFails(p) PROVE LockInv'
  <2>1. pc[p] \in {"load", "save"} /\ GiveUp(p) /\ UNCHANGED <<file, disk, condemned>>
    BY <1>7 DEF LoadFails, SaveFails
  <2>2. /\ pc' = [pc EXCEPT ![p] = pc'[p]] /\ pc'[p] \in {"lock", "done", "raised"}
        /\ meta' = meta /\ lock' = Unlocked(p)
    BY <1>0, <2>1 DEF GiveUp, Proceed, TypeOK
  <2>3. lock = p
    BY <1>0, <2>1 DEF Held, Exclusive
  <2> QED
    BY <1>0, <2>1, <2>2, <2>3, QuietLocked DEF Unlocked, TypeOK
<1>8. ASSUME NEW p \in Procs, Save(p) PROVE LockInv'
  BY <1>0, <1>8, SaveLocked DEF LockInv, Held
<1>9. ASSUME NEW p \in Procs, Deciding(p) PROVE LockInv'
  <2>1. /\ pc' = [pc EXCEPT ![p] = pc'[p]]
        /\ pc'[p] \notin {"poison", "poison_load", "load", "save"}
        /\ UNCHANGED <<file, disk, condemned, lock, meta>>
    <3>1. CASE Preflight(p) \/ RunCached(p) \/ Author(p) \/ AuthorFails(p) \/ ReadBack(p)
      BY <1>0, <3>1 DEF Preflight, RunCached, Author, AuthorFails, ReadBack, TypeOK
    <3>2. CASE Rebase(p) \/ NotLearned(p) \/ BindApproval(p) \/ Unapprove(p)
      BY <1>0, <3>2 DEF Rebase, NotLearned, BindApproval, Unapprove, TypeOK
    <3>3. CASE ReadForMark(p) \/ PutMarked(p) \/ Release(p) \/ Judge(p)
      BY <1>0, <3>3 DEF ReadForMark, PutMarked, Release, Judge, TypeOK
    <3> QED
      BY <1>9, <3>1, <3>2, <3>3 DEF Deciding
  <2>2. \A q \in Procs \ {p} : pc'[q] = pc[q]
    BY <1>0, <2>1 DEF TypeOK
  <2> QED
    BY <1>0, <2>1, <2>2, QuietLocked
<1>10. ASSUME NEW p \in Procs, Crash(p) PROVE LockInv'
  BY <1>0, <1>10, QuietLocked DEF Crash, Unlocked, TypeOK
<1>11. ASSUME NEW p \in Procs, Wedge(p) PROVE LockInv'
  BY <1>0, <1>11, QuietLocked DEF Wedge, TypeOK
<1>12. CASE CorruptSidecar
  BY <1>0, <1>12 DEF CorruptSidecar
<1>13. CASE UNCHANGED vars
  BY <1>0, <1>13 DEF vars, LockInv, Held, QuarantineHolds, Exclusive
<1> QED
  BY <1>1, <1>2, <1>3, <1>4, <1>5, <1>6, <1>7, <1>8, <1>9, <1>10, <1>11, <1>12, <1>13
  DEF Next, Step, Reading, Updating

\* A quarantine once written refuses every later call until a release, whatever
\* runs, approvals, marks and re-learns come in between, and whatever fails, as
\* long as the lock is honoured and the file intact.
THEOREM QuarantineIsSticky == Spec => []QuarantineHolds
<1>1. LockInv => QuarantineHolds
  BY DEF LockInv, Held, QuarantineHolds
<1> QED
  BY <1>1, StepLocked, InitLocked, PTL DEF Spec

\* AtomicSidecar's metas and updates are this module's.
LEMMA SameData ==
  /\ Sidecar!Metas = Metas
  /\ Sidecar!Updates = Updates
  /\ \A u, m : Sidecar!Apply(u, m) = Apply(u, m)
<1>1. Sidecar!Recipes = Recipes /\ Sidecar!Quarantines = Quarantines
  BY DEF Sidecar!Recipes, Recipes, Sidecar!Quarantines, Quarantines
<1>2. Sidecar!Metas = Metas /\ Sidecar!Updates = Updates
  BY <1>1 DEF Sidecar!Metas, Metas, Sidecar!Updates, Updates
<1>3. \A u, m : Sidecar!Apply(u, m) = Apply(u, m)
  BY DEF Sidecar!Apply, Apply
<1> QED
  BY <1>2, <1>3

\* The sidecar's writers together do what AtomicSidecar promises: every update is
\* applied whole to what the one before it left, until the lock or the file is lost.
THEOREM UpdatesAreAtomic == Spec => ImplementsSidecar
<1>1. Init => Sidecar!Init
  BY InitTyped, SameData DEF Init, Sidecar!Init, TypeInv, TypeOK
<1>2. LockInv /\ [Next]_vars => [Sidecar!Next]_<<disk, honoured>>
  <2> SUFFICES ASSUME LockInv, [Next]_vars
               PROVE  [Sidecar!Next]_<<disk, honoured>>
    OBVIOUS
  <2> USE DEF shared, local
  <2>0. disk' \in Metas
    BY StepTyped DEF LockInv, TypeInv, TypeOK
  <2>1. CASE honoured' = FALSE
    BY <2>0, <2>1, SameData DEF Sidecar!Next, Sidecar!Dishonoured
  <2>2. CASE honoured' # FALSE
    <3>0. honoured' = TRUE /\ honoured = TRUE /\ \A p \in Procs : pc[p] \notin {"poison", "poison_load"}
      BY <2>2, StepTyped, Dishonour DEF LockInv, Held, Exclusive, TypeInv, TypeOK
    <3>1. ASSUME NEW p \in Procs, Save(p) PROVE \E u \in Updates : disk' = Apply(u, disk)
      BY <3>0, <3>1, SaveLocked
    <3>2. ASSUME NEW p \in Procs, Start(p) \/ Reading(p) \/ Crash(p) \/ Wedge(p) PROVE disk' = disk
      BY <3>0, <3>2 DEF Start, Reading, SetAside, Poison, ReadMeta, Crash, Wedge
    <3>3. ASSUME NEW p \in Procs, Acquire(p) \/ ProceedUnlocked(p) \/ Load(p) \/ LoadFails(p) \/ SaveFails(p)
          PROVE  disk' = disk
      BY <3>3 DEF Acquire, ProceedUnlocked, Load, LoadFails, SaveFails
    <3>4. ASSUME NEW p \in Procs, Deciding(p) PROVE disk' = disk
      BY <3>4 DEF Deciding, Preflight, RunCached, Author, AuthorFails, ReadBack, Rebase,
                  NotLearned, BindApproval, Unapprove, ReadForMark, PutMarked, Release, Judge
    <3>5. ~CorruptSidecar
      BY <3>0 DEF CorruptSidecar
    <3>6. UNCHANGED vars => disk' = disk
      BY DEF vars
    <3>7. (\E u \in Updates : disk' = Apply(u, disk)) \/ disk' = disk
      BY <3>1, <3>2, <3>3, <3>4, <3>5, <3>6 DEF Next, Step, Updating
    <3> QED
      BY <3>0, <3>7, SameData DEF Sidecar!Next, Sidecar!Write
  <2> QED
    BY <2>1, <2>2
<1> QED
  BY <1>1, <1>2, StepLocked, InitLocked, PTL DEF Spec, ImplementsSidecar, Sidecar!Spec
===============================================================================
