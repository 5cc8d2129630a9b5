----------------------------- MODULE McpRail_proofs -----------------------------
(***************************************************************************)
(* Proofs about McpRail, for any calls, servers, arguments, recipes and    *)
(* faults.                                                                 *)
(***************************************************************************)
EXTENDS McpRail, TLAPS

Unsent == {"idle", "health", "classify", "wait", "ledger", "confirm", "gate", "run"}
Replaying == {"gate", "run", "report"} \cup Verdicts
Checked == {"confirm"} \cup Replaying

\* What is true of every call, by where it is.
Placed(c) == pc[c] # "idle" => server[c] \in Servers /\ args[c] \in Args
Keyless(c) == pc[c] \in {"idle", "health", "classify", "wait"} => keys[c] = None
Keyed(c) == pc[c] \in {"ledger", "confirm"} => keys[c] # None
Quiet(c) == pc[c] \in Unsent => wrote[c] = "no"
Exposed(c) == pc[c] \in {"wait", "ledger", "confirm"} => Declared /\ server[c] \in Exposing
RanAWriter(c) == wrote[c] # "no" => ran[c] \in Writers

\* A call that replays, or has written, came by the rail or as a read.
Came(c) ==
  pc[c] \in Replaying \/ wrote[c] # "no" =>
    \/ keys[c] # None /\ Declared /\ accepted[c] /\ server[c] \in Exposing
    \/ keys[c] = None /\ ~Declared /\ seen[c] \notin Writers

CallInv == \A c \in Calls :
  /\ Placed(c) /\ Keyless(c) /\ Keyed(c) /\ Quiet(c)
  /\ Exposed(c) /\ RanAWriter(c) /\ Came(c)

\* A call on the rail has the lock until it ends.
HoldsLock(c) == keys[c] # None /\ pc[c] \notin Ended => lock[server[c]] = c

\* A call that claims something has a performed write, or a precheck that saw one.
Claims(c) ==
  pc[c] \in {"ok", "landed"} /\ keys[c] # None =>
    \/ wrote[c] = "performed"
    \/ spec = "prechecked" /\ \E d \in Calls : wrote[d] = "performed"

\* A call that ended after its write left a record of it, or it was lost.
Settled(c) ==
  pc[c] = "done" /\ wrote[c] # "no" /\ keys[c] = SentKeys(c) =>
    keys[c] \in ledger \cup lost

\* A call that is past the ledger's check repeats only what was lost.
Repeats(c, d) ==
  /\ c # d
  /\ server[c] = server[d]
  /\ wrote[c] # "no"
  /\ keys[c] = SentKeys(c)
  /\ keys[d] = keys[c]
  /\ pc[d] \in Checked
  => keys[c] \in lost

RailInv ==
  /\ \A c \in Calls : HoldsLock(c) /\ Settled(c)
  /\ \A c, d \in Calls : Repeats(c, d)

\* The inductive invariant.
IInv == TypeOK /\ CallInv /\ RailInv /\ (\A c \in Calls : Claims(c)) /\ LedgerTrue /\ RepeatNeedsLoss

LEMMA InitImpliesIInv == Init => IInv
BY NoneAssumption
DEF Init, IInv, TypeOK, CallInv, RailInv, Claims, LedgerTrue, RepeatNeedsLoss, Placed, Keyless, Keyed, Quiet,
    Exposed, RanAWriter, Came, HoldsLock, Settled, Repeats, Unsent, Replaying, Checked, Verdicts, Ended

-------------------------------------------------------------------------------
(* The type invariant.                                                     *)

LEMMA TypeInvariance == TypeOK /\ CallInv /\ [Next]_vars => TypeOK'
<1> SUFFICES ASSUME TypeOK, CallInv, [Next]_vars PROVE TypeOK'
  OBVIOUS
<1> USE DEF TypeOK, Goto, Verdicts, disk, request, run
<1>1. ASSUME NEW c \in Calls, Call(c) PROVE TypeOK'
  BY <1>1 DEF Call
<1>2. ASSUME NEW c \in Calls, LookUp(c) PROVE TypeOK'
  BY <1>2 DEF LookUp, End
<1>3. ASSUME NEW c \in Calls, Classify(c) PROVE TypeOK'
  BY <1>3 DEF Classify, End
<1>4. ASSUME NEW c \in Calls, Preflight(c) PROVE TypeOK'
  <2>1. args[c] \in Args /\ server[c] \in Servers
    BY <1>4 DEF CallInv, Placed, Preflight
  <2>2. CASE recipe # None /\ keys' = [keys EXCEPT ![c] = KeysOf(recipe, args[c])]
             /\ Goto(c, "ledger") /\ lock' = [lock EXCEPT ![server[c]] = c] /\ UNCHANGED answer
    <3>1. KeysOf(recipe, args[c]) \in Keys
      BY <2>1, <2>2 DEF KeysOf, Keys
    <3> QED BY <3>1, <2>1, <2>2, <1>4 DEF Preflight, Checks
  <2>3. CASE End(c, "error") /\ UNCHANGED keys
    BY <2>3, <1>4 DEF Preflight, Checks, End
  <2> QED BY <2>2, <2>3, <1>4 DEF Preflight, Checks
<1>5. ASSUME NEW c \in Calls, CheckLedger(c) PROVE TypeOK'
  BY <1>5 DEF CheckLedger, End
<1>6. ASSUME NEW c \in Calls, Accept(c) \/ Decline(c) PROVE TypeOK'
  BY <1>6 DEF Accept, Decline, End
<1>7. ASSUME NEW c \in Calls, Gate(c) PROVE TypeOK'
  BY <1>7 DEF Gate, End
<1>8. ASSUME NEW c \in Calls, Precheck(c) PROVE TypeOK'
  BY <1>8 DEF Precheck
<1>9. ASSUME NEW c \in Calls, Run(c) PROVE TypeOK'
  BY <1>9 DEF Run
<1>10. ASSUME NEW c \in Calls, Report(c) PROVE TypeOK'
  BY <1>10 DEF Report
<1>11. ASSUME NEW c \in Calls, pc[c] # "idle" PROVE Forgets(c) \subseteq [recipe : Recipes \cup {None}, args : Args]
  BY <1>11 DEF CallInv, Placed, Forgets, SentKeys, KeysOf
<1>12. ASSUME NEW c \in Calls, Record(c) PROVE TypeOK'
  BY <1>12 DEF Record, Arms, End, AnswerOf
<1>13. ASSUME NEW c \in Calls, RecordFails(c) PROVE TypeOK'
  BY <1>13, <1>11 DEF RecordFails, Arms, End
<1>14. ASSUME NEW c \in Calls, NoRecord(c) PROVE TypeOK'
  BY <1>14, <1>11 DEF NoRecord, End, AnswerOf
<1>15. ASSUME NEW c \in Calls, Cancel(c) PROVE TypeOK'
  BY <1>15, <1>11 DEF Cancel, End
<1>16. ASSUME NEW c \in Calls, LandsLater(c) PROVE TypeOK'
  BY <1>16 DEF LandsLater
<1>17. ASSUME NEW s \in Servers, Crash(s) PROVE TypeOK'
  <2> DEFINE dying == {c \in Calls : server[c] = s /\ pc[c] \notin Ended}
  <2>1. UNION {Forgets(c) : c \in dying} \subseteq [recipe : Recipes \cup {None}, args : Args]
    BY <1>11 DEF Ended
  <2>2. lost' \subseteq [recipe : Recipes \cup {None}, args : Args]
    BY <2>1, <1>17 DEF Crash
  <2> QED BY <2>2, <1>17 DEF Crash
<1>18. CASE Operate
  BY <1>18 DEF Operate
<1>19. CASE UNCHANGED vars
  BY <1>19 DEF vars
<1> QED
  BY <1>1, <1>2, <1>3, <1>4, <1>5, <1>6, <1>7, <1>8, <1>9, <1>10, <1>12, <1>13, <1>14, <1>15, <1>16, <1>17,
     <1>18, <1>19 DEF Next, Step

-------------------------------------------------------------------------------
(* What is true of every call, by where it is.                             *)

\* A step of one call disturbs no other.
CallOf(c) ==
  Placed(c) /\ Keyless(c) /\ Keyed(c) /\ Quiet(c) /\ Exposed(c) /\ RanAWriter(c) /\ Came(c)

Local(c) == <<pc[c], server[c], args[c], seen[c], keys[c], accepted[c], ran[c], wrote[c]>>

LEMMA CallOfLocal ==
  ASSUME NEW c \in Calls, CallOf(c), Local(c)' = Local(c), spec' = spec
  PROVE  CallOf(c)'
BY DEF CallOf, Local, Placed, Keyless, Keyed, Quiet, Exposed, RanAWriter, Came, Unsent, Replaying, Declared

LEMMA CallInvariance == TypeOK /\ CallInv /\ [Next]_vars => CallInv'
<1> SUFFICES ASSUME TypeOK, CallInv, [Next]_vars PROVE CallInv'
  OBVIOUS
<1>1. ASSUME NEW d \in Calls PROVE CallOf(d)
  BY DEF CallInv, CallOf
<1>2. SUFFICES ASSUME NEW d \in Calls PROVE CallOf(d)'
  BY <1>2 DEF CallInv, CallOf
<1>3. CallOf(d)
  BY <1>1
<1>4. ASSUME Local(d)' = Local(d), spec' = spec PROVE CallOf(d)'
  BY <1>3, <1>4, CallOfLocal
<1> USE DEF TypeOK, Goto, Verdicts, disk, request, run
<1>5. ASSUME NEW c \in Calls, Step(c) \/ Call(c) \/ Cancel(c) \/ LandsLater(c), c # d PROVE CallOf(d)'
  <2>1. Local(d)' = Local(d) /\ spec' = spec
    BY <1>5 DEF Local, Step, Call, LookUp, Classify, Preflight, Checks, CheckLedger, Accept, Decline, Gate, Precheck,
       Run, Report, Record, RecordFails, NoRecord, Cancel, LandsLater, End
  <2> QED BY <2>1, <1>4
<1>6. CASE Call(d)
  BY <1>6, <1>3 DEF CallOf, Placed, Keyless, Keyed, Quiet, Exposed, RanAWriter, Came, Unsent, Replaying, Declared, Call
<1>7. CASE LookUp(d)
  BY <1>7, <1>3 DEF CallOf, Placed, Keyless, Keyed, Quiet, Exposed, RanAWriter, Came, Unsent, Replaying, Declared, LookUp, End
<1>8. CASE Classify(d)
  BY <1>8, <1>3 DEF CallOf, Placed, Keyless, Keyed, Quiet, Exposed, RanAWriter, Came, Unsent, Replaying, Declared, Classify,
     IsWrite, End
<1>9. CASE Preflight(d)
  <2>1. KeysOf(recipe, args[d]) # None \/ recipe = None
    <3>1. args[d] \in Args
      BY <1>9, <1>3 DEF CallOf, Placed, Preflight
    <3>2. recipe # None => KeysOf(recipe, args[d]) \in Keys
      BY <3>1 DEF KeysOf, Keys
    <3> QED BY <3>2, NoneAssumption DEF Keys
  <2> QED
  BY <2>1, <1>9, <1>3 DEF CallOf, Placed, Keyless, Keyed, Quiet, Exposed, RanAWriter, Came, Unsent, Replaying, Declared,
     Preflight, Checks, End
<1>10. CASE CheckLedger(d)
  BY <1>10, <1>3 DEF CallOf, Placed, Keyless, Keyed, Quiet, Exposed, RanAWriter, Came, Unsent, Replaying, Declared,
     CheckLedger, End
<1>11. CASE Accept(d) \/ Decline(d)
  BY <1>11, <1>3 DEF CallOf, Placed, Keyless, Keyed, Quiet, Exposed, RanAWriter, Came, Unsent, Replaying, Declared,
     Accept, Decline, End
<1>12. CASE Gate(d)
  BY <1>12, <1>3 DEF CallOf, Placed, Keyless, Keyed, Quiet, Exposed, RanAWriter, Came, Unsent, Replaying, Declared, Gate, End
<1>13. CASE Precheck(d)
  BY <1>13, <1>3 DEF CallOf, Placed, Keyless, Keyed, Quiet, Exposed, RanAWriter, Came, Unsent, Replaying, Declared, Precheck
<1>14. CASE Run(d)
  BY <1>14, <1>3 DEF CallOf, Placed, Keyless, Keyed, Quiet, Exposed, RanAWriter, Came, Unsent, Replaying, Declared, Run
<1>15. CASE Report(d)
  BY <1>15, <1>3 DEF CallOf, Placed, Keyless, Keyed, Quiet, Exposed, RanAWriter, Came, Unsent, Replaying, Declared, Report
<1>16. CASE Record(d) \/ RecordFails(d) \/ NoRecord(d) \/ Cancel(d)
  BY <1>16, <1>3 DEF CallOf, Placed, Keyless, Keyed, Quiet, Exposed, RanAWriter, Came, Unsent, Replaying, Declared,
     Record, RecordFails, NoRecord, Cancel, Arms, End
<1>17. CASE LandsLater(d)
  BY <1>17, <1>3 DEF CallOf, Placed, Keyless, Keyed, Quiet, Exposed, RanAWriter, Came, Unsent, Replaying, Declared, LandsLater
<1>18. ASSUME NEW s \in Servers, Crash(s) PROVE CallOf(d)'
  BY <1>18, <1>3 DEF CallOf, Placed, Keyless, Keyed, Quiet, Exposed, RanAWriter, Came, Unsent, Replaying, Declared, Crash, Ended
<1>19. CASE Operate
  BY <1>19, <1>4 DEF Operate, Local
<1>20. CASE UNCHANGED vars
  BY <1>20, <1>4 DEF vars, Local
<1> QED
  BY <1>5, <1>6, <1>7, <1>8, <1>9, <1>10, <1>11, <1>12, <1>13, <1>14, <1>15, <1>16, <1>17, <1>18, <1>19, <1>20
  DEF Next, Step

-------------------------------------------------------------------------------
(* The lock, the ledger, and what is repeated.                             *)

LEMMA LockInvariance ==
  TypeOK /\ CallInv /\ (\A c \in Calls : HoldsLock(c)) /\ [Next]_vars => \A c \in Calls : HoldsLock(c)'
<1> SUFFICES ASSUME TypeOK, CallInv, \A c \in Calls : HoldsLock(c), [Next]_vars, NEW d \in Calls
             PROVE  HoldsLock(d)'
  OBVIOUS
<1>1. HoldsLock(d) /\ Placed(d) /\ Keyless(d)
  BY DEF CallInv
<1> USE DEF TypeOK, Goto, Verdicts, disk, request, run, Ended, HoldsLock, Placed, Keyless
<1>2. ASSUME NEW c \in Calls, Call(c) PROVE HoldsLock(d)'
  BY <1>1, <1>2 DEF Call
<1>3. ASSUME NEW c \in Calls, LookUp(c) \/ Classify(c) PROVE HoldsLock(d)'
  BY <1>1, <1>3, NoneAssumption DEF LookUp, Classify, End
<1>4. ASSUME NEW c \in Calls, Preflight(c) PROVE HoldsLock(d)'
  BY <1>1, <1>4, NoneAssumption DEF Preflight, Checks, End, CallInv
<1>5. ASSUME NEW c \in Calls, CheckLedger(c) PROVE HoldsLock(d)'
  BY <1>1, <1>5, NoneAssumption DEF CheckLedger, End
<1>6. ASSUME NEW c \in Calls, Accept(c) \/ Decline(c) \/ Gate(c) PROVE HoldsLock(d)'
  BY <1>1, <1>6, NoneAssumption DEF Accept, Decline, Gate, End
<1>7. ASSUME NEW c \in Calls, Precheck(c) \/ Run(c) \/ Report(c) PROVE HoldsLock(d)'
  BY <1>1, <1>7 DEF Precheck, Run, Report
<1>8. ASSUME NEW c \in Calls, Record(c) \/ RecordFails(c) \/ NoRecord(c) \/ Cancel(c) PROVE HoldsLock(d)'
  BY <1>1, <1>8, NoneAssumption DEF Record, RecordFails, NoRecord, Cancel, Arms, End
<1>9. ASSUME NEW c \in Calls, LandsLater(c) PROVE HoldsLock(d)'
  BY <1>1, <1>9 DEF LandsLater
<1>10. ASSUME NEW s \in Servers, Crash(s) PROVE HoldsLock(d)'
  BY <1>1, <1>10 DEF Crash
<1>11. CASE Operate \/ UNCHANGED vars
  BY <1>1, <1>11 DEF Operate, vars
<1> QED
  BY <1>2, <1>3, <1>4, <1>5, <1>6, <1>7, <1>8, <1>9, <1>10, <1>11 DEF Next, Step

\* Nothing is taken out of the ledger, nor out of what is lost, and no write is unsent.
LEMMA Grows ==
  TypeOK /\ CallInv /\ [Next]_vars =>
    /\ ledger \subseteq ledger' /\ lost \subseteq lost' /\ spec' = spec
    /\ \A c \in Calls :
         /\ wrote[c] = "performed" => wrote'[c] = "performed"
         /\ keys[c] # None => keys'[c] = keys[c]
         /\ pc[c] # "idle" => server'[c] = server[c] /\ args'[c] = args[c]
<1> USE DEF TypeOK, disk, request, run
<1> SUFFICES ASSUME TypeOK, CallInv, [Next]_vars
    PROVE  /\ ledger \subseteq ledger' /\ lost \subseteq lost' /\ spec' = spec
           /\ \A c \in Calls :
                /\ wrote[c] = "performed" => wrote'[c] = "performed"
                /\ keys[c] # None => keys'[c] = keys[c]
                /\ pc[c] # "idle" => server'[c] = server[c] /\ args'[c] = args[c]
  OBVIOUS
<1>1. ASSUME NEW c \in Calls PROVE Keyless(c) /\ Quiet(c)
  BY DEF CallInv
<1>2. ASSUME NEW c \in Calls, Step(c) \/ Call(c) \/ Cancel(c) \/ LandsLater(c)
      PROVE  ledger \subseteq ledger' /\ lost \subseteq lost' /\ spec' = spec
  BY <1>2 DEF Step, Call, LookUp, Classify, Preflight, Checks, CheckLedger, Accept, Decline, Gate, Precheck,
     Run, Report, Record, RecordFails, NoRecord, Cancel, LandsLater
<1>3. ASSUME NEW c \in Calls, Step(c) \/ Call(c) \/ Cancel(c) \/ LandsLater(c), NEW d \in Calls
      PROVE  /\ wrote[d] = "performed" => wrote'[d] = "performed"
             /\ keys[d] # None => keys'[d] = keys[d]
             /\ pc[d] # "idle" => server'[d] = server[d] /\ args'[d] = args[d]
  BY <1>1, <1>3 DEF Step, Call, LookUp, Classify, Preflight, Checks, CheckLedger, Accept, Decline, Gate, Precheck,
     Run, Report, Record, RecordFails, NoRecord, Cancel, LandsLater, Keyless, Quiet, Unsent
<1>4. CASE \E c \in Calls : Call(c) \/ Step(c) \/ Cancel(c) \/ LandsLater(c)
  BY <1>2, <1>3, <1>4
<1>5. CASE \E s \in Servers : Crash(s)
  BY <1>5 DEF Crash
<1>6. CASE Operate \/ UNCHANGED vars
  BY <1>6 DEF Operate, vars
<1> QED BY <1>4, <1>5, <1>6 DEF Next

\* A call that sends, or has sent, keeps what it sent.
LEMMA SentStays ==
  TypeOK /\ CallInv /\ [Next]_vars =>
    \A c \in Calls : wrote[c] # "no" =>
      wrote'[c] # "no" /\ SentKeys(c)' = SentKeys(c) /\ server'[c] = server[c] /\ keys'[c] = keys[c]
<1> USE DEF TypeOK, disk, request, run
<1> SUFFICES ASSUME TypeOK, CallInv, [Next]_vars, NEW d \in Calls, wrote[d] # "no"
             PROVE  /\ wrote'[d] # "no" /\ SentKeys(d)' = SentKeys(d)
                    /\ server'[d] = server[d] /\ keys'[d] = keys[d]
  OBVIOUS
<1>1. pc[d] \notin Unsent
  BY DEF CallInv, Quiet
<1>2. SUFFICES wrote'[d] # "no" /\ ran'[d] = ran[d] /\ args'[d] = args[d]
               /\ server'[d] = server[d] /\ keys'[d] = keys[d]
  BY DEF SentKeys, KeysOf
<1>3. ASSUME NEW c \in Calls, Step(c) \/ Call(c) \/ Cancel(c) \/ LandsLater(c)
      PROVE  wrote'[d] # "no" /\ ran'[d] = ran[d] /\ args'[d] = args[d]
             /\ server'[d] = server[d] /\ keys'[d] = keys[d]
  BY <1>1, <1>3 DEF Step, Call, LookUp, Classify, Preflight, Checks, CheckLedger, Accept, Decline, Gate, Precheck,
     Run, Report, Record, RecordFails, NoRecord, Cancel, LandsLater, Unsent
<1>4. CASE \E s \in Servers : Crash(s)
  BY <1>4 DEF Crash
<1>5. CASE Operate \/ UNCHANGED vars
  BY <1>5 DEF Operate, vars
<1> QED BY <1>3, <1>4, <1>5 DEF Next

LEMMA SettledInvariance ==
  TypeOK /\ CallInv /\ (\A c \in Calls : Settled(c)) /\ [Next]_vars => \A c \in Calls : Settled(c)'
<1> SUFFICES ASSUME TypeOK, CallInv, \A c \in Calls : Settled(c), [Next]_vars, NEW d \in Calls
             PROVE  Settled(d)'
  OBVIOUS
<1>1. Settled(d) /\ Quiet(d)
  BY DEF CallInv
<1>2. ledger \subseteq ledger' /\ lost \subseteq lost'
  BY Grows
<1>3. wrote[d] # "no" => SentKeys(d)' = SentKeys(d) /\ keys'[d] = keys[d]
  BY SentStays
\* What a call that has ended already left is still there.
<1>4. ASSUME pc'[d] = pc[d], wrote[d] # "no" \/ wrote'[d] = wrote[d] PROVE Settled(d)'
  BY <1>1, <1>2, <1>3, <1>4 DEF Settled
<1>5. ASSUME pc'[d] # "done" \/ wrote'[d] = "no" PROVE Settled(d)'
  BY <1>5 DEF Settled
<1> USE DEF TypeOK, Goto, Verdicts, disk, request, run
<1>6. ASSUME NEW c \in Calls, Step(c) \/ Call(c) \/ Cancel(c) \/ LandsLater(c), c # d PROVE Settled(d)'
  <2>1. pc'[d] = pc[d] /\ wrote'[d] = wrote[d]
    BY <1>6 DEF Step, Call, LookUp, Classify, Preflight, Checks, CheckLedger, Accept, Decline, Gate, Precheck,
       Run, Report, Record, RecordFails, NoRecord, Cancel, LandsLater, End
  <2> QED BY <2>1, <1>4
<1>7. CASE Call(d) \/ LookUp(d) \/ Classify(d) \/ Preflight(d) \/ CheckLedger(d) \/ Accept(d) \/ Decline(d) \/ Gate(d)
  <2>1. wrote'[d] = "no"
    BY <1>7, <1>1 DEF Call, LookUp, Classify, Preflight, Checks, CheckLedger, Accept, Decline, Gate, Quiet, Unsent
  <2> QED BY <2>1, <1>5
<1>8. CASE Precheck(d) \/ Run(d) \/ Report(d)
  <2>1. pc'[d] # "done"
    BY <1>8 DEF Precheck, Run, Report
  <2> QED BY <2>1, <1>5
<1>9. CASE Record(d)
  <2>1. keys'[d] \in ledger'
    BY <1>9 DEF Record
  <2> QED BY <2>1 DEF Settled
<1>10. CASE RecordFails(d) \/ NoRecord(d) \/ Cancel(d)
  <2>1. wrote'[d] = wrote[d] /\ keys'[d] = keys[d] /\ lost' = lost \cup Forgets(d)
    BY <1>10 DEF RecordFails, NoRecord, Cancel
  <2>2. wrote[d] # "no" => SentKeys(d) \in lost'
    BY <2>1 DEF Forgets
  <2> QED BY <2>1, <2>2, <1>3 DEF Settled
<1>11. CASE LandsLater(d)
  <2>1. pc'[d] = pc[d] /\ wrote[d] # "no"
    BY <1>11 DEF LandsLater
  <2> QED BY <2>1, <1>4
<1>12. ASSUME NEW s \in Servers, Crash(s) PROVE Settled(d)'
  <2> DEFINE dying == {c \in Calls : server[c] = s /\ pc[c] \notin Ended}
  <2>1. wrote'[d] = wrote[d] /\ keys'[d] = keys[d] /\ lost' = lost \cup UNION {Forgets(c) : c \in dying}
        /\ pc'[d] = IF d \in dying THEN "done" ELSE pc[d]
    BY <1>12 DEF Crash
  <2>2. CASE d \in dying
    <3>1. Forgets(d) \subseteq lost'
      BY <2>1, <2>2
    <3>2. wrote[d] # "no" => SentKeys(d) \in lost'
      BY <3>1 DEF Forgets
    <3> QED BY <2>1, <3>2, <1>3 DEF Settled
  <2>3. CASE d \notin dying
    <3>1. pc'[d] = pc[d]
      BY <2>1, <2>3
    <3> QED BY <3>1, <2>1, <1>4
  <2> QED BY <2>2, <2>3
<1>13. CASE Operate \/ UNCHANGED vars
  <2>1. pc'[d] = pc[d] /\ wrote'[d] = wrote[d]
    BY <1>13 DEF Operate, vars
  <2> QED BY <2>1, <1>4
<1> QED
  BY <1>6, <1>7, <1>8, <1>9, <1>10, <1>11, <1>12, <1>13 DEF Next, Step

LEMMA RepeatsInvariance == TypeOK /\ CallInv /\ RailInv /\ [Next]_vars => (\A c, d \in Calls : Repeats(c, d))'
<1> SUFFICES ASSUME TypeOK, CallInv, RailInv, [Next]_vars, NEW c \in Calls, NEW d \in Calls,
                    c # d, server'[c] = server'[d], wrote'[c] # "no", keys'[c] = SentKeys(c)',
                    keys'[d] = keys'[c], pc'[d] \in Checked
             PROVE  keys'[c] \in lost'
  BY DEF Repeats
<1> USE DEF TypeOK, Goto, Verdicts, disk, request, run
<1>1. /\ HoldsLock(c) /\ HoldsLock(d) /\ Settled(c) /\ Repeats(c, d) /\ Quiet(c)
      /\ Keyless(c) /\ Keyless(d) /\ Keyed(d) /\ Placed(c) /\ Placed(d) /\ Came(c) /\ Came(d)
  BY DEF RailInv, CallInv
<1>2. lost \subseteq lost'
  BY Grows
<1>3. wrote[c] # "no" => SentKeys(c)' = SentKeys(c) /\ keys'[c] = keys[c] /\ server'[c] = server[c]
  BY SentStays
\* Nothing about d changed but, perhaps, where it is past the check.
<1>4. ASSUME wrote[c] # "no", pc[d] \in Checked, keys'[d] = keys[d], server'[d] = server[d]
      PROVE  keys'[c] \in lost'
  BY <1>1, <1>2, <1>3, <1>4 DEF Repeats
<1>5. CASE Run(c)
  <2>1. keys[c] # None /\ pc[c] \notin Ended /\ server'[c] = server[c] /\ keys'[c] = keys[c] /\ lost' = lost
        /\ keys'[d] = keys[d] /\ pc'[d] = pc[d] /\ server'[d] = server[d]
    <3>1. SentKeys(c)' \in [recipe : Recipes \cup {None}, args : Args]
      BY <1>1, <1>5 DEF Run, SentKeys, KeysOf, Placed
    <3>2. ran'[c] # None => SentKeys(c)' # None
      <4>1. ran'[c] # None => SentKeys(c)' \in [recipe : Recipes, args : Args]
        BY <1>1, <1>5 DEF Run, SentKeys, KeysOf, Placed
      <4> QED BY <4>1, NoneAssumption
    <3>3. ran'[c] # None
      BY <1>5, NoneAssumption, RecipesAssumption DEF Run
    <3> QED BY <3>2, <3>3, <1>5 DEF Run, Ended
  <2>2. lock[server[c]] = c
    BY <2>1, <1>1 DEF HoldsLock
  <2>3. pc[d] \notin Ended
    BY <2>1 DEF Checked, Replaying, Ended
  <2>4. lock[server[d]] = d
    BY <2>1, <2>3, <1>1 DEF HoldsLock
  <2> QED BY <2>1, <2>2, <2>4
<1>6. CASE wrote[c] # "no" /\ CheckLedger(d)
  <2>1. keys[d] \notin ledger /\ keys'[d] = keys[d] /\ server'[d] = server[d] /\ lock[server[d]] = d
    <3>1. keys[d] # None /\ pc[d] \notin Ended
      BY <1>1, <1>6 DEF CheckLedger, Keyed, Ended
    <3> QED BY <3>1, <1>1, <1>6 DEF CheckLedger, HoldsLock, End, Checked, Replaying
  <2>2. keys[d] # None
    BY <1>1, <1>6 DEF CheckLedger, Keyed
  <2>3. pc[c] \in Ended
    BY <2>1, <2>2, <1>1, <1>3, <1>6 DEF HoldsLock
  <2>4. pc[c] = "done"
    BY <2>3, <1>1, <1>6 DEF Ended, Quiet, Unsent
  <2>5. keys[c] \in ledger \cup lost
    BY <2>4, <1>1, <1>3, <1>6 DEF Settled
  <2> QED BY <2>1, <2>5, <1>2, <1>3, <1>6
<1>7. ASSUME NEW e \in Calls, Step(e) \/ Call(e) \/ Cancel(e) \/ LandsLater(e), ~Run(c), ~CheckLedger(d)
      PROVE  keys'[c] \in lost'
  <2>1. wrote[c] # "no"
    BY <1>7 DEF Step, Call, LookUp, Classify, Preflight, Checks, CheckLedger, Accept, Decline, Gate, Precheck,
       Run, Report, Record, RecordFails, NoRecord, Cancel, LandsLater, End
  <2>2. keys'[c] = keys[c] /\ keys[c] # None
    <3>1. keys[c] # None
      <4>1. CASE ran[c] \in Recipes /\ args[c] \in Args
        <5>1. SentKeys(c) \in [recipe : Recipes, args : Args]
          BY <4>1 DEF SentKeys, KeysOf
        <5> QED BY <5>1, <2>1, <1>3, NoneAssumption
      <4>2. pc[c] # "idle"
        BY <2>1, <1>1 DEF Quiet, Unsent
      <4>3. ran[c] \in Writers
        BY <2>1 DEF CallInv, RanAWriter
      <4> QED BY <4>1, <4>2, <4>3, <1>1, RecipesAssumption DEF Placed
    <3> QED BY <3>1, <2>1, <1>3
  <2>3. CASE e # d
    <3>1. pc'[d] = pc[d] /\ keys'[d] = keys[d] /\ server'[d] = server[d]
      BY <1>7, <2>3 DEF Step, Call, LookUp, Classify, Preflight, Checks, CheckLedger, Accept, Decline, Gate, Precheck,
         Run, Report, Record, RecordFails, NoRecord, Cancel, LandsLater, End
    <3> QED BY <3>1, <2>1, <1>4
  <2>4. CASE Classify(d) \/ LookUp(d) \/ Call(d)
    BY <2>4, <2>2, <1>1 DEF Classify, LookUp, Call, Keyless
  <2>5. CASE Preflight(d) \/ Record(d) \/ RecordFails(d) \/ NoRecord(d) \/ Cancel(d)
    BY <2>5 DEF Preflight, Checks, Record, RecordFails, NoRecord, Cancel, End, Checked, Replaying
  <2>6. CASE Accept(d) \/ Decline(d) \/ Gate(d) \/ Precheck(d) \/ Run(d) \/ Report(d) \/ LandsLater(d)
    <3>1. pc[d] \in Checked /\ keys'[d] = keys[d] /\ server'[d] = server[d]
      BY <2>6 DEF Accept, Decline, Gate, Precheck, Run, Report, LandsLater, End, Checked, Replaying
    <3> QED BY <3>1, <2>1, <1>4
  <2> QED BY <1>7, <2>3, <2>4, <2>5, <2>6 DEF Step
<1>8. ASSUME NEW s \in Servers, Crash(s) PROVE keys'[c] \in lost'
  <2>1. wrote[c] # "no" /\ keys'[d] = keys[d] /\ server'[d] = server[d] /\ pc[d] \in Checked
    BY <1>8 DEF Crash, Checked, Replaying
  <2> QED BY <2>1, <1>4
<1>9. CASE Operate \/ UNCHANGED vars
  <2>1. wrote[c] # "no" /\ keys'[d] = keys[d] /\ server'[d] = server[d] /\ pc[d] \in Checked
    BY <1>9 DEF Operate, vars
  <2> QED BY <2>1, <1>4
<1>10. CASE CheckLedger(d) /\ wrote[c] = "no"
  BY <1>10 DEF CheckLedger
<1> QED
  BY <1>5, <1>6, <1>7, <1>8, <1>9, <1>10 DEF Next

LEMMA RepeatNeedsLossInvariance ==
  TypeOK /\ CallInv /\ RailInv /\ RepeatNeedsLoss /\ [Next]_vars => RepeatNeedsLoss'
<1> SUFFICES ASSUME TypeOK, CallInv, RailInv, RepeatNeedsLoss, [Next]_vars, NEW c \in Calls, NEW d \in Calls,
                    c # d, server'[c] = server'[d], Declared', wrote'[c] # "no", wrote'[d] # "no",
                    SentKeys(c)' = SentKeys(d)', keys'[c] = SentKeys(c)', keys'[d] = SentKeys(d)'
             PROVE  SentKeys(c)' \in lost'
  BY DEF RepeatNeedsLoss
<1> USE DEF TypeOK, disk, request, run
<1>1. lost \subseteq lost' /\ spec' = spec
  BY Grows
<1>2. ASSUME NEW e \in Calls, wrote[e] # "no"
      PROVE  SentKeys(e)' = SentKeys(e) /\ keys'[e] = keys[e] /\ server'[e] = server[e]
  BY <1>2, SentStays
<1>3. CASE wrote[c] # "no" /\ wrote[d] # "no"
  BY <1>1, <1>2, <1>3 DEF RepeatNeedsLoss, Declared
\* Only Run makes a write of a call that had none, and it runs past the check.
<1>4. ASSUME NEW e \in Calls, wrote[e] = "no", wrote'[e] # "no" PROVE Run(e)
  BY <1>4 DEF Next, vars, Step, Call, LookUp, Classify, Preflight, Checks, CheckLedger, Accept, Decline, Gate,
     Precheck, Run, Report, Record, RecordFails, NoRecord, Cancel, LandsLater, Crash, Operate
<1>5. ASSUME NEW e \in Calls, Run(e)
      PROVE  pc'[e] \in Checked /\ (\A f \in Calls \ {e} : wrote'[f] = wrote[f])
  BY <1>5 DEF Run, Goto, Checked, Replaying
<1>6. (\A e, f \in Calls : Repeats(e, f))'
  BY RepeatsInvariance
<1>7. CASE wrote[d] = "no"
  <2>1. pc'[d] \in Checked
    BY <1>4, <1>5, <1>7
  <2> QED BY <2>1, <1>6 DEF Repeats
<1>8. CASE wrote[c] = "no"
  <2>1. pc'[c] \in Checked
    BY <1>4, <1>5, <1>8
  <2> QED BY <2>1, <1>6 DEF Repeats
<1> QED BY <1>3, <1>7, <1>8

LEMMA LedgerInvariance ==
  TypeOK /\ CallInv /\ (\A c \in Calls : Claims(c)) /\ LedgerTrue /\ [Next]_vars =>
    LedgerTrue' /\ (\A c \in Calls : Claims(c))'
<1> SUFFICES ASSUME TypeOK, CallInv, \A c \in Calls : Claims(c), LedgerTrue, [Next]_vars
             PROVE  LedgerTrue' /\ (\A c \in Calls : Claims(c))'
  OBVIOUS
<1> USE DEF TypeOK, Goto, Verdicts, disk, request, run
<1>1. /\ spec' = spec
      /\ \A c \in Calls : /\ wrote[c] = "performed" => wrote'[c] = "performed"
                          /\ keys[c] # None => keys'[c] = keys[c]
  BY Grows
<1>2. \A k \in ledger : \E c \in Calls : wrote'[c] = "performed" /\ (keys'[c] = k \/ spec' = "prechecked")
  <2> SUFFICES ASSUME NEW k \in ledger
               PROVE  \E c \in Calls : wrote'[c] = "performed" /\ (keys'[c] = k \/ spec' = "prechecked")
    OBVIOUS
  <2>1. PICK c \in Calls : wrote[c] = "performed" /\ (keys[c] = k \/ spec = "prechecked")
    BY DEF LedgerTrue
  <2>2. k # None
    BY NoneAssumption DEF Keys
  <2> QED BY <2>1, <2>2, <1>1
<1>3. ASSUME NEW c \in Calls, Arms(c), ledger' \subseteq ledger \cup {keys[c]} PROVE LedgerTrue'
  <2>1. \E d \in Calls : wrote'[d] = "performed" /\ (keys'[d] = keys[c] \/ spec' = "prechecked")
    BY <1>1, <1>3 DEF Arms, Claims
  <2> QED BY <2>1, <1>2, <1>3 DEF LedgerTrue
<1>4. ASSUME ledger' = ledger PROVE LedgerTrue'
  BY <1>2, <1>4 DEF LedgerTrue
<1>5. LedgerTrue'
  <2>1. ASSUME NEW c \in Calls, Record(c) \/ RecordFails(c) PROVE LedgerTrue'
    BY <2>1, <1>3 DEF Record, RecordFails
  <2>2. ASSUME NEW c \in Calls, Step(c) \/ Call(c) \/ Cancel(c) \/ LandsLater(c), ~Record(c), ~RecordFails(c)
        PROVE  LedgerTrue'
    BY <2>2, <1>4 DEF Step, Call, LookUp, Classify, Preflight, Checks, CheckLedger, Accept, Decline, Gate, Precheck,
       Run, Report, NoRecord, Cancel, LandsLater
  <2>3. ASSUME NEW s \in Servers, Crash(s) PROVE LedgerTrue'
    BY <2>3, <1>4 DEF Crash
  <2>4. CASE Operate \/ UNCHANGED vars
    BY <2>4, <1>4 DEF Operate, vars
  <2> QED BY <2>1, <2>2, <2>3, <2>4 DEF Next
<1>6. ASSUME NEW d \in Calls PROVE Claims(d)'
  <2> HIDE DEF Verdicts
  <2>1. Claims(d) /\ Came(d) /\ Keyless(d)
    BY DEF CallInv
  <2>2. ASSUME pc[d] \in {"ok", "landed"}, keys'[d] = keys[d] PROVE Claims(d)'
    BY <1>1, <2>1, <2>2 DEF Claims
  <2>3. ASSUME pc'[d] \notin {"ok", "landed"} PROVE Claims(d)'
    BY <2>3 DEF Claims
  <2>4. CASE Precheck(d)
    BY <2>4 DEF Precheck, Claims
  <2>5. CASE Report(d)
    <3>1. pc'[d] \in {"ok", "landed"} /\ keys'[d] # None => Declared
      BY <2>1, <2>5 DEF Report, Came, Replaying
    <3> QED BY <3>1, <2>5 DEF Report, Claims
  <2>6. ASSUME NEW c \in Calls, Step(c) \/ Call(c) \/ Cancel(c) \/ LandsLater(c), ~Precheck(d), ~Report(d)
        PROVE  Claims(d)'
    <3>1. \/ pc[d] \in {"ok", "landed"} /\ keys'[d] = keys[d]
          \/ pc'[d] \notin {"ok", "landed"}
      BY <2>6 DEF Step, Call, LookUp, Classify, Preflight, Checks, CheckLedger, Accept, Decline, Gate, Precheck,
         Run, Report, Record, RecordFails, NoRecord, Cancel, LandsLater, End
    <3> QED BY <3>1, <2>2, <2>3
  <2>7. ASSUME NEW s \in Servers, Crash(s) PROVE Claims(d)'
    <3>1. \/ pc[d] \in {"ok", "landed"} /\ keys'[d] = keys[d]
          \/ pc'[d] \notin {"ok", "landed"}
      BY <2>7 DEF Crash
    <3> QED BY <3>1, <2>2, <2>3
  <2>8. CASE Operate \/ UNCHANGED vars
    <3>1. \/ pc[d] \in {"ok", "landed"} /\ keys'[d] = keys[d]
          \/ pc'[d] \notin {"ok", "landed"}
      BY <2>8 DEF Operate, vars
    <3> QED BY <3>1, <2>2, <2>3
  <2> QED BY <2>4, <2>5, <2>6, <2>7, <2>8 DEF Next
<1> QED BY <1>5, <1>6

-------------------------------------------------------------------------------
(* The theorems.                                                           *)

LEMMA IInvInvariance == IInv /\ [Next]_vars => IInv'
<1> SUFFICES ASSUME IInv, [Next]_vars PROVE IInv'
  OBVIOUS
<1> USE DEF IInv
<1>1. TypeOK'
  BY TypeInvariance
<1>2. CallInv'
  BY CallInvariance
<1>3. RailInv'
  BY LockInvariance, SettledInvariance, RepeatsInvariance DEF RailInv
<1>4. LedgerTrue' /\ (\A c \in Calls : Claims(c))'
  BY LedgerInvariance
<1>5. RepeatNeedsLoss'
  BY RepeatNeedsLossInvariance
<1> QED BY <1>1, <1>2, <1>3, <1>4, <1>5

LEMMA AlwaysIInv == Spec => []IInv
BY InitImpliesIInv, IInvInvariance, PTL DEF Spec

\* Every state of the rail is of its types.
THEOREM TypeCorrect == Spec => []TypeOK
<1>1. IInv => TypeOK
  BY DEF IInv
<1> QED BY <1>1, AlwaysIInv, PTL

\* No tool call sends a write that no human accepted, or from a server that does
\* not expose writes, however calls interleave, servers die and the operator
\* re-learns; but for a read whose recipe was replaced by one that writes.
THEOREM WritesAreAccepted == Spec => []HumanAccepts
<1>1. IInv => HumanAccepts
  BY DEF IInv, CallInv, RanAWriter, Came, HumanAccepts, Declared
<1> QED BY <1>1, AlwaysIInv, PTL

\* The lock and the ledger keep one server from sending the same keys twice,
\* unless a record was lost or the recipe changed under a call.
THEOREM RepeatsNeedLoss == Spec => []RepeatNeedsLoss
<1>1. IInv => RepeatNeedsLoss
  BY DEF IInv
<1> QED BY <1>1, AlwaysIInv, PTL

\* The ledger has the keys of performed writes only.
THEOREM LedgerIsTrue == Spec => []LedgerTrue
<1>1. IInv => LedgerTrue
  BY DEF IInv
<1> QED BY <1>1, AlwaysIInv, PTL
===============================================================================
