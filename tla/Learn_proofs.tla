------------------------------- MODULE Learn_proofs -------------------------------
(***************************************************************************)
(* Proofs about Learn, for passes of any length, any number of samples and *)
(* calls, any actions and any faults.                                      *)
(***************************************************************************)
EXTENDS Learn, SequenceTheorems, FiniteSetTheorems, TLAPS

Learning == Passing \cup {"verify"}

\* A call that learns has not been told of a refusal, and one that was is not forgotten.
Remembered ==
  /\ pc \in Learning => ~refused
  /\ told = 0 \/ refused \/ amnesia

\* What was seen of a pass is in its flags; a pass that is verified has none.
Flagged ==
  /\ \A j \in 1..Now : steps[j].left \in {"seen", "late"} => wrote
  /\ \A j \in 1..Now : steps[j].left \in {"seen", "late", "read"} => posted
  /\ pc = "verify" => ~wrote /\ ~posted
  /\ pc \in Learning => ~seen

\* If only one step was seen to write, inside its own tail, the evidence is its own:
\* it was credited, or nobody was, and then a step that was acting is noted, which
\* is the step itself if it writes while it acts.
Placed ==
  /\ Seen = {} => wrote_by_step = {} /\ acting_at_write = {}
  /\ \A j \in 1..Now : Seen = {j} /\ steps[j].left = "seen" =>
       \/ wrote_by_step = {j}
       \/ /\ wrote_by_step = {}
          /\ acting_at_write # {}
          /\ steps[j].kind.sends = "now" => acting_at_write = {j}

\* The inductive invariant.
IInv == TypeOK /\ Remembered /\ Flagged /\ Placed /\ LoneWriteGated /\ RefusedOnce

-------------------------------------------------------------------------------
(* The steps of a pass.                                                    *)

LEMMA Empty == <<>> \in Seq(Step) /\ Len(<<>>) = 0
OBVIOUS

LEMMA SeenIsWhere == \A j : j \in Seen <=> j \in 1..Now /\ steps[j].left \in {"seen", "late"}
BY DEF Seen

\* A step acts: the others are as they were.
LEMMA Appended ==
  ASSUME TypeOK, NEW k \in Kinds
  PROVE  LET s == [kind |-> k, ok |-> TRUE, left |-> "no"]
         IN  /\ Append(steps, s) \in Seq(Step) /\ Len(Append(steps, s)) = Now + 1
             /\ \A j \in 1..(Now + 1) : Append(steps, s)[j] = IF j = Now + 1 THEN s ELSE steps[j]
<1> DEFINE s == [kind |-> k, ok |-> TRUE, left |-> "no"]
<1>1. s \in Step /\ steps \in Seq(Step)
  BY DEF Step, TypeOK
<1> HIDE DEF s
<1>2. Append(steps, s) \in Seq(Step) /\ Len(Append(steps, s)) = Len(steps) + 1
      /\ \A j \in 1..(Len(steps) + 1) : Append(steps, s)[j] = IF j = Len(steps) + 1 THEN s ELSE steps[j]
  BY <1>1
<1> QED BY <1>2 DEF s, Now

\* What is known of a step changes, and of no other.
LEMMA Updated ==
  ASSUME TypeOK, NEW j \in 1..Now, NEW s \in Step
  PROVE  LET f == [steps EXCEPT ![j] = s]
         IN  f \in Seq(Step) /\ Len(f) = Now /\ \A i \in 1..Now : f[i] = IF i = j THEN s ELSE steps[i]
<1> DEFINE f == [steps EXCEPT ![j] = s]
<1>1. steps \in Seq(Step) /\ j \in 1..Len(steps) /\ DOMAIN steps = 1..Len(steps)
  BY DEF TypeOK, Now
<1>2. f \in Seq(Step) /\ Len(f) = Len(steps)
  BY <1>1, ExceptSeq
<1>3. \A i \in 1..Len(steps) : f[i] = IF i = j THEN s ELSE steps[i]
  BY <1>1
<1> QED BY <1>2, <1>3 DEF Now

LEMMA Left ==
  ASSUME TypeOK, NEW j \in 1..Now, NEW l \in {"no", "seen", "read", "late", "unseen"}
  PROVE  LET f == [steps EXCEPT ![j].left = l]
         IN  /\ f \in Seq(Step) /\ Len(f) = Now
             /\ \A i \in 1..Now : /\ f[i].kind = steps[i].kind /\ f[i].ok = steps[i].ok
                                  /\ f[i].left = IF i = j THEN l ELSE steps[i].left
<1>1. steps[j] \in Step
  BY DEF TypeOK, Now
<1> DEFINE s == [steps[j] EXCEPT !.left = l]
<1>2. s \in Step /\ s.kind = steps[j].kind /\ s.ok = steps[j].ok /\ s.left = l
  BY <1>1 DEF Step
<1>3. [steps EXCEPT ![j].left = l] = [steps EXCEPT ![j] = s]
  OBVIOUS
<1> HIDE DEF s
<1> QED BY <1>2, <1>3, Updated

LEMMA Kept ==
  ASSUME TypeOK, NEW j \in 1..Now, NEW b \in BOOLEAN
  PROVE  LET f == [steps EXCEPT ![j].ok = b]
         IN  /\ f \in Seq(Step) /\ Len(f) = Now
             /\ \A i \in 1..Now : f[i].kind = steps[i].kind /\ f[i].left = steps[i].left
<1>1. steps[j] \in Step
  BY DEF TypeOK, Now
<1> DEFINE s == [steps[j] EXCEPT !.ok = b]
<1>2. s \in Step /\ s.kind = steps[j].kind /\ s.left = steps[j].left
  BY <1>1 DEF Step
<1>3. [steps EXCEPT ![j].ok = b] = [steps EXCEPT ![j] = s]
  OBVIOUS
<1> HIDE DEF s
<1> QED BY <1>2, <1>3, Updated

\* One candidate is the owner.
LEMMA OwnerIsAlone ==
  ASSUME TypeOK
  PROVE  /\ Owner \subseteq Live /\ Live \subseteq 1..Now
         /\ \A j \in Live : Owner # {} => Owner = {j}
<1>1. tail \in Nat \ {0} /\ Now \in Nat
  BY DEF TypeOK, Now
<1>2. Cardinality(Live) = IF tail > Now THEN 0 ELSE Now - tail + 1
  BY <1>1, FS_Interval DEF Live
<1>3. Owner # {} => tail = Now
  BY <1>1, <1>2 DEF Owner
<1> QED BY <1>1, <1>3 DEF Owner, Live

-------------------------------------------------------------------------------
(* The inductive invariant.                                                *)

LEMMA InitImpliesIInv == Init => IInv
<1> SUFFICES ASSUME Init PROVE IInv
  OBVIOUS
<1>1. Now = 0 /\ steps \in Seq(Step)
  BY Empty DEF Init, Now
<1>2. Seen = {}
  BY <1>1 DEF Seen
<1>3. TypeOK
  <2>1. steps \in Seq(Step) /\ Now <= N /\ tail \in 1..(Now + 1)
    BY <1>1, BoundsAssumption DEF Init
  <2>2. runs \in 0..Runs /\ sample \in 0..Samples /\ told \in Nat
    BY BoundsAssumption DEF Init
  <2> QED BY <2>1, <2>2 DEF Init, TypeOK, Passing
<1> QED
  BY <1>1, <1>2, <1>3 DEF Init, IInv, Remembered, Flagged, Placed, LoneWriteGated, RefusedOnce, Learning, Passing

\* A pass that starts knows nothing.
LEMMA Fresh == NewPass => /\ steps' \in Seq(Step) /\ Now' = 0 /\ tail' = 1 /\ Seen' = {}
                          /\ wrote_by_step' = {} /\ acting_at_write' = {} /\ wrote' = FALSE /\ posted' = FALSE
                          /\ Placed'
BY Empty DEF NewPass, Now, Seen, Placed

LEMMA FreshKeeps ==
  ASSUME IInv, NewPass, Remembered', RefusedOnce', LoneWriteGated',
         recipe' \in BOOLEAN, loose' \subseteq {"lone", "shared"}, refused' \in BOOLEAN, amnesia' \in BOOLEAN,
         pc' \in {"idle", "decide"}, runs' \in 0..Runs, sample' \in 0..Samples, seen' = FALSE, told' \in Nat
  PROVE  IInv'
<1>1. TypeOK'
  <2>1. steps' \in Seq(Step) /\ Now' <= N /\ tail' \in 1..(Now' + 1)
    BY Fresh, BoundsAssumption
  <2>2. wrote_by_step' \subseteq 1..Now' /\ acting_at_write' \subseteq 1..Now' /\ wrote' \in BOOLEAN /\ posted' \in BOOLEAN
    BY Fresh
  <2>3. pc' \in Passing \cup {"idle", "replay", "verify"}
    BY DEF Passing
  <2> QED BY <2>1, <2>2, <2>3 DEF TypeOK
<1>2. Flagged'
  BY Fresh DEF Flagged
<1> QED BY <1>1, <1>2, Fresh DEF IInv

LEMMA BeginKeeps == IInv /\ (Begin \/ ReplayEnds) => IInv'
<1> SUFFICES ASSUME IInv, Begin \/ ReplayEnds PROVE IInv'
  OBVIOUS
<1>1. runs' \in 0..Runs /\ told' = told /\ UNCHANGED disk
  BY BoundsAssumption DEF Begin, ReplayEnds, IInv, TypeOK, call
<1>2. CASE pc' = "decide" /\ ~refused /\ sample' = 1 /\ seen' = FALSE /\ NewPass
  <2>1. /\ recipe' \in BOOLEAN /\ loose' \subseteq {"lone", "shared"} /\ refused' \in BOOLEAN /\ amnesia' \in BOOLEAN
        /\ told' \in Nat /\ sample' \in 0..Samples
    BY <1>1, <1>2, BoundsAssumption DEF disk, IInv, TypeOK
  <2>2. Remembered' /\ RefusedOnce' /\ LoneWriteGated'
    BY <1>1, <1>2 DEF disk, IInv, Remembered, RefusedOnce, LoneWriteGated
  <2> QED BY <1>1, <1>2, <2>1, <2>2, FreshKeeps
<1>3. CASE pc' \in {"idle", "replay"} /\ UNCHANGED <<sample, seen, pass>>
  BY <1>1, <1>3 DEF disk, pass, evidence, IInv, TypeOK, Remembered, Flagged, Placed, RefusedOnce, LoneWriteGated,
     Learning, Passing, Now, Seen
<1> QED BY <1>2, <1>3 DEF Begin, ReplayEnds, IInv

\* A call that ends knows nothing, and leaves what it put on disk.
LEMMA OverKeeps ==
  ASSUME IInv, Over, runs' = runs, told' \in Nat, recipe' \in BOOLEAN, loose' \subseteq {"shared"},
         refused' \in BOOLEAN, amnesia' \in BOOLEAN, told' = 0 \/ refused' \/ amnesia', told' <= 1 \/ amnesia'
  PROVE  IInv'
<1>1. NewPass /\ pc' = "idle" /\ sample' = 0 /\ seen' = FALSE
  BY DEF Over
<1>2. Remembered' /\ RefusedOnce' /\ LoneWriteGated'
  BY <1>1 DEF Remembered, RefusedOnce, LoneWriteGated, Learning, Passing
<1>3. runs' \in 0..Runs /\ sample' \in 0..Samples /\ loose' \subseteq {"lone", "shared"}
  BY <1>1, BoundsAssumption DEF IInv, TypeOK
<1> QED BY <1>1, <1>2, <1>3, FreshKeeps

LEMMA ActKeeps == IInv /\ Act => IInv'
<1> SUFFICES ASSUME IInv, Act PROVE IInv'
  OBVIOUS
<1>1. PICK k \in Kinds : steps' = Append(steps, [kind |-> k, ok |-> TRUE, left |-> "no"]) /\ wrote' = (wrote \/ k.mark)
  BY DEF Act
<1>2. TypeOK /\ pc = "decide" /\ Now < N /\ Now \in Nat /\ wrote \in BOOLEAN
  BY DEF Act, IInv, TypeOK, Now
<1>3. /\ steps' \in Seq(Step) /\ Now' = Now + 1
      /\ \A j \in 1..(Now + 1) : steps'[j] = IF j = Now + 1 THEN [kind |-> k, ok |-> TRUE, left |-> "no"] ELSE steps[j]
  BY <1>1, <1>2, Appended DEF Now
<1>4. k.mark \in BOOLEAN
  BY KindsAssumption
<1>5. wrote' \in BOOLEAN /\ (wrote => wrote')
  BY <1>1, <1>2, <1>4
<1>6. UNCHANGED <<recipe, loose, refused, amnesia, runs, sample, seen, told, tail, wrote_by_step, acting_at_write, posted>>
      /\ pc' = "act"
  BY DEF Act, disk, call
<1>7. \A j \in 1..Now' : steps'[j].left # "no" => j \in 1..Now /\ steps'[j] = steps[j]
  BY <1>2, <1>3
<1>8. Seen' = Seen
  BY <1>2, <1>3, <1>7 DEF Seen
<1>9. TypeOK'
  <2>1. tail' \in 1..(Now' + 1) /\ Now' <= N /\ wrote_by_step' \subseteq 1..Now' /\ acting_at_write' \subseteq 1..Now'
    BY <1>2, <1>3, <1>6, BoundsAssumption DEF TypeOK
  <2> QED BY <1>2, <1>3, <1>5, <1>6, <2>1 DEF TypeOK, Passing
<1>10. Flagged'
  BY <1>2, <1>5, <1>6, <1>7 DEF IInv, Flagged, Learning, Passing
<1>11. Placed'
  <2>1. ASSUME NEW j \in 1..Now', Seen' = {j}, steps'[j].left = "seen"
        PROVE  j \in 1..Now /\ steps'[j] = steps[j] /\ Seen = {j}
    BY <2>1, <1>7, <1>8
  <2> QED BY <1>6, <1>8, <2>1 DEF IInv, Placed
<1> QED
  BY <1>2, <1>6, <1>9, <1>10, <1>11 DEF IInv, Remembered, LoneWriteGated, RefusedOnce, Learning, Passing

LEMMA VerifiedKeeps == IInv /\ Verified => IInv'
<1> SUFFICES ASSUME IInv, Verified PROVE IInv'
  OBVIOUS
<1>1. PICK ok \in BOOLEAN : steps' = [steps EXCEPT ![Now].ok = ok]
  BY DEF Verified
<1>2. TypeOK /\ pc = "act" /\ Now \in Nat
  BY DEF Verified, IInv, TypeOK, Now
<1>3. UNCHANGED <<recipe, loose, refused, amnesia, runs, sample, seen, told, tail, wrote_by_step, acting_at_write,
                  wrote, posted>>
      /\ pc' = "decide"
  BY DEF Verified, disk, call, evidence
<1>4. steps' \in Seq(Step) /\ Now' = Now
      /\ \A i \in 1..Now : steps'[i].kind = steps[i].kind /\ steps'[i].left = steps[i].left
  <2>1. CASE Now = 0
    <3>1. steps' = steps
      <4>1. DOMAIN steps = {} /\ steps \in Seq(Step)
        BY <1>2, <2>1 DEF TypeOK, Now
      <4> QED BY <1>1, <4>1, <2>1
    <3> QED BY <1>2, <3>1 DEF TypeOK, Now
  <2>2. CASE Now # 0
    <3>1. Now \in 1..Now
      BY <1>2, <2>2
    <3> HIDE DEF Now
    <3>2. steps' \in Seq(Step) /\ Len(steps') = Now
          /\ \A i \in 1..Now : steps'[i].kind = steps[i].kind /\ steps'[i].left = steps[i].left
      BY <1>1, <1>2, <3>1, Kept
    <3> QED BY <3>2 DEF Now
  <2> QED BY <2>1, <2>2
<1>5. Seen' = Seen
  BY <1>4 DEF Seen
<1>6. TypeOK'
  BY <1>2, <1>3, <1>4 DEF TypeOK, Passing
<1>7. Flagged'
  BY <1>2, <1>3, <1>4 DEF IInv, Flagged, Learning, Passing
<1>8. Placed'
  BY <1>3, <1>4, <1>5 DEF IInv, Placed
<1> QED
  BY <1>2, <1>3, <1>6, <1>7, <1>8 DEF IInv, Remembered, LoneWriteGated, RefusedOnce, Learning, Passing

LEMMA ExpireKeeps == IInv /\ (Expire \/ Stop) => IInv'
<1> SUFFICES ASSUME IInv, Expire \/ Stop PROVE IInv'
  OBVIOUS
<1>1. UNCHANGED <<recipe, loose, refused, amnesia, runs, sample, seen, told, steps, wrote_by_step, acting_at_write,
                  wrote, posted>>
      /\ pc \in Passing /\ pc' \in Passing /\ tail' \in {tail, tail + 1} /\ (tail' # tail => tail <= Now)
  BY DEF Expire, Stop, disk, call, pass, evidence, Passing
<1>2. Seen' = Seen /\ Now' = Now /\ Now \in Nat
  BY <1>1 DEF Seen, Now, IInv, TypeOK
<1>3. tail' \in 1..(Now' + 1)
  BY <1>1, <1>2 DEF IInv, TypeOK
<1>4. TypeOK'
  BY <1>1, <1>2, <1>3 DEF IInv, TypeOK
<1> QED
  BY <1>1, <1>2, <1>4 DEF IInv, Remembered, Flagged, Placed, LoneWriteGated, RefusedOnce, Learning, Passing

\* A request leaves: the evidence is about its own step or there is more to see.
LEMMA LeavesKeeps == IInv /\ Leaves => IInv'
<1> SUFFICES ASSUME IInv, Leaves PROVE IInv'
  OBVIOUS
<1>1. TypeOK /\ Now \in Nat /\ Flagged /\ Placed /\ wrote \in BOOLEAN /\ posted \in BOOLEAN
  BY DEF IInv, TypeOK, Now
<1>2. UNCHANGED <<recipe, loose, refused, amnesia, runs, sample, seen, told, tail, pc>> /\ pc \in Passing
  BY DEF Leaves, disk, call
<1>3. PICK j \in 1..Now :
       /\ Pending(j)
       /\ \/ /\ Live = {}
             /\ steps' = [steps EXCEPT ![j].left = "unseen"]
             /\ UNCHANGED evidence
          \/ /\ Live # {}
             /\ steps[j].kind.names_read
             /\ steps' = [steps EXCEPT ![j].left = "read"]
             /\ posted' = TRUE
             /\ UNCHANGED <<wrote_by_step, acting_at_write, wrote>>
          \/ /\ Live # {}
             /\ ~steps[j].kind.names_read
             /\ steps' = [steps EXCEPT ![j].left = IF j \in Live THEN "seen" ELSE "late"]
             /\ wrote_by_step' = wrote_by_step \cup Owner
             /\ acting_at_write' = acting_at_write \cup IF Owner = {} THEN {Now} ELSE {}
             /\ wrote' = TRUE
             /\ posted' = TRUE
  BY DEF Leaves
<1>4. steps[j].left = "no" /\ j \notin Seen
  BY <1>3, SeenIsWhere DEF Pending
<1> DEFINE Becomes(l) ==
      /\ steps' \in Seq(Step) /\ Now' = Now
      /\ \A i \in 1..Now : /\ steps'[i].kind = steps[i].kind
                           /\ steps'[i].left = IF i = j THEN l ELSE steps[i].left
<1>5. ASSUME NEW l \in {"no", "seen", "read", "late", "unseen"}, steps' = [steps EXCEPT ![j].left = l]
      PROVE  Becomes(l)
  <2> HIDE DEF Now
  <2>1. /\ steps' \in Seq(Step) /\ Len(steps') = Now
        /\ \A i \in 1..Now : /\ steps'[i].kind = steps[i].kind /\ steps'[i].ok = steps[i].ok
                             /\ steps'[i].left = IF i = j THEN l ELSE steps[i].left
    <3>1. TypeOK
      BY <1>1
    <3>2. LET f == [steps EXCEPT ![j].left = l]
          IN  /\ f \in Seq(Step) /\ Len(f) = Now
              /\ \A i \in 1..Now : /\ f[i].kind = steps[i].kind /\ f[i].ok = steps[i].ok
                                   /\ f[i].left = IF i = j THEN l ELSE steps[i].left
      BY <3>1, Left
    <3> QED BY <3>2, <1>5
  <2> QED BY <2>1 DEF Now
<1>6. Remembered' /\ LoneWriteGated' /\ RefusedOnce'
  BY <1>2 DEF IInv, Remembered, LoneWriteGated, RefusedOnce, Learning, Passing
\* A request nobody sees, or that names a read, is no write.
<1>7. ASSUME NEW l \in {"read", "unseen"}, Becomes(l), UNCHANGED <<wrote_by_step, acting_at_write, wrote>>,
             posted' \in BOOLEAN, l = "read" => posted', posted => posted'
      PROVE  IInv'
  <2>1. Seen' = Seen
    BY <1>1, <1>4, <1>7 DEF Seen
  <2>2. TypeOK'
    BY <1>1, <1>2, <1>7 DEF TypeOK
  <2>3. Flagged'
    BY <1>1, <1>2, <1>7 DEF Flagged, Learning, Passing
  <2>4. Placed'
    <3>1. ASSUME NEW i \in 1..Now', Seen' = {i}, steps'[i].left = "seen"
          PROVE  i \in 1..Now /\ Seen = {i} /\ steps[i].left = "seen" /\ steps'[i].kind = steps[i].kind
      BY <3>1, <2>1, <1>7
    <3> QED BY <1>1, <1>7, <2>1, <3>1 DEF Placed
  <2> QED BY <1>6, <2>2, <2>3, <2>4 DEF IInv
<1>8. CASE Live = {} /\ steps' = [steps EXCEPT ![j].left = "unseen"] /\ UNCHANGED evidence
  <2>1. Becomes("unseen") /\ UNCHANGED <<wrote_by_step, acting_at_write, wrote, posted>>
    BY <1>5, <1>8 DEF evidence
  <2> QED BY <1>1, <1>7, <2>1
<1>9. CASE /\ steps' = [steps EXCEPT ![j].left = "read"] /\ posted' = TRUE
           /\ UNCHANGED <<wrote_by_step, acting_at_write, wrote>>
  <2>1. Becomes("read")
    BY <1>5, <1>9
  <2> QED BY <1>7, <1>9, <2>1
<1>10. CASE /\ Live # {}
            /\ steps' = [steps EXCEPT ![j].left = IF j \in Live THEN "seen" ELSE "late"]
            /\ wrote_by_step' = wrote_by_step \cup Owner
            /\ acting_at_write' = acting_at_write \cup IF Owner = {} THEN {Now} ELSE {}
            /\ wrote' = TRUE
            /\ posted' = TRUE
  <2> DEFINE l == IF j \in Live THEN "seen" ELSE "late"
  <2>1. Becomes(l) /\ l \in {"seen", "late"}
    BY <1>5, <1>10
  <2>2. Seen' = Seen \cup {j}
    BY <1>1, <2>1 DEF Seen
  <2>3. Owner \subseteq Live /\ Live \subseteq 1..Now /\ \A i \in Live : Owner # {} => Owner = {i}
    BY <1>1, OwnerIsAlone
  <2>4. Now \in 1..Now
    BY <1>1, <1>3
  <2>5. TypeOK'
    <3>1. wrote_by_step' \subseteq 1..Now' /\ acting_at_write' \subseteq 1..Now'
      BY <1>1, <1>10, <2>1, <2>3, <2>4 DEF TypeOK
    <3>2. wrote' \in BOOLEAN /\ posted' \in BOOLEAN
      BY <1>10
    <3> QED BY <1>1, <1>2, <2>1, <3>1, <3>2 DEF TypeOK
  <2>6. Flagged'
    BY <1>1, <1>2, <1>10, <2>1 DEF Flagged, Learning, Passing
  <2>7. Placed'
    <3>1. ASSUME NEW i \in 1..Now', Seen' = {i}, steps'[i].left = "seen"
          PROVE  \/ wrote_by_step' = {i}
                 \/ /\ wrote_by_step' = {}
                    /\ acting_at_write' # {}
                    /\ steps'[i].kind.sends = "now" => acting_at_write' = {i}
      <4>1. i = j /\ Seen = {}
        BY <3>1, <2>2, <1>4
      <4>2. j \in Live
        BY <3>1, <4>1, <2>1
      <4>3. wrote_by_step = {} /\ acting_at_write = {}
        BY <4>1, <1>1 DEF Placed
      <4>4. steps'[j].kind.sends = "now" => j = Now
        BY <1>3, <2>1 DEF Pending
      <4>5. CASE Owner = {}
        BY <4>1, <4>3, <4>4, <4>5, <1>10
      <4>6. CASE Owner = {j}
        BY <4>1, <4>3, <4>6, <1>10
      <4> QED BY <4>2, <4>5, <4>6, <2>3
    <3>2. Seen' # {}
      BY <2>2
    <3> QED BY <3>1, <3>2 DEF Placed
  <2> QED BY <1>6, <2>5, <2>6, <2>7 DEF IInv
<1> QED BY <1>3, <1>8, <1>9, <1>10

-------------------------------------------------------------------------------
(* How a pass ends.                                                        *)

LEMMA NothingLone ==
  ASSUME TypeOK, Placed, NEW gated,
         \A j \in Ok : Seen = {j} /\ steps[j].left = "seen" => j \in gated
  PROVE  Loose(gated) \subseteq {"shared"}
BY DEF Loose, Ok

\* A write that is the only one seen is gated, whichever way its pass is cached.
LEMMA CachedGates ==
  ASSUME IInv, Attributed, NEW provable \in {FALSE, MayBeProvable}
  PROVE  Loose(Gated(provable)) \subseteq {"shared"}
<1> SUFFICES ASSUME NEW j \in Ok, Seen = {j}, steps[j].left = "seen" PROVE j \in Gated(provable)
  BY NothingLone DEF IInv
<1>1. j \in 1..Now
  BY DEF Ok
<1>2. \/ wrote_by_step = {j}
      \/ /\ wrote_by_step = {}
         /\ acting_at_write # {}
         /\ steps[j].kind.sends = "now" => acting_at_write = {j}
  BY <1>1 DEF IInv, Placed
<1>3. CASE wrote_by_step = {j}
  BY <1>3 DEF Gated, Promoted, Unreconciled
<1>4. CASE wrote_by_step = {} /\ acting_at_write # {} /\ ~provable
  BY <1>4 DEF Gated, Unreconciled
<1>5. CASE wrote_by_step = {} /\ acting_at_write # {} /\ provable /\ (steps[j].kind.sends = "now" => acting_at_write = {j})
  <2>1. j \in Gone
    BY <1>1 DEF Gone
  <2>2. steps[j].kind.sends = "now"
    BY <1>5, <2>1 DEF MayBeProvable
  <2>3. j \in Promoted
    BY <1>5, <2>2 DEF Attributed, Unreconciled
  <2> QED BY <1>5, <2>3 DEF Gated
<1> QED BY <1>2, <1>3, <1>4, <1>5

LEMMA SharedOnly == LoneWriteGated /\ loose \subseteq {"lone", "shared"} => loose \subseteq {"shared"}
BY DEF LoneWriteGated

LEMMA RefuseKeeps == IInv /\ Refuse => IInv'
<1> SUFFICES ASSUME IInv, Refuse PROVE IInv'
  OBVIOUS
<1>1. told = 0 \/ amnesia
  BY DEF Refuse, IInv, Remembered, Learning, Passing
<1>2. recipe \in BOOLEAN /\ refused \in BOOLEAN /\ amnesia \in BOOLEAN /\ told \in Nat /\ loose \subseteq {"shared"}
  BY SharedOnly DEF IInv, TypeOK
<1>3. refused' \in BOOLEAN /\ amnesia' \in BOOLEAN /\ (refused' \/ amnesia') /\ (amnesia => amnesia')
  BY <1>2 DEF Refuse
<1>4. recipe' \in BOOLEAN /\ loose' \subseteq {"shared"}
  BY <1>2 DEF Refuse
<1>5. told' = told + 1 /\ told' \in Nat /\ runs' = runs /\ Over
  BY <1>2 DEF Refuse
<1>6. told' <= 1 \/ amnesia'
  BY <1>1, <1>2, <1>3, <1>5
<1> QED BY <1>3, <1>4, <1>5, <1>6, OverKeeps

LEMMA VerifyKeeps == IInv /\ Verify => IInv'
BY DEF Verify, disk, call, pass, evidence, IInv, TypeOK, Remembered, Flagged, Placed, LoneWriteGated, RefusedOnce,
   Learning, Passing, Now, Seen

LEMMA VerifyPassesKeeps == IInv /\ VerifyPasses => IInv'
<1> SUFFICES ASSUME IInv, VerifyPasses PROVE IInv'
  OBVIOUS
<1>1. Seen = {}
  BY SeenIsWhere DEF VerifyPasses, IInv, Flagged
<1>2. Loose(Promoted) \subseteq {"shared"}
  BY <1>1, NothingLone DEF IInv
<1>3. /\ recipe' \in BOOLEAN /\ loose' \subseteq {"shared"} /\ refused' = refused /\ amnesia' = amnesia /\ runs' = runs
      /\ told' = told /\ Over
  BY <1>2 DEF VerifyPasses, Put
<1> QED BY <1>3, OverKeeps DEF IInv, TypeOK, Remembered, RefusedOnce

LEMMA CacheWriteKeeps == IInv /\ CacheWrite => IInv'
<1> SUFFICES ASSUME IInv, CacheWrite PROVE IInv'
  OBVIOUS
<1>1. PICK provable \in {FALSE, MayBeProvable} : Put(Gated(provable))
  BY DEF CacheWrite
<1>2. /\ recipe' \in BOOLEAN /\ loose' \subseteq {"shared"} /\ refused' = refused /\ amnesia' = amnesia /\ runs' = runs
      /\ told' = told /\ Over
  BY <1>1, CachedGates DEF CacheWrite, Put
<1> QED BY <1>2, OverKeeps DEF IInv, TypeOK, Remembered, RefusedOnce

LEMMA FailsKeeps == IInv /\ (Fails \/ Raises) => IInv'
<1> SUFFICES ASSUME IInv, Fails \/ Raises PROVE IInv'
  OBVIOUS
<1>1. UNCHANGED <<recipe, loose, refused, amnesia, runs, told>>
  BY DEF Fails, Raises, disk
<1>2. CASE Over
  BY <1>1, <1>2, SharedOnly, OverKeeps DEF IInv, TypeOK, Remembered, RefusedOnce
<1>3. CASE Resample /\ Fails
  <2>1. pc \in Learning /\ ~seen
    BY <1>3 DEF Fails, IInv, Flagged, Learning, Passing
  <2>2. Seen = {}
    BY <1>3, SeenIsWhere DEF Resample, IInv, Flagged
  <2>3. NewPass /\ pc' = "decide" /\ seen' = FALSE /\ sample' \in 0..Samples
    BY <1>3, <2>1, <2>2, BoundsAssumption DEF Resample, IInv, TypeOK
  <2>4. Remembered' /\ RefusedOnce' /\ LoneWriteGated'
    BY <1>1, <2>1 DEF IInv, Remembered, RefusedOnce, LoneWriteGated
  <2> QED BY <1>1, <2>3, <2>4, FreshKeeps DEF IInv, TypeOK
<1> QED BY <1>2, <1>3 DEF Fails, Raises

LEMMA ReleaseKeeps == IInv /\ Release => IInv'
<1> SUFFICES ASSUME IInv, Release PROVE IInv'
  OBVIOUS
<1>1. /\ UNCHANGED <<recipe, loose, amnesia, pc, runs, sample, seen, steps, tail, wrote_by_step, acting_at_write,
                     wrote, posted>>
      /\ pc = "idle" /\ refused' = FALSE /\ told' = 0
  BY DEF Release, pass, evidence
<1>2. TypeOK'
  BY <1>1 DEF IInv, TypeOK, Now
<1>3. (Flagged /\ Placed)'
  BY <1>1 DEF IInv, Flagged, Placed, Now, Seen, Learning
<1> QED BY <1>1, <1>2, <1>3 DEF IInv, Remembered, LoneWriteGated, RefusedOnce, Learning, Passing

-------------------------------------------------------------------------------
(* The theorems.                                                           *)

LEMMA IInvInvariance == IInv /\ [Next]_vars => IInv'
<1>1. IInv /\ UNCHANGED vars => IInv'
  BY DEF vars, disk, call, pass, evidence, IInv, TypeOK, Remembered, Flagged, Placed, LoneWriteGated, RefusedOnce,
     Learning, Passing, Now, Seen
<1> QED
  BY <1>1, BeginKeeps, ActKeeps, LeavesKeeps, VerifiedKeeps, ExpireKeeps, RefuseKeeps, VerifyKeeps, VerifyPassesKeeps,
     CacheWriteKeeps, FailsKeeps, ReleaseKeeps DEF Next

LEMMA AlwaysIInv == Spec => []IInv
BY InitImpliesIInv, IInvInvariance, PTL DEF Spec

\* Every state of a pass is of its types: the evidence is about steps that acted.
THEOREM TypeCorrect == Spec => []TypeOK
<1>1. IInv => TypeOK
  BY DEF IInv
<1> QED BY <1>1, AlwaysIInv, PTL

\* However late a page puts off its request, and however long a pass is, a write
\* that is the only one seen ends up behind a gate.
THEOREM LoneWritesAreGated == Spec => []LoneWriteGated
<1>1. IInv => LoneWriteGated
  BY DEF IInv
<1> QED BY <1>1, AlwaysIInv, PTL

\* Best-of-N and verify-by-replay never make a second pass after one that wrote.
THEOREM NoPassFiresTwice == Spec => []NoSecondFire
<1>1. IInv => NoSecondFire
  <2> SUFFICES ASSUME IInv PROVE NoSecondFire
    OBVIOUS
  <2>1. pc \in Passing => ~seen
    BY DEF IInv, Flagged, Learning
  <2>2. ASSUME pc = "verify", NEW j \in 1..Now PROVE steps[j].left \in {"no", "unseen"}
    <3>1. steps[j] \in Step
      BY DEF IInv, TypeOK, Now
    <3>2. steps[j].left \in {"no", "seen", "read", "late", "unseen"}
      BY <3>1 DEF Step
    <3> QED BY <2>2, <3>2 DEF IInv, Flagged
  <2> QED BY <2>1, <2>2 DEF NoSecondFire
<1> QED BY <1>1, AlwaysIInv, PTL

\* A refusal that could be written stops every later learn until it is released.
THEOREM RefusalsAreRemembered == Spec => []RefusedOnce
<1>1. IInv => RefusedOnce
  BY DEF IInv
<1> QED BY <1>1, AlwaysIInv, PTL
===============================================================================
