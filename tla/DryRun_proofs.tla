------------------------------- MODULE DryRun_proofs -------------------------------
(***************************************************************************)
(* Proofs about DryRun, for recipes of any length, any number of requests  *)
(* and addresses, and any faults.                                          *)
(***************************************************************************)
EXTENDS DryRun, TLAPS

\* What has reached the network, and what is on its way there, cannot write.
Wire ==
  /\ \A r \in server : req[r].phase # "unseen" =>
       req[r].phase \in {"done", "hop"} /\ Idempotent(req[r].kind)
  /\ \A r \in Requests : req[r].phase \in {"continuing", "hop"} => Idempotent(req[r].kind)

\* A write that was handled is in the report, and what is in the report was handled.
Recorded ==
  /\ \A r \in Requests :
       ~Idempotent(req[r].kind) /\ req[r].phase \in {"holding", "done", "failed"} => r \in DOMAIN held
  /\ \A r \in DOMAIN held : req[r].phase \in {"holding", "done", "failed"}

\* Every marked step that has acted opened its window, the last of them the current one.
Windows ==
  /\ acted \cap marked \subseteq opened
  /\ pc = "step" => at \in Steps
  /\ pc \in {"act", "drain"} => at \in acted
  /\ pc = "drain" => at \in marked
  /\ opened # {} => holder \in opened
  /\ window # "closed" => opened # {}
  /\ \A s \in opened : s <= at
  /\ \A r \in Requests : req[r].phase \notin {"unsent"} => req[r].cause \in acted \cup {Page}

\* The first request held has a suspect the engine had reached, or none at all.
Reached ==
  DOMAIN held # {} =>
    \E r \in DOMAIN held : \/ Suspects(held[r]) = {}
                           \/ \E s \in Suspects(held[r]) : s <= fiction

\* Nothing is held before the session, and the answer comes after it.
Answered ==
  /\ answer # None => pc = "over"
  /\ pc = "start" => DOMAIN held = {}

\* The inductive invariant.
IInv ==
  /\ TypeOK
  /\ Wire
  /\ Recorded
  /\ Windows
  /\ Reached
  /\ Answered
  /\ EveryWriteShown
  /\ NamedIsCause
  /\ RepresentativeIsReal

LEMMA InitImpliesIInv == Init => IInv
<1> SUFFICES ASSUME Init PROVE IInv
  OBVIOUS
<1> USE DEF Init
<1>1. TypeOK
  <2>1. 0 \in 0..Length
    BY LengthAssumption
  <2>2. Unsent \in [phase : Phases, kind : Kinds, url : Urls \cup {None}, cause : Causes]
    BY DEF Unsent, Phases, Kinds, Causes
  <2>3. req \in [Requests -> [phase : Phases, kind : Kinds, url : Urls \cup {None}, cause : Causes]]
    BY <2>2
  <2>4. DOMAIN held \subseteq Requests /\ held \in [DOMAIN held -> Labels]
    OBVIOUS
  <2> QED BY <2>1, <2>3, <2>4 DEF TypeOK
<1>2. DOMAIN held = {} /\ server = {}
  OBVIOUS
<1>3. \A r \in Requests : req[r] = Unsent
  OBVIOUS
<1>4. Wire /\ Recorded
  BY <1>2, <1>3 DEF Wire, Recorded, Unsent
<1>5. Windows
  <2>1. \A r \in Requests : req[r].phase = "unsent"
    BY <1>3 DEF Unsent
  <2> QED BY <2>1 DEF Windows
<1>6. answer = None /\ DOMAIN held = {}
  BY <1>2
<1>7. Reached /\ Answered /\ EveryWriteShown /\ NamedIsCause /\ RepresentativeIsReal
  BY <1>6, NoneAssumption DEF Reached, Answered, EveryWriteShown, NamedIsCause, RepresentativeIsReal
<1> QED BY <1>1, <1>4, <1>5, <1>7 DEF IInv

-------------------------------------------------------------------------------
(* The engine's steps leave the requests and the report on them alone.     *)

\* What a step of the engine has to keep, if it touches neither ledger nor network.
LEMMA EngineKeeps ==
  ASSUME IInv, UNCHANGED <<marked, net, ledger>>, TypeOK', Windows',
         answer' # "report", answer' # None => pc' = "over", pc' # "start"
  PROVE  IInv'
<1> USE DEF net, ledger
<1>1. Wire' /\ Recorded'
  BY DEF IInv, Wire, Recorded
<1>2. Reached'
  BY DEF IInv, Reached
<1>3. NamedIsCause'
  BY DEF IInv, NamedIsCause
<1> QED BY <1>1, <1>2, <1>3 DEF IInv, Answered, EveryWriteShown, RepresentativeIsReal

Aborts == {"not-learned", "preflight", "websocket-unroutable", "websocket-frame", "ungated-write",
           "arbiter-fault", "leak-redirect", "leak-unrouted"}

LEMMA Latched ==
  ASSUME TypeOK, NEW k \in Aborts
  PROVE  Latch(k) \in Aborts /\ (aborted # None => Latch(k) = aborted)
BY DEF TypeOK, Latch, Aborts

LEMMA AbortKinds == None \notin Aborts /\ (TypeOK <=> TypeOK /\ aborted \in Aborts \cup {None})
BY NoneAssumption DEF TypeOK, Aborts

LEMMA RefuseKeeps == IInv /\ Refuse => IInv'
<1> SUFFICES ASSUME IInv, Refuse PROVE IInv'
  OBVIOUS
<1>1. UNCHANGED <<marked, at, acted, net, slot, ledger, leaked, skipped, representative, warnings>>
      /\ pc = "start" /\ pc' = "over" /\ answer' = "report"
      /\ aborted' \in {"not-learned", "preflight"}
  BY DEF Refuse
<1>2. DOMAIN held = {} /\ aborted' # None
  BY <1>1, NoneAssumption DEF IInv, Answered
<1>3. TypeOK'
  BY <1>1 DEF IInv, TypeOK, net, slot, ledger
<1>4. (Wire /\ Recorded /\ Windows /\ Reached /\ Answered)'
  BY <1>1, <1>2 DEF IInv, Wire, Recorded, Windows, Reached, Answered, net, slot, ledger
<1>5. (EveryWriteShown /\ NamedIsCause /\ RepresentativeIsReal)'
  BY <1>1, <1>2 DEF EveryWriteShown, NamedIsCause, RepresentativeIsReal, ledger
<1> QED BY <1>3, <1>4, <1>5 DEF IInv

LEMMA BeginKeeps == IInv /\ Begin => IInv'
<1> SUFFICES ASSUME IInv, Begin PROVE IInv'
  OBVIOUS
<1>1. UNCHANGED <<marked, at, acted, net, slot, ledger, leaked, result>>
      /\ pc = "start" /\ pc' = "next" /\ skipped' \in BOOLEAN
      /\ aborted' \in {None, "websocket-unroutable"}
  BY DEF Begin
<1>2. answer = None
  BY <1>1 DEF IInv, Answered
<1>3. TypeOK'
  BY <1>1 DEF IInv, TypeOK, net, slot, ledger, result
<1>4. Windows'
  BY <1>1 DEF IInv, Windows, net, slot
<1> QED BY <1>1, <1>2, <1>3, <1>4, NoneAssumption, EngineKeeps DEF result

LEMMA StepKeeps == IInv /\ (Escalate \/ NextStep \/ Acted \/ Check \/ Raises) => IInv'
<1> SUFFICES ASSUME IInv, Escalate \/ NextStep \/ Acted \/ Check \/ Raises PROVE IInv'
  OBVIOUS
<1>1. /\ UNCHANGED <<marked, acted, net, slot, ledger, aborted, leaked, skipped, representative, warnings>>
      /\ pc \notin {"start", "over"}
      /\ pc' \in {"next", "step", "drain", "check", "closing", "over"}
  BY DEF Escalate, NextStep, Acted, Check, Raises, InSession, result, IInv, TypeOK
<1>2. /\ at' \in 0..Length /\ at <= at'
      /\ pc' = "step" => at' \in Steps
      /\ pc' = "drain" => pc = "act" /\ at' = at /\ at \in marked
  <2>1. at \in 0..Length
    BY DEF IInv, TypeOK
  <2>2. CASE NextStep
    <3>1. at' = at + 1 /\ at < Length /\ pc' \in {"step", "closing"}
      BY <2>2 DEF NextStep
    <3> QED BY <3>1, <2>1, LengthAssumption DEF Steps
  <2>3. CASE Escalate \/ Acted \/ Check \/ Raises
    <3>1. at' = at /\ pc' # "step" /\ (pc' = "drain" => pc = "act" /\ at \in marked)
      BY <2>3 DEF Escalate, Acted, Check, Raises
    <3> QED BY <3>1, <2>1, LengthAssumption
  <2> QED BY <2>2, <2>3
<1>3. /\ answer' \in {answer, "raised"}
      /\ answer' # answer => pc' = "over"
  <2>1. CASE Raises
    BY <2>1 DEF Raises
  <2>2. CASE Escalate \/ NextStep \/ Acted \/ Check
    <3>1. UNCHANGED result
      BY <2>2 DEF Escalate, NextStep, Acted, Check
    <3> QED BY <3>1 DEF result
  <2> QED BY <2>1, <2>2
<1>4. answer = None
  BY <1>1 DEF IInv, Answered
<1>5. TypeOK'
  <2>1. pc' \in {"start", "next", "step", "act", "drain", "check", "closing", "over"}
    BY <1>1
  <2>2. answer' \in {None, "report", "raised"}
    BY <1>3, <1>4
  <2> QED BY <1>1, <1>2, <2>1, <2>2 DEF IInv, TypeOK, net, slot, ledger
<1>6. Windows'
  <2>1. \A s \in opened : s <= at'
    <3> TAKE s \in opened
    <3>1. opened \subseteq 1..Length /\ at \in 0..Length
      BY DEF IInv, TypeOK, Steps
    <3>2. s <= at
      BY DEF IInv, Windows
    <3> QED BY <3>1, <3>2, <1>2, LengthAssumption
  <2>2. (pc \in {"act", "drain"} => at \in acted)' /\ (pc = "drain" => at \in marked)'
    BY <1>1, <1>2 DEF IInv, Windows
  <2>3. UNCHANGED <<marked, acted, req, window, holder, opened>>
    BY <1>1 DEF net, slot
  <2> QED BY <1>2, <2>1, <2>2, <2>3 DEF IInv, Windows
<1> QED BY <1>1, <1>3, <1>4, <1>5, <1>6, NoneAssumption, EngineKeeps

LEMMA ActKeeps == IInv /\ Act => IInv'
<1> SUFFICES ASSUME IInv, Act PROVE IInv'
  OBVIOUS
<1>1. /\ UNCHANGED <<marked, at, net, ledger, aborted, leaked, skipped, result>>
      /\ pc = "step" /\ pc' = "act" /\ acted' = acted \cup {at}
      /\ IF at \in marked THEN Open ELSE UNCHANGED slot
  BY DEF Act
<1>2. at \in Steps /\ answer = None
  BY <1>1 DEF IInv, Windows, Answered
<1>3. TypeOK'
  BY <1>1, <1>2 DEF IInv, TypeOK, net, slot, ledger, result, Open, Steps
<1>4. Windows'
  <2>1. (acted \cap marked \subseteq opened)'
    BY <1>1 DEF IInv, Windows, Open, slot
  <2>2. (/\ opened # {} => holder \in opened
         /\ window # "closed" => opened # {})'
    BY <1>1 DEF IInv, Windows, Open, slot
  <2>3. (\A s \in opened : s <= at)'
    BY <1>1, <1>2 DEF IInv, Windows, Open, slot, Steps
  <2>4. (\A r \in Requests : req[r].phase \notin {"unsent"} => req[r].cause \in acted \cup {Page})'
    BY <1>1 DEF IInv, Windows, net
  <2>5. (pc \in {"act", "drain"} => at \in acted)'
    BY <1>1
  <2> QED BY <1>1, <2>5, <2>1, <2>2, <2>3, <2>4 DEF Windows
<1> QED BY <1>1, <1>2, <1>3, <1>4, NoneAssumption, EngineKeeps DEF result

LEMMA DrainKeeps == IInv /\ Drain => IInv'
<1> SUFFICES ASSUME IInv, Drain PROVE IInv'
  OBVIOUS
<1>1. /\ UNCHANGED <<marked, at, acted, net, holder, opened, ledger, leaked, skipped, result>>
      /\ pc = "drain" /\ pc' = "check" /\ window' = "closing"
      /\ aborted' = aborted \/ aborted' = Latch("arbiter-fault")
  BY DEF Drain
<1>2. answer = None
  BY <1>1 DEF IInv, Answered
<1>3. TypeOK'
  <2>1. aborted' \in Aborts \cup {None}
    BY <1>1, Latched, AbortKinds DEF IInv, Aborts
  <2> QED BY <1>1, <2>1 DEF IInv, TypeOK, net, ledger, result, Aborts
<1>4. opened # {}
  BY <1>1 DEF IInv, Windows
<1>5. Windows'
  BY <1>1, <1>4 DEF IInv, Windows, net
<1> QED BY <1>1, <1>2, <1>3, <1>5, NoneAssumption, EngineKeeps DEF result

\* What changes nothing but the window, or the abort, keeps everything else.
LEMMA GraceEndsKeeps == IInv /\ GraceEnds => IInv'
<1> SUFFICES ASSUME IInv, GraceEnds PROVE IInv'
  OBVIOUS
<1>1. /\ UNCHANGED <<marked, engine, net, holder, opened, ledger, aborted, leaked, skipped, result>>
      /\ window' = "closed"
  BY DEF GraceEnds
<1> USE <1>1 DEF engine, net, ledger, result
<1>2. TypeOK'
  BY DEF IInv, TypeOK
<1>3. (Wire /\ Recorded)'
  BY DEF IInv, Wire, Recorded
<1>4. Windows'
  BY DEF IInv, Windows
<1>5. (Reached /\ Answered)'
  BY DEF IInv, Reached, Answered
<1>6. (EveryWriteShown /\ NamedIsCause /\ RepresentativeIsReal)'
  BY DEF IInv, EveryWriteShown, NamedIsCause, RepresentativeIsReal, Observed, Entry
<1> QED BY <1>2, <1>3, <1>4, <1>5, <1>6 DEF IInv

LEMMA FrameKeeps == IInv /\ Frame => IInv'
<1> SUFFICES ASSUME IInv, Frame PROVE IInv'
  OBVIOUS
<1>1. /\ UNCHANGED <<marked, engine, net, slot, ledger, leaked, skipped, result>>
      /\ pc # "over" /\ aborted' = Latch("websocket-frame")
  BY DEF Frame, InSession
<1>2. answer = None /\ aborted' \in Aborts \cup {None}
  BY <1>1, Latched DEF IInv, Answered, Aborts
<1> USE <1>1, <1>2 DEF engine, net, slot, ledger, result
<1>3. TypeOK'
  BY DEF IInv, TypeOK, Aborts
<1>4. (Wire /\ Recorded)'
  BY DEF IInv, Wire, Recorded
<1>5. Windows'
  BY DEF IInv, Windows
<1>6. (Reached /\ Answered)'
  BY DEF IInv, Reached, Answered
<1>7. (EveryWriteShown /\ NamedIsCause /\ RepresentativeIsReal)'
  BY NoneAssumption DEF IInv, EveryWriteShown, NamedIsCause, RepresentativeIsReal
<1> QED BY <1>3, <1>4, <1>5, <1>6, <1>7 DEF IInv

-------------------------------------------------------------------------------
(* The page's requests and the arbiter's handlers.                         *)

\* What a step on requests has to keep, when it leaves the engine and the windows alone.
LEMMA NetKeeps ==
  ASSUME IInv, UNCHANGED <<marked, engine, slot, skipped, result>>, answer = None,
         req' \in [Requests -> [phase : Phases, kind : Kinds, url : Urls \cup {None}, cause : Causes]],
         server' \subseteq Requests, aborted' \in Aborts \cup {None}, leaked' \in BOOLEAN,
         (DOMAIN held \subseteq Requests /\ held \in [DOMAIN held -> Labels] /\ fiction \in 0..Length)',
         \A r \in Requests : req[r]'.phase # "unsent" => req[r]'.cause \in acted \cup {Page},
         Wire', Recorded', Reached', NamedIsCause', (pc = "start" => DOMAIN held = {})'
  PROVE  IInv'
<1> USE DEF engine, slot, result
<1>1. TypeOK'
  BY DEF IInv, TypeOK, Aborts
<1>2. Windows'
  BY DEF IInv, Windows
<1>3. answer' = None
  OBVIOUS
<1>4. (Answered /\ EveryWriteShown /\ RepresentativeIsReal)'
  BY <1>3, NoneAssumption DEF Answered, EveryWriteShown, RepresentativeIsReal
<1> QED BY <1>1, <1>2, <1>4 DEF IInv

\* A request that is under way keeps what it is, and only its phase changes.
LEMMA PhaseKeeps ==
  ASSUME IInv, NEW r \in Requests, NEW p \in Phases, req[r].phase # "unsent",
         req' = [req EXCEPT ![r].phase = p]
  PROVE  /\ req' \in [Requests -> [phase : Phases, kind : Kinds, url : Urls \cup {None}, cause : Causes]]
         /\ req'[r].phase = p
         /\ \A q \in Requests : /\ req'[q].kind = req[q].kind
                                /\ req'[q].url = req[q].url
                                /\ req'[q].cause = req[q].cause
                                /\ q # r => req'[q] = req[q]
         /\ \A q \in Requests : req'[q].phase # "unsent" => req'[q].cause \in acted \cup {Page}
<1>1. req \in [Requests -> [phase : Phases, kind : Kinds, url : Urls \cup {None}, cause : Causes]]
  BY DEF IInv, TypeOK
<1>2. \A q \in Requests : req[q].phase # "unsent" => req[q].cause \in acted \cup {Page}
  BY DEF IInv, Windows
<1>3. /\ req'[r] = [req[r] EXCEPT !.phase = p]
      /\ \A q \in Requests : q # r => req'[q] = req[q]
  BY <1>1
<1>4. /\ req'[r].phase = p /\ req'[r].kind = req[r].kind
      /\ req'[r].url = req[r].url /\ req'[r].cause = req[r].cause
  BY <1>1, <1>3
<1>5. req' \in [Requests -> [phase : Phases, kind : Kinds, url : Urls \cup {None}, cause : Causes]]
  BY <1>1
<1> QED BY <1>2, <1>3, <1>4, <1>5

\* In a session there is no answer yet.
LEMMA NoAnswer == IInv /\ InSession => answer = None /\ pc # "start"
BY DEF IInv, Answered, InSession

LEMMA SendKeeps ==
  ASSUME IInv, NEW r \in Requests, Send(r)
  PROVE  IInv'
<1>1. /\ UNCHANGED <<marked, engine, slot, ledger, aborted, leaked, skipped, result>>
      /\ InSession /\ req[r].phase = "unsent"
  BY DEF Send
<1>2. answer = None /\ pc # "start"
  BY <1>1, NoAnswer
<1>3. PICK p \in {"sent", "unseen"}, k \in Kinds, u \in Urls, c \in acted \cup {Page} :
        /\ req' = [req EXCEPT ![r] = [phase |-> p, kind |-> k, url |-> u, cause |-> c]]
        /\ \/ server' = server
           \/ p = "unseen" /\ server' = server \cup {r}
  BY DEF Send
<1>4. c \in Causes
  BY DEF IInv, TypeOK, Causes
<1>5. req \in [Requests -> [phase : Phases, kind : Kinds, url : Urls \cup {None}, cause : Causes]]
  BY DEF IInv, TypeOK
<1>6. req'[r] = [phase |-> p, kind |-> k, url |-> u, cause |-> c]
      /\ \A q \in Requests : q # r => req'[q] = req[q]
  BY <1>3, <1>5
<1>7. req' \in [Requests -> [phase : Phases, kind : Kinds, url : Urls \cup {None}, cause : Causes]]
  BY <1>3, <1>4, <1>5 DEF Phases
<1>8. server' \subseteq Requests
  BY <1>3 DEF IInv, TypeOK
<1>9. r \notin server /\ r \notin DOMAIN held
  BY <1>1 DEF IInv, Wire, Recorded
<1>10. server \subseteq Requests /\ DOMAIN held \subseteq Requests
  BY DEF IInv, TypeOK
<1>11. Wire'
  <2>1. \A q \in server' : req'[q].phase # "unseen" =>
          req'[q].phase \in {"done", "hop"} /\ Idempotent(req'[q].kind)
    BY <1>3, <1>6, <1>9, <1>10 DEF IInv, Wire
  <2>2. \A q \in Requests : req'[q].phase \in {"continuing", "hop"} => Idempotent(req'[q].kind)
    BY <1>6 DEF IInv, Wire
  <2> QED BY <2>1, <2>2 DEF Wire
<1>12. Recorded'
  BY <1>1, <1>6, <1>9, <1>10 DEF IInv, Recorded, ledger
<1>13. NamedIsCause'
  BY <1>1, <1>6, <1>9, <1>10 DEF IInv, NamedIsCause, ledger
<1>14. Reached'
  BY <1>1 DEF IInv, Reached, ledger
<1>15. \A q \in Requests : req[q]'.phase # "unsent" => req[q]'.cause \in acted \cup {Page}
  BY <1>6 DEF IInv, Windows
<1>16. /\ aborted' \in Aborts \cup {None} /\ leaked' \in BOOLEAN
       /\ (DOMAIN held \subseteq Requests /\ held \in [DOMAIN held -> Labels] /\ fiction \in 0..Length)'
  BY <1>1 DEF IInv, TypeOK, ledger, Aborts
<1>17. (pc = "start" => DOMAIN held = {})'
  BY <1>1, <1>2 DEF engine
<1> QED BY <1>1, <1>2, <1>7, <1>8, <1>11, <1>12, <1>13, <1>14, <1>15, <1>16, <1>17, NetKeeps

\* What a handler says of a request: no suspect, or only steps that have opened a
\* window, and the one it names is the only one that has.
LEMMA LabelIs ==
  ASSUME IInv
  PROVE  /\ Label \in Labels
         /\ Suspects(Label) = {} \/ \E s \in Suspects(Label) : s <= at
         /\ Label.attribution = "step" => opened = {Label.step}
<1>1. opened \subseteq Steps /\ 0 \in 0..Length /\ Steps \subseteq 0..Length
  <2>1. opened \subseteq Steps
    BY DEF IInv, TypeOK
  <2>2. 0 \in 0..Length /\ Steps \subseteq 0..Length
    BY LengthAssumption DEF Steps
  <2> QED BY <2>1, <2>2
<1>2. CASE window = "closed"
  <2>1. Label = [attribution |-> "ungated", step |-> 0, candidates |-> {}]
    BY <1>2 DEF Label
  <2> QED BY <2>1, <1>1 DEF Labels, Suspects
<1>3. CASE window # "closed" /\ \E s \in Steps : opened = {s}
  <2>1. Label = [attribution |-> "step", step |-> holder, candidates |-> {}]
    BY <1>3 DEF Label
  <2>2. holder \in opened /\ opened = {holder} /\ holder <= at
    BY <1>3 DEF IInv, Windows
  <2>3. holder \in 0..Length /\ Suspects(Label) = {holder}
    BY <2>1, <2>2, <1>1 DEF Suspects
  <2> QED BY <2>1, <2>2, <2>3, <1>1 DEF Labels
<1>4. CASE window # "closed" /\ ~\E s \in Steps : opened = {s}
  <2>1. Label = [attribution |-> "ambiguous", step |-> 0, candidates |-> opened]
    BY <1>4 DEF Label
  <2>2. Suspects(Label) = opened
    BY <2>1 DEF Suspects
  <2>3. Suspects(Label) = {} \/ \E s \in Suspects(Label) : s <= at
    BY <2>2 DEF IInv, Windows
  <2> QED BY <2>1, <2>3, <1>1 DEF Labels
<1> QED BY <1>2, <1>3, <1>4

LEMMA HandleKeeps ==
  ASSUME IInv, NEW r \in Requests, Handle(r)
  PROVE  IInv'
<1>1. /\ UNCHANGED <<marked, engine, server, slot, aborted, leaked, skipped, result>>
      /\ InSession /\ req[r].phase = "sent"
  BY DEF Handle
<1>2. answer = None /\ pc # "start"
  BY <1>1, NoAnswer
<1>3. r \notin server /\ r \notin DOMAIN held
  BY <1>1 DEF IInv, Wire, Recorded
<1>4. server \subseteq Requests /\ DOMAIN held \subseteq Requests /\ held \in [DOMAIN held -> Labels]
      /\ aborted \in Aborts \cup {None} /\ leaked \in BOOLEAN /\ fiction \in 0..Length /\ at \in 0..Length
  BY DEF IInv, TypeOK, Aborts
<1>5. CASE Idempotent(req[r].kind)
  <2>1. req' = [req EXCEPT ![r].phase = "continuing"] /\ UNCHANGED ledger
    BY <1>5 DEF Handle
  <2>2. /\ req' \in [Requests -> [phase : Phases, kind : Kinds, url : Urls \cup {None}, cause : Causes]]
        /\ req'[r].phase = "continuing"
        /\ \A q \in Requests : /\ req'[q].kind = req[q].kind
                               /\ req'[q].cause = req[q].cause
                               /\ q # r => req'[q] = req[q]
        /\ \A q \in Requests : req'[q].phase # "unsent" => req'[q].cause \in acted \cup {Page}
    BY <1>1, <2>1, PhaseKeeps DEF Phases
  <2>3. Wire'
    BY <1>1, <1>3, <1>4, <1>5, <2>2 DEF IInv, Wire
  <2>4. Recorded'
    BY <1>3, <1>4, <2>1, <2>2 DEF IInv, Recorded, ledger
  <2>5. NamedIsCause'
    BY <1>1, <1>4, <2>1, <2>2 DEF IInv, NamedIsCause, ledger
  <2>6. Reached'
    BY <2>1 DEF IInv, Reached, ledger
  <2>7. (DOMAIN held \subseteq Requests /\ held \in [DOMAIN held -> Labels] /\ fiction \in 0..Length)'
    BY <1>4, <2>1 DEF ledger
  <2>8. (pc = "start" => DOMAIN held = {})'
    BY <1>1, <1>2 DEF engine
  <2> QED BY <1>1, <1>2, <1>4, <2>2, <2>3, <2>4, <2>5, <2>6, <2>7, <2>8, NetKeeps
<1>6. CASE ~Idempotent(req[r].kind)
  <2>1. /\ req' = [req EXCEPT ![r].phase = "holding"]
        /\ held' = [q \in DOMAIN held \cup {r} |-> IF q = r THEN Label ELSE held[q]]
        /\ fiction' = IF DOMAIN held = {} THEN at ELSE fiction
    BY <1>6 DEF Handle
  <2>2. /\ req' \in [Requests -> [phase : Phases, kind : Kinds, url : Urls \cup {None}, cause : Causes]]
        /\ req'[r].phase = "holding"
        /\ \A q \in Requests : /\ req'[q].kind = req[q].kind
                               /\ req'[q].cause = req[q].cause
                               /\ q # r => req'[q] = req[q]
        /\ \A q \in Requests : req'[q].phase # "unsent" => req'[q].cause \in acted \cup {Page}
    BY <1>1, <2>1, PhaseKeeps DEF Phases
  <2>3. /\ DOMAIN held' = DOMAIN held \cup {r} /\ held'[r] = Label
        /\ \A q \in DOMAIN held : held'[q] = held[q]
    BY <1>3, <2>1
  <2>4. Wire'
    BY <1>1, <1>3, <1>4, <2>2 DEF IInv, Wire
  <2>5. Recorded'
    BY <1>3, <1>4, <2>2, <2>3 DEF IInv, Recorded
  <2>6. NamedIsCause'
    <3>1. Label.attribution = "step" => req[r].cause \notin marked \ {Label.step}
      <4>1. req[r].cause \in acted \cup {Page}
        BY <1>1 DEF IInv, Windows
      <4>2. acted \cap marked \subseteq opened /\ Page \notin marked
        <5>1. marked \subseteq Steps
          BY DEF IInv, TypeOK
        <5>2. Steps \subseteq Nat
          BY LengthAssumption DEF Steps
        <5> QED BY <5>1, <5>2, PageAssumption DEF IInv, Windows
      <4> QED BY <4>1, <4>2, LabelIs
    <3> QED BY <1>1, <1>3, <1>4, <2>2, <2>3, <3>1 DEF IInv, NamedIsCause
  <2>7. Reached'
    <3>1. CASE DOMAIN held = {}
      <4>1. fiction' = at /\ held'[r] = Label /\ r \in DOMAIN held'
        BY <2>1, <2>3, <3>1
      <4> QED BY <4>1, LabelIs DEF Reached
    <3>2. CASE DOMAIN held # {}
      <4>1. PICK q \in DOMAIN held : \/ Suspects(held[q]) = {}
                                    \/ \E s \in Suspects(held[q]) : s <= fiction
        BY <3>2 DEF IInv, Reached
      <4>2. fiction' = fiction /\ held'[q] = held[q] /\ q \in DOMAIN held'
        BY <2>1, <2>3, <3>2
      <4> QED BY <4>1, <4>2 DEF Reached
    <3> QED BY <3>1, <3>2
  <2>8. (DOMAIN held \subseteq Requests /\ held \in [DOMAIN held -> Labels] /\ fiction \in 0..Length)'
    <3>1. Label \in Labels
      BY LabelIs
    <3>2. \A q \in DOMAIN held : held[q] \in Labels
      BY <1>4
    <3>3. held' \in [DOMAIN held \cup {r} -> Labels]
      BY <2>1, <3>1, <3>2
    <3> QED BY <1>4, <2>1, <2>3, <3>3
  <2>9. (pc = "start" => DOMAIN held = {})'
    BY <1>1, <1>2 DEF engine
  <2> QED BY <1>1, <1>2, <1>4, <2>2, <2>4, <2>5, <2>6, <2>7, <2>8, <2>9, NetKeeps
<1> QED BY <1>5, <1>6

\* The end of a handler, which may come after the report: the request was already under
\* way, and goes on to p.
LEMMA HandlerEnds ==
  ASSUME IInv, NEW r \in Requests, NEW p \in {"done", "failed"}, r \in InFlight,
         req' = [req EXCEPT ![r].phase = p],
         UNCHANGED <<marked, engine, slot, ledger, leaked, skipped, result>>,
         \/ server' = server
         \/ server' = server \cup {r} /\ req[r].phase = "continuing" /\ p = "done",
         \/ aborted' = aborted
         \/ \E k \in Aborts : aborted' = Latch(k)
  PROVE  IInv'
<1>1. req[r].phase \in {"continuing", "holding"}
  BY DEF InFlight
<1>2. /\ req' \in [Requests -> [phase : Phases, kind : Kinds, url : Urls \cup {None}, cause : Causes]]
      /\ req'[r].phase = p
      /\ \A q \in Requests : /\ req'[q].kind = req[q].kind
                             /\ req'[q].url = req[q].url
                             /\ req'[q].cause = req[q].cause
                             /\ q # r => req'[q] = req[q]
      /\ \A q \in Requests : req'[q].phase # "unsent" => req'[q].cause \in acted \cup {Page}
  <2>1. req[r].phase # "unsent" /\ p \in Phases
    BY <1>1 DEF Phases
  <2> HIDE DEF Phases
  <2> QED BY <2>1, PhaseKeeps
<1>3. server \subseteq Requests /\ DOMAIN held \subseteq Requests
  BY DEF IInv, TypeOK
<1>4. aborted' \in Aborts \cup {None} /\ (aborted' = None => aborted = None)
  <2>1. aborted \in Aborts \cup {None} /\ TypeOK
    BY DEF IInv, TypeOK, Aborts
  <2>2. CASE aborted' = aborted
    BY <2>1, <2>2
  <2>3. CASE \E k \in Aborts : aborted' = Latch(k)
    BY <2>1, <2>3, Latched, AbortKinds
  <2> QED BY <2>2, <2>3
<1>5. TypeOK'
  <2>1. server' \subseteq Requests
    BY <1>3
  <2>2. aborted' \in {None, "not-learned", "preflight", "websocket-unroutable", "websocket-frame",
                       "ungated-write", "arbiter-fault", "leak-redirect", "leak-unrouted"}
    BY <1>4 DEF Aborts
  <2>3. UNCHANGED <<marked, pc, at, acted, window, holder, opened, held, fiction, leaked, skipped,
                    answer, representative, warnings>>
    BY DEF engine, slot, ledger, result
  <2> QED BY <1>2, <2>1, <2>2, <2>3 DEF IInv, TypeOK
<1>6. Wire'
  <2>1. r \in server => p = "done" /\ Idempotent(req[r].kind)
    BY <1>1 DEF IInv, Wire
  <2>2. req[r].phase = "continuing" => Idempotent(req[r].kind)
    BY DEF IInv, Wire
  <2>3. \A q \in server' : req'[q].phase # "unseen" =>
          req'[q].phase \in {"done", "hop"} /\ Idempotent(req'[q].kind)
    BY <1>2, <1>3, <2>1, <2>2 DEF IInv, Wire
  <2>4. \A q \in Requests : req'[q].phase \in {"continuing", "hop"} => Idempotent(req'[q].kind)
    BY <1>2 DEF IInv, Wire
  <2> QED BY <2>3, <2>4 DEF Wire
<1>7. Recorded'
  <2>1. ~Idempotent(req[r].kind) => r \in DOMAIN held
    BY <1>1 DEF IInv, Wire, Recorded
  <2> QED BY <1>2, <1>3, <2>1 DEF IInv, Recorded, ledger
<1>8. Windows'
  BY <1>2 DEF IInv, Windows, engine, slot
<1>9. (Reached /\ Answered)'
  BY DEF IInv, Reached, Answered, engine, ledger, result
<1>10. NamedIsCause'
  BY <1>2, <1>3 DEF IInv, NamedIsCause, ledger
<1>11. RepresentativeIsReal'
  BY DEF IInv, RepresentativeIsReal, ledger, result
<1>12. EveryWriteShown'
  <2>1. \A q \in Requests : (Entry(q))' = Entry(q)
    BY <1>2 DEF Entry
  <2>2. Observed' = Observed
    BY <1>1, <1>2 DEF Observed
  <2>3. Observed \subseteq Requests
    BY DEF Observed
  <2> QED BY <1>2, <1>3, <1>4, <2>1, <2>2, <2>3 DEF IInv, EveryWriteShown, ledger, result
<1> QED BY <1>5, <1>6, <1>7, <1>8, <1>9, <1>10, <1>11, <1>12 DEF IInv

LEMMA ContinueKeeps ==
  ASSUME IInv, NEW r \in Requests, Continue(r)
  PROVE  IInv'
<1>1. r \in InFlight /\ req[r].phase = "continuing"
  BY DEF Continue, InFlight
<1>2. /\ req' = [req EXCEPT ![r].phase = "done"] /\ server' = server \cup {r}
      /\ UNCHANGED <<marked, engine, slot, ledger, aborted, leaked, skipped, result>>
  BY DEF Continue
<1> QED BY <1>1, <1>2, HandlerEnds

LEMMA FulfilKeeps ==
  ASSUME IInv, NEW r \in Requests, Fulfil(r)
  PROVE  IInv'
<1>1. r \in InFlight
  BY DEF Fulfil, InFlight
<1>2. /\ req' = [req EXCEPT ![r].phase = "done"]
      /\ UNCHANGED <<marked, engine, server, slot, ledger, leaked, skipped, result>>
      /\ aborted' = Latch("ungated-write") \/ aborted' = aborted
  BY DEF Fulfil
<1>3. "ungated-write" \in Aborts
  BY DEF Aborts
<1> QED BY <1>1, <1>2, <1>3, HandlerEnds

LEMMA HandlerFailsKeeps ==
  ASSUME IInv, NEW r \in Requests, HandlerFails(r)
  PROVE  IInv'
<1>1. /\ r \in InFlight
      /\ req' = [req EXCEPT ![r].phase = "failed"]
      /\ UNCHANGED <<marked, engine, server, slot, ledger, leaked, skipped, result>>
      /\ aborted' = Latch("arbiter-fault")
  BY DEF HandlerFails
<1>2. "arbiter-fault" \in Aborts
  BY DEF Aborts
<1> QED BY <1>1, <1>2, HandlerEnds

LEMMA RedirectKeeps ==
  ASSUME IInv, NEW r \in Requests, NEW hop \in Requests, Redirect(r, hop)
  PROVE  IInv'
<1>1. /\ UNCHANGED <<marked, engine, slot, ledger, skipped, result>>
      /\ InSession /\ r \in server /\ req[r].phase \in {"done", "hop"}
      /\ req[hop].phase = "unsent" /\ server' = server \cup {hop}
  BY DEF Redirect
<1>2. answer = None /\ pc # "start"
  BY <1>1, NoAnswer
<1>3. PICK k \in {req[r].kind, "read"}, u \in Urls :
        /\ req' = [req EXCEPT ![hop] = [phase |-> "hop", kind |-> k, url |-> u, cause |-> req[r].cause]]
        /\ leaked' = (leaked \/ ~Idempotent(k))
        /\ aborted' = IF Idempotent(k) THEN aborted ELSE Latch("leak-redirect")
  BY DEF Redirect
<1>4. req \in [Requests -> [phase : Phases, kind : Kinds, url : Urls \cup {None}, cause : Causes]]
  BY DEF IInv, TypeOK
<1>5. Idempotent(k) /\ k \in Kinds
  <2>1. Idempotent(req[r].kind) /\ req[r].kind \in Kinds
    BY <1>1, <1>4 DEF IInv, Wire
  <2> QED BY <2>1 DEF Idempotent, Kinds
<1>6. /\ req'[hop] = [phase |-> "hop", kind |-> k, url |-> u, cause |-> req[r].cause]
      /\ \A q \in Requests : q # hop => req'[q] = req[q]
  BY <1>3, <1>4
<1>7. req' \in [Requests -> [phase : Phases, kind : Kinds, url : Urls \cup {None}, cause : Causes]]
  BY <1>3, <1>4, <1>5 DEF Phases
<1>8. server \subseteq Requests /\ DOMAIN held \subseteq Requests /\ leaked \in BOOLEAN
      /\ aborted \in Aborts \cup {None}
  BY DEF IInv, TypeOK, Aborts
<1>9. hop \notin server /\ hop \notin DOMAIN held
  BY <1>1 DEF IInv, Wire, Recorded
<1>10. Wire'
  <2>1. \A q \in server' : req'[q].phase # "unseen" =>
          req'[q].phase \in {"done", "hop"} /\ Idempotent(req'[q].kind)
    BY <1>1, <1>5, <1>6, <1>8, <1>9 DEF IInv, Wire
  <2>2. \A q \in Requests : req'[q].phase \in {"continuing", "hop"} => Idempotent(req'[q].kind)
    BY <1>5, <1>6 DEF IInv, Wire
  <2> QED BY <2>1, <2>2 DEF Wire
<1>11. Recorded'
  BY <1>1, <1>6, <1>8, <1>9 DEF IInv, Recorded, ledger
<1>12. NamedIsCause'
  BY <1>1, <1>6, <1>8, <1>9 DEF IInv, NamedIsCause, ledger
<1>13. Reached'
  BY <1>1 DEF IInv, Reached, ledger
<1>14. \A q \in Requests : req[q]'.phase # "unsent" => req[q]'.cause \in acted \cup {Page}
  <2>1. req[r].cause \in acted \cup {Page}
    BY <1>1 DEF IInv, Windows
  <2> QED BY <1>6, <2>1 DEF IInv, Windows
<1>15. (DOMAIN held \subseteq Requests /\ held \in [DOMAIN held -> Labels] /\ fiction \in 0..Length)'
  BY <1>1 DEF IInv, TypeOK, ledger
<1>16. (pc = "start" => DOMAIN held = {})'
  BY <1>1, <1>2 DEF engine
<1>17. aborted' \in Aborts \cup {None} /\ leaked' \in BOOLEAN /\ server' \subseteq Requests
  BY <1>1, <1>3, <1>5, <1>8
<1> QED BY <1>1, <1>2, <1>7, <1>10, <1>11, <1>12, <1>13, <1>14, <1>15, <1>16, <1>17, NetKeeps

-------------------------------------------------------------------------------
(* The report.                                                             *)

\* A write that does not escape has an entry of the report at its address.
LEMMA AllShown ==
  ASSUME IInv, Escaped = {}, NEW r \in Observed, ~Idempotent(req[r].kind)
  PROVE  \E q \in DOMAIN held : Entry(q) = Entry(r)
<1>1. PICK q \in Routed : Entry(q) = Entry(r)
  BY DEF Escaped
<1>2. ~Idempotent(req[q].kind)
  BY <1>1 DEF Entry, Method
<1>3. q \in Requests /\ req[q].phase \in {"continuing", "holding", "done", "failed"}
  BY DEF Routed
<1>4. q \in DOMAIN held
  BY <1>2, <1>3 DEF IInv, Wire, Recorded
<1> QED BY <1>1, <1>4

\* Before ends below the step at which the first request was held.
LEMMA BeforeIsReal ==
  ASSUME IInv, DOMAIN held # {}, NEW n \in Before
  PROVE  n = 0 \/ n < fiction
<1>1. CASE \E r \in DOMAIN held : Suspects(held[r]) = {}
  BY <1>1 DEF Before
<1>2. CASE ~\E r \in DOMAIN held : Suspects(held[r]) = {}
  <2>1. PICK r \in DOMAIN held : \E s \in Suspects(held[r]) : s <= fiction
    BY <1>2 DEF IInv, Reached
  <2>2. PICK s \in Suspects(held[r]) : s <= fiction
    BY <2>1
  <2>3. n \in 0..Length /\ n < s
    BY <1>2, <2>2 DEF Before
  <2>4. held[r] \in Labels
    BY DEF IInv, TypeOK
  <2>5. Suspects(held[r]) \subseteq 0..Length
    <3>1. held[r].step \in 0..Length /\ held[r].candidates \subseteq Steps
      BY <2>4 DEF Labels
    <3>2. Steps \subseteq 0..Length
      BY LengthAssumption DEF Steps
    <3> QED BY <3>1, <3>2 DEF Suspects
  <2>6. fiction \in 0..Length
    BY DEF IInv, TypeOK
  <2> QED BY <2>2, <2>3, <2>5, <2>6, LengthAssumption
<1> QED BY <1>1, <1>2

LEMMA ReportKeeps == IInv /\ Report => IInv'
<1> SUFFICES ASSUME IInv, Report PROVE IInv'
  OBVIOUS
<1>1. /\ UNCHANGED <<marked, at, acted, net, slot, ledger, skipped>>
      /\ answer' = "report" /\ pc' = "over" /\ warnings' = Warnings
      /\ leaked' = (leaked \/ Escaped # {})
      /\ aborted' = IF Escaped # {} THEN Latch("leak-unrouted") ELSE aborted
      /\ representative' \in Before
  BY DEF Report
<1>2. aborted' \in Aborts \cup {None} /\ (aborted' = None => Escaped = {})
  <2>1. aborted \in Aborts \cup {None} /\ Latch("leak-unrouted") \in Aborts
    BY Latched DEF IInv, TypeOK, Aborts
  <2> QED BY <1>1, <2>1, AbortKinds
<1>3. TypeOK'
  <2>1. representative' \in 0..Length
    BY <1>1, LengthAssumption DEF Before
  <2>2. warnings' \subseteq {"unknown bodies", "synthesized", "unattributed"}
    BY <1>1 DEF Warnings
  <2>3. leaked' \in BOOLEAN
    BY <1>1 DEF IInv, TypeOK
  <2> QED BY <1>1, <1>2, <2>1, <2>2, <2>3 DEF IInv, TypeOK, net, slot, ledger, Aborts
<1>4. (Wire /\ Recorded)'
  BY <1>1 DEF IInv, Wire, Recorded, net, ledger
<1>5. Windows'
  BY <1>1 DEF IInv, Windows, net, slot
<1>6. (Reached /\ Answered /\ NamedIsCause)'
  BY <1>1 DEF IInv, Reached, Answered, NamedIsCause, net, ledger
<1>7. EveryWriteShown'
  <2>1. SUFFICES ASSUME aborted' = None, NEW r \in Observed, ~Idempotent(req[r].kind)
                 PROVE  \E q \in DOMAIN held : Entry(q) = Entry(r)
    <3>1. Observed' = Observed /\ \A q \in Requests : (Entry(q))' = Entry(q)
      BY <1>1 DEF Observed, Entry, net
    <3>2. Observed \subseteq Requests /\ DOMAIN held \subseteq Requests
      BY DEF Observed, IInv, TypeOK
    <3> QED BY <1>1, <2>1, <3>1, <3>2 DEF EveryWriteShown, net, ledger
  <2> QED BY <1>2, <2>1, AllShown
<1>8. RepresentativeIsReal'
  <2>1. DOMAIN held # {} => representative' = 0 \/ representative' < fiction
    BY <1>1, BeforeIsReal
  <2> QED BY <1>1, <2>1 DEF RepresentativeIsReal, ledger
<1> QED BY <1>3, <1>4, <1>5, <1>6, <1>7, <1>8 DEF IInv

LEMMA StutterKeeps == IInv /\ UNCHANGED vars => IInv'
<1> SUFFICES ASSUME IInv, UNCHANGED vars PROVE IInv'
  OBVIOUS
<1> USE DEF vars, engine, net, slot, ledger, result
<1>1. TypeOK'
  BY DEF IInv, TypeOK
<1>2. (Wire /\ Recorded /\ Windows)'
  BY DEF IInv, Wire, Recorded, Windows
<1>3. (Reached /\ Answered)'
  BY DEF IInv, Reached, Answered
<1>4. (NamedIsCause /\ RepresentativeIsReal)'
  BY DEF IInv, NamedIsCause, RepresentativeIsReal
<1>5. EveryWriteShown'
  BY DEF IInv, EveryWriteShown, Observed, Entry
<1> QED BY <1>1, <1>2, <1>3, <1>4, <1>5 DEF IInv

-------------------------------------------------------------------------------
(* The theorems.                                                           *)

LEMMA NextKeeps == IInv /\ [Next]_vars => IInv'
<1> SUFFICES ASSUME IInv, [Next]_vars PROVE IInv'
  OBVIOUS
<1>1. CASE Refuse
  BY <1>1, RefuseKeeps
<1>2. CASE Begin
  BY <1>2, BeginKeeps
<1>3. CASE Escalate \/ NextStep \/ Acted \/ Check \/ Raises
  BY <1>3, StepKeeps
<1>4. CASE Act
  BY <1>4, ActKeeps
<1>5. CASE Drain
  BY <1>5, DrainKeeps
<1>6. CASE GraceEnds
  BY <1>6, GraceEndsKeeps
<1>7. ASSUME NEW r \in Requests, Send(r)
      PROVE  IInv'
  BY <1>7, SendKeeps
<1>8. ASSUME NEW r \in Requests, Handle(r)
      PROVE  IInv'
  BY <1>8, HandleKeeps
<1>9. ASSUME NEW r \in Requests, Continue(r)
      PROVE  IInv'
  BY <1>9, ContinueKeeps
<1>10. ASSUME NEW r \in Requests, Fulfil(r)
       PROVE  IInv'
  BY <1>10, FulfilKeeps
<1>11. ASSUME NEW r \in Requests, HandlerFails(r)
       PROVE  IInv'
  BY <1>11, HandlerFailsKeeps
<1>12. ASSUME NEW r \in Requests, NEW hop \in Requests, Redirect(r, hop)
       PROVE  IInv'
  BY <1>12, RedirectKeeps
<1>13. CASE Frame
  BY <1>13, FrameKeeps
<1>14. CASE Report
  BY <1>14, ReportKeeps
<1>15. CASE UNCHANGED vars
  BY <1>15, StutterKeeps
<1> QED BY <1>1, <1>2, <1>3, <1>4, <1>5, <1>6, <1>7, <1>8, <1>9, <1>10, <1>11, <1>12, <1>13,
           <1>14, <1>15 DEF Next

\* The strengthening all the theorems follow from.
THEOREM AlwaysIInv == Spec => []IInv
BY InitImpliesIInv, NextKeeps, PTL DEF Spec

\* The state of a dry run keeps its shape.
THEOREM TypeCorrect == Spec => []TypeOK
<1>1. IInv => TypeOK
  BY DEF IInv
<1> QED BY <1>1, AlwaysIInv, PTL

\* However the page times its requests, and whatever the handlers and the server do, no
\* request a layer of the browser sees reaches the network if it may write.
THEOREM NothingReachesTheSite == Spec => []NothingLeaves
<1>1. IInv => NothingLeaves
  BY DEF IInv, Wire, NothingLeaves
<1> QED BY <1>1, AlwaysIInv, PTL

\* A report without an abort shows the address of every write the browser saw.
THEOREM TheReportShowsEveryAddress == Spec => []EveryWriteShown
<1>1. IInv => EveryWriteShown
  BY DEF IInv
<1> QED BY <1>1, AlwaysIInv, PTL

\* Of the mutating steps, the one a report names is the one that caused the request.
THEOREM TheNamedStepCausedIt == Spec => []NamedIsCause
<1>1. IInv => NamedIsCause
  BY DEF IInv
<1> QED BY <1>1, AlwaysIInv, PTL

\* The steps called representative had run before any response was made up.
THEOREM RepresentativeStepsSawTheSite == Spec => []RepresentativeIsReal
<1>1. IInv => RepresentativeIsReal
  BY DEF IInv
<1> QED BY <1>1, AlwaysIInv, PTL
===============================================================================
