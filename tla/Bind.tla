---------------------------------- MODULE Bind ----------------------------------
(***************************************************************************)
(* How a step finds its element (snapshot.py, locators.py): the refs a     *)
(* snapshot leaves on the page, the locator described from one of them,    *)
(* and what resolve(unique=True) binds on the page of a later run, up to   *)
(* the scope the mutation gate compares.                                   *)
(*                                                                         *)
(* A page is a list of records, rows of a table or sections with a         *)
(* heading, each with one control of the same tag and role.  Between any   *)
(* two steps the page may change.                                          *)
(***************************************************************************)
EXTENDS Naturals, Sequences, FiniteSets

CONSTANTS
  Absent,       \* what is not there
  N,            \* places for records, in document order
  Names,        \* what controls are called
  Extends,      \* <<n, m>>: the name n has the name m in it
  Shapes,       \* the kinds of page
  Pages,        \* what a page may be at first
  MaxElements,  \* settings.max_elements
  MaxDrift      \* bound on the changes of the page

Records == 1..N
Redacted == "[REDACTED]"

\* rows: records are rows, not sections; known: get_by_role knows the control's role;
\* cands: what a row offers as its identity, in the order _rowCands lists it, each
\* the record's own (a key), the same in all rows, or its place among them; title (the
\* record's text), testid, placeholder, elem_id: likewise; long: a row's text does not fit in an anchor;
\* framed: a record is a form; overlay: records of an open panel; secret: the string
\* that has a secret of the run in it.
Values == {"own", "shared", "place"}
ShapeType == [rows : BOOLEAN, known : BOOLEAN, cands : Seq(Values),
              title : Values, testid : Values \cup {Absent}, placeholder : Values \cup {Absent},
              elem_id : Values \cup {Absent}, long : BOOLEAN, framed : BOOLEAN,
              overlay : SUBSET Records, secret : {Absent, "name", "title", "key"}]

ASSUME BindAssumption ==
  /\ N \in Nat /\ MaxElements \in Nat /\ MaxDrift \in Nat
  /\ Extends \subseteq Names \X Names
  /\ Shapes \subseteq ShapeType
  /\ Pages \subseteq [Records ->
       [at : {"gone", "hidden", "bare", "away", "shown"}, name : Names, edited : {FALSE}]]
ASSUME AbsentAssumption ==
  Absent \notin Values \cup {"name", "title", "key"} \cup (Values \X Nat)

VARIABLES
  shape,   \* the kind of page
  page,    \* its records
  drift,
  \* learning
  tags,    \* data-ultracua-ref of each control, 0 for none
  seen,    \* the last observation: the ref of each record in it
  looks,
  stage,
  meant,   \* history: the record the model chose, or whose control has the focus
  pinned,  \* history: was it the focus?
  made,    \* history: the record the locator was described from
  alone,   \* history: was it the only one then?
  spec,    \* the LocatorSpec
  \* replay
  element,  \* what resolve bound, 0 for nothing
  answered \* sink["saw_candidates"]

learned == <<tags, seen, looks, meant, pinned, made, alone, spec>>
bindVars == <<shape, page, drift, learned, stage, element, answered>>

\* at: not in the document, hidden, without its control, out of the viewport, or in it.
\* edited: its text is no longer what it was.
RecordType ==
  [at : {"gone", "hidden", "bare", "away", "shown"}, name : Names, edited : BOOLEAN]

InDom == {r \in Records : page[r].at # "gone"}
Attached == {r \in InDom : page[r].at # "bare"}
Visible == {r \in Attached : page[r].at # "hidden"}

First(S) == CHOOSE r \in S : \A s \in S : r <= s
FirstOf(S, k) == {r \in S : Cardinality({s \in S : s <= r}) <= k}
Place(r) == Cardinality({s \in InDom : s <= r})

\* The value of an attribute that is own, shared or by place.
Value(kind, r) ==
  CASE kind = "own" -> <<kind, r>>
    [] kind = "place" -> <<kind, Place(r)>>
    [] kind = "shared" -> <<kind, 0>>
    [] OTHER -> Absent

-------------------------------------------------------------------------------
(* What is captured of an element.                                         *)

\* Fault: the first thing the row offers.
firstCandidate(r) == IF shape.rows /\ shape.cands # <<>> THEN Value(shape.cands[1], r) ELSE Absent

\* An identity discriminates: the first candidate that no other row has, hidden
\* ones included.
Cands(r) == [j \in DOMAIN shape.cands |-> Value(shape.cands[j], r)]
Taken(r) == UNION {{Cands(s)[j] : j \in DOMAIN shape.cands} : s \in InDom \ {r}}
rowIdOf(r) ==
  LET free == {j \in DOMAIN shape.cands : Cands(r)[j] \notin Taken(r)}
  IN IF shape.rows /\ free # {} THEN Cands(r)[First(free)] ELSE Absent

\* A heading, or the whole text of a row, its control's name included.
anchorOf(r) ==
  LET text == <<Value(shape.title, r), page[r].edited>>
  IN IF shape.rows THEN Append(text, page[r].name) ELSE text

\* An id, or the place among siblings, which a single child does not have.
cssPath(r) ==
  IF shape.elem_id # Absent THEN Value(shape.elem_id, r)
  ELSE <<"path", IF Cardinality(InDom) > 1 THEN Place(r) ELSE 0>>

\* The interactables of the enclosing form or section, or of the body.
Scope(r) ==
  IF shape.framed THEN <<page[r].name>>
  ELSE [s \in Attached |-> page[s].name]

specOf(r) ==
  [name |-> page[r].name,
   testid |-> Value(shape.testid, r),
   placeholder |-> Value(shape.placeholder, r),
   elem_id |-> Value(shape.elem_id, r),
   css |-> cssPath(r),
   anchor |-> anchorOf(r),
   source |-> IF shape.rows THEN "row" ELSE "heading",
   id |-> rowIdOf(r),
   scope |-> Scope(r)]

\* A secret's string is scrubbed; an anchor or an identity that had one is dropped,
\* and an anchor's source with it.
redact_spec_fields(raw) ==
  LET inAnchor == \/ shape.secret = "title"
                  \/ shape.secret = "name" /\ shape.rows
      inId == shape.secret = "key" /\ raw.id # Absent /\ raw.id[1] = "own"
  IN [raw EXCEPT !.name = IF shape.secret = "name" THEN Redacted ELSE @,
                 !.anchor = IF inAnchor THEN Absent ELSE @,
                 !.source = IF inAnchor THEN Absent ELSE @,
                 !.id = IF inId THEN Absent ELSE @]

describe(r) == redact_spec_fields(specOf(r))

-------------------------------------------------------------------------------
(* What a locator binds.                                                   *)

Has(n, m) == n = m \/ <<n, m>> \in Extends

Answering(kind, want) ==
  {r \in Attached : want # Absent /\ Value(kind, r) = want}
Named(S, want) == {r \in S : page[r].name = want}
Like(S, want) == {r \in S : Has(page[r].name, want)}

\* The candidates of Tier 1, in their order; get_by_role sees no hidden element.
Confident(s) ==
  << Answering(shape.testid, s.testid),
     IF shape.known THEN Named(Visible, s.name) ELSE {},
     Answering(shape.placeholder, s.placeholder),
     Named(Attached, s.name),
     Answering(shape.elem_id, s.elem_id),
     IF shape.known THEN Like(Visible, s.name) ELSE {} >>
Fuzzy == 6  \* role+name~, the guess among them

Substring(s) == Like(Attached, s.name)

AtPath(s) ==
  {r \in Attached : CASE s.css[1] # "path" -> Value(shape.elem_id, r) = s.css
                      [] s.css[2] = 0 -> TRUE
                      [] OTHER -> Place(r) = s.css[2]}

\* The same name, in a section with that heading or a row with exactly that text.
Anchored(s) ==
  IF ~shape.known \/ s.anchor = Absent \/ (shape.rows /\ shape.long) THEN {}
  ELSE {r \in Named(Visible, s.name) : anchorOf(r) = s.anchor}

\* classify: the only match, if it can be seen.
Unique(S) == Cardinality(S) = 1 /\ S \subseteq Visible

testid_contradicted(r, s) == s.testid # Absent /\ Value(shape.testid, r) # s.testid

\* Fault: the guess is not checked against css.
WinsUncrossed(s, j, found) == Unique(found)

\* A Tier 1 candidate wins if it is unique; the guess must not be contradicted by css.
Wins(s, j, found) ==
  Unique(found) /\ (j = Fuzzy /\ Unique(AtPath(s)) => AtPath(s) = found)

\* css, unless the substring says otherwise or the element has another test-id.
ByGuess(s) ==
  IF /\ Unique(AtPath(s))
     /\ Unique(Substring(s)) => Substring(s) = AtPath(s)
     /\ ~testid_contradicted(First(AtPath(s)), s)
  THEN AtPath(s) ELSE {}

Candidate(s) ==
  LET tier1 == Confident(s)
      wins == {j \in DOMAIN tier1 : Wins(s, j, tier1[j])}
      guess == ByGuess(s)
  IN CASE wins # {} -> tier1[First(wins)]
       [] wins = {} /\ guess # {} -> guess
       [] OTHER -> IF Unique(Anchored(s)) THEN Anchored(s) ELSE {}

\* The row guard: what was bound has to be in the recorded row.
InRecordedRow(r, s) == s.source = "row" /\ s.id # Absent => rowIdOf(r) = s.id

Resolved(s) ==
  LET found == Candidate(s)
  IN IF found # {} /\ InRecordedRow(First(found), s) THEN First(found) ELSE 0

Matched(s) ==
  UNION {Confident(s)[j] : j \in DOMAIN Confident(s)}
    \cup Substring(s) \cup AtPath(s) \cup Anchored(s)

-------------------------------------------------------------------------------
BindInit ==
  /\ shape \in Shapes
  /\ page \in Pages
  /\ drift = 0
  /\ tags = [r \in Records |-> 0]
  /\ seen = <<>>
  /\ looks = 0
  /\ stage = "look"
  /\ meant = 0
  /\ pinned = FALSE
  /\ made = 0
  /\ alone = FALSE
  /\ spec = Absent
  /\ element = 0
  /\ answered = FALSE

\* The page changes a record: text, name, place in the viewport, or whether it is there.
\* A control that goes takes its ref with it.
Change ==
  /\ stage # "done"
  /\ drift < MaxDrift
  /\ drift' = drift + 1
  /\ \E r \in Records, new \in RecordType :
       /\ new # page[r]
       /\ page' = [page EXCEPT ![r] = new]
       /\ tags' = IF new.at \in {"gone", "bare"} THEN [tags EXCEPT ![r] = 0] ELSE tags
  /\ UNCHANGED <<shape, seen, looks, stage, meant, pinned, made, alone, spec, element, answered>>

\* SNAPSHOT_JS: of what is in the viewport, an open panel first and the rest as far
\* as there is room; refs are set in order, and none of an earlier snapshot is removed.
Listed ==
  LET shown == {r \in Attached : page[r].at = "shown"}
      over == FirstOf(shown \cap shape.overlay, MaxElements)
  IN IF Cardinality(shown) <= MaxElements THEN shown
     ELSE over \cup FirstOf(shown \ shape.overlay, MaxElements - Cardinality(over))

Snapshot ==
  /\ stage \in {"look", "seen"}
  /\ looks < 2
  /\ looks' = looks + 1
  /\ seen' = [r \in Listed |-> Cardinality({s \in Listed : s <= r})]
  /\ tags' = [r \in Records |-> IF r \in Listed THEN seen'[r] ELSE tags[r]]
  /\ stage' = "seen"
  /\ UNCHANGED <<shape, page, drift, meant, pinned, made, alone, spec, element, answered>>

Tagged(ref) == {r \in Attached : tags[r] = ref}

\* A step of record r is cached with the locator of element e; the refs stay behind
\* with this page.
Capture(r, e, focus) ==
  /\ meant' = r
  /\ pinned' = focus
  /\ made' = e
  /\ alone' = (InDom = {e})
  /\ spec' = describe(e)
  /\ stage' = "cached"
  /\ tags' = [s \in Records |-> 0]
  /\ seen' = <<>>
  /\ looks' = 0
  /\ UNCHANGED <<shape, page, drift, element, answered>>

\* The model acts on a ref: the first element that has it is described and, if it can
\* be seen, acted on.
ActOn ==
  /\ stage = "seen"
  /\ \E r \in DOMAIN seen :
       /\ Tagged(seen[r]) # {}
       /\ First(Tagged(seen[r])) \in Visible
       /\ Capture(r, First(Tagged(seen[r])), FALSE)

\* Fault: a ref that another element has too.
sharedRef(f) == tags[f]

\* A press is pinned to the focused element if its ref is that element's alone.
focused_ref(f) == IF tags[f] # 0 /\ Tagged(tags[f]) = {f} THEN tags[f] ELSE 0

Press ==
  /\ stage = "seen"
  /\ \E f \in Visible :
       /\ focused_ref(f) # 0
       /\ Capture(f, First(Tagged(focused_ref(f))), TRUE)

\* A replay's step; a marked one compares the scope of what was bound.
Resolve ==
  /\ stage = "cached"
  /\ stage' = "done"
  /\ LET r == Resolved(spec) IN
       \E marked \in BOOLEAN :
         element' = IF marked /\ r # 0 /\ Scope(r) # spec.scope THEN 0 ELSE r
  /\ answered' = (Matched(spec) # {})
  /\ UNCHANGED <<shape, page, drift, learned>>

BindNext == Change \/ Snapshot \/ ActOn \/ Press \/ Resolve

BindSpec == BindInit /\ [][BindNext]_bindVars

-------------------------------------------------------------------------------
(* Properties.                                                             *)

BindTypeOK ==
  /\ shape \in ShapeType
  /\ page \in [Records -> RecordType]
  /\ drift \in 0..MaxDrift
  /\ tags \in [Records -> 0..N]
  /\ DOMAIN seen \subseteq Records
  /\ looks \in 0..2
  /\ stage \in {"look", "seen", "cached", "done"}
  /\ {meant, made, element} \subseteq 0..N
  /\ {pinned, alone, answered} \subseteq BOOLEAN

Before(v, w) ==
  LET at(x) == {j \in DOMAIN shape.cands : shape.cands[j] = x}
  IN at(v) # {} /\ (at(w) # {} => First(at(v)) < First(at(w)))

\* The row guard (locators.py:431): a row with a key of its own keeps its step: nothing
\* outside that row is bound, whatever was removed, hidden, renamed or added.  Not if
\* a place comes before the key (the comment's residual), if the row was the only one
\* when it was captured, or if a secret in the row dropped its identity or its anchor.
KeyedRowHolds ==
  stage = "done" /\ element \notin {0, made} =>
    \/ ~shape.rows \/ ~Before("own", "place")
    \/ alone
    \/ shape.secret # Absent

\* The ladder of resolve (locators.py:474): an element that can be seen where its path
\* says is passed over only for one that took over its name exactly, never for a guess.
NeverPassedOver ==
  stage = "done" /\ element \notin {0, made} =>
    \/ made \notin Visible \/ AtPath(spec) # {made}
    \/ page[made].name # spec.name /\ page[element].name = spec.name
    \/ "place" \in {shape.testid, shape.placeholder, shape.elem_id}

\* focused_ref (locators.py:337): the locator of a submit is the focused field's,
\* whatever refs earlier snapshots left on the page.
FocusIsPinned == pinned => made = meant

-------------------------------------------------------------------------------
(* What the comments say and the code does not keep (known limits).        *)

\* An identity that discriminated when it was captured names the record
\* (locators.py:99-104).  Not if the row was the only one: then whatever it has in
\* common with later rows is taken for its identity.
KeyHoldsAlone ==
  stage = "done" /\ element \notin {0, made} =>
    ~shape.rows \/ ~Before("own", "place") \/ shape.secret # Absent

\* Losing an anchor's text to a secret loses a hint (locators.py:300-309), not the guard.
SecretKeepsTheGuard ==
  stage = "done" /\ element \notin {0, made} =>
    ~shape.rows \/ ~Before("own", "place") \/ alone \/ shape.secret # "title"

\* The anchor tells two controls of one name apart instead of guessing
\* (locators.py:65-67).  A path that has slid to the other one is asked first.
AnchorDecides ==
  stage = "done" /\ Anchored(spec) = {made} => element \in {0, made}

\* A row that is as it was is bound.  Not if what it had in common with the others has
\* become its own, because they are gone.
IntactIsFound ==
  stage = "done" /\ page[made].at = "shown" /\ Confident(spec)[2] = {made} /\ shape.framed
    => element # 0

\* A ref names the element the model saw (snapshot.py:83).  Not after a second snapshot,
\* if an element that is no longer in it still has the ref.
RefNamesTheSeen == made = meant
===============================================================================
