--------------------------------- MODULE MCBind ---------------------------------
(* Small instances of Bind for TLC. *)
EXTENDS Bind

Table ==
  [rows |-> TRUE, known |-> TRUE, cands |-> <<"shared", "own">>, title |-> "own",
   testid |-> Absent, placeholder |-> Absent, elem_id |-> Absent, long |-> FALSE,
   framed |-> TRUE, overlay |-> {}, secret |-> Absent]
Sections == [Table EXCEPT !.rows = FALSE, !.cands = <<>>]

SmallShapes ==
  {Table,
   [Table EXCEPT !.cands = <<"own", "place">>, !.long = TRUE, !.secret = "title"],
   [Table EXCEPT !.cands = <<"place", "own">>, !.known = FALSE, !.placeholder = "place"],
   [Table EXCEPT !.testid = "own", !.framed = FALSE],
   [Sections EXCEPT !.overlay = {N}],
   [Sections EXCEPT !.known = FALSE, !.elem_id = "own", !.testid = "shared"]}

SmallExtends == {<<"pay now", "pay">>}

\* Records there or not, one of them perhaps of another name.
SmallPages ==
  {[r \in Records |-> [at |-> IF r \in there THEN "shown" ELSE "gone",
                       name |-> IF r = other THEN "pay now" ELSE "pay",
                       edited |-> FALSE]] : there \in SUBSET Records, other \in 0..N}
===============================================================================
