-------------------------------- MODULE MCReview --------------------------------
(* Small instances of Review for TLC. *)
EXTENDS Review, TLC

Control(guess, form, sends) == [guess |-> guess, form |-> form, sends |-> sends, caption |-> FALSE]
Page(cs, provable, reads) == [controls |-> cs, provable |-> provable, reads |-> reads]

Plain == Control("none", FALSE, "none")
Search == Control("none", TRUE, "read")
Order == Control("keyword", FALSE, "write")
Sender == Control("keyword", FALSE, "none")
Wire == Control("none", FALSE, "write")

Num(n) == [t |-> "number", v |-> n]
Text == [t |-> "string", v |-> 0]
Date == [t |-> "string", v |-> 1]
Row(v) == [t |-> "object", f |-> ("price" :> v)]
List(vs) == [t |-> "array", a |-> vs]
Whole(v) == [value |-> v, cut |-> FALSE]

\* Prices as expected, zero, missing or of another type; too few of them, or many missing.
Rows == {Whole(Row(v)) : v \in {Num(9), Num(0), Null, Date, List(<<>>)}}
Lists ==
  {Whole(List(vs)) : vs \in {<<>>, <<Num(9)>>, <<Text, Null>>, <<Num(9), Num(9), Num(9), Num(0), Null>>,
                             <<Num(9), Num(9), Num(9), Num(9), Num(9), Num(9)>>}}
  \cup {[value |-> List(<<Num(9), Num(9)>>), cut |-> TRUE]}
Tables == {Whole(List(<<Row(Num(9)), v>>)) : v \in {Row(Num(9)), Row(Num(0)), Row(Null), Num(9)}}
Numbers == {Whole(Num(9)), Whole(Num(0))}
SmallReads == Rows \cup Lists \cup Tables \cup Numbers

\* A read that only its caption betrays; one that posts its reads; one form that posts
\* beside a control whose name says so; a write that may come late, before a misread name.
\* Of what a replay may read, what a learn did.
SmallPages ==
  {Page(<<[Plain EXCEPT !.caption = TRUE]>>, TRUE, {Whole(Row(v)) : v \in {Num(9), Date}}),
   Page(<<Search>>, TRUE, {Whole(List(<<Text, Null>>)), Whole(List(<<Num(9), Num(9), Num(9), Num(9), Num(9), Num(9)>>)),
                           [value |-> List(<<Num(9), Num(9)>>), cut |-> TRUE], Whole(List(<<Row(Num(9)), Row(Num(9))>>))}),
   Page(<<Order, Control("form_method", TRUE, "write")>>, TRUE, {Whole(Num(9))}),
   Page(<<Wire, Sender>>, FALSE, {Whole(Num(9))})}

FlowSpec(declared, barriers, slots, overlay) ==
  [declared |-> declared, barriers |-> barriers, slots |-> slots, overlay |-> overlay]
SmallSpecs ==
  {FlowSpec(FALSE, 0, "enum", NoChecks),
   FlowSpec(FALSE, 0, "any", (Key("price") :> [positive |-> FALSE])
                             @@ (Item :> [enabled |-> FALSE]) @@ (Root :> [max |-> 5])),
   FlowSpec(TRUE, 0, "enum", NoChecks), FlowSpec(TRUE, 1, "enum", NoChecks),
   FlowSpec(TRUE, 2, "enum", NoChecks)}
===============================================================================
