------------------------------- MODULE MCRecord -------------------------------
(* Small instances of Record for TLC. *)
EXTENDS Record

Commit(mark, scope, shows) ==
  [kind |-> "commit", mark |-> mark, scope |-> scope, label |-> "pay", secret |-> FALSE,
   shows |-> shows]
Field(secret) ==
  [kind |-> "field", mark |-> FALSE, scope |-> FALSE, label |-> "pin", secret |-> secret,
   shows |-> {}]

\* A plain commit, a marked one that repeats the value of the field, and the field,
\* with and without a secret.
SmallControls ==
  {Commit(FALSE, TRUE, {}), Commit(TRUE, TRUE, {"pin"}), Field(TRUE), Field(FALSE)}

Send(how, out) == [how |-> how, out |-> out]
SmallSends ==
  {Send("fetch", "wire"), Send("fetch", "none"), Send("submit", "wire"),
   Send("beacon", "hidden"), Send("worker", "wire"), Send("socket", "wire")}

Read(mine, secrets) ==
  [write |-> FALSE, barriers |-> 0, bind |-> {}, secrets |-> secrets, mine |-> mine]
Write(barriers, bind, secrets) ==
  [write |-> TRUE, barriers |-> barriers, bind |-> bind, secrets |-> secrets, mine |-> FALSE]

SmallAsks ==
  {Read(FALSE, {}), Read(TRUE, {}), Write(0, {}, {}), Write(1, {}, {}),
   Write(0, {"pin"}, {"pin"})}
===============================================================================
