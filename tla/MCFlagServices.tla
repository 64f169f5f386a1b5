--------------------------- MODULE MCFlagServices ---------------------------
(* A small instance of FlagServices for TLC. *)
EXTENDS FlagServices

Row(n, f, c) == [name |-> n, factor |-> f, count |-> c]

\* Weighted and counted rows of roles, of Random, and nothing at all.
MCNodeSections ==
  {<<>>, <<Row("Docker", 0, 1)>>, <<Row("Random", 0, 2)>>} \cup
  {SelectSeq(<<Row("PC", p, 0), Row("Random", r, 0), Row("Docker", d, 0), Row("Random", 0, c)>>,
             LAMBDA w : w.factor + w.count > 0) : p \in 0 .. 2, r \in 0 .. 2, d \in 0 .. 1, c \in 0 .. 1}
MCItemSections ==
  {<<>>, <<Row("x", 0, 1), Row("y", 1, 0)>>, <<Row("y", 2, 0), Row("Random", 1, 0), Row("Random", 0, 3)>>}
MCRandomRoles == <<"Server", "Workstation", "PC">>
MCRandomNames == <<"x", "y">>

\* No bounds, an explicit lower bound, and both.
MCBounds == {<<0, 0>>, <<1, 0>>, <<1, 2>>}

\* Both items need the same image.
MCNeeds == [i \in CacheItems |-> {"a"}]
=============================================================================
