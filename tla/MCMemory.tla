------------------------------ MODULE MCMemory ------------------------------
(* Two signals: contradicting each other, repeating each other, or unusable. *)
EXTENDS Memory

Fact(ent, obj) == [ent |-> ent, obj |-> obj, conf |-> 95, domain |-> "semantic"]

MCDivergence(a, b) == IF a = b THEN 0 ELSE 100

Plain(fs) == [malformed |-> FALSE, large |-> FALSE, facts |-> fs]

MCExt == {"s1", "s2"}

Pair(first, second) == [e \in MCExt |-> IF e = "s1" THEN first ELSE second]

MCContents ==
    {Pair(Plain(<<Fact("e", "x")>>), Plain(<<Fact("d", "x"), Fact("e", "y")>>)),
     Pair(Plain(<<Fact("e", "x")>>), Plain(<<Fact("e", "x"), Fact("e", "x")>>)),
     Pair([Plain(<<>>) EXCEPT !.malformed = TRUE],
          [Plain(<<Fact("e", "x")>>) EXCEPT !.large = TRUE])}
=============================================================================
