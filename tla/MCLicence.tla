---- MODULE MCLicence ----
EXTENDS ChatLimiter, TLC
None_used == [status |-> 0, use |-> 0, lose |-> 0, fetch |-> 0, hour |-> 0, adjust |-> 0, restart |-> 0, id |-> 0]
Plan(script, disk, bound, faults) ==
  [script |-> script, file |-> IF disk = None THEN NoCert ELSE [code |-> disk, epoch |-> 0],
   bound |-> bound, faults |-> faults, uses |-> None_used]
One(ops) == "w1" :> ops
Serial ==
  { Plan(One(<<"boot", "refresh", "reset", "refresh">>), "A", {"A"}, {"lost", "revoke", "lapse"}),
    Plan(One(<<"boot", "A", "refresh", "B", "refresh">>), None, {}, {"lost", "revoke"}),
    Plan(One(<<"boot", "refresh", "A", "reset">>), "F", {"A"}, {"lost"}),
    Plan(One(<<"boot", "verify", "refresh">>), "A", {"A"}, {"lost", "lapse", "back"}),
    Plan(One(<<"verify", "boot">>), "A", {"A"}, {"slowProbe"}) }
Pair(a, b, disk, bound, faults) == Plan("w1" :> a @@ "w2" :> b, disk, bound, faults)
Startup == { Pair(<<"boot">>, <<"verify", "refresh">>, "A", {"A"}, {"lost"}),
             Pair(<<"boot", "refresh">>, <<"refresh">>, "A", {"A"}, {"lost"}),
             Pair(<<"boot">>, <<"refresh">>, None, {"A"}, {}) }
Uses(script, disk, uses) ==
  [Plan(One(script), disk, {disk} \ {None}, {}) EXCEPT !.uses = uses @@ None_used]
Limiter ==
  { Uses(<<>>, None, [use |-> 3, lose |-> 1, hour |-> 1, id |-> 1]),
    Uses(<<>>, None, [use |-> 3, hour |-> 1, fetch |-> 1, id |-> 1]),
    Uses(<<>>, None, [use |-> 2, hour |-> 2, restart |-> 1, status |-> 1, id |-> 2]),
    Uses(<<>>, None, [use |-> 2, adjust |-> 2, fetch |-> 1, hour |-> 1, id |-> 1]),
    Uses(<<"reset">>, "A", [use |-> 2, hour |-> 1, status |-> 1]) }
All == Serial \cup Startup \cup Limiter
====
