------------------------------ MODULE MCConfig ------------------------------
(* Every graph of needs among three guests, misspelt and self needs          *)
(* included, and one mistake at a time in the other parts.                   *)
EXTENDS Config

Lists == {<< >>} \union {<<x>> : x \in {"a", "b", "c", "ghost"}}
         \union {<<x, y>> : x, y \in {"a", "b", "c"}}

Guest(needs) == [kind |-> "guest", onDemand |-> FALSE, node |-> "pve", needs |-> needs]
Control == [complete |-> TRUE, control |-> TRUE]
GoodDoor == [mode |-> "ssh", key |-> TRUE, hosts |-> {Control}]
GoodDown == [stopWhen |-> {"busy", "hold"}, manages |-> {"a"}, thenConsider |-> {"b"}]
OneDown(name, d) == [n \in {name} |-> d]

Graph(f) == [targets |-> [n \in {"a", "b", "c"} |-> Guest(f[n])], signals |-> {"busy"},
             downs |-> OneDown("a", GoodDown), door |-> GoodDoor]
Good == Graph([a |-> << >>, b |-> <<"a">>, c |-> <<"a", "b">>])
Targets(f) == [Good EXCEPT !.targets = f]
Node(demand, needs) == [kind |-> "node", onDemand |-> demand, node |-> "", needs |-> needs]

Mistakes ==
  {Targets([n \in {} |-> 0])}
  \union {Targets([Good.targets EXCEPT !.c = x]) :
            x \in {Node(TRUE, << >>), Node(FALSE, << >>), Node(TRUE, <<"a">>),
                   [Guest(<< >>) EXCEPT !.node = ""], [Guest(<< >>) EXCEPT !.kind = "other"]}}
  \union {[Good EXCEPT !.downs = OneDown("a", d)] :
            d \in {[GoodDown EXCEPT !.stopWhen = {}], [GoodDown EXCEPT !.stopWhen = {"bsuy"}],
                   [GoodDown EXCEPT !.manages = {"ghost"}],
                   [GoodDown EXCEPT !.thenConsider = {"ghost"}]}}
  \union {[Good EXCEPT !.downs = OneDown("ghost", GoodDown)]}
  \union {[Good EXCEPT !.door = d] :
            d \in {[GoodDoor EXCEPT !.key = FALSE], [GoodDoor EXCEPT !.hosts = {}],
                   [GoodDoor EXCEPT !.hosts = {[Control EXCEPT !.complete = FALSE]}],
                   [mode |-> "mock", key |-> FALSE, hosts |-> {}]}}

AllWritten == {Graph(f) : f \in [{"a", "b", "c"} -> Lists]} \union Mistakes
=============================================================================
