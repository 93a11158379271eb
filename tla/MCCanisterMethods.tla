--------------------------- MODULE MCCanisterMethods ---------------------------
(* Programs that differ in the order, the names, the kinds and the parameters of   *)
(* their methods, some of which no build accepts.                                  *)
EXTENDS CanisterMethods
M(k, n, p) == [kind |-> k, name |-> n, params |-> p, hidden |-> FALSE]
Qa == M("query", "a", "nat")
Qa2 == M("query", "a", "text")
Ua == M("update", "a", "nat")
Ub == M("update", "b", "text")
Ip == M("init", "c", "nat")
Pp == M("postUpgrade", "d", "nat")
Pq == M("postUpgrade", "d", "text")
PreU == M("preUpgrade", "c", "none")
Insp == M("inspectMessage", "c", "none")
Hb == [Ub EXCEPT !.hidden = TRUE]
SomePrograms ==
    { <<>>, <<Qa, Ub>>, <<Ub, Qa>>, <<Qa2, Ub>>, <<Qa, Ua>>, <<Qa, Qa2>>, <<Hb, Qa>>,
      <<Ip, Qa, Pp>>, <<Pp, Qa, Ip>>, <<Ip, Pq>>, <<Pq, Ip>>, <<Ip, Ip>>,
      <<Qa, PreU>>, <<Insp, Ub>> }
=============================================================================
