--------------------------- MODULE MCConjunction ---------------------------
EXTENDS Conjunction

CONSTANT Modes

Lists == {Ascending(S) : S \in SUBSET Doc}

\* Two lists anywhere; three lists of which one is empty or nearly full.
Pairs == {<<a, b>> : a, b \in Lists}
Triples == {<<a, b, c>> : a, b \in Lists, c \in {Ascending(Doc \ {d}) : d \in Doc} \cup {<<>>}}

\* Every single block or opening that can fail.
Faults == {{<<c, s, b>>} : c \in {1, 2}, s \in {1, 2}, b \in {-1, 0, 1}}

Requests(modes, lists, roaring, all, bad) ==
    {[mode |-> m, lists |-> ls, roaring |-> r, all |-> x, bad |-> f] :
        m \in Modes \cap modes, ls \in lists, r \in roaring, x \in all, f \in bad}

MCQuery ==
    <<Requests({"ram", "fused", "disk", "fused_disk", "executor"}, Triples, {FALSE}, {FALSE}, {{}}),
      Requests({"ram", "fused", "executor"}, Pairs, BOOLEAN, {FALSE}, {{}}),
      Requests({"disk", "fused_disk"}, Pairs, {FALSE}, {FALSE}, Faults \cup {{}}),
      Requests({"matches"}, Triples, {FALSE}, BOOLEAN, {{}})>>
=============================================================================
