------------------------------- MODULE MCTopK -------------------------------
EXTENDS TopK

CONSTANTS Frequencies, Limits, Boosts, MaxTokens

\* Posting lists in which at most the first or the last document has several
\* occurrences.
Lists ==
    {p \in [Doc -> Frequencies] :
        /\ \A d \in Doc \ {1, NumDocs} : p[d] <= 1
        /\ p[1] <= 1 \/ p[NumDocs] <= 1}

\* A repeated token may occur in every document.
Tokens == {Token(p, 1) : p \in Lists} \cup {Token([d \in Doc |-> 1], b) : b \in Boosts}

\* Equal lengths, growing lengths, and one document whose length is missing.
Lengths == {[d \in Doc |-> 1], [d \in Doc |-> (d % 3) + 1], [d \in Doc |-> IF d = 2 THEN 0 ELSE 2]}

MCRequest ==
    LET matches == {<<ts>> : ts \in UNION {[1 .. n -> Tokens] : n \in 1 .. MaxTokens}}
        multis  == {<< <<t>>, <<u>> >> : t, u \in {Token(p, 1) : p \in [Doc -> {0, 1}]}}
    IN  {[fields |-> fs, limit |-> k, norms |-> \E d \in Doc : l[d] # 1,
          doc_len |-> l, min_doc_len |-> 1] : fs \in matches \cup multis, k \in Limits, l \in Lengths}
=============================================================================
