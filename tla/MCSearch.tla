------------------------------ MODULE MCSearch ------------------------------
EXTENDS Search

CONSTANTS u1, u2, u3, u4, c1, c2

MCKeys == {<<"d">>}
MCStored == <<[uid |-> u1, key |-> <<"b">>], [uid |-> u2, key |-> <<"t">>],
              [uid |-> u3, key |-> <<"a">>], [uid |-> u4, key |-> <<"e">>]>>
MCScore(k) == CASE k = <<"a">> -> 5 [] k = <<"b">> -> 3 [] k = <<"e">> -> 2 [] k = <<"d">> -> 4 [] k = <<"t">> -> 0
=============================================================================
