------------------------------- MODULE MCOlsr -------------------------------
EXTENDS Olsr
CONSTANTS a, b, c, d, e, i1, i2
Will == [m \in Neigh |-> IF m = c THEN 6 ELSE 3]
List1 == <<{<<d, 80>>, <<c, 100>>}, {<<d, 100>>, <<a, 100>>}, {}>>
TwoOfB == {<<i1, b>>, <<i1, c>>, <<i2, b>>}
HeardBCD == {<<c, 100>>, <<d, 80>>, <<d, 100>>}
Some == {[hello |-> 3, tc |-> 0, purge |-> 1], [hello |-> 2, tc |-> 1, purge |-> 0],
         [hello |-> 1, tc |-> 3, purge |-> 1]}
=============================================================================
