------------------------------ MODULE MCBatman ------------------------------
EXTENDS Batman
CONSTANTS a, b, c, d, i1, i2
Full1 == {<<n, m, i>> \in Node \X Node \X Iface : n # m}
\* a and d hear each other over both channels, b over the first.
SecondAD == {<<n, m, i>> \in Full1 : i = i2 => b \notin {n, m}}
\* ... and b does not reach d.
LineAD == {l \in SecondAD : {l[1], l[2]} # {b, d}}
FirstZero == {0}
\* Three OGMs in a row, none of which is late, or two with a restart or a
\* timeout, late or not.
SmallBudgets ==
    {[ogm |-> 3, fault |-> 0, delay |-> 0]} \cup
    {[ogm |-> 2, fault |-> 1, delay |-> t] : t \in {0, 1}}
\* The second OGM wraps to 0.
BeforeWrap == {14}
=============================================================================
