------------------------------ MODULE MCDelivery ------------------------------
EXTENDS Delivery

\* An even path, an uneven one, and one that is too long.
MCPaths == {[out |-> 0, back |-> 0], [out |-> 0, back |-> 8], [out |-> 8, back |-> 8]}
\* Alone implausible, halved by an honest answer plausible.
MCWrong == {40}
================================================================================
