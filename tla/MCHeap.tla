------------------------------ MODULE MCHeap ------------------------------
EXTENDS Heap

\* A word that looks like the header of a free chunk of 24 bytes whose left
\* neighbour is free, and like a footer.
Misleading == [size |-> 24, self |-> FALSE, left |-> FALSE]
=============================================================================
