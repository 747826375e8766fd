-------------------------- MODULE MCChainSelection --------------------------
EXTENDS ChainSelection

\* Blocks are interchangeable: it is enough to number them in the order in
\* which their headers are accepted.
InOrder == index' = 0..(Cardinality(index') - 1)
=============================================================================
