--------------------------- MODULE MCMixedNetwork ---------------------------
EXTENDS MixedNetwork

CallsFromTo(src, dst, ids) == [src : {src}, dst : {dst}, id : ids]

\* Nodes 1 and 2 run C and node 3 Python.  Node 2, which may restart, only
\* receives.
Mixed == CallsFromTo(1, 2, {1}) \cup CallsFromTo(1, 3, {1}) \cup CallsFromTo(3, 2, {1})

=============================================================================
