------------------------- MODULE MCReliableNetwork -------------------------
EXTENDS ReliableNetwork

CallsFromTo(src, dst, ids) == [src : {src}, dst : {dst}, id : ids]

OneWay == CallsFromTo(1, 2, {1, 2})

=============================================================================
