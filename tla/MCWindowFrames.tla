--------------------------- MODULE MCWindowFrames ---------------------------
EXTENDS WindowFrames

\* One image or two at least; as many as wanted, or no more than the least number; presents in the
\* order of the queue or in any order.
MCSurfaces == {<<1, 0, TRUE>>, <<1, 1, TRUE>>, <<2, 0, TRUE>>, <<2, 2, TRUE>>,
               <<1, 0, FALSE>>, <<1, 1, FALSE>>}

=============================================================================
