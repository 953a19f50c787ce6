---------------------------- MODULE MCScdSession ----------------------------
EXTENDS ScdSession

MCQueueOrder == <<"high", "low">>
\* A flexible shared request and an exclusive one that wants several nodes.
MCRequests == {[min |-> 1, max |-> 2, excl |-> FALSE],
               [min |-> 2, max |-> 3, excl |-> TRUE]}
=============================================================================
