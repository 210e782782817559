----------------------------- MODULE MCProcess ------------------------------
\* Two boots, one job, two requests of the console; the thresholds of the file touch.
EXTENDS Process

MCFile == [k \in Keys |-> 1]

\* A walk under way from before walks had anchors, and one that was complete.
MCWalks == [s \in Shows |-> [cursor |-> 3, anchor |-> NoMonth, complete |-> s = "done"]]
MCWindow == [s \in Shows |-> 2]

\* A week whose document of old names the newest of two files, one with a file from a
\* death before its document and a second run, and one with that file alone.
MCFiles == [old |-> {1, 2}, crashed |-> {1, 2}, lost |-> {1}]
MCDocuments ==
    [old     |-> [runs |-> <<>>, file |-> 2],
     crashed |-> [runs |-> <<2>>, file |-> 2],
     lost    |-> NoDocument]
=============================================================================
