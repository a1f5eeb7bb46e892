---------------------------- MODULE MCPrgLaunch ----------------------------
EXTENDS PrgLaunch

\* Programs below Split, up to it, across it and above it, of whole pages and not;
\* one that crosses it begins below the buffer, one above
SomePrograms ==
    {[start |-> 2, size |-> 5], [start |-> 3, size |-> 9], [start |-> 3, size |-> 10],
     [start |-> 7, size |-> 6], [start |-> 7, size |-> 8], [start |-> 11, size |-> 4]}
============================================================================
