--------------------------- MODULE MCSqliteCreate ---------------------------
EXTENDS SqliteCreate

\* Low 32 bits of a pointer read as an int: negative, zero, small, large.
MCPointerBits == {-2, 0, 3, 65536}
\* Thread counts a caller may pass: the "unset" -1, zero, one, a worker count.
MCPropThreads == {-1, 0, 1, 4}  \* -1 also stands for props without the key
\* A worker count a user may write in the parameter.
MCParamThreads == {4}
=============================================================================
