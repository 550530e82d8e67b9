---- MODULE MCPtyStream ----
EXTENDS PtyStream
MCChunks == {1, 2}
====
