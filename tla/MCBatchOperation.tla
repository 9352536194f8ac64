-------------------------- MODULE MCBatchOperation --------------------------
EXTENDS BatchOperation
=============================================================================
