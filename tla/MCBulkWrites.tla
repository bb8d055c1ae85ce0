----------------------------- MODULE MCBulkWrites -----------------------------
EXTENDS BulkWrites
==============================================================================
