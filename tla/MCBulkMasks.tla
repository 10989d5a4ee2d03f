---- MODULE MCBulkMasks ----
\* Bytes of two bits and registers of two and four elements: spans of up to six
\* elements and of up to three groups, so that every operation has a full register
\* before a partial one.
EXTENDS BulkMasks
====
