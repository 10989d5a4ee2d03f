---- MODULE MCSpanTransform ----
\* Registers of two and four elements in a memory of seven: every length with
\* every overlap.  Elements are terms, so that a result shows what it was
\* computed from.
EXTENDS SpanTransform
MCPadding == <<"zero">>
MCInitial == [c \in Cells |-> <<c>>]
MCF(x, y) == <<x, y>>
====
