----------------------------- MODULE MCForwarder -----------------------------
\* Messages of one, two and three units over a writer of two units: one that
\* fits, one that splits over a flush, one that bypasses the writer.
EXTENDS ForwarderStream

MCSize == [m \in Msg |-> CASE m = 1 -> 1 [] m = 2 -> 2 [] OTHER -> 3]
=============================================================================
