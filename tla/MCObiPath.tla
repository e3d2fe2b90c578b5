------------------------------ MODULE MCObiPath ------------------------------
EXTENDS ObiPath

Req(w, e, b) == [word |-> w, we |-> e, be |-> b]

\* A device that may take its time, such as the DMA's NEXT_ID while its queue
\* is full.
MCDeviceReads == {Req(1, FALSE, 0..3)}
=============================================================================
