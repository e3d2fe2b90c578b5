---------------------------- MODULE MCIdmaDriver ----------------------------
EXTENDS IdmaDriver

CONSTANTS t1, t2

MCThreads == {t1, t2}

\* One context stops each channel: a thread the first, callbacks the second.
MCOneStopperEach == {<<t1, 1>>, <<Isr, 2>>}

\* Two threads stop the same channel.
MCTwoStoppers == {<<t1, 1>>, <<t2, 1>>}

Cfg(n, cb) == [count |-> n, callback |-> cb]

MCConfigs == {Cfg(3, "block"), Cfg(2, "block"), Cfg(1, "end")}
=============================================================================
