----------------------------- MODULE MCCollector -----------------------------
(* Instances of Collector for TLC: one schedule, two processes, a provider *)
(* that may answer a repeated request differently.                         *)
EXTENDS Collector

CONSTANTS s1, c1, c2, w1, w2

MCRun == {s1} \X Occurrence

Configured(p, n, m) == [provider |-> p, pages |-> n, maxPages |-> m]

\* A window of two pages from FRED and of one from Binance, from each one that is
\* longer than max_pages allows, and from TCMB an answer that covers the window
\* and one that does not.
MCConfig ==
    {Configured("fred", 2, 2), Configured("fred", 2, 1), Configured("binance", 1, 1),
     Configured("binance", 2, 1), Configured("tcmb", 1, 1), Configured("tcmb", 2, 1)}
=============================================================================
