------------------------------ MODULE Records ------------------------------
(***************************************************************************)
(* The records users keep: portfolios with their snapshots, reconciliation *)
(* checkpoints, and decisions with their evidence.  What one of these      *)
(* services reads of another never changes once it is written.             *)
(***************************************************************************)
EXTENDS Portfolio, Reconciliation, Journal

recordsVars == <<portfolioVars, reconVars, journalVars>>

RecordsInit == PortfolioInit /\ ReconInit /\ JournalInit

PortfolioStep == PortfolioNext /\ UNCHANGED <<reconVars, journalVars>>
ReconStep     == ReconNext /\ UNCHANGED <<portfolioVars, journalVars>>
JournalStep   == JournalNext /\ UNCHANGED <<portfolioVars, reconVars>>

RecordsNext == PortfolioStep \/ ReconStep \/ JournalStep

RecordsSpec == RecordsInit /\ [][RecordsNext]_recordsVars

-----------------------------------------------------------------------------

\* The tables and requests of the three services hold values of their types,
\* nobody sees the rows of an open transaction, and none keeps a lock.
RecordsTypeOK == PortfolioTypeOK /\ ReconTypeOK /\ JournalTypeOK
============================================================================
