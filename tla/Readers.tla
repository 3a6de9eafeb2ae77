------------------------------ MODULE Readers ------------------------------
(***************************************************************************)
(* Who reads the revision tables while they are filled: valuations with    *)
(* the risk runs that seal them, walks through the timeline, and quality   *)
(* evaluations.  They write no common row.                                 *)
(***************************************************************************)
EXTENDS Market, Quality

readersVars == <<marketVars, timelineVars, qualityVars>>

ReadersInit == MarketInit /\ TimelineInit /\ QualityInit

\* Collectors and imports of observations.
Observed == RevisionNext({a \in Arrival : a.kind = "observation"})

ValuationStep == MarketNext /\ UNCHANGED <<timelineVars, qualityVars>>

TimelineStep ==
    /\ (TimelineNext /\ UNCHANGED revisionVars) \/ (Observed /\ UNCHANGED timelineVars)
    /\ UNCHANGED <<valuationVars, riskRuns, qualityVars>>

QualityStep ==
    /\ \/ QualityNext /\ UNCHANGED <<revisionVars, timelineVars>>
       \/ (\E s \in LaterSeries : InsertSeries(s)) /\ UNCHANGED <<revisionVars, qualityVars>>
       \/ Observed /\ UNCHANGED <<timelineVars, qualityVars>>
    /\ UNCHANGED <<valuationVars, riskRuns>>

ReadersNext == ValuationStep \/ TimelineStep \/ QualityStep

ReadersSpec == ReadersInit /\ [][ReadersNext]_readersVars

-----------------------------------------------------------------------------
(* Properties.                                                             *)

(* A question about the past has one answer: a valuation, a walk through   *)
(* the timeline and a quality report as of an instant come out the same    *)
(* again, whatever was inserted, corrected or rolled back in between.      *)
AnswersRepeat == ReplayIsStable /\ WalkReplays /\ QualityReplays
=============================================================================
