----------------------------- MODULE MCCounters -----------------------------
(***************************************************************************)
(* The two libraries that only count: the logger and the metrics.  They    *)
(* share nothing, so a behaviour exercises one of them.                    *)
(***************************************************************************)
EXTENDS Logger, Metrics

CONSTANTS t1, t2, main

VARIABLE library

MCThreads == {t1, t2}
MCCancelable == {t2}
MCLevels == {2, 3}
MCTags == {1}
MCLatencies == {0, 3, 7}

MCInit == library \in {"logger", "metrics"} /\ LogInit /\ MetInit

MCNext ==
  /\ \/ library = "logger" /\ LogNext /\ UNCHANGED metVars
     \/ library = "metrics" /\ MetNext /\ UNCHANGED logVars
  /\ UNCHANGED library

\* A thread inside a call goes on when it can; main goes on to log_close.
MCSpec ==
  /\ MCInit /\ [][MCNext]_<<library, logVars, metVars>>
  /\ \A t \in All : WF_logVars(library = "logger" /\ InCall(t) /\ UNCHANGED <<metVars, library>>)
  /\ WF_logVars(library = "logger" /\ log_close /\ UNCHANGED <<metVars, library>>)

=============================================================================
