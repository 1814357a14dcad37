----------------------------- MODULE MCRunEngine -----------------------------
(* Job configurations on which RunEngine is model-checked. *)
EXTENDS RunEngine

plain(t, c) == [type |-> t, cond |-> c, critical |-> FALSE, retry |-> FALSE]
critical(t, c) == [plain(t, c) EXCEPT !.critical = TRUE]
retried(s) == [s EXCEPT !.retry = TRUE]

\* A script before and a script after the archive that differ in condition and
\* guarantee, two scripts of one phase, a critical_cleanup script that its own
\* condition skips, and a job whose only extra is the health check.
MCJobs ==
    [scripts: {<<a, b>> : a \in {plain("PRE_BACKUP", "ON_SUCCESS"), plain("PRE_BACKUP", "ALWAYS")},
                          b \in {plain("POST_BACKUP", "ALWAYS"), plain("POST_BACKUP", "ON_FAILURE")}}
              \cup {<<critical("PRE_BACKUP", "ON_FAILURE")>>,
                    <<plain("POST_BACKUP", "ON_SUCCESS"), critical("POST_BACKUP", "ON_SUCCESS")>>},
     attempts: {0}]
    \cup [scripts: {<<>>}, attempts: {2}]

\* The job of the example in the project's documentation: stop a service,
\* archive, always start it again, check its health.
StopStartJobs ==
    {[scripts |-> <<plain("PRE_BACKUP", "ON_SUCCESS"), plain("POST_BACKUP", "ALWAYS")>>,
      attempts |-> 2],
     [scripts |-> <<retried(plain("POST_BACKUP", "ON_FAILURE")),
                    critical("POST_BACKUP", "ON_SUCCESS")>>,
      attempts |-> 1]}

AllJobs == MCJobs \cup StopStartJobs
=============================================================================
