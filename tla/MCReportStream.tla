--------------------------- MODULE MCReportStream ---------------------------
(* ReportStream on a task that yields once before it completes or is        *)
(* cancelled, and on a task of an earlier process.  The backend asks about  *)
(* each of them once, and there is an answer of every kind it may get.      *)
EXTENDS ReportStream, TLC

CONSTANTS yield1, completed1, cancelled1, still1, critical1, critical2,
          task1, task2

MCReports == {yield1, completed1, cancelled1, still1, critical1, critical2}
MCTerminals == {completed1, cancelled1, critical1, critical2}
MCAnswers == {still1, critical1, critical2}
MCTaskOf == [r \in MCReports |-> IF r = critical2 THEN task2 ELSE task1]
MCInquiries == {<<>>, <<task1>>, <<task2>>, <<task2, task1>>}

=============================================================================
