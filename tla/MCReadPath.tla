------------------------------ MODULE MCReadPath -------------------------------
(***************************************************************************)
(* The deployments ReadPath is checked in: subscription 1 wants two rows,  *)
(* subscription 2 a third.                                                 *)
(***************************************************************************)
EXTENDS ReadPath

MCKeys == 1..3
MCCovers == <<{1, 2}, {3}>>

Plainly == [present |-> {1, 2}, synced |-> FALSE, covered |-> FALSE, declared |-> {1}, later |-> {},
            written |-> {1, 2}, ops |-> {"ins", "upd", "del"}, commits |-> 2, lag |-> FALSE,
            page_rows |-> 2, credits |-> 2, retain |-> 4, durable |-> TRUE, redelivers |-> 1,
            reached |-> TRUE, overruns |-> FALSE, drops |-> 0, faults |-> 0]

\* Reads in pages, replaced when a page fails.
Paged == [Plainly EXCEPT !.page_rows = 1, !.credits = 1, !.faults = 2,
                         !.ops = {"ins", "upd", "del", "trunc"}]
\* Commits that wait for a standby, on a log that keeps everything.
Lagging == [Plainly EXCEPT !.lag = TRUE, !.synced = TRUE, !.covered = TRUE, !.drops = 2,
                           !.overruns = TRUE, !.written = {1}]
\* The same from a replica whose last delivery was cut, so that it is read anew.
Replaced == [Lagging EXCEPT !.covered = FALSE, !.commits = 3, !.drops = 1]
\* A restarted slot delivers entries again that the durable log served already.
Restarting == [Lagging EXCEPT !.lag = FALSE, !.commits = 3, !.drops = 1, !.redelivers = 2]
\* A log that keeps one entry and is lost with the server.
Forgetful == [Plainly EXCEPT !.synced = TRUE, !.covered = TRUE, !.retain = 1, !.durable = FALSE,
                             !.drops = 2, !.credits = 1, !.written = {1},
                             !.ops = {"upd", "del", "trunc"}]
\* Two subscriptions, the second declared at any time.
Double == [Plainly EXCEPT !.present = {1, 3}, !.written = {1, 3}, !.later = {2},
                          !.ops = {"upd", "trunc"}, !.credits = 1]

MCDeployments == {Paged, Lagging, Replaced, Restarting, Forgetful, Double}

===============================================================================
