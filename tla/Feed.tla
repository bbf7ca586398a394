--------------------------------- MODULE Feed ----------------------------------
(***************************************************************************)
(* The change feed of the server (connetto-server: session.rs, oplog.rs,   *)
(* epoch.rs, timeline.rs, slot.rs and the builder's change stream): what   *)
(* the slot carries, what the reconnect log holds, which cursor a device   *)
(* may resume from, and what the server settles before it opens the        *)
(* stream, over crashes of the server and failovers, restores and slots    *)
(* recreated under it.                                                     *)
(*                                                                         *)
(* The log, the last commit and the recorded cluster are tables of the     *)
(* database itself, so a restore rewinds them with the rows: `db` is the   *)
(* database and `copy` a backup of it, or its standby, as of some earlier  *)
(* moment.  A transaction has `Rows` changes, each inserting a row; a      *)
(* change is named by its cluster, its timeline and its position.          *)
(***************************************************************************)
EXTENDS Integers, FiniteSets, FiniteSetsExt

CONSTANTS
    Clients,      \* devices, each with one subscription to the whole table
    Rows,         \* changes of a transaction
    MaxEntries,   \* max_entries of the log
    MaxCommits,   \* bound: transactions
    MaxFaults,    \* bound: what the operator or the database does
    MaxDrops,     \* bound: crashes of the server, streams and connections lost
    MaxEvents,    \* bound: transactions and losses together
    Kinds         \* the faults of the deployment, of FaultKinds

\* A dump is restored into a fresh cluster whose write positions start above
\* those of the dump's log, or below.
FreshClusters == {"fresh_above", "fresh_below"}
Restores == {"point_in_time", "same_cluster"} \cup FreshClusters
FaultKinds == {"promote", "new_slot"} \cup Restores

ASSUME FeedAssumptions ==
    /\ Rows \in Nat \ {0} /\ MaxEntries \in Nat \ {0}
    /\ MaxCommits \in Nat /\ MaxFaults \in Nat /\ MaxDrops \in Nat /\ MaxEvents \in Nat
    /\ Kinds \subseteq FaultKinds

VARIABLES
    db, copy,                \* the database, and a standby or backup of it
    phase,                   \* where the feed's task is
    listening,               \* the boot has settled the cluster and the slot
    history,                 \* the timeline history last read, or NoHistory
    resume,                  \* ResumePoint, 0 when the slot's position decides
    check,                   \* StreamCheck, and the cluster compared
    at,                      \* the last item the open stream delivered
    to,                      \* the connections the change under way matched
    sess, judged, last,      \* connections: state, Resume, engine cursor
    told,                    \* connections with a fatal frame queued
    rows, cursor,            \* devices: what they hold, and their cursor
    skipped, strayed,        \* history: what catch-ups left devices without
    met,                     \* history: the kinds of faults that happened
    owed,                    \* a restore the boot has to revoke the logins for
    commits, faults, drops   \* used up so far

taskVars == <<listening, history, resume, check, at>>
serverVars == <<phase, taskVars, to>>
deviceVars == <<rows, cursor, skipped, strayed>>
clientVars == <<sess, judged, last, told, deviceVars>>
spent == <<met, commits, faults, drops>>
feedVars == <<db, copy, phase, listening, history, resume, check, at, to, sess, judged, last,
              told, rows, cursor, skipped, strayed, met, owed, commits, faults, drops>>

-------------------------------------------------------------------------------
(***************************************************************************)
(* Positions: a commit at write position l ends at l + 1; its changes and  *)
(* then the commit itself follow before_commit(l) in commit order.         *)
(***************************************************************************)
Position(lsn, k) == lsn * (Rows + 2) + k
before_commit(lsn) == Position(lsn, 0)
commit_position(lsn) == Position(lsn, Rows + 1)

NoHistory == [system |-> 0, timeline |-> 0, ended |-> {}]
NoCursor == [system |-> 0, timeline |-> 0, at |-> 0]
NoCheck == [system |-> 0, gap |-> 0, changed |-> FALSE]
Fresh == [kind |-> "Fresh", at |-> 0]
BeyondHistory == [kind |-> "BeyondHistory", at |-> 0]

\* read_history: the cluster, its timeline, and where the earlier ones ended.
read_history(d) == [system |-> d.system, timeline |-> d.timeline, ended |-> d.ended]

\* TimelineHistory::contains.
contains(h, c) ==
    /\ c.system = h.system
    /\ \/ c.timeline = h.timeline
       \/ \E e \in h.ended : e.timeline = c.timeline /\ c.at <= before_commit(e.end)

\* TimelineHistory::stamp.
stamp(h, p) == [system |-> h.system, timeline |-> h.timeline, at |-> p]

\* Resume::of.
resume_of(c, h) ==
    IF c.at = 0 THEN Fresh
    ELSE IF contains(h, c) THEN [kind |-> "At", at |-> c.at]
    ELSE BeyondHistory

-------------------------------------------------------------------------------
(***************************************************************************)
(* The reconnect log (PgOplog), a table of the database.                   *)
(***************************************************************************)
Logged(d) == {e.at : e \in d.log}

\* append: one entry per position, then the newest MaxEntries are kept.
append(d, change) ==
    LET log == IF change.at \in Logged(d) THEN d.log ELSE d.log \cup {change}
        kept == {e \in log : Cardinality({x \in log : x.at > e.at}) < MaxEntries}
    IN  [d EXCEPT !.log = kept]

record_start(d, end) == [d EXCEPT !.commit = IF d.commit < end - 1 THEN end - 1 ELSE d.commit]

record_commit(d, end) == [d EXCEPT !.commit = IF d.commit < end THEN end ELSE d.commit]
forget_nothing(d, through) == d
forget_through(d, through) == [d EXCEPT !.log = {e \in d.log : e.at > through}]
entries_since(d, p) == {e \in d.log : e.at > p}

trust_nonempty(d, p) == d.log # {}

\* catchup_decision: an empty log, and a cursor below its oldest entry, resync.
catchup_decision(d, p) == d.log # {} /\ \E e \in d.log : e.at <= p
current_position(d) == Max(Logged(d))

-------------------------------------------------------------------------------
(***************************************************************************)
(* The database, external: transactions, failovers, restores and slots.    *)
(***************************************************************************)
Provisioned ==
    [system |-> 1, timeline |-> 1, ended |-> {}, next |-> 1, wal |-> {}, rows |-> {},
     log |-> {}, commit |-> 0, epoch |-> 0, slot |-> 1]

Changes(d) == {[system |-> d.system, timeline |-> d.timeline, at |-> Position(d.next, k)] :
                  k \in 1..Rows}

commits_row ==
    /\ commits < MaxCommits /\ commits + drops < MaxEvents
    /\ commits' = commits + 1
    /\ db' = [db EXCEPT !.wal = @ \cup Changes(db), !.rows = @ \cup Changes(db),
                        !.next = @ + 1]
    /\ UNCHANGED <<copy, serverVars, clientVars, owed, met, faults, drops>>

\* What the standby has received, or a backup: bound, one before each fault,
\* after a first commit was recorded.
backup ==
    /\ copy = Provisioned /\ db.commit # 0 /\ faults < MaxFaults
    /\ copy' = db
    /\ UNCHANGED <<db, serverVars, clientVars, owed, spent>>

\* A recreated slot starts at the write position, past what creating it wrote.
Recreated(d) == [d EXCEPT !.next = @ + 1, !.slot = d.next + 1]

\* The standby took over, or a base backup was replayed to a point in time: a
\* new timeline of the same cluster that branches where the copy ends.
Branched == [copy EXCEPT !.timeline = db.timeline + 1,
                         !.ended = @ \cup {[timeline |-> copy.timeline, end |-> copy.next]}]

\* A failover slot: the standby's copy of it may be ahead of its copy of the
\* tables, never of what it received.
Promotions == {[Branched EXCEPT !.slot = l] :
                  l \in {n \in copy.slot..Max({copy.slot, db.slot}) : n <= copy.next}}

FreshAt(n) == [copy EXCEPT !.system = db.system + 1, !.timeline = 1, !.ended = {},
                           !.wal = {}, !.next = n]

Restored(kind) ==
    CASE kind = "promote" -> Promotions
      [] kind = "point_in_time" -> {Recreated(Branched)}
      [] kind = "same_cluster" ->
            {Recreated([db EXCEPT !.rows = copy.rows, !.log = copy.log,
                                  !.commit = copy.commit, !.epoch = copy.epoch])}
      [] kind = "fresh_above" -> {Recreated(FreshAt(copy.next))}
      [] kind = "fresh_below" -> {Recreated(FreshAt(n)) : n \in 1..copy.next - 1}
      [] OTHER -> {Recreated(db)}

\* The last commit the tables record lies ahead of the write position: they came
\* from another cluster.
Inherits(d) == d.commit > d.next

Settling == {"checked", "revoked", "settled", "forgot", "ready"}

\* The stream is lost with its database, and the task checks before the next
\* one.  Bound: not between those checks and the stream they open.
database_fault ==
    /\ faults < MaxFaults /\ phase \notin Settling /\ copy # Provisioned
    /\ faults' = faults + 1
    /\ \E kind \in Kinds : \E d \in Restored(kind) :
        /\ db' = d
        /\ met' = met \cup {kind}
        /\ owed' = \/ owed
                   \/ kind \in FreshClusters
                   \/ kind \in Restores /\ phase = "down" /\ ~Inherits(copy)
    /\ phase' = IF phase = "down" THEN "down" ELSE "closed"
    /\ at' = 0 /\ to' = {} /\ copy' = Provisioned
    /\ UNCHANGED <<listening, history, resume, check, clientVars, commits, drops>>

-------------------------------------------------------------------------------
(***************************************************************************)
(* Before the stream: check_before_stream, settle_epoch, reconcile_stream. *)
(***************************************************************************)
\* close_all: out of the registry, the fatal frame queued.
close_all == told' = {c \in Clients : sess[c] # "off"}

\* reconcile_history, then whether the slot resumes past the last commit recorded.
check_before_stream ==
    /\ phase = "closed"
    /\ phase' = "checked"
    /\ history' = read_history(db)
    /\ IF history \in {NoHistory, read_history(db)}
       THEN UNCHANGED <<resume, told>>
       ELSE resume' = 0 /\ close_all
    /\ check' = [system |-> db.system, changed |-> FALSE,
                 gap |-> IF db.commit # 0 /\ db.slot > db.commit THEN db.slot ELSE 0]
    /\ UNCHANGED <<db, copy, listening, at, to, sess, judged, last, deviceVars, owed, spent>>

revoke_for_cluster == db.epoch \notin {0, check.system}

\* revocation: another cluster at any time, a gap only at boot.
revocation == \/ db.epoch \notin {0, check.system}
              \/ check.gap # 0 /\ ~listening

\* settle_epoch, up to the revocation.
settle_epoch ==
    /\ phase = "checked"
    /\ phase' = "revoked"
    /\ check' = [check EXCEPT !.changed = db.epoch # check.system]
    /\ owed' = (owed /\ ~revocation)
    /\ UNCHANGED <<db, copy, listening, history, resume, at, to, clientVars, spent>>

\* epoch::record, only once the revocation held.
record_epoch ==
    /\ phase = "revoked"
    /\ phase' = "settled"
    /\ db' = IF check.changed THEN [db EXCEPT !.epoch = check.system] ELSE db
    /\ UNCHANGED <<copy, taskVars, to, clientVars, owed, spent>>

\* reconcile_stream: the log forgets the skipped stretch ...
reconcile_stream ==
    /\ phase = "settled"
    /\ IF check.gap = 0 \/ db.commit = 0 \/ check.gap <= db.commit
       THEN phase' = "ready" /\ UNCHANGED db
       ELSE phase' = "forgot" /\ db' = forget_through(db, before_commit(check.gap))
    /\ UNCHANGED <<copy, taskVars, to, clientVars, owed, spent>>

\* ... the boundary is recorded as the last commit, and every connection closes.
declare_gap ==
    /\ phase = "forgot"
    /\ phase' = "ready"
    /\ db' = record_commit(db, check.gap)
    /\ resume' = 0
    /\ close_all
    /\ UNCHANGED <<copy, listening, history, check, at, to, sess, judged, last, deviceVars, owed, spent>>

\* wire_manager ended the boot; change_stream begins with its own check.
listen ==
    /\ phase = "ready" /\ ~listening
    /\ listening' = TRUE
    /\ phase' = "closed" /\ check' = NoCheck
    /\ UNCHANGED <<db, copy, history, resume, at, to, clientVars, owed, spent>>

open_resumed ==
    /\ phase = "ready" /\ listening /\ resume # 0
    /\ phase' = "open"
    /\ at' = IF resume > before_commit(db.slot) THEN resume ELSE before_commit(db.slot)
    /\ check' = NoCheck
    /\ UNCHANGED <<db, copy, listening, history, resume, to, clientVars, owed, spent>>

\* PgStreamingCdcSource::connect: after the resume point, or where the slot is.
open ==
    /\ phase = "ready" /\ listening
    /\ phase' = "open"
    /\ at' = IF resume > before_commit(db.slot) THEN resume ELSE before_commit(db.slot)
    /\ check' = NoCheck
    /\ UNCHANGED <<db, copy, listening, history, resume, to, clientVars, owed, spent>>

-------------------------------------------------------------------------------
(***************************************************************************)
(* The open stream: ingest.                                                *)
(***************************************************************************)
Items == {e.at : e \in db.wal} \cup
         {commit_position(l) : l \in {n \in 1..db.next - 1 : \E e \in db.wal : e.at = Position(n, Rows)}}
IsNext(p) == p > at /\ p \in Items /\ \A q \in Items : q > at => p <= q

\* dispatch_with_grants: the change is matched with the connections subscribed now ...
dispatch ==
    /\ phase = "open" /\ \E e \in db.wal : IsNext(e.at)
    /\ phase' = "matched"
    /\ to' = {c \in Clients : sess[c] = "live"}
    /\ UNCHANGED <<db, copy, taskVars, clientVars, owed, spent>>

\* ... the log has it ...
append_record ==
    /\ phase = "matched"
    /\ phase' = "logged"
    /\ \E e \in db.wal : IsNext(e.at) /\ db' = append(db, e)
    /\ UNCHANGED <<copy, taskVars, to, clientVars, owed, spent>>

\* ... and fan_out_rows hands it to those: advance_cursor refuses a route already
\* at or past the change, and a frame queued behind a fatal one is never sent.
Reaches(c, e) == c \in to \ told /\ e.at > last[c]

fan_out ==
    /\ phase = "logged"
    /\ phase' = "open" /\ to' = {}
    /\ \E e \in db.wal :
        /\ IsNext(e.at)
        /\ resume' = e.at
        /\ at' = e.at
        /\ rows' = [c \in Clients |-> IF Reaches(c, e) THEN rows[c] \cup {e} ELSE rows[c]]
        /\ last' = [c \in Clients |-> IF Reaches(c, e) THEN e.at ELSE last[c]]
        /\ cursor' = [c \in Clients |->
                        IF Reaches(c, e) THEN stamp(history, e.at) ELSE cursor[c]]
    /\ UNCHANGED <<db, copy, listening, history, check, sess, judged, told, skipped, strayed,
                   owed, spent>>

\* A commit is recorded before it is acknowledged ...
ingest_commit ==
    /\ phase = "open"
    /\ phase' = "recorded"
    /\ \E l \in 1..db.next - 1 :
        IsNext(commit_position(l)) /\ db' = record_commit(db, l + 1)
    /\ UNCHANGED <<copy, taskVars, to, clientVars, owed, spent>>

\* ... which is what lets the slot move past it.
ack ==
    /\ phase = "recorded"
    /\ phase' = "open"
    /\ \E l \in 1..db.next - 1 :
        /\ IsNext(commit_position(l))
        /\ db' = [db EXCEPT !.slot = IF @ < l + 1 THEN l + 1 ELSE @]
        /\ resume' = commit_position(l)
        /\ at' = commit_position(l)
    /\ UNCHANGED <<copy, listening, history, check, to, clientVars, owed, spent>>

Streaming == {"open", "matched", "logged", "recorded"}

Losable == drops < MaxDrops /\ commits + drops < MaxEvents

\* A step failed or the stream broke: ingest_with_reconnect checks again, and a
\* boot that fails ends the process.
reconnect ==
    /\ Losable /\ phase \in Streaming \cup Settling
    /\ drops' = drops + 1
    /\ phase' = IF listening THEN "closed" ELSE "down"
    /\ history' = IF listening THEN history ELSE NoHistory
    /\ check' = NoCheck /\ at' = 0 /\ to' = {}
    /\ UNCHANGED <<db, copy, listening, resume, clientVars, owed, met, commits, faults>>

crash ==
    /\ Losable /\ phase # "down"
    /\ drops' = drops + 1
    /\ phase' = "down" /\ listening' = FALSE
    /\ history' = NoHistory /\ resume' = 0 /\ check' = NoCheck /\ at' = 0 /\ to' = {}
    /\ sess' = [c \in Clients |-> "off"] /\ judged' = [c \in Clients |-> Fresh]
    /\ last' = [c \in Clients |-> 0] /\ told' = {}
    /\ UNCHANGED <<db, copy, deviceVars, owed, met, commits, faults>>

boot ==
    /\ phase = "down"
    /\ phase' = "closed"
    /\ UNCHANGED <<db, copy, taskVars, to, clientVars, owed, spent>>

-------------------------------------------------------------------------------
(***************************************************************************)
(* Connections.                                                            *)
(***************************************************************************)
\* run_handshake: registered first, so the cursor is judged against the history
\* last read or the connection is closed by the next one.
run_handshake(c) ==
    /\ listening /\ sess[c] = "off"
    /\ sess' = [sess EXCEPT ![c] = "judged"]
    /\ judged' = [judged EXCEPT ![c] = resume_of(cursor[c], history)]
    /\ UNCHANGED <<db, copy, serverVars, last, told, deviceVars, owed, spent>>

\* The change a catch-up does not get: matched, so not coming, and not logged yet.
Unlogged ==
    {e \in db.wal : phase = "matched" /\ IsNext(e.at) /\ e.at \notin Logged(db)}

\* A cursor judged against a history that has been replaced since.
Outdated(c) == judged[c] # resume_of(cursor[c], history)

\* subscribe_row: catch_up_row from the log, or snapshot_row.  A connection with
\* a fatal frame queued still handles a Subscribe that arrived, and select! may
\* take it first.
subscribe_row(c) ==
    /\ sess[c] = "judged"
    /\ sess' = [sess EXCEPT ![c] = "live"]
    /\ judged' = [judged EXCEPT ![c] = Fresh]
    /\ IF judged[c].kind = "At" /\ catchup_decision(db, judged[c].at)
       THEN /\ rows' = [rows EXCEPT ![c] = @ \cup entries_since(db, judged[c].at)]
            /\ last' = [last EXCEPT ![c] = Max({0} \cup {e.at : e \in entries_since(db, judged[c].at)})]
            /\ cursor' = [cursor EXCEPT ![c] = stamp(history, current_position(db))]
            /\ skipped' = [skipped EXCEPT ![c] = @ \cup Unlogged]
            /\ strayed' = IF Outdated(c) THEN strayed \cup {c} ELSE strayed
       ELSE /\ rows' = [rows EXCEPT ![c] = db.rows]
            /\ last' = [last EXCEPT ![c] = 0]
            /\ cursor' = [cursor EXCEPT ![c] = stamp(history, before_commit(db.next))]
            /\ skipped' = [skipped EXCEPT ![c] = {}]
            /\ strayed' = strayed \ {c}
    /\ UNCHANGED <<db, copy, serverVars, told, owed, spent>>

\* The run loop meets the queued fatal frame, or the connection is lost.
closes(c) ==
    /\ sess[c] # "off" /\ (c \in told \/ Losable)
    /\ drops' = IF c \in told THEN drops ELSE drops + 1
    /\ sess' = [sess EXCEPT ![c] = "off"]
    /\ judged' = [judged EXCEPT ![c] = Fresh]
    /\ last' = [last EXCEPT ![c] = 0]
    /\ told' = told \ {c} /\ to' = to \ {c}
    /\ UNCHANGED <<db, copy, phase, taskVars, deviceVars, owed, met, commits, faults>>

FeedInit ==
    /\ db = Provisioned /\ copy = Provisioned
    /\ phase = "down" /\ listening = FALSE
    /\ history = NoHistory /\ resume = 0 /\ check = NoCheck /\ at = 0
    /\ sess = [c \in Clients |-> "off"] /\ judged = [c \in Clients |-> Fresh]
    /\ last = [c \in Clients |-> 0] /\ told = {} /\ to = {}
    /\ skipped = [c \in Clients |-> {}] /\ strayed = {}
    /\ rows = [c \in Clients |-> {}] /\ cursor = [c \in Clients |-> NoCursor]
    /\ owed = FALSE /\ met = {}
    /\ commits = 0 /\ faults = 0 /\ drops = 0

FeedNext ==
    \/ commits_row \/ backup \/ database_fault
    \/ boot \/ check_before_stream \/ settle_epoch \/ record_epoch
    \/ reconcile_stream \/ declare_gap \/ listen \/ open
    \/ dispatch \/ append_record \/ fan_out \/ ingest_commit \/ ack
    \/ reconnect \/ crash
    \/ \E c \in Clients : run_handshake(c) \/ subscribe_row(c) \/ closes(c)

\* The feed's task runs: it boots, settles, opens and reads the stream.
FeedSteps ==
    \/ boot \/ check_before_stream \/ settle_epoch \/ record_epoch
    \/ reconcile_stream \/ declare_gap \/ listen \/ open
    \/ dispatch \/ append_record \/ fan_out \/ ingest_commit \/ ack

FeedSpec == FeedInit /\ [][FeedNext]_feedVars /\ WF_feedVars(FeedSteps)

-------------------------------------------------------------------------------
Stamped == [system : Nat, timeline : Nat, at : Nat]

\* What a connection subscribed now still gets from the open stream: a change
\* under way only if it was matched.
Ahead == {e \in db.wal : e.at > at}
Coming(c) ==
    {e \in Ahead : /\ e.at > last[c]
                   /\ phase \in {"matched", "logged"} /\ IsNext(e.at) => c \in to}

\* The next handshake of the device will be caught up from the log.
Trusted(c) ==
    /\ resume_of(cursor[c], history).kind = "At"
    /\ catchup_decision(db, cursor[c].at)

Owed(c) == entries_since(db, cursor[c].at) \cup Ahead

Connected(c) == sess[c] = "live" /\ c \notin told

\* Once the stream is open, no change of the database is missing without a word
\* (reconcile_stream, reconcile_history): a connected device holds it or the
\* stream still carries it to that connection, and a device the log would catch
\* up holds it or finds it in the log or the stream.  Left out are the change a
\* catch-up met between its match and its append (`skipped`), a device caught up
\* on a connection that had been told to close (`strayed`), and a dump restored
\* into a cluster whose positions start below the dump's log.
NothingMissed ==
    phase \in Streaming /\ "fresh_below" \notin met => \A c \in Clients \ strayed :
        /\ Connected(c) => db.rows \subseteq rows[c] \cup Coming(c) \cup skipped[c]
        /\ Trusted(c) => db.rows \subseteq rows[c] \cup Owed(c) \cup skipped[c]

\* A device ahead of the database it finds resynchronises and holds no row the
\* database lost: connected, or with a cursor the log would catch up.  After a
\* restore of any kind and after a slot was recreated; left out are a standby that
\* took over, and a device caught up on a connection told to close.
RestoredRowsLeave ==
    phase \in Streaming /\ "promote" \notin met => \A c \in Clients \ strayed :
        Connected(c) \/ Trusted(c) => rows[c] \subseteq db.rows

\* After a restore into another cluster, and after any restore a boot meets,
\* every login session was revoked before the feed opened, whatever crashed
\* between the revocation, the record of the cluster and the trim (settle_epoch).
\* Left out is a backup of a fresh cluster that still writes below the commit it
\* inherited: its slot never looks skipped (stream_gap compares positions).
LoginsRevoked == phase \in Streaming => ~owed

\* A crash or a lost stream alone never looks like a skipped stretch, so nobody
\* is logged out or downloads everything again (ingest: recorded, then acked).
RestartsFindNoGap == faults = 0 => check.gap = 0

\* Every change reaches every device that stays connected, but for what
\* NothingMissed leaves out.
Delivered == \A c \in Clients :
    <>[](Connected(c) /\ c \notin strayed /\ "fresh_below" \notin met
            => db.rows \subseteq rows[c] \cup skipped[c])
===============================================================================
