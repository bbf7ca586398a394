------------------------------- MODULE ReadPath --------------------------------
(***************************************************************************)
(* Rows on their way from PostgreSQL to one replica: the change feed and   *)
(* its log, the row subscriptions of the client's connection (connetto-    *)
(* server), and the replica with its one resume cursor (connetto-client).  *)
(*                                                                         *)
(* A commit is an entry of `wal` and the version of a row is the entry     *)
(* that wrote it.  A commit waiting for a synchronous standby is flushed,  *)
(* so the feed carries it, but `hidden` from every snapshot; its row locks *)
(* are still held.  The subscriptions read one table and their windows do  *)
(* not overlap: `Covers[s]` is the set of keys subscription s wants.       *)
(*                                                                         *)
(* The deployments a run looks at are records of `Deployments`; one is     *)
(* chosen at the start and its fields bound what may happen.               *)
(***************************************************************************)
EXTENDS Integers, FiniteSets, Sequences, SequencesExt, FiniteSetsExt

CONSTANTS
    Keys,         \* primary keys, numbers, in page order
    Covers,       \* the keys of each subscription
    Deployments   \* bounds: what may happen in each deployment

Subs == DOMAIN Covers

DeploymentType ==
    [present : SUBSET Keys,       \* the rows the table starts with
     synced : BOOLEAN,            \* the replica starts in step with the table
     covered : BOOLEAN,           \* ... and its last connection ended covered
     declared : SUBSET Subs,      \* subscriptions the replica starts with
     later : SUBSET Subs,         \* ... and those it may declare later
     written : SUBSET Keys,       \* the rows transactions write
     ops : SUBSET {"ins", "upd", "del", "trunc"},
     commits : Nat,               \* bound: commits after the start
     lag : BOOLEAN,               \* a commit may wait for a standby
     page_rows : Nat \ {0},       \* rows of a page
     credits : Nat \ {0},         \* the credit window of the connection
     retain : Nat \ {0},          \* max_entries of the log
     durable : BOOLEAN,           \* PgOplog; otherwise InMemoryOplog
     redelivers : Nat,            \* bound: logged entries a restarted slot delivers again
     reached : BOOLEAN,           \* key_change_reaches every subscription
     overruns : BOOLEAN,          \* a writer answer may overrun its deadline
     drops : Nat,                 \* bound: connections lost, restarts of either side
     faults : Nat]                \* bound: page reads that fail

ASSUME ReadAssumptions ==
    /\ Keys \subseteq Nat /\ IsFiniteSet(Keys)
    /\ \A s \in Subs : s \in Nat /\ Covers[s] \subseteq Keys
    /\ \A s, t \in Subs : s # t => Covers[s] \cap Covers[t] = {}
    /\ Deployments \subseteq DeploymentType

VARIABLES
    dep,                     \* the deployment
    wal, hidden,             \* PostgreSQL
    fed, logged, pruned,     \* the feed's position and the log, entries pruned+1 .. logged
    turn,                    \* the dispatch under way and the subscriptions it matched
    overtaken,               \* history: entries a catch-up met in the middle of their dispatch
    sess,                    \* the session of the client's connection
    up, down,                \* frames in flight
    replica,                 \* the client
    drops, faults            \* used up so far

logVars == <<fed, logged, pruned>>
feedVars == <<fed, logged, pruned, turn, overtaken>>
dbVars == <<wal, hidden>>
spent == <<drops, faults>>
readVars == <<dep, dbVars, feedVars, sess, up, down, replica, spent>>

Positions == 1..Len(wal)
Absent == 0
NoCursor == [at |-> -1, upto |-> -1, missed |-> {}]

-------------------------------------------------------------------------------
(***************************************************************************)
(* The table.                                                              *)
(***************************************************************************)
Touches(i, k) == wal[i].op = "trunc" \/ wal[i].key = k

\* The version of row k once the entries S have happened.
Version(k, S) ==
    LET T == {i \in S : Touches(i, k)}
    IN  IF T = {} \/ wal[Max(T)].op \in {"del", "trunc"} THEN Absent ELSE Max(T)

Table == [k \in Keys |-> Version(k, Positions)]

Possible(op, k) ==
    CASE op = "ins" -> Table[k] = Absent
      [] op = "trunc" -> hidden = {} /\ k = Min(dep.written)
      [] OTHER -> Table[k] # Absent

Locked(k) == \E i \in hidden : wal[i].key = k

\* A transaction commits: its record is flushed, and visible at once or later.
commit ==
    /\ Len(wal) < Cardinality(dep.present) + dep.commits
    /\ \E k \in dep.written, op \in dep.ops, late \in {FALSE, dep.lag} :
        /\ Possible(op, k) /\ ~Locked(k) /\ (op = "trunc" => ~late)
        /\ wal' = Append(wal, [op |-> op, key |-> k])
        /\ hidden' = IF late THEN hidden \cup {Len(wal) + 1} ELSE hidden
    /\ UNCHANGED <<dep, feedVars, sess, up, down, replica, spent>>

\* The standby answered: the transaction leaves the running ones.
becomes_visible ==
    /\ \E i \in hidden : hidden' = hidden \ {i}
    /\ UNCHANGED <<dep, wal, feedVars, sess, up, down, replica, spent>>

\* A fence: what a snapshot taken now holds, and the flushed commits it misses.
Seen(fence, i) ==
    CASE i > fence.upto -> "Beyond"
      [] i \in fence.missed -> "Missed"
      [] OTHER -> "Held"

-------------------------------------------------------------------------------
(***************************************************************************)
(* Frames, credits and the session's record.                               *)
(***************************************************************************)
Rows(s, rows) == [t |-> "SnapshotPatch", sub |-> s, rows |-> rows, entry |-> 0, cursor |-> NoCursor]
Live(s, i, cur) == [t |-> "LivePatch", sub |-> s, rows |-> << >>, entry |-> i, cursor |-> cur]
End(s, cur) == [t |-> "SnapshotEnd", sub |-> s, rows |-> << >>, entry |-> 0, cursor |-> cur]
Control(t, s) == [t |-> t, sub |-> s, rows |-> << >>, entry |-> 0, cursor |-> NoCursor]
Plain(i) == [at |-> i, upto |-> -1, missed |-> {}]
Fenced(cur) == cur.upto # -1

Costs(frame) == frame.t \in {"SnapshotPatch", "LivePatch"}

\* flush: frames leave in order while credit lasts; only rows cost one.
Flushable(queue, credits) ==
    Max({n \in 0..Len(queue) :
            Cardinality({j \in 1..n : Costs(queue[j])}) <= credits})

flush(x) ==
    LET n == Flushable(x.pending, x.credits)
        spending == Cardinality({j \in 1..n : Costs(x.pending[j])})
    IN  [x EXCEPT !.sent = @ \o SubSeq(x.pending, 1, n),
                  !.pending = SubSeq(@, n + 1, Len(@)),
                  !.credits = @ - spending]

enqueue_and_flush(x, frames) == flush([x EXCEPT !.pending = @ \o frames])
send_control(x, frame) == [x EXCEPT !.sent = Append(@, frame)]

Idle == [pc |-> "idle", sub |-> 0, start |-> "none", reason |-> "none", read |-> 0]

\* `sent` is what the step under way has put on the wire.
Closed == [on |-> FALSE, resume |-> NoCursor, covered |-> FALSE, subs |-> {},
           last |-> [s \in Subs |-> 0], fence |-> [s \in Subs |-> NoCursor],
           missed |-> << >>, paging |-> << >>, pending |-> << >>, credits |-> 0,
           outbound |-> << >>, work |-> Idle, sent |-> << >>]

Opened(cur, covered) ==
    [Closed EXCEPT !.on = TRUE, !.resume = cur, !.covered = covered, !.credits = dep.credits]

Without(queue, s) == SelectSeq(queue, LAMBDA x : x.sub # s)

\* A step of the session: x is its state afterwards with what it sent.
Session(x) ==
    /\ sess' = [x EXCEPT !.sent = << >>]
    /\ down' = down \o x.sent

\* The session's task takes the next thing to do only between two handlers.
Free == sess.on /\ sess.work = Idle /\ sess.missed = << >>

-------------------------------------------------------------------------------
(***************************************************************************)
(* The feed.                                                               *)
(***************************************************************************)
Matches(i, s) == wal[i].op = "trunc" \/ wal[i].key \in Covers[s]

\* prune_locked: only the count bound; positions are dense, so it is a prefix.
Kept(newest) == Max({pruned, newest - dep.retain})

\* advance_cursor refuses a position the route is already at or past.
NonMonotonic(i, s) == i <= sess.last[s]

\* fan_out_rows for one route: what the session is handed for entry i.
Handed(i, s) ==
    IF wal[i].op = "trunc" THEN <<Control("Resnapshot", s)>>
    ELSE IF NonMonotonic(i, s) /\ ~(Fenced(sess.fence[s]) /\ Seen(sess.fence[s], i) = "Missed")
         THEN << >>
         ELSE <<Live(s, i, Plain(i))>>

Matched(S) == [pc |-> "matched", to |-> S]
Logged(S) == [pc |-> "logged", to |-> S]
NoTurn == [pc |-> "idle", to |-> {}]

\* Registered with the materializer: register_subscription comes before the route.
Registered == sess.subs \cup (IF sess.work = Idle THEN {} ELSE {sess.work.sub})

\* dispatch_with_grants, one entry at a time behind dispatch_gate, in three
\* steps.  The materializer matches the entry with the subscriptions registered now.
dispatch ==
    /\ turn = NoTurn /\ fed + 1 \in Positions
    /\ turn' = Matched({s \in Registered : Matches(fed + 1, s)})
    /\ UNCHANGED <<dep, dbVars, logVars, overtaken, sess, up, down, replica, spent>>

\* Then the log has it.
append ==
    /\ turn.pc = "matched"
    /\ turn' = Logged(turn.to)
    /\ logged' = Max({logged, fed + 1})
    /\ pruned' = Kept(logged')
    /\ UNCHANGED <<dep, dbVars, fed, overtaken, sess, up, down, replica, spent>>

\* Then the routes that exist now, of the subscriptions it matched, are handed it.
fan_out_rows ==
    LET i == fed + 1
        routes == turn.to \cap sess.subs
        ordered == SetToSortSeq(routes, LAMBDA a, b : a < b)
    IN  /\ turn.pc = "logged"
        /\ turn' = NoTurn
        /\ fed' = i
        /\ sess' = [sess EXCEPT
                !.outbound = @ \o FlattenSeq([j \in 1..Len(ordered) |-> Handed(i, ordered[j])]),
                !.last = [s \in Subs |-> IF s \in routes /\ wal[i].op # "trunc"
                                         THEN Max({@[s], i}) ELSE @[s]]]
        /\ UNCHANGED <<dep, dbVars, logged, pruned, overtaken, up, down, replica, spent>>

\* What a reader of the log for subscription s passes by: the entry matched before
\* s was registered and not yet appended, which the live path will not hand s.
Passed(s) ==
    IF turn.pc = "matched" /\ s \notin turn.to /\ fed + 1 > logged /\ Matches(fed + 1, s)
    THEN {fed + 1} ELSE {}

-------------------------------------------------------------------------------
(***************************************************************************)
(* Subscribing: catch up from the log, or read a snapshot.                 *)
(***************************************************************************)
catchup_decision(at) == pruned < logged /\ at > pruned

Work(pc, s, start, reason) ==
    [pc |-> pc, sub |-> s, start |-> start, reason |-> reason, read |-> 0]

\* subscribe_row, up to the choice.
subscribe_row(s) ==
    LET cur == sess.resume IN
    IF cur = NoCursor THEN Work("snapshot", s, "subscribe", "none")
    ELSE IF dep.reached /\ ~sess.covered
         THEN Work("snapshot", s, "subscribe", "AuthorizationChange")
    ELSE IF catchup_decision(cur.at) THEN Work("catch_up", s, "subscribe", "none")
    ELSE Work("snapshot", s, "subscribe", "CursorOutsideRetention")

handle_subscribe ==
    /\ Free /\ up # << >> /\ Head(up).t = "Subscribe"
    /\ up' = Tail(up)
    /\ sess' = [sess EXCEPT !.work = subscribe_row(Head(up).sub)]
    /\ UNCHANGED <<dep, dbVars, feedVars, down, replica, spent>>

\* attach_row_route: from here on the feed hands entries to this route.
attach_row_route(x, s, fence) == [x EXCEPT !.subs = @ \cup {s}, !.fence[s] = fence]

\* snapshot_row, up to the position its first page reads before its transaction.
snapshot_row ==
    /\ sess.on /\ sess.work.pc = "snapshot"
    /\ LET s == sess.work.sub
            x == attach_row_route(sess, s, NoCursor)
       IN  sess' = [x EXCEPT !.paging = Without(@, s), !.missed = Without(@, s),
                             !.work.pc = "page", !.work.read = Len(wal)]
    /\ UNCHANGED <<dep, dbVars, feedVars, up, down, replica, spent>>

\* snapshot_page: the visible rows of the window past key `after`, one page of them.
PageKeys(s, after) ==
    LET left == {k \in Covers[s] : k > after /\ Version(k, Positions \ hidden) # Absent}
    IN  {k \in left : Cardinality({j \in left : j < k}) < dep.page_rows}

Filled(s, after) ==
    Cardinality({k \in Covers[s] : k > after /\ Version(k, Positions \ hidden) # Absent})
        > dep.page_rows

Page(s, after) == [k \in PageKeys(s, after) |-> Version(k, Positions \ hidden)]

\* The rest of a read: more pages wait for acknowledgements, or it ends.
page_sent(x, s, after, cur, restarted) ==
    LET y == enqueue_and_flush(x, <<Rows(s, Page(s, after))>>) IN
    IF Filled(s, after)
    THEN [y EXCEPT !.paging = Append(@, [sub |-> s, after |-> Max(PageKeys(s, after)),
                                         cursor |-> cur, restarted |-> restarted])]
    ELSE enqueue_and_flush(y, <<End(s, cur)>>)

unfenced_cursor(read) == Plain(read)

\* snapshot_cursor: the position read before the transaction, fenced by its snapshot.
snapshot_cursor(read) == [at |-> read, upto |-> Len(wal), missed |-> hidden]

\* The rest of snapshot_row: the first page, its fence and what the fence missed.
first_page ==
    /\ sess.on /\ sess.work.pc = "page"
    /\ LET w == sess.work
            cur == snapshot_cursor(w.read)
            told == IF w.reason = "none" THEN sess
                    ELSE send_control(sess, Control(w.reason, w.sub))
            begun == send_control(told, Control("SnapshotBegin", w.sub))
            read == page_sent(begun, w.sub, 0, cur, w.start = "restart")
       IN  Session([read EXCEPT !.missed = Append(@, [sub |-> w.sub, cursor |-> cur]),
                                !.work = Idle])
    /\ UNCHANGED <<dep, dbVars, feedVars, up, replica, spent>>

\* refuse_subscription and the refusal of a first read: the route goes.
refuse_subscription(x, s) == [x EXCEPT !.subs = @ \ {s}, !.paging = Without(@, s)]

\* A first page that fails: a subscribe is refused, a replacement tries again
\* unless the read timed out, a restarted read is refused.
first_page_fails ==
    /\ sess.on /\ sess.work.pc = "page" /\ faults < dep.faults
    /\ faults' = faults + 1
    /\ \/ /\ sess.work.start = "resnapshot"
          /\ sess' = [sess EXCEPT !.work.pc = "snapshot"]
       \/ sess' = [refuse_subscription(sess, sess.work.sub) EXCEPT !.work = Idle]
    /\ UNCHANGED <<dep, dbVars, feedVars, up, down, replica, drops>>

Log == (pruned + 1)..logged
Ascending(S) == SetToSortSeq(S, LAMBDA a, b : a < b)

\* replay_payload: logged entries as live patches, each under the cursor given for it.
Patches(s, cursors) ==
    LET q == Ascending(DOMAIN cursors)
    IN  [j \in 1..Len(q) |-> Live(s, q[j], cursors[q[j]])]

missed_none(fence, s) == {}

\* replay_missed: before the next frame, the logged entries the snapshot did
\* not see, under the snapshot's own cursor.
MissedBy(fence, s) == {i \in Log : Seen(fence, i) = "Missed" /\ Matches(i, s)}

Replays(queue) ==
    FlattenSeq([j \in 1..Len(queue) |->
        IF queue[j].sub \in sess.subs
        THEN Patches(queue[j].sub,
                     [i \in MissedBy(queue[j].cursor, queue[j].sub) |-> queue[j].cursor])
        ELSE << >>])

replay_missed ==
    /\ sess.on /\ sess.work = Idle /\ sess.missed # << >>
    /\ Session([enqueue_and_flush(sess, Replays(sess.missed)) EXCEPT !.missed = << >>])
    /\ overtaken' = overtaken \cup
            {i \in Positions : \E j \in 1..Len(sess.missed) :
                /\ i \in Passed(sess.missed[j].sub)
                /\ Seen(sess.missed[j].cursor, i) = "Missed"}
    /\ UNCHANGED <<dep, dbVars, logVars, turn, up, replica, spent>>

\* catch_up_row: the route with the cursor's fence, then the log's watermark,
\* then the entries the replica is owed up to it.
catch_up_row ==
    /\ sess.on /\ sess.work.pc = "catch_up"
    /\ sess' = [attach_row_route(sess, sess.work.sub, sess.resume) EXCEPT !.work.pc = "ceiling"]
    /\ UNCHANGED <<dep, dbVars, feedVars, up, down, replica, spent>>

ceiling ==
    /\ sess.on /\ sess.work.pc = "ceiling"
    /\ sess' = [sess EXCEPT !.work.pc = "replay", !.work.read = logged]
    /\ overtaken' = overtaken \cup Passed(sess.work.sub)
    /\ UNCHANGED <<dep, dbVars, logVars, turn, up, down, replica, spent>>

catchup_entries(cur) ==
    {i \in Log : \/ i <= cur.at /\ Fenced(cur) /\ Seen(cur, i) = "Missed"
                 \/ i > cur.at /\ (Fenced(cur) => Seen(cur, i) # "Held")}

resnapshot_row(x, s, reason) ==
    [x EXCEPT !.pending = Without(@, s), !.paging = Without(@, s),
              !.work = IF s \in x.subs THEN Work("snapshot", s, "resnapshot", reason) ELSE Idle]

\* Replayed entries the live path has yet to reach, with an older live patch
\* already queued behind the replay: fan_out_rows will refuse them as served.
Undone(s, sent) ==
    {i \in sent : i > fed /\ \E j \in 1..Len(sess.outbound) :
        sess.outbound[j].sub = s /\ sess.outbound[j].t = "LivePatch" /\ sess.outbound[j].entry < i}

replay_entries ==
    /\ sess.on /\ sess.work.pc = "replay"
    /\ LET s == sess.work.sub
            entries == {i \in catchup_entries(sess.resume) : i <= sess.work.read /\ Matches(i, s)}
            truncates == {i \in entries : wal[i].op = "trunc"}
            sent == IF truncates = {} THEN entries ELSE {i \in entries : i < Min(truncates)}
            x == [sess EXCEPT !.last[s] = Max({@} \cup sent), !.work = Idle]
            y == enqueue_and_flush(x, Patches(s, [i \in sent |-> Plain(i)]))
       IN  Session(IF ~catchup_decision(sess.resume.at)
                   THEN resnapshot_row(sess, s, "CursorOutsideRetention")
                   ELSE IF truncates # {} THEN resnapshot_row(y, s, "TableTruncated")
                   ELSE enqueue_and_flush(y, <<End(s, Plain(sess.work.read))>>))
           /\ overtaken' = overtaken \cup Undone(s, sent)
    /\ UNCHANGED <<dep, dbVars, logVars, turn, up, replica, spent>>

-------------------------------------------------------------------------------
(***************************************************************************)
(* The rest of the session's loop.                                         *)
(***************************************************************************)
handle_outbound ==
    /\ Free /\ sess.outbound # << >>
    /\ LET next == Head(sess.outbound)
            x == [sess EXCEPT !.outbound = Tail(@)]
       IN  Session(IF next.t = "LivePatch" THEN enqueue_and_flush(x, <<next>>)
                   ELSE resnapshot_row(x, next.sub, "TableTruncated"))
    /\ UNCHANGED <<dep, dbVars, feedVars, up, replica, spent>>

Acknowledged == flush([sess EXCEPT !.credits = @ + 1])
Pumpable(x) == x.credits > 0 /\ x.pending = << >> /\ x.paging # << >>

pump_on_subscribe_only(x) == x

\* pump_page: one more page, under the first page's cursor.
pump_page(x) ==
    IF Pumpable(x)
    THEN LET r == Head(x.paging)
         IN  page_sent([x EXCEPT !.paging = Tail(@)], r.sub, r.after, r.cursor, r.restarted)
    ELSE x

ack_credits ==
    /\ Free /\ up # << >> /\ Head(up).t = "AckCredits"
    /\ up' = Tail(up)
    /\ Session(pump_page(Acknowledged))
    /\ UNCHANGED <<dep, dbVars, feedVars, replica, spent>>

\* restart_or_refuse: a later page fails, and the read starts over once; one
\* with a row above the ceiling is refused.
page_fails ==
    /\ Free /\ up # << >> /\ Head(up).t = "AckCredits"
    /\ Pumpable(Acknowledged) /\ faults < dep.faults
    /\ faults' = faults + 1
    /\ up' = Tail(up)
    /\ LET r == Head(Acknowledged.paging)
            x == [Acknowledged EXCEPT !.paging = Tail(@)]
       IN  \/ Session(refuse_subscription(x, r.sub))
           \/ /\ ~r.restarted
              /\ Session([x EXCEPT !.work = Work("snapshot", r.sub, "restart",
                                                 "SnapshotInterrupted")])
    /\ UNCHANGED <<dep, dbVars, feedVars, replica, drops>>

-------------------------------------------------------------------------------
(***************************************************************************)
(* The client.  `rows`, `cursor`, `covered` and `declared` are durable.    *)
(***************************************************************************)
\* server_wins: an insert replaces, an update or delete of a missing row is omitted.
Applied(rows, i) ==
    [k \in Keys |->
        IF wal[i].key # k THEN rows[k]
        ELSE CASE wal[i].op = "ins" -> i
               [] wal[i].op = "upd" -> IF rows[k] = Absent THEN Absent ELSE i
               [] OTHER -> Absent]

publish_coverage(r) ==
    IF r.open = {} /\ r.resyncing = {} /\ r.cursor # NoCursor
    THEN [r EXCEPT !.covered = TRUE, !.cleared = IF r.covered THEN @ ELSE "none"] ELSE r

\* delete_uncovered: everything no other live subscription covers, or everything.
Uncovered(r, s) ==
    [k \in Keys |-> IF \E o \in r.declared \ {s} : k \in Covers[o] THEN r.rows[k] ELSE Absent]
Emptied == [k \in Keys |-> Absent]

\* clear_subscription_rows; `cleared` is the authorization batch of this attach.
clear_subscription_rows(r, s, reason) ==
    CASE reason = "TableTruncated" -> [r EXCEPT !.rows = Emptied]
      [] reason = "AuthorizationChange" /\ r.cleared = "open" ->
            [r EXCEPT !.rows = Emptied, !.cleared = "done"]
      [] reason = "AuthorizationChange" /\ r.cleared = "done" -> r
      [] OTHER -> [r EXCEPT !.rows = Uncovered(r, s)]

full_resync(r, s, reason) ==
    LET kept == IF reason = "AuthorizationChange" THEN [r EXCEPT !.covered = FALSE] ELSE r
    IN  [clear_subscription_rows(kept, s, reason) EXCEPT !.resyncing = @ \cup {s}]

snapshot_end(r, f) ==
    publish_coverage([r EXCEPT !.cursor = f.cursor, !.open = @ \ {f.sub},
                               !.resyncing = @ \ {f.sub}])

\* handle_frame and handle_control.
After(r, f) ==
    CASE f.t = "SnapshotPatch" ->
            [r EXCEPT !.rows = [k \in Keys |-> IF k \in DOMAIN f.rows THEN f.rows[k] ELSE @[k]]]
      [] f.t = "LivePatch" -> [r EXCEPT !.rows = Applied(@, f.entry), !.cursor = f.cursor]
      [] f.t = "SnapshotBegin" -> [r EXCEPT !.open = @ \cup {f.sub}]
      [] f.t = "SnapshotEnd" -> snapshot_end(r, f)
      [] OTHER -> full_resync(r, f.sub, f.t)

handle_frame ==
    /\ down # << >>
    /\ replica' = After(replica, Head(down))
    /\ down' = Tail(down)
    /\ up' = IF Costs(Head(down)) THEN Append(up, Control("AckCredits", 0)) ELSE up
    /\ UNCHANGED <<dep, dbVars, feedVars, sess, spent>>

\* send_subscribe: coverage is unknown until the delivery it opens has ended.
Subscribing(r, S) == [r EXCEPT !.covered = IF S = {} THEN @ ELSE FALSE, !.open = @ \cup S]
Subscribes(S) == LET q == Ascending(S) IN [j \in 1..Len(q) |-> Control("Subscribe", q[j])]

\* attach: the handshake presents the cursor and its coverage, then every
\* declared subscription is sent again.
attach ==
    /\ ~sess.on
    /\ sess' = Opened(replica.cursor, replica.covered)
    /\ up' = Subscribes(replica.declared)
    /\ replica' = Subscribing([replica EXCEPT !.cleared = "open"], replica.declared)
    /\ UNCHANGED <<dep, dbVars, feedVars, down, spent>>

\* subscribe_spec_with_grace: remembered, and sent when there is a wire.
subscribe ==
    /\ \E s \in dep.later \ replica.declared :
        LET r == [replica EXCEPT !.declared = @ \cup {s}]
        IN  IF sess.on
            THEN replica' = Subscribing(r, {s}) /\ up' = up \o Subscribes({s})
            ELSE replica' = r /\ up' = up
    /\ UNCHANGED <<dep, dbVars, feedVars, sess, down, spent>>

\* disconnected, on the client, and the end of the session: nothing in flight
\* survives.  A process that dies also forgets which clears are unfinished.
Offline(r, died) ==
    [r EXCEPT !.open = {}, !.cleared = "none", !.resyncing = IF died THEN {} ELSE @]

Cut == sess' = Closed /\ up' = << >> /\ down' = << >>

\* The next connection's subscriptions are other consumers: a dispatch under
\* way has matched none of them.
Unmatched == turn' = [turn EXCEPT !.to = {}]

disconnected ==
    /\ sess.on /\ drops < dep.drops
    /\ drops' = drops + 1
    /\ Cut /\ Unmatched
    /\ \E died \in BOOLEAN : replica' = Offline(replica, died)
    /\ UNCHANGED <<dep, dbVars, logVars, overtaken, faults>>

\* check_writer_deadlines drops the connection inside the pump, whose next call
\* (step_share_keys) publishes the coverage.
writer_answer_overran ==
    /\ sess.on /\ dep.overruns /\ drops < dep.drops
    /\ drops' = drops + 1
    /\ Cut /\ Unmatched
    /\ replica' = publish_coverage(Offline(replica, FALSE))
    /\ UNCHANGED <<dep, dbVars, logVars, overtaken, faults>>

\* The server restarts: the slot delivers again from what was confirmed, into
\* a log that was kept or is empty again.
server_restarts ==
    /\ drops < dep.drops
    /\ drops' = drops + 1
    /\ Cut /\ turn' = NoTurn
    /\ replica' = Offline(replica, FALSE)
    /\ \E confirmed \in Cardinality(dep.present)..fed :
        /\ fed' = confirmed /\ logged - confirmed <= dep.redelivers
        /\ logged' = IF dep.durable THEN logged ELSE fed'
        /\ pruned' = IF dep.durable THEN pruned ELSE fed'
    /\ UNCHANGED <<dep, dbVars, overtaken, faults>>

-------------------------------------------------------------------------------
ReadInit ==
    /\ dep \in Deployments
    /\ wal = [i \in 1..Cardinality(dep.present) |->
                [op |-> "ins", key |-> Ascending(dep.present)[i]]]
    /\ hidden = {}
    /\ fed = Cardinality(dep.present) /\ logged = fed
    /\ pruned = IF dep.synced THEN fed - 1 ELSE fed
    /\ turn = NoTurn /\ overtaken = {}
    /\ sess = Closed /\ up = << >> /\ down = << >>
    /\ replica = [rows |-> IF dep.synced THEN Table ELSE Emptied,
                  cursor |-> IF dep.synced THEN Plain(fed) ELSE NoCursor,
                  covered |-> dep.covered, declared |-> dep.declared,
                  open |-> {}, resyncing |-> {}, cleared |-> "none"]
    /\ drops = 0 /\ faults = 0

Serve ==
    \/ handle_subscribe \/ snapshot_row \/ first_page \/ first_page_fails
    \/ replay_missed \/ catch_up_row \/ ceiling \/ replay_entries
    \/ handle_outbound \/ ack_credits \/ page_fails

ReadNext ==
    \/ commit \/ becomes_visible \/ dispatch \/ append \/ fan_out_rows \/ Serve
    \/ attach \/ subscribe \/ handle_frame
    \/ disconnected \/ writer_answer_overran \/ server_restarts

ReadSpec == ReadInit /\ [][ReadNext]_readVars

-------------------------------------------------------------------------------
\* Nothing is left to do for the rows: the feed is read to its end and no frame,
\* queue or handler holds anything.
Settled ==
    /\ hidden = {} /\ fed = Len(wal) /\ turn = NoTurn
    /\ sess.on /\ sess.work = Idle /\ sess.subs = replica.declared
    /\ <<sess.missed, sess.paging, sess.pending, sess.outbound, up, down>>
         = << << >>, << >>, << >>, << >>, << >>, << >> >>

\* The keys of the subscriptions S that none of the entries E touches.
Window(S, E) == {k \in UNION {Covers[s] : s \in S} : \A i \in E : ~Touches(i, k)}

\* Once everything committed has been fed and delivered, the replica holds
\* exactly the rows of the table its subscriptions cover, whatever snapshots,
\* pages, catch-ups, resyncs, restarts and drops of the deployment led there.
\* Left out are the rows of an entry that a catch-up met in the middle of its
\* dispatch: matched before the subscription was registered and appended after
\* the log was read, which nothing delivers (Passed), or replayed ahead of an older
\* live patch, which undoes it, and then refused by advance_cursor (Undone).
Converged ==
    Settled => \A k \in Window(replica.declared, overtaken) : replica.rows[k] = Table[k]

\* The entries a resume from the replica's cursor still delivers.
Owed ==
    LET cur == replica.cursor
    IN  {i \in Positions : \/ i <= cur.at /\ Seen(cur, i) = "Missed"
                           \/ i > cur.at /\ (Fenced(cur) => Seen(cur, i) # "Held")}

Resumed == FoldLeft(Applied, replica.rows, Ascending(Owed))

\* The next attach will be caught up from the cursor instead of replaced.
Trusted ==
    /\ replica.cursor # NoCursor
    /\ dep.reached => replica.covered
    /\ catchup_decision(replica.cursor.at)
    /\ \A i \in Owed : wal[i].op # "trunc"

\* A resume position is never recorded for data the replica has not applied
\* (persist_cursor_and_subjects): at every moment, what the replica holds and
\* what a resume from its cursor would deliver make up the table, but for the
\* rows Converged leaves out.
ResumePositionKept ==
    Trusted => \A k \in Window(replica.declared, overtaken) : Resumed[k] = Table[k]

\* The same for a replica with one subscription that is read in one page, so
\* that neither another subscription's frames nor a patch between two pages
\* moves its cursor.
OnePageResumes ==
    Cardinality(replica.declared) = 1 /\ Cardinality(Window(replica.declared, {})) <= dep.page_rows
        => ResumePositionKept

\* Credits never strand a read: a frame or a page waits only while the client
\* still has an acknowledgement to send (flush, pump_page).
NothingStranded ==
    sess.on /\ (sess.pending # << >> \/ sess.paging # << >>)
        => \/ \E j \in 1..Len(up) : up[j].t = "AckCredits"
           \/ \E j \in 1..Len(down) : Costs(down[j])

===============================================================================
