-------------------------------- MODULE Relay ---------------------------------
(***************************************************************************)
(* The browser relay (connetto-web/src/relay.rs).  One worker holds the    *)
(* durable replica and the upstream connection; every page of the browser  *)
(* runs an ordinary client over an in-memory mirror and speaks the wire    *)
(* protocol to the hub inside that worker.  A page's write is applied to   *)
(* the worker's replica, pushed upstream as the worker's own, and the      *)
(* server's verdict is mapped back to the page; a write of the device-     *)
(* private tier ends at the hub.                                           *)
(*                                                                         *)
(* A row is its key, present or absent.  A page's frames reach the hub in  *)
(* order, and the hub serves one event at a time; the only thing that can  *)
(* come between the two commits of one synced mutation is the worker's     *)
(* death.  A page loses its wire when the worker dies and is replaced.     *)
(* Upstream, the writer protocol is MutationPath's and the row feed is     *)
(* ReadPath's: here a pushed write is settled once, in order, and a        *)
(* resumed link either continues the feed or resynchronises.               *)
(*                                                                         *)
(* What may happen is a record of `Scenarios`, one chosen at the start.    *)
(***************************************************************************)
EXTENDS Integers, FiniteSets, Sequences, FiniteSetsExt

CONSTANTS
    Pages,      \* pages attached to the relay, a tab and a client id each
    Main,       \* row keys of the synced table
    Local,      \* row keys of the device-private table
    Scenarios   \* bounds: what may happen

Keys == Main \cup Local
Subs == {"main", "local"}     \* a subscription of each table
RowsOf(sub) == IF sub = "main" THEN Main ELSE Local

Changes == [op : {"ins", "del"}, keys : SUBSET Keys \ {{}}]

ScenarioType ==
    [present : SUBSET Keys,                  \* the rows at the start
     pages : SUBSET Pages,                   \* the pages there are
     started : SUBSET Pages,                 \* the ones that have subscribed by then
     window : Nat \ {0},                     \* INITIAL_CREDITS
     may : [Pages -> SUBSET Changes],        \* what a page may write
     each : Nat,                             \* bound: writes of one page
     foreign : SUBSET Changes,               \* what other devices commit
     commits : Nat,                          \* bound: their commits
     refusals : Nat,                         \* bound: writes the server's policy refuses
     outages : Nat,                          \* bound: upstream links lost
     stale : SUBSET {"retention", "history"},    \* why a resumed link may have to resync
     drops : Nat,                            \* bound: tabs reaped while their page lives
     deaths : Nat]                           \* bound: workers replaced

ASSUME RelayAssumptions ==
    /\ Main \cap Local = {} /\ IsFiniteSet(Keys)
    /\ Scenarios \subseteq ScenarioType

VARIABLES
    scn,                             \* the scenario
    db, log, verdicts,               \* the server: rows, commits, settled writes
    link, pos, resyncing, replica, pushed, heard,    \* the worker's connection
    tier, applied_watermark, local_watermark,        \* durable in the worker
    tab, seq_map, pushing,           \* the hub's memory
    wire, up, down,                  \* the pages' wires
    mirror, queue, mending, history_cleared, told,    \* the pages' clients
    left,                            \* what is left of the bounds
    landed, reopened, strayed        \* history

serverVars == <<db, log, verdicts>>
linkVars == <<link, pos, resyncing>>
workerVars == <<linkVars, replica, pushed, heard>>
durableVars == <<tier, applied_watermark, local_watermark>>
hubVars == <<tab, seq_map, pushing>>
wireVars == <<wire, up, down>>
pageVars == <<mirror, queue, mending, history_cleared, told>>
history == <<landed, reopened, strayed>>
relayVars == <<scn, serverVars, workerVars, durableVars, hubVars, wireVars, pageVars,
               left, history>>

-------------------------------------------------------------------------------
(***************************************************************************)
(* Changesets.                                                             *)
(***************************************************************************)
\* The change applies as written: no row in the way, no row missing.
fits(rows, c) == IF c.op = "ins" THEN c.keys \cap rows = {} ELSE c.keys \subseteq rows

\* apply_patchset under server_wins: an insert replaces, a missing row is passed over.
do(rows, c) == IF c.op = "ins" THEN rows \cup c.keys ELSE rows \ c.keys

\* The rows a server patch has written.
patched == UNION {log[i].keys : i \in {j \in 1..pos : log[j].op = "ins"}}

\* The inverse under rollback_omit, its outcomes: a row that a server patch has
\* given other values meanwhile stays.
undo(rows, c) ==
    IF c.op = "del" THEN {rows \cup c.keys}
    ELSE {rows \ (c.keys \ changed) : changed \in SUBSET (c.keys \cap patched)}

\* reapply_pending: the queued writes go back on in order, the last one to
\* touch a row deciding it.
reapplied(rows, entries) ==
    LET touching(k) == {i \in DOMAIN entries : k \in entries[i].change.keys}
    IN  {k \in Keys : IF touching(k) = {} THEN k \in rows
                      ELSE entries[Max(touching(k))].change.op = "ins"}

on_tier(c) == c.keys \subseteq Local
spans(c) == ~on_tier(c) /\ c.keys \cap Local # {}

\* MAX(last_seq, excluded.last_seq)
higher(a, b) == IF a < b THEN b ELSE a

\* The worker's own writes the server has not answered, _connetto_pending.
pending == SubSeq(pushed, heard + 1, Len(pushed))

-------------------------------------------------------------------------------
(***************************************************************************)
(* The tab's outbound queue and its credit window.                         *)
(***************************************************************************)
NoTab == [stage |-> "gone", subs |-> {}, pending |-> << >>, credits |-> 0, applied |-> 0,
          local |-> 0]

fresh_tab == [NoTab EXCEPT !.stage = "attached", !.credits = scn.window]
subscribed_tab == [fresh_tab EXCEPT !.stage = "handshaken", !.subs = Subs]

Live(c) == [t |-> "live", change |-> c]
Resync(sub, reason) == [t |-> "resync", sub |-> sub, reason |-> reason]
Subscribe(sub) == [t |-> "subscribe", sub |-> sub]
Rows(sub, keys) == [t |-> "rows", sub |-> sub, keys |-> keys]
End(sub) == [t |-> "end", sub |-> sub]

\* Mutant: the end of a snapshot is charged as well.
end_costs(item) == item.t \in {"live", "rows", "end"}
costs_credit(item) == item.t \in {"live", "rows"}
charge(items) == Len(SelectSeq(items, costs_credit))

\* enqueue_tab_frame, then flush_tab_bulk: as far as the credits reach.
affordable(t, items) ==
    LET q == t.pending \o items
    IN  Max({n \in 0..Len(q) : charge(SubSeq(q, 1, n)) <= t.credits})
flushes(t, items) == SubSeq(t.pending \o items, 1, affordable(t, items))
enqueue_tab_frame(t, items) ==
    [t EXCEPT !.pending = SubSeq(@ \o items, affordable(t, items) + 1, Len(@ \o items)),
              !.credits = @ - charge(flushes(t, items))]

\* serve_snapshot: the rows, if any, and the end behind them.
serve_snapshot(sub, rows) ==
    (IF rows \cap RowsOf(sub) = {} THEN << >> ELSE <<Rows(sub, rows \cap RowsOf(sub))>>)
    \o <<End(sub)>>

readers(sub) == {p \in Pages : tab[p].stage # "gone" /\ sub \in tab[p].subs}

\* `items` queued to every tab of `to`, behind the frames that go straight out.
FanOut(tabs, to, straight, items) ==
    /\ tab' = [p \in Pages |-> IF p \in to THEN enqueue_tab_frame(tabs[p], items) ELSE tabs[p]]
    /\ down' = [p \in Pages |->
                  down[p] \o straight[p] \o (IF p \in to THEN flushes(tabs[p], items) ELSE << >>)]

\* The frame goes straight out to the tabs of `to`.
Straight(to, frame) == [p \in Pages |-> IF p \in to THEN <<frame>> ELSE << >>]

Verdict(kind, seq) == [t |-> kind, seq |-> seq]

-------------------------------------------------------------------------------
(***************************************************************************)
(* The hub serves the next frame of a tab.                                 *)
(***************************************************************************)
Serving(p, kind) ==
    /\ pushing = << >> /\ tab[p].stage # "gone"
    /\ up[p] # << >> /\ Head(up[p]).t = kind
    /\ up' = [up EXCEPT ![p] = Tail(@)]

\* Handshake: the durable watermarks are read into the tab.
handshake(p) ==
    /\ Serving(p, "handshake")
    /\ tab' = [tab EXCEPT ![p].stage = "handshaken", ![p].applied = applied_watermark[p],
                          ![p].local = local_watermark[p]]
    /\ down' = [down EXCEPT ![p] = Append(@, [t |-> "ack"])]
    /\ UNCHANGED <<scn, serverVars, workerVars, durableVars, seq_map, pushing, wire, pageVars,
                   left, history>>

handle_tab_subscribe(p) ==
    /\ Serving(p, "subscribe")
    /\ LET sub == Head(up[p]).sub
           items == serve_snapshot(sub, replica \cup tier)
           joined == [tab[p] EXCEPT !.subs = @ \cup {sub}]
       IN /\ tab' = [tab EXCEPT ![p] = enqueue_tab_frame(joined, items)]
          /\ down' = [down EXCEPT ![p] = @ \o flushes(tab[p], items)]
    /\ UNCHANGED <<scn, serverVars, workerVars, durableVars, seq_map, pushing, wire, pageVars,
                   left, history>>

\* AckCredits: the window opens again and the queue drains into it.
ack_credits(p) ==
    /\ Serving(p, "ack_credits")
    /\ LET richer == [tab[p] EXCEPT !.credits = @ + 1]
       IN /\ tab' = [tab EXCEPT ![p] = enqueue_tab_frame(richer, << >>)]
          /\ down' = [down EXCEPT ![p] = @ \o flushes(richer, << >>)]
    /\ UNCHANGED <<scn, serverVars, workerVars, durableVars, seq_map, pushing, wire, pageVars,
                   left, history>>

\* The hub answers a mutation on its own: a replay, or a refusal.
Answered(p, kind, seq) ==
    /\ down' = [down EXCEPT ![p] = Append(@, Verdict(kind, seq))]
    /\ UNCHANGED <<scn, serverVars, workerVars, durableVars, hubVars, wire, pageVars, left,
                   history>>

Mutating(p) == Serving(p, "mutation") /\ tab[p].stage = "handshaken"

replayed(p, m) ==
    m.seq <= (IF on_tier(m.change) THEN tab[p].local ELSE tab[p].applied)

\* Mutants: a replay is refused, or passed over without a word.
replay_refused(p) ==
    /\ Mutating(p)
    /\ LET m == Head(up[p])
       IN /\ \/ spans(m.change) \/ replayed(p, m)
             \/ ~fits(IF on_tier(m.change) THEN tier ELSE replica, m.change)
          /\ Answered(p, "refused", m.seq)
replay_ignored(p) ==
    /\ Mutating(p)
    /\ LET m == Head(up[p])
       IN \/ /\ spans(m.change) /\ Answered(p, "refused", m.seq)
          \/ /\ ~spans(m.change) /\ replayed(p, m)
             /\ UNCHANGED <<scn, serverVars, workerVars, durableVars, hubVars, wire, down,
                            pageVars, left, history>>
          \/ /\ ~spans(m.change) /\ ~replayed(p, m)
             /\ ~fits(IF on_tier(m.change) THEN tier ELSE replica, m.change)
             /\ Answered(p, "refused", m.seq)

\* A replay is acknowledged again; a mutation of both tiers, or one the rows
\* no longer admit, is refused and leaves nothing behind.
answered_by_hub(p) ==
    /\ Mutating(p)
    /\ LET m == Head(up[p])
       IN \/ /\ spans(m.change) /\ Answered(p, "refused", m.seq)
          \/ /\ ~spans(m.change) /\ replayed(p, m) /\ Answered(p, "applied", m.seq)
          \/ /\ ~spans(m.change) /\ ~replayed(p, m)
             /\ ~fits(IF on_tier(m.change) THEN tier ELSE replica, m.change)
             /\ Answered(p, "refused", m.seq)

\* handle_local_mutation: rows and watermark commit together, the author is
\* acknowledged, and every reader of the tier hears the change, the author too.
handle_local_mutation(p) ==
    /\ Mutating(p)
    /\ LET m == Head(up[p])
       IN /\ on_tier(m.change) /\ ~replayed(p, m) /\ fits(tier, m.change)
          /\ tier' = do(tier, m.change)
          /\ local_watermark' = [local_watermark EXCEPT ![p] = higher(@, m.seq)]
          /\ landed' = [landed EXCEPT ![p] = Append(@, [tier |-> "local", seq |-> m.seq])]
          /\ FanOut([tab EXCEPT ![p].local = m.seq], readers("local"),
                    Straight({p}, Verdict("applied", m.seq)), <<Live(m.change)>>)
    /\ UNCHANGED <<scn, serverVars, workerVars, applied_watermark, seq_map, pushing, wire,
                   pageVars, left, reopened, strayed>>

\* Mutant: the change replaces what is there, replayed or not.
replaces_rows(p) ==
    /\ Mutating(p)
    /\ LET m == Head(up[p])
       IN /\ ~on_tier(m.change) /\ ~spans(m.change)
          /\ replica' = do(replica, m.change)
          /\ applied_watermark' = [applied_watermark EXCEPT ![p] = higher(@, m.seq)]
          /\ tab' = [tab EXCEPT ![p].applied = m.seq]
          /\ landed' = [landed EXCEPT ![p] = Append(@, [tier |-> "main", seq |-> m.seq])]
          /\ pushing' = <<[page |-> p, seq |-> m.seq, change |-> m.change]>>
    /\ UNCHANGED <<scn, serverVars, linkVars, pushed, heard, tier, local_watermark, seq_map,
                   wire, down, pageVars, left, reopened, strayed>>

\* handle_synced_mutation, its first commit: the replica and the watermark.
handle_synced_mutation(p) ==
    /\ Mutating(p)
    /\ LET m == Head(up[p])
       IN /\ ~on_tier(m.change) /\ ~spans(m.change)
          /\ ~replayed(p, m) /\ fits(replica, m.change)
          /\ replica' = do(replica, m.change)
          /\ applied_watermark' = [applied_watermark EXCEPT ![p] = higher(@, m.seq)]
          /\ tab' = [tab EXCEPT ![p].applied = m.seq]
          /\ landed' = [landed EXCEPT ![p] = Append(@, [tier |-> "main", seq |-> m.seq])]
          /\ pushing' = <<[page |-> p, seq |-> m.seq, change |-> m.change]>>
    /\ UNCHANGED <<scn, serverVars, linkVars, pushed, heard, tier, local_watermark, seq_map,
                   wire, down, pageVars, left, reopened, strayed>>

\* Its second: push appends the captured change to _connetto_pending and the
\* hub remembers whose it is.
push ==
    /\ pushing # << >>
    /\ pushed' = pushed \o pushing
    /\ seq_map' = seq_map \cup {[worker |-> Len(pushed) + 1, page |-> pushing[1].page,
                                 seq |-> pushing[1].seq]}
    /\ pushing' = << >>
    /\ UNCHANGED <<scn, serverVars, linkVars, replica, heard, durableVars, tab, wireVars,
                   pageVars, left, history>>

-------------------------------------------------------------------------------
(***************************************************************************)
(* The upstream connection.                                                *)
(***************************************************************************)
\* The server settles the next pushed write: committed, refused as a conflict,
\* or refused by its policy.
settle ==
    /\ link = "up" /\ Len(verdicts) < Len(pushed)
    /\ LET c == pushed[Len(verdicts) + 1].change
       IN \/ /\ fits(db, c)
             /\ db' = do(db, c) /\ log' = Append(log, c)
             /\ verdicts' = Append(verdicts, "applied")
             /\ UNCHANGED left
          \/ /\ ~fits(db, c)
             /\ verdicts' = Append(verdicts, "refused")
             /\ UNCHANGED <<db, log, left>>
          \/ /\ left.refusals > 0 /\ left' = [left EXCEPT !.refusals = @ - 1]
             /\ verdicts' = Append(verdicts, "refused")
             /\ UNCHANGED <<db, log>>
    /\ UNCHANGED <<scn, workerVars, durableVars, hubVars, wireVars, pageVars, history>>

\* Another device's write.
foreign_commit(c) ==
    /\ left.commits > 0 /\ fits(db, c)
    /\ left' = [left EXCEPT !.commits = @ - 1]
    /\ db' = do(db, c) /\ log' = Append(log, c)
    /\ UNCHANGED <<scn, verdicts, workerVars, durableVars, hubVars, wireVars, pageVars, history>>

Hub == link = "up" /\ pushing = << >>

\* LivePatch: the worker's client applies it and the hub forwards it to every
\* tab that reads the table.
live_patch ==
    /\ Hub /\ resyncing = "no" /\ pos < Len(log)
    /\ pos' = pos + 1
    /\ replica' = do(replica, log[pos + 1])
    /\ FanOut(tab, readers("main"), [p \in Pages |-> << >>], <<Live(log[pos + 1])>>)
    /\ UNCHANGED <<scn, serverVars, link, resyncing, pushed, heard, durableVars, seq_map,
                   pushing, wire, up, pageVars, left, history>>

\* Mutant: any answer is passed on as an acknowledgement.
all_acknowledged ==
    /\ Hub /\ heard < Len(verdicts)
    /\ LET mine == {e \in seq_map : e.worker = heard + 1}
       IN /\ heard' = heard + 1
          /\ replica' \in IF verdicts[heard + 1] = "refused"
                          THEN undo(replica, pushed[heard + 1].change) ELSE {replica}
          /\ seq_map' = seq_map \ mine
          /\ down' = [p \in Pages |->
                        IF tab[p].stage # "gone" /\ \E e \in mine : e.page = p
                        THEN Append(down[p], Verdict("applied", (CHOOSE e \in mine : TRUE).seq))
                        ELSE down[p]]
    /\ UNCHANGED <<scn, serverVars, linkVars, pushed, durableVars, tab, pushing, wire, up,
                   pageVars, left, history>>

\* MutationApplied, MutationReject, MutationConflict: the worker's client retires
\* the write, undoing it when it was refused, and the hub gives the verdict to
\* the tab that made it, if this hub knows one.
server_verdict ==
    /\ Hub /\ heard < Len(verdicts)
    /\ LET v == verdicts[heard + 1]
           mine == {e \in seq_map : e.worker = heard + 1}
       IN /\ heard' = heard + 1
          /\ replica' \in IF v = "refused" THEN undo(replica, pushed[heard + 1].change)
                          ELSE {replica}
          /\ seq_map' = seq_map \ mine
          /\ down' = [p \in Pages |->
                        IF tab[p].stage # "gone" /\ \E e \in mine : e.page = p
                        THEN Append(down[p], Verdict(v, (CHOOSE e \in mine : TRUE).seq))
                        ELSE down[p]]
    /\ UNCHANGED <<scn, serverVars, linkVars, pushed, durableVars, tab, pushing, wire, up,
                   pageVars, left, history>>

\* The link is lost; tab work goes on against the replica.
outage ==
    /\ link = "up" /\ left.outages > 0
    /\ left' = [left EXCEPT !.outages = @ - 1]
    /\ link' = "down"
    /\ UNCHANGED <<scn, serverVars, pos, resyncing, replica, pushed, heard, durableVars, hubVars, wireVars,
                   pageVars, history>>

\* The link is back.  The feed continues from the worker's position, unless the
\* server no longer holds it: a resync clears the synced rows first, and one cut
\* short is told again.
reconnect ==
    /\ link = "down" /\ link' = "up"
    /\ \/ /\ resyncing = "no" /\ UNCHANGED <<resyncing, replica>>
       \/ /\ \E reason \in scn.stale :
                /\ resyncing \in {"no", reason} /\ resyncing' = reason
          /\ replica' = {}
    /\ UNCHANGED <<scn, serverVars, pos, pushed, heard, durableVars, hubVars, wireVars, pageVars,
                   left, history>>

\* SnapshotEnd of a resync, behind the answers to the writes settled before the
\* snapshot was read (a client resends first, then subscribes): the worker holds
\* the server's rows with its own pending writes on top, and
\* resnapshot_after_resync tells every reader to start over, ahead of whatever
\* its window still holds back.
resynced ==
    /\ Hub /\ resyncing # "no" /\ heard = Len(verdicts)
    /\ resyncing' = "no" /\ pos' = Len(log)
    /\ replica' = reapplied(db, pending)
    /\ LET to == readers("main")
       IN /\ FanOut(tab, to, Straight(to, Resync("main", resyncing)),
                    serve_snapshot("main", replica'))
          /\ strayed' = strayed \cup {p \in to : charge(tab[p].pending) > 0}
    /\ UNCHANGED <<scn, serverVars, link, pushed, heard, durableVars, seq_map, pushing, wire, up,
                   pageVars, left, landed, reopened>>

-------------------------------------------------------------------------------
(***************************************************************************)
(* The pages.                                                              *)
(***************************************************************************)
\* A page opens its wire and greets the hub, the first time or again.
open(p) ==
    /\ p \in scn.pages /\ wire[p] \in {"new", "lost"}
    /\ reopened' = IF wire[p] = "lost" THEN reopened \cup {p} ELSE reopened
    /\ wire' = [wire EXCEPT ![p] = "greeting"]
    /\ tab' = [tab EXCEPT ![p] = fresh_tab]
    /\ up' = [up EXCEPT ![p] = <<[t |-> "handshake"]>>]
    /\ down' = [down EXCEPT ![p] = << >>]
    /\ history_cleared' = [history_cleared EXCEPT ![p] = FALSE]
    /\ UNCHANGED <<scn, serverVars, workerVars, durableVars, seq_map, pushing, mirror, queue,
                   mending, told, left, landed, strayed>>

Mutation(e) == [t |-> "mutation", seq |-> e.seq, change |-> e.change]

\* The page commits a change to its own mirror and pushes it: it shows at once,
\* waits for its verdict, and is sent when the wire is attached.
write(p, c) ==
    /\ Len(told[p]) < scn.each /\ fits(mirror[p], c)
    /\ LET e == [seq |-> Len(told[p]) + 1, change |-> c]
       IN /\ mirror' = [mirror EXCEPT ![p] = do(@, c)]
          /\ queue' = [queue EXCEPT ![p] = Append(@, e)]
          /\ up' = IF wire[p] = "attached" THEN [up EXCEPT ![p] = Append(@, Mutation(e))] ELSE up
    /\ told' = [told EXCEPT ![p] = Append(@, "nothing")]
    /\ UNCHANGED <<scn, serverVars, workerVars, durableVars, hubVars, wire, down, mending,
                   history_cleared, left, history>>

Hearing(p, kind) ==
    /\ down[p] # << >> /\ Head(down[p]).t = kind
    /\ down' = [down EXCEPT ![p] = Tail(@)]

\* HandshakeAck: attach resends what is pending and declares the subscriptions.
attach(p) ==
    /\ Hearing(p, "ack")
    /\ wire' = [wire EXCEPT ![p] = "attached"]
    /\ up' = [up EXCEPT ![p] = @ \o [i \in DOMAIN queue[p] |-> Mutation(queue[p][i])]
                                 \o <<Subscribe("main"), Subscribe("local")>>]
    /\ strayed' = IF queue[p] = << >> THEN strayed ELSE strayed \cup {p}
    /\ UNCHANGED <<scn, serverVars, workerVars, durableVars, hubVars, pageVars, left, landed,
                   reopened>>

\* LivePatch, SnapshotPatch: applied, and the credit is returned.
apply_patch(p) ==
    /\ \/ /\ Hearing(p, "live")
          /\ mirror' = [mirror EXCEPT ![p] = do(@, Head(down[p]).change)]
       \/ /\ Hearing(p, "rows")
          /\ mirror' = [mirror EXCEPT ![p] = @ \cup Head(down[p]).keys]
    /\ up' = [up EXCEPT ![p] = Append(@, [t |-> "ack_credits"])]
    /\ UNCHANGED <<scn, serverVars, workerVars, durableVars, hubVars, wire, queue, mending,
                   history_cleared, told, left, history>>

\* Mutant: the rows stay, to be overwritten by the snapshot.
rows_kept(p, sub, reason) ==
    /\ UNCHANGED mirror
    /\ history_cleared' = [history_cleared EXCEPT ![p] = @ \/ reason = "history"]

\* clear_subscription_rows: the rows of the subscription, or on the first notice
\* of a server whose history went back, those of every subscription declared.
clear_subscription_rows(p, sub, reason) ==
    /\ mirror' = [mirror EXCEPT ![p] = @ \ (IF reason = "history" /\ ~history_cleared[p]
                                            THEN Keys ELSE RowsOf(sub))]
    /\ history_cleared' = [history_cleared EXCEPT ![p] = @ \/ reason = "history"]

\* FullResyncRequired.
full_resync(p) ==
    /\ Hearing(p, "resync")
    /\ clear_subscription_rows(p, Head(down[p]).sub, Head(down[p]).reason)
    /\ mending' = [mending EXCEPT ![p] = @ \cup {Head(down[p]).sub}]
    /\ UNCHANGED <<scn, serverVars, workerVars, durableVars, hubVars, wire, up, queue, told, left,
                   history>>

\* SnapshotEnd: behind a resync the pending writes go back on.
snapshot_end(p) ==
    /\ Hearing(p, "end")
    /\ mirror' = [mirror EXCEPT ![p] = IF Head(down[p]).sub \in mending[p]
                                       THEN reapplied(@, queue[p]) ELSE @]
    /\ mending' = [mending EXCEPT ![p] = @ \ {Head(down[p]).sub}]
    /\ UNCHANGED <<scn, serverVars, workerVars, durableVars, hubVars, wire, up, queue,
                   history_cleared, told, left, history>>

\* MutationApplied and MutationReject: the write is retired, and a refused one
\* is rolled back; a verdict on no pending write changes nothing.
verdict(p) ==
    \E kind \in {"applied", "refused"} :
        /\ Hearing(p, kind)
        /\ \/ /\ \A i \in DOMAIN queue[p] : queue[p][i].seq # Head(down[p]).seq
              /\ UNCHANGED <<queue, mirror, told>>
           \/ \E i \in DOMAIN queue[p] :
                 /\ queue[p][i].seq = Head(down[p]).seq
                 /\ queue' = [queue EXCEPT ![p] = SubSeq(@, 1, i - 1) \o SubSeq(@, i + 1, Len(@))]
                 /\ \E rows \in IF kind = "applied" THEN {mirror[p]}
                                ELSE undo(mirror[p], queue[p][i].change) :
                        mirror' = [mirror EXCEPT ![p] = rows]
                 /\ told' = [told EXCEPT ![p] = [@ EXCEPT ![queue[p][i].seq] = kind]]
        /\ UNCHANGED <<scn, serverVars, workerVars, durableVars, hubVars, wire, up, mending,
                       history_cleared, left, history>>

-------------------------------------------------------------------------------
(***************************************************************************)
(* The worker dies and its successor takes over: the hub's memory and the  *)
(* pages' wires are gone, what was committed to the replica is not.        *)
(***************************************************************************)
worker_dies ==
    /\ left.deaths > 0 /\ left' = [left EXCEPT !.deaths = @ - 1]
    /\ link' = "down" /\ tab' = [p \in Pages |-> NoTab]
    /\ seq_map' = {} /\ pushing' = << >>
    /\ wire' = [p \in Pages |-> IF wire[p] = "new" THEN "new" ELSE "lost"]
    /\ up' = [p \in Pages |-> << >>] /\ down' = [p \in Pages |-> << >>]
    /\ UNCHANGED <<scn, serverVars, pos, resyncing, replica, pushed, heard, durableVars, pageVars,
                   history>>

\* remove_tab for a page that is still there (the reaper took it for dead): what
\* it had sent and not had served is lost, and no verdict finds it any more.
remove_tab(p) ==
    /\ pushing = << >> /\ tab[p].stage # "gone"
    /\ left.drops > 0 /\ left' = [left EXCEPT !.drops = @ - 1]
    /\ tab' = [tab EXCEPT ![p] = NoTab]
    /\ seq_map' = {e \in seq_map : e.page # p}
    /\ wire' = [wire EXCEPT ![p] = "lost"]
    /\ up' = [up EXCEPT ![p] = << >>] /\ down' = [down EXCEPT ![p] = << >>]
    /\ UNCHANGED <<scn, serverVars, workerVars, durableVars, pushing, pageVars, history>>

-------------------------------------------------------------------------------
RelayInit ==
    /\ scn \in Scenarios
    /\ db = scn.present \cap Main /\ log = << >> /\ verdicts = << >>
    /\ link = "up" /\ pos = 0 /\ resyncing = "no" /\ replica = db
    /\ pushed = << >> /\ heard = 0
    /\ tier = scn.present \cap Local
    /\ applied_watermark = [p \in Pages |-> 0] /\ local_watermark = [p \in Pages |-> 0]
    /\ tab = [p \in Pages |-> IF p \in scn.started THEN subscribed_tab ELSE NoTab]
    /\ seq_map = {} /\ pushing = << >>
    /\ wire = [p \in Pages |-> IF p \in scn.started THEN "attached" ELSE "new"]
    /\ up = [p \in Pages |-> << >>] /\ down = [p \in Pages |-> << >>]
    /\ mirror = [p \in Pages |-> IF p \in scn.started THEN scn.present ELSE {}]
    /\ queue = [p \in Pages |-> << >>]
    /\ mending = [p \in Pages |-> {}] /\ history_cleared = [p \in Pages |-> FALSE]
    /\ told = [p \in Pages |-> << >>]
    /\ left = [commits |-> scn.commits, refusals |-> scn.refusals, outages |-> scn.outages,
               drops |-> scn.drops, deaths |-> scn.deaths]
    /\ landed = [p \in Pages |-> << >>] /\ reopened = {} /\ strayed = {}

\* The hub's turn with a tab's next frame.
HubServes(p) ==
    \/ handshake(p)
    \/ handle_tab_subscribe(p)
    \/ ack_credits(p)
    \/ answered_by_hub(p)
    \/ handle_local_mutation(p)
    \/ handle_synced_mutation(p)

\* The page's turn with its next frame.
PageHears(p) ==
    \/ attach(p)
    \/ apply_patch(p)
    \/ full_resync(p)
    \/ snapshot_end(p)
    \/ verdict(p)

RelayNext ==
    \/ \E p \in scn.pages : \/ open(p) \/ HubServes(p) \/ PageHears(p) \/ remove_tab(p)
                            \/ \E c \in scn.may[p] : write(p, c)
    \/ push
    \/ settle
    \/ \E c \in scn.foreign : foreign_commit(c)
    \/ live_patch
    \/ server_verdict
    \/ outage
    \/ reconnect
    \/ resynced
    \/ worker_dies

\* The hub, the worker's link and every page keep taking their turns; pages
\* write, other devices commit and things fail only if they do.
RelayFairness ==
    /\ WF_relayVars(push) /\ WF_relayVars(settle) /\ WF_relayVars(live_patch)
    /\ WF_relayVars(server_verdict) /\ WF_relayVars(reconnect) /\ WF_relayVars(resynced)
    /\ \A p \in Pages : /\ WF_relayVars(open(p)) /\ WF_relayVars(HubServes(p))
                        /\ WF_relayVars(PageHears(p))

RelaySpec == RelayInit /\ [][RelayNext]_relayVars /\ RelayFairness

-------------------------------------------------------------------------------
(***************************************************************************)
(* Properties.                                                             *)
(***************************************************************************)
\* The pushed writes of the page's sequence number.
Pushes(p, seq) == {i \in DOMAIN pushed : pushed[i].page = p /\ pushed[i].seq = seq}

\* However often a page reconnects and resends, and wherever the worker dies, a
\* write of a page is applied by the hub at most once.
LandsOnce ==
    \A p \in Pages : \A i, j \in DOMAIN landed[p] : landed[p][i] = landed[p][j] => i = j

\* A page that never lost its wire is told of each of its writes what became of
\* it: the server's verdict on the write the worker pushed for it, or the hub's
\* own when the hub decided it.
ToldAsSettled ==
    \A p \in Pages \ reopened : \A seq \in DOMAIN told[p] :
        \/ told[p][seq] = "nothing"
        \/ /\ Pushes(p, seq) = {}
           /\ (told[p][seq] = "applied") <=> (\E i \in DOMAIN landed[p] : landed[p][i].seq = seq)
        \/ /\ Pushes(p, seq) # {}
           /\ \A i \in Pushes(p, seq) : i \in DOMAIN verdicts /\ verdicts[i] = told[p][seq]

\* A page rolls a write back only when it stands nowhere: the hub never applied
\* it, or the server refused it.
RefusalsStand ==
    \A p \in Pages : \A seq \in DOMAIN told[p] : told[p][seq] = "refused" =>
        \/ \A i \in DOMAIN landed[p] : landed[p][i].seq # seq
        \/ \E i \in Pushes(p, seq) : i \in DOMAIN verdicts /\ verdicts[i] = "refused"

\* No credit of a tab's window is lost or made up: the ones it holds, the frames
\* on their way to it and the acknowledgements on their way back.
CreditsConserved ==
    \A p \in Pages : tab[p].stage # "gone" =>
        scn.window = tab[p].credits + charge(down[p])
                     + Len(SelectSeq(up[p], LAMBDA f : f.t = "ack_credits"))

\* Nothing is on its way anywhere.
Quiet ==
    /\ link = "up" /\ resyncing = "no" /\ pushing = << >>
    /\ pos = Len(log) /\ Len(verdicts) = Len(pushed) /\ heard = Len(verdicts)
    /\ \A p \in scn.pages : /\ wire[p] = "attached" /\ tab[p].pending = << >>
                            /\ up[p] = << >> /\ down[p] = << >>

\* The page kept its wire and wrote only once it had subscribed, no notice
\* overtook its rows, and no write it could see was refused.
Undisturbed(p) ==
    /\ p \notin reopened \cup strayed
    /\ \A i \in DOMAIN told[p] : told[p][i] # "refused"
    /\ \A i \in DOMAIN verdicts : verdicts[i] # "refused"

\* When all is delivered, an undisturbed page shows the server's rows, through
\* resyncs, outages and other pages' writes, and, unless the server's history
\* went back, the device's own.
MirrorsConverge ==
    Quiet => \A p \in scn.pages : Undisturbed(p) =>
        /\ mirror[p] \cap Main = db
        /\ ~history_cleared[p] => mirror[p] \cap Local = tier

\* Every write of a page is answered through worker deaths, outages and reaped
\* tabs.  Left out is a retirement of the worker's own writer, which renumbers the
\* queued tail under new sequences that seq_map does not know.
WritesAnswered ==
    \A p \in Pages : (queue[p] # << >>) ~> (queue[p] = << >>)

===============================================================================
