# connetto in TLA+

This directory models the parts of connetto whose correctness depends on the
order of things: who reads what before whom, which message is lost, which
process dies between two steps.  Each module is translated from the Rust source;
`PROJECT.json` maps every definition to the lines it stands for.

## The system

Clients keep a SQLite replica and write to it optimistically.  A server holds
one session per connection, applies the clients' writes to PostgreSQL and
streams committed changes back.  File content travels beside the rows through a
file server; the pages of a browser share one replica through a relay; devices
near each other hold links of their own.

| part | state | operations | where | module |
|---|---|---|---|---|
| writer tables | a row per writer (frontier, head, retired), a record per settled entry | issue, retire, settle, advance, prune, sweep | server `writer_schema.rs`, `write_target.rs`, core `chain.rs` | WriterStore |
| mutation handler and upload queue | per session: writer, `indeterminate`, `deferred`; per client: next sequence, pending entries | handshake, replay, new write, refusal, deferral, answer | server `session.rs`, client `lib.rs` | MutationPath |
| change of writer | numbers, device keys, provenance | bind, carry, retire, revoke, sweep | client `lib.rs`, `enrolment/`, server `session.rs` | WriterCarry |
| read path | routes, snapshots, missed entries, cursors, credits | subscribe, page, catch up, fan out, acknowledge | server `session.rs`, `snapshot.rs`, `oplog.rs`, `fence.rs`, client `lib.rs` | ReadPath |
| change feed | slot, last commit, log, timeline, recorded cluster | settle, open, ingest, acknowledge, resume, declare a gap | server `session.rs`, `oplog.rs`, `epoch.rs`, `timeline.rs`, `slot.rs` | Feed |
| registry | live connection per handle, writers' live sets, shutdown flag | register, supersede, judge, close, unregister, drain | server `session.rs`, `builder/mod.rs` | Connections |
| files | chunks, manifests, quotas, outboxes | declare, send, commit, heal, sweep, reconcile | `connetto-file-server`, `connetto-file-client` | Files |
| browser relay | durable watermarks, tabs, wires, mirrors | attach, write, push, settle, fan out, resynchronise | `connetto-web/relay.rs` | Relay |
| device links | one slot per peer, a frame task per end | serve, dial, register, renew, close, stop | `connetto-peer/node.rs`, `link.rs` | Peers |

How they meet: MutationPath uses WriterStore's tables and is checked to
implement it; WriterCarry takes a settled mutation as one step where MutationPath
takes several; ReadPath takes the feed as a position that moves, Feed takes
snapshots and catch-ups as one step; Relay takes a pushed write to be settled
once (MutationPath) and a resumed link to continue or resynchronise (ReadPath).
Connections, Files and Peers share no state with the others.

## Modules

### WriterStore (WriterStoreProofs, MCWriterStore)

The tables `_connetto_writers` and `_connetto_settled` and the changesets applied
to the source tables (`journal`).  Any number of handlers hold a `SettleSpec` built
from a row they read earlier (`calls`) and run `commit` or `settle_refusal` with it
later, once, twice or never.  A transaction is one step: its first statement
inserts the unique key (writer, seq), which holds every rival until it ends.
Pruning, retirement and the sweep happen between any two steps.  SHA-256 is taken
to be injective, so a hash is the list of what was hashed.

### MutationPath

One client and the sessions of its successive connections.  The client's queue
(`next_seq`, `pending`, `number`) is durable; `up` and `down` are the frames on each
connection; `sess` is the server's session, with `pc` marking where
`handle_mutation` waits for the database.  A client that leaves a connection does
not stop its session, so two sessions may handle the same entry.  The writer
tables are WriterStore's (`INSTANCE ... WITH calls <- InFlight`).

### WriterCarry

One replica whose queue moves between writers: the unissued queue, numbers,
device keys.  The client is one record whose operators keep the source's names
(`carry_writers`, `plan_bind`, `answer_bind`, ...); the session handles a mutation in
one step.  Other parties may revoke the device or retire a writer; the link may
fail; the server sweeps.

### ReadPath (MCReadPath)

Rows on their way from PostgreSQL to one replica.  `wal` is the sequence of
commits and a row's version is the number of the commit that wrote it; `hidden`
are the commits that are flushed, so the feed carries them, and not visible to a
snapshot yet.  `fed`, `logged` and `pruned` are the feed and its log.  `sess` is the
session: its routes, what snapshots missed, reads in pages, frames waiting for
credit, and `work`, which marks where a handler waits for the database, so that
commits, the feed and the client go on between the attachment of a route, the
position, the page, the watermark and the replay.  `turn` marks where a dispatch
is: the code fixes the matched subscriptions under the materializer's lock, then
awaits the append to the log, then looks the routes up, and a subscription may
register or read the log between any two of these.  `replica` is the client: rows,
the one cursor, coverage.  `overtaken` is history: the entries a catch-up met in the
middle of their dispatch.  A run chooses among *deployments*: `Paged` (pages of one
row, one credit, failing pages, truncates), `Lagging` (commits that wait for a
standby, drops, restarts with a durable log, overrunning answers), `Replaced` (the
same from a replica whose coverage was lost, so that it is read anew), `Restarting`
(a slot that delivers two logged entries again), `Forgetful` (a log of one entry
that dies with the server), `Double` (two subscriptions).

### Feed (FeedProofs)

The feed's task (`phase`) from boot to the open stream, the database with what it
records about its own feed, and a copy of it that a restore or a failover puts in
its place.  The log, the last commit and the recorded cluster are rows of that
database, so they go back with it.  The server may crash after any step, and a
fault of the database (`database_fault`: promotion, point-in-time recovery, restore
into the same or a fresh cluster, a recreated slot) may come at any time but
between the checks and the stream they open.  A fresh cluster's write positions
start anywhere, above the restored log (`fresh_above`) or below its end
(`fresh_below`).  A change is matched (`dispatch`), logged (`append_record`) and handed
over (`fan_out`) in three steps.  A device has one subscription and a cursor; a
handshake judges the cursor and the subscription reads the table or the log in one
step.  `close_all` only queues a fatal frame (`told`): until the connection takes it,
a Subscribe that arrived is still served, under the judgement of its handshake.
`skipped`, `strayed` and `met` are history variables for the exceptions below.

### Connections (ConnectionsProofs)

Each connection's task from its challenge to its teardown, a step per await
another task can observe; the registry and the writers' live sets; and everything
that closes from outside: a newer connection of the handle, a revoked login, a
closed person, a retired writer, a new timeline history, the shutdown.  The
shutdown flag is read where the code reads it, before the challenge and after a
registration round; a handshake that arrives later is refused when it registers.

### Files (MCFiles)

The server's tables are one variable per column, the store a set of hashes.  A
device walks through its upload (`walk`): declaration, PUTs, commit; a replica
sweeps or boots (`server`).  A transaction that holds a row lock over a store access
is several steps and the locks are guards of the others.  A *scenario* says who is
signed in where, what is added, the quota, and how many requests fail, processes
stop, chunks are lost and backups are taken.  Losing bytes and restoring a backup
need the process down; two scenarios have a second stop, so that the boot that
answers a loss or a restore is itself interrupted between any two of its steps.

### Relay (MCRelay, RelayProofs)

The worker's durable replica and watermarks, the hub's memory, the wires, and each
page's client over its mirror.  `pushing` marks the gap between the two commits of a
synced mutation, where the worker may die.  A rollback leaves alone a row that a
patch of the server changed since (`undo` is a set of outcomes).  Scenarios: two pages at one row
(`Contended`, `Private`), a worker replaced twice (`Replaced`), a reaped tab
(`Reaped`), a resynchronisation (`Resynced`), a page that arrives late (`Joining`).

### Peers (PeersProofs)

Two or more nodes and, for every connection between two of them, a task per end
with its stage, its inbox and its commands.  The caller's progress through serve,
renewal and stop is `control`, so that handshakes, registrations and closes fall
between the swap of the identity and the notice to the links, or between the end of
listening and the drain.  `waits` are the hello timeouts after a Duplicate close,
`notices` and `drained` the Unlinked events not sent yet, `balance` what was sent.

## Runs

| run | bounds | distinct states | shows |
|---|---|---|---|
| `writer_store` | 2 writers, 1 changeset, 2 sequences each, 2 calls | symmetric | nothing is applied twice, the chain is intact |
| `mutation_path` | 2 writes, up to 3 connections, 4 of both together, 1 fault | 75,619 | verdicts are true, no gap or fork for an in-order client, implements WriterStore, every write is answered |
| `carry` | 2 writes, 1 loss, 2 deaths of a writer | 1.4 million | per carry: applied once, true verdicts, no gap |
| `carry_handover` | 2 writes, 2 losses, no death | 10 thousand | in order, every write is answered |
| `read_path` | six deployments; 2 rows, 2 or 3 commits, at most 2 drops or page faults | 1.56 million | a settled replica equals the table, a cursor covers nothing the replica lacks, credits strand nothing |
| `feed` | 1 device, 3 transactions of 2 rows, a log of 3, 1 fault of any kind, 2 crashes or drops, 4 commits, crashes and drops together | 851 thousand | nothing is missed silently, restored rows leave, logins are revoked after a restore, a crash is no gap, every change arrives |
| `connections` | 2 connections, 2 handles of one person, 1 writer, 1 history | 184 thousand | one live connection per handle, cursors judged or closed, told connections leave, after a shutdown every connection ends |
| `files` | 2 devices, 2 files, 3 chunks, 1 replica, seven scenarios | 73 thousand | what is stored is held, nothing unsent dropped, rows told the truth, the quota; outboxes drain, leftovers are swept, lost files heal |
| `relay` | 2 pages, 3 rows, six scenarios | 119 thousand | writes land once, verdicts reach the page they belong to, refusals stand, credits are conserved, mirrors converge, writes are answered |
| `peers` | 2 devices, 2 dials, 1 renewal, stop or cut | 64 thousand | events pair up, crossing dials leave one link, renewals reach every link, the two sides agree |

Why these bounds: two entries are enough for an order to be wrong or for a hole;
two connections for a race of two sessions and a third for a prune between
them; two calls on one sequence for a lost race; two rows for a second page and
two commits to one row for a patch older than the page; two rows of a transaction
and a log of three for a log cut inside a transaction; a chunk shared by two files
and a file cut in two ways for every sharing a sweep can get wrong; two stops for
a boot interrupted after a loss; two dials for any pair the duplicate rule
compares (two hello timeouts of one node at once would need a third; `EventsPair`
covers them).  Larger instances were run where they
finish: `mutation_path` with two writes on three connections (1.8 million states),
the invariants of `connections` on a larger instance (23 million), `relay` with
two pages in its larger scenarios (446 thousand, liveness included), `files` with
a backup at any time (17 million), the invariants of `peers` with three dials and
a renewal (3.8 million) or a mishap (1.8 million).  All passed.

Two runs are expected to be violated.  Each states what a comment of the code says
and finds a behaviour that contradicts it; `findings` in `PROJECT.json` quotes the
lines.

| run | what happens |
|---|---|
| `carry_double` | a write carried twice is applied under two numbers |
| `files_dedup_lost` | a file committed over another's chunk stays committed when the boot finds the chunk's bytes gone |

### Known behaviours outside the runs

The passing runs leave out what is known to break their properties.  TLC found each
of these in the same modules with other bounds or a stronger property; the hazards
of `PROJECT.json` name the lines.

* Carrying: a second death can queue an older tail behind a newer write of the
  next device (client `lib.rs` 4318), and a tail carried twice can be refused with
  SequenceGap at every reconnect; a refusal whose record the sweep took is
  answered applied.
* Reading: a subscription first declared on a resumed connection is caught up from
  the connection's position and never read.  A commit that waits for a standby is
  patched before a later page that does not see it.  Patches of a lagging feed
  between two pages leave a cursor past the change that would repair them.  A
  connection lost before the first `SnapshotEnd` leaves rows without a cursor, and
  the next attach clears nothing.  A missed entry that is pruned before its replay
  is lost.  A subscription that resumes between the match of a change and its
  append is neither handed the change nor replayed it, and a replay ahead of an
  older live patch already queued, or delivered again after a restart, is undone by
  it (`overtaken`).  A process that dies during a resync and then drops its next
  connection over a late writer answer publishes coverage with rows missing
  (client `lib.rs` 4234, 4869).  With two subscriptions the `SnapshotEnd` of one moves the common
  cursor past a queued change of the other (`ResumePositionKept` is the general
  form of `OnePageResumes`).
* Feed: a device ahead of a promoted standby keeps rows the standby never had
  (`RestoredRowsLeave` leaves promotions out).  A catch-up between match and append
  misses the change (`skipped`).  A connection told to close that still subscribes
  is caught up by a cursor of the old history, and the device may keep lost rows or
  miss new ones until its next snapshot (`strayed`).  After a dump restored into a
  fresh cluster whose write positions are below the restored log's, a catch-up
  returns entries of the old cluster and passes over changes of the new one
  (`NothingMissed` and `Delivered` leave `fresh_below` out); a backup taken while such
  a cluster still writes below the commit it inherited, restored into the same
  cluster, shows no gap at the boot, which revokes no logins (`LoginsRevoked` leaves
  it out through `Inherits`).
* Registry: a writer's live set is keyed by the handle, so the teardown of a
  superseded connection removes its successor's entry; a bind that read the writer
  as live can enter the set after the retirement emptied it.  `ShutdownDrains` is
  untimed: a connection that sends no first frame counts as open for up to 30
  seconds, the shutdown's grace is 5.
* Files: two devices of one uploader that cut one file differently never finish
  the second upload (`stuck`); with two replicas a sweep from an older list takes
  bytes sent again since; a heal restores its owner's bytes without a charge.
* Relay: a write whose worker died between its two commits stays in the replica
  unpushed; a page that lost its wire can be told applied of a write the server
  refused; the resync notice overtakes queued patches; on a history resync the
  page clears its device-private rows and nothing serves them again; a reconnected
  tab keeps rows deleted meanwhile.  A retirement of the worker's own writer, which
  renumbers its queue past the hub's `seq_map`, is not modelled.
* Peers: Unlinked is sent after the lock is released and can follow the Linked of
  the next link; a link replaced before its task starts ends without a Duplicate
  close, so the peer reports the device gone and then linked again.

### Fairness

A task that the runtime schedules, or a timer that fires, is weakly fair; what
users, operators, other devices and faults do is not, and faults are bounded, so
liveness reads "once the faults stop".

* `PathFairness`, `CarryFairness`: the client's pump and each session.  MutationPath
  does not fault the last connection its bound allows.
* `FeedSpec`: the feed's one task.
* `ConnSpec`: each connection's task, the drain and the closing of all.  A told
  connection's close is strongly fair: `select!` polls its branches in random order,
  so a peer that keeps sending does not hide the close for ever.
* `FilesSpec`: each device's driver, and each replica's process, which boots and then
  sweeps.  The
  uploader's lock is strongly fair, because PostgreSQL queues its waiters in
  order, and so is the passing of the grace, because it is a clock.
* `RelayFairness`: the worker's link, the hub's turn for each page, each page.
* `FairSpec` of Peers: the caller's steps within a renewal or a stop, each keeper
  timer, each end's task.  Nobody is obliged to serve, dial or stop.

Deadlock is checked for MutationPath, where `Quiet` marks the finished state, and
for Files.  The other systems rest when nobody acts and the bounds are used up.

## Proofs

All theorems hold for every value of the constants that satisfies the module's
named assumption, which asks only for the types of the bounds and that names of
different things differ.

* **WriterStoreProofs**: `AtMostOnce`, `OneChain`, `RecordsUnique`, `RecordsFinal`.
  `StoreInv` adds to the invariants that every record and every applied key lies at
  or below its writer's frontier, so an insert that wins above the frontier cannot
  repeat a pruned one, and that a spec somebody holds is chained to what it read
  (`CallsChained`): while the frontier is right below it, the head is the hash it
  was computed from.  `TransactionStep` proves this once for the transaction bodies.
* **FeedProofs**: `CrashIsNoGap` (a crash alone never looks like a skipped stretch)
  from `SlotRecorded`: without faults the slot's confirmed position never passes the
  recorded commit, because a commit is recorded before it is acknowledged;
  `RestoresRevoke` (no restore passes without the logins being revoked, wherever the
  positions of a fresh cluster start) from an invariant that says which trace a
  restore leaves in the database until the boot has settled it: another cluster
  than the recorded one, or a slot past the last commit.
* **ConnectionsProofs**: `OneLivePerHandle`, `RegistryHasNoGhosts`, `ShutdownIsFinal`,
  `CursorsJudged`.  The four hold each other up (`RegistryInv`): a close reaches a
  connection because its handle leads to it, and a handshake finds no entry of its
  own because what the registry leads to is past its registration.
* **RelayProofs**: `WriteLandsOnce`.  `MarksInv` adds that a tab holds the durable
  watermarks from its handshake on and that no landed write is above them.
* **PeersProofs**: `EventsPair`, `StoppedIsEmpty` and `DuplicateRuleDecides` (the rule
  is a strict total order, so both sides prefer the same connection).  `PeersInv`
  adds the tables' shape and that peers are drained only within a stop, so that a
  drain never overwrites a report still owed.

Only model-checked: liveness, which the proof system cannot reach; the refinement
`UsesWriterStore`; and MutationPath, WriterCarry, ReadPath and Files altogether,
whose properties rest on folds and recursive data or on too many columns at once.

## Not modelled

PostgreSQL's own isolation is used, not modelled: a transaction is atomic unless
its locks are spelled out.  Authorisation, planning and encoding are
nondeterministic verdicts.  Signatures, certificates and ciphers are taken to work.
`PROJECT.json` lists every part with its reason.  Most of the repository's lines
are of this kind: encoding and SQL planning, builders and preflight checks, platform
bindings for Android, Apple, Bluetooth and the browser, authentication, and tests
inside the sources; they hold no state that another actor's step can catch between
two of theirs.

Left out of the modelled parts:

* read path: unsubscribing, membership and computed subscriptions, authorisation
  that changes while connected, rows that move between windows, a truncate a
  snapshot missed;
* files: ceilings of the deployment, bandwidth, serving and fetching, tickets, the
  cutting of chunks;
* relay: unsubscription, aggregates, RPC, content staging, the phases of recovery
  that hold frames back;
* peers: the revocation lists that ride the links, certificate expiry, refused
  handshakes, the exchange of an offer, and the discovery policy that decides when
  to dial (the model dials at any time).

What would come next: an abstract specification of the read path (the replica is
a past state of the subscribed rows that moves forward), departures and
unsubscribing, the discovery policy composed with Peers, and proofs of ReadPath's
credits and of the Files sweep.
