-------------------------------- MODULE Files --------------------------------
(***************************************************************************)
(* File content beside the rows: the file server (connetto-file-server:    *)
(* intent, chunk PUT, commit, sweep, boot reconcile), the chunk store it   *)
(* keeps bytes in, and the outbox of each device (connetto-file-client).   *)
(*                                                                         *)
(* The server's tables are one variable per column.  A manifest is named   *)
(* by its file and the key of its uploader.  A transaction that holds a    *)
(* row lock over a store access, and one whose statements another          *)
(* transaction can interleave with, is several steps; the locks it holds   *)
(* between them are the guards of the others.  A step that does not commit *)
(* leaves the tables alone and only moves the device's walk.               *)
(***************************************************************************)
EXTENDS Integers, FiniteSets, FiniteSetsExt

CONSTANTS
    FileIds,        \* contents, by hash
    Keys,           \* uploaders
    Devices,
    Hashes,         \* chunks
    Replicas,       \* file server processes
    None,           \* no file, no hash, no replica
    Chunking,       \* [Devices -> [FileIds -> SUBSET Hashes]]
    chunk_len,      \* [Hashes -> Nat]
    Pinned,         \* [Devices -> SUBSET FileIds], what a device retains
    Scenarios,      \* who is signed in where, the files the users add there, and
                    \* the quota, and the bounds: on requests that fail or are
                    \* refused for now, on uploads a sweep may overtake, on
                    \* processes that stop, on chunks lost, on backups taken
    Sees            \* [Keys -> SUBSET FileIds], connetto_visible_files

Manifests == FileIds \X Keys

VARIABLES
    registry,       \* chunk_registry.state, "none" without a row
    manifests,      \* the manifest rows, each a <<file_id, uploaded_by>>
    committed,      \* manifests.committed
    lost,           \* manifests.lost
    stale,          \* uncommitted manifests older than the grace
    chunks,         \* manifest_chunks rows
    stored,         \* manifest_chunks.stored
    accepted_bytes, \* manifests.accepted_bytes
    content_state,  \* what the deployment's setter was last told, per uploader
    store,          \* the hashes whose bytes the store holds
    server,         \* the replicas, one record each
    walk,           \* the upload each device is in
    scenario,       \* the one of Scenarios this is, fixed
    outbox,         \* outbox rows of each device
    heal,           \* those queued to heal a lost file
    refused,        \* those with a permanent refusal
    held,           \* files a device keeps manifest and chunks of
    to_add,         \* files a device's user has still to add
    staged,         \* files a device's user has added
    backup,         \* the last backup of the database
    spent,          \* faults so far, by kind
    gone            \* chunks a fault took from the store, not written since

dbVars == <<registry, manifests, committed, lost, stale, chunks, stored,
            accepted_bytes, content_state>>
deviceVars == <<scenario, outbox, heal, refused, held, to_add, staged>>
faultVars == <<backup, spent, gone>>
fileVars == <<dbVars, store, server, walk, deviceVars, faultVars>>

Size(hashes) == MapThenSumSet(LAMBDA h : chunk_len[h], hashes)

Idle == [stage |-> "idle", file |-> None, at |-> None, fresh |-> {}, needed |-> {},
         hash |-> None, owners |-> {}]
Down == [phase |-> "down", list |-> {}, suspects |-> {}, marks |-> {}, hash |-> None]
Up == [Down EXCEPT !.phase = "serving"]

Serving == {r \in Replicas : server[r].phase \in {"serving", "sweeping", "removed"}}

sendable(d) == outbox[d] \ refused[d]
key(d) == scenario.key[d]
identity_quota == scenario.quota
manifest_key(d) == <<walk[d].file, key(d)>>
Rows == {h \in Hashes : registry[h] # "none"}

\* Row locks transactions hold between two steps.
RegistryLocks == {walk[d].hash : d \in {e \in Devices : walk[e].stage = "account"}}
ManifestLocks(d) ==
    UNION {{manifest_key(e)} \cup {<<walk[e].file, k>> : k \in walk[e].owners} :
           e \in {e \in Devices \ {d} : walk[e].stage \in {"verified", "charged"}}}

\* Chunks of committed manifests visible to a caller.
present_chunk_hashes(k) == UNION {chunks[m] : m \in {m \in committed : m[1] \in Sees[k]}}

steps(d, to) == walk' = [walk EXCEPT ![d] = to]
at_stage(d, stage) == walk[d].stage = stage

\* AttemptOutcome::Retry, and ::Refused which also marks the outbox row.
retries(d) == steps(d, Idle) /\ UNCHANGED deviceVars
refuses(d) ==
    /\ steps(d, Idle)
    /\ refused' = [refused EXCEPT ![d] = @ \cup {walk[d].file}]
    /\ UNCHANGED <<scenario, outbox, heal, held, to_add, staged>>
goes_on(d, to) == steps(d, to) /\ UNCHANGED deviceVars

\* An upload a sweep may overtake: begun past the grace of its manifest or while
\* one of its chunks is being deleted, or outlasting the grace.  How often is
\* bounded.
overtakes(upload) ==
    /\ upload => spent.overtaken < scenario.overtaken
    /\ spent' = IF upload THEN [spent EXCEPT !.overtaken = @ + 1] ELSE spent
-------------------------------------------------------------------------------
(***************************************************************************)
(* The device: what its user adds, what it queues to heal, what it sends.  *)
(***************************************************************************)
\* stage: chunks first, then manifest, outbox row and the user's row in one
\* transaction.
stage(d, f) ==
    /\ f \in to_add[d]
    /\ to_add' = [to_add EXCEPT ![d] = @ \ {f}]
    /\ staged' = [staged EXCEPT ![d] = @ \cup {f}]
    /\ held' = [held EXCEPT ![d] = @ \cup {f}]
    /\ outbox' = [outbox EXCEPT ![d] = @ \cup {f}]
    /\ heal' = [heal EXCEPT ![d] = @ \ {f}]
    /\ UNCHANGED <<dbVars, store, server, walk, scenario, refused, faultVars>>

heals_of_others(d, named) == (named \cap held[d]) \ (outbox[d] \cup staged[d])
heals_to_queue(d, named) == (named \cap held[d]) \ outbox[d]

\* queue_lost: files the synced rows call lost, of which the device keeps every
\* chunk, are queued; heals of files no longer lost are dropped.
queue_lost(d) ==
    LET named == {m[1] : m \in {m \in Manifests : content_state[m] = "lost" /\ m[1] \in Sees[key(d)]}}
        done == heal[d] \ named
        added == heals_to_queue(d, named) IN
    /\ at_stage(d, "idle")
    /\ done \cup added # {}
    /\ outbox' = [outbox EXCEPT ![d] = (@ \ done) \cup added]
    /\ heal' = [heal EXCEPT ![d] = (@ \ done) \cup added]
    /\ refused' = [refused EXCEPT ![d] = @ \ done]
    /\ UNCHANGED <<dbVars, store, server, walk, scenario, held, to_add, staged, faultVars>>

\* flush_outbox after a committed upload: dequeue, then tidy_content evicts what
\* is neither pinned nor unsent.
finish_upload(d) ==
    LET f == walk[d].file IN
    /\ at_stage(d, "done")
    /\ steps(d, Idle)
    /\ outbox' = [outbox EXCEPT ![d] = @ \ {f}]
    /\ heal' = [heal EXCEPT ![d] = @ \ {f}]
    /\ refused' = [refused EXCEPT ![d] = @ \ {f}]
    /\ held' = [held EXCEPT ![d] = @ \cap (Pinned[d] \cup outbox'[d])]
    /\ UNCHANGED <<dbVars, store, server, scenario, to_add, staged, faultVars>>
-------------------------------------------------------------------------------
(***************************************************************************)
(* One upload: declare, send what is needed, commit.  Whatever is not      *)
(* answered 200 or 204 ends the attempt; the next one declares again.      *)
(***************************************************************************)
\* post_intent up to insert_registry_pending_batch: the rows this transaction
\* inserted are invisible to the others, which wait before inserting the same.
upload_one(d, f, r) ==
    /\ at_stage(d, "idle")
    /\ f \in sendable(d) \cap held[d]
    /\ r \in Serving
    /\ \A e \in Devices : walk[e].fresh \cap Chunking[d][f] = {}
    /\ goes_on(d, [Idle EXCEPT !.stage = "declare", !.file = f, !.at = r,
                               !.fresh = Chunking[d][f] \ Rows])
    /\ overtakes(<<f, key(d)>> \in stale \/ \E h \in Chunking[d][f] : registry[h] = "deleting")
    /\ UNCHANGED <<dbVars, store, server, backup, gone>>

\* The rest of insert_manifest: lock the registry rows, refuse a declaration of a
\* chunk being deleted, insert the manifest unless this uploader has one.
insert_manifest(d) ==
    LET m == manifest_key(d)
        declared == Chunking[d][m[1]]
        locked == declared \ walk[d].fresh IN
    /\ at_stage(d, "declare")
    /\ locked \cap RegistryLocks = {}
    /\ \/ /\ \E h \in locked : registry[h] = "deleting"
          /\ retries(d)
          /\ UNCHANGED dbVars
       \/ /\ \A h \in locked : registry[h] # "deleting"
          /\ goes_on(d, [walk[d] EXCEPT !.stage = "answer", !.fresh = {}])
          /\ IF m \in manifests
             THEN UNCHANGED dbVars
             ELSE /\ registry' = [h \in Hashes |->
                                    IF h \in walk[d].fresh THEN "pending" ELSE registry[h]]
                  /\ manifests' = manifests \cup {m}
                  /\ chunks' = [chunks EXCEPT ![m] = declared]
                  /\ stored' = [stored EXCEPT ![m] = {}]
                  /\ accepted_bytes' = [accepted_bytes EXCEPT ![m] = 0]
                  /\ UNCHANGED <<committed, lost, stale, content_state>>
    /\ UNCHANGED <<store, server, faultVars>>

\* needed_hashes, read on another connection after the declaration.
needed_hashes(d) ==
    LET m == manifest_key(d) IN
    /\ at_stage(d, "answer")
    /\ goes_on(d, [walk[d] EXCEPT !.stage = "send",
                     !.needed = Chunking[d][m[1]] \ (present_chunk_hashes(key(d)) \cup stored[m])])
    /\ UNCHANGED <<dbVars, store, server, faultVars>>

\* put_chunk to its store write, under the lock of the registry row.
put_chunk(d, h) ==
    LET m == manifest_key(d) IN
    /\ at_stage(d, "send") /\ h \in walk[d].needed
    /\ h \notin RegistryLocks
    /\ \/ /\ registry[h] \in {"none", "deleting"} \/ m \notin manifests \/ h \notin chunks[m]
          /\ retries(d)
          /\ UNCHANGED <<store, gone>>
       \/ /\ registry[h] \in {"pending", "stored"} /\ m \in manifests /\ h \in chunks[m]
          /\ goes_on(d, [walk[d] EXCEPT !.stage = "account", !.hash = h])
          /\ store' = store \cup {h}
          /\ gone' = gone \ {h}
    /\ UNCHANGED <<dbVars, server, backup, spent>>

\* account_chunk_put: past the ticket's ceiling, the declared length, the
\* transaction rolls back and the bytes stay in the store.
account_chunk_put(d) ==
    LET m == manifest_key(d)
        h == walk[d].hash
        next == [walk[d] EXCEPT !.stage = "send", !.needed = @ \ {h}, !.hash = None]
        ceiling == Size(Chunking[d][m[1]]) IN
    /\ at_stage(d, "account")
    /\ m \notin ManifestLocks(d)
    /\ \/ /\ m \notin manifests \/ h \notin chunks[m] \/ h \in stored[m]
          /\ goes_on(d, next)
          /\ UNCHANGED dbVars
       \/ /\ m \in manifests /\ h \in chunks[m] \ stored[m]
          /\ accepted_bytes[m] > ceiling - chunk_len[h]
          /\ refuses(d)
          /\ UNCHANGED dbVars
       \/ /\ m \in manifests /\ h \in chunks[m] \ stored[m]
          /\ accepted_bytes[m] <= ceiling - chunk_len[h]
          /\ goes_on(d, next)
          /\ stored' = [stored EXCEPT ![m] = @ \cup {h}]
          /\ accepted_bytes' = [accepted_bytes EXCEPT ![m] = @ + chunk_len[h]]
          /\ registry' = [registry EXCEPT ![h] = IF @ = "pending" THEN "stored" ELSE @]
          /\ UNCHANGED <<manifests, committed, lost, stale, chunks, content_state>>
    /\ UNCHANGED <<store, server, faultVars>>

\* post_commit up to all_chunks_satisfied, before any lock.
all_chunks_satisfied(d) ==
    LET m == manifest_key(d) IN
    /\ at_stage(d, "send") /\ walk[d].needed = {}
    /\ IF chunks[m] \ stored[m] \subseteq present_chunk_hashes(key(d))
       THEN goes_on(d, [walk[d] EXCEPT !.stage = "satisfied"])
       ELSE retries(d)
    /\ UNCHANGED <<dbVars, store, server, faultVars>>

\* A commit that finds no manifest: 200 if anyone committed the file, else 404.
missing_is_done(d) == goes_on(d, [walk[d] EXCEPT !.stage = "done"])
missing_manifest(d) ==
    IF \E k \in Keys : <<walk[d].file, k>> \in committed
    THEN goes_on(d, [walk[d] EXCEPT !.stage = "done"])
    ELSE retries(d)

\* load_manifest_locked and verify_file_identity: the row stays locked while the
\* chunks are read back from the store.
load_manifest_locked(d) ==
    LET m == manifest_key(d) IN
    /\ at_stage(d, "satisfied")
    /\ m \notin ManifestLocks(d)
    /\ \/ /\ m \notin manifests
          /\ missing_manifest(d)
          /\ UNCHANGED content_state
       \/ /\ m \in committed
          /\ goes_on(d, [walk[d] EXCEPT !.stage = "done"])
          /\ content_state' = [content_state EXCEPT ![m] = "available"]
       \/ /\ m \in manifests \ committed
          /\ IF chunks[m] \subseteq store
             THEN goes_on(d, [walk[d] EXCEPT !.stage = "verified"])
             ELSE retries(d)
          /\ UNCHANGED content_state
    /\ UNCHANGED <<registry, manifests, committed, lost, stale, chunks, stored,
                   accepted_bytes, store, server, faultVars>>

\* uploader_committed_bytes
committed_bytes(k) == MapThenSumSet(LAMBDA m : Size(chunks[m]), {m \in committed : m[2] = k})

uploader_unserialized(d) == FALSE
\* serialize_uploader's advisory lock, held by this uploader's other commit.
uploader_busy(d) ==
    \E e \in Devices \ {d} : /\ at_stage(e, "charged") /\ key(e) = key(d)
                             /\ walk[e].owners = {} \/ key(e) \in walk[e].owners

\* lost_manifest_callers, locked, then the quota under the uploader's lock; a
\* healer that is no uploader of the file is charged nothing.
charge_uploader(d) ==
    LET m == manifest_key(d)
        owners == {k \in Keys : <<m[1], k>> \in lost}
        charged == owners = {} \/ key(d) \in owners IN
    /\ at_stage(d, "verified")
    /\ \A k \in owners : <<m[1], k>> \notin ManifestLocks(d)
    /\ charged => ~uploader_busy(d)
    /\ IF charged /\ committed_bytes(key(d)) + Size(chunks[m]) > identity_quota
       THEN refuses(d)
       ELSE goes_on(d, [walk[d] EXCEPT !.stage = "charged", !.owners = owners])
    /\ UNCHANGED <<dbVars, store, server, faultVars>>

\* The manifests a commit makes available: the committer's, or every lost one of
\* the file; and those whose uploaders' rows are told.
restored(d) == IF walk[d].owners = {} THEN {manifest_key(d)}
               ELSE {m \in lost : m[1] = walk[d].file}
tells_committer(d) == {manifest_key(d)} \cap restored(d)
callers_told(d) == restored(d)

\* commit_manifest_atomic: flip the manifest, or heal every lost manifest of the
\* file under the committer's chunks and drop the committer's own.
commit_manifest_atomic(d) ==
    LET m == manifest_key(d)
        of_file == {x \in lost : x[1] = m[1]}
        replaced == {<<m[1], k>> : k \in walk[d].owners \ {key(d)}}
        dropped == IF walk[d].owners = {} THEN {} ELSE {m} \ of_file IN
    /\ at_stage(d, "charged")
    /\ goes_on(d, [walk[d] EXCEPT !.stage = "done", !.owners = {}])
    /\ committed' = committed \cup restored(d)
    /\ lost' = lost \ restored(d)
    /\ manifests' = manifests \ dropped
    /\ stale' = stale \ {m}
    /\ chunks' = [x \in Manifests |-> IF x \in dropped THEN {}
                                      ELSE IF x \in replaced THEN chunks[m] ELSE chunks[x]]
    /\ stored' = [x \in Manifests |-> IF x \in dropped THEN {}
                                      ELSE IF x \in of_file THEN chunks'[x] ELSE stored[x]]
    /\ accepted_bytes' = [x \in Manifests |-> IF x \in dropped THEN 0 ELSE accepted_bytes[x]]
    /\ content_state' = [x \in Manifests |-> IF x \in callers_told(d) THEN "available"
                                             ELSE content_state[x]]
    /\ UNCHANGED <<registry, store, server, faultVars>>

\* A request that fails on the way, loses its answer or is refused for now: the
\* transaction it was in rolls back, or had committed.
breaks(d) ==
    /\ ~at_stage(d, "idle")
    /\ spent.breaks < scenario.breaks
    /\ spent' = [spent EXCEPT !.breaks = @ + 1]
    /\ retries(d)
    /\ UNCHANGED <<dbVars, store, server, backup, gone>>

\* Two commits each waiting for the other's row: Postgres aborts one.
deadlock_detected(d) ==
    LET waits(a, b) == /\ at_stage(a, "verified") /\ at_stage(b, "verified") /\ a # b
                       /\ walk[a].file = walk[b].file
                       /\ manifest_key(b) \in lost IN
    /\ \E e \in Devices : waits(d, e) /\ waits(e, d)
    /\ retries(d)
    /\ UNCHANGED <<dbVars, store, server, faultVars>>
-------------------------------------------------------------------------------
(***************************************************************************)
(* The sweep: one task per replica.                                        *)
(***************************************************************************)
moves(r, to) == server' = [server EXCEPT ![r] = to]

\* delete_orphaned: uncommitted manifests past the grace, except lost ones.
orphaned == stale \ (committed \cup lost)

\* What deleting a set of manifests leaves of the tables.
without_manifests(gone_rows) ==
    /\ manifests' = manifests \ gone_rows
    /\ stale' = stale \ gone_rows
    /\ chunks' = [m \in Manifests |-> IF m \in gone_rows THEN {} ELSE chunks[m]]
    /\ stored' = [m \in Manifests |-> IF m \in gone_rows THEN {} ELSE stored[m]]
    /\ accepted_bytes' = [m \in Manifests |-> IF m \in gone_rows THEN 0 ELSE accepted_bytes[m]]

\* The chunks a manifest that stays names.
committed_chunks == UNION {chunks[m] : m \in committed}
referenced_chunks == UNION {chunks[m] : m \in manifests \ orphaned}

\* What the pass deletes, after marking: all marked rows, those of a pass that did
\* not get to them included.
newly_marked(unreferenced) == unreferenced
list_deleting_hashes(unreferenced) == unreferenced \cup {h \in Hashes : registry[h] = "deleting"}

\* prepare_sweep, in one transaction under the locks of its candidates.
prepare_sweep(r) ==
    LET unreferenced == {h \in Rows \ referenced_chunks : registry[h] # "deleting"}
        deleting == list_deleting_hashes(unreferenced) IN
    /\ server[r].phase = "serving"
    /\ unreferenced \cap RegistryLocks = {}
    /\ orphaned \cap ManifestLocks(None) = {}
    /\ without_manifests(orphaned)
    /\ registry' = [h \in Hashes |-> IF h \in unreferenced THEN "deleting" ELSE registry[h]]
    /\ moves(r, IF deleting = {} THEN Up ELSE [Up EXCEPT !.phase = "sweeping", !.list = deleting])
    /\ UNCHANGED <<committed, lost, content_state, store, walk, deviceVars, faultVars>>

\* A deletion the store refuses leaves the row to the next sweep.
deletion_refused(r, h) == moves(r, [server[r] EXCEPT !.list = @ \ {h}])

\* delete_store_then_records, one hash at a time: bytes first, then the row.
delete_chunk(r) ==
    /\ server[r].phase = "sweeping"
    /\ \/ /\ server[r].list = {}
          /\ moves(r, Up)
          /\ UNCHANGED <<store, spent>>
       \/ \E h \in server[r].list :
          /\ store' = store \ {h}
          /\ moves(r, [server[r] EXCEPT !.phase = "removed", !.hash = h, !.list = @ \ {h}])
          /\ UNCHANGED spent
       \/ \E h \in server[r].list :
          /\ spent.breaks < scenario.breaks
          /\ spent' = [spent EXCEPT !.breaks = @ + 1]
          /\ deletion_refused(r, h)
          /\ UNCHANGED store
    /\ UNCHANGED <<dbVars, walk, deviceVars, backup, gone>>

keeps_row(h) == registry' = [registry EXCEPT ![h] = "deleting"]
deletes_row(h) == registry' = [registry EXCEPT ![h] = "none"]

\* The row goes whatever its state, also between the two statements of a
\* declaration that has seen it.
delete_registry_row(r) ==
    LET h == server[r].hash IN
    /\ server[r].phase = "removed"
    /\ h \notin RegistryLocks
    /\ deletes_row(h)
    /\ moves(r, [server[r] EXCEPT !.phase = "sweeping", !.hash = None])
    /\ UNCHANGED <<manifests, committed, lost, stale, chunks, stored, accepted_bytes,
                   content_state, store, walk, deviceVars, faultVars>>

\* A manifest's age passes the grace, between two attempts or during one that
\* outlasts it.
passes_grace(m) ==
    LET sending == \E d \in Devices : ~at_stage(d, "idle") /\ manifest_key(d) = m IN
    /\ m \in manifests \ (stale \cup committed \cup lost)
    /\ stale' = stale \cup {m}
    /\ overtakes(sending)
    /\ UNCHANGED <<registry, manifests, committed, lost, chunks, stored, accepted_bytes,
                   content_state, store, server, walk, deviceVars, backup, gone>>
-------------------------------------------------------------------------------
(***************************************************************************)
(* reconcile_store, before a replica listens.                              *)
(***************************************************************************)
list_store(r) ==
    /\ server[r].phase = "down"
    /\ moves(r, [Down EXCEPT !.phase = "listed", !.list = store])
    /\ UNCHANGED <<dbVars, store, walk, deviceVars, faultVars>>

\* registry_rows: of the listed chunks without a row, those past the grace are
\* to go; stored rows not listed are to be probed.
read_registry(r) ==
    /\ server[r].phase = "listed"
    /\ \E old \in SUBSET (server[r].list \ Rows) :
          moves(r, [Down EXCEPT !.phase = "claiming", !.list = old,
                      !.suspects = {h \in Hashes : registry[h] = "stored"} \ server[r].list])
    /\ UNCHANGED <<dbVars, store, walk, deviceVars, faultVars>>

\* claim_orphan: the row that makes an intent or a PUT refuse; an insert another
\* transaction has pending is waited for.
claim_orphan(r, h) ==
    /\ server[r].phase = "claiming" /\ h \in server[r].list
    /\ \A d \in Devices : h \notin walk[d].fresh
    /\ IF registry[h] = "none"
       THEN /\ registry' = [registry EXCEPT ![h] = "deleting"]
            /\ moves(r, [server[r] EXCEPT !.phase = "claimed", !.hash = h, !.list = @ \ {h}])
       ELSE /\ moves(r, [server[r] EXCEPT !.list = @ \ {h}])
            /\ UNCHANGED registry
    /\ UNCHANGED <<manifests, committed, lost, stale, chunks, stored, accepted_bytes,
                   content_state, store, walk, deviceVars, faultVars>>

delete_orphan(r) ==
    /\ server[r].phase = "claimed"
    /\ store' = store \ {server[r].hash}
    /\ moves(r, [server[r] EXCEPT !.phase = "cleared"])
    /\ UNCHANGED <<dbVars, walk, deviceVars, faultVars>>

forget_orphan(r) ==
    /\ server[r].phase = "cleared"
    /\ server[r].hash \notin RegistryLocks
    /\ registry' = [registry EXCEPT ![server[r].hash] = "none"]
    /\ moves(r, [server[r] EXCEPT !.phase = "claiming", !.hash = None])
    /\ UNCHANGED <<manifests, committed, lost, stale, chunks, stored, accepted_bytes,
                   content_state, store, walk, deviceVars, faultVars>>

\* stored_rows_naming: manifests committed or lost with a stored row of a
\* missing chunk.
stored_rows_naming(missing) == {m \in committed \cup lost : stored[m] \cap missing # {}}

\* The probe of the suspects.
find_missing(r) ==
    LET missing == server[r].suspects \ store IN
    /\ server[r].phase = "claiming" /\ server[r].list = {}
    /\ moves(r, IF missing = {} THEN Up
                ELSE [Down EXCEPT !.phase = "marking", !.suspects = missing,
                                  !.marks = stored_rows_naming(missing)])
    /\ UNCHANGED <<dbVars, store, walk, deviceVars, faultVars>>

\* mark_lost: one file's manifests, in one transaction.
mark_lost(r, f) ==
    LET missing == server[r].suspects
        named == {m \in server[r].marks : m[1] = f}
        turned == (named \cap manifests) \ lost IN
    /\ server[r].phase = "marking" /\ named # {}
    /\ turned \cap ManifestLocks(None) = {}
    /\ committed' = committed \ turned
    /\ lost' = lost \cup turned
    /\ accepted_bytes' = [m \in Manifests |-> IF m \in turned
                            THEN accepted_bytes[m] - Size(stored[m] \cap missing)
                            ELSE accepted_bytes[m]]
    /\ stored' = [m \in Manifests |-> IF m \in turned THEN stored[m] \ missing ELSE stored[m]]
    /\ content_state' = [m \in Manifests |-> IF m \in turned THEN "lost" ELSE content_state[m]]
    /\ moves(r, [server[r] EXCEPT !.marks = @ \ named])
    /\ UNCHANGED <<registry, manifests, stale, chunks, store, walk, deviceVars, faultVars>>

\* Last, so that a pass stopped part way finds the same chunks again.
unstore_chunks(r) ==
    /\ server[r].phase = "marking" /\ server[r].marks = {}
    /\ stored' = [m \in Manifests |-> stored[m] \ server[r].suspects]
    /\ moves(r, [server[r] EXCEPT !.phase = "unstored"])
    /\ UNCHANGED <<registry, manifests, committed, lost, stale, chunks, accepted_bytes,
                   content_state, store, walk, deviceVars, faultVars>>

mark_registry_pending(r) ==
    LET missing == server[r].suspects IN
    /\ server[r].phase = "unstored"
    /\ missing \cap RegistryLocks = {}
    /\ registry' = [h \in Hashes |-> IF h \in missing /\ registry[h] = "stored"
                                     THEN "pending" ELSE registry[h]]
    /\ moves(r, Up)
    /\ UNCHANGED <<manifests, committed, lost, stale, chunks, stored, accepted_bytes,
                   content_state, store, walk, deviceVars, faultVars>>
-------------------------------------------------------------------------------
(***************************************************************************)
(* Faults: a server process stops, the store loses bytes, the database     *)
(* comes back from a backup.                                               *)
(***************************************************************************)
crash(r) ==
    /\ server[r].phase # "down"
    /\ spent.crashes < scenario.crashes
    /\ spent' = [spent EXCEPT !.crashes = @ + 1]
    /\ moves(r, Down)
    /\ walk' = [d \in Devices |-> IF walk[d].at = r THEN Idle ELSE walk[d]]
    /\ UNCHANGED <<dbVars, store, deviceVars, backup, gone>>

AllDown == \A r \in Replicas : server[r] = Down

loses_bytes(h) ==
    /\ AllDown /\ h \in store
    /\ spent.losses < scenario.losses
    /\ spent' = [spent EXCEPT !.losses = @ + 1]
    /\ store' = store \ {h}
    /\ gone' = gone \cup {h}
    /\ UNCHANGED <<dbVars, server, walk, deviceVars, backup>>

takes_backup ==
    /\ spent.backups < scenario.backups
    /\ spent' = [spent EXCEPT !.backups = @ + 1]
    /\ backup' = dbVars
    /\ UNCHANGED <<dbVars, store, server, walk, deviceVars, gone>>

restores_backup ==
    /\ AllDown /\ spent.backups > spent.restores
    /\ spent' = [spent EXCEPT !.restores = spent.backups]
    /\ registry' = backup[1] /\ manifests' = backup[2] /\ committed' = backup[3]
    /\ lost' = backup[4] /\ stale' = backup[5] /\ chunks' = backup[6]
    /\ stored' = backup[7] /\ accepted_bytes' = backup[8] /\ content_state' = backup[9]
    /\ gone' = gone \cup (UNION {chunks'[m] : m \in committed'} \ store)
    /\ UNCHANGED <<store, server, walk, deviceVars, backup>>
-------------------------------------------------------------------------------
FilesInit ==
    /\ registry = [h \in Hashes |-> "none"]
    /\ manifests = {} /\ committed = {} /\ lost = {} /\ stale = {}
    /\ chunks = [m \in Manifests |-> {}]
    /\ stored = [m \in Manifests |-> {}]
    /\ accepted_bytes = [m \in Manifests |-> 0]
    /\ content_state = [m \in Manifests |-> "none"]
    /\ store = {}
    /\ server = [r \in Replicas |-> Up]
    /\ walk = [d \in Devices |-> Idle]
    /\ scenario \in Scenarios
    /\ to_add = scenario.adds
    /\ outbox = [d \in Devices |-> {}]
    /\ heal = [d \in Devices |-> {}]
    /\ refused = [d \in Devices |-> {}]
    /\ held = [d \in Devices |-> {}]
    /\ staged = [d \in Devices |-> {}]
    /\ backup = <<>>
    /\ spent = [breaks |-> 0, overtaken |-> 0, crashes |-> 0, losses |-> 0, backups |-> 0, restores |-> 0]
    /\ gone = {}

uploads(d) ==
    \/ \E f \in FileIds, r \in Replicas : upload_one(d, f, r)
    \/ insert_manifest(d)
    \/ needed_hashes(d)
    \/ \E h \in Hashes : put_chunk(d, h)
    \/ account_chunk_put(d)
    \/ all_chunks_satisfied(d)
    \/ load_manifest_locked(d)
    \/ charge_uploader(d)
    \/ commit_manifest_atomic(d)
    \/ deadlock_detected(d)
    \/ finish_upload(d)

sweeps(r) == prepare_sweep(r) \/ delete_chunk(r) \/ delete_registry_row(r)

boots(r) ==
    \/ list_store(r)
    \/ read_registry(r)
    \/ \E h \in Hashes : claim_orphan(r, h)
    \/ delete_orphan(r)
    \/ forget_orphan(r)
    \/ find_missing(r)
    \/ \E f \in FileIds : mark_lost(r, f)
    \/ unstore_chunks(r)
    \/ mark_registry_pending(r)

FilesNext ==
    \/ \E d \in Devices : uploads(d) \/ queue_lost(d) \/ breaks(d)
                          \/ \E f \in FileIds : stage(d, f)
    \/ \E r \in Replicas : sweeps(r) \/ boots(r) \/ crash(r)
    \/ \E m \in Manifests : passes_grace(m)
    \/ \E h \in Hashes : loses_bytes(h)
    \/ takes_backup
    \/ restores_backup

FilesSpec ==
    /\ FilesInit
    /\ [][FilesNext]_fileVars
    /\ \A d \in Devices : /\ WF_fileVars(uploads(d)) /\ WF_fileVars(queue_lost(d))
                          /\ SF_fileVars(charge_uploader(d))
    /\ \A r \in Replicas : WF_fileVars(sweeps(r) \/ boots(r))
    /\ SF_fileVars(\E m \in Manifests : passes_grace(m))
-------------------------------------------------------------------------------
\* While a server answers, every chunk a manifest records as stored is in the
\* store, and every chunk of a committed file is there unless a fault took it:
\* the sweep and the boot's deletions never take a chunk an upload was told is
\* in, or was let off sending (put_chunk, commit_manifest_atomic,
\* prepare_sweep, reconcile_store).
ServedHeld ==
    Serving # {} => \A m \in manifests :
        /\ stored[m] \subseteq store
        /\ m \in committed => chunks[m] \subseteq store \cup gone

\* A device keeps the bytes of what it has not sent, and what left its outbox
\* is on the server: a file its user added is in the outbox or committed under
\* somebody, or was and got lost, whatever answers the device lost
\* (flush_outbox, evict_uncovered).
NothingUnsentDropped ==
    \A d \in Devices : /\ outbox[d] \subseteq held[d]
                       /\ spent.restores = 0 =>
                            \A f \in staged[d] \ outbox[d] :
                                \E k \in Keys : <<f, k>> \in committed \cup lost

\* The uploader's rows say available of exactly the committed manifests and
\* lost of exactly the lost ones, after commits, heals on behalf of others,
\* stops in the middle of the boot's marking and restores
\* (mark_content_available, mark_content_lost).
ToldTruth ==
    \A m \in Manifests : /\ content_state[m] = "available" <=> m \in committed
                         /\ content_state[m] = "lost" <=> m \in lost

\* No uploader's committed bytes pass the quota, though two devices of one
\* uploader read the total and commit at the same time (serialize_uploader).
\* Losses are left out: a heal by another device restores its owner's bytes and
\* charges nothing.
QuotaHeld ==
    spent.losses + spent.restores = 0 =>
        \A k \in Keys : committed_bytes(k) <= identity_quota

\* An upload that no retry completes: the uploader's manifest names other
\* chunks than the device cuts, or a chunk counts as present
\* and its bytes are gone (the files_dedup_lost run).
stuck(d, f) ==
    \/ chunks[<<f, key(d)>>] \notin {{}, Chunking[d][f]}
    \/ (Chunking[d][f] \cap present_chunk_hashes(key(d))) \ store # {}

\* Every file a device has to send is sent or refused, however the attempts
\* interleave with the sweep, the boot and the other device, except the two
\* kinds that are stuck (drive_outbox).
OutboxDrains ==
    \A d \in Devices : sendable(d) # {} ~> \A f \in sendable(d) : stuck(d, f)

\* Bytes in the store no manifest names.
leftovers == (store \cap Rows) \ UNION {chunks[m] : m \in manifests}

\* Registered bytes no manifest names any more are eventually deleted, or named
\* again, through deletions the store refuses and stops in the middle of a pass
\* (sweep, list_deleting_hashes).
LeftoversSwept == leftovers # {} ~> leftovers = {}

\* A file the boot marked lost is restored for its uploaders as long as some
\* device that sees its row keeps the bytes and is not refused, except when the
\* device's upload is stuck (queue_lost, restore_lost_manifests).
LostHeals ==
    \A f \in FileIds :
        LET heals(d) == f \in (held[d] \cap Sees[key(d)]) \ refused[d] /\ ~stuck(d, f)
            healable == /\ \E k \in Keys : <<f, k>> \in lost
                        /\ \E d \in Devices : heals(d) IN
        healable ~> ~healable

\* Once the server answers, no committed manifest names a chunk whose bytes are
\* gone: the boot marks every such manifest lost (reconcile_store).
BootFindsLosses ==
    Serving # {} => \A m \in committed : chunks[m] \subseteq store
=============================================================================
