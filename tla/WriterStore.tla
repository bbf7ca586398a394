------------------------------ MODULE WriterStore ------------------------------
(***************************************************************************)
(* The writer tables of connetto-server and the transactions that touch    *)
(* them: `_connetto_writers` (one row per writer: frontier, head, retired) *)
(* and `_connetto_settled` (one record per settled entry), as              *)
(* writer_schema.rs declares their statements and write_target.rs combines *)
(* them into `commit` and `settle_refusal`.                                *)
(*                                                                         *)
(* Any number of handlers run at once.  A handler reads a writer's row,    *)
(* builds a SettleSpec from the frontier and head it saw (`calls`), and    *)
(* some time later runs one transaction with that spec, perhaps more than  *)
(* once.  Each transaction is one step: its first statement takes the      *)
(* unique key (writer, seq), which holds every rival until it ends.        *)
(***************************************************************************)
EXTENDS Naturals, FiniteSets, Sequences

CONSTANTS
    Writers,    \* the writers that may come to have a row
    Writes,     \* the changesets, told apart by their bytes
    MaxSeq,     \* bound: the highest sequence an entry may carry
    MaxCalls    \* bound: handlers holding a spec at the same time

ASSUME BoundsAssumption == MaxSeq \in Nat /\ MaxCalls \in Nat

VARIABLES
    rows,       \* writers that have a row
    retired,    \* writers whose retired_at is set
    frontier,   \* writer -> highest settled sequence
    head,       \* writer -> hash of the entry at the frontier
    settled,    \* the `_connetto_settled` records
    journal,    \* the changesets applied to the source tables, in order
    calls       \* the specs handlers hold and have not committed yet

tables == <<rows, retired, frontier, head, settled, journal>>
storeVars == <<rows, retired, frontier, head, settled, journal, calls>>

Outcomes == {"Applied", "Rejected", "Conflict"}
Paths == {"Direct", "Courier"}

(***************************************************************************)
(* The hash chain.  SHA-256 over (previous, seq, changeset) is taken to be *)
(* injective, so a hash is the list of what went into it.                  *)
(***************************************************************************)
Hashes == Seq(Nat \X Writes)
GENESIS == << >>
entry_hash(previous, seq, write) == Append(previous, <<seq, write>>)

(***************************************************************************)
(* What a transaction settles: an entry of a chain, and for a carried copy *)
(* the original entry it stands for (a set of at most one).                *)
(***************************************************************************)
Entries == [writer : Writers, seq : Nat, entry_hash : Hashes, previous_hash : Hashes]

SettleSpecs == [entry : Entries, path : Paths, original : SUBSET Entries, write : Writes]

\* A record's path is only reported to the audit log, so it is left out.
SettledRows == [entry : Entries, outcome : Outcomes]

Applications == [keys : SUBSET (Writers \X Nat), write : Writes]

Key(e) == <<e.writer, e.seq>>

\* The entry that extends writer w by `write`, from the row as it stands.
NextEntry(w, write) ==
    [writer |-> w, seq |-> frontier[w] + 1,
     entry_hash |-> entry_hash(head[w], frontier[w] + 1, write),
     previous_hash |-> head[w]]

\* commit and settle_refusal drop an original that is the entry itself.
OriginalOf(spec) == {o \in spec.original : Key(o) # Key(spec.entry)}

Held(e) == \E r \in settled : Key(r.entry) = Key(e)

-------------------------------------------------------------------------------
StoreInit ==
    /\ rows = {}
    /\ retired = {}
    /\ frontier = [w \in Writers |-> 0]
    /\ head = [w \in Writers |-> GENESIS]
    /\ settled = {}
    /\ journal = << >>
    /\ calls = {}

(***************************************************************************)
(* Statements on `_connetto_writers`.                                      *)
(***************************************************************************)
\* `issue` and `insert_key`: a row at frontier 0 (ON CONFLICT DO NOTHING).
issue(w) ==
    /\ w \notin rows
    /\ rows' = rows \cup {w}
    /\ UNCHANGED <<retired, frontier, head, settled, journal>>

\* `insert_retired_key`: a key no session ever bound is retired by a row of its own.
insert_retired_key(w) ==
    /\ w \notin rows
    /\ rows' = rows \cup {w}
    /\ retired' = retired \cup {w}
    /\ UNCHANGED <<frontier, head, settled, journal>>

\* `mark_retired`: only the call that finds the row live sets it.
mark_retired(w) ==
    /\ w \in rows \ retired
    /\ retired' = retired \cup {w}
    /\ UNCHANGED <<rows, frontier, head, settled, journal>>

AdvanceableAnyway(es) == \A e \in es : e.writer \in rows

\* `advance` on each entry: UPDATE ... WHERE frontier = seq - 1.
Advanceable(es) == \A e \in es : e.writer \in rows /\ frontier[e.writer] = e.seq - 1

advance_frontier(es) ==
    /\ Advanceable(es)
    /\ frontier' = [w \in Writers |->
            IF \E e \in es : e.writer = w THEN frontier[w] + 1 ELSE frontier[w]]

advance_headless(es) == advance_frontier(es) /\ UNCHANGED head

advance(es) ==
    /\ advance_frontier(es)
    /\ head' = [w \in Writers |->
            IF \E e \in es : e.writer = w
            THEN (CHOOSE e \in es : e.writer = w).entry_hash ELSE head[w]]

\* `prune`: the records a writer says it has seen answered, up to `through`.
prune(w, through) ==
    /\ settled' = {r \in settled : r.entry.writer # w \/ r.entry.seq > through}
    /\ UNCHANGED <<rows, retired, frontier, head, journal>>

\* `prune_all`: every record of a writer that will not ask again.
prune_all(w) ==
    /\ settled' = {r \in settled : r.entry.writer # w}
    /\ UNCHANGED <<rows, retired, frontier, head, journal>>

(***************************************************************************)
(* The transaction bodies of `commit` and `settle_refusal`.                *)
(***************************************************************************)
Record(e, outcome) == [entry |-> e, outcome |-> outcome]

Originals(spec, outcome) == {Record(o, outcome) : o \in OriginalOf(spec)}

\* The entry is new and so is its original: both settle with one outcome.
SettleFresh(spec, outcome) ==
    /\ ~Held(spec.entry)
    /\ \A o \in OriginalOf(spec) : ~Held(o)
    /\ advance({spec.entry} \cup OriginalOf(spec))
    /\ settled' = settled \cup {Record(spec.entry, outcome)}
                          \cup Originals(spec, outcome)
    /\ UNCHANGED <<rows, retired>>

\* commit: the changeset was probed and applied, or it met a stale version.
CommitApplied(spec) ==
    /\ SettleFresh(spec, "Applied")
    /\ journal' = Append(journal,
            [keys |-> {Key(e) : e \in {spec.entry} \cup OriginalOf(spec)},
             write |-> spec.write])

CommitConflict(spec) ==
    /\ SettleFresh(spec, "Conflict")
    /\ UNCHANGED journal

\* settle_refusal: a terminal outcome with no changeset applied, a refusal or
\* what the original of a carried copy was answered before.
SettleRefusal(spec, outcome) ==
    /\ SettleFresh(spec, outcome)
    /\ UNCHANGED journal

\* Both: the original settled already, so the copy takes its outcome unapplied.
CopyOriginal(spec) ==
    /\ ~Held(spec.entry)
    /\ \E o \in OriginalOf(spec), r \in settled :
            /\ Key(r.entry) = Key(o)
            /\ settled' = settled \cup {Record(spec.entry, r.outcome)}
    /\ advance({spec.entry})
    /\ UNCHANGED <<rows, retired, journal>>

-------------------------------------------------------------------------------
(***************************************************************************)
(* Handlers.  A spec is built from a row read; a carried copy then reads   *)
(* the row of its original; a courier reads the row once and chains the    *)
(* rest of its range from the hashes it computes itself.                   *)
(***************************************************************************)
SpecOf(entry, path, write) ==
    [entry |-> entry, path |-> path, original |-> {}, write |-> write]

\* A handler goes on with another spec; a second one may hold the old one too.
Exchange(spec, new) ==
    /\ calls' \in {calls \cup {new}, (calls \ {spec}) \cup {new}}
    /\ Cardinality(calls') <= MaxCalls

\* handle_mutation and courier_deliver: the next entry of the row as it stands.
ReadRow(w, path, write) ==
    /\ w \in rows /\ frontier[w] < MaxSeq
    /\ path = "Courier" => w \notin retired
    /\ Cardinality(calls) < MaxCalls
    /\ calls' = calls \cup {SpecOf(NextEntry(w, write), path, write)}
    /\ UNCHANGED tables

\* new_write and courier_original: the provenance names the next entry of `o`.
ReadOriginal(spec, o) ==
    /\ spec.original = {}
    /\ o \in rows /\ frontier[o] < MaxSeq
    /\ Exchange(spec, [spec EXCEPT !.original = {NextEntry(o, spec.write)}])
    /\ UNCHANGED tables

\* The handler answers, gives up, or its connection ends.
Drop(spec) ==
    /\ calls' = calls \ {spec}
    /\ UNCHANGED tables

\* One run of `commit` or `settle_refusal`; the handler may run it again.
Transact(spec) ==
    /\ \/ CommitApplied(spec)
       \/ CommitConflict(spec)
       \/ \E outcome \in Outcomes : SettleRefusal(spec, outcome)
       \/ CopyOriginal(spec)
    /\ UNCHANGED calls

\* The entry after e in a courier's range.
Following(e, write) ==
    [writer |-> e.writer, seq |-> e.seq + 1,
     entry_hash |-> entry_hash(e.entry_hash, e.seq + 1, write),
     previous_hash |-> e.entry_hash]

\* courier_deliver: the entry settles, or is found settled unforked, and the
\* range goes on; a refusal would have stopped it.
CourierNext(spec, write) ==
    /\ spec.path = "Courier" /\ spec.entry.seq < MaxSeq
    /\ \/ CommitApplied(spec)
       \/ CommitConflict(spec)
       \/ SettleRefusal(spec, "Applied")
       \/ CopyOriginal(spec)
       \/ /\ \E r \in settled : /\ Key(r.entry) = Key(spec.entry)
                                /\ r.entry.entry_hash = spec.entry.entry_hash
          /\ UNCHANGED tables
    /\ \A r \in settled' : Key(r.entry) = Key(spec.entry) => r.outcome # "Rejected"
    /\ Exchange(spec, SpecOf(Following(spec.entry, write), "Courier", write))

\* Handshake pruning, retirement, binding, and the sweep.
Maintain ==
    /\ \E w \in Writers :
            \/ issue(w)
            \/ insert_retired_key(w)
            \/ mark_retired(w)
            \/ \E through \in 1..MaxSeq : prune(w, through)
            \/ prune_all(w)
    /\ UNCHANGED calls

StoreNext ==
    \/ Maintain
    \/ \E w \in Writers, path \in {"Direct", "Courier"}, write \in Writes :
            ReadRow(w, path, write)
    \/ \E spec \in calls :
            \/ \E o \in Writers : ReadOriginal(spec, o)
            \/ Transact(spec)
            \/ \E write \in Writes : CourierNext(spec, write)
            \/ Drop(spec)

StoreSpec == StoreInit /\ [][StoreNext]_storeVars

-------------------------------------------------------------------------------
StoreTypeOK ==
    /\ rows \subseteq Writers
    /\ retired \subseteq rows
    /\ frontier \in [Writers -> Nat]
    /\ head \in [Writers -> Hashes]
    /\ settled \subseteq SettledRows
    /\ journal \in Seq(Applications)
    /\ calls \subseteq SettleSpecs

\* Every settled record lies at or below its writer's frontier, so an insert
\* that wins above it is never a second settlement of a pruned record.
SettledBelowFrontier ==
    \A r \in settled : r.entry.seq \in 1..frontier[r.entry.writer]

\* The primary key: two records never share (writer, seq).
SettledUnique ==
    \A r, s \in settled : Key(r.entry) = Key(s.entry) => r = s

\* At most once: no (writer, seq), an entry's own or the original it restores,
\* is applied to the source tables by two transactions, whatever was pruned,
\* retried or carried in between.
AppliedAtMostOnce ==
    \A i, j \in 1..Len(journal) :
        i # j => journal[i].keys \cap journal[j].keys = {}

\* Each key an application settled lies at or below its writer's frontier.
JournalBelowFrontier ==
    \A i \in 1..Len(journal) : \A k \in journal[i].keys : k[2] <= frontier[k[1]]

\* One chain per writer: a record extends exactly the record below it, and the
\* row's head is the hash of the record at the frontier, although direct
\* handlers and couriers computed their hashes from rows read earlier.
ChainIntact ==
    \A r \in settled :
        /\ r.entry.seq = frontier[r.entry.writer] => head[r.entry.writer] = r.entry.entry_hash
        /\ \A s \in settled :
              /\ s.entry.writer = r.entry.writer
              /\ s.entry.seq = r.entry.seq + 1
              => s.entry.previous_hash = r.entry.entry_hash

\* A spec is never ahead of the chain: if the frontier is still right below it,
\* the head is still the hash it was chained from.
Chained(e) ==
    /\ e.seq \in 1..(frontier[e.writer] + 1)
    /\ frontier[e.writer] = e.seq - 1 => head[e.writer] = e.previous_hash

CallsChained ==
    \A spec \in calls :
        /\ \A e \in {spec.entry} \cup spec.original : Chained(e)
        /\ \A o \in spec.original : spec.original = {o}

\* A settled record is final: a step may prune it but never change it, and
\* frontiers only move up by one.
SettledFinal ==
    /\ \A r \in settled : \A s \in settled' : Key(r.entry) = Key(s.entry) => r = s
    /\ \A w \in Writers : frontier'[w] \in {frontier[w], frontier[w] + 1}
SettledIsFinal == [][SettledFinal]_storeVars
===============================================================================
