--------------------------- MODULE WriterStoreProofs ---------------------------
(***************************************************************************)
(* What the writer tables guarantee for any writers, any changesets and    *)
(* any number of handlers holding specs read at any time.                  *)
(***************************************************************************)
EXTENDS WriterStore, TLAPS

\* The inductive invariant.  At-most-once needs every applied key to lie at or
\* below its frontier; the chain needs every spec in flight to agree with the
\* head as long as the frontier is right below it.
StoreInv ==
    /\ StoreTypeOK
    /\ SettledBelowFrontier
    /\ JournalBelowFrontier
    /\ AppliedAtMostOnce
    /\ CallsChained
    /\ ChainIntact

\* Chaining one more entry onto a hash gives a hash.
LEMMA EntryHashType ==
    ASSUME NEW h \in Hashes, NEW n \in Nat, NEW x \in Writes
    PROVE  entry_hash(h, n, x) \in Hashes
BY DEF entry_hash, Hashes

\* The next entry of a row is an entry.
LEMMA NextEntryType ==
    ASSUME StoreTypeOK, NEW w \in Writers, NEW x \in Writes
    PROVE  /\ NextEntry(w, x) \in Entries
           /\ NextEntry(w, x).writer = w
           /\ NextEntry(w, x).seq = frontier[w] + 1
           /\ NextEntry(w, x).previous_hash = head[w]
           /\ NextEntry(w, x).entry_hash = entry_hash(head[w], frontier[w] + 1, x)
<1>1. frontier[w] \in Nat /\ head[w] \in Hashes
  BY DEF StoreTypeOK
<1>2. entry_hash(head[w], frontier[w] + 1, x) \in Hashes
  BY <1>1, EntryHashType
<1> QED
  BY <1>1, <1>2 DEF NextEntry, Entries

\* The entries a transaction advances: one per writer.
LEMMA AdvancedEntries ==
    ASSUME StoreTypeOK, CallsChained, NEW spec \in calls,
           Advanceable({spec.entry} \cup OriginalOf(spec))
    PROVE  \A e, f \in {spec.entry} \cup OriginalOf(spec) :
              /\ e \in Entries
              /\ e.writer \in rows
              /\ e.seq \in Nat /\ e.seq >= 1
              /\ frontier[e.writer] = e.seq - 1
              /\ head[e.writer] = e.previous_hash
              /\ e.writer = f.writer => e = f
<1>1. spec \in SettleSpecs
  BY DEF StoreTypeOK
<1>2. OriginalOf(spec) \subseteq spec.original
  BY DEF OriginalOf
<1>3. \A e \in {spec.entry} \cup OriginalOf(spec) :
         /\ e \in Entries /\ e.writer \in rows /\ e.seq \in Nat /\ e.seq >= 1
         /\ frontier[e.writer] = e.seq - 1
         /\ head[e.writer] = e.previous_hash
  BY <1>1, <1>2 DEF SettleSpecs, Entries, CallsChained, Chained, Advanceable
<1>4. \A o \in OriginalOf(spec) : o.writer # spec.entry.writer
  BY <1>3 DEF OriginalOf, Key
<1>5. \A o, p \in OriginalOf(spec) : o = p
  BY <1>2 DEF CallsChained
<1> QED
  BY <1>3, <1>4, <1>5

\* What advancing a set of entries, one per writer, does to the rows.
LEMMA AdvanceEffect ==
    ASSUME StoreTypeOK, NEW es, es \subseteq Entries,
           \A e, f \in es : e.writer = f.writer => e = f,
           \A e \in es : e.seq \in Nat /\ e.seq >= 1,
           advance(es)
    PROVE  /\ frontier' \in [Writers -> Nat]
           /\ head' \in [Writers -> Hashes]
           /\ \A w \in Writers : \/ /\ frontier'[w] = frontier[w] /\ head'[w] = head[w]
                                    /\ \A e \in es : e.writer # w
                                 \/ \E e \in es : /\ e.writer = w
                                                  /\ frontier'[w] = frontier[w] + 1
                                                  /\ frontier'[w] = e.seq
                                                  /\ head'[w] = e.entry_hash
<1>1. \A e \in es : e.writer \in Writers /\ e.entry_hash \in Hashes /\ frontier[e.writer] = e.seq - 1
  BY DEF Entries, advance, advance_frontier, Advanceable
<1>2. ASSUME NEW w \in Writers
      PROVE  \/ /\ frontier'[w] = frontier[w] /\ head'[w] = head[w]
                /\ \A e \in es : e.writer # w
             \/ \E e \in es : /\ e.writer = w
                              /\ frontier'[w] = frontier[w] + 1
                              /\ frontier'[w] = e.seq
                              /\ head'[w] = e.entry_hash
  <2>1. CASE \A e \in es : e.writer # w
    BY <2>1 DEF advance, advance_frontier
  <2>2. CASE \E e \in es : e.writer = w
    <3>1. PICK e \in es : e.writer = w
      BY <2>2
    <3>2. (CHOOSE f \in es : f.writer = w) = e
      BY <3>1
    <3>3. frontier'[w] = frontier[w] + 1 /\ head'[w] = e.entry_hash
      BY <3>1, <3>2 DEF advance, advance_frontier
    <3>4. frontier[w] = e.seq - 1 /\ e.seq \in Nat /\ e.seq >= 1
      BY <3>1, <1>1
    <3> QED
      BY <3>1, <3>3, <3>4
  <2> QED
    BY <2>1, <2>2
<1>3. \A w \in Writers : frontier'[w] \in Nat /\ head'[w] \in Hashes
  BY <1>1, <1>2 DEF StoreTypeOK
<1>4. frontier' = [w \in Writers |-> frontier'[w]] /\ head' = [w \in Writers |-> head'[w]]
  BY DEF advance, advance_frontier
<1> QED
  BY <1>2, <1>3, <1>4

\* Settling entries that extend their writers by one keeps the records below
\* the frontiers, the chains intact and the specs in flight chained.
LEMMA Extension ==
    ASSUME StoreInv, NEW es, es \subseteq Entries,
           \A e, f \in es : /\ e.writer = f.writer => e = f
                            /\ e.seq \in Nat /\ e.seq >= 1
                            /\ frontier[e.writer] = e.seq - 1
                            /\ head[e.writer] = e.previous_hash,
           NEW fresh, fresh \subseteq SettledRows, \A r \in fresh : r.entry \in es,
           settled' = settled \cup fresh,
           advance(es)
    PROVE  /\ frontier' \in [Writers -> Nat] /\ head' \in [Writers -> Hashes]
           /\ \A w \in Writers : frontier[w] <= frontier'[w]
           /\ settled' \subseteq SettledRows
           /\ SettledBelowFrontier'
           /\ ChainIntact'
           /\ \A e \in Entries : Chained(e) => Chained(e)'
           /\ \A e \in es : e.seq = frontier'[e.writer] /\ head'[e.writer] = e.entry_hash
<1>1. /\ frontier' \in [Writers -> Nat]
      /\ head' \in [Writers -> Hashes]
      /\ \A w \in Writers : \/ /\ frontier'[w] = frontier[w] /\ head'[w] = head[w]
                               /\ \A e \in es : e.writer # w
                            \/ \E e \in es : /\ e.writer = w
                                             /\ frontier'[w] = frontier[w] + 1
                                             /\ frontier'[w] = e.seq
                                             /\ head'[w] = e.entry_hash
  BY AdvanceEffect DEF StoreInv
<1>2. frontier \in [Writers -> Nat]
  BY DEF StoreInv, StoreTypeOK
<1>3. \A e \in es : /\ e.writer \in Writers
                    /\ e.seq = frontier'[e.writer]
                    /\ head'[e.writer] = e.entry_hash
                    /\ e.seq = frontier[e.writer] + 1
  BY <1>1, <1>2 DEF Entries
<1>4. \A w \in Writers : frontier[w] <= frontier'[w]
  BY <1>1, <1>2
<1>5. settled' \subseteq SettledRows
  BY DEF StoreInv, StoreTypeOK
<1>6. \A r \in settled : /\ r.entry.writer \in Writers /\ r.entry.seq \in Nat
                         /\ r.entry.seq >= 1
                         /\ r.entry.seq <= frontier[r.entry.writer]
  BY <1>2 DEF StoreInv, StoreTypeOK, SettledBelowFrontier, SettledRows, Entries
<1>7. SettledBelowFrontier'
  <2> SUFFICES ASSUME NEW r \in settled'
               PROVE  r.entry.seq \in 1..frontier'[r.entry.writer]
    BY DEF SettledBelowFrontier
  <2>1. CASE r \in settled
    BY <2>1, <1>1, <1>2, <1>4, <1>6
  <2>2. CASE r \in fresh
    BY <2>2, <1>1, <1>3
  <2> QED
    BY <2>1, <2>2
<1>8. ChainIntact'
  <2>1. ASSUME NEW r \in settled', r.entry.seq = frontier'[r.entry.writer]
        PROVE  head'[r.entry.writer] = r.entry.entry_hash
    <3>1. CASE r \in settled
      <4>1. frontier'[r.entry.writer] = frontier[r.entry.writer]
        BY <2>1, <3>1, <1>1, <1>2, <1>4, <1>6
      <4>2. head'[r.entry.writer] = head[r.entry.writer]
        BY <4>1, <3>1, <1>1, <1>2, <1>6
      <4> QED
        BY <4>1, <4>2, <2>1, <3>1 DEF StoreInv, ChainIntact
    <3>2. CASE r \in fresh
      BY <3>2, <1>3
    <3> QED
      BY <3>1, <3>2
  <2>2. ASSUME NEW r \in settled', NEW s \in settled',
               s.entry.writer = r.entry.writer, s.entry.seq = r.entry.seq + 1
        PROVE  s.entry.previous_hash = r.entry.entry_hash
    <3>1. CASE r \in settled /\ s \in settled
      BY <2>2, <3>1 DEF StoreInv, ChainIntact
    <3>2. CASE r \in settled /\ s \in fresh
      <4>1. r.entry.seq = frontier[r.entry.writer]
        BY <2>2, <3>2, <1>2, <1>3, <1>6
      <4>2. head[r.entry.writer] = r.entry.entry_hash
        BY <4>1, <3>2 DEF StoreInv, ChainIntact
      <4> QED
        BY <4>2, <2>2, <3>2
    <3>3. CASE r \in fresh
      <4>1. r.entry.seq = frontier'[r.entry.writer] /\ r.entry.writer \in Writers
        BY <3>3, <1>3
      <4>2. s.entry.seq <= frontier'[r.entry.writer]
        BY <1>7, <2>2 DEF SettledBelowFrontier
      <4>3. frontier'[r.entry.writer] \in Nat
        BY <4>1, <1>1
      <4> QED
        BY <4>1, <4>2, <4>3, <2>2
    <3> QED
      BY <3>1, <3>2, <3>3
  <2> QED
    BY <2>1, <2>2 DEF ChainIntact
<1>9. ASSUME NEW e \in Entries, Chained(e)
      PROVE  Chained(e)'
  BY <1>1, <1>2, <1>9 DEF Chained, Entries
<1> QED
  BY <1>1, <1>3, <1>4, <1>5, <1>7, <1>8, <1>9

\* What every transaction that settles something leaves behind.
Settling(spec) ==
    /\ rows' = rows /\ retired' = retired
    /\ frontier' \in [Writers -> Nat] /\ head' \in [Writers -> Hashes]
    /\ \A w \in Writers : frontier[w] <= frontier'[w]
    /\ settled' \subseteq SettledRows
    /\ SettledBelowFrontier'
    /\ ChainIntact'
    /\ \A e \in Entries : Chained(e) => Chained(e)'
    /\ spec.entry.seq = frontier'[spec.entry.writer]
    /\ head'[spec.entry.writer] = spec.entry.entry_hash

\* SettleFresh is such a transaction, and the keys it settles were all above
\* their frontiers before and lie at them after.
LEMMA SettleFreshStep ==
    ASSUME StoreInv, NEW spec \in calls, NEW outcome \in Outcomes,
           SettleFresh(spec, outcome)
    PROVE  /\ Settling(spec)
           /\ \A e \in {spec.entry} \cup OriginalOf(spec) :
                 /\ e \in Entries
                 /\ e.seq = frontier[e.writer] + 1
                 /\ e.seq = frontier'[e.writer]
<1> DEFINE es == {spec.entry} \cup OriginalOf(spec)
           fresh == {Record(spec.entry, outcome)} \cup Originals(spec, outcome)
<1>1. advance(es) /\ Advanceable(es)
  BY DEF SettleFresh, advance, advance_frontier
<1>2. \A e, f \in es : /\ e \in Entries
                       /\ e.writer = f.writer => e = f
                       /\ e.seq \in Nat /\ e.seq >= 1
                       /\ frontier[e.writer] = e.seq - 1
                       /\ head[e.writer] = e.previous_hash
  BY <1>1, AdvancedEntries DEF StoreInv
<1>3. spec.path \in Paths
  BY DEF StoreInv, StoreTypeOK, SettleSpecs
<1>4. fresh \subseteq SettledRows /\ \A r \in fresh : r.entry \in es
  BY <1>2, <1>3 DEF Record, Originals, SettledRows, Paths
<1>5. settled' = settled \cup fresh /\ rows' = rows /\ retired' = retired
  BY DEF SettleFresh
<1> HIDE DEF es, fresh
<1>6. /\ frontier' \in [Writers -> Nat] /\ head' \in [Writers -> Hashes]
      /\ \A w \in Writers : frontier[w] <= frontier'[w]
      /\ settled' \subseteq SettledRows
      /\ SettledBelowFrontier'
      /\ ChainIntact'
      /\ \A e \in Entries : Chained(e) => Chained(e)'
      /\ \A e \in es : e.seq = frontier'[e.writer] /\ head'[e.writer] = e.entry_hash
  BY <1>1, <1>2, <1>4, <1>5, Extension, ZenonT(60)
<1>7. spec.entry \in es
  BY DEF es
<1>8. \A e \in es : e.seq = frontier[e.writer] + 1
  BY <1>2 DEF StoreInv, StoreTypeOK, Entries
<1> QED
  BY <1>2, <1>5, <1>6, <1>7, <1>8 DEF Settling, es

\* So is copying the outcome of a settled original.
LEMMA CopyOriginalStep ==
    ASSUME StoreInv, NEW spec \in calls, CopyOriginal(spec)
    PROVE  Settling(spec) /\ journal' = journal
<1>1. PICK r \in settled : settled' = settled \cup {Record(spec.entry, r.outcome)}
  BY DEF CopyOriginal
<1> DEFINE fresh == {Record(spec.entry, r.outcome)}
           es == {spec.entry}
<1>2. advance(es) /\ rows' = rows /\ retired' = retired /\ journal' = journal
  BY DEF CopyOriginal
<1>3. spec.entry \in Entries /\ spec.path \in Paths /\ r.outcome \in Outcomes
  BY DEF StoreInv, StoreTypeOK, SettleSpecs, SettledRows
<1>4. /\ spec.entry.seq \in Nat /\ spec.entry.seq >= 1
      /\ frontier[spec.entry.writer] = spec.entry.seq - 1
      /\ head[spec.entry.writer] = spec.entry.previous_hash
  BY <1>2, <1>3 DEF StoreInv, CallsChained, Chained, advance, advance_frontier, Advanceable, Entries
<1>5. fresh \subseteq SettledRows /\ (\A q \in fresh : q.entry \in es) /\ es \subseteq Entries
  BY <1>3 DEF Record, SettledRows
<1>6. \A e, f \in es : /\ e.writer = f.writer => e = f
                       /\ e.seq \in Nat /\ e.seq >= 1
                       /\ frontier[e.writer] = e.seq - 1
                       /\ head[e.writer] = e.previous_hash
  BY <1>4
<1>7. settled' = settled \cup fresh
  BY <1>1
<1>8. spec.entry \in es
  OBVIOUS
<1> HIDE DEF es, fresh
<1>9. /\ frontier' \in [Writers -> Nat] /\ head' \in [Writers -> Hashes]
      /\ \A w \in Writers : frontier[w] <= frontier'[w]
      /\ settled' \subseteq SettledRows
      /\ SettledBelowFrontier'
      /\ ChainIntact'
      /\ \A e \in Entries : Chained(e) => Chained(e)'
      /\ \A e \in es : e.seq = frontier'[e.writer] /\ head'[e.writer] = e.entry_hash
  BY <1>2, <1>5, <1>6, <1>7, Extension
<1> QED
  BY <1>2, <1>8, <1>9 DEF Settling

\* The part of the invariant that does not look at the specs in flight.
TablesInv ==
    /\ rows \subseteq Writers /\ retired \subseteq rows
    /\ frontier \in [Writers -> Nat] /\ head \in [Writers -> Hashes]
    /\ settled \subseteq SettledRows
    /\ journal \in Seq(Applications)
    /\ SettledBelowFrontier
    /\ JournalBelowFrontier
    /\ AppliedAtMostOnce
    /\ ChainIntact

\* The keys of the journal are pairs of a writer and a sequence.
LEMMA JournalKeys ==
    ASSUME journal \in Seq(Applications), NEW i \in 1..Len(journal),
           NEW k \in journal[i].keys
    PROVE  k \in Writers \X Nat /\ k[1] \in Writers /\ k[2] \in Nat
<1>1. journal[i] \in Applications
  OBVIOUS
<1>2. journal[i].keys \in SUBSET (Writers \X Nat)
  BY <1>1 DEF Applications
<1>3. k \in Writers \X Nat
  BY <1>2
<1> QED
  BY <1>3

\* A settling transaction that applies nothing keeps the tables' invariant.
LEMMA UnappliedStep ==
    ASSUME StoreInv, NEW spec \in calls, Settling(spec), journal' = journal
    PROVE  TablesInv'
<1>1. journal \in Seq(Applications) /\ frontier \in [Writers -> Nat]
  BY DEF StoreInv, StoreTypeOK
<1>2. JournalBelowFrontier'
  <2> SUFFICES ASSUME NEW i \in 1..Len(journal), NEW k \in journal[i].keys
               PROVE  k[2] <= frontier'[k[1]]
    BY DEF JournalBelowFrontier
  <2>1. k[1] \in Writers /\ k[2] \in Nat
    BY <1>1, JournalKeys
  <2>2. k[2] <= frontier[k[1]]
    BY DEF StoreInv, JournalBelowFrontier
  <2>3. frontier[k[1]] <= frontier'[k[1]] /\ frontier[k[1]] \in Nat /\ frontier'[k[1]] \in Nat
    BY <1>1, <2>1 DEF Settling
  <2> QED
    BY <2>1, <2>2, <2>3
<1>3. AppliedAtMostOnce'
  BY DEF StoreInv, AppliedAtMostOnce
<1> QED
  BY <1>2, <1>3 DEF TablesInv, Settling, StoreInv, StoreTypeOK

\* Applying a changeset keeps it: the keys it settles are new to the journal.
LEMMA AppliedStep ==
    ASSUME StoreInv, NEW spec \in calls, CommitApplied(spec)
    PROVE  TablesInv' /\ Settling(spec)
<1> DEFINE es == {spec.entry} \cup OriginalOf(spec)
           keys == {Key(e) : e \in es}
           item == [keys |-> keys, write |-> spec.write]
<1>1. /\ Settling(spec)
      /\ \A e \in es : /\ e \in Entries
                        /\ e.seq = frontier[e.writer] + 1
                        /\ e.seq = frontier'[e.writer]
  BY SettleFreshStep DEF CommitApplied, Outcomes
<1>2. journal \in Seq(Applications) /\ frontier \in [Writers -> Nat]
  BY DEF StoreInv, StoreTypeOK
<1>3. \A k \in keys : /\ k \in Writers \X Nat
                      /\ k[2] = frontier[k[1]] + 1
                      /\ k[2] = frontier'[k[1]]
  BY <1>1 DEF Key, Entries
<1>4. spec.write \in Writes
  BY DEF StoreInv, StoreTypeOK, SettleSpecs
<1>5. item \in Applications
  BY <1>3, <1>4 DEF Applications
<1>6. journal' = Append(journal, item)
  BY DEF CommitApplied
<1>7. item.keys = keys
  OBVIOUS
<1> HIDE DEF item, keys, es
<1>8. /\ journal' \in Seq(Applications)
      /\ Len(journal') = Len(journal) + 1
      /\ \A i \in 1..Len(journal) : journal'[i] = journal[i]
      /\ journal'[Len(journal) + 1] = item
  BY <1>2, <1>5, <1>6
<1>9. Len(journal) \in Nat
  BY <1>2
<1>10. \A i \in 1..Len(journal) : \A k \in journal[i].keys :
          k[1] \in Writers /\ k[2] \in Nat /\ k[2] <= frontier[k[1]]
  BY <1>2, JournalKeys DEF StoreInv, JournalBelowFrontier
<1>11. JournalBelowFrontier'
  <2> SUFFICES ASSUME NEW i \in 1..(Len(journal) + 1), NEW k \in journal'[i].keys
               PROVE  k[2] <= frontier'[k[1]]
    BY <1>8 DEF JournalBelowFrontier
  <2>1. CASE i \in 1..Len(journal)
    <3>1. k[1] \in Writers /\ k[2] \in Nat /\ k[2] <= frontier[k[1]]
      BY <2>1, <1>8, <1>10
    <3>2. frontier[k[1]] <= frontier'[k[1]] /\ frontier[k[1]] \in Nat /\ frontier'[k[1]] \in Nat
      BY <3>1, <1>1, <1>2 DEF Settling
    <3> QED
      BY <3>1, <3>2
  <2>2. CASE i = Len(journal) + 1
    BY <2>2, <1>1, <1>3, <1>7, <1>8 DEF Settling
  <2> QED
    BY <2>1, <2>2, <1>9
<1>12. \A i \in 1..Len(journal) : journal[i].keys \cap keys = {}
  BY <1>2, <1>3, <1>10
<1>13. AppliedAtMostOnce'
  <2> SUFFICES ASSUME NEW i \in 1..(Len(journal) + 1), NEW j \in 1..(Len(journal) + 1), i # j
               PROVE  journal'[i].keys \cap journal'[j].keys = {}
    BY <1>8 DEF AppliedAtMostOnce
  <2>1. CASE i \in 1..Len(journal) /\ j \in 1..Len(journal)
    BY <2>1, <1>8 DEF StoreInv, AppliedAtMostOnce
  <2>2. CASE i \in 1..Len(journal) /\ j = Len(journal) + 1
    BY <2>2, <1>7, <1>8, <1>12
  <2>3. CASE i = Len(journal) + 1 /\ j \in 1..Len(journal)
    BY <2>3, <1>7, <1>8, <1>12
  <2> QED
    BY <2>1, <2>2, <2>3, <1>9
<1> QED
  BY <1>1, <1>8, <1>11, <1>13, SMTT(60) DEF TablesInv, Settling, StoreInv, StoreTypeOK

\* The invariant splits into the tables' part and the specs in flight.
LEMMA InvParts ==
    StoreInv <=> TablesInv /\ calls \subseteq SettleSpecs /\ CallsChained
BY DEF StoreInv, TablesInv, StoreTypeOK

\* Every transaction keeps the tables' part, whatever spec it runs with.
LEMMA TransactionStep ==
    ASSUME StoreInv, NEW spec \in calls,
           \/ CommitApplied(spec) \/ CommitConflict(spec)
           \/ CopyOriginal(spec) \/ \E outcome \in Outcomes : SettleRefusal(spec, outcome)
    PROVE  TablesInv' /\ Settling(spec)
<1>1. CASE CommitApplied(spec)
  BY <1>1, AppliedStep
<1>2. CASE CommitConflict(spec)
  BY <1>2, SettleFreshStep, UnappliedStep DEF CommitConflict, Outcomes
<1>3. CASE \E outcome \in Outcomes : SettleRefusal(spec, outcome)
  BY <1>3, SettleFreshStep, UnappliedStep DEF SettleRefusal, Outcomes
<1>4. CASE CopyOriginal(spec)
  BY <1>4, CopyOriginalStep, UnappliedStep
<1> QED
  BY <1>1, <1>2, <1>3, <1>4

\* A step that leaves the frontiers and heads alone keeps entries chained.
LEMMA ChainedStable ==
    ASSUME NEW e, frontier' = frontier, head' = head, Chained(e)
    PROVE  Chained(e)'
BY DEF Chained

\* The writer tables' invariant: types, at-most-once and the chain.
THEOREM StoreInvariant == StoreSpec => []StoreInv
<1>1. StoreInit => StoreInv
  <2> SUFFICES ASSUME StoreInit PROVE StoreInv
    OBVIOUS
  <2>1. GENESIS \in Hashes
    BY DEF GENESIS, Hashes
  <2>2. StoreTypeOK
    BY <2>1 DEF StoreInit, StoreTypeOK
  <2> QED
    BY <2>2 DEF StoreInit, StoreInv, SettledBelowFrontier, JournalBelowFrontier,
        AppliedAtMostOnce, CallsChained, ChainIntact
<1>2. StoreInv /\ [StoreNext]_storeVars => StoreInv'
  <2> SUFFICES ASSUME StoreInv, [StoreNext]_storeVars PROVE StoreInv'
    OBVIOUS
  <2>0. TablesInv /\ calls \subseteq SettleSpecs /\ CallsChained /\ StoreTypeOK
    BY InvParts DEF StoreInv
  <2> SUFFICES TablesInv' /\ calls' \subseteq SettleSpecs /\ CallsChained'
    BY DEF StoreInv, TablesInv, StoreTypeOK
  <2>1. CASE Maintain
    <3>1. /\ frontier' = frontier /\ head' = head /\ journal' = journal /\ calls' = calls
          /\ settled' \subseteq settled
          /\ rows' \subseteq Writers /\ retired' \subseteq rows'
      BY <2>1, <2>0, SMTT(60) DEF Maintain, TablesInv, issue, insert_retired_key, mark_retired,
          prune, prune_all
    <3>2. TablesInv'
      BY <3>1, <2>0 DEF TablesInv, SettledBelowFrontier, JournalBelowFrontier,
          AppliedAtMostOnce, ChainIntact
    <3> QED
      BY <3>1, <3>2, <2>0 DEF CallsChained, Chained
  <2>2. ASSUME NEW w \in Writers, NEW path \in {"Direct", "Courier"}, NEW x \in Writes,
               ReadRow(w, path, x)
        PROVE  TablesInv' /\ calls' \subseteq SettleSpecs /\ CallsChained'
    <3> DEFINE spec == SpecOf(NextEntry(w, x), path, x)
    <3>1. UNCHANGED tables /\ calls' = calls \cup {spec}
      BY <2>2 DEF ReadRow
    <3>2. TablesInv'
      BY <3>1, <2>0 DEF tables, TablesInv, SettledBelowFrontier, JournalBelowFrontier,
          AppliedAtMostOnce, ChainIntact
    <3>3. /\ spec.entry = NextEntry(w, x) /\ spec.original = {} /\ spec.path = path
          /\ spec.write = x
      BY DEF SpecOf
    <3>4. spec \in SettleSpecs
      BY <2>0, NextEntryType DEF SpecOf, SettleSpecs, Paths
    <3>5. Chained(NextEntry(w, x))
      BY <2>0, NextEntryType DEF Chained, TablesInv
    <3> HIDE DEF spec
    <3>6. CallsChained'
      BY <3>1, <3>3, <3>5, <2>0, ChainedStable DEF tables, CallsChained
    <3> QED
      BY <3>1, <3>2, <3>4, <3>6, <2>0
  <2>3. ASSUME NEW spec \in calls, NEW o \in Writers, ReadOriginal(spec, o)
        PROVE  TablesInv' /\ calls' \subseteq SettleSpecs /\ CallsChained'
    <3> DEFINE new == [spec EXCEPT !.original = {NextEntry(o, spec.write)}]
    <3>1. UNCHANGED tables /\ calls' \subseteq calls \cup {new}
      BY <2>3 DEF ReadOriginal, Exchange
    <3>2. TablesInv'
      BY <3>1, <2>0 DEF tables, TablesInv, SettledBelowFrontier, JournalBelowFrontier,
          AppliedAtMostOnce, ChainIntact
    <3>3. spec \in SettleSpecs /\ spec.write \in Writes
      BY <2>0 DEF SettleSpecs
    <3>4. /\ NextEntry(o, spec.write) \in Entries
          /\ Chained(NextEntry(o, spec.write))
      BY <3>3, <2>0, NextEntryType DEF Chained, TablesInv
    <3>5. /\ new \in SettleSpecs /\ new.entry = spec.entry
          /\ new.original = {NextEntry(o, spec.write)}
      BY <3>3, <3>4, SMTT(60) DEF SettleSpecs
    <3> HIDE DEF new
    <3>6. CallsChained'
      BY <3>1, <3>4, <3>5, <2>0, ChainedStable DEF tables, CallsChained
    <3> QED
      BY <3>1, <3>2, <3>5, <3>6, <2>0
  <2>4. ASSUME NEW spec \in calls, Transact(spec)
        PROVE  TablesInv' /\ calls' \subseteq SettleSpecs /\ CallsChained'
    <3>1. TablesInv' /\ Settling(spec) /\ calls' = calls
      BY <2>4, TransactionStep DEF Transact
    <3>2. \A c \in calls : \A e \in {c.entry} \cup c.original : e \in Entries
      BY <2>0, SMTT(60) DEF SettleSpecs
    <3>3. CallsChained'
      BY <3>1, <3>2, <2>0 DEF Settling, CallsChained
    <3> QED
      BY <3>1, <3>3, <2>0
  <2>5. ASSUME NEW spec \in calls, NEW x \in Writes, CourierNext(spec, x)
        PROVE  TablesInv' /\ calls' \subseteq SettleSpecs /\ CallsChained'
    <3> DEFINE e == Following(spec.entry, x)
               new == SpecOf(e, "Courier", x)
    <3>1. calls' \subseteq calls \cup {new}
      BY <2>5 DEF CourierNext, Exchange
    <3>2. /\ spec.entry \in Entries
          /\ spec.entry.seq \in Nat /\ spec.entry.seq >= 1 /\ spec.entry.writer \in Writers
          /\ spec.entry.entry_hash \in Hashes
      BY <2>0, SMTT(60) DEF SettleSpecs, Entries, CallsChained, Chained
    <3>3. /\ e \in Entries /\ e.writer = spec.entry.writer /\ e.seq = spec.entry.seq + 1
          /\ e.previous_hash = spec.entry.entry_hash
      BY <3>2, EntryHashType, SMTT(60) DEF Following, Entries
    <3>4. /\ new \in SettleSpecs /\ new.entry = e /\ new.original = {}
      BY <3>3, SMTT(60) DEF SpecOf, SettleSpecs, Paths
    <3>5. /\ TablesInv'
          /\ \A f \in Entries : Chained(f) => Chained(f)'
          /\ spec.entry.seq <= frontier'[spec.entry.writer]
          /\ spec.entry.seq = frontier'[spec.entry.writer] =>
                head'[spec.entry.writer] = spec.entry.entry_hash
      <4>1. CASE \/ CommitApplied(spec) \/ CommitConflict(spec) \/ CopyOriginal(spec)
                 \/ SettleRefusal(spec, "Applied")
        <5>1. TablesInv' /\ Settling(spec)
          BY <4>1, TransactionStep DEF Outcomes
        <5>2. frontier'[spec.entry.writer] \in Nat
          BY <5>1, <3>2, SMTT(60) DEF TablesInv
        <5> QED
          BY <5>1, <5>2, <3>2 DEF Settling
      <4>2. CASE /\ \E r \in settled : /\ Key(r.entry) = Key(spec.entry)
                                       /\ r.entry.entry_hash = spec.entry.entry_hash
                 /\ UNCHANGED tables
        <5>1. PICK r \in settled : /\ Key(r.entry) = Key(spec.entry)
                                  /\ r.entry.entry_hash = spec.entry.entry_hash
          BY <4>2
        <5>2. r.entry.writer = spec.entry.writer /\ r.entry.seq = spec.entry.seq
          BY <5>1 DEF Key
        <5>3. /\ spec.entry.seq <= frontier[spec.entry.writer]
              /\ spec.entry.seq = frontier[spec.entry.writer] =>
                    head[spec.entry.writer] = spec.entry.entry_hash
          BY <5>1, <5>2, <2>0, SMTT(60) DEF TablesInv, SettledBelowFrontier, ChainIntact
        <5>4. TablesInv'
          BY <4>2, <2>0, ZenonT(60) DEF tables, TablesInv, SettledBelowFrontier, JournalBelowFrontier,
              AppliedAtMostOnce, ChainIntact
        <5> QED
          BY <5>3, <5>4, <4>2, ChainedStable DEF tables
      <4> QED
        BY <2>5, <4>1, <4>2, SMTT(60) DEF CourierNext
    <3>6. Chained(e)'
      <4>1. frontier'[spec.entry.writer] \in Nat
        BY <3>2, <3>5 DEF TablesInv
      <4> QED
        BY <4>1, <3>2, <3>3, <3>5 DEF Chained
    <3>7. \A c \in calls : \A f \in {c.entry} \cup c.original : f \in Entries
      BY <2>0 DEF SettleSpecs
    <3> HIDE DEF e, new
    <3>8. CallsChained'
      <4> SUFFICES ASSUME NEW c \in calls'
                   PROVE  /\ \A f \in {c.entry} \cup c.original : Chained(f)'
                          /\ \A o \in c.original : c.original = {o}
        BY DEF CallsChained
      <4>1. CASE c \in calls
        BY <4>1, <3>5, <3>7, <2>0 DEF CallsChained
      <4>2. CASE c = new
        BY <4>2, <3>4, <3>6, SMTT(60)
      <4> QED
        BY <4>1, <4>2, <3>1
    <3> QED
      BY <3>1, <3>4, <3>5, <3>8, <2>0
  <2>6. ASSUME NEW spec \in calls, Drop(spec)
        PROVE  TablesInv' /\ calls' \subseteq SettleSpecs /\ CallsChained'
    BY <2>6, <2>0, ChainedStable, SMTT(60) DEF Drop, tables, TablesInv, SettledBelowFrontier,
        JournalBelowFrontier, AppliedAtMostOnce, ChainIntact, CallsChained
  <2>7. CASE UNCHANGED storeVars
    BY <2>7, <2>0, ChainedStable DEF storeVars, TablesInv, SettledBelowFrontier,
        JournalBelowFrontier, AppliedAtMostOnce, ChainIntact, CallsChained
  <2> QED
    BY <2>1, <2>2, <2>3, <2>4, <2>5, <2>6, <2>7 DEF StoreNext
<1> QED
  BY <1>1, <1>2, PTL DEF StoreSpec

\* Types are kept by every transaction and handler step.
THEOREM StoreTyped == StoreSpec => []StoreTypeOK
BY StoreInvariant, PTL DEF StoreInv

\* However handlers interleave, retry, carry and prune, no entry and no
\* original of a carried copy is ever applied to the source tables twice.
THEOREM AtMostOnce == StoreSpec => []AppliedAtMostOnce
BY StoreInvariant, PTL DEF StoreInv

\* Direct handlers and couriers, each hashing from a row read earlier, extend
\* one chain per writer, whose head the row keeps.
THEOREM OneChain == StoreSpec => []ChainIntact
BY StoreInvariant, PTL DEF StoreInv

\* The records a transaction adds lie right above the frontiers, one per key,
\* and a frontier moves by at most one.
LEMMA AddedRecords ==
    ASSUME StoreInv, NEW spec \in calls,
           \/ CommitApplied(spec) \/ CommitConflict(spec)
           \/ CopyOriginal(spec) \/ \E outcome \in Outcomes : SettleRefusal(spec, outcome)
    PROVE  /\ settled \subseteq settled'
           /\ \A r \in settled' \ settled : r.entry.seq = frontier[r.entry.writer] + 1
           /\ \A r, s \in settled' \ settled : Key(r.entry) = Key(s.entry) => r = s
           /\ \A w \in Writers : frontier'[w] \in {frontier[w], frontier[w] + 1}
<1>0. spec.entry \in Entries /\ frontier \in [Writers -> Nat] /\ Chained(spec.entry)
  BY SMTT(60) DEF StoreInv, StoreTypeOK, SettleSpecs, CallsChained
<1>1. ASSUME NEW outcome \in Outcomes, SettleFresh(spec, outcome)
      PROVE  /\ settled \subseteq settled'
             /\ \A r \in settled' \ settled : r.entry.seq = frontier[r.entry.writer] + 1
             /\ \A r, s \in settled' \ settled : Key(r.entry) = Key(s.entry) => r = s
             /\ \A w \in Writers : frontier'[w] \in {frontier[w], frontier[w] + 1}
  <2>1. \A e \in {spec.entry} \cup OriginalOf(spec) :
           e.seq = frontier[e.writer] + 1
    BY <1>1, SettleFreshStep
  <2>2. \A r \in settled' \ settled :
           \/ r = Record(spec.entry, outcome)
           \/ \E o \in OriginalOf(spec) : r = Record(o, outcome)
    BY <1>1, SMTT(60) DEF SettleFresh, Originals
  <2>3. \A o, p \in OriginalOf(spec) : o = p
    BY DEF StoreInv, CallsChained, OriginalOf
  <2>4. \A o \in OriginalOf(spec) : Key(o) # Key(spec.entry)
    BY DEF OriginalOf
  <2>5. \A e, x : Record(e, x).entry = e
    BY DEF Record
  <2>6. settled \subseteq settled'
    BY <1>1, SMTT(60) DEF SettleFresh
  <2>7. \A w \in Writers : frontier'[w] \in {frontier[w], frontier[w] + 1}
    BY <1>1, SMTT(60) DEF SettleFresh, advance, advance_frontier
  <2>8. \A r \in settled' \ settled : r.entry.seq = frontier[r.entry.writer] + 1
    BY <2>1, <2>2, <2>5, SMTT(60)
  <2>9. \A r, s \in settled' \ settled : Key(r.entry) = Key(s.entry) => r = s
    BY <2>2, <2>3, <2>4, <2>5, SMTT(60)
  <2> QED
    BY <2>6, <2>7, <2>8, <2>9
<1>2. CASE CopyOriginal(spec)
  <2>1. PICK q \in settled : settled' = settled \cup {Record(spec.entry, q.outcome)}
    BY <1>2, SMTT(60) DEF CopyOriginal
  <2>2. spec.entry.seq = frontier[spec.entry.writer] + 1
    BY <1>0, <1>2, SMTT(60) DEF CopyOriginal, advance, advance_frontier, Advanceable, Entries
  <2>3. \A w \in Writers : frontier'[w] \in {frontier[w], frontier[w] + 1}
    BY <1>2 DEF CopyOriginal, advance, advance_frontier
  <2> QED
    BY <2>1, <2>2, <2>3, SMTT(60) DEF Record
<1> QED
  BY <1>1, <1>2 DEF CommitApplied, CommitConflict, SettleRefusal, Outcomes

\* Every other step adds no record and leaves the frontiers alone.
LEMMA RecordSteps ==
    ASSUME StoreInv, [StoreNext]_storeVars
    PROVE  \/ settled' \subseteq settled /\ frontier' = frontier
           \/ \E spec \in calls :
                 \/ CommitApplied(spec) \/ CommitConflict(spec)
                 \/ CopyOriginal(spec) \/ \E outcome \in Outcomes : SettleRefusal(spec, outcome)
<1>1. ASSUME NEW spec \in calls, NEW write \in Writes, CourierNext(spec, write)
      PROVE  \/ UNCHANGED tables
             \/ CommitApplied(spec) \/ CommitConflict(spec)
             \/ CopyOriginal(spec) \/ \E outcome \in Outcomes : SettleRefusal(spec, outcome)
  <2>1. "Applied" \in Outcomes
    BY DEF Outcomes
  <2> QED
    BY <1>1, <2>1 DEF CourierNext
<1>2. ASSUME NEW spec \in calls, Transact(spec)
      PROVE  \/ CommitApplied(spec) \/ CommitConflict(spec)
             \/ CopyOriginal(spec) \/ \E outcome \in Outcomes : SettleRefusal(spec, outcome)
  BY <1>2 DEF Transact
<1>3. CASE Maintain
  BY <1>3 DEF Maintain, issue, insert_retired_key, mark_retired, prune, prune_all
<1> QED
  BY <1>1, <1>2, <1>3, ZenonT(60) DEF StoreNext, ReadRow, ReadOriginal, Drop, tables, storeVars

\* (writer, seq) is a key of the settled records.
THEOREM RecordsUnique == StoreSpec => []SettledUnique
<1>1. StoreInit => SettledUnique
  BY DEF StoreInit, SettledUnique
<1>2. StoreInv /\ SettledUnique /\ [StoreNext]_storeVars => SettledUnique'
  <2> SUFFICES ASSUME StoreInv, SettledUnique, [StoreNext]_storeVars PROVE SettledUnique'
    OBVIOUS
  <2>1. CASE settled' \subseteq settled
    BY <2>1 DEF SettledUnique
  <2>2. ASSUME NEW spec \in calls,
               \/ CommitApplied(spec) \/ CommitConflict(spec)
               \/ CopyOriginal(spec) \/ \E outcome \in Outcomes : SettleRefusal(spec, outcome)
        PROVE  SettledUnique'
    <3>1. /\ \A r \in settled' \ settled : r.entry.seq = frontier[r.entry.writer] + 1
          /\ \A r, s \in settled' \ settled : Key(r.entry) = Key(s.entry) => r = s
      BY <2>2, AddedRecords
    <3>2. \A r \in settled : /\ r.entry.writer \in Writers
                             /\ r.entry.seq <= frontier[r.entry.writer]
                             /\ r.entry.seq \in Nat /\ frontier[r.entry.writer] \in Nat
      BY DEF StoreInv, StoreTypeOK, SettledBelowFrontier, SettledRows, Entries
    <3>3. \A r \in settled : \A s \in settled' \ settled : Key(r.entry) # Key(s.entry)
      BY <3>1, <3>2 DEF Key
    <3> QED
      BY <3>1, <3>3, SMTT(60) DEF SettledUnique
  <2> QED
    BY <2>1, <2>2, RecordSteps
<1> QED
  BY <1>1, <1>2, StoreInvariant, PTL DEF StoreSpec

\* A settled record is pruned or stays as it is: no retry, rival handler or
\* carried copy rewrites an outcome, and frontiers move up one at a time.
THEOREM RecordsFinal == StoreSpec => SettledIsFinal
<1>1. StoreInv /\ SettledUnique /\ [StoreNext]_storeVars => [SettledFinal]_storeVars
  <2> SUFFICES ASSUME StoreInv, SettledUnique, [StoreNext]_storeVars PROVE SettledFinal
    OBVIOUS
  <2>1. CASE settled' \subseteq settled /\ frontier' = frontier
    BY <2>1 DEF SettledUnique, SettledFinal
  <2>2. ASSUME NEW spec \in calls,
               \/ CommitApplied(spec) \/ CommitConflict(spec)
               \/ CopyOriginal(spec) \/ \E outcome \in Outcomes : SettleRefusal(spec, outcome)
        PROVE  SettledFinal
    <3>1. /\ settled \subseteq settled'
          /\ \A r \in settled' \ settled : r.entry.seq = frontier[r.entry.writer] + 1
          /\ \A w \in Writers : frontier'[w] \in {frontier[w], frontier[w] + 1}
      BY <2>2, AddedRecords
    <3>2. \A r \in settled : /\ r.entry.writer \in Writers
                             /\ r.entry.seq <= frontier[r.entry.writer]
                             /\ r.entry.seq \in Nat /\ frontier[r.entry.writer] \in Nat
      BY DEF StoreInv, StoreTypeOK, SettledBelowFrontier, SettledRows, Entries
    <3>3. \A r \in settled : \A s \in settled' \ settled : Key(r.entry) # Key(s.entry)
      BY <3>1, <3>2 DEF Key
    <3> QED
      BY <3>1, <3>3, SMTT(60) DEF SettledUnique, SettledFinal
  <2> QED
    BY <2>1, <2>2, RecordSteps
<1> QED
  BY <1>1, StoreInvariant, RecordsUnique, PTL DEF StoreSpec, SettledIsFinal
===============================================================================
