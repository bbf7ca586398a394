------------------------------ MODULE FeedProofs -------------------------------
(***************************************************************************)
(* What the server settles before it opens the change stream, proved for   *)
(* any number of devices, transactions, faults and crashes: a crash alone  *)
(* never looks like a skipped stretch, and a restore never passes without  *)
(* the logins being revoked.  Neither depends on the devices, so the       *)
(* invariants speak of the database, its copy and the feed's task only.    *)
(***************************************************************************)
EXTENDS Feed, TLAPS

Ends == [timeline : Nat, end : Nat]
DbType == [system : Nat \ {0}, timeline : Nat, ended : SUBSET Ends,
           next : Nat \ {0}, wal : SUBSET Stamped, rows : SUBSET Stamped,
           log : SUBSET Stamped, commit : Nat, epoch : Nat, slot : Nat \ {0}]
CheckType == [system : Nat, gap : Nat, changed : BOOLEAN]
Phases == {"down", "closed"} \cup Settling \cup Streaming

\* The part of the types the arguments need.
FeedTyped ==
    /\ db \in DbType /\ copy \in DbType /\ check \in CheckType
    /\ phase \in Phases /\ at \in Nat /\ resume \in Nat
    /\ faults \in Nat /\ listening \in BOOLEAN /\ owed \in BOOLEAN

-------------------------------------------------------------------------------
(***************************************************************************)
(* Positions are ordered by their commit, then by their place in it.       *)
(***************************************************************************)
\* Every position of a commit is below every position of a later one.
LEMMA PositionsOrdered ==
    ASSUME NEW l \in Nat, NEW m \in Nat, l < m,
           NEW j \in 0..Rows + 1, NEW k \in 0..Rows + 1
    PROVE  Position(l, j) < Position(m, k)
<1> DEFINE w == Rows + 2
<1>1. w \in Nat /\ j < w
  BY FeedAssumptions
<1>2. l + 1 <= m
  OBVIOUS
<1>3. (l + 1) * w <= m * w
  <2>1. PICK d \in Nat : m = l + 1 + d
    <3>1. m - (l + 1) \in Nat /\ m = l + 1 + (m - (l + 1))
      BY <1>2
    <3> QED BY <3>1
  <2>2. m * w = (l + 1) * w + d * w
    BY <2>1, <1>1
  <2>3. d * w \in Nat /\ (l + 1) * w \in Nat
    BY <2>1, <1>1
  <2> QED BY <2>2, <2>3
<1>4. (l + 1) * w = l * w + w
  BY <1>1
<1>5. l * w \in Nat /\ m * w \in Nat
  BY <1>1
<1>6. l * w + j < m * w + k
  BY <1>1, <1>3, <1>4, <1>5
<1> QED BY <1>6 DEF Position

\* The commit at a write position is not the commit at another.
LEMMA CommitsDistinct ==
    ASSUME NEW l \in Nat, NEW m \in Nat, commit_position(l) = commit_position(m)
    PROVE  l = m
<1>1. Rows + 1 \in 0..Rows + 1 /\ Rows \in Nat
  BY FeedAssumptions
<1>2. CASE l < m
  BY <1>1, <1>2, PositionsOrdered DEF commit_position, Position
<1>3. CASE m < l
  BY <1>1, <1>3, PositionsOrdered DEF commit_position, Position
<1> QED BY <1>2, <1>3

-------------------------------------------------------------------------------
(***************************************************************************)
(* Types.                                                                  *)
(***************************************************************************)
\* A database with one field replaced is a database.
LEMMA DbUpdated ==
    ASSUME NEW d \in DbType
    PROVE  /\ \A v \in Nat \ {0} : /\ [d EXCEPT !.system = v] \in DbType
                                  /\ [d EXCEPT !.next = v] \in DbType
                                  /\ [d EXCEPT !.slot = v] \in DbType
           /\ \A v \in Nat : /\ [d EXCEPT !.timeline = v] \in DbType
                            /\ [d EXCEPT !.commit = v] \in DbType
                            /\ [d EXCEPT !.epoch = v] \in DbType
           /\ \A v \in SUBSET Stamped : /\ [d EXCEPT !.wal = v] \in DbType
                                       /\ [d EXCEPT !.rows = v] \in DbType
                                       /\ [d EXCEPT !.log = v] \in DbType
           /\ \A v \in SUBSET Ends : [d EXCEPT !.ended = v] \in DbType
<1>1. ASSUME NEW v \in Nat \ {0}
      PROVE  /\ [d EXCEPT !.system = v] \in DbType
             /\ [d EXCEPT !.next = v] \in DbType
             /\ [d EXCEPT !.slot = v] \in DbType
  BY DEF DbType
<1>2. ASSUME NEW v \in Nat
      PROVE  /\ [d EXCEPT !.timeline = v] \in DbType
             /\ [d EXCEPT !.commit = v] \in DbType
             /\ [d EXCEPT !.epoch = v] \in DbType
  BY DEF DbType
<1>3. ASSUME NEW v \in SUBSET Stamped
      PROVE  /\ [d EXCEPT !.wal = v] \in DbType
             /\ [d EXCEPT !.rows = v] \in DbType
             /\ [d EXCEPT !.log = v] \in DbType
  BY SMTT(60) DEF DbType
<1>4. ASSUME NEW v \in SUBSET Ends
      PROVE  [d EXCEPT !.ended = v] \in DbType
  BY DEF DbType
<1> QED BY <1>1, <1>2, <1>3, <1>4

\* A fresh cluster starts at or below the write position of what it restores.
LEMMA FreshStart ==
    ASSUME db \in DbType, copy \in DbType, NEW kind \in FreshClusters, NEW d \in Restored(kind)
    PROVE  \E n \in 1..copy.next : d = Recreated(FreshAt(n))
<1>1. copy.next \in Nat \ {0}
  BY DEF DbType
<1>2. CASE kind = "fresh_above"
  <2>1. d = Recreated(FreshAt(copy.next))
    BY <1>2 DEF Restored
  <2> QED BY <1>1, <2>1
<1>3. CASE kind = "fresh_below"
  <2>1. PICK n \in 1..copy.next - 1 : d = Recreated(FreshAt(n))
    BY <1>3 DEF Restored
  <2>2. n \in 1..copy.next
    BY <1>1
  <2> QED BY <2>1, <2>2
<1> QED BY <1>2, <1>3 DEF FreshClusters

\* What a promotion, a restore or a new slot leaves is a database.
LEMMA RestoredTyped ==
    ASSUME db \in DbType, copy \in DbType, NEW kind \in FaultKinds, NEW d \in Restored(kind)
    PROVE  d \in DbType
<1>1. Branched \in DbType
  <2>1. [timeline |-> copy.timeline, end |-> copy.next] \in Ends
    BY DEF DbType, Ends
  <2>2. copy.ended \cup {[timeline |-> copy.timeline, end |-> copy.next]} \in SUBSET Ends
    BY <2>1 DEF DbType
  <2>3. db.timeline + 1 \in Nat
    BY DEF DbType
  <2> DEFINE e == [copy EXCEPT !.timeline = db.timeline + 1]
  <2>4. e \in DbType
    BY <2>3, DbUpdated, ZenonT(60)
  <2>5. Branched = [e EXCEPT !.ended =
                      copy.ended \cup {[timeline |-> copy.timeline, end |-> copy.next]}]
    BY DEF Branched
  <2> HIDE DEF e
  <2> QED BY <2>2, <2>4, <2>5, DbUpdated, SMTT(60)
<1>2. ASSUME NEW e \in DbType
      PROVE  Recreated(e) \in DbType
  <2>1. e.next + 1 \in Nat \ {0}
    BY DEF DbType
  <2>2. [e EXCEPT !.next = e.next + 1] \in DbType
    BY <2>1, DbUpdated, ZenonT(60)
  <2> QED BY <2>1, <2>2, DbUpdated, ZenonT(60) DEF Recreated
<1>3. CASE kind = "promote"
  <2>1. d \in Promotions
    BY <1>3 DEF Restored
  <2>2. PICK l \in copy.slot..Max({copy.slot, db.slot}) : d = [Branched EXCEPT !.slot = l]
    BY <2>1 DEF Promotions
  <2>3. l \in Nat \ {0}
    BY <2>2 DEF DbType
  <2> QED BY <1>1, <2>2, <2>3, DbUpdated, ZenonT(60)
<1>4. CASE kind = "point_in_time"
  BY <1>1, <1>2, <1>4 DEF Restored
<1>5. CASE kind = "same_cluster"
  <2>1. copy.rows \in SUBSET Stamped /\ copy.log \in SUBSET Stamped
        /\ copy.commit \in Nat /\ copy.epoch \in Nat
    BY DEF DbType
  <2> DEFINE e1 == [db EXCEPT !.rows = copy.rows]
             e2 == [e1 EXCEPT !.log = copy.log]
             e3 == [e2 EXCEPT !.commit = copy.commit]
             e4 == [e3 EXCEPT !.epoch = copy.epoch]
  <2>2. d = Recreated(e4)
    BY <1>5 DEF Restored
  <2>3. e1 \in DbType
    BY <2>1, DbUpdated, ZenonT(60)
  <2> HIDE DEF e1
  <2>4. e2 \in DbType
    BY <2>1, <2>3, DbUpdated, ZenonT(60)
  <2> HIDE DEF e2
  <2>5. e3 \in DbType
    BY <2>1, <2>4, DbUpdated, ZenonT(60)
  <2> HIDE DEF e3
  <2>6. e4 \in DbType
    BY <2>1, <2>5, DbUpdated, ZenonT(60)
  <2> HIDE DEF e4
  <2> QED BY <1>2, <2>2, <2>6
<1>6. ASSUME NEW n \in Nat \ {0}
      PROVE  FreshAt(n) \in DbType
  <2>1. db.system + 1 \in Nat \ {0}
    BY DEF DbType
  <2> DEFINE e1 == [copy EXCEPT !.system = db.system + 1]
             e2 == [e1 EXCEPT !.timeline = 1]
             e3 == [e2 EXCEPT !.ended = {}]
             e4 == [e3 EXCEPT !.wal = {}]
             e5 == [e4 EXCEPT !.next = n]
  <2>2. FreshAt(n) = e5
    BY DEF FreshAt
  <2>3. e1 \in DbType
    BY <2>1, DbUpdated, ZenonT(60)
  <2> HIDE DEF e1
  <2>4. e2 \in DbType
    BY <2>3, DbUpdated, ZenonT(60)
  <2> HIDE DEF e2
  <2>5. e3 \in DbType
    BY <2>4, DbUpdated, SMTT(60)
  <2> HIDE DEF e3
  <2>6. e4 \in DbType
    BY <2>5, DbUpdated, ZenonT(60)
  <2> HIDE DEF e4
  <2>7. e5 \in DbType
    BY <1>6, <2>6, DbUpdated, ZenonT(60)
  <2> HIDE DEF e5
  <2> QED BY <2>2, <2>7
<1>8. CASE kind \in FreshClusters
  <2>1. PICK n \in 1..copy.next : d = Recreated(FreshAt(n))
    BY <1>8, FreshStart
  <2>2. n \in Nat \ {0}
    BY DEF DbType
  <2> QED BY <1>2, <1>6, <2>1, <2>2
<1>7. CASE kind = "new_slot"
  BY <1>2, <1>7 DEF Restored
<1> QED BY <1>3, <1>4, <1>5, <1>7, <1>8 DEF FaultKinds, Restores

\* What a commit's record changes.
LEMMA CommitRecorded ==
    ASSUME NEW d \in DbType, NEW end \in Nat
    PROVE  LET e == record_commit(d, end) IN
           /\ e \in DbType /\ d.commit <= e.commit /\ end <= e.commit
           /\ e.commit \in {d.commit, end}
           /\ e.slot = d.slot /\ e.next = d.next /\ e.wal = d.wal
           /\ e.epoch = d.epoch /\ e.system = d.system
<1>1. d.commit \in Nat
  BY DEF DbType
<1> DEFINE n == IF d.commit < end THEN end ELSE d.commit
<1>2. n \in Nat /\ d.commit <= n /\ end <= n /\ n \in {d.commit, end}
  BY <1>1
<1>3. record_commit(d, end) = [d EXCEPT !.commit = n]
  BY DEF record_commit
<1> HIDE DEF n
<1>4. [d EXCEPT !.commit = n] \in DbType
  BY <1>2, DbUpdated, ZenonT(60)
<1>5. LET e == [d EXCEPT !.commit = n] IN
      /\ e.commit = n /\ e.slot = d.slot /\ e.next = d.next /\ e.wal = d.wal
      /\ e.epoch = d.epoch /\ e.system = d.system
  BY DEF DbType
<1> QED BY <1>2, <1>3, <1>4, <1>5

\* The log's own operations touch nothing but the log.
LEMMA LogOnly ==
    ASSUME NEW d \in DbType, NEW log \in SUBSET Stamped
    PROVE  LET e == [d EXCEPT !.log = log] IN
           /\ e \in DbType /\ e.slot = d.slot /\ e.next = d.next /\ e.wal = d.wal
           /\ e.commit = d.commit /\ e.epoch = d.epoch /\ e.system = d.system
<1>1. [d EXCEPT !.log = log] \in DbType
  BY DbUpdated, ZenonT(60)
<1> QED BY <1>1 DEF DbType

\* What a transaction changes.
LEMMA RowsCommitted ==
    ASSUME FeedTyped, commits_row
    PROVE  /\ db' \in DbType /\ db'.next = db.next + 1 /\ db'.wal = db.wal \cup Changes(db)
           /\ db'.slot = db.slot /\ db'.commit = db.commit
           /\ db'.epoch = db.epoch /\ db'.system = db.system
<1>1. ASSUME NEW k \in 1..Rows
      PROVE  Position(db.next, k) \in Nat
  BY FeedAssumptions DEF Position, FeedTyped, DbType
<1>2. Changes(db) \in SUBSET Stamped
  <2>1. ASSUME NEW k \in 1..Rows
        PROVE  [system |-> db.system, timeline |-> db.timeline, at |-> Position(db.next, k)]
                  \in Stamped
    BY <1>1, <2>1 DEF Stamped, FeedTyped, DbType
  <2> QED BY <2>1 DEF Changes
<1> DEFINE w == db.wal \cup Changes(db)
           r == db.rows \cup Changes(db)
           e1 == [db EXCEPT !.wal = w]
           e2 == [e1 EXCEPT !.rows = r]
<1>3. db' = [e2 EXCEPT !.next = db.next + 1]
  BY DEF commits_row
<1>4. w \in SUBSET Stamped /\ r \in SUBSET Stamped /\ db.next + 1 \in Nat \ {0}
  BY <1>2 DEF FeedTyped, DbType
<1> HIDE DEF w, r
<1>5. e1 \in DbType /\ e1.wal = w
      /\ e1.slot = db.slot /\ e1.commit = db.commit /\ e1.epoch = db.epoch /\ e1.system = db.system
  <2>1. e1 \in DbType
    BY <1>4, DbUpdated, ZenonT(60) DEF FeedTyped
  <2> QED BY <2>1 DEF FeedTyped, DbType
<1> HIDE DEF e1
<1>6. e2 \in DbType /\ e2.wal = w
      /\ e2.slot = db.slot /\ e2.commit = db.commit /\ e2.epoch = db.epoch /\ e2.system = db.system
  <2>1. e2 \in DbType
    BY <1>4, <1>5, DbUpdated, ZenonT(60)
  <2> QED BY <2>1, <1>5 DEF DbType
<1> HIDE DEF e2
<1>7. db' \in DbType
  BY <1>3, <1>4, <1>6, DbUpdated, ZenonT(60)
<1>8. db'.next = db.next + 1 /\ db'.wal = w
      /\ db'.slot = db.slot /\ db'.commit = db.commit /\ db'.epoch = db.epoch /\ db'.system = db.system
  BY <1>3, <1>6, <1>7 DEF DbType
<1> QED BY <1>7, <1>8 DEF w

\* The stream's next item is a position, so what a step reads from it is one.
LEMMA NextTyped ==
    ASSUME FeedTyped
    PROVE  /\ \A e \in db.wal : e.at \in Nat
           /\ \A l \in Nat : commit_position(l) \in Nat
<1>1. ASSUME NEW l \in Nat PROVE commit_position(l) \in Nat
  BY FeedAssumptions DEF commit_position, Position
<1> QED BY <1>1 DEF FeedTyped, DbType, Stamped

\* The initial state is typed.
LEMMA TypedInit == FeedInit => FeedTyped
<1>1. Provisioned \in DbType
  BY DEF Provisioned, DbType, Ends, Stamped
<1>2. NoCheck \in CheckType
  BY DEF NoCheck, CheckType
<1> SUFFICES ASSUME FeedInit PROVE FeedTyped
  OBVIOUS
<1>3. phase \in Phases /\ at \in Nat /\ resume \in Nat /\ faults \in Nat
  BY DEF FeedInit, Phases
<1>4. listening \in BOOLEAN /\ owed \in BOOLEAN
  BY ZenonT(60) DEF FeedInit
<1>5. db \in DbType /\ copy \in DbType /\ check \in CheckType
  BY <1>1, <1>2 DEF FeedInit
<1> QED BY <1>3, <1>4, <1>5 DEF FeedTyped

\* Every step keeps the types.
LEMMA TypedStep == FeedTyped /\ [FeedNext]_feedVars => FeedTyped'
<1> SUFFICES ASSUME FeedTyped, [FeedNext]_feedVars PROVE FeedTyped'
  OBVIOUS
<1> USE DEF taskVars, serverVars, deviceVars, clientVars, spent
<1>1. CASE commits_row
  BY <1>1, RowsCommitted DEF commits_row, FeedTyped
<1>2. CASE backup
  BY <1>2 DEF backup, FeedTyped
<1>3. CASE database_fault
  <2>1. PICK kind \in Kinds : \E d \in Restored(kind) :
           /\ db' = d
           /\ owed' = \/ owed
                      \/ kind \in FreshClusters
                      \/ kind \in Restores /\ phase = "down" /\ ~Inherits(copy)
    BY <1>3 DEF database_fault
  <2>2. kind \in FaultKinds
    BY FeedAssumptions
  <2>3. db' \in DbType /\ owed' \in BOOLEAN
    BY <2>1, <2>2, RestoredTyped DEF FeedTyped
  <2>4. Provisioned \in DbType
    BY DEF Provisioned, DbType, Ends, Stamped
  <2> QED BY <1>3, <2>3, <2>4 DEF database_fault, FeedTyped, Phases
<1>4. CASE boot
  BY <1>4 DEF boot, FeedTyped, Phases
<1>5. CASE check_before_stream
  <2>1. check' \in CheckType
    BY <1>5 DEF check_before_stream, CheckType, FeedTyped, DbType
  <2> QED BY <1>5, <2>1 DEF check_before_stream, FeedTyped, Phases, Settling
<1>6. CASE settle_epoch
  <2>1. check' \in CheckType
    BY <1>6, ZenonT(60) DEF settle_epoch, CheckType, FeedTyped
  <2>2. owed' \in BOOLEAN
    BY <1>6 DEF settle_epoch, FeedTyped
  <2> QED BY <1>6, <2>1, <2>2 DEF settle_epoch, FeedTyped, Phases, Settling
<1>7. CASE record_epoch
  <2>1. check.system \in Nat
    BY DEF FeedTyped, CheckType
  <2>2. db' \in DbType
    BY <1>7, <2>1, DbUpdated, ZenonT(60) DEF record_epoch, FeedTyped
  <2> QED BY <1>7, <2>2 DEF record_epoch, FeedTyped, Phases, Settling
<1>8. CASE reconcile_stream
  <2>1. db' \in DbType
    <3>1. {e \in db.log : e.at > before_commit(check.gap)} \in SUBSET Stamped
      BY DEF FeedTyped, DbType
    <3>2. forget_through(db, before_commit(check.gap)) \in DbType
      BY <3>1, LogOnly DEF forget_through, FeedTyped
    <3> QED BY <1>8, <3>2 DEF reconcile_stream, FeedTyped
  <2> QED BY <1>8, <2>1 DEF reconcile_stream, FeedTyped, Phases, Settling
<1>9. CASE declare_gap
  <2>1. db' \in DbType
    BY <1>9, CommitRecorded DEF declare_gap, FeedTyped, CheckType
  <2> QED BY <1>9, <2>1 DEF declare_gap, FeedTyped, Phases, Settling
<1>10. CASE listen
  BY <1>10 DEF listen, FeedTyped, Phases, NoCheck, CheckType
<1>11. CASE open
  <2>1. before_commit(db.slot) \in Nat
    BY FeedAssumptions DEF before_commit, Position, FeedTyped, DbType
  <2> QED BY <1>11, <2>1 DEF open, FeedTyped, Phases, Streaming, NoCheck, CheckType
<1>12. CASE dispatch
  BY <1>12 DEF dispatch, FeedTyped, Phases, Streaming
<1>20. CASE append_record
  <2>1. PICK e \in db.wal : db' = append(db, e)
    BY <1>20 DEF append_record
  <2>2. db' \in DbType
    <3> DEFINE log == IF e.at \in Logged(db) THEN db.log ELSE db.log \cup {e}
               kept == {x \in log : Cardinality({y \in log : y.at > x.at}) < MaxEntries}
    <3>1. kept \in SUBSET Stamped
      BY <2>1 DEF FeedTyped, DbType
    <3>2. db' = [db EXCEPT !.log = kept]
      BY <2>1 DEF append
    <3> HIDE DEF kept
    <3> QED BY <3>1, <3>2, LogOnly DEF FeedTyped
  <2> QED BY <1>20, <2>2 DEF append_record, FeedTyped, Phases, Streaming
<1>13. CASE fan_out
  <2>1. at' \in Nat /\ resume' \in Nat
    BY <1>13, NextTyped DEF fan_out
  <2> QED BY <1>13, <2>1 DEF fan_out, FeedTyped, Phases, Streaming
<1>14. CASE ingest_commit
  <2>1. PICK l \in 1..db.next - 1 : db' = record_commit(db, l + 1)
    BY <1>14, SMTT(60) DEF ingest_commit
  <2>2. db' \in DbType
    <3>1. db \in DbType /\ db.next \in Nat
      BY DEF FeedTyped, DbType
    <3>2. l + 1 \in Nat
      BY <3>1
    <3> QED BY <2>1, <3>1, <3>2, CommitRecorded, Zenon
  <2> QED BY <1>14, <2>2 DEF ingest_commit, FeedTyped, Phases, Streaming
<1>15. CASE ack
  <2>1. PICK l \in 1..db.next - 1 :
           /\ db' = [db EXCEPT !.slot = IF @ < l + 1 THEN l + 1 ELSE @]
           /\ at' = commit_position(l) /\ resume' = commit_position(l)
    BY <1>15 DEF ack
  <2>2. l \in Nat /\ (IF db.slot < l + 1 THEN l + 1 ELSE db.slot) \in Nat \ {0}
    BY <2>1 DEF FeedTyped, DbType
  <2>3. db' \in DbType
    BY <2>1, <2>2, DbUpdated, ZenonT(60) DEF FeedTyped
  <2>4. at' \in Nat /\ resume' \in Nat
    BY <2>1, <2>2, NextTyped
  <2> QED BY <1>15, <2>3, <2>4 DEF ack, FeedTyped, Phases, Streaming
<1>16. CASE reconnect
  BY <1>16 DEF reconnect, FeedTyped, Phases, NoCheck, CheckType
<1>17. CASE crash
  BY <1>17, ZenonT(60) DEF crash, FeedTyped, Phases, NoCheck, CheckType
<1>18. ASSUME NEW c \in Clients, run_handshake(c) \/ subscribe_row(c) \/ closes(c)
       PROVE  FeedTyped'
  BY <1>18 DEF run_handshake, subscribe_row, closes, FeedTyped
<1>19. CASE UNCHANGED feedVars
  BY <1>19 DEF feedVars, FeedTyped
<1> QED BY <1>1, <1>2, <1>3, <1>4, <1>5, <1>6, <1>7, <1>8, <1>9, <1>10, <1>11, <1>12, <1>13,
           <1>14, <1>15, <1>16, <1>17, <1>18, <1>19, <1>20 DEF FeedNext

-------------------------------------------------------------------------------
(***************************************************************************)
(* A crash is never a gap: the slot is acknowledged up to a commit only    *)
(* after that commit is recorded.                                          *)
(***************************************************************************)
\* Without a fault the slot stays at or below the last commit recorded, also
\* with a commit recorded and not acknowledged yet.
SlotRecorded ==
    faults = 0 =>
        /\ db.slot = 1 \/ db.slot <= db.commit
        /\ check.gap = 0
        /\ phase = "recorded" =>
             \E l \in 1..db.next - 1 : IsNext(commit_position(l)) /\ l + 1 <= db.commit

\* The stream has one next item.
LEMMA NextUnique ==
    ASSUME NEW p \in Nat, NEW q \in Nat, IsNext(p), IsNext(q)
    PROVE  p = q
<1>1. p <= q /\ q <= p
  BY DEF IsNext
<1> QED BY <1>1

\* A commit that is next stays next while the database commits more.
LEMMA NextKept ==
    ASSUME FeedTyped, commits_row, NEW l \in 1..db.next - 1, IsNext(commit_position(l))
    PROVE  IsNext(commit_position(l))'
<1> DEFINE p == commit_position(l)
<1>1. /\ db.next \in Nat /\ db'.next = db.next + 1 /\ db'.wal = db.wal \cup Changes(db)
      /\ at' = at /\ at \in Nat /\ Rows \in Nat \ {0}
  BY RowsCommitted, FeedAssumptions DEF commits_row, FeedTyped, DbType, serverVars, taskVars
<1>2. l \in Nat /\ l < db.next /\ l \in 1..db'.next - 1
  BY <1>1
<1>3. ASSUME NEW k \in 0..Rows + 1
      PROVE  p < Position(db.next, k)
  BY <1>1, <1>2, <1>3, PositionsOrdered DEF commit_position
<1>4. p \in Items'
  <2>1. CASE \E e \in db.wal : e.at = p
    BY <2>1, <1>1 DEF Items
  <2>2. CASE \E n \in 1..db.next - 1 :
               p = commit_position(n) /\ \E e \in db.wal : e.at = Position(n, Rows)
    BY <2>2, <1>1 DEF Items
  <2>3. p \in Items
    BY SMTT(60) DEF IsNext
  <2> QED BY <2>1, <2>2, <2>3 DEF Items
<1>5. ASSUME NEW q \in Items'
      PROVE  q \in Items \/ p < q
  <2>1. CASE q \in {e.at : e \in db'.wal}
    <3>1. PICK e \in db'.wal : q = e.at
      BY <2>1
    <3>2. CASE e \in db.wal
      BY <3>1, <3>2 DEF Items
    <3>3. CASE e \in Changes(db)
      <4>1. PICK k \in 1..Rows : e.at = Position(db.next, k)
        BY <3>3 DEF Changes
      <4>2. k \in 0..Rows + 1
        BY <1>1
      <4> QED BY <3>1, <4>1, <4>2, <1>3
    <3> QED BY <3>1, <3>2, <3>3, <1>1
  <2>2. CASE q \in {commit_position(n) : n \in {i \in 1..db'.next - 1 :
                                             \E e \in db'.wal : e.at = Position(i, Rows)}}
    <3>1. PICK n \in 1..db'.next - 1 :
             q = commit_position(n) /\ \E e \in db'.wal : e.at = Position(n, Rows)
      BY <2>2
    <3>2. PICK e \in db'.wal : e.at = Position(n, Rows)
      BY <3>1
    <3>3. Rows + 1 \in 0..Rows + 1 /\ Rows \in 0..Rows + 1 /\ n \in Nat
      BY <1>1
    <3>4. CASE n = db.next
      BY <1>3, <3>1, <3>3, <3>4 DEF commit_position
    <3>5. CASE n # db.next
      <4>1. n \in 1..db.next - 1 /\ n < db.next
        BY <1>1, <3>5
      <4>2. e \notin Changes(db)
        <5> SUFFICES ASSUME e \in Changes(db) PROVE FALSE
          BY SMTT(60)
        <5>1. PICK k \in 1..Rows : e.at = Position(db.next, k)
          BY DEF Changes
        <5>2. k \in 0..Rows + 1
          BY <1>1
        <5>3. Position(n, Rows) < Position(db.next, k)
          BY <1>1, <3>3, <4>1, <5>2, PositionsOrdered
        <5>4. Position(n, Rows) \in Nat
          BY <1>1, <3>3 DEF Position
        <5> QED BY <3>2, <5>1, <5>3, <5>4
      <4>3. e \in db.wal
        BY <4>2, <1>1
      <4> QED BY <3>1, <3>2, <4>1, <4>3 DEF Items
    <3> QED BY <3>4, <3>5
  <2> QED BY <2>1, <2>2, SMTT(60) DEF Items
<1>6. ASSUME NEW q \in Items', q > at
      PROVE  p <= q
  <2>1. p \in Nat
    BY <1>2, NextTyped
  <2>2. q \in Nat
    <3>1. FeedTyped'
      BY TypedStep DEF FeedNext
    <3>2. \A e \in db'.wal : e.at \in Nat
      BY <3>1 DEF FeedTyped, DbType, Stamped
    <3>3. \A n \in 1..db'.next - 1 : commit_position(n) \in Nat
      BY <1>1, NextTyped
    <3> QED BY <3>2, <3>3 DEF Items
  <2>3. CASE q \in Items
    BY <1>6, <2>3 DEF IsNext
  <2>4. CASE p < q
    BY <2>1, <2>2, <2>4
  <2> QED BY <1>5, <2>3, <2>4
<1>7. p > at
  BY SMTT(60) DEF IsNext
<1> QED BY <1>1, <1>4, <1>6, <1>7 DEF IsNext

\* Every step keeps SlotRecorded.
LEMMA SlotStep == FeedTyped /\ SlotRecorded /\ [FeedNext]_feedVars => SlotRecorded'
<1> SUFFICES ASSUME FeedTyped, SlotRecorded, [FeedNext]_feedVars, faults' = 0
             PROVE  /\ db'.slot = 1 \/ db'.slot <= db'.commit
                    /\ check'.gap = 0
                    /\ phase' = "recorded" =>
                         \E l \in 1..db'.next - 1 :
                             IsNext(commit_position(l))' /\ l + 1 <= db'.commit
  BY DEF SlotRecorded
<1> USE DEF taskVars, serverVars, deviceVars, clientVars, spent
<1>0. /\ db.slot \in Nat /\ db.commit \in Nat /\ db.next \in Nat /\ faults \in Nat
      /\ NoCheck.gap = 0
  BY DEF FeedTyped, DbType, NoCheck
<1> DEFINE Kept == /\ db' = db /\ at' = at /\ faults' = faults
                   /\ check'.gap \in {0, check.gap}
                   /\ phase' # "recorded" \/ phase' = phase
<1>a. ASSUME Kept PROVE /\ db'.slot = 1 \/ db'.slot <= db'.commit
                        /\ check'.gap = 0
                        /\ phase' = "recorded" =>
                             \E l \in 1..db'.next - 1 :
                                 IsNext(commit_position(l))' /\ l + 1 <= db'.commit
  <2>1. ASSUME NEW l \in 1..db.next - 1, IsNext(commit_position(l))
        PROVE  IsNext(commit_position(l))'
    BY <1>a, <2>1 DEF IsNext, Items
  <2> QED BY <1>a, <2>1 DEF SlotRecorded
<1>1. CASE commits_row
  <2>1. /\ db'.next = db.next + 1 /\ db'.slot = db.slot /\ db'.commit = db.commit
        /\ check' = check /\ phase' = phase /\ faults' = faults
    BY <1>1, RowsCommitted DEF commits_row
  <2>2. ASSUME phase = "recorded"
        PROVE  \E l \in 1..db'.next - 1 : IsNext(commit_position(l))' /\ l + 1 <= db'.commit
    <3>1. PICK l \in 1..db.next - 1 : IsNext(commit_position(l)) /\ l + 1 <= db.commit
      BY <2>1, <2>2 DEF SlotRecorded
    <3>2. IsNext(commit_position(l))'
      BY <1>1, <3>1, NextKept
    <3>3. l \in 1..db'.next - 1
      BY <1>0, <2>1
    <3> QED BY <2>1, <3>1, <3>2, <3>3
  <2> QED BY <2>1, <2>2 DEF SlotRecorded
<1>2. CASE backup
  BY <1>2, <1>a DEF backup
<1>3. CASE database_fault
  BY <1>0, <1>3 DEF database_fault
<1>4. CASE boot
  BY <1>4, <1>a DEF boot
<1>5. CASE check_before_stream
  <2>1. check'.gap = 0
    BY <1>0, <1>5 DEF check_before_stream, SlotRecorded
  <2> QED BY <1>5, <2>1, <1>a DEF check_before_stream
<1>6. CASE settle_epoch
  <2>1. check'.gap = check.gap
    BY <1>6 DEF settle_epoch, FeedTyped, CheckType
  <2> QED BY <1>6, <2>1, <1>a DEF settle_epoch
<1>7. CASE record_epoch
  <2>1. db'.slot = db.slot /\ db'.commit = db.commit /\ check' = check /\ faults' = faults
    BY <1>7 DEF record_epoch, FeedTyped, DbType
  <2> QED BY <1>7, <2>1 DEF record_epoch, SlotRecorded
<1>8. CASE reconcile_stream
  <2>1. check.gap = 0
    BY <1>8 DEF reconcile_stream, SlotRecorded
  <2> QED BY <1>8, <2>1, <1>a DEF reconcile_stream
<1>9. CASE declare_gap
  <2>1. check.gap = 0 /\ (db.slot = 1 \/ db.slot <= db.commit)
    BY <1>9, SMTT(60) DEF declare_gap, SlotRecorded
  <2>2. db'.slot = db.slot /\ db.commit <= db'.commit /\ db'.commit \in Nat
    BY <1>9, CommitRecorded DEF declare_gap, FeedTyped, CheckType, DbType
  <2> QED BY <1>0, <1>9, <2>1, <2>2 DEF declare_gap
<1>10. CASE listen
  BY <1>0, <1>10, <1>a, SMTT(60) DEF listen
<1>11. CASE open
  BY <1>0, <1>11, SMTT(60) DEF open, SlotRecorded
<1>12. CASE dispatch
  BY <1>12, <1>a, SMTT(60) DEF dispatch
<1>20. CASE append_record
  <2>1. PICK e \in db.wal : db' = append(db, e)
    BY <1>20 DEF append_record
  <2>2. db'.slot = db.slot /\ db'.commit = db.commit
    BY <2>1, SMTT(60) DEF append, FeedTyped, DbType
  <2> QED BY <1>20, <2>2, SMTT(60) DEF append_record, SlotRecorded
<1>13. CASE fan_out
  BY <1>13, SMTT(60) DEF fan_out, SlotRecorded
<1>14. CASE ingest_commit
  <2>1. PICK l \in 1..db.next - 1 : IsNext(commit_position(l)) /\ db' = record_commit(db, l + 1)
    BY <1>14 DEF ingest_commit
  <2>2. l + 1 \in Nat /\ l + 1 > 0
    BY <1>0, SMTT(60)
  <2>3. /\ db.commit <= db'.commit /\ l + 1 <= db'.commit /\ db'.slot = db.slot
        /\ db'.next = db.next /\ db'.wal = db.wal /\ db'.commit \in Nat
    BY <2>1, <2>2, CommitRecorded, SMTT(60) DEF FeedTyped, DbType
  <2>4. IsNext(commit_position(l))'
    BY <1>14, <2>1, <2>3 DEF IsNext, Items, ingest_commit
  <2> QED BY <1>0, <1>14, <2>1, <2>3, <2>4 DEF ingest_commit, SlotRecorded
<1>15. CASE ack
  <2>1. PICK l \in 1..db.next - 1 :
           /\ IsNext(commit_position(l))
           /\ db' = [db EXCEPT !.slot = IF @ < l + 1 THEN l + 1 ELSE @]
    BY <1>15 DEF ack
  <2>2. PICK m \in 1..db.next - 1 : IsNext(commit_position(m)) /\ m + 1 <= db.commit
    BY <1>15 DEF ack, SlotRecorded
  <2>3. l \in Nat /\ m \in Nat
    BY <1>0
  <2>4. l = m
    BY <2>1, <2>2, <2>3, NextTyped, NextUnique, CommitsDistinct
  <2>5. db'.commit = db.commit /\ db'.slot = IF db.slot < l + 1 THEN l + 1 ELSE db.slot
    BY <2>1 DEF FeedTyped, DbType
  <2> QED BY <1>0, <1>15, <2>2, <2>3, <2>4, <2>5 DEF ack, SlotRecorded
<1>16. CASE reconnect
  BY <1>0, <1>16 DEF reconnect, SlotRecorded
<1>17. CASE crash
  BY <1>0, <1>17, SMTT(60) DEF crash, SlotRecorded
<1>18. ASSUME NEW c \in Clients, run_handshake(c) \/ subscribe_row(c) \/ closes(c)
       PROVE  Kept
  BY <1>18 DEF run_handshake, subscribe_row, closes
<1>19. CASE UNCHANGED feedVars
  BY <1>19, <1>a DEF feedVars
<1> QED BY <1>a, <1>1, <1>2, <1>3, <1>4, <1>5, <1>6, <1>7, <1>8, <1>9, <1>10, <1>11, <1>12,
           <1>13, <1>14, <1>15, <1>16, <1>17, <1>18, <1>19, <1>20, SMTT(60) DEF FeedNext

-------------------------------------------------------------------------------
(***************************************************************************)
(* A restore is found: it leaves another cluster's record, or at a boot a  *)
(* slot past the last commit recorded, until the logins are revoked.       *)
(***************************************************************************)
Bounded(d) ==
    /\ d.slot <= d.next /\ d.epoch <= d.system
    /\ d.commit # 0 => d.epoch # 0

Detectable(d) ==
    \/ d.epoch \notin {0, d.system}
    \/ ~listening /\ d.commit # 0 /\ d.slot > d.commit

Recorded == {"settled", "forgot", "ready"} \cup Streaming

RestoreFound ==
    /\ Bounded(db) /\ Bounded(copy) /\ copy.next <= db.next
    /\ copy = Provisioned \/ (copy.commit # 0 /\ copy.system = db.system)
    /\ phase = "down" => ~listening
    /\ phase \in Recorded => db.epoch # 0
    /\ phase \in Settling => check.system = db.system /\ check.gap <= db.next
    /\ phase = "checked" =>
         check.gap = IF db.commit # 0 /\ db.slot > db.commit THEN db.slot ELSE 0
    /\ phase = "revoked" => check.changed = (db.epoch # check.system)
    /\ owed => /\ phase \in {"down", "closed", "checked"}
               /\ Detectable(db)
               /\ copy = Provisioned \/ Detectable(copy)

\* The fields of what a fault leaves that matter here.
LEMMA RecreatedFields ==
    ASSUME NEW d \in DbType
    PROVE  LET e == Recreated(d) IN
           /\ e.next = d.next + 1 /\ e.slot = d.next + 1 /\ e.commit = d.commit
           /\ e.epoch = d.epoch /\ e.system = d.system
<1> DEFINE e1 == [d EXCEPT !.next = d.next + 1]
<1>1. /\ e1.next = d.next + 1 /\ e1.commit = d.commit /\ e1.epoch = d.epoch
      /\ e1.system = d.system /\ e1 \in DbType /\ d.next + 1 \in Nat \ {0}
  <2>1. d.next + 1 \in Nat \ {0}
    BY DEF DbType
  <2>2. e1 \in DbType
    BY <2>1, DbUpdated, ZenonT(60)
  <2> QED BY <2>1, <2>2 DEF DbType
<1>2. Recreated(d) = [e1 EXCEPT !.slot = d.next + 1]
  BY DEF Recreated
<1> HIDE DEF e1
<1> QED BY <1>1, <1>2 DEF DbType

\* A branch keeps the copy's positions, commit and cluster.
LEMMA BranchedFields ==
    ASSUME db \in DbType, copy \in DbType
    PROVE  /\ Branched.next = copy.next /\ Branched.slot = copy.slot
           /\ Branched.commit = copy.commit /\ Branched.epoch = copy.epoch
           /\ Branched.system = copy.system /\ Branched \in DbType
<1> DEFINE e1 == [copy EXCEPT !.timeline = db.timeline + 1]
           u == copy.ended \cup {[timeline |-> copy.timeline, end |-> copy.next]}
<1>1. db.timeline + 1 \in Nat
  BY DEF DbType
<1>2. e1 \in DbType
  BY <1>1, DbUpdated, ZenonT(60)
<1>3. /\ e1.next = copy.next /\ e1.slot = copy.slot /\ e1.commit = copy.commit
      /\ e1.epoch = copy.epoch /\ e1.system = copy.system
  BY DEF DbType
<1>4. u \in SUBSET Ends
  <2>1. [timeline |-> copy.timeline, end |-> copy.next] \in Ends
    BY DEF DbType, Ends
  <2> QED BY <2>1 DEF DbType
<1>5. Branched = [e1 EXCEPT !.ended = u]
  BY DEF Branched
<1> HIDE DEF e1, u
<1>6. [e1 EXCEPT !.ended = u] \in DbType
  BY <1>2, <1>4, DbUpdated, SMTT(60)
<1> QED BY <1>2, <1>3, <1>5, <1>6 DEF DbType

\* Whatever the fault, the database it leaves is bounded as before, and a
\* restore leaves a trace: another cluster's record, or a slot past the commit.
LEMMA RestoreTraced ==
    ASSUME FeedTyped, RestoreFound, copy # Provisioned,
           NEW kind \in FaultKinds, NEW d \in Restored(kind)
    PROVE  /\ Bounded(d)
           /\ kind \in FreshClusters => d.epoch \notin {0, d.system}
           /\ kind \in {"point_in_time", "same_cluster"} /\ ~Inherits(copy)
                => d.commit # 0 /\ d.slot > d.commit
           /\ owed => Detectable(d)
<1>1. /\ db \in DbType /\ copy \in DbType
      /\ \A e \in {db, copy} : /\ e.next \in Nat /\ e.slot \in Nat /\ e.commit \in Nat
                              /\ e.epoch \in Nat /\ e.system \in Nat
  BY DEF FeedTyped, DbType
<1>2. /\ Bounded(db) /\ Bounded(copy) /\ copy.next <= db.next
      /\ copy.commit # 0 /\ copy.system = db.system
      /\ owed => Detectable(db) /\ Detectable(copy)
  BY DEF RestoreFound
<1>3. CASE kind = "promote"
  <2>1. d \in Promotions
    BY <1>3 DEF Restored
  <2>2. PICK l \in copy.slot..Max({copy.slot, db.slot}) :
           l <= copy.next /\ d = [Branched EXCEPT !.slot = l]
    BY <2>1, SMTT(60) DEF Promotions
  <2>3. l \in Nat /\ copy.slot <= l
    BY <1>1, <2>2
  <2>4. /\ d.slot = l /\ d.next = copy.next /\ d.commit = copy.commit
        /\ d.epoch = copy.epoch /\ d.system = copy.system
    BY <1>1, <2>2, BranchedFields DEF DbType
  <2> QED BY <1>1, <1>2, <1>3, <2>2, <2>3, <2>4 DEF Bounded, Detectable, FreshClusters
<1>4. CASE kind = "point_in_time"
  <2>1. d = Recreated(Branched)
    BY <1>4 DEF Restored
  <2>2. /\ d.slot = copy.next + 1 /\ d.next = copy.next + 1 /\ d.commit = copy.commit
        /\ d.epoch = copy.epoch /\ d.system = copy.system
    BY <1>1, <2>1, BranchedFields, RecreatedFields, SMTT(60)
  <2> QED BY <1>1, <1>2, <1>4, <2>2 DEF Bounded, Detectable, Inherits, FreshClusters
<1>5. CASE kind = "same_cluster"
  <2> DEFINE e1 == [db EXCEPT !.rows = copy.rows]
             e2 == [e1 EXCEPT !.log = copy.log]
             e3 == [e2 EXCEPT !.commit = copy.commit]
             e4 == [e3 EXCEPT !.epoch = copy.epoch]
  <2>1. d = Recreated(e4)
    BY <1>5 DEF Restored
  <2>2. copy.rows \in SUBSET Stamped /\ copy.log \in SUBSET Stamped
    BY <1>1 DEF DbType
  <2>3. e1 \in DbType /\ e1.next = db.next /\ e1.system = db.system
    <3>1. e1 \in DbType
      BY <1>1, <2>2, DbUpdated, ZenonT(60)
    <3> QED BY <1>1, <3>1 DEF DbType
  <2> HIDE DEF e1
  <2>4. e2 \in DbType /\ e2.next = db.next /\ e2.system = db.system
    BY <2>2, <2>3, LogOnly
  <2> HIDE DEF e2
  <2>5. e3 \in DbType /\ e3.next = db.next /\ e3.system = db.system /\ e3.commit = copy.commit
    <3>1. e3 \in DbType
      BY <1>1, <2>4, DbUpdated, ZenonT(60)
    <3> QED BY <2>4, <3>1 DEF DbType
  <2> HIDE DEF e3
  <2>6. e4 \in DbType /\ e4.next = db.next /\ e4.system = db.system /\ e4.commit = copy.commit
        /\ e4.epoch = copy.epoch
    <3>1. e4 \in DbType
      BY <1>1, <2>5, DbUpdated, ZenonT(60)
    <3> QED BY <2>5, <3>1 DEF DbType
  <2> HIDE DEF e4
  <2>7. /\ d.slot = db.next + 1 /\ d.next = db.next + 1 /\ d.commit = copy.commit
        /\ d.epoch = copy.epoch /\ d.system = db.system
    BY <2>1, <2>6, RecreatedFields, SMTT(60)
  <2> QED BY <1>1, <1>2, <1>5, <2>7 DEF Bounded, Detectable, Inherits, FreshClusters
<1>6. CASE kind \in FreshClusters
  <2>1. PICK n \in 1..copy.next : d = Recreated(FreshAt(n))
    BY <1>1, <1>6, FreshStart
  <2> DEFINE e1 == [copy EXCEPT !.system = db.system + 1]
             e2 == [e1 EXCEPT !.timeline = 1]
             e3 == [e2 EXCEPT !.ended = {}]
             e4 == [e3 EXCEPT !.wal = {}]
             e5 == [e4 EXCEPT !.next = n]
  <2>a. d = Recreated(e5)
    BY <2>1 DEF FreshAt
  <2>2. n \in Nat \ {0} /\ db.system + 1 \in Nat \ {0}
    BY <1>1 DEF DbType
  <2> DEFINE Same(e) == e.commit = copy.commit /\ e.epoch = copy.epoch /\ e.system = db.system + 1
  <2>3. e1 \in DbType /\ Same(e1)
    <3>1. e1 \in DbType
      BY <1>1, <2>2, DbUpdated, ZenonT(60)
    <3> QED BY <1>1, <3>1 DEF DbType
  <2> HIDE DEF e1
  <2>4. e2 \in DbType /\ Same(e2)
    <3>1. e2 \in DbType
      BY <2>3, DbUpdated, ZenonT(60)
    <3> QED BY <2>3, <3>1 DEF DbType
  <2> HIDE DEF e2
  <2>5. e3 \in DbType /\ Same(e3)
    <3>1. e3 \in DbType
      BY <2>4, DbUpdated, ZenonT(60)
    <3> QED BY <2>4, <3>1 DEF DbType
  <2> HIDE DEF e3
  <2>6. e4 \in DbType /\ Same(e4)
    <3>1. e4 \in DbType
      BY <2>5, DbUpdated, ZenonT(60)
    <3> QED BY <2>5, <3>1 DEF DbType
  <2> HIDE DEF e4
  <2>7. e5 \in DbType /\ Same(e5) /\ e5.next = n
    <3>1. e5 \in DbType
      BY <2>2, <2>6, DbUpdated, ZenonT(60)
    <3> QED BY <2>6, <3>1 DEF DbType
  <2> HIDE DEF e5
  <2>8. /\ d.slot = n + 1 /\ d.next = n + 1 /\ d.commit = copy.commit
        /\ d.epoch = copy.epoch /\ d.system = db.system + 1
    BY <2>a, <2>2, <2>7, RecreatedFields, SMTT(60)
  <2> QED BY <1>1, <1>2, <1>6, <2>2, <2>8 DEF Bounded, Detectable, FreshClusters
<1>7. CASE kind = "new_slot"
  <2>1. d = Recreated(db)
    BY <1>7 DEF Restored
  <2>2. /\ d.slot = db.next + 1 /\ d.next = db.next + 1 /\ d.commit = db.commit
        /\ d.epoch = db.epoch /\ d.system = db.system
    BY <1>1, <2>1, RecreatedFields, SMTT(60)
  <2> QED BY <1>1, <1>2, <1>7, <2>2 DEF Bounded, Detectable, FreshClusters
<1> QED BY <1>3, <1>4, <1>5, <1>6, <1>7 DEF FaultKinds, Restores

\* Every step keeps RestoreFound.
LEMMA FoundStep == FeedTyped /\ RestoreFound /\ [FeedNext]_feedVars => RestoreFound'
<1> SUFFICES ASSUME FeedTyped, RestoreFound, [FeedNext]_feedVars PROVE RestoreFound'
  OBVIOUS
<1> USE DEF taskVars, serverVars, deviceVars, clientVars, spent
<1>0. /\ db \in DbType /\ copy \in DbType /\ check \in CheckType
      /\ db.slot \in Nat \ {0} /\ db.commit \in Nat /\ db.next \in Nat \ {0}
      /\ db.epoch \in Nat /\ db.system \in Nat \ {0}
      /\ copy.next \in Nat /\ check.gap \in Nat /\ check.system \in Nat
      /\ listening \in BOOLEAN /\ owed \in BOOLEAN
  BY SMTT(60) DEF FeedTyped, DbType, CheckType
<1>p. Bounded(Provisioned) /\ Provisioned.next = 1
  BY SMTT(60) DEF Bounded, Provisioned
<1>1. CASE commits_row
  <2>1. /\ db'.next = db.next + 1 /\ db'.slot = db.slot /\ db'.commit = db.commit
        /\ db'.epoch = db.epoch /\ db'.system = db.system
        /\ UNCHANGED <<copy, phase, listening, check, owed>>
    BY <1>1, RowsCommitted, SMTT(60) DEF commits_row
  <2> QED BY <1>0, <2>1 DEF RestoreFound, Bounded, Detectable
<1>2. CASE backup
  BY <1>0, <1>2, SMTT(60) DEF backup, RestoreFound, Bounded, Detectable
<1>3. CASE database_fault
  <2>0. PICK kind \in Kinds : \E d \in Restored(kind) :
           /\ db' = d
           /\ owed' = \/ owed
                      \/ kind \in FreshClusters
                      \/ kind \in Restores /\ phase = "down" /\ ~Inherits(copy)
    BY <1>3 DEF database_fault
  <2>1. PICK d \in Restored(kind) :
           /\ db' = d
           /\ owed' = \/ owed
                      \/ kind \in FreshClusters
                      \/ kind \in Restores /\ phase = "down" /\ ~Inherits(copy)
    BY <2>0
  <2>2. /\ copy # Provisioned /\ phase \notin Settling /\ phase' \in {"down", "closed"}
        /\ phase' = "down" <=> phase = "down"
        /\ listening' = listening /\ copy' = Provisioned
    BY <1>3 DEF database_fault
  <2>3. kind \in FaultKinds
    BY FeedAssumptions
  <2>4. /\ Bounded(d)
        /\ kind \in FreshClusters => d.epoch \notin {0, d.system}
        /\ kind \in {"point_in_time", "same_cluster"} /\ ~Inherits(copy)
             => d.commit # 0 /\ d.slot > d.commit
        /\ owed => Detectable(d)
    BY <2>2, <2>3, RestoreTraced
  <2>5. phase = "down" => ~listening
    BY DEF RestoreFound
  <2>6. owed' => Detectable(d)
    BY <2>1, <2>4, <2>5, ZenonT(60) DEF Detectable, Restores
  <2>7. Bounded(db)' /\ (owed' => Detectable(db)')
    BY <2>1, <2>2, <2>4, <2>6, SMTT(60) DEF Bounded, Detectable
  <2>8. 1 <= d.next
    BY <2>1, <2>3, <1>0, RestoredTyped DEF DbType
  <2>9. Bounded(copy)' /\ copy'.next <= db'.next
    BY <1>p, <2>1, <2>2, <2>8, SMTT(60) DEF Bounded
  <2> QED BY <2>2, <2>5, <2>7, <2>9 DEF RestoreFound, Recorded, Settling, Streaming
<1>4. CASE boot
  BY <1>4, SMTT(60) DEF boot, RestoreFound, Bounded, Detectable, Recorded, Settling, Streaming
<1>5. CASE check_before_stream
  <2>1. /\ phase = "closed" /\ phase' = "checked"
        /\ check'.system = db.system
        /\ check'.gap = IF db.commit # 0 /\ db.slot > db.commit THEN db.slot ELSE 0
        /\ UNCHANGED <<db, copy, listening, owed>>
    BY <1>5, SMTT(60) DEF check_before_stream
  <2> QED BY <1>0, <2>1 DEF RestoreFound, Bounded, Detectable, Recorded, Settling, Streaming
<1>6. CASE settle_epoch
  <2>1. /\ phase = "checked" /\ phase' = "revoked"
        /\ check'.system = check.system /\ check'.gap = check.gap
        /\ check'.changed = (db.epoch # check.system)
        /\ owed' = (owed /\ ~revocation)
        /\ UNCHANGED <<db, copy, listening>>
    BY <1>0, <1>6, SMTT(60) DEF settle_epoch, CheckType
  <2>2. ~owed'
    BY <1>0, <2>1, ZenonT(60) DEF RestoreFound, Detectable, revocation, Settling
  <2> QED BY <1>0, <2>1, <2>2 DEF RestoreFound, Bounded, Recorded, Settling, Streaming
<1>7. CASE record_epoch
  <2>1. /\ phase = "revoked" /\ phase' = "settled"
        /\ db'.slot = db.slot /\ db'.commit = db.commit /\ db'.next = db.next
        /\ db'.system = db.system
        /\ db'.epoch = IF check.changed THEN check.system ELSE db.epoch
        /\ UNCHANGED <<copy, listening, check, owed>>
    BY <1>0, <1>7 DEF record_epoch, DbType
  <2>2. db'.epoch = db.system
    BY <1>0, <2>1, ZenonT(60) DEF RestoreFound, Settling
  <2> QED BY <1>0, <2>1, <2>2 DEF RestoreFound, Bounded, Recorded, Settling, Streaming
<1>8. CASE reconcile_stream
  <2>1. {e \in db.log : e.at > before_commit(check.gap)} \in SUBSET Stamped
    BY <1>0 DEF DbType
  <2>2. LET e == forget_through(db, before_commit(check.gap)) IN
        /\ e.slot = db.slot /\ e.commit = db.commit /\ e.next = db.next
        /\ e.system = db.system /\ e.epoch = db.epoch
    BY <1>0, <2>1, LogOnly, SMTT(60) DEF forget_through
  <2>3. /\ phase = "settled" /\ phase' \in {"ready", "forgot"}
        /\ db'.slot = db.slot /\ db'.commit = db.commit /\ db'.next = db.next
        /\ db'.system = db.system /\ db'.epoch = db.epoch
        /\ UNCHANGED <<copy, listening, check, owed>>
    BY <1>8, <2>2, SMTT(60) DEF reconcile_stream
  <2> QED BY <1>0, <2>3 DEF RestoreFound, Bounded, Recorded, Settling, Streaming
<1>9. CASE declare_gap
  <2>1. /\ phase = "forgot" /\ phase' = "ready" /\ db' = record_commit(db, check.gap)
        /\ UNCHANGED <<copy, listening, check, owed>>
    BY <1>9, SMTT(60) DEF declare_gap
  <2>2. /\ db'.slot = db.slot /\ db'.commit \in {db.commit, check.gap} /\ db'.next = db.next
        /\ db'.system = db.system /\ db'.epoch = db.epoch
    BY <1>0, <2>1, CommitRecorded, ZenonT(60)
  <2> QED BY <1>0, <2>1, <2>2 DEF RestoreFound, Bounded, Recorded, Settling, Streaming
<1>10. CASE listen
  BY <1>10, SMTT(60) DEF listen, RestoreFound, Bounded, Recorded, Settling, Streaming
<1>11. CASE open
  BY <1>11, SMTT(60) DEF open, RestoreFound, Bounded, Recorded, Settling, Streaming
<1>12. CASE dispatch
  BY <1>12, SMTT(60) DEF dispatch, RestoreFound, Bounded, Recorded, Settling, Streaming
<1>21. CASE append_record
  <2>1. PICK e \in db.wal : db' = append(db, e)
    BY <1>21, ZenonT(60) DEF append_record
  <2>2. /\ db'.slot = db.slot /\ db'.commit = db.commit /\ db'.next = db.next
        /\ db'.system = db.system /\ db'.epoch = db.epoch
    BY <1>0, <2>1, SMTT(60) DEF append, DbType
  <2>3. /\ phase = "matched" /\ phase' = "logged" /\ UNCHANGED <<copy, listening, check, owed>>
    BY <1>21, ZenonT(60) DEF append_record
  <2> QED BY <2>2, <2>3 DEF RestoreFound, Bounded, Recorded, Settling, Streaming
<1>13. CASE fan_out
  BY <1>13, SMTT(60) DEF fan_out, RestoreFound, Bounded, Recorded, Settling, Streaming
<1>14. CASE ingest_commit
  <2>1. PICK l \in 1..db.next - 1 : db' = record_commit(db, l + 1)
    BY <1>14 DEF ingest_commit
  <2>2. l + 1 \in Nat /\ l + 1 <= db.next
    BY <1>0, SMTT(60)
  <2>3. /\ db'.slot = db.slot /\ db'.commit \in {db.commit, l + 1} /\ db'.next = db.next
        /\ db'.system = db.system /\ db'.epoch = db.epoch
    BY <1>0, <2>1, <2>2, CommitRecorded, ZenonT(60)
  <2>4. /\ phase = "open" /\ phase' = "recorded" /\ UNCHANGED <<copy, listening, check, owed>>
    BY <1>14, SMTT(60) DEF ingest_commit
  <2> QED BY <1>0, <2>2, <2>3, <2>4 DEF RestoreFound, Bounded, Recorded, Settling, Streaming
<1>15. CASE ack
  <2>1. PICK l \in 1..db.next - 1 : db' = [db EXCEPT !.slot = IF @ < l + 1 THEN l + 1 ELSE @]
    BY <1>15 DEF ack
  <2>2. /\ db'.slot <= db.next /\ db'.commit = db.commit /\ db'.next = db.next
        /\ db'.system = db.system /\ db'.epoch = db.epoch
    BY <1>0, <2>1 DEF DbType, RestoreFound, Bounded
  <2>3. /\ phase = "recorded" /\ phase' = "open" /\ UNCHANGED <<copy, listening, check, owed>>
    BY <1>15, SMTT(60) DEF ack
  <2> QED BY <2>2, <2>3 DEF RestoreFound, Bounded, Recorded, Settling, Streaming
<1>16. CASE reconnect
  BY <1>16, SMTT(60) DEF reconnect, RestoreFound, Bounded, Detectable, Recorded, Settling, Streaming
<1>17. CASE crash
  BY <1>17, SMTT(60) DEF crash, RestoreFound, Bounded, Detectable, Recorded, Settling, Streaming
<1>18. ASSUME NEW c \in Clients, run_handshake(c) \/ subscribe_row(c) \/ closes(c)
       PROVE  UNCHANGED <<db, copy, phase, listening, check, owed>>
  BY <1>18, ZenonT(60) DEF run_handshake, subscribe_row, closes
<1>19. CASE UNCHANGED <<db, copy, phase, listening, check, owed>>
  BY <1>19 DEF RestoreFound, Bounded, Detectable
<1>20. CASE UNCHANGED feedVars
  BY <1>19, <1>20 DEF feedVars
<1> QED BY <1>1, <1>2, <1>3, <1>4, <1>5, <1>6, <1>7, <1>8, <1>9, <1>10, <1>11, <1>12, <1>13,
           <1>14, <1>15, <1>16, <1>17, <1>18, <1>19, <1>20, <1>21, SMTT(60) DEF FeedNext

-------------------------------------------------------------------------------
\* A crash of the server, a lost stream and any number of them never look like a
\* stretch the slot skipped (ingest records a commit, then acknowledges it), for
\* any devices, transactions and log.
THEOREM CrashIsNoGap == FeedSpec => []RestartsFindNoGap
<1>1. FeedInit => FeedTyped /\ SlotRecorded
  <2>1. FeedInit => SlotRecorded
    BY DEF FeedInit, SlotRecorded, Provisioned, NoCheck
  <2> QED BY <2>1, TypedInit, SMTT(60)
<1>2. (FeedTyped /\ SlotRecorded) /\ [FeedNext]_feedVars => (FeedTyped /\ SlotRecorded)'
  BY TypedStep, SlotStep
<1>3. FeedTyped /\ SlotRecorded => RestartsFindNoGap
  BY DEF SlotRecorded, RestartsFindNoGap
<1> QED BY <1>1, <1>2, <1>3, PTL DEF FeedSpec

\* Any sequence of restores, failovers, recreated slots and crashes, wherever a
\* fresh cluster's positions start: the feed is never open while a restore the
\* server has to answer (settle_epoch) has not had every login revoked.
THEOREM RestoresRevoke == FeedSpec => []LoginsRevoked
<1>1. FeedInit => FeedTyped /\ RestoreFound
  <2>a. Bounded(Provisioned) /\ Provisioned.next = 1
    BY SMTT(60) DEF Bounded, Provisioned
  <2>1. FeedInit => RestoreFound
    BY <2>a, SMTT(60) DEF FeedInit, RestoreFound, Recorded, Settling, Streaming
  <2> QED BY <2>1, TypedInit, SMTT(60)
<1>2. (FeedTyped /\ RestoreFound) /\ [FeedNext]_feedVars => (FeedTyped /\ RestoreFound)'
  BY TypedStep, FoundStep
<1>3. FeedTyped /\ RestoreFound => LoginsRevoked
  BY DEF FeedTyped, RestoreFound, LoginsRevoked, Streaming
<1> QED BY <1>1, <1>2, <1>3, PTL DEF FeedSpec
===============================================================================
