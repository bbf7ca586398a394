---------------------------- MODULE PeersProofs ----------------------------
(***************************************************************************)
(* Proofs about Peers: for any set of devices, any number of dials and any *)
(* number of renewals, stops and cut connections, the Linked and Unlinked  *)
(* events of a peer pair up (ReportsPaired), and a stopped node holds no   *)
(* link (StoppedHoldsNone).                                                *)
(*                                                                         *)
(* Both are inductive together with the shape of the tables they read and  *)
(* one fact about stop: peers are drained only between the two halves of a *)
(* stop, so that a drain never overwrites a report still owed.             *)
(***************************************************************************)
EXTENDS Peers, TLAPS

\* A table with one entry for each node and each of its peers.
Shaped(f) ==
    /\ f = [n \in Nodes |-> f[n]]
    /\ \A n \in Nodes : f[n] = [p \in Peers(n) |-> f[n][p]]

Phases == {"stopped", "starting", "serving", "renewing", "stopping", "draining"}

Tables ==
    /\ Shaped(links) /\ Shaped(notices) /\ Shaped(balance)
    /\ control \in [Nodes -> Phases]
    /\ drained \in [Nodes -> SUBSET Nodes]
    /\ \A n \in Nodes : \A p \in Peers(n) : notices[n][p] \in Nat /\ balance[n][p] \in Int

DrainedInStop == \A n \in Nodes : control[n] # "draining" => drained[n] = {}

PeersInv == Tables /\ DrainedInStop /\ ReportsPaired /\ StoppedHoldsNone

\* What the peer p of n owes in events: one for its slot, one for each report.
Owed(slot, reports, set, p) ==
    (IF slot = NoSlot THEN 0 ELSE 1) + reports + (IF p \in set THEN 1 ELSE 0)

\* g is f but for the entry of n's peer p.
Point(f, g, n, p, v) ==
    /\ Shaped(g)
    /\ g[n][p] = v
    /\ \A m \in Nodes : \A q \in Peers(m) : (m # n \/ q # p) => g[m][q] = f[m][q]

\* The entry an assignment of register_link, finish or a report writes, and
\* the ones it leaves alone.
LEMMA PointUpdate ==
    ASSUME NEW f, Shaped(f), NEW n \in Nodes, NEW p \in Peers(n), NEW v
    PROVE  Point(f, [f EXCEPT ![n][p] = v], n, p, v)
<1> DEFINE g == [f EXCEPT ![n][p] = v]
<1>1. g = [m \in Nodes |-> IF m = n THEN [f[n] EXCEPT ![p] = v] ELSE f[m]]
  BY DEF Shaped
<1>2. [f[n] EXCEPT ![p] = v] = [q \in Peers(n) |-> IF q = p THEN v ELSE f[n][q]]
  BY DEF Shaped
<1>3. g = [m \in Nodes |-> g[m]]
  BY <1>1
<1>4. \A m \in Nodes : g[m] = [q \in Peers(m) |-> IF m = n /\ q = p THEN v ELSE f[m][q]]
  <2> SUFFICES ASSUME NEW m \in Nodes
               PROVE  g[m] = [q \in Peers(m) |-> IF m = n /\ q = p THEN v ELSE f[m][q]]
    OBVIOUS
  <2>1. CASE m = n
    BY <2>1, <1>1, <1>2
  <2>2. CASE m # n
    BY <2>2, <1>1 DEF Shaped
  <2> QED BY <2>1, <2>2
<1> HIDE DEF g
<1>5. Shaped(g)
  BY <1>3, <1>4 DEF Shaped
<1>6. \A m \in Nodes : \A q \in Peers(m) : g[m][q] = IF m = n /\ q = p THEN v ELSE f[m][q]
  <2> SUFFICES ASSUME NEW m \in Nodes, NEW q \in Peers(m)
               PROVE  g[m][q] = IF m = n /\ q = p THEN v ELSE f[m][q]
    OBVIOUS
  <2>1. g[m] = [r \in Peers(m) |-> IF m = n /\ r = p THEN v ELSE f[m][r]]
    BY <1>4
  <2> QED BY <2>1
<1>7. g[n][p] = v
  BY <1>6
<1>8. Point(f, g, n, p, v)
  BY <1>5, <1>6, <1>7, Zenon DEF Point
<1> QED BY <1>8 DEF g

\* The two sides of a connection are devices and each other's peers.
LEMMA SidesAreNodes ==
    ASSUME NEW c \in Conns, NEW n \in Sides(c)
    PROVE  n \in Nodes /\ Far(c, n) \in Peers(n)
BY DEF Conns, Sides, Far, Peers

\* A slot that is live or awaited is not empty.
LEMMA SlotsDiffer ==
    /\ AwaitingKeeper # NoSlot
    /\ \A c, leaf : Live(c, leaf) # NoSlot
    /\ \A slot : slot.state = "live" => slot # NoSlot
<1>1. NoSlot.state = "none" /\ AwaitingKeeper.state = "awaiting"
  BY DEF NoSlot, AwaitingKeeper
<1>2. \A c, leaf : Live(c, leaf).state = "live"
  BY DEF Live
<1> QED BY <1>1, <1>2

\* A step that touches one peer of one node keeps the invariant when what it
\* writes there pairs up and leaves a stopped node empty.
LEMMA OnePeerMoves ==
    ASSUME PeersInv, NEW n \in Nodes, NEW p \in Peers(n),
           Shaped(links'), Shaped(notices'), Shaped(balance'),
           \A m \in Nodes : \A q \in Peers(m) : (m # n \/ q # p) =>
              /\ links'[m][q] = links[m][q]
              /\ notices'[m][q] = notices[m][q]
              /\ balance'[m][q] = balance[m][q],
           notices'[n][p] \in Nat, balance'[n][p] \in Int,
           balance'[n][p] = Owed(links'[n][p], notices'[n][p], drained[n], p),
           Serving(n) \/ links'[n][p] = NoSlot,
           UNCHANGED <<control, drained>>
    PROVE  PeersInv'
<1>1. Tables'
  BY DEF PeersInv, Tables
<1>2. DrainedInStop'
  BY DEF PeersInv, DrainedInStop
<1>3. ReportsPaired'
  BY DEF PeersInv, ReportsPaired, Owed
<1>4. StoppedHoldsNone'
  BY DEF PeersInv, StoppedHoldsNone, Serving
<1> QED BY <1>1, <1>2, <1>3, <1>4 DEF PeersInv

\* A step that leaves the slots, the events and the caller's phase alone.
LEMMA NothingReported ==
    ASSUME PeersInv, UNCHANGED <<control, links, notices, drained, balance>>
    PROVE  PeersInv'
BY DEF PeersInv, Tables, DrainedInStop, ReportsPaired, StoppedHoldsNone, Shaped, Serving

\* finish: a close that removes the slot owes its report, one with Duplicate
\* leaves the peer reported, and a replaced link changes nothing.
LEMMA FinishKeeps ==
    ASSUME PeersInv, NEW c \in Conns, NEW n \in Sides(c), NEW reason,
           finish(c, n, reason), UNCHANGED <<control, drained, balance>>
    PROVE  PeersInv'
<1> DEFINE p == Far(c, n)
<1>1. n \in Nodes /\ p \in Peers(n)
  BY SidesAreNodes
<1>2. Shaped(links) /\ Shaped(notices) /\ Shaped(balance)
      /\ notices[n][p] \in Nat /\ balance[n][p] \in Int
  BY <1>1 DEF PeersInv, Tables
<1>3. balance[n][p] = Owed(links[n][p], notices[n][p], drained[n], p)
      /\ (Serving(n) \/ links[n][p] = NoSlot)
  BY <1>1 DEF PeersInv, ReportsPaired, StoppedHoldsNone, Owed
<1>4. CASE ~Holds(n, c)
  BY <1>4, NothingReported DEF finish
<1>5. ASSUME Holds(n, c), reason = "Duplicate" PROVE PeersInv'
  <2>1. links' = [links EXCEPT ![n][p] = AwaitingKeeper] /\ UNCHANGED notices
    BY <1>5 DEF finish
  <2>2. links[n][p] # NoSlot /\ Serving(n)
    BY <1>5, <1>3, SlotsDiffer DEF Holds
  <2>3. Point(links, links', n, p, AwaitingKeeper)
    BY <2>1, <1>1, <1>2, PointUpdate, Zenon
  <2>4. balance'[n][p] = Owed(links'[n][p], notices'[n][p], drained[n], p)
    BY <2>1, <2>2, <2>3, <1>3, SlotsDiffer DEF Owed, Point
  <2> HIDE DEF p
  <2> QED BY <2>1, <2>2, <2>3, <2>4, <1>1, <1>2, OnePeerMoves, ZenonT(60) DEF Point
<1>6. ASSUME Holds(n, c), reason # "Duplicate" PROVE PeersInv'
  <2>1. /\ links' = [links EXCEPT ![n][p] = NoSlot]
        /\ notices' = [notices EXCEPT ![n][p] = notices[n][p] + 1]
    BY <1>6 DEF finish
  <2>2. links[n][p] # NoSlot
    BY <1>6, SlotsDiffer DEF Holds
  <2>3. Point(links, links', n, p, NoSlot)
    BY <2>1, <1>1, <1>2, PointUpdate, Zenon
  <2>4. Point(notices, notices', n, p, notices[n][p] + 1)
    BY <2>1, <1>1, <1>2, PointUpdate, Zenon
  <2>5. balance'[n][p] = Owed(links'[n][p], notices'[n][p], drained[n], p)
    BY <2>2, <2>3, <2>4, <1>2, <1>3 DEF Owed, Point
  <2>6. notices'[n][p] \in Nat
    BY <2>4, <1>2 DEF Point
  <2> HIDE DEF p
  <2> QED BY <2>3, <2>4, <2>5, <2>6, <1>1, <1>2, OnePeerMoves DEF Point
<1> QED BY <1>4, <1>5, <1>6

\* A registration reports a peer that has no slot, and only then.
LEMMA RegisterKeeps ==
    ASSUME PeersInv, NEW c \in Conns, NEW n \in Sides(c), register_link(c, n)
    PROVE  PeersInv'
<1> DEFINE p == Far(c, n)
<1>1. n \in Nodes /\ p \in Peers(n)
  BY SidesAreNodes
<1>2. Shaped(links) /\ Shaped(notices) /\ Shaped(balance)
      /\ notices[n][p] \in Nat /\ balance[n][p] \in Int
  BY <1>1 DEF PeersInv, Tables
<1>3. balance[n][p] = Owed(links[n][p], notices[n][p], drained[n], p)
  BY <1>1, SMTT(60) DEF PeersInv, ReportsPaired, Owed
<1>4. UNCHANGED <<control, notices, drained>>
  BY DEF register_link, nodeVars
<1>5. CASE UNCHANGED <<links, balance>>
  BY <1>4, <1>5, NothingReported
<1>6. ASSUME NEW leaf, Serving(n), links' = [links EXCEPT ![n][p] = Live(c, leaf)],
             balance' = IF fresh(n, p) THEN [balance EXCEPT ![n][p] = balance[n][p] + 1]
                        ELSE balance
      PROVE  PeersInv'
  <2>1. Point(links, links', n, p, Live(c, leaf))
    BY <1>6, <1>1, <1>2, PointUpdate, Zenon
  <2>2. links'[n][p] # NoSlot /\ Serving(n)
    BY <2>1, <1>6, SlotsDiffer, SMTT(60) DEF Point
  <2>3. CASE fresh(n, p)
    <3>1. Point(balance, balance', n, p, balance[n][p] + 1)
      BY <1>6, <2>3, <1>1, <1>2, PointUpdate, ZenonT(60)
    <3>2. balance'[n][p] = Owed(links'[n][p], notices'[n][p], drained[n], p)
      BY <2>2, <2>3, <3>1, <1>2, <1>3, <1>4 DEF Owed, fresh, Point
    <3>3. balance'[n][p] \in Int
      BY <3>1, <1>2, SMTT(60) DEF Point
    <3> HIDE DEF p
    <3> QED BY <1>1, <1>2, <1>4, <2>1, <2>2, <3>1, <3>2, <3>3, OnePeerMoves DEF Point
  <2>4. CASE ~fresh(n, p)
    <3>1. balance' = balance
      BY <1>6, <2>4
    <3>2. balance'[n][p] = Owed(links'[n][p], notices'[n][p], drained[n], p)
      BY <2>2, <2>4, <3>1, <1>3, <1>4, SMTT(60) DEF Owed, fresh, Point
    <3> HIDE DEF p
    <3> QED BY <1>1, <1>2, <1>4, <2>1, <2>2, <3>1, <3>2, OnePeerMoves DEF Point
  <2> QED BY <2>3, <2>4
<1>7. \/ UNCHANGED <<links, balance>>
      \/ /\ Serving(n)
         /\ links' = [links EXCEPT ![n][p] = Live(c, ends[c][n].leaf)]
         /\ balance' = IF fresh(n, p) THEN [balance EXCEPT ![n][p] = balance[n][p] + 1]
                       ELSE balance
  BY DEF register_link
<1> QED BY <1>5, <1>6, <1>7

\* A renewed leaf leaves a live slot live.
LEMMA FrameKeeps ==
    ASSUME PeersInv, NEW c \in Conns, NEW n \in Sides(c), on_frame(c, n)
    PROVE  PeersInv'
<1> DEFINE p == Far(c, n)
<1>1. n \in Nodes /\ p \in Peers(n)
  BY SidesAreNodes
<1>2. Shaped(links) /\ Shaped(notices) /\ Shaped(balance)
      /\ notices[n][p] \in Nat /\ balance[n][p] \in Int
  BY <1>1 DEF PeersInv, Tables
<1>3. balance[n][p] = Owed(links[n][p], notices[n][p], drained[n], p)
      /\ (Serving(n) \/ links[n][p] = NoSlot)
  BY <1>1 DEF PeersInv, ReportsPaired, StoppedHoldsNone, Owed
<1>4. UNCHANGED <<control, drained, balance>>
  BY DEF on_frame, nodeVars
<1>5. CASE \E reason : finish(c, n, reason)
  BY <1>4, <1>5, FinishKeeps
<1>6. CASE UNCHANGED <<links, notices>>
  BY <1>4, <1>6, NothingReported
<1>7. ASSUME NEW leaf, Holds(n, c), UNCHANGED notices,
             links' = [links EXCEPT ![n][p] = [links[n][p] EXCEPT !.leaf = leaf]]
      PROVE  PeersInv'
  <2>1. links[n][p] # NoSlot /\ Serving(n)
    BY <1>7, <1>3, SlotsDiffer DEF Holds
  <2>2. Point(links, links', n, p, [links[n][p] EXCEPT !.leaf = leaf])
    BY <1>7, <1>1, <1>2, PointUpdate, Zenon
  <2>3. links'[n][p] # NoSlot
    <3>1. links[n][p].state = "live"
      BY <1>7 DEF Holds
    <3>2. ([links[n][p] EXCEPT !.leaf = leaf]).state = links[n][p].state
      OBVIOUS
    <3> QED BY <3>1, <3>2, <2>2, SlotsDiffer, Zenon DEF Point
  <2>4. balance'[n][p] = Owed(links'[n][p], notices'[n][p], drained[n], p)
    BY <2>1, <2>3, <1>3, <1>4, <1>7 DEF Owed, Point
  <2>5. UNCHANGED notices
    BY <1>7, SMTT(60)
  <2> HIDE DEF p
  <2> QED BY <1>1, <1>2, <1>4, <2>1, <2>2, <2>4, <2>5, OnePeerMoves DEF Point
<1>8. \/ \E reason : finish(c, n, reason)
      \/ UNCHANGED <<links, notices>>
      \/ /\ Holds(n, c) /\ UNCHANGED notices
         /\ \E leaf : links' = [links EXCEPT ![n][p] = [links[n][p] EXCEPT !.leaf = leaf]]
  BY SMTT(60) DEF on_frame, renew
<1> QED BY <1>5, <1>6, <1>7, <1>8

\* The hello timeout of a Duplicate close: the awaited slot becomes a report.
LEMMA WaitKeeps ==
    ASSUME PeersInv, NEW n \in Nodes, NEW p \in Peers(n), keeper_wait_ends(n, p)
    PROVE  PeersInv'
<1>1. Shaped(links) /\ Shaped(notices) /\ Shaped(balance)
      /\ notices[n][p] \in Nat /\ balance[n][p] \in Int
  BY DEF PeersInv, Tables
<1>2. balance[n][p] = Owed(links[n][p], notices[n][p], drained[n], p)
  BY DEF PeersInv, ReportsPaired, Owed
<1>3. UNCHANGED <<control, drained, balance>>
  BY DEF keeper_wait_ends, nodeVars
<1>4. CASE UNCHANGED <<links, notices>>
  BY <1>3, <1>4, NothingReported, SMTT(60)
<1>5. ASSUME links[n][p] = AwaitingKeeper,
             links' = [links EXCEPT ![n][p] = NoSlot],
             notices' = [notices EXCEPT ![n][p] = notices[n][p] + 1]
      PROVE  PeersInv'
  <2>1. Point(links, links', n, p, NoSlot)
    BY <1>5, <1>1, PointUpdate, Zenon
  <2>2. Point(notices, notices', n, p, notices[n][p] + 1)
    BY <1>5, <1>1, PointUpdate, Zenon
  <2>3. links[n][p] # NoSlot
    BY <1>5, SlotsDiffer
  <2>4. balance'[n][p] = Owed(links'[n][p], notices'[n][p], drained[n], p)
    BY <2>1, <2>2, <2>3, <1>1, <1>2, <1>3 DEF Owed, Point
  <2>5. notices'[n][p] \in Nat
    BY <2>2, <1>1 DEF Point
  <2> QED BY <1>1, <1>3, <2>1, <2>2, <2>4, <2>5, OnePeerMoves DEF Point
<1>6. \/ UNCHANGED <<links, notices>>
      \/ /\ links[n][p] = AwaitingKeeper
         /\ links' = [links EXCEPT ![n][p] = NoSlot]
         /\ notices' = [notices EXCEPT ![n][p] = notices[n][p] + 1]
  BY SMTT(60) DEF keeper_wait_ends
<1> QED BY <1>4, <1>5, <1>6

\* A report owed by finish or by a wait is sent.
LEMMA UnlinkedKeeps ==
    ASSUME PeersInv, NEW n \in Nodes, NEW p \in Peers(n), report_unlinked(n, p)
    PROVE  PeersInv'
<1>1. Shaped(links) /\ Shaped(notices) /\ Shaped(balance)
      /\ notices[n][p] \in Nat /\ balance[n][p] \in Int
  BY DEF PeersInv, Tables
<1>2. balance[n][p] = Owed(links[n][p], notices[n][p], drained[n], p)
      /\ (Serving(n) \/ links[n][p] = NoSlot)
  BY DEF PeersInv, ReportsPaired, StoppedHoldsNone, Owed
<1>3. UNCHANGED <<control, drained, links>> /\ notices[n][p] > 0
  BY DEF report_unlinked, nodeVars
<1>4. Point(notices, notices', n, p, notices[n][p] - 1)
  <2>1. notices' = [notices EXCEPT ![n][p] = notices[n][p] - 1]
    BY DEF report_unlinked
  <2> QED BY <2>1, <1>1, PointUpdate, Zenon
<1>5. Point(balance, balance', n, p, balance[n][p] - 1)
  <2>1. balance' = [balance EXCEPT ![n][p] = balance[n][p] - 1]
    BY DEF report_unlinked
  <2> QED BY <2>1, <1>1, PointUpdate, Zenon
<1>6. notices'[n][p] \in Nat /\ balance'[n][p] \in Int
  BY <1>1, <1>3, <1>4, <1>5, SMTT(60) DEF Point
<1>7. balance'[n][p] = Owed(links'[n][p], notices'[n][p], drained[n], p)
  BY <1>1, <1>2, <1>3, <1>4, <1>5 DEF Owed, Point
<1> QED BY <1>1, <1>2, <1>3, <1>4, <1>5, <1>6, <1>7, OnePeerMoves DEF Point

\* A stop takes every slot and owes each of their reports.
LEMMA DrainKeeps ==
    ASSUME PeersInv, NEW n \in Nodes, drain(n)
    PROVE  PeersInv'
<1>1. /\ control[n] = "stopping"
      /\ control' = [control EXCEPT ![n] = "draining"]
      /\ drained' = [drained EXCEPT ![n] = {p \in Peers(n) : links[n][p] # NoSlot}]
      /\ links' = [links EXCEPT ![n] = [p \in Peers(n) |-> NoSlot]]
      /\ UNCHANGED <<notices, balance>>
  BY DEF drain
<1>2. drained[n] = {}
  BY <1>1 DEF PeersInv, DrainedInStop
<1>3. /\ drained'[n] = {p \in Peers(n) : links[n][p] # NoSlot}
      /\ \A m \in Nodes : m # n => drained'[m] = drained[m] /\ control'[m] = control[m]
      /\ control'[n] = "draining"
  BY <1>1 DEF PeersInv, Tables
<1>4. /\ links'[n] = [p \in Peers(n) |-> NoSlot]
      /\ \A m \in Nodes : m # n => links'[m] = links[m]
      /\ links' = [m \in Nodes |-> links'[m]]
  BY <1>1 DEF PeersInv, Tables, Shaped
<1>5. Tables'
  <2>1. Shaped(links')
    BY <1>4 DEF PeersInv, Tables, Shaped
  <2>2. control' \in [Nodes -> Phases] /\ drained' \in [Nodes -> SUBSET Nodes]
    BY <1>1 DEF PeersInv, Tables, Phases, Peers
  <2> QED BY <1>1, <2>1, <2>2 DEF PeersInv, Tables, Shaped
<1>6. DrainedInStop'
  BY <1>3 DEF PeersInv, DrainedInStop
<1>7. ReportsPaired'
  <2> SUFFICES ASSUME NEW m \in Nodes, NEW q \in Peers(m)
               PROVE  balance[m][q] = Owed(links'[m][q], notices[m][q], drained'[m], q)
    BY <1>1 DEF ReportsPaired, Owed
  <2>1. balance[m][q] = Owed(links[m][q], notices[m][q], drained[m], q) /\ notices[m][q] \in Nat
    BY DEF PeersInv, ReportsPaired, Tables, Owed
  <2>2. CASE m = n
    BY <2>1, <2>2, <1>2, <1>3, <1>4 DEF Owed
  <2>3. CASE m # n
    BY <2>1, <2>3, <1>3, <1>4
  <2> QED BY <2>2, <2>3
<1>8. StoppedHoldsNone'
  BY <1>3, <1>4 DEF PeersInv, StoppedHoldsNone, Serving
<1> QED BY <1>5, <1>6, <1>7, <1>8, SMTT(60) DEF PeersInv

\* A stop reports what it drained, once for each peer.
LEMMA DrainedKeeps ==
    ASSUME PeersInv, NEW n \in Nodes, NEW p \in Peers(n), report_drained(n, p)
    PROVE  PeersInv'
<1>1. /\ p \in drained[n] /\ control[n] = "draining"
      /\ drained' = [drained EXCEPT ![n] = drained[n] \ {p}]
      /\ UNCHANGED <<control, links, notices>>
  BY DEF report_drained, nodeVars
<1>2. /\ drained'[n] = drained[n] \ {p}
      /\ \A m \in Nodes : m # n => drained'[m] = drained[m]
      /\ drained' \in [Nodes -> SUBSET Nodes]
  BY <1>1 DEF PeersInv, Tables
<1>3. Point(balance, balance', n, p, balance[n][p] - 1)
  <2>1. balance' = [balance EXCEPT ![n][p] = balance[n][p] - 1] /\ Shaped(balance)
    BY DEF report_drained, PeersInv, Tables
  <2> QED BY <2>1, PointUpdate, Zenon
<1>4. Tables'
  BY <1>1, <1>2, <1>3 DEF PeersInv, Tables, Point
<1>5. DrainedInStop'
  BY <1>1, <1>2 DEF PeersInv, DrainedInStop
<1>6. ReportsPaired'
  <2> SUFFICES ASSUME NEW m \in Nodes, NEW q \in Peers(m)
               PROVE  balance'[m][q] = Owed(links[m][q], notices[m][q], drained'[m], q)
    BY <1>1 DEF ReportsPaired, Owed
  <2>1. /\ balance[m][q] = Owed(links[m][q], notices[m][q], drained[m], q)
        /\ notices[m][q] \in Nat /\ balance[m][q] \in Int
    BY SMTT(60) DEF PeersInv, ReportsPaired, Tables, Owed
  <2>2. CASE m = n /\ q = p
    BY <2>1, <2>2, <1>1, <1>2, <1>3, SMTT(60) DEF Owed, Point
  <2>3. CASE m = n /\ q # p
    BY <2>1, <2>3, <1>2, <1>3 DEF Owed, Point
  <2>4. CASE m # n
    BY <2>1, <2>4, <1>2, <1>3 DEF Owed, Point
  <2> QED BY <2>2, <2>3, <2>4
<1>7. StoppedHoldsNone'
  BY <1>1 DEF PeersInv, StoppedHoldsNone, Serving
<1> QED BY <1>4, <1>5, <1>6, <1>7 DEF PeersInv

\* The caller moves on inside serve or stop: no slot and no event changes, and
\* a node leaves the serving phases only in drain.
LEMMA PhaseKeeps ==
    ASSUME PeersInv, NEW n \in Nodes, NEW phase \in Phases,
           control' = [control EXCEPT ![n] = phase],
           control[n] = "draining" => drained[n] = {},
           phase # "draining",
           Serving(n) => phase \in {"serving", "renewing", "stopping"},
           UNCHANGED <<links, notices, drained, balance>>
    PROVE  PeersInv'
<1>1. control' \in [Nodes -> Phases]
      /\ \A m \in Nodes : control'[m] = IF m = n THEN phase ELSE control[m]
  BY DEF PeersInv, Tables
<1>2. Tables'
  BY <1>1 DEF PeersInv, Tables, Shaped
<1>3. DrainedInStop'
  BY <1>1 DEF PeersInv, DrainedInStop
<1>4. ReportsPaired'
  BY DEF PeersInv, ReportsPaired
<1>5. StoppedHoldsNone'
  BY <1>1 DEF PeersInv, StoppedHoldsNone, Serving
<1> QED BY <1>2, <1>3, <1>4, <1>5 DEF PeersInv

\* Every step keeps the invariant.
LEMMA StepKeeps ==
    ASSUME PeersInv, [Next]_vars
    PROVE  PeersInv'
<1>1. ASSUME NEW n \in Nodes,
             \/ serve(n) \/ served(n) \/ renew_identity(n)
             \/ renew_links(n) \/ stop(n) \/ stopped(n)
      PROVE  PeersInv'
  <2>1. UNCHANGED <<links, notices, drained, balance>>
    BY <1>1 DEF serve, served, renew_identity, renew_links, stop, stopped
  <2>2. CASE serve(n)
    BY <2>1, <2>2, PhaseKeeps, Zenon DEF serve, Serving, Phases
  <2>3. CASE served(n)
    BY <2>1, <2>3, PhaseKeeps, Zenon DEF served, Serving, Phases
  <2>4. CASE renew_identity(n)
    BY <2>1, <2>4, PhaseKeeps, Zenon DEF renew_identity, Serving, Phases
  <2>5. CASE renew_links(n)
    <3>1. control[n] = "renewing" /\ control' = [control EXCEPT ![n] = "serving"]
      BY <2>5 DEF renew_links
    <3> QED BY <2>1, <3>1, PhaseKeeps, Zenon DEF Serving, Phases
  <2>6. CASE stop(n)
    BY <2>1, <2>6, PhaseKeeps, Zenon DEF stop, Serving, Phases
  <2>7. CASE stopped(n)
    BY <2>1, <2>7, PhaseKeeps, Zenon DEF stopped, Serving, Phases
  <2> QED BY <1>1, <2>2, <2>3, <2>4, <2>5, <2>6, <2>7, SMTT(60)
<1>2. ASSUME NEW n \in Nodes, drain(n) PROVE PeersInv'
  BY <1>2, DrainKeeps
<1>3. ASSUME NEW n \in Nodes, NEW p \in Peers(n),
             \/ report_drained(n, p) \/ link(n, p)
             \/ keeper_wait_ends(n, p) \/ report_unlinked(n, p)
      PROVE  PeersInv'
  <2>1. CASE link(n, p)
    BY <2>1, NothingReported, SMTT(60) DEF link
  <2> QED BY <1>3, <2>1, DrainedKeeps, WaitKeeps, UnlinkedKeeps
<1>4. ASSUME NEW c \in Conns, accept(c) \/ link_fails(c) \/ cut_off(c) PROVE PeersInv'
  BY <1>4, NothingReported DEF accept, link_fails, cut_off, nodeVars
<1>5. ASSUME NEW c \in Conns, NEW n \in Sides(c), Runs(c, n) \/ write_fails(c, n)
      PROVE  PeersInv'
  <2>1. CASE close_loser(c, n) \/ run(c, n)
    BY <2>1, NothingReported DEF close_loser, run, nodeVars
  <2>2. CASE on_command(c, n)
    <3>1. UNCHANGED <<control, drained, balance>>
      BY <2>2 DEF on_command, nodeVars
    <3>2. (\E reason : finish(c, n, reason)) \/ UNCHANGED <<links, notices>>
      BY <2>2 DEF on_command
    <3> QED BY <3>1, <3>2, FinishKeeps, NothingReported
  <2>3. CASE silence(c, n)
    <3>1. UNCHANGED <<control, drained, balance>>
      BY <2>3 DEF silence, nodeVars
    <3>2. (\E reason : finish(c, n, reason)) \/ UNCHANGED <<links, notices>>
      BY <2>3 DEF silence
    <3> QED BY <3>1, <3>2, FinishKeeps, NothingReported
  <2>4. CASE write_fails(c, n)
    <3>1. UNCHANGED <<control, drained, balance>>
      BY <2>4 DEF write_fails, nodeVars
    <3>2. \E reason : finish(c, n, reason)
      BY <2>4 DEF write_fails
    <3> QED BY <3>1, <3>2, FinishKeeps
  <2> QED BY <1>5, <2>1, <2>2, <2>3, <2>4, RegisterKeeps, FrameKeeps DEF Runs
<1>6. CASE UNCHANGED vars
  BY <1>6, NothingReported DEF vars, nodeVars
<1> QED BY <1>1, <1>2, <1>3, <1>4, <1>5, <1>6 DEF Next

\* No slot, no event and nothing drained at the start.
LEMMA InitKeeps == Init => PeersInv
BY DEF Init, PeersInv, Tables, Shaped, Phases, DrainedInStop, ReportsPaired, StoppedHoldsNone, Serving

\* The invariant of links, reports and stops holds in every reachable state.
THEOREM PeersInvariant == Spec => []PeersInv
BY InitKeeps, StepKeeps, PTL DEF Spec

\* Linked and Unlinked events pair up, whatever replaces, closes, awaits or
\* drains the links (register_link, finish, stop_state).
THEOREM EventsPair == Spec => []ReportsPaired
<1>1. PeersInv => ReportsPaired
  BY DEF PeersInv
<1> QED BY PeersInvariant, <1>1, PTL

\* No link is registered or kept on a stopped node (register_link, stop_state).
THEOREM StoppedIsEmpty == Spec => []StoppedHoldsNone
<1>1. PeersInv => StoppedHoldsNone
  BY DEF PeersInv
<1> QED BY PeersInvariant, <1>1, PTL

\* The duplicate rule is a strict total order of the connections between two
\* devices, so the two sides, which see them register in different orders,
\* prefer the same one of any two (register_link).
THEOREM DuplicateRuleDecides ==
    ASSUME NEW c \in Conns, NEW d \in Conns, NEW e \in Conns,
           Sides(c) = Sides(d), Sides(d) = Sides(e)
    PROVE  /\ c # d => (Outranks(c, d) <=> ~Outranks(d, c))
           /\ Outranks(c, d) /\ Outranks(d, e) => Outranks(c, e)
<1>1. \A x \in Conns : x.dialer \in Nat /\ x.dial \in Nat
  <2> SUFFICES ASSUME NEW x \in Conns PROVE x.dialer \in Nat /\ x.dial \in Nat
    OBVIOUS
  <2>1. x.dialer \in Nodes /\ x.dial \in 1..MaxDials
    BY DEF Conns
  <2>2. \A k \in Nodes : k \in Nat
    BY PeersAssumption, Zenon
  <2>3. \A k \in 1..MaxDials : k \in Nat
    BY SMT
  <2> QED BY <2>1, <2>2, <2>3, Zenon
<1>2. c # d => c.dialer # d.dialer \/ c.dial # d.dial
  <2> SUFFICES ASSUME c.dialer = d.dialer, c.dial = d.dial PROVE c = d
    OBVIOUS
  <2>1. c.to = d.to
    BY DEF Conns, Sides
  <2> QED BY <2>1 DEF Conns
<1>3. c # d => (Outranks(c, d) <=> ~Outranks(d, c))
  BY <1>1, <1>2 DEF Outranks
<1>4. Outranks(c, d) /\ Outranks(d, e) => Outranks(c, e)
  BY <1>1 DEF Outranks
<1> QED BY <1>3, <1>4
============================================================================
