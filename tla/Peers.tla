------------------------------- MODULE Peers -------------------------------
(***************************************************************************)
(* The device-to-device links of crates/connetto-peer: node.rs (serve,     *)
(* dial, registration under the duplicate rule, renewal, stop) and         *)
(* link.rs (the frame task of one end of a link, its close and the wait    *)
(* for the kept link).  Two devices may dial each other at the same time;  *)
(* each end of each connection is a task of its own, and the two ends of a *)
(* connection share nothing but the frames on the wire.                    *)
(*                                                                         *)
(* A node is named by its key, a positive number, so that the order of the *)
(* numbers is the byte order of the keys.  A certificate is its version.   *)
(* The revocation lists that ride the links, the expiry deadline and the   *)
(* refusals of a handshake are left out, and with them the closes they     *)
(* cause; a connection may be cut at any time instead.                     *)
(***************************************************************************)
EXTENDS Integers, Sequences, FiniteSets, Functions

CONSTANTS
    Nodes,      \* the devices, by key
    MaxDials,   \* dials of all devices together
    MaxUpsets   \* renewals, stops and cut connections together

ASSUME PeersAssumption ==
    /\ Nodes \subseteq Nat \ {0}
    /\ IsFiniteSet(Nodes)
    /\ MaxDials \in Nat /\ MaxUpsets \in Nat

VARIABLES
    control,    \* how far the node's one caller is inside serve or stop
    identity,   \* the version of the certificate each node was given last
    dialled,    \* NodeState.dial_count
    links,      \* NodeState.links: one slot for each peer
    ends,       \* the task that drives each end of each connection
    inbox,      \* the frames on the wire to each end
    commands,   \* the commands queued to each end's frame task
    waits,      \* the closes with Duplicate whose hello timeout still runs
    notices,    \* the Unlinked events of slots already removed, not sent yet
    drained,    \* the peers a stop took out of links and has not reported yet
    balance,    \* Linked events sent less Unlinked events sent
    cut,        \* the connections that failed or were cut
    stops       \* the stops so far

nodeVars == <<control, identity, dialled, stops>>
endVars == <<ends, inbox, commands>>
vars == <<nodeVars, links, endVars, waits, notices, drained, balance, cut>>

Peers(n) == Nodes \ {n}

\* A connection, by the side that dialled it and that side's dial counter.
Conns == {c \in [dialer : Nodes, to : Nodes, dial : 1..MaxDials] : c.dialer # c.to}
Sides(c) == {c.dialer, c.to}
Far(c, n) == IF n = c.dialer THEN c.to ELSE c.dialer

\* The bounds on what the environment does.
Total(f) == FoldFunction(+, 0, f)
MayDial == Total(dialled) < MaxDials
MayUpset == Total(identity) + stops + Cardinality(cut) < MaxUpsets

\* stop_state takes the identity away before it takes the links lock, and
\* serve sets it before the node serves.
Presents(n) == control[n] \in {"starting", "serving", "renewing"}
Serving(n) == control[n] \in {"serving", "renewing", "stopping"}

\* SlotState.
NoConn == [dialer |-> 0, to |-> 0, dial |-> 0]
NoSlot == [state |-> "none", conn |-> NoConn, leaf |-> 0]
Live(c, leaf) == [state |-> "live", conn |-> c, leaf |-> leaf]
AwaitingKeeper == [state |-> "awaiting", conn |-> NoConn, leaf |-> 0]

\* The slot of c's far side is the one c registered: `slot.seq == seq`.
Holds(n, c) ==
    LET slot == links[n][Far(c, n)] IN slot.state = "live" /\ slot.conn = c

\* LinkCommand and the PeerFrames a live link sends, and the stream's end.
Close(reason) == [kind |-> "Close", reason |-> reason, leaf |-> 0]
Certificate(leaf) == [kind |-> "Certificate", reason |-> "none", leaf |-> leaf]
End == [kind |-> "End", reason |-> "none", leaf |-> 0]

NoEnd == [stage |-> "none", presented |-> 0, leaf |-> 0]
Gone == [NoEnd EXCEPT !.stage = "gone"]

Init ==
    /\ control = [n \in Nodes |-> "serving"]
    /\ identity = [n \in Nodes |-> 0]
    /\ dialled = [n \in Nodes |-> 0]
    /\ links = [n \in Nodes |-> [p \in Peers(n) |-> NoSlot]]
    /\ ends = [c \in Conns |-> [n \in Sides(c) |-> NoEnd]]
    /\ inbox = [c \in Conns |-> [n \in Sides(c) |-> <<>>]]
    /\ commands = [c \in Conns |-> [n \in Sides(c) |-> <<>>]]
    /\ waits = [n \in Nodes |-> [p \in Peers(n) |-> 0]]
    /\ notices = [n \in Nodes |-> [p \in Peers(n) |-> 0]]
    /\ drained = [n \in Nodes |-> {}]
    /\ balance = [n \in Nodes |-> [p \in Peers(n) |-> 0]]
    /\ cut = {}
    /\ stops = 0

(***************************************************************************)
(* The ends of a connection on the wire.                                   *)
(***************************************************************************)

\* What reaches the far end of c when n writes frames.
Written(c, n, frames) ==
    IF c \in cut \/ ends[c][Far(c, n)].stage = "gone" THEN inbox[c][Far(c, n)]
    ELSE inbox[c][Far(c, n)] \o frames

\* n's end goes away after it wrote frames: the far end reads them and then
\* the end of the stream, and n's own frames and commands are dropped.
HangUp(c, n, frames) ==
    /\ ends' = [ends EXCEPT ![c][n] = Gone]
    /\ inbox' = [inbox EXCEPT ![c][n] = <<>>,
                              ![c][Far(c, n)] = Written(c, n, frames \o <<End>>)]
    /\ commands' = [commands EXCEPT ![c][n] = <<>>]

(***************************************************************************)
(* Serving, renewal and stop, called by the one task that owns the node.   *)
(***************************************************************************)

\* serve on a node that does not listen, with the certificate it had or a new
\* one: the identity is set and the listener bound, then the node serves.
serve(n) ==
    /\ control[n] = "stopped"
    /\ control' = [control EXCEPT ![n] = "starting"]
    /\ \E leaf \in {identity[n], identity[n] + 1} :
          (leaf # identity[n] => MayUpset) /\ identity' = [identity EXCEPT ![n] = leaf]
    /\ UNCHANGED <<dialled, stops, links, endVars, waits, notices, drained, balance, cut>>

\* A bind that fails leaves the node where it is.
served(n) ==
    /\ control[n] = "starting"
    /\ control' = [control EXCEPT ![n] = "serving"]
    /\ UNCHANGED <<identity, dialled, stops, links, endVars, waits, notices, drained, balance, cut>>

\* serve on a node that listens, with a renewed certificate: the identity is
\* swapped, and only then are the live links told.
renew_identity(n) ==
    /\ control[n] = "serving" /\ MayUpset
    /\ identity' = [identity EXCEPT ![n] = @ + 1]
    /\ control' = [control EXCEPT ![n] = "renewing"]
    /\ UNCHANGED <<dialled, stops, links, endVars, waits, notices, drained, balance, cut>>

renew_links(n) ==
    /\ control[n] = "renewing"
    /\ commands' = [c \in Conns |-> [m \in Sides(c) |->
          IF m = n /\ Holds(n, c) THEN Append(commands[c][m], Certificate(identity[n]))
          ELSE commands[c][m]]]
    /\ control' = [control EXCEPT ![n] = "serving"]
    /\ UNCHANGED <<identity, dialled, stops, links, ends, inbox, waits, notices, drained, balance, cut>>

\* stop_state up to the links lock: the node presents nothing and no longer
\* listens, while a link may still register.
stop(n) ==
    /\ control[n] = "serving" /\ MayUpset
    /\ control' = [control EXCEPT ![n] = "stopping"]
    /\ stops' = stops + 1
    /\ UNCHANGED <<identity, dialled, links, endVars, waits, notices, drained, balance, cut>>

\* Under the links lock the node stops serving and every slot is taken.  Each
\* live link's task gets a close and is aborted, unless its registration has
\* not recorded the task yet.
drain(n) ==
    /\ control[n] = "stopping"
    /\ control' = [control EXCEPT ![n] = "draining"]
    /\ drained' = [drained EXCEPT ![n] = {p \in Peers(n) : links[n][p] # NoSlot}]
    /\ links' = [links EXCEPT ![n] = [p \in Peers(n) |-> NoSlot]]
    /\ LET held == {c \in Conns : n \in Sides(c) /\ Holds(n, c)} IN
       \E aborted \in SUBSET held :
          /\ ends' = [c \in Conns |->
                IF c \in aborted THEN [ends[c] EXCEPT ![n] = Gone] ELSE ends[c]]
          /\ inbox' = [c \in Conns |->
                IF c \in aborted
                THEN [inbox[c] EXCEPT ![n] = <<>>, ![Far(c, n)] = Written(c, n, <<End>>)]
                ELSE inbox[c]]
          /\ commands' = [c \in Conns |->
                IF c \in aborted THEN [commands[c] EXCEPT ![n] = <<>>]
                ELSE IF c \in held THEN [commands[c] EXCEPT ![n] = Append(@, Close("Stopped"))]
                ELSE commands[c]]
    /\ UNCHANGED <<identity, dialled, stops, waits, notices, balance, cut>>

\* The drained links are reported one by one, and the stop returns.
report_drained(n, p) ==
    /\ control[n] = "draining" /\ p \in drained[n]
    /\ drained' = [drained EXCEPT ![n] = @ \ {p}]
    /\ balance' = [balance EXCEPT ![n][p] = @ - 1]
    /\ UNCHANGED <<nodeVars, links, endVars, waits, notices, cut>>

stopped(n) ==
    /\ control[n] = "draining" /\ drained[n] = {}
    /\ control' = [control EXCEPT ![n] = "stopped"]
    /\ UNCHANGED <<identity, dialled, stops, links, endVars, waits, notices, drained, balance, cut>>

(***************************************************************************)
(* Dial, handshake and registration.                                       *)
(***************************************************************************)

\* link: the identity is read and the dial counted before the connect.
link(n, p) ==
    /\ Presents(n) /\ MayDial
    /\ LET c == [dialer |-> n, to |-> p, dial |-> dialled[n] + 1] IN
       ends' = [ends EXCEPT ![c][n] =
          [stage |-> "dialing", presented |-> identity[n], leaf |-> 0]]
    /\ dialled' = [dialled EXCEPT ![n] = @ + 1]
    /\ UNCHANGED <<control, identity, stops, links, inbox, commands,
                   waits, notices, drained, balance, cut>>

\* The listener accepts with the identity it presents then, and the hellos
\* are written: each end knows the other's leaf and the dial counter.
accept(c) ==
    /\ ends[c][c.dialer].stage = "dialing" /\ c \notin cut /\ Presents(c.to)
    /\ ends' = [ends EXCEPT
          ![c][c.dialer].stage = "greeting", ![c][c.dialer].leaf = identity[c.to],
          ![c][c.to] = [stage |-> "greeting", presented |-> identity[c.to],
                        leaf |-> ends[c][c.dialer].presented]]
    /\ UNCHANGED <<nodeVars, links, inbox, commands, waits, notices, drained, balance, cut>>

\* The dial ends in an error: nobody listens, or the connection is cut.
link_fails(c) ==
    /\ ends[c][c.dialer].stage = "dialing" /\ (c \in cut \/ ~Presents(c.to))
    /\ ends' = [ends EXCEPT ![c][c.dialer] = Gone]
    /\ UNCHANGED <<nodeVars, links, inbox, commands, waits, notices, drained, balance, cut>>

\* The duplicate rule: the later of one side's dials, else the dial of the
\* side with the smaller key.
OutranksByCount(c, held) == c.dial > held.dial
Outranks(c, held) ==
    IF c.dialer = held.dialer THEN c.dial > held.dial ELSE c.dialer < held.dialer

\* catch_up_renewal: a link whose handshake presented an older certificate.
NoCatchUp(c, n) == <<>>
CatchUp(c, n) ==
    IF Presents(n) /\ ends[c][n].presented # identity[n] THEN <<Certificate(identity[n])>>
    ELSE <<>>

\* A kept link is reported unless its peer already is, live or awaited.
unless_live(n, p) == links[n][p].state # "live"
fresh(n, p) == links[n][p] = NoSlot

\* A stopped node drops the connection.  A kept link replaces the held one,
\* which is told to close; a losing one is closed by a task of its own.
register_link(c, n) ==
    /\ ends[c][n].stage = "greeting"
    /\ LET p == Far(c, n)
           held == links[n][p]
       IN \/ /\ ~Serving(n)
             /\ HangUp(c, n, <<>>)
             /\ UNCHANGED <<links, balance>>
          \/ /\ Serving(n) /\ (held.state = "live" => Outranks(c, held.conn))
             /\ links' = [links EXCEPT ![n][p] = Live(c, ends[c][n].leaf)]
             /\ balance' = IF fresh(n, p) THEN [balance EXCEPT ![n][p] = @ + 1] ELSE balance
             /\ commands' = [d \in Conns |->
                   CASE d = c -> [commands[c] EXCEPT ![n] = CatchUp(c, n)]
                     [] d # c /\ held.state = "live" /\ d = held.conn ->
                           [commands[d] EXCEPT ![n] = Append(@, Close("Duplicate"))]
                     [] OTHER -> commands[d]]
             /\ ends' = [ends EXCEPT ![c][n].stage = "spawned"]
             /\ UNCHANGED inbox
          \/ /\ Serving(n) /\ held.state = "live" /\ ~Outranks(c, held.conn)
             /\ ends' = [ends EXCEPT ![c][n].stage = "losing"]
             /\ UNCHANGED <<links, balance, inbox, commands>>
    /\ UNCHANGED <<nodeVars, waits, notices, drained, cut>>

\* The losing side tells the far end that the close is a duplicate.
close_loser(c, n) ==
    /\ ends[c][n].stage = "losing"
    /\ HangUp(c, n, <<Close("Duplicate")>>)
    /\ UNCHANGED <<nodeVars, links, waits, notices, drained, balance, cut>>

(***************************************************************************)
(* The frame task of one end.                                              *)
(***************************************************************************)

\* The task starts: a link replaced or drained meanwhile ends with no frame.
run(c, n) ==
    /\ ends[c][n].stage = "spawned"
    /\ \/ /\ Holds(n, c)
          /\ ends' = [ends EXCEPT ![c][n].stage = "live"]
          /\ UNCHANGED <<inbox, commands>>
       \/ ~Holds(n, c) /\ HangUp(c, n, <<>>)
    /\ UNCHANGED <<nodeVars, links, waits, notices, drained, balance, cut>>

\* finish: only the link that holds the slot gives it up.  A Duplicate close
\* leaves the peer reported and starts the wait for the kept link.
finish(c, n, reason) ==
    LET p == Far(c, n) IN
    IF ~Holds(n, c) THEN UNCHANGED <<links, waits, notices>>
    ELSE IF reason = "Duplicate"
    THEN /\ links' = [links EXCEPT ![n][p] = AwaitingKeeper]
         /\ waits' = [waits EXCEPT ![n][p] = @ + 1]
         /\ UNCHANGED notices
    ELSE /\ links' = [links EXCEPT ![n][p] = NoSlot]
         /\ notices' = [notices EXCEPT ![n][p] = @ + 1]
         /\ UNCHANGED waits

\* A close is written and ends the link; a renewed chain is written.
on_command(c, n) ==
    /\ ends[c][n].stage = "live" /\ commands[c][n] # <<>>
    /\ LET command == Head(commands[c][n]) IN
       \/ /\ command.kind = "Close"
          /\ finish(c, n, command.reason)
          /\ HangUp(c, n, <<command>>)
       \/ /\ command.kind = "Certificate"
          /\ commands' = [commands EXCEPT ![c][n] = Tail(@)]
          /\ inbox' = [inbox EXCEPT ![c][Far(c, n)] = Written(c, n, <<command>>)]
          /\ UNCHANGED <<ends, links, waits, notices>>
    /\ UNCHANGED <<nodeVars, drained, balance, cut>>

\* A renewed chain replaces the leaf in the slot the link holds.
renew(c, n, leaf) ==
    links' = IF Holds(n, c) THEN [links EXCEPT ![n][Far(c, n)].leaf = leaf] ELSE links

\* Only a duplicate keeps the sender's reason.
on_frame(c, n) ==
    /\ ends[c][n].stage = "live" /\ inbox[c][n] # <<>>
    /\ LET frame == Head(inbox[c][n]) IN
       \/ /\ frame.kind \in {"Close", "End"}
          /\ finish(c, n, IF frame.reason = "Duplicate" THEN "Duplicate" ELSE "Closed")
          /\ HangUp(c, n, <<>>)
       \/ /\ frame.kind = "Certificate"
          /\ renew(c, n, frame.leaf)
          /\ inbox' = [inbox EXCEPT ![c][n] = Tail(@)]
          /\ UNCHANGED <<ends, commands, waits, notices>>
    /\ UNCHANGED <<nodeVars, drained, balance, cut>>

\* queued_close: what the frames that already arrived say of the close.
QueuedDuplicate(frames) ==
    \E i \in 1..Len(frames) :
       /\ frames[i] = Close("Duplicate")
       /\ \A j \in 1..(i - 1) : frames[j].kind = "Certificate"

\* A write fails, of a ping or a pong, once the far end is gone or cut off.
write_fails(c, n) ==
    /\ ends[c][n].stage = "live" /\ (c \in cut \/ ends[c][Far(c, n)].stage = "gone")
    /\ finish(c, n, IF QueuedDuplicate(inbox[c][n]) THEN "Duplicate" ELSE "Closed")
    /\ HangUp(c, n, <<>>)
    /\ UNCHANGED <<nodeVars, drained, balance, cut>>

\* Nothing is heard for the silence limit, or the hello never comes.
silence(c, n) ==
    /\ c \in cut
    /\ \/ ends[c][n].stage = "live" /\ finish(c, n, "PeerLost")
       \/ ends[c][n].stage = "greeting" /\ UNCHANGED <<links, waits, notices>>
    /\ HangUp(c, n, <<>>)
    /\ UNCHANGED <<nodeVars, drained, balance, cut>>

\* The hello timeout of a Duplicate close, with or without the kept link.
keeper_wait_forgets(n, p) ==
    /\ waits[n][p] > 0
    /\ waits' = [waits EXCEPT ![n][p] = @ - 1]
    /\ UNCHANGED <<nodeVars, links, endVars, notices, drained, balance, cut>>
keeper_wait_ends(n, p) ==
    /\ waits[n][p] > 0
    /\ waits' = [waits EXCEPT ![n][p] = @ - 1]
    /\ IF links[n][p] = AwaitingKeeper
       THEN /\ links' = [links EXCEPT ![n][p] = NoSlot]
            /\ notices' = [notices EXCEPT ![n][p] = @ + 1]
       ELSE UNCHANGED <<links, notices>>
    /\ UNCHANGED <<nodeVars, endVars, drained, balance, cut>>

\* The Unlinked event is sent after the links lock is released.
report_unlinked(n, p) ==
    /\ notices[n][p] > 0
    /\ notices' = [notices EXCEPT ![n][p] = @ - 1]
    /\ balance' = [balance EXCEPT ![n][p] = @ - 1]
    /\ UNCHANGED <<nodeVars, links, endVars, waits, drained, cut>>

\* The network cuts a connection: what is on its way to each end is lost, or
\* had arrived.
cut_off(c) ==
    /\ c \notin cut /\ \E n \in Sides(c) : ends[c][n].stage \notin {"none", "gone"}
    /\ MayUpset
    /\ cut' = cut \union {c}
    /\ \E lost \in SUBSET Sides(c) :
          inbox' = [inbox EXCEPT ![c] = [n \in Sides(c) |-> IF n \in lost THEN <<>> ELSE inbox[c][n]]]
    /\ UNCHANGED <<nodeVars, links, ends, commands, waits, notices, drained, balance>>

Runs(c, n) ==
    \/ register_link(c, n) \/ close_loser(c, n) \/ run(c, n)
    \/ on_command(c, n) \/ on_frame(c, n) \/ silence(c, n)

Next ==
    \/ \E n \in Nodes :
          \/ serve(n) \/ served(n) \/ renew_identity(n) \/ renew_links(n)
          \/ stop(n) \/ drain(n) \/ stopped(n)
          \/ \E p \in Peers(n) :
                \/ report_drained(n, p) \/ link(n, p)
                \/ keeper_wait_ends(n, p) \/ report_unlinked(n, p)
    \/ \E c \in Conns :
          \/ accept(c) \/ link_fails(c) \/ cut_off(c)
          \/ \E n \in Sides(c) : Runs(c, n) \/ write_fails(c, n)

Spec == Init /\ [][Next]_vars

\* A node's own steps are taken: its caller returns from a renewal and a stop,
\* the tasks are scheduled and the timers fire.  Nobody is obliged to serve,
\* dial, renew or stop, no port to bind, nor the network to connect or to cut.
FairSpec ==
    /\ Spec
    /\ \A n \in Nodes :
          /\ WF_vars(\/ renew_links(n) \/ drain(n) \/ stopped(n)
                     \/ \E p \in Peers(n) : report_drained(n, p))
          /\ \A p \in Peers(n) : WF_vars(keeper_wait_ends(n, p))
    /\ \A c \in Conns : \A n \in Sides(c) : WF_vars(Runs(c, n))

(***************************************************************************)
(* Properties.                                                             *)
(***************************************************************************)
\* Every Unlinked event answers one Linked event, whatever replaces, closes,
\* awaits or drains a link (register_link, finish, stop_state): the events
\* sent differ by the slot the peer has and the reports still on their way.
ReportsPaired ==
    \A n \in Nodes : \A p \in Peers(n) :
       balance[n][p] = (IF links[n][p] = NoSlot THEN 0 ELSE 1)
                       + notices[n][p] + (IF p \in drained[n] THEN 1 ELSE 0)

\* A stopped node holds no link, however a stop crosses registrations and
\* closes (stop_state, register_link: the serving check under the links lock).
StoppedHoldsNone ==
    \A n \in Nodes : ~Serving(n) => \A p \in Peers(n) : links[n][p] = NoSlot

\* No task has anything left to do.
Quiet ==
    /\ \A n \in Nodes :
          /\ control[n] \in {"stopped", "serving"}
          /\ \A p \in Peers(n) : waits[n][p] = 0
    /\ \A c \in Conns : \A n \in Sides(c) :
          \/ ends[c][n].stage \in {"none", "gone"}
          \/ /\ ends[c][n].stage = "live" /\ c \notin cut
             /\ inbox[c][n] = <<>> /\ commands[c][n] = <<>>

\* Dials that cross or follow one another never close each other's link
\* altogether: if nothing stopped or was cut, both sides end up with the same
\* one connection (register_link's duplicate rule, AwaitingKeeper).
CrossedDialsLink ==
    Quiet /\ cut = {} /\ stops = 0 =>
       \A c \in Conns : ends[c][c.to].stage # "none" =>
          \E kept \in Conns :
             /\ Sides(kept) = Sides(c)
             /\ \A n \in Sides(c) : Holds(n, kept)

\* A renewed certificate reaches every link, the ones that register while the
\* identity is swapped included (serve, renew_links, catch_up_renewal).
RenewalReachesLinks ==
    Quiet => \A n \in Nodes : \A p \in Peers(n) :
       links[n][p].state = "live" => links[n][p].leaf = identity[p]

\* Through cuts, stops and replaced links the two sides settle: no side keeps
\* a link the other has not, and no wait for a kept link lasts (run, finish).
LinksSettle ==
    <>[](\A n \in Nodes : \A p \in Peers(n) :
            /\ links[n][p] # AwaitingKeeper
            /\ links[n][p].state = "live" => Holds(p, links[n][p].conn))
============================================================================
