----------------------------- MODULE MutationPath ------------------------------
(***************************************************************************)
(* One client's writes on their way to the source tables: the client's     *)
(* durable queue (connetto-client), the frames in flight on each of its    *)
(* connections, and one server session per connection running the          *)
(* mutation handler against the writer tables (connetto-server).           *)
(*                                                                         *)
(* The client is on one connection at a time, but the session of one it    *)
(* has left keeps handling the frames it already received, so two sessions *)
(* may race on the same entries.  The writer is a number: issued at the    *)
(* first handshake, named at every later one.  An entry's changeset is     *)
(* identified by its sequence.                                             *)
(***************************************************************************)
EXTENDS Naturals, FiniteSets, Sequences, SequencesExt

CONSTANTS
    MaxWrites,  \* bound: local writes the application makes
    MaxConns,   \* bound: connections the client opens
    MaxWork,    \* bound: writes made and connections opened, together
    MaxFaults   \* bound: database outages, undecided authorisations, throttles

ASSUME PathBounds ==
    MaxWrites \in Nat /\ MaxConns \in Nat /\ MaxWork \in Nat /\ MaxFaults \in Nat

Seqs == 1..MaxWrites
Conns == 1..MaxConns
Numbers == 1..MaxConns      \* a handshake issues at most one number
None == 0

VARIABLES
    \* the writer tables, as in WriterStore
    rows, retired, frontier, head, settled, journal,
    \* the client: `number`, `next_seq` and `pending` are durable
    number, next_seq, pending, verdict, resend, conn, attached, opened,
    \* the links and the server's sessions, by connection
    up, down, sess, faults

clientVars == <<number, next_seq, pending, verdict, resend, conn, attached, opened>>
wires == <<up, down>>
pathVars == <<rows, retired, frontier, head, settled, journal,
              number, next_seq, pending, verdict, resend, conn, attached, opened,
              up, down, sess, faults>>

\* The specs the sessions hold between reading the row and answering.
InFlight == UNION {sess[c].spec : c \in Conns}

Store == INSTANCE WriterStore
            WITH Writers <- Numbers, Writes <- Seqs, MaxSeq <- MaxWrites,
                 MaxCalls <- MaxConns, calls <- InFlight

tables == <<rows, retired, frontier, head, settled, journal>>

Final == {"Applied", "Rejected", "Conflict"}
Answers == Final \cup {"Forked", "Indeterminate", "RateLimited"}

Fresh == [phase |-> "none", writer |-> None, indeterminate |-> None, deferred |-> {},
          pc |-> "idle", seq |-> None, spec |-> {}, outcome |-> "none", redelivery |-> FALSE]

PathInit ==
    /\ number = None /\ next_seq = 1 /\ pending = {}
    /\ verdict = [s \in Seqs |-> "none"]
    /\ resend = "Idle" /\ conn = None /\ attached = FALSE /\ opened = 0
    /\ up = [c \in Conns |-> << >>] /\ down = [c \in Conns |-> << >>]
    /\ sess = [c \in Conns |-> Fresh]
    /\ faults = 0
    /\ Store!StoreInit

-------------------------------------------------------------------------------
(***************************************************************************)
(* The client.                                                             *)
(***************************************************************************)
Mutation(s) == [t |-> "mutation", seq |-> s]
Replay(S) == [i \in 1..Cardinality(S) |-> Mutation(SetToSortSeq(S, LAMBDA a, b : a < b)[i])]

settled_past == next_seq - 1

\* settled_through: the contiguous prefix of the queue already answered.
settled_through ==
    IF pending = {} THEN next_seq - 1 ELSE (CHOOSE s \in pending : \A p \in pending : s <= p) - 1

\* The connections opened once this write can travel.
Dials == IF conn = None \/ sess[conn].phase = "closed" THEN opened + 1 ELSE opened
MayWrite == next_seq <= MaxWrites /\ next_seq + Dials <= MaxWork

\* push and append_entry: durable first, sent when the connection writes as this writer.
push ==
    /\ MayWrite
    /\ next_seq' = next_seq + 1
    /\ pending' = pending \cup {next_seq}
    /\ up' = IF attached THEN [up EXCEPT ![conn] = Append(@, Mutation(next_seq))] ELSE up
    /\ UNCHANGED <<tables, number, verdict, resend, conn, attached, opened, down, sess, faults>>

\* attach, up to the handshake frame; writer_handshake names the number or asks for one.
dial ==
    /\ conn = None /\ opened < MaxConns
    /\ opened' = opened + 1 /\ conn' = opened + 1
    /\ up' = [up EXCEPT ![opened + 1] =
                <<[t |-> "handshake", writer |-> number, through |-> settled_through]>>]
    /\ sess' = [sess EXCEPT ![opened + 1].phase = "greeting"]
    /\ UNCHANGED <<tables, number, next_seq, pending, verdict, resend, attached, down, faults>>

\* The next frame the client reads on its connection.
Arrived(t) == conn # None /\ down[conn] # << >> /\ Head(down[conn]).t = t
Consume == down' = [down EXCEPT ![conn] = Tail(@)]

\* reconcile_pending: the next sequence, raised past the granted frontier.
raised(granted) == IF granted + 1 > next_seq THEN granted + 1 ELSE next_seq

\* attach from the ack on: apply_writer_grant, reconcile_pending, replay_pending.
attach ==
    /\ Arrived("ack")
    /\ Consume
    /\ LET ack == Head(down[conn]) IN
         /\ number' = ack.writer
         /\ next_seq' = raised(ack.frontier)
    /\ attached' = TRUE
    /\ up' = [up EXCEPT ![conn] = @ \o Replay(pending)]
    /\ UNCHANGED <<tables, pending, verdict, resend, conn, opened, sess, faults>>

\* mutation_applied, mutation_rejected and the conflict arm: a final answer.
mutation_answered ==
    /\ Arrived("answer")
    /\ Consume
    /\ LET a == Head(down[conn]) IN
         /\ a.outcome \in Final \cup {"Forked"}
         /\ pending' = pending \ {a.seq}
         /\ verdict' = IF a.seq \in pending THEN [verdict EXCEPT ![a.seq] = a.outcome] ELSE verdict
    /\ resend' = IF resend = "Resent" THEN "Idle" ELSE resend
    /\ UNCHANGED <<tables, number, next_seq, conn, attached, opened, up, sess, faults>>

\* rate_limited, and mutation_rejected on Indeterminate: the entry is kept and a
\* resend is armed unless one already is.
defer_pending ==
    /\ Arrived("answer")
    /\ Consume
    /\ LET a == Head(down[conn]) IN
         /\ a.outcome \in {"Indeterminate", "RateLimited"}
         /\ resend' = IF a.seq \in pending THEN "Waiting" ELSE resend
    /\ UNCHANGED <<tables, number, next_seq, pending, verdict, conn, attached, opened, up, sess, faults>>

\* resend_deferred: the timer fires and every pending entry goes again, in order.
resend_deferred ==
    /\ resend = "Waiting" /\ attached
    /\ resend' = "Resent"
    /\ up' = [up EXCEPT ![conn] = @ \o Replay(pending)]
    /\ UNCHANGED <<tables, number, next_seq, pending, verdict, conn, attached, opened, down, sess, faults>>

\* The last connection the bounds allow is spared, or nothing could follow it.
MayBeLost(c) == c < MaxConns /\ next_seq + opened <= MaxWork

Leave ==
    /\ resend' = "Idle" /\ conn' = None /\ attached' = FALSE
    /\ down' = [down EXCEPT ![conn] = << >>]
    /\ UNCHANGED <<tables, number, next_seq, pending, verdict, opened, up, sess, faults>>

\* disconnected: the client's own link fails, or its process restarts.
disconnected ==
    /\ conn # None /\ MayBeLost(conn)
    /\ Leave

\* The transport reports the session's end, after the frames it still delivered.
closed_by_server ==
    /\ conn # None /\ sess[conn].phase = "closed"
    /\ opened < MaxConns
    /\ Leave

-------------------------------------------------------------------------------
(***************************************************************************)
(* The server's session on connection c.                                   *)
(***************************************************************************)
Reply(c, m) == down' = IF conn = c THEN [down EXCEPT ![c] = Append(@, m)] ELSE down
Answer(c, outcome) == Reply(c, [t |-> "answer", seq |-> sess[c].seq, outcome |-> outcome])

\* run_handshake: issue a number, or grant the named one and prune what its
\* writer has seen answered.
run_handshake(c) ==
    /\ sess[c].phase = "greeting" /\ up[c] # << >>
    /\ LET hs == Head(up[c]) IN
         \/ /\ hs.writer = None
            /\ LET n == CHOOSE n \in Numbers \ rows : \A m \in Numbers \ rows : n <= m IN
                 /\ Store!issue(n)
                 /\ sess' = [sess EXCEPT ![c].phase = "open", ![c].writer = n]
                 /\ Reply(c, [t |-> "ack", writer |-> n, frontier |-> 0])
         \/ /\ hs.writer # None
            /\ Store!prune(hs.writer, hs.through)
            /\ sess' = [sess EXCEPT ![c].phase = "open", ![c].writer = hs.writer]
            /\ Reply(c, [t |-> "ack", writer |-> hs.writer, frontier |-> frontier[hs.writer]])
    /\ up' = [up EXCEPT ![c] = Tail(@)]
    /\ UNCHANGED <<clientVars, faults>>

\* The session is between frames and a mutation is next.
Receive(c, s) ==
    /\ sess[c].phase = "open" /\ sess[c].pc = "idle" /\ up[c] # << >>
    /\ s = Head(up[c]).seq
    /\ up' = [up EXCEPT ![c] = Tail(@)]
    /\ UNCHANGED <<tables, clientVars>>

Tell(c, s, outcome) == Reply(c, [t |-> "answer", seq |-> s, outcome |-> outcome])

Fault == faults < MaxFaults /\ faults' = faults + 1

\* refresh_writer_row_with_retry gave up: nothing is known of the frontier.
refresh_fails(c) ==
    \E s \in Seqs :
        /\ Receive(c, s)
        /\ Fault
        /\ sess' = [sess EXCEPT ![c].indeterminate = s]
        /\ Tell(c, s, "Indeterminate")

Row(c) == frontier[sess[c].writer]

\* Past the frontier, explained by an unsettled write of this connection.
behind_indeterminate(c, s) ==
    /\ sess[c].indeterminate # None /\ s > sess[c].indeterminate

unexplained(c, s) == FALSE

\* Past the frontier, explained by a write this connection deferred.
behind_deferred(c, s) ==
    \E d \in sess[c].deferred : d \in (Row(c) + 1)..(s - 1)

past_frontier_again(c) ==
    \E s \in Seqs :
        /\ Receive(c, s)
        /\ s > Row(c) + 1 \/ (s > Row(c) /\ s \in sess[c].deferred)
        /\ LET answer == IF behind_indeterminate(c, s) THEN "Indeterminate"
                         ELSE IF behind_deferred(c, s) \/ s \in sess[c].deferred
                         THEN "RateLimited" ELSE "SequenceGap"
           IN /\ sess' = [sess EXCEPT
                    ![c].deferred = IF answer = "RateLimited" THEN @ \cup {s} ELSE @,
                    ![c].phase = IF answer = "SequenceGap" THEN "gap" ELSE @]
              /\ Tell(c, s, answer)
        /\ UNCHANGED faults

\* A write past the frontier waits with whatever explains the hole; when
\* nothing does, the connection ends with SequenceGap.
past_frontier(c) ==
    \E s \in Seqs :
        /\ Receive(c, s)
        /\ s > Row(c) + 1
        /\ LET answer == IF behind_indeterminate(c, s) THEN "Indeterminate"
                         ELSE IF behind_deferred(c, s) THEN "RateLimited" ELSE "SequenceGap"
           IN /\ sess' = [sess EXCEPT
                    ![c].deferred = IF answer = "RateLimited" THEN @ \cup {s} ELSE @,
                    ![c].phase = IF answer = "SequenceGap" THEN "gap" ELSE @]
              /\ Tell(c, s, answer)
        /\ UNCHANGED faults

\* At or below the frontier: the record answers, read in a second statement.
redelivery(c) ==
    \E s \in Seqs :
        /\ Receive(c, s)
        /\ s <= Row(c)
        /\ sess' = [sess EXCEPT ![c].pc = "redelivered", ![c].seq = s]
        /\ UNCHANGED <<down, faults>>

\* Right above the frontier: new_write chains it onto the row it read.
new_write(c) ==
    \E s \in Seqs :
        /\ Receive(c, s)
        /\ s = Row(c) + 1
        /\ sess' = [sess EXCEPT ![c].pc = "judge", ![c].seq = s, ![c].spec =
                {Store!SpecOf(Store!NextEntry(sess[c].writer, s), "Direct", s)}]
        /\ UNCHANGED <<down, faults>>

\* What the record of a redelivered sequence answers: a pruned record stands
\* applied; another entry under the same sequence is a fork.
acknowledged(c) == "Applied"
recorded(c) ==
    LET held == {r \in settled : Store!Key(r.entry) = <<sess[c].writer, sess[c].seq>>}
        same(r) == Store!entry_hash(r.entry.previous_hash, sess[c].seq, sess[c].seq)
                      = r.entry.entry_hash
    IN IF held = {} THEN "Applied"
       ELSE LET r == CHOOSE r \in held : TRUE IN IF same(r) THEN r.outcome ELSE "Forked"

redelivered(c) ==
    /\ sess[c].pc = "redelivered"
    /\ sess' = [sess EXCEPT ![c].pc = "answer", ![c].redelivery = TRUE, ![c].outcome = recorded(c)]
    /\ UNCHANGED <<tables, clientVars, wires, faults>>

Judging(c, spec) ==
    /\ sess[c].pc = "judge" /\ spec \in sess[c].spec
    /\ UNCHANGED <<clientVars, up>>

Settled(c, outcome) == sess' = [sess EXCEPT ![c].pc = "answer", ![c].outcome = outcome]

GiveUp(c, s) == sess' = [s EXCEPT ![c].pc = "idle", ![c].seq = None, ![c].spec = {}]

\* every_op_authorized is Undetermined, or the database outlasts the retry
\* budget: nothing settles and later writes wait.
undetermined(c) ==
    \E spec \in sess[c].spec :
        /\ Judging(c, spec)
        /\ Fault
        /\ GiveUp(c, [sess EXCEPT ![c].indeterminate = sess[c].seq])
        /\ Answer(c, "Indeterminate")
        /\ UNCHANGED tables

\* mutation_permit: the reader share or the byte window is spent.
mutation_permit(c) ==
    \E spec \in sess[c].spec :
        /\ Judging(c, spec)
        /\ Fault
        /\ GiveUp(c, [sess EXCEPT ![c].deferred = @ \cup {sess[c].seq}])
        /\ Answer(c, "RateLimited")
        /\ UNCHANGED tables

\* commit_with_retry: the transaction settles the write and its result arrives.
commit(c) ==
    \E spec \in sess[c].spec :
        /\ Judging(c, spec)
        /\ \/ Store!CommitApplied(spec) /\ Settled(c, "Applied")
           \/ Store!CommitConflict(spec) /\ Settled(c, "Conflict")
        /\ UNCHANGED <<down, faults>>

\* The transaction commits and the connection to the database is cut before
\* the result arrives: Transient, and commit_with_retry runs it again.
commit_unheard(c) ==
    \E spec \in sess[c].spec :
        /\ Judging(c, spec)
        /\ Fault
        /\ Store!CommitApplied(spec)
        /\ UNCHANGED <<down, sess>>

\* commit or settle_refusal finds the entry settled: by an unheard try of its
\* own, or by the session of another connection.
found_settled(c) ==
    \E spec \in sess[c].spec, r \in settled :
        /\ Judging(c, spec)
        /\ Store!Key(r.entry) = Store!Key(spec.entry)
        /\ Settled(c, IF r.entry.entry_hash = spec.entry.entry_hash THEN r.outcome ELSE "Forked")
        /\ UNCHANGED <<tables, down, faults>>

\* The frontier moved on and the record is pruned: advance fails, the
\* transaction rolls back, and the write answers indeterminate.
frontier_moved(c) ==
    \E spec \in sess[c].spec :
        /\ Judging(c, spec)
        /\ ~Store!Held(spec.entry) /\ ~Store!Advanceable({spec.entry})
        /\ GiveUp(c, [sess EXCEPT ![c].indeterminate = sess[c].seq])
        /\ Answer(c, "Indeterminate")
        /\ UNCHANGED <<tables, faults>>

refuse_unadvanced(c) ==
    \E spec \in sess[c].spec :
        /\ Judging(c, spec)
        /\ ~Store!Held(spec.entry)
        /\ settled' = settled \cup {Store!Record(spec.entry, "Rejected")}
        /\ Settled(c, "Rejected")
        /\ UNCHANGED <<rows, retired, frontier, head, journal, down, faults>>

\* settle_and_refuse: too large, unplannable, denied, or refused by a policy.
settle_and_refuse(c) ==
    \E spec \in sess[c].spec :
        /\ Judging(c, spec)
        /\ Store!SettleRefusal(spec, "Rejected")
        /\ Settled(c, "Rejected")
        /\ UNCHANGED <<down, faults>>

\* answer_write and answer_outcome: the frame goes out; only a write's own
\* answer lifts the indeterminate mark.
answer_write(c) ==
    /\ sess[c].pc = "answer"
    /\ Answer(c, sess[c].outcome)
    /\ sess' = [sess EXCEPT
            ![c] = [@ EXCEPT !.pc = "idle", !.seq = None, !.spec = {}, !.outcome = "none",
                             !.redelivery = FALSE,
                             !.indeterminate = IF sess[c].redelivery THEN @ ELSE None]]
    /\ UNCHANGED <<tables, clientVars, up, faults>>

\* The session ends at any point: its process, its link or an error.
session_ends(c) ==
    /\ sess[c].phase \in {"greeting", "open"}
    /\ MayBeLost(c)
    /\ sess' = [sess EXCEPT ![c] = [Fresh EXCEPT !.phase = "closed"]]
    /\ up' = [up EXCEPT ![c] = << >>]
    /\ UNCHANGED <<tables, clientVars, down, faults>>

\* Every write made and answered, nothing in flight.
Quiet ==
    /\ ~MayWrite /\ pending = {}
    /\ UNCHANGED pathVars

SessionStep(c) ==
    \/ run_handshake(c)
    \/ refresh_fails(c)
    \/ past_frontier(c)
    \/ redelivery(c)
    \/ new_write(c)
    \/ redelivered(c)
    \/ undetermined(c)
    \/ mutation_permit(c)
    \/ commit(c)
    \/ commit_unheard(c)
    \/ found_settled(c)
    \/ frontier_moved(c)
    \/ settle_and_refuse(c)
    \/ answer_write(c)

ClientStep ==
    \/ dial
    \/ attach
    \/ mutation_answered
    \/ defer_pending
    \/ resend_deferred
    \/ closed_by_server

PathNext ==
    \/ push
    \/ ClientStep
    \/ disconnected
    \/ \E c \in Conns : SessionStep(c) \/ session_ends(c)
    \/ Quiet

\* The pump reads, redials and fires its timer; the server's tasks run.
PathFairness == WF_pathVars(ClientStep) /\ \A c \in Conns : WF_pathVars(SessionStep(c))

PathSpec == PathInit /\ [][PathNext]_pathVars /\ PathFairness

-------------------------------------------------------------------------------
Journaled(s) == \E i \in 1..Len(journal) : journal[i].write = s

\* What the client is told is what happened: a write answered applied is in the
\* source tables and one answered refused or conflicting never is, through
\* redeliveries, unheard commits, racing sessions and pruned records.
VerdictsTruthful ==
    \A s \in Seqs : verdict[s] # "none" =>
        (verdict[s] = "Applied" <=> Journaled(s))

\* A client that sends its queue in order is never told its sequence has a gap
\* or its history forked, however its writes were deferred or raced.
NeverGappedOrForked ==
    \A c \in Conns : sess[c].phase # "gap" /\ sess[c].outcome # "Forked"

\* The sessions use the writer tables only as WriterStore allows.
UsesWriterStore == Store!StoreSpec

\* Every write the application makes is answered in the end.
EveryWriteAnswered == \A s \in Seqs : s \in pending ~> s \notin pending
===============================================================================
