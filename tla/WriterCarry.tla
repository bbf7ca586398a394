------------------------------ MODULE WriterCarry ------------------------------
(***************************************************************************)
(* The writers one replica writes as, and the carrying of its queue from   *)
(* one to the next.  A replica starts with a queue no writer owns yet, is  *)
(* issued a number at its first handshake, and moves to a device key once  *)
(* the device is enrolled.  A writer that dies, because the key is revoked *)
(* or the account retires it, leaves its unanswered entries to the next    *)
(* one, each naming the entry it stands for (its provenance).              *)
(*                                                                         *)
(* Here a mutation is handled in one step, and a session ends with its     *)
(* link; MutationPath splits the handler and lets sessions outlive links.  *)
(* Entries are told apart by the write they carry; writes are numbered in  *)
(* the order the application made them (`position`).                       *)
(***************************************************************************)
EXTENDS Naturals, FiniteSets, FiniteSetsExt, Sequences, SequencesExt

CONSTANTS
    Devices,    \* the device keys the replica may come to enrol
    MaxWrites,  \* bound: local writes the application makes
    MaxLosses,  \* bound: links that fail
    MaxDeaths   \* bound: revocations and retirements from elsewhere

ASSUME CarryBounds == MaxWrites \in Nat /\ MaxLosses \in Nat /\ MaxDeaths \in Nat

\* A number is issued at first, after a loss or after a death.
Numbers == 1..(1 + MaxLosses + MaxDeaths)
Unissued == 0       \* UNISSUED_NUMBER
Writers == Numbers \cup Devices
Refs == Writers \cup {Unissued}
Positions == 1..MaxWrites

VARIABLES
    \* the writer tables, as in WriterStore
    rows, retired, frontier, head, settled, journal,
    enrolment,  \* device key -> what the enrolment store says of it
    client,     \* the replica: its writers, and the writer side of its link
    verdict,    \* write -> the final answer the application was given
    session,    \* the server's session on the current link
    down,       \* frames the server sent and the client has not read
    losses, deaths

tables == <<rows, retired, frontier, head, settled, journal>>
carryVars == <<rows, retired, frontier, head, settled, journal,
               enrolment, client, verdict, session, down, losses, deaths>>

Store == INSTANCE WriterStore
            WITH Writes <- Positions, MaxSeq <- MaxWrites, MaxCalls <- 0, calls <- {}

-------------------------------------------------------------------------------
(***************************************************************************)
(* The replica.  `queue`, `next`, `held`, `cert`, `retired_keys` and       *)
(* `owed` are durable; the rest belongs to the link.  `sent` holds the     *)
(* frames the server has not read.  Options are sets of at most one.       *)
(***************************************************************************)
Issue == [kind |-> "Issue", number |-> Unissued]
Number(n) == [kind |-> "Number", number |-> n]
Device == [kind |-> "Device", number |-> Unissued]

Replica ==
    [queue |-> [w \in Refs |-> {}], next |-> [w \in Refs |-> 1], held |-> {},
     cert |-> {}, retired_keys |-> {}, owed |-> {},
     phase |-> "off", request |-> Issue, bound |-> {}, tasks |-> << >>,
     in_flight |-> {}, pending_bind |-> {}, sent |-> << >>]

\* disconnected: what the link held is gone.
disconnected(c) ==
    [c EXCEPT !.phase = "off", !.request = Issue, !.bound = {}, !.tasks = << >>,
              !.in_flight = {}, !.pending_bind = {}, !.sent = << >>]

CarryInit ==
    /\ enrolment = [k \in Devices |-> "none"]
    /\ client = Replica
    /\ verdict = [p \in Positions |-> "none"]
    /\ session = [phase |-> "none", writer |-> {}, registered |-> {}]
    /\ down = << >> /\ losses = 0 /\ deaths = 0
    /\ Store!StoreInit

Made == Cardinality({p \in Positions : verdict[p] # "none"}
                    \cup {e.write : e \in UNION {client.queue[w] : w \in Refs}})

Send(c, frame) == [c EXCEPT !.sent = Append(@, frame)]

\* number_identity: the number the replica holds, the first when it holds two.
number_identity(c) == LET n == c.held \cap Numbers IN IF n = {} THEN {} ELSE {Min(n)}
number_or_unissued(c) == IF number_identity(c) = {} THEN Unissued ELSE Min(number_identity(c))

\* choose_writer: the certificate's key, the number, or the unissued queue.
choose_writer(c) ==
    IF c.cert \ c.retired_keys # {} THEN CHOOSE k \in c.cert : TRUE ELSE number_or_unissued(c)

device_bindable(c) == c.held \cap Devices # {} /\ c.cert \ c.retired_keys # {}

settled_through(c, w) ==
    IF c.queue[w] = {} THEN c.next[w] - 1 ELSE Min({e.seq : e \in c.queue[w]}) - 1

\* replay_pending: the bound writer's queue, in order.
Mutation(e) == [t |-> "mutation", seq |-> e.seq, write |-> e.write, prov |-> e.prov]
replay_pending(c) ==
    LET w == CHOOSE w \in c.bound : TRUE
        entries == SetToSortSeq(c.queue[w], LAMBDA a, b : a.seq < b.seq)
    IN IF c.bound \cap c.held = {} THEN c
       ELSE [c EXCEPT !.sent = @ \o [i \in DOMAIN entries |-> Mutation(entries[i])]]

\* flush_writer_tasks: one bind or retirement in flight at a time.
flush_writer_tasks(c) ==
    IF c.in_flight # {} \/ c.tasks = << >> \/ c.phase # "on" THEN c
    ELSE Send([c EXCEPT !.tasks = Tail(@), !.in_flight = {Head(c.tasks)}],
              [t |-> Head(c.tasks).kind, ref |-> Head(c.tasks).ref])

Task(kind, ref) == [kind |-> kind, ref |-> ref]

\* The provenance a carried entry takes along: the one it has, or its own place
\* under a writer the server knows.
provenance_lost(w, e) == {}
provenance_of(w, e) == IF e.prov = {} /\ w # Unissued THEN {<<w, e.seq>>} ELSE e.prov

\* Its place in the tail: the order the writes were made in.
rank_reversed(tail, e) == Cardinality({f \in tail : f.write > e.write})
rank(tail, e) == Cardinality({f \in tail : f.write < e.write})

\* carry_writers: the tails of the dead join the target in the order they were
\* written.
carry_writers(c, dead, target) ==
    LET tail == UNION {{[write |-> e.write, prov |-> provenance_of(w, e)]
                           : e \in c.queue[w]} : w \in dead}
        placed == {[seq |-> c.next[target] + rank(tail, e), write |-> e.write, prov |-> e.prov]
                      : e \in tail}
    IN [c EXCEPT
          !.queue = [w \in Refs |-> IF w \in dead THEN {}
                                    ELSE IF w = target THEN @[w] \cup placed ELSE @[w]],
          !.next = [w \in Refs |-> IF w \in dead THEN 1
                                   ELSE IF w = target THEN @[w] + Cardinality(tail)
                                   ELSE @[w]],
          !.held = (@ \ dead) \cup (IF tail = {} THEN {} ELSE {target}),
          !.retired_keys = @ \cup (dead \cap Devices)]

\* carry_to_live and tail_target: never to the dead writer, never to a device.
carry_to_live(c, dead) ==
    carry_writers(c, {dead},
        IF number_identity(c) \ {dead} = {} THEN Unissued ELSE Min(number_identity(c)))

\* exclude_device_writers: every device writer held, or the certificate's key.
exclude_device_writers(c) ==
    LET devices == c.held \cap Devices
        carried == carry_writers(c, IF devices = {} THEN c.cert ELSE devices,
                                 number_or_unissued(c))
        live(task) == task.kind # "bind" \/ task.ref \notin carried.retired_keys
    IN [carried EXCEPT
          !.pending_bind = {},
          !.tasks = SelectSeq(@, live),
          !.bound = IF @ \cap Devices = {} THEN @ ELSE {number_or_unissued(c)}]

\* retire_number: an emptied number is dropped and its retirement owed.
retire_number(c, n) ==
    [c EXCEPT !.owed = @ \cup {n}, !.held = @ \ {n}, !.next[n] = 1,
              !.tasks = Append(@, Task("retire", n))]

BindTo(c, k) ==
    LET for_this_key(task) == task.kind # "bind" \/ task.ref = k
    IN [c EXCEPT !.held = @ \cup {k}, !.tasks = SelectSeq(@, for_this_key)]

plan_bind_at_once(c) ==
    LET k == CHOOSE k \in c.cert : TRUE
    IN IF ~device_bindable(c) \/ c.bound \cap Devices # {} THEN c
       ELSE [BindTo(c, k) EXCEPT !.tasks = Append(@, Task("bind", k))]

\* plan_bind: the certificate's key is bound next, at once when the connection
\* writes as nothing, and after the number's tail otherwise.
plan_bind(c) ==
    LET k == CHOOSE k \in c.cert : TRUE
    IN IF ~device_bindable(c) \/ c.bound \cap Devices # {} THEN c
       ELSE IF c.bound = {} THEN [BindTo(c, k) EXCEPT !.tasks = Append(@, Task("bind", k))]
       ELSE [BindTo(c, k) EXCEPT !.pending_bind = {Task("bind", k)}]

finish_nothing(c) == c

\* finish_number_tail: the number's last entry is answered, so the held bind
\* goes, with the number's retirement behind it.
finish_number_tail(c) ==
    LET n == CHOOSE n \in c.bound : TRUE
    IN IF c.bound \cap c.held \cap Numbers = {} \/ c.queue[n] # {} \/ c.pending_bind = {} THEN c
       ELSE flush_writer_tasks(retire_number(
                [c EXCEPT !.tasks = @ \o SetToSeq(c.pending_bind), !.pending_bind = {}], n))

-------------------------------------------------------------------------------
(***************************************************************************)
(* The client's steps.                                                     *)
(***************************************************************************)
\* attach holds the connection while it waits for the ack.
Free == client.phase # "greeting"

Server == <<tables, enrolment, session>>

\* push: the write is queued under the chosen writer, and sent when the
\* connection writes as it.
push ==
    /\ Free
    /\ Made < MaxWrites
    /\ LET w == choose_writer(client)
           entry == [seq |-> client.next[w], write |-> Made + 1, prov |-> {}]
           queued == [client EXCEPT !.queue[w] = @ \cup {entry}, !.next[w] = @ + 1,
                                    !.held = @ \cup {w}]
       IN client' = IF client.phase = "on" /\ client.bound = {w}
                    THEN Send(queued, Mutation(entry)) ELSE queued
    /\ UNCHANGED <<Server, verdict, down, losses, deaths>>

\* writer_handshake: a number with a tail, then an unissued tail, then the
\* device, then an idle number.
writer_handshake(c) ==
    LET number == number_identity(c)
        tail(w) == c.queue[w] # {}
        greet(request, through) == [t |-> "handshake", request |-> request, through |-> through]
        named == greet(Number(Min(number)), settled_through(c, Min(number)))
    IN IF \E n \in number : tail(n) THEN named
       ELSE IF tail(Unissued) THEN greet(Issue, 0)
       ELSE IF device_bindable(c) THEN greet(Device, 0)
       ELSE IF number # {} THEN named ELSE greet(Issue, 0)

dial ==
    /\ client.phase = "off"
    /\ LET hs == writer_handshake(client)
       IN client' = Send([client EXCEPT !.phase = "greeting", !.request = hs.request], hs)
    /\ session' = [phase |-> "greeting", writer |-> {}, registered |-> {}]
    /\ UNCHANGED <<tables, enrolment, verdict, down, losses, deaths>>

\* apply_writer_grant: the unissued queue becomes the issued number's, or joins
\* the device's.
apply_writer_grant(c, grant) ==
    IF c.request = Issue
    THEN [c EXCEPT !.queue = [@ EXCEPT ![grant] = c.queue[Unissued], ![Unissued] = {}],
                   !.next = [@ EXCEPT ![grant] = c.next[Unissued], ![Unissued] = 1],
                   !.held = (@ \ {Unissued}) \cup {grant}, !.bound = {grant}]
    ELSE IF c.request = Device
    THEN IF c.cert = {} THEN c ELSE carry_writers(c, {Unissued}, CHOOSE k \in c.cert : TRUE)
    ELSE [c EXCEPT !.held = @ \cup {grant}, !.bound = {grant}]

\* reconcile_pending: the next sequence is never at or below the frontier.
reconcile(c, w, f) == [c EXCEPT !.next[w] = Max({@, f + 1})]

Arrived(t) == down # << >> /\ Head(down).t = t /\ down' = Tail(down)

\* attach, from the ack on.
attach ==
    /\ Arrived("ack")
    /\ LET ack == Head(down)
           granted == apply_writer_grant([client EXCEPT !.phase = "on"], ack.writer)
           raised == IF granted.bound = {} THEN granted
                     ELSE reconcile(granted, ack.writer, ack.frontier)
           planned == plan_bind(raised)
           owing == SetToSeq({Task("retire", w) : w \in planned.owed})
           tasked == [planned EXCEPT !.tasks = @ \o owing]
       IN client' = replay_pending(flush_writer_tasks(tasked))
    /\ UNCHANGED <<Server, verdict, losses, deaths>>

\* The bound writer's entry under the answered sequence leaves its queue.
without(c, entries) ==
    [c EXCEPT !.queue = [w \in Refs |-> IF w \in c.bound THEN @[w] \ entries ELSE @[w]]]

\* mutation_applied and mutation_rejected, and what the last of a tail sets off.
mutation_answered ==
    /\ Arrived("answer")
    /\ LET entries == {e \in UNION {client.queue[w] : w \in client.bound} : e.seq = Head(down).seq}
       IN /\ verdict' = [p \in Positions |-> IF \E e \in entries : e.write = p
                                            THEN Head(down).outcome ELSE verdict[p]]
          /\ client' = finish_number_tail(without(client, entries))
    /\ UNCHANGED <<Server, losses, deaths>>

\* answer_bind: the connection now writes as the device, and what waited under
\* a number or no writer joins its queue; refused, the device is given up.
answer_bind(c, k, answer) ==
    IF answer.outcome # "Bound" THEN exclude_device_writers(c)
    ELSE IF k \in c.retired_keys THEN flush_writer_tasks(c)
    ELSE LET raised == reconcile([c EXCEPT !.held = @ \cup {k}, !.bound = {k}], k, answer.frontier)
             carried == carry_writers(raised, raised.held \ Devices, k)
         IN replay_pending(flush_writer_tasks(carried))

\* settle_writer_task: the bind or the retirement in flight is answered.
settle_writer_task ==
    /\ Arrived("writer_answer")
    /\ LET task == CHOOSE task \in client.in_flight : TRUE
           settledTask == [client EXCEPT !.in_flight = {}]
       IN client' = IF task.kind = "bind" THEN answer_bind(settledTask, task.ref, Head(down))
                    ELSE flush_writer_tasks([settledTask EXCEPT !.owed = @ \ {task.ref}])
    /\ UNCHANGED <<Server, verdict, losses, deaths>>

\* server_closed, and attach refused: the writer the fatal names is given up,
\* and the link ends behind it.
server_closed ==
    /\ Arrived("fatal")
    /\ LET dead == IF client.phase = "greeting" THEN {client.request.number} \ {Unissued} ELSE client.bound
           reason == Head(down).reason
       IN client' = disconnected(
              IF reason = "DeviceRevoked" THEN exclude_device_writers(client)
              ELSE IF reason = "SequenceGap" \/ dead = {} THEN client
              ELSE IF dead \cap Devices # {} THEN exclude_device_writers(client)
              ELSE carry_to_live(client, CHOOSE n \in dead : TRUE))
    /\ UNCHANGED <<Server, verdict, losses, deaths>>

\* The link fails under both ends.
link_lost ==
    /\ client.phase # "off"
    /\ losses < MaxLosses /\ losses' = losses + 1
    /\ client' = disconnected(client)
    /\ session' = [session EXCEPT !.phase = "none"]
    /\ down' = << >>
    /\ UNCHANGED <<tables, enrolment, verdict, deaths>>

(***************************************************************************)
(* The enrolment task.                                                     *)
(***************************************************************************)
\* retired_writer and revoked: the key and the certificate are deleted.
forget_certificate ==
    /\ Free
    /\ client.cert \cap client.retired_keys # {}
    /\ client' = [client EXCEPT !.cert = {}]
    /\ UNCHANGED <<Server, verdict, down, losses, deaths>>

Ungranted == {k \in Devices : enrolment[k] = "none"}
Granted == {k \in Devices : enrolment[k] # "none" /\ k \notin client.held \cup client.retired_keys}

\* The server enrols a fresh key of a connected replica that holds none.
grant_certificate ==
    /\ client.phase = "on" /\ client.cert = {} /\ Granted = {}
    /\ \E k \in Ungranted : enrolment' = [enrolment EXCEPT ![k] = "live"]
    /\ UNCHANGED <<tables, client, verdict, session, down, losses, deaths>>

\* store_device_certificate: the device's queue starts, its bind is planned,
\* and an idle number is retired.
store_device_certificate ==
    /\ Free
    /\ client.cert = {}
    /\ \E k \in Granted :
         LET kept == [client EXCEPT !.cert = {k}, !.held = @ \cup {k}]
             planned == IF client.phase = "on" THEN flush_writer_tasks(plan_bind(kept)) ELSE kept
             number == number_identity(planned)
         IN client' = IF \A n \in number : planned.queue[n] # {} THEN planned
                      ELSE IF planned.bound = number THEN finish_number_tail(planned)
                      ELSE flush_writer_tasks(retire_number(planned, Min(number)))
    /\ UNCHANGED <<Server, verdict, down, losses, deaths>>

-------------------------------------------------------------------------------
(***************************************************************************)
(* The server's session.                                                   *)
(***************************************************************************)
Reading(t) == session.phase = "open" /\ client.sent # << >> /\ Head(client.sent).t = t
Frame == Head(client.sent)
Take == client' = [client EXCEPT !.sent = Tail(@)]
Reply(frame) == down' = Append(down, frame)
Fatal(reason) == Reply([t |-> "fatal", reason |-> reason])
Close == session' = [session EXCEPT !.phase = "none"]

\* run_handshake: issue, confirm and prune, or leave the writer to the bind.  A
\* retired number is pruned and refused.
run_handshake ==
    /\ session.phase = "greeting" /\ client.sent # << >>
    /\ Take
    /\ \/ /\ Frame.request = Issue
          /\ LET n == Min(Numbers \ rows) IN
               /\ Store!issue(n)
               /\ session' = [session EXCEPT !.phase = "open", !.writer = {n}]
               /\ Reply([t |-> "ack", writer |-> n, frontier |-> 0])
       \/ /\ Frame.request = Device
          /\ session' = [session EXCEPT !.phase = "open"]
          /\ Reply([t |-> "ack", writer |-> Unissued, frontier |-> 0])
          /\ UNCHANGED tables
       \/ \E n \in Numbers :
               /\ Frame.request = Number(n)
               /\ Store!prune(n, Frame.through)
               /\ IF n \in retired THEN Fatal("WriterRetired") /\ Close
                  ELSE /\ session' = [session EXCEPT !.phase = "open", !.writer = {n}]
                       /\ Reply([t |-> "ack", writer |-> n, frontier |-> frontier[n]])
    /\ UNCHANGED <<enrolment, verdict, losses, deaths>>

Answer(outcome) == Reply([t |-> "answer", seq |-> Frame.seq, outcome |-> outcome])

\* handle_mutation at or below the frontier: the record answers; a pruned one
\* stands applied, another entry under the sequence is a fork.
redelivered ==
    /\ Reading("mutation")
    /\ \E w \in session.writer :
         /\ Frame.seq <= frontier[w]
         /\ LET held == {r \in settled : Store!Key(r.entry) = <<w, Frame.seq>>}
                same(r) == Store!entry_hash(r.entry.previous_hash, Frame.seq, Frame.write)
                              = r.entry.entry_hash
            IN Answer(IF held = {} THEN "Applied"
                      ELSE LET r == CHOOSE r \in held : TRUE
                           IN IF same(r) THEN r.outcome ELSE "Forked")
    /\ Take
    /\ UNCHANGED <<tables, enrolment, verdict, session, losses, deaths>>

\* provenance_original: the row of the original's writer.  A key enrolled and
\* never bound gets its row first; one the account does not hold has none.
Original == {p[1] : p \in Frame.prov} \cap rows
Rowless == {k \in {p[1] : p \in Frame.prov} \cap (Devices \ rows) : enrolment[k] = "live"}

insert_original_row ==
    /\ Reading("mutation")
    /\ \E w \in session.writer : Frame.seq = frontier[w] + 1
    /\ \E k \in Rowless : Store!issue(k)
    /\ UNCHANGED <<enrolment, client, verdict, session, down, losses, deaths>>

\* The sequence, or the original's, lies past its frontier.
SequenceGap ==
    /\ Reading("mutation")
    /\ \/ \E w \in session.writer : Frame.seq > frontier[w] + 1
       \/ \E w \in session.writer, p \in Frame.prov :
              /\ Frame.seq = frontier[w] + 1
              /\ p[1] \in Original /\ p[2] > frontier[p[1]] + 1
    /\ Take /\ Fatal("SequenceGap") /\ Close
    /\ UNCHANGED <<tables, enrolment, verdict, losses, deaths>>

\* The outcome a settled original lends its copy; a pruned record stands applied.
lent_applied(p) == "Applied"
lent(p) ==
    LET stored == {r \in settled : Store!Key(r.entry) = p}
    IN IF stored = {} THEN "Applied" ELSE (CHOOSE r \in stored : TRUE).outcome

\* new_write: an original already settled lends its outcome, one right above
\* its frontier settles with the copy, and the changeset is applied or refused.
new_write ==
    /\ Reading("mutation") /\ Rowless = {}
    /\ \E w \in session.writer :
         /\ Frame.seq = frontier[w] + 1
         /\ LET spec == Store!SpecOf(Store!NextEntry(w, Frame.write), "Direct", Frame.write)
                done == {p \in Frame.prov : p[1] \in Original /\ p[2] <= frontier[p[1]]}
                due == {p \in Frame.prov : p[1] \in Original /\ p[2] = frontier[p[1]] + 1}
                paired == [spec EXCEPT !.original =
                              {Store!NextEntry(p[1], Frame.write) : p \in due}]
            IN \/ \E p \in done : Store!SettleRefusal(spec, lent(p)) /\ Answer(lent(p))
               \/ /\ done = {} /\ (due # {} \/ {p \in Frame.prov : p[1] \in Original} = {})
                  /\ \/ Store!CommitApplied(paired) /\ Answer("Applied")
                     \/ Store!SettleRefusal(paired, "Rejected") /\ Answer("Rejected")
    /\ Take
    /\ UNCHANGED <<enrolment, verdict, session, losses, deaths>>

\* handle_bind_device: a live key's writer takes the connection over, its row
\* inserted at its first bind; a revoked key closes it.
handle_bind_device ==
    /\ Reading("bind")
    /\ Take
    /\ LET k == Frame.ref
           answer(outcome) == Reply([t |-> "writer_answer", outcome |-> outcome,
                                     frontier |-> frontier[k]])
       IN \/ /\ enrolment[k] = "revoked"
             /\ Fatal("DeviceRevoked") /\ Close
             /\ UNCHANGED tables
          \/ /\ enrolment[k] = "live" /\ k \in retired
             /\ answer("Retired")
             /\ UNCHANGED <<tables, session>>
          \/ /\ enrolment[k] = "live" /\ k \notin retired
             /\ IF k \in rows THEN UNCHANGED tables ELSE Store!issue(k)
             /\ session' = [session EXCEPT !.writer = {k}, !.registered = @ \cup {k}]
             /\ answer("Bound")
    /\ UNCHANGED <<enrolment, verdict, losses, deaths>>

\* handle_retire_writer: the row is marked, or one inserted already retired.
handle_retire_writer ==
    /\ Reading("retire")
    /\ Take
    /\ IF Frame.ref \in rows \ retired THEN Store!mark_retired(Frame.ref) ELSE UNCHANGED tables
    /\ Reply([t |-> "writer_answer", outcome |-> "Retired", frontier |-> 0])
    /\ UNCHANGED <<enrolment, verdict, session, losses, deaths>>

(***************************************************************************)
(* What other parties of the account do.                                   *)
(***************************************************************************)
Death == deaths < MaxDeaths /\ deaths' = deaths + 1

Notify(told, reason) ==
    IF told /\ session.phase = "open" THEN Fatal(reason) /\ Close ELSE UNCHANGED <<down, session>>

\* revoke and after_revocation: the run that enrolled the key is closed.
revoke ==
    /\ Death
    /\ \E k \in Devices :
         /\ enrolment[k] = "live"
         /\ enrolment' = [enrolment EXCEPT ![k] = "revoked"]
         /\ Notify(TRUE, "DeviceRevoked")
    /\ UNCHANGED <<tables, client, verdict, losses>>

\* retire_writer asked from another session: a number's session is not told.
retire_elsewhere ==
    /\ Death
    /\ \E w \in Writers :
         \/ Store!mark_retired(w) /\ Notify(w \in session.registered, "WriterRetired")
         \/ /\ w \in Devices /\ enrolment[w] = "live"
            /\ Store!insert_retired_key(w)
            /\ UNCHANGED <<down, session>>
    /\ UNCHANGED <<enrolment, client, verdict, losses>>

\* sweep_writer_rows: the records of a revoked key's writer are pruned.
sweep_writer_rows ==
    /\ \E k \in rows \cap Devices : enrolment[k] = "revoked" /\ Store!prune_all(k)
    /\ UNCHANGED <<enrolment, client, verdict, session, down, losses, deaths>>

ClientStep ==
    \/ dial
    \/ attach
    \/ mutation_answered
    \/ settle_writer_task
    \/ server_closed
    \/ forget_certificate
    \/ store_device_certificate

SessionStep ==
    \/ run_handshake
    \/ redelivered
    \/ insert_original_row
    \/ SequenceGap
    \/ new_write
    \/ handle_bind_device
    \/ handle_retire_writer

CarryNext ==
    \/ push
    \/ ClientStep
    \/ SessionStep
    \/ link_lost
    \/ grant_certificate
    \/ revoke
    \/ retire_elsewhere
    \/ sweep_writer_rows

CarryFairness == WF_carryVars(ClientStep) /\ WF_carryVars(SessionStep)

CarrySpec == CarryInit /\ [][CarryNext]_carryVars /\ CarryFairness

-------------------------------------------------------------------------------
Journaled(p) == \E i \in 1..Len(journal) : journal[i].write = p

Queued(p) == \E w \in Refs : \E e \in client.queue[w] : e.write = p

\* One logical write reaches the source tables once, however often it was
\* carried and under whichever of its writers it was delivered.
WriteAppliedOnce ==
    \A i, j \in 1..Len(journal) : journal[i].write = journal[j].write => i = j

\* The sweep has pruned a revoked writer's record of the write.
Swept(p) ==
    \E k \in rows \cap Devices :
        /\ enrolment[k] = "revoked"
        /\ \E i \in DOMAIN head[k] : head[k][i][2] = p
        /\ \A r \in settled : r.entry.writer = k => Last(r.entry.entry_hash)[2] # p

\* A carried write is told what happened to it, although another writer's
\* record may answer it, and never that its history forked.  A pruned record
\* stands applied: what the sweep took of a revoked writer before its replica
\* heard of it is the one thing that may be told wrong.
CarriedVerdictsTruthful ==
    \A p \in Positions :
        /\ verdict[p] # "Forked"
        /\ verdict[p] = "Applied" => Journaled(p) \/ Swept(p)
        /\ verdict[p] = "Rejected" => ~Journaled(p)

\* Both hold of carry_writers and new_write while at most one writer has died;
\* a second carry keeps the provenance of the first, and neither holds.
AppliedOncePerCarry == deaths <= 1 => WriteAppliedOnce
TruthfulPerCarry == deaths <= 1 => CarriedVerdictsTruthful

\* The source tables take the replica's writes in the order it made them.
WritesInOrder ==
    \A i, j \in 1..Len(journal) : i < j => journal[i].write < journal[j].write

\* A replica that carries its own queue once, in the order it was written, is
\* never told that its sequences have a gap.
GaplessPerCarry ==
    deaths <= 1 => \A i \in 1..Len(down) : down[i].t = "fatal" => down[i].reason # "SequenceGap"

\* A write that was made is answered in the end.
EveryCarriedWriteAnswered == \A p \in Positions : Queued(p) ~> verdict[p] # "none"
===============================================================================
