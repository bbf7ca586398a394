------------------------------ MODULE Connections ------------------------------
(***************************************************************************)
(* The connections of one server process (connetto-server: session.rs and  *)
(* the shutdown of builder/mod.rs): the registry that keeps one live       *)
(* connection per durable handle, the task of each connection from its     *)
(* challenge to its teardown, and everything that closes connections from  *)
(* outside: a newer connection of the handle, a revoked login, a banned    *)
(* person, a retired device writer, a new timeline history, the shutdown.  *)
(*                                                                         *)
(* Every await of a task that another task can observe ends a step.  The   *)
(* registry is updated under its lock; the frame sent to a connection just *)
(* taken out of it goes to an unbounded queue nobody else can reach, so    *)
(* removing and telling are one step.                                      *)
(***************************************************************************)
EXTENDS Integers, FiniteSets

CONSTANTS
    Conns,          \* connection numbers
    Handles,        \* durable session handles
    Person,         \* the handles one person is signed in under
    Writers,        \* device writers
    None,           \* no connection, no handle, no writer
    MaxHistories    \* bound: timeline histories read

ASSUME ConnectionAssumptions ==
    /\ None \notin Conns \cup Handles \cup Writers
    /\ Person \subseteq Handles
    /\ MaxHistories \in Nat

VARIABLES
    sessions,          \* the registry: handle -> connection, or None
    conn,              \* the tasks, one record each
    writer_sessions,   \* device writer -> handles that bound it
    retired,           \* device writers marked retired in the database
    shutting_down,     \* the flag
    drained,           \* the shutdown has emptied the registry
    history,           \* how many histories the feed's task has stored
    closing_all        \* it has stored one and not yet closed the connections

registryVars == <<sessions, writer_sessions>>
serverVars == <<shutting_down, drained, history, closing_all>>
connVars == <<sessions, conn, writer_sessions, retired, shutting_down, drained,
              history, closing_all>>

Idle == [stage |-> "idle", handle |-> None, told |-> FALSE, judged |-> 0,
         writer |-> None, asked |-> None, closes |-> {}]

\* The run loop, and a frame it is handling.
Loop == {"running", "binding", "marked", "retiring"}
\* Registered, up to the first step of the teardown.
Registered == {"registered", "judged"} \cup Loop
Teardown == {"leaving", "unregistered", "forgotten"}
Stages == {"idle", "gate", "handshake", "ready", "ended"} \cup Registered \cup Teardown

moves(c, stage) == conn' = [conn EXCEPT ![c].stage = stage]

\* What a set of handles taken out of the registry does to their connections.
Told(taken) == [c \in Conns |-> [conn[c] EXCEPT !.told = @ \/ \E h \in taken : sessions[h] = c]]
Without(taken) == [h \in Handles |-> IF h \in taken THEN None ELSE sessions[h]]

-------------------------------------------------------------------------------
(***************************************************************************)
(* serve: the challenge, the handshake, the registration, the ack.         *)
(***************************************************************************)
\* serve, with the gate's reading of the flag before the challenge.
serve(c) ==
    /\ conn[c].stage = "idle"
    /\ moves(c, IF shutting_down THEN "ended" ELSE "gate")
    /\ UNCHANGED <<registryVars, retired, serverVars>>

\* registration_gate: a handshake goes on whatever the flag says by then; the
\* deadline, a wrong frame, a refusal and, after the registration of a bot, the
\* flag end the task.  A registration that leaves it waiting is no step.
registration_gate(c) ==
    /\ conn[c].stage = "gate"
    /\ moves(c, "handshake") \/ moves(c, "ended")
    /\ UNCHANGED <<registryVars, retired, serverVars>>

\* run_handshake up to the registration: the handle it resumes, and whatever
\* refuses it: the version, the limits, a ban, the log, the number writer.
run_handshake(c) ==
    /\ conn[c].stage = "handshake"
    /\ \/ \E h \in Handles : conn' = [conn EXCEPT ![c].stage = "ready", ![c].handle = h]
       \/ moves(c, "ended")
    /\ UNCHANGED <<registryVars, retired, serverVars>>

registers_anyway(c) ==
    LET h == conn[c].handle IN
    /\ conn[c].stage = "ready"
    /\ sessions' = [sessions EXCEPT ![h] = c]
    /\ conn' = [Told({h}) EXCEPT ![c].stage = "registered"]
    /\ UNCHANGED <<writer_sessions, retired, serverVars>>

\* register_connection: the handle is claimed and whoever held it is told.
register_connection(c) ==
    LET h == conn[c].handle IN
    /\ conn[c].stage = "ready"
    /\ IF shutting_down
       THEN moves(c, "ended") /\ UNCHANGED sessions
       ELSE /\ sessions' = [sessions EXCEPT ![h] = c]
            /\ conn' = [Told({h}) EXCEPT ![c].stage = "registered"]
    /\ UNCHANGED <<writer_sessions, retired, serverVars>>

\* resume_from: the cursor is judged only once the connection is registered.
resume_from(c) ==
    /\ conn[c].stage = "registered"
    /\ conn' = [conn EXCEPT ![c].stage = "judged", ![c].judged = history]
    /\ UNCHANGED <<registryVars, retired, serverVars>>

evict(c) == sessions' = [sessions EXCEPT ![conn[c].handle] = None]

\* unregister_connection: only the entry this connection still owns.
unregister_connection(c) ==
    sessions' = [sessions EXCEPT ![conn[c].handle] = IF @ = c THEN None ELSE @]

\* The ack: an ack that never leaves takes the entry back out.
acks(c) ==
    /\ conn[c].stage = "judged"
    /\ \/ moves(c, "running") /\ UNCHANGED sessions
       \/ moves(c, "ended") /\ unregister_connection(c)
    /\ UNCHANGED <<writer_sessions, retired, serverVars>>

-------------------------------------------------------------------------------
(***************************************************************************)
(* run_session: the loop, one frame or one queued item at a time.          *)
(***************************************************************************)
\* bind_device reads the writer's row and refuses a retired one ...
bind_device(c) ==
    /\ conn[c].stage = "running"
    /\ \E w \in Writers \ retired :
        conn' = [conn EXCEPT ![c].stage = "binding", ![c].asked = w]
    /\ UNCHANGED <<registryVars, retired, serverVars>>

\* ... then takes the writer and enters the writer's live set.
binds(c) ==
    LET w == conn[c].asked IN
    /\ conn[c].stage = "binding"
    /\ conn' = [conn EXCEPT ![c].stage = "running", ![c].asked = None, ![c].writer = w]
    /\ writer_sessions' = [writer_sessions EXCEPT ![w] = @ \cup {conn[c].handle}]
    /\ UNCHANGED <<sessions, retired, serverVars>>

\* retire_writer: marked in the database; already retired answers at once ...
retire_writer(c) ==
    /\ conn[c].stage = "running"
    /\ \E w \in Writers \ retired :
        /\ retired' = retired \cup {w}
        /\ conn' = [conn EXCEPT ![c].stage = "marked", ![c].asked = w]
    /\ UNCHANGED <<registryVars, serverVars>>

\* ... the writer's live set is taken ...
takes_sessions(c) ==
    /\ conn[c].stage = "marked"
    /\ \E w \in Writers :
        /\ w = conn[c].asked
        /\ conn' = [conn EXCEPT ![c].stage = "retiring", ![c].closes = writer_sessions[w]]
        /\ writer_sessions' = [writer_sessions EXCEPT ![w] = {}]
    /\ UNCHANGED <<sessions, retired, serverVars>>

\* ... and close_session(WriterRetired) for each, one lock at a time.
closes_each(c) ==
    /\ conn[c].stage = "retiring"
    /\ IF conn[c].closes = {}
       THEN /\ conn' = [conn EXCEPT ![c].stage = "running", ![c].asked = None]
            /\ UNCHANGED sessions
       ELSE \E h \in conn[c].closes :
            /\ conn' = [Told({h}) EXCEPT ![c].closes = @ \ {h}]
            /\ sessions' = Without({h})
    /\ UNCHANGED <<writer_sessions, retired, serverVars>>

ignores(c) ==
    /\ conn[c].stage = "running" /\ conn[c].told
    /\ UNCHANGED connVars

\* handle_outbound: Fatal and Drop end the loop.
handle_outbound(c) ==
    /\ conn[c].stage = "running" /\ conn[c].told
    /\ moves(c, "leaving")
    /\ UNCHANGED <<registryVars, retired, serverVars>>

\* The transport ended, or a handler failed.
breaks(c) ==
    /\ conn[c].stage = "running"
    /\ moves(c, "leaving")
    /\ UNCHANGED <<registryVars, retired, serverVars>>

\* The teardown, on every exit of the loop.
unregisters(c) ==
    /\ conn[c].stage = "leaving"
    /\ unregister_connection(c)
    /\ moves(c, "unregistered")
    /\ UNCHANGED <<writer_sessions, retired, serverVars>>

\* A bound session leaves its writer's live set.
forgets_writer(c) ==
    LET w == conn[c].writer IN
    /\ conn[c].stage = "unregistered"
    /\ moves(c, "forgotten")
    /\ writer_sessions' = IF w = None THEN writer_sessions
                          ELSE [writer_sessions EXCEPT ![w] = @ \ {conn[c].handle}]
    /\ UNCHANGED <<sessions, retired, serverVars>>

\* unsubscribe_all; the tally of open sessions counts the task no more.
unsubscribe_all(c) ==
    /\ conn[c].stage = "forgotten"
    /\ moves(c, "ended")
    /\ UNCHANGED <<registryVars, retired, serverVars>>

-------------------------------------------------------------------------------
(***************************************************************************)
(* What closes connections from outside their tasks.                       *)
(***************************************************************************)
close(taken) ==
    /\ sessions' = Without(taken)
    /\ conn' = Told(taken)

\* close_session: a revoked login, a revoked device.
close_session ==
    /\ \E h \in Handles : sessions[h] # None /\ close({h})
    /\ UNCHANGED <<writer_sessions, retired, serverVars>>

\* close_person: every connection the person holds.
close_person ==
    /\ \E h \in Person : sessions[h] # None
    /\ close(Person)
    /\ UNCHANGED <<writer_sessions, retired, serverVars>>

\* reconcile_history: another history is stored ...
reconcile_history ==
    /\ history < MaxHistories /\ ~closing_all
    /\ history' = history + 1
    /\ closing_all' = TRUE
    /\ UNCHANGED <<sessions, conn, writer_sessions, retired, shutting_down, drained>>

stores_only ==
    /\ closing_all
    /\ closing_all' = FALSE
    /\ UNCHANGED <<sessions, conn, writer_sessions, retired, shutting_down, drained, history>>

\* ... then close_all(DatabaseTimelineChanged).
close_all ==
    /\ closing_all
    /\ closing_all' = FALSE
    /\ close(Handles)
    /\ UNCHANGED <<writer_sessions, retired, shutting_down, drained, history>>

\* shutdown: the flag ...
shutdown ==
    /\ ~shutting_down
    /\ shutting_down' = TRUE
    /\ UNCHANGED <<sessions, conn, writer_sessions, retired, drained, history, closing_all>>

\* ... then close_all(ServerShuttingDown); the exit waits for the open tasks.
drain ==
    /\ shutting_down /\ ~drained
    /\ drained' = TRUE
    /\ close(Handles)
    /\ UNCHANGED <<writer_sessions, retired, shutting_down, history, closing_all>>

-------------------------------------------------------------------------------
ConnInit ==
    /\ sessions = [h \in Handles |-> None]
    /\ conn = [c \in Conns |-> Idle]
    /\ writer_sessions = [w \in Writers |-> {}] /\ retired = {}
    /\ shutting_down = FALSE /\ drained = FALSE
    /\ history = 0 /\ closing_all = FALSE

\* A task never stands still: the first frame has a deadline, the database and
\* the transport answer or fail.  The loop's select! picks among its ready arms
\* at random, so a queued item is taken however many frames keep arriving.
TaskSteps(c) ==
    \/ registration_gate(c) \/ run_handshake(c) \/ register_connection(c)
    \/ resume_from(c) \/ acks(c) \/ binds(c) \/ takes_sessions(c) \/ closes_each(c)
    \/ handle_outbound(c) \/ unregisters(c) \/ forgets_writer(c) \/ unsubscribe_all(c)

ConnNext ==
    \/ \E c \in Conns : serve(c) \/ TaskSteps(c) \/ bind_device(c) \/ retire_writer(c) \/ breaks(c)
    \/ close_session \/ close_person \/ reconcile_history \/ close_all \/ shutdown \/ drain

ConnSpec ==
    /\ ConnInit /\ [][ConnNext]_connVars
    /\ \A c \in Conns : WF_connVars(TaskSteps(c)) /\ SF_connVars(handle_outbound(c))
    /\ WF_connVars(drain) /\ WF_connVars(close_all)

-------------------------------------------------------------------------------
\* Every variable has the shape the code gives it.
ConnTypeOK ==
    /\ sessions \in [Handles -> Conns \cup {None}]
    /\ conn \in [Conns -> [stage : Stages, handle : Handles \cup {None}, told : BOOLEAN,
                           judged : 0..MaxHistories, writer : Writers \cup {None},
                           asked : Writers \cup {None}, closes : SUBSET Handles]]
    /\ writer_sessions \in [Writers -> SUBSET Handles] /\ retired \subseteq Writers
    /\ shutting_down \in BOOLEAN /\ drained \in BOOLEAN
    /\ history \in 0..MaxHistories /\ closing_all \in BOOLEAN

\* One live connection per handle (register_connection, unregister_connection):
\* a registered connection that nobody told to leave is the one its handle leads
\* to, whatever the teardowns, closes and handshakes of the handle's other
\* connections do meanwhile; so whoever closes the handle reaches it.
OneLive ==
    \A c \in Conns : conn[c].stage \in Registered /\ ~conn[c].told => sessions[conn[c].handle] = c

\* No ended session stays registered (run_session, the failed ack): what the
\* registry leads to is a task that still has its teardown before it.
NoneStranded ==
    \A h \in Handles : sessions[h] # None =>
        /\ conn[sessions[h]].handle = h
        /\ conn[sessions[h]].stage \in Registered \cup {"leaving"}

\* The drained registry stays empty (shutdown, register_connection).
DrainedStaysEmpty == drained => \A h \in Handles : sessions[h] = None

\* A history read while a handshake runs either shows in its judgement or closes
\* the connection (run_handshake: registered, then judged).
JudgedOrClosed ==
    \A c \in Conns : conn[c].stage \in Registered \ {"registered"} /\ ~conn[c].told /\ ~closing_all
                        => conn[c].judged = history

\* Every connection told to leave leaves, its teardown included.
ToldLeaves == \A c \in Conns : conn[c].told ~> conn[c].stage = "ended"

\* After the flag every open connection ends, registered, still in its handshake
\* or late with its first frame (open_sessions, register_connection).  How soon is
\* not said: a peer that sends nothing ends by first_frame_budget, 30 s, and
\* await_sessions_drained gives up after SHUTDOWN_GRACE, 5 s.
ShutdownDrains == shutting_down ~> \A c \in Conns : conn[c].stage \in {"idle", "ended"}
===============================================================================
