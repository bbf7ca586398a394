--------------------------- MODULE ConnectionsProofs ---------------------------
(***************************************************************************)
(* The registry's invariants for every number of connections, handles,     *)
(* writers and histories.  OneLive, NoneStranded, the drained registry and *)
(* the judged cursors hold each other up: a close reaches a connection     *)
(* because its handle leads to it, and a handshake finds no entry of its   *)
(* own because what the registry leads to is past its registration.        *)
(***************************************************************************)
EXTENDS Connections, TLAPS

Task == [stage : Stages, handle : Handles \cup {None}, told : BOOLEAN,
         judged : 0..MaxHistories, writer : Writers \cup {None},
         asked : Writers \cup {None}, closes : SUBSET Handles]

\* A connection past its handshake has a handle, and only a shutdown drains.
HandleKnown ==
    /\ \A c \in Conns : conn[c].stage \in {"ready"} \cup Registered \cup Teardown
                            => conn[c].handle \in Handles
    /\ drained => shutting_down

\* The inductive invariant.
RegistryInv ==
    ConnTypeOK /\ HandleKnown /\ OneLive /\ NoneStranded /\ DrainedStaysEmpty /\ JudgedOrClosed

-------------------------------------------------------------------------------
\* The stages a step names.
LEMMA StageNames ==
    /\ \A x \in {"idle", "gate", "handshake", "ready", "registered", "judged", "running",
                 "binding", "marked", "retiring", "leaving", "unregistered", "forgotten",
                 "ended"} : x \in Stages
    /\ \A x \in Stages : x \in Registered <=>
            x \in {"registered", "judged", "running", "binding", "marked", "retiring"}
  BY DEF Stages, Registered, Loop, Teardown

\* One field of one task changes and the tasks stay typed.
LEMMA Updated ==
    ASSUME NEW t \in [Conns -> Task], NEW c \in Conns, NEW v
    PROVE  /\ v \in Stages => [t EXCEPT ![c].stage = v] \in [Conns -> Task]
           /\ v \in Handles => [t EXCEPT ![c].handle = v] \in [Conns -> Task]
           /\ v \in 0..MaxHistories => [t EXCEPT ![c].judged = v] \in [Conns -> Task]
           /\ v \in Writers \cup {None} => [t EXCEPT ![c].writer = v] \in [Conns -> Task]
           /\ v \in Writers \cup {None} => [t EXCEPT ![c].asked = v] \in [Conns -> Task]
           /\ v \in SUBSET Handles => [t EXCEPT ![c].closes = v] \in [Conns -> Task]
<1>1. v \in Stages => [t EXCEPT ![c].stage = v] \in [Conns -> Task]
  BY DEF Task
<1>2. v \in Handles => [t EXCEPT ![c].handle = v] \in [Conns -> Task]
  BY DEF Task
<1>3. v \in 0..MaxHistories => [t EXCEPT ![c].judged = v] \in [Conns -> Task]
  BY DEF Task
<1>4. v \in Writers \cup {None} => [t EXCEPT ![c].writer = v] \in [Conns -> Task]
  BY DEF Task
<1>5. v \in Writers \cup {None} => [t EXCEPT ![c].asked = v] \in [Conns -> Task]
  BY DEF Task
<1>6. v \in SUBSET Handles => [t EXCEPT ![c].closes = v] \in [Conns -> Task]
  BY DEF Task
<1>7. QED
  BY <1>1, <1>2, <1>3, <1>4, <1>5, <1>6

\* What a change of one task's stage leaves alone.
LEMMA StageOnly ==
    ASSUME NEW t \in [Conns -> Task], NEW c \in Conns, NEW s \in Stages
    PROVE  \A d \in Conns :
                /\ [t EXCEPT ![c].stage = s][d].stage = IF d = c THEN s ELSE t[d].stage
                /\ [t EXCEPT ![c].stage = s][d].handle = t[d].handle
                /\ [t EXCEPT ![c].stage = s][d].told = t[d].told
                /\ [t EXCEPT ![c].stage = s][d].judged = t[d].judged
  BY DEF Task

\* What telling a set of handles does (close_session, close_person, close_all).
LEMMA ToldFields ==
    ASSUME ConnTypeOK, NEW taken \in SUBSET Handles
    PROVE  /\ Told(taken) \in [Conns -> Task]
           /\ \A d \in Conns :
                /\ Told(taken)[d].stage = conn[d].stage
                /\ Told(taken)[d].handle = conn[d].handle
                /\ Told(taken)[d].judged = conn[d].judged
                /\ Told(taken)[d].told = (conn[d].told \/ \E h \in taken : sessions[h] = d)
                /\ Told(taken)[d].closes = conn[d].closes
<1> DEFINE said(d) == conn[d].told \/ \E h \in taken : sessions[h] = d
           telling(d) == [conn[d] EXCEPT !.told = said(d)]
<1>1. \A d \in Conns : conn[d] \in Task
  BY DEF ConnTypeOK, Task
<1>2. \A d \in Conns : said(d) \in BOOLEAN
  BY <1>1, Zenon DEF Task
<1>3. Told(taken) = [d \in Conns |-> telling(d)]
  BY Zenon DEF Told
<1> HIDE DEF said
<1>4. ASSUME NEW d \in Conns
      PROVE  /\ telling(d) \in Task /\ telling(d).stage = conn[d].stage
             /\ telling(d).handle = conn[d].handle /\ telling(d).judged = conn[d].judged
             /\ telling(d).told = said(d) /\ telling(d).closes = conn[d].closes
  BY <1>1, <1>2, SMTT(60) DEF Task
<1> HIDE DEF telling
<1>5. Told(taken) \in [Conns -> Task]
  BY <1>3, <1>4
<1>6. \A d \in Conns : Told(taken)[d] = telling(d)
  BY <1>3
<1>7. \A d \in Conns : Told(taken)[d].told = (conn[d].told \/ \E h \in taken : sessions[h] = d)
  BY <1>4, <1>6, ZenonT(60) DEF said
<1> QED BY <1>4, <1>5, <1>6, <1>7, Zenon

-------------------------------------------------------------------------------
\* The first states are typed.
LEMMA TypedInit == ConnInit => ConnTypeOK
<1> SUFFICES ASSUME ConnInit PROVE ConnTypeOK
  OBVIOUS
<1>1. Idle \in Task
  BY StageNames, ConnectionAssumptions DEF Idle, Task
<1>2. conn \in [Conns -> Task]
  BY <1>1 DEF ConnInit
<1>3. /\ sessions \in [Handles -> Conns \cup {None}]
      /\ writer_sessions \in [Writers -> SUBSET Handles] /\ retired \subseteq Writers
  BY DEF ConnInit
<1>4. shutting_down \in BOOLEAN /\ drained \in BOOLEAN /\ closing_all \in BOOLEAN
  BY Zenon DEF ConnInit
<1>5. history \in 0..MaxHistories
  BY ConnectionAssumptions DEF ConnInit
<1>6. QED
  BY <1>2, <1>3, <1>4, <1>5 DEF ConnTypeOK, Task

\* One task moves to stage s; nobody's handle, judgement or telling changes.
Moves(c, s) ==
    \A d \in Conns :
        /\ conn'[d].stage = IF d = c THEN s ELSE conn[d].stage
        /\ conn'[d].handle = conn[d].handle
        /\ conn'[d].told = conn[d].told
        /\ conn'[d].judged = conn[d].judged

\* A handler's step on its own task (run_session): the field it changes beside
\* the stage is none of the registry's.
LEMMA OwnStep ==
    ASSUME ConnTypeOK, NEW c \in Conns, NEW s \in Stages
    PROVE  /\ moves(c, s) => conn' \in [Conns -> Task] /\ Moves(c, s)
           /\ \A w \in Writers \cup {None} :
                conn' = [conn EXCEPT ![c].stage = s, ![c].asked = w]
                    => conn' \in [Conns -> Task] /\ Moves(c, s)
           /\ \A w \in Writers \cup {None} :
                conn' = [conn EXCEPT ![c].stage = s, ![c].asked = None, ![c].writer = w]
                    => conn' \in [Conns -> Task] /\ Moves(c, s)
           /\ \A hs \in SUBSET Handles :
                conn' = [conn EXCEPT ![c].stage = s, ![c].closes = hs]
                    => conn' \in [Conns -> Task] /\ Moves(c, s)
<1> DEFINE e == [conn EXCEPT ![c].stage = s]
<1>1. conn \in [Conns -> Task]
  BY DEF ConnTypeOK, Task
<1>2. e \in [Conns -> Task]
  BY <1>1, Updated, ZenonT(60)
<1>3. \A d \in Conns : /\ e[d].stage = IF d = c THEN s ELSE conn[d].stage
                       /\ e[d].handle = conn[d].handle
                       /\ e[d].told = conn[d].told
                       /\ e[d].judged = conn[d].judged
  BY <1>1 DEF Task
<1>4. moves(c, s) => conn' \in [Conns -> Task] /\ Moves(c, s)
  BY <1>2, <1>3 DEF moves, Moves
<1>5. ASSUME NEW w \in Writers \cup {None}, conn' = [e EXCEPT ![c].asked = w]
      PROVE  conn' \in [Conns -> Task] /\ Moves(c, s)
  <2> HIDE DEF e
  <2>1. conn' \in [Conns -> Task]
    BY <1>2, <1>5, Updated, ZenonT(60)
  <2>2. QED
    BY <1>2, <1>3, <1>5, <2>1 DEF Moves, Task
<1>6. ASSUME NEW w \in Writers \cup {None},
             conn' = [[e EXCEPT ![c].asked = None] EXCEPT ![c].writer = w]
      PROVE  conn' \in [Conns -> Task] /\ Moves(c, s)
  <2> DEFINE f == [e EXCEPT ![c].asked = None]
  <2> HIDE DEF e
  <2>1. f \in [Conns -> Task]
    BY <1>2, Updated, ZenonT(60)
  <2>2. \A d \in Conns : f[d].stage = e[d].stage /\ f[d].handle = e[d].handle
                         /\ f[d].told = e[d].told /\ f[d].judged = e[d].judged
    BY <1>2 DEF Task
  <2>3. conn' = [f EXCEPT ![c].writer = w]
    BY <1>6
  <2> HIDE DEF f
  <2>4. conn' \in [Conns -> Task]
    BY <2>1, <2>3, Updated, ZenonT(60)
  <2>5. QED
    BY <1>3, <2>1, <2>2, <2>3, <2>4 DEF Moves, Task
<1>7. ASSUME NEW hs \in SUBSET Handles, conn' = [e EXCEPT ![c].closes = hs]
      PROVE  conn' \in [Conns -> Task] /\ Moves(c, s)
  <2> HIDE DEF e
  <2>1. conn' \in [Conns -> Task]
    BY <1>2, <1>7, Updated, ZenonT(60)
  <2>2. QED
    BY <1>2, <1>3, <1>7, <2>1 DEF Moves, Task
<1>8. QED
  BY <1>4, <1>5, <1>6, <1>7, ZenonT(60)
-------------------------------------------------------------------------------
\* A typed step of the tasks and typed registries make a typed state.
LEMMA TypedNext ==
    ASSUME ConnTypeOK, conn' \in [Conns -> Task],
           sessions' \in [Handles -> Conns \cup {None}], UNCHANGED serverVars,
           writer_sessions' \in [Writers -> SUBSET Handles], retired' \subseteq Writers
    PROVE  ConnTypeOK'
  BY DEF ConnTypeOK, Task, serverVars

\* A task that moves without touching the registry keeps the invariant when it
\* neither enters the registered stages nor leaves them but for its teardown.
LEMMA QuietStep ==
    ASSUME RegistryInv, NEW c \in Conns, NEW s \in Stages, Moves(c, s),
           conn' \in [Conns -> Task], UNCHANGED <<sessions, serverVars>>,
           writer_sessions' \in [Writers -> SUBSET Handles], retired' \subseteq Writers,
           s \in Registered => conn[c].stage \in Registered \ {"registered"},
           s \in {"ready"} \cup Teardown => conn[c].stage \in Registered \cup Teardown,
           conn[c].stage \in Registered \cup {"leaving"} => s \in Registered \cup {"leaving"}
    PROVE  RegistryInv'
<1> USE DEF serverVars
<1>1. ConnTypeOK'
  BY TypedNext DEF RegistryInv, ConnTypeOK
<1>2. HandleKnown'
  BY DEF RegistryInv, HandleKnown, Moves
<1>3. OneLive'
  BY DEF RegistryInv, OneLive, Moves
<1>4. NoneStranded'
  <2> SUFFICES ASSUME NEW h \in Handles, sessions[h] # None
               PROVE  /\ conn'[sessions[h]].handle = h
                      /\ conn'[sessions[h]].stage \in Registered \cup {"leaving"}
    BY DEF NoneStranded
  <2>1. sessions[h] \in Conns
    BY DEF RegistryInv, ConnTypeOK
  <2>2. QED
    BY <2>1 DEF RegistryInv, NoneStranded, Moves
<1>5. DrainedStaysEmpty'
  BY DEF RegistryInv, DrainedStaysEmpty
<1>6. JudgedOrClosed'
  BY DEF RegistryInv, JudgedOrClosed, Moves
<1>7. QED
  BY <1>1, <1>2, <1>3, <1>4, <1>5, <1>6 DEF RegistryInv

\* A task that ends takes out its own entry and no other (unregister_connection).
LEMMA LeavingStep ==
    ASSUME RegistryInv, NEW c \in Conns, NEW s \in {"unregistered", "ended"},
           conn[c].stage \in Registered \cup {"leaving"}, moves(c, s),
           unregister_connection(c), UNCHANGED <<writer_sessions, retired, serverVars>>
    PROVE  RegistryInv'
<1> USE DEF serverVars
<1>0. s \in Stages /\ s \notin Registered \cup {"leaving"} /\ ConnTypeOK
  BY StageNames, SMTT(60) DEF RegistryInv
<1>m. conn' \in [Conns -> Task] /\ Moves(c, s)
  BY <1>0, OwnStep, ZenonT(60)
<1>h. conn[c].handle \in Handles
  BY DEF RegistryInv, HandleKnown, Teardown
<1>s. /\ sessions' \in [Handles -> Conns \cup {None}]
      /\ \A h \in Handles : sessions'[h] = IF sessions[h] = c THEN None ELSE sessions[h]
  BY <1>h, <1>0 DEF unregister_connection, ConnTypeOK, RegistryInv, NoneStranded
<1>1. ConnTypeOK'
  BY <1>0, <1>m, <1>s, TypedNext DEF ConnTypeOK
<1>2. HandleKnown'
  BY <1>m, <1>h DEF RegistryInv, HandleKnown, Moves
<1>3. OneLive'
  <2> SUFFICES ASSUME NEW d \in Conns, conn'[d].stage \in Registered, ~conn'[d].told
               PROVE  sessions'[conn'[d].handle] = d
    BY DEF OneLive
  <2>1. d # c /\ sessions[conn[d].handle] = d /\ conn[d].handle \in Handles
    BY <1>0, <1>m DEF RegistryInv, OneLive, Moves, HandleKnown
  <2>2. QED
    BY <2>1, <1>m, <1>s DEF Moves
<1>4. NoneStranded'
  <2> SUFFICES ASSUME NEW h \in Handles, sessions'[h] # None
               PROVE  /\ conn'[sessions'[h]].handle = h
                      /\ conn'[sessions'[h]].stage \in Registered \cup {"leaving"}
    BY DEF NoneStranded
  <2>1. sessions'[h] = sessions[h] /\ sessions[h] \in Conns \ {c}
    BY <1>s, <1>0 DEF ConnTypeOK
  <2>2. QED
    BY <2>1, <1>m DEF RegistryInv, NoneStranded, Moves
<1>5. DrainedStaysEmpty'
  BY <1>s DEF RegistryInv, DrainedStaysEmpty
<1>6. JudgedOrClosed'
  BY <1>0, <1>m DEF RegistryInv, JudgedOrClosed, Moves
<1>7. QED
  BY <1>1, <1>2, <1>3, <1>4, <1>5, <1>6 DEF RegistryInv

\* A set of handles is taken out of the registry and told (close_session,
\* close_person, close_all): whoever was live under them is told.
LEMMA CloseStep ==
    ASSUME RegistryInv, NEW taken \in SUBSET Handles, ConnTypeOK',
           sessions' = Without(taken), UNCHANGED <<history, shutting_down>>,
           \A d \in Conns : /\ conn'[d].stage = conn[d].stage
                            /\ conn'[d].handle = conn[d].handle
                            /\ conn'[d].judged = conn[d].judged
                            /\ conn'[d].told = (conn[d].told \/ \E h \in taken : sessions[h] = d),
           (closing_all' = closing_all) \/ (taken = Handles),
           (drained' = drained) \/ (taken = Handles /\ shutting_down)
    PROVE  RegistryInv'
<1>0. \A h \in Handles : sessions'[h] = IF h \in taken THEN None ELSE sessions[h]
  BY DEF Without
<1>2. HandleKnown'
  BY DEF RegistryInv, HandleKnown
<1>3. OneLive'
  <2> SUFFICES ASSUME NEW d \in Conns, conn'[d].stage \in Registered, ~conn'[d].told
               PROVE  sessions'[conn'[d].handle] = d
    BY DEF OneLive
  <2>1. sessions[conn[d].handle] = d /\ conn[d].handle \in Handles
    BY ZenonT(60) DEF RegistryInv, OneLive, HandleKnown
  <2>2. conn[d].handle \notin taken
    BY <2>1, ZenonT(60)
  <2>3. QED
    BY <2>1, <2>2, <1>0
<1>4. NoneStranded'
  <2> SUFFICES ASSUME NEW h \in Handles, sessions'[h] # None
               PROVE  /\ conn'[sessions'[h]].handle = h
                      /\ conn'[sessions'[h]].stage \in Registered \cup {"leaving"}
    BY DEF NoneStranded
  <2>1. sessions'[h] = sessions[h] /\ sessions[h] \in Conns
    BY <1>0 DEF ConnTypeOK, RegistryInv
  <2>2. QED
    BY <2>1 DEF RegistryInv, NoneStranded
<1>5. DrainedStaysEmpty'
  BY <1>0, ZenonT(60) DEF RegistryInv, DrainedStaysEmpty
<1>6. JudgedOrClosed'
  <2> SUFFICES ASSUME NEW d \in Conns, conn'[d].stage \in Registered \ {"registered"},
                      ~conn'[d].told, ~closing_all'
               PROVE  conn'[d].judged = history'
    BY DEF JudgedOrClosed
  <2>1. sessions[conn[d].handle] = d /\ conn[d].handle \in Handles
    BY ZenonT(60) DEF RegistryInv, OneLive, HandleKnown
  <2>2. CASE taken = Handles
    BY <2>1, <2>2, ZenonT(60)
  <2>3. CASE taken # Handles
    <3>1. ~closing_all
      BY <2>3, Zenon
    <3>2. ~conn[d].told
      BY Zenon
    <3>3. QED
      BY <3>1, <3>2 DEF RegistryInv, JudgedOrClosed
  <2>4. QED
    BY <2>2, <2>3
<1>7. QED
  BY <1>2, <1>3, <1>4, <1>5, <1>6 DEF RegistryInv

\* The registration (register_connection, the flag clear).
LEMMA ClaimStep ==
    ASSUME RegistryInv, NEW c \in Conns, ~shutting_down, register_connection(c)
    PROVE  RegistryInv'
<1> DEFINE g == conn[c].handle
           t == Told({g})
<1> USE DEF serverVars
<1>0. /\ conn[c].stage = "ready" /\ sessions' = [sessions EXCEPT ![g] = c]
      /\ conn' = [t EXCEPT ![c].stage = "registered"]
      /\ UNCHANGED <<writer_sessions, retired, serverVars>>
  BY DEF register_connection
<1>1. ConnTypeOK /\ g \in Handles /\ "registered" \in Stages /\ "registered" \in Registered
  BY <1>0, StageNames DEF RegistryInv, HandleKnown
<1>2. /\ t \in [Conns -> Task]
      /\ \A d \in Conns : /\ t[d].stage = conn[d].stage /\ t[d].handle = conn[d].handle
                          /\ t[d].judged = conn[d].judged
                          /\ t[d].told = (conn[d].told \/ sessions[g] = d)
  BY <1>1, ToldFields
<1>3. /\ sessions' \in [Handles -> Conns \cup {None}]
      /\ \A h \in Handles : sessions'[h] = IF h = g THEN c ELSE sessions[h]
  BY <1>0, <1>1 DEF ConnTypeOK
<1> HIDE DEF t
<1>4. conn' \in [Conns -> Task]
  BY <1>0, <1>1, <1>2, Updated, ZenonT(60)
<1>5. \A d \in Conns : /\ conn'[d].stage = IF d = c THEN "registered" ELSE conn[d].stage
                       /\ conn'[d].handle = conn[d].handle
                       /\ conn'[d].judged = conn[d].judged
                       /\ conn'[d].told = t[d].told
  BY <1>0, <1>2 DEF Task
<1>6. ConnTypeOK'
  BY <1>0, <1>1, <1>3, <1>4, TypedNext DEF ConnTypeOK
<1>7. HandleKnown'
  BY <1>0, <1>1, <1>5 DEF RegistryInv, HandleKnown
<1>8. OneLive'
  <2> SUFFICES ASSUME NEW d \in Conns, conn'[d].stage \in Registered, ~conn'[d].told
               PROVE  sessions'[conn'[d].handle] = d
    BY DEF OneLive
  <2>1. CASE d = c
    BY <2>1, <1>1, <1>3, <1>5
  <2>2. CASE d # c
    <3>1. ~t[d].told
      BY <1>5, Zenon
    <3>2. ~conn[d].told /\ sessions[g] # d
      BY <3>1, <1>2, Zenon
    <3>3. sessions[conn[d].handle] = d /\ conn[d].handle \in Handles
      BY <2>2, <3>2, <1>5 DEF RegistryInv, OneLive, HandleKnown
    <3>4. QED
      BY <3>2, <3>3, <1>3, <1>5
  <2>3. QED
    BY <2>1, <2>2
<1>9. NoneStranded'
  <2> SUFFICES ASSUME NEW h \in Handles, sessions'[h] # None
               PROVE  /\ conn'[sessions'[h]].handle = h
                      /\ conn'[sessions'[h]].stage \in Registered \cup {"leaving"}
    BY DEF NoneStranded
  <2>1. CASE h = g
    BY <2>1, <1>1, <1>3, <1>5
  <2>2. CASE h # g
    <3>1. sessions'[h] = sessions[h] /\ sessions[h] \in Conns
      BY <2>2, <1>1, <1>3 DEF ConnTypeOK
    <3>2. QED
      BY <3>1, <1>1, <1>5 DEF RegistryInv, NoneStranded
  <2>3. QED
    BY <2>1, <2>2
<1>10. DrainedStaysEmpty'
  BY <1>0 DEF RegistryInv, DrainedStaysEmpty, HandleKnown
<1>11. JudgedOrClosed'
  <2> SUFFICES ASSUME NEW d \in Conns, conn'[d].stage \in Registered \ {"registered"},
                      ~conn'[d].told, ~closing_all
               PROVE  conn'[d].judged = history
    BY <1>0 DEF JudgedOrClosed
  <2>1. d # c
    BY <1>5
  <2>2. ~t[d].told
    BY <1>5, Zenon
  <2>3. ~conn[d].told
    BY <2>2, <1>2, Zenon
  <2>4. QED
    BY <2>1, <2>3, <1>5 DEF RegistryInv, JudgedOrClosed
<1>12. QED
  BY <1>6, <1>7, <1>8, <1>9, <1>10, <1>11 DEF RegistryInv

\* A task takes a handle and is ready to register; the others are as they were.
Takes(c, g) ==
    \A d \in Conns :
        /\ conn'[d].stage = IF d = c THEN "ready" ELSE conn[d].stage
        /\ conn'[d].handle = IF d = c THEN g ELSE conn[d].handle
        /\ conn'[d].told = conn[d].told
        /\ conn'[d].judged = conn[d].judged

\* What the handshake does to its task (run_handshake).
LEMMA HandleFields ==
    ASSUME ConnTypeOK, NEW c \in Conns, NEW g \in Handles
    PROVE  conn' = [conn EXCEPT ![c].stage = "ready", ![c].handle = g]
                => conn' \in [Conns -> Task] /\ Takes(c, g)
<1> DEFINE e == [conn EXCEPT ![c].stage = "ready"]
<1>0. conn \in [Conns -> Task] /\ "ready" \in Stages
  BY StageNames DEF ConnTypeOK, Task
<1>1. e \in [Conns -> Task]
  BY <1>0, Updated, ZenonT(60)
<1>2. \A d \in Conns : /\ e[d].stage = IF d = c THEN "ready" ELSE conn[d].stage
                       /\ e[d].handle = conn[d].handle /\ e[d].told = conn[d].told
                       /\ e[d].judged = conn[d].judged
  BY <1>0, StageOnly
<1>3. ASSUME conn' = [e EXCEPT ![c].handle = g]
      PROVE  conn' \in [Conns -> Task] /\ Takes(c, g)
  <2> HIDE DEF e
  <2>1. conn' \in [Conns -> Task]
    BY <1>1, <1>3, Updated, ZenonT(60)
  <2>2. QED
    BY <1>1, <1>2, <1>3, <2>1 DEF Takes, Task
<1>4. QED
  BY <1>3

\* The handshake finds its handle (run_handshake).
LEMMA HandleStep ==
    ASSUME RegistryInv, NEW c \in Conns, NEW g \in Handles, conn[c].stage = "handshake",
           conn' \in [Conns -> Task], Takes(c, g),
           UNCHANGED <<sessions, writer_sessions, retired, serverVars>>
    PROVE  RegistryInv'
<1> USE DEF serverVars
<1>0. ConnTypeOK /\ "ready" \notin Registered \cup {"leaving"}
      /\ "handshake" \notin Registered \cup {"leaving"}
  BY DEF RegistryInv, Stages, Registered, Loop
<1>5. \A d \in Conns : /\ conn'[d].stage = IF d = c THEN "ready" ELSE conn[d].stage
                       /\ conn'[d].handle = IF d = c THEN g ELSE conn[d].handle
                       /\ conn'[d].told = conn[d].told
                       /\ conn'[d].judged = conn[d].judged
  BY DEF Takes
<1>6. ConnTypeOK'
  BY <1>0, TypedNext DEF ConnTypeOK
<1>7. HandleKnown'
  <2>1. \A d \in Conns : conn'[d].stage \in {"ready"} \cup Registered \cup Teardown
                            => conn'[d].handle \in Handles
    BY <1>5 DEF RegistryInv, HandleKnown
  <2>2. QED
    BY <2>1 DEF RegistryInv, HandleKnown
<1>8. OneLive'
  <2> SUFFICES ASSUME NEW d \in Conns, conn'[d].stage \in Registered, ~conn'[d].told
               PROVE  sessions[conn'[d].handle] = d
    BY DEF OneLive
  <2>1. d # c /\ conn[d].stage \in Registered
    BY <1>0, <1>5
  <2>2. ~conn[d].told
    BY <1>5, Zenon
  <2>3. QED
    BY <2>1, <2>2, <1>5 DEF RegistryInv, OneLive
<1>9. NoneStranded'
  <2> SUFFICES ASSUME NEW h \in Handles, sessions[h] # None
               PROVE  /\ conn'[sessions[h]].handle = h
                      /\ conn'[sessions[h]].stage \in Registered \cup {"leaving"}
    BY DEF NoneStranded
  <2>1. sessions[h] \in Conns /\ sessions[h] # c
    BY <1>0 DEF RegistryInv, ConnTypeOK, NoneStranded
  <2>2. QED
    BY <2>1, <1>5 DEF RegistryInv, NoneStranded
<1>10. DrainedStaysEmpty'
  BY DEF RegistryInv, DrainedStaysEmpty
<1>11. JudgedOrClosed'
  BY <1>0, <1>5 DEF RegistryInv, JudgedOrClosed
<1>12. QED
  BY <1>6, <1>7, <1>8, <1>9, <1>10, <1>11 DEF RegistryInv

\* A registered task judges its cursor by the history in force (resume_from).
LEMMA JudgeFields ==
    ASSUME ConnTypeOK, NEW c \in Conns
    PROVE  conn' = [conn EXCEPT ![c].stage = "judged", ![c].judged = history]
             => /\ conn' \in [Conns -> Task]
                /\ \A d \in Conns :
                     /\ conn'[d].stage = IF d = c THEN "judged" ELSE conn[d].stage
                     /\ conn'[d].judged = IF d = c THEN history ELSE conn[d].judged
                     /\ conn'[d].handle = conn[d].handle /\ conn'[d].told = conn[d].told
<1> DEFINE e == [conn EXCEPT ![c].stage = "judged"]
<1>0. conn \in [Conns -> Task] /\ "judged" \in Stages /\ history \in 0..MaxHistories
  BY StageNames, SMTT(60) DEF ConnTypeOK, Task
<1>1. e \in [Conns -> Task]
  BY <1>0, Updated, ZenonT(60)
<1>2. \A d \in Conns : /\ e[d].stage = IF d = c THEN "judged" ELSE conn[d].stage
                       /\ e[d].handle = conn[d].handle /\ e[d].told = conn[d].told
                       /\ e[d].judged = conn[d].judged
  BY <1>0, StageOnly
<1>3. ASSUME conn' = [e EXCEPT ![c].judged = history]
      PROVE  /\ conn' \in [Conns -> Task]
             /\ \A d \in Conns :
                  /\ conn'[d].stage = IF d = c THEN "judged" ELSE conn[d].stage
                  /\ conn'[d].judged = IF d = c THEN history ELSE conn[d].judged
                  /\ conn'[d].handle = conn[d].handle /\ conn'[d].told = conn[d].told
  <2> HIDE DEF e
  <2>1. conn' \in [Conns -> Task]
    BY <1>0, <1>1, <1>3, Updated, ZenonT(60)
  <2>2. QED
    BY <1>1, <1>2, <1>3, <2>1 DEF Task
<1>4. QED
  BY <1>3

\* The judgement keeps the invariant (resume_from).
LEMMA JudgeStep ==
    ASSUME RegistryInv, NEW c \in Conns, resume_from(c)
    PROVE  RegistryInv'
<1> USE DEF serverVars, registryVars
<1>0. ConnTypeOK /\ "judged" \in Registered /\ "registered" \in Registered
  BY DEF RegistryInv, Registered
<1>1. /\ conn[c].stage = "registered" /\ conn' \in [Conns -> Task]
      /\ UNCHANGED <<sessions, writer_sessions, retired, serverVars>>
  BY <1>0, JudgeFields, ZenonT(60) DEF resume_from
<1>2. \A d \in Conns :
        /\ conn'[d].stage = IF d = c THEN "judged" ELSE conn[d].stage
        /\ conn'[d].judged = IF d = c THEN history ELSE conn[d].judged
        /\ conn'[d].handle = conn[d].handle /\ conn'[d].told = conn[d].told
  BY <1>0, JudgeFields, ZenonT(60) DEF resume_from
<1>3. ConnTypeOK'
  BY <1>0, <1>1, TypedNext DEF ConnTypeOK
<1>4. HandleKnown'
  BY <1>0, <1>1, <1>2 DEF RegistryInv, HandleKnown
<1>5. OneLive'
  <2> SUFFICES ASSUME NEW d \in Conns, conn'[d].stage \in Registered, ~conn'[d].told
               PROVE  sessions[conn'[d].handle] = d
    BY <1>1 DEF OneLive
  <2>1. ~conn[d].told
    BY <1>2, Zenon
  <2>2. conn[d].stage \in Registered
    BY <1>0, <1>1, <1>2
  <2>3. QED
    BY <2>1, <2>2, <1>2 DEF RegistryInv, OneLive
<1>6. NoneStranded'
  <2> SUFFICES ASSUME NEW h \in Handles, sessions[h] # None
               PROVE  /\ conn'[sessions[h]].handle = h
                      /\ conn'[sessions[h]].stage \in Registered \cup {"leaving"}
    BY <1>1 DEF NoneStranded
  <2>1. sessions[h] \in Conns
    BY <1>0 DEF ConnTypeOK
  <2>2. QED
    BY <2>1, <1>0, <1>2 DEF RegistryInv, NoneStranded
<1>7. DrainedStaysEmpty'
  BY <1>1 DEF RegistryInv, DrainedStaysEmpty
<1>8. JudgedOrClosed'
  <2> SUFFICES ASSUME NEW d \in Conns, conn'[d].stage \in Registered \ {"registered"},
                      ~conn'[d].told, ~closing_all
               PROVE  conn'[d].judged = history
    BY <1>1 DEF JudgedOrClosed
  <2>1. ~conn[d].told
    BY <1>2, Zenon
  <2>2. QED
    BY <2>1, <1>2 DEF RegistryInv, JudgedOrClosed
<1>9. QED
  BY <1>3, <1>4, <1>5, <1>6, <1>7, <1>8 DEF RegistryInv

\* What closing one handle of those a retirement took does to the tasks.
LEMMA EachFields ==
    ASSUME ConnTypeOK, NEW c \in Conns, NEW h \in Handles, NEW hs \in SUBSET Handles
    PROVE  conn' = [Told({h}) EXCEPT ![c].closes = hs]
             => /\ conn' \in [Conns -> Task]
                /\ \A d \in Conns :
                     /\ conn'[d].stage = conn[d].stage
                     /\ conn'[d].handle = conn[d].handle
                     /\ conn'[d].judged = conn[d].judged
                     /\ conn'[d].told = (conn[d].told \/ \E x \in {h} : sessions[x] = d)
<1> DEFINE t == Told({h})
<1>1. /\ t \in [Conns -> Task]
      /\ \A d \in Conns : /\ t[d].stage = conn[d].stage /\ t[d].handle = conn[d].handle
                          /\ t[d].judged = conn[d].judged
                          /\ t[d].told = (conn[d].told \/ \E x \in {h} : sessions[x] = d)
  BY ToldFields
<1>2. ASSUME conn' = [t EXCEPT ![c].closes = hs]
      PROVE  /\ conn' \in [Conns -> Task]
             /\ \A d \in Conns :
                  /\ conn'[d].stage = conn[d].stage
                  /\ conn'[d].handle = conn[d].handle
                  /\ conn'[d].judged = conn[d].judged
                  /\ conn'[d].told = (conn[d].told \/ \E x \in {h} : sessions[x] = d)
  <2> HIDE DEF t
  <2>1. conn' \in [Conns -> Task]
    BY <1>1, <1>2, Updated, ZenonT(60)
  <2>2. \A d \in Conns : /\ conn'[d].stage = t[d].stage /\ conn'[d].handle = t[d].handle
                         /\ conn'[d].judged = t[d].judged /\ conn'[d].told = t[d].told
    BY <1>1, <1>2 DEF Task
  <2>3. QED
    BY <1>1, <2>1, <2>2
<1>3. QED
  BY <1>2, ZenonT(60)

\* A retirement closes one handle of those it took (closes_each).
LEMMA EachStep ==
    ASSUME RegistryInv, NEW h \in Handles, conn' \in [Conns -> Task], sessions' = Without({h}),
           \A d \in Conns : /\ conn'[d].stage = conn[d].stage
                            /\ conn'[d].handle = conn[d].handle
                            /\ conn'[d].judged = conn[d].judged
                            /\ conn'[d].told = (conn[d].told \/ \E x \in {h} : sessions[x] = d),
           UNCHANGED <<writer_sessions, retired, serverVars>>
    PROVE  RegistryInv'
<1> USE DEF serverVars
<1>1. sessions' \in [Handles -> Conns \cup {None}]
  BY DEF Without, RegistryInv, ConnTypeOK
<1>2. ConnTypeOK'
  BY <1>1, TypedNext, ZenonT(60) DEF RegistryInv, ConnTypeOK
<1>3. {h} \in SUBSET Handles
  OBVIOUS
<1>4. QED
  BY <1>2, <1>3, CloseStep

-------------------------------------------------------------------------------
\* Every step of a connection's own task keeps the invariant (serve to teardown).
LEMMA TaskStep ==
    ASSUME RegistryInv, NEW c \in Conns,
           serve(c) \/ TaskSteps(c) \/ bind_device(c) \/ retire_writer(c) \/ breaks(c)
    PROVE  RegistryInv'
<1> USE DEF serverVars, registryVars
<1>0. ConnTypeOK
  BY DEF RegistryInv
<1>1. /\ writer_sessions \in [Writers -> SUBSET Handles] /\ retired \subseteq Writers
      /\ conn[c].closes \in SUBSET Handles /\ conn[c].asked \in Writers \cup {None}
      /\ conn[c].stage \in Stages
  BY <1>0 DEF ConnTypeOK
<1>q. ASSUME NEW s \in Stages, moves(c, s), UNCHANGED <<sessions, retired, serverVars>>,
             writer_sessions' \in [Writers -> SUBSET Handles],
             s \in Registered => conn[c].stage \in Registered \ {"registered"},
             s \in {"ready"} \cup Teardown => conn[c].stage \in Registered \cup Teardown,
             conn[c].stage \in Registered \cup {"leaving"} => s \in Registered \cup {"leaving"}
      PROVE  RegistryInv'
  BY <1>q, <1>0, <1>1, OwnStep, QuietStep, ZenonT(60)
<1>2. CASE serve(c)
  <2>1. PICK s \in {"ended", "gate"} : moves(c, s)
    BY <1>2 DEF serve
  <2> QED BY <1>2, <2>1, <1>1, <1>q, StageNames, SMTT(60) DEF serve, Registered, Loop, Teardown
<1>3. CASE registration_gate(c)
  BY <1>3, <1>1, <1>q, StageNames DEF registration_gate, Registered, Loop, Teardown
<1>4. CASE run_handshake(c)
  <2>1. CASE moves(c, "ended")
    BY <1>4, <2>1, <1>1, <1>q, StageNames DEF run_handshake, Registered, Loop, Teardown
  <2>2. ASSUME NEW g \in Handles, conn' = [conn EXCEPT ![c].stage = "ready", ![c].handle = g]
        PROVE  RegistryInv'
    <3>1. conn' \in [Conns -> Task] /\ Takes(c, g)
      BY <1>0, <2>2, HandleFields, ZenonT(60)
    <3>2. QED
      BY <1>4, <3>1, HandleStep DEF run_handshake
  <2>3. QED
    BY <1>4, <2>1, <2>2 DEF run_handshake
<1>5. CASE register_connection(c)
  <2>1. CASE shutting_down
    BY <1>5, <2>1, <1>1, <1>q, StageNames DEF register_connection, Registered, Loop, Teardown
  <2>2. CASE ~shutting_down
    BY <1>5, <2>2, ClaimStep
  <2>3. QED
    BY <2>1, <2>2
<1>6. CASE resume_from(c)
  BY <1>6, JudgeStep
<1>7. CASE acks(c)
  <2>1. CASE moves(c, "running") /\ UNCHANGED sessions
    BY <1>7, <2>1, <1>1, <1>q, StageNames DEF acks, Registered, Loop, Teardown
  <2>2. CASE moves(c, "ended") /\ unregister_connection(c)
    BY <1>7, <2>2, LeavingStep DEF acks, Registered
  <2>3. QED
    BY <1>7, <2>1, <2>2 DEF acks
<1>8. CASE binds(c)
  <2>1. conn' \in [Conns -> Task] /\ Moves(c, "running")
    BY <1>8, <1>0, <1>1, OwnStep, StageNames, ZenonT(60) DEF binds
  <2>2. writer_sessions' \in [Writers -> SUBSET Handles]
    <3>1. conn[c].stage = "binding" /\ conn[c].handle \in Handles
      BY <1>8 DEF binds, RegistryInv, HandleKnown, Registered, Loop
    <3>2. QED
      BY <3>1, <1>8, <1>1, ZenonT(60) DEF binds
  <2>3. QED
    BY <1>8, <2>1, <2>2, <1>1, QuietStep, StageNames DEF binds, Registered, Loop, Teardown
<1>9. CASE takes_sessions(c)
  <2>1. PICK w \in Writers :
          /\ conn' = [conn EXCEPT ![c].stage = "retiring", ![c].closes = writer_sessions[w]]
          /\ writer_sessions' = [writer_sessions EXCEPT ![w] = {}]
    BY <1>9, ZenonT(60) DEF takes_sessions
  <2>2. writer_sessions[w] \in SUBSET Handles
    BY <1>1
  <2>3. conn' \in [Conns -> Task] /\ Moves(c, "retiring")
    BY <2>1, <2>2, <1>0, OwnStep, StageNames, ZenonT(60)
  <2>4. writer_sessions' \in [Writers -> SUBSET Handles]
    BY <2>1, <1>1
  <2>5. QED
    BY <1>9, <2>3, <2>4, <1>1, QuietStep, StageNames
    DEF takes_sessions, Registered, Loop, Teardown
<1>10. CASE closes_each(c)
  <2>1. CASE conn[c].closes = {}
    <3>1. conn' \in [Conns -> Task] /\ Moves(c, "running")
      BY <1>10, <2>1, <1>0, OwnStep, StageNames, ZenonT(60) DEF closes_each
    <3>2. QED
      BY <1>10, <2>1, <3>1, <1>1, QuietStep, StageNames, SMTT(60)
      DEF closes_each, Registered, Loop, Teardown
  <2>2. CASE conn[c].closes # {}
    <3>1. PICK h \in conn[c].closes :
            /\ conn' = [Told({h}) EXCEPT ![c].closes = @ \ {h}]
            /\ sessions' = Without({h})
      BY <1>10, <2>2, ZenonT(60) DEF closes_each
    <3>2. h \in Handles
      BY <1>1
    <3> DEFINE hs == Told({h})[c].closes \ {h}
    <3>3. hs \in SUBSET Handles
      BY <1>0, <1>1, <3>2, ToldFields
    <3>4. conn' = [Told({h}) EXCEPT ![c].closes = hs]
      BY <3>1
    <3> HIDE DEF hs
    <3>5. /\ conn' \in [Conns -> Task]
          /\ \A d \in Conns : /\ conn'[d].stage = conn[d].stage
                              /\ conn'[d].handle = conn[d].handle
                              /\ conn'[d].judged = conn[d].judged
                              /\ conn'[d].told = (conn[d].told \/ \E x \in {h} : sessions[x] = d)
      BY <3>2, <3>3, <3>4, <1>0, EachFields, ZenonT(60)
    <3>6. QED
      BY <1>10, <3>1, <3>2, <3>5, EachStep, ZenonT(60) DEF closes_each
  <2>3. QED
    BY <2>1, <2>2
<1>11. CASE handle_outbound(c)
  BY <1>11, <1>1, <1>q, StageNames DEF handle_outbound, Registered, Loop, Teardown
<1>12. CASE unregisters(c)
  BY <1>12, LeavingStep DEF unregisters
<1>13. CASE forgets_writer(c)
  <2>1. writer_sessions' \in [Writers -> SUBSET Handles]
    BY <1>13, <1>1, ZenonT(60) DEF forgets_writer
  <2>2. QED
    BY <1>13, <2>1, <1>1, <1>q, StageNames DEF forgets_writer, Registered, Loop, Teardown
<1>14. CASE unsubscribe_all(c)
  BY <1>14, <1>1, <1>q, StageNames, SMTT(60) DEF unsubscribe_all, Registered, Loop, Teardown
<1>15. CASE bind_device(c)
  <2>1. conn' \in [Conns -> Task] /\ Moves(c, "binding")
    BY <1>15, <1>0, OwnStep, StageNames, ZenonT(60) DEF bind_device
  <2>2. QED
    BY <1>15, <2>1, <1>1, QuietStep, StageNames, ZenonT(60) DEF bind_device, Registered, Loop, Teardown
<1>16. CASE retire_writer(c)
  <2>1. conn' \in [Conns -> Task] /\ Moves(c, "marked") /\ retired' \subseteq Writers
    BY <1>16, <1>0, <1>1, OwnStep, StageNames, ZenonT(60) DEF retire_writer
  <2>2. QED
    BY <1>16, <2>1, <1>1, QuietStep, StageNames, ZenonT(60) DEF retire_writer, Registered, Loop, Teardown
<1>17. CASE breaks(c)
  BY <1>17, <1>1, <1>q, StageNames DEF breaks, Registered, Loop, Teardown
<1>18. QED
  BY <1>2, <1>3, <1>4, <1>5, <1>6, <1>7, <1>8, <1>9, <1>10, <1>11, <1>12, <1>13, <1>14,
     <1>15, <1>16, <1>17 DEF TaskSteps

\* Every close from outside keeps the invariant.
LEMMA OutsideStep ==
    ASSUME RegistryInv,
           close_session \/ close_person \/ reconcile_history \/ close_all \/ shutdown \/ drain
    PROVE  RegistryInv'
<1> USE DEF serverVars
<1>0. ConnTypeOK
  BY DEF RegistryInv
<1>c. ASSUME NEW taken \in SUBSET Handles, close(taken),
             UNCHANGED <<writer_sessions, retired, history, shutting_down>>,
             closing_all' \in BOOLEAN, drained' \in BOOLEAN,
             (closing_all' = closing_all) \/ (taken = Handles),
             (drained' = drained) \/ (taken = Handles /\ shutting_down)
      PROVE  RegistryInv'
  <2>1. /\ conn' \in [Conns -> Task]
        /\ \A d \in Conns : /\ conn'[d].stage = conn[d].stage
                            /\ conn'[d].handle = conn[d].handle
                            /\ conn'[d].judged = conn[d].judged
                            /\ conn'[d].told = (conn[d].told \/ \E h \in taken : sessions[h] = d)
    BY <1>c, <1>0, ToldFields DEF close
  <2>2. sessions' = Without(taken) /\ sessions' \in [Handles -> Conns \cup {None}]
    BY <1>c, <1>0 DEF close, Without, ConnTypeOK
  <2>3. shutting_down' \in BOOLEAN /\ history' \in 0..MaxHistories
        /\ writer_sessions' \in [Writers -> SUBSET Handles] /\ retired' \subseteq Writers
    BY <1>c, <1>0 DEF ConnTypeOK
  <2>4. ConnTypeOK'
    BY <1>c, <2>1, <2>2, <2>3 DEF ConnTypeOK, Task
  <2>5. QED
    BY <1>c, <2>1, <2>2, <2>4, CloseStep
<1>1. CASE close_session
  <2>1. PICK h \in Handles : close({h})
    BY <1>1, ZenonT(60) DEF close_session
  <2>2. {h} \in SUBSET Handles /\ closing_all' \in BOOLEAN /\ drained' \in BOOLEAN
    BY <1>1, <1>0 DEF close_session, ConnTypeOK
  <2>3. QED
    BY <1>1, <2>1, <2>2, <1>c DEF close_session
<1>2. CASE close_person
  <2>1. Person \in SUBSET Handles /\ closing_all' \in BOOLEAN /\ drained' \in BOOLEAN
    BY <1>2, <1>0, ConnectionAssumptions DEF close_person, ConnTypeOK
  <2>2. QED
    BY <1>2, <2>1, <1>c DEF close_person
<1>3. CASE close_all
  <2>1. Handles \in SUBSET Handles /\ drained' \in BOOLEAN
    BY <1>3, <1>0 DEF close_all, ConnTypeOK
  <2>2. closing_all' \in BOOLEAN
    BY <1>3, Zenon DEF close_all
  <2>3. QED
    BY <1>3, <2>1, <2>2, <1>c, ZenonT(60) DEF close_all
<1>4. CASE drain
  <2>1. Handles \in SUBSET Handles /\ closing_all' \in BOOLEAN
    BY <1>4, <1>0 DEF drain, ConnTypeOK
  <2>2. drained' \in BOOLEAN
    BY <1>4, Zenon DEF drain
  <2>3. QED
    BY <1>4, <2>1, <2>2, <1>c, ZenonT(60) DEF drain
<1>5. CASE reconcile_history
  <2>1. closing_all' \in BOOLEAN
    BY <1>5, Zenon DEF reconcile_history
  <2>2. history' \in 0..MaxHistories
    BY <1>5, <1>0, ConnectionAssumptions DEF reconcile_history, ConnTypeOK
  <2>3. ConnTypeOK'
    BY <1>5, <1>0, <2>1, <2>2 DEF reconcile_history, ConnTypeOK
  <2>4. HandleKnown' /\ OneLive' /\ NoneStranded' /\ DrainedStaysEmpty'
    BY <1>5 DEF reconcile_history, RegistryInv, HandleKnown, OneLive, NoneStranded,
                DrainedStaysEmpty
  <2>5. JudgedOrClosed'
    BY <1>5 DEF reconcile_history, JudgedOrClosed
  <2>6. QED
    BY <2>3, <2>4, <2>5 DEF RegistryInv
<1>6. CASE shutdown
  <2>1. shutting_down' \in BOOLEAN
    BY <1>6, Zenon DEF shutdown
  <2>2. ConnTypeOK'
    BY <1>6, <1>0, <2>1 DEF shutdown, ConnTypeOK
  <2>3. HandleKnown' /\ OneLive' /\ NoneStranded' /\ DrainedStaysEmpty' /\ JudgedOrClosed'
    BY <1>6 DEF shutdown, RegistryInv, HandleKnown, OneLive, NoneStranded,
                DrainedStaysEmpty, JudgedOrClosed
  <2>4. QED
    BY <2>2, <2>3 DEF RegistryInv
<1>7. QED
  BY <1>1, <1>2, <1>3, <1>4, <1>5, <1>6

\* The inductive invariant holds of every behaviour.
LEMMA RegistryInvariant == ConnSpec => []RegistryInv
<1>1. ConnInit => RegistryInv
  <2> SUFFICES ASSUME ConnInit PROVE RegistryInv
    OBVIOUS
  <2>1. ConnTypeOK
    BY TypedInit
  <2>2. \A c \in Conns : conn[c].stage = "idle"
    BY DEF ConnInit, Idle
  <2>3. "idle" \notin Registered /\ "idle" \notin Teardown /\ "idle" # "ready"
    BY DEF Registered, Loop, Teardown
  <2>4. HandleKnown /\ OneLive /\ JudgedOrClosed
    BY <2>2, <2>3 DEF HandleKnown, OneLive, JudgedOrClosed, ConnInit
  <2>5. NoneStranded /\ DrainedStaysEmpty
    BY DEF NoneStranded, DrainedStaysEmpty, ConnInit
  <2>6. QED
    BY <2>1, <2>4, <2>5 DEF RegistryInv
<1>2. RegistryInv /\ [ConnNext]_connVars => RegistryInv'
  <2> SUFFICES ASSUME RegistryInv, [ConnNext]_connVars PROVE RegistryInv'
    OBVIOUS
  <2>1. CASE UNCHANGED connVars
    <3>1. ConnTypeOK' /\ HandleKnown' /\ OneLive'
      BY <2>1 DEF connVars, RegistryInv, ConnTypeOK, HandleKnown, OneLive
    <3>2. NoneStranded' /\ DrainedStaysEmpty' /\ JudgedOrClosed'
      BY <2>1 DEF connVars, RegistryInv, NoneStranded, DrainedStaysEmpty, JudgedOrClosed
    <3>3. QED
      BY <3>1, <3>2 DEF RegistryInv
  <2>2. CASE ConnNext
    BY <2>2, TaskStep, OutsideStep DEF ConnNext
  <2>3. QED
    BY <2>1, <2>2
<1>3. QED
  BY <1>1, <1>2, PTL DEF ConnSpec

\* One live connection per handle, for every number of connections and handles
\* and every way to close them (register_connection, unregister_connection).
THEOREM OneLivePerHandle == ConnSpec => []OneLive
<1>1. RegistryInv => OneLive
  BY DEF RegistryInv
<1>2. QED
  BY <1>1, RegistryInvariant, PTL

\* What the registry leads to still has its teardown before it (run_session).
THEOREM RegistryHasNoGhosts == ConnSpec => []NoneStranded
<1>1. RegistryInv => NoneStranded
  BY DEF RegistryInv
<1>2. QED
  BY <1>1, RegistryInvariant, PTL

\* No handshake registers into the drained registry (shutdown).
THEOREM ShutdownIsFinal == ConnSpec => []DrainedStaysEmpty
<1>1. RegistryInv => DrainedStaysEmpty
  BY DEF RegistryInv
<1>2. QED
  BY <1>1, RegistryInvariant, PTL

\* A cursor is judged by the history in force or its connection is told to leave
\* (run_handshake, reconcile_history).
THEOREM CursorsJudged == ConnSpec => []JudgedOrClosed
<1>1. RegistryInv => JudgedOrClosed
  BY DEF RegistryInv
<1>2. QED
  BY <1>1, RegistryInvariant, PTL
===============================================================================
