------------------------------ MODULE RelayProofs ------------------------------
(***************************************************************************)
(* A write of a page lands at most once, proved for any number of pages,   *)
(* rows, writes, resends, reaped tabs and replaced workers.                *)
(*                                                                         *)
(* LandsOnce is not inductive.  Why a replay cannot land again is that the *)
(* tab's watermark is the durable one from its handshake on (TabsMarked),  *)
(* and that no landed write is above the durable one (LandedMarked).       *)
(***************************************************************************)
EXTENDS Relay, TLAPS

Entries == [seq : Nat, change : Changes]
UpFrames == [t : {"handshake", "ack_credits"}]
            \cup [t : {"subscribe"}, sub : Subs]
            \cup [t : {"mutation"}, seq : Nat, change : Changes]
Answers == {"nothing", "applied", "refused"}
Landings == [tier : Subs, seq : Nat]

\* The frames on their way to the hub carry the numbers of the pages' queues.
FramesTyped ==
    /\ scn \in ScenarioType
    /\ up \in [Pages -> Seq(UpFrames)]
    /\ queue \in [Pages -> Seq(Entries)]
    /\ told \in [Pages -> Seq(Answers)]

Shaped(t) == {"stage", "applied", "local"} \subseteq DOMAIN t
TabsShaped == /\ tab = [p \in Pages |-> tab[p]]
              /\ \A p \in Pages : Shaped(tab[p])

MarksTyped ==
    /\ applied_watermark \in [Pages -> Nat]
    /\ local_watermark \in [Pages -> Nat]
    /\ landed \in [Pages -> Seq(Landings)]

\* A tab that has shaken hands holds the durable watermarks.
TabsMarked ==
    \A p \in Pages : tab[p].stage = "handshaken" =>
        tab[p].applied = applied_watermark[p] /\ tab[p].local = local_watermark[p]

\* A landed write is at or below the watermark of its tier.
LandedMarked ==
    \A p \in Pages : \A i \in DOMAIN landed[p] :
        /\ landed[p][i].tier = "main" => landed[p][i].seq <= applied_watermark[p]
        /\ landed[p][i].tier = "local" => landed[p][i].seq <= local_watermark[p]

\* A sequence without repetition.
Distinct(s) == \A i, j \in DOMAIN s : s[i] = s[j] => i = j

MarksInv == TabsShaped /\ MarksTyped /\ TabsMarked /\ LandedMarked /\ LandsOnce

-------------------------------------------------------------------------------
\* Changing one field of a tab leaves the others.
LEMMA OneField ==
    ASSUME NEW t, NEW f, NEW e, NEW g, g \in DOMAIN t, g # f
    PROVE  /\ [t EXCEPT ![f] = e][g] = t[g]
           /\ DOMAIN [t EXCEPT ![f] = e] = DOMAIN t
  OBVIOUS

\* What enqueue_tab_frame and flush_tab_bulk do to a tab leaves its watermarks.
LEMMA QueueingKeepsMarks ==
    ASSUME NEW t, NEW items, Shaped(t)
    PROVE  /\ Shaped(enqueue_tab_frame(t, items))
           /\ enqueue_tab_frame(t, items).stage = t.stage
           /\ enqueue_tab_frame(t, items).applied = t.applied
           /\ enqueue_tab_frame(t, items).local = t.local
  <1> DEFINE q == SubSeq(t.pending \o items, affordable(t, items) + 1, Len(t.pending \o items))
             u == [t EXCEPT !.pending = q]
             c == u.credits - charge(flushes(t, items))
  <1>1. enqueue_tab_frame(t, items) = [u EXCEPT !.credits = c]
    BY DEF enqueue_tab_frame
  <1>2. DOMAIN u = DOMAIN t /\ u.stage = t.stage /\ u.applied = t.applied /\ u.local = t.local
    BY DEF Shaped
  <1> HIDE DEF u, c
  <1> QED  BY <1>1, <1>2 DEF Shaped

\* FanOut leaves the watermarks of the tabs it starts from.
LEMMA FanOutKeepsMarks ==
    ASSUME NEW tabs, NEW to, NEW straight, NEW items,
           \A p \in Pages : Shaped(tabs[p]), FanOut(tabs, to, straight, items)
    PROVE  /\ tab' = [p \in Pages |-> tab'[p]]
           /\ \A p \in Pages : /\ Shaped(tab'[p])
                               /\ tab'[p].stage = tabs[p].stage
                               /\ tab'[p].applied = tabs[p].applied
                               /\ tab'[p].local = tabs[p].local
  <1>1. tab' = [p \in Pages |-> IF p \in to THEN enqueue_tab_frame(tabs[p], items) ELSE tabs[p]]
    BY DEF FanOut
  <1>2. tab' = [p \in Pages |-> tab'[p]]
    BY <1>1
  <1>3. ASSUME NEW p \in Pages
        PROVE  /\ Shaped(tab'[p])
               /\ tab'[p].stage = tabs[p].stage
               /\ tab'[p].applied = tabs[p].applied
               /\ tab'[p].local = tabs[p].local
    <2>1. CASE p \in to
      <3>1. tab'[p] = enqueue_tab_frame(tabs[p], items)
        BY <1>1, <2>1
      <3> QED  BY <3>1, QueueingKeepsMarks
    <2>2. CASE p \notin to
      <3>1. tab'[p] = tabs[p]
        BY <1>1, <2>2
      <3> QED  BY <3>1
    <2> QED  BY <2>1, <2>2
  <1> QED  BY <1>2, <1>3

\* A step that lands nothing keeps MarksInv when each tab it leaves shaken hands
\* with holds the durable watermarks.
LEMMA NothingLands ==
    ASSUME MarksInv, UNCHANGED <<applied_watermark, local_watermark, landed>>, TabsShaped',
           \A p \in Pages : tab'[p].stage = "handshaken" =>
               tab'[p].applied = applied_watermark[p] /\ tab'[p].local = local_watermark[p]
    PROVE  MarksInv'
  <1>1. MarksTyped' /\ LandedMarked' /\ LandsOnce'
    BY DEF MarksInv, MarksTyped, LandedMarked, LandsOnce
  <1>2. TabsMarked'
    BY DEF TabsMarked
  <1> QED  BY <1>1, <1>2 DEF MarksInv

\* A number added to a sequence that does not hold it keeps it free of repetition.
LEMMA AppendNew ==
    ASSUME NEW S, NEW s \in Seq(S), NEW x \in S, Distinct(s), \A i \in DOMAIN s : s[i] # x
    PROVE  Distinct(Append(s, x))
  <1>1. DOMAIN Append(s, x) = 1..(Len(s) + 1) /\ DOMAIN s = 1..Len(s) /\ Len(s) \in Nat
    OBVIOUS
  <1>2. \A i \in 1..(Len(s) + 1) : Append(s, x)[i] = IF i <= Len(s) THEN s[i] ELSE x
    OBVIOUS
  <1>3. SUFFICES ASSUME NEW a \in 1..(Len(s) + 1), NEW b \in 1..(Len(s) + 1),
                        Append(s, x)[a] = Append(s, x)[b]
                 PROVE  a = b
    BY <1>1 DEF Distinct
  <1>4. CASE a <= Len(s) /\ b <= Len(s)
    <2>1. a \in DOMAIN s /\ b \in DOMAIN s /\ s[a] = s[b]
      BY <1>1, <1>2, <1>3, <1>4
    <2> QED  BY <2>1 DEF Distinct
  <1>5. CASE a <= Len(s) /\ ~(b <= Len(s))
    <2>1. a \in DOMAIN s /\ s[a] = x
      BY <1>1, <1>2, <1>3, <1>5
    <2> QED  BY <2>1
  <1>6. CASE ~(a <= Len(s)) /\ b <= Len(s)
    <2>1. b \in DOMAIN s /\ s[b] = x
      BY <1>1, <1>2, <1>3, <1>6
    <2> QED  BY <2>1
  <1>7. CASE ~(a <= Len(s)) /\ ~(b <= Len(s))
    BY <1>1, <1>7
  <1> QED  BY <1>4, <1>5, <1>6, <1>7

\* The frame a tab's mutation is served from carries a number.
LEMMA MutationNumbered ==
    ASSUME FramesTyped, NEW p \in Pages, Mutating(p)
    PROVE  Head(up[p]).seq \in Nat
  <1>1. up[p] \in Seq(UpFrames) /\ up[p] # << >> /\ Head(up[p]).t = "mutation"
    BY DEF FramesTyped, Mutating, Serving
  <1>2. Head(up[p]) \in UpFrames
    BY <1>1
  <1> QED  BY <1>1, <1>2 DEF UpFrames

\* A synced mutation that is not a replay lands above every landed one.
LEMMA SyncedLands ==
    ASSUME FramesTyped, MarksInv, NEW p \in Pages, handle_synced_mutation(p)
    PROVE  MarksInv'
  <1> DEFINE n == Head(up[p]).seq
             x == [tier |-> "main", seq |-> n]
  <1>1. n \in Nat
    BY MutationNumbered DEF handle_synced_mutation
  <1>2. /\ tab[p].stage = "handshaken" /\ ~(n <= tab[p].applied)
        /\ applied_watermark' = [applied_watermark EXCEPT ![p] = higher(@, n)]
        /\ tab' = [tab EXCEPT ![p].applied = n]
        /\ landed' = [landed EXCEPT ![p] = Append(@, x)]
        /\ local_watermark' = local_watermark
    BY DEF handle_synced_mutation, Mutating, replayed
  <1> HIDE DEF n
  <1>3. applied_watermark[p] \in Nat /\ ~(n <= applied_watermark[p])
    BY <1>1, <1>2 DEF MarksInv, MarksTyped, TabsMarked
  <1>4. applied_watermark'[p] = n /\ applied_watermark' \in [Pages -> Nat]
    BY <1>1, <1>2, <1>3 DEF higher, MarksInv, MarksTyped
  <1>5. \A q \in Pages : q # p => /\ applied_watermark'[q] = applied_watermark[q]
                                  /\ landed'[q] = landed[q] /\ tab'[q] = tab[q]
    BY <1>2 DEF MarksInv, MarksTyped, TabsShaped
  <1>6. landed[p] \in Seq(Landings) /\ x \in Landings /\ landed'[p] = Append(landed[p], x)
    BY <1>1, <1>2 DEF MarksInv, MarksTyped, Landings, Subs
  <1>7. MarksTyped'
    <2>1. landed' \in [Pages -> Seq(Landings)]
      BY <1>2, <1>6 DEF MarksInv, MarksTyped
    <2> QED  BY <1>2, <1>4, <2>1 DEF MarksInv, MarksTyped
  <1>8. \A i \in DOMAIN landed[p] : /\ landed[p][i] # x
                                    /\ landed[p][i].tier = "main" => landed[p][i].seq <= n
    <2> SUFFICES ASSUME NEW i \in DOMAIN landed[p]
                 PROVE  /\ landed[p][i] # x
                        /\ landed[p][i].tier = "main" => landed[p][i].seq <= n
      OBVIOUS
    <2>1. landed[p][i] \in Landings
      BY <1>6
    <2>2. landed[p][i].tier = "main" => landed[p][i].seq <= applied_watermark[p]
      BY DEF MarksInv, LandedMarked
    <2> QED  BY <1>1, <1>3, <2>1, <2>2 DEF Landings
  <1>9. LandsOnce'
    <2> SUFFICES ASSUME NEW q \in Pages
                 PROVE  Distinct(landed'[q])
      BY DEF LandsOnce, Distinct
    <2>1. Distinct(landed[q])
      BY DEF MarksInv, LandsOnce, Distinct
    <2>2. CASE q = p
      BY <1>6, <1>8, <2>1, <2>2, AppendNew, Zenon
    <2>3. CASE q # p
      BY <1>5, <2>1, <2>3, SMTT(60)
    <2> QED  BY <2>2, <2>3
  <1>10. LandedMarked'
    <2> SUFFICES ASSUME NEW q \in Pages, NEW i \in DOMAIN landed'[q]
                 PROVE  /\ landed'[q][i].tier = "main" =>
                               landed'[q][i].seq <= applied_watermark'[q]
                        /\ landed'[q][i].tier = "local" =>
                               landed'[q][i].seq <= local_watermark'[q]
      BY DEF LandedMarked
    <2>1. CASE q # p
      BY <1>2, <1>5, <2>1, SMTT(60) DEF MarksInv, LandedMarked
    <2>2. CASE q = p /\ i \in DOMAIN landed[p]
      <3>1. landed'[p][i] = landed[p][i]
        BY <1>6, <2>2
      <3> QED  BY <1>2, <1>4, <1>8, <2>2, <3>1 DEF MarksInv, LandedMarked
    <2>3. CASE q = p /\ i \notin DOMAIN landed[p]
      <3>1. landed'[p][i] = x
        BY <1>6, <2>3
      <3> QED  BY <1>1, <1>4, <2>3, <3>1
    <2> QED  BY <2>1, <2>2, <2>3
  <1>11. /\ tab'[p].applied = n /\ tab'[p].local = tab[p].local /\ Shaped(tab'[p])
         /\ tab' = [q \in Pages |-> tab'[q]]
    <2>1. Shaped(tab[p]) /\ p \in DOMAIN tab /\ DOMAIN tab = Pages
      BY DEF MarksInv, TabsShaped
    <2>2. tab'[p] = [tab[p] EXCEPT !.applied = n]
      BY <1>2, <2>1
    <2>3. tab' = [q \in Pages |-> tab'[q]]
      BY <1>2, <2>1, Zenon
    <2> QED  BY <2>1, <2>2, <2>3 DEF Shaped
  <1>12. TabsShaped'
    BY <1>5, <1>11 DEF MarksInv, TabsShaped
  <1>13. TabsMarked'
    BY <1>2, <1>4, <1>5, <1>11, SMTT(60) DEF MarksInv, TabsMarked
  <1> QED  BY <1>7, <1>9, <1>10, <1>12, <1>13, SMTT(60) DEF MarksInv

\* So does one of the device's own tier, whose fan-out leaves the watermarks alone.
LEMMA LocalLands ==
    ASSUME FramesTyped, MarksInv, NEW p \in Pages, handle_local_mutation(p)
    PROVE  MarksInv'
  <1> DEFINE n == Head(up[p]).seq
             x == [tier |-> "local", seq |-> n]
             tabs == [tab EXCEPT ![p].local = n]
  <1>1. n \in Nat
    BY MutationNumbered DEF handle_local_mutation
  <1>2. /\ tab[p].stage = "handshaken" /\ ~(n <= tab[p].local)
        /\ local_watermark' = [local_watermark EXCEPT ![p] = higher(@, n)]
        /\ \E straight, items : FanOut(tabs, readers("local"), straight, items)
        /\ landed' = [landed EXCEPT ![p] = Append(@, x)]
        /\ applied_watermark' = applied_watermark
    BY DEF handle_local_mutation, Mutating, replayed
  <1> HIDE DEF n
  <1>3. local_watermark[p] \in Nat /\ ~(n <= local_watermark[p])
    BY <1>1, <1>2 DEF MarksInv, MarksTyped, TabsMarked
  <1>4. local_watermark'[p] = n /\ local_watermark' \in [Pages -> Nat]
    BY <1>1, <1>2, <1>3 DEF higher, MarksInv, MarksTyped
  <1>5. \A q \in Pages : q # p => /\ local_watermark'[q] = local_watermark[q]
                                  /\ landed'[q] = landed[q]
    BY <1>2 DEF MarksInv, MarksTyped, TabsShaped
  <1>6. landed[p] \in Seq(Landings) /\ x \in Landings /\ landed'[p] = Append(landed[p], x)
    BY <1>1, <1>2 DEF MarksInv, MarksTyped, Landings, Subs
  <1>7. MarksTyped'
    <2>1. landed' \in [Pages -> Seq(Landings)]
      BY <1>2, <1>6 DEF MarksInv, MarksTyped
    <2> QED  BY <1>2, <1>4, <2>1 DEF MarksInv, MarksTyped
  <1>8. \A i \in DOMAIN landed[p] : /\ landed[p][i] # x
                                    /\ landed[p][i].tier = "local" => landed[p][i].seq <= n
    <2> SUFFICES ASSUME NEW i \in DOMAIN landed[p]
                 PROVE  /\ landed[p][i] # x
                        /\ landed[p][i].tier = "local" => landed[p][i].seq <= n
      OBVIOUS
    <2>1. landed[p][i] \in Landings
      BY <1>6
    <2>2. landed[p][i].tier = "local" => landed[p][i].seq <= local_watermark[p]
      BY DEF MarksInv, LandedMarked
    <2> QED  BY <1>1, <1>3, <2>1, <2>2 DEF Landings
  <1>9. LandsOnce'
    <2> SUFFICES ASSUME NEW q \in Pages
                 PROVE  Distinct(landed'[q])
      BY DEF LandsOnce, Distinct
    <2>1. Distinct(landed[q])
      BY DEF MarksInv, LandsOnce, Distinct
    <2>2. CASE q = p
      BY <1>6, <1>8, <2>1, <2>2, AppendNew, Zenon
    <2>3. CASE q # p
      BY <1>5, <2>1, <2>3, SMTT(60)
    <2> QED  BY <2>2, <2>3
  <1>10. LandedMarked'
    <2> SUFFICES ASSUME NEW q \in Pages, NEW i \in DOMAIN landed'[q]
                 PROVE  /\ landed'[q][i].tier = "local" =>
                               landed'[q][i].seq <= local_watermark'[q]
                        /\ landed'[q][i].tier = "main" =>
                               landed'[q][i].seq <= applied_watermark'[q]
      BY DEF LandedMarked
    <2>1. CASE q # p
      BY <1>2, <1>5, <2>1, SMTT(60) DEF MarksInv, LandedMarked
    <2>2. CASE q = p /\ i \in DOMAIN landed[p]
      <3>1. landed'[p][i] = landed[p][i]
        BY <1>6, <2>2
      <3> QED  BY <1>2, <1>4, <1>8, <2>2, <3>1, SMTT(60) DEF MarksInv, LandedMarked
    <2>3. CASE q = p /\ i \notin DOMAIN landed[p]
      <3>1. landed'[p][i] = x
        BY <1>6, <2>3
      <3> QED  BY <1>1, <1>4, <2>3, <3>1
    <2> QED  BY <2>1, <2>2, <2>3, SMTT(60)
  <1>11. /\ \A q \in Pages : Shaped(tabs[q]) /\ tabs[q].stage = tab[q].stage
                             /\ tabs[q].applied = tab[q].applied
         /\ tabs[p].local = n /\ \A q \in Pages : q # p => tabs[q].local = tab[q].local
    <2>1. p \in DOMAIN tab /\ DOMAIN tab = Pages /\ \A q \in Pages : Shaped(tab[q])
      BY DEF MarksInv, TabsShaped
    <2>2. tabs[p] = [tab[p] EXCEPT !.local = n] /\ \A q \in Pages : q # p => tabs[q] = tab[q]
      BY <2>1
    <2>3. /\ Shaped(tabs[p]) /\ tabs[p].stage = tab[p].stage /\ tabs[p].applied = tab[p].applied
          /\ tabs[p].local = n
      BY <2>1, <2>2 DEF Shaped
    <2> HIDE DEF tabs
    <2> QED  BY <2>1, <2>2, <2>3, Zenon
  <1> HIDE DEF tabs
  <1>12. PICK straight, items : FanOut(tabs, readers("local"), straight, items)
    BY <1>2
  <1>13. /\ tab' = [q \in Pages |-> tab'[q]]
         /\ \A q \in Pages : /\ Shaped(tab'[q]) /\ tab'[q].stage = tabs[q].stage
                             /\ tab'[q].applied = tabs[q].applied
                             /\ tab'[q].local = tabs[q].local
    BY <1>11, <1>12, FanOutKeepsMarks
  <1>14. TabsShaped'
    BY <1>13, SMTT(60) DEF TabsShaped
  <1>15. TabsMarked'
    <2> SUFFICES ASSUME NEW q \in Pages, tab'[q].stage = "handshaken"
                 PROVE  /\ tab'[q].applied = applied_watermark'[q]
                        /\ tab'[q].local = local_watermark'[q]
      BY DEF TabsMarked
    <2>1. /\ tab[q].stage = "handshaken" /\ tab'[q].applied = tab[q].applied
          /\ tab'[q].local = IF q = p THEN n ELSE tab[q].local
      BY <1>11, <1>13
    <2>2. tab[q].applied = applied_watermark[q] /\ tab[q].local = local_watermark[q]
      BY <2>1 DEF MarksInv, TabsMarked
    <2> QED  BY <1>2, <1>4, <1>5, <2>1, <2>2
  <1> QED  BY <1>7, <1>9, <1>10, <1>14, <1>15 DEF MarksInv

-------------------------------------------------------------------------------
\* Taking a tab's next frame leaves frames.
LEMMA ServingKeepsFrames ==
    ASSUME FramesTyped, NEW p \in Pages, NEW kind, Serving(p, kind),
           UNCHANGED <<scn, queue, told>>
    PROVE  FramesTyped'
  <1>1. up' = [up EXCEPT ![p] = Tail(@)] /\ up[p] # << >> /\ up[p] \in Seq(UpFrames)
    BY DEF Serving, FramesTyped
  <1>2. Tail(up[p]) \in Seq(UpFrames)
    BY <1>1
  <1> QED  BY <1>1, <1>2 DEF FramesTyped

\* A write is queued, and sent, under the next number.
LEMMA WriteKeepsFrames ==
    ASSUME FramesTyped, NEW p \in Pages, NEW c \in scn.may[p], write(p, c)
    PROVE  FramesTyped'
  <1> DEFINE e == [seq |-> Len(told[p]) + 1, change |-> c]
  <1>1. c \in Changes
    BY DEF FramesTyped, ScenarioType
  <1>2. told[p] \in Seq(Answers) /\ e \in Entries
    BY <1>1 DEF FramesTyped, Entries
  <1>3. Mutation(e) \in UpFrames
    BY <1>2, SMTT(60) DEF Mutation, Entries, UpFrames
  <1>4. /\ queue' = [queue EXCEPT ![p] = Append(@, e)]
        /\ up' = IF wire[p] = "attached" THEN [up EXCEPT ![p] = Append(@, Mutation(e))] ELSE up
        /\ told' = [told EXCEPT ![p] = Append(@, "nothing")]
        /\ scn' = scn
    BY SMTT(60) DEF write
  <1> HIDE DEF e
  <1>5. queue' \in [Pages -> Seq(Entries)]
    BY <1>2, <1>4, SMTT(60) DEF FramesTyped
  <1>6. up' \in [Pages -> Seq(UpFrames)]
    BY <1>3, <1>4, SMTT(60) DEF FramesTyped
  <1>7. told' \in [Pages -> Seq(Answers)]
    BY <1>4 DEF FramesTyped, Answers
  <1> QED  BY <1>4, <1>5, <1>6, <1>7 DEF FramesTyped

\* An attaching page resends its queue and subscribes.
LEMMA AttachKeepsFrames ==
    ASSUME FramesTyped, NEW p \in Pages, attach(p)
    PROVE  FramesTyped'
  <1> DEFINE resent == [i \in DOMAIN queue[p] |-> Mutation(queue[p][i])]
             subs == <<Subscribe("main"), Subscribe("local")>>
  <1>1. up' = [up EXCEPT ![p] = @ \o resent \o subs] /\ UNCHANGED <<scn, queue, told>>
    BY DEF attach, pageVars
  <1>2. queue[p] \in Seq(Entries) /\ up[p] \in Seq(UpFrames)
    BY DEF FramesTyped
  <1>3. resent \in Seq(UpFrames)
    <2>1. DOMAIN queue[p] = 1..Len(queue[p]) /\ Len(queue[p]) \in Nat
      BY <1>2
    <2>2. ASSUME NEW i \in DOMAIN queue[p]
          PROVE  Mutation(queue[p][i]) \in UpFrames
      <3>1. queue[p][i] \in Entries
        BY <1>2
      <3> QED  BY <3>1 DEF Mutation, Entries, UpFrames
    <2>3. resent \in [1..Len(queue[p]) -> UpFrames]
      BY <2>1, <2>2
    <2> HIDE DEF resent
    <2> QED  BY <2>1, <2>3
  <1>4. subs \in Seq(UpFrames)
    BY DEF Subscribe, UpFrames, Subs
  <1> HIDE DEF resent, subs
  <1>5. up[p] \o resent \o subs \in Seq(UpFrames)
    <2>1. up[p] \o resent \in Seq(UpFrames)
      BY <1>2, <1>3
    <2> QED  BY <1>4, <2>1
  <1> QED  BY <1>1, <1>5 DEF FramesTyped

\* A verdict takes a write off the queue and notes it.
LEMMA VerdictKeepsFrames ==
    ASSUME FramesTyped, NEW p \in Pages, verdict(p)
    PROVE  FramesTyped'
  <1>1. up' = up /\ scn' = scn
    BY DEF verdict
  <1>2. CASE UNCHANGED <<queue, told>>
    BY <1>1, <1>2 DEF FramesTyped
  <1>3. ASSUME NEW kind \in {"applied", "refused"}, NEW i \in DOMAIN queue[p],
               queue' = [queue EXCEPT ![p] = SubSeq(@, 1, i - 1) \o SubSeq(@, i + 1, Len(@))],
               told' = [told EXCEPT ![p] = [@ EXCEPT ![queue[p][i].seq] = kind]]
        PROVE  FramesTyped'
    <2>1. queue[p] \in Seq(Entries) /\ told[p] \in Seq(Answers)
      BY DEF FramesTyped
    <2>2. SubSeq(queue[p], 1, i - 1) \o SubSeq(queue[p], i + 1, Len(queue[p])) \in Seq(Entries)
      BY <2>1
    <2>3. [told[p] EXCEPT ![queue[p][i].seq] = kind] \in Seq(Answers)
      <3>1. told[p] \in [1..Len(told[p]) -> Answers] /\ Len(told[p]) \in Nat
        BY <2>1
      <3>2. [told[p] EXCEPT ![queue[p][i].seq] = kind] \in [1..Len(told[p]) -> Answers]
        BY <3>1, ZenonT(60) DEF Answers
      <3> QED  BY <3>1, <3>2
    <2> QED  BY <1>1, <1>3, <2>2, <2>3, SMTT(60) DEF FramesTyped
  <1> QED  BY <1>2, <1>3, ZenonT(60) DEF verdict

\* No step sends the hub a frame without its number.
LEMMA FramesStep == FramesTyped /\ [RelayNext]_relayVars => FramesTyped'
  <1> SUFFICES ASSUME FramesTyped, [RelayNext]_relayVars
               PROVE  FramesTyped'
    OBVIOUS
  <1>1. CASE UNCHANGED <<scn, up, queue, told>>
    BY <1>1 DEF FramesTyped
  <1>2. CASE UNCHANGED relayVars
    BY <1>1, <1>2 DEF relayVars, wireVars, pageVars
  <1>3. ASSUME NEW p \in Pages, HubServes(p)
        PROVE  FramesTyped'
    <2>1. UNCHANGED <<scn, queue, told>> /\ \E kind : Serving(p, kind)
      BY <1>3, ZenonT(60) DEF HubServes, handshake, handle_tab_subscribe, ack_credits, answered_by_hub,
         Answered, handle_local_mutation, handle_synced_mutation, Mutating, pageVars
    <2> QED  BY <2>1, ServingKeepsFrames
  <1>4. ASSUME NEW p \in Pages, open(p)
        PROVE  FramesTyped'
    <2>1. <<[t |-> "handshake"]>> \in Seq(UpFrames)
      BY DEF UpFrames
    <2> QED  BY <1>4, <2>1 DEF open, FramesTyped
  <1>5. ASSUME NEW p \in Pages, remove_tab(p)
        PROVE  FramesTyped'
    BY <1>5 DEF remove_tab, FramesTyped, pageVars
  <1>6. ASSUME NEW p \in Pages, apply_patch(p)
        PROVE  FramesTyped'
    <2>1. [t |-> "ack_credits"] \in UpFrames
      BY SMTT(60) DEF UpFrames
    <2>2. up' = [up EXCEPT ![p] = Append(@, [t |-> "ack_credits"])] /\ UNCHANGED <<scn, queue, told>>
      BY <1>6, SMTT(60) DEF apply_patch
    <2> QED  BY <2>1, <2>2 DEF FramesTyped
  <1>7. ASSUME NEW p \in Pages, full_resync(p) \/ snapshot_end(p)
        PROVE  FramesTyped'
    BY <1>1, <1>7 DEF full_resync, snapshot_end
  <1>8. ASSUME NEW p \in Pages, PageHears(p)
        PROVE  FramesTyped'
    BY <1>6, <1>7, <1>8, AttachKeepsFrames, VerdictKeepsFrames, ZenonT(60) DEF PageHears
  <1>9. CASE push \/ settle \/ live_patch \/ server_verdict \/ outage \/ reconnect \/ resynced
    BY <1>1, <1>9 DEF push, settle, live_patch, server_verdict, outage, reconnect, resynced,
       pageVars, wireVars
  <1>10. CASE \E c \in scn.foreign : foreign_commit(c)
    BY <1>1, <1>10 DEF foreign_commit, pageVars, wireVars
  <1>11. CASE worker_dies
    BY <1>11 DEF worker_dies, FramesTyped, pageVars
  <1>12. scn.pages \subseteq Pages
    BY SMTT(60) DEF FramesTyped, ScenarioType
  <1> QED  BY <1>2, <1>3, <1>4, <1>5, <1>8, <1>9, <1>10, <1>11, <1>12, WriteKeepsFrames
           DEF RelayNext

\* No step leaves a tab with a watermark of its own, or lands a replay.
LEMMA MarksStep == FramesTyped /\ MarksInv /\ [RelayNext]_relayVars => MarksInv'
  <1> SUFFICES ASSUME FramesTyped, MarksInv, [RelayNext]_relayVars
               PROVE  MarksInv'
    BY SMTT(60)
  <1> DEFINE Kept == UNCHANGED <<applied_watermark, local_watermark, landed>>
  <1>1. ASSUME Kept, tab' = tab
        PROVE  MarksInv'
    <2>1. TabsShaped' /\ TabsMarked
      BY <1>1, SMTT(60) DEF MarksInv, TabsShaped
    <2> QED  BY <1>1, <2>1, NothingLands DEF TabsMarked
  <1>2. ASSUME Kept, NEW to, NEW straight, NEW items, FanOut(tab, to, straight, items)
        PROVE  MarksInv'
    <2>1. /\ TabsShaped'
          /\ \A p \in Pages : /\ tab'[p].stage = tab[p].stage
                              /\ tab'[p].applied = tab[p].applied
                              /\ tab'[p].local = tab[p].local
      BY <1>2, FanOutKeepsMarks DEF MarksInv, TabsShaped
    <2> QED  BY <1>2, <2>1, NothingLands, SMTT(60) DEF MarksInv, TabsMarked
  <1>3. ASSUME Kept, NEW p \in Pages, NEW t, tab' = [tab EXCEPT ![p] = t], Shaped(t),
               t.stage = "handshaken" =>
                   t.applied = applied_watermark[p] /\ t.local = local_watermark[p]
        PROVE  MarksInv'
    <2>1. DOMAIN tab = Pages /\ (\A q \in Pages : Shaped(tab[q])) /\ TabsMarked
      BY DEF MarksInv, TabsShaped
    <2>2. tab'[p] = t /\ \A q \in Pages : q # p => tab'[q] = tab[q]
      BY <1>3, <2>1
    <2>3. TabsShaped'
      <3>1. tab' = [q \in Pages |-> tab'[q]]
        BY <1>3, <2>1, Zenon
      <3> QED  BY <1>3, <2>1, <2>2, <3>1 DEF TabsShaped
    <2> QED  BY <1>3, <2>1, <2>2, <2>3, NothingLands DEF TabsMarked
  <1>4. ASSUME NEW p \in Pages, handshake(p)
        PROVE  MarksInv'
    <2> DEFINE a == applied_watermark[p]
               l == local_watermark[p]
               t1 == [tab[p] EXCEPT !.stage = "handshaken"]
               t2 == [t1 EXCEPT !.applied = a]
               t == [t2 EXCEPT !.local = l]
    <2>1. Kept /\ tab' = [tab EXCEPT ![p] = t]
      BY <1>4, Zenon DEF handshake, durableVars, history
    <2>2. Shaped(tab[p])
      BY DEF MarksInv, TabsShaped
    <2>3. Shaped(t1)
      BY <2>2 DEF Shaped
    <2> HIDE DEF t1, a, l
    <2>4. Shaped(t2) /\ t2.applied = a
      BY <2>3 DEF Shaped
    <2> HIDE DEF t2
    <2>5. Shaped(t) /\ t.applied = a /\ t.local = l
      BY <2>4 DEF Shaped
    <2> HIDE DEF t
    <2> QED  BY <1>3, <2>1, <2>5, ZenonT(30) DEF a, l
  <1>5. ASSUME NEW p \in Pages, handle_tab_subscribe(p)
        PROVE  MarksInv'
    <2> DEFINE sub == Head(up[p]).sub
               items == serve_snapshot(sub, replica \cup tier)
               joined == [tab[p] EXCEPT !.subs = @ \cup {sub}]
    <2>1. Kept /\ tab' = [tab EXCEPT ![p] = enqueue_tab_frame(joined, items)]
      BY <1>5 DEF handle_tab_subscribe, durableVars, history
    <2>2. Shaped(tab[p]) /\ (tab[p].stage = "handshaken" =>
             tab[p].applied = applied_watermark[p] /\ tab[p].local = local_watermark[p])
      BY DEF MarksInv, TabsShaped, TabsMarked
    <2>3. /\ Shaped(joined) /\ joined.stage = tab[p].stage
          /\ joined.applied = tab[p].applied /\ joined.local = tab[p].local
      BY <2>2 DEF Shaped
    <2> HIDE DEF joined, items
    <2> QED  BY <1>3, <2>1, <2>2, <2>3, QueueingKeepsMarks, ZenonT(60)
  <1>6. ASSUME NEW p \in Pages, ack_credits(p)
        PROVE  MarksInv'
    <2> DEFINE richer == [tab[p] EXCEPT !.credits = @ + 1]
    <2>1. Kept /\ tab' = [tab EXCEPT ![p] = enqueue_tab_frame(richer, << >>)]
      BY <1>6 DEF ack_credits, durableVars, history
    <2>2. Shaped(tab[p]) /\ (tab[p].stage = "handshaken" =>
             tab[p].applied = applied_watermark[p] /\ tab[p].local = local_watermark[p])
      BY DEF MarksInv, TabsShaped, TabsMarked
    <2>3. /\ Shaped(richer) /\ richer.stage = tab[p].stage
          /\ richer.applied = tab[p].applied /\ richer.local = tab[p].local
      BY <2>2 DEF Shaped
    <2> HIDE DEF richer
    <2> QED  BY <1>3, <2>1, <2>2, <2>3, QueueingKeepsMarks, ZenonT(60)
  <1>7. ASSUME NEW p \in Pages, answered_by_hub(p)
        PROVE  MarksInv'
    BY <1>1, <1>7 DEF answered_by_hub, Answered, hubVars, durableVars, history
  <1>8. ASSUME NEW p \in Pages, HubServes(p)
        PROVE  MarksInv'
    BY <1>4, <1>5, <1>6, <1>7, <1>8, SyncedLands, LocalLands DEF HubServes
  <1>9. ASSUME NEW p \in Pages, open(p)
        PROVE  MarksInv'
    <2>1. Kept /\ tab' = [tab EXCEPT ![p] = fresh_tab]
      BY <1>9 DEF open, durableVars
    <2>2. Shaped(fresh_tab) /\ fresh_tab.stage = "attached"
      BY DEF Shaped, fresh_tab, NoTab
    <2> QED  BY <1>3, <2>1, <2>2, ZenonT(60)
  <1>10. Shaped(NoTab) /\ NoTab.stage = "gone"
    BY DEF Shaped, NoTab
  <1>11. ASSUME NEW p \in Pages, remove_tab(p)
         PROVE  MarksInv'
    <2>1. Kept /\ tab' = [tab EXCEPT ![p] = NoTab]
      BY <1>11 DEF remove_tab, durableVars, history
    <2> QED  BY <1>3, <1>10, <2>1, ZenonT(30)
  <1>12. CASE worker_dies
    <2>1. Kept /\ tab' = [p \in Pages |-> NoTab]
      BY <1>12 DEF worker_dies, durableVars, history
    <2>2. \A p \in Pages : tab'[p] = NoTab
      BY <2>1
    <2>3. TabsShaped'
      BY <1>10, <2>1, <2>2 DEF TabsShaped
    <2> QED  BY <1>10, <2>1, <2>2, <2>3, NothingLands
  <1>13. ASSUME NEW p \in Pages, PageHears(p)
         PROVE  MarksInv'
    <2>1. Kept /\ tab' = tab
      BY <1>13, Zenon DEF PageHears, attach, apply_patch, full_resync, snapshot_end, verdict, hubVars,
         durableVars, history
    <2> QED  BY <1>1, <2>1
  <1>14. ASSUME NEW p \in Pages, NEW c, write(p, c)
         PROVE  MarksInv'
    BY <1>1, <1>14, Zenon DEF write, hubVars, durableVars, history
  <1>15. CASE push \/ settle \/ server_verdict \/ outage \/ reconnect
    <2>1. Kept /\ tab' = tab
      BY <1>15 DEF push, settle, server_verdict, outage, reconnect, hubVars, durableVars, history
    <2> QED  BY <1>1, <2>1, SMTT(60)
  <1>16. ASSUME NEW c, foreign_commit(c)
         PROVE  MarksInv'
    BY <1>1, <1>16 DEF foreign_commit, hubVars, durableVars, history
  <1>17. CASE live_patch
    <2>1. Kept /\ \E to, straight, items : FanOut(tab, to, straight, items)
      BY <1>17, Zenon DEF live_patch, durableVars, history
    <2> QED  BY <1>2, <2>1
  <1>18. CASE resynced
    <2>1. Kept
      BY <1>18 DEF resynced, durableVars
    <2>2. \E to, straight, items : FanOut(tab, to, straight, items)
      BY <1>18, Zenon DEF resynced
    <2> QED  BY <1>2, <2>1, <2>2
  <1>19. CASE UNCHANGED relayVars
    BY <1>1, <1>19 DEF relayVars, hubVars, durableVars, history
  <1>20. scn.pages \subseteq Pages
    BY DEF FramesTyped, ScenarioType
  <1> QED  BY <1>8, <1>9, <1>11, <1>12, <1>13, <1>14, <1>15, <1>16, <1>17, <1>18, <1>19, <1>20, SMTT(60)
           DEF RelayNext

\* The frames and the watermarks start right.
LEMMA MarksInit == RelayInit => FramesTyped /\ MarksInv
  <1> SUFFICES ASSUME RelayInit
               PROVE  FramesTyped /\ MarksInv
    OBVIOUS
  <1>1. FramesTyped
    <2>1. scn \in ScenarioType
      BY RelayAssumptions DEF RelayInit
    <2>2. << >> \in Seq(UpFrames) /\ << >> \in Seq(Entries) /\ << >> \in Seq(Answers)
      BY SMTT(60)
    <2> QED  BY <2>1, <2>2, ZenonT(60) DEF RelayInit, FramesTyped
  <1>2. MarksTyped /\ LandedMarked /\ LandsOnce
    BY DEF RelayInit, MarksTyped, LandedMarked, LandsOnce, Distinct
  <1>3. /\ Shaped(NoTab) /\ NoTab.stage = "gone" /\ Shaped(subscribed_tab)
        /\ subscribed_tab.applied = 0 /\ subscribed_tab.local = 0
    BY SMTT(60) DEF Shaped, NoTab, subscribed_tab, fresh_tab
  <1>4. /\ tab = [p \in Pages |-> IF p \in scn.started THEN subscribed_tab ELSE NoTab]
        /\ \A p \in Pages : applied_watermark[p] = 0 /\ local_watermark[p] = 0
    BY DEF RelayInit
  <1>5. \A p \in Pages : tab[p] = subscribed_tab \/ tab[p] = NoTab
    BY <1>4
  <1>6. TabsShaped /\ TabsMarked
    BY <1>3, <1>4, <1>5 DEF TabsShaped, TabsMarked
  <1> QED  BY <1>1, <1>2, <1>6 DEF MarksInv

\* The hub applies a page's write at most once (handle_local_mutation and
\* handle_synced_mutation behind the durable watermarks), however often the page
\* resends it and wherever the worker is replaced.
THEOREM WriteLandsOnce == RelaySpec => []LandsOnce
  <1>1. FramesTyped /\ MarksInv /\ [RelayNext]_relayVars => (FramesTyped /\ MarksInv)'
    BY FramesStep, MarksStep
  <1>2. MarksInv => LandsOnce
    BY DEF MarksInv
  <1> QED  BY <1>1, <1>2, MarksInit, PTL DEF RelaySpec
===============================================================================
