----------------------- MODULE RelaySuspensionProofs ------------------------
(***************************************************************************)
(* Proofs about what suspending relaying achieves: the counters count the   *)
(* suspensions, the channels of a task that sends requests stay suspended,  *)
(* adv_post is quiet behind a suspension and holds the single HTTP request  *)
(* only for a transmission of its own.                                      *)
(***************************************************************************)
EXTENDS RelayProofs, FiniteSetTheorems

\* The type of a task and of the stack of its suspensions.
LEMMA TaskFacts ==
  ASSUME TypeInv, NEW c \in Tasks
  PROVE  /\ task \in [Tasks -> TaskState] /\ task[c] \in TaskState
         /\ task[c].held \in Seq(SUBSET Channels) /\ Len(task[c].held) \in Nat
         /\ \A i \in 1..Len(task[c].held) : task[c].held[i] \in SUBSET Channels
         /\ task[c].held = <<>> <=> Len(task[c].held) = 0
         /\ cnt \in [Channels -> Nat]
<1>1. task \in [Tasks -> TaskState] /\ task[c] \in TaskState /\ cnt \in [Channels -> Nat]
  BY DEF TypeInv, TypeOK
<1>2. task[c].held \in Seq(SUBSET Channels)
  BY <1>1 DEF TaskState
<1> QED
  BY <1>1, <1>2, LenProperties, EmptySeq

\* What Suspend does to the task that suspends.
LEMMA SuspendFacts ==
  ASSUME TypeInv, NEW c \in Tasks, NEW chans \in SUBSET Channels, Suspend(c, chans)
  PROVE  LET notify == {ch \in Channels : ch \in chans /\ cnt[ch] = 0} IN
         /\ \A d \in Tasks : d # c => task'[d] = task[d]
         /\ Len(task'[c].held) = Len(task[c].held) + 1
         /\ \A i \in 1..Len(task[c].held) : task'[c].held[i] = task[c].held[i]
         /\ task'[c].held[Len(task[c].held) + 1] = chans
         /\ task'[c].held # <<>>
         /\ task'[c].notify = notify
         /\ task'[c].pc = IF notify = {} THEN "ready" ELSE "set"
         /\ \A ch \in Channels : cnt'[ch] = IF ch \in chans THEN cnt[ch] + 1 ELSE cnt[ch]
<1> DEFINE notify == {ch \in Channels : ch \in chans /\ cnt[ch] = 0}
           held == Append(task[c].held, chans)
           new == [task[c] EXCEPT !.held = held, !.notify = notify,
                                  !.pc = IF notify = {} THEN "ready" ELSE "set"]
<1>1. /\ task \in [Tasks -> TaskState] /\ task[c] \in TaskState
      /\ task[c].held \in Seq(SUBSET Channels)
  BY TaskFacts
<1>2. /\ Len(held) = Len(task[c].held) + 1
      /\ \A i \in 1..Len(task[c].held) : held[i] = task[c].held[i]
      /\ held[Len(task[c].held) + 1] = chans
      /\ held # <<>>
  BY <1>1, AppendProperties
<1>3. task' = [task EXCEPT ![c] = new]
  BY DEF Suspend
<1>4. cnt' = [ch \in Channels |-> IF ch \in chans THEN cnt[ch] + 1 ELSE cnt[ch]]
  BY Zenon DEF Suspend
<1> HIDE DEF notify, held
<1>5. /\ new.held = held /\ new.notify = notify
      /\ new.pc = IF notify = {} THEN "ready" ELSE "set"
  BY <1>1 DEF TaskState
<1> HIDE DEF new
<1>6. task'[c] = new /\ \A d \in Tasks : d # c => task'[d] = task[d]
  BY <1>1, <1>3
<1> QED
  BY <1>2, <1>4, <1>5, <1>6 DEF notify

\* What Resume does to the task that resumes.
LEMMA ResumeFacts ==
  ASSUME TypeInv, NEW c \in Tasks, task[c].held # <<>>, Resume(c)
  PROVE  LET n == Len(task[c].held)
             chans == task[c].held[n]
             notify == {ch \in Channels : ch \in chans /\ cnt[ch] = 1} IN
         /\ \A d \in Tasks : d # c => task'[d] = task[d]
         /\ n \in Nat \ {0}
         /\ Len(task'[c].held) = n - 1
         /\ \A i \in 1..n - 1 : task'[c].held[i] = task[c].held[i]
         /\ task'[c].held = <<>> <=> n = 1
         /\ task'[c].notify = notify
         /\ task'[c].pc = IF notify # {} THEN "set" ELSE IF n = 1 THEN "idle" ELSE "ready"
         /\ \A ch \in Channels : cnt'[ch] = IF ch \in chans /\ cnt[ch] > 0 THEN cnt[ch] - 1
                                                                         ELSE cnt[ch]
<1> DEFINE n == Len(task[c].held)
           chans == task[c].held[n]
           rest == SubSeq(task[c].held, 1, n - 1)
           notify == {ch \in Channels : ch \in chans /\ cnt[ch] = 1}
           new == [task[c] EXCEPT !.held = rest, !.notify = notify,
                                  !.pc = IF notify = {} THEN After(rest) ELSE "set"]
<1>1. /\ task \in [Tasks -> TaskState] /\ task[c] \in TaskState
      /\ task[c].held \in Seq(SUBSET Channels) /\ n \in Nat \ {0}
      /\ \A i \in 1..n : task[c].held[i] \in SUBSET Channels
  BY TaskFacts
<1>2. /\ rest \in Seq(SUBSET Channels) /\ Len(rest) = n - 1
      /\ \A i \in 1..n - 1 : rest[i] = task[c].held[i]
  <2>1. \A i \in 1..n - 1 : task[c].held[i] \in SUBSET Channels
    BY <1>1
  <2> HIDE DEF n
  <2>2. /\ rest \in Seq(SUBSET Channels)
        /\ Len(rest) = IF 1 <= n - 1 THEN n - 1 - 1 + 1 ELSE 0
        /\ \A i \in 1..n - 1 - 1 + 1 : rest[i] = task[c].held[1 + i - 1]
    BY <1>1, <2>1, SubSeqProperties
  <2> QED
    BY <1>1, <2>2
<1>3. rest = <<>> <=> n = 1
  <2> HIDE DEF rest, n
  <2>1. Len(<<>>) = 0 /\ (rest # <<>> => Len(rest) \in Nat \ {0})
    BY <1>2, EmptySeq
  <2> QED
    BY <1>1, <1>2, <2>1
<1>4. task' = [task EXCEPT ![c] = new]
  BY DEF Resume
<1>5. cnt' = [ch \in Channels |-> IF ch \in chans /\ cnt[ch] > 0 THEN cnt[ch] - 1 ELSE cnt[ch]]
  BY Zenon DEF Resume
<1> HIDE DEF notify, rest
<1>6. /\ new.held = rest /\ new.notify = notify
      /\ new.pc = IF notify = {} THEN After(rest) ELSE "set"
  BY <1>1 DEF TaskState
<1> HIDE DEF new, chans
<1>7. task'[c] = new /\ \A d \in Tasks : d # c => task'[d] = task[d]
  BY <1>1, <1>4
<1>8. /\ Len(task'[c].held) = n - 1
      /\ \A i \in 1..n - 1 : task'[c].held[i] = task[c].held[i]
      /\ task'[c].held = <<>> <=> n = 1
  BY <1>2, <1>3, <1>6, <1>7
<1>9. task'[c].pc = IF notify # {} THEN "set" ELSE IF n = 1 THEN "idle" ELSE "ready"
  BY <1>3, <1>6, <1>7 DEF After
<1>10. \A ch \in Channels : cnt'[ch] = IF ch \in chans /\ cnt[ch] > 0 THEN cnt[ch] - 1
                                                                       ELSE cnt[ch]
  BY <1>5
<1>11. task'[c].notify = notify
  BY <1>6, <1>7
<1> QED
  BY <1>1, <1>7, <1>8, <1>9, <1>10, <1>11 DEF chans, notify

-----------------------------------------------------------------------------
(* The counters.                                                           *)

\* Suspensions are not deeper inside each other than the bounds allow; the main
\* task makes one at a time.
DepthOK == /\ \A c \in Clients : Len(task[c].held) <= MaxDepth
           /\ Len(task[Main].held) <= 1

Positions == Tasks \X (1..MaxDepth + 1)

\* The suspensions of a channel that are not yet resumed.
Suspended(ch) == {x \in Positions : /\ x[2] <= Len(task[x[1]].held)
                                    /\ ch \in task[x[1]].held[x[2]]}

BalanceInv == DepthOK /\ \A ch \in Channels : cnt[ch] = Cardinality(Suspended(ch))

\* What the tasks hold is finite.
LEMMA SuspendedFinite == ASSUME NEW ch PROVE IsFiniteSet(Suspended(ch))
<1>1. IsFiniteSet(Tasks)
  BY RelayAssumption, FS_Singleton, FS_AddElement DEF RelayAssumption, Tasks
<1>2. IsFiniteSet(1..MaxDepth + 1)
  BY RelayAssumption, FS_Interval DEF RelayAssumption
<1>3. IsFiniteSet(Positions)
  BY <1>1, <1>2, FS_Product DEF Positions
<1>4. Suspended(ch) \in SUBSET Positions
  BY DEF Suspended
<1> QED
  BY <1>3, <1>4, FS_Subset

\* A step that leaves the suspensions as they are.
LEMMA SameBalance ==
  ASSUME BalanceInv, cnt' = cnt, \A d \in Tasks : task'[d].held = task[d].held
  PROVE  BalanceInv'
<1>1. \A x \in Positions : x[1] \in Tasks
  BY DEF Positions
<1>2. \A ch \in Channels : Suspended(ch)' = Suspended(ch)
  BY <1>1 DEF Suspended, Positions
<1>3. DepthOK'
  BY DEF DepthOK, BalanceInv, Tasks
<1> QED
  BY <1>2, <1>3 DEF BalanceInv

\* A suspension keeps the balance: one more is held, one more is counted.
LEMMA SuspendBalance ==
  ASSUME TypeInv, BalanceInv, NEW c \in Tasks, NEW chans \in SUBSET Channels, Suspend(c, chans),
         IF c = Main THEN task[c].held = <<>> ELSE Len(task[c].held) < MaxDepth
  PROVE  BalanceInv'
<1> DEFINE n == Len(task[c].held)
<1>1. /\ n \in Nat /\ MaxDepth \in Nat /\ n < MaxDepth + 1
      /\ c = Main => n = 0
  BY TaskFacts, RelayAssumption DEF RelayAssumption
<1>2. /\ \A d \in Tasks : d # c => task'[d] = task[d]
      /\ Len(task'[c].held) = n + 1
      /\ \A i \in 1..n : task'[c].held[i] = task[c].held[i]
      /\ task'[c].held[n + 1] = chans
      /\ \A ch \in Channels : cnt'[ch] = IF ch \in chans THEN cnt[ch] + 1 ELSE cnt[ch]
  BY SuspendFacts
<1> HIDE DEF n
<1>3. DepthOK'
  <2>1. ASSUME NEW d \in Clients PROVE Len(task'[d].held) <= MaxDepth
    BY <1>1, <1>2, RelayAssumption DEF BalanceInv, DepthOK, Tasks, RelayAssumption, n
  <2>2. Len(task'[Main].held) <= 1
    BY <1>1, <1>2 DEF BalanceInv, DepthOK, Tasks, n
  <2> QED
    BY <2>1, <2>2 DEF DepthOK
<1>4. ASSUME NEW ch \in Channels PROVE cnt'[ch] = Cardinality(Suspended(ch)')
  <2> DEFINE S == Suspended(ch)
             new == <<c, n + 1>>
  <2>1. new \in Positions /\ new[1] = c /\ new[2] = n + 1
    BY <1>1 DEF Positions
  <2>2. new \notin S
    BY <1>1, <2>1 DEF Suspended, n
  <2>3. ASSUME NEW x \in Positions, x # new
        PROVE  x \in Suspended(ch)' <=> x \in S
    <3>1. x[1] \in Tasks /\ x[2] \in 1..MaxDepth + 1 /\ x = <<x[1], x[2]>>
      BY DEF Positions
    <3>2. CASE x[1] # c
      <4>1. task'[x[1]] = task[x[1]]
        BY <1>2, <3>1, <3>2
      <4> QED
        BY <4>1 DEF Suspended, Positions
    <3>3. CASE x[1] = c
      <4>1. x[2] # n + 1 /\ x[2] \in Nat /\ x[2] >= 1
        BY <1>1, <2>3, <3>1, <3>3
      <4>2. x[2] <= n + 1 <=> x[2] <= n
        BY <1>1, <4>1
      <4>3. x[2] <= n => task'[c].held[x[2]] = task[c].held[x[2]]
        BY <1>1, <1>2, <4>1
      <4> QED
        BY <1>2, <3>3, <4>2, <4>3 DEF Suspended, Positions, n
    <3> QED
      BY <3>2, <3>3
  <2>4. new \in Suspended(ch)' <=> ch \in chans
    <3>1. new[2] <= Len(task'[new[1]].held) /\ task'[new[1]].held[new[2]] = chans
      BY <1>1, <1>2, <2>1
    <3> QED
      BY <2>1, <3>1 DEF Suspended, Positions
  <2>5. S \subseteq Positions /\ Suspended(ch)' \subseteq Positions
    BY DEF Suspended, Positions
  <2>6. cnt[ch] = Cardinality(S) /\ IsFiniteSet(S)
    BY SuspendedFinite DEF BalanceInv
  <2> HIDE DEF S, new
  <2>7. CASE ch \in chans
    <3>1. Suspended(ch)' = S \cup {new}
      BY <2>1, <2>3, <2>4, <2>5, <2>7
    <3>2. Cardinality(S \cup {new}) = Cardinality(S) + 1
      BY <2>2, <2>6, FS_AddElement
    <3> QED
      BY <1>2, <2>6, <2>7, <3>1, <3>2
  <2>8. CASE ch \notin chans
    <3>1. Suspended(ch)' = S
      BY <2>1, <2>2, <2>3, <2>4, <2>5, <2>8
    <3> QED
      BY <1>2, <2>6, <2>8, <3>1
  <2> QED
    BY <2>7, <2>8
<1> QED
  BY <1>3, <1>4 DEF BalanceInv

\* A resumption keeps it: the top of the stack is taken back from each counter.
LEMMA ResumeBalance ==
  ASSUME TypeInv, BalanceInv, NEW c \in Tasks, task[c].held # <<>>, Resume(c)
  PROVE  BalanceInv'
<1> DEFINE n == Len(task[c].held)
           chans == task[c].held[n]
<1>1. n \in Nat \ {0} /\ MaxDepth \in Nat /\ n <= MaxDepth + 1 /\ (c = Main => n = 1)
  <2>1. n \in Nat \ {0} /\ MaxDepth \in Nat
    BY TaskFacts, RelayAssumption DEF RelayAssumption
  <2>2. c = Main => n <= 1
    BY DEF BalanceInv, DepthOK
  <2>3. c \in Clients => n <= MaxDepth
    BY DEF BalanceInv, DepthOK
  <2> HIDE DEF n
  <2> QED
    BY <2>1, <2>2, <2>3 DEF Tasks
<1>2. /\ \A d \in Tasks : d # c => task'[d] = task[d]
      /\ Len(task'[c].held) = n - 1
      /\ \A i \in 1..n - 1 : task'[c].held[i] = task[c].held[i]
      /\ \A ch \in Channels : cnt'[ch] = IF ch \in chans /\ cnt[ch] > 0 THEN cnt[ch] - 1
                                                                      ELSE cnt[ch]
  BY ResumeFacts
<1> HIDE DEF n
<1>3. DepthOK'
  <2>1. ASSUME NEW d \in Clients PROVE Len(task'[d].held) <= MaxDepth
    BY <1>1, <1>2 DEF BalanceInv, DepthOK, Tasks, n
  <2>2. Len(task'[Main].held) <= 1
    BY <1>1, <1>2 DEF BalanceInv, DepthOK, Tasks, n
  <2> QED
    BY <2>1, <2>2 DEF DepthOK
<1>4. ASSUME NEW ch \in Channels PROVE cnt'[ch] = Cardinality(Suspended(ch)')
  <2> DEFINE S == Suspended(ch)
             old == <<c, n>>
  <2>1. old \in Positions /\ old[1] = c /\ old[2] = n
    BY <1>1 DEF Positions
  <2>2. old \in S <=> ch \in chans
    BY <1>1, <2>1 DEF Suspended, n
  <2>3. ASSUME NEW x \in Positions, x # old
        PROVE  x \in Suspended(ch)' <=> x \in S
    <3>1. x[1] \in Tasks /\ x[2] \in 1..MaxDepth + 1 /\ x = <<x[1], x[2]>>
      BY DEF Positions
    <3>2. CASE x[1] # c
      <4>1. task'[x[1]] = task[x[1]]
        BY <1>2, <3>1, <3>2
      <4> QED
        BY <4>1 DEF Suspended, Positions
    <3>3. CASE x[1] = c
      <4>1. x[2] # n /\ x[2] \in Nat /\ x[2] >= 1
        BY <1>1, <2>3, <3>1, <3>3
      <4>2. x[2] <= n - 1 <=> x[2] <= n
        BY <1>1, <4>1
      <4>3. x[2] <= n => task'[c].held[x[2]] = task[c].held[x[2]]
        BY <1>1, <1>2, <4>1
      <4> QED
        BY <1>2, <3>3, <4>2, <4>3 DEF Suspended, Positions, n
    <3> QED
      BY <3>2, <3>3
  <2>4. old \notin Suspended(ch)'
    <3>1. ~(old[2] <= Len(task'[old[1]].held))
      BY <1>1, <1>2, <2>1
    <3> QED
      BY <3>1 DEF Suspended, Positions
  <2>5. S \subseteq Positions /\ Suspended(ch)' \subseteq Positions
    BY DEF Suspended, Positions
  <2>6. cnt[ch] = Cardinality(S) /\ IsFiniteSet(S) /\ cnt[ch] \in Nat
    BY SuspendedFinite, TaskFacts DEF BalanceInv
  <2> HIDE DEF S, old, chans
  <2>7. Suspended(ch)' = S \ {old}
    BY <2>3, <2>4, <2>5
  <2>8. Cardinality(S \ {old}) = IF ch \in chans THEN Cardinality(S) - 1 ELSE Cardinality(S)
    BY <2>2, <2>6, FS_RemoveElement
  <2>9. ch \in chans => cnt[ch] # 0
    BY <2>2, <2>6, FS_EmptySet
  <2> QED
    BY <1>2, <2>6, <2>7, <2>8, <2>9
<1> QED
  BY <1>3, <1>4 DEF BalanceInv

\* A task suspends, or resumes its last suspension.
Suspending(c) ==
  \E chans \in SUBSET Channels :
    /\ "http" \in chans /\ Suspend(c, chans)
    /\ IF c = Main THEN task[c].held = <<>> ELSE Len(task[c].held) < MaxDepth
Resuming(c) == task[c].held # <<>> /\ Resume(c)

\* A task that may use MQTT's share of the memory.
UsesMqtt == {"download", "mqtt_check"}

\* No task suspends or resumes, and only one that holds MQTT starts to use it.
Elsewhere ==
  /\ cnt' = cnt
  /\ \A d \in Tasks : /\ task'[d].held = task[d].held
                      /\ task'[d].pc \in UsesMqtt => task[d].pc \in UsesMqtt \/ "mqtt" \in Held(d)

\* What a step may do to the suspensions.
LEMMA Moves ==
  ASSUME TypeInv, [Next]_vars
  PROVE  Elsewhere \/ \E c \in Tasks : Suspending(c) \/ Resuming(c)
<1>0. Main \in Tasks /\ Main \notin Clients /\ Clients \subseteq Tasks
  BY RelayAssumption DEF RelayAssumption, Tasks
<1>a. ASSUME NEW c \in Tasks, NEW new, new.held = task[c].held, task' = [task EXCEPT ![c] = new],
             new.pc \in UsesMqtt => "mqtt" \in Held(c), cnt' = cnt
      PROVE  Elsewhere
  <2>1. task \in [Tasks -> TaskState]
    BY TaskFacts
  <2>2. task'[c] = new /\ \A d \in Tasks : d # c => task'[d] = task[d]
    BY <1>a, <2>1
  <2> QED
    BY <1>a, <2>2 DEF Elsewhere
<1>b. ASSUME UNCHANGED <<cnt, task>> PROVE Elsewhere
  BY <1>b DEF Elsewhere
<1>p. \A pc \in {"idle", "set", "notify", "wait", "ready", "busy"} : pc \notin UsesMqtt
  BY DEF UsesMqtt
<1>f. \A h : After(h) \in {"idle", "ready"}
  BY DEF After
<1>1. CASE AdvPost
  BY <1>1, <1>b, AdvPostKeepsMode
<1>2. ASSUME NEW c \in Tasks, Notifying(c) \/ wait_timeout(c) PROVE Elsewhere
  <2>0. task[c] \in TaskState
    BY TaskFacts
  <2>1. CASE set_relaying_cmd(c)
    <3> DEFINE new == [task[c] EXCEPT !.pc = "notify"]
    <3>1. task' = [task EXCEPT ![c] = new] /\ cnt' = cnt
      BY <2>1 DEF set_relaying_cmd
    <3>2. new.held = task[c].held /\ new.pc = "notify"
      BY <2>0 DEF TaskState
    <3> HIDE DEF new
    <3> QED
      BY <1>a, <1>p, <3>1, <3>2
  <2>2. CASE notify_relaying_mode_changed(c)
    <3> DEFINE new == IF c = Main
                      THEN [task[c] EXCEPT !.pc = After(task[c].held), !.notify = {}]
                      ELSE [task[c] EXCEPT !.pc = "wait"]
    <3>1. task' = [task EXCEPT ![c] = new] /\ cnt' = cnt
      BY <2>2 DEF notify_relaying_mode_changed, statusVars
    <3>2. new.held = task[c].held /\ new.pc \in {After(task[c].held), "wait"}
      BY <2>0 DEF TaskState
    <3> HIDE DEF new
    <3> QED
      BY <1>a, <1>p, <1>f, <3>1, <3>2
  <2>3. ASSUME NEW ch \in Channels, wait_relaying_mode_changed(c, ch) PROVE Elsewhere
    <3> DEFINE new == [task[c] EXCEPT !.notify = @ \ {ch},
                         !.pc = IF task[c].notify = {ch} THEN After(task[c].held) ELSE @]
    <3>1. task' = [task EXCEPT ![c] = new] /\ cnt' = cnt /\ task[c].pc = "wait"
      BY <2>3 DEF wait_relaying_mode_changed, statusVars
    <3>2. new.held = task[c].held /\ new.pc \in {After(task[c].held), task[c].pc}
      BY <2>0 DEF TaskState
    <3> HIDE DEF new
    <3> QED
      BY <1>a, <1>p, <1>f, <3>1, <3>2
  <2>4. CASE wait_timeout(c)
    <3> DEFINE new == [task[c] EXCEPT !.notify = {}, !.pc = After(task[c].held)]
    <3>1. task' = [task EXCEPT ![c] = new] /\ cnt' = cnt
      BY <2>4 DEF wait_timeout, statusVars
    <3>2. new.held = task[c].held /\ new.pc = After(task[c].held)
      BY <2>0 DEF TaskState
    <3> HIDE DEF new
    <3> QED
      BY <1>a, <1>p, <1>f, <3>1, <3>2
  <2> QED
    BY <1>2, <2>1, <2>2, <2>3, <2>4 DEF Notifying
<1>3. ASSUME NEW c \in Clients, Client(c) PROVE Elsewhere \/ Suspending(c) \/ Resuming(c)
  <2>0. task[c] \in TaskState /\ c \in Tasks /\ c # Main
    BY <1>0, TaskFacts
  <2>1. CASE http_conn_begin(c) \/ http_conn_end(c)
    <3>1. PICK b \in BOOLEAN : task' = [task EXCEPT ![c] = [task[c] EXCEPT !.conn = b]]
      BY <2>1 DEF http_conn_begin, http_conn_end
    <3>2. [task[c] EXCEPT !.conn = b].held = task[c].held
          /\ [task[c] EXCEPT !.conn = b].pc = task[c].pc
      BY <2>0 DEF TaskState
    <3>3. cnt' = cnt /\ task[c].pc = "idle"
      BY <2>1 DEF http_conn_begin, http_conn_end, statusVars
    <3> QED
      BY <1>a, <1>p, <2>0, <3>1, <3>2, <3>3
  <2>2. CASE client_suspend(c)
    <3>1. PICK chans \in Suspensions : Suspend(c, chans)
      BY <2>2, Zenon DEF client_suspend
    <3>2. chans \in SUBSET Channels /\ "http" \in chans
      BY RelayAssumption DEF RelayAssumption, Channels
    <3>3. Len(task[c].held) < MaxDepth
      BY <2>2 DEF client_suspend
    <3> QED
      BY <2>0, <3>1, <3>2, <3>3 DEF Suspending
  <2>3. CASE http_request(c)
    <3>1. PICK big \in BOOLEAN :
            /\ big => "mqtt" \in Held(c)
            /\ \/ task' = task
               \/ task' = [task EXCEPT ![c] = [task[c] EXCEPT !.pc = IF big THEN "download"
                                                                            ELSE "busy"]]
      BY <2>3 DEF http_request
    <3> DEFINE new == [task[c] EXCEPT !.pc = IF big THEN "download" ELSE "busy"]
    <3>2. new.held = task[c].held /\ new.pc = IF big THEN "download" ELSE "busy"
      BY <2>0 DEF TaskState
    <3>3. cnt' = cnt
      BY <2>3 DEF http_request, statusVars
    <3>4. task' = task \/ task' = [task EXCEPT ![c] = new]
      BY <3>1
    <3> HIDE DEF new
    <3> QED
      BY <1>a, <1>b, <1>p, <2>0, <3>1, <3>2, <3>3, <3>4
  <2>4. CASE http_request_done(c) \/ http_check_mqtt_done(c)
    <3> DEFINE new == [task[c] EXCEPT !.pc = "ready"]
    <3>1. task' = [task EXCEPT ![c] = new] /\ cnt' = cnt
      BY <2>4 DEF http_request_done, http_check_mqtt_done, statusVars
    <3>2. new.held = task[c].held /\ new.pc = "ready"
      BY <2>0 DEF TaskState
    <3> HIDE DEF new
    <3> QED
      BY <1>a, <1>p, <2>0, <3>1, <3>2
  <2>5. CASE http_check_mqtt(c)
    <3> DEFINE new == [task[c] EXCEPT !.pc = "mqtt_check"]
    <3>1. /\ task' = task \/ task' = [task EXCEPT ![c] = new]
          /\ cnt' = cnt /\ "mqtt" \in Held(c)
      BY <2>5 DEF http_check_mqtt, statusVars
    <3>2. new.held = task[c].held
      BY <2>0 DEF TaskState
    <3> HIDE DEF new
    <3> QED
      BY <1>a, <1>b, <2>0, <3>1, <3>2
  <2>6. CASE client_resume(c)
    BY <2>0, <2>6 DEF client_resume, Resuming, TypeInv, HeldOK
  <2> QED
    BY <1>3, <2>1, <2>2, <2>3, <2>4, <2>5, <2>6 DEF Client
<1>4. CASE activate_cfg_mode
  <2>1. task[Main].held = <<>> /\ Suspend(Main, Channels)
    BY <1>4 DEF activate_cfg_mode
  <2>2. "http" \in Channels
    BY DEF Channels
  <2> QED
    BY <1>0, <2>1, <2>2 DEF Suspending
<1>5. CASE deactivate_cfg_mode
  BY <1>0, <1>5 DEF deactivate_cfg_mode, Resuming
<1>6. CASE MainHandlers \/ Environment \/ UNCHANGED vars
  <2>1. UNCHANGED <<cnt, task>>
    BY <1>6 DEF MainHandlers, main_relaying_mode_changed_read, main_relaying_mode_changed_clear,
                main_restart_services, Environment, DoAsyncCommTimer, PeriodicTimer, Network,
                TimeSync, NewCfg, statusVars, vars
  <2> QED
    BY <1>b, <2>1
<1> QED
  BY <1>0, <1>1, <1>2, <1>3, <1>4, <1>5, <1>6 DEF Next

\* Every step keeps the balance.
LEMMA BalanceInductive == ASSUME TypeInv, BalanceInv, [Next]_vars PROVE BalanceInv'
<1>1. CASE Elsewhere
  BY <1>1, SameBalance DEF Elsewhere
<1>2. ASSUME NEW c \in Tasks, Suspending(c) PROVE BalanceInv'
  BY <1>2, SuspendBalance DEF Suspending
<1>3. ASSUME NEW c \in Tasks, Resuming(c) PROVE BalanceInv'
  BY <1>3, ResumeBalance DEF Resuming
<1> QED
  BY <1>1, <1>2, <1>3, Moves

\* The balance of the counters, with the types it rests on.
LEMMA Balance == Spec => [](TypeInv /\ BalanceInv)
<1>1. Init => BalanceInv
  <2> SUFFICES ASSUME Init PROVE BalanceInv
    OBVIOUS
  <2>1. \A c \in Tasks : task[c].held = <<>>
    BY DEF Init, IdleTask
  <2>2. \A c \in Tasks : Len(task[c].held) = 0
    BY <2>1
  <2>3. \A ch \in Channels : Suspended(ch) = {}
    BY <2>2 DEF Suspended, Positions
  <2>4. DepthOK
    BY <2>2, RelayAssumption DEF DepthOK, Tasks, RelayAssumption
  <2>5. \A ch \in Channels : cnt[ch] = 0
    BY DEF Init
  <2> QED
    BY <2>3, <2>4, <2>5, FS_EmptySet DEF BalanceInv
<1> QED
  BY InitTypeInv, NextTypeInv, BalanceInductive, <1>1, PTL DEF Spec

\* For every number of tasks, channels in a suspension and depth, and also when
\* waits time out and the configuration mode comes in between: the counters are
\* exactly the number of suspensions that are not yet resumed, so neither a
\* suspension gets lost nor relaying stays suspended behind the last resumption.
THEOREM CountersBalance == Spec => []CountersBalanced
<1>1. BalanceInv => CountersBalanced
  BY DEF BalanceInv, Suspended, Positions, CountersBalanced
<1> QED
  BY Balance, <1>1, PTL

-----------------------------------------------------------------------------
(* What a task that sends requests can rely on.                            *)

\* Every suspension of a client includes HTTP, and whoever uses MQTT's share
\* holds MQTT.
ChansOK ==
  \A c \in Clients :
    /\ \A i \in 1..Len(task[c].held) : "http" \in task[c].held[i]
    /\ task[c].pc \in UsesMqtt => "mqtt" \in Held(c)

\* Every step keeps what the clients hold.
LEMMA ChansInductive == ASSUME TypeInv, ChansOK, [Next]_vars PROVE ChansOK'
<1> SUFFICES ASSUME NEW d \in Clients
             PROVE  /\ \A i \in 1..Len(task'[d].held) : "http" \in task'[d].held[i]
                    /\ task'[d].pc \in UsesMqtt => "mqtt" \in Held(d)'
  BY DEF ChansOK, UsesMqtt
<1>0. /\ d \in Tasks
      /\ \A i \in 1..Len(task[d].held) : "http" \in task[d].held[i]
      /\ task[d].pc \in UsesMqtt => "mqtt" \in Held(d)
      /\ Len(task[d].held) \in Nat
  BY TaskFacts DEF ChansOK, Tasks
<1>1. ASSUME task'[d].held = task[d].held,
             task'[d].pc \in UsesMqtt => task[d].pc \in UsesMqtt \/ "mqtt" \in Held(d)
      PROVE  /\ \A i \in 1..Len(task'[d].held) : "http" \in task'[d].held[i]
             /\ task'[d].pc \in UsesMqtt => "mqtt" \in Held(d)'
  <2>1. Held(d)' = Held(d)
    BY <1>1 DEF Held
  <2> QED
    BY <1>0, <1>1, <2>1
<1>2. CASE Elsewhere
  BY <1>0, <1>1, <1>2 DEF Elsewhere
<1>3. ASSUME NEW c \in Tasks, c # d, task'[d] = task[d]
      PROVE  /\ \A i \in 1..Len(task'[d].held) : "http" \in task'[d].held[i]
             /\ task'[d].pc \in UsesMqtt => "mqtt" \in Held(d)'
  BY <1>1, <1>3
<1>4. ASSUME NEW c \in Tasks, Suspending(c)
      PROVE  /\ \A i \in 1..Len(task'[d].held) : "http" \in task'[d].held[i]
             /\ task'[d].pc \in UsesMqtt => "mqtt" \in Held(d)'
  <2>1. PICK chans \in SUBSET Channels : "http" \in chans /\ Suspend(c, chans)
    BY <1>4 DEF Suspending
  <2>2. /\ \A x \in Tasks : x # c => task'[x] = task[x]
        /\ Len(task'[c].held) = Len(task[c].held) + 1
        /\ \A i \in 1..Len(task[c].held) : task'[c].held[i] = task[c].held[i]
        /\ task'[c].held[Len(task[c].held) + 1] = chans
        /\ task'[c].pc \in {"ready", "set"}
    BY <2>1, SuspendFacts
  <2>3. CASE c = d
    <3>1. \A i \in 1..Len(task[d].held) + 1 : i \in 1..Len(task[d].held) \/ i = Len(task[d].held) + 1
      BY <1>0
    <3>2. task'[d].pc \notin UsesMqtt
      BY <2>2, <2>3 DEF UsesMqtt
    <3> QED
      BY <1>0, <2>1, <2>2, <2>3, <3>1, <3>2
  <2> QED
    BY <1>0, <1>3, <2>2, <2>3
<1>5. ASSUME NEW c \in Tasks, Resuming(c)
      PROVE  /\ \A i \in 1..Len(task'[d].held) : "http" \in task'[d].held[i]
             /\ task'[d].pc \in UsesMqtt => "mqtt" \in Held(d)'
  <2>1. /\ \A x \in Tasks : x # c => task'[x] = task[x]
        /\ Len(task'[c].held) = Len(task[c].held) - 1
        /\ \A i \in 1..Len(task[c].held) - 1 : task'[c].held[i] = task[c].held[i]
        /\ task'[c].pc \in {"set", "idle", "ready"}
    BY <1>5, ResumeFacts DEF Resuming
  <2>2. CASE c = d
    <3>1. \A i \in 1..Len(task[d].held) - 1 : i \in 1..Len(task[d].held)
      BY <1>0
    <3>2. task'[d].pc \notin UsesMqtt
      BY <2>1, <2>2 DEF UsesMqtt
    <3> QED
      BY <1>0, <2>1, <2>2, <3>1, <3>2
  <2> QED
    BY <1>0, <1>3, <2>1, <2>2
<1> QED
  BY <1>2, <1>4, <1>5, Moves

\* A suspension that is held counts.
LEMMA HeldCounts ==
  ASSUME TypeInv, BalanceInv, NEW c \in Clients, NEW i \in 1..Len(task[c].held),
         NEW ch \in Channels, ch \in task[c].held[i]
  PROVE  cnt[ch] > 0
<1>1. Len(task[c].held) \in Nat /\ Len(task[c].held) <= MaxDepth /\ c \in Tasks
      /\ cnt \in [Channels -> Nat] /\ MaxDepth \in Nat
  BY TaskFacts, RelayAssumption DEF BalanceInv, DepthOK, Tasks
<1>2. <<c, i>> \in Positions
  BY <1>1 DEF Positions
<1>3. <<c, i>> \in Suspended(ch)
  BY <1>1, <1>2 DEF Suspended
<1>4. IsFiniteSet(Suspended(ch))
  BY SuspendedFinite
<1>5. Cardinality(Suspended(ch)) # 0
  BY <1>3, <1>4, FS_EmptySet
<1> QED
  BY <1>1, <1>5 DEF BalanceInv

\* Whatever other tasks suspend and resume, nested and with timeouts, the
\* channels of a task that sends requests stay suspended: the assertions of
\* http_download.c:555-580 on the relaying state never fail.
THEOREM StaysSuspended == Spec => []RelayingStaysSuspended
<1>1. Init => ChansOK
  <2> SUFFICES ASSUME Init, NEW c \in Clients
               PROVE  task[c].held = <<>> /\ task[c].pc = "idle"
    BY DEF ChansOK, UsesMqtt
  <2> QED
    BY DEF Init, IdleTask, Tasks
<1>2. ASSUME TypeInv, BalanceInv, ChansOK PROVE RelayingStaysSuspended
  <2> SUFFICES ASSUME NEW c \in Clients
               PROVE  /\ task[c].pc \in {"ready", "busy", "download", "mqtt_check"} => cnt["http"] > 0
                      /\ task[c].pc \in {"download", "mqtt_check"} => cnt["mqtt"] > 0
    BY DEF RelayingStaysSuspended
  <2>0. c \in Tasks /\ "http" \in Channels /\ "mqtt" \in Channels
    BY DEF Tasks, Channels
  <2>1. ASSUME task[c].pc \in {"ready", "busy", "download", "mqtt_check"} PROVE cnt["http"] > 0
    <3>1. task[c].held # <<>>
      BY <1>2, <2>0, <2>1 DEF TypeInv, HeldOK
    <3>2. 1 \in 1..Len(task[c].held)
      BY <1>2, <2>0, <3>1, TaskFacts
    <3>3. "http" \in task[c].held[1]
      BY <1>2, <3>2 DEF ChansOK
    <3> QED
      BY <1>2, <2>0, <3>2, <3>3, HeldCounts
  <2>2. ASSUME task[c].pc \in {"download", "mqtt_check"} PROVE cnt["mqtt"] > 0
    <3>1. "mqtt" \in Held(c)
      BY <1>2, <2>2 DEF ChansOK, UsesMqtt
    <3>2. PICK i \in 1..Len(task[c].held) : "mqtt" \in task[c].held[i]
      BY <3>1 DEF Held
    <3> QED
      BY <1>2, <2>0, <3>2, HeldCounts
  <2> QED
    BY <2>1, <2>2
<1>3. Spec => []ChansOK
  BY Balance, ChansInductive, <1>1, PTL DEF Spec
<1> QED
  BY Balance, <1>2, <1>3, PTL

-----------------------------------------------------------------------------
(* The single HTTP request.                                                *)

\* A task in one of these places has the request.
Requesting == {"busy", "download", "mqtt_check"}

RequestOK == \A c \in Clients : task[c].pc \in Requesting => lock.request = c

\* adv_post aborts a transmission in the step in which it learns of a suspension.
RelayingOK == post.in_progress => post.relaying_enabled

LocksInv == LocksBelongToRequest /\ RequestOK /\ RelayingOK

\* Serving a target from a state in which adv_post has no request.
LEMMA SendNextLocks ==
  ASSUME TypeInv, NEW p \in PostState, NEW lk \in LockType, SendNext(p, lk),
         ~p.in_progress, lk.request # AdvPostTask, lk.mutex # AdvPostTask
  PROVE  /\ LocksBelongToRequest'
         /\ \A x \in Tasks : lk.request = x => lock'.request = x
         /\ RelayingOK'
<1> USE DEF LocksBelongToRequest, HttpInProgress, RelayingOK
<1>t. \A x \in Tasks : x # AdvPostTask /\ x # NoTask
  BY RelayAssumption DEF RelayAssumption
<1>1. CASE ~p.relaying_enabled \/ p.need = {}
  BY <1>1 DEF SendNext
<1>2. CASE ~(~p.relaying_enabled \/ p.need = {})
  <2>1. PICK t \in p.need :
          IF t = "mqtt" THEN StartMqtt(p, lk)
          ELSE (NotSent(t, p, lk) \/ Sent(t, p, lk)) /\ UNCHANGED sigs
    BY <1>2, Zenon DEF SendNext
  <2>2. CASE StartMqtt(p, lk)
    <3>1. lock' = lk
      BY <2>2, Zenon DEF StartMqtt
    <3>2. post'.relaying_enabled = p.relaying_enabled
      BY <2>2 DEF StartMqtt, PostState
    <3> QED
      BY <1>2, <3>1, <3>2
  <2>3. CASE NotSent(t, p, lk)
    <3>1. lock' = lk
      BY <2>3, Zenon DEF NotSent
    <3>2. ~post'.in_progress
      BY <2>3 DEF NotSent, PostState
    <3> QED
      BY <3>1, <3>2
  <2>4. CASE Sent(t, p, lk) /\ t # "mqtt"
    <3> DEFINE begun == [p EXCEPT !.action = t, !.in_progress = TRUE, !.need = @ \ {t}]
               not_begun == [p EXCEPT !.action = "NONE", !.need = @ \ {t}]
               taken == [mutex |-> AdvPostTask, request |-> AdvPostTask]
    <3>3. \/ post' = begun /\ lock' = taken /\ lk.request = NoTask
          \/ post' = not_begun /\ lock' = lk
          \/ post' = p /\ lock' = lk
      BY <2>4, Zenon DEF Sent
    <3>a. begun.in_progress /\ begun.action = t /\ begun.relaying_enabled = p.relaying_enabled
      BY DEF PostState
    <3>b. ~not_begun.in_progress
      BY DEF PostState
    <3>c. taken.mutex = AdvPostTask /\ taken.request = AdvPostTask
      OBVIOUS
    <3> HIDE DEF begun, not_begun, taken
    <3>4. \/ /\ post'.in_progress /\ post'.action # "mqtt" /\ lk.request = NoTask
             /\ post'.relaying_enabled = p.relaying_enabled
             /\ lock'.mutex = AdvPostTask /\ lock'.request = AdvPostTask
          \/ ~post'.in_progress /\ lock' = lk
      BY <2>4, <3>3, <3>a, <3>b, <3>c
    <3> QED
      BY <1>2, <1>t, <3>4
  <2> QED
    BY <2>1, <2>2, <2>3, <2>4
<1> QED
  BY <1>1, <1>2

\* adv_post's steps keep its hold on the request and the mutex, and leave other
\* tasks' requests alone.
LEMMA AdvPostLocks == ASSUME TypeInv, LocksInv, AdvPost PROVE LocksInv'
<1> DEFINE Kept == \A x \in Tasks : lock.request = x => lock'.request = x
           Goal == LocksBelongToRequest' /\ Kept /\ RelayingOK'
<1> SUFFICES Goal
  <2>1. task' = task
    BY AdvPostKeepsMode
  <2>2. Goal => RequestOK'
    BY <2>1 DEF LocksInv, RequestOK, Tasks
  <2> QED
    BY <2>2 DEF LocksInv
<1> USE DEF LocksBelongToRequest, HttpInProgress, RelayingOK
<1>0. post \in PostState /\ lock \in LockType /\ LocksBelongToRequest /\ RelayingOK
  BY DEF TypeInv, TypeOK, LocksInv, LockType
<1>t. \A x \in Tasks : x # AdvPostTask /\ x # NoTask
  BY RelayAssumption DEF RelayAssumption
<1>s. ASSUME post'.in_progress = post.in_progress, post'.action = post.action,
             post'.relaying_enabled = post.relaying_enabled, lock' = lock
      PROVE  Goal
  BY <1>0, <1>s
<1>1. CASE TakeSignals \/ handle_sig_time_synchronized \/ relaying_mode_changed_clear
           \/ do_async_comm_http_busy
  BY <1>1, <1>s DEF TakeSignals, handle_sig_time_synchronized, relaying_mode_changed_clear,
                    do_async_comm_http_busy, postVars
<1>2. CASE handle_sig_network_disconnected \/ handle_sig_network_connected
           \/ do_async_comm_mqtt_next
  BY <1>0, <1>2, <1>s DEF handle_sig_network_disconnected, handle_sig_network_connected,
                          do_async_comm_mqtt_next, PostState
<1>3. ASSUME NEW t \in Targets, handle_sig_retransmit(t) PROVE Goal
  BY <1>0, <1>3, <1>s DEF handle_sig_retransmit, PostState
<1>4. ASSUME NEW s, handle_sig_gw_cfg_changed(s) PROVE Goal
  BY <1>0, <1>4, <1>s DEF handle_sig_gw_cfg_changed, PostState
<1>5. CASE relaying_mode_changed_read
  <2> DEFINE abort == cnt["http"] # 0 /\ post.in_progress
  <2>1. /\ post'.in_progress = (post.in_progress /\ ~abort) /\ post'.action = post.action
        /\ post'.relaying_enabled = (cnt["http"] = 0)
    BY <1>0, <1>5 DEF relaying_mode_changed_read, PostState
  <2>2. CASE abort
    <3>1. lock' = [mutex |-> NoTask, request |-> IF lock.request = AdvPostTask THEN NoTask
                                                 ELSE lock.request]
      BY <1>5, <2>2 DEF relaying_mode_changed_read
    <3>2. /\ lock'.mutex = NoTask
          /\ lock'.request = IF lock.request = AdvPostTask THEN NoTask ELSE lock.request
      BY <3>1
    <3>3. NoTask # AdvPostTask
      BY DEF NoTask, AdvPostTask
    <3> QED
      BY <1>t, <2>1, <2>2, <3>2, <3>3
  <2>3. CASE ~abort
    <3>1. lock' = lock
      BY <1>5, <2>3 DEF relaying_mode_changed_read
    <3> QED
      BY <1>0, <2>1, <2>3, <3>1
  <2> QED
    BY <2>2, <2>3
<1>6. CASE do_async_comm_idle
  <2>1. SendNext(post, lock) /\ ~post.in_progress
    BY <1>6 DEF do_async_comm_idle
  <2> QED
    BY <1>0, <2>1, SendNextLocks
<1>7. CASE do_async_comm_http_done
  <2> DEFINE p == [post EXCEPT !.in_progress = FALSE, !.need = @ \ {post.action},
                               !.action = "NONE"]
             lk == [mutex |-> NoTask, request |-> NoTask]
  <2>1. p \in PostState /\ ~p.in_progress
    BY <1>0 DEF PostState
  <2>2. lk \in LockType /\ lk.request = NoTask /\ lk.mutex = NoTask
    BY DEF LockType, Owners
  <2>3. SendNext(p, lk)
    BY <1>7, Zenon DEF do_async_comm_http_done
  <2>4. lock.request = AdvPostTask
    BY <1>7, Zenon DEF do_async_comm_http_done
  <2> HIDE DEF p, lk
  <2>5. NoTask # AdvPostTask
    BY DEF NoTask, AdvPostTask
  <2>6. LocksBelongToRequest' /\ RelayingOK'
    BY <2>1, <2>2, <2>3, <2>5, SendNextLocks
  <2> QED
    BY <1>t, <2>4, <2>6
<1>8. CASE do_async_comm_mqtt_done
  <2> DEFINE p == [post EXCEPT !.in_progress = FALSE, !.reports_mqtt = 0]
  <2>0. 0 \in 0..MaxAdvs
    BY RelayAssumption DEF RelayAssumption
  <2>1. p \in PostState /\ ~p.in_progress
    BY <1>0, <2>0 DEF PostState
  <2>2. SendNext(p, lock)
    BY <1>8, Zenon DEF do_async_comm_mqtt_done
  <2>3. lock.request # AdvPostTask /\ lock.mutex # AdvPostTask
    BY <1>0, <1>8 DEF do_async_comm_mqtt_done
  <2> HIDE DEF p
  <2> QED
    BY <1>0, <2>1, <2>2, <2>3, SendNextLocks
<1> QED
  BY <1>1, <1>2, <1>3, <1>4, <1>5, <1>6, <1>7, <1>8 DEF AdvPost, do_async_comm

\* Steps that do not touch the request and in which no task begins one.
LEMMA LocksKept ==
  ASSUME LocksInv, UNCHANGED <<post, lock>>,
         \A d \in Clients : task'[d].pc \in Requesting => task[d].pc \in Requesting
  PROVE  LocksInv'
  BY DEF LocksInv, LocksBelongToRequest, HttpInProgress, RequestOK, RelayingOK

\* Suspending, notifying, waiting and resuming do not touch the request.
LEMMA NotifyingLocks ==
  ASSUME TypeInv, LocksInv, NEW c \in Tasks, Notifying(c) \/ wait_timeout(c)
  PROVE  LocksInv'
<1>0. task \in [Tasks -> TaskState] /\ task[c] \in TaskState /\ Clients \subseteq Tasks
  BY TaskFacts DEF Tasks
<1>1. UNCHANGED <<post, lock>>
  BY DEF Notifying, set_relaying_cmd, notify_relaying_mode_changed, wait_relaying_mode_changed,
         wait_timeout, postVars
<1>2. \A h : After(h) \in {"idle", "ready"}
  BY DEF After
<1>3. PICK new : /\ task' = [task EXCEPT ![c] = new]
                 /\ new.pc \in {"idle", "ready", "notify", "wait"}
  <2>1. CASE set_relaying_cmd(c)
    <3>1. task' = [task EXCEPT ![c] = [task[c] EXCEPT !.pc = "notify"]]
      BY <2>1 DEF set_relaying_cmd
    <3>2. [task[c] EXCEPT !.pc = "notify"].pc = "notify"
      BY <1>0 DEF TaskState
    <3> QED
      BY <3>1, <3>2
  <2>2. CASE notify_relaying_mode_changed(c)
    <3> DEFINE new == IF c = Main
                      THEN [task[c] EXCEPT !.pc = After(task[c].held), !.notify = {}]
                      ELSE [task[c] EXCEPT !.pc = "wait"]
    <3>1. task' = [task EXCEPT ![c] = new]
      BY <2>2 DEF notify_relaying_mode_changed
    <3>2. new.pc \in {After(task[c].held), "wait"}
      BY <1>0 DEF TaskState
    <3> HIDE DEF new
    <3> QED
      BY <1>2, <3>1, <3>2
  <2>3. ASSUME NEW ch \in Channels, wait_relaying_mode_changed(c, ch)
        PROVE  \E new : /\ task' = [task EXCEPT ![c] = new]
                        /\ new.pc \in {"idle", "ready", "notify", "wait"}
    <3> DEFINE new == [task[c] EXCEPT !.notify = @ \ {ch},
                         !.pc = IF task[c].notify = {ch} THEN After(task[c].held) ELSE @]
    <3>1. task' = [task EXCEPT ![c] = new] /\ task[c].pc = "wait"
      BY <2>3 DEF wait_relaying_mode_changed
    <3>2. new.pc \in {After(task[c].held), task[c].pc}
      BY <1>0 DEF TaskState
    <3> HIDE DEF new
    <3> QED
      BY <1>2, <3>1, <3>2
  <2>4. CASE wait_timeout(c)
    <3> DEFINE new == [task[c] EXCEPT !.notify = {}, !.pc = After(task[c].held)]
    <3>1. task' = [task EXCEPT ![c] = new]
      BY <2>4 DEF wait_timeout
    <3>2. new.pc = After(task[c].held)
      BY <1>0 DEF TaskState
    <3> HIDE DEF new
    <3> QED
      BY <1>2, <3>1, <3>2
  <2> QED
    BY <2>1, <2>2, <2>3, <2>4 DEF Notifying
<1>4. \A d \in Clients : task'[d].pc \in Requesting => task[d].pc \in Requesting
  BY <1>0, <1>3 DEF Requesting
<1> QED
  BY <1>1, <1>4, LocksKept

\* Only the task that has the request ends it, and only a free one is taken.
LEMMA ClientLocks == ASSUME TypeInv, LocksInv, NEW c \in Clients, Client(c) PROVE LocksInv'
<1>0. /\ task \in [Tasks -> TaskState] /\ task[c] \in TaskState
      /\ c \in Tasks /\ Clients \subseteq Tasks
      /\ post \in PostState /\ lock \in LockType
  BY TaskFacts DEF Tasks, TypeInv, TypeOK, LockType
<1>t. \A x \in Tasks : x # AdvPostTask /\ x # NoTask
  BY RelayAssumption DEF RelayAssumption
<1>n. NoTask # AdvPostTask
  BY DEF NoTask, AdvPostTask
<1>1. CASE http_conn_begin(c) \/ http_conn_end(c)
  <2>1. PICK b \in BOOLEAN : task' = [task EXCEPT ![c] = [task[c] EXCEPT !.conn = b]]
    BY <1>1 DEF http_conn_begin, http_conn_end
  <2>2. [task[c] EXCEPT !.conn = b].pc = task[c].pc
    BY <1>0 DEF TaskState
  <2>3. \A d \in Clients : task'[d].pc = task[d].pc
    BY <1>0, <2>1, <2>2
  <2>4. /\ post' = post /\ lock'.request = lock.request
        /\ lock'.mutex = AdvPostTask <=> lock.mutex = AdvPostTask
    BY <1>0, <1>1, <1>t, <1>n DEF http_conn_begin, http_conn_end, LockType
  <2> QED
    BY <2>3, <2>4 DEF LocksInv, LocksBelongToRequest, HttpInProgress, RequestOK, RelayingOK
<1>2. CASE client_suspend(c)
  <2>1. PICK chans \in Suspensions : Suspend(c, chans)
    BY <1>2, Zenon DEF client_suspend
  <2>2. chans \in SUBSET Channels
    BY RelayAssumption DEF RelayAssumption, Channels
  <2>3. task'[c].pc \in {"ready", "set"} /\ \A d \in Tasks : d # c => task'[d] = task[d]
    BY <1>0, <2>1, <2>2, SuspendFacts
  <2>4. UNCHANGED <<post, lock>>
    BY <1>2 DEF client_suspend, postVars
  <2>5. \A d \in Clients : task'[d].pc \in Requesting => task[d].pc \in Requesting
    BY <1>0, <2>3 DEF Requesting
  <2> QED
    BY <2>4, <2>5, LocksKept
<1>3. CASE client_resume(c)
  <2>1. Resume(c) /\ task[c].held # <<>>
    BY <1>0, <1>3 DEF client_resume, TypeInv, HeldOK
  <2>2. task'[c].pc \in {"ready", "set", "idle"} /\ \A d \in Tasks : d # c => task'[d] = task[d]
    BY <1>0, <2>1, ResumeFacts
  <2>3. UNCHANGED <<post, lock>>
    BY <1>3 DEF client_resume, postVars
  <2>4. \A d \in Clients : task'[d].pc \in Requesting => task[d].pc \in Requesting
    BY <1>0, <2>2 DEF Requesting
  <2> QED
    BY <2>3, <2>4, LocksKept
<1>4. ASSUME lock.request = NoTask, lock' = [lock EXCEPT !.request = c],
             post'.in_progress = post.in_progress,
             post'.relaying_enabled = post.relaying_enabled,
             \A d \in Clients : d # c => task'[d] = task[d]
      PROVE  LocksInv'
  <2>1. lock'.request = c /\ lock'.mutex = lock.mutex
    BY <1>0, <1>4 DEF LockType
  <2>2. lock.mutex # AdvPostTask
    BY <1>4, <1>n DEF LocksInv, LocksBelongToRequest
  <2>3. LocksBelongToRequest' /\ RelayingOK'
    BY <1>0, <1>4, <1>t, <2>1, <2>2 DEF LocksInv, LocksBelongToRequest, RelayingOK
  <2>4. \A d \in Clients : d # c => task[d].pc \notin Requesting
    BY <1>0, <1>4, <1>t DEF LocksInv, RequestOK
  <2>5. RequestOK'
    BY <1>4, <2>1, <2>4 DEF RequestOK
  <2> QED
    BY <2>3, <2>5 DEF LocksInv
<1>5. CASE http_request(c)
  <2>1. \/ UNCHANGED <<lock, post, task>>
        \/ /\ lock.request = NoTask /\ lock' = [lock EXCEPT !.request = c]
           /\ \E a : post' = [post EXCEPT !.action = a]
           /\ \E pc : task' = [task EXCEPT ![c].pc = pc]
    BY <1>5 DEF http_request, RequestAsserts
  <2>2. CASE UNCHANGED <<lock, post, task>>
    BY <2>2, LocksKept
  <2>3. ASSUME lock.request = NoTask, lock' = [lock EXCEPT !.request = c],
               NEW a, post' = [post EXCEPT !.action = a],
               NEW pc, task' = [task EXCEPT ![c].pc = pc]
        PROVE  LocksInv'
    <3>1. /\ post'.in_progress = post.in_progress
          /\ post'.relaying_enabled = post.relaying_enabled
      BY <1>0, <2>3 DEF PostState
    <3>2. \A d \in Clients : d # c => task'[d] = task[d]
      BY <1>0, <2>3
    <3> QED
      BY <1>4, <2>3, <3>1, <3>2
  <2> QED
    BY <2>1, <2>2, <2>3
<1>6. CASE http_check_mqtt(c)
  <2>1. /\ post' = post
        /\ \/ UNCHANGED <<lock, task>>
           \/ /\ lock.request = NoTask /\ lock' = [lock EXCEPT !.request = c]
              /\ task' = [task EXCEPT ![c].pc = "mqtt_check"]
    BY <1>6 DEF http_check_mqtt
  <2>2. CASE UNCHANGED <<lock, task>>
    BY <2>1, <2>2, LocksKept
  <2>3. CASE /\ lock.request = NoTask /\ lock' = [lock EXCEPT !.request = c]
             /\ task' = [task EXCEPT ![c].pc = "mqtt_check"]
    <3>1. \A d \in Clients : d # c => task'[d] = task[d]
      BY <1>0, <2>3
    <3> QED
      BY <1>4, <2>1, <2>3, <3>1
  <2> QED
    BY <2>1, <2>2, <2>3
<1>7. CASE http_request_done(c) \/ http_check_mqtt_done(c)
  <2>1. /\ task[c].pc \in Requesting /\ post' = post
        /\ lock' = [lock EXCEPT !.request = NoTask]
        /\ task' = [task EXCEPT ![c] = [task[c] EXCEPT !.pc = "ready"]]
    BY <1>7 DEF http_request_done, http_check_mqtt_done, Requesting
  <2>2. lock.request = c
    BY <2>1 DEF LocksInv, RequestOK
  <2>3. lock'.request = NoTask /\ lock'.mutex = lock.mutex
    BY <1>0, <2>1 DEF LockType
  <2>4. LocksBelongToRequest' /\ RelayingOK'
    BY <1>0, <1>t, <1>n, <2>1, <2>2, <2>3 DEF LocksInv, LocksBelongToRequest, RelayingOK
  <2>5. [task[c] EXCEPT !.pc = "ready"].pc = "ready"
    BY <1>0 DEF TaskState
  <2>6. task'[c].pc = "ready" /\ \A d \in Tasks : d # c => task'[d] = task[d]
    BY <1>0, <2>1, <2>5
  <2>7. \A d \in Clients : d # c => task[d].pc \notin Requesting
    BY <2>2 DEF LocksInv, RequestOK
  <2>8. RequestOK'
    BY <1>0, <2>6, <2>7 DEF RequestOK, Requesting
  <2> QED
    BY <2>4, <2>8 DEF LocksInv
<1> QED
  BY <1>1, <1>2, <1>3, <1>5, <1>6, <1>7 DEF Client

\* Every step keeps the hold on the request.
LEMMA LocksInductive == ASSUME TypeInv, LocksInv, [Next]_vars PROVE LocksInv'
<1>0. Main \in Tasks /\ Main \notin Clients /\ Clients \subseteq Tasks
  BY RelayAssumption DEF RelayAssumption, Tasks
<1>1. CASE AdvPost
  BY <1>1, AdvPostLocks
<1>2. CASE \E c \in Tasks : Notifying(c)
  BY <1>2, NotifyingLocks
<1>3. CASE \E c \in Clients : Client(c) \/ wait_timeout(c)
  BY <1>0, <1>3, ClientLocks, NotifyingLocks
<1>4. CASE activate_cfg_mode
  <2>1. Suspend(Main, Channels) /\ UNCHANGED <<post, lock>>
    BY <1>4 DEF activate_cfg_mode, postVars
  <2>2. \A d \in Tasks : d # Main => task'[d] = task[d]
    BY <1>0, <2>1, SuspendFacts
  <2> QED
    BY <1>0, <2>1, <2>2, LocksKept
<1>5. CASE deactivate_cfg_mode
  <2>1. Resume(Main) /\ task[Main].held # <<>> /\ UNCHANGED <<post, lock>>
    BY <1>5 DEF deactivate_cfg_mode, postVars
  <2>2. \A d \in Tasks : d # Main => task'[d] = task[d]
    BY <1>0, <2>1, ResumeFacts
  <2> QED
    BY <1>0, <2>1, <2>2, LocksKept
<1>6. CASE MainHandlers \/ Environment \/ UNCHANGED vars
  <2>1. UNCHANGED <<post, lock, task>>
    BY <1>6 DEF MainHandlers, main_relaying_mode_changed_read, main_relaying_mode_changed_clear,
                main_restart_services, Environment, DoAsyncCommTimer, PeriodicTimer, Network,
                TimeSync, NewCfg, postVars, vars
  <2> QED
    BY <2>1, LocksKept
<1> QED
  BY <1>1, <1>2, <1>3, <1>4, <1>5, <1>6 DEF Next

\* The hold on the request, for every number of tasks that suspend, wait, time
\* out and request, whatever channels they suspend.
LEMMA Locks == Spec => []LocksInv
<1>1. Init => LocksInv
  BY DEF Init, LocksInv, LocksBelongToRequest, RequestOK, RelayingOK, Requesting, IdleTask,
         AdvPostTask, NoTask, Tasks
<1> QED
  BY InitTypeInv, NextTypeInv, LocksInductive, <1>1, PTL DEF Spec

\* adv_post never keeps the request or the http_server mutex without a
\* transmission of its own, nor one without the other, also when transmissions
\* are aborted and other tasks' requests meet them.
THEOREM LocksFollowRequest == Spec => []LocksBelongToRequest
<1>1. LocksInv => LocksBelongToRequest
  BY DEF LocksInv
<1> QED
  BY Locks, <1>1, PTL

\* No transmission goes on or starts once adv_post has been told that relaying
\* is suspended, for every number of tasks, nested suspensions, timeouts and
\* switches to the configuration mode.
THEOREM SuspensionIsQuiet == Spec => []SuspendedIsQuiet
<1>1. TypeOK /\ RelayingModeIsFresh /\ LocksInv => SuspendedIsQuiet
  BY DEF TypeOK, Channels, RelayingModeIsFresh, LocksInv, RelayingOK, SuspendedIsQuiet
<1> QED
  BY TypeCorrect, ModeIsFresh, Locks, <1>1, PTL
=============================================================================
