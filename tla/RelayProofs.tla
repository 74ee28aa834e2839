---------------------------- MODULE RelayProofs -----------------------------
(* Proofs about Relay, for every set of clients, targets and events.       *)
EXTENDS Relay, TLAPS, SequenceTheorems

\* A task that is past its suspension has one that it has not resumed.
HeldOK == \A c \in Tasks : task[c].pc \in {"ready", "busy", "download", "mqtt_check"} => task[c].held # <<>>

TypeInv == TypeOK /\ HeldOK

\* The start satisfies the type invariant.
LEMMA InitTypeInv == Init => TypeInv
<1> SUFFICES ASSUME Init PROVE TypeInv
  OBVIOUS
<1>1. IdleTask \in TaskState
  BY DEF IdleTask, TaskState
<1>2. /\ sigs \subseteq Signals /\ batch \subseteq Signals /\ clearing \in BOOLEAN
      /\ async_timer \in BOOLEAN /\ periodic \subseteq Targets /\ mutex_used \in BOOLEAN
  <2>1. {SIG_GW_CFG_READY, SIG_NETWORK_CONNECTED} \subseteq Signals
    BY DEF Signals, SIG_GW_CFG_READY, SIG_NETWORK_CONNECTED
  <2>2. sigs \subseteq {SIG_GW_CFG_READY, SIG_NETWORK_CONNECTED}
    BY DEF Init
  <2>3. batch \subseteq Signals /\ clearing \in BOOLEAN /\ async_timer \in BOOLEAN
        /\ periodic \subseteq Targets /\ mutex_used \in BOOLEAN
    BY DEF Init
  <2> QED
    BY <2>1, <2>2, <2>3
<1>3. post \in PostState
  BY RelayAssumption DEF Init, PostState, RelayAssumption
<1>4. lock \in [mutex : Owners, request : Owners]
  BY DEF Init, Owners
<1>5. /\ cnt \in [Channels -> Nat] /\ cmd \in [Channels -> BOOLEAN]
      /\ task \in [Tasks -> TaskState]
  BY <1>1 DEF Init
<1>6. mqtt_client \in BOOLEAN /\ time_ok \in BOOLEAN /\ online \in BOOLEAN
  <2>1. /\ mqtt_client = ("mqtt" \in targets) /\ time_ok = ("time" \notin Events)
        /\ online = ("network" \notin Events)
    BY Zenon DEF Init
  <2> QED
    BY <2>1
<1>7. /\ main_sigs \subseteq {"relaying_mode_changed", "restart_services"}
      /\ main_clearing \in BOOLEAN
      /\ targets \subseteq Targets /\ changes \in Nat
      /\ failed \subseteq {"request", "relaying", "tls_buf", "owner", "unlock"}
  BY RelayAssumption DEF Init, RelayAssumption
<1>8. HeldOK
  BY DEF Init, HeldOK, IdleTask
<1> QED
  BY <1>2, <1>3, <1>4, <1>5, <1>6, <1>7, <1>8 DEF TypeInv, TypeOK

\* Suspending and resuming keep counters and tasks in their types.
LEMMA SuspendType ==
  ASSUME TypeInv, NEW c \in Tasks, NEW chans \in SUBSET Channels, Suspend(c, chans)
  PROVE  cnt' \in [Channels -> Nat] /\ task' \in [Tasks -> TaskState] /\ HeldOK'
<1> DEFINE notify == {ch \in Channels : ch \in chans /\ cnt[ch] = 0}
           new == [task[c] EXCEPT !.held = Append(@, chans), !.notify = notify,
                                  !.pc = IF notify = {} THEN "ready" ELSE "set"]
<1>1. task[c] \in TaskState /\ cnt \in [Channels -> Nat] /\ task \in [Tasks -> TaskState]
  BY DEF TypeInv, TypeOK
<1>2. cnt' \in [Channels -> Nat]
  <2>1. cnt' = [ch \in Channels |-> IF ch \in chans THEN cnt[ch] + 1 ELSE cnt[ch]]
    BY Zenon DEF Suspend
  <2> QED
    BY <1>1, <2>1
<1>3. Append(task[c].held, chans) \in Seq(SUBSET Channels) /\ Append(task[c].held, chans) # <<>>
  <2>1. task[c].held \in Seq(SUBSET Channels)
    BY <1>1 DEF TaskState
  <2> QED
    BY <2>1, AppendProperties
<1>4. new \in TaskState /\ new.held # <<>>
  BY <1>1, <1>3 DEF TaskState
<1>5. task' = [task EXCEPT ![c] = new]
  BY DEF Suspend
<1> HIDE DEF new
<1>6. task' \in [Tasks -> TaskState]
  BY <1>1, <1>4, <1>5
<1>7. HeldOK'
  BY <1>1, <1>4, <1>5 DEF HeldOK, TypeInv
<1> QED
  BY <1>2, <1>6, <1>7

\* Resuming what is held keeps the counters natural numbers.
LEMMA ResumeType ==
  ASSUME TypeInv, NEW c \in Tasks, task[c].held # <<>>, Resume(c)
  PROVE  cnt' \in [Channels -> Nat] /\ task' \in [Tasks -> TaskState] /\ HeldOK'
<1> DEFINE held == task[c].held
           rest == SubSeq(held, 1, Len(held) - 1)
           notify == {ch \in Channels : ch \in held[Len(held)] /\ cnt[ch] = 1}
           new == [task[c] EXCEPT !.held = rest, !.notify = notify,
                                  !.pc = IF notify = {} THEN After(rest) ELSE "set"]
<1>1. task[c] \in TaskState /\ cnt \in [Channels -> Nat] /\ task \in [Tasks -> TaskState]
  BY DEF TypeInv, TypeOK
<1>2. cnt' \in [Channels -> Nat]
  <2>1. cnt' = [ch \in Channels |-> IF ch \in held[Len(held)] /\ cnt[ch] > 0
                                   THEN cnt[ch] - 1 ELSE cnt[ch]]
    BY Zenon DEF Resume
  <2> QED
    BY <1>1, <2>1
<1>3. held \in Seq(SUBSET Channels) /\ Len(held) \in Nat \ {0}
  BY <1>1, EmptySeq, LenProperties DEF TaskState
<1>4. rest \in Seq(SUBSET Channels)
  BY <1>3, SubSeqProperties
<1>5. After(rest) \in {"idle", "ready"} /\ (After(rest) = "ready" => rest # <<>>)
  BY DEF After
<1> HIDE DEF rest
<1>6. new \in TaskState /\ (new.pc \in {"ready", "busy", "download", "mqtt_check"} => new.held # <<>>)
  BY <1>1, <1>4, <1>5 DEF TaskState
<1>7. task' = [task EXCEPT ![c] = new]
  BY DEF Resume, rest
<1> HIDE DEF new
<1>8. task' \in [Tasks -> TaskState] /\ HeldOK'
  BY <1>1, <1>6, <1>7 DEF HeldOK, TypeInv
<1> QED
  BY <1>2, <1>8

-----------------------------------------------------------------------------
LockType == [mutex : Owners, request : Owners]
Failures == {"request", "relaying", "tls_buf", "owner", "unlock"}

\* The signals that are sent are known ones.
LEMMA KnownSignals ==
  /\ {SIG_NETWORK_DISCONNECTED, SIG_NETWORK_CONNECTED, SIG_TIME_SYNCHRONIZED,
      SIG_DO_ASYNC_COMM, SIG_RELAYING_MODE_CHANGED, SIG_GW_CFG_CHANGED_RUUVI,
      SIG_CFG_MODE_DEACTIVATED} \subseteq Signals
  /\ \A t \in Targets : SIG_RETRANSMIT[t] \in 4..7
  /\ 4..7 \subseteq Signals
  BY DEF Signals, Targets, SIG_RETRANSMIT, SIG_NETWORK_DISCONNECTED, SIG_NETWORK_CONNECTED,
         SIG_TIME_SYNCHRONIZED, SIG_DO_ASYNC_COMM, SIG_RELAYING_MODE_CHANGED,
         SIG_GW_CFG_CHANGED_RUUVI, SIG_CFG_MODE_DEACTIVATED

\* Serving a pending target, from any state that a finished transmission leaves.
LEMMA SendNextType ==
  ASSUME TypeInv, NEW p \in PostState, NEW lk \in LockType, SendNext(p, lk)
  PROVE  /\ post' \in PostState /\ lock' \in LockType /\ sigs' \subseteq Signals
         /\ async_timer' \in BOOLEAN /\ failed' \subseteq Failures
<1> USE DEF LockType, Failures
<1>1. sigs \subseteq Signals /\ async_timer \in BOOLEAN /\ failed \subseteq Failures
  BY DEF TypeInv, TypeOK
<1>2. CASE ~p.relaying_enabled \/ p.need = {}
  BY <1>1, <1>2 DEF SendNext
<1>3. CASE ~(~p.relaying_enabled \/ p.need = {})
  <2>1. PICK t \in p.need :
          IF t = "mqtt" THEN StartMqtt(p, lk)
          ELSE (NotSent(t, p, lk) \/ Sent(t, p, lk)) /\ UNCHANGED sigs
    BY <1>3, Zenon DEF SendNext
  <2>2. async_timer' = TRUE
    BY <1>3, Zenon DEF SendNext
  <2>3. t \in Targets
    BY <2>1 DEF PostState
  <2>4. CASE StartMqtt(p, lk)
    <3>1. lock' = lk /\ failed' = failed
      BY <2>4, Zenon DEF StartMqtt
    <3>2. sigs' \subseteq Signals
      <4>1. sigs' = sigs \/ sigs' = sigs \cup {SIG_DO_ASYNC_COMM}
        BY <2>4, Zenon DEF StartMqtt
      <4> QED
        BY <1>1, <4>1, KnownSignals
    <3>3. post' \in PostState
      <4>1. \/ post' = [p EXCEPT !.need = @ \ {"mqtt"}]
            \/ post' = p
            \/ \E n \in 1..MaxAdvs :
                 post' = [p EXCEPT !.action = "mqtt", !.in_progress = TRUE,
                                   !.need = @ \ {"mqtt"}, !.reports_mqtt = n]
        BY <2>4, Zenon DEF StartMqtt
      <4>2. MaxAdvs \in Nat
        BY RelayAssumption DEF RelayAssumption
      <4>3. ASSUME NEW n \in 1..MaxAdvs
            PROVE  [p EXCEPT !.action = "mqtt", !.in_progress = TRUE,
                             !.need = @ \ {"mqtt"}, !.reports_mqtt = n] \in PostState
        <5>1. n \in 0..MaxAdvs /\ "mqtt" \in Targets
          BY <4>2 DEF Targets
        <5> QED
          BY <5>1 DEF PostState
      <4>4. [p EXCEPT !.need = @ \ {"mqtt"}] \in PostState
        BY DEF PostState
      <4> QED
        BY <4>1, <4>3, <4>4
    <3> QED
      BY <1>1, <2>2, <3>1, <3>2, <3>3
  <2>5. CASE NotSent(t, p, lk) /\ UNCHANGED sigs
    <3>1. post' = p \/ post' = [p EXCEPT !.need = @ \ {t}]
      BY <2>5, Zenon DEF NotSent
    <3>2. lock' = lk /\ failed' = failed /\ sigs' = sigs
      BY <2>5, Zenon DEF NotSent
    <3>3. post' \in PostState
      BY <3>1 DEF PostState
    <3> QED
      BY <1>1, <2>2, <3>2, <3>3
  <2>6. CASE Sent(t, p, lk) /\ UNCHANGED sigs
    <3>1. /\ \/ post' = p
             \/ post' = [p EXCEPT !.action = t, !.in_progress = TRUE, !.need = @ \ {t}]
             \/ post' = [p EXCEPT !.action = "NONE", !.need = @ \ {t}]
          /\ lock' = lk \/ lock' = [mutex |-> AdvPostTask, request |-> AdvPostTask]
          /\ failed' = failed \/ failed' = failed \cup {"request"}
          /\ sigs' = sigs
      BY <2>6, Zenon DEF Sent
    <3>2. post' \in PostState
      BY <2>3, <3>1 DEF PostState
    <3>3. lock' \in LockType
      BY <3>1 DEF Owners
    <3> QED
      BY <1>1, <2>2, <3>1, <3>2, <3>3
  <2> QED
    BY <2>1, <2>4, <2>5, <2>6
<1> QED
  BY <1>2, <1>3

\* The part of the type that belongs to adv_post.
PostType ==
  /\ sigs \subseteq Signals /\ batch \subseteq Signals /\ clearing \in BOOLEAN
  /\ post \in PostState /\ async_timer \in BOOLEAN /\ periodic \subseteq Targets
  /\ lock \in LockType /\ mutex_used \in BOOLEAN
  /\ cmd \in [Channels -> BOOLEAN] /\ failed \subseteq Failures

\* A step of adv_post disturbs only its own state.
LEMMA PostTypeSuffices ==
  ASSUME TypeInv, PostType', UNCHANGED <<cnt, task, mainVars, envVars>>
  PROVE  TypeInv'
<1>1. TypeOK'
  BY DEF TypeInv, TypeOK, PostType, mainVars, envVars, LockType, Failures
<1>2. HeldOK'
  BY DEF TypeInv, HeldOK
<1> QED
  BY <1>1, <1>2 DEF TypeInv

\* Types, in steps of adv_post.
LEMMA AdvPostType == ASSUME TypeInv, AdvPost PROVE TypeInv'
<1> USE DEF PostType
<1>0. PostType /\ targets \subseteq Targets /\ cnt \in [Channels -> Nat]
  BY DEF TypeInv, TypeOK, LockType, Failures
<1>1. CASE TakeSignals
  BY <1>0, <1>1, PostTypeSuffices DEF TakeSignals, postVars, statusVars
<1>2. CASE handle_sig_network_disconnected
  <2>1. [post EXCEPT !.network_connected = FALSE] \in PostState
    BY <1>0 DEF PostState
  <2> QED
    BY <1>0, <1>2, <2>1, PostTypeSuffices
    DEF handle_sig_network_disconnected, Handle, statusVars
<1>3. CASE handle_sig_network_connected
  <2>1. [post EXCEPT !.network_connected = TRUE] \in PostState /\ Relaunched \subseteq Targets
    BY <1>0 DEF PostState, Relaunched
  <2> QED
    BY <1>0, <1>3, <2>1, PostTypeSuffices
    DEF handle_sig_network_connected, Handle, statusVars
<1>4. CASE handle_sig_time_synchronized
  <2>1. Relaunched \subseteq Targets
    BY <1>0 DEF PostState, Relaunched
  <2> QED
    BY <1>0, <1>4, <2>1, PostTypeSuffices
    DEF handle_sig_time_synchronized, Handle, statusVars
<1>5. ASSUME NEW t \in Targets, handle_sig_retransmit(t) PROVE TypeInv'
  <2>1. [post EXCEPT !.need = @ \cup {t}] \in PostState
    BY <1>0 DEF PostState
  <2> QED
    BY <1>0, <1>5, <2>1, KnownSignals, PostTypeSuffices
    DEF handle_sig_retransmit, Handle, statusVars
<1>6. ASSUME NEW s, handle_sig_gw_cfg_changed(s) PROVE TypeInv'
  <2>1. [post EXCEPT !.need = (targets \ {"mqtt"}) \cup (@ \cap {"mqtt"})] \in PostState
    BY <1>0 DEF PostState
  <2>2. mutex_used' \in BOOLEAN
    BY <1>0, <1>6 DEF handle_sig_gw_cfg_changed
  <2> QED
    BY <1>0, <1>6, <2>1, <2>2, PostTypeSuffices
    DEF handle_sig_gw_cfg_changed, Handle, statusVars
<1>7. CASE relaying_mode_changed_read
  <2>1. \E a, e \in BOOLEAN :
          /\ post' = [post EXCEPT !.relaying_enabled = e, !.in_progress = @ /\ ~a]
          /\ async_timer' = (async_timer /\ ~a)
    BY <1>7 DEF relaying_mode_changed_read
  <2>2. post' \in PostState /\ async_timer' \in BOOLEAN
    BY <1>0, <2>1 DEF PostState
  <2>3. lock' \in LockType /\ failed' \subseteq Failures
    BY <1>0, <1>7 DEF relaying_mode_changed_read, LockType, Owners, Failures
  <2>4. /\ batch' \subseteq Signals /\ clearing' = TRUE
        /\ UNCHANGED <<sigs, periodic, mutex_used, cnt, cmd, task, mainVars, envVars>>
    BY <1>0, <1>7 DEF relaying_mode_changed_read, Handle, statusVars
  <2> QED
    BY <1>0, <2>2, <2>3, <2>4, PostTypeSuffices
<1>8. CASE relaying_mode_changed_clear
  BY <1>0, <1>8, PostTypeSuffices DEF relaying_mode_changed_clear, postVars, Channels
<1>9. CASE do_async_comm_idle
  <2>1. /\ SendNext(post, lock) /\ batch' \subseteq Signals
        /\ UNCHANGED <<clearing, periodic, mutex_used, cnt, cmd, task, mainVars, envVars>>
    BY <1>0, <1>9 DEF do_async_comm_idle, Handle, statusVars
  <2> QED
    BY <1>0, <2>1, SendNextType, PostTypeSuffices
<1>10. CASE do_async_comm_http_busy
  BY <1>0, <1>10, PostTypeSuffices
  DEF do_async_comm_http_busy, Handle, statusVars, Failures
<1>11. CASE do_async_comm_http_done
  <2> DEFINE p == [post EXCEPT !.in_progress = FALSE, !.need = @ \ {post.action},
                               !.action = "NONE"]
             lk == [mutex |-> NoTask, request |-> NoTask]
  <2>1. p \in PostState /\ lk \in LockType
    BY <1>0 DEF PostState, LockType, Owners
  <2>2. /\ SendNext(p, lk) /\ batch' \subseteq Signals /\ periodic' \subseteq Targets
        /\ UNCHANGED <<clearing, mutex_used, cnt, cmd, task, mainVars, envVars>>
    BY <1>0, <1>11 DEF do_async_comm_http_done, Handle, statusVars, Targets
  <2> HIDE DEF p, lk
  <2> QED
    BY <1>0, <2>1, <2>2, SendNextType, PostTypeSuffices
<1>12. CASE do_async_comm_mqtt_next
  <2>1. [post EXCEPT !.reports_mqtt = @ - 1] \in PostState
    BY <1>0, <1>12, RelayAssumption
    DEF do_async_comm_mqtt_next, PostState, RelayAssumption
  <2> QED
    BY <1>0, <1>12, <2>1, PostTypeSuffices DEF do_async_comm_mqtt_next, Handle, statusVars
<1>13. CASE do_async_comm_mqtt_done
  <2> DEFINE p == [post EXCEPT !.in_progress = FALSE, !.reports_mqtt = 0]
  <2>0. 0 \in 0..MaxAdvs
    BY RelayAssumption DEF RelayAssumption
  <2>1. p \in PostState
    BY <1>0, <2>0 DEF PostState
  <2>2. /\ SendNext(p, lock) /\ batch' \subseteq Signals
        /\ UNCHANGED <<clearing, periodic, mutex_used, cnt, cmd, task, mainVars, envVars>>
    BY <1>0, <1>13 DEF do_async_comm_mqtt_done, Handle, statusVars
  <2> HIDE DEF p
  <2> QED
    BY <1>0, <2>1, <2>2, SendNextType, PostTypeSuffices
<1> QED
  BY <1>1, <1>2, <1>3, <1>4, <1>5, <1>6, <1>7, <1>8, <1>9, <1>10, <1>11, <1>12, <1>13
  DEF AdvPost, do_async_comm

-----------------------------------------------------------------------------
\* One task moves on.
LEMMA TaskUpdate ==
  ASSUME TypeInv, NEW c \in Tasks, NEW new \in TaskState,
         new.pc \in {"ready", "busy", "download", "mqtt_check"} => new.held # <<>>,
         task' = [task EXCEPT ![c] = new]
  PROVE  task' \in [Tasks -> TaskState] /\ HeldOK'
<1>1. task \in [Tasks -> TaskState] /\ HeldOK
  BY DEF TypeInv, TypeOK
<1> QED
  BY <1>1 DEF HeldOK

\* After a resumption a task is idle or still holds a suspension.
LEMMA AfterType ==
  ASSUME NEW held
  PROVE  After(held) \in {"idle", "ready"} /\ (After(held) = "ready" => held # <<>>)
  BY DEF After

\* Types, while a task raises bits, notifies and waits.
LEMMA NotifyingType ==
  ASSUME TypeInv, NEW c \in Tasks, Notifying(c) \/ wait_timeout(c) PROVE TypeInv'
<1>0. task[c] \in TaskState /\ TypeOK /\ HeldOK
  BY DEF TypeInv, TypeOK
<1>a. After(task[c].held) \in {"idle", "ready"}
      /\ (After(task[c].held) = "ready" => task[c].held # <<>>)
  BY AfterType
<1>1. CASE set_relaying_cmd(c)
  <2> DEFINE new == [task[c] EXCEPT !.pc = "notify"]
  <2>1. new \in TaskState /\ new.pc = "notify"
    BY <1>0 DEF TaskState
  <2>2. task' = [task EXCEPT ![c] = new]
    BY <1>1 DEF set_relaying_cmd
  <2>3. task' \in [Tasks -> TaskState] /\ HeldOK'
    <3> HIDE DEF new
    <3> QED
      BY <2>1, <2>2, TaskUpdate
  <2>4. cmd' \in [Channels -> BOOLEAN]
    BY <1>0, <1>1 DEF set_relaying_cmd, TypeOK
  <2> HIDE DEF new
  <2> QED
    BY <1>0, <1>1, <2>3, <2>4
    DEF set_relaying_cmd, TypeInv, TypeOK, postVars, mainVars, envVars
<1>2. CASE notify_relaying_mode_changed(c)
  <2> DEFINE new == IF c = Main
                    THEN [task[c] EXCEPT !.pc = After(task[c].held), !.notify = {}]
                    ELSE [task[c] EXCEPT !.pc = "wait"]
  <2>1. new \in TaskState /\ (new.pc \in {"ready", "busy", "download", "mqtt_check"} => new.held # <<>>)
    BY <1>0, <1>a DEF TaskState
  <2>2. task' = [task EXCEPT ![c] = new]
    BY <1>2 DEF notify_relaying_mode_changed
  <2> HIDE DEF new
  <2>3. task' \in [Tasks -> TaskState] /\ HeldOK'
    BY <2>1, <2>2, TaskUpdate
  <2>4. sigs' \subseteq Signals
    BY <1>0, <1>2, KnownSignals DEF notify_relaying_mode_changed, TypeOK
  <2> QED
    BY <1>0, <1>2, <2>3, <2>4
    DEF notify_relaying_mode_changed, TypeInv, TypeOK, postVars, statusVars, envVars
<1>3. ASSUME NEW ch \in Channels, wait_relaying_mode_changed(c, ch) PROVE TypeInv'
  <2> DEFINE new == [task[c] EXCEPT !.notify = @ \ {ch},
                       !.pc = IF task[c].notify = {ch} THEN After(task[c].held) ELSE @]
  <2>0. task[c].pc = "wait"
    BY <1>3 DEF wait_relaying_mode_changed
  <2>1. new \in TaskState /\ (new.pc \in {"ready", "busy", "download", "mqtt_check"} => new.held # <<>>)
    BY <1>0, <1>a, <2>0 DEF TaskState
  <2>2. task' = [task EXCEPT ![c] = new]
    BY <1>3 DEF wait_relaying_mode_changed
  <2> HIDE DEF new
  <2>3. task' \in [Tasks -> TaskState] /\ HeldOK'
    BY <2>1, <2>2, TaskUpdate
  <2> QED
    BY <1>0, <1>3, <2>3
    DEF wait_relaying_mode_changed, TypeInv, TypeOK, postVars, statusVars, mainVars, envVars
<1>4. CASE wait_timeout(c)
  <2> DEFINE new == [task[c] EXCEPT !.notify = {}, !.pc = After(task[c].held)]
  <2>1. new \in TaskState /\ (new.pc \in {"ready", "busy", "download", "mqtt_check"} => new.held # <<>>)
    BY <1>0, <1>a DEF TaskState
  <2>2. task' = [task EXCEPT ![c] = new]
    BY <1>4 DEF wait_timeout
  <2> HIDE DEF new
  <2>3. task' \in [Tasks -> TaskState] /\ HeldOK'
    BY <2>1, <2>2, TaskUpdate
  <2> QED
    BY <1>0, <1>4, <2>3
    DEF wait_timeout, TypeInv, TypeOK, postVars, statusVars, mainVars, envVars
<1> QED
  BY <1>1, <1>2, <1>3, <1>4 DEF Notifying

\* Types, in the other steps of a client.
LEMMA ClientType == ASSUME TypeInv, NEW c \in Clients, Client(c) PROVE TypeInv'
<1>0. c \in Tasks /\ task[c] \in TaskState /\ TypeOK /\ HeldOK
  BY DEF TypeInv, TypeOK, Tasks
<1>1. CASE http_conn_begin(c) \/ http_conn_end(c)
  <2>1. PICK b \in BOOLEAN : task' = [task EXCEPT ![c] = [task[c] EXCEPT !.conn = b]]
    BY <1>1 DEF http_conn_begin, http_conn_end
  <2> DEFINE new == [task[c] EXCEPT !.conn = b]
  <2>2. new \in TaskState /\ (new.pc \in {"ready", "busy", "download", "mqtt_check"} => new.held # <<>>)
    BY <1>0 DEF TaskState, HeldOK
  <2> HIDE DEF new
  <2>3. task' \in [Tasks -> TaskState] /\ HeldOK'
    BY <1>0, <2>1, <2>2, TaskUpdate DEF new
  <2>4. lock' \in [mutex : Owners, request : Owners]
    BY <1>0, <1>1 DEF http_conn_begin, http_conn_end, TypeOK, Owners
  <2>5. UNCHANGED <<sigs, batch, clearing, post, async_timer, periodic, mutex_used, statusVars,
                    mainVars, envVars, failed>>
    BY <1>1, Zenon DEF http_conn_begin, http_conn_end
  <2> QED
    BY <1>0, <2>3, <2>4, <2>5 DEF TypeInv, TypeOK, statusVars, mainVars, envVars
<1>2. CASE client_suspend(c)
  <2>1. PICK chans \in Suspensions : Suspend(c, chans)
    BY <1>2, Zenon DEF client_suspend
  <2>2. chans \in SUBSET Channels
    BY RelayAssumption DEF RelayAssumption, Channels
  <2>3. cnt' \in [Channels -> Nat] /\ task' \in [Tasks -> TaskState] /\ HeldOK'
    BY <1>0, <2>1, <2>2, SuspendType
  <2>4. UNCHANGED <<sigs, batch, clearing, postVars, cmd, mainVars, envVars, failed>>
    BY <1>2, Zenon DEF client_suspend
  <2> QED
    BY <1>0, <2>3, <2>4 DEF TypeInv, TypeOK, postVars, mainVars, envVars
<1>3. CASE http_request(c)
  <2>1. PICK big \in BOOLEAN, a \in {post.action, "advs1", "advs2"} :
          /\ failed' = failed \cup RequestAsserts(big)
          /\ IF RequestAsserts(big) = {}
             THEN /\ lock' = [lock EXCEPT !.request = c]
                  /\ post' = [post EXCEPT !.action = a]
                  /\ task' = [task EXCEPT ![c].pc = IF big THEN "download" ELSE "busy"]
             ELSE UNCHANGED <<lock, post, task>>
    BY <1>3, Zenon DEF http_request
  <2>2. failed' \subseteq Failures
    BY <1>0, <2>1 DEF RequestAsserts, TypeOK, Failures
  <2>3. post' \in PostState
    BY <1>0, <2>1 DEF TypeOK, PostState, Targets
  <2>4. lock' \in LockType
    BY <1>0, <2>1 DEF TypeOK, LockType, Owners
  <2>5. task' \in [Tasks -> TaskState] /\ HeldOK'
    <3> DEFINE new == [task[c] EXCEPT !.pc = IF big THEN "download" ELSE "busy"]
    <3>1. task[c].pc = "ready"
      BY <1>3, Zenon DEF http_request
    <3>2. new \in TaskState /\ new.held # <<>>
      BY <1>0, <3>1 DEF TaskState, HeldOK
    <3>3. task' = task \/ task' = [task EXCEPT ![c] = new]
      BY <2>1
    <3> HIDE DEF new
    <3>4. CASE task' = task
      BY <1>0, <3>4 DEF TypeOK, HeldOK
    <3>5. CASE task' = [task EXCEPT ![c] = new]
      BY <1>0, <3>2, <3>5, TaskUpdate
    <3> QED
      BY <3>3, <3>4, <3>5
  <2>6. UNCHANGED <<sigs, batch, clearing, async_timer, periodic, mutex_used, statusVars,
                    mainVars, envVars>>
    BY <1>3, Zenon DEF http_request
  <2> QED
    BY <1>0, <2>2, <2>3, <2>4, <2>5, <2>6
    DEF TypeInv, TypeOK, LockType, Failures, statusVars, mainVars, envVars
<1>4. CASE http_request_done(c)
  <2> DEFINE new == [task[c] EXCEPT !.pc = "ready"]
  <2>1. new \in TaskState /\ new.held # <<>>
    BY <1>0, <1>4 DEF http_request_done, TaskState, HeldOK
  <2>2. task' = [task EXCEPT ![c] = new]
    BY <1>4 DEF http_request_done
  <2> HIDE DEF new
  <2>3. task' \in [Tasks -> TaskState] /\ HeldOK'
    BY <1>0, <2>1, <2>2, TaskUpdate
  <2>4. lock' \in LockType
    BY <1>0, <1>4 DEF http_request_done, TypeOK, LockType, Owners
  <2> QED
    BY <1>0, <1>4, <2>3, <2>4
    DEF http_request_done, TypeInv, TypeOK, LockType, statusVars, mainVars, envVars
<1>6. CASE http_check_mqtt(c)
  <2> DEFINE new == [task[c] EXCEPT !.pc = "mqtt_check"]
  <2>1. new \in TaskState /\ new.held # <<>>
    BY <1>0, <1>6 DEF http_check_mqtt, TaskState, HeldOK
  <2>2. task' = task \/ task' = [task EXCEPT ![c] = new]
    BY <1>6 DEF http_check_mqtt
  <2>3. task' \in [Tasks -> TaskState] /\ HeldOK'
    <3> HIDE DEF new
    <3>1. CASE task' = task
      BY <1>0, <3>1 DEF TypeOK, HeldOK
    <3>2. CASE task' = [task EXCEPT ![c] = new]
      BY <1>0, <2>1, <3>2, TaskUpdate
    <3> QED
      BY <2>2, <3>1, <3>2
  <2>4. lock' \in LockType /\ mqtt_client' \in BOOLEAN /\ failed' \subseteq Failures
    BY <1>0, <1>6 DEF http_check_mqtt, TypeOK, LockType, Owners, Failures
  <2>5. UNCHANGED <<sigs, batch, clearing, post, async_timer, periodic, mutex_used, statusVars,
                    main_sigs, main_clearing, envVars>>
    BY <1>6, Zenon DEF http_check_mqtt
  <2> QED
    BY <1>0, <2>3, <2>4, <2>5 DEF TypeInv, TypeOK, LockType, Failures, statusVars, envVars
<1>7. CASE http_check_mqtt_done(c)
  <2> DEFINE new == [task[c] EXCEPT !.pc = "ready"]
  <2>1. new \in TaskState /\ new.held # <<>>
    BY <1>0, <1>7 DEF http_check_mqtt_done, TaskState, HeldOK
  <2>2. task' = [task EXCEPT ![c] = new]
    BY <1>7 DEF http_check_mqtt_done
  <2> HIDE DEF new
  <2>3. task' \in [Tasks -> TaskState] /\ HeldOK'
    BY <1>0, <2>1, <2>2, TaskUpdate
  <2>4. lock' \in LockType
    BY <1>0, <1>7 DEF http_check_mqtt_done, TypeOK, LockType, Owners
  <2> QED
    BY <1>0, <1>7, <2>3, <2>4
    DEF http_check_mqtt_done, TypeInv, TypeOK, LockType, statusVars, envVars
<1>5. CASE client_resume(c)
  <2>1. task[c].held # <<>> /\ Resume(c)
    BY <1>0, <1>5 DEF client_resume, HeldOK
  <2>2. cnt' \in [Channels -> Nat] /\ task' \in [Tasks -> TaskState] /\ HeldOK'
    BY <1>0, <2>1, ResumeType
  <2>3. UNCHANGED <<sigs, batch, clearing, postVars, cmd, mainVars, envVars, failed>>
    BY <1>5, Zenon DEF client_resume
  <2> QED
    BY <1>0, <2>2, <2>3 DEF TypeInv, TypeOK, postVars, mainVars, envVars
<1> QED
  BY <1>1, <1>2, <1>3, <1>4, <1>5, <1>6, <1>7 DEF Client

\* Types, in steps of the main task.
LEMMA MainType ==
  ASSUME TypeInv, MainHandlers \/ activate_cfg_mode \/ deactivate_cfg_mode PROVE TypeInv'
<1>0. Main \in Tasks /\ TypeOK /\ HeldOK
  BY DEF TypeInv, Tasks
<1>1. CASE main_relaying_mode_changed_read
  <2>1. mqtt_client' \in BOOLEAN /\ failed' \subseteq Failures
    BY <1>0, <1>1 DEF main_relaying_mode_changed_read, MqttStart, MqttStop, TypeOK, Failures
  <2> QED
    BY <1>0, <1>1, <2>1
    DEF main_relaying_mode_changed_read, TypeInv, TypeOK, HeldOK, Failures, postVars, statusVars,
        envVars
<1>2. CASE main_relaying_mode_changed_clear
  <2>1. cmd' \in [Channels -> BOOLEAN]
    BY <1>0, <1>2 DEF main_relaying_mode_changed_clear, TypeOK, Channels
  <2> QED
    BY <1>0, <1>2, <2>1
    DEF main_relaying_mode_changed_clear, TypeInv, TypeOK, HeldOK, postVars, envVars
<1>3. CASE main_restart_services
  <2>1. mqtt_client' \in BOOLEAN /\ failed' \subseteq Failures
    BY <1>0, <1>3 DEF main_restart_services, MqttStart, MqttStop, TypeOK, Failures
  <2> QED
    BY <1>0, <1>3, <2>1
    DEF main_restart_services, TypeInv, TypeOK, HeldOK, Failures, postVars, statusVars, envVars
<1>4. CASE activate_cfg_mode
  <2>1. /\ Suspend(Main, Channels)
        /\ UNCHANGED <<sigs, batch, clearing, postVars, cmd, mainVars, targets, online, time_ok,
                       failed>>
    BY <1>4, Zenon DEF activate_cfg_mode
  <2>3. changes' \in Nat
    BY <1>0, <1>4 DEF activate_cfg_mode, OneMoreChange, TypeOK
  <2>2. cnt' \in [Channels -> Nat] /\ task' \in [Tasks -> TaskState] /\ HeldOK'
    BY <1>0, <2>1, SuspendType
  <2> QED
    BY <1>0, <2>1, <2>2, <2>3 DEF TypeInv, TypeOK, postVars, mainVars
<1>5. CASE deactivate_cfg_mode
  <2>1. /\ task[Main].held # <<>> /\ Resume(Main)
        /\ main_sigs' = main_sigs \cup {"restart_services"}
        /\ sigs' = sigs \cup {SIG_CFG_MODE_DEACTIVATED}
        /\ UNCHANGED <<batch, clearing, postVars, cmd, main_clearing, mqtt_client, envVars,
                       failed>>
    BY <1>5, Zenon DEF deactivate_cfg_mode
  <2>2. cnt' \in [Channels -> Nat] /\ task' \in [Tasks -> TaskState] /\ HeldOK'
    BY <1>0, <2>1, ResumeType
  <2> QED
    BY <1>0, <2>1, <2>2, KnownSignals DEF TypeInv, TypeOK, postVars, envVars
<1> QED
  BY <1>1, <1>2, <1>3, <1>4, <1>5 DEF MainHandlers

\* Types, in steps of the environment.
LEMMA EnvironmentType == ASSUME TypeInv, Environment PROVE TypeInv'
<1>0. TypeOK /\ HeldOK
  BY DEF TypeInv
<1> USE KnownSignals DEF TypeInv, TypeOK, HeldOK, statusVars, mainVars, envVars
<1>1. CASE DoAsyncCommTimer
  BY <1>0, <1>1 DEF DoAsyncCommTimer
<1>2. ASSUME NEW t \in Targets, PeriodicTimer(t) PROVE TypeInv'
  BY <1>0, <1>2 DEF PeriodicTimer, postVars
<1>3. CASE Network
  BY <1>0, <1>3 DEF Network, OneMoreChange, postVars
<1>4. CASE TimeSync
  BY <1>0, <1>4 DEF TimeSync, postVars
<1>5. CASE NewCfg
  BY <1>0, <1>5, RelayAssumption DEF NewCfg, OneMoreChange, postVars, RelayAssumption
<1> QED
  BY <1>1, <1>2, <1>3, <1>4, <1>5 DEF Environment

\* Every step keeps the type invariant.
LEMMA NextTypeInv == TypeInv /\ [Next]_vars => TypeInv'
<1> SUFFICES ASSUME TypeInv, [Next]_vars PROVE TypeInv'
  OBVIOUS
<1>1. CASE Next
  <2>1. CASE \E c \in Tasks : Notifying(c)
    BY <2>1, NotifyingType
  <2>2. CASE \E c \in Clients : Client(c) \/ wait_timeout(c)
    BY <2>2, ClientType, NotifyingType DEF Tasks
  <2> QED
    BY <1>1, <2>1, <2>2, AdvPostType, MainType, EnvironmentType DEF Next
<1>2. CASE UNCHANGED vars
  BY <1>2 DEF TypeInv, TypeOK, HeldOK, vars
<1> QED
  BY <1>1, <1>2

\* Every state of every instance is well typed: no counter of suspensions ever
\* goes below 0, and a task that resumes has something to resume.
THEOREM TypeCorrect == Spec => []TypeOK
<1>1. TypeInv => TypeOK
  BY DEF TypeInv
<1> QED
  BY InitTypeInv, NextTypeInv, <1>1, PTL DEF Spec

-----------------------------------------------------------------------------
(* What a step does to the notifications on their way.                     *)

\* A task has raised its command bit and not yet notified.
AboutToNotify == \E c \in Tasks : task[c].pc = "notify"

\* adv_post and the main task have been notified.
Notified == SIG_RELAYING_MODE_CHANGED \in sigs /\ "relaying_mode_changed" \in main_sigs

\* A task checks an MQTT broker inside its suspension.
Checking == \E c \in Clients : task[c].pc = "mqtt_check"

\* The MQTT client is not left running behind such a check.
MqttIsKept == mqtt_client' => Checking' \/ (mqtt_client /\ ~Checking)

\* A task that does not check a broker moves: the checks of the others go on.
LEMMA ChecksGo ==
  ASSUME TypeInv, NEW c \in Tasks, task[c].pc # "mqtt_check", NEW new,
         task' = [task EXCEPT ![c] = new]
  PROVE  Checking => Checking'
<1>1. task \in [Tasks -> TaskState] /\ Clients \subseteq Tasks
  BY DEF TypeInv, TypeOK, Tasks
<1>2. \A d \in Tasks : d # c => task'[d] = task[d]
  BY <1>1
<1> QED
  BY <1>1, <1>2 DEF Checking

\* A task that is not notifying moves: the notifications of the others stay.
LEMMA OthersStay ==
  ASSUME TypeInv, NEW c \in Tasks, task[c].pc \notin {"set", "notify"}, NEW new,
         task' = [task EXCEPT ![c] = new]
  PROVE  /\ \A ch \in Channels : Announcing(ch) => Announcing(ch)'
         /\ AboutToNotify => AboutToNotify'
<1>1. task \in [Tasks -> TaskState]
  BY DEF TypeInv, TypeOK
<1>2. \A d \in Tasks : d # c => task'[d] = task[d]
  BY <1>1
<1>3. ASSUME NEW ch \in Channels, Announcing(ch) PROVE Announcing(ch)'
  <2>1. PICK d \in Tasks : task[d].pc \in {"set", "notify"} /\ ch \in task[d].notify
    BY <1>3 DEF Announcing
  <2>2. d # c
    BY <2>1
  <2> QED
    BY <1>2, <2>1, <2>2 DEF Announcing
<1>4. ASSUME AboutToNotify PROVE AboutToNotify'
  BY <1>2, <1>4 DEF AboutToNotify
<1> QED
  BY <1>3, <1>4

\* Who makes a counter leave or reach 0 is going to notify.
LEMMA SuspendAnnounces ==
  ASSUME TypeInv, NEW c \in Tasks, task[c].pc \notin {"set", "notify"},
         NEW chans \in SUBSET Channels, Suspend(c, chans), NEW ch \in Channels
  PROVE  /\ Announcing(ch) => Announcing(ch)'
         /\ AboutToNotify => AboutToNotify'
         /\ Announcing(ch)' \/ (cnt'[ch] = 0 <=> cnt[ch] = 0)
         /\ \E new : task' = [task EXCEPT ![c] = new]
<1> DEFINE notify == {x \in Channels : x \in chans /\ cnt[x] = 0}
           new == [task[c] EXCEPT !.held = Append(@, chans), !.notify = notify,
                                  !.pc = IF notify = {} THEN "ready" ELSE "set"]
<1>1. task[c] \in TaskState /\ cnt \in [Channels -> Nat] /\ task \in [Tasks -> TaskState]
  BY DEF TypeInv, TypeOK
<1>2. task' = [task EXCEPT ![c] = new]
  BY DEF Suspend
<1>3. (Announcing(ch) => Announcing(ch)') /\ (AboutToNotify => AboutToNotify')
  <2> HIDE DEF new
  <2> QED
    BY <1>2, OthersStay
<1>4. cnt' = [x \in Channels |-> IF x \in chans THEN cnt[x] + 1 ELSE cnt[x]]
  BY Zenon DEF Suspend
<1>5. ASSUME ch \in chans, cnt[ch] = 0 PROVE Announcing(ch)'
  <2>1. ch \in notify
    BY <1>5
  <2>2. new.pc = "set" /\ new.notify = notify
    BY <1>1, <2>1 DEF TaskState
  <2>3. task'[c] = new
    BY <1>1, <1>2
  <2> HIDE DEF new, notify
  <2> QED
    BY <2>1, <2>2, <2>3 DEF Announcing
<1>6. ASSUME ~(ch \in chans /\ cnt[ch] = 0) PROVE cnt'[ch] = 0 <=> cnt[ch] = 0
  BY <1>1, <1>4, <1>6
<1> HIDE DEF new
<1> QED
  BY <1>2, <1>3, <1>5, <1>6

\* A resumption does not withdraw what others are about to announce.
LEMMA ResumeAnnounces ==
  ASSUME TypeInv, NEW c \in Tasks, task[c].pc \notin {"set", "notify"}, Resume(c),
         NEW ch \in Channels
  PROVE  /\ Announcing(ch) => Announcing(ch)'
         /\ AboutToNotify => AboutToNotify'
         /\ Announcing(ch)' \/ (cnt'[ch] = 0 <=> cnt[ch] = 0)
         /\ \E new : task' = [task EXCEPT ![c] = new]
<1> DEFINE held == task[c].held
           rest == SubSeq(held, 1, Len(held) - 1)
           chans == held[Len(held)]
           notify == {x \in Channels : x \in chans /\ cnt[x] = 1}
           new == [task[c] EXCEPT !.held = rest, !.notify = notify,
                                  !.pc = IF notify = {} THEN After(rest) ELSE "set"]
<1>1. task[c] \in TaskState /\ cnt \in [Channels -> Nat] /\ task \in [Tasks -> TaskState]
  BY DEF TypeInv, TypeOK
<1>2. task' = [task EXCEPT ![c] = new]
  BY DEF Resume
<1>3. (Announcing(ch) => Announcing(ch)') /\ (AboutToNotify => AboutToNotify')
  <2> HIDE DEF new
  <2> QED
    BY <1>2, OthersStay
<1>4. cnt' = [x \in Channels |-> IF x \in chans /\ cnt[x] > 0 THEN cnt[x] - 1 ELSE cnt[x]]
  BY Zenon DEF Resume
<1>5. ASSUME ch \in chans, cnt[ch] = 1 PROVE Announcing(ch)'
  <2>1. ch \in notify
    BY <1>5
  <2> HIDE DEF notify, rest
  <2>2. new.pc = "set" /\ new.notify = notify
    BY <1>1, <2>1 DEF TaskState
  <2>3. task'[c] = new
    BY <1>1, <1>2
  <2> HIDE DEF new
  <2> QED
    BY <2>1, <2>2, <2>3 DEF Announcing
<1>6. ASSUME ~(ch \in chans /\ cnt[ch] = 1) PROVE cnt'[ch] = 0 <=> cnt[ch] = 0
  <2> HIDE DEF chans
  <2> QED
    BY <1>1, <1>4, <1>6
<1> HIDE DEF new
<1> QED
  BY <1>2, <1>3, <1>5, <1>6

\* What every step of a client, of the environment and of the configuration
\* mode leaves to adv_post and to the handlers of the main task.
Outside ==
  /\ UNCHANGED <<batch, clearing, main_clearing>> /\ MqttIsKept
  /\ post'.relaying_enabled = post.relaying_enabled /\ post'.in_progress = post.in_progress
  /\ sigs \subseteq sigs' /\ main_sigs \subseteq main_sigs'
  /\ async_timer' = async_timer \/ SIG_DO_ASYNC_COMM \in sigs'
  /\ \/ Notified' /\ cnt' = cnt /\ cmd' = cmd
     \/ /\ \A ch \in Channels : /\ Announcing(ch) => Announcing(ch)'
                                /\ Announcing(ch)' \/ (cnt'[ch] = 0 <=> cnt[ch] = 0)
        /\ AboutToNotify => AboutToNotify'
        /\ cmd' = cmd \/ AboutToNotify'

\* Outside, while a task raises bits, notifies and waits.
LEMMA NotifyingOutside ==
  ASSUME TypeInv, NEW c \in Tasks, Notifying(c) \/ wait_timeout(c) PROVE Outside
<1>0. task \in [Tasks -> TaskState] /\ task[c] \in TaskState
  BY DEF TypeInv, TypeOK
<1>1. CASE set_relaying_cmd(c)
  <2>1. task'[c].pc = "notify" /\ task'[c].notify = task[c].notify
    BY <1>0, <1>1 DEF set_relaying_cmd, TaskState
  <2>2. \A d \in Tasks : d # c => task'[d] = task[d]
    BY <1>0, <1>1 DEF set_relaying_cmd
  <2>3. \A ch \in Channels : Announcing(ch) => Announcing(ch)'
    BY <2>1, <2>2 DEF Announcing
  <2>4. AboutToNotify'
    BY <2>1 DEF AboutToNotify
  <2>5. UNCHANGED <<sigs, batch, clearing, postVars, cnt, mainVars>>
    BY <1>1, Zenon DEF set_relaying_cmd
  <2>6. Checking => Checking'
    BY <1>1, ChecksGo DEF set_relaying_cmd
  <2> QED
    BY <2>3, <2>4, <2>5, <2>6 DEF Outside, MqttIsKept, postVars, mainVars
<1>2. CASE notify_relaying_mode_changed(c)
  <2>1. /\ sigs' = sigs \cup {SIG_RELAYING_MODE_CHANGED}
        /\ main_sigs' = main_sigs \cup {"relaying_mode_changed"}
        /\ UNCHANGED <<batch, clearing, postVars, statusVars, main_clearing, mqtt_client>>
    BY <1>2, Zenon DEF notify_relaying_mode_changed
  <2>2. task[c].pc # "mqtt_check" /\ \E new : task' = [task EXCEPT ![c] = new]
    BY <1>2 DEF notify_relaying_mode_changed
  <2>3. Checking => Checking'
    BY <2>2, ChecksGo
  <2> QED
    BY <2>1, <2>3 DEF Outside, MqttIsKept, Notified, postVars, statusVars
<1>3. ASSUME NEW ch \in Channels, wait_relaying_mode_changed(c, ch) PROVE Outside
  <2>1. /\ task[c].pc = "wait"
        /\ \E new : task' = [task EXCEPT ![c] = new]
    BY <1>3 DEF wait_relaying_mode_changed
  <2>2. /\ \A x \in Channels : Announcing(x) => Announcing(x)'
        /\ AboutToNotify => AboutToNotify'
    BY <2>1, OthersStay
  <2>3. UNCHANGED <<sigs, batch, clearing, postVars, statusVars, mainVars>>
    BY <1>3, Zenon DEF wait_relaying_mode_changed
  <2>4. Checking => Checking'
    BY <2>1, ChecksGo
  <2> QED
    BY <2>2, <2>3, <2>4 DEF Outside, MqttIsKept, postVars, statusVars, mainVars
<1>4. CASE wait_timeout(c)
  <2>1. /\ task[c].pc = "wait"
        /\ \E new : task' = [task EXCEPT ![c] = new]
    BY <1>4 DEF wait_timeout
  <2>2. /\ \A x \in Channels : Announcing(x) => Announcing(x)'
        /\ AboutToNotify => AboutToNotify'
    BY <2>1, OthersStay
  <2>3. UNCHANGED <<sigs, batch, clearing, postVars, statusVars, mainVars>>
    BY <1>4, Zenon DEF wait_timeout
  <2>4. Checking => Checking'
    BY <2>1, ChecksGo
  <2> QED
    BY <2>2, <2>3, <2>4 DEF Outside, MqttIsKept, postVars, statusVars, mainVars
<1> QED
  BY <1>1, <1>2, <1>3, <1>4 DEF Notifying

\* Outside, in the other steps of a client.
LEMMA ClientOutside == ASSUME TypeInv, NEW c \in Clients, Client(c) PROVE Outside
<1>0. c \in Tasks /\ task[c] \in TaskState /\ post \in PostState
  BY DEF TypeInv, TypeOK, Tasks
<1>1. CASE http_conn_begin(c) \/ http_conn_end(c) \/ http_request_done(c)
  <2>1. /\ task[c].pc \notin {"set", "notify", "mqtt_check"}
        /\ \E new : task' = [task EXCEPT ![c] = new]
    BY <1>1 DEF http_conn_begin, http_conn_end, http_request_done
  <2>4. Checking => Checking'
    BY <1>0, <2>1, ChecksGo
  <2>2. /\ \A x \in Channels : Announcing(x) => Announcing(x)'
        /\ AboutToNotify => AboutToNotify'
    BY <1>0, <2>1, OthersStay
  <2>3. UNCHANGED <<sigs, batch, clearing, post, async_timer, statusVars, mainVars>>
    BY <1>1, Zenon DEF http_conn_begin, http_conn_end, http_request_done
  <2> QED
    BY <2>2, <2>3, <2>4 DEF Outside, MqttIsKept, statusVars, mainVars
<1>2. CASE client_suspend(c)
  <2>1. PICK chans \in Suspensions : Suspend(c, chans)
    BY <1>2, Zenon DEF client_suspend
  <2>2. chans \in SUBSET Channels
    BY RelayAssumption DEF RelayAssumption, Channels
  <2>3. task[c].pc \notin {"set", "notify"}
    BY <1>2 DEF client_suspend
  <2>4. UNCHANGED <<sigs, batch, clearing, postVars, cmd, mainVars>>
    BY <1>2, Zenon DEF client_suspend
  <2>5. /\ \A ch \in Channels : /\ Announcing(ch) => Announcing(ch)'
                                /\ Announcing(ch)' \/ (cnt'[ch] = 0 <=> cnt[ch] = 0)
        /\ AboutToNotify => AboutToNotify'
        /\ \E new : task' = [task EXCEPT ![c] = new]
    BY <1>0, <2>1, <2>2, <2>3, SuspendAnnounces DEF Channels
  <2>6. Checking => Checking'
    <3>1. task[c].pc # "mqtt_check"
      BY <1>2 DEF client_suspend
    <3> QED
      BY <1>0, <2>5, <3>1, ChecksGo
  <2> QED
    BY <2>4, <2>5, <2>6 DEF Outside, MqttIsKept, postVars, mainVars
<1>3. CASE http_request(c)
  <2>1. task[c].pc = "ready"
    BY <1>3, Zenon DEF http_request
  <2>2. /\ task' = task \/ \E new : task' = [task EXCEPT ![c] = new]
        /\ post' = post \/ \E a : post' = [post EXCEPT !.action = a]
    BY <1>3 DEF http_request
  <2>3. /\ \A x \in Channels : Announcing(x) => Announcing(x)'
        /\ AboutToNotify => AboutToNotify'
    <3>1. CASE task' = task
      BY <3>1 DEF Announcing, AboutToNotify
    <3>2. CASE \E new : task' = [task EXCEPT ![c] = new]
      BY <1>0, <2>1, <3>2, OthersStay
    <3> QED
      BY <2>2, <3>1, <3>2
  <2>4. post'.relaying_enabled = post.relaying_enabled /\ post'.in_progress = post.in_progress
    BY <1>0, <2>2 DEF PostState
  <2>5. UNCHANGED <<sigs, batch, clearing, async_timer, statusVars, mainVars>>
    BY <1>3, Zenon DEF http_request
  <2>6. Checking => Checking'
    <3>1. CASE task' = task
      BY <3>1 DEF Checking
    <3> QED
      BY <1>0, <2>1, <2>2, <3>1, ChecksGo
  <2> QED
    BY <2>3, <2>4, <2>5, <2>6 DEF Outside, MqttIsKept, statusVars, mainVars
<1>5. CASE http_check_mqtt(c) \/ http_check_mqtt_done(c)
  <2>1. /\ task[c].pc \notin {"set", "notify"}
        /\ task' = task \/ \E new : task' = [task EXCEPT ![c] = new]
    BY <1>5 DEF http_check_mqtt, http_check_mqtt_done
  <2>2. /\ \A x \in Channels : Announcing(x) => Announcing(x)'
        /\ AboutToNotify => AboutToNotify'
    <3>1. CASE task' = task
      BY <3>1 DEF Announcing, AboutToNotify
    <3> QED
      BY <1>0, <2>1, <3>1, OthersStay
  <2>3. UNCHANGED <<sigs, batch, clearing, post, async_timer, statusVars, main_sigs,
                    main_clearing>>
    BY <1>5, Zenon DEF http_check_mqtt, http_check_mqtt_done
  <2>4. MqttIsKept
    <3>1. task \in [Tasks -> TaskState]
      BY DEF TypeInv, TypeOK
    <3>2. CASE task' = task /\ mqtt_client' = mqtt_client
      BY <3>2 DEF MqttIsKept, Checking
    <3>3. CASE task' = [task EXCEPT ![c].pc = "mqtt_check"]
      <4>1. task'[c].pc = "mqtt_check"
        BY <1>0, <3>1, <3>3 DEF TaskState
      <4> QED
        BY <4>1 DEF MqttIsKept, Checking
    <3>4. CASE mqtt_client' = FALSE
      BY <3>4 DEF MqttIsKept
    <3> QED
      BY <1>5, <3>2, <3>3, <3>4 DEF http_check_mqtt, http_check_mqtt_done
  <2> QED
    BY <2>2, <2>3, <2>4 DEF Outside, statusVars
<1>4. CASE client_resume(c)
  <2>1. task[c].pc \notin {"set", "notify"} /\ Resume(c)
    BY <1>4 DEF client_resume
  <2>2. UNCHANGED <<sigs, batch, clearing, postVars, cmd, mainVars>>
    BY <1>4, Zenon DEF client_resume
  <2>3. /\ \A ch \in Channels : /\ Announcing(ch) => Announcing(ch)'
                                /\ Announcing(ch)' \/ (cnt'[ch] = 0 <=> cnt[ch] = 0)
        /\ AboutToNotify => AboutToNotify'
        /\ \E new : task' = [task EXCEPT ![c] = new]
    BY <1>0, <2>1, ResumeAnnounces DEF Channels
  <2>4. Checking => Checking'
    <3>1. task[c].pc # "mqtt_check"
      BY <1>4 DEF client_resume
    <3> QED
      BY <1>0, <2>3, <3>1, ChecksGo
  <2> QED
    BY <2>2, <2>3, <2>4 DEF Outside, MqttIsKept, postVars, mainVars
<1> QED
  BY <1>1, <1>2, <1>3, <1>4, <1>5 DEF Client

\* Outside, when configuration mode begins or ends.
LEMMA CfgModeOutside ==
  ASSUME TypeInv, activate_cfg_mode \/ deactivate_cfg_mode PROVE Outside
<1>0. Main \in Tasks
  BY DEF Tasks
<1>1. CASE activate_cfg_mode
  <2>1. task[Main].pc \notin {"set", "notify"} /\ Suspend(Main, Channels)
    BY <1>1 DEF activate_cfg_mode, MainReady
  <2>2. UNCHANGED <<sigs, batch, clearing, postVars, cmd, mainVars>>
    BY <1>1, Zenon DEF activate_cfg_mode
  <2>3. /\ \A ch \in Channels : /\ Announcing(ch) => Announcing(ch)'
                                /\ Announcing(ch)' \/ (cnt'[ch] = 0 <=> cnt[ch] = 0)
        /\ AboutToNotify => AboutToNotify'
        /\ \E new : task' = [task EXCEPT ![Main] = new]
    BY <1>0, <2>1, SuspendAnnounces DEF Channels
  <2>4. Checking => Checking'
    <3>1. task[Main].pc # "mqtt_check"
      BY <1>1 DEF activate_cfg_mode, MainReady
    <3> QED
      BY <1>0, <2>3, <3>1, ChecksGo
  <2> QED
    BY <2>2, <2>3, <2>4 DEF Outside, MqttIsKept, postVars, mainVars
<1>2. CASE deactivate_cfg_mode
  <2>1. task[Main].pc \notin {"set", "notify"} /\ Resume(Main)
    BY <1>2 DEF deactivate_cfg_mode, MainReady
  <2>2. /\ UNCHANGED <<batch, clearing, postVars, cmd, main_clearing, mqtt_client>>
        /\ sigs \subseteq sigs' /\ main_sigs \subseteq main_sigs'
    BY <1>2 DEF deactivate_cfg_mode
  <2>3. /\ \A ch \in Channels : /\ Announcing(ch) => Announcing(ch)'
                                /\ Announcing(ch)' \/ (cnt'[ch] = 0 <=> cnt[ch] = 0)
        /\ AboutToNotify => AboutToNotify'
        /\ \E new : task' = [task EXCEPT ![Main] = new]
    BY <1>0, <2>1, ResumeAnnounces DEF Channels
  <2>4. Checking => Checking'
    <3>1. task[Main].pc # "mqtt_check"
      BY <1>2 DEF deactivate_cfg_mode, MainReady
    <3> QED
      BY <1>0, <2>3, <3>1, ChecksGo
  <2> QED
    BY <2>2, <2>3, <2>4 DEF Outside, MqttIsKept, postVars
<1> QED
  BY <1>1, <1>2

\* Outside, in steps of the environment.
LEMMA EnvironmentOutside == ASSUME Environment PROVE Outside
<1>1. /\ UNCHANGED <<batch, clearing, post, cnt, cmd, task, main_clearing, mqtt_client>>
      /\ sigs \subseteq sigs' /\ main_sigs \subseteq main_sigs'
      /\ async_timer' = async_timer \/ SIG_DO_ASYNC_COMM \in sigs'
  <2> USE DEF postVars, statusVars, mainVars
  <2>1. CASE DoAsyncCommTimer
    BY <2>1 DEF DoAsyncCommTimer
  <2>2. ASSUME NEW t \in Targets, PeriodicTimer(t) PROVE <1>1!:
    BY <2>2 DEF PeriodicTimer
  <2>3. CASE Network
    BY <2>3 DEF Network
  <2>4. CASE TimeSync
    BY <2>4 DEF TimeSync
  <2>5. CASE NewCfg
    BY <2>5 DEF NewCfg
  <2> QED
    BY <2>1, <2>2, <2>3, <2>4, <2>5 DEF Environment
<1>2. /\ \A ch \in Channels : Announcing(ch) => Announcing(ch)'
      /\ AboutToNotify => AboutToNotify'
  BY <1>1 DEF Announcing, AboutToNotify
<1>3. MqttIsKept
  BY <1>1 DEF MqttIsKept, Checking
<1> QED
  BY <1>1, <1>2, <1>3 DEF Outside

\* The steps that are neither adv_post's nor the main task's handlers.
OutsideStep == \/ \E c \in Tasks : Notifying(c)
               \/ \E c \in Clients : Client(c) \/ wait_timeout(c)
               \/ activate_cfg_mode \/ deactivate_cfg_mode
               \/ Environment

\* All steps that are not of adv_post or a handler of the main task.
LEMMA OutsideSteps == ASSUME TypeInv, OutsideStep PROVE Outside
  BY NotifyingOutside, ClientOutside, CfgModeOutside, EnvironmentOutside
  DEF OutsideStep, Tasks

\* adv_post has the notification at most once.
NotifiedOnce == ~(SIG_RELAYING_MODE_CHANGED \in sigs /\ SIG_RELAYING_MODE_CHANGED \in batch)

\* What adv_post does to its copy of the relaying mode and to the notifications.
LEMMA AdvPostKeepsMode ==
  ASSUME TypeInv, AdvPost
  PROVE  /\ UNCHANGED <<cnt, task, mainVars, envVars>>
         /\ \/ relaying_mode_changed_read
            \/ relaying_mode_changed_clear
            \/ /\ post'.relaying_enabled = post.relaying_enabled
               /\ SIG_RELAYING_MODE_CHANGED \in Pending <=> SIG_RELAYING_MODE_CHANGED \in Pending'
               /\ NotifiedOnce => NotifiedOnce'
               /\ clearing' = clearing /\ cmd' = cmd
<1> DEFINE Kept == /\ UNCHANGED <<cnt, task, mainVars, envVars, clearing, cmd>>
                   /\ post'.relaying_enabled = post.relaying_enabled
                   /\ SIG_RELAYING_MODE_CHANGED \in Pending
                        <=> SIG_RELAYING_MODE_CHANGED \in Pending'
                   /\ NotifiedOnce => NotifiedOnce'
           R == SIG_RELAYING_MODE_CHANGED
<1>0. post \in PostState
  BY DEF TypeInv, TypeOK
<1>r. SIG_DO_ASYNC_COMM # SIG_RELAYING_MODE_CHANGED
  BY DEF SIG_DO_ASYNC_COMM, SIG_RELAYING_MODE_CHANGED
<1>1. CASE TakeSignals
  <2>1. Kept
    BY <1>1 DEF TakeSignals, Pending, NotifiedOnce, postVars, statusVars
  <2> QED
    BY <2>1
<1>2. ASSUME NEW s, s # R, Handle(s), sigs' \in {sigs, sigs \cup {SIG_DO_ASYNC_COMM}},
             UNCHANGED <<clearing, statusVars, task, mainVars, envVars>>,
             post'.relaying_enabled = post.relaying_enabled
      PROVE  Kept
  BY <1>2, <1>r DEF Handle, Pending, NotifiedOnce, statusVars
<1>3. ASSUME NEW p \in PostState, NEW lk, SendNext(p, lk)
      PROVE  /\ sigs' \in {sigs, sigs \cup {SIG_DO_ASYNC_COMM}}
             /\ post'.relaying_enabled = p.relaying_enabled
  <2>1. sigs' = sigs \/ sigs' = sigs \cup {SIG_DO_ASYNC_COMM}
    BY <1>3 DEF SendNext, StartMqtt
  <2>2. CASE ~p.relaying_enabled \/ p.need = {}
    BY <1>3, <2>1, <2>2 DEF SendNext
  <2>3. CASE ~(~p.relaying_enabled \/ p.need = {})
    <3>1. PICK t \in p.need :
            IF t = "mqtt" THEN StartMqtt(p, lk)
            ELSE (NotSent(t, p, lk) \/ Sent(t, p, lk)) /\ UNCHANGED sigs
      BY <1>3, <2>3, Zenon DEF SendNext
    <3>2. CASE StartMqtt(p, lk)
      BY <2>1, <3>2 DEF StartMqtt, PostState
    <3>3. CASE NotSent(t, p, lk)
      BY <2>1, <3>3 DEF NotSent, PostState
    <3>4. CASE Sent(t, p, lk)
      BY <2>1, <3>4 DEF Sent, PostState
    <3> QED
      BY <3>1, <3>2, <3>3, <3>4
  <2> QED
    BY <2>2, <2>3
<1> DEFINE Moved(s) == /\ s # R /\ Handle(s) /\ sigs' \in {sigs, sigs \cup {SIG_DO_ASYNC_COMM}}
                       /\ UNCHANGED <<clearing, statusVars, task, mainVars, envVars>>
                       /\ post'.relaying_enabled = post.relaying_enabled
<1>s. /\ R \notin {SIG_NETWORK_DISCONNECTED, SIG_NETWORK_CONNECTED, SIG_TIME_SYNCHRONIZED,
                   SIG_DO_ASYNC_COMM, SIG_GW_CFG_READY, SIG_GW_CFG_CHANGED_RUUVI,
                   SIG_CFG_MODE_DEACTIVATED}
      /\ \A t \in Targets : SIG_RETRANSMIT[t] # R
  <2>1. R \notin 4..7
    BY DEF SIG_RELAYING_MODE_CHANGED
  <2> QED
    BY <2>1, KnownSignals
    DEF SIG_RELAYING_MODE_CHANGED, SIG_NETWORK_DISCONNECTED, SIG_NETWORK_CONNECTED,
        SIG_TIME_SYNCHRONIZED, SIG_DO_ASYNC_COMM, SIG_GW_CFG_READY, SIG_GW_CFG_CHANGED_RUUVI,
        SIG_CFG_MODE_DEACTIVATED
<1> HIDE DEF R
<1>4. CASE handle_sig_network_disconnected
  <2>1. Moved(SIG_NETWORK_DISCONNECTED)
    BY <1>0, <1>4, <1>s DEF handle_sig_network_disconnected, PostState
  <2> QED
    BY <1>2, <2>1
<1>5. CASE handle_sig_network_connected
  <2>1. Moved(SIG_NETWORK_CONNECTED)
    BY <1>0, <1>5, <1>s DEF handle_sig_network_connected, PostState
  <2> QED
    BY <1>2, <2>1
<1>6. CASE handle_sig_time_synchronized
  <2>1. Moved(SIG_TIME_SYNCHRONIZED)
    BY <1>6, <1>s DEF handle_sig_time_synchronized
  <2> QED
    BY <1>2, <2>1
<1>7. ASSUME NEW t \in Targets, handle_sig_retransmit(t) PROVE Kept
  <2>1. Moved(SIG_RETRANSMIT[t])
    BY <1>0, <1>7, <1>s DEF handle_sig_retransmit, PostState
  <2> QED
    BY <1>2, <2>1
<1>8. ASSUME NEW s \in {SIG_GW_CFG_READY, SIG_GW_CFG_CHANGED_RUUVI, SIG_CFG_MODE_DEACTIVATED},
             handle_sig_gw_cfg_changed(s) PROVE Kept
  <2>1. Moved(s)
    BY <1>0, <1>8, <1>s DEF handle_sig_gw_cfg_changed, PostState
  <2> QED
    BY <1>2, <2>1
<1>9. CASE relaying_mode_changed_read
  BY <1>9 DEF relaying_mode_changed_read, statusVars
<1>10. CASE relaying_mode_changed_clear
  BY <1>10 DEF relaying_mode_changed_clear
<1>11. CASE do_async_comm_idle
  <2>1. SendNext(post, lock)
    BY <1>11, Zenon DEF do_async_comm_idle
  <2>2. Moved(SIG_DO_ASYNC_COMM)
    BY <1>0, <1>3, <1>11, <1>s, <2>1 DEF do_async_comm_idle
  <2> QED
    BY <1>2, <2>2
<1>12. CASE do_async_comm_http_busy
  <2>1. Moved(SIG_DO_ASYNC_COMM)
    BY <1>12, <1>s DEF do_async_comm_http_busy
  <2> QED
    BY <1>2, <2>1
<1>13. CASE do_async_comm_http_done
  <2> DEFINE p == [post EXCEPT !.in_progress = FALSE, !.need = @ \ {post.action},
                               !.action = "NONE"]
             lk == [mutex |-> NoTask, request |-> NoTask]
  <2>1. p \in PostState /\ p.relaying_enabled = post.relaying_enabled
    BY <1>0 DEF PostState
  <2>2. SendNext(p, lk)
    BY <1>13, Zenon DEF do_async_comm_http_done
  <2> HIDE DEF p, lk
  <2>3. Moved(SIG_DO_ASYNC_COMM)
    BY <1>3, <1>13, <1>s, <2>1, <2>2 DEF do_async_comm_http_done
  <2> QED
    BY <1>2, <2>3
<1>14. CASE do_async_comm_mqtt_next
  <2>1. Moved(SIG_DO_ASYNC_COMM)
    BY <1>0, <1>14, <1>s DEF do_async_comm_mqtt_next, PostState
  <2> QED
    BY <1>2, <2>1
<1>15. CASE do_async_comm_mqtt_done
  <2> DEFINE p == [post EXCEPT !.in_progress = FALSE, !.reports_mqtt = 0]
  <2>0. 0 \in 0..MaxAdvs
    BY RelayAssumption DEF RelayAssumption
  <2>1. p \in PostState /\ p.relaying_enabled = post.relaying_enabled
    BY <1>0, <2>0 DEF PostState
  <2>2. SendNext(p, lock)
    BY <1>15, Zenon DEF do_async_comm_mqtt_done
  <2> HIDE DEF p
  <2>3. Moved(SIG_DO_ASYNC_COMM)
    BY <1>3, <1>15, <1>s, <2>1, <2>2 DEF do_async_comm_mqtt_done
  <2> QED
    BY <1>2, <2>3
<1> QED
  BY <1>1, <1>4, <1>5, <1>6, <1>7, <1>8, <1>9, <1>10, <1>11, <1>12, <1>13, <1>14, <1>15
  DEF AdvPost, do_async_comm

-----------------------------------------------------------------------------
(* The safety theorems.                                                    *)

\* Every step keeps RelayingModeIsFresh.
LEMMA ModeInductive ==
  ASSUME TypeInv, RelayingModeIsFresh, [Next]_vars PROVE RelayingModeIsFresh'
<1> DEFINE R == SIG_RELAYING_MODE_CHANGED
           Fresh == post.relaying_enabled <=> cnt["http"] = 0
<1>0. post \in PostState /\ cnt \in [Channels -> Nat] /\ "http" \in Channels
  BY DEF TypeInv, TypeOK, Channels
<1>1. CASE AdvPost
  <2>1. UNCHANGED <<cnt, task>>
    BY <1>1, AdvPostKeepsMode
  <2>2. CASE relaying_mode_changed_read
    <3>1. post'.relaying_enabled = (cnt["http"] = 0)
      BY <1>0, <2>2 DEF relaying_mode_changed_read, PostState
    <3> QED
      BY <2>1, <3>1 DEF RelayingModeIsFresh
  <2>3. CASE relaying_mode_changed_clear
    BY <2>1, <2>3 DEF relaying_mode_changed_clear, RelayingModeIsFresh, Announcing, Pending,
                      postVars
  <2>4. CASE /\ post'.relaying_enabled = post.relaying_enabled
             /\ R \in Pending => R \in Pending'
    BY <2>1, <2>4 DEF RelayingModeIsFresh, Announcing
  <2> QED
    BY <1>1, <2>2, <2>3, <2>4, AdvPostKeepsMode
<1>2. CASE OutsideStep
  <2>1. Outside
    BY <1>2, OutsideSteps
  <2>2. R \in Pending => R \in Pending'
    BY <2>1 DEF Outside, Pending
  <2>3. CASE Notified'
    BY <2>3 DEF Notified, RelayingModeIsFresh, Pending
  <2>4. CASE /\ Announcing("http") => Announcing("http")'
             /\ Announcing("http")' \/ (cnt'["http"] = 0 <=> cnt["http"] = 0)
    <3>1. post'.relaying_enabled = post.relaying_enabled
      BY <2>1 DEF Outside
    <3> QED
      BY <2>2, <2>4, <3>1 DEF RelayingModeIsFresh
  <2> QED
    BY <1>0, <2>1, <2>3, <2>4 DEF Outside
<1>3. CASE MainHandlers \/ UNCHANGED vars
  <2>1. UNCHANGED <<sigs, batch, post, cnt, task>>
    BY <1>3 DEF MainHandlers, main_relaying_mode_changed_read, main_relaying_mode_changed_clear,
                main_restart_services, postVars, statusVars, vars
  <2> QED
    BY <2>1 DEF RelayingModeIsFresh, Announcing, Pending
<1> QED
  BY <1>1, <1>2, <1>3 DEF Next, OutsideStep

\* Every step keeps MqttStopsWhenSuspended.
LEMMA MqttInductive ==
  ASSUME TypeInv, MqttStopsWhenSuspended, [Next]_vars PROVE MqttStopsWhenSuspended'
<1>0. cnt \in [Channels -> Nat] /\ "mqtt" \in Channels
  BY DEF TypeInv, TypeOK, Channels
<1>1. CASE AdvPost
  <2>1. UNCHANGED <<cnt, task, mainVars>>
    BY <1>1, AdvPostKeepsMode
  <2> QED
    BY <2>1 DEF MqttStopsWhenSuspended, Announcing, mainVars
<1>2. CASE OutsideStep
  <2>1. Outside
    BY <1>2, OutsideSteps
  <2>2. CASE Notified'
    BY <2>2 DEF Notified, MqttStopsWhenSuspended
  <2>3. CASE /\ Announcing("mqtt") => Announcing("mqtt")'
             /\ Announcing("mqtt")' \/ (cnt'["mqtt"] = 0 <=> cnt["mqtt"] = 0)
    BY <2>1, <2>3 DEF Outside, MqttIsKept, Checking, MqttStopsWhenSuspended
  <2> QED
    BY <1>0, <2>1, <2>2, <2>3 DEF Outside
<1>3. CASE main_relaying_mode_changed_read
  BY <1>3 DEF main_relaying_mode_changed_read, MqttStop, MqttStart, MqttStopsWhenSuspended,
              statusVars
<1>4. CASE main_restart_services
  BY <1>4 DEF main_restart_services, MqttStop, MqttStart, MqttStopsWhenSuspended, Announcing,
              statusVars
<1>5. CASE main_relaying_mode_changed_clear \/ UNCHANGED vars
  BY <1>5 DEF main_relaying_mode_changed_clear, MqttStopsWhenSuspended, Announcing, vars
<1> QED
  BY <1>1, <1>2, <1>3, <1>4, <1>5 DEF Next, OutsideStep, MainHandlers

\* Every step keeps CmdIsGoingToBeHandled.
LEMMA CmdInductive ==
  ASSUME TypeInv, CmdIsGoingToBeHandled, [Next]_vars PROVE CmdIsGoingToBeHandled'
<1> DEFINE R == SIG_RELAYING_MODE_CHANGED
<1> USE DEF AboutToNotify
<1>0. cmd \in [Channels -> BOOLEAN] /\ Channels = {"http", "mqtt"}
  BY DEF TypeInv, TypeOK, Channels
<1>1. CASE AdvPost
  <2>1. UNCHANGED <<cnt, task, mainVars>>
    BY <1>1, AdvPostKeepsMode
  <2>2. CASE relaying_mode_changed_read
    BY <2>1, <2>2 DEF relaying_mode_changed_read, CmdIsGoingToBeHandled, statusVars, mainVars
  <2>3. CASE relaying_mode_changed_clear
    BY <1>0, <2>1, <2>3 DEF relaying_mode_changed_clear, CmdIsGoingToBeHandled, mainVars
  <2>4. CASE /\ R \in Pending => R \in Pending'
             /\ clearing' = clearing /\ cmd' = cmd
    BY <2>1, <2>4 DEF CmdIsGoingToBeHandled, mainVars
  <2> QED
    BY <1>1, <2>2, <2>3, <2>4, AdvPostKeepsMode
<1>2. CASE OutsideStep
  <2>1. Outside
    BY <1>2, OutsideSteps
  <2>2. CASE Notified'
    BY <2>2 DEF Notified, CmdIsGoingToBeHandled, Pending
  <2>3. CASE (AboutToNotify => AboutToNotify') /\ (cmd' = cmd \/ AboutToNotify')
    BY <2>1, <2>3 DEF Outside, CmdIsGoingToBeHandled, Pending
  <2> QED
    BY <2>1, <2>2, <2>3 DEF Outside
<1>3. CASE main_relaying_mode_changed_read
  BY <1>3 DEF main_relaying_mode_changed_read, CmdIsGoingToBeHandled, Pending, statusVars
<1>4. CASE main_restart_services
  BY <1>4 DEF main_restart_services, CmdIsGoingToBeHandled, Pending, statusVars
<1>5. CASE main_relaying_mode_changed_clear
  BY <1>0, <1>5 DEF main_relaying_mode_changed_clear, CmdIsGoingToBeHandled, Pending
<1>6. CASE UNCHANGED vars
  BY <1>6 DEF CmdIsGoingToBeHandled, Pending, vars
<1> QED
  BY <1>1, <1>2, <1>3, <1>4, <1>5, <1>6 DEF Next, OutsideStep, MainHandlers

\* Serving a target after a transmission has ended drives what it starts.
LEMMA SendNextDrives ==
  ASSUME NEW p, NEW lk, ~p.in_progress, SendNext(p, lk)
  PROVE  ~post'.in_progress \/ async_timer'
<1>1. CASE ~p.relaying_enabled \/ p.need = {}
  BY <1>1 DEF SendNext
<1>2. CASE ~(~p.relaying_enabled \/ p.need = {})
  BY <1>2 DEF SendNext
<1> QED
  BY <1>1, <1>2

\* Every step keeps AsyncCommIsDriven.
LEMMA DrivenInductive ==
  ASSUME TypeInv, AsyncCommIsDriven, [Next]_vars PROVE AsyncCommIsDriven'
<1> DEFINE D == SIG_DO_ASYNC_COMM
<1>0. post \in PostState
  BY DEF TypeInv, TypeOK
<1>a. ASSUME NEW s, s # D, Handle(s), sigs \subseteq sigs', async_timer => async_timer',
             post'.in_progress = post.in_progress
      PROVE  AsyncCommIsDriven'
  BY <1>a DEF Handle, AsyncCommIsDriven, Pending
<1>s. /\ D \notin {SIG_NETWORK_DISCONNECTED, SIG_NETWORK_CONNECTED, SIG_TIME_SYNCHRONIZED,
                   SIG_RELAYING_MODE_CHANGED, SIG_GW_CFG_READY, SIG_GW_CFG_CHANGED_RUUVI,
                   SIG_CFG_MODE_DEACTIVATED}
      /\ \A t \in Targets : SIG_RETRANSMIT[t] # D
  <2>1. D \notin 4..7
    BY DEF SIG_DO_ASYNC_COMM
  <2> QED
    BY <2>1, KnownSignals
    DEF SIG_RELAYING_MODE_CHANGED, SIG_NETWORK_DISCONNECTED, SIG_NETWORK_CONNECTED,
        SIG_TIME_SYNCHRONIZED, SIG_DO_ASYNC_COMM, SIG_GW_CFG_READY, SIG_GW_CFG_CHANGED_RUUVI,
        SIG_CFG_MODE_DEACTIVATED
<1> HIDE DEF D
<1>1. CASE TakeSignals
  BY <1>1 DEF TakeSignals, AsyncCommIsDriven, Pending, postVars
<1>2. CASE handle_sig_network_disconnected
  <2>1. post'.in_progress = post.in_progress
    BY <1>0, <1>2 DEF handle_sig_network_disconnected, PostState
  <2> QED
    BY <1>2, <1>a, <1>s, <2>1 DEF handle_sig_network_disconnected
<1>3. CASE handle_sig_network_connected
  <2>1. post'.in_progress = post.in_progress
    BY <1>0, <1>3 DEF handle_sig_network_connected, PostState
  <2> QED
    BY <1>3, <1>a, <1>s, <2>1 DEF handle_sig_network_connected
<1>4. CASE handle_sig_time_synchronized
  BY <1>4, <1>a, <1>s DEF handle_sig_time_synchronized
<1>5. ASSUME NEW t \in Targets, handle_sig_retransmit(t) PROVE AsyncCommIsDriven'
  <2>1. post'.in_progress = post.in_progress
    BY <1>0, <1>5 DEF handle_sig_retransmit, PostState
  <2>2. sigs \subseteq sigs' /\ async_timer' = async_timer /\ Handle(SIG_RETRANSMIT[t])
    BY <1>5 DEF handle_sig_retransmit
  <2> QED
    BY <1>a, <1>s, <2>1, <2>2
<1>6. ASSUME NEW s \in {SIG_GW_CFG_READY, SIG_GW_CFG_CHANGED_RUUVI, SIG_CFG_MODE_DEACTIVATED},
             handle_sig_gw_cfg_changed(s) PROVE AsyncCommIsDriven'
  BY <1>6 DEF handle_sig_gw_cfg_changed, AsyncCommIsDriven
<1>7. CASE relaying_mode_changed_read
  <2>1. PICK a \in BOOLEAN :
          /\ post'.in_progress = (post.in_progress /\ ~a)
          /\ async_timer' = (async_timer /\ ~a)
    BY <1>0, <1>7 DEF relaying_mode_changed_read, PostState
  <2>2. Handle(SIG_RELAYING_MODE_CHANGED) /\ sigs' = sigs
    BY <1>7 DEF relaying_mode_changed_read
  <2> QED
    BY <1>s, <2>1, <2>2 DEF Handle, AsyncCommIsDriven, Pending, D
<1>8. CASE relaying_mode_changed_clear
  BY <1>8 DEF relaying_mode_changed_clear, AsyncCommIsDriven, Pending, postVars
<1>9. CASE do_async_comm
  <2>1. CASE do_async_comm_idle
    BY <2>1, SendNextDrives DEF do_async_comm_idle, AsyncCommIsDriven
  <2>2. CASE do_async_comm_http_busy \/ do_async_comm_mqtt_next
    BY <2>2 DEF do_async_comm_http_busy, do_async_comm_mqtt_next, AsyncCommIsDriven
  <2>3. CASE do_async_comm_http_done
    <3> DEFINE p == [post EXCEPT !.in_progress = FALSE, !.need = @ \ {post.action},
                                 !.action = "NONE"]
    <3>1. ~p.in_progress
      BY <1>0 DEF PostState
    <3>2. SendNext(p, [mutex |-> NoTask, request |-> NoTask])
      BY <2>3, Zenon DEF do_async_comm_http_done
    <3> HIDE DEF p
    <3> QED
      BY <3>1, <3>2, SendNextDrives DEF AsyncCommIsDriven
  <2>4. CASE do_async_comm_mqtt_done
    <3> DEFINE p == [post EXCEPT !.in_progress = FALSE, !.reports_mqtt = 0]
    <3>1. ~p.in_progress
      BY <1>0 DEF PostState
    <3>2. SendNext(p, lock)
      BY <2>4, Zenon DEF do_async_comm_mqtt_done
    <3> HIDE DEF p
    <3> QED
      BY <3>1, <3>2, SendNextDrives DEF AsyncCommIsDriven
  <2> QED
    BY <1>9, <2>1, <2>2, <2>3, <2>4 DEF do_async_comm
<1>10. CASE OutsideStep
  BY <1>10, OutsideSteps DEF Outside, AsyncCommIsDriven, Pending
<1>11. CASE MainHandlers \/ UNCHANGED vars
  <2>1. UNCHANGED <<sigs, batch, post, async_timer>>
    BY <1>11 DEF MainHandlers, main_relaying_mode_changed_read, main_relaying_mode_changed_clear,
                main_restart_services, postVars, vars
  <2> QED
    BY <2>1 DEF AsyncCommIsDriven, Pending
<1> QED
  BY <1>1, <1>2, <1>3, <1>4, <1>5, <1>6, <1>7, <1>8, <1>9, <1>10, <1>11
  DEF Next, OutsideStep, AdvPost

\* However many tasks suspend and resume relaying, in whatever order, inside each
\* other and with timeouts, adv_post never misses the last change.
THEOREM ModeIsFresh == Spec => []RelayingModeIsFresh
<1>1. Init => RelayingModeIsFresh
  BY DEF Init, RelayingModeIsFresh, Channels
<1> QED
  BY InitTypeInv, NextTypeInv, ModeInductive, <1>1, PTL DEF Spec

\* MQTT never stays on behind a suspension, also when services are restarted, the
\* configuration changes or brokers are checked in between.
THEOREM MqttStops == Spec => []MqttStopsWhenSuspended
<1>1. Init => MqttStopsWhenSuspended
  BY DEF Init, MqttStopsWhenSuspended, Channels
<1> QED
  BY InitTypeInv, NextTypeInv, MqttInductive, <1>1, PTL DEF Spec

\* A command bit is never left raised without anybody on the way to clear it.
THEOREM CmdIsHandled == Spec => []CmdIsGoingToBeHandled
<1>1. Init => CmdIsGoingToBeHandled
  BY DEF Init, CmdIsGoingToBeHandled, Channels
<1> QED
  BY InitTypeInv, NextTypeInv, CmdInductive, <1>1, PTL DEF Spec

\* A transmission in progress is polled again, whatever starts, ends or aborts
\* transmissions.
THEOREM CommIsDriven == Spec => []AsyncCommIsDriven
<1>1. Init => AsyncCommIsDriven
  BY DEF Init, AsyncCommIsDriven
<1> QED
  BY InitTypeInv, NextTypeInv, DrivenInductive, <1>1, PTL DEF Spec
=============================================================================
