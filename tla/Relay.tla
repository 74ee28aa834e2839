------------------------------- MODULE Relay --------------------------------
(***************************************************************************)
(* Relaying of advertisements and what suspends it.  adv_post sends the     *)
(* collected reports over HTTP and MQTT (adv_post_signals.c,                *)
(* adv_post_async_comm.c).  Other tasks - the HTTP server, the firmware     *)
(* updater, the main task in configuration mode - need the network memory   *)
(* for themselves: they count up cnt_relaying_via_..._suspended, raise a    *)
(* command bit, notify adv_post and the main task and wait for the bit to   *)
(* be cleared (gw_status.c).  There is one HTTP request at a time,          *)
(* p_http_async_sema: finding it taken is a failed assertion (http.c,       *)
(* http_post_advs.c, http_download.c), which restarts the gateway.          *)
(***************************************************************************)
EXTENDS Integers, Sequences, FiniteSets

CONSTANTS Clients,   \* tasks that suspend relaying, wait and send HTTP requests
          Main,      \* the main task
          Cfgs,      \* the sets of targets the gateway may be configured with
          Suspensions, \* the sets of channels that clients suspend
          MaxDepth,  \* bound: suspensions of one client inside each other
          MaxAdvs,   \* bound: reports in a periodic MQTT transmission
          MaxChanges, \* bound: changes of network, configuration and mode
          Events     \* what else happens in an instance

Targets == {"advs1", "advs2", "stats", "mqtt"}
Channels == {"http", "mqtt"}
Tasks == Clients \cup {Main}
AdvPostTask == "adv_post"
NoTask == "none"

ASSUME RelayAssumption ==
  /\ Main \notin Clients
  /\ {AdvPostTask, NoTask} \cap Tasks = {}
  /\ IsFiniteSet(Clients)
  /\ Cfgs \subseteq SUBSET Targets /\ Cfgs # {}
  /\ Suspensions \subseteq {{"http"}, Channels}
  /\ MaxDepth \in Nat /\ MaxAdvs \in Nat \ {0} /\ MaxChanges \in Nat
  /\ Events \subseteq {"traffic", "network", "time", "cfg", "cfg_mode", "connection",
                       "timeout"}

VARIABLES
  sigs,        \* signals sent to adv_post and not yet fetched
  batch,       \* signals fetched by adv_post and not yet handled
  clearing,    \* adv_post has read the counter and not yet cleared the command bit
  post,        \* adv_post_state_t and the globals of adv_post_async_comm.c
  async_timer, \* the one-shot timer of DO_ASYNC_COMM is active
  periodic,    \* targets whose periodic timer is active
  lock,        \* owners of the http_server mutex and of p_http_async_sema
  mutex_used,  \* the HTTP server locks the mutex for incoming connections
  cnt,         \* cnt_relaying_via_<channel>_suspended
  cmd,         \* GW_STATUS_<channel>_RELAYING_CMD_BIT
  task,        \* where each task is in suspending, requesting and resuming
  main_sigs,   \* signals sent to the main task
  main_clearing, \* the main task has read the counter and not yet cleared the bit
  mqtt_client, \* p_mqtt_client is not NULL (it then holds its TLS buffer)
  targets,     \* the targets enabled in gw_cfg
  online,      \* external: the network is up
  time_ok,     \* external: the time is synchronized
  changes,     \* how many changes there were
  failed       \* assertions that have failed

postVars == <<post, async_timer, periodic, lock, mutex_used>>
statusVars == <<cnt, cmd>>
mainVars == <<main_sigs, main_clearing, mqtt_client>>
envVars == <<targets, online, time_ok, changes>>
vars == <<sigs, batch, clearing, post, async_timer, periodic, lock, mutex_used, cnt, cmd, task,
          main_sigs, main_clearing, mqtt_client, targets, online, time_ok, changes,
          failed>>

\* Signals by their number in adv_post_sig_e: adv_post handles the lowest first.
SIG_NETWORK_DISCONNECTED == 1
SIG_NETWORK_CONNECTED == 2
SIG_TIME_SYNCHRONIZED == 3
SIG_RETRANSMIT == [advs1 |-> 4, advs2 |-> 5, mqtt |-> 6, stats |-> 7]
SIG_DO_ASYNC_COMM == 8
SIG_RELAYING_MODE_CHANGED == 9
SIG_GW_CFG_READY == 12
SIG_GW_CFG_CHANGED_RUUVI == 13
SIG_CFG_MODE_DEACTIVATED == 16

Signals == (1..9) \cup {12, 13, 16}

PostState == [network_connected : BOOLEAN, in_progress : BOOLEAN, need : SUBSET Targets,
              relaying_enabled : BOOLEAN, action : Targets \cup {"NONE"},
              reports_mqtt : 0..MaxAdvs]

\* A task that is not suspending anything.
IdleTask == [pc |-> "idle", held |-> <<>>, notify |-> {}, conn |-> FALSE]

Init ==
  /\ online = ("network" \notin Events)
  /\ sigs = {SIG_GW_CFG_READY} \cup (IF online THEN {SIG_NETWORK_CONNECTED} ELSE {})
  /\ batch = {} /\ clearing = FALSE
  /\ post = [network_connected |-> FALSE, in_progress |-> FALSE, need |-> {},
             relaying_enabled |-> TRUE, action |-> "NONE", reports_mqtt |-> 0]
  /\ async_timer = FALSE /\ periodic = {}
  /\ lock = [mutex |-> NoTask, request |-> NoTask] /\ mutex_used = FALSE
  /\ cnt = [ch \in Channels |-> 0] /\ cmd = [ch \in Channels |-> FALSE]
  /\ task = [c \in Tasks |-> IdleTask]
  /\ main_sigs = {} /\ main_clearing = FALSE
  /\ targets \in Cfgs
  /\ mqtt_client = ("mqtt" \in targets)
  /\ time_ok = ("time" \notin Events) /\ changes = 0
  /\ failed = {}

-----------------------------------------------------------------------------
(* The adv_post task: signals.                                             *)

\* os_signal_wait_with_timeout returns all signals sent so far.
TakeSignals ==
  /\ ~clearing /\ batch = {} /\ sigs # {}
  /\ batch' = sigs /\ sigs' = {}
  /\ UNCHANGED <<clearing, postVars, statusVars, task, mainVars, envVars, failed>>

\* os_signal_num_get_next.
Handle(s) == /\ ~clearing
             /\ s \in batch /\ \A t \in batch : s <= t
             /\ batch' = batch \ {s}

handle_sig_network_disconnected ==
  /\ Handle(SIG_NETWORK_DISCONNECTED)
  /\ post' = [post EXCEPT !.network_connected = FALSE]
  /\ UNCHANGED <<sigs, clearing, async_timer, periodic, lock, mutex_used, statusVars, task,
                 mainVars, envVars, failed>>

\* adv_post_restart_pending_retransmissions.
Relaunched == periodic \cup (post.need \ {"mqtt"})

handle_sig_network_connected ==
  /\ Handle(SIG_NETWORK_CONNECTED)
  /\ post' = [post EXCEPT !.network_connected = TRUE]
  /\ periodic' = Relaunched
  /\ UNCHANGED <<sigs, clearing, async_timer, lock, mutex_used, statusVars, task, mainVars,
                 envVars, failed>>

\* The table of reports, which the first synchronization clears, is in AdvTable.
handle_sig_time_synchronized ==
  /\ Handle(SIG_TIME_SYNCHRONIZED)
  /\ periodic' = Relaunched
  /\ UNCHANGED <<sigs, clearing, post, async_timer, lock, mutex_used, statusVars, task, mainVars,
                 envVars, failed>>

\* adv_post_handle_sig_retransmit, _retransmit2, _retransmit_mqtt, _send_statistics.
handle_sig_retransmit(t) ==
  /\ Handle(SIG_RETRANSMIT[t])
  /\ IF post.relaying_enabled /\ t \in targets
     THEN /\ post' = [post EXCEPT !.need = @ \cup {t}]
          /\ sigs' = sigs \cup {SIG_DO_ASYNC_COMM}
     ELSE UNCHANGED <<post, sigs>>
  /\ UNCHANGED <<clearing, async_timer, periodic, lock, mutex_used, statusVars, task, mainVars,
                 envVars, failed>>

\* adv_post_on_gw_cfg_change; the mutex is switched on and off except by the
\* end of the configuration mode.
handle_sig_gw_cfg_changed(s) ==
  /\ Handle(s)
  /\ post' = [post EXCEPT !.need = (targets \ {"mqtt"}) \cup (@ \cap {"mqtt"})]
  /\ periodic' = targets
  /\ async_timer' = TRUE
  /\ mutex_used' = IF s = SIG_CFG_MODE_DEACTIVATED THEN mutex_used
                   ELSE "mqtt" \in targets /\ {"advs1", "advs2"} \cap targets # {}
  /\ UNCHANGED <<sigs, clearing, lock, statusVars, task, mainVars, envVars, failed>>

\* Mutant: a transmission in progress goes on.
relaying_mode_changed_read_no_abort ==
  /\ Handle(SIG_RELAYING_MODE_CHANGED)
  /\ post' = [post EXCEPT !.relaying_enabled = (cnt["http"] = 0)]
  /\ clearing' = TRUE
  /\ UNCHANGED <<sigs, async_timer, periodic, lock, mutex_used, statusVars, task, mainVars,
                 envVars, failed>>

\* adv_post_handle_sig_relaying_mode_changed up to the command bit: a
\* transmission in progress is aborted.  http_server_mutex_unlock is called
\* also when it was an MQTT transmission, which did not lock the mutex.
relaying_mode_changed_read ==
  /\ Handle(SIG_RELAYING_MODE_CHANGED)
  /\ LET enabled == cnt["http"] = 0
         abort   == ~enabled /\ post.in_progress
     IN /\ post' = [post EXCEPT !.relaying_enabled = enabled,
                                !.in_progress = @ /\ ~abort]
        /\ async_timer' = (async_timer /\ ~abort)
        /\ lock' = IF abort
                   THEN [mutex |-> NoTask,
                         request |-> IF lock.request = AdvPostTask THEN NoTask ELSE lock.request]
                   ELSE lock
        /\ failed' = failed \cup (IF abort /\ lock.request \notin {AdvPostTask, NoTask}
                                  THEN {"request"} ELSE {})
                            \cup (IF abort /\ lock.mutex # AdvPostTask
                                  THEN {"unlock"} ELSE {})
  /\ clearing' = TRUE
  /\ UNCHANGED <<sigs, periodic, mutex_used, statusVars, task, mainVars, envVars>>

\* Mutant: only the command to resume is acknowledged.
relaying_mode_changed_clear_resume_only ==
  /\ clearing
  /\ clearing' = FALSE
  /\ cmd' = [cmd EXCEPT !["http"] = @ /\ ~post.relaying_enabled]
  /\ UNCHANGED <<sigs, batch, postVars, cnt, task, mainVars, envVars, failed>>

\* gw_status_clear_http_relaying_cmd.
relaying_mode_changed_clear ==
  /\ clearing
  /\ clearing' = FALSE
  /\ cmd' = [cmd EXCEPT !["http"] = FALSE]
  /\ UNCHANGED <<sigs, batch, postVars, cnt, task, mainVars, envVars, failed>>

-----------------------------------------------------------------------------
(* The adv_post task: asynchronous communication.                          *)

\* adv_post_do_async_comm_send_advs1, _send_advs2 and _send_statistics: p and
\* lk are the state left by the transmission that has just ended, if any.
\* Nothing is sent now; the target is tried again by the next signal ...
NotSent(t, p, lk) ==
  /\ IF t = "stats" /\ t \notin targets
     THEN post' = [p EXCEPT !.need = @ \ {t}]
     ELSE /\ ~p.network_connected \/ ~time_ok \/ lk.mutex # NoTask
          /\ post' = p
  /\ lock' = lk
  /\ UNCHANGED failed

MaySend(t, p, lk) ==
  /\ t = "stats" => t \in targets
  /\ p.network_connected /\ time_ok /\ lk.mutex = NoTask

\* ... or the request is started, or fails to start; another task's request is
\* the failed assertion of http_post_advs and http_post_stat.
Sent(t, p, lk) ==
  /\ MaySend(t, p, lk)
  /\ IF lk.request # NoTask
     THEN post' = p /\ lock' = lk /\ failed' = failed \cup {"request"}
     ELSE /\ \/ /\ post' = [p EXCEPT !.action = t, !.in_progress = TRUE, !.need = @ \ {t}]
                /\ lock' = [mutex |-> AdvPostTask, request |-> AdvPostTask]
             \/ /\ post' = [p EXCEPT !.action = "NONE", !.need = @ \ {t}]
                /\ lock' = lk
          /\ UNCHANGED failed

\* adv_post_do_async_comm_start_sending_periodic_mqtt.  Whether the broker is
\* connected is up to the network.  A buffer left by an aborted transmission
\* is overwritten.
StartMqtt(p, lk) ==
  /\ \/ /\ post' = [p EXCEPT !.need = @ \ {"mqtt"}]
        /\ UNCHANGED sigs
     \/ /\ "mqtt" \in targets /\ p.network_connected /\ mqtt_client
        /\ IF time_ok
           THEN /\ \E n \in 1..MaxAdvs :
                     post' = [p EXCEPT !.action = "mqtt", !.in_progress = TRUE,
                                       !.need = @ \ {"mqtt"}, !.reports_mqtt = n]
                /\ sigs' = sigs \cup {SIG_DO_ASYNC_COMM}
           ELSE post' = p /\ UNCHANGED sigs
  /\ lock' = lk
  /\ UNCHANGED failed

HigherPriority == [advs1 |-> {}, advs2 |-> {"advs1"}, stats |-> {"advs1", "advs2"},
                   mqtt |-> {"advs1", "advs2", "stats"}]

\* The second half of adv_post_do_async_comm: one pending target is served.
SendNext(p, lk) ==
  IF ~p.relaying_enabled \/ p.need = {}
  THEN /\ post' = p /\ lock' = lk
       /\ UNCHANGED <<sigs, async_timer, failed>>
  ELSE /\ \E t \in p.need :
            /\ HigherPriority[t] \cap p.need = {}
            /\ IF t = "mqtt" THEN StartMqtt(p, lk)
               ELSE (NotSent(t, p, lk) \/ Sent(t, p, lk)) /\ UNCHANGED sigs
       /\ async_timer' = TRUE

\* No transmission is in progress.
do_async_comm_idle ==
  /\ Handle(SIG_DO_ASYNC_COMM)
  /\ ~post.in_progress
  /\ SendNext(post, lock)
  /\ UNCHANGED <<clearing, periodic, mutex_used, statusVars, task, mainVars, envVars>>

\* Mutant: the one-shot timer is not restarted.
do_async_comm_http_busy_untimed ==
  /\ Handle(SIG_DO_ASYNC_COMM)
  /\ post.in_progress /\ post.action # "mqtt"
  /\ UNCHANGED <<sigs, clearing, postVars, statusVars, task, mainVars, envVars, failed>>

\* The HTTP request needs more time.  http_async_poll asserts that the task that
\* polls owns the request.
do_async_comm_http_busy ==
  /\ Handle(SIG_DO_ASYNC_COMM)
  /\ post.in_progress /\ post.action # "mqtt"
  /\ async_timer' = TRUE
  /\ failed' = IF lock.request = AdvPostTask THEN failed ELSE failed \cup {"owner"}
  /\ UNCHANGED <<sigs, clearing, post, periodic, lock, mutex_used, statusVars, task, mainVars,
                 envVars>>

\* Mutant: the http_server mutex stays locked.
do_async_comm_http_done_locked ==
  /\ Handle(SIG_DO_ASYNC_COMM)
  /\ post.in_progress /\ post.action # "mqtt" /\ lock.request = AdvPostTask
  /\ periodic' = periodic \cup ({post.action} \cap {"advs1", "advs2"})
  /\ SendNext([post EXCEPT !.in_progress = FALSE, !.need = @ \ {post.action},
                           !.action = "NONE"],
              [lock EXCEPT !.request = NoTask])
  /\ UNCHANGED <<clearing, mutex_used, statusVars, task, mainVars, envVars>>

\* The HTTP request has ended, well or not: http_async_poll relaunches the timer
\* of the target, and adv_post goes on with the next target.
do_async_comm_http_done ==
  /\ Handle(SIG_DO_ASYNC_COMM)
  /\ post.in_progress /\ post.action # "mqtt" /\ lock.request = AdvPostTask
  /\ periodic' = periodic \cup ({post.action} \cap {"advs1", "advs2"})
  /\ SendNext([post EXCEPT !.in_progress = FALSE, !.need = @ \ {post.action},
                           !.action = "NONE"],
              [mutex |-> NoTask, request |-> NoTask])
  /\ UNCHANGED <<clearing, mutex_used, statusVars, task, mainVars, envVars>>

\* A report was published and there are more.
do_async_comm_mqtt_next ==
  /\ Handle(SIG_DO_ASYNC_COMM)
  /\ post.in_progress /\ post.action = "mqtt"
  /\ mqtt_client /\ post.reports_mqtt > 1
  /\ post' = [post EXCEPT !.reports_mqtt = @ - 1]
  /\ async_timer' = TRUE
  /\ UNCHANGED <<sigs, clearing, periodic, lock, mutex_used, statusVars, task, mainVars,
                 envVars, failed>>

\* The last report was published, or publishing has failed.  The action stays.
do_async_comm_mqtt_done ==
  /\ Handle(SIG_DO_ASYNC_COMM)
  /\ post.in_progress /\ post.action = "mqtt"
  /\ SendNext([post EXCEPT !.in_progress = FALSE, !.reports_mqtt = 0], lock)
  /\ UNCHANGED <<clearing, periodic, mutex_used, statusVars, task, mainVars, envVars>>

do_async_comm ==
  \/ do_async_comm_idle
  \/ do_async_comm_http_busy \/ do_async_comm_http_done
  \/ do_async_comm_mqtt_next \/ do_async_comm_mqtt_done

AdvPost ==
  \/ TakeSignals
  \/ handle_sig_network_disconnected \/ handle_sig_network_connected
  \/ handle_sig_time_synchronized
  \/ \E t \in Targets : handle_sig_retransmit(t)
  \/ \E s \in {SIG_GW_CFG_READY, SIG_GW_CFG_CHANGED_RUUVI, SIG_CFG_MODE_DEACTIVATED} :
       handle_sig_gw_cfg_changed(s)
  \/ relaying_mode_changed_read \/ relaying_mode_changed_clear
  \/ do_async_comm

-----------------------------------------------------------------------------
(* Suspending and resuming, by every task.                                 *)

\* Where a task goes on when its notification is through.
After(held) == IF held = <<>> THEN "idle" ELSE "ready"

\* Mutant: a flag instead of a counter.
SuspendFlag(c, chans) ==
  LET notify == {ch \in chans : cnt[ch] = 0}
  IN /\ cnt' = [ch \in Channels |-> IF ch \in chans THEN 1 ELSE cnt[ch]]
     /\ task' = [task EXCEPT ![c].held = Append(@, chans), ![c].notify = notify,
                             ![c].pc = IF notify = {} THEN "ready" ELSE "set"]

\* gw_status_suspend_relaying and gw_status_suspend_http_relaying, under their
\* mutex: only the task that counts from 0 notifies, and only it waits.
Suspend(c, chans) ==
  LET notify == {ch \in Channels : ch \in chans /\ cnt[ch] = 0}
  IN /\ cnt' = [ch \in Channels |-> IF ch \in chans THEN cnt[ch] + 1 ELSE cnt[ch]]
     /\ task' = [task EXCEPT ![c].held = Append(@, chans), ![c].notify = notify,
                             ![c].pc = IF notify = {} THEN "ready" ELSE "set"]

\* Mutant: both channels are counted down, and not down to 0.
ResumeBoth(c) ==
  LET rest == SubSeq(task[c].held, 1, Len(task[c].held) - 1)
  IN /\ cnt' = [ch \in Channels |-> cnt[ch] - 1]
     /\ task' = [task EXCEPT ![c].held = rest, ![c].notify = Channels, ![c].pc = "set"]

\* Mutant: the counter is compared with 0 before it is counted down.
ResumeSilently(c) ==
  LET held   == task[c].held
      rest   == SubSeq(held, 1, Len(held) - 1)
      notify == {ch \in held[Len(held)] : cnt[ch] = 0}
  IN /\ cnt' = [ch \in Channels |-> IF ch \in held[Len(held)] /\ cnt[ch] > 0 THEN cnt[ch] - 1
                                                                            ELSE cnt[ch]]
     /\ task' = [task EXCEPT ![c].held = rest, ![c].notify = notify,
                             ![c].pc = IF notify = {} THEN After(rest) ELSE "set"]

\* gw_status_resume_relaying and gw_status_resume_http_relaying, for the last
\* suspension: only the task that counts down to 0 notifies and waits.
Resume(c) ==
  LET held   == task[c].held
      rest   == SubSeq(held, 1, Len(held) - 1)
      chans  == held[Len(held)]
      notify == {ch \in Channels : ch \in chans /\ cnt[ch] = 1}
  IN /\ cnt' = [ch \in Channels |-> IF ch \in chans /\ cnt[ch] > 0 THEN cnt[ch] - 1 ELSE cnt[ch]]
     /\ task' = [task EXCEPT ![c].held = rest, ![c].notify = notify,
                             ![c].pc = IF notify = {} THEN After(rest) ELSE "set"]

\* gw_status_set_http_relaying_cmd and gw_status_set_mqtt_relaying_cmd.
set_relaying_cmd(c) ==
  /\ task[c].pc = "set"
  /\ cmd' = [ch \in Channels |-> cmd[ch] \/ ch \in task[c].notify]
  /\ task' = [task EXCEPT ![c].pc = "notify"]
  /\ UNCHANGED <<sigs, batch, clearing, postVars, cnt, mainVars, envVars, failed>>

\* Mutant: the main task has not subscribed to the event.
notify_adv_post_only(c) ==
  /\ task[c].pc = "notify"
  /\ sigs' = sigs \cup {SIG_RELAYING_MODE_CHANGED}
  /\ task' = IF c = Main
             THEN [task EXCEPT ![c].pc = After(task[c].held), ![c].notify = {}]
             ELSE [task EXCEPT ![c].pc = "wait"]
  /\ UNCHANGED <<batch, clearing, postVars, statusVars, mainVars, envVars, failed>>

\* event_mgr_notify(EVENT_MGR_EV_RELAYING_MODE_CHANGED); the main task, which
\* handles the MQTT command itself, does not wait.
notify_relaying_mode_changed(c) ==
  /\ task[c].pc = "notify"
  /\ sigs' = sigs \cup {SIG_RELAYING_MODE_CHANGED}
  /\ main_sigs' = main_sigs \cup {"relaying_mode_changed"}
  /\ task' = IF c = Main
             THEN [task EXCEPT ![c].pc = After(task[c].held), ![c].notify = {}]
             ELSE [task EXCEPT ![c].pc = "wait"]
  /\ UNCHANGED <<batch, clearing, postVars, statusVars, main_clearing, mqtt_client, envVars,
                 failed>>

\* gw_status_wait_after_relaying_mode_changed polls the MQTT bit, then the HTTP bit.
wait_relaying_mode_changed(c, ch) ==
  /\ task[c].pc = "wait" /\ ch \in task[c].notify /\ ~cmd[ch]
  /\ ch = "http" => "mqtt" \notin task[c].notify
  /\ task' = [task EXCEPT ![c].notify = @ \ {ch},
                          ![c].pc = IF task[c].notify = {ch} THEN After(task[c].held) ELSE @]
  /\ UNCHANGED <<sigs, batch, clearing, postVars, statusVars, mainVars, envVars, failed>>

\* After 15 s the task goes on all the same.
wait_timeout(c) ==
  /\ "timeout" \in Events
  /\ task[c].pc = "wait"
  /\ task' = [task EXCEPT ![c].notify = {}, ![c].pc = After(task[c].held)]
  /\ UNCHANGED <<sigs, batch, clearing, postVars, statusVars, mainVars, envVars, failed>>

Notifying(c) == \/ set_relaying_cmd(c) \/ notify_relaying_mode_changed(c)
                \/ \E ch \in Channels : wait_relaying_mode_changed(c, ch)

-----------------------------------------------------------------------------
(* The tasks that send requests: the HTTP server and the firmware updater. *)

\* External: the HTTP server takes the mutex, if it uses it, while it handles
\* an incoming connection.
http_conn_begin(c) ==
  /\ "connection" \in Events
  /\ task[c].pc = "idle" /\ ~task[c].conn /\ mutex_used /\ lock.mutex = NoTask
  /\ lock' = [lock EXCEPT !.mutex = c]
  /\ task' = [task EXCEPT ![c].conn = TRUE]
  /\ UNCHANGED <<sigs, batch, clearing, post, async_timer, periodic, mutex_used, statusVars,
                 mainVars, envVars, failed>>

http_conn_end(c) ==
  /\ task[c].pc = "idle" /\ task[c].conn
  /\ lock' = IF lock.mutex = c THEN [lock EXCEPT !.mutex = NoTask] ELSE lock
  /\ task' = [task EXCEPT ![c].conn = FALSE]
  /\ UNCHANGED <<sigs, batch, clearing, post, async_timer, periodic, mutex_used, statusVars,
                 mainVars, envVars, failed>>

\* http_download_or_check and the handlers of the HTTP server and the firmware
\* updater, which suspend relaying around downloads that suspend it again.
client_suspend(c) ==
  /\ task[c].pc \in {"idle", "ready"} /\ Len(task[c].held) < MaxDepth
  /\ \E chans \in Suspensions : Suspend(c, chans)
  /\ UNCHANGED <<sigs, batch, clearing, postVars, cmd, mainVars, envVars, failed>>

\* The channels a task has suspended.
Held(c) == UNION {task[c].held[i] : i \in 1..Len(task[c].held)}

\* The assertions a request makes: relaying is suspended and p_http_async_sema
\* is free; the big TLS buffer also needs that of MQTT.
RequestAsserts(big) ==
  (IF lock.request # NoTask THEN {"request"} ELSE {})
    \cup (IF cnt["http"] = 0 THEN {"relaying"} ELSE {})
    \cup (IF big /\ (mqtt_client \/ cnt["mqtt"] = 0) THEN {"tls_buf"} ELSE {})

\* http_download_or_check_stage_1, http_check_post_advs and http_check_post_stat
\* take the request; a check of a target sets g_adv_post_action from this task.
http_request(c) ==
  /\ task[c].pc = "ready"
  /\ \E big \in BOOLEAN, a \in {post.action, "advs1", "advs2"} :
       /\ big => "mqtt" \in Held(c) /\ a = post.action
       /\ failed' = failed \cup RequestAsserts(big)
       /\ IF RequestAsserts(big) = {}
          THEN /\ lock' = [lock EXCEPT !.request = c]
               /\ post' = [post EXCEPT !.action = a]
               /\ task' = [task EXCEPT ![c].pc = IF big THEN "download" ELSE "busy"]
          ELSE UNCHANGED <<lock, post, task>>
  /\ UNCHANGED <<sigs, batch, clearing, async_timer, periodic, mutex_used, statusVars, mainVars,
                 envVars>>

http_request_done(c) ==
  /\ task[c].pc \in {"busy", "download"}
  /\ lock' = [lock EXCEPT !.request = NoTask]
  /\ task' = [task EXCEPT ![c].pc = "ready"]
  /\ UNCHANGED <<sigs, batch, clearing, post, async_timer, periodic, mutex_used, statusVars,
                 mainVars, envVars, failed>>

\* Mutant: the check leaves the MQTT client running.
http_check_mqtt_done_running(c) ==
  /\ task[c].pc = "mqtt_check"
  /\ lock' = [lock EXCEPT !.request = NoTask]
  /\ task' = [task EXCEPT ![c].pc = "ready"]
  /\ UNCHANGED <<sigs, batch, clearing, post, async_timer, periodic, mutex_used, statusVars,
                 mainVars, envVars, failed>>

\* http_check_mqtt takes the request too, and starts the MQTT client while both
\* channels are suspended ...
http_check_mqtt(c) ==
  /\ task[c].pc = "ready" /\ "mqtt" \in Held(c)
  /\ IF lock.request # NoTask
     THEN failed' = failed \cup {"request"} /\ UNCHANGED <<lock, task, mqtt_client>>
     ELSE /\ lock' = [lock EXCEPT !.request = c]
          /\ task' = [task EXCEPT ![c].pc = "mqtt_check"]
          /\ mqtt_client' \in (IF mqtt_client THEN {TRUE} ELSE BOOLEAN)
          /\ UNCHANGED failed
  /\ UNCHANGED <<sigs, batch, clearing, post, async_timer, periodic, mutex_used, statusVars,
                 main_sigs, main_clearing, envVars>>

\* ... and stops it when it is connected, has failed or has taken too long.
http_check_mqtt_done(c) ==
  /\ task[c].pc = "mqtt_check"
  /\ mqtt_client' = FALSE
  /\ lock' = [lock EXCEPT !.request = NoTask]
  /\ task' = [task EXCEPT ![c].pc = "ready"]
  /\ UNCHANGED <<sigs, batch, clearing, post, async_timer, periodic, mutex_used, statusVars,
                 main_sigs, main_clearing, envVars, failed>>

client_resume(c) ==
  /\ task[c].pc = "ready"
  /\ Resume(c)
  /\ UNCHANGED <<sigs, batch, clearing, postVars, cmd, mainVars, envVars, failed>>

Client(c) == \/ http_conn_begin(c) \/ http_conn_end(c) \/ client_suspend(c)
             \/ http_request(c) \/ http_request_done(c)
             \/ http_check_mqtt(c) \/ http_check_mqtt_done(c) \/ client_resume(c)

-----------------------------------------------------------------------------
(* The main task: it starts and stops MQTT and enters the configuration    *)
(* mode.  Its signals are handled one at a time, in either order.          *)

\* The bound on what changes without an end.
OneMoreChange == changes < MaxChanges /\ changes' = changes + 1

MainReady == task[Main].pc \in {"idle", "ready"} /\ ~main_clearing

\* mqtt_app_start takes the TLS buffer of MQTT, or fails to start.
MqttStart ==
  /\ mqtt_client' \in BOOLEAN
  /\ failed' = IF \E c \in Clients : task[c].pc = "download" THEN failed \cup {"tls_buf"}
                                                             ELSE failed

MqttStop == mqtt_client' = FALSE /\ UNCHANGED failed

\* main_task_handle_sig_relaying_mode_changed up to the command bit.
main_relaying_mode_changed_read ==
  /\ MainReady /\ "relaying_mode_changed" \in main_sigs
  /\ main_sigs' = main_sigs \ {"relaying_mode_changed"}
  /\ IF "mqtt" \in targets /\ cnt["mqtt"] = 0
     THEN IF mqtt_client THEN UNCHANGED <<mqtt_client, failed>> ELSE MqttStart
     ELSE MqttStop
  /\ main_clearing' = TRUE
  /\ UNCHANGED <<sigs, batch, clearing, postVars, statusVars, task, envVars>>

\* gw_status_clear_mqtt_relaying_cmd.
main_relaying_mode_changed_clear ==
  /\ main_clearing
  /\ main_clearing' = FALSE
  /\ cmd' = [cmd EXCEPT !["mqtt"] = FALSE]
  /\ UNCHANGED <<sigs, batch, clearing, postVars, cnt, task, main_sigs, mqtt_client, envVars,
                 failed>>

\* main_task_handle_sig_restart_services.
main_restart_services ==
  /\ MainReady /\ "restart_services" \in main_sigs
  /\ main_sigs' = main_sigs \ {"restart_services"}
  /\ IF "mqtt" \in targets /\ cnt["mqtt"] = 0 THEN MqttStart ELSE MqttStop
  /\ UNCHANGED <<sigs, batch, clearing, postVars, statusVars, task, main_clearing, envVars>>

\* main_task_handle_sig_activate_cfg_mode: relaying is suspended without waiting.
activate_cfg_mode ==
  /\ "cfg_mode" \in Events
  /\ MainReady /\ task[Main].held = <<>>
  /\ Suspend(Main, Channels)
  /\ OneMoreChange
  /\ UNCHANGED <<sigs, batch, clearing, postVars, cmd, mainVars, targets, online, time_ok, failed>>

\* main_task_handle_sig_deactivate_cfg_mode: services are restarted and relaying
\* is resumed without waiting.
deactivate_cfg_mode ==
  /\ MainReady /\ task[Main].held # <<>>
  /\ main_sigs' = main_sigs \cup {"restart_services"}
  /\ sigs' = sigs \cup {SIG_CFG_MODE_DEACTIVATED}
  /\ Resume(Main)
  /\ UNCHANGED <<batch, clearing, postVars, cmd, main_clearing, mqtt_client, envVars, failed>>

MainHandlers == \/ main_relaying_mode_changed_read \/ main_relaying_mode_changed_clear
                \/ main_restart_services

-----------------------------------------------------------------------------
(* External: timers, network, clock and a new configuration.               *)

DoAsyncCommTimer ==
  /\ async_timer
  /\ async_timer' = FALSE
  /\ sigs' = sigs \cup {SIG_DO_ASYNC_COMM}
  /\ UNCHANGED <<batch, clearing, post, periodic, lock, mutex_used, statusVars, task, mainVars,
                 envVars, failed>>

PeriodicTimer(t) ==
  /\ "traffic" \in Events
  /\ t \in periodic /\ SIG_RETRANSMIT[t] \notin sigs \cup batch
  /\ sigs' = sigs \cup {SIG_RETRANSMIT[t]}
  /\ UNCHANGED <<batch, clearing, postVars, statusVars, task, mainVars, envVars, failed>>

\* The network comes up and goes down.
Network ==
  /\ "network" \in Events
  /\ OneMoreChange
  /\ online' = ~online
  /\ sigs' = sigs \cup {IF online THEN SIG_NETWORK_DISCONNECTED ELSE SIG_NETWORK_CONNECTED}
  /\ UNCHANGED <<batch, clearing, postVars, statusVars, task, mainVars, targets, time_ok, failed>>

TimeSync ==
  /\ "time" \in Events /\ online /\ ~time_ok
  /\ time_ok' = TRUE
  /\ sigs' = sigs \cup {SIG_TIME_SYNCHRONIZED}
  /\ UNCHANGED <<batch, clearing, postVars, statusVars, task, mainVars, targets, online, changes,
                 failed>>

\* gw_cfg_update and the restart of services after it.
NewCfg ==
  /\ "cfg" \in Events
  /\ OneMoreChange
  /\ \E T \in Cfgs : T # targets /\ targets' = T
  /\ sigs' = sigs \cup {SIG_GW_CFG_CHANGED_RUUVI}
  /\ main_sigs' = main_sigs \cup {"restart_services"}
  /\ UNCHANGED <<batch, clearing, postVars, statusVars, task, main_clearing, mqtt_client,
                 online, time_ok, failed>>

Environment == \/ DoAsyncCommTimer \/ \E t \in Targets : PeriodicTimer(t)
               \/ Network \/ TimeSync \/ NewCfg

-----------------------------------------------------------------------------
\* A failed assertion ends the run of the gateway.  Unlocking a mutex that
\* adv_post does not own is noted and has no assertion in this code.
Running == failed \subseteq {"unlock"}

Next == /\ Running
        /\ \/ AdvPost
           \/ \E c \in Tasks : Notifying(c)
           \/ \E c \in Clients : Client(c) \/ wait_timeout(c)
           \/ MainHandlers \/ activate_cfg_mode \/ deactivate_cfg_mode
           \/ Environment

\* The tasks run, the one-shot timer expires, a request of adv_post that is
\* polled again and again comes to an end (the HTTP client has a timeout).
Fairness == /\ WF_vars(AdvPost) /\ SF_vars(do_async_comm_http_done)
            /\ WF_vars(DoAsyncCommTimer)
            /\ \A c \in Tasks : WF_vars(Notifying(c))
            /\ WF_vars(MainHandlers)

Spec == Init /\ [][Next]_vars /\ Fairness

-----------------------------------------------------------------------------
(* Properties *)

TaskState == [pc : {"idle", "set", "notify", "wait", "ready", "busy", "download",
                   "mqtt_check"},
              held : Seq(SUBSET Channels), notify : SUBSET Channels, conn : BOOLEAN]

Owners == Tasks \cup {AdvPostTask, NoTask}

\* Every variable keeps its type; in particular no counter goes below 0.
TypeOK ==
  /\ sigs \subseteq Signals /\ batch \subseteq Signals /\ clearing \in BOOLEAN
  /\ post \in PostState
  /\ async_timer \in BOOLEAN /\ periodic \subseteq Targets
  /\ lock \in [mutex : Owners, request : Owners] /\ mutex_used \in BOOLEAN
  /\ cnt \in [Channels -> Nat] /\ cmd \in [Channels -> BOOLEAN]
  /\ task \in [Tasks -> TaskState]
  /\ main_sigs \subseteq {"relaying_mode_changed", "restart_services"}
  /\ main_clearing \in BOOLEAN /\ mqtt_client \in BOOLEAN
  /\ targets \subseteq Targets /\ online \in BOOLEAN /\ time_ok \in BOOLEAN /\ changes \in Nat
  /\ failed \subseteq {"request", "relaying", "tls_buf", "owner", "unlock"}

Pending == sigs \cup batch

HttpInProgress == post.in_progress /\ post.action # "mqtt"

\* A request of adv_post holds p_http_async_sema and the http_server mutex from
\* its start to its end or abort, on every path through do_async_comm and
\* relaying_mode_changed (adv_post_async_comm.c:147-252, 322-366,
\* adv_post_signals.c:189-205).
HttpPostHoldsLocks ==
  /\ lock.request = AdvPostTask <=> HttpInProgress
  /\ lock.mutex = AdvPostTask <=> HttpInProgress

\* A transmission in progress is always polled again: the one-shot timer runs
\* or DO_ASYNC_COMM is on its way, whatever starts, ends or aborts transmissions
\* (adv_post_async_comm.c:322-408).
AsyncCommIsDriven ==
  post.in_progress => async_timer \/ SIG_DO_ASYNC_COMM \in Pending

\* A task that has counted but not yet notified.
Announcing(ch) == \E c \in Tasks : task[c].pc \in {"set", "notify"} /\ ch \in task[c].notify

\* adv_post's copy of the relaying mode is only older than the counter while a
\* notification is on its way: however many tasks suspend and resume, the last
\* change is never missed (adv_post_signals.c:189-205, gw_status.c:325-467).
RelayingModeIsFresh ==
  SIG_RELAYING_MODE_CHANGED \in Pending \/ Announcing("http")
    \/ (post.relaying_enabled <=> cnt["http"] = 0)

\* MQTT does not stay on behind a suspension: at rest a running client means
\* that nobody has suspended it, or that a task checks a broker inside its own
\* suspension (main_loop.c:603-656, http_check_mqtt.c:22-46).
MqttStopsWhenSuspended ==
  \/ "relaying_mode_changed" \in main_sigs \/ Announcing("mqtt")
  \/ mqtt_client => \/ cnt["mqtt"] = 0
                    \/ \E c \in Clients : task[c].pc = "mqtt_check"

\* The counters count exactly the suspensions that are not yet resumed, of all
\* tasks together (gw_status.c:357-467).
CountersBalanced ==
  \A ch \in Channels :
    cnt[ch] = Cardinality({x \in Tasks \X (1..MaxDepth + 1) :
                             /\ x[2] <= Len(task[x[1]].held)
                             /\ ch \in task[x[1]].held[x[2]]})

\* A raised command bit is always going to be cleared, so a waiting task does
\* not need its 15 s timeout (gw_status.c:287-355).
CmdIsGoingToBeHandled ==
  /\ cmd["http"] => SIG_RELAYING_MODE_CHANGED \in Pending \/ clearing
                      \/ \E c \in Tasks : task[c].pc = "notify"
  /\ cmd["mqtt"] => "relaying_mode_changed" \in main_sigs \/ main_clearing
                      \/ \E c \in Tasks : task[c].pc = "notify"

\* No assertion on the single HTTP request, the shared TLS buffers and the
\* suspended state fails: two requests never meet (http_post_advs.c:300-307,
\* http_download.c:516-525, http.c:533-541).  Unlocking a mutex that the task does
\* not hold, "unlock", is no assertion of the program: adv_post does so when it
\* aborts an MQTT transmission.
NoAssertionFails == failed \subseteq {"unlock"}

\* Once adv_post has been told of a suspension it transmits nothing, over HTTP
\* or MQTT, until the last task resumes: whoever suspends, waits or gives up
\* waiting in between, no transmission goes on or starts behind the counter
\* (adv_post_signals.c:189-205, adv_post_async_comm.c:322-408, gw_status.c:357-467).
SuspendedIsQuiet ==
  cnt["http"] > 0 => \/ SIG_RELAYING_MODE_CHANGED \in Pending \/ Announcing("http")
                     \/ ~post.in_progress

\* adv_post holds p_http_async_sema and the http_server mutex together, and only
\* while a request of its own is in progress; this is what is left of
\* HttpPostHoldsLocks when several tasks suspend, time out and request at once
\* (adv_post_async_comm.c:147-252, 322-366, adv_post_signals.c:189-205).
LocksBelongToRequest ==
  /\ lock.request = AdvPostTask <=> lock.mutex = AdvPostTask
  /\ lock.request = AdvPostTask => HttpInProgress

\* While a task sends requests, its channels stay suspended, although other
\* tasks suspend and resume them too: the assertions on the relaying state of
\* http_download.c:555-580, http_post_advs.c:539 and http_post_stat.c:286 hold.
RelayingStaysSuspended ==
  \A c \in Clients :
    /\ task[c].pc \in {"ready", "busy", "download", "mqtt_check"} => cnt["http"] > 0
    /\ task[c].pc \in {"download", "mqtt_check"} => cnt["mqtt"] > 0

\* A task that waits for its command is released.
WaitEnds == \A c \in Clients : task[c].pc = "wait" ~> task[c].pc # "wait"

\* A request of adv_post does not last forever, also when suspensions and new
\* configurations come in between: the next one, if any, is for another target.
AsyncCommEnds ==
  \A t \in UNION Cfgs \ {"mqtt"} :
    post.in_progress /\ post.action = t ~> ~post.in_progress \/ post.action # t
=============================================================================
