------------------------------ MODULE CfgMode -------------------------------
(***************************************************************************)
(* Configuration mode and the services that stop and start with it: the     *)
(* main task (main_loop.c) with its signals and timers, the HTTP server     *)
(* task that activates the mode, saves configurations and carries out the   *)
(* checks the main task asks for (http_server_cb*.c), the reset task that   *)
(* handles the CONFIGURE button (reset_task.c) and the callbacks of the     *)
(* network (network_subsystem.c).  Whether the hotspot is active, the       *)
(* network connected and the time synchronized is external.                 *)
(***************************************************************************)
EXTENDS Naturals, Sequences, SequencesExt

CONSTANTS Configs,    \* the sets of services that users and servers configure
          Events,     \* what happens in an instance
          MaxEvents   \* bound: requests, button presses, network events and
                      \* changes of the remote configuration

\* mqtt: use_mqtt; auto: the update cycle is not manual; remote: use_remote_cfg
\* with a refresh interval.
Services == {"mqtt", "auto", "remote"}

DefaultServices == {"auto"}

ASSUME CfgModeAssumption ==
  /\ Configs \subseteq SUBSET Services
  /\ Events \subseteq {"get", "poll", "post", "download", "button", "connect", "eth",
                       "wps", "ap_station", "adv_post", "empty", "nrf52_updated"}
  /\ MaxEvents \in Nat

\* The signals of the main task in the order of their numbers.  Those that only
\* log, feed the watchdog, drive the link, the LEDs or relaying are left out.
Order == <<"CHECK_FOR_FW_UPDATES", "SCHEDULE_NEXT_CHECK", "SCHEDULE_RETRY_CHECK", "ACTIVATE",
           "DEACTIVATE", "RESTART_SERVICES", "CHECK_FOR_REMOTE_CFG", "NETWORK_CONNECTED",
           "SET_DEFAULT_CONFIG">>
Signals == ToSet(Order)

VARIABLES
  sig,       \* signals sent to the main task
  batch,     \* signals that it has taken and not yet handled
  main,      \* where it is in a handler
  cfg_mode,  \* GW_STATUS cfg_mode
  empty,     \* g_gw_cfg_is_empty
  wps,       \* GW_STATUS waiting_auto_cfg_by_wps
  services,  \* what the configuration enables
  applied,   \* what it enabled when services were last started
  timers,    \* active timers
  asked,     \* g_flag_initial_request_for_remote_cfg_performed
  req,       \* user requests to the HTTP server
  http,      \* where the HTTP server task is
  reset,     \* where the reset task is
  eth,       \* where the callback of the Ethernet connection is
  left       \* events left

modeVars == <<cfg_mode, wps>>
cfgVars == <<empty, services>>
vars == <<sig, batch, main, cfg_mode, empty, wps, services, applied, timers, asked, req, http,
          reset, eth, left>>

Timers == {"deactivate", "fw_check", "remote"}

\* Mutant: MQTT gets a timer too.
ServiceTimersEach(c) == {IF s = "auto" THEN "fw_check" ELSE s : s \in c}

\* The timers of the services c.
ServiceTimers(c) == (IF "auto" \in c THEN {"fw_check"} ELSE {})
                    \cup (IF "remote" \in c THEN {"remote"} ELSE {})

\* main_loop after start-up.  An empty configuration has started the hotspot, its
\* timer and WPS; the nRF52 may have been updated before (cb_before_ and
\* cb_after_nrf52_fw_updating); Ethernet may be connected already.
Init ==
  /\ empty \in IF "empty" \in Events THEN BOOLEAN ELSE {FALSE}
  /\ services \in IF empty THEN {DefaultServices} ELSE Configs
  /\ applied = services
  /\ timers = ServiceTimers(services) \cup (IF empty THEN {"deactivate"} ELSE {})
  /\ sig \in {IF empty THEN {"ACTIVATE"} ELSE {}}
             \cup (IF "nrf52_updated" \in Events THEN {{"ACTIVATE", "DEACTIVATE"}} ELSE {})
  /\ batch = {} /\ main = "idle" /\ cfg_mode = FALSE /\ wps = empty
  /\ asked = FALSE /\ req = {} /\ http = "idle" /\ reset = "idle" /\ eth = "idle"
  /\ left = MaxEvents

-----------------------------------------------------------------------------
(* The main task.                                                          *)

TakeSignals ==
  /\ main = "idle" /\ batch = {} /\ sig # {}
  /\ batch' = sig /\ sig' = {}
  /\ UNCHANGED <<main, modeVars, cfgVars, applied, timers, asked, req, http, reset, eth, left>>

\* os_signal_num_get_next: the lowest number first.
Handle(s) ==
  /\ main = "idle" /\ s \in batch
  /\ \A i, j \in DOMAIN Order : Order[i] = s /\ Order[j] \in batch => i <= j
  /\ batch' = batch \ {s}

\* check_if_checking_for_fw_updates_allowed: also connected, synchronized and within
\* the configured hours.
MayCheckForFwUpdates == "auto" \in services

check_for_fw_updates ==
  /\ Handle("CHECK_FOR_FW_UPDATES")
  /\ \/ MayCheckForFwUpdates /\ req' = req \cup {"release_info"} /\ UNCHANGED sig
     \/ sig' = sig \cup {"SCHEDULE_RETRY_CHECK"} /\ UNCHANGED req
  /\ UNCHANGED <<main, modeVars, cfgVars, applied, timers, asked, http, reset, eth, left>>

schedule_check ==
  /\ Handle("SCHEDULE_NEXT_CHECK") \/ Handle("SCHEDULE_RETRY_CHECK")
  /\ timers' = timers \cup {"fw_check"}
  /\ UNCHANGED <<sig, main, modeVars, cfgVars, applied, asked, req, http, reset, eth, left>>

\* Also suspends relaying (Relay).
activate_cfg_mode ==
  /\ Handle("ACTIVATE")
  /\ IF cfg_mode
     THEN wps' = FALSE /\ UNCHANGED <<cfg_mode, timers>>
     ELSE cfg_mode' = TRUE /\ timers' = timers \ {"remote", "fw_check"} /\ UNCHANGED wps
  /\ UNCHANGED <<sig, main, cfgVars, applied, asked, req, http, reset, eth, left>>

deactivate_stop_timer ==
  /\ Handle("DEACTIVATE")
  /\ timers' = timers \ {"deactivate"}
  /\ main' = IF cfg_mode THEN "deactivate" ELSE "idle"
  /\ UNCHANGED <<sig, modeVars, cfgVars, applied, asked, req, http, reset, eth, left>>

\* Mutant: services are not restarted.
deactivate_silently ==
  /\ main = "deactivate" /\ main' = "idle"
  /\ cfg_mode' = empty /\ wps' = FALSE
  /\ UNCHANGED <<sig, batch, cfgVars, applied, timers, asked, req, http, reset, eth, left>>

\* The rest of main_task_handle_sig_deactivate_cfg_mode; also stops the hotspot,
\* starts the link and resumes relaying (Relay).
deactivate_cfg_mode ==
  /\ main = "deactivate" /\ main' = "idle"
  /\ cfg_mode' = empty /\ wps' = FALSE
  /\ sig' = IF empty THEN sig ELSE sig \cup {"RESTART_SERVICES"}
  /\ UNCHANGED <<batch, cfgVars, applied, timers, asked, req, http, reset, eth, left>>

\* Also restarts MQTT (Relay).
restart_services ==
  /\ Handle("RESTART_SERVICES")
  /\ applied' = services
  /\ timers' = (timers \ {"fw_check", "remote"}) \cup ServiceTimers(services)
  /\ UNCHANGED <<sig, main, modeVars, cfgVars, asked, req, http, reset, eth, left>>

check_for_remote_cfg ==
  /\ Handle("CHECK_FOR_REMOTE_CFG")
  /\ req' = req \cup {"gw_cfg"}
  /\ UNCHANGED <<sig, main, modeVars, cfgVars, applied, timers, asked, http, reset, eth, left>>

\* The first time, and unless the hotspot is active, the remote configuration is
\* asked for at once.
network_connected ==
  /\ Handle("NETWORK_CONNECTED")
  /\ \/ "remote" \in services /\ ~asked /\ asked' = TRUE
        /\ sig' = sig \cup {"CHECK_FOR_REMOTE_CFG"}
     \/ UNCHANGED <<asked, sig>>
  /\ UNCHANGED <<main, modeVars, cfgVars, applied, timers, req, http, reset, eth, left>>

\* gw_cfg_set and ruuvi_cb_on_change_cfg: save configuration c, and the signals that
\* the save and the caller send.
SaveCfg(c, sent) ==
  /\ services' = c /\ empty' = FALSE
  /\ sig' = sig \cup sent \cup (IF wps THEN {"DEACTIVATE"} ELSE {})

set_default_config ==
  /\ Handle("SET_DEFAULT_CONFIG")
  /\ SaveCfg(DefaultServices, {"DEACTIVATE"})
  /\ UNCHANGED <<main, modeVars, applied, timers, asked, req, http, reset, eth, left>>

\* A timer expires; the check for the remote configuration is periodic.
Expire(t) ==
  /\ t \in timers
  /\ timers' = IF t = "remote" THEN timers ELSE timers \ {t}
  /\ sig' = sig \cup {CASE t = "deactivate" -> "DEACTIVATE"
                        [] t = "fw_check" -> "CHECK_FOR_FW_UPDATES"
                        [] t = "remote" -> "CHECK_FOR_REMOTE_CFG"}
  /\ UNCHANGED <<batch, main, modeVars, cfgVars, applied, asked, req, http, reset, eth, left>>

-----------------------------------------------------------------------------
(* The HTTP server task.                                                   *)

Event(e) == e \in Events /\ left > 0 /\ left' = left - 1

\* GET /ruuvi.json: http_server_resp_json_ruuvi.
get_ruuvi_json ==
  /\ Event("get") /\ http = "idle"
  /\ sig' = sig \cup {"ACTIVATE"} /\ http' = "start_timer"
  /\ UNCHANGED <<batch, main, modeVars, cfgVars, applied, timers, asked, req, reset, eth>>

\* GET /status.json: cb_on_request_status_json restarts the timer if it is active.
get_status_json ==
  /\ Event("poll") /\ http = "idle"
  /\ "deactivate" \in timers /\ http' = "start_timer"
  /\ UNCHANGED <<sig, batch, main, modeVars, cfgVars, applied, timers, asked, req, reset, eth>>

\* POST /ruuvi.json with settings: http_server_cb_on_post_ruuvi.  Nobody looks whether
\* configuration mode is active or the default configuration about to be set.
post_ruuvi_json(c) ==
  /\ Event("post") /\ http = "idle"
  /\ SaveCfg(c, {}) /\ http' = "start_timer"
  /\ UNCHANGED <<batch, main, modeVars, applied, timers, asked, req, reset, eth>>

\* POST /ruuvi.json of the network step in the hotspot: no timer.
post_network_cfg ==
  /\ Event("post") /\ http = "idle"
  /\ SaveCfg(services, {})
  /\ UNCHANGED <<batch, main, modeVars, applied, timers, asked, req, http, reset, eth>>

\* POST /gw_cfg_download: http_server_cb_on_post_gw_cfg_download.
post_gw_cfg_download ==
  /\ Event("download") /\ http = "idle"
  /\ http' = "gw_cfg"
  /\ UNCHANGED <<sig, batch, main, modeVars, cfgVars, applied, timers, asked, req, reset, eth>>

\* timer_cfg_mode_deactivation_start.
http_start_timer ==
  /\ http = "start_timer"
  /\ timers' = timers \cup {"deactivate"} /\ http' = "idle"
  /\ UNCHANGED <<sig, batch, main, modeVars, cfgVars, applied, asked, req, reset, eth, left>>

\* http_server_cb_on_user_req.
take_user_req(r) ==
  /\ http = "idle" /\ r \in req
  /\ http' = r /\ req' = req \ {r}
  /\ UNCHANGED <<sig, batch, main, modeVars, cfgVars, applied, timers, asked, reset, eth, left>>

\* Mutant: a failed download is not tried again.
download_latest_release_info_once ==
  /\ http = "release_info" /\ http' = "idle"
  /\ sig' \in {sig, sig \cup {"SCHEDULE_NEXT_CHECK"}}
  /\ UNCHANGED <<batch, main, modeVars, cfgVars, applied, timers, asked, req, reset, eth, left>>

\* The download succeeds or not.  A required update restarts the gateway (FwUpdate).
download_latest_release_info ==
  /\ http = "release_info" /\ http' = "idle"
  /\ \E s \in {"SCHEDULE_NEXT_CHECK", "SCHEDULE_RETRY_CHECK"} : sig' = sig \cup {s}
  /\ UNCHANGED <<batch, main, modeVars, cfgVars, applied, timers, asked, req, reset, eth, left>>

\* http_server_gw_cfg_download_and_update: nothing new, or a configuration, which
\* enables the remote configuration, is saved.  Without a URL the download fails.
\* Other network settings restart the gateway and are left out.
download_gw_cfg ==
  /\ http = "gw_cfg"
  /\ \/ http' = "idle" /\ UNCHANGED <<cfgVars, sig, left>>
     \/ \E c \in Configs :
          /\ "remote" \in services \cap c /\ c # services
          /\ left > 0 /\ left' = left - 1
          /\ SaveCfg(c, {}) /\ http' = "restart_services"
  /\ UNCHANGED <<batch, main, modeVars, applied, timers, asked, req, reset, eth>>

\* Mutant: services are not restarted after a remote configuration.
gw_cfg_not_applied ==
  /\ http = "restart_services" /\ http' = "idle"
  /\ UNCHANGED <<sig, batch, main, modeVars, cfgVars, applied, timers, asked, req, reset, eth, left>>

gw_cfg_restart_services ==
  /\ http = "restart_services" /\ http' = "idle"
  /\ sig' = sig \cup {"RESTART_SERVICES"}
  /\ UNCHANGED <<batch, main, modeVars, cfgVars, applied, timers, asked, req, reset, eth, left>>

-----------------------------------------------------------------------------
(* The reset task, the network and adv_post.                               *)

\* The CONFIGURE button is released while the hotspot is not active.
configure_button ==
  /\ Event("button") /\ reset = "idle"
  /\ sig' = sig \cup {"ACTIVATE"} /\ reset' = "start_timer"
  /\ UNCHANGED <<batch, main, modeVars, cfgVars, applied, timers, asked, req, http, eth>>

button_start_timer ==
  /\ reset = "start_timer"
  /\ timers' = timers \cup {"deactivate"} /\ reset' = "idle"
  /\ UNCHANGED <<sig, batch, main, modeVars, cfgVars, applied, asked, req, http, eth, left>>

\* ethernet_connection_ok_cb, in the task of the event loop: the configuration is
\* looked at first ...
ethernet_connection_ok ==
  /\ Event("eth") /\ eth = "idle"
  /\ eth' = IF empty THEN "set_default" ELSE "connected"
  /\ UNCHANGED <<sig, batch, main, modeVars, cfgVars, applied, timers, asked, req, http, reset>>

\* ... then the default one is asked for, whatever was saved meanwhile, ...
ethernet_set_default_config ==
  /\ eth = "set_default" /\ eth' = "connected"
  /\ sig' = sig \cup {"SET_DEFAULT_CONFIG"}
  /\ UNCHANGED <<batch, main, modeVars, cfgVars, applied, timers, asked, req, http, reset, left>>

\* ... and at last the event is notified.
ethernet_connected ==
  /\ eth = "connected" /\ eth' = "idle"
  /\ sig' = sig \cup {"NETWORK_CONNECTED"}
  /\ UNCHANGED <<batch, main, modeVars, cfgVars, applied, timers, asked, req, http, reset, left>>

\* wifi_connection_ok_cb.
wifi_connection_ok ==
  /\ Event("connect")
  /\ sig' = sig \cup {"NETWORK_CONNECTED"} \cup (IF wps THEN {"DEACTIVATE"} ELSE {})
  /\ UNCHANGED <<batch, main, modeVars, cfgVars, applied, timers, asked, req, http, reset, eth>>

\* cb_save_wifi_config: credentials got by WPS.
save_wifi_config ==
  /\ Event("wps") /\ wps
  /\ SaveCfg(services, {})
  /\ UNCHANGED <<batch, main, modeVars, applied, timers, asked, req, http, reset, eth>>

\* cb_on_ap_sta_connected.
ap_sta_connected ==
  /\ Event("ap_station")
  /\ wps' = FALSE
  /\ UNCHANGED <<sig, batch, main, cfg_mode, cfgVars, applied, timers, asked, req, http, reset, eth>>

\* adv_post could not start the periodic MQTT transmission.
adv_post_restart_services ==
  /\ Event("adv_post")
  /\ sig' = sig \cup {"RESTART_SERVICES"}
  /\ UNCHANGED <<batch, main, modeVars, cfgVars, applied, timers, asked, req, http, reset, eth>>

-----------------------------------------------------------------------------
MainTask ==
  \/ TakeSignals \/ check_for_fw_updates \/ schedule_check \/ activate_cfg_mode
  \/ deactivate_stop_timer \/ deactivate_cfg_mode \/ restart_services
  \/ check_for_remote_cfg \/ network_connected \/ set_default_config

HttpServer ==
  \/ http_start_timer \/ download_latest_release_info \/ download_gw_cfg
  \/ gw_cfg_restart_services
  \/ \E r \in {"release_info", "gw_cfg"} : take_user_req(r)

User ==
  \/ get_ruuvi_json \/ get_status_json \/ post_network_cfg \/ post_gw_cfg_download
  \/ \E c \in Configs : post_ruuvi_json(c)
  \/ configure_button

Network ==
  \/ ethernet_connection_ok \/ ethernet_set_default_config \/ ethernet_connected
  \/ wifi_connection_ok \/ save_wifi_config \/ ap_sta_connected
  \/ adv_post_restart_services

Next == \/ MainTask \/ HttpServer \/ User \/ Network \/ button_start_timer
        \/ \E t \in Timers : Expire(t)

Fairness == /\ WF_vars(MainTask) /\ WF_vars(button_start_timer)
            /\ WF_vars(ethernet_set_default_config \/ ethernet_connected)
            /\ WF_vars(http_start_timer \/ download_latest_release_info \/ download_gw_cfg
                       \/ gw_cfg_restart_services)
            /\ SF_vars(take_user_req("release_info")) /\ SF_vars(take_user_req("gw_cfg"))
            /\ WF_vars(Expire("fw_check")) /\ WF_vars(Expire("deactivate"))

Spec == Init /\ [][Next]_vars /\ Fairness

-----------------------------------------------------------------------------
(* Properties.                                                             *)

\* Every variable has its type.
TypeOK ==
  /\ sig \subseteq Signals /\ batch \subseteq Signals /\ main \in {"idle", "deactivate"}
  /\ cfg_mode \in BOOLEAN /\ empty \in BOOLEAN /\ wps \in BOOLEAN
  /\ services \subseteq Services /\ applied \subseteq Services
  /\ timers \subseteq Timers /\ asked \in BOOLEAN /\ req \subseteq {"release_info", "gw_cfg"}
  /\ http \in {"idle", "start_timer", "release_info", "gw_cfg", "restart_services"}
  /\ reset \in {"idle", "start_timer"} /\ eth \in {"idle", "set_default", "connected"}
  /\ left \in 0..MaxEvents

Pending == sig \cup batch

\* Outside configuration mode the checks of the services that are in force go on:
\* their timer runs, or a signal or a request is on its way that leads back to it
\* (main_task_handle_sig_activate_cfg_mode stops both timers).
ServicesStayScheduled ==
  ~cfg_mode =>
    /\ "auto" \in applied =>
         \/ "fw_check" \in timers \/ "release_info" \in req \/ http = "release_info"
         \/ Pending \cap {"CHECK_FOR_FW_UPDATES", "SCHEDULE_NEXT_CHECK",
                          "SCHEDULE_RETRY_CHECK", "RESTART_SERVICES"} # {}
    /\ "remote" \in applied => "remote" \in timers \/ "RESTART_SERVICES" \in Pending

\* The services that run are those of the saved configuration, or they are going
\* to be restarted.
Current == \/ cfg_mode \/ services = applied
           \/ "RESTART_SERVICES" \in Pending \/ http = "restart_services"

\* Settings posted, or the default ones set, while configuration mode is off.
SavedOutsideCfgMode == /\ ~cfg_mode
                       /\ set_default_config \/ \E c \in Configs : post_ruuvi_json(c)

\* Nothing but a save of settings outside configuration mode leaves services behind
\* the saved configuration: not the end of the mode, whoever ends it and whatever was
\* saved in it, nor a remote configuration that arrives while the mode begins or ends,
\* nor WPS (main_loop.c:375-475, 605-630, http_server_cb.c:609-624).
ServicesAreCurrent == [][Current => Current' \/ SavedOutsideCfgMode]_vars

\* A gateway with automatic updates goes on looking for them, unless it enters
\* configuration mode again and again.
ChecksGoOn == []<>("CHECK_FOR_FW_UPDATES" \in batch \/ cfg_mode \/ "auto" \notin applied)

\* A saved configuration takes effect: the services are restarted with it in the
\* end (gateway_configuration.md: the gateway is configured "programmatically").
NewCfgTakesEffect == (services # applied) ~> (services = applied)
=============================================================================
