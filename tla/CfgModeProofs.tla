--------------------------- MODULE CfgModeProofs ----------------------------
(* Proofs about CfgMode, for every set of configurations and events and    *)
(* every number of events.                                                 *)
EXTENDS CfgMode, TLAPS

\* The signals, apart from their order.
LEMMA KnownSignals ==
  Signals = {"CHECK_FOR_FW_UPDATES", "SCHEDULE_NEXT_CHECK", "SCHEDULE_RETRY_CHECK", "ACTIVATE",
             "DEACTIVATE", "RESTART_SERVICES", "CHECK_FOR_REMOTE_CFG", "NETWORK_CONNECTED",
             "SET_DEFAULT_CONFIG"}
<1>1. DOMAIN Order = 1..9
  BY DEF Order
<1> QED
  BY <1>1 DEF Signals, ToSet, Order

\* The services and the timers of a configuration are known ones.
LEMMA KnownServices ==
  /\ DefaultServices \in SUBSET Services
  /\ \A c \in SUBSET Services : ServiceTimers(c) \subseteq Timers
  BY DEF DefaultServices, Services, ServiceTimers, Timers

-----------------------------------------------------------------------------
(* Types.                                                                  *)

\* The start has its type, with an empty or a saved configuration.
LEMMA InitType == Init => TypeOK
<1> SUFFICES ASSUME Init PROVE TypeOK
  OBVIOUS
<1>1. empty \in BOOLEAN /\ wps \in BOOLEAN
  <2>1. empty \in BOOLEAN /\ wps = empty
    BY DEF Init
  <2> QED
    BY <2>1
<1>2. services \subseteq Services /\ applied \subseteq Services
  BY CfgModeAssumption, KnownServices DEF Init, CfgModeAssumption
<1>3. timers \subseteq Timers
  BY <1>2, KnownServices DEF Init, Timers
<1>4. sig \subseteq Signals
  <2>1. sig \subseteq {"ACTIVATE", "DEACTIVATE"}
    BY DEF Init
  <2> QED
    BY <2>1, KnownSignals
<1>5. /\ batch = {} /\ main = "idle" /\ req = {} /\ http = "idle" /\ reset = "idle"
      /\ eth = "idle" /\ left \in 0..MaxEvents
  BY CfgModeAssumption DEF Init, CfgModeAssumption
<1>6. cfg_mode \in BOOLEAN /\ asked \in BOOLEAN
  BY DEF Init
<1> QED
  BY <1>1, <1>2, <1>3, <1>4, <1>5, <1>6 DEF TypeOK

\* Handling a signal takes it out of the batch.
LEMMA HandleType ==
  ASSUME NEW s, TypeOK, Handle(s)
  PROVE  batch' \subseteq Signals
  BY DEF Handle, TypeOK

\* Saving a configuration keeps the configuration and the signals in their types.
LEMMA SaveCfgType ==
  ASSUME TypeOK, NEW c \in SUBSET Services, NEW sent \in SUBSET Signals, SaveCfg(c, sent)
  PROVE  services' \subseteq Services /\ empty' \in BOOLEAN /\ sig' \subseteq Signals
  BY KnownSignals DEF SaveCfg, TypeOK

\* An event uses up one of those allowed.
LEMMA EventType ==
  ASSUME NEW e, TypeOK, Event(e)
  PROVE  left' \in 0..MaxEvents
  BY CfgModeAssumption DEF Event, TypeOK, CfgModeAssumption

\* Types, in steps of the main task.
LEMMA MainTaskType == TypeOK /\ MainTask => TypeOK'
<1> SUFFICES ASSUME TypeOK, MainTask PROVE TypeOK'
  OBVIOUS
<1> USE DEF modeVars, cfgVars
<1>1. CASE TakeSignals
  BY <1>1 DEF TakeSignals, TypeOK
<1>2. CASE check_for_fw_updates
  <2>1. batch' \subseteq Signals
    BY <1>2, HandleType DEF check_for_fw_updates
  <2>2. sig' \subseteq Signals /\ req' \subseteq {"release_info", "gw_cfg"}
    BY <1>2, KnownSignals DEF check_for_fw_updates, TypeOK
  <2> QED
    BY <1>2, <2>1, <2>2 DEF check_for_fw_updates, TypeOK
<1>3. CASE schedule_check
  <2>1. batch' \subseteq Signals
    BY <1>3, HandleType DEF schedule_check
  <2> QED
    BY <1>3, <2>1 DEF schedule_check, TypeOK, Timers
<1>4. CASE activate_cfg_mode
  <2>1. batch' \subseteq Signals
    BY <1>4, HandleType DEF activate_cfg_mode
  <2>2. cfg_mode' \in BOOLEAN /\ wps' \in BOOLEAN /\ timers' \subseteq Timers
    BY <1>4 DEF activate_cfg_mode, TypeOK
  <2> QED
    BY <1>4, <2>1, <2>2 DEF activate_cfg_mode, TypeOK
<1>5. CASE deactivate_stop_timer
  <2>1. batch' \subseteq Signals
    BY <1>5, HandleType DEF deactivate_stop_timer
  <2>2. main' \in {"idle", "deactivate"}
    BY <1>5 DEF deactivate_stop_timer
  <2> QED
    BY <1>5, <2>1, <2>2 DEF deactivate_stop_timer, TypeOK
<1>6. CASE deactivate_cfg_mode
  <2>1. sig' \subseteq Signals
    BY <1>6, KnownSignals DEF deactivate_cfg_mode, TypeOK
  <2>2. cfg_mode' \in BOOLEAN
    BY <1>6 DEF deactivate_cfg_mode, TypeOK
  <2> QED
    BY <1>6, <2>1, <2>2 DEF deactivate_cfg_mode, TypeOK
<1>7. CASE restart_services
  <2>1. batch' \subseteq Signals
    BY <1>7, HandleType DEF restart_services
  <2>2. timers' \subseteq Timers
    BY <1>7, KnownServices DEF restart_services, TypeOK
  <2> QED
    BY <1>7, <2>1, <2>2 DEF restart_services, TypeOK
<1>8. CASE check_for_remote_cfg
  <2>1. batch' \subseteq Signals
    BY <1>8, HandleType DEF check_for_remote_cfg
  <2> QED
    BY <1>8, <2>1 DEF check_for_remote_cfg, TypeOK
<1>9. CASE network_connected
  <2>1. batch' \subseteq Signals
    BY <1>9, HandleType DEF network_connected
  <2>2. sig' \subseteq Signals /\ asked' \in BOOLEAN
    BY <1>9, KnownSignals DEF network_connected, TypeOK
  <2> QED
    BY <1>9, <2>1, <2>2 DEF network_connected, TypeOK
<1>10. CASE set_default_config
  <2>1. batch' \subseteq Signals
    BY <1>10, HandleType DEF set_default_config
  <2>2. {"DEACTIVATE"} \in SUBSET Signals
    BY KnownSignals
  <2>3. services' \subseteq Services /\ empty' \in BOOLEAN /\ sig' \subseteq Signals
    BY <1>10, <2>2, SaveCfgType, KnownServices DEF set_default_config
  <2> QED
    BY <1>10, <2>1, <2>3 DEF set_default_config, TypeOK
<1> QED
  BY <1>1, <1>2, <1>3, <1>4, <1>5, <1>6, <1>7, <1>8, <1>9, <1>10 DEF MainTask

\* Types, in steps of the HTTP server.
LEMMA HttpServerType == TypeOK /\ HttpServer => TypeOK'
<1> SUFFICES ASSUME TypeOK, HttpServer PROVE TypeOK'
  OBVIOUS
<1> USE DEF modeVars, cfgVars
<1>1. CASE http_start_timer
  BY <1>1 DEF http_start_timer, TypeOK, Timers
<1>2. CASE download_latest_release_info
  <2>1. sig' \subseteq Signals
    BY <1>2, KnownSignals DEF download_latest_release_info, TypeOK
  <2> QED
    BY <1>2, <2>1 DEF download_latest_release_info, TypeOK
<1>3. CASE download_gw_cfg
  <2>1. CASE http' = "idle" /\ UNCHANGED <<cfgVars, sig, left>>
    BY <1>3, <2>1 DEF download_gw_cfg, TypeOK
  <2>2. ASSUME NEW c \in Configs, left > 0, left' = left - 1, SaveCfg(c, {}),
               http' = "restart_services"
        PROVE  TypeOK'
    <3>1. c \in SUBSET Services
      BY <2>2, CfgModeAssumption DEF CfgModeAssumption
    <3>2. services' \subseteq Services /\ empty' \in BOOLEAN /\ sig' \subseteq Signals
      BY <2>2, <3>1, SaveCfgType
    <3>3. left' \in 0..MaxEvents
      BY <2>2, CfgModeAssumption DEF TypeOK, CfgModeAssumption
    <3> QED
      BY <1>3, <2>2, <3>2, <3>3 DEF download_gw_cfg, TypeOK
  <2> QED
    BY <1>3, <2>1, <2>2 DEF download_gw_cfg
<1>4. CASE gw_cfg_restart_services
  <2>1. sig' \subseteq Signals
    BY <1>4, KnownSignals DEF gw_cfg_restart_services, TypeOK
  <2> QED
    BY <1>4, <2>1 DEF gw_cfg_restart_services, TypeOK
<1>5. ASSUME NEW r \in {"release_info", "gw_cfg"}, take_user_req(r) PROVE TypeOK'
  BY <1>5 DEF take_user_req, TypeOK
<1> QED
  BY <1>1, <1>2, <1>3, <1>4, <1>5 DEF HttpServer

\* Types, in steps of users, downloads and the button.
LEMMA UserType == TypeOK /\ User => TypeOK'
<1> SUFFICES ASSUME TypeOK, User PROVE TypeOK'
  OBVIOUS
<1> USE DEF modeVars, cfgVars
<1>1. CASE get_ruuvi_json
  <2>1. left' \in 0..MaxEvents /\ sig' \subseteq Signals
    BY <1>1, EventType, KnownSignals DEF get_ruuvi_json, TypeOK
  <2> QED
    BY <1>1, <2>1 DEF get_ruuvi_json, TypeOK
<1>2. CASE get_status_json
  <2>1. left' \in 0..MaxEvents
    BY <1>2, EventType DEF get_status_json
  <2> QED
    BY <1>2, <2>1 DEF get_status_json, TypeOK
<1>3. CASE post_network_cfg
  <2>1. left' \in 0..MaxEvents /\ services \in SUBSET Services
    BY <1>3, EventType DEF post_network_cfg, TypeOK
  <2>2. services' \subseteq Services /\ empty' \in BOOLEAN /\ sig' \subseteq Signals
    BY <1>3, <2>1, SaveCfgType DEF post_network_cfg
  <2> QED
    BY <1>3, <2>1, <2>2 DEF post_network_cfg, TypeOK
<1>4. CASE post_gw_cfg_download
  <2>1. left' \in 0..MaxEvents
    BY <1>4, EventType DEF post_gw_cfg_download
  <2> QED
    BY <1>4, <2>1 DEF post_gw_cfg_download, TypeOK
<1>5. ASSUME NEW c \in Configs, post_ruuvi_json(c) PROVE TypeOK'
  <2>1. left' \in 0..MaxEvents /\ c \in SUBSET Services
    BY <1>5, EventType, CfgModeAssumption DEF post_ruuvi_json, CfgModeAssumption
  <2>2. services' \subseteq Services /\ empty' \in BOOLEAN /\ sig' \subseteq Signals
    BY <1>5, <2>1, SaveCfgType DEF post_ruuvi_json
  <2> QED
    BY <1>5, <2>1, <2>2 DEF post_ruuvi_json, TypeOK
<1>6. CASE configure_button
  <2>1. left' \in 0..MaxEvents /\ sig' \subseteq Signals
    BY <1>6, EventType, KnownSignals DEF configure_button, TypeOK
  <2> QED
    BY <1>6, <2>1 DEF configure_button, TypeOK
<1> QED
  BY <1>1, <1>2, <1>3, <1>4, <1>5, <1>6 DEF User

\* Types, in steps of the network.
LEMMA NetworkType == TypeOK /\ Network => TypeOK'
<1> SUFFICES ASSUME TypeOK, Network PROVE TypeOK'
  OBVIOUS
<1> USE DEF modeVars, cfgVars
<1>1. CASE ethernet_connection_ok
  <2>1. left' \in 0..MaxEvents /\ eth' \in {"set_default", "connected"}
    BY <1>1, EventType DEF ethernet_connection_ok, TypeOK
  <2> QED
    BY <1>1, <2>1 DEF ethernet_connection_ok, TypeOK
<1>2. CASE wifi_connection_ok
  <2>1. left' \in 0..MaxEvents /\ sig' \subseteq Signals
    BY <1>2, EventType, KnownSignals DEF wifi_connection_ok, TypeOK
  <2> QED
    BY <1>2, <2>1 DEF wifi_connection_ok, TypeOK
<1>3. CASE save_wifi_config
  <2>1. left' \in 0..MaxEvents /\ services \in SUBSET Services
    BY <1>3, EventType DEF save_wifi_config, TypeOK
  <2>2. services' \subseteq Services /\ empty' \in BOOLEAN /\ sig' \subseteq Signals
    BY <1>3, <2>1, SaveCfgType DEF save_wifi_config
  <2> QED
    BY <1>3, <2>1, <2>2 DEF save_wifi_config, TypeOK
<1>4. CASE ap_sta_connected
  <2>1. left' \in 0..MaxEvents
    BY <1>4, EventType DEF ap_sta_connected
  <2> QED
    BY <1>4, <2>1 DEF ap_sta_connected, TypeOK
<1>5. CASE adv_post_restart_services
  <2>1. left' \in 0..MaxEvents /\ sig' \subseteq Signals
    BY <1>5, EventType, KnownSignals DEF adv_post_restart_services, TypeOK
  <2> QED
    BY <1>5, <2>1 DEF adv_post_restart_services, TypeOK
<1>6. CASE ethernet_set_default_config \/ ethernet_connected
  <2>1. sig' \subseteq Signals
    BY <1>6, KnownSignals DEF ethernet_set_default_config, ethernet_connected, TypeOK
  <2> QED
    BY <1>6, <2>1 DEF ethernet_set_default_config, ethernet_connected, TypeOK
<1> QED
  BY <1>1, <1>2, <1>3, <1>4, <1>5, <1>6 DEF Network

\* Types, in every step.
LEMMA StepType == TypeOK /\ [Next]_vars => TypeOK'
<1> SUFFICES ASSUME TypeOK, [Next]_vars PROVE TypeOK'
  OBVIOUS
<1> USE DEF modeVars, cfgVars
<1>1. CASE button_start_timer
  BY <1>1 DEF button_start_timer, TypeOK, Timers
<1>2. ASSUME NEW t \in Timers, Expire(t) PROVE TypeOK'
  <2>1. sig' \subseteq Signals /\ timers' \subseteq Timers
    BY <1>2, KnownSignals DEF Expire, TypeOK, Timers
  <2> QED
    BY <1>2, <2>1 DEF Expire, TypeOK
<1>3. CASE UNCHANGED vars
  BY <1>3 DEF vars, TypeOK
<1> QED
  BY <1>1, <1>2, <1>3, MainTaskType, HttpServerType, UserType, NetworkType DEF Next

\* Every variable keeps its type.
THEOREM TypeCorrect == Spec => []TypeOK
  BY InitType, StepType, PTL DEF Spec

-----------------------------------------------------------------------------
(* The services.                                                           *)

\* The timer of the check for updates is stopped only on entering configuration
\* mode, and whatever takes its place hands over to it again.
LEMMA StepScheduled ==
  ASSUME TypeOK, ServicesStayScheduled, [Next]_vars
  PROVE  ServicesStayScheduled'
<1> USE DEF modeVars, cfgVars, ServicesStayScheduled, Pending
<1>1. CASE TakeSignals
  BY <1>1 DEF TakeSignals
<1>2. CASE check_for_fw_updates
  BY <1>2 DEF check_for_fw_updates, Handle
<1>3. CASE schedule_check
  BY <1>3 DEF schedule_check, Handle
<1>4. CASE activate_cfg_mode
  BY <1>4 DEF activate_cfg_mode, Handle
<1>5. CASE deactivate_stop_timer
  BY <1>5 DEF deactivate_stop_timer, Handle
<1>6. CASE deactivate_cfg_mode
  BY <1>6 DEF deactivate_cfg_mode
<1>7. CASE restart_services
  BY <1>7 DEF restart_services, Handle, ServiceTimers
<1>8. CASE check_for_remote_cfg
  BY <1>8 DEF check_for_remote_cfg, Handle
<1>9. CASE network_connected
  BY <1>9 DEF network_connected, Handle
<1>10. CASE set_default_config
  BY <1>10 DEF set_default_config, Handle, SaveCfg
<1>11. CASE http_start_timer \/ download_latest_release_info
  BY <1>11 DEF http_start_timer, download_latest_release_info
<1>12. CASE download_gw_cfg \/ gw_cfg_restart_services
  BY <1>12 DEF download_gw_cfg, gw_cfg_restart_services, SaveCfg
<1>13. ASSUME NEW r \in {"release_info", "gw_cfg"}, take_user_req(r)
       PROVE  ServicesStayScheduled'
  BY <1>13 DEF take_user_req
<1>14. CASE \/ get_ruuvi_json \/ get_status_json \/ post_network_cfg \/ post_gw_cfg_download
            \/ configure_button
  BY <1>14 DEF get_ruuvi_json, get_status_json, post_network_cfg, post_gw_cfg_download,
               configure_button, SaveCfg
<1>15. ASSUME NEW c \in Configs, post_ruuvi_json(c) PROVE ServicesStayScheduled'
  BY <1>15 DEF post_ruuvi_json, SaveCfg
<1>16. CASE Network
  BY <1>16 DEF Network, ethernet_connection_ok, ethernet_set_default_config,
               ethernet_connected, wifi_connection_ok, save_wifi_config,
               ap_sta_connected, adv_post_restart_services, SaveCfg
<1>17. CASE button_start_timer
  BY <1>17 DEF button_start_timer
<1>18. ASSUME NEW t \in Timers, Expire(t) PROVE ServicesStayScheduled'
  BY <1>18 DEF Expire, Timers
<1>19. CASE UNCHANGED vars
  BY <1>19 DEF vars
<1> QED
  BY <1>1, <1>2, <1>3, <1>4, <1>5, <1>6, <1>7, <1>8, <1>9, <1>10, <1>11, <1>12, <1>13, <1>14,
     <1>15, <1>16, <1>17, <1>18, <1>19
  DEF Next, MainTask, HttpServer, User

\* Outside configuration mode the checks of the services in force go on, although
\* entering the mode stops both timers and the checks are handed from timers to
\* signals, to requests of the HTTP server and back.
THEOREM ChecksStayScheduled == Spec => []ServicesStayScheduled
<1>1. Init => ServicesStayScheduled
  BY DEF Init, ServicesStayScheduled, ServiceTimers
<1> QED
  BY <1>1, StepScheduled, TypeCorrect, PTL DEF Spec

\* The step property of ServicesAreCurrent.
KeepsCurrent == Current => Current' \/ SavedOutsideCfgMode

\* A step of the main task restarts the services or leaves the signal to do so.
LEMMA MainTaskKeepsCurrent == TypeOK /\ MainTask => KeepsCurrent
<1> SUFFICES ASSUME TypeOK, MainTask, Current PROVE Current' \/ SavedOutsideCfgMode
  BY DEF KeepsCurrent
<1> USE DEF modeVars, cfgVars, Current, Pending
<1>1. CASE \/ TakeSignals \/ check_for_fw_updates \/ schedule_check \/ activate_cfg_mode
  BY <1>1 DEF TakeSignals, check_for_fw_updates, schedule_check, activate_cfg_mode, Handle
<1>2. CASE deactivate_stop_timer \/ deactivate_cfg_mode
  BY <1>2 DEF deactivate_stop_timer, deactivate_cfg_mode, Handle
<1>3. CASE \/ restart_services \/ check_for_remote_cfg \/ network_connected
  BY <1>3 DEF restart_services, check_for_remote_cfg, network_connected, Handle
<1>4. CASE set_default_config
  <2>1. CASE cfg_mode
    BY <1>4, <2>1 DEF set_default_config
  <2>2. CASE ~cfg_mode
    BY <1>4, <2>2 DEF SavedOutsideCfgMode
  <2> QED
    BY <2>1, <2>2
<1> QED
  BY <1>1, <1>2, <1>3, <1>4 DEF MainTask

\* No step of another task makes the services old, but a save outside the mode.
LEMMA OthersKeepCurrent == TypeOK /\ [Next]_vars /\ ~MainTask => KeepsCurrent
<1> SUFFICES ASSUME TypeOK, [Next]_vars, ~MainTask, Current
             PROVE  Current' \/ SavedOutsideCfgMode
  BY DEF KeepsCurrent
<1> USE DEF modeVars, cfgVars, Current, Pending
<1>1. CASE \/ http_start_timer \/ download_latest_release_info \/ gw_cfg_restart_services
           \/ \E r \in {"release_info", "gw_cfg"} : take_user_req(r)
  BY <1>1 DEF http_start_timer, download_latest_release_info, gw_cfg_restart_services,
              take_user_req
<1>2. CASE download_gw_cfg
  BY <1>2 DEF download_gw_cfg, SaveCfg
<1>3. CASE \/ get_ruuvi_json \/ get_status_json \/ post_network_cfg \/ post_gw_cfg_download
           \/ configure_button
  BY <1>3 DEF get_ruuvi_json, get_status_json, post_network_cfg, post_gw_cfg_download,
              configure_button, SaveCfg
<1>4. ASSUME NEW c \in Configs, post_ruuvi_json(c) PROVE Current' \/ SavedOutsideCfgMode
  <2>1. CASE cfg_mode
    BY <1>4, <2>1 DEF post_ruuvi_json
  <2>2. CASE ~cfg_mode
    BY <1>4, <2>2 DEF SavedOutsideCfgMode
  <2> QED
    BY <2>1, <2>2
<1>5. CASE Network
  BY <1>5 DEF Network, ethernet_connection_ok, ethernet_set_default_config,
              ethernet_connected, wifi_connection_ok, save_wifi_config, ap_sta_connected,
              adv_post_restart_services, SaveCfg
<1>6. CASE button_start_timer \/ \E t \in Timers : Expire(t)
  BY <1>6 DEF button_start_timer, Expire, Timers
<1>7. CASE UNCHANGED vars
  BY <1>7 DEF vars
<1> QED
  BY <1>1, <1>2, <1>3, <1>4, <1>5, <1>6, <1>7 DEF Next, HttpServer, User

\* For every set of configurations and events, and with saves at any time: only
\* settings posted, or set by default, while configuration mode is off leave the
\* services behind the saved configuration.
THEOREM ServicesFollowCfg == Spec => ServicesAreCurrent
<1>1. TypeOK /\ [Next]_vars => [KeepsCurrent]_vars
  BY MainTaskKeepsCurrent, OthersKeepCurrent
<1> QED
  BY <1>1, TypeCorrect, PTL DEF Spec, ServicesAreCurrent, KeepsCurrent
=============================================================================
