----------------------------- MODULE Nrf52Link ------------------------------
(***************************************************************************)
(* main/adv_post_nrf52.c and main/adv_post_green_led.c: how the gateway     *)
(* keeps the nRF52 radio configured over a UART.  Three tasks take part:    *)
(* adv_post (commands, acknowledgements, timeouts, hardware reset),         *)
(* uart_rx (callbacks of received messages) and the HTTP server (a new      *)
(* configuration at any moment).  The nRF52 and the wires are external:     *)
(* commands and acknowledgements may be lost, late or negative, and the     *)
(* nRF52 may reboot by itself, MaxFaults times in all.                      *)
(***************************************************************************)
EXTENDS Integers, Sequences, FiniteSets

CONSTANTS ADV_POST_NRF52_NO_ACK_MAX_CNT,  \* lost acknowledgements before a reset
          MaxCfg,                         \* bound: number of configurations
          MaxFaults,                      \* bound: number of faults
          Events                          \* what else happens in an instance

ASSUME LinkAssumption == /\ ADV_POST_NRF52_NO_ACK_MAX_CNT \in Nat \ {0}
                         /\ MaxCfg \in Nat \ {0}
                         /\ MaxFaults \in Nat
                         /\ Events \subseteq {"green_led", "green_led_state", "update_fw", "late",
                                              "lost", "rejected", "mute", "self_reboot"}

VARIABLES
  sigs,          \* signals sent to adv_post and not yet fetched
  batch,         \* signals fetched by adv_post and not yet handled
  timers,        \* active timers
  cached,        \* g_adv_post_nrf52_cfg.scan and .filter: number of the configuration
  cfg_ready,     \* g_adv_post_nrf52_cfg.flag_cfg_ready
  configured,    \* g_adv_post_nrf52_cfg.flag_nrf52_configured
  in_hw_reset,   \* g_adv_post_nrf52_cfg.flag_nrf52_in_hw_reset_state
  last_cmd,      \* g_adv_post_nrf52_last_cmd
  waiting_ack,   \* g_adv_post_nrf52_is_waiting_ack
  cfg_required,  \* g_adv_post_nrf52_flag_cfg_required
  timeout_cnt,   \* g_adv_post_nrf52_ack_timeout_cnt
  led_required,  \* g_adv_post_nrf52_led_ctrl_time_interval_ms is not INVALID
  led_disabled,  \* g_adv_post_green_led_disabled
  manual_reset,  \* g_nrf52fw_flag_manual_reset_mode
  updating,      \* a caller of adv_post_nrf52_cfg_update has not sent the signal yet
  uart_ack,      \* the acknowledgement that uart_rx is in the middle of handling
  tx,            \* commands on the way to the nRF52
  rx,            \* messages on the way from the nRF52
  nrf,           \* external: the nRF52, what it does and its configuration (0: none)
  faults         \* faults so far

driverVars == <<cached, cfg_ready, configured, in_hw_reset, last_cmd, waiting_ack, cfg_required,
                timeout_cnt, led_required, led_disabled, manual_reset, updating>>
vars == <<sigs, batch, timers, cached, cfg_ready, configured, in_hw_reset, last_cmd, waiting_ack,
          cfg_required, timeout_cnt, led_required, led_disabled, manual_reset, updating,
          uart_ack, tx, rx, nrf, faults>>

\* Signals by their number in adv_post_sig_e: adv_post handles the lowest first.
SIG_NRF52_REBOOTED == 17
SIG_NRF52_ACK_LED_CTRL == 19
SIG_NRF52_ACK_CFG == 20
SIG_NRF52_ACK_TIMEOUT == 21
SIG_NRF52_CFG_UPDATE == 22
SIG_NRF52_HW_RESET_OFF == 23
SIG_NRF52_CFG_REQ_TIMEOUT == 24
SIG_GREEN_LED_STATE_CHANGED == 25
SIG_GREEN_LED_UPDATE == 26

Signals == {17} \cup (19..26)
Timers == {"ack", "reset", "cfg_req", "green_led"}
Cmds == {"NONE", "LED_CTRL", "SET_ALL"}
Cfgs == 0..MaxCfg
NoAck == [cmd |-> "NONE", ok |-> FALSE, last |-> "NONE"]

\* Modes of the nRF52: held in reset, starting, running, or up without having
\* asked for its configuration.
Modes == {"reset", "boot", "run", "mute"}

\* adv_post_nrf52_init ends with adv_post_nrf52_reset.
Init ==
  /\ sigs = {} /\ batch = {}
  /\ timers = {"reset"}
  /\ cached = 0 /\ cfg_ready = FALSE /\ configured = FALSE
  /\ in_hw_reset = TRUE
  /\ last_cmd = "NONE" /\ waiting_ack = FALSE /\ cfg_required = FALSE
  /\ timeout_cnt = 0
  /\ led_required = FALSE /\ led_disabled = FALSE
  /\ manual_reset = FALSE
  /\ updating = FALSE
  /\ uart_ack = NoAck
  /\ tx = <<>> /\ rx = <<>>
  /\ nrf = [mode |-> "reset", cfg |-> 0]
  /\ faults = 0

-----------------------------------------------------------------------------
(* The adv_post task.                                                      *)

\* os_signal_wait_with_timeout returns all signals sent so far.
TakeSignals ==
  /\ batch = {} /\ sigs # {}
  /\ batch' = sigs /\ sigs' = {}
  /\ UNCHANGED <<timers, driverVars, uart_ack, tx, rx, nrf, faults>>

\* os_signal_num_get_next.
Handle(s) == /\ s \in batch /\ \A t \in batch : s <= t
             /\ batch' = batch \ {s}

\* Mutant: the timeout timer is not started.
SendCmdUntimed(c, v, ts) ==
  /\ timers' = ts
  /\ last_cmd' = c
  /\ waiting_ack' = TRUE
  /\ tx' = IF nrf.mode = "run" THEN Append(tx, [cmd |-> c, cfg |-> v]) ELSE tx

\* adv_post_nrf52_set_waiting_ack and the transmission; ts are the timers left
\* by the part of the handler that ran before.  A chip that is not running
\* does not receive.
SendCmd(c, v, ts) ==
  /\ timers' = ts \cup {"ack"}
  /\ last_cmd' = c
  /\ waiting_ack' = TRUE
  /\ tx' = IF nrf.mode = "run" THEN Append(tx, [cmd |-> c, cfg |-> v]) ELSE tx

SendNothing(ts) ==
  /\ timers' = ts
  /\ waiting_ack' = FALSE
  /\ UNCHANGED <<last_cmd, tx>>

send_cmd_led_ctrl_internal(ts) == SendCmd("LED_CTRL", 0, ts)

send_cmd_cfg_internal(ts) == IF manual_reset THEN SendNothing(ts)
                                             ELSE SendCmd("SET_ALL", cached, ts)

\* Mutant: the reset timer is not started.
nrf52_reset_untimed ==
  /\ nrf' = [mode |-> "reset", cfg |-> 0]
  /\ tx' = <<>>
  /\ in_hw_reset' = TRUE
  /\ led_required' = FALSE /\ cfg_required' = FALSE /\ waiting_ack' = FALSE
  /\ UNCHANGED <<last_cmd, timers>>

\* adv_post_nrf52_reset.  Whatever was on the wires is lost; the timeout timer,
\* last_cmd and flag_nrf52_configured are left as they are.
nrf52_reset ==
  /\ nrf' = [mode |-> "reset", cfg |-> 0]
  /\ tx' = <<>>
  /\ in_hw_reset' = TRUE
  /\ led_required' = FALSE
  /\ cfg_required' = FALSE
  /\ waiting_ack' = FALSE
  /\ timers' = timers \cup {"reset"}
  /\ UNCHANGED last_cmd

\* Mutant: the configuration is not sent again.
on_sig_nrf52_rebooted_ignored ==
  /\ Handle(SIG_NRF52_REBOOTED)
  /\ led_required' = FALSE /\ cfg_required' = FALSE /\ waiting_ack' = FALSE
  /\ timers' = timers \ {"cfg_req"}
  /\ UNCHANGED <<sigs, cached, cfg_ready, configured, in_hw_reset, last_cmd, timeout_cnt,
                 led_disabled, manual_reset, updating, uart_ack, tx, rx, nrf, faults>>

on_sig_nrf52_rebooted ==
  /\ Handle(SIG_NRF52_REBOOTED)
  /\ led_required' = FALSE /\ cfg_required' = FALSE /\ waiting_ack' = FALSE
  /\ sigs' = IF ~manual_reset /\ cfg_ready THEN sigs \cup {SIG_NRF52_CFG_UPDATE} ELSE sigs
  /\ timers' = timers \ {"cfg_req"}
  /\ UNCHANGED <<cached, cfg_ready, configured, in_hw_reset, last_cmd, timeout_cnt, led_disabled,
                 manual_reset, updating, uart_ack, tx, rx, nrf, faults>>

\* Mutant: a configuration that became required meanwhile is not sent.
on_sync_ack_led_ctrl_only ==
  /\ Handle(SIG_NRF52_ACK_LED_CTRL)
  /\ led_required' = FALSE
  /\ timeout_cnt' = 0
  /\ SendNothing(timers \ {"ack"})
  /\ UNCHANGED <<sigs, cached, cfg_ready, configured, in_hw_reset, cfg_required, led_disabled,
                 manual_reset, updating, uart_ack, rx, nrf, faults>>

on_sync_ack_led_ctrl ==
  /\ Handle(SIG_NRF52_ACK_LED_CTRL)
  /\ led_required' = FALSE
  /\ timeout_cnt' = 0
  /\ LET stopped == timers \ {"ack"}
     IN IF cfg_required THEN send_cmd_cfg_internal(stopped) ELSE SendNothing(stopped)
  /\ UNCHANGED <<sigs, cached, cfg_ready, configured, in_hw_reset, cfg_required, led_disabled,
                 manual_reset, updating, uart_ack, rx, nrf, faults>>

\* Mutant: flag_cfg_required is not reset.
on_sync_ack_cfg_still_required ==
  /\ Handle(SIG_NRF52_ACK_CFG)
  /\ timeout_cnt' = 0
  /\ configured' = TRUE
  /\ led_disabled' = FALSE
  /\ LET stopped == (timers \ {"ack"}) \cup {"green_led"}
     IN IF led_required THEN send_cmd_led_ctrl_internal(stopped) ELSE SendNothing(stopped)
  /\ UNCHANGED <<sigs, cached, cfg_ready, in_hw_reset, cfg_required, led_required, manual_reset,
                 updating, uart_ack, rx, nrf, faults>>

\* adv_post_nrf52_on_sync_ack_cfg, then adv_post_green_led_enable.
on_sync_ack_cfg ==
  /\ Handle(SIG_NRF52_ACK_CFG)
  /\ timeout_cnt' = 0
  /\ cfg_required' = FALSE
  /\ configured' = TRUE
  /\ led_disabled' = FALSE
  /\ LET stopped == (timers \ {"ack"}) \cup {"green_led"}
     IN IF led_required THEN send_cmd_led_ctrl_internal(stopped) ELSE SendNothing(stopped)
  /\ UNCHANGED <<sigs, cached, cfg_ready, in_hw_reset, led_required, manual_reset, updating,
                 uart_ack, rx, nrf, faults>>

\* Mutant: > for >=.
on_sync_ack_timeout_late ==
  /\ Handle(SIG_NRF52_ACK_TIMEOUT)
  /\ IF timeout_cnt + 1 > ADV_POST_NRF52_NO_ACK_MAX_CNT
     THEN /\ timeout_cnt' = 0
          /\ nrf52_reset
     ELSE /\ timeout_cnt' = timeout_cnt + 1
          /\ IF cfg_required THEN send_cmd_cfg_internal(timers)
             ELSE IF led_required THEN send_cmd_led_ctrl_internal(timers)
             ELSE SendNothing(timers)
          /\ UNCHANGED <<nrf, in_hw_reset, led_required, cfg_required>>
  /\ UNCHANGED <<sigs, cached, cfg_ready, configured, led_disabled, manual_reset, updating,
                 uart_ack, rx, faults>>

\* Ten timeouts in a row reset the nRF52, fewer repeat the command.
on_sync_ack_timeout ==
  /\ Handle(SIG_NRF52_ACK_TIMEOUT)
  /\ IF timeout_cnt + 1 >= ADV_POST_NRF52_NO_ACK_MAX_CNT
     THEN /\ timeout_cnt' = 0
          /\ nrf52_reset
     ELSE /\ timeout_cnt' = timeout_cnt + 1
          /\ IF cfg_required THEN send_cmd_cfg_internal(timers)
             ELSE IF led_required THEN send_cmd_led_ctrl_internal(timers)
             ELSE SendNothing(timers)
          /\ UNCHANGED <<nrf, in_hw_reset, led_required, cfg_required>>
  /\ UNCHANGED <<sigs, cached, cfg_ready, configured, led_disabled, manual_reset, updating,
                 uart_ack, rx, faults>>

on_sig_nrf52_cfg_update ==
  /\ Handle(SIG_NRF52_CFG_UPDATE)
  /\ configured' = FALSE
  /\ cfg_required' = TRUE
  /\ IF waiting_ack THEN UNCHANGED <<timers, last_cmd, waiting_ack, tx>>
                    ELSE send_cmd_cfg_internal(timers)
  /\ UNCHANGED <<sigs, cached, cfg_ready, in_hw_reset, timeout_cnt, led_required, led_disabled,
                 manual_reset, updating, uart_ack, rx, nrf, faults>>

\* Mutant: the request timer is not started.
on_sig_nrf52_hw_reset_off_untimed ==
  /\ Handle(SIG_NRF52_HW_RESET_OFF)
  /\ nrf' = [nrf EXCEPT !.mode = IF @ = "reset" THEN "boot" ELSE @]
  /\ in_hw_reset' = FALSE
  /\ UNCHANGED <<sigs, timers, cached, cfg_ready, configured, last_cmd, waiting_ack, cfg_required,
                 timeout_cnt, led_required, led_disabled, manual_reset, updating, uart_ack,
                 tx, rx, faults>>

on_sig_nrf52_hw_reset_off ==
  /\ Handle(SIG_NRF52_HW_RESET_OFF)
  /\ nrf' = [nrf EXCEPT !.mode = IF @ = "reset" THEN "boot" ELSE @]
  /\ in_hw_reset' = FALSE
  /\ timers' = timers \cup {"cfg_req"}
  /\ UNCHANGED <<sigs, cached, cfg_ready, configured, last_cmd, waiting_ack, cfg_required,
                 timeout_cnt, led_required, led_disabled, manual_reset, updating, uart_ack,
                 tx, rx, faults>>

on_sig_nrf52_cfg_req_timeout ==
  /\ Handle(SIG_NRF52_CFG_REQ_TIMEOUT)
  /\ nrf52_reset
  /\ UNCHANGED <<sigs, cached, cfg_ready, configured, timeout_cnt, led_disabled, manual_reset,
                 updating, uart_ack, rx, faults>>

\* adv_post_on_green_led_update for both signals of the green LED.
on_green_led_update(s) ==
  /\ Handle(s)
  /\ IF led_disabled
     THEN /\ timers' = timers \ {"green_led"}
          /\ UNCHANGED <<led_required, last_cmd, waiting_ack, tx>>
     ELSE /\ led_required' = TRUE
          /\ IF waiting_ack
             THEN timers' = timers \cup {"green_led"} /\ UNCHANGED <<last_cmd, waiting_ack, tx>>
             ELSE send_cmd_led_ctrl_internal(timers \cup {"green_led"})
  /\ UNCHANGED <<sigs, cached, cfg_ready, configured, in_hw_reset, cfg_required, timeout_cnt,
                 led_disabled, manual_reset, updating, uart_ack, rx, nrf, faults>>

AdvPost == \/ TakeSignals
           \/ on_sig_nrf52_rebooted \/ on_sync_ack_led_ctrl \/ on_sync_ack_cfg
           \/ on_sync_ack_timeout \/ on_sig_nrf52_cfg_update
           \/ on_sig_nrf52_hw_reset_off \/ on_sig_nrf52_cfg_req_timeout
           \/ on_green_led_update(SIG_GREEN_LED_STATE_CHANGED)
           \/ on_green_led_update(SIG_GREEN_LED_UPDATE)

-----------------------------------------------------------------------------
(* The uart_rx task.                                                       *)

\* adv_post_nrf52_on_async_ack reads g_adv_post_nrf52_last_cmd ...
on_async_ack_read ==
  /\ uart_ack = NoAck
  /\ rx # <<>> /\ Head(rx).cmd # "GET_ALL"
  /\ uart_ack' = [cmd |-> Head(rx).cmd, ok |-> Head(rx).ok, last |-> last_cmd]
  /\ rx' = Tail(rx)
  /\ UNCHANGED <<sigs, batch, timers, driverVars, tx, nrf, faults>>

\* ... and then clears it, whatever adv_post wrote to it meanwhile.
on_async_ack_clear ==
  /\ uart_ack # NoAck
  /\ last_cmd' = "NONE"
  /\ sigs' = IF uart_ack.last = uart_ack.cmd /\ uart_ack.ok
             THEN sigs \cup {IF uart_ack.cmd = "SET_ALL" THEN SIG_NRF52_ACK_CFG
                                                         ELSE SIG_NRF52_ACK_LED_CTRL}
             ELSE sigs
  /\ uart_ack' = NoAck
  /\ UNCHANGED <<batch, timers, cached, cfg_ready, configured, in_hw_reset, waiting_ack,
                 cfg_required, timeout_cnt, led_required, led_disabled, manual_reset, updating,
                 tx, rx, nrf, faults>>

\* adv_post_nrf52_cb_on_recv_get_all.
on_recv_get_all ==
  /\ uart_ack = NoAck
  /\ rx # <<>> /\ Head(rx).cmd = "GET_ALL"
  /\ rx' = Tail(rx)
  /\ led_disabled' = TRUE
  /\ sigs' = sigs \cup {SIG_NRF52_REBOOTED}
  /\ UNCHANGED <<batch, timers, cached, cfg_ready, configured, in_hw_reset, last_cmd, waiting_ack,
                 cfg_required, timeout_cnt, led_required, manual_reset, updating, uart_ack,
                 tx, nrf, faults>>

UartRx == on_async_ack_read \/ on_async_ack_clear \/ on_recv_get_all

-----------------------------------------------------------------------------
(* Other tasks.                                                            *)

\* adv_post_nrf52_cfg_update, called by the HTTP server when the user changes
\* the scan settings and by adv_post when the configuration has changed: the
\* configuration is cached first ...
cfg_update_cached ==
  /\ ~updating /\ cached < MaxCfg
  /\ cached' = cached + 1
  /\ configured' = FALSE
  /\ in_hw_reset' = FALSE
  /\ cfg_ready' = TRUE
  /\ updating' = TRUE
  /\ UNCHANGED <<sigs, batch, timers, last_cmd, waiting_ack, cfg_required, timeout_cnt,
                 led_required, led_disabled, manual_reset, uart_ack, tx, rx, nrf, faults>>

\* ... and then the signal is sent.
cfg_update_signal ==
  /\ updating
  /\ updating' = FALSE
  /\ sigs' = sigs \cup {SIG_NRF52_CFG_UPDATE}
  /\ UNCHANGED <<batch, timers, cached, cfg_ready, configured, in_hw_reset, last_cmd, waiting_ack,
                 cfg_required, timeout_cnt, led_required, led_disabled, manual_reset, uart_ack,
                 tx, rx, nrf, faults>>

\* nrf52fw_update_fw_if_necessary of a firmware update: the radio is taken
\* over and is not released before the gateway restarts.
update_fw ==
  /\ "update_fw" \in Events /\ ~manual_reset
  /\ led_disabled' = TRUE
  /\ manual_reset' = TRUE
  /\ nrf' = [mode |-> "reset", cfg |-> 0]
  /\ tx' = <<>>
  /\ UNCHANGED <<sigs, batch, timers, cached, cfg_ready, configured, in_hw_reset, last_cmd,
                 waiting_ack, cfg_required, timeout_cnt, led_required, updating, uart_ack,
                 rx, faults>>

\* The leds task reports a new state of the green LED.
green_led_state_changed ==
  /\ "green_led_state" \in Events /\ SIG_GREEN_LED_STATE_CHANGED \notin sigs
  /\ sigs' = sigs \cup {SIG_GREEN_LED_STATE_CHANGED}
  /\ UNCHANGED <<batch, timers, driverVars, uart_ack, tx, rx, nrf, faults>>

-----------------------------------------------------------------------------
(* External: timers, the nRF52 and the UART.                               *)

Fault(kind) == kind \in Events /\ faults < MaxFaults /\ faults' = faults + 1

\* An answer is still on its way through the UART or the signals, or the chip
\* is going to ask for its configuration.
AnswerComing ==
  \/ tx # <<>> \/ rx # <<>> \/ uart_ack # NoAck
  \/ {SIG_NRF52_ACK_LED_CTRL, SIG_NRF52_ACK_CFG} \cap (sigs \cup batch) # {}
  \/ nrf.mode \in {"reset", "boot"} /\ ~manual_reset

\* 100 ms are enough for an answer, and ten times 100 ms for a restart, unless
\* something is wrong.
AckTimeout ==
  /\ "ack" \in timers
  /\ IF AnswerComing THEN Fault("late") ELSE UNCHANGED faults
  /\ timers' = timers \ {"ack"}
  /\ sigs' = sigs \cup {SIG_NRF52_ACK_TIMEOUT}
  /\ UNCHANGED <<batch, driverVars, uart_ack, tx, rx, nrf>>

\* The reset lasts 100 ms, in which uart_rx handles all that it had received.
ResetTimer ==
  /\ "reset" \in timers
  /\ rx = <<>> /\ uart_ack = NoAck
  /\ timers' = timers \ {"reset"}
  /\ sigs' = sigs \cup {SIG_NRF52_HW_RESET_OFF}
  /\ UNCHANGED <<batch, driverVars, uart_ack, tx, rx, nrf, faults>>

\* The nRF52 is about to start or its request is on its way.
Starting == \/ nrf.mode \in {"reset", "boot"} /\ ~manual_reset
            \/ \E i \in 1..Len(rx) : rx[i].cmd = "GET_ALL"
            \/ SIG_NRF52_REBOOTED \in sigs \cup batch

\* 500 ms are enough for the nRF52 to start unless something is wrong.
CfgReqTimeout ==
  /\ "cfg_req" \in timers
  /\ IF Starting THEN Fault("late") ELSE UNCHANGED faults
  /\ timers' = timers \ {"cfg_req"}
  /\ sigs' = sigs \cup {SIG_NRF52_CFG_REQ_TIMEOUT}
  /\ UNCHANGED <<batch, driverVars, uart_ack, tx, rx, nrf>>

GreenLedTimer ==
  /\ "green_led" \in Events
  /\ "green_led" \in timers /\ SIG_GREEN_LED_UPDATE \notin sigs
  /\ sigs' = sigs \cup {SIG_GREEN_LED_UPDATE}
  /\ UNCHANGED <<batch, timers, driverVars, uart_ack, tx, rx, nrf, faults>>

\* The nRF52 starts and asks for its configuration, or does not get that far.
NrfBoot ==
  /\ nrf.mode = "boot"
  /\ \/ /\ nrf' = [nrf EXCEPT !.mode = "run"]
        /\ rx' = Append(rx, [cmd |-> "GET_ALL", ok |-> TRUE])
        /\ UNCHANGED faults
     \/ /\ nrf' = [nrf EXCEPT !.mode = "mute"]
        /\ Fault("mute")
        /\ UNCHANGED rx
  /\ UNCHANGED <<sigs, batch, timers, driverVars, uart_ack, tx>>

\* The nRF52 executes a command and acknowledges it.
NrfExecute ==
  /\ nrf.mode = "run" /\ tx # <<>>
  /\ tx' = Tail(tx)
  /\ nrf' = IF Head(tx).cmd = "SET_ALL" THEN [nrf EXCEPT !.cfg = Head(tx).cfg] ELSE nrf
  /\ rx' = Append(rx, [cmd |-> Head(tx).cmd, ok |-> TRUE])
  /\ UNCHANGED <<sigs, batch, timers, driverVars, uart_ack, faults>>

\* The nRF52 rejects a command.
NrfReject ==
  /\ tx # <<>> /\ Fault("rejected")
  /\ tx' = Tail(tx)
  /\ rx' = Append(rx, [cmd |-> Head(tx).cmd, ok |-> FALSE])
  /\ UNCHANGED <<sigs, batch, timers, driverVars, uart_ack, nrf>>

\* A command is lost before or after the nRF52 executes it.
Lose ==
  /\ tx # <<>> /\ Fault("lost")
  /\ tx' = Tail(tx)
  /\ \/ UNCHANGED nrf
     \/ Head(tx).cmd = "SET_ALL" /\ nrf' = [nrf EXCEPT !.cfg = Head(tx).cfg]
  /\ UNCHANGED <<sigs, batch, timers, driverVars, uart_ack, rx>>

\* The nRF52 restarts by itself and asks for its configuration.
NrfSelfReboot ==
  /\ nrf.mode = "run" /\ Fault("self_reboot")
  /\ nrf' = [mode |-> "run", cfg |-> 0]
  /\ tx' = <<>>
  /\ rx' = Append(rx, [cmd |-> "GET_ALL", ok |-> TRUE])
  /\ UNCHANGED <<sigs, batch, timers, driverVars, uart_ack>>

Nrf == NrfBoot \/ NrfExecute
Environment == AckTimeout \/ ResetTimer \/ CfgReqTimeout \/ GreenLedTimer \/ Nrf
               \/ NrfReject \/ Lose \/ NrfSelfReboot

Next == \/ AdvPost
        \/ UartRx
        \/ cfg_update_cached \/ cfg_update_signal \/ update_fw \/ green_led_state_changed
        \/ Environment

\* The tasks run, timers expire and the nRF52 works.
Fairness == /\ WF_vars(AdvPost) /\ WF_vars(UartRx) /\ WF_vars(cfg_update_signal)
            /\ WF_vars(AckTimeout) /\ WF_vars(ResetTimer) /\ WF_vars(CfgReqTimeout)
            /\ WF_vars(Nrf)

Spec == Init /\ [][Next]_vars /\ Fairness

-----------------------------------------------------------------------------
(* Properties *)

Command == [cmd : Cmds, cfg : Cfgs]
Message == [cmd : Cmds \cup {"GET_ALL"}, ok : BOOLEAN]

\* Every variable keeps its type.
TypeOK ==
  /\ sigs \subseteq Signals /\ batch \subseteq Signals /\ timers \subseteq Timers
  /\ cached \in Cfgs
  /\ cfg_ready \in BOOLEAN /\ configured \in BOOLEAN /\ in_hw_reset \in BOOLEAN
  /\ last_cmd \in Cmds
  /\ waiting_ack \in BOOLEAN /\ cfg_required \in BOOLEAN
  /\ timeout_cnt \in 0..(ADV_POST_NRF52_NO_ACK_MAX_CNT - 1)
  /\ led_required \in BOOLEAN /\ led_disabled \in BOOLEAN
  /\ manual_reset \in BOOLEAN /\ updating \in BOOLEAN
  /\ uart_ack \in [cmd : Cmds, ok : BOOLEAN, last : Cmds]
  /\ tx \in Seq(Command) /\ rx \in Seq(Message)
  /\ nrf \in [mode : Modes, cfg : Cfgs]
  /\ faults \in 0..MaxFaults

\* The assertions of adv_post_nrf52_send_cmd_cfg_internal (adv_post_nrf52.c:167-171):
\* the configuration is never required of a chip that counts as configured,
\* although the HTTP server, late acknowledgements, timeouts and resets all
\* change these flags on their own.
CfgRequiredOnlyIfUnconfigured == cfg_required => ~configured

Pending == sigs \cup batch

\* adv_post never waits for an acknowledgement that nothing will end: the
\* timeout timer runs or its signal is on its way (adv_post_nrf52.c:136-143).
WaitingIsTimed == waiting_ack => "ack" \in timers \/ SIG_NRF52_ACK_TIMEOUT \in Pending

\* A chip held in reset is always about to be released, unless it was taken over
\* by a firmware update (adv_post_nrf52.c:221-234, 371-387).
ResetIsTimed ==
  nrf.mode = "reset" =>
    "reset" \in timers \/ SIG_NRF52_HW_RESET_OFF \in Pending \/ manual_reset

\* A chip that was released but stays silent is never forgotten: either the
\* request timeout or an unanswered configuration command will reset it, also
\* when a request from before the reset has stopped the request timeout
\* (adv_post_nrf52.c:316-345, 371-396).
SilenceIsTimed ==
  nrf.mode = "mute" /\ cfg_ready /\ ~manual_reset =>
    \/ {"ack", "cfg_req", "reset"} \cap timers # {}
    \/ updating
    \/ {SIG_NRF52_CFG_REQ_TIMEOUT, SIG_NRF52_HW_RESET_OFF, SIG_NRF52_REBOOTED,
        SIG_NRF52_ACK_TIMEOUT, SIG_NRF52_CFG_UPDATE} \cap Pending # {}

\* Nothing is on its way between the tasks and the chip.
Quiet == Pending = {} /\ ~updating /\ ~waiting_ack /\ uart_ack = NoAck /\ tx = <<>> /\ rx = <<>>

\* When the link is at rest and the gateway takes the chip as configured, the
\* chip runs with a configuration: no reboot, reset, lost or late
\* acknowledgement leaves it unconfigured unnoticed.
ConfiguredChipHasConfig ==
  Quiet /\ configured /\ ~manual_reset /\ nrf.mode = "run" => nrf.cfg # 0

\* adv_post_nrf52_cfg_update promises to pass the cached configuration to the
\* nRF52: at rest, a configured chip has the cached one (adv_post_nrf52.c:282-286).
CachedCfgIsPassed ==
  Quiet /\ configured /\ nrf.mode = "run" => nrf.cfg = cached

\* Once there is a configuration, and however the faults fall, the chip ends up
\* running and configured and stays so: the retries, the reset after repeated
\* timeouts and the request timeout recover the link.
EventuallyConfigured ==
  cfg_ready ~> [](manual_reset \/ (configured /\ nrf.mode = "run" /\ nrf.cfg # 0))

\* A required configuration is not starved by the green LED: it is acknowledged
\* or given up by a reset.
CfgRequiredIsServed == cfg_required ~> (~cfg_required \/ manual_reset)
=============================================================================
