-------------------------- MODULE Nrf52LinkProofs ---------------------------
(* Proofs about Nrf52Link, for every number of faults and configurations   *)
(* and every set of events.                                                *)
EXTENDS Nrf52Link, TLAPS, SequenceTheorems

USE DEF SIG_NRF52_REBOOTED, SIG_NRF52_ACK_LED_CTRL, SIG_NRF52_ACK_CFG, SIG_NRF52_ACK_TIMEOUT,
        SIG_NRF52_CFG_UPDATE, SIG_NRF52_HW_RESET_OFF, SIG_NRF52_CFG_REQ_TIMEOUT,
        SIG_GREEN_LED_STATE_CHANGED, SIG_GREEN_LED_UPDATE

-----------------------------------------------------------------------------
(* Types.                                                                  *)

\* The part of the type that sending a command can disturb.
SendTypeOK == /\ timers \subseteq Timers /\ last_cmd \in Cmds /\ waiting_ack \in BOOLEAN
              /\ tx \in Seq(Command)

\* The initial state has its type.
LEMMA InitType == Init => TypeOK
<1> SUFFICES ASSUME Init PROVE TypeOK
  OBVIOUS
<1>1. tx \in Seq(Command) /\ rx \in Seq(Message)
  BY DEF Init
<1>2. nrf \in [mode : Modes, cfg : Cfgs] /\ faults \in 0..MaxFaults /\ cached \in Cfgs
      /\ timeout_cnt \in 0..(ADV_POST_NRF52_NO_ACK_MAX_CNT - 1)
  BY LinkAssumption DEF Init, LinkAssumption, Modes, Cfgs
<1>3. uart_ack \in [cmd : Cmds, ok : BOOLEAN, last : Cmds] /\ last_cmd \in Cmds
      /\ timers \subseteq Timers
  BY DEF Init, NoAck, Cmds, Timers
<1> QED
  BY <1>1, <1>2, <1>3 DEF Init, TypeOK

\* Handling a signal takes it out of the batch.
LEMMA HandleType ==
  ASSUME NEW s, TypeOK, Handle(s)
  PROVE  batch' \subseteq Signals
  BY DEF Handle, TypeOK

\* Sending a command keeps types.
LEMMA SendCmdType ==
  ASSUME TypeOK, NEW c \in Cmds, NEW v \in Cfgs, NEW ts \in SUBSET Timers, SendCmd(c, v, ts)
  PROVE  SendTypeOK'
<1>1. [cmd |-> c, cfg |-> v] \in Command
  BY DEF Command
<1>2. tx' \in Seq(Command)
  BY <1>1 DEF SendCmd, TypeOK
<1> QED
  BY <1>2 DEF SendCmd, Timers, SendTypeOK

\* Stopping timers without sending keeps types.
LEMMA SendNothingType ==
  ASSUME TypeOK, NEW ts \in SUBSET Timers, SendNothing(ts)
  PROVE  SendTypeOK'
  BY DEF SendNothing, TypeOK, SendTypeOK

\* Sending the configuration, or nothing, keeps types.
LEMMA SendCfgType ==
  ASSUME TypeOK, NEW ts \in SUBSET Timers, send_cmd_cfg_internal(ts)
  PROVE  SendTypeOK'
<1>1. cached \in Cfgs /\ "SET_ALL" \in Cmds
  BY DEF TypeOK, Cmds
<1> QED
  BY <1>1, SendCmdType, SendNothingType DEF send_cmd_cfg_internal

\* Sending a LED command keeps types.
LEMMA SendLedType ==
  ASSUME TypeOK, NEW ts \in SUBSET Timers, send_cmd_led_ctrl_internal(ts)
  PROVE  SendTypeOK'
<1>1. 0 \in Cfgs /\ "LED_CTRL" \in Cmds
  BY LinkAssumption DEF LinkAssumption, Cfgs, Cmds
<1> QED
  BY <1>1, SendCmdType DEF send_cmd_led_ctrl_internal

\* A hardware reset keeps types.
LEMMA ResetType ==
  ASSUME TypeOK, nrf52_reset
  PROVE  SendTypeOK' /\ nrf' \in [mode : Modes, cfg : Cfgs]
<1>1. tx' \in Seq(Command)
  BY DEF nrf52_reset
<1>2. nrf' \in [mode : Modes, cfg : Cfgs]
  BY LinkAssumption DEF LinkAssumption, nrf52_reset, Modes, Cfgs
<1> QED
  BY <1>1, <1>2 DEF nrf52_reset, TypeOK, SendTypeOK, Timers

\* Types, in steps of adv_post.
LEMMA AdvPostType == TypeOK /\ AdvPost => TypeOK'
<1> SUFFICES ASSUME TypeOK, AdvPost PROVE TypeOK'
  OBVIOUS
<1>0. 0 \in 0..(ADV_POST_NRF52_NO_ACK_MAX_CNT - 1)
  BY LinkAssumption DEF LinkAssumption
<1>1. CASE TakeSignals
  BY <1>1 DEF TakeSignals, driverVars, TypeOK
<1>2. CASE on_sig_nrf52_rebooted
  <2>1. batch' \subseteq Signals
    BY <1>2, HandleType DEF on_sig_nrf52_rebooted
  <2>2. sigs' \subseteq Signals /\ timers' \subseteq Timers
    BY <1>2 DEF on_sig_nrf52_rebooted, TypeOK, Signals
  <2> QED
    BY <1>2, <2>1, <2>2 DEF on_sig_nrf52_rebooted, TypeOK
<1>3. CASE on_sync_ack_led_ctrl
  <2> DEFINE stopped == timers \ {"ack"}
  <2>1. batch' \subseteq Signals
    BY <1>3, HandleType DEF on_sync_ack_led_ctrl
  <2>2. stopped \in SUBSET Timers /\ (send_cmd_cfg_internal(stopped) \/ SendNothing(stopped))
    BY <1>3 DEF on_sync_ack_led_ctrl, TypeOK
  <2> HIDE DEF stopped
  <2>3. SendTypeOK'
    BY <2>2, SendCfgType, SendNothingType
  <2> QED
    BY <1>0, <1>3, <2>1, <2>3 DEF on_sync_ack_led_ctrl, TypeOK, SendTypeOK
<1>4. CASE on_sync_ack_cfg
  <2> DEFINE stopped == (timers \ {"ack"}) \cup {"green_led"}
  <2>1. batch' \subseteq Signals
    BY <1>4, HandleType DEF on_sync_ack_cfg
  <2>2. /\ stopped \in SUBSET Timers
        /\ send_cmd_led_ctrl_internal(stopped) \/ SendNothing(stopped)
    BY <1>4 DEF on_sync_ack_cfg, TypeOK, Timers
  <2> HIDE DEF stopped
  <2>3. SendTypeOK'
    BY <2>2, SendLedType, SendNothingType
  <2> QED
    BY <1>0, <1>4, <2>1, <2>3 DEF on_sync_ack_cfg, TypeOK, SendTypeOK
<1>5. CASE on_sync_ack_timeout
  <2>1. batch' \subseteq Signals
    BY <1>5, HandleType DEF on_sync_ack_timeout
  <2>2. CASE timeout_cnt + 1 >= ADV_POST_NRF52_NO_ACK_MAX_CNT
    <3>1. nrf52_reset /\ timeout_cnt' = 0
      BY <1>5, <2>2 DEF on_sync_ack_timeout
    <3>2. SendTypeOK' /\ nrf' \in [mode : Modes, cfg : Cfgs]
      BY <3>1, ResetType
    <3>3. /\ in_hw_reset' \in BOOLEAN /\ led_required' \in BOOLEAN /\ cfg_required' \in BOOLEAN
      BY <3>1 DEF nrf52_reset
    <3> QED
      BY <1>0, <1>5, <2>1, <3>1, <3>2, <3>3 DEF on_sync_ack_timeout, TypeOK, SendTypeOK
  <2>3. CASE ~(timeout_cnt + 1 >= ADV_POST_NRF52_NO_ACK_MAX_CNT)
    <3>1. /\ timeout_cnt' = timeout_cnt + 1
          /\ \/ send_cmd_cfg_internal(timers) \/ send_cmd_led_ctrl_internal(timers)
             \/ SendNothing(timers)
          /\ UNCHANGED <<nrf, in_hw_reset, led_required, cfg_required>>
      BY <1>5, <2>3 DEF on_sync_ack_timeout
    <3>2. SendTypeOK'
      BY <3>1, SendCfgType, SendLedType, SendNothingType DEF TypeOK
    <3>3. timeout_cnt' \in 0..(ADV_POST_NRF52_NO_ACK_MAX_CNT - 1)
      BY <2>3, <3>1, LinkAssumption DEF LinkAssumption, TypeOK
    <3> QED
      BY <1>5, <2>1, <3>1, <3>2, <3>3 DEF on_sync_ack_timeout, TypeOK, SendTypeOK
  <2> QED
    BY <2>2, <2>3
<1>6. CASE on_sig_nrf52_cfg_update
  <2>1. batch' \subseteq Signals
    BY <1>6, HandleType DEF on_sig_nrf52_cfg_update
  <2>2. UNCHANGED <<timers, last_cmd, waiting_ack, tx>> \/ send_cmd_cfg_internal(timers)
    BY <1>6 DEF on_sig_nrf52_cfg_update
  <2>3. SendTypeOK'
    BY <2>2, SendCfgType DEF TypeOK, SendTypeOK
  <2> QED
    BY <1>6, <2>1, <2>3 DEF on_sig_nrf52_cfg_update, TypeOK, SendTypeOK
<1>7. CASE on_sig_nrf52_hw_reset_off
  <2>1. batch' \subseteq Signals
    BY <1>7, HandleType DEF on_sig_nrf52_hw_reset_off
  <2>2. nrf' \in [mode : Modes, cfg : Cfgs] /\ timers' \subseteq Timers
    BY <1>7 DEF on_sig_nrf52_hw_reset_off, TypeOK, Modes, Timers
  <2> QED
    BY <1>7, <2>1, <2>2 DEF on_sig_nrf52_hw_reset_off, TypeOK
<1>8. CASE on_sig_nrf52_cfg_req_timeout
  <2>1. batch' \subseteq Signals
    BY <1>8, HandleType DEF on_sig_nrf52_cfg_req_timeout
  <2>2. nrf52_reset /\ SendTypeOK' /\ nrf' \in [mode : Modes, cfg : Cfgs]
    BY <1>8, ResetType DEF on_sig_nrf52_cfg_req_timeout
  <2>3. in_hw_reset' \in BOOLEAN /\ led_required' \in BOOLEAN /\ cfg_required' \in BOOLEAN
    BY <2>2 DEF nrf52_reset
  <2> QED
    BY <1>8, <2>1, <2>2, <2>3 DEF on_sig_nrf52_cfg_req_timeout, TypeOK, SendTypeOK
<1>9. ASSUME NEW s \in {SIG_GREEN_LED_STATE_CHANGED, SIG_GREEN_LED_UPDATE},
             on_green_led_update(s)
      PROVE  TypeOK'
  <2> DEFINE ts == timers \cup {"green_led"}
  <2>1. batch' \subseteq Signals
    BY <1>9, HandleType DEF on_green_led_update
  <2>2. /\ ts \in SUBSET Timers
        /\ \/ timers' \subseteq Timers /\ UNCHANGED <<last_cmd, waiting_ack, tx>>
           \/ send_cmd_led_ctrl_internal(ts)
    BY <1>9 DEF on_green_led_update, TypeOK, Timers
  <2> HIDE DEF ts
  <2>3. SendTypeOK'
    BY <2>2, SendLedType DEF SendTypeOK, TypeOK
  <2>4. led_required' \in BOOLEAN
    BY <1>9 DEF on_green_led_update, TypeOK
  <2> QED
    BY <1>9, <2>1, <2>3, <2>4 DEF on_green_led_update, TypeOK, SendTypeOK
<1> QED
  BY <1>1, <1>2, <1>3, <1>4, <1>5, <1>6, <1>7, <1>8, <1>9 DEF AdvPost

\* Types, in steps of the UART task.
LEMMA UartRxType == TypeOK /\ UartRx => TypeOK'
<1> SUFFICES ASSUME TypeOK, UartRx PROVE TypeOK'
  OBVIOUS
<1>1. CASE on_async_ack_read
  <2>1. Head(rx) \in Message /\ rx' \in Seq(Message) /\ Head(rx).cmd # "GET_ALL"
    BY <1>1 DEF on_async_ack_read, TypeOK
  <2>2. uart_ack' \in [cmd : Cmds, ok : BOOLEAN, last : Cmds]
    BY <1>1, <2>1 DEF on_async_ack_read, TypeOK, Message
  <2> QED
    BY <1>1, <2>1, <2>2 DEF on_async_ack_read, driverVars, TypeOK
<1>2. CASE on_async_ack_clear
  <2>1. uart_ack' \in [cmd : Cmds, ok : BOOLEAN, last : Cmds] /\ last_cmd' \in Cmds
    BY <1>2 DEF on_async_ack_clear, NoAck, Cmds
  <2>2. sigs' \subseteq Signals
    BY <1>2 DEF on_async_ack_clear, TypeOK, Signals
  <2> QED
    BY <1>2, <2>1, <2>2 DEF on_async_ack_clear, TypeOK
<1>3. CASE on_recv_get_all
  <2>1. rx' \in Seq(Message)
    BY <1>3 DEF on_recv_get_all, TypeOK
  <2>2. sigs' \subseteq Signals
    BY <1>3 DEF on_recv_get_all, TypeOK, Signals
  <2> QED
    BY <1>3, <2>1, <2>2 DEF on_recv_get_all, TypeOK
<1> QED
  BY <1>1, <1>2, <1>3 DEF UartRx

\* Types, in steps of the HTTP server, the firmware updater and the LED task.
LEMMA OtherTasksType ==
  /\ TypeOK
  /\ cfg_update_cached \/ cfg_update_signal \/ update_fw \/ green_led_state_changed
  => TypeOK'
<1> SUFFICES ASSUME TypeOK PROVE
      cfg_update_cached \/ cfg_update_signal \/ update_fw \/ green_led_state_changed => TypeOK'
  OBVIOUS
<1>1. ASSUME cfg_update_cached PROVE TypeOK'
  <2>1. cached' \in Cfgs
    BY <1>1, LinkAssumption DEF cfg_update_cached, TypeOK, Cfgs, LinkAssumption
  <2> QED
    BY <1>1, <2>1 DEF cfg_update_cached, TypeOK
<1>2. ASSUME cfg_update_signal PROVE TypeOK'
  <2>1. sigs' \subseteq Signals
    BY <1>2 DEF cfg_update_signal, TypeOK, Signals
  <2> QED
    BY <1>2, <2>1 DEF cfg_update_signal, TypeOK
<1>3. ASSUME update_fw PROVE TypeOK'
  <2>1. nrf' \in [mode : Modes, cfg : Cfgs] /\ tx' \in Seq(Command)
    BY <1>3, LinkAssumption DEF update_fw, Modes, Cfgs, LinkAssumption
  <2> QED
    BY <1>3, <2>1 DEF update_fw, TypeOK
<1>4. ASSUME green_led_state_changed PROVE TypeOK'
  BY <1>4 DEF green_led_state_changed, driverVars, TypeOK, Signals
<1> QED
  BY <1>1, <1>2, <1>3, <1>4

\* Types, in steps of the chip, the timers and faults.
LEMMA EnvironmentType == TypeOK /\ Environment => TypeOK'
<1> SUFFICES ASSUME TypeOK, Environment PROVE TypeOK'
  OBVIOUS
<1>0. \A kind : Fault(kind) => faults' \in 0..MaxFaults
  BY LinkAssumption DEF Fault, TypeOK, LinkAssumption
<1>1. CASE AckTimeout
  <2>1. faults' \in 0..MaxFaults
    BY <1>0, <1>1 DEF AckTimeout, TypeOK
  <2> QED
    BY <1>1, <2>1 DEF AckTimeout, driverVars, TypeOK, Signals
<1>2. CASE ResetTimer
  BY <1>2 DEF ResetTimer, driverVars, TypeOK, Signals
<1>3. CASE CfgReqTimeout
  <2>1. faults' \in 0..MaxFaults
    BY <1>0, <1>3 DEF CfgReqTimeout, TypeOK
  <2> QED
    BY <1>3, <2>1 DEF CfgReqTimeout, driverVars, TypeOK, Signals
<1>4. CASE GreenLedTimer
  BY <1>4 DEF GreenLedTimer, driverVars, TypeOK, Signals
<1>5. CASE NrfBoot
  <2>1. faults' \in 0..MaxFaults
    BY <1>0, <1>5 DEF NrfBoot, TypeOK
  <2>2. [cmd |-> "GET_ALL", ok |-> TRUE] \in Message
    BY DEF Message
  <2>3. rx' \in Seq(Message)
    <3>1. rx \in Seq(Message)
      BY DEF TypeOK
    <3>2. rx' = rx \/ rx' = Append(rx, [cmd |-> "GET_ALL", ok |-> TRUE])
      BY <1>5 DEF NrfBoot
    <3> QED
      BY <2>2, <3>1, <3>2, AppendProperties
  <2>4. nrf' \in [mode : Modes, cfg : Cfgs]
    BY <1>5 DEF NrfBoot, TypeOK, Modes
  <2> QED
    BY <1>5, <2>1, <2>3, <2>4 DEF NrfBoot, driverVars, TypeOK
<1>6. CASE NrfExecute
  <2>1. Head(tx) \in Command /\ tx' \in Seq(Command)
    BY <1>6 DEF NrfExecute, TypeOK
  <2>2. rx' \in Seq(Message)
    BY <1>6, <2>1 DEF NrfExecute, TypeOK, Command, Message
  <2>3. nrf' \in [mode : Modes, cfg : Cfgs]
    BY <1>6, <2>1 DEF NrfExecute, TypeOK, Command
  <2> QED
    BY <1>6, <2>1, <2>2, <2>3 DEF NrfExecute, TypeOK, driverVars
<1>7. CASE NrfReject
  <2>1. Head(tx) \in Command /\ tx' \in Seq(Command) /\ faults' \in 0..MaxFaults
    BY <1>0, <1>7 DEF NrfReject, TypeOK
  <2>2. rx' \in Seq(Message)
    BY <1>7, <2>1 DEF NrfReject, TypeOK, Command, Message
  <2> QED
    BY <1>7, <2>1, <2>2 DEF NrfReject, TypeOK, driverVars
<1>8. CASE Lose
  <2>1. Head(tx) \in Command /\ tx' \in Seq(Command) /\ faults' \in 0..MaxFaults
    BY <1>0, <1>8 DEF Lose, TypeOK
  <2>2. nrf' \in [mode : Modes, cfg : Cfgs]
    BY <1>8, <2>1 DEF Lose, TypeOK, Command
  <2> QED
    BY <1>8, <2>1, <2>2 DEF Lose, TypeOK, driverVars
<1>9. CASE NrfSelfReboot
  <2>1. faults' \in 0..MaxFaults
    BY <1>0, <1>9 DEF NrfSelfReboot
  <2>2. nrf' \in [mode : Modes, cfg : Cfgs] /\ tx' \in Seq(Command)
    BY <1>9, LinkAssumption DEF NrfSelfReboot, Modes, Cfgs, LinkAssumption
  <2>3. rx' \in Seq(Message)
    BY <1>9 DEF NrfSelfReboot, TypeOK, Message
  <2> QED
    BY <1>9, <2>1, <2>2, <2>3 DEF NrfSelfReboot, TypeOK, driverVars
<1> QED
  BY <1>1, <1>2, <1>3, <1>4, <1>5, <1>6, <1>7, <1>8, <1>9 DEF Environment, Nrf

\* Types, in every step.
LEMMA StepType == TypeOK /\ [Next]_vars => TypeOK'
<1>1. TypeOK /\ UNCHANGED vars => TypeOK'
  BY DEF TypeOK, vars
<1> QED
  BY <1>1, AdvPostType, UartRxType, OtherTasksType, EnvironmentType DEF Next

-----------------------------------------------------------------------------
(* The inductive invariant: what the properties rest on.                   *)

\* Commands are on the wire only while the chip runs: whatever was on it when
\* the chip was reset is lost.
TxNeedsRun == tx # <<>> => nrf.mode = "run"

\* What asks for a configuration and what follows from one imply that there is
\* one: a configuration command never carries the empty configuration.
CfgIsKnown ==
  /\ cfg_ready => cached # 0
  /\ cfg_required \/ configured \/ updating => cfg_ready
  /\ SIG_NRF52_CFG_UPDATE \in Pending \/ SIG_NRF52_ACK_CFG \in Pending => cfg_ready
  /\ uart_ack.cmd = "SET_ALL" => cfg_ready
TxIsKnown == \A i \in 1..Len(tx) : tx[i].cmd = "SET_ALL" => cfg_ready /\ tx[i].cfg # 0
RxIsKnown == \A i \in 1..Len(rx) : rx[i].cmd = "SET_ALL" => cfg_ready

Acks == {SIG_NRF52_ACK_LED_CTRL, SIG_NRF52_ACK_CFG}
OnlyRequests == \A i \in 1..Len(rx) : rx[i].cmd = "GET_ALL"

\* Acknowledgements from before a reset are handled before its end is: uart_rx
\* is done with them when the reset timer expires, and among the signals of a
\* batch theirs have the lower numbers.
AcksEndWithReset ==
  nrf.mode # "run" /\ ~manual_reset =>
    \/ "reset" \in timers
    \/ /\ uart_ack = NoAck /\ OnlyRequests
       /\ \/ SIG_NRF52_HW_RESET_OFF \in sigs
          \/ /\ Acks \cap sigs = {}
             /\ Acks \cap batch # {} => SIG_NRF52_HW_RESET_OFF \in batch

\* Something other than an acknowledgement timeout will restart or configure
\* the chip.
Recovering ==
  \/ {"cfg_req", "reset"} \cap timers # {}
  \/ updating
  \/ {SIG_NRF52_CFG_REQ_TIMEOUT, SIG_NRF52_HW_RESET_OFF, SIG_NRF52_REBOOTED,
      SIG_NRF52_CFG_UPDATE} \cap Pending # {}

\* A chip that was released and has not asked yet: its recovery is on its way,
\* or a configuration command is unanswered and required, so that its timeouts
\* repeat it until they reset the chip.
ReleasedIsTimed ==
  nrf.mode \in {"boot", "mute"} /\ cfg_ready /\ ~manual_reset =>
    \/ Recovering
    \/ cfg_required /\ ("ack" \in timers \/ SIG_NRF52_ACK_TIMEOUT \in Pending)

ConfirmsCfg(m) == m.cmd = "SET_ALL" /\ m.ok

\* A confirmed configuration that the gateway has not taken notice of.
CfgAckOnWire == ConfirmsCfg(uart_ack) \/ \E i \in 1..Len(rx) : ConfirmsCfg(rx[i])

\* A request of the chip behind all confirmations of the time before it.
RequestOnWire ==
  \E i \in 1..Len(rx) : rx[i].cmd = "GET_ALL" /\ \A j \in (i + 1)..Len(rx) : ~ConfirmsCfg(rx[j])

\* A running chip without a configuration: its request follows all confirmations
\* through the wire, the signals and their handling, and what it leads to is
\* what clears flag_nrf52_configured last.
UnconfiguredIsNoticed ==
  nrf.mode = "run" /\ nrf.cfg = 0 /\ ~manual_reset =>
    \/ RequestOnWire
    \/ /\ ~CfgAckOnWire
       /\ \/ SIG_NRF52_REBOOTED \in sigs
          \/ /\ SIG_NRF52_ACK_CFG \notin sigs
             /\ \/ SIG_NRF52_REBOOTED \in batch
                \/ SIG_NRF52_CFG_UPDATE \in Pending
                \/ ~configured /\ SIG_NRF52_ACK_CFG \notin batch

LinkInv == /\ TypeOK
           /\ CfgRequiredOnlyIfUnconfigured /\ WaitingIsTimed /\ ResetIsTimed
           /\ TxNeedsRun /\ CfgIsKnown /\ TxIsKnown /\ RxIsKnown
           /\ AcksEndWithReset /\ ReleasedIsTimed /\ UnconfiguredIsNoticed

\* The start satisfies the invariant.
LEMMA InitLinkInv == Init => LinkInv
<1> SUFFICES ASSUME Init PROVE LinkInv
  OBVIOUS
<1>1. Len(tx) = 0 /\ Len(rx) = 0
  BY DEF Init
<1>2. CfgIsKnown /\ TxIsKnown /\ RxIsKnown
  BY <1>1 DEF Init, CfgIsKnown, TxIsKnown, RxIsKnown, Pending, NoAck
<1>3. AcksEndWithReset /\ ReleasedIsTimed /\ UnconfiguredIsNoticed
  BY DEF Init, AcksEndWithReset, ReleasedIsTimed, UnconfiguredIsNoticed
<1>4. CfgRequiredOnlyIfUnconfigured /\ WaitingIsTimed /\ ResetIsTimed /\ TxNeedsRun
  BY DEF Init, CfgRequiredOnlyIfUnconfigured, WaitingIsTimed, ResetIsTimed, TxNeedsRun
<1> QED
  BY <1>2, <1>3, <1>4, InitType DEF LinkInv

\* The elements of a sequence after appending and after taking the first.
LEMMA AppendElements ==
  ASSUME NEW S, NEW s \in Seq(S), NEW e, NEW t, t = Append(s, e)
  PROVE  /\ Len(s) \in Nat /\ Len(t) = Len(s) + 1
         /\ \A i \in 1..Len(s) : t[i] = s[i]
         /\ t[Len(t)] = e
  BY AppendProperties

\* What is left on the wire when its first message is taken.
LEMMA TailElements ==
  ASSUME NEW S, NEW s \in Seq(S), s # <<>>
  PROVE  /\ Len(s) \in Nat \ {0} /\ Len(Tail(s)) = Len(s) - 1 /\ Tail(s) \in Seq(S)
         /\ Head(s) \in S /\ Head(s) = s[1]
         /\ \A i \in 1..Len(Tail(s)) : Tail(s)[i] = s[i + 1]
  BY HeadTailProperties, EmptySeq

\* Only an update requires the configuration, and it clears flag_nrf52_configured.
LEMMA StepCfgRequiredOnlyIfUnconfigured ==
  ASSUME TypeOK, CfgRequiredOnlyIfUnconfigured, [Next]_vars
  PROVE  CfgRequiredOnlyIfUnconfigured'
<1> USE DEF driverVars, CfgRequiredOnlyIfUnconfigured
<1>1. CASE TakeSignals \/ on_sig_nrf52_rebooted
  BY <1>1 DEF TakeSignals, on_sig_nrf52_rebooted, Handle
<1>2. CASE on_sync_ack_led_ctrl \/ on_sync_ack_cfg
  BY <1>2 DEF on_sync_ack_led_ctrl, Handle, send_cmd_cfg_internal, SendCmd, SendNothing,
              on_sync_ack_cfg, send_cmd_led_ctrl_internal
<1>3. CASE on_sync_ack_timeout \/ on_sig_nrf52_cfg_update
  BY <1>3 DEF on_sync_ack_timeout, Handle, nrf52_reset, send_cmd_cfg_internal,
              send_cmd_led_ctrl_internal, SendCmd, SendNothing, on_sig_nrf52_cfg_update
<1>4. CASE on_sig_nrf52_hw_reset_off \/ on_sig_nrf52_cfg_req_timeout
  BY <1>4 DEF on_sig_nrf52_hw_reset_off, Handle, on_sig_nrf52_cfg_req_timeout, nrf52_reset
<1>5. ASSUME NEW s \in {SIG_GREEN_LED_STATE_CHANGED, SIG_GREEN_LED_UPDATE},
             on_green_led_update(s)
      PROVE  CfgRequiredOnlyIfUnconfigured'
  BY <1>5 DEF on_green_led_update, Handle, send_cmd_led_ctrl_internal, SendCmd
<1>6. CASE on_async_ack_read \/ on_async_ack_clear \/ on_recv_get_all
  BY <1>6 DEF on_async_ack_read, on_async_ack_clear, on_recv_get_all
<1>7. CASE cfg_update_cached \/ cfg_update_signal \/ update_fw \/ green_led_state_changed
  BY <1>7 DEF cfg_update_cached, cfg_update_signal, update_fw, green_led_state_changed
<1>8. CASE AckTimeout \/ ResetTimer \/ CfgReqTimeout \/ GreenLedTimer
  BY <1>8 DEF AckTimeout, Fault, ResetTimer, CfgReqTimeout, GreenLedTimer
<1>9. CASE NrfBoot \/ NrfExecute \/ NrfReject
  BY <1>9 DEF NrfBoot, Fault, NrfExecute, NrfReject
<1>10. CASE Lose \/ NrfSelfReboot \/ UNCHANGED vars
  BY <1>10 DEF Lose, Fault, NrfSelfReboot, vars
<1> QED
  BY <1>1, <1>2, <1>3, <1>4, <1>5, <1>6, <1>7, <1>8, <1>9, <1>10
  DEF Next, AdvPost, UartRx, Environment, Nrf

\* Every command starts the timer, and only its signal stops the waiting.
LEMMA StepWaitingIsTimed ==
  ASSUME TypeOK, WaitingIsTimed, [Next]_vars
  PROVE  WaitingIsTimed'
<1> USE DEF driverVars, WaitingIsTimed, Pending
<1>1. CASE TakeSignals
  BY <1>1 DEF TakeSignals
<1>2. CASE on_sig_nrf52_rebooted
  BY <1>2 DEF on_sig_nrf52_rebooted, Handle
<1>3. CASE on_sync_ack_led_ctrl
  BY <1>3 DEF on_sync_ack_led_ctrl, Handle, send_cmd_cfg_internal, SendCmd, SendNothing
<1>4. CASE on_sync_ack_cfg
  BY <1>4 DEF on_sync_ack_cfg, Handle, send_cmd_led_ctrl_internal, SendCmd, SendNothing
<1>5. CASE on_sync_ack_timeout
  BY <1>5 DEF on_sync_ack_timeout, Handle, nrf52_reset, send_cmd_cfg_internal,
              send_cmd_led_ctrl_internal, SendCmd, SendNothing
<1>6. CASE on_sig_nrf52_cfg_update
  <2>1. CASE waiting_ack
    BY <1>6, <2>1 DEF on_sig_nrf52_cfg_update, Handle, WaitingIsTimed, Pending
  <2>2. CASE send_cmd_cfg_internal(timers)
    BY <2>2 DEF send_cmd_cfg_internal, SendCmd, SendNothing, WaitingIsTimed
  <2> QED
    BY <1>6, <2>1, <2>2 DEF on_sig_nrf52_cfg_update
<1>7. CASE on_sig_nrf52_hw_reset_off
  BY <1>7 DEF on_sig_nrf52_hw_reset_off, Handle
<1>8. CASE on_sig_nrf52_cfg_req_timeout
  BY <1>8 DEF on_sig_nrf52_cfg_req_timeout, Handle, nrf52_reset
<1>9. ASSUME NEW s \in {SIG_GREEN_LED_STATE_CHANGED, SIG_GREEN_LED_UPDATE},
             on_green_led_update(s)
      PROVE  WaitingIsTimed'
  <2>1. CASE UNCHANGED waiting_ack
    BY <1>9, <2>1 DEF on_green_led_update, Handle, WaitingIsTimed, Pending,
                        send_cmd_led_ctrl_internal, SendCmd
  <2>2. CASE send_cmd_led_ctrl_internal(timers \cup {"green_led"})
    BY <2>2 DEF send_cmd_led_ctrl_internal, SendCmd, WaitingIsTimed
  <2> QED
    BY <1>9, <2>1, <2>2 DEF on_green_led_update
<1>10. CASE on_async_ack_read \/ on_async_ack_clear \/ on_recv_get_all
  BY <1>10 DEF on_async_ack_read, on_async_ack_clear, on_recv_get_all
<1>11. CASE cfg_update_cached \/ cfg_update_signal \/ update_fw \/ green_led_state_changed
  BY <1>11 DEF cfg_update_cached, cfg_update_signal, update_fw, green_led_state_changed
<1>12. CASE AckTimeout \/ ResetTimer \/ CfgReqTimeout \/ GreenLedTimer
  BY <1>12 DEF AckTimeout, Fault, ResetTimer, CfgReqTimeout, GreenLedTimer
<1>13. CASE NrfBoot \/ NrfExecute \/ NrfReject
  BY <1>13 DEF NrfBoot, Fault, NrfExecute, NrfReject
<1>14. CASE Lose \/ NrfSelfReboot \/ UNCHANGED vars
  BY <1>14 DEF Lose, Fault, NrfSelfReboot, vars
<1> QED
  BY <1>1, <1>2, <1>3, <1>4, <1>5, <1>6, <1>7, <1>8, <1>9, <1>10, <1>11, <1>12, <1>13, <1>14
  DEF Next, AdvPost, UartRx, Environment, Nrf

\* Every reset starts the timer whose signal ends it.
LEMMA StepResetIsTimed ==
  ASSUME TypeOK, ResetIsTimed, [Next]_vars
  PROVE  ResetIsTimed'
<1> USE DEF driverVars, ResetIsTimed, Pending
<1>1. CASE TakeSignals
  BY <1>1 DEF TakeSignals
<1>2. CASE on_sig_nrf52_rebooted
  BY <1>2 DEF on_sig_nrf52_rebooted, Handle
<1>3. CASE on_sync_ack_led_ctrl
  BY <1>3 DEF on_sync_ack_led_ctrl, Handle, send_cmd_cfg_internal, SendCmd, SendNothing
<1>4. CASE on_sync_ack_cfg
  BY <1>4 DEF on_sync_ack_cfg, Handle, send_cmd_led_ctrl_internal, SendCmd, SendNothing
<1>5. CASE on_sync_ack_timeout
  BY <1>5 DEF on_sync_ack_timeout, Handle, nrf52_reset, send_cmd_cfg_internal,
              send_cmd_led_ctrl_internal, SendCmd, SendNothing
<1>6. CASE on_sig_nrf52_cfg_update
  BY <1>6 DEF on_sig_nrf52_cfg_update, Handle, send_cmd_cfg_internal, SendCmd, SendNothing
<1>7. CASE on_sig_nrf52_hw_reset_off
  BY <1>7 DEF on_sig_nrf52_hw_reset_off, Handle
<1>8. CASE on_sig_nrf52_cfg_req_timeout
  BY <1>8 DEF on_sig_nrf52_cfg_req_timeout, Handle, nrf52_reset
<1>9. ASSUME NEW s \in {SIG_GREEN_LED_STATE_CHANGED, SIG_GREEN_LED_UPDATE},
             on_green_led_update(s)
      PROVE  ResetIsTimed'
  BY <1>9 DEF on_green_led_update, Handle, send_cmd_led_ctrl_internal, SendCmd
<1>10. CASE on_async_ack_read \/ on_async_ack_clear \/ on_recv_get_all
  BY <1>10 DEF on_async_ack_read, on_async_ack_clear, on_recv_get_all
<1>11. CASE cfg_update_cached \/ cfg_update_signal \/ update_fw \/ green_led_state_changed
  BY <1>11 DEF cfg_update_cached, cfg_update_signal, update_fw, green_led_state_changed
<1>12. CASE AckTimeout \/ ResetTimer \/ CfgReqTimeout \/ GreenLedTimer
  BY <1>12 DEF AckTimeout, Fault, ResetTimer, CfgReqTimeout, GreenLedTimer
<1>13. CASE NrfBoot
  <2>1. nrf'.mode # "reset"
    BY <1>13 DEF NrfBoot, TypeOK
  <2> QED
    BY <1>13, <2>1 DEF NrfBoot, ResetIsTimed
<1>14. CASE NrfExecute
  BY <1>14 DEF NrfExecute
<1>15. CASE NrfReject
  BY <1>15 DEF NrfReject, Fault
<1>16. CASE Lose
  <2>1. nrf'.mode = nrf.mode
    BY <1>16 DEF Lose, TypeOK
  <2> QED
    BY <1>16, <2>1 DEF Lose, driverVars, ResetIsTimed, Pending
<1>17. CASE NrfSelfReboot
  BY <1>17 DEF NrfSelfReboot, Fault
<1>18. CASE UNCHANGED vars
  BY <1>18 DEF vars
<1> QED
  BY <1>1, <1>2, <1>3, <1>4, <1>5, <1>6, <1>7, <1>8, <1>9, <1>10, <1>11, <1>12, <1>13, <1>14,
     <1>15, <1>16, <1>17, <1>18
  DEF Next, AdvPost, UartRx, Environment, Nrf

\* Leaving the running mode empties the wire.
LEMMA StepTxNeedsRun ==
  ASSUME TypeOK, TxNeedsRun, [Next]_vars
  PROVE  TxNeedsRun'
<1> USE DEF driverVars, TxNeedsRun
<1>1. CASE TakeSignals \/ on_sig_nrf52_rebooted
  BY <1>1 DEF TakeSignals, on_sig_nrf52_rebooted, Handle
<1>2. CASE on_sync_ack_led_ctrl
  BY <1>2 DEF on_sync_ack_led_ctrl, Handle, send_cmd_cfg_internal, SendCmd, SendNothing
<1>3. CASE on_sync_ack_cfg
  BY <1>3 DEF on_sync_ack_cfg, Handle, send_cmd_led_ctrl_internal, SendCmd, SendNothing
<1>4. CASE on_sync_ack_timeout
  BY <1>4 DEF on_sync_ack_timeout, Handle, nrf52_reset, send_cmd_cfg_internal,
              send_cmd_led_ctrl_internal, SendCmd, SendNothing
<1>5. CASE on_sig_nrf52_cfg_update
  BY <1>5 DEF on_sig_nrf52_cfg_update, Handle, send_cmd_cfg_internal, SendCmd, SendNothing
<1>6. CASE on_sig_nrf52_hw_reset_off
  BY <1>6 DEF on_sig_nrf52_hw_reset_off, Handle
<1>7. CASE on_sig_nrf52_cfg_req_timeout
  BY <1>7 DEF on_sig_nrf52_cfg_req_timeout, Handle, nrf52_reset
<1>8. ASSUME NEW s \in {SIG_GREEN_LED_STATE_CHANGED, SIG_GREEN_LED_UPDATE},
             on_green_led_update(s)
      PROVE  TxNeedsRun'
  BY <1>8 DEF on_green_led_update, Handle, send_cmd_led_ctrl_internal, SendCmd
<1>9. CASE on_async_ack_read \/ on_async_ack_clear \/ on_recv_get_all
  BY <1>9 DEF on_async_ack_read, on_async_ack_clear, on_recv_get_all
<1>10. CASE cfg_update_cached \/ cfg_update_signal \/ update_fw \/ green_led_state_changed
  BY <1>10 DEF cfg_update_cached, cfg_update_signal, update_fw, green_led_state_changed
<1>11. CASE AckTimeout \/ ResetTimer \/ CfgReqTimeout \/ GreenLedTimer
  BY <1>11 DEF AckTimeout, Fault, ResetTimer, CfgReqTimeout, GreenLedTimer
<1>12. CASE NrfBoot
  <2>1. nrf'.mode # "reset"
    BY <1>12 DEF NrfBoot, TypeOK
  <2> QED
    BY <1>12, <2>1 DEF NrfBoot, TxNeedsRun
<1>13. CASE NrfExecute
  BY <1>13 DEF NrfExecute
<1>14. CASE NrfReject
  BY <1>14 DEF NrfReject, Fault
<1>15. CASE Lose
  <2>1. nrf'.mode = nrf.mode
    BY <1>15 DEF Lose, TypeOK
  <2>2. tx # <<>>
    BY <1>15 DEF Lose
  <2> QED
    BY <1>15, <2>1, <2>2 DEF Lose, driverVars, TxNeedsRun
<1>16. CASE NrfSelfReboot
  BY <1>16 DEF NrfSelfReboot, Fault
<1>17. CASE UNCHANGED vars
  BY <1>17 DEF vars
<1> QED
  BY <1>1, <1>2, <1>3, <1>4, <1>5, <1>6, <1>7, <1>8, <1>9, <1>10, <1>11, <1>12, <1>13, <1>14,
     <1>15, <1>16, <1>17
  DEF Next, AdvPost, UartRx, Environment, Nrf

\* Sending a command keeps what is known of the commands on the wire.
LEMMA SendCmdKnown ==
  ASSUME TypeOK, TxIsKnown, NEW c, NEW v, NEW ts, SendCmd(c, v, ts), UNCHANGED cfg_ready,
         c = "SET_ALL" => cfg_ready /\ v # 0
  PROVE  TxIsKnown'
<1>1. CASE tx' = tx
  BY <1>1 DEF TxIsKnown
<1>2. CASE tx' = Append(tx, [cmd |-> c, cfg |-> v])
  <2>1. /\ Len(tx) \in Nat /\ Len(tx') = Len(tx) + 1
        /\ \A i \in 1..Len(tx) : tx'[i] = tx[i]
        /\ tx'[Len(tx')] = [cmd |-> c, cfg |-> v]
    BY <1>2, AppendElements DEF TypeOK
  <2> SUFFICES ASSUME NEW i \in 1..Len(tx'), tx'[i].cmd = "SET_ALL"
               PROVE  cfg_ready /\ tx'[i].cfg # 0
    BY DEF TxIsKnown
  <2>2. CASE i \in 1..Len(tx)
    BY <2>1, <2>2 DEF TxIsKnown
  <2>3. CASE i = Len(tx')
    BY <2>1, <2>3
  <2> QED
    BY <2>1, <2>2, <2>3
<1> QED
  BY <1>1, <1>2 DEF SendCmd

\* A command that is sent carries a configuration the gateway has had.
LEMMA SendKnown ==
  ASSUME TypeOK, TxIsKnown, CfgIsKnown, NEW ts, UNCHANGED cfg_ready,
         \/ cfg_ready /\ send_cmd_cfg_internal(ts)
         \/ send_cmd_led_ctrl_internal(ts)
         \/ SendNothing(ts)
  PROVE  TxIsKnown'
<1>1. CASE SendNothing(ts)
  BY <1>1 DEF SendNothing, TxIsKnown
<1>2. CASE send_cmd_led_ctrl_internal(ts)
  BY <1>2, SendCmdKnown DEF send_cmd_led_ctrl_internal
<1>3. CASE cfg_ready /\ SendCmd("SET_ALL", cached, ts)
  BY <1>3, SendCmdKnown DEF CfgIsKnown
<1> QED
  BY <1>1, <1>2, <1>3 DEF send_cmd_cfg_internal

\* The handlers that need a configuration are reached only when there is one.
LEMMA StepCfgIsKnown ==
  ASSUME TypeOK, TxIsKnown, RxIsKnown, CfgIsKnown, [Next]_vars
  PROVE  CfgIsKnown'
<1> USE DEF driverVars, CfgIsKnown, Pending
<1>1. CASE TakeSignals
  BY <1>1 DEF TakeSignals, TypeOK
<1>2. CASE on_sig_nrf52_rebooted
  BY <1>2 DEF on_sig_nrf52_rebooted, Handle, TypeOK
<1>3. CASE on_sync_ack_led_ctrl
  BY <1>3 DEF on_sync_ack_led_ctrl, Handle, send_cmd_cfg_internal, SendCmd, SendNothing, TypeOK
<1>4. CASE on_sync_ack_cfg
  BY <1>4 DEF on_sync_ack_cfg, Handle, send_cmd_led_ctrl_internal, SendCmd, SendNothing, TypeOK
<1>5. CASE on_sync_ack_timeout
  BY <1>5 DEF on_sync_ack_timeout, Handle, nrf52_reset, send_cmd_cfg_internal,
              send_cmd_led_ctrl_internal, SendCmd, SendNothing, TypeOK
<1>6. CASE on_sig_nrf52_cfg_update
  BY <1>6 DEF on_sig_nrf52_cfg_update, Handle, send_cmd_cfg_internal, SendCmd, SendNothing, TypeOK
<1>7. CASE on_sig_nrf52_hw_reset_off
  BY <1>7 DEF on_sig_nrf52_hw_reset_off, Handle, TypeOK
<1>8. CASE on_sig_nrf52_cfg_req_timeout
  BY <1>8 DEF on_sig_nrf52_cfg_req_timeout, Handle, nrf52_reset, TypeOK
<1>9. ASSUME NEW s \in {SIG_GREEN_LED_STATE_CHANGED, SIG_GREEN_LED_UPDATE},
             on_green_led_update(s)
      PROVE  CfgIsKnown'
  BY <1>9 DEF on_green_led_update, Handle, send_cmd_led_ctrl_internal, SendCmd, TypeOK
<1>10. CASE on_async_ack_read
  BY <1>10 DEF on_async_ack_read, RxIsKnown, TypeOK
<1>11. CASE on_async_ack_clear
  <2>1. SIG_NRF52_ACK_CFG \in sigs' => SIG_NRF52_ACK_CFG \in sigs \/ uart_ack.cmd = "SET_ALL"
    BY <1>11 DEF on_async_ack_clear
  <2>2. SIG_NRF52_CFG_UPDATE \in sigs' => SIG_NRF52_CFG_UPDATE \in sigs
    BY <1>11 DEF on_async_ack_clear
  <2> QED
    BY <1>11, <2>1, <2>2 DEF on_async_ack_clear, CfgIsKnown, Pending, NoAck
<1>12. CASE on_recv_get_all
  BY <1>12 DEF on_recv_get_all, TypeOK
<1>13. CASE cfg_update_cached
  <2>1. cached' # 0
    BY <1>13, LinkAssumption DEF cfg_update_cached, TypeOK, Cfgs, LinkAssumption
  <2> QED
    BY <1>13, <2>1 DEF cfg_update_cached, CfgIsKnown
<1>14. CASE cfg_update_signal \/ update_fw \/ green_led_state_changed
  BY <1>14 DEF cfg_update_signal, update_fw, green_led_state_changed, TypeOK
<1>15. CASE AckTimeout \/ ResetTimer \/ CfgReqTimeout \/ GreenLedTimer
  BY <1>15 DEF AckTimeout, Fault, ResetTimer, CfgReqTimeout, GreenLedTimer, TypeOK
<1>16. CASE NrfBoot
  BY <1>16 DEF NrfBoot, Fault, TypeOK
<1>17. CASE NrfExecute
  BY <1>17 DEF NrfExecute, TypeOK
<1>18. CASE NrfReject
  BY <1>18 DEF NrfReject, Fault, TypeOK
<1>19. CASE Lose
  BY <1>19 DEF Lose, Fault, TypeOK
<1>20. CASE NrfSelfReboot
  BY <1>20 DEF NrfSelfReboot, Fault, TypeOK
<1>21. CASE UNCHANGED vars
  BY <1>21 DEF vars, TypeOK
<1> QED
  BY <1>1, <1>2, <1>3, <1>4, <1>5, <1>6, <1>7, <1>8, <1>9, <1>10, <1>11, <1>12, <1>13, <1>14,
     <1>15, <1>16, <1>17, <1>18, <1>19, <1>20, <1>21
  DEF Next, AdvPost, UartRx, Environment, Nrf

\* Every step keeps TxIsKnown.
LEMMA StepTxIsKnown ==
  ASSUME TypeOK, CfgIsKnown, TxIsKnown, [Next]_vars
  PROVE  TxIsKnown'
<1> USE DEF driverVars, TxIsKnown
<1>1. CASE TakeSignals
  BY <1>1 DEF TakeSignals, TypeOK
<1>2. CASE on_sig_nrf52_rebooted
  BY <1>2 DEF on_sig_nrf52_rebooted, Handle, TypeOK
<1>3. CASE on_sync_ack_led_ctrl
  BY <1>3, SendKnown DEF on_sync_ack_led_ctrl, CfgIsKnown
<1>4. CASE on_sync_ack_cfg
  BY <1>4, SendKnown DEF on_sync_ack_cfg
<1>5. CASE on_sync_ack_timeout
  <2>1. CASE nrf52_reset
    BY <1>5, <2>1 DEF nrf52_reset, TxIsKnown
  <2>2. CASE ~nrf52_reset
    BY <1>5, <2>2, SendKnown DEF on_sync_ack_timeout, CfgIsKnown
  <2> QED
    BY <2>1, <2>2
<1>6. CASE on_sig_nrf52_cfg_update
  <2>1. CASE UNCHANGED tx
    BY <1>6, <2>1 DEF on_sig_nrf52_cfg_update
  <2>2. CASE send_cmd_cfg_internal(timers)
    <3>1. cfg_ready /\ UNCHANGED cfg_ready
      BY <1>6 DEF on_sig_nrf52_cfg_update, Handle, CfgIsKnown, Pending
    <3> QED
      BY <2>2, <3>1, SendKnown
  <2> QED
    BY <1>6, <2>1, <2>2 DEF on_sig_nrf52_cfg_update
<1>7. CASE on_sig_nrf52_hw_reset_off
  BY <1>7 DEF on_sig_nrf52_hw_reset_off, Handle, TypeOK
<1>8. CASE on_sig_nrf52_cfg_req_timeout
  BY <1>8 DEF on_sig_nrf52_cfg_req_timeout, Handle, nrf52_reset, TypeOK
<1>9. ASSUME NEW s, on_green_led_update(s) PROVE TxIsKnown'
  <2>1. CASE UNCHANGED tx
    BY <1>9, <2>1 DEF on_green_led_update, TxIsKnown
  <2> QED
    BY <1>9, <2>1, SendKnown DEF on_green_led_update
<1>10. CASE on_async_ack_read \/ on_async_ack_clear \/ on_recv_get_all
  BY <1>10 DEF on_async_ack_read, on_async_ack_clear, on_recv_get_all, TypeOK
<1>11. CASE cfg_update_cached
  BY <1>11 DEF cfg_update_cached, TypeOK
<1>12. CASE cfg_update_signal \/ update_fw \/ green_led_state_changed
  BY <1>12 DEF cfg_update_signal, update_fw, green_led_state_changed, TypeOK
<1>13. CASE AckTimeout \/ ResetTimer \/ CfgReqTimeout \/ GreenLedTimer
  BY <1>13 DEF AckTimeout, Fault, ResetTimer, CfgReqTimeout, GreenLedTimer, TypeOK
<1>14. CASE NrfBoot
  BY <1>14 DEF NrfBoot, Fault, TypeOK
<1>15. CASE NrfExecute
  <2>1. tx' = Tail(tx) /\ tx \in Seq(Command) /\ tx # <<>> /\ cfg_ready' = cfg_ready
    BY <1>15 DEF NrfExecute, TypeOK, driverVars
  <2> QED
    BY <2>1, TailElements DEF TxIsKnown
<1>16. CASE NrfReject
  BY <1>16 DEF NrfReject, Fault, TypeOK
<1>17. CASE Lose
  <2>1. tx' = Tail(tx) /\ tx \in Seq(Command) /\ tx # <<>> /\ cfg_ready' = cfg_ready
    BY <1>17 DEF Lose, TypeOK
  <2> QED
    BY <2>1, TailElements
<1>18. CASE NrfSelfReboot
  BY <1>18 DEF NrfSelfReboot, Fault, TypeOK
<1>19. CASE UNCHANGED vars
  BY <1>19 DEF vars, TypeOK
<1> QED
  BY <1>1, <1>2, <1>3, <1>4, <1>5, <1>6, <1>7, <1>8, <1>9, <1>10, <1>11, <1>12, <1>13, <1>14,
     <1>15, <1>16, <1>17, <1>18, <1>19
  DEF Next, AdvPost, UartRx, Environment, Nrf

\* Every step keeps RxIsKnown.
LEMMA StepRxIsKnown ==
  ASSUME TypeOK, TxIsKnown, RxIsKnown, [Next]_vars
  PROVE  RxIsKnown'
<1> USE DEF driverVars, RxIsKnown
<1>1. CASE TakeSignals
  BY <1>1 DEF TakeSignals, TypeOK
<1>2. CASE on_sig_nrf52_rebooted
  BY <1>2 DEF on_sig_nrf52_rebooted, Handle, TypeOK
<1>3. CASE on_sync_ack_led_ctrl
  BY <1>3 DEF on_sync_ack_led_ctrl, Handle, send_cmd_cfg_internal, SendCmd, SendNothing, TypeOK
<1>4. CASE on_sync_ack_cfg
  BY <1>4 DEF on_sync_ack_cfg, Handle, send_cmd_led_ctrl_internal, SendCmd, SendNothing, TypeOK
<1>5. CASE on_sync_ack_timeout
  BY <1>5 DEF on_sync_ack_timeout, Handle, nrf52_reset, send_cmd_cfg_internal,
              send_cmd_led_ctrl_internal, SendCmd, SendNothing, TypeOK
<1>6. CASE on_sig_nrf52_cfg_update
  BY <1>6 DEF on_sig_nrf52_cfg_update, Handle, send_cmd_cfg_internal, SendCmd, SendNothing, TypeOK
<1>7. CASE on_sig_nrf52_hw_reset_off
  BY <1>7 DEF on_sig_nrf52_hw_reset_off, Handle, TypeOK
<1>8. CASE on_sig_nrf52_cfg_req_timeout
  BY <1>8 DEF on_sig_nrf52_cfg_req_timeout, Handle, nrf52_reset, TypeOK
<1>9. ASSUME NEW s \in {SIG_GREEN_LED_STATE_CHANGED, SIG_GREEN_LED_UPDATE},
             on_green_led_update(s)
      PROVE  RxIsKnown'
  BY <1>9 DEF on_green_led_update, Handle, send_cmd_led_ctrl_internal, SendCmd, TypeOK
<1>10. CASE on_async_ack_read
  BY <1>10 DEF on_async_ack_read, TypeOK
<1>11. CASE on_async_ack_clear
  BY <1>11 DEF on_async_ack_clear, TypeOK
<1>12. CASE on_recv_get_all
  BY <1>12 DEF on_recv_get_all, TypeOK
<1>13. CASE cfg_update_cached
  BY <1>13 DEF cfg_update_cached, TypeOK
<1>14. CASE cfg_update_signal \/ update_fw \/ green_led_state_changed
  BY <1>14 DEF cfg_update_signal, update_fw, green_led_state_changed, TypeOK
<1>15. CASE AckTimeout \/ ResetTimer \/ CfgReqTimeout \/ GreenLedTimer
  BY <1>15 DEF AckTimeout, Fault, ResetTimer, CfgReqTimeout, GreenLedTimer, TypeOK
<1>16. CASE NrfBoot
  BY <1>16 DEF NrfBoot, Fault, TypeOK
<1>17. CASE NrfExecute
  <2>1. /\ rx' = Append(rx, [cmd |-> Head(tx).cmd, ok |-> TRUE]) /\ tx \in Seq(Command) /\ tx # <<>>
        /\ cfg_ready' = cfg_ready /\ rx \in Seq(Message)
    BY <1>17 DEF NrfExecute, TypeOK, driverVars
  <2>2. Head(tx).cmd = "SET_ALL" => cfg_ready
    BY <2>1, TailElements DEF TxIsKnown
  <2> QED
    BY <2>1, <2>2, AppendElements DEF RxIsKnown
<1>18. CASE NrfReject
  BY <1>18 DEF NrfReject, Fault, TxIsKnown, TypeOK
<1>19. CASE Lose
  BY <1>19 DEF Lose, Fault, TypeOK
<1>20. CASE NrfSelfReboot
  BY <1>20 DEF NrfSelfReboot, Fault, TypeOK
<1>21. CASE UNCHANGED vars
  BY <1>21 DEF vars, TypeOK
<1> QED
  BY <1>1, <1>2, <1>3, <1>4, <1>5, <1>6, <1>7, <1>8, <1>9, <1>10, <1>11, <1>12, <1>13, <1>14,
     <1>15, <1>16, <1>17, <1>18, <1>19, <1>20, <1>21
  DEF Next, AdvPost, UartRx, Environment, Nrf

\* The reset timer waits for uart_rx; after it, handlers run by number.
LEMMA StepAcksEndWithReset ==
  ASSUME TypeOK, TxNeedsRun, AcksEndWithReset, [Next]_vars
  PROVE  AcksEndWithReset'
<1> USE DEF driverVars, AcksEndWithReset, Pending, Acks, OnlyRequests
<1>1. CASE TakeSignals
  BY <1>1 DEF TakeSignals, TypeOK
<1>2. CASE on_sig_nrf52_rebooted
  BY <1>2 DEF on_sig_nrf52_rebooted, Handle, TypeOK
<1>3. CASE on_sync_ack_led_ctrl
  BY <1>3 DEF on_sync_ack_led_ctrl, Handle, send_cmd_cfg_internal, SendCmd, SendNothing, TypeOK
<1>4. CASE on_sync_ack_cfg
  BY <1>4 DEF on_sync_ack_cfg, Handle, send_cmd_led_ctrl_internal, SendCmd, SendNothing, TypeOK
<1>5. CASE on_sync_ack_timeout
  BY <1>5 DEF on_sync_ack_timeout, Handle, nrf52_reset, send_cmd_cfg_internal,
              send_cmd_led_ctrl_internal, SendCmd, SendNothing, TypeOK
<1>6. CASE on_sig_nrf52_cfg_update
  BY <1>6 DEF on_sig_nrf52_cfg_update, Handle, send_cmd_cfg_internal, SendCmd, SendNothing, TypeOK
<1>7. CASE on_sig_nrf52_hw_reset_off
  BY <1>7 DEF on_sig_nrf52_hw_reset_off, Handle, TypeOK
<1>8. CASE on_sig_nrf52_cfg_req_timeout
  BY <1>8 DEF on_sig_nrf52_cfg_req_timeout, Handle, nrf52_reset, TypeOK
<1>9. ASSUME NEW s \in {SIG_GREEN_LED_STATE_CHANGED, SIG_GREEN_LED_UPDATE},
             on_green_led_update(s)
      PROVE  AcksEndWithReset'
  BY <1>9 DEF on_green_led_update, Handle, send_cmd_led_ctrl_internal, SendCmd, TypeOK
<1>10. CASE on_async_ack_read
  BY <1>10 DEF on_async_ack_read, TypeOK
<1>11. CASE on_async_ack_clear
  BY <1>11 DEF on_async_ack_clear, TypeOK
<1>12. CASE on_recv_get_all
  BY <1>12 DEF on_recv_get_all, TypeOK
<1>13. CASE cfg_update_cached
  BY <1>13 DEF cfg_update_cached, TypeOK
<1>14. CASE cfg_update_signal
  BY <1>14 DEF cfg_update_signal, TypeOK
<1>15. CASE update_fw
  BY <1>15 DEF update_fw, TypeOK
<1>16. CASE green_led_state_changed
  BY <1>16 DEF green_led_state_changed, TypeOK
<1>17. CASE AckTimeout
  BY <1>17 DEF AckTimeout, Fault, TypeOK
<1>18. CASE ResetTimer
  BY <1>18 DEF ResetTimer, TypeOK
<1>19. CASE CfgReqTimeout
  BY <1>19 DEF CfgReqTimeout, Fault, TypeOK
<1>20. CASE GreenLedTimer
  BY <1>20 DEF GreenLedTimer, TypeOK
<1>21. CASE NrfBoot
  BY <1>21 DEF NrfBoot, Fault, TypeOK
<1>22. CASE NrfExecute
  BY <1>22 DEF NrfExecute, TxNeedsRun, TypeOK
<1>23. CASE NrfReject
  BY <1>23 DEF NrfReject, Fault, TxNeedsRun, TypeOK
<1>24. CASE Lose
  BY <1>24 DEF Lose, Fault, TxNeedsRun, TypeOK
<1>25. CASE NrfSelfReboot
  BY <1>25 DEF NrfSelfReboot, Fault, TypeOK
<1>26. CASE UNCHANGED vars
  BY <1>26 DEF vars, TypeOK
<1> QED
  BY <1>1, <1>2, <1>3, <1>4, <1>5, <1>6, <1>7, <1>8, <1>9, <1>10, <1>11, <1>12, <1>13, <1>14,
     <1>15, <1>16, <1>17, <1>18, <1>19, <1>20, <1>21, <1>22, <1>23, <1>24, <1>25, <1>26
  DEF Next, AdvPost, UartRx, Environment, Nrf

\* A request from before the reset may stop the request timer: then the
\* configuration command that it leads to takes over.
LEMMA StepReleasedIsTimed ==
  ASSUME TypeOK, CfgIsKnown, WaitingIsTimed, AcksEndWithReset, ReleasedIsTimed, [Next]_vars
  PROVE  ReleasedIsTimed'
<1> USE DEF driverVars, ReleasedIsTimed, Recovering, Pending
<1>1. CASE TakeSignals
  BY <1>1 DEF TakeSignals, TypeOK
<1>2. CASE on_sig_nrf52_rebooted
  BY <1>2 DEF on_sig_nrf52_rebooted, Handle, TypeOK
<1>3. CASE on_sync_ack_led_ctrl
  BY <1>3 DEF on_sync_ack_led_ctrl, Handle, send_cmd_cfg_internal, SendCmd, SendNothing,
              AcksEndWithReset, Acks, TypeOK
<1>4. CASE on_sync_ack_cfg
  BY <1>4 DEF on_sync_ack_cfg, Handle, send_cmd_led_ctrl_internal, SendCmd, SendNothing,
              AcksEndWithReset, Acks, TypeOK
<1>5. CASE on_sync_ack_timeout
  BY <1>5 DEF on_sync_ack_timeout, Handle, nrf52_reset, send_cmd_cfg_internal,
              send_cmd_led_ctrl_internal, SendCmd, SendNothing, TypeOK
<1>6. CASE on_sig_nrf52_cfg_update
  <2>1. SUFFICES ASSUME ~manual_reset
                 PROVE  cfg_required' /\ ("ack" \in timers' \/ SIG_NRF52_ACK_TIMEOUT \in Pending')
    BY <1>6 DEF on_sig_nrf52_cfg_update, ReleasedIsTimed
  <2>2. CASE waiting_ack
    <3>1. "ack" \in timers \/ SIG_NRF52_ACK_TIMEOUT \in Pending
      BY <2>2 DEF WaitingIsTimed
    <3> QED
      BY <1>6, <2>2, <3>1 DEF on_sig_nrf52_cfg_update, Handle, Pending
  <2>3. CASE ~waiting_ack
    BY <1>6, <2>1, <2>3 DEF on_sig_nrf52_cfg_update, send_cmd_cfg_internal, SendCmd
  <2> QED
    BY <2>2, <2>3
<1>7. CASE on_sig_nrf52_hw_reset_off
  BY <1>7 DEF on_sig_nrf52_hw_reset_off, Handle, TypeOK
<1>8. CASE on_sig_nrf52_cfg_req_timeout
  BY <1>8 DEF on_sig_nrf52_cfg_req_timeout, Handle, nrf52_reset, TypeOK
<1>9. ASSUME NEW s \in {SIG_GREEN_LED_STATE_CHANGED, SIG_GREEN_LED_UPDATE},
             on_green_led_update(s)
      PROVE  ReleasedIsTimed'
  BY <1>9 DEF on_green_led_update, Handle, send_cmd_led_ctrl_internal, SendCmd, TypeOK
<1>10. CASE on_async_ack_read
  BY <1>10 DEF on_async_ack_read, TypeOK
<1>11. CASE on_async_ack_clear
  BY <1>11 DEF on_async_ack_clear, TypeOK
<1>12. CASE on_recv_get_all
  BY <1>12 DEF on_recv_get_all, TypeOK
<1>13. CASE cfg_update_cached
  BY <1>13 DEF cfg_update_cached, TypeOK
<1>14. CASE cfg_update_signal
  BY <1>14 DEF cfg_update_signal, TypeOK
<1>15. CASE update_fw
  BY <1>15 DEF update_fw, TypeOK
<1>16. CASE green_led_state_changed
  BY <1>16 DEF green_led_state_changed, TypeOK
<1>17. CASE AckTimeout
  BY <1>17 DEF AckTimeout, Fault, TypeOK
<1>18. CASE ResetTimer
  BY <1>18 DEF ResetTimer, TypeOK
<1>19. CASE CfgReqTimeout
  BY <1>19 DEF CfgReqTimeout, Fault, TypeOK
<1>20. CASE GreenLedTimer
  BY <1>20 DEF GreenLedTimer, TypeOK
<1>21. CASE NrfBoot
  BY <1>21 DEF NrfBoot, Fault, TypeOK
<1>22. CASE NrfExecute
  BY <1>22 DEF NrfExecute, TypeOK
<1>23. CASE NrfReject
  BY <1>23 DEF NrfReject, Fault, TypeOK
<1>24. CASE Lose
  BY <1>24 DEF Lose, Fault, TypeOK
<1>25. CASE NrfSelfReboot
  BY <1>25 DEF NrfSelfReboot, Fault, TypeOK
<1>26. CASE UNCHANGED vars
  BY <1>26 DEF vars, TypeOK
<1> QED
  BY <1>1, <1>2, <1>3, <1>4, <1>5, <1>6, <1>7, <1>8, <1>9, <1>10, <1>11, <1>12, <1>13, <1>14,
     <1>15, <1>16, <1>17, <1>18, <1>19, <1>20, <1>21, <1>22, <1>23, <1>24, <1>25, <1>26
  DEF Next, AdvPost, UartRx, Environment, Nrf

\* A request that is appended is behind all acknowledgements.
LEMMA RequestAppended ==
  ASSUME TypeOK, NEW m, m.cmd = "GET_ALL", rx' = Append(rx, m)
  PROVE  RequestOnWire'
<1>1. Len(rx') \in 1..Len(rx') /\ rx'[Len(rx')] = m
  BY AppendElements DEF TypeOK
<1> QED
  BY <1>1 DEF RequestOnWire

\* An answer that confirms no configuration changes nothing.
LEMMA AnswerAppended ==
  ASSUME TypeOK, NEW m, ~ConfirmsCfg(m), rx' = Append(rx, m), UNCHANGED uart_ack
  PROVE  (RequestOnWire => RequestOnWire') /\ (~CfgAckOnWire => ~CfgAckOnWire')
<1>1. /\ Len(rx) \in Nat /\ Len(rx') = Len(rx) + 1
      /\ \A i \in 1..Len(rx) : rx'[i] = rx[i]
      /\ rx'[Len(rx')] = m
  BY AppendElements DEF TypeOK
<1>2. \A i \in 1..Len(rx') : i \in 1..Len(rx) \/ i = Len(rx')
  BY <1>1
<1>3. ASSUME RequestOnWire PROVE RequestOnWire'
  <2>1. PICK i \in 1..Len(rx) :
          rx[i].cmd = "GET_ALL" /\ \A j \in (i + 1)..Len(rx) : ~ConfirmsCfg(rx[j])
    BY <1>3 DEF RequestOnWire
  <2>2. i \in 1..Len(rx') /\ rx'[i].cmd = "GET_ALL"
    BY <1>1, <2>1
  <2>3. ASSUME NEW j \in (i + 1)..Len(rx') PROVE ~ConfirmsCfg(rx'[j])
    <3>1. CASE j = Len(rx')
      BY <1>1, <3>1
    <3>2. CASE j # Len(rx')
      <4>1. j \in (i + 1)..Len(rx) /\ j \in 1..Len(rx)
        BY <1>1, <2>1, <2>3, <3>2
      <4> QED
        BY <1>1, <2>1, <4>1
    <3> QED
      BY <3>1, <3>2
  <2> QED
    BY <2>2, <2>3 DEF RequestOnWire, ConfirmsCfg
<1>4. ASSUME ~CfgAckOnWire PROVE ~CfgAckOnWire'
  BY <1>1, <1>2, <1>4 DEF CfgAckOnWire, ConfirmsCfg
<1> QED
  BY <1>3, <1>4

\* Taking the first message leaves a request behind it where it is.
LEMMA FirstTaken ==
  ASSUME TypeOK, rx # <<>>, rx' = Tail(rx)
  PROVE  /\ RequestOnWire /\ Head(rx).cmd # "GET_ALL" => RequestOnWire'
         /\ RequestOnWire => RequestOnWire' \/ \A i \in 1..Len(rx') : ~ConfirmsCfg(rx'[i])
         /\ (\A i \in 1..Len(rx) : ~ConfirmsCfg(rx[i])) =>
              ~ConfirmsCfg(Head(rx)) /\ \A i \in 1..Len(rx') : ~ConfirmsCfg(rx'[i])
<1>1. /\ Len(rx) \in Nat \ {0} /\ Len(rx') = Len(rx) - 1 /\ Head(rx) = rx[1]
      /\ \A i \in 1..Len(rx') : rx'[i] = rx[i + 1]
  BY TailElements DEF TypeOK
<1>2. \A i \in 1..Len(rx') : i + 1 \in 2..Len(rx)
  BY <1>1
<1>3. ASSUME NEW i \in 1..Len(rx), rx[i].cmd = "GET_ALL", i # 1,
             \A j \in (i + 1)..Len(rx) : ~ConfirmsCfg(rx[j])
      PROVE  RequestOnWire'
  <2>1. i - 1 \in 1..Len(rx') /\ rx'[i - 1].cmd = "GET_ALL"
    BY <1>1, <1>3
  <2>2. \A j \in ((i - 1) + 1)..Len(rx') : ~ConfirmsCfg(rx'[j])
    <3> SUFFICES ASSUME NEW j \in ((i - 1) + 1)..Len(rx') PROVE ~ConfirmsCfg(rx'[j])
      OBVIOUS
    <3>1. j \in 1..Len(rx') /\ j + 1 \in (i + 1)..Len(rx)
      BY <1>1, <1>3
    <3> QED
      BY <1>1, <1>3, <3>1
  <2> QED
    BY <2>1, <2>2 DEF RequestOnWire, ConfirmsCfg
<1>4. ASSUME NEW i \in 1..Len(rx), i = 1, \A j \in (i + 1)..Len(rx) : ~ConfirmsCfg(rx[j])
      PROVE  \A j \in 1..Len(rx') : ~ConfirmsCfg(rx'[j])
  BY <1>1, <1>2, <1>4
<1>5. ASSUME RequestOnWire
      PROVE  /\ RequestOnWire' \/ Head(rx).cmd = "GET_ALL"
             /\ RequestOnWire' \/ \A i \in 1..Len(rx') : ~ConfirmsCfg(rx'[i])
  BY <1>1, <1>3, <1>4, <1>5 DEF RequestOnWire
<1>6. ASSUME \A i \in 1..Len(rx) : ~ConfirmsCfg(rx[i])
      PROVE  ~ConfirmsCfg(Head(rx)) /\ \A i \in 1..Len(rx') : ~ConfirmsCfg(rx'[i])
  BY <1>1, <1>2, <1>6
<1> QED
  BY <1>5, <1>6

\* The request overtakes no confirmation on the wire, and REBOOTED is handled
\* before the confirmations of its batch, CFG_UPDATE after them.
LEMMA StepUnconfiguredIsNoticed ==
  ASSUME TypeOK, TxIsKnown, CfgIsKnown, UnconfiguredIsNoticed, [Next]_vars
  PROVE  UnconfiguredIsNoticed'
<1> USE DEF driverVars, UnconfiguredIsNoticed, Pending
<1>1. CASE TakeSignals
  BY <1>1 DEF TakeSignals, RequestOnWire, CfgAckOnWire, ConfirmsCfg, TypeOK
<1>2. CASE on_sig_nrf52_rebooted
  BY <1>2 DEF on_sig_nrf52_rebooted, Handle, RequestOnWire, CfgAckOnWire, ConfirmsCfg, CfgIsKnown,
              TypeOK
<1>3. CASE on_sync_ack_led_ctrl
  BY <1>3 DEF on_sync_ack_led_ctrl, Handle, send_cmd_cfg_internal, SendCmd, SendNothing,
              RequestOnWire, CfgAckOnWire, ConfirmsCfg, TypeOK
<1>4. CASE on_sync_ack_cfg
  BY <1>4 DEF on_sync_ack_cfg, Handle, send_cmd_led_ctrl_internal, SendCmd, SendNothing,
              RequestOnWire, CfgAckOnWire, ConfirmsCfg, TypeOK
<1>5. CASE on_sync_ack_timeout
  BY <1>5 DEF on_sync_ack_timeout, Handle, nrf52_reset, send_cmd_cfg_internal,
              send_cmd_led_ctrl_internal, SendCmd, SendNothing, RequestOnWire, CfgAckOnWire,
              ConfirmsCfg, TypeOK
<1>6. CASE on_sig_nrf52_cfg_update
  BY <1>6 DEF on_sig_nrf52_cfg_update, Handle, send_cmd_cfg_internal, SendCmd, SendNothing,
              RequestOnWire, CfgAckOnWire, ConfirmsCfg, TypeOK
<1>7. CASE on_sig_nrf52_hw_reset_off
  BY <1>7 DEF on_sig_nrf52_hw_reset_off, Handle, RequestOnWire, CfgAckOnWire, ConfirmsCfg, TypeOK
<1>8. CASE on_sig_nrf52_cfg_req_timeout
  BY <1>8 DEF on_sig_nrf52_cfg_req_timeout, Handle, nrf52_reset, RequestOnWire, CfgAckOnWire,
              ConfirmsCfg, TypeOK
<1>9. ASSUME NEW s \in {SIG_GREEN_LED_STATE_CHANGED, SIG_GREEN_LED_UPDATE},
             on_green_led_update(s)
      PROVE  UnconfiguredIsNoticed'
  BY <1>9 DEF on_green_led_update, Handle, send_cmd_led_ctrl_internal, SendCmd, RequestOnWire,
              CfgAckOnWire, ConfirmsCfg, TypeOK
<1>10. CASE on_async_ack_read
  <2>1. /\ rx # <<>> /\ rx' = Tail(rx) /\ Head(rx).cmd # "GET_ALL"
        /\ uart_ack'.cmd = Head(rx).cmd /\ uart_ack'.ok = Head(rx).ok
        /\ UNCHANGED <<nrf, manual_reset, sigs, batch, configured>>
    BY <1>10 DEF on_async_ack_read, driverVars
  <2>2. RequestOnWire => RequestOnWire'
    BY <2>1, FirstTaken
  <2>3. ~CfgAckOnWire => ~CfgAckOnWire'
    BY <2>1, FirstTaken DEF CfgAckOnWire, ConfirmsCfg
  <2> QED
    BY <2>1, <2>2, <2>3
<1>11. CASE on_async_ack_clear
  <2>1. /\ RequestOnWire => RequestOnWire'
        /\ ~CfgAckOnWire => ~CfgAckOnWire'
    BY <1>11 DEF on_async_ack_clear, RequestOnWire, CfgAckOnWire, ConfirmsCfg, NoAck
  <2>2. /\ sigs \subseteq sigs'
        /\ ~ConfirmsCfg(uart_ack) => (SIG_NRF52_ACK_CFG \in sigs' => SIG_NRF52_ACK_CFG \in sigs)
    BY <1>11 DEF on_async_ack_clear, ConfirmsCfg
  <2> QED
    BY <1>11, <2>1, <2>2 DEF on_async_ack_clear, CfgAckOnWire
<1>12. CASE on_recv_get_all
  <2>1. rx # <<>> /\ rx' = Tail(rx) /\ SIG_NRF52_REBOOTED \in sigs' /\ uart_ack' = NoAck
    BY <1>12 DEF on_recv_get_all
  <2>2. CfgAckOnWire' = \E i \in 1..Len(rx') : ConfirmsCfg(rx'[i])
    BY <2>1 DEF CfgAckOnWire, ConfirmsCfg, NoAck
  <2>3. RequestOnWire => RequestOnWire' \/ ~CfgAckOnWire'
    BY <2>1, <2>2, FirstTaken
  <2>4. ~CfgAckOnWire => ~CfgAckOnWire'
    BY <2>1, <2>2, FirstTaken DEF CfgAckOnWire
  <2> QED
    BY <1>12, <2>1, <2>3, <2>4 DEF on_recv_get_all
<1>13. CASE cfg_update_cached
  BY <1>13 DEF cfg_update_cached, RequestOnWire, CfgAckOnWire, ConfirmsCfg, TypeOK
<1>14. CASE cfg_update_signal
  BY <1>14 DEF cfg_update_signal, RequestOnWire, CfgAckOnWire, ConfirmsCfg, TypeOK
<1>15. CASE update_fw
  BY <1>15 DEF update_fw, RequestOnWire, CfgAckOnWire, ConfirmsCfg, TypeOK
<1>16. CASE green_led_state_changed
  BY <1>16 DEF green_led_state_changed, RequestOnWire, CfgAckOnWire, ConfirmsCfg, TypeOK
<1>17. CASE AckTimeout
  BY <1>17 DEF AckTimeout, Fault, RequestOnWire, CfgAckOnWire, ConfirmsCfg, TypeOK
<1>18. CASE ResetTimer
  BY <1>18 DEF ResetTimer, RequestOnWire, CfgAckOnWire, ConfirmsCfg, TypeOK
<1>19. CASE CfgReqTimeout
  BY <1>19 DEF CfgReqTimeout, Fault, RequestOnWire, CfgAckOnWire, ConfirmsCfg, TypeOK
<1>20. CASE GreenLedTimer
  BY <1>20 DEF GreenLedTimer, RequestOnWire, CfgAckOnWire, ConfirmsCfg, TypeOK
<1>21. CASE NrfBoot
  <2>1. CASE nrf'.mode = "run"
    <3>1. rx' = Append(rx, [cmd |-> "GET_ALL", ok |-> TRUE])
      BY <1>21, <2>1 DEF NrfBoot, TypeOK
    <3> QED
      BY <3>1, RequestAppended
  <2> QED
    BY <2>1
<1>22. CASE NrfExecute
  <2>1. CASE Head(tx).cmd = "SET_ALL"
    <3>1. tx # <<>> /\ nrf'.cfg = Head(tx).cfg
      BY <1>22, <2>1 DEF NrfExecute, TypeOK
    <3>2. nrf'.cfg # 0
      BY <2>1, <3>1, TailElements DEF TypeOK, TxIsKnown
    <3> QED
      BY <3>2
  <2>2. CASE Head(tx).cmd # "SET_ALL"
    <3>1. /\ rx' = Append(rx, [cmd |-> Head(tx).cmd, ok |-> TRUE])
          /\ UNCHANGED <<nrf, manual_reset, sigs, batch, configured, uart_ack>>
      BY <1>22, <2>2 DEF NrfExecute, driverVars
    <3>2. ~ConfirmsCfg([cmd |-> Head(tx).cmd, ok |-> TRUE])
      BY <2>2 DEF ConfirmsCfg
    <3> QED
      BY <3>1, <3>2, AnswerAppended
  <2> QED
    BY <2>1, <2>2
<1>23. CASE NrfReject
  <2>1. /\ rx' = Append(rx, [cmd |-> Head(tx).cmd, ok |-> FALSE])
        /\ UNCHANGED <<nrf, manual_reset, sigs, batch, configured, uart_ack>>
    BY <1>23 DEF NrfReject, driverVars
  <2>2. ~ConfirmsCfg([cmd |-> Head(tx).cmd, ok |-> FALSE])
    BY DEF ConfirmsCfg
  <2> QED
    BY <2>1, <2>2, AnswerAppended
<1>24. CASE Lose
  <2>1. CASE UNCHANGED nrf
    BY <1>24, <2>1 DEF Lose, driverVars, RequestOnWire, CfgAckOnWire
  <2>2. CASE Head(tx).cmd = "SET_ALL" /\ nrf' = [nrf EXCEPT !.cfg = Head(tx).cfg]
    <3>1. tx # <<>> /\ nrf'.cfg = Head(tx).cfg
      BY <1>24, <2>2 DEF Lose, TypeOK
    <3> QED
      BY <2>2, <3>1, TailElements DEF TypeOK, TxIsKnown
  <2> QED
    BY <1>24, <2>1, <2>2 DEF Lose
<1>25. CASE NrfSelfReboot
  <2>1. rx' = Append(rx, [cmd |-> "GET_ALL", ok |-> TRUE])
    BY <1>25 DEF NrfSelfReboot
  <2> QED
    BY <2>1, RequestAppended
<1>26. CASE UNCHANGED vars
  BY <1>26 DEF vars, RequestOnWire, CfgAckOnWire, ConfirmsCfg, TypeOK
<1> QED
  BY <1>1, <1>2, <1>3, <1>4, <1>5, <1>6, <1>7, <1>8, <1>9, <1>10, <1>11, <1>12, <1>13, <1>14,
     <1>15, <1>16, <1>17, <1>18, <1>19, <1>20, <1>21, <1>22, <1>23, <1>24, <1>25, <1>26
  DEF Next, AdvPost, UartRx, Environment, Nrf

\* Every step keeps the invariant.
LEMMA StepLinkInv == LinkInv /\ [Next]_vars => LinkInv'
  BY StepType, StepCfgRequiredOnlyIfUnconfigured, StepWaitingIsTimed, StepResetIsTimed,
     StepTxNeedsRun, StepCfgIsKnown, StepTxIsKnown, StepRxIsKnown, StepAcksEndWithReset,
     StepReleasedIsTimed, StepUnconfiguredIsNoticed
  DEF LinkInv

\* The inductive invariant holds in every reachable state.
THEOREM LinkInvariant == Spec => []LinkInv
  BY InitLinkInv, StepLinkInv, PTL DEF Spec

-----------------------------------------------------------------------------
(* The properties.                                                         *)

\* Every variable keeps its type.
THEOREM TypeCorrect == Spec => []TypeOK
<1>1. LinkInv => TypeOK
  BY DEF LinkInv
<1> QED
  BY <1>1, LinkInvariant, PTL

\* The assertions of adv_post_nrf52_send_cmd_cfg_internal never fail
\* (adv_post_nrf52.c:167-171).
THEOREM AssertionsHold == Spec => []CfgRequiredOnlyIfUnconfigured
<1>1. LinkInv => CfgRequiredOnlyIfUnconfigured
  BY DEF LinkInv
<1> QED
  BY <1>1, LinkInvariant, PTL

\* adv_post waits for an acknowledgement only while the timeout timer runs or
\* its signal is on its way (adv_post_nrf52.c:136-143).
THEOREM WaitingEnds == Spec => []WaitingIsTimed
<1>1. LinkInv => WaitingIsTimed
  BY DEF LinkInv
<1> QED
  BY <1>1, LinkInvariant, PTL

\* A chip held in reset is about to be released unless a firmware update took it
\* over (adv_post_nrf52.c:221-234, 371-387).
THEOREM ResetEnds == Spec => []ResetIsTimed
<1>1. LinkInv => ResetIsTimed
  BY DEF LinkInv
<1> QED
  BY <1>1, LinkInvariant, PTL

\* A released chip that stays silent is never forgotten
\* (adv_post_nrf52.c:316-345, 371-396).
THEOREM SilenceEnds == Spec => []SilenceIsTimed
<1>1. LinkInv => SilenceIsTimed
  BY DEF LinkInv, ReleasedIsTimed, Recovering, SilenceIsTimed
<1> QED
  BY <1>1, LinkInvariant, PTL

\* At rest, a running chip that the gateway takes as configured has a
\* configuration, whatever reboots, resets, losses and late acknowledgements
\* came before.
THEOREM ConfiguredMeansConfigured == Spec => []ConfiguredChipHasConfig
<1>1. ASSUME LinkInv PROVE ConfiguredChipHasConfig
  <2> SUFFICES ASSUME Quiet, configured, ~manual_reset, nrf.mode = "run", nrf.cfg = 0
               PROVE  FALSE
    BY DEF ConfiguredChipHasConfig
  <2>1. Pending = {} /\ Len(rx) = 0
    BY DEF Quiet
  <2>2. ~RequestOnWire
    BY <2>1 DEF RequestOnWire
  <2> QED
    BY <1>1, <2>1, <2>2 DEF LinkInv, UnconfiguredIsNoticed, Pending
<1> QED
  BY <1>1, LinkInvariant, PTL
=============================================================================
