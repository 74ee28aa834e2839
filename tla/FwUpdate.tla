------------------------------ MODULE FwUpdate ------------------------------
(***************************************************************************)
(* The firmware update: fw_update_task downloads a release into the slot    *)
(* that is not running, flashes the nRF52 and switches the boot partition   *)
(* (fw_update.c); the bootloader selects and loads a slot                   *)
(* (bootloader_utility.c); the new release checks itself, brings the nRF52  *)
(* to its own firmware and confirms itself or rolls back                    *)
(* (ruuvi_gateway_main.c).  Power may be lost at any point: what is in      *)
(* flash stays.  A slot consists of an application image and two data       *)
(* partitions, whose signatures are embedded in the application image.      *)
(***************************************************************************)
EXTENDS OtaData, FiniteSets

CONSTANTS Releases,   \* the releases there are
          Factory,    \* the release the gateway was delivered with
          Bad,        \* releases whose start-up always fails
          Tasks,      \* instances of fw_update_task that can exist
          Events,     \* what happens in an instance
          MaxUpdates, \* bound: updates requested
          MaxCrashes, \* bound: power losses
          MaxFaults   \* bound: start-up steps that fail by accident

Parts == {"app", "gwui", "nrf52"}
Stage == <<"app", "gwui", "nrf52">>

Blank == "blank"       \* erased, or its first sector is
Broken == "broken"     \* holds something that is no release's file
NoRelease == "none"

ASSUME FwAssumption ==
  /\ Factory \in Releases \ Bad /\ Bad \subseteq Releases
  /\ {Blank, Broken, NoRelease} \cap Releases = {}
  /\ IsFiniteSet(Tasks)
  /\ Events \subseteq {"manual", "auto", "unconfirmed"}
  /\ MaxUpdates \in Nat /\ MaxCrashes \in Nat /\ MaxFaults \in Nat

VARIABLES
  \* flash and NVS
  ota,     \* the two otadata entries
  part,    \* contents of the three partitions of each slot
  wl,      \* slots whose fatfs_nrf52 wear-levelling area was changed by a mount
  chip,    \* firmware on the nRF52
  flag,    \* the NVS flag "rebooting after auto-update"
  \* RAM
  write,   \* an otadata entry that is erased and not yet rewritten
  phase,   \* where the bootloader or app_main is
  boot,    \* the slot that the bootloader has selected
  run,     \* the slot that runs
  running_state, \* g_ruuvi_flash_info.running_partition_state
  url,     \* g_fw_update_cfg.binaries_url
  reason,  \* g_fw_updating_reason
  task,    \* the instances of fw_update_task
  budget   \* what is left of the three bounds

flashVars == <<ota, part, wl, chip, flag>>
bootVars == <<boot, run, running_state>>
reqVars == <<url, reason>>
vars == <<ota, part, wl, chip, flag, write, phase, boot, run, running_state, url, reason, task,
          budget>>

NoWrite == [i |-> -1, e |-> Erased]
IdleTask == [pc |-> "idle", stage |-> 1, rel |-> NoRelease, clobbered |-> FALSE]

\* Reset loses what is in RAM.
ResetRam ==
  /\ phase' = "select" /\ boot' = 0 /\ run' = 0 /\ running_state' = "UNDEFINED"
  /\ url' = NoRelease /\ reason' = "NONE"
  /\ task' = [t \in Tasks |-> IdleTask]

\* A gateway as delivered: one release in slot 0 and otadata never written.
Init ==
  /\ ota = [i \in Entries |-> Erased]
  /\ part = [s \in Slots |-> [p \in Parts |-> IF s = 0 THEN Factory ELSE Blank]]
  /\ wl = {} /\ chip = Blank /\ flag = FALSE
  /\ write = NoWrite /\ phase = "select" /\ boot = 0 /\ run = 0 /\ running_state = "UNDEFINED"
  /\ url = NoRelease /\ reason = "NONE"
  /\ task = [t \in Tasks |-> IdleTask]
  /\ budget = [updates |-> MaxUpdates, crashes |-> MaxCrashes, faults |-> MaxFaults]

-----------------------------------------------------------------------------
(* Rewriting an otadata entry: the sector is erased, then written.  Nothing *)
(* else but a power loss happens in between.                               *)

EraseEntry(i, e) ==
  /\ ota' = [ota EXCEPT ![i] = Erased]
  /\ write' = [i |-> i, e |-> e]

WriteEntry ==
  /\ write # NoWrite
  /\ ota' = [ota EXCEPT ![write.i] = write.e]
  /\ write' = NoWrite
  /\ UNCHANGED <<part, wl, chip, flag, phase, bootVars, reqVars, task, budget>>

SetState(i, st) == EraseEntry(i, [ota[i] EXCEPT !.state = st])

PowerLoss ==
  /\ budget.crashes > 0
  /\ budget' = [budget EXCEPT !.crashes = @ - 1]
  /\ ResetRam /\ write' = NoWrite
  /\ UNCHANGED flashVars

-----------------------------------------------------------------------------
(* The bootloader.                                                         *)

\* esp_image_verify: the signature of the image is right.
Verifies(s) == part[s].app \in Releases

\* An image that did not confirm itself before the reset is given up.
boot_abort_unconfirmed ==
  /\ phase = "select" /\ write = NoWrite
  /\ \E i \in Entries :
       /\ ota[i].state = "PENDING_VERIFY"
       /\ i = 1 => ota[0].state # "PENDING_VERIFY"
       /\ SetState(i, "ABORTED")
  /\ UNCHANGED <<part, wl, chip, flag, phase, bootVars, reqVars, task, budget>>

\* Mutant: there is a factory image to fall back to.
SelectedFactory(a) == IF a = -1 THEN -1 ELSE SlotOf(ota[a])

\* Without a factory image and a valid entry OTA slot 0 is tried.
SelectedSlot(a) == IF a = -1 THEN 0 ELSE SlotOf(ota[a])

\* The rest of bootloader_utility_get_selected_boot_partition.
get_selected_boot_partition ==
  /\ phase = "select" /\ write = NoWrite
  /\ \A i \in Entries : ota[i].state # "PENDING_VERIFY"
  /\ LET a == ActiveEntry(ota)
     IN /\ boot' = SelectedSlot(a)
        /\ IF a # -1 /\ ota[a].state = "NEW"
           THEN SetState(a, "PENDING_VERIFY")
           ELSE UNCHANGED <<ota, write>>
  /\ phase' = "load"
  /\ UNCHANGED <<part, wl, chip, flag, run, running_state, reqVars, task, budget>>

\* The selected slot is preferred.
Loadable(s) == Verifies(s) /\ (Verifies(boot) => s = boot)

\* bootloader_utility_load_boot_image: the selected slot, else the other one.  If
\* neither holds an image the bootloader resets for ever; the model stops.
load_boot_image ==
  /\ phase = "load" /\ write = NoWrite
  /\ \E s \in Slots :
       /\ Loadable(s)
       /\ run' = s
       /\ IF \A i \in Entries : ota[i] = Erased   \* set_actual_ota_seq
          THEN EraseEntry(0, [seq |-> s + 1, state |-> "VALID"])
          ELSE UNCHANGED <<ota, write>>
  /\ phase' = "check"
  /\ UNCHANGED <<part, wl, chip, flag, boot, running_state, reqVars, task, budget>>

-----------------------------------------------------------------------------
(* Start-up: main_task_init and app_main.                                  *)

\* The running image is on trial.
Unconfirmed == StateOfSlot(ota, run) = "PENDING_VERIFY"

\* A start-up step fails by accident (no memory, the nRF52 does not answer),
\* whether the image is on trial or confirmed.
Fault ==
  /\ phase \in {"check", "chip", "chip_write", "init"} /\ write = NoWrite
  /\ budget.faults > 0
  /\ budget' = [budget EXCEPT !.faults = @ - 1]
  /\ phase' = "failed"
  /\ UNCHANGED <<flashVars, write, bootVars, reqVars, task>>

\* Mutant: only a partition that cannot be read is refused.
SignatureOkIfReadable(p) == part[run][p] # Blank

\* fw_update_check_fatfs_partition_signature: the data partition must be the one
\* whose signature is embedded in the application image.
SignatureOk(p) == part[run].app \in Releases /\ part[run][p] = part[run].app

\* Mutant: the wear-levelling area is not restored.
RestoredNot == wl

\* fw_update_restore_nrf52_wl_area_if_needed, once the gwui partition is checked.
Restored == IF SignatureOk("gwui") THEN wl \ {run} ELSE wl

\* fw_update_read_flash_info_and_check_signatures.
check_signatures ==
  /\ phase = "check" /\ write = NoWrite
  /\ running_state' = StateOfSlot(ota, run)
  /\ wl' = Restored
  /\ phase' = IF SignatureOk("gwui") /\ SignatureOk("nrf52") /\ run \notin Restored
              THEN "chip" ELSE "failed"
  /\ UNCHANGED <<ota, part, chip, flag, write, boot, run, reqVars, task, budget>>

\* flashfatfs_mount: wear levelling may change its own area of the partition.
Mount(s) == wl' \in {wl, wl \cup {s}}

\* Mutant: a chip with any firmware on it is left alone.
ChipIsUpToDateIfAny(s) == chip # Blank

\* The version and the digest of the firmware on the chip are those of slot s.
ChipIsUpToDate(s) == chip = part[s].nrf52

\* nrf52fw_update_fw_if_necessary: erase the chip unless it holds the firmware.
check_nrf52_fw ==
  /\ phase = "chip" /\ write = NoWrite
  /\ Mount(run)
  /\ IF ChipIsUpToDate(run)
     THEN phase' = "init" /\ UNCHANGED chip
     ELSE phase' = "chip_write" /\ chip' = Blank
  /\ UNCHANGED <<ota, part, flag, write, bootVars, reqVars, task, budget>>

write_nrf52_fw ==
  /\ phase = "chip_write" /\ write = NoWrite
  /\ chip' = part[run].nrf52 /\ phase' = "init"
  /\ UNCHANGED <<ota, part, wl, flag, write, bootVars, reqVars, task, budget>>

\* The rest of main_task_init.
main_task_init ==
  /\ phase = "init" /\ write = NoWrite
  /\ phase' = IF part[run].app \in Bad THEN "failed" ELSE "ready"
  /\ UNCHANGED <<flashVars, write, bootVars, reqVars, task, budget>>

\* External: esp_ota_check_rollback_is_possible.
RollbackPossible ==
  LET a == ActiveEntry(ota)
  IN a # -1 /\ IsValid(ota[1 - a]) /\ Verifies(SlotOf(ota[1 - a]))

\* app_main after a failed start-up: esp_ota_mark_app_invalid_rollback_and_reboot,
\* or a plain restart.
roll_back ==
  /\ phase = "failed" /\ write = NoWrite
  /\ IF RollbackPossible
     THEN SetState(ActiveEntry(ota), "INVALID")
     ELSE UNCHANGED <<ota, write>>
  /\ ResetRam
  /\ UNCHANGED <<part, wl, chip, flag, budget>>

\* app_main after a successful start-up.  After an auto-update a gateway with an
\* upstream (external: is one configured) waits for it to be reached.
app_main ==
  /\ phase = "ready" /\ write = NoWrite
  /\ \E is_upstream_used \in BOOLEAN :
       phase' = IF is_upstream_used /\ flag THEN "main" ELSE "mark"
  /\ flag' = FALSE
  /\ UNCHANGED <<ota, part, wl, chip, write, bootVars, reqVars, task, budget>>

\* fw_update_mark_app_valid_cancel_rollback.
MarkAppValid ==
  IF running_state = "PENDING_VERIFY" /\ ActiveEntry(ota) # -1
  THEN /\ SetState(ActiveEntry(ota), "VALID")
       /\ running_state' = "VALID"
  ELSE UNCHANGED <<ota, write, running_state>>

mark_app_valid ==
  /\ phase = "mark" /\ write = NoWrite
  /\ MarkAppValid /\ phase' = "main"
  /\ UNCHANGED <<part, wl, chip, flag, boot, run, reqVars, task, budget>>

\* An HTTP POST succeeded or MQTT is connected.
upstream_reached ==
  /\ phase = "main" /\ write = NoWrite
  /\ running_state = "PENDING_VERIFY"
  /\ MarkAppValid
  /\ UNCHANGED <<part, wl, chip, flag, phase, boot, run, reqVars, task, budget>>

-----------------------------------------------------------------------------
(* Requests for an update.                                                 *)

\* When an instance lets updates be requested.
MayRequest ==
  /\ phase = "main" /\ write = NoWrite
  /\ Unconfirmed => "unconfirmed" \in Events
  /\ budget.updates > 0

\* fw_update_run: sets the reason and creates the task, one more instance of it.
\* When that fails the reason is cleared, also that of an update in progress.
RunTask(why) ==
  LET idle == {t \in Tasks : task[t].pc = "idle"}
  IN \/ /\ idle # {}
        /\ task' = [task EXCEPT ![CHOOSE t \in idle : TRUE].pc = "erase"]
        /\ reason' = why
     \/ reason' = "NONE" /\ UNCHANGED task

\* http_server_cb_on_post, http_server_cb_on_post_fw_update: refused while an
\* update is in progress.  The request sets the URL even if the files are not
\* there, and then leaves the reason alone.
post_fw_update(r) ==
  /\ "manual" \in Events /\ MayRequest
  /\ reason = "NONE"
  /\ url' = r
  /\ RunTask("MANUAL") \/ UNCHANGED <<task, reason>>
  /\ budget' = [budget EXCEPT !.updates = @ - 1]
  /\ UNCHANGED <<flashVars, write, phase, bootVars>>

\* http_server_cb_on_user_req_download_latest_release_info: does not look
\* whether an update is in progress.
auto_update(r) ==
  /\ "auto" \in Events /\ MayRequest
  /\ url' = r
  /\ RunTask("AUTO") \/ UNCHANGED <<task, reason>>
  /\ budget' = [budget EXCEPT !.updates = @ - 1]
  /\ UNCHANGED <<flashVars, write, phase, bootVars>>

-----------------------------------------------------------------------------
(* fw_update_task.                                                         *)

Next_slot == 1 - run   \* p_next_update_partition and its data partitions

At(t, pc) == task[t].pc = pc /\ write = NoWrite

SetPc(t, pc) == task' = [task EXCEPT ![t].pc = pc]

\* What the instances become when t erases partition p of the next slot: one
\* that is writing p loses what it has written.
Clobber(t, p) ==
  [u \in Tasks |-> IF u # t /\ task[u].pc = "write" /\ Stage[task[u].stage] = p
                   THEN [task[u] EXCEPT !.clobbered = TRUE] ELSE task[u]]

\* A stage: take the URL, erase the partition.  esp_ota_begin_patched refuses
\* while the running image is not confirmed.
erase_partition(t) ==
  /\ At(t, "erase")
  /\ LET p == Stage[task[t].stage]
     IN IF p = "app" /\ Unconfirmed
        THEN SetPc(t, "invalidate") /\ UNCHANGED part
        ELSE /\ part' = [part EXCEPT ![Next_slot][p] = Blank]
             /\ task' = [Clobber(t, p) EXCEPT ![t].pc = "write", ![t].rel = url,
                                              ![t].clobbered = FALSE]
  /\ UNCHANGED <<ota, wl, chip, flag, write, phase, bootVars, reqVars, budget>>

\* What the partition can hold after instance t has written it: the file, or
\* damage when the download was cut short or resumed at a wrong offset, or when
\* another instance erased or wrote it meanwhile.
Written(t) ==
  LET p == Stage[task[t].stage]
      others == {u \in Tasks \ {t} : task[u].pc = "write" /\ task[u].stage = task[t].stage}
      alone == ~task[t].clobbered /\ \A u \in others : task[u].rel = task[t].rel
  IN IF alone /\ part[Next_slot][p] \in {Blank, task[t].rel} THEN {task[t].rel, Broken}
     ELSE {Broken}

\* The download ended.  The application image is verified (esp_ota_end_patched),
\* the data partitions are not.
write_partition(t) ==
  /\ At(t, "write")
  /\ LET p == Stage[task[t].stage]
     IN /\ \E c \in Written(t) :
             /\ part' = [part EXCEPT ![Next_slot][p] = c]
             /\ \/ /\ p = "app" => c \in Releases
                   /\ task' = [task EXCEPT ![t].stage = IF p = "nrf52" THEN 1 ELSE @ + 1,
                                           ![t].pc = IF p = "nrf52" THEN "chip" ELSE "erase",
                                           ![t].rel = NoRelease, ![t].clobbered = FALSE]
                \/ /\ c = Broken   \* failed
                   /\ task' = [task EXCEPT ![t] = [IdleTask EXCEPT !.pc = "invalidate"]]
        /\ wl' = IF p = "nrf52" THEN wl \ {Next_slot} ELSE wl
  /\ UNCHANGED <<ota, chip, flag, write, phase, bootVars, reqVars, budget>>

\* fw_update_get_inactive_fatfs_nrf52_partition_name: every switch negates
\* is_ota0_active, so after one the partition of the running slot is taken.
InactiveSlot ==
  LET switches == Cardinality({t \in Tasks : task[t].pc \in {"set_flag", "restart"}})
  IN IF switches % 2 = 1 THEN run ELSE Next_slot

\* nrf52fw_update_fw_if_necessary on the inactive partition.
update_nrf52_check(t) ==
  /\ At(t, "chip")
  /\ Mount(InactiveSlot)
  /\ LET c == part[InactiveSlot].nrf52
     IN \/ c = chip /\ c # Blank /\ SetPc(t, "switch") /\ UNCHANGED chip
        \/ c # Blank /\ (c = chip => c = Broken) /\ SetPc(t, "chip_write") /\ chip' = Blank
        \/ SetPc(t, "invalidate") /\ UNCHANGED chip
  /\ UNCHANGED <<ota, part, flag, write, phase, bootVars, reqVars, budget>>

update_nrf52_write(t) ==
  /\ At(t, "chip_write")
  /\ LET c == part[InactiveSlot].nrf52
         alone == \A u \in Tasks \ {t} : task[u].pc # "chip_write"
     IN \/ chip' = (IF alone /\ c \in Releases THEN c ELSE Broken) /\ SetPc(t, "switch")
        \/ chip' = Broken /\ SetPc(t, "invalidate")
  /\ UNCHANGED <<ota, part, wl, flag, write, phase, bootVars, reqVars, budget>>

\* esp_ota_set_boot_partition_patched.
set_boot_partition(t) ==
  /\ At(t, "switch")
  /\ IF Verifies(Next_slot)
     THEN /\ LET w == BootEntry(ota, run, Next_slot) IN EraseEntry(w.i, w.e)
          /\ SetPc(t, "set_flag")
     ELSE SetPc(t, "invalidate") /\ UNCHANGED <<ota, write>>
  /\ UNCHANGED <<part, wl, chip, flag, phase, bootVars, reqVars, budget>>

\* The sector was erased and cannot be written.
set_boot_partition_failed(t) ==
  /\ task[t].pc = "set_flag" /\ write # NoWrite
  /\ write' = NoWrite /\ SetPc(t, "invalidate")
  /\ UNCHANGED <<flashVars, phase, bootVars, reqVars, budget>>

set_flag(t) ==
  /\ At(t, "set_flag")
  /\ flag' = (flag \/ reason = "AUTO")
  /\ SetPc(t, "restart")
  /\ UNCHANGED <<ota, part, wl, chip, write, phase, bootVars, reqVars, budget>>

\* fw_update_invalidate_all_next_partitions, partition by partition.  Only the
\* application partition is left alone while the running image is not confirmed.
invalidate_next(t) ==
  /\ At(t, "invalidate")
  /\ LET p == Stage[task[t].stage]
         next == IF p = "nrf52" THEN [IdleTask EXCEPT !.pc = "restart_failed"]
                 ELSE [task[t] EXCEPT !.stage = @ + 1]
     IN IF p = "app" /\ Unconfirmed
        THEN UNCHANGED part /\ task' = [task EXCEPT ![t] = next] /\ UNCHANGED reason
        ELSE /\ part' = [part EXCEPT ![Next_slot][p] = Blank]
             /\ task' = [Clobber(t, p) EXCEPT ![t] = next]
             /\ reason' = IF p = "nrf52" THEN "NONE" ELSE reason
  /\ UNCHANGED <<ota, wl, chip, flag, write, phase, bootVars, url, budget>>

\* gateway_restart, 5 seconds later.
restart(t) ==
  /\ At(t, "restart") \/ At(t, "restart_failed")
  /\ ResetRam
  /\ UNCHANGED <<flashVars, write, budget>>

-----------------------------------------------------------------------------
Bootloader == boot_abort_unconfirmed \/ get_selected_boot_partition \/ load_boot_image

StartUp == \/ check_signatures \/ check_nrf52_fw \/ write_nrf52_fw \/ main_task_init
           \/ roll_back \/ app_main \/ mark_app_valid

Updater(t) ==
  \/ erase_partition(t) \/ write_partition(t) \/ update_nrf52_check(t)
  \/ update_nrf52_write(t) \/ set_boot_partition(t) \/ set_flag(t)
  \/ invalidate_next(t) \/ restart(t)

Next ==
  \/ WriteEntry \/ Bootloader \/ StartUp
  \/ PowerLoss \/ Fault \/ upstream_reached
  \/ \E r \in Releases : post_fw_update(r) \/ auto_update(r)
  \/ \E t \in Tasks : Updater(t) \/ set_boot_partition_failed(t)

Fairness == /\ WF_vars(WriteEntry) /\ WF_vars(Bootloader) /\ WF_vars(StartUp)
            /\ \A t \in Tasks : WF_vars(Updater(t))

Spec == Init /\ [][Next]_vars /\ Fairness

-----------------------------------------------------------------------------
(* Properties.                                                             *)

PartContents == Releases \cup {Blank, Broken}

\* Every variable has its type.
TypeOK ==
  /\ ota \in Otadata
  /\ part \in [Slots -> [Parts -> PartContents]]
  /\ wl \subseteq Slots /\ chip \in PartContents /\ flag \in BOOLEAN
  /\ write = NoWrite \/ write \in [i : Entries, e : Entry]
  /\ phase \in {"select", "load", "check", "chip", "chip_write", "init", "failed", "ready",
                "mark", "main"}
  /\ boot \in Slots /\ run \in Slots /\ running_state \in States
  /\ url \in Releases \cup {NoRelease} /\ reason \in {"NONE", "MANUAL", "AUTO"}
  /\ task \in [Tasks -> [pc : {"idle", "erase", "write", "chip", "chip_write", "switch",
                               "set_flag", "restart", "invalidate", "restart_failed"},
                         stage : 1..3, rel : Releases \cup {NoRelease},
                         clobbered : BOOLEAN]]
  /\ budget \in [updates : 0..MaxUpdates, crashes : 0..MaxCrashes, faults : 0..MaxFaults]

Whole(s) == part[s].app \in Releases /\ \A p \in Parts : part[s][p] = part[s].app

\* While the main loop runs, and whatever updates are under way, the three
\* partitions of the running slot are those of one release
\* (fw_update_self_check_signature, p_next_update_partition).
MainLoopIsWhole == phase = "main" => Whole(run)

\* While no update is under way the nRF52 holds the firmware that belongs to the
\* running release, whatever an interrupted or failed update left on it
\* (nrf52fw_update_fw_if_necessary).
ChipMatches ==
  phase = "main" /\ (\A t \in Tasks : task[t].pc = "idle") => chip = part[run].nrf52

\* The slot that a rollback goes to.
BackSlot == SlotOf(ota[1 - ActiveEntry(ota)])

\* A release that fails to start up is rolled back to another slot that holds a
\* whole release (app_main).
StartupFailureRollsBack ==
  phase = "failed" /\ write = NoWrite => RollbackPossible /\ BackSlot # run /\ Whole(BackSlot)

\* The same for a release on trial, whatever updates, power losses and rollbacks
\* came before it: the release it replaces is there and whole
\* (ruuvi_gateway_main.c:563-573).
TrialFailureRollsBack ==
  phase = "failed" /\ write = NoWrite /\ Unconfirmed =>
    RollbackPossible /\ BackSlot # run /\ Whole(BackSlot)

\* A rollback that app_main finds possible leads to a whole release, also when a
\* confirmed release has failed (ruuvi_gateway_main.c:563-573).
RollbackFindsRelease ==
  phase = "failed" /\ write = NoWrite /\ RollbackPossible => Whole(BackSlot)

\* A whole release that starts up.
Sound(s) == Whole(s) /\ part[s].app \notin Bad

\* A confirmed release fails and is rolled back into a slot that does not start up.
RollsBackBlindly ==
  /\ phase = "failed" /\ write = NoWrite /\ ~Unconfirmed
  /\ RollbackPossible /\ ~Sound(BackSlot)

\* The gateway always comes back to its main loop, after every update, power loss,
\* aborted trial and failed start-up, unless a confirmed release was rolled back
\* into a slot that does not hold a release that starts up.
ComesUp == []<>(phase = "main") \/ <>RollsBackBlindly

\* The otadata as it would count if power were lost now: an image that is not
\* confirmed is given up.
Settled == [i \in Entries |-> IF ota[i].state \in {"NEW", "PENDING_VERIFY"} THEN Erased
                              ELSE ota[i]]

\* The release the gateway comes back to if power is lost now.
BaseRelease ==
  LET a == ActiveEntry(Settled)
      s == IF a = -1 THEN 0 ELSE SlotOf(ota[a])
      loaded == IF Verifies(s) THEN s ELSE 1 - s
  IN IF Sound(loaded) THEN part[loaded].app ELSE NoRelease

\* The release on trial: switched to, or started and not yet confirmed.
TrialRelease ==
  LET o == IF write = NoWrite THEN ota ELSE [ota EXCEPT ![write.i] = write.e]
      a == ActiveEntry(o)
      s == SlotOf(o[a])
  IN IF a # -1 /\ (o[a].state \in {"NEW", "PENDING_VERIFY"} \/ write.i = a) /\ Whole(s)
     THEN part[s].app ELSE NoRelease

\* A start-up of a confirmed release has failed.
BaseFailed == phase = "failed" /\ ~Unconfirmed

Install == INSTANCE FwInstall WITH None <- NoRelease, base <- BaseRelease,
                                   trial <- TrialRelease, failed <- BaseFailed

\* However updates, power losses, aborted trials and rollbacks follow each other,
\* the release to come back to is replaced only by one that was switched to,
\* started up and confirmed, or in a rollback after its own start-up has failed;
\* once such a rollback has lost it, nothing brings it back (FwInstall).
ImplementsInstall == Install!Spec
=============================================================================
