--------------------------- MODULE FwUpdateProofs ---------------------------
(* Proofs about FwUpdate, for every set of releases and of update tasks,   *)
(* and every number of updates, power losses and faults.                   *)
EXTENDS FwUpdate, TLAPS

-----------------------------------------------------------------------------
(* Types.                                                                  *)

Pcs == {"idle", "erase", "write", "chip", "chip_write", "switch", "set_flag", "restart",
        "invalidate", "restart_failed"}
TaskState == [pc : Pcs, stage : 1..3, rel : Releases \cup {NoRelease}, clobbered : BOOLEAN]
Write == [i : Entries, e : Entry]
Budget == [updates : 0..MaxUpdates, crashes : 0..MaxCrashes, faults : 0..MaxFaults]

\* The parts of the type that belong together.
OtaTypeOK == ota \in Otadata /\ (write = NoWrite \/ write \in Write)
RamTypeOK == /\ phase \in {"select", "load", "check", "chip", "chip_write", "init", "failed",
                           "ready", "mark", "main"}
             /\ boot \in Slots /\ run \in Slots /\ running_state \in States
             /\ url \in Releases \cup {NoRelease} /\ reason \in {"NONE", "MANUAL", "AUTO"}
             /\ task \in [Tasks -> TaskState]
PartTypeOK == part \in [Slots -> [Parts -> PartContents]]

\* The type invariant by its parts.
LEMMA TypeParts ==
  TypeOK <=> /\ OtaTypeOK /\ RamTypeOK /\ PartTypeOK
             /\ wl \subseteq Slots /\ chip \in PartContents /\ flag \in BOOLEAN
             /\ budget \in Budget
  BY DEF TypeOK, OtaTypeOK, RamTypeOK, PartTypeOK, TaskState, Pcs, Write, Budget

\* The same for the next state, the direction the steps need.
LEMMA TypePartsNext ==
  /\ OtaTypeOK' /\ RamTypeOK' /\ PartTypeOK'
  /\ wl' \subseteq Slots /\ chip' \in PartContents /\ flag' \in BOOLEAN
  /\ budget' \in Budget
  => TypeOK'
  BY DEF TypeOK, OtaTypeOK, RamTypeOK, PartTypeOK, TaskState, Pcs, Write, Budget

\* An erased otadata entry is an entry.
LEMMA ErasedEntry == Erased \in Entry
  BY DEF Erased, Entry, States

\* A task that is not running has its type.
LEMMA IdleTaskType == IdleTask \in TaskState
  BY DEF IdleTask, TaskState, Pcs

\* What a reset leaves in RAM.
LEMMA ResetRamType == ResetRam => RamTypeOK'
  BY IdleTaskType DEF ResetRam, RamTypeOK, Slots, States

\* Erasing and rewriting an entry.
LEMMA EraseEntryType ==
  ASSUME TypeOK, NEW i \in Entries, NEW e \in Entry, EraseEntry(i, e)
  PROVE  OtaTypeOK'
<1>1. ota' \in Otadata
  BY ErasedEntry DEF EraseEntry, TypeOK, Otadata
<1>2. write' \in Write
  BY DEF EraseEntry, Write
<1> QED
  BY <1>1, <1>2 DEF OtaTypeOK

\* Rewriting the state of an entry keeps the type of otadata.
LEMMA SetStateType ==
  ASSUME TypeOK, NEW i \in Entries, NEW st \in States, SetState(i, st)
  PROVE  OtaTypeOK'
<1>1. [ota[i] EXCEPT !.state = st] \in Entry
  BY DEF TypeOK, Otadata, Entry
<1> QED
  BY <1>1, EraseEntryType DEF SetState

\* Helpers of otadata.
LEMMA ActiveEntryType == \A o : ActiveEntry(o) \in Entries \cup {-1}
  BY DEF ActiveEntry, Entries

\* A written entry selects a slot.
LEMMA SlotOfType == \A e \in Entry : e.seq # 0 => SlotOf(e) \in Slots
  BY DEF SlotOf, Entry, Slots, NumSlots

\* The active entry is a valid one.
LEMMA ActiveIsValid == \A o : ActiveEntry(o) # -1 => IsValid(o[ActiveEntry(o)])
  BY DEF ActiveEntry

\* An erased entry selects no slot.
LEMMA NoSlotOfErased == \A e \in Entry : e.seq = 0 => SlotOf(e) = -1
  BY DEF SlotOf, Entry

\* A new sequence number is above the old one and belongs to the slot.
LEMMA NextSeqProperties ==
  ASSUME NEW seq \in Nat, NEW s \in Slots
  PROVE  /\ NextSeq(seq, s) \in Nat /\ NextSeq(seq, s) > seq
         /\ NextSeq(seq, s) # 0 /\ (NextSeq(seq, s) - 1) % NumSlots = s
<1>1. CASE s = 0
  <2>1. NextSeq(seq, s) = 1 + (IF seq < 1 THEN 0 ELSE (seq - 1 + 2) \div 2) * 2
    BY <1>1 DEF NextSeq, NumSlots
  <2> QED
    BY <1>1, <2>1 DEF NumSlots
<1>2. CASE s = 1
  <2>1. NextSeq(seq, s) = ((seq + 2) \div 2) * 2
    BY <1>2 DEF NextSeq, NumSlots
  <2> QED
    BY <1>2, <2>1 DEF NumSlots
<1> QED
  BY <1>1, <1>2 DEF Slots

\* The state recorded for a slot has its type.
LEMMA StateOfSlotType == TypeOK => \A s : StateOfSlot(ota, s) \in States
  BY DEF TypeOK, Otadata, Entry, Entries, StateOfSlot, States

\* The entry that switches to a slot has its type.
LEMMA BootEntryType ==
  ASSUME TypeOK
  PROVE  BootEntry(ota, run, Next_slot).i \in Entries /\ BootEntry(ota, run, Next_slot).e \in Entry
<1> DEFINE kept == PreservedEntry(ota, run)
<1>1. Next_slot \in Slots
  BY DEF TypeOK, Next_slot, Slots
<1>2. kept \in Entries \cup {-1}
  <2>1. EntryForSlot(ota, run) \in Entries \cup {-1}
    BY DEF EntryForSlot, Entries
  <2> QED
    BY <2>1, ActiveEntryType DEF PreservedEntry
<1> HIDE DEF kept
<1>3. CASE kept = -1
  <2>1. BootEntry(ota, run, Next_slot) = [i |-> 0, e |-> [seq |-> Next_slot + 1, state |-> NewState]]
    BY <1>3 DEF BootEntry, kept
  <2> QED
    BY <1>1, <2>1 DEF Entries, Entry, NewState, States, Slots
<1>4. CASE kept \in Entries
  <2>1. BootEntry(ota, run, Next_slot) =
          [i |-> 1 - kept, e |-> [seq |-> NextSeq(ota[kept].seq, Next_slot), state |-> NewState]]
    BY <1>4 DEF BootEntry, kept, Entries
  <2>2. ota[kept].seq \in Nat
    BY <1>4 DEF TypeOK, Otadata, Entry
  <2>3. NextSeq(ota[kept].seq, Next_slot) \in Nat
    BY <1>1, <2>2, NextSeqProperties
  <2> QED
    BY <1>4, <2>1, <2>3 DEF Entries, Entry, NewState, States
<1> QED
  BY <1>2, <1>3, <1>4

\* The factory state has its type.
LEMMA InitType == Init => TypeOK
<1> SUFFICES ASSUME Init PROVE TypeOK
  OBVIOUS
<1>1. OtaTypeOK
  BY ErasedEntry DEF Init, OtaTypeOK, Otadata
<1>2. PartTypeOK
  BY FwAssumption DEF Init, FwAssumption, PartTypeOK, PartContents, Parts
<1>3. RamTypeOK
  BY IdleTaskType DEF Init, RamTypeOK, Slots, States
<1>4. wl \subseteq Slots /\ chip \in PartContents /\ flag \in BOOLEAN
  BY DEF Init, PartContents
<1>5. budget \in Budget
  BY FwAssumption DEF Init, FwAssumption, Budget
<1> QED
  BY <1>1, <1>2, <1>3, <1>4, <1>5, TypeParts

\* A stage of the update writes a partition, and nrf52 is the last one.
LEMMA StageType == \A n \in 1..3 : Stage[n] \in Parts /\ (Stage[n] # "nrf52" => n + 1 \in 1..3)
  BY DEF Stage, Parts

\* A task that goes on keeps its type.
LEMMA SetPcType ==
  ASSUME RamTypeOK, NEW t \in Tasks, NEW pc \in Pcs, SetPc(t, pc)
  PROVE  task' \in [Tasks -> TaskState]
<1>1. [task[t] EXCEPT !.pc = pc] \in TaskState
  BY DEF RamTypeOK, TaskState
<1> QED
  BY <1>1 DEF SetPc, RamTypeOK

\* Writing a partition keeps the type of flash.
LEMMA PartUpdateType ==
  ASSUME PartTypeOK, NEW s \in Slots, NEW p \in Parts, NEW c \in PartContents,
         part' = [part EXCEPT ![s][p] = c]
  PROVE  PartTypeOK'
<1>1. [part[s] EXCEPT ![p] = c] \in [Parts -> PartContents]
  BY DEF PartTypeOK
<1> QED
  BY <1>1 DEF PartTypeOK

\* Marking the tasks whose partition was overwritten keeps their types.
LEMMA ClobberType ==
  ASSUME RamTypeOK, NEW t \in Tasks, NEW p
  PROVE  Clobber(t, p) \in [Tasks -> TaskState]
<1>1. \A u \in Tasks : [task[u] EXCEPT !.clobbered = TRUE] \in TaskState
  BY DEF RamTypeOK, TaskState
<1> QED
  BY <1>1 DEF Clobber, RamTypeOK

\* A request starts a task that is not running, or none.
LEMMA RunTaskStarts ==
  ASSUME NEW why, RunTask(why)
  PROVE  \/ UNCHANGED task
         \/ \E t \in Tasks : task[t].pc = "idle" /\ task' = [task EXCEPT ![t].pc = "erase"]
<1> DEFINE idle == {t \in Tasks : task[t].pc = "idle"}
<1>1. ASSUME idle # {} PROVE \E t \in idle : t = (CHOOSE u \in idle : TRUE)
  BY <1>1
<1> QED
  BY <1>1 DEF RunTask

\* A request keeps the types of the tasks and sets a reason.
LEMMA RunTaskType ==
  ASSUME RamTypeOK, NEW why \in {"MANUAL", "AUTO"}, RunTask(why)
  PROVE  task' \in [Tasks -> TaskState] /\ reason' \in {"NONE", "MANUAL", "AUTO"}
<1>1. UNCHANGED task \/ \E t \in Tasks : task' = [task EXCEPT ![t].pc = "erase"]
  BY RunTaskStarts
<1>2. \A t \in Tasks : [task[t] EXCEPT !.pc = "erase"] \in TaskState
  BY DEF RamTypeOK, TaskState, Pcs
<1>3. task' \in [Tasks -> TaskState]
  BY <1>1, <1>2 DEF RamTypeOK
<1> QED
  BY <1>3 DEF RunTask

\* Types, in steps of the bootloader and of a flash write.
LEMMA BootloaderType == TypeOK /\ (WriteEntry \/ Bootloader) => TypeOK'
<1> SUFFICES ASSUME TypeOK, WriteEntry \/ Bootloader PROVE TypeOK'
  OBVIOUS
<1> USE TypeParts, TypePartsNext
<1> USE DEF bootVars, reqVars
<1>1. CASE WriteEntry
  <2>1. OtaTypeOK'
    BY <1>1 DEF WriteEntry, OtaTypeOK, Otadata, Write
  <2> QED
    BY <1>1, <2>1 DEF WriteEntry, RamTypeOK, PartTypeOK
<1>2. CASE boot_abort_unconfirmed
  <2>1. OtaTypeOK'
    <3>1. PICK i \in Entries : SetState(i, "ABORTED")
      BY <1>2 DEF boot_abort_unconfirmed
    <3> QED
      BY <3>1, SetStateType DEF States
  <2> QED
    BY <1>2, <2>1 DEF boot_abort_unconfirmed, RamTypeOK, PartTypeOK
<1>3. CASE get_selected_boot_partition
  <2> DEFINE a == ActiveEntry(ota)
  <2>1. a \in Entries \/ a = -1
    BY ActiveEntryType
  <2>2. /\ boot' = SelectedSlot(a)
        /\ (a # -1 /\ SetState(a, "PENDING_VERIFY")) \/ UNCHANGED <<ota, write>>
    BY <1>3 DEF get_selected_boot_partition
  <2>3. OtaTypeOK'
    BY <2>1, <2>2, SetStateType DEF OtaTypeOK, States
  <2>4. SelectedSlot(a) \in Slots
    <3>1. a # -1 => ota[a] \in Entry /\ ota[a].seq # 0
      BY <2>1, ActiveIsValid DEF OtaTypeOK, Otadata, IsValid
    <3> QED
      BY <3>1, SlotOfType DEF SelectedSlot, Slots
  <2> HIDE DEF a
  <2> QED
    BY <1>3, <2>2, <2>3, <2>4 DEF get_selected_boot_partition, RamTypeOK, PartTypeOK
<1>4. CASE load_boot_image
  <2>1. PICK s \in Slots :
          /\ run' = s
          /\ EraseEntry(0, [seq |-> s + 1, state |-> "VALID"]) \/ UNCHANGED <<ota, write>>
    BY <1>4 DEF load_boot_image
  <2>2. 0 \in Entries /\ [seq |-> s + 1, state |-> "VALID"] \in Entry
    BY DEF Entries, Entry, States, Slots
  <2>3. OtaTypeOK'
    BY <2>1, <2>2, EraseEntryType DEF OtaTypeOK
  <2> QED
    BY <1>4, <2>1, <2>3 DEF load_boot_image, RamTypeOK, PartTypeOK
<1> QED
  BY <1>1, <1>2, <1>3, <1>4 DEF Bootloader

\* Confirming the running image keeps the type of otadata.
LEMMA MarkAppValidType ==
  ASSUME TypeOK, MarkAppValid
  PROVE  OtaTypeOK' /\ running_state' \in States
<1>1. ActiveEntry(ota) # -1 => ActiveEntry(ota) \in Entries
  BY ActiveEntryType
<1>2. "VALID" \in States
  BY DEF States
<1> QED
  BY <1>1, <1>2, SetStateType, TypeParts DEF MarkAppValid, OtaTypeOK, RamTypeOK

\* Types, in steps of start-up, power losses, accidents and confirmation.
LEMMA StartUpType == TypeOK /\ (StartUp \/ PowerLoss \/ Fault \/ upstream_reached) => TypeOK'
<1> SUFFICES ASSUME TypeOK, StartUp \/ PowerLoss \/ Fault \/ upstream_reached PROVE TypeOK'
  OBVIOUS
<1> USE TypeParts, TypePartsNext
<1> USE DEF bootVars, reqVars, flashVars
<1>1. CASE check_signatures
  <2>1. running_state' \in States /\ wl' \subseteq Slots
    BY <1>1, StateOfSlotType DEF check_signatures, Restored
  <2>2. phase' \in {"chip", "failed"}
    BY <1>1 DEF check_signatures
  <2> QED
    BY <1>1, <2>1, <2>2 DEF check_signatures, OtaTypeOK, RamTypeOK, PartTypeOK
<1>2. CASE check_nrf52_fw
  <2>1. wl' \subseteq Slots
    BY <1>2 DEF check_nrf52_fw, Mount, RamTypeOK
  <2>2. phase' \in {"init", "chip_write"} /\ chip' \in PartContents
    BY <1>2 DEF check_nrf52_fw, PartContents
  <2> QED
    BY <1>2, <2>1, <2>2 DEF check_nrf52_fw, OtaTypeOK, RamTypeOK, PartTypeOK
<1>3. CASE write_nrf52_fw
  <2>1. part[run].nrf52 \in PartContents
    BY DEF PartTypeOK, RamTypeOK, Parts
  <2> QED
    BY <1>3, <2>1 DEF write_nrf52_fw, OtaTypeOK, RamTypeOK, PartTypeOK
<1>4. CASE main_task_init
  BY <1>4 DEF main_task_init, OtaTypeOK, RamTypeOK, PartTypeOK
<1>5. CASE roll_back
  <2>1. RamTypeOK'
    BY <1>5, ResetRamType DEF roll_back
  <2>2. OtaTypeOK'
    <3>1. RollbackPossible => ActiveEntry(ota) \in Entries
      BY ActiveEntryType DEF RollbackPossible
    <3>2. "INVALID" \in States
      BY DEF States
    <3> QED
      BY <1>5, <3>1, <3>2, SetStateType DEF roll_back, OtaTypeOK
  <2> QED
    BY <1>5, <2>1, <2>2 DEF roll_back, PartTypeOK
<1>6. CASE app_main
  <2>1. phase' \in {"main", "mark"} /\ flag' \in BOOLEAN
    BY <1>6 DEF app_main
  <2> QED
    BY <1>6, <2>1 DEF app_main, OtaTypeOK, RamTypeOK, PartTypeOK
<1>7. CASE mark_app_valid
  <2>1. OtaTypeOK' /\ running_state' \in States
    BY <1>7, MarkAppValidType DEF mark_app_valid
  <2> QED
    BY <1>7, <2>1 DEF mark_app_valid, RamTypeOK, PartTypeOK
<1>8. CASE PowerLoss
  <2>1. RamTypeOK'
    BY <1>8, ResetRamType DEF PowerLoss
  <2>2. budget' \in Budget
    BY <1>8, FwAssumption DEF PowerLoss, FwAssumption, Budget
  <2> QED
    BY <1>8, <2>1, <2>2 DEF PowerLoss, OtaTypeOK, PartTypeOK
<1>9. CASE Fault
  <2>1. budget' \in Budget
    BY <1>9, FwAssumption DEF Fault, FwAssumption, Budget
  <2> QED
    BY <1>9, <2>1 DEF Fault, OtaTypeOK, RamTypeOK, PartTypeOK
<1>10. CASE upstream_reached
  <2>1. OtaTypeOK' /\ running_state' \in States
    BY <1>10, MarkAppValidType DEF upstream_reached
  <2> QED
    BY <1>10, <2>1 DEF upstream_reached, RamTypeOK, PartTypeOK
<1> QED
  BY <1>1, <1>2, <1>3, <1>4, <1>5, <1>6, <1>7, <1>8, <1>9, <1>10 DEF StartUp

\* Types, when an update is requested.
LEMMA RequestType ==
  ASSUME TypeOK, NEW r \in Releases, post_fw_update(r) \/ auto_update(r)
  PROVE  TypeOK'
<1> USE TypeParts, TypePartsNext
<1> USE DEF bootVars, flashVars
<1>1. task' \in [Tasks -> TaskState] /\ reason' \in {"NONE", "MANUAL", "AUTO"}
  BY RunTaskType DEF post_fw_update, auto_update, RamTypeOK
<1>2. budget' \in Budget
  BY FwAssumption DEF post_fw_update, auto_update, MayRequest, FwAssumption, Budget
<1> QED
  BY <1>1, <1>2 DEF post_fw_update, auto_update, OtaTypeOK, RamTypeOK, PartTypeOK

\* An instance of the task has a URL, and one that writes has the release it took.
UrlOK ==
  \A t \in Tasks : /\ task[t].pc # "idle" => url \in Releases
                   /\ task[t].pc = "write" => task[t].rel \in Releases

\* Types, in steps of the update tasks.
LEMMA UpdaterType ==
  ASSUME TypeOK, UrlOK, NEW t \in Tasks, Updater(t) \/ set_boot_partition_failed(t)
  PROVE  TypeOK'
<1> USE TypeParts, TypePartsNext
<1> USE DEF bootVars, reqVars, flashVars
<1> DEFINE p == Stage[task[t].stage]
<1>1. /\ task[t] \in TaskState /\ p \in Parts
      /\ p # "nrf52" => task[t].stage + 1 \in 1..3
  BY StageType DEF RamTypeOK, TaskState
<1>2. Next_slot \in Slots /\ InactiveSlot \in Slots
  BY DEF Next_slot, InactiveSlot, RamTypeOK, Slots
<1>3. {Blank, Broken} \subseteq PartContents
  BY DEF PartContents
<1> HIDE DEF p
<1>4. CASE erase_partition(t)
  <2>1. PartTypeOK'
    BY <1>1, <1>2, <1>3, <1>4, PartUpdateType DEF erase_partition, p, PartTypeOK
  <2>2. task' \in [Tasks -> TaskState]
    <3>1. CASE SetPc(t, "invalidate")
      BY <3>1, SetPcType DEF Pcs
    <3>2. CASE task' = [Clobber(t, p) EXCEPT ![t].pc = "write", ![t].rel = url,
                                             ![t].clobbered = FALSE]
      <4>1. Clobber(t, p) \in [Tasks -> TaskState]
        BY ClobberType
      <4>2. [Clobber(t, p)[t] EXCEPT !.pc = "write", !.rel = url, !.clobbered = FALSE]
              \in TaskState
        BY <4>1 DEF TaskState, RamTypeOK, Pcs
      <4> QED
        BY <3>2, <4>1, <4>2
    <3> QED
      BY <1>4, <3>1, <3>2 DEF erase_partition, p
  <2> QED
    BY <1>4, <2>1, <2>2 DEF erase_partition, OtaTypeOK, RamTypeOK
<1>5. CASE write_partition(t)
  <2>1. PICK c \in Written(t) :
          /\ part' = [part EXCEPT ![Next_slot][p] = c]
          /\ \/ /\ p = "app" => c \in Releases
                /\ task' = [task EXCEPT ![t].stage = IF p = "nrf52" THEN 1 ELSE @ + 1,
                                        ![t].pc = IF p = "nrf52" THEN "chip" ELSE "erase",
                                        ![t].rel = NoRelease, ![t].clobbered = FALSE]
             \/ /\ c = Broken
                /\ task' = [task EXCEPT ![t] = [IdleTask EXCEPT !.pc = "invalidate"]]
    BY <1>5 DEF write_partition, p
  <2>2. c \in PartContents
    <3>1. task[t].rel \in Releases
      BY <1>5 DEF write_partition, At, UrlOK
    <3>2. c \in {task[t].rel, Broken}
      BY <2>1 DEF Written
    <3> QED
      BY <3>1, <3>2 DEF PartContents
  <2>3. PartTypeOK'
    BY <1>1, <1>2, <2>1, <2>2, PartUpdateType
  <2>4. task' \in [Tasks -> TaskState]
    <3> DEFINE stage == IF p = "nrf52" THEN 1 ELSE task[t].stage + 1
               pc == IF p = "nrf52" THEN "chip" ELSE "erase"
               done == [task[t] EXCEPT !.stage = stage, !.pc = pc, !.rel = NoRelease,
                                       !.clobbered = FALSE]
               failed == [IdleTask EXCEPT !.pc = "invalidate"]
    <3>1. failed \in TaskState
      BY IdleTaskType DEF TaskState, Pcs
    <3>2. task' = [task EXCEPT ![t] = done] \/ task' = [task EXCEPT ![t] = failed]
      BY <2>1
    <3>3. stage \in 1..3 /\ pc \in Pcs
      BY <1>1 DEF Pcs
    <3> HIDE DEF stage, pc, failed
    <3>4. done \in TaskState
      BY <1>1, <3>3 DEF TaskState
    <3> HIDE DEF done
    <3> QED
      BY <3>1, <3>2, <3>4 DEF RamTypeOK
  <2>5. wl' \subseteq Slots
    BY <1>5 DEF write_partition
  <2> QED
    BY <1>5, <2>3, <2>4, <2>5 DEF write_partition, OtaTypeOK, RamTypeOK
<1>6. CASE update_nrf52_check(t)
  <2>1. task' \in [Tasks -> TaskState]
    BY <1>6, SetPcType DEF update_nrf52_check, Pcs
  <2>2. wl' \subseteq Slots /\ chip' \in PartContents
    BY <1>2, <1>3, <1>6 DEF update_nrf52_check, Mount
  <2> QED
    BY <1>6, <2>1, <2>2 DEF update_nrf52_check, OtaTypeOK, RamTypeOK, PartTypeOK
<1>7. CASE update_nrf52_write(t)
  <2>1. task' \in [Tasks -> TaskState]
    BY <1>7, SetPcType DEF update_nrf52_write, Pcs
  <2>2. chip' \in PartContents
    BY <1>7 DEF update_nrf52_write, PartContents
  <2> QED
    BY <1>7, <2>1, <2>2 DEF update_nrf52_write, OtaTypeOK, RamTypeOK, PartTypeOK
<1>8. CASE set_boot_partition(t)
  <2>1. task' \in [Tasks -> TaskState]
    BY <1>8, SetPcType DEF set_boot_partition, Pcs
  <2>2. OtaTypeOK'
    BY <1>8, BootEntryType, EraseEntryType DEF set_boot_partition, OtaTypeOK
  <2> QED
    BY <1>8, <2>1, <2>2 DEF set_boot_partition, RamTypeOK, PartTypeOK
<1>9. CASE set_flag(t)
  <2>1. task' \in [Tasks -> TaskState]
    BY <1>9, SetPcType DEF set_flag, Pcs
  <2>2. flag' \in BOOLEAN
    BY <1>9 DEF set_flag
  <2> QED
    BY <1>9, <2>1, <2>2 DEF set_flag, OtaTypeOK, RamTypeOK, PartTypeOK
<1>10. CASE invalidate_next(t)
  <2> DEFINE next == IF p = "nrf52" THEN [IdleTask EXCEPT !.pc = "restart_failed"]
                     ELSE [task[t] EXCEPT !.stage = @ + 1]
  <2>1. next \in TaskState
    BY <1>1, IdleTaskType DEF TaskState, Pcs
  <2>2. /\ \/ UNCHANGED part /\ task' = [task EXCEPT ![t] = next] /\ UNCHANGED reason
           \/ /\ part' = [part EXCEPT ![Next_slot][p] = Blank]
              /\ task' = [Clobber(t, p) EXCEPT ![t] = next]
              /\ reason' \in {"NONE", reason}
    BY <1>10 DEF invalidate_next, p
  <2> HIDE DEF next
  <2>3. task' \in [Tasks -> TaskState]
    BY <2>1, <2>2, ClobberType DEF RamTypeOK
  <2>4. PartTypeOK'
    BY <1>1, <1>2, <1>3, <2>2, PartUpdateType DEF PartTypeOK
  <2> QED
    BY <1>10, <2>2, <2>3, <2>4 DEF invalidate_next, OtaTypeOK, RamTypeOK
<1>11. CASE restart(t)
  BY <1>11, ResetRamType DEF restart, OtaTypeOK, PartTypeOK
<1>12. CASE set_boot_partition_failed(t)
  <2>1. task' \in [Tasks -> TaskState]
    BY <1>12, SetPcType DEF set_boot_partition_failed, Pcs
  <2> QED
    BY <1>12, <2>1 DEF set_boot_partition_failed, OtaTypeOK, RamTypeOK, PartTypeOK
<1> QED
  BY <1>4, <1>5, <1>6, <1>7, <1>8, <1>9, <1>10, <1>11, <1>12 DEF Updater

\* Types, in every step.
LEMMA StepType == TypeOK /\ UrlOK /\ [Next]_vars => TypeOK'
<1>1. TypeOK /\ UNCHANGED vars => TypeOK'
  BY DEF TypeOK, vars
<1> QED
  BY <1>1, BootloaderType, StartUpType, RequestType, UpdaterType DEF Next

\* Changing one instance so that it does not write keeps the others' releases.
LEMMA SetPcUrl ==
  ASSUME TypeOK, UrlOK, NEW t \in Tasks, task[t].pc # "idle", NEW new, new.pc # "write",
         task' = [task EXCEPT ![t] = new], UNCHANGED url
  PROVE  UrlOK'
  BY DEF TypeOK, UrlOK

\* The same when t has erased a partition that others write.
LEMMA ClobberUrl ==
  ASSUME TypeOK, UrlOK, NEW t \in Tasks, task[t].pc # "idle", NEW p, NEW new,
         new.pc = "write" => new.rel \in Releases,
         task' = [Clobber(t, p) EXCEPT ![t] = new], UNCHANGED url
  PROVE  UrlOK'
<1>1. \A u \in Tasks : Clobber(t, p)[u].pc = task[u].pc /\ Clobber(t, p)[u].rel = task[u].rel
  BY DEF Clobber, TypeOK
<1>2. DOMAIN Clobber(t, p) = Tasks
  BY DEF Clobber
<1> QED
  BY <1>1, <1>2 DEF UrlOK

\* An update task that runs has a release to download.
LEMMA UpdaterUrl ==
  ASSUME TypeOK, UrlOK, NEW t \in Tasks, Updater(t) \/ set_boot_partition_failed(t)
  PROVE  UrlOK'
<1> USE DEF reqVars, bootVars, flashVars
<1>0. ResetRam => UrlOK'
  BY DEF ResetRam, IdleTask, UrlOK
<1>1. ASSUME NEW pc, pc # "write", task[t].pc # "idle", SetPc(t, pc), UNCHANGED url
      PROVE  UrlOK'
  <2>1. [task[t] EXCEPT !.pc = pc].pc # "write" /\ task' = [task EXCEPT ![t] = [task[t] EXCEPT !.pc = pc]]
    BY <1>1 DEF SetPc, TypeOK
  <2> QED
    BY <1>1, <2>1, SetPcUrl
<1>2. CASE erase_partition(t)
  <2> DEFINE p == Stage[task[t].stage]
             new == [Clobber(t, p)[t] EXCEPT !.pc = "write", !.rel = url, !.clobbered = FALSE]
  <2>1. task[t].pc # "idle" /\ url \in Releases /\ UNCHANGED url
    BY <1>2 DEF erase_partition, At, UrlOK
  <2>2. CASE SetPc(t, "invalidate")
    BY <1>1, <2>1, <2>2
  <2>3. CASE task' = [Clobber(t, p) EXCEPT ![t].pc = "write", ![t].rel = url,
                                           ![t].clobbered = FALSE]
    <3>1. new.rel \in Releases
      BY <2>1 DEF Clobber, TypeOK
    <3>2. task' = [Clobber(t, p) EXCEPT ![t] = new]
      BY <2>3 DEF Clobber
    <3> QED
      BY <2>1, <3>1, <3>2, ClobberUrl
  <2> QED
    BY <1>2, <2>2, <2>3 DEF erase_partition
<1>3. CASE write_partition(t)
  <2>1. task[t].pc # "idle" /\ UNCHANGED url
    BY <1>3 DEF write_partition, At
  <2>2. \E new : new.pc # "write" /\ task' = [task EXCEPT ![t] = new]
    <3> DEFINE p == Stage[task[t].stage]
               done == [task[t] EXCEPT !.stage = IF p = "nrf52" THEN 1 ELSE @ + 1,
                                       !.pc = IF p = "nrf52" THEN "chip" ELSE "erase",
                                       !.rel = NoRelease, !.clobbered = FALSE]
               failed == [IdleTask EXCEPT !.pc = "invalidate"]
    <3>1. failed.pc # "write" /\ done.pc # "write"
      BY DEF IdleTask, TypeOK
    <3>2. task' = [task EXCEPT ![t] = done] \/ task' = [task EXCEPT ![t] = failed]
      BY <1>3 DEF write_partition, TypeOK
    <3> QED
      BY <3>1, <3>2
  <2> QED
    BY <2>1, <2>2, SetPcUrl
<1>4. CASE update_nrf52_check(t) \/ update_nrf52_write(t)
  BY <1>1, <1>4 DEF update_nrf52_check, update_nrf52_write, At
<1>5. CASE set_boot_partition(t) \/ set_flag(t) \/ set_boot_partition_failed(t)
  BY <1>1, <1>5 DEF set_boot_partition, set_flag, set_boot_partition_failed, At
<1>6. CASE invalidate_next(t)
  <2> DEFINE p == Stage[task[t].stage]
             next == IF p = "nrf52" THEN [IdleTask EXCEPT !.pc = "restart_failed"]
                     ELSE [task[t] EXCEPT !.stage = @ + 1]
  <2>1. task[t].pc = "invalidate" /\ UNCHANGED url
    BY <1>6 DEF invalidate_next, At
  <2>2. next.pc # "write"
    BY <2>1 DEF IdleTask, TypeOK
  <2>3. task' = [task EXCEPT ![t] = next] \/ task' = [Clobber(t, p) EXCEPT ![t] = next]
    BY <1>6 DEF invalidate_next
  <2> HIDE DEF p, next
  <2> QED
    BY <2>1, <2>2, <2>3, SetPcUrl, ClobberUrl
<1>7. CASE restart(t)
  BY <1>0, <1>7 DEF restart
<1> QED
  BY <1>2, <1>3, <1>4, <1>5, <1>6, <1>7 DEF Updater

\* The same in every step.
LEMMA StepUrl == TypeOK /\ UrlOK /\ [Next]_vars => UrlOK'
<1> SUFFICES ASSUME TypeOK, UrlOK, [Next]_vars PROVE UrlOK'
  OBVIOUS
<1> USE DEF reqVars, bootVars, flashVars
<1>0. ResetRam => UrlOK'
  BY DEF ResetRam, IdleTask, UrlOK
<1>1. UNCHANGED <<url, task>> => UrlOK'
  BY DEF UrlOK
<1>2. CASE WriteEntry \/ Bootloader
  BY <1>1, <1>2 DEF WriteEntry, Bootloader, boot_abort_unconfirmed, get_selected_boot_partition,
                    load_boot_image
<1>3. CASE StartUp
  BY <1>0, <1>1, <1>3 DEF StartUp, check_signatures, check_nrf52_fw, write_nrf52_fw,
       main_task_init, roll_back, app_main, mark_app_valid
<1>4. CASE PowerLoss \/ Fault \/ upstream_reached
  BY <1>0, <1>1, <1>4 DEF PowerLoss, Fault, upstream_reached
<1>5. ASSUME NEW r \in Releases, post_fw_update(r) \/ auto_update(r) PROVE UrlOK'
  <2>1. url' \in Releases
    BY <1>5 DEF post_fw_update, auto_update
  <2>2. \A t \in Tasks : task'[t].pc = "write" => task'[t] = task[t]
    <3>1. \/ UNCHANGED task
          \/ \E t \in Tasks : task' = [task EXCEPT ![t].pc = "erase"]
      BY <1>5, RunTaskStarts DEF post_fw_update, auto_update
    <3> QED
      BY <3>1 DEF TypeOK
  <2> QED
    BY <2>1, <2>2 DEF UrlOK
<1>6. CASE UNCHANGED vars
  BY <1>1, <1>6 DEF vars
<1> QED
  BY <1>2, <1>3, <1>4, <1>5, <1>6, UpdaterUrl DEF Next

\* Every variable keeps its type; in particular nothing but a file of a release or
\* damage is ever written into a partition.
THEOREM TypeCorrect == Spec => []TypeOK
<1>1. Init => UrlOK
  BY DEF Init, IdleTask, UrlOK
<1> QED
  BY <1>1, InitType, StepType, StepUrl, PTL DEF Spec

-----------------------------------------------------------------------------
(* Start-up.                                                               *)

Idle == \A t \in Tasks : task[t].pc = "idle"

\* Phases in which the running slot is known, in which its signatures have been
\* checked, and in which it has started up.
Up == {"check", "chip", "chip_write", "init", "failed", "ready", "mark", "main"}
Checked == {"chip", "chip_write", "init", "ready", "mark", "main"}
Started == {"ready", "mark", "main"}

\* What the phases of start-up have established: a checked slot is whole, a
\* started release is not a bad one, the chip has been brought to the slot's
\* firmware and only an update task, which ends in a restart, changes it again.
PhaseInv ==
  /\ phase # "main" => Idle
  /\ phase \in Checked => Whole(run)
  /\ phase \in Started => part[run].app \notin Bad
  /\ phase \in {"init", "ready", "mark"} \/ (phase = "main" /\ Idle) => chip = part[run].nrf52

\* A restart establishes the invariant of the phases.
LEMMA ResetRamPhase == ResetRam => PhaseInv' /\ Idle' /\ phase' = "select"
  BY DEF ResetRam, PhaseInv, Idle, IdleTask, Checked, Started

\* An update task that does not restart the gateway stays an active one and
\* leaves the running slot alone.
LEMMA UpdaterKeepsSlot ==
  ASSUME TypeOK, NEW t \in Tasks, Updater(t) \/ set_boot_partition_failed(t), ~restart(t)
  PROVE  /\ task[t].pc # "idle" /\ task'[t].pc # "idle"
         /\ part'[run] = part[run] /\ UNCHANGED <<phase, boot, run, running_state>>
<1> USE DEF bootVars, reqVars, flashVars
<1> DEFINE p == Stage[task[t].stage]
<1>0. /\ run \in Slots /\ Next_slot # run /\ part \in [Slots -> [Parts -> PartContents]]
      /\ task \in [Tasks -> TaskState]
  BY TypeParts DEF TypeOK, Next_slot, Slots, RamTypeOK
<1>1. ASSUME NEW c, part' = [part EXCEPT ![Next_slot][p] = c] PROVE part'[run] = part[run]
  BY <1>0, <1>1
<1>2. ASSUME NEW pc, pc # "idle", SetPc(t, pc) PROVE task'[t].pc # "idle"
  BY <1>0, <1>2 DEF SetPc, TaskState
<1>3. DOMAIN Clobber(t, p) = Tasks /\ Clobber(t, p)[t] = task[t]
  BY DEF Clobber
<1> HIDE DEF p
<1>4. CASE erase_partition(t)
  <2>1. task'[t].pc # "idle"
    BY <1>0, <1>2, <1>3, <1>4 DEF erase_partition, p, TaskState
  <2> QED
    BY <1>1, <1>4, <2>1 DEF erase_partition, At, p
<1>5. CASE write_partition(t)
  <2>1. task'[t].pc # "idle"
    BY <1>0, <1>5 DEF write_partition, p, IdleTask, TaskState
  <2> QED
    BY <1>1, <1>5, <2>1 DEF write_partition, At, p
<1>6. CASE update_nrf52_check(t) \/ update_nrf52_write(t)
  BY <1>2, <1>6 DEF update_nrf52_check, update_nrf52_write, At
<1>7. CASE set_boot_partition(t) \/ set_flag(t) \/ set_boot_partition_failed(t)
  BY <1>2, <1>7 DEF set_boot_partition, set_flag, set_boot_partition_failed, At
<1>8. CASE invalidate_next(t)
  <2> DEFINE next == IF p = "nrf52" THEN [IdleTask EXCEPT !.pc = "restart_failed"]
                     ELSE [task[t] EXCEPT !.stage = @ + 1]
  <2>1. next.pc # "idle"
    BY <1>0, <1>8 DEF invalidate_next, At, IdleTask, TaskState
  <2>2. task' = [task EXCEPT ![t] = next] \/ task' = [Clobber(t, p) EXCEPT ![t] = next]
    BY <1>8 DEF invalidate_next, p
  <2> HIDE DEF next
  <2>3. task'[t].pc # "idle"
    BY <1>0, <1>3, <2>1, <2>2
  <2> QED
    BY <1>1, <1>8, <2>3 DEF invalidate_next, At, p
<1> QED
  BY <1>4, <1>5, <1>6, <1>7, <1>8 DEF Updater

\* Every step keeps the invariant of the phases.
LEMMA StepPhase == TypeOK /\ PhaseInv /\ [Next]_vars => PhaseInv'
<1> SUFFICES ASSUME TypeOK, PhaseInv, [Next]_vars PROVE PhaseInv'
  OBVIOUS
<1> USE DEF bootVars, reqVars, flashVars, Checked, Started
<1>1. CASE WriteEntry \/ boot_abort_unconfirmed \/ upstream_reached
  BY <1>1 DEF WriteEntry, boot_abort_unconfirmed, upstream_reached, PhaseInv, Idle, Whole
<1>2. CASE get_selected_boot_partition \/ load_boot_image
  BY <1>2 DEF get_selected_boot_partition, load_boot_image, PhaseInv, Idle
<1>3. CASE check_signatures
  <2>1. phase' = "chip" => Whole(run)
    BY <1>3 DEF check_signatures, SignatureOk, Whole, Parts
  <2>2. phase' \in {"chip", "failed"}
    BY <1>3 DEF check_signatures
  <2> QED
    BY <1>3, <2>1, <2>2 DEF check_signatures, PhaseInv, Idle, Whole
<1>4. CASE check_nrf52_fw
  BY <1>4 DEF check_nrf52_fw, ChipIsUpToDate, PhaseInv, Idle, Whole
<1>5. CASE write_nrf52_fw
  BY <1>5 DEF write_nrf52_fw, PhaseInv, Idle, Whole
<1>6. CASE main_task_init
  BY <1>6 DEF main_task_init, PhaseInv, Idle, Whole
<1>7. CASE app_main
  BY <1>7 DEF app_main, PhaseInv, Idle, Whole
<1>8. CASE mark_app_valid
  BY <1>8 DEF mark_app_valid, PhaseInv, Idle, Whole
<1>9. CASE Fault
  BY <1>9 DEF Fault, PhaseInv, Idle
<1>10. CASE roll_back \/ PowerLoss \/ \E t \in Tasks : restart(t)
  BY <1>10, ResetRamPhase DEF roll_back, PowerLoss, restart
<1>11. ASSUME NEW r \in Releases, post_fw_update(r) \/ auto_update(r) PROVE PhaseInv'
  <2>1. phase = "main" /\ UNCHANGED <<phase, part, chip, run>>
    BY <1>11 DEF post_fw_update, auto_update, MayRequest
  <2>2. Idle' => Idle
    <3>1. \/ UNCHANGED task
          \/ \E t \in Tasks : task' = [task EXCEPT ![t].pc = "erase"]
      BY <1>11, RunTaskStarts DEF post_fw_update, auto_update
    <3> QED
      BY <3>1 DEF Idle, TypeOK
  <2> QED
    BY <2>1, <2>2 DEF PhaseInv, Whole
<1>12. ASSUME NEW t \in Tasks, Updater(t) \/ set_boot_partition_failed(t), ~restart(t)
       PROVE  PhaseInv'
  <2>1. /\ ~Idle /\ ~Idle' /\ part'[run] = part[run] /\ UNCHANGED <<phase, run>>
    BY <1>12, UpdaterKeepsSlot DEF Idle
  <2> QED
    BY <2>1 DEF PhaseInv, Whole
<1>13. CASE UNCHANGED vars
  BY <1>13 DEF vars, PhaseInv, Idle, Whole
<1> QED
  BY <1>1, <1>2, <1>3, <1>4, <1>5, <1>6, <1>7, <1>8, <1>9, <1>10, <1>11, <1>12, <1>13
  DEF Next, Bootloader, StartUp

\* The factory state satisfies it.
LEMMA InitPhase == Init => PhaseInv
  BY DEF Init, PhaseInv, Idle, IdleTask, Checked, Started

\* Every way through the bootloader, the checks of main_task_init and the main
\* loop, with updates and power losses in between, establishes what PhaseInv says
\* of the phase reached (ruuvi_gateway_main.c, fw_update.c).
THEOREM PhaseInvariant == Spec => []PhaseInv
  BY InitPhase, StepPhase, TypeCorrect, PTL DEF Spec

\* While the main loop runs, and whatever updates are under way, the three
\* partitions of the running slot are those of one release.
THEOREM RunningSlotIsWhole == Spec => []MainLoopIsWhole
<1>1. PhaseInv => MainLoopIsWhole
  BY DEF PhaseInv, MainLoopIsWhole, Checked
<1> QED
  BY <1>1, PhaseInvariant, PTL

\* While no update is under way the nRF52 holds the firmware of the running
\* release.
THEOREM ChipHasItsFirmware == Spec => []ChipMatches
<1>1. PhaseInv => ChipMatches
  BY DEF PhaseInv, ChipMatches, Idle
<1> QED
  BY <1>1, PhaseInvariant, PTL

-----------------------------------------------------------------------------
(* The base: the confirmed release that every restart can come back to.    *)

\* States of an image that is on trial.
Live == {"NEW", "PENDING_VERIFY"}

\* The slot of the base, when entry b describes it.
BaseSlot(b) == SlotOf(ota[b])

\* Entry b is confirmed; the other one belongs to the other slot, and it counts
\* for more only while its image is on trial.
OtaOK(b) ==
  /\ ota[b].state = "VALID" /\ ota[b].seq # 0
  /\ \/ ota[1 - b] = Erased
     \/ /\ ota[1 - b].seq # 0 /\ SlotOf(ota[1 - b]) = 1 - BaseSlot(b)
        /\ \/ ota[1 - b].state \in {"INVALID", "ABORTED"}
           \/ ota[1 - b].state = "VALID" /\ ota[1 - b].seq < ota[b].seq
           \/ ota[1 - b].state \in Live /\ ota[1 - b].seq > ota[b].seq

\* Only the other entry is ever rewritten: given up, put on trial by the
\* bootloader or by an update, or confirmed.
WriteOK(b) ==
  /\ write.i = 1 - b /\ ota[1 - b] = Erased
  /\ write.e.seq # 0 /\ SlotOf(write.e) = 1 - BaseSlot(b)
  /\ \/ phase = "select" /\ write.e.state \in {"INVALID", "ABORTED"}
     \/ /\ write.e.seq > ota[b].seq
        /\ \/ phase = "load" /\ write.e.state = "PENDING_VERIFY" /\ boot = 1 - BaseSlot(b)
           \/ phase = "main" /\ write.e.state = "NEW" /\ run = BaseSlot(b)
           \/ phase = "main" /\ write.e.state = "VALID" /\ run = 1 - BaseSlot(b)

\* What the bootloader has selected: the base, or the image on trial.
LoadOK(b) ==
  phase = "load" =>
    \/ boot = BaseSlot(b) /\ write = NoWrite /\ ota[1 - b].state \notin Live
    \/ boot = 1 - BaseSlot(b) /\ (write = NoWrite => ota[1 - b].state = "PENDING_VERIFY")

\* What runs: the base, whose start-up fails only by accident, or the image on
\* trial.
RunOK(b) ==
  phase \in Up =>
    \/ /\ run = BaseSlot(b)
       /\ phase \notin {"check", "failed"} => running_state # "PENDING_VERIFY"
    \/ /\ run = 1 - BaseSlot(b) /\ Idle
       /\ write = NoWrite => /\ ota[1 - b].state = "PENDING_VERIFY"
                             /\ phase \in Checked => running_state = "PENDING_VERIFY"
       /\ write # NoWrite => running_state = "VALID"

Based(b) == /\ OtaOK(b) /\ Sound(BaseSlot(b)) /\ (write = NoWrite \/ WriteOK(b))
            /\ LoadOK(b) /\ RunOK(b)

\* The first start-up of a gateway as delivered, until its entry is written.
Fresh ==
  /\ \A i \in Entries : ota[i] = Erased
  /\ Sound(0)
  /\ phase \in {"select", "load", "check"}
  /\ phase = "load" => boot = 0
  /\ phase = "check" => run = 0
  /\ write = IF phase = "check" THEN [i |-> 0, e |-> [seq |-> 1, state |-> "VALID"]]
             ELSE NoWrite

\* After a rollback of the base into a slot that does not start up: entry b is the
\* only one that counts, and the bootloader finds an image there every time.
Lost(b) ==
  /\ ota[b].state = "VALID" /\ ota[b].seq # 0
  /\ ota[1 - b] = Erased \/ ota[1 - b].state = "INVALID"
  /\ Verifies(BaseSlot(b)) /\ ~Sound(BaseSlot(b))
  /\ \/ write = NoWrite
     \/ phase = "select" /\ write.i = 1 - b /\ write.e.state = "INVALID"
  /\ phase \notin Started
  /\ phase = "load" => boot = BaseSlot(b)
  /\ phase \in Up => run = BaseSlot(b)

HasBase == Fresh \/ \E b \in Entries : Based(b)

BaseInv == HasBase \/ \E b \in Entries : Lost(b)

\* There are two entries and two slots: 1 - b is the other one.
LEMMA Others == \A b \in Entries : 1 - b \in Entries /\ 1 - (1 - b) = b /\ 1 - b # b
  BY DEF Entries

\* A pending flash write differs from none.
LEMMA NoWriteIsNone == NoWrite \notin Write /\ \A i \in Entries : \A e : [i |-> i, e |-> e] # NoWrite
  BY DEF NoWrite, Write, Entries

\* The two entries and the two slots around the base have their types.
LEMMA OtaEntries ==
  ASSUME TypeOK, NEW b \in Entries, OtaOK(b)
  PROVE  /\ ota[b] \in Entry /\ ota[1 - b] \in Entry /\ BaseSlot(b) \in Slots
         /\ 1 - BaseSlot(b) \in Slots /\ BaseSlot(b) # 1 - BaseSlot(b)
<1>1. ota[b] \in Entry /\ ota[1 - b] \in Entry
  BY Others DEF TypeOK, Otadata
<1>2. BaseSlot(b) \in Slots
  BY <1>1, SlotOfType DEF OtaOK, BaseSlot
<1> QED
  BY <1>1, <1>2 DEF Slots

\* The entry that counts: the one on trial, otherwise the base's.
LEMMA ActiveOfBase ==
  ASSUME TypeOK, NEW b \in Entries, OtaOK(b)
  PROVE  ActiveEntry(ota) = IF ota[1 - b].state \in Live THEN 1 - b ELSE b
<1>1. ota[b] \in Entry /\ ota[1 - b] \in Entry
  BY OtaEntries
<1>2. IsValid(ota[b])
  BY DEF OtaOK, IsValid
<1>3. CASE ota[1 - b].state \in Live
  <2>1. IsValid(ota[1 - b]) /\ ota[1 - b].seq > ota[b].seq
    BY <1>3 DEF OtaOK, IsValid, Live, Erased
  <2> QED
    BY <1>1, <1>2, <1>3, <2>1 DEF ActiveEntry, Entries, Entry
<1>4. CASE ota[1 - b].state \notin Live
  <2>1. ~IsValid(ota[1 - b]) \/ ota[1 - b].seq < ota[b].seq
    BY <1>4 DEF OtaOK, IsValid, Live, Erased
  <2> QED
    BY <1>1, <1>2, <1>4, <2>1 DEF ActiveEntry, Entries, Entry
<1> QED
  BY <1>3, <1>4

\* The states that the two slots are found in.
LEMMA StatesOfBase ==
  ASSUME TypeOK, NEW b \in Entries, OtaOK(b)
  PROVE  /\ StateOfSlot(ota, BaseSlot(b)) = "VALID"
         /\ ota[1 - b].state \in Live =>
              StateOfSlot(ota, 1 - BaseSlot(b)) = ota[1 - b].state
<1>1. /\ BaseSlot(b) \in Slots /\ SlotOf(ota[1 - b]) # BaseSlot(b)
      /\ ota[1 - b].state \in Live => SlotOf(ota[1 - b]) = 1 - BaseSlot(b)
  <2>1. SlotOf(Erased) = -1 /\ Erased.state \notin Live
    BY DEF SlotOf, Erased, Live
  <2> QED
    BY <2>1, OtaEntries DEF OtaOK, Slots
<1>2. SlotOf(ota[b]) = BaseSlot(b) /\ ota[b].state = "VALID"
  BY DEF BaseSlot, OtaOK
<1> HIDE DEF BaseSlot
<1>3. CASE b = 0
  BY <1>1, <1>2, <1>3 DEF StateOfSlot, Slots
<1>4. CASE b = 1
  BY <1>1, <1>2, <1>4 DEF StateOfSlot, Slots
<1> QED
  BY <1>3, <1>4 DEF Entries

\* Steps that leave the otadata and the base's slot alone.
LEMMA BaseKept ==
  ASSUME TypeOK, NEW b \in Entries, Based(b), UNCHANGED ota,
         part'[BaseSlot(b)] = part[BaseSlot(b)]
  PROVE  OtaOK(b)' /\ Sound(BaseSlot(b))' /\ BaseSlot(b)' = BaseSlot(b)
<1>1. BaseSlot(b)' = BaseSlot(b)
  BY DEF BaseSlot
<1>2. OtaOK(b)'
  BY <1>1 DEF Based, OtaOK
<1>3. Sound(BaseSlot(b))'
  BY <1>1 DEF Based, Sound, Whole
<1> QED
  BY <1>1, <1>2, <1>3

\* Steps that begin to rewrite the other entry.
LEMMA OtherErased ==
  ASSUME TypeOK, NEW b \in Entries, Based(b), NEW e, EraseEntry(1 - b, e), UNCHANGED part
  PROVE  /\ OtaOK(b)' /\ Sound(BaseSlot(b))' /\ BaseSlot(b)' = BaseSlot(b)
         /\ ota'[b] = ota[b] /\ ota'[1 - b] = Erased
         /\ write'.i = 1 - b /\ write'.e = e /\ write' # NoWrite
<1>1. ota'[b] = ota[b] /\ ota'[1 - b] = Erased
  BY Others DEF EraseEntry, TypeOK, Otadata
<1>2. BaseSlot(b)' = BaseSlot(b)
  BY <1>1 DEF BaseSlot
<1>3. OtaOK(b)'
  BY <1>1 DEF Based, OtaOK
<1>4. Sound(BaseSlot(b))'
  BY <1>2 DEF Based, Sound, Whole
<1>5. write'.i = 1 - b /\ write'.e = e /\ write' # NoWrite
  BY Others, NoWriteIsNone DEF EraseEntry
<1> QED
  BY <1>1, <1>2, <1>3, <1>4, <1>5

\* Entry b stays the base's, and its slot stays what it is.
Keeps(b) == /\ Based(b)' /\ BaseSlot(b)' = BaseSlot(b)
            /\ part'[BaseSlot(b)] = part[BaseSlot(b)]

\* A reset, whatever was being written.
LEMMA ResetKeeps ==
  ASSUME TypeOK, NEW b \in Entries, Based(b), ResetRam, UNCHANGED <<ota, part>>,
         write' = NoWrite
  PROVE  Keeps(b)
<1>1. OtaOK(b)' /\ Sound(BaseSlot(b))' /\ BaseSlot(b)' = BaseSlot(b)
  BY BaseKept
<1>2. LoadOK(b)' /\ RunOK(b)'
  BY DEF ResetRam, LoadOK, RunOK, Up
<1> QED
  BY <1>1, <1>2 DEF Based, Keeps

\* The write of an entry that does not confirm an image.
LEMMA WriteKeeps ==
  ASSUME TypeOK, NEW b \in Entries, Based(b), WriteEntry, write.e.state # "VALID"
  PROVE  Keeps(b)
<1> USE DEF bootVars
<1>1. WriteOK(b) /\ write' = NoWrite /\ UNCHANGED <<part, phase, boot, run, running_state, task>>
  BY DEF WriteEntry, Based
<1>2. ota'[b] = ota[b] /\ ota'[1 - b] = write.e
  BY <1>1, Others DEF WriteEntry, WriteOK, TypeOK, Otadata
<1>3. BaseSlot(b)' = BaseSlot(b) /\ Sound(BaseSlot(b))'
  <2>1. BaseSlot(b)' = BaseSlot(b)
    BY <1>2 DEF BaseSlot
  <2> QED
    BY <1>1, <2>1 DEF Based, Sound, Whole
<1>4. OtaOK(b)'
  BY <1>1, <1>2, <1>3 DEF Based, OtaOK, WriteOK, Live
<1>5. LoadOK(b)'
  BY <1>1, <1>2, <1>3 DEF WriteOK, LoadOK
<1>6. RunOK(b)'
  <2>1. phase \in Up => phase = "main" /\ run = BaseSlot(b)
    BY <1>1 DEF WriteOK, Up
  <2>2. BaseSlot(b) # 1 - BaseSlot(b)
    BY OtaEntries DEF Based
  <2> QED
    BY <1>1, <1>3, <2>1, <2>2 DEF Based, RunOK
<1> QED
  BY <1>1, <1>3, <1>4, <1>5, <1>6 DEF Based, Keeps

\* The write that confirms the image on trial makes it the base.
LEMMA WriteConfirms ==
  ASSUME TypeOK, PhaseInv, NEW b \in Entries, Based(b), WriteEntry, write.e.state = "VALID"
  PROVE  Based(1 - b)' /\ BaseSlot(1 - b)' = 1 - BaseSlot(b)
<1> USE DEF bootVars
<1>1. WriteOK(b) /\ write' = NoWrite /\ UNCHANGED <<part, phase, boot, run, running_state, task>>
  BY DEF WriteEntry, Based
<1>2. ota'[b] = ota[b] /\ ota'[1 - b] = write.e /\ 1 - (1 - b) = b
  BY <1>1, Others DEF WriteEntry, WriteOK, TypeOK, Otadata
<1>3. /\ phase = "main" /\ run = 1 - BaseSlot(b) /\ write.e.seq > ota[b].seq
      /\ running_state = "VALID"
  <2>1. phase = "main" /\ run = 1 - BaseSlot(b) /\ write.e.seq > ota[b].seq
    BY <1>1 DEF WriteOK
  <2>2. BaseSlot(b) # 1 - BaseSlot(b) /\ write # NoWrite
    BY OtaEntries DEF Based, WriteEntry
  <2> QED
    BY <2>1, <2>2 DEF Based, RunOK, Up
<1>4. /\ BaseSlot(1 - b)' = 1 - BaseSlot(b) /\ BaseSlot(b) = 1 - (1 - BaseSlot(b))
      /\ SlotOf(ota[b]) = BaseSlot(b)
  BY <1>1, <1>2, OtaEntries DEF Based, WriteOK, BaseSlot, Slots
<1>5. OtaOK(1 - b)'
  <2>1. ota[b].seq < write.e.seq
    BY <1>1, <1>3, OtaEntries DEF TypeOK, Based, Entry, Write, WriteEntry
  <2> QED
    BY <1>1, <1>2, <1>4, <2>1 DEF Based, OtaOK, WriteOK
<1>6. Sound(BaseSlot(1 - b))'
  BY <1>1, <1>3, <1>4 DEF PhaseInv, Sound, Whole, Checked, Started
<1>7. LoadOK(1 - b)' /\ RunOK(1 - b)'
  BY <1>1, <1>3, <1>4 DEF LoadOK, RunOK
<1> QED
  BY <1>1, <1>4, <1>5, <1>6, <1>7 DEF Based

\* The bootloader.
LEMMA BootloaderKeeps ==
  ASSUME TypeOK, PhaseInv, NEW b \in Entries, Based(b), Bootloader
  PROVE  Keeps(b)
<1> USE DEF bootVars
<1>0. /\ OtaOK(b) /\ write = NoWrite /\ BaseSlot(b) # 1 - BaseSlot(b)
      /\ ota[b].state = "VALID" /\ ota[b].seq # 0 /\ UNCHANGED part
      /\ BaseSlot(b) \in Slots
  BY OtaEntries DEF Based, OtaOK, Bootloader, boot_abort_unconfirmed,
       get_selected_boot_partition, load_boot_image
<1>1. CASE boot_abort_unconfirmed
  <2>1. PICK i \in Entries : ota[i].state = "PENDING_VERIFY" /\ SetState(i, "ABORTED")
    BY <1>1 DEF boot_abort_unconfirmed
  <2>2. i = 1 - b
    BY <1>0, <2>1 DEF Entries
  <2> DEFINE e == [ota[1 - b] EXCEPT !.state = "ABORTED"]
  <2>3. EraseEntry(1 - b, e) /\ e.state = "ABORTED" /\ e.seq = ota[1 - b].seq
    BY <2>1, <2>2, <1>0, OtaEntries DEF SetState, Entry
  <2>4. e.seq # 0 /\ SlotOf(e) = 1 - BaseSlot(b)
    BY <1>0, <2>1, <2>2, <2>3 DEF OtaOK, Erased, SlotOf
  <2> HIDE DEF e
  <2>5. /\ OtaOK(b)' /\ Sound(BaseSlot(b))' /\ BaseSlot(b)' = BaseSlot(b)
        /\ write'.i = 1 - b /\ write'.e = e /\ ota'[1 - b] = Erased
    BY <1>0, <2>3, OtherErased
  <2>6. phase' = "select"
    BY <1>1 DEF boot_abort_unconfirmed
  <2>7. WriteOK(b)' /\ LoadOK(b)' /\ RunOK(b)'
    BY <2>3, <2>4, <2>5, <2>6 DEF WriteOK, LoadOK, RunOK, Up
  <2> QED
    BY <1>0, <2>5, <2>7 DEF Based, Keeps
<1>2. CASE get_selected_boot_partition
  <2>0. phase' = "load"
    BY <1>2 DEF get_selected_boot_partition
  <2>1. ota[1 - b].state # "PENDING_VERIFY"
    BY <1>2, Others DEF get_selected_boot_partition
  <2>2. CASE ota[1 - b].state = "NEW"
    <3> DEFINE e == [ota[1 - b] EXCEPT !.state = "PENDING_VERIFY"]
    <3>1. ActiveEntry(ota) = 1 - b /\ 1 - b # -1
      BY <1>0, <2>2, ActiveOfBase, Others DEF Live, Entries
    <3>2. EraseEntry(1 - b, e) /\ boot' = SlotOf(ota[1 - b])
      BY <1>2, <2>2, <3>1 DEF get_selected_boot_partition, SetState, SelectedSlot
    <3>3. /\ e.state = "PENDING_VERIFY" /\ e.seq = ota[1 - b].seq
          /\ ota[1 - b].seq > ota[b].seq /\ ota[1 - b].seq # 0
          /\ SlotOf(ota[1 - b]) = 1 - BaseSlot(b)
      BY <1>0, <2>2, OtaEntries DEF OtaOK, Erased, Entry, Live
    <3>4. e.seq # 0 /\ SlotOf(e) = 1 - BaseSlot(b)
      BY <3>3 DEF SlotOf
    <3> HIDE DEF e
    <3>5. /\ OtaOK(b)' /\ Sound(BaseSlot(b))' /\ BaseSlot(b)' = BaseSlot(b)
          /\ write'.i = 1 - b /\ write'.e = e /\ ota'[1 - b] = Erased /\ ota'[b] = ota[b]
          /\ write' # NoWrite
      BY <1>0, <3>2, OtherErased
    <3>6. WriteOK(b)' /\ LoadOK(b)' /\ RunOK(b)'
      BY <2>0, <3>2, <3>3, <3>4, <3>5 DEF WriteOK, LoadOK, RunOK, Up
    <3> QED
      BY <1>0, <3>5, <3>6 DEF Based, Keeps
  <2>3. CASE ota[1 - b].state # "NEW"
    <3>1. ActiveEntry(ota) = b /\ b # -1 /\ ota[1 - b].state \notin Live
      BY <1>0, <2>1, <2>3, ActiveOfBase DEF Live, Entries
    <3>2. boot' = BaseSlot(b) /\ UNCHANGED <<ota, write>>
      BY <1>0, <1>2, <3>1 DEF get_selected_boot_partition, SelectedSlot, BaseSlot
    <3>3. OtaOK(b)' /\ Sound(BaseSlot(b))' /\ BaseSlot(b)' = BaseSlot(b)
      BY <1>0, <3>2, BaseKept
    <3>4. LoadOK(b)' /\ RunOK(b)'
      BY <1>0, <2>0, <3>1, <3>2, <3>3 DEF LoadOK, RunOK, Up
    <3> QED
      BY <1>0, <3>2, <3>3, <3>4 DEF Based, Keeps
  <2> QED
    BY <2>2, <2>3
<1>3. CASE load_boot_image
  <2>1. PICK s \in Slots : Loadable(s) /\ run' = s
    BY <1>3 DEF load_boot_image
  <2>2. phase = "load" /\ phase' = "check" /\ UNCHANGED <<ota, write>>
    BY <1>0, <1>3 DEF load_boot_image, Erased
  <2>3. OtaOK(b)' /\ Sound(BaseSlot(b))' /\ BaseSlot(b)' = BaseSlot(b)
    BY <1>0, <2>2, BaseKept
  <2>4. boot = BaseSlot(b) => s = BaseSlot(b)
    BY <2>1 DEF Based, Sound, Whole, Loadable, Verifies
  <2>5. s = BaseSlot(b) \/ s = 1 - BaseSlot(b)
    BY <1>0 DEF Slots
  <2>6. Idle'
    BY <1>3, <2>2 DEF load_boot_image, PhaseInv, Idle
  <2>7. LoadOK(b)' /\ RunOK(b)'
    BY <1>0, <2>1, <2>2, <2>3, <2>4, <2>5, <2>6 DEF Based, LoadOK, RunOK, Checked
  <2> QED
    BY <1>0, <2>2, <2>3, <2>7 DEF Based, Keeps
<1> QED
  BY <1>1, <1>2, <1>3 DEF Bootloader

\* While nothing is written: the base runs, or the image on trial does.
LEMMA RunningBase ==
  ASSUME TypeOK, NEW b \in Entries, Based(b), phase \in Up, write = NoWrite
  PROVE  /\ \/ /\ run = BaseSlot(b)
               /\ phase \notin {"check", "failed"} => running_state # "PENDING_VERIFY"
               /\ ~Unconfirmed
            \/ /\ run = 1 - BaseSlot(b) /\ Idle /\ Unconfirmed
               /\ ota[1 - b].state = "PENDING_VERIFY"
               /\ phase \in Checked => running_state = "PENDING_VERIFY"
         /\ BaseSlot(b) # 1 - BaseSlot(b) /\ OtaOK(b)
<1>1. OtaOK(b) /\ RunOK(b)
  BY DEF Based
<1>2. BaseSlot(b) # 1 - BaseSlot(b)
  BY <1>1, OtaEntries
<1>3. run = BaseSlot(b) => ~Unconfirmed
  BY <1>1, StatesOfBase DEF Unconfirmed
<1>4. run = 1 - BaseSlot(b) /\ ota[1 - b].state = "PENDING_VERIFY" => Unconfirmed
  BY <1>1, StatesOfBase DEF Unconfirmed, Live
<1> QED
  BY <1>1, <1>2, <1>3, <1>4 DEF RunOK

\* Confirming the image on trial begins to rewrite its entry.
LEMMA MarkKeeps ==
  ASSUME TypeOK, NEW b \in Entries, Based(b), phase \in {"mark", "main"}, write = NoWrite,
         MarkAppValid, phase' = "main", UNCHANGED <<part, boot, run, task>>
  PROVE  Keeps(b)
<1>0. phase \in Up /\ phase \in Checked /\ phase # "check"
  BY DEF Up, Checked
<1>1. CASE run = BaseSlot(b)
  <2>1. running_state # "PENDING_VERIFY"
    BY <1>0, <1>1, RunningBase
  <2>2. UNCHANGED <<ota, write, running_state>>
    BY <2>1 DEF MarkAppValid
  <2>3. OtaOK(b)' /\ Sound(BaseSlot(b))' /\ BaseSlot(b)' = BaseSlot(b)
    BY <2>2, BaseKept
  <2>4. LoadOK(b)' /\ RunOK(b)'
    BY <1>1, <2>1, <2>2, <2>3 DEF LoadOK, RunOK
  <2> QED
    BY <2>2, <2>3, <2>4 DEF Based, Keeps
<1>2. CASE run = 1 - BaseSlot(b)
  <2>1. /\ running_state = "PENDING_VERIFY" /\ ota[1 - b].state = "PENDING_VERIFY" /\ Idle
        /\ OtaOK(b)
    BY <1>0, <1>2, RunningBase
  <2>2. ActiveEntry(ota) = 1 - b /\ 1 - b # -1
    BY <2>1, ActiveOfBase, Others DEF Live, Entries
  <2> DEFINE e == [ota[1 - b] EXCEPT !.state = "VALID"]
  <2>3. EraseEntry(1 - b, e) /\ running_state' = "VALID"
    BY <2>1, <2>2 DEF MarkAppValid, SetState
  <2>4. /\ e.state = "VALID" /\ e.seq = ota[1 - b].seq
        /\ ota[1 - b].seq > ota[b].seq /\ ota[1 - b].seq # 0
        /\ SlotOf(ota[1 - b]) = 1 - BaseSlot(b)
    BY <2>1, OtaEntries DEF OtaOK, Erased, Entry, Live
  <2>5. e.seq # 0 /\ SlotOf(e) = 1 - BaseSlot(b)
    BY <2>4 DEF SlotOf
  <2> HIDE DEF e
  <2>6. /\ OtaOK(b)' /\ Sound(BaseSlot(b))' /\ BaseSlot(b)' = BaseSlot(b)
        /\ write'.i = 1 - b /\ write'.e = e /\ ota'[1 - b] = Erased /\ ota'[b] = ota[b]
        /\ write' # NoWrite
    BY <2>3, OtherErased
  <2>7. Idle'
    BY <2>1 DEF Idle
  <2>8. WriteOK(b)' /\ LoadOK(b)' /\ RunOK(b)'
    BY <1>2, <2>3, <2>4, <2>5, <2>6, <2>7 DEF WriteOK, LoadOK, RunOK
  <2> QED
    BY <2>6, <2>8 DEF Based, Keeps
<1> QED
  BY <1>0, <1>1, <1>2, RunningBase

\* Steps of start-up that change neither the otadata nor the running state.
LEMMA PhaseKeeps ==
  ASSUME TypeOK, NEW b \in Entries, Based(b), phase \in Up \ {"check", "failed"},
         write = NoWrite, UNCHANGED <<ota, part, write, run, running_state, task>>,
         phase' \in Up \ {"check"},
         run = BaseSlot(b) => phase' # "failed",
         phase' \in Checked => phase \in Checked
  PROVE  Keeps(b)
<1>1. OtaOK(b)' /\ Sound(BaseSlot(b))' /\ BaseSlot(b)' = BaseSlot(b)
  BY BaseKept
<1>2. LoadOK(b)'
  BY DEF LoadOK, Up
<1>3. CASE run = BaseSlot(b)
  <2>1. running_state # "PENDING_VERIFY"
    BY <1>3, RunningBase
  <2> QED
    BY <1>1, <1>2, <1>3, <2>1 DEF RunOK, Based, Keeps
<1>4. CASE run = 1 - BaseSlot(b)
  <2>1. /\ Idle /\ ota[1 - b].state = "PENDING_VERIFY"
        /\ phase \in Checked => running_state = "PENDING_VERIFY"
    BY <1>4, RunningBase
  <2>2. Idle'
    BY <2>1 DEF Idle
  <2>3. RunOK(b)'
    BY <1>1, <1>4, <2>1, <2>2 DEF RunOK
  <2> QED
    BY <1>1, <1>2, <2>3 DEF Based, Keeps
<1> QED
  BY <1>3, <1>4, RunningBase

\* The signature check: the base passes it, the image on trial is found on trial.
LEMMA CheckKeeps ==
  ASSUME TypeOK, PhaseInv, NEW b \in Entries, Based(b), check_signatures
  PROVE  Keeps(b)
<1>0. /\ phase = "check" /\ phase \in Up /\ write = NoWrite
      /\ UNCHANGED <<ota, part, write, run, task>> /\ running_state' = StateOfSlot(ota, run)
      /\ phase' \in {"chip", "failed"}
  BY DEF check_signatures, Up
<1>1. OtaOK(b)' /\ Sound(BaseSlot(b))' /\ BaseSlot(b)' = BaseSlot(b)
  BY <1>0, BaseKept
<1>2. LoadOK(b)'
  BY <1>0 DEF LoadOK
<1>3. CASE run = BaseSlot(b)
  <2>1. SignatureOk("gwui") /\ SignatureOk("nrf52")
    BY <1>3 DEF Based, Sound, Whole, SignatureOk, Parts
  <2>2. phase' = "chip"
    BY <2>1 DEF check_signatures, Restored
  <2>3. running_state' = "VALID"
    BY <1>0, <1>3, StatesOfBase DEF Based
  <2> QED
    BY <1>0, <1>1, <1>2, <1>3, <2>2, <2>3 DEF RunOK, Based, Keeps
<1>4. CASE run = 1 - BaseSlot(b)
  <2>1. Unconfirmed /\ ota[1 - b].state = "PENDING_VERIFY" /\ Idle
    BY <1>0, <1>4, RunningBase
  <2>2. running_state' = "PENDING_VERIFY" /\ Idle'
    BY <1>0, <2>1 DEF Unconfirmed, Idle
  <2>3. RunOK(b)'
    BY <1>0, <1>1, <1>4, <2>1, <2>2 DEF RunOK
  <2> QED
    BY <1>0, <1>1, <1>2, <2>3 DEF Based, Keeps
<1> QED
  BY <1>0, <1>3, <1>4, RunningBase

\* The base is given up after its own start-up has failed: what the other slot
\* holds becomes the base, or the gateway is lost.
GivesUp(b) == /\ roll_back /\ BaseFailed
              /\ ota'[1 - b].state = "VALID" /\ ota'[1 - b].seq # 0
              /\ write'.i = b /\ write'.e.state = "INVALID"
              /\ Based(1 - b)' \/ Lost(1 - b)'

\* A failed start-up while an image is on trial: the image is given up.
LEMMA RollBackOfTrial ==
  ASSUME TypeOK, NEW b \in Entries, Based(b), roll_back, ota[1 - b].state \in Live
  PROVE  Keeps(b)
<1>0. phase = "failed" /\ phase \in Up /\ write = NoWrite /\ UNCHANGED part /\ phase' = "select"
  BY DEF roll_back, Up, ResetRam
<1>1. ota[1 - b].state \in Live /\ OtaOK(b)
  BY <1>0, RunningBase
<1>2. ActiveEntry(ota) = 1 - b
  BY <1>1, ActiveOfBase
<1>3. CASE RollbackPossible
  <2> DEFINE e == [ota[1 - b] EXCEPT !.state = "INVALID"]
  <2>1. EraseEntry(1 - b, e)
    BY <1>2, <1>3 DEF roll_back, SetState
  <2>2. e.state = "INVALID" /\ e.seq = ota[1 - b].seq
    BY <1>1, OtaEntries DEF Entry
  <2>3. e.seq # 0 /\ SlotOf(e) = 1 - BaseSlot(b)
    BY <1>1, <2>2 DEF OtaOK, Erased, SlotOf, Live
  <2> HIDE DEF e
  <2>4. /\ OtaOK(b)' /\ Sound(BaseSlot(b))' /\ BaseSlot(b)' = BaseSlot(b)
        /\ write'.i = 1 - b /\ write'.e = e /\ ota'[1 - b] = Erased
    BY <1>0, <2>1, OtherErased
  <2>5. WriteOK(b)' /\ LoadOK(b)' /\ RunOK(b)'
    BY <1>0, <2>2, <2>3, <2>4 DEF WriteOK, LoadOK, RunOK, Up
  <2> QED
    BY <1>0, <2>4, <2>5 DEF Based, Keeps
<1>4. CASE ~RollbackPossible
  <2>1. ResetRam /\ UNCHANGED <<ota, part>> /\ write' = NoWrite
    BY <1>0, <1>4 DEF roll_back
  <2> QED
    BY <2>1, ResetKeeps
<1> QED
  BY <1>3, <1>4

\* A failed start-up of the base itself.
LEMMA RollBackOfBase ==
  ASSUME TypeOK, NEW b \in Entries, Based(b), roll_back, ota[1 - b].state \notin Live
  PROVE  Keeps(b) \/ GivesUp(b)
<1>0. /\ phase = "failed" /\ phase \in Up /\ write = NoWrite /\ UNCHANGED part
      /\ phase' = "select"
  BY DEF roll_back, Up, ResetRam
<1>1. run = BaseSlot(b) /\ ~Unconfirmed /\ OtaOK(b)
  BY <1>0, RunningBase DEF Live
<1>2. ActiveEntry(ota) = b /\ b # -1
  BY <1>1, ActiveOfBase DEF Entries
<1>3. CASE ~RollbackPossible
  <2>1. ResetRam /\ UNCHANGED <<ota, part>> /\ write' = NoWrite
    BY <1>0, <1>3 DEF roll_back
  <2> QED
    BY <2>1, ResetKeeps
<1>4. CASE RollbackPossible
  <2> DEFINE e == [ota[b] EXCEPT !.state = "INVALID"]
  <2>0. /\ ota[b] \in Entry /\ ota[1 - b] \in Entry /\ BaseSlot(b) \in Slots
        /\ 1 - b \in Entries /\ 1 - (1 - b) = b /\ 1 - b # b
    BY <1>1, OtaEntries, Others
  <2>1. EraseEntry(b, e)
    BY <1>2, <1>4 DEF roll_back, SetState
  <2>2. e.state = "INVALID" /\ e.seq = ota[b].seq /\ e.seq # 0
    BY <1>1, <2>0 DEF Entry, OtaOK
  <2>3. SlotOf(e) = BaseSlot(b)
    BY <2>2 DEF SlotOf, BaseSlot
  <2>4. IsValid(ota[1 - b]) /\ Verifies(SlotOf(ota[1 - b]))
    BY <1>2, <1>4 DEF RollbackPossible
  <2>5. /\ ota[1 - b].state = "VALID" /\ ota[1 - b].seq # 0
        /\ SlotOf(ota[1 - b]) = 1 - BaseSlot(b)
    BY <1>1, <2>4 DEF OtaOK, IsValid, Erased
  <2> HIDE DEF e
  <2>6. /\ ota'[b] = Erased /\ ota'[1 - b] = ota[1 - b]
        /\ write'.i = b /\ write'.e = e /\ write' # NoWrite
    BY <2>0, <2>1, NoWriteIsNone DEF EraseEntry, TypeOK, Otadata
  <2>7. BaseSlot(1 - b)' = 1 - BaseSlot(b) /\ BaseSlot(b) = 1 - (1 - BaseSlot(b))
    BY <2>0, <2>5, <2>6 DEF BaseSlot, Slots
  <2>8. CASE Sound(1 - BaseSlot(b))
    <3>1. OtaOK(1 - b)' /\ Sound(BaseSlot(1 - b))'
      BY <1>0, <2>0, <2>5, <2>6, <2>7, <2>8 DEF OtaOK, Sound, Whole
    <3>2. WriteOK(1 - b)'
      BY <1>0, <2>0, <2>2, <2>3, <2>6, <2>7 DEF WriteOK
    <3>3. LoadOK(1 - b)' /\ RunOK(1 - b)'
      BY <1>0 DEF LoadOK, RunOK, Up
    <3>4. Based(1 - b)'
      BY <3>1, <3>2, <3>3 DEF Based
    <3> QED
      BY <1>0, <1>1, <2>2, <2>5, <2>6, <3>4 DEF GivesUp, BaseFailed
  <2>9. CASE ~Sound(1 - BaseSlot(b))
    <3>1. Verifies(BaseSlot(1 - b))' /\ ~Sound(BaseSlot(1 - b))'
      BY <1>0, <2>4, <2>5, <2>7, <2>9 DEF Verifies, Sound, Whole
    <3>2. Lost(1 - b)'
      BY <1>0, <2>0, <2>2, <2>5, <2>6, <3>1 DEF Lost, Up, Started
    <3> QED
      BY <1>0, <1>1, <2>2, <2>5, <2>6, <3>2 DEF GivesUp, BaseFailed
  <2> QED
    BY <2>8, <2>9
<1> QED
  BY <1>3, <1>4

\* Start-up, accidents, confirmation and power losses keep the base or give it up.
LEMMA StartUpKeeps ==
  ASSUME TypeOK, PhaseInv, NEW b \in Entries, Based(b),
         StartUp \/ Fault \/ upstream_reached \/ PowerLoss
  PROVE  Keeps(b) \/ GivesUp(b)
<1> USE DEF bootVars, reqVars, flashVars
<1>1. CASE check_nrf52_fw \/ write_nrf52_fw \/ app_main
  BY <1>1, PhaseKeeps DEF check_nrf52_fw, write_nrf52_fw, app_main, Up, Checked
<1>2. CASE main_task_init
  <2>1. run = BaseSlot(b) => phase' # "failed"
    BY <1>2 DEF main_task_init, Based, Sound
  <2> QED
    BY <1>2, <2>1, PhaseKeeps DEF main_task_init, Up, Checked
<1>3. CASE mark_app_valid \/ upstream_reached
  BY <1>3, MarkKeeps DEF mark_app_valid, upstream_reached
<1>4. CASE PowerLoss
  BY <1>4, ResetKeeps DEF PowerLoss
<1>5. CASE Fault
  <2>0. /\ phase \in Up /\ write = NoWrite /\ phase' = "failed"
        /\ UNCHANGED <<ota, part, write, run, task>>
    BY <1>5 DEF Fault, Up
  <2>1. \/ run = BaseSlot(b)
        \/ run = 1 - BaseSlot(b) /\ Idle /\ ota[1 - b].state = "PENDING_VERIFY"
    BY <2>0, RunningBase
  <2>2. OtaOK(b)' /\ Sound(BaseSlot(b))' /\ BaseSlot(b)' = BaseSlot(b) /\ (Idle => Idle')
    BY <2>0, <2>1, BaseKept DEF Idle
  <2>3. LoadOK(b)' /\ RunOK(b)'
    BY <2>0, <2>1, <2>2 DEF LoadOK, RunOK, Checked
  <2> QED
    BY <2>0, <2>2, <2>3 DEF Based, Keeps
<1> QED
  BY <1>1, <1>2, <1>3, <1>4, <1>5, CheckKeeps, RollBackOfTrial, RollBackOfBase DEF StartUp

\* An update is requested, and works, only while the base runs.
LEMMA RequestKeeps ==
  ASSUME TypeOK, NEW b \in Entries, Based(b), "unconfirmed" \notin Events,
         NEW r \in Releases, post_fw_update(r) \/ auto_update(r)
  PROVE  Keeps(b)
<1>1. /\ phase = "main" /\ phase \in Up /\ write = NoWrite /\ ~Unconfirmed
      /\ UNCHANGED <<ota, part, write, phase, boot, run, running_state>>
  BY DEF post_fw_update, auto_update, MayRequest, Up, flashVars, bootVars
<1>2. run = BaseSlot(b) /\ running_state # "PENDING_VERIFY"
  BY <1>1, RunningBase
<1>3. OtaOK(b)' /\ Sound(BaseSlot(b))' /\ BaseSlot(b)' = BaseSlot(b)
  BY <1>1, BaseKept
<1>4. LoadOK(b)' /\ RunOK(b)'
  BY <1>1, <1>2, <1>3 DEF LoadOK, RunOK
<1> QED
  BY <1>1, <1>3, <1>4 DEF Based, Keeps

\* A task that works: the main loop of the base runs.
LEMMA WorkingOnBase ==
  ASSUME TypeOK, PhaseInv, NEW b \in Entries, Based(b), NEW t \in Tasks, task[t].pc # "idle"
  PROVE  phase = "main" /\ run = BaseSlot(b) /\ running_state # "PENDING_VERIFY"
<1>1. ~Idle
  BY DEF Idle
<1> QED
  BY <1>1 DEF PhaseInv, Based, RunOK, Up

\* The switch of the boot partition rewrites the other entry.
LEMMA SwitchEntry ==
  ASSUME TypeOK, NEW b \in Entries, OtaOK(b), run = BaseSlot(b)
  PROVE  LET w == BootEntry(ota, run, Next_slot)
         IN /\ w.i = 1 - b /\ w.e.state = "NEW" /\ w.e.seq > ota[b].seq /\ w.e.seq # 0
            /\ SlotOf(w.e) = 1 - BaseSlot(b)
<1>1. PreservedEntry(ota, run) = b
  <2>1. ActiveEntry(ota) = IF ota[1 - b].state \in Live THEN 1 - b ELSE b
    BY ActiveOfBase
  <2>2. SlotOf(ota[b]) = run /\ IsValid(ota[b])
    BY DEF BaseSlot, OtaOK, IsValid
  <2>3. SlotOf(ota[1 - b]) # run
    BY OtaEntries DEF OtaOK, Erased, SlotOf, Slots
  <2>4. EntryForSlot(ota, run) = b
    <3>1. CASE b = 0
      BY <2>2, <3>1 DEF EntryForSlot
    <3>2. CASE b = 1
      BY <2>2, <2>3, <3>2 DEF EntryForSlot
    <3> QED
      BY <3>1, <3>2 DEF Entries
  <2>5. b # -1 /\ 1 - b # -1
    BY DEF Entries
  <2> QED
    BY <2>1, <2>2, <2>3, <2>4, <2>5 DEF PreservedEntry
<1>2. BootEntry(ota, run, Next_slot) =
        [i |-> 1 - b, e |-> [seq |-> NextSeq(ota[b].seq, Next_slot), state |-> "NEW"]]
  BY <1>1 DEF BootEntry, Entries, NewState
<1>3. ota[b].seq \in Nat /\ Next_slot \in Slots /\ Next_slot = 1 - BaseSlot(b)
  BY OtaEntries DEF Entry, Next_slot
<1>4. /\ NextSeq(ota[b].seq, Next_slot) > ota[b].seq /\ NextSeq(ota[b].seq, Next_slot) # 0
      /\ (NextSeq(ota[b].seq, Next_slot) - 1) % NumSlots = 1 - BaseSlot(b)
  BY <1>3, NextSeqProperties
<1> HIDE DEF BaseSlot
<1> QED
  BY <1>2, <1>4 DEF SlotOf

\* The update tasks write around the base.
LEMMA UpdaterKeeps ==
  ASSUME TypeOK, PhaseInv, NEW b \in Entries, Based(b), NEW t \in Tasks,
         Updater(t) \/ set_boot_partition_failed(t)
  PROVE  Keeps(b)
<1> USE DEF bootVars, reqVars, flashVars
<1>1. CASE restart(t)
  <2>1. ResetRam /\ UNCHANGED <<ota, part>> /\ write' = NoWrite
    BY <1>1 DEF restart, At
  <2> QED
    BY <2>1, ResetKeeps
<1>2. CASE ~restart(t)
  <2>1. /\ task[t].pc # "idle" /\ part'[run] = part[run]
        /\ UNCHANGED <<phase, boot, run, running_state>>
    BY <1>2, UpdaterKeepsSlot
  <2>2. phase = "main" /\ run = BaseSlot(b) /\ running_state # "PENDING_VERIFY"
    BY <2>1, WorkingOnBase
  <2>3. BaseSlot(b)' = BaseSlot(b) => LoadOK(b)' /\ RunOK(b)'
    BY <2>1, <2>2 DEF LoadOK, RunOK
  <2>4. ASSUME UNCHANGED ota, write' = NoWrite PROVE Keeps(b)
    <3>1. OtaOK(b)' /\ Sound(BaseSlot(b))' /\ BaseSlot(b)' = BaseSlot(b)
      BY <2>1, <2>2, <2>4, BaseKept
    <3> QED
      BY <2>1, <2>2, <2>3, <2>4, <3>1 DEF Based, Keeps
  <2>5. ASSUME set_boot_partition(t), Verifies(Next_slot) PROVE Keeps(b)
    <3> DEFINE w == BootEntry(ota, run, Next_slot)
    <3>1. EraseEntry(w.i, w.e) /\ UNCHANGED part
      BY <2>5 DEF set_boot_partition
    <3>2. /\ w.i = 1 - b /\ w.e.state = "NEW" /\ w.e.seq > ota[b].seq /\ w.e.seq # 0
          /\ SlotOf(w.e) = 1 - BaseSlot(b)
      BY <2>2, SwitchEntry DEF Based
    <3> HIDE DEF w
    <3>3. /\ OtaOK(b)' /\ Sound(BaseSlot(b))' /\ BaseSlot(b)' = BaseSlot(b)
          /\ write'.i = 1 - b /\ write'.e = w.e /\ ota'[1 - b] = Erased /\ ota'[b] = ota[b]
      BY <3>1, <3>2, OtherErased
    <3>4. WriteOK(b)'
      BY <2>1, <2>2, <3>2, <3>3 DEF WriteOK
    <3> QED
      BY <2>3, <3>1, <3>3, <3>4 DEF Based, Keeps
  <2>6. \/ UNCHANGED ota /\ write' = NoWrite
        \/ set_boot_partition(t) /\ Verifies(Next_slot)
    BY <1>2 DEF Updater, erase_partition, write_partition, update_nrf52_check,
         update_nrf52_write, set_boot_partition, set_flag, invalidate_next,
         set_boot_partition_failed, At
  <2> QED
    BY <2>4, <2>5, <2>6
<1> QED
  BY <1>1, <1>2

\* Every step keeps the base, confirms the image on trial or gives the base up.
LEMMA StepOfBase ==
  ASSUME TypeOK, PhaseInv, "unconfirmed" \notin Events, NEW b \in Entries, Based(b),
         [Next]_vars
  PROVE  \/ Keeps(b) \/ GivesUp(b)
         \/ /\ WriteEntry /\ write.e.state = "VALID"
            /\ Based(1 - b)' /\ BaseSlot(1 - b)' = 1 - BaseSlot(b)
<1>1. CASE UNCHANGED vars
  <2>1. OtaOK(b)' /\ Sound(BaseSlot(b))' /\ BaseSlot(b)' = BaseSlot(b)
    BY <1>1, BaseKept DEF vars
  <2>2. (write = NoWrite \/ WriteOK(b))' /\ LoadOK(b)'
    BY <1>1, <2>1 DEF vars, Based, WriteOK, LoadOK
  <2>3. RunOK(b)'
    BY <1>1, <2>1 DEF vars, Based, RunOK, Idle
  <2> QED
    BY <1>1, <2>1, <2>2, <2>3 DEF vars, Based, Keeps
<1>2. CASE Next
  BY <1>2, WriteKeeps, WriteConfirms, BootloaderKeeps, StartUpKeeps, RequestKeeps, UpdaterKeeps
  DEF Next
<1> QED
  BY <1>1, <1>2

\* The first start-up: slot 0 is loaded and its entry written.
LEMMA StepOfFresh ==
  ASSUME TypeOK, PhaseInv, Fresh, [Next]_vars
  PROVE  /\ Fresh' \/ (Based(0)' /\ BaseSlot(0)' = 0)
         /\ UNCHANGED part
<1> USE DEF bootVars, reqVars, flashVars
<1>0. /\ phase \in {"select", "load", "check"} /\ Idle /\ Sound(0)
      /\ ota[0] = Erased /\ ota[1] = Erased
  BY DEF Fresh, PhaseInv, Entries
<1>1. UNCHANGED <<ota, part>> => \A i \in Entries : ota'[i] = Erased
  BY DEF Fresh
<1>2. UNCHANGED part => Sound(0)'
  BY <1>0 DEF Sound, Whole
<1>3. CASE WriteEntry
  <2>1. /\ phase = "check" /\ run = 0 /\ write = [i |-> 0, e |-> [seq |-> 1, state |-> "VALID"]]
    BY <1>0, <1>3 DEF WriteEntry, Fresh
  <2>2. /\ ota'[0] = [seq |-> 1, state |-> "VALID"] /\ ota'[1] = Erased /\ write' = NoWrite
        /\ UNCHANGED <<part, phase, boot, run, running_state>>
    BY <1>0, <1>3, <2>1 DEF WriteEntry, TypeOK, Otadata, Entries
  <2>3. BaseSlot(0)' = 0
    BY <2>2 DEF BaseSlot, SlotOf, NumSlots
  <2>4. OtaOK(0)'
    BY <2>2 DEF OtaOK
  <2>5. LoadOK(0)' /\ RunOK(0)'
    BY <2>1, <2>2, <2>3 DEF LoadOK, RunOK
  <2> QED
    BY <1>2, <2>2, <2>3, <2>4, <2>5 DEF Based
<1>4. CASE boot_abort_unconfirmed
  BY <1>4 DEF boot_abort_unconfirmed, Fresh, Erased
<1>5. CASE get_selected_boot_partition
  <2>1. ActiveEntry(ota) = -1
    BY <1>0 DEF ActiveEntry, IsValid, Erased
  <2>2. boot' = 0 /\ phase' = "load" /\ write' = NoWrite /\ UNCHANGED <<ota, part>>
    BY <1>5, <2>1 DEF get_selected_boot_partition, SelectedSlot
  <2> QED
    BY <1>1, <1>2, <2>2 DEF Fresh
<1>6. CASE load_boot_image
  <2>1. PICK s \in Slots : Loadable(s) /\ run' = s
                           /\ EraseEntry(0, [seq |-> s + 1, state |-> "VALID"])
    BY <1>6 DEF load_boot_image, Fresh
  <2>2. s = 0
    BY <1>0, <1>6, <2>1 DEF load_boot_image, Loadable, Verifies, Fresh, Sound, Whole
  <2>3. \A i \in Entries : ota'[i] = Erased
    BY <1>0, <2>1 DEF EraseEntry, TypeOK, Otadata, Entries
  <2>4. phase' = "check" /\ run' = 0 /\ UNCHANGED part
        /\ write' = [i |-> 0, e |-> [seq |-> 1, state |-> "VALID"]]
    BY <1>6, <2>1, <2>2 DEF load_boot_image, EraseEntry
  <2> QED
    BY <1>2, <2>3, <2>4 DEF Fresh
<1>7. CASE PowerLoss
  BY <1>1, <1>2, <1>7 DEF PowerLoss, ResetRam, Fresh
<1>8. CASE UNCHANGED vars
  BY <1>1, <1>2, <1>8 DEF vars, Fresh
<1>9. phase = "check" => write # NoWrite
  BY DEF Fresh, NoWrite
<1>10. ~StartUp /\ ~Fault /\ ~upstream_reached
  BY <1>0, <1>9 DEF StartUp, check_signatures, check_nrf52_fw, write_nrf52_fw, main_task_init,
       roll_back, app_main, mark_app_valid, Fault, upstream_reached
<1>11. \A r \in Releases : ~post_fw_update(r) /\ ~auto_update(r)
  BY <1>0 DEF post_fw_update, auto_update, MayRequest
<1>12. \A t \in Tasks : ~Updater(t) /\ ~set_boot_partition_failed(t)
  BY <1>0 DEF Idle, Updater, erase_partition, write_partition, update_nrf52_check,
       update_nrf52_write, set_boot_partition, set_flag, invalidate_next, restart,
       set_boot_partition_failed, At
<1> QED
  BY <1>3, <1>4, <1>5, <1>6, <1>7, <1>8, <1>10, <1>11, <1>12 DEF Next, Bootloader

\* The factory state has the release of the factory as its base.
LEMMA InitFresh == Init => Fresh
<1>1. Init => Sound(0)
  BY FwAssumption DEF Init, FwAssumption, Sound, Whole, Slots, Parts
<1> QED
  BY <1>1 DEF Init, Fresh

\* A gateway that has lost its base tries the same slot for ever.
LEMMA StepOfLost ==
  ASSUME TypeOK, PhaseInv, NEW b \in Entries, Lost(b), [Next]_vars
  PROVE  Lost(b)'
<1> USE DEF bootVars, reqVars, flashVars
<1>0. /\ phase \notin Started /\ phase # "main" /\ Idle
      /\ ota[b] \in Entry /\ ota[1 - b] \in Entry /\ ota \in Otadata
      /\ 1 - b \in Entries /\ 1 - (1 - b) = b /\ 1 - b # b /\ b # -1
      /\ ota[b] # Erased
      /\ write # NoWrite => write.i = 1 - b
  BY Others DEF Lost, PhaseInv, Started, TypeOK, Otadata, Entries, Erased
<1>k. ASSUME UNCHANGED <<ota, part>>, write' = NoWrite, phase' \notin Started,
             phase' = "load" => boot' = BaseSlot(b), phase' \in Up => run' = BaseSlot(b)
      PROVE  Lost(b)'
  <2>1. BaseSlot(b)' = BaseSlot(b)
    BY <1>k DEF BaseSlot
  <2>2. Verifies(BaseSlot(b))' /\ ~Sound(BaseSlot(b))'
    BY <1>k, <2>1 DEF Lost, Verifies, Sound, Whole
  <2> QED
    BY <1>k, <2>1, <2>2 DEF Lost
<1>v. ActiveEntry(ota) = b /\ ~IsValid(ota[1 - b])
  <2>1. IsValid(ota[b]) /\ ~IsValid(ota[1 - b])
    BY DEF Lost, IsValid, Erased
  <2>2. CASE b = 0
    BY <2>1, <2>2 DEF ActiveEntry
  <2>3. CASE b = 1
    BY <2>1, <2>3 DEF ActiveEntry
  <2> QED
    BY <2>1, <2>2, <2>3 DEF Entries
<1>1. CASE WriteEntry
  <2>1. /\ phase = "select" /\ write.i = 1 - b /\ write.e.state = "INVALID"
        /\ write' = NoWrite /\ UNCHANGED <<part, phase>>
    BY <1>1 DEF WriteEntry, Lost
  <2>2. ota'[b] = ota[b] /\ ota'[1 - b] = write.e
    BY <1>0, <1>1, <2>1 DEF WriteEntry, Otadata
  <2>3. BaseSlot(b)' = BaseSlot(b)
    BY <2>2 DEF BaseSlot
  <2>4. Verifies(BaseSlot(b))' /\ ~Sound(BaseSlot(b))'
    BY <2>1, <2>3 DEF Lost, Verifies, Sound, Whole
  <2> QED
    BY <2>1, <2>2, <2>4 DEF Lost, Up, Started
<1>2. CASE boot_abort_unconfirmed
  <2>1. PICK i \in Entries : ota[i].state = "PENDING_VERIFY"
    BY <1>2 DEF boot_abort_unconfirmed
  <2>2. i = b \/ i = 1 - b
    BY DEF Entries
  <2> QED
    BY <2>1, <2>2 DEF Lost, Erased
<1>3. CASE get_selected_boot_partition
  <2>1. boot' = BaseSlot(b) /\ phase' = "load" /\ UNCHANGED <<ota, part>> /\ write' = NoWrite
    BY <1>0, <1>3, <1>v DEF get_selected_boot_partition, SelectedSlot, BaseSlot, Lost
  <2> QED
    BY <1>k, <2>1 DEF Up, Started
<1>4. CASE load_boot_image
  <2>1. PICK s \in Slots : Loadable(s) /\ run' = s
    BY <1>4 DEF load_boot_image
  <2>2. s = BaseSlot(b) /\ phase' = "check" /\ UNCHANGED part
    BY <1>4, <2>1 DEF load_boot_image, Loadable, Lost
  <2>3. ota[b] # Erased /\ b \in Entries
    BY <1>0
  <2>4. UNCHANGED <<ota, write>> /\ write = NoWrite
    BY <1>4, <2>3 DEF load_boot_image
  <2> QED
    BY <1>k, <2>1, <2>2, <2>4 DEF Started
<1>5. CASE check_signatures \/ check_nrf52_fw \/ write_nrf52_fw \/ Fault
  <2>1. /\ phase \in Up /\ write = NoWrite /\ UNCHANGED <<ota, part, write, run>>
        /\ phase' \in {"chip", "chip_write", "init", "failed"}
    BY <1>5 DEF check_signatures, check_nrf52_fw, write_nrf52_fw, Fault, Up
  <2> QED
    BY <1>k, <2>1 DEF Lost, Started
<1>6. CASE main_task_init
  <2>1. /\ phase = "init" /\ phase \in Up /\ phase \in Checked /\ write = NoWrite
        /\ UNCHANGED <<ota, part, write, run>>
    BY <1>6 DEF main_task_init, Up, Checked
  <2>2. Whole(run) /\ run = BaseSlot(b) /\ ~Sound(run)
    BY <2>1 DEF Lost, PhaseInv
  <2>3. phase' = "failed"
    BY <1>6, <2>2 DEF main_task_init, Sound
  <2> QED
    BY <1>k, <2>1, <2>2, <2>3 DEF Started
<1>7. CASE roll_back \/ PowerLoss
  <2>1. ~RollbackPossible
    BY <1>v DEF RollbackPossible
  <2>2. phase' = "select" /\ UNCHANGED <<ota, part>> /\ write' = NoWrite
    BY <1>7, <2>1 DEF roll_back, PowerLoss, ResetRam
  <2> QED
    BY <1>k, <2>2 DEF Up, Started
<1>8. ~app_main /\ ~mark_app_valid /\ ~upstream_reached
  BY <1>0 DEF app_main, mark_app_valid, upstream_reached, Started
<1>9. \A r \in Releases : ~post_fw_update(r) /\ ~auto_update(r)
  BY <1>0 DEF post_fw_update, auto_update, MayRequest
<1>10. \A t \in Tasks : ~Updater(t) /\ ~set_boot_partition_failed(t)
  BY <1>0 DEF Idle, Updater, erase_partition, write_partition, update_nrf52_check,
       update_nrf52_write, set_boot_partition, set_flag, invalidate_next, restart,
       set_boot_partition_failed, At
<1>11. CASE UNCHANGED vars
  <2>1. BaseSlot(b)' = BaseSlot(b)
    BY <1>11 DEF vars, BaseSlot
  <2>2. Verifies(BaseSlot(b))' /\ ~Sound(BaseSlot(b))'
    BY <1>11, <2>1 DEF vars, Lost, Verifies, Sound, Whole
  <2> QED
    BY <1>11, <2>1, <2>2 DEF vars, Lost
<1> QED
  BY <1>1, <1>2, <1>3, <1>4, <1>5, <1>6, <1>7, <1>8, <1>9, <1>10, <1>11
  DEF Next, Bootloader, StartUp

\* Every step keeps a base, or loses it for good.
LEMMA StepBase ==
  ASSUME TypeOK, PhaseInv, "unconfirmed" \notin Events, BaseInv, [Next]_vars
  PROVE  BaseInv'
<1>1. CASE Fresh
  BY <1>1, StepOfFresh DEF BaseInv, HasBase, Entries
<1>2. ASSUME NEW b \in Entries, Based(b) PROVE BaseInv'
  BY <1>2, StepOfBase, Others DEF BaseInv, HasBase, Keeps, GivesUp
<1>3. ASSUME NEW b \in Entries, Lost(b) PROVE BaseInv'
  BY <1>3, StepOfLost DEF BaseInv
<1> QED
  BY <1>1, <1>2, <1>3 DEF BaseInv, HasBase

\* When an update can only be requested once the running image is confirmed,
\* there is a confirmed, whole release that starts up, and whatever is written or
\* on trial concerns the other slot and the other otadata entry; or a rollback of
\* such a release has lost it.
LEMMA BaseInvariant ==
  ASSUME "unconfirmed" \notin Events
  PROVE  Spec => []BaseInv
<1>1. Init => BaseInv
  BY InitFresh DEF BaseInv, HasBase
<1>2. TypeOK /\ PhaseInv /\ BaseInv /\ [Next]_vars => BaseInv'
  BY StepBase
<1> QED
  BY <1>1, <1>2, TypeCorrect, PhaseInvariant, PTL DEF Spec

\* A release on trial that fails to start up is rolled back to the other slot,
\* which holds a whole release, also after rollbacks of confirmed releases.
THEOREM TrialFailureIsHarmless ==
  ASSUME "unconfirmed" \notin Events
  PROVE  Spec => []TrialFailureRollsBack
<1>1. TypeOK /\ BaseInv => TrialFailureRollsBack
  <2> SUFFICES ASSUME TypeOK, BaseInv, phase = "failed", write = NoWrite, Unconfirmed
               PROVE  RollbackPossible /\ BackSlot # run /\ Whole(BackSlot)
    BY DEF TrialFailureRollsBack
  <2>0. ASSUME NEW b \in Entries, Lost(b) PROVE FALSE
    <3>1. run = BaseSlot(b) /\ ota[b].state = "VALID" /\ ota[1 - b].state # "PENDING_VERIFY"
      BY <2>0 DEF Lost, Up, Erased
    <3>2. StateOfSlot(ota, run) # "PENDING_VERIFY"
      BY <3>1 DEF StateOfSlot, Entries
    <3> QED
      BY <3>2 DEF Unconfirmed
  <2>1. PICK b \in Entries : Based(b)
    BY <2>0 DEF BaseInv, HasBase, Fresh
  <2>2. /\ run = 1 - BaseSlot(b) /\ ota[1 - b].state = "PENDING_VERIFY" /\ OtaOK(b)
        /\ BaseSlot(b) # 1 - BaseSlot(b)
    BY <2>1, RunningBase DEF Up
  <2>3. ActiveEntry(ota) = 1 - b /\ 1 - (1 - b) = b /\ 1 - b # -1
    BY <2>2, ActiveOfBase, Others DEF Live, Entries
  <2>4. SlotOf(ota[b]) = BaseSlot(b) /\ IsValid(ota[b])
    BY <2>2 DEF BaseSlot, OtaOK, IsValid
  <2>5. Whole(BaseSlot(b)) /\ Verifies(BaseSlot(b))
    BY <2>1 DEF Based, Sound, Whole, Verifies
  <2> HIDE DEF BaseSlot
  <2> QED
    BY <2>2, <2>3, <2>4, <2>5 DEF RollbackPossible, BackSlot
<1> QED
  BY <1>1, BaseInvariant, TypeCorrect, PTL

-----------------------------------------------------------------------------
(* The refinement: FwUpdate implements FwInstall.                          *)

\* What the gateway comes back to is what the base's entry describes.
BaseIsBase == \A b \in Entries : Based(b) => BaseRelease = part[BaseSlot(b)].app
BaseIsFirst == Fresh => BaseRelease = part[0].app

\* The base of otadata determines the release to come back to.
LEMMA BaseOfBased == TypeOK => BaseIsBase
<1> SUFFICES ASSUME TypeOK, NEW b \in Entries, Based(b)
             PROVE  BaseRelease = part[BaseSlot(b)].app
  BY DEF BaseIsBase
<1>1. OtaOK(b) /\ ota[b] \in Entry /\ ota[1 - b] \in Entry
  BY OtaEntries DEF Based
<1>2. /\ Settled[b] = ota[b]
      /\ Settled[1 - b] = IF ota[1 - b].state \in Live THEN Erased ELSE ota[1 - b]
  BY <1>1, Others DEF Settled, OtaOK, Live
<1>3. ActiveEntry(Settled) = b
  <2>1. IsValid(Settled[b])
    BY <1>1, <1>2 DEF OtaOK, IsValid
  <2>2. ~IsValid(Settled[1 - b]) \/ Settled[1 - b].seq < Settled[b].seq
    BY <1>1, <1>2 DEF OtaOK, IsValid, Live, Erased
  <2>3. Settled[b].seq \in Nat /\ Settled[1 - b].seq \in Nat
    BY <1>1, <1>2 DEF Entry, Erased
  <2> HIDE DEF Settled
  <2>4. CASE b = 0
    BY <2>1, <2>2, <2>3, <2>4 DEF ActiveEntry
  <2>5. CASE b = 1
    BY <2>1, <2>2, <2>3, <2>5 DEF ActiveEntry
  <2> QED
    BY <2>4, <2>5 DEF Entries
<1>4. Verifies(BaseSlot(b)) /\ Whole(BaseSlot(b)) /\ part[BaseSlot(b)].app \notin Bad
  BY DEF Based, Sound, Whole, Verifies
<1>s. Sound(BaseSlot(b))
  BY DEF Based
<1>5. b # -1 /\ SlotOf(ota[b]) = BaseSlot(b)
  BY DEF Entries, BaseSlot
<1> HIDE DEF BaseSlot
<1> QED
  BY <1>3, <1>4, <1>5, <1>s DEF BaseRelease

\* With erased otadata the release to come back to is that of the first slot.
LEMMA BaseOfFresh == BaseIsFirst
<1> SUFFICES ASSUME Fresh PROVE BaseRelease = part[0].app
  BY DEF BaseIsFirst
<1>1. Settled[0] = Erased /\ Settled[1] = Erased
  BY DEF Fresh, Settled, Entries, Erased
<1>2. ActiveEntry(Settled) = -1
  BY <1>1 DEF ActiveEntry, IsValid, Erased
<1>3. Verifies(0) /\ Sound(0)
  BY DEF Fresh, Sound, Whole, Verifies
<1> QED
  BY <1>2, <1>3 DEF BaseRelease

\* A lost base is none.
LostIsNone == \A b \in Entries : Lost(b) => BaseRelease = NoRelease

\* There is nothing to come back to once the base is lost.
LEMMA BaseOfLost == TypeOK => LostIsNone
<1> SUFFICES ASSUME TypeOK, NEW b \in Entries, Lost(b) PROVE BaseRelease = NoRelease
  BY DEF LostIsNone
<1>1. Settled[b] = ota[b] /\ ~IsValid(Settled[1 - b])
  BY Others DEF Settled, Lost, IsValid, Erased
<1>2. ActiveEntry(Settled) = b
  <2>1. IsValid(Settled[b])
    BY <1>1 DEF Lost, IsValid
  <2> HIDE DEF Settled
  <2>2. CASE b = 0
    BY <1>1, <2>1, <2>2 DEF ActiveEntry
  <2>3. CASE b = 1
    BY <1>1, <2>1, <2>3 DEF ActiveEntry
  <2> QED
    BY <2>2, <2>3 DEF Entries
<1>3. Verifies(BaseSlot(b)) /\ ~Sound(BaseSlot(b))
  BY DEF Lost
<1>4. b # -1 /\ SlotOf(ota[b]) = BaseSlot(b)
  BY DEF Entries, BaseSlot
<1> HIDE DEF BaseSlot
<1> QED
  BY <1>2, <1>3, <1>4 DEF BaseRelease

\* The release to come back to is one, or none.
LEMMA BaseType == BaseRelease \in Releases \cup {NoRelease}
  BY DEF BaseRelease, Sound, Whole

\* The same in the next state.
LEMMA BaseNext ==
  /\ TypeOK' => BaseIsBase' /\ BaseIsFirst' /\ LostIsNone'
  /\ BaseRelease' \in Releases \cup {NoRelease}
<1>1. (TypeOK => BaseIsBase)'
  BY BaseOfBased, PTL
<1>2. BaseIsFirst'
  BY BaseOfFresh, PTL
<1>3. (TypeOK => LostIsNone)'
  BY BaseOfLost, PTL
<1>4. (BaseRelease \in Releases \cup {NoRelease})'
  BY BaseType, PTL
<1> QED
  BY <1>1, <1>2, <1>3, <1>4

\* What is on trial is a release or nothing.
LEMMA TrialType == TrialRelease \in Releases \cup {NoRelease}
  BY DEF TrialRelease, Whole

\* While it waits to be confirmed, the image on trial is the trial release.
LEMMA TrialConfirmed ==
  ASSUME TypeOK, PhaseInv, NEW b \in Entries, Based(b), write # NoWrite, write.e.state = "VALID"
  PROVE  TrialRelease = part[1 - BaseSlot(b)].app /\ TrialRelease \in Releases
<1> DEFINE o == [ota EXCEPT ![write.i] = write.e]
<1>1. /\ WriteOK(b) /\ phase = "main" /\ run = 1 - BaseSlot(b) /\ write.e.seq > ota[b].seq
      /\ write.e \in Entry /\ ota[b] \in Entry /\ OtaOK(b)
  BY OtaEntries DEF Based, WriteOK, TypeOK
<1>2. o[b] = ota[b] /\ o[1 - b] = write.e
  BY <1>1, Others DEF WriteOK, TypeOK, Otadata
<1> HIDE DEF o
<1>3. ActiveEntry(o) = 1 - b
  <2>1. IsValid(o[b]) /\ IsValid(o[1 - b]) /\ o[1 - b].seq > o[b].seq
    BY <1>1, <1>2 DEF OtaOK, WriteOK, IsValid
  <2>2. o[b].seq \in Nat /\ o[1 - b].seq \in Nat
    BY <1>1, <1>2 DEF Entry
  <2>3. CASE b = 0
    BY <2>1, <2>2, <2>3 DEF ActiveEntry
  <2>4. CASE b = 1
    BY <2>1, <2>2, <2>4 DEF ActiveEntry
  <2> QED
    BY <2>3, <2>4 DEF Entries
<1>4. Whole(1 - BaseSlot(b))
  BY <1>1 DEF PhaseInv, Checked
<1>5. SlotOf(o[1 - b]) = 1 - BaseSlot(b) /\ 1 - b # -1 /\ write.i = 1 - b
  BY <1>1, <1>2, Others DEF WriteOK, Entries
<1> HIDE DEF BaseSlot
<1>6. TrialRelease = part[1 - BaseSlot(b)].app
  BY <1>3, <1>4, <1>5 DEF TrialRelease, o
<1> QED
  BY <1>4, <1>6 DEF Whole

\* While nothing is written and no image is on trial there is no trial release.
NoTrial == \A b \in Entries : Based(b) /\ write = NoWrite /\ ota[1 - b].state \notin Live
                              => TrialRelease = NoRelease

\* When no entry is on trial, no release is.
LEMMA TrialOver == TypeOK => NoTrial
<1> SUFFICES ASSUME TypeOK, NEW b \in Entries, Based(b), write = NoWrite,
                    ota[1 - b].state \notin Live
             PROVE  TrialRelease = NoRelease
  BY DEF NoTrial
<1>1. ActiveEntry(ota) = b
  BY ActiveOfBase DEF Based
<1>2. ota[b].state \notin Live /\ write.i # b
  BY DEF Based, OtaOK, Live, NoWrite, Entries
<1> QED
  BY <1>1, <1>2 DEF TrialRelease, Live

\* The same in the next state.
LEMMA TrialOverNext == TypeOK' => NoTrial'
  BY TrialOver, PTL

\* Only one entry counts, and it is not on trial.
OnlyEntry(b) ==
  /\ ota[b].state = "VALID" /\ ota[b].seq # 0
  /\ \/ write = NoWrite /\ ~IsValid(ota[1 - b])
     \/ write # NoWrite /\ write.i = 1 - b /\ ~IsValid(write.e)

NoTrialOfOne == \A b \in Entries : OnlyEntry(b) => TrialRelease = NoRelease

\* Then no release is on trial.
LEMMA TrialOfOne == TypeOK => NoTrialOfOne
<1> SUFFICES ASSUME TypeOK, NEW b \in Entries, OnlyEntry(b) PROVE TrialRelease = NoRelease
  BY DEF NoTrialOfOne
<1> DEFINE o == IF write = NoWrite THEN ota ELSE [ota EXCEPT ![write.i] = write.e]
<1>1. o[b] = ota[b] /\ ~IsValid(o[1 - b])
  BY Others DEF OnlyEntry, TypeOK, Otadata
<1>2. write.i # b
  BY Others DEF OnlyEntry, NoWrite, Entries
<1> HIDE DEF o
<1>3. ActiveEntry(o) = b
  <2>1. IsValid(o[b])
    BY <1>1 DEF OnlyEntry, IsValid
  <2>2. CASE b = 0
    BY <1>1, <2>1, <2>2 DEF ActiveEntry
  <2>3. CASE b = 1
    BY <1>1, <2>1, <2>3 DEF ActiveEntry
  <2> QED
    BY <2>2, <2>3 DEF Entries
<1>4. o[b].state \notin Live
  BY <1>1 DEF OnlyEntry, Live
<1> QED
  BY <1>2, <1>3, <1>4 DEF TrialRelease, o, Live

\* A lost gateway has nothing on trial.
LEMMA OneOfLost == \A b \in Entries : Lost(b) => OnlyEntry(b)
  BY DEF Lost, OnlyEntry, IsValid, Erased

\* The same in the next state.
LEMMA TrialOfOneNext ==
  /\ TypeOK' => NoTrialOfOne'
  /\ \A b \in Entries : Lost(b)' => OnlyEntry(b)'
<1>1. (TypeOK => NoTrialOfOne)'
  BY TrialOfOne, PTL
<1>2. (\A b \in Entries : Lost(b) => OnlyEntry(b))'
  BY OneOfLost, PTL
<1> QED
  BY <1>1, <1>2

\* The factory state is an initial state of FwInstall.
LEMMA InitInstall == Init => Install!Init
<1> SUFFICES ASSUME Init PROVE BaseRelease \in Releases /\ TrialRelease = NoRelease
  BY DEF Install!Init, BaseFailed, Init
<1>1. BaseRelease = part[0].app
  BY InitFresh, BaseOfFresh DEF BaseIsFirst
<1>2. part[0].app \in Releases
  BY InitFresh DEF Fresh, Sound, Whole
<1>3. ActiveEntry(ota) = -1
  BY DEF Init, ActiveEntry, IsValid, Erased, Entries
<1>4. TrialRelease = NoRelease
  BY <1>3 DEF TrialRelease, Init
<1> QED
  BY <1>1, <1>2, <1>4

\* Every step is a step of FwInstall or changes nothing it speaks of.
LEMMA StepInstall ==
  ASSUME TypeOK, TypeOK', PhaseInv, BaseInv, "unconfirmed" \notin Events, [Next]_vars
  PROVE  [Install!Next]_<<BaseRelease, TrialRelease, BaseFailed>>
<1>0. BaseFailed' \in BOOLEAN /\ NoRelease \notin Releases
  BY FwAssumption DEF BaseFailed, FwAssumption
<1>1. TrialRelease' \in Releases \cup {NoRelease}
  <2>1. (TrialRelease \in Releases \cup {NoRelease})'
    BY TrialType, PTL
  <2> QED
    BY <2>1
<1>2. ASSUME BaseRelease' = BaseRelease, BaseRelease \in Releases PROVE Install!Next
  BY <1>0, <1>1, <1>2 DEF Install!Next, Install!Try, Install!GiveUp
<1>3. CASE Fresh
  <2>1. BaseRelease = part[0].app
    BY <1>3, BaseOfFresh DEF BaseIsFirst
  <2>2. UNCHANGED part /\ (Fresh' \/ (Based(0)' /\ BaseSlot(0)' = 0))
    BY <1>3, StepOfFresh
  <2>3. BaseIsBase' /\ BaseIsFirst' /\ 0 \in Entries
    BY BaseNext DEF Entries
  <2>4. BaseRelease' = part'[0].app
    BY <2>2, <2>3 DEF BaseIsBase, BaseIsFirst
  <2>5. part[0].app \in Releases
    BY <1>3 DEF Fresh, Sound, Whole
  <2> QED
    BY <1>2, <2>1, <2>2, <2>4, <2>5
<1>4. ASSUME NEW b \in Entries, Based(b) PROVE Install!Next
  <2>1. BaseRelease = part[BaseSlot(b)].app /\ BaseRelease \in Releases
    BY <1>4, BaseOfBased DEF BaseIsBase, Based, Sound, Whole
  <2>2. BaseIsBase' /\ NoTrial' /\ 1 - b \in Entries /\ 1 - (1 - b) = b
    BY BaseNext, TrialOverNext, Others
  <2>3. CASE Keeps(b)
    <3>1. BaseRelease' = part'[BaseSlot(b)].app
      BY <2>2, <2>3 DEF Keeps, BaseIsBase
    <3> QED
      BY <1>2, <2>1, <2>3, <3>1 DEF Keeps
  <2>4. CASE /\ WriteEntry /\ write.e.state = "VALID"
             /\ Based(1 - b)' /\ BaseSlot(1 - b)' = 1 - BaseSlot(b)
    <3>1. BaseRelease' = part[1 - BaseSlot(b)].app
      BY <2>2, <2>4 DEF BaseIsBase, WriteEntry
    <3>2. TrialRelease = part[1 - BaseSlot(b)].app /\ TrialRelease \in Releases
      BY <1>4, <2>4, TrialConfirmed DEF WriteEntry
    <3>3. ota'[b] = ota[b] /\ write' = NoWrite /\ ota[b].state \notin Live
      BY <1>4, <2>4, Others DEF WriteEntry, Based, WriteOK, OtaOK, Live, TypeOK, Otadata
    <3>4. TrialRelease' = NoRelease
      BY <2>2, <2>4, <3>3 DEF NoTrial
    <3>5. ~BaseFailed
      BY <1>4, <2>4 DEF BaseFailed, Based, WriteOK, WriteEntry
    <3> QED
      BY <1>0, <3>1, <3>2, <3>4, <3>5 DEF Install!Next, Install!Confirm
  <2>5. CASE GivesUp(b)
    <3>1. write' # NoWrite
      BY <1>4, <2>5 DEF GivesUp, NoWrite, Entries
    <3>2. OnlyEntry(1 - b)'
      BY <2>2, <2>5, <3>1 DEF GivesUp, OnlyEntry, IsValid
    <3>3. TrialRelease' = NoRelease
      BY <2>2, <3>2, TrialOfOneNext DEF NoTrialOfOne
    <3>4. BaseRelease' \in Releases \cup {NoRelease}
      BY BaseNext
    <3>5. BaseFailed
      BY <2>5 DEF GivesUp
    <3> QED
      BY <1>0, <2>1, <3>3, <3>4, <3>5 DEF Install!Next, Install!RollBack
  <2> QED
    BY <1>4, <2>3, <2>4, <2>5, StepOfBase
<1>5. ASSUME NEW b \in Entries, Lost(b) PROVE Install!Next
  <2>1. Lost(b)'
    BY <1>5, StepOfLost
  <2>2. BaseRelease = NoRelease /\ TrialRelease = NoRelease
    BY <1>5, BaseOfLost, OneOfLost, TrialOfOne DEF LostIsNone, NoTrialOfOne
  <2>3. BaseRelease' = NoRelease /\ TrialRelease' = NoRelease
    BY <2>1, BaseNext, TrialOfOneNext DEF LostIsNone, NoTrialOfOne
  <2> QED
    BY <1>0, <2>2, <2>3 DEF Install!Next, Install!StartUp
<1> QED
  BY <1>3, <1>4, <1>5 DEF BaseInv, HasBase

\* However updates, power losses, aborted trials and rollbacks follow each other,
\* the release the gateway comes back to is replaced only by one that was switched
\* to, started up and confirmed, or in a rollback after its own start-up has
\* failed; once such a rollback has lost it, nothing brings it back.
THEOREM UpdateImplementsInstall ==
  ASSUME "unconfirmed" \notin Events
  PROVE  Spec => ImplementsInstall
<1>1. TypeOK /\ TypeOK' /\ PhaseInv /\ BaseInv /\ [Next]_vars
      => [Install!Next]_<<BaseRelease, TrialRelease, BaseFailed>>
  BY StepInstall
<1> QED
  BY <1>1, InitInstall, TypeCorrect, PhaseInvariant, BaseInvariant, PTL
  DEF Spec, ImplementsInstall, Install!Spec

=============================================================================
