------------------------------ MODULE OtaData -------------------------------
(***************************************************************************)
(* The two otadata entries that tell the bootloader which of the two OTA    *)
(* slots to boot (bootloader_common.c, esp_ota_ops_patched.c).  An entry    *)
(* holds a sequence number, which determines the slot, and the state of     *)
(* the image.  An erased entry (sequence UINT32_MAX) and one with a wrong   *)
(* CRC behave alike and are both written as Erased.                         *)
(***************************************************************************)
EXTENDS Integers

Slots == {0, 1}
Entries == {0, 1}
NumSlots == 2

States == {"NEW", "PENDING_VERIFY", "VALID", "INVALID", "ABORTED", "UNDEFINED"}

\* ota_seq = UINT32_MAX, the contents of an erased sector.
Erased == [seq |-> 0, state |-> "UNDEFINED"]

Entry == [seq : Nat, state : States]
Otadata == [Entries -> Entry]

\* bootloader_common_ota_select_valid.
IsValid(e) == e.seq # 0 /\ e.state \notin {"INVALID", "ABORTED"}

\* bootloader_common_get_active_otadata: -1 when no entry is valid.
ActiveEntry(o) ==
  IF IsValid(o[0]) /\ (IsValid(o[1]) => o[0].seq >= o[1].seq) THEN 0
  ELSE IF IsValid(o[1]) THEN 1
  ELSE -1

\* esp_ota_calc_slot_from_seq: -1 for an erased entry.
SlotOf(e) == IF e.seq = 0 THEN -1 ELSE (e.seq - 1) % NumSlots

\* find_otadata_idx_for_ota_slot.
EntryForSlot(o, s) ==
  IF SlotOf(o[0]) = s /\ IsValid(o[0]) THEN 0
  ELSE IF SlotOf(o[1]) = s /\ IsValid(o[1]) THEN 1
  ELSE -1

\* esp_ota_get_state_partition_patched: the first entry of the slot decides.
StateOfSlot(o, s) == IF SlotOf(o[0]) = s THEN o[0].state
                     ELSE IF SlotOf(o[1]) = s THEN o[1].state
                     ELSE "UNDEFINED"

\* esp_rewrite_ota_data: the smallest sequence number above seq that the
\* bootloader maps to slot s.
NextSeq(seq, s) ==
  LET base == (s + 1) % NumSlots
      i == IF seq < base THEN 0 ELSE (seq - base + NumSlots) \div NumSlots
  IN base + i * NumSlots

\* The entry whose successor is written when slot s is to be booted next: the
\* one that describes the running image, even where the bootloader passed over
\* a damaged image to get to it.
PreservedEntry(o, run) ==
  LET active == ActiveEntry(o)
      running == EntryForSlot(o, run)
  IN IF active # -1 /\ SlotOf(o[active]) # run /\ running # -1 THEN running ELSE active

\* Mutant: the new image is not put on trial.
NewStateValid == "VALID"

\* set_new_state_otadata, with rollback enabled.
NewState == "NEW"

\* Mutant: the entry of the running image is overwritten.
BootEntryInPlace(o, run, s) ==
  LET kept == PreservedEntry(o, run)
  IN IF kept # -1
     THEN [i |-> kept, e |-> [seq |-> NextSeq(o[kept].seq, s), state |-> NewState]]
     ELSE [i |-> 0, e |-> [seq |-> s + 1, state |-> NewState]]

\* What esp_rewrite_ota_data writes, and into which entry, to boot slot s.
BootEntry(o, run, s) ==
  LET kept == PreservedEntry(o, run)
  IN IF kept # -1
     THEN [i |-> 1 - kept, e |-> [seq |-> NextSeq(o[kept].seq, s), state |-> NewState]]
     ELSE [i |-> 0, e |-> [seq |-> s + 1, state |-> NewState]]
=============================================================================
