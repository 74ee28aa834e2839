------------------------------ MODULE AdvTable ------------------------------
(***************************************************************************)
(* main/adv_table.c: the table of received BLE advertisements.  A fixed     *)
(* array of elements is threaded through a hash table (search by MAC), a    *)
(* history list kept in most-recently-updated order, and three             *)
(* retransmission lists (1: Ruuvi cloud, 2: custom HTTP server, 3: MQTT).   *)
(* Every operation runs under gp_adv_reports_mutex, so it is one action.    *)
(* The callers are other tasks: the UART receiver puts, adv_post drains,    *)
(* reads statistics and clears, adv_mqtt takes the head of list 3, and the  *)
(* HTTP server reads the history.                                           *)
(***************************************************************************)
EXTENDS Integers, Sequences, FiniteSets

CONSTANTS MAX_ADVS_TABLE,  \* number of elements
          Macs,            \* MAC addresses of tags
          NoMac,           \* the MAC of an element that was never used
          Data,            \* advertisement payloads (data_len and data_buf)
          ExtData,         \* the payloads longer than BLE_MAX_REGULAR_ADV_DATA_LEN
          NoData,          \* data_len = 0: the element is free in hist_list
          Buckets,         \* indices of the hash table
          HashIdx,         \* adv_report_calc_hash(mac) % ADV_TABLE_HASH_SIZE
          Lists,           \* the retransmission lists
          MaxTime,         \* bound: last timestamp given to a report
          Word,            \* 2^32, the modulus of time_t and uint32_t
          MaxSamples       \* bound: last value of a samples_counter

ASSUME TableAssumption ==
  /\ MAX_ADVS_TABLE \in Nat \ {0}
  /\ NoMac \notin Macs
  /\ NoData \notin Data
  /\ ExtData \subseteq Data
  /\ HashIdx \in [Macs -> Buckets]
  /\ MaxTime \in Nat \ {0} /\ MaxSamples \in Nat
  /\ Word \in Nat /\ 2 * MaxTime < Word

VARIABLES
  report,      \* g_arr_of_adv_reports[e].adv_report
  in_hash,     \* g_arr_of_adv_reports[e].is_in_hash_table
  hash_table,  \* g_adv_hash_table[b]
  in_list,     \* g_arr_of_adv_reports[e].is_in_retransmission_list<k>
  list,        \* g_adv_reports_retransmission_list<k>
  hist,        \* g_adv_reports_hist_list, head first
  use_ntp,     \* whether timestamps are unix time or the counter of received advs
  now          \* the timestamp the next advertisement gets

tableVars == <<report, in_hash, hash_table, in_list, list, hist>>
vars == <<report, in_hash, hash_table, in_list, list, hist, use_ntp, now>>

Elems == 1..MAX_ADVS_TABLE

Report == [tag_mac : Macs \cup {NoMac}, data : Data \cup {NoData},
           timestamp : Nat, samples_counter : Nat]

FreeReport == [tag_mac |-> NoMac, data |-> NoData, timestamp |-> 0, samples_counter |-> 0]

adv_table_init ==
  /\ report = [e \in Elems |-> FreeReport]
  /\ in_hash = [e \in Elems |-> FALSE]
  /\ hash_table = [b \in Buckets |-> {}]
  /\ in_list = [k \in Lists |-> [e \in Elems |-> FALSE]]
  /\ list = [k \in Lists |-> <<>>]
  /\ hist = [i \in Elems |-> i]

\* Unix time is never 0 once synchronized; the counter of received
\* advertisements is read before the first advertisement is counted.
InitClock == /\ use_ntp \in BOOLEAN
             /\ now = IF use_ntp THEN 1 ELSE 0

Init == adv_table_init /\ InitClock

-----------------------------------------------------------------------------
adv_hash_table_search(m) == {e \in hash_table[HashIdx[m]] : report[e].tag_mac = m}

\* Mutant: the element is not unlinked from the bucket of its previous MAC.
adv_hash_table_move_without_remove(e, m) ==
  /\ hash_table' = [hash_table EXCEPT ![HashIdx[m]] = @ \cup {e}]
  /\ in_hash' = [in_hash EXCEPT ![e] = TRUE]

\* adv_hash_table_remove(e) before the report of e changes, then
\* adv_hash_table_add(e) under the MAC of the new report.
adv_hash_table_move(e, m) ==
  LET removed == IF in_hash[e]
                 THEN [hash_table EXCEPT ![HashIdx[report[e].tag_mac]] = @ \ {e}]
                 ELSE hash_table
  IN /\ hash_table' = [removed EXCEPT ![HashIdx[m]] = @ \cup {e}]
     /\ in_hash' = [in_hash EXCEPT ![e] = TRUE]

check_if_adv_must_be_discarded(d, prev) ==
  \/ prev = d
  \/ prev \in ExtData /\ d \notin ExtData

\* TAILQ_REMOVE and TAILQ_INSERT_HEAD of the element at position p.
MoveToHead(h, p) ==
  [i \in Elems |-> IF i = 1 THEN h[p] ELSE IF i <= p THEN h[i - 1] ELSE h[i]]

\* The tail of adv_table_put_unsafe when flag_updated: the element enters the
\* retransmission lists it is not in, and becomes the head of hist_list.
MarkUpdated(e) ==
  /\ list' = [k \in Lists |-> IF in_list[k][e] THEN list[k] ELSE Append(list[k], e)]
  /\ in_list' = [k \in Lists |-> [in_list[k] EXCEPT ![e] = TRUE]]
  /\ \E p \in Elems : hist[p] = e /\ hist' = MoveToHead(hist, p)

\* No element has the MAC: the last one of hist_list is taken over, even if
\* its report is still waiting in a retransmission list.
PutNew(m, d) ==
  /\ adv_hash_table_search(m) = {}
  /\ LET e == hist[MAX_ADVS_TABLE]
     IN /\ adv_hash_table_move(e, m)
        /\ report' = [report EXCEPT ![e] = [tag_mac |-> m, data |-> d, timestamp |-> now,
                                            samples_counter |-> 0]]
        /\ MarkUpdated(e)

\* Mutant: flag_updated is not set for a tag that is already in the table.
PutChangedUnlisted(m, d) ==
  \E e \in adv_hash_table_search(m) :
    /\ ~check_if_adv_must_be_discarded(d, report[e].data)
    /\ report[e].samples_counter < MaxSamples
    /\ report' = [report EXCEPT ![e] = [tag_mac |-> m, data |-> d, timestamp |-> now,
                                        samples_counter |-> @.samples_counter + 1]]
    /\ UNCHANGED <<in_hash, hash_table, in_list, list, hist>>

PutChanged(m, d) ==
  \E e \in adv_hash_table_search(m) :
    /\ ~check_if_adv_must_be_discarded(d, report[e].data)
    /\ report[e].samples_counter < MaxSamples
    /\ report' = [report EXCEPT ![e] = [tag_mac |-> m, data |-> d, timestamp |-> now,
                                        samples_counter |-> @.samples_counter + 1]]
    /\ MarkUpdated(e)
    /\ UNCHANGED <<in_hash, hash_table>>

\* Mutants: a repeated report refreshes the timestamp, or counts downwards.
PutRepeatedRefresh(m, d) ==
  \E e \in adv_hash_table_search(m) :
    /\ check_if_adv_must_be_discarded(d, report[e].data)
    /\ report[e].samples_counter < MaxSamples
    /\ report' = [report EXCEPT ![e].samples_counter = @ + 1, ![e].timestamp = now]
    /\ UNCHANGED <<in_hash, hash_table, in_list, list, hist>>
PutRepeatedDown(m, d) ==
  \E e \in adv_hash_table_search(m) :
    /\ check_if_adv_must_be_discarded(d, report[e].data)
    /\ report[e].samples_counter < MaxSamples
    /\ report' = [report EXCEPT ![e].samples_counter = @ - 1]
    /\ UNCHANGED <<in_hash, hash_table, in_list, list, hist>>

PutRepeated(m, d) ==
  \E e \in adv_hash_table_search(m) :
    /\ check_if_adv_must_be_discarded(d, report[e].data)
    /\ report[e].samples_counter < MaxSamples
    /\ report' = [report EXCEPT ![e].samples_counter = @ + 1]
    /\ UNCHANGED <<in_hash, hash_table, in_list, list, hist>>

\* adv_put_to_table: metrics_received_advs_increment, then adv_table_put.  The
\* timestamp was read before, so without NTP the next one is greater by one.
adv_put_to_table(m, d) ==
  /\ use_ntp \/ now < MaxTime
  /\ PutNew(m, d) \/ PutChanged(m, d) \/ PutRepeated(m, d)
  /\ now' = IF use_ntp THEN now ELSE now + 1
  /\ UNCHANGED use_ntp

\* Mutant: is_in_retransmission_list is not reset.
DrainKeepsFlags(k) ==
  /\ list[k] # <<>>
  /\ list' = [list EXCEPT ![k] = <<>>]
  /\ UNCHANGED <<report, in_hash, hash_table, in_list, hist, use_ntp, now>>

\* The loop removes every element, and one more without copying it should the
\* output table be full.
adv_table_read_retransmission_list_and_clear(k) ==
  LET n    == Len(list[k])
      last == IF n <= MAX_ADVS_TABLE THEN n ELSE MAX_ADVS_TABLE + 1
      gone == {list[k][i] : i \in 1..last}
  IN /\ n > 0
     /\ list' = [list EXCEPT ![k] = SubSeq(list[k], last + 1, n)]
     /\ in_list' = [in_list EXCEPT ![k] = [e \in Elems |-> e \notin gone /\ in_list[k][e]]]
     /\ UNCHANGED <<report, in_hash, hash_table, hist, use_ntp, now>>

adv_table_read_retransmission_list_head(k) ==
  /\ list[k] # <<>>
  /\ list' = [list EXCEPT ![k] = Tail(list[k])]
  /\ in_list' = [in_list EXCEPT ![k][Head(list[k])] = FALSE]
  /\ UNCHANGED <<report, in_hash, hash_table, hist, use_ntp, now>>

\* The positions of hist_list before the first one where the scan breaks.
ScannedUpTo(stop(_)) ==
  {i \in Elems : \A j \in 1..i : ~stop(report[hist[j]])}

\* The value a uint32_t gets, and the one an int32_t gets.
ToUint(x) == x % Word
ToInt(x) == IF 2 * ToUint(x) < Word THEN ToUint(x) ELSE ToUint(x) - Word

\* Mutant: >= for >.
history_read_off_by_one(cur_time, filter, use_filter) ==
  ScannedUpTo(LAMBDA r :
    \/ r.data = NoData
    \/ use_filter /\ IF use_ntp THEN ToUint(cur_time - r.timestamp) >= filter
                                ELSE ToInt(r.timestamp - filter) <= 0)

\* The reports adv_table_history_read copies, by position in hist_list.  The
\* HTTP task has read cur_time before it gets the mutex, so reports may have
\* been put since; the age of one that is newer wraps around, as filter is
\* unsigned.
adv_table_history_read(cur_time, filter, use_filter) ==
  ScannedUpTo(LAMBDA r :
    \/ r.data = NoData
    \/ use_filter /\ IF use_ntp THEN ToUint(cur_time - r.timestamp) > filter
                                ELSE ToInt(r.timestamp - filter) <= 0)

StatisticsPositions == ScannedUpTo(LAMBDA r : r.timestamp = 0)

adv_table_statistics_read ==
  /\ LET read == {hist[i] : i \in StatisticsPositions}
     IN report' = [e \in Elems |-> IF e \in read THEN [report[e] EXCEPT !.samples_counter = 0]
                                                ELSE report[e]]
  /\ UNCHANGED <<in_hash, hash_table, in_list, list, hist, use_ntp, now>>

\* Mutants: the lists are kept, or the timestamps are.
clear_keeps_lists ==
  /\ report' = [e \in Elems |-> [report[e] EXCEPT !.timestamp = 0, !.samples_counter = 0,
                                                  !.data = NoData]]
  /\ UNCHANGED <<in_hash, hash_table, in_list, list, hist, use_ntp, now>>
clear_keeps_timestamps ==
  /\ list' = [k \in Lists |-> <<>>]
  /\ in_list' = [k \in Lists |-> [e \in Elems |-> FALSE]]
  /\ report' = [e \in Elems |-> [report[e] EXCEPT !.samples_counter = 0, !.data = NoData]]
  /\ UNCHANGED <<in_hash, hash_table, hist, use_ntp, now>>

\* The elements stay in the hash table under their MACs.
adv_table_clear ==
  /\ list' = [k \in Lists |-> <<>>]
  /\ in_list' = [k \in Lists |-> [e \in Elems |-> FALSE]]
  /\ report' = [e \in Elems |-> [report[e] EXCEPT !.timestamp = 0, !.samples_counter = 0,
                                                  !.data = NoData]]
  /\ UNCHANGED <<in_hash, hash_table, hist, use_ntp, now>>

\* External: seconds pass on the synchronized clock.
Tick == /\ use_ntp /\ now < MaxTime
        /\ now' = now + 1
        /\ UNCHANGED <<report, in_hash, hash_table, in_list, list, hist, use_ntp>>

Next == \/ \E m \in Macs, d \in Data : adv_put_to_table(m, d)
        \/ \E k \in Lists : adv_table_read_retransmission_list_and_clear(k)
        \/ \E k \in Lists \cap {3} : adv_table_read_retransmission_list_head(k)
        \/ adv_table_statistics_read
        \/ adv_table_clear
        \/ Tick

Spec == Init /\ [][Next]_vars
-----------------------------------------------------------------------------
(* Properties *)

\* Every field keeps its type; hist_list always links all elements.
TypeOK ==
  /\ report \in [Elems -> Report]
  /\ in_hash \in [Elems -> BOOLEAN]
  /\ hash_table \in [Buckets -> SUBSET Elems]
  /\ in_list \in [Lists -> [Elems -> BOOLEAN]]
  /\ list \in [Lists -> Seq(Elems)]
  /\ hist \in [Elems -> Elems]
  /\ use_ntp \in BOOLEAN
  /\ now \in Nat

Live(e) == report[e].data # NoData

\* adv_hash_table_search can be trusted: an element is linked in the bucket of
\* its own MAC and in no other, and no MAC is stored twice, although elements
\* are taken over by other MACs and survive adv_table_clear (adv_table.c:111-152).
HashTableExact ==
  /\ \A e \in Elems : report[e].tag_mac = NoMac <=> ~in_hash[e]
  /\ \A e \in Elems, b \in Buckets :
       e \in hash_table[b] <=> in_hash[e] /\ HashIdx[report[e].tag_mac] = b
  /\ \A e, f \in Elems :
       in_hash[e] /\ report[e].tag_mac = report[f].tag_mac => e = f

\* The is_in_retransmission_list flags agree with the links, so an element is
\* linked at most once in a list; this is what keeps the singly linked lists
\* acyclic (adv_table.c:209-223, 239-350, 445-507).
ListFlagsExact ==
  \A k \in Lists :
    /\ \A e \in Elems : in_list[k][e] <=> \E i \in 1..Len(list[k]) : list[k][i] = e
    /\ \A i, j \in 1..Len(list[k]) : list[k][i] = list[k][j] => i = j

\* A list never outgrows the table its reader copies it to, so the extra
\* element that a full output table would drop does not exist (adv_table.c:252-255).
ListsFitOutputTable == \A k \in Lists : Len(list[k]) <= MAX_ADVS_TABLE

\* Only reports that hold data wait in a retransmission list, also after
\* adv_table_clear and after an element was taken over by another MAC.
ListedReportsAreLive == \A k \in Lists, e \in Elems : in_list[k][e] => Live(e)

\* hist_list is a permutation of the elements.
HistIsPermutation ==
  /\ \A i, j \in Elems : hist[i] = hist[j] => i = j
  /\ \A e \in Elems : \E i \in Elems : hist[i] = e

\* The reports that hold data are a prefix of hist_list, so the last element is
\* a free one as long as there is one and a put forces a tag out only when the
\* table is full (adv_table.c:185, 378).
LivePrefix == \A i, j \in Elems : i < j /\ Live(hist[j]) => Live(hist[i])

\* Timestamps do not increase along hist_list: the scans of hist_list stop at
\* the first report that is too old (adv_table.c:378-396, 427-430).
HistSorted ==
  /\ \A e \in Elems : report[e].timestamp <= now
  /\ \A e \in Elems : ~Live(e) => report[e].timestamp = 0
  /\ \A i, j \in Elems : i < j => report[hist[j]].timestamp <= report[hist[i]].timestamp

\* Whatever time the HTTP task read before it got the mutex, a history request
\* returns exactly the live reports its filter selects, although the scan stops
\* at the first one that does not match; the one exception is a report put in
\* between with a newer unix time, which makes the answer empty
\* (adv_table.c:378-396, http_server_cb_on_get.c:343-350).
HistoryReadComplete ==
  \A cur_time \in 0..now, filter \in 0..MaxTime, use_filter \in BOOLEAN :
    LET Overtaken == /\ use_ntp /\ use_filter
                     /\ \E e \in Elems : Live(e) /\ report[e].timestamp > cur_time
        Selected(e) == use_filter => IF use_ntp THEN cur_time - report[e].timestamp <= filter
                                                ELSE report[e].timestamp > filter
    IN {hist[i] : i \in adv_table_history_read(cur_time, filter, use_filter)} =
         {e \in Elems : Live(e) /\ ~Overtaken /\ Selected(e)}

\* Statistics covers all live reports except an advertisement that came first
\* after the start without NTP, whose timestamp is the counter value 0.
StatisticsReadComplete ==
  {hist[i] : i \in StatisticsPositions} =
    {e \in Elems : Live(e) /\ report[e].timestamp # 0}

LiveElems == {e \in Elems : Live(e)}

MacsOf(S) == {report[e].tag_mac : e \in S}

ElemOf(m) == CHOOSE e \in LiveElems : report[e].tag_mac = m

\* The table as its users see it.
Recent == [i \in 1..Cardinality(LiveElems) |-> report[hist[i]].tag_mac]
Reports == [m \in MacsOf(LiveElems) |->
              [data |-> report[ElemOf(m)].data,
               timestamp |-> report[ElemOf(m)].timestamp,
               samples_counter |-> report[ElemOf(m)].samples_counter]]
Pending == [k \in Lists |-> MacsOf({list[k][i] : i \in 1..Len(list[k])})]

Store == INSTANCE AdvStore WITH Capacity <- MAX_ADVS_TABLE,
                                recent <- Recent, store <- Reports, pending <- Pending

\* The linked table behaves as the bounded store of AdvStore: no changed report
\* is forgotten by a list unless its tag is forced out of a full table or the
\* table is cleared, and readers get the latest report of every tag.
ImplementsStore == Store!Spec
=============================================================================
