------------------------ MODULE AdvTableStoreProofs -------------------------
(***************************************************************************)
(* Proof that AdvTable implements AdvStore, for every table size, set of    *)
(* tags, payloads and retransmission lists.                                  *)
(***************************************************************************)
EXTENDS AdvTableProofs

\* A report that holds data can be found by its MAC.
LiveInHash == \A e \in Elems : Live(e) => in_hash[e]

\* A free element has nothing counted.
FreeIsUncounted == \A e \in Elems : ~Live(e) => report[e].samples_counter = 0

StoreInv == TableInv /\ LiveInHash /\ FreeIsUncounted

\* How many reports hold data.
NLive == Cardinality(LiveElems)

EntryOf(r) == [data |-> r.data, timestamp |-> r.timestamp, samples_counter |-> r.samples_counter]

\* The users' view in terms of the elements.
ViewOK ==
  /\ NLive \in 0..MAX_ADVS_TABLE
  /\ \A i \in Elems : Live(hist[i]) <=> i <= NLive
  /\ Recent = [i \in 1..NLive |-> report[hist[i]].tag_mac]
  /\ Recent \in Seq(Macs) /\ Len(Recent) = NLive
  /\ Store!Known = {report[e].tag_mac : e \in LiveElems}
  /\ \A e \in LiveElems : report[e].tag_mac \in Macs
  /\ \A e, f \in Elems : Live(e) /\ report[e].tag_mac = report[f].tag_mac => e = f
  /\ DOMAIN Reports = {report[e].tag_mac : e \in LiveElems}
  /\ Reports = [m \in DOMAIN Reports |-> Reports[m]]
  /\ \A e \in LiveElems : Reports[report[e].tag_mac] = EntryOf(report[e])
  /\ Pending = [k \in Lists |-> {report[e].tag_mac : e \in {f \in Elems : in_list[k][f]}}]

-----------------------------------------------------------------------------
(* The live reports are the first ones of hist_list.                       *)

\* The live reports are exactly the first NLive ones of hist_list.
LEMMA LiveCount ==
  ASSUME TableInv
  PROVE  /\ IsFiniteSet(LiveElems)
         /\ NLive \in 0..MAX_ADVS_TABLE
         /\ \A i \in Elems : Live(hist[i]) <=> i <= NLive
<1> DEFINE P == {i \in Elems : Live(hist[i])}
<1>0. MAX_ADVS_TABLE \in Nat /\ Elems = 1..MAX_ADVS_TABLE
  BY TableAssumption DEF Elems
<1>1. /\ hist \in [Elems -> Elems]
      /\ \A i, j \in Elems : hist[i] = hist[j] => i = j
      /\ \A e \in Elems : \E i \in Elems : hist[i] = e
      /\ \A i, j \in Elems : i < j /\ Live(hist[j]) => Live(hist[i])
  BY DEF TableInv, TypeOK, HistIsPermutation, LivePrefix
<1>2. IsFiniteSet(Elems) /\ Cardinality(Elems) = MAX_ADVS_TABLE
  BY <1>0, FS_Interval
<1>3. IsFiniteSet(P)
  BY <1>2, FS_Subset
<1>4. IsFiniteSet(LiveElems) /\ NLive <= MAX_ADVS_TABLE /\ NLive \in Nat
  BY <1>2, FS_Subset, FS_CardinalityType DEF LiveElems, NLive
<1>5. Cardinality(P) = NLive
  <2> DEFINE f == [i \in P |-> hist[i]]
  <2>1. f \in [P -> LiveElems] /\ DOMAIN f = P
    BY <1>1 DEF LiveElems
  <2>2. \A i, j \in P : f[i] = f[j] => i = j
    BY <1>1
  <2>3. \A e \in LiveElems : \E i \in P : f[i] = e
    BY <1>1 DEF LiveElems
  <2> HIDE DEF f, P
  <2>4. f \in Bijection(P, LiveElems)
    BY <2>1, <2>2, <2>3 DEF Bijection, Injection, Surjection, IsInjective
  <2> QED
    BY <1>3, <2>4, FS_Bijection DEF ExistsBijection, NLive
<1>6. ASSUME NEW i \in P PROVE i <= NLive
  <2>1. 1..i \in SUBSET P
    BY <1>0, <1>1
  <2>2. Cardinality(1..i) <= Cardinality(P)
    BY <1>3, <2>1, FS_Subset
  <2>3. i \in Nat /\ Cardinality(1..i) = i
    BY <1>0, FS_Interval
  <2> QED
    BY <1>5, <2>2, <2>3
<1>7. P \in SUBSET (1..NLive)
  BY <1>0, <1>4, <1>6
<1>8. IsFiniteSet(1..NLive) /\ Cardinality(1..NLive) = NLive
  BY <1>4, FS_Interval
<1>9. P = 1..NLive
  BY <1>5, <1>7, <1>8, FS_Subset
<1>10. \A i \in Elems : Live(hist[i]) <=> i <= NLive
  BY <1>0, <1>4, <1>9
<1> QED
  BY <1>0, <1>4, <1>10

\* Every part of the users' view follows from the invariant.
LEMMA Views == StoreInv => ViewOK
<1> SUFFICES ASSUME StoreInv PROVE ViewOK
  OBVIOUS
<1>0. MAX_ADVS_TABLE \in Nat /\ Elems = 1..MAX_ADVS_TABLE
  BY TableAssumption DEF Elems
<1>1. NLive \in 0..MAX_ADVS_TABLE /\ \A i \in Elems : Live(hist[i]) <=> i <= NLive
  BY LiveCount DEF StoreInv
<1>2. /\ hist \in [Elems -> Elems] /\ report \in [Elems -> Report]
      /\ \A e \in Elems : \E i \in Elems : hist[i] = e
  BY DEF StoreInv, TableInv, TypeOK, HistIsPermutation
<1>3. /\ \A e \in Elems : Live(e) => in_hash[e] /\ report[e].tag_mac # NoMac
      /\ \A e, f \in Elems : Live(e) /\ report[e].tag_mac = report[f].tag_mac => e = f
  BY DEF StoreInv, LiveInHash, TableInv, HashTableExact
<1>4. \A e \in Elems : Live(e) => report[e].tag_mac \in Macs
  BY <1>2, <1>3 DEF Report
<1>5. \A e \in LiveElems : report[e].tag_mac \in Macs
  BY <1>4 DEF LiveElems
<1>6. \A i \in 1..NLive : i \in Elems /\ Live(hist[i]) /\ hist[i] \in Elems
  BY <1>0, <1>1, <1>2
<1>7. Recent = [i \in 1..NLive |-> report[hist[i]].tag_mac]
  BY DEF Recent, NLive
<1>8. Recent \in Seq(Macs) /\ Len(Recent) = NLive /\ \A i \in 1..NLive : Recent[i] = report[hist[i]].tag_mac
  <2>1. \A i \in 1..NLive : report[hist[i]].tag_mac \in Macs
    BY <1>4, <1>6
  <2>2. NLive \in Nat
    BY <1>0, <1>1
  <2> QED
    BY <1>7, <2>1, <2>2
<1>9. Store!Known = {report[e].tag_mac : e \in LiveElems}
  <2>1. Store!Known = {report[hist[i]].tag_mac : i \in 1..NLive}
    BY <1>8 DEF Store!Known
  <2>2. LiveElems = {hist[i] : i \in 1..NLive}
    <3>1. \A e \in LiveElems : \E i \in 1..NLive : hist[i] = e
      BY <1>0, <1>1, <1>2 DEF LiveElems
    <3> QED
      BY <1>6, <3>1 DEF LiveElems
  <2> QED
    BY <2>1, <2>2
<1>10. ASSUME NEW e \in LiveElems
       PROVE  Reports[report[e].tag_mac] = EntryOf(report[e])
  <2>1. ElemOf(report[e].tag_mac) = e
    BY <1>3 DEF ElemOf, LiveElems
  <2>2. report[e].tag_mac \in MacsOf(LiveElems)
    BY DEF MacsOf
  <2> QED
    BY <2>1, <2>2 DEF Reports, EntryOf
<1>11. \A k \in Lists : {list[k][i] : i \in 1..Len(list[k])} = {e \in Elems : in_list[k][e]}
  <2> TAKE k \in Lists
  <2>1. \A i \in 1..Len(list[k]) : list[k][i] \in Elems
    BY DEF StoreInv, TableInv, TypeOK
  <2> QED
    BY <2>1 DEF StoreInv, TableInv, ListFlagsExact
<1>12. Pending = [k \in Lists |-> {report[e].tag_mac : e \in {f \in Elems : in_list[k][f]}}]
  BY <1>11 DEF Pending, MacsOf
<1>13. /\ DOMAIN Reports = {report[e].tag_mac : e \in LiveElems}
       /\ Reports = [m \in DOMAIN Reports |-> Reports[m]]
  BY DEF Reports, MacsOf
<1> QED
  BY <1>1, <1>3, <1>5, <1>7, <1>8, <1>9, <1>10, <1>12, <1>13 DEF ViewOK

-----------------------------------------------------------------------------
(* The invariant.                                                          *)

\* adv_table_init establishes it: no element holds data.
LEMMA InitStoreInv == Init => StoreInv
<1> SUFFICES ASSUME Init PROVE StoreInv
  OBVIOUS
<1>1. TableInv
  BY InitTableInv
<1> QED
  BY <1>1 DEF Init, adv_table_init, FreeReport, StoreInv, LiveInHash, FreeIsUncounted, Live

\* The element of a put is linked in the hash table afterwards and holds data.
LEMMA PutKeepsLive ==
  ASSUME StoreInv, NEW e \in Elems, NEW r \in Report, r.data # NoData,
         report' = [report EXCEPT ![e] = r],
         in_hash'[e], \A f \in Elems : in_hash[f] => in_hash'[f]
  PROVE  LiveInHash' /\ FreeIsUncounted'
<1>1. \A f \in Elems : report'[f] = IF f = e THEN r ELSE report[f]
  BY DEF StoreInv, TableInv, TypeOK
<1> QED
  BY <1>1 DEF StoreInv, LiveInHash, FreeIsUncounted, Live

\* What search returns is an element that is linked under the MAC.
LEMMA SearchFacts ==
  ASSUME TableInv, NEW m \in Macs
  PROVE  /\ \A e \in adv_hash_table_search(m) : e \in Elems /\ in_hash[e] /\ report[e].tag_mac = m
         /\ \A e \in Elems : in_hash[e] /\ report[e].tag_mac = m => e \in adv_hash_table_search(m)
<1>1. HashIdx[m] \in Buckets /\ hash_table[HashIdx[m]] \subseteq Elems
  BY TableAssumption DEF TableInv, TypeOK
<1> QED
  BY <1>1 DEF TableInv, HashTableExact, adv_hash_table_search

\* A put of any kind.
LEMMA PutKeepsStoreInv ==
  ASSUME StoreInv, TableInv', NEW m \in Macs, NEW d \in Data,
         PutNew(m, d) \/ PutChanged(m, d) \/ PutRepeated(m, d)
  PROVE  StoreInv'
<1>0. /\ TableInv /\ report \in [Elems -> Report] /\ in_hash \in [Elems -> BOOLEAN]
      /\ hist \in [Elems -> Elems] /\ now \in Nat /\ d # NoData
  BY TableAssumption DEF StoreInv, TableInv, TypeOK
<1>1. CASE PutNew(m, d)
  <2> DEFINE e == hist[MAX_ADVS_TABLE]
             r == [tag_mac |-> m, data |-> d, timestamp |-> now, samples_counter |-> 0]
  <2>1. e \in Elems /\ r \in Report /\ r.data # NoData
    BY <1>0, ElemsFacts DEF Report
  <2>2. report' = [report EXCEPT ![e] = r] /\ in_hash' = [in_hash EXCEPT ![e] = TRUE]
    BY <1>1 DEF PutNew, adv_hash_table_move
  <2> HIDE DEF e, r
  <2> QED
    BY <1>0, <2>1, <2>2, PutKeepsLive DEF StoreInv
<1>2. CASE PutChanged(m, d)
  <2>1. PICK e \in adv_hash_table_search(m) :
          /\ report' = [report EXCEPT ![e] = [tag_mac |-> m, data |-> d, timestamp |-> now,
                                              samples_counter |-> @.samples_counter + 1]]
          /\ UNCHANGED in_hash
    BY <1>2 DEF PutChanged
  <2>2. e \in Elems /\ in_hash[e]
    BY <1>0, SearchFacts
  <2> DEFINE r == [tag_mac |-> m, data |-> d, timestamp |-> now,
                   samples_counter |-> report[e].samples_counter + 1]
  <2>3. r \in Report /\ r.data # NoData /\ report' = [report EXCEPT ![e] = r]
    BY <1>0, <2>1, <2>2 DEF Report
  <2> HIDE DEF r
  <2> QED
    BY <1>0, <2>1, <2>2, <2>3, PutKeepsLive DEF StoreInv
<1>3. CASE PutRepeated(m, d)
  <2>1. PICK e \in adv_hash_table_search(m) :
          /\ check_if_adv_must_be_discarded(d, report[e].data)
          /\ report' = [report EXCEPT ![e].samples_counter = @ + 1]
          /\ UNCHANGED in_hash
    BY <1>3 DEF PutRepeated
  <2>2. e \in Elems /\ in_hash[e]
    BY <1>0, SearchFacts
  <2> DEFINE r == [report[e] EXCEPT !.samples_counter = @ + 1]
  <2>3. r \in Report /\ r.data # NoData /\ report' = [report EXCEPT ![e] = r]
    <3>1. report[e].data # NoData
      BY <1>0, <2>1, TableAssumption DEF check_if_adv_must_be_discarded
    <3> QED
      BY <1>0, <2>1, <2>2, <3>1 DEF Report
  <2> HIDE DEF r
  <2> QED
    BY <1>0, <2>1, <2>2, <2>3, PutKeepsLive DEF StoreInv
<1> QED
  BY <1>1, <1>2, <1>3

\* Every operation keeps it.
LEMMA NextStoreInv == StoreInv /\ [Next]_vars => StoreInv'
<1> SUFFICES ASSUME StoreInv, [Next]_vars PROVE StoreInv'
  OBVIOUS
<1>0. TableInv' /\ report \in [Elems -> Report]
  BY NextTableInv DEF StoreInv, TableInv, TypeOK
<1>1. ASSUME NEW m \in Macs, NEW d \in Data, adv_put_to_table(m, d)
      PROVE  StoreInv'
  BY <1>0, <1>1, PutKeepsStoreInv DEF adv_put_to_table
<1>2. ASSUME UNCHANGED <<report, in_hash>>
      PROVE  StoreInv'
  BY <1>0, <1>2 DEF StoreInv, LiveInHash, FreeIsUncounted, Live
<1>3. CASE adv_table_statistics_read
  <2>1. ASSUME NEW e \in Elems
        PROVE  /\ report'[e].data = report[e].data
               /\ report'[e].samples_counter \in {0, report[e].samples_counter}
               /\ in_hash'[e] = in_hash[e]
    <3>1. report[e] \in Report
      BY <1>0
    <3>2. report'[e] = report[e] \/ report'[e] = [report[e] EXCEPT !.samples_counter = 0]
      BY <1>3 DEF adv_table_statistics_read
    <3> QED
      BY <1>3, <3>1, <3>2 DEF Report, adv_table_statistics_read
  <2> QED
    BY <1>0, <2>1 DEF StoreInv, LiveInHash, FreeIsUncounted, Live
<1>4. CASE adv_table_clear
  <2>1. ASSUME NEW e \in Elems
        PROVE  report'[e].data = NoData /\ report'[e].samples_counter = 0
    <3>1. report[e] \in Report
      BY <1>0
    <3>2. report'[e] = [report[e] EXCEPT !.timestamp = 0, !.samples_counter = 0, !.data = NoData]
      BY <1>4 DEF adv_table_clear
    <3> QED
      BY <3>1, <3>2 DEF Report
  <2> QED
    BY <1>0, <2>1 DEF StoreInv, LiveInHash, FreeIsUncounted, Live
<1> QED
  BY <1>1, <1>2, <1>3, <1>4
     DEF Next, vars, Tick, adv_table_read_retransmission_list_and_clear,
         adv_table_read_retransmission_list_head

-----------------------------------------------------------------------------
(* The steps: first the ones that leave hist_list alone.                   *)

\* The view of the next state.
LEMMA ViewsNext ==
  ASSUME StoreInv'
  PROVE  ViewOK'
<1>1. (StoreInv => ViewOK)'
  BY Views, PTL
<1> QED
  BY <1>1

\* A repeated advertisement is counted (adv_table.c:201-206).
LEMMA RepeatedCounts ==
  ASSUME StoreInv, StoreInv', NEW m \in Macs, NEW d \in Data, PutRepeated(m, d)
  PROVE  Store!Count(m, d)
<1>0. /\ TableInv /\ report \in [Elems -> Report] /\ d # NoData
      /\ in_list \in [Lists -> [Elems -> BOOLEAN]]
  BY TableAssumption DEF StoreInv, TableInv, TypeOK
<1>1. PICK e \in adv_hash_table_search(m) :
        /\ check_if_adv_must_be_discarded(d, report[e].data)
        /\ report' = [report EXCEPT ![e].samples_counter = @ + 1]
        /\ UNCHANGED <<in_hash, hash_table, in_list, list, hist>>
  BY DEF PutRepeated
<1>2. e \in Elems /\ report[e].tag_mac = m
  BY <1>0, SearchFacts
<1> DEFINE r == [report[e] EXCEPT !.samples_counter = @ + 1]
<1>3. /\ r.tag_mac = m /\ r.data = report[e].data
      /\ EntryOf(r) = [EntryOf(report[e]) EXCEPT !.samples_counter = @ + 1]
      /\ \A f \in Elems : report'[f] = IF f = e THEN r ELSE report[f]
  <2>1. report[e] \in Report
    BY <1>0, <1>2
  <2> QED
    BY <1>0, <1>1, <1>2, <2>1 DEF Report, EntryOf
<1> HIDE DEF r
<1>4. report[e].data # NoData
  BY <1>0, <1>1, TableAssumption DEF check_if_adv_must_be_discarded
<1>5. \A f \in Elems : report'[f].tag_mac = report[f].tag_mac /\ report'[f].data = report[f].data
  BY <1>2, <1>3
<1>6. LiveElems' = LiveElems /\ e \in LiveElems /\ NLive' = NLive
  BY <1>2, <1>4, <1>5 DEF LiveElems, Live, NLive
<1>7. LiveElems \subseteq Elems
  BY DEF LiveElems
<1> USE Views, ViewsNext
<1>8. Recent' = Recent
  <2>1. \A i \in 1..NLive : hist[i] \in Elems
    <3>1. hist \in [Elems -> Elems] /\ NLive \in 0..MAX_ADVS_TABLE
      BY DEF ViewOK, StoreInv, TableInv, TypeOK
    <3> QED
      BY <3>1, TableAssumption DEF Elems
  <2>2. /\ Recent = [i \in 1..NLive |-> report[hist[i]].tag_mac]
        /\ Recent' = [i \in 1..NLive' |-> report'[hist'[i]].tag_mac]
    BY DEF ViewOK
  <2> QED
    BY <1>1, <1>5, <1>6, <2>1, <2>2
<1>9. Pending' = Pending
  <2>1. /\ Pending = [k \in Lists |-> {report[f].tag_mac : f \in {g \in Elems : in_list[k][g]}}]
        /\ Pending' = [k \in Lists |-> {report'[f].tag_mac : f \in {g \in Elems : in_list'[k][g]}}]
    BY DEF ViewOK
  <2>2. \A k \in Lists : {report'[f].tag_mac : f \in {g \in Elems : in_list'[k][g]}} =
                           {report[f].tag_mac : f \in {g \in Elems : in_list[k][g]}}
    BY <1>1, <1>5
  <2> QED
    BY <2>1, <2>2
<1>10. m \in Store!Known
  BY <1>2, <1>6 DEF ViewOK
<1>11. Reports[m] = EntryOf(report[e])
  BY <1>2, <1>6 DEF ViewOK
<1>12. Store!Repeated(m, d)
  BY <1>1, <1>11 DEF Store!Repeated, check_if_adv_must_be_discarded, EntryOf
<1>13. Reports' = [Reports EXCEPT ![m].samples_counter = @ + 1]
  <2> DEFINE K == {report[f].tag_mac : f \in LiveElems}
  <2>1. K = {report'[f].tag_mac : f \in LiveElems'}
    BY <1>5, <1>6, <1>7
  <2>2. /\ DOMAIN Reports = K /\ DOMAIN Reports' = K
        /\ Reports = [x \in K |-> Reports[x]]
        /\ Reports' = [x \in K |-> Reports'[x]]
    BY <2>1 DEF ViewOK
  <2>3. ASSUME NEW x \in K
        PROVE  Reports'[x] = IF x = m THEN [Reports[m] EXCEPT !.samples_counter = @ + 1]
                                      ELSE Reports[x]
    <3>1. PICK f \in LiveElems : x = report[f].tag_mac
      OBVIOUS
    <3>2. f \in Elems /\ report'[f].tag_mac = x /\ f \in LiveElems'
      BY <1>5, <1>6, <1>7, <3>1
    <3>3. Reports[x] = EntryOf(report[f])
      BY <3>1 DEF ViewOK
    <3>4. Reports'[x] = EntryOf(report'[f])
      BY <3>2 DEF ViewOK, EntryOf
    <3>5. x = m <=> f = e
      BY <1>2, <1>4, <3>1, <3>2 DEF ViewOK, Live
    <3> QED
      BY <1>3, <1>11, <3>2, <3>3, <3>4, <3>5
  <2> HIDE DEF K
  <2> QED
    BY <1>2, <1>6, <1>10, <2>2, <2>3
<1> QED
  BY <1>8, <1>9, <1>10, <1>12, <1>13 DEF Store!Count

\* The view does not change when only links and flags of list k do.
LEMMA ListStep ==
  ASSUME StoreInv, StoreInv', UNCHANGED <<report, hist>>
  PROVE  Recent' = Recent /\ Reports' = Reports
BY DEF Recent, Reports, LiveElems, Live, MacsOf, ElemOf

\* Reading a list to its end (adv_table.c:239-327).
LEMMA ReadDrains ==
  ASSUME StoreInv, StoreInv', NEW k \in Lists, adv_table_read_retransmission_list_and_clear(k)
  PROVE  Store!Drain(k)
<1> DEFINE n == Len(list[k])
<1>1. list[k] \in Seq(Elems) /\ n \in Nat /\ n <= MAX_ADVS_TABLE /\ list \in [Lists -> Seq(Elems)]
  BY ListLength DEF StoreInv, TableInv, TypeOK, ListsFitOutputTable
<1>2. /\ list' = [list EXCEPT ![k] = SubSeq(list[k], n + 1, n)]
      /\ UNCHANGED <<report, hist, now>>
  BY <1>1 DEF adv_table_read_retransmission_list_and_clear
<1>3. SubSeq(list[k], n + 1, n) = <<>>
  BY <1>1
<1>4. list' = [list EXCEPT ![k] = <<>>]
  BY <1>2, <1>3
<1>5. Pending' = [Pending EXCEPT ![k] = {}]
  <2>1. Pending = [l \in Lists |-> {report[e].tag_mac : e \in {list[l][i] : i \in 1..Len(list[l])}}]
    BY DEF Pending, MacsOf
  <2>2. Pending' = [l \in Lists |-> {report[e].tag_mac : e \in {list'[l][i] : i \in 1..Len(list'[l])}}]
    BY <1>2 DEF Pending, MacsOf
  <2>3. /\ \A l \in Lists : l # k => list'[l] = list[l]
        /\ list'[k] = <<>>
    BY <1>1, <1>4
  <2> DEFINE Q(l) == {report[e].tag_mac : e \in {list[l][i] : i \in 1..Len(list[l])}}
             R(l) == {report[e].tag_mac : e \in {list'[l][i] : i \in 1..Len(list'[l])}}
  <2>4. R(k) = {} /\ \A l \in Lists : l # k => R(l) = Q(l)
    BY <2>3
  <2>5. Pending = [l \in Lists |-> Q(l)] /\ Pending' = [l \in Lists |-> R(l)]
    BY <2>1, <2>2
  <2> HIDE DEF Q, R
  <2> QED
    BY <2>4, <2>5
<1> QED
  BY <1>2, <1>5, ListStep DEF Store!Drain

\* Taking the head of a list (adv_table.c:329-359).
LEMMA HeadTakesOne ==
  ASSUME StoreInv, StoreInv', NEW k \in Lists, adv_table_read_retransmission_list_head(k)
  PROVE  Store!TakeOne(k)
<1> DEFINE x == Head(list[k])
<1>1. /\ list[k] \in Seq(Elems) /\ list[k] # <<>>
      /\ in_list' = [in_list EXCEPT ![k][x] = FALSE]
      /\ UNCHANGED <<report, hist, now>>
      /\ in_list \in [Lists -> [Elems -> BOOLEAN]]
  BY DEF adv_table_read_retransmission_list_head, StoreInv, TableInv, TypeOK
<1>2. x \in Elems /\ in_list[k][x]
  BY <1>1 DEF StoreInv, TableInv, ListFlagsExact
<1>3. Live(x)
  BY <1>2 DEF StoreInv, TableInv, ListedReportsAreLive
<1> HIDE DEF x
<1>4. /\ \A l \in Lists : l # k => in_list'[l] = in_list[l]
      /\ \A e \in Elems : in_list'[k][e] <=> e # x /\ in_list[k][e]
  BY <1>1, <1>2
<1> DEFINE m == report[x].tag_mac
           Q(l) == {report[e].tag_mac : e \in {f \in Elems : in_list[l][f]}}
           R(l) == {report[e].tag_mac : e \in {f \in Elems : in_list'[l][f]}}
<1>5. Pending = [l \in Lists |-> Q(l)]
  BY Views DEF ViewOK
<1>6. Pending' = [l \in Lists |-> R(l)]
  <2>1. Pending' = [l \in Lists |-> {report'[e].tag_mac : e \in {f \in Elems : in_list'[l][f]}}]
    BY ViewsNext DEF ViewOK
  <2> QED
    BY <1>1, <2>1
<1>7. \A e \in Elems : report[e].tag_mac = m => e = x
  BY <1>2, <1>3, Views DEF ViewOK
<1>8. R(k) = Q(k) \ {m}
  BY <1>4, <1>7
<1>9. \A l \in Lists : l # k => R(l) = Q(l)
  BY <1>4
<1>10. m \in Q(k)
  BY <1>2
<1> HIDE DEF Q, R, m
<1>11. Pending' = [Pending EXCEPT ![k] = @ \ {m}] /\ m \in Pending[k]
  BY <1>5, <1>6, <1>8, <1>9, <1>10
<1> QED
  BY <1>1, <1>11, ListStep DEF Store!TakeOne

\* Clearing the table (adv_table.c:445-507).
LEMMA ClearClears ==
  ASSUME StoreInv, StoreInv', adv_table_clear
  PROVE  Store!Clear
<1>0. report \in [Elems -> Report]
  BY DEF StoreInv, TableInv, TypeOK
<1>1. \A e \in Elems : report'[e].data = NoData
  <2> TAKE e \in Elems
  <2>1. report[e] \in Report
    BY <1>0
  <2>2. report'[e] = [report[e] EXCEPT !.timestamp = 0, !.samples_counter = 0, !.data = NoData]
    BY DEF adv_table_clear
  <2> QED
    BY <2>1, <2>2 DEF Report
<1>2. LiveElems' = {}
  BY <1>1 DEF LiveElems, Live
<1>3. NLive' = 0
  BY <1>2, FS_EmptySet DEF NLive
<1>4. Recent' = <<>>
  BY <1>3, ViewsNext DEF ViewOK
<1>5. Reports' = [m \in {} |-> <<>>]
  BY <1>2 DEF Reports, MacsOf
<1>6. Pending' = [k \in Lists |-> {}]
  <2>1. Pending' = [k \in Lists |-> {report'[e].tag_mac : e \in {f \in Elems : in_list'[k][f]}}]
    BY ViewsNext DEF ViewOK
  <2>2. \A k \in Lists : {f \in Elems : in_list'[k][f]} = {}
    BY DEF adv_table_clear
  <2>3. \A k \in Lists : {report'[e].tag_mac : e \in {f \in Elems : in_list'[k][f]}} = {}
    BY <2>2
  <2> QED
    BY <2>1, <2>3
<1> QED
  BY <1>4, <1>5, <1>6 DEF Store!Clear, adv_table_clear

\* Reading the statistics (adv_table.c:415-443).
LEMMA StatisticsReads ==
  ASSUME StoreInv, StoreInv', adv_table_statistics_read
  PROVE  Store!Statistics
<1>0. /\ TableInv /\ report \in [Elems -> Report] /\ hist \in [Elems -> Elems]
  BY DEF StoreInv, TableInv, TypeOK
<1>1. {hist[i] : i \in StatisticsPositions} = {e \in Elems : Live(e) /\ report[e].timestamp # 0}
  BY <1>0, StatisticsScan DEF StatisticsReadComplete
<1>2. ASSUME NEW e \in LiveElems
      PROVE  /\ report'[e].data = report[e].data
             /\ report'[e].tag_mac = report[e].tag_mac
             /\ EntryOf(report'[e]) = IF report[e].timestamp = 0 THEN EntryOf(report[e])
                                      ELSE [EntryOf(report[e]) EXCEPT !.samples_counter = 0]
             /\ EntryOf(report[e]).timestamp = report[e].timestamp
  <2>1. e \in Elems /\ report[e] \in Report /\ Live(e)
    BY <1>0 DEF LiveElems
  <2>2. report'[e] = IF e \in {hist[i] : i \in StatisticsPositions}
                     THEN [report[e] EXCEPT !.samples_counter = 0] ELSE report[e]
    BY <2>1 DEF adv_table_statistics_read
  <2>3. report'[e] = IF report[e].timestamp = 0 THEN report[e]
                     ELSE [report[e] EXCEPT !.samples_counter = 0]
    BY <1>1, <2>1, <2>2
  <2> QED
    BY <2>1, <2>3 DEF Report, EntryOf
<1>3. \A e \in Elems : report'[e].data = report[e].data /\ report'[e].tag_mac = report[e].tag_mac
  <2> TAKE e \in Elems
  <2>1. report[e] \in Report
    BY <1>0
  <2>2. report'[e] = report[e] \/ report'[e] = [report[e] EXCEPT !.samples_counter = 0]
    BY DEF adv_table_statistics_read
  <2> QED
    BY <2>1, <2>2 DEF Report
<1>4. LiveElems' = LiveElems /\ NLive' = NLive /\ LiveElems \subseteq Elems
  BY <1>3 DEF LiveElems, Live, NLive
<1>5. UNCHANGED <<list, in_list, hist, now>>
  BY DEF adv_table_statistics_read
<1> USE Views, ViewsNext
<1>6. Recent' = Recent
  <2>1. \A i \in 1..NLive : hist[i] \in Elems
    BY <1>0, ElemsFacts DEF ViewOK, Elems
  <2>2. /\ Recent = [i \in 1..NLive |-> report[hist[i]].tag_mac]
        /\ Recent' = [i \in 1..NLive' |-> report'[hist'[i]].tag_mac]
    BY DEF ViewOK
  <2> QED
    BY <1>3, <1>4, <1>5, <2>1, <2>2
<1>7. Pending' = Pending
  <2>1. /\ Pending = [k \in Lists |-> {report[f].tag_mac : f \in {g \in Elems : in_list[k][g]}}]
        /\ Pending' = [k \in Lists |-> {report'[f].tag_mac : f \in {g \in Elems : in_list'[k][g]}}]
    BY DEF ViewOK
  <2>2. \A k \in Lists : {report'[f].tag_mac : f \in {g \in Elems : in_list'[k][g]}} =
                           {report[f].tag_mac : f \in {g \in Elems : in_list[k][g]}}
    BY <1>3, <1>5
  <2> QED
    BY <2>1, <2>2
<1>8. Reports' = [m \in Store!Known |-> IF Reports[m].timestamp = 0 THEN Reports[m]
                                        ELSE [Reports[m] EXCEPT !.samples_counter = 0]]
  <2> DEFINE K == {report[f].tag_mac : f \in LiveElems}
  <2>1. K = {report'[f].tag_mac : f \in LiveElems'}
    BY <1>3, <1>4
  <2>2. Store!Known = K /\ DOMAIN Reports' = K /\ Reports' = [x \in K |-> Reports'[x]]
    BY <2>1 DEF ViewOK
  <2>3. ASSUME NEW x \in K
        PROVE  Reports'[x] = IF Reports[x].timestamp = 0 THEN Reports[x]
                             ELSE [Reports[x] EXCEPT !.samples_counter = 0]
    <3>1. PICK f \in LiveElems : x = report[f].tag_mac
      OBVIOUS
    <3>2. f \in Elems /\ report'[f].tag_mac = x /\ f \in LiveElems'
      BY <1>3, <1>4, <3>1
    <3>3. Reports[x] = EntryOf(report[f])
      BY <3>1 DEF ViewOK
    <3>4. Reports'[x] = EntryOf(report'[f])
      BY <3>2 DEF ViewOK, EntryOf
    <3> QED
      BY <1>2, <3>3, <3>4
  <2> HIDE DEF K
  <2> QED
    BY <2>2, <2>3
<1> QED
  BY <1>5, <1>6, <1>7, <1>8 DEF Store!Statistics

-----------------------------------------------------------------------------
(* The steps that give an element a new report.                            *)

\* What users see after MarkUpdated(e) with the new report r.
UpdatedTo(e, r) ==
  /\ LiveElems' = LiveElems \cup {e}
  /\ NLive' = IF Live(e) THEN NLive ELSE NLive + 1
  /\ Reports' = [x \in {report[f].tag_mac : f \in LiveElems \ {e}} \cup {r.tag_mac} |->
                   IF x = r.tag_mac THEN EntryOf(r) ELSE Reports[x]]
  /\ Pending' = [k \in Lists |->
                   {report[f].tag_mac : f \in {g \in Elems : in_list[k][g]} \ {e}}
                     \cup {r.tag_mac}]
  /\ \E p \in Elems :
       /\ hist[p] = e
       /\ Recent' = [i \in 1..NLive' |->
                       IF i = 1 THEN r.tag_mac
                       ELSE IF i <= p THEN report[hist[i - 1]].tag_mac
                       ELSE report[hist[i]].tag_mac]

\* A put that changes the report of e has this effect on the view.
LEMMA UpdatedView ==
  ASSUME StoreInv, StoreInv', NEW e \in Elems, MarkUpdated(e),
         NEW r \in Report, r.data # NoData, report' = [report EXCEPT ![e] = r]
  PROVE  UpdatedTo(e, r)
<1>0. /\ report \in [Elems -> Report] /\ hist \in [Elems -> Elems]
      /\ in_list \in [Lists -> [Elems -> BOOLEAN]]
      /\ MAX_ADVS_TABLE \in Nat /\ Elems = 1..MAX_ADVS_TABLE
      /\ \A i, j \in Elems : hist[i] = hist[j] => i = j
  BY TableAssumption DEF StoreInv, TableInv, TypeOK, Elems, HistIsPermutation
<1>1. report'[e] = r /\ \A f \in Elems : f # e => report'[f] = report[f]
  BY <1>0
<1>2. LiveElems' = LiveElems \cup {e} /\ LiveElems \subseteq Elems /\ (e \in LiveElems <=> Live(e))
  BY <1>1 DEF LiveElems, Live
<1>3. NLive' = IF Live(e) THEN NLive ELSE NLive + 1
  <2>1. IsFiniteSet(LiveElems)
    BY LiveCount DEF StoreInv
  <2> QED
    BY <1>2, <2>1, FS_AddElement DEF NLive
<1>4. \A f \in LiveElems : f # e => report[f].tag_mac # r.tag_mac
  <2>1. \A f, g \in Elems : report'[f].data # NoData /\ report'[f].tag_mac = report'[g].tag_mac => f = g
    BY ViewsNext DEF ViewOK, Live
  <2> QED
    BY <1>1, <1>2, <2>1
<1>5. Reports' = [x \in {report[f].tag_mac : f \in LiveElems \ {e}} \cup {r.tag_mac} |->
                    IF x = r.tag_mac THEN EntryOf(r) ELSE Reports[x]]
  <2> DEFINE K == {report[f].tag_mac : f \in LiveElems \ {e}} \cup {r.tag_mac}
  <2>1. {report'[f].tag_mac : f \in LiveElems'} = K
    BY <1>1, <1>2
  <2>2. DOMAIN Reports' = K /\ Reports' = [x \in K |-> Reports'[x]]
    BY <2>1, ViewsNext DEF ViewOK
  <2>3. \A f \in LiveElems' : Reports'[report'[f].tag_mac] = EntryOf(report'[f])
    BY ViewsNext DEF ViewOK, EntryOf
  <2>4. \A f \in LiveElems : Reports[report[f].tag_mac] = EntryOf(report[f])
    BY Views DEF ViewOK
  <2>5. ASSUME NEW x \in K
        PROVE  Reports'[x] = IF x = r.tag_mac THEN EntryOf(r) ELSE Reports[x]
    <3>1. CASE x = r.tag_mac
      BY <1>1, <1>2, <2>3, <3>1
    <3>2. CASE x # r.tag_mac
      <4>1. PICK f \in LiveElems \ {e} : x = report[f].tag_mac
        BY <3>2
      <4> QED
        BY <1>1, <1>2, <2>3, <2>4, <3>2, <4>1
    <3> QED
      BY <3>1, <3>2
  <2> HIDE DEF K
  <2>6. Reports' = [x \in K |-> IF x = r.tag_mac THEN EntryOf(r) ELSE Reports[x]]
    BY <2>2, <2>5
  <2> QED
    BY <2>6 DEF K
<1>6. Pending' = [k \in Lists |->
                    {report[f].tag_mac : f \in {g \in Elems : in_list[k][g]} \ {e}} \cup {r.tag_mac}]
  <2>1. Pending' = [k \in Lists |-> {report'[f].tag_mac : f \in {g \in Elems : in_list'[k][g]}}]
    BY ViewsNext DEF ViewOK
  <2>2. \A k \in Lists : {g \in Elems : in_list'[k][g]} = {g \in Elems : in_list[k][g]} \cup {e}
    BY <1>0 DEF MarkUpdated
  <2>3. \A k \in Lists : {report'[f].tag_mac : f \in {g \in Elems : in_list'[k][g]}} =
                           {report[f].tag_mac : f \in {g \in Elems : in_list[k][g]} \ {e}}
                             \cup {r.tag_mac}
    BY <1>1, <2>2
  <2> QED
    BY <2>1, <2>3
<1>7. PICK p \in Elems : hist[p] = e /\ hist' = MoveToHead(hist, p)
  BY DEF MarkUpdated
<1>8. Recent' = [i \in 1..NLive' |->
                   IF i = 1 THEN r.tag_mac
                   ELSE IF i <= p THEN report[hist[i - 1]].tag_mac
                   ELSE report[hist[i]].tag_mac]
  <2>1. Recent' = [i \in 1..NLive' |-> report'[hist'[i]].tag_mac] /\ NLive' \in 0..MAX_ADVS_TABLE
    BY ViewsNext DEF ViewOK
  <2>2. ASSUME NEW i \in 1..NLive'
        PROVE  report'[hist'[i]].tag_mac = IF i = 1 THEN r.tag_mac
                                           ELSE IF i <= p THEN report[hist[i - 1]].tag_mac
                                           ELSE report[hist[i]].tag_mac
    <3>1. i \in Elems /\ p \in Nat /\ i \in Nat
      BY <1>0, <2>1
    <3>2. hist'[i] = IF i = 1 THEN hist[p] ELSE IF i <= p THEN hist[i - 1] ELSE hist[i]
      BY <1>7, <3>1 DEF MoveToHead
    <3>3. CASE i = 1
      BY <1>1, <1>7, <3>2, <3>3
    <3>4. CASE i # 1 /\ i <= p
      <4>1. i - 1 \in Elems /\ i - 1 # p
        BY <1>0, <3>1, <3>4
      <4>2. hist[i - 1] \in Elems /\ hist[i - 1] # e
        BY <1>0, <1>7, <4>1
      <4> QED
        BY <1>1, <3>2, <3>4, <4>2
    <3>5. CASE i # 1 /\ ~(i <= p)
      <4>1. hist[i] \in Elems /\ hist[i] # e
        BY <1>0, <1>7, <3>1, <3>5
      <4> QED
        BY <1>1, <3>2, <3>5, <4>1
    <3> QED
      BY <3>3, <3>4, <3>5
  <2> QED
    BY <2>1, <2>2
<1> QED
  BY <1>2, <1>3, <1>5, <1>6, <1>7, <1>8 DEF UpdatedTo

\* An element that is free, or the last one of a full table, takes a tag that
\* the users do not see.
LEMMA TakenOverInserts ==
  ASSUME StoreInv, StoreInv', NEW e \in Elems, MarkUpdated(e),
         NEW r \in Report, r.data # NoData, report' = [report EXCEPT ![e] = r],
         r.timestamp = now, r.samples_counter \in {0, 1},
         r.tag_mac \notin Store!Known,
         Live(e) => e = hist[MAX_ADVS_TABLE]
  PROVE  Store!Insert(r.tag_mac, r.data)
<1> DEFINE m == r.tag_mac
           victims == IF Len(Recent) < MAX_ADVS_TABLE THEN {} ELSE {Recent[Len(Recent)]}
<1>0. /\ report \in [Elems -> Report] /\ hist \in [Elems -> Elems]
      /\ MAX_ADVS_TABLE \in Nat \ {0} /\ Elems = 1..MAX_ADVS_TABLE
      /\ \A i, j \in Elems : hist[i] = hist[j] => i = j
      /\ \A k \in Lists, f \in Elems : in_list[k][f] => Live(f)
  BY TableAssumption DEF StoreInv, TableInv, TypeOK, Elems, HistIsPermutation, ListedReportsAreLive
<1>u. UpdatedTo(e, r)
  BY UpdatedView
<1>1. /\ LiveElems' = LiveElems \cup {e}
      /\ NLive' = IF Live(e) THEN NLive ELSE NLive + 1
      /\ Reports' = [x \in {report[f].tag_mac : f \in LiveElems \ {e}} \cup {m} |->
                       IF x = m THEN EntryOf(r) ELSE Reports[x]]
      /\ Pending' = [k \in Lists |->
                       {report[f].tag_mac : f \in {g \in Elems : in_list[k][g]} \ {e}} \cup {m}]
  BY <1>u DEF UpdatedTo
<1>2. PICK p \in Elems :
        /\ hist[p] = e
        /\ Recent' = [i \in 1..NLive' |-> IF i = 1 THEN m
                                          ELSE IF i <= p THEN report[hist[i - 1]].tag_mac
                                          ELSE report[hist[i]].tag_mac]
  BY <1>u DEF UpdatedTo
<1>3. /\ NLive \in 0..MAX_ADVS_TABLE /\ NLive' \in 0..MAX_ADVS_TABLE
      /\ \A i \in Elems : Live(hist[i]) <=> i <= NLive
      /\ Len(Recent) = NLive
      /\ \A i \in 1..NLive : Recent[i] = report[hist[i]].tag_mac
      /\ Store!Known = {report[f].tag_mac : f \in LiveElems}
      /\ \A f, g \in Elems : Live(f) /\ report[f].tag_mac = report[g].tag_mac => f = g
      /\ \A k \in Lists : Pending[k] = {report[f].tag_mac : f \in {g \in Elems : in_list[k][g]}}
  BY Views, ViewsNext DEF ViewOK
<1>4. LiveElems \subseteq Elems /\ \A f \in Elems : f \in LiveElems <=> Live(f)
  BY DEF LiveElems
<1>5. /\ victims = IF Live(e) THEN {report[e].tag_mac} ELSE {}
      /\ Live(e) => p = MAX_ADVS_TABLE /\ NLive = MAX_ADVS_TABLE
      /\ ~Live(e) => p > NLive /\ NLive < MAX_ADVS_TABLE
  <2>1. CASE Live(e)
    <3>1. MAX_ADVS_TABLE \in Elems /\ e = hist[MAX_ADVS_TABLE]
      BY <1>0, <2>1
    <3>2. p = MAX_ADVS_TABLE /\ NLive = MAX_ADVS_TABLE
      BY <1>0, <1>2, <1>3, <2>1, <3>1
    <3> QED
      BY <1>0, <1>3, <2>1, <3>1, <3>2
  <2>2. CASE ~Live(e)
    BY <1>0, <1>2, <1>3, <2>2
  <2> QED
    BY <2>1, <2>2
<1> HIDE DEF victims
<1>6. Store!Known \ victims = {report[f].tag_mac : f \in LiveElems \ {e}}
  <2>1. CASE Live(e)
    <3>1. \A f \in LiveElems : report[f].tag_mac = report[e].tag_mac <=> f = e
      BY <1>3, <1>4, <2>1
    <3> QED
      BY <1>3, <1>5, <2>1, <3>1
  <2>2. CASE ~Live(e)
    BY <1>3, <1>4, <1>5, <2>2
  <2> QED
    BY <2>1, <2>2
<1>7. \A k \in Lists : Pending[k] \ victims =
                         {report[f].tag_mac : f \in {g \in Elems : in_list[k][g]} \ {e}}
  <2> TAKE k \in Lists
  <2> DEFINE L == {g \in Elems : in_list[k][g]}
  <2>0. Pending[k] = {report[f].tag_mac : f \in L} /\ L \subseteq Elems /\ \A f \in L : Live(f)
    BY <1>0, <1>3
  <2> HIDE DEF L
  <2>1. CASE Live(e)
    <3>1. \A f \in L : report[f].tag_mac = report[e].tag_mac <=> f = e
      BY <1>3, <2>0, <2>1
    <3>2. Pending[k] \ victims = {report[f].tag_mac : f \in L \ {e}}
      BY <1>5, <2>0, <2>1, <3>1
    <3> QED
      BY <3>2 DEF L
  <2>2. CASE ~Live(e)
    <3>1. Pending[k] \ victims = {report[f].tag_mac : f \in L \ {e}}
      BY <1>5, <2>0, <2>2
    <3> QED
      BY <3>1 DEF L
  <2> QED
    BY <2>1, <2>2
<1>8. Recent' = Store!PutFirst(m, IF victims = {} THEN Len(Recent) + 1 ELSE MAX_ADVS_TABLE)
  <2> DEFINE n == IF victims = {} THEN Len(Recent) + 1 ELSE MAX_ADVS_TABLE
  <2>1. n = NLive' /\ n \in Nat /\ n <= NLive + 1 /\ n <= p
    <3>1. CASE Live(e)
      <4>1. n = MAX_ADVS_TABLE
        BY <1>5, <3>1
      <4> HIDE DEF n
      <4> QED
        BY <1>0, <1>1, <1>3, <1>5, <3>1, <4>1
    <3>2. CASE ~Live(e)
      <4>1. n = NLive + 1
        BY <1>3, <1>5, <3>2
      <4> HIDE DEF n
      <4> QED
        BY <1>0, <1>1, <1>3, <1>5, <3>2, <4>1
    <3> QED
      BY <3>1, <3>2
  <2> HIDE DEF n
  <2>2. \A i \in 1..n : i # 1 => i <= p /\ i - 1 \in 1..NLive
    BY <1>0, <1>3, <2>1
  <2>3. Recent' = [i \in 1..n |-> IF i = 1 THEN m ELSE Recent[i - 1]]
    BY <1>2, <1>3, <2>1, <2>2
  <2>4. Recent' = Store!PutFirst(m, n)
    BY <2>3 DEF Store!PutFirst
  <2> QED
    BY <2>4 DEF n
<1>9. EntryOf(r) = [data |-> r.data, timestamp |-> now, samples_counter |-> r.samples_counter]
  BY DEF EntryOf
<1>10. Reports' = [x \in (Store!Known \ victims) \cup {m} |->
                     IF x = m THEN [data |-> r.data, timestamp |-> now,
                                    samples_counter |-> r.samples_counter]
                              ELSE Reports[x]]
  BY <1>1, <1>6, <1>9
<1>11. Pending' = [k \in Lists |-> (Pending[k] \ victims) \cup {m}]
  BY <1>1, <1>7
<1>12. /\ m \notin Store!Known
       /\ \E n \in {0, 1} :
            /\ Reports' = [x \in (Store!Known \ victims) \cup {m} |->
                             IF x = m THEN [data |-> r.data, timestamp |-> now,
                                            samples_counter |-> n]
                                      ELSE Reports[x]]
            /\ Recent' = Store!PutFirst(m, IF victims = {} THEN Len(Recent) + 1 ELSE MAX_ADVS_TABLE)
            /\ Pending' = [k \in Lists |-> (Pending[k] \ victims) \cup {m}]
  BY <1>8, <1>10, <1>11
<1> QED
  BY <1>12 DEF victims, Store!Insert

\* An advertisement of a tag without an element (adv_table.c:176-192).
LEMMA NewInserts ==
  ASSUME StoreInv, StoreInv', NEW m \in Macs, NEW d \in Data, PutNew(m, d)
  PROVE  Store!Insert(m, d)
<1> DEFINE e == hist[MAX_ADVS_TABLE]
           r == [tag_mac |-> m, data |-> d, timestamp |-> now, samples_counter |-> 0]
<1>1. /\ e \in Elems /\ r \in Report /\ r.data = d /\ r.data # NoData /\ r.timestamp = now
      /\ r.tag_mac = m /\ r.samples_counter \in {0, 1}
  BY ElemsFacts, TableAssumption DEF StoreInv, TableInv, TypeOK, Report
<1>2. /\ report' = [report EXCEPT ![e] = r] /\ MarkUpdated(e)
      /\ adv_hash_table_search(m) = {}
  BY DEF PutNew
<1>3. m \notin Store!Known
  <2>1. \A f \in Elems : ~(in_hash[f] /\ report[f].tag_mac = m)
    BY <1>2, SearchFacts DEF StoreInv
  <2>2. \A f \in LiveElems : f \in Elems /\ in_hash[f]
    BY DEF StoreInv, LiveInHash, LiveElems
  <2>3. Store!Known = {report[f].tag_mac : f \in LiveElems}
    BY Views DEF ViewOK
  <2> QED
    BY <2>1, <2>2, <2>3
<1>4. Live(e) => e = hist[MAX_ADVS_TABLE]
  OBVIOUS
<1> HIDE DEF e, r
<1> QED
  BY <1>1, <1>2, <1>3, <1>4, TakenOverInserts

\* New data for a tag that has an element (adv_table.c:193-200): its report is
\* replaced, or is the first one since the table was cleared.
LEMMA ChangedUpdates ==
  ASSUME StoreInv, StoreInv', NEW m \in Macs, NEW d \in Data, PutChanged(m, d)
  PROVE  Store!Update(m, d) \/ Store!Insert(m, d)
<1>0. /\ TableInv /\ report \in [Elems -> Report] /\ hist \in [Elems -> Elems] /\ now \in Nat
      /\ MAX_ADVS_TABLE \in Nat /\ Elems = 1..MAX_ADVS_TABLE /\ d # NoData
  BY TableAssumption DEF StoreInv, TableInv, TypeOK, Elems
<1>1. PICK e \in adv_hash_table_search(m) :
        /\ ~check_if_adv_must_be_discarded(d, report[e].data)
        /\ report' = [report EXCEPT ![e] = [tag_mac |-> m, data |-> d, timestamp |-> now,
                                            samples_counter |-> @.samples_counter + 1]]
        /\ MarkUpdated(e)
  BY DEF PutChanged
<1>2. e \in Elems /\ report[e].tag_mac = m
  BY <1>0, SearchFacts
<1> DEFINE r == [tag_mac |-> m, data |-> d, timestamp |-> now,
                 samples_counter |-> report[e].samples_counter + 1]
<1>3. /\ r \in Report /\ r.data = d /\ r.data # NoData /\ r.timestamp = now /\ r.tag_mac = m
      /\ r.samples_counter = report[e].samples_counter + 1
      /\ report' = [report EXCEPT ![e] = r]
  <2>1. r \in Report
    <3>0. report[e] \in Report
      BY <1>0, <1>2
    <3>1. report[e].samples_counter + 1 \in Nat
      BY <3>0 DEF Report
    <3> QED
      BY <1>0, <3>1 DEF Report
  <2>2. report' = [report EXCEPT ![e] = r]
    BY <1>0, <1>1, <1>2
  <2> QED
    BY <1>0, <2>1, <2>2
<1>e. EntryOf(r) = [data |-> d, timestamp |-> now, samples_counter |-> report[e].samples_counter + 1]
  BY DEF EntryOf
<1> HIDE DEF r
<1>4. /\ Store!Known = {report[f].tag_mac : f \in LiveElems}
      /\ \A f, g \in Elems : Live(f) /\ report[f].tag_mac = report[g].tag_mac => f = g
      /\ LiveElems \subseteq Elems
      /\ \A f \in Elems : f \in LiveElems <=> Live(f)
  BY Views DEF ViewOK, LiveElems
<1>5. CASE ~Live(e)
  <2>1. m \notin Store!Known
    BY <1>2, <1>4, <1>5
  <2>2. r.samples_counter \in {0, 1}
    BY <1>2, <1>3, <1>5 DEF StoreInv, FreeIsUncounted
  <2>3. Store!Insert(m, d)
    BY <1>1, <1>2, <1>3, <1>5, <2>1, <2>2, TakenOverInserts
  <2> QED
    BY <2>3
<1>6. CASE Live(e)
  <2>1. m \in Store!Known /\ e \in LiveElems
    BY <1>2, <1>4, <1>6
  <2>u. UpdatedTo(e, r)
    BY <1>1, <1>2, <1>3, UpdatedView
  <2>2. /\ NLive' = NLive
        /\ Reports' = [x \in {report[f].tag_mac : f \in LiveElems \ {e}} \cup {m} |->
                         IF x = m THEN EntryOf(r) ELSE Reports[x]]
        /\ Pending' = [k \in Lists |->
                         {report[f].tag_mac : f \in {g \in Elems : in_list[k][g]} \ {e}} \cup {m}]
    <3>1. /\ NLive' = IF Live(e) THEN NLive ELSE NLive + 1
          /\ Reports' = [x \in {report[f].tag_mac : f \in LiveElems \ {e}} \cup {r.tag_mac} |->
                           IF x = r.tag_mac THEN EntryOf(r) ELSE Reports[x]]
          /\ Pending' = [k \in Lists |->
                           {report[f].tag_mac : f \in {g \in Elems : in_list[k][g]} \ {e}}
                             \cup {r.tag_mac}]
      BY <2>u DEF UpdatedTo
    <3>2. r.tag_mac = m
      BY <1>3
    <3> QED
      BY <1>6, <3>1, <3>2
  <2>3. PICK p \in Elems :
          /\ hist[p] = e
          /\ Recent' = [i \in 1..NLive' |-> IF i = 1 THEN m
                                            ELSE IF i <= p THEN report[hist[i - 1]].tag_mac
                                            ELSE report[hist[i]].tag_mac]
    <3>1. \E p \in Elems :
            /\ hist[p] = e
            /\ Recent' = [i \in 1..NLive' |->
                            IF i = 1 THEN r.tag_mac
                            ELSE IF i <= p THEN report[hist[i - 1]].tag_mac
                            ELSE report[hist[i]].tag_mac]
      BY <2>u DEF UpdatedTo
    <3>2. r.tag_mac = m
      BY <1>3
    <3> QED
      BY <3>1, <3>2
  <2>4. Reports[m] = EntryOf(report[e])
    BY <1>2, <2>1, Views DEF ViewOK
  <2>5. ~Store!Repeated(m, d)
    BY <1>1, <2>4 DEF Store!Repeated, check_if_adv_must_be_discarded, EntryOf
  <2>6. Reports' = [Reports EXCEPT ![m] = [data |-> d, timestamp |-> now,
                                           samples_counter |-> @.samples_counter + 1]]
    <3>1. {report[f].tag_mac : f \in LiveElems \ {e}} \cup {m} = Store!Known
      BY <1>2, <1>4, <2>1
    <3>2. DOMAIN Reports = Store!Known /\ Reports = [x \in Store!Known |-> Reports[x]]
      BY Views DEF ViewOK
    <3>3. EntryOf(r) = [data |-> d, timestamp |-> now,
                        samples_counter |-> Reports[m].samples_counter + 1]
      BY <1>e, <2>4 DEF EntryOf
    <3>4. Reports' = [x \in Store!Known |-> IF x = m THEN EntryOf(r) ELSE Reports[x]]
      BY <2>2, <3>1
    <3> QED
      BY <2>1, <3>2, <3>3, <3>4
  <2>7. \E q \in 1..Len(Recent) : Recent[q] = m /\ Recent' = Store!ToFront(q)
    <3>1. /\ NLive \in 0..MAX_ADVS_TABLE
          /\ \A i \in Elems : Live(hist[i]) <=> i <= NLive
          /\ Len(Recent) = NLive
          /\ \A i \in 1..NLive : Recent[i] = report[hist[i]].tag_mac
      BY Views DEF ViewOK
    <3>2. p \in 1..NLive /\ Recent[p] = m
      BY <1>0, <1>2, <1>6, <2>3, <3>1
    <3>3. \A i \in 1..NLive : i # 1 => i - 1 \in 1..NLive
      BY <3>1
    <3>4. Recent' = [i \in 1..Len(Recent) |-> IF i = 1 THEN Recent[p]
                                              ELSE IF i <= p THEN Recent[i - 1] ELSE Recent[i]]
      BY <2>2, <2>3, <3>1, <3>2, <3>3
    <3> QED
      BY <3>1, <3>2, <3>4 DEF Store!ToFront
  <2>8. Pending' = [k \in Lists |-> Pending[k] \cup {m}]
    <3>1. \A k \in Lists : Pending[k] = {report[f].tag_mac : f \in {g \in Elems : in_list[k][g]}}
      BY Views DEF ViewOK
    <3>2. \A k \in Lists : {report[f].tag_mac : f \in {g \in Elems : in_list[k][g]} \ {e}} \cup {m} =
                             Pending[k] \cup {m}
      BY <1>2, <3>1
    <3> QED
      BY <2>2, <3>2
  <2>9. Store!Update(m, d)
    BY <2>1, <2>5, <2>6, <2>7, <2>8 DEF Store!Update
  <2> QED
    BY <2>9
<1> QED
  BY <1>5, <1>6

-----------------------------------------------------------------------------
\* Every step of the table is a step of the store or leaves what users see.
LEMMA StepImplements ==
  ASSUME StoreInv, StoreInv', [Next]_vars
  PROVE  [Store!Next]_(Store!vars)
<1>1. ASSUME NEW m \in Macs, NEW d \in Data, adv_put_to_table(m, d)
      PROVE  Store!Next
  <2>1. now' \in {now, now + 1}
    BY <1>1 DEF adv_put_to_table
  <2>2. Store!Count(m, d) \/ Store!Update(m, d) \/ Store!Insert(m, d)
    BY <1>1, NewInserts, ChangedUpdates, RepeatedCounts DEF adv_put_to_table
  <2>3. Store!Put(m, d)
    BY <2>1, <2>2 DEF Store!Put
  <2> QED
    BY <2>3 DEF Store!Next
<1>2. ASSUME NEW k \in Lists, adv_table_read_retransmission_list_and_clear(k)
      PROVE  Store!Next
  BY <1>2, ReadDrains DEF Store!Next
<1>3. ASSUME NEW k \in Lists \cap {3}, adv_table_read_retransmission_list_head(k)
      PROVE  Store!Next
  BY <1>3, HeadTakesOne DEF Store!Next
<1>4. CASE adv_table_statistics_read
  BY <1>4, StatisticsReads DEF Store!Next
<1>5. CASE adv_table_clear
  BY <1>5, ClearClears DEF Store!Next
<1>6. ASSUME UNCHANGED <<report, list, hist>>
      PROVE  Recent' = Recent /\ Reports' = Reports /\ Pending' = Pending
  BY <1>6, ListStep DEF Pending, MacsOf
<1>7. CASE Tick
  BY <1>6, <1>7 DEF Tick, Store!Tick, Store!Next
<1>8. CASE UNCHANGED vars
  BY <1>6, <1>8 DEF vars, Store!vars
<1> QED
  BY <1>1, <1>2, <1>3, <1>4, <1>5, <1>7, <1>8 DEF Next

\* The empty table is the empty store.
LEMMA InitImplements ==
  ASSUME Init, StoreInv
  PROVE  Store!Init
<1>1. \A e \in Elems : report[e].data = NoData
  BY DEF Init, adv_table_init, FreeReport
<1>2. LiveElems = {}
  BY <1>1 DEF LiveElems, Live
<1>3. NLive = 0
  BY <1>2, FS_EmptySet DEF NLive
<1>4. Recent = <<>>
  BY <1>3, Views DEF ViewOK
<1>5. Reports = [m \in {} |-> <<>>]
  BY <1>2 DEF Reports, MacsOf
<1>6. Pending = [k \in Lists |-> {}]
  <2>1. Pending = [k \in Lists |-> {report[e].tag_mac : e \in {f \in Elems : in_list[k][f]}}]
    BY Views DEF ViewOK
  <2>2. \A k \in Lists : {f \in Elems : in_list[k][f]} = {}
    BY DEF Init, adv_table_init
  <2>3. \A k \in Lists : {report[e].tag_mac : e \in {f \in Elems : in_list[k][f]}} = {}
    BY <2>2
  <2> QED
    BY <2>1, <2>3
<1>7. now \in Nat
  BY DEF StoreInv, TableInv, TypeOK
<1> QED
  BY <1>4, <1>5, <1>6, <1>7 DEF Store!Init

\* The invariant of the refinement: what holds data can be found, and a free
\* element has nothing counted (adv_table_put_unsafe, adv_table_clear).
THEOREM StoreInvariant == Spec => []StoreInv
BY InitStoreInv, NextStoreInv, PTL DEF Spec

\* The linked table of adv_table.c, with its hash buckets, flags, history and
\* retransmission lists, implements the bounded store of AdvStore, for every
\* table size, set of tags and set of lists.
THEOREM TableImplementsStore == Spec => ImplementsStore
<1>1. Init /\ StoreInv => Store!Init
  BY InitImplements
<1>2. StoreInv /\ StoreInv' /\ [Next]_vars => [Store!Next]_(Store!vars)
  BY StepImplements
<1> QED
  BY <1>1, <1>2, StoreInvariant, PTL DEF Spec, ImplementsStore, Store!Spec
=============================================================================
