--------------------------- MODULE AdvTableProofs ---------------------------
(***************************************************************************)
(* Proofs about AdvTable for every table size, set of tags, payloads and    *)
(* retransmission lists.                                                     *)
(***************************************************************************)
EXTENDS AdvTable, FiniteSetTheorems, TLAPS

\* The inductive invariant.
TableInv == /\ TypeOK
            /\ HashTableExact
            /\ ListFlagsExact
            /\ ListedReportsAreLive
            /\ HistIsPermutation
            /\ LivePrefix
            /\ HistSorted

\* MAX_ADVS_TABLE is positive, so hist_list has a first and a last position.
LEMMA ElemsFacts == /\ MAX_ADVS_TABLE \in Elems
                    /\ 1 \in Elems
                    /\ Elems \subseteq Nat
BY TableAssumption DEF Elems

\* Pigeonhole: a duplicate-free list of elements is not longer than the array
\* (adv_table.c:253, the branch that would drop an element).
LEMMA ListLength ==
  ASSUME TypeOK, ListFlagsExact
  PROVE  ListsFitOutputTable
<1> SUFFICES ASSUME NEW k \in Lists
             PROVE  Len(list[k]) <= MAX_ADVS_TABLE
  BY DEF ListsFitOutputTable
<1> DEFINE n == Len(list[k])
<1>1. list[k] \in Seq(Elems) /\ n \in Nat /\ MAX_ADVS_TABLE \in Nat
  BY TableAssumption DEF TypeOK
<1>2. list[k] \in [1..n -> Elems]
  BY <1>1
<1>3. \A i, j \in 1..n : list[k][i] = list[k][j] => i = j
  BY DEF ListFlagsExact
<1>4. IsFiniteSet(1..n) /\ Cardinality(1..n) = n
  BY <1>1, FS_Interval
<1>5. IsFiniteSet(Elems) /\ Cardinality(Elems) = MAX_ADVS_TABLE
  BY <1>1, TableAssumption, FS_Interval DEF Elems
<1>6. CASE MAX_ADVS_TABLE < n
  <2>1. \E i, j \in 1..n : i # j /\ list[k][i] = list[k][j]
    BY <1>2, <1>4, <1>5, <1>6, FS_PigeonHole
  <2> QED BY <2>1, <1>3
<1> QED BY <1>1, <1>6

\* Moving an element to the head of hist_list permutes hist_list.
LEMMA MoveToHeadPermutes ==
  ASSUME TypeOK, HistIsPermutation, NEW p \in Elems
  PROVE  /\ MoveToHead(hist, p) \in [Elems -> Elems]
         /\ \A i, j \in Elems : MoveToHead(hist, p)[i] = MoveToHead(hist, p)[j] => i = j
         /\ \A e \in Elems : \E i \in Elems : MoveToHead(hist, p)[i] = e
<1> DEFINE h == MoveToHead(hist, p)
<1>0. /\ hist \in [Elems -> Elems]
      /\ MAX_ADVS_TABLE \in Nat
      /\ p \in Nat /\ 1 <= p /\ p <= MAX_ADVS_TABLE
      /\ \A i : i \in Elems <=> i \in Nat /\ 1 <= i /\ i <= MAX_ADVS_TABLE
  BY TableAssumption DEF TypeOK, Elems
<1>a. /\ \A i, j \in Elems : hist[i] = hist[j] => i = j
      /\ \A e \in Elems : \E i \in Elems : hist[i] = e
  BY DEF HistIsPermutation
<1>b. h = [i \in Elems |-> IF i = 1 THEN hist[p] ELSE IF i <= p THEN hist[i - 1] ELSE hist[i]]
  BY DEF MoveToHead
<1> HIDE DEF h
<1>c. /\ 1 \in Elems /\ h[1] = hist[p]
      /\ \A i \in Elems : i > p => i # 1 /\ h[i] = hist[i]
  BY <1>0, <1>b
<1>d. ASSUME NEW i \in Elems, i # 1, i <= p
      PROVE  i - 1 \in Elems /\ i - 1 < p /\ h[i] = hist[i - 1]
  BY <1>0, <1>b, <1>d
<1>1. h \in [Elems -> Elems]
  <2>1. ASSUME NEW i \in Elems PROVE h[i] \in Elems
    BY <1>0, <1>c, <1>d
  <2> QED BY <1>b, <2>1
<1>2. ASSUME NEW i \in Elems, NEW j \in Elems, h[i] = h[j]
      PROVE  i = j
  <2> DEFINE Src(x) == IF x = 1 THEN p ELSE IF x <= p THEN x - 1 ELSE x
  <2>1. \A x \in Elems : Src(x) \in Elems /\ h[x] = hist[Src(x)]
    BY <1>0, <1>c, <1>d
  <2>2. Src(i) = Src(j)
    BY <1>2, <1>a, <2>1
  <2> QED BY <2>2, <1>0
<1>3. ASSUME NEW e \in Elems
      PROVE  \E i \in Elems : h[i] = e
  <2>1. PICK q \in Elems : hist[q] = e
    BY <1>a
  <2>2. CASE q = p
    BY <2>1, <2>2, <1>c
  <2>3. CASE q < p
    <3>1. q + 1 \in Elems /\ q + 1 # 1 /\ q + 1 <= p /\ (q + 1) - 1 = q
      BY <2>3, <1>0
    <3>2. h[q + 1] = e
      BY <3>1, <2>1, <1>d
    <3> QED BY <3>1, <3>2
  <2>4. CASE q > p
    BY <2>1, <2>4, <1>c
  <2> QED BY <2>2, <2>3, <2>4, <1>0
<1> QED BY <1>1, <1>2, <1>3 DEF h

\* MarkUpdated keeps the lists and flags in step and links the element.
LEMMA MarkUpdatedLists ==
  ASSUME TypeOK, ListFlagsExact, NEW e \in Elems, MarkUpdated(e)
  PROVE  /\ list' \in [Lists -> Seq(Elems)]
         /\ in_list' \in [Lists -> [Elems -> BOOLEAN]]
         /\ ListFlagsExact'
         /\ \A k \in Lists, f \in Elems : in_list'[k][f] => in_list[k][f] \/ f = e
<1>1. list' \in [Lists -> Seq(Elems)]
  BY DEF TypeOK, MarkUpdated
<1>2. in_list' \in [Lists -> [Elems -> BOOLEAN]]
  BY DEF TypeOK, MarkUpdated
<1>3. ASSUME NEW k \in Lists
      PROVE  /\ \A f \in Elems : in_list'[k][f] <=> \E i \in 1..Len(list'[k]) : list'[k][i] = f
             /\ \A i, j \in 1..Len(list'[k]) : list'[k][i] = list'[k][j] => i = j
  <2>0. /\ list[k] \in Seq(Elems)
        /\ in_list[k] \in [Elems -> BOOLEAN]
        /\ in_list'[k] = [in_list[k] EXCEPT ![e] = TRUE]
        /\ list'[k] = IF in_list[k][e] THEN list[k] ELSE Append(list[k], e)
    BY DEF TypeOK, MarkUpdated
  <2>f. /\ \A f \in Elems : in_list[k][f] <=> \E i \in 1..Len(list[k]) : list[k][i] = f
        /\ \A i, j \in 1..Len(list[k]) : list[k][i] = list[k][j] => i = j
    BY DEF ListFlagsExact
  <2>1. CASE in_list[k][e]
    BY <2>0, <2>f, <2>1
  <2>2. CASE ~in_list[k][e]
    <3> DEFINE n == Len(list[k])
    <3>1. /\ n \in Nat
          /\ Len(list'[k]) = n + 1
          /\ \A i \in 1..n : list'[k][i] = list[k][i] /\ list[k][i] \in Elems
          /\ list'[k][n + 1] = e
      BY <2>0, <2>2
    <3>2. \A i \in 1..n : list[k][i] # e
      BY <2>f, <2>2
    <3>3. ASSUME NEW f \in Elems
          PROVE  in_list'[k][f] <=> \E i \in 1..(n + 1) : list'[k][i] = f
      BY <2>0, <2>f, <3>1
    <3>4. ASSUME NEW i \in 1..(n + 1), NEW j \in 1..(n + 1), list'[k][i] = list'[k][j]
          PROVE  i = j
      <4>1. CASE i \in 1..n /\ j \in 1..n
        BY <2>f, <3>1, <3>4, <4>1
      <4>2. CASE i = n + 1 \/ j = n + 1
        BY <3>1, <3>2, <3>4, <4>2
      <4> QED BY <3>1, <4>1, <4>2
    <3> QED BY <3>1, <3>3, <3>4
  <2> QED BY <2>1, <2>2
<1>4. \A k \in Lists, f \in Elems : in_list'[k][f] => in_list[k][f] \/ f = e
  BY DEF TypeOK, MarkUpdated
<1> QED BY <1>1, <1>2, <1>3, <1>4 DEF ListFlagsExact

\* MarkUpdated puts the element first and keeps the order of the others.
LEMMA MarkUpdatedHist ==
  ASSUME TypeOK, HistIsPermutation, NEW e \in Elems, MarkUpdated(e)
  PROVE  /\ hist' \in [Elems -> Elems]
         /\ HistIsPermutation'
         /\ hist'[1] = e
         /\ \A i, j \in Elems : i < j /\ i # 1 =>
              \E a, b \in Elems : /\ a < b
                                  /\ hist'[i] = hist[a] /\ hist[a] # e
                                  /\ hist'[j] = hist[b] /\ hist[b] # e
<1>1. PICK p \in Elems : hist[p] = e /\ hist' = MoveToHead(hist, p)
  BY DEF MarkUpdated
<1>2. hist' \in [Elems -> Elems] /\ HistIsPermutation'
  <2>1. /\ hist' \in [Elems -> Elems]
        /\ \A i, j \in Elems : hist'[i] = hist'[j] => i = j
        /\ \A f \in Elems : \E i \in Elems : hist'[i] = f
    <3> DEFINE h == MoveToHead(hist, p)
    <3>1. /\ h \in [Elems -> Elems]
          /\ \A i, j \in Elems : h[i] = h[j] => i = j
          /\ \A f \in Elems : \E i \in Elems : h[i] = f
      BY MoveToHeadPermutes, Zenon
    <3>2. hist' = h
      BY <1>1
    <3> HIDE DEF h
    <3> QED BY <3>1, <3>2
  <2> QED BY <2>1 DEF HistIsPermutation
<1>3. /\ MAX_ADVS_TABLE \in Nat
      /\ p \in Nat /\ 1 <= p /\ p <= MAX_ADVS_TABLE
      /\ \A i : i \in Elems <=> i \in Nat /\ 1 <= i /\ i <= MAX_ADVS_TABLE
  BY TableAssumption DEF Elems
<1>4. hist' = [i \in Elems |-> IF i = 1 THEN hist[p] ELSE IF i <= p THEN hist[i - 1] ELSE hist[i]]
  BY <1>1 DEF MoveToHead
<1>5. hist'[1] = e
  BY <1>1, <1>3, <1>4
<1> DEFINE Src(x) == IF x <= p THEN x - 1 ELSE x
<1>6. ASSUME NEW i \in Elems, NEW j \in Elems, i < j, i # 1
      PROVE  \E a, b \in Elems : /\ a < b
                                 /\ hist'[i] = hist[a] /\ hist[a] # e
                                 /\ hist'[j] = hist[b] /\ hist[b] # e
  <2>1. Src(i) \in Elems /\ Src(j) \in Elems /\ Src(i) < Src(j) /\ Src(i) # p /\ Src(j) # p
    BY <1>3, <1>6
  <2>2. hist'[i] = hist[Src(i)] /\ hist'[j] = hist[Src(j)]
    BY <1>3, <1>4, <1>6
  <2>3. hist[Src(i)] # e /\ hist[Src(j)] # e
    BY <2>1, <1>1 DEF HistIsPermutation
  <2> HIDE DEF Src
  <2> QED BY <2>1, <2>2, <2>3
<1> QED BY <1>2, <1>5, <1>6

\* A put that gives an element new data and the current timestamp keeps the
\* order of hist_list: live reports first, newest first.
LEMMA UpdateKeepsOrder ==
  ASSUME TypeOK, HistIsPermutation, LivePrefix, HistSorted,
         NEW e \in Elems, MarkUpdated(e), NEW r \in Report,
         r.data # NoData, r.timestamp = now,
         report' = [report EXCEPT ![e] = r], now' \in Nat, now <= now'
  PROVE  LivePrefix' /\ HistSorted'
<1>1. /\ hist' \in [Elems -> Elems]
      /\ hist'[1] = e
      /\ \A i, j \in Elems : i < j /\ i # 1 =>
           \E a, b \in Elems : /\ a < b
                               /\ hist'[i] = hist[a] /\ hist[a] # e
                               /\ hist'[j] = hist[b] /\ hist[b] # e
  BY MarkUpdatedHist
<1>2. /\ report \in [Elems -> Report] /\ hist \in [Elems -> Elems] /\ now \in Nat
      /\ report' \in [Elems -> Report]
      /\ \A f \in Elems : f # e => report'[f] = report[f]
      /\ report'[e] = r
  BY DEF TypeOK
<1>3. \A f \in Elems : report[f].timestamp \in Nat /\ report'[f].timestamp \in Nat
  BY <1>2 DEF Report
<1>4. /\ \A f \in Elems : report[f].timestamp <= now
      /\ \A f \in Elems : ~Live(f) => report[f].timestamp = 0
      /\ \A i, j \in Elems : i < j => report[hist[j]].timestamp <= report[hist[i]].timestamp
  BY DEF HistSorted
<1>5. \A i, j \in Elems : i < j /\ report[hist[j]].data # NoData => report[hist[i]].data # NoData
  BY DEF LivePrefix, Live
<1>6. \A f \in Elems : report'[f].timestamp <= now'
  BY <1>2, <1>3, <1>4
<1>7. \A f \in Elems : report'[f].data = NoData => report'[f].timestamp = 0
  BY <1>2, <1>4 DEF Live
<1>8. ASSUME NEW i \in Elems, NEW j \in Elems, i < j
      PROVE  /\ report'[hist'[j]].data # NoData => report'[hist'[i]].data # NoData
             /\ report'[hist'[j]].timestamp <= report'[hist'[i]].timestamp
  <2>1. CASE i = 1
    <3>1. report'[hist'[i]] = r
      BY <2>1, <1>1, <1>2
    <3>2. hist'[j] \in Elems
      BY <1>1
    <3>3. report'[hist'[j]].timestamp <= now
      BY <3>2, <1>2, <1>3, <1>4
    <3> QED BY <3>1, <3>3
  <2>2. CASE i # 1
    <3>1. PICK a \in Elems, b \in Elems : /\ a < b
                               /\ hist'[i] = hist[a] /\ hist[a] # e
                               /\ hist'[j] = hist[b] /\ hist[b] # e
      BY <2>2, <1>1, <1>8
    <3>2. report'[hist'[i]] = report[hist[a]] /\ report'[hist'[j]] = report[hist[b]]
      BY <3>1, <1>2
    <3> QED BY <3>1, <3>2, <1>4, <1>5
  <2> QED BY <2>1, <2>2
<1>9. LivePrefix'
  BY <1>8 DEF LivePrefix, Live
<1> QED BY <1>6, <1>7, <1>8, <1>9 DEF HistSorted, Live

\* An advertisement of a MAC that is not in the table (adv_table.c:176-192).
LEMMA PutNewPreserves ==
  ASSUME TableInv, NEW m \in Macs, NEW d \in Data, PutNew(m, d),
         use_ntp' = use_ntp, now' \in Nat, now <= now'
  PROVE  TableInv'
<1> DEFINE e == hist[MAX_ADVS_TABLE]
           r == [tag_mac |-> m, data |-> d, timestamp |-> now, samples_counter |-> 0]
<1> USE DEF TableInv
<1>1. /\ e \in Elems /\ r \in Report /\ r.data # NoData /\ r.timestamp = now /\ r.tag_mac = m
      /\ m # NoMac
  BY ElemsFacts, TableAssumption DEF TypeOK, Report
<1>2. /\ report' = [report EXCEPT ![e] = r]
      /\ MarkUpdated(e)
      /\ adv_hash_table_move(e, m)
      /\ \A f \in hash_table[HashIdx[m]] : report[f].tag_mac # m
  BY DEF PutNew, adv_hash_table_search
<1> HIDE DEF e, r
<1>3. /\ report \in [Elems -> Report] /\ report' \in [Elems -> Report]
      /\ report'[e] = r
      /\ \A f \in Elems : f # e => report'[f] = report[f]
  BY <1>1, <1>2 DEF TypeOK
<1>4. LivePrefix' /\ HistSorted'
  BY <1>1, <1>2, UpdateKeepsOrder
<1>5. /\ list' \in [Lists -> Seq(Elems)]
      /\ in_list' \in [Lists -> [Elems -> BOOLEAN]]
      /\ ListFlagsExact'
      /\ \A k \in Lists, f \in Elems : in_list'[k][f] => in_list[k][f] \/ f = e
  BY <1>1, <1>2, MarkUpdatedLists
<1>6. hist' \in [Elems -> Elems] /\ HistIsPermutation'
  BY <1>1, <1>2, MarkUpdatedHist
<1>7. HashIdx[m] \in Buckets
  BY TableAssumption
<1> DEFINE rem == IF in_hash[e]
                  THEN [hash_table EXCEPT ![HashIdx[report[e].tag_mac]] = @ \ {e}]
                  ELSE hash_table
<1>8. /\ hash_table' = [rem EXCEPT ![HashIdx[m]] = @ \cup {e}]
      /\ in_hash' = [in_hash EXCEPT ![e] = TRUE]
  BY <1>2 DEF adv_hash_table_move
<1>9. /\ rem \in [Buckets -> SUBSET Elems]
      /\ \A b \in Buckets, f \in Elems : f \in rem[b] <=> f # e /\ f \in hash_table[b]
  <2>0. /\ hash_table \in [Buckets -> SUBSET Elems]
        /\ \A f \in Elems, b \in Buckets :
             f \in hash_table[b] <=> in_hash[f] /\ HashIdx[report[f].tag_mac] = b
    BY DEF TypeOK, HashTableExact
  <2>1. CASE in_hash[e]
    <3> DEFINE old == HashIdx[report[e].tag_mac]
    <3>1. rem = [hash_table EXCEPT ![old] = @ \ {e}]
      BY <2>1
    <3>2. rem \in [Buckets -> SUBSET Elems]
      BY <2>0, <3>1
    <3>3. \A b \in Buckets : rem[b] = IF b = old THEN hash_table[b] \ {e} ELSE hash_table[b]
      BY <2>0, <3>1
    <3>4. \A b \in Buckets : b # old => e \notin hash_table[b]
      BY <2>0, <1>1
    <3> HIDE DEF old, rem
    <3> QED BY <3>2, <3>3, <3>4
  <2>2. CASE ~in_hash[e]
    BY <2>0, <2>2, <1>1
  <2> QED BY <2>1, <2>2
<1> HIDE DEF rem
<1>10. /\ hash_table' \in [Buckets -> SUBSET Elems]
       /\ \A b \in Buckets, f \in Elems :
            f \in hash_table'[b] <=> IF f = e THEN b = HashIdx[m] ELSE f \in hash_table[b]
  BY <1>1, <1>7, <1>8, <1>9
<1>11. /\ in_hash' \in [Elems -> BOOLEAN]
       /\ in_hash'[e] = TRUE
       /\ \A f \in Elems : f # e => in_hash'[f] = in_hash[f]
  BY <1>1, <1>8 DEF TypeOK
<1>12. TypeOK'
  BY <1>3, <1>5, <1>6, <1>10, <1>11 DEF TypeOK
<1>13. HashTableExact'
  <2>0. /\ \A f \in Elems : report[f].tag_mac = NoMac <=> ~in_hash[f]
        /\ \A f \in Elems, b \in Buckets :
             f \in hash_table[b] <=> in_hash[f] /\ HashIdx[report[f].tag_mac] = b
        /\ \A f, g \in Elems :
             in_hash[f] /\ report[f].tag_mac = report[g].tag_mac => f = g
    BY DEF HashTableExact
  <2>1. \A f \in Elems : report'[f].tag_mac = NoMac <=> ~in_hash'[f]
    BY <2>0, <1>1, <1>3, <1>11
  <2>2. \A f \in Elems, b \in Buckets :
          f \in hash_table'[b] <=> in_hash'[f] /\ HashIdx[report'[f].tag_mac] = b
    BY <2>0, <1>1, <1>3, <1>10, <1>11
  <2>3. \A f \in Elems : report[f].tag_mac = m => ~in_hash[f]
    BY <2>0, <1>2, <1>7
  <2>4. \A f, g \in Elems :
          in_hash'[f] /\ report'[f].tag_mac = report'[g].tag_mac => f = g
    BY <2>0, <2>3, <1>1, <1>3, <1>11
  <2> QED BY <2>1, <2>2, <2>4 DEF HashTableExact
<1>14. ListedReportsAreLive'
  BY <1>1, <1>3, <1>5 DEF ListedReportsAreLive, Live
<1> QED BY <1>4, <1>5, <1>6, <1>12, <1>13, <1>14

\* New data for a MAC of the table (adv_table.c:193-200).
LEMMA PutChangedPreserves ==
  ASSUME TableInv, NEW m \in Macs, NEW d \in Data, PutChanged(m, d),
         use_ntp' = use_ntp, now' \in Nat, now <= now'
  PROVE  TableInv'
<1> USE DEF TableInv
<1>1. PICK e \in adv_hash_table_search(m) :
        /\ report' = [report EXCEPT ![e] = [tag_mac |-> m, data |-> d, timestamp |-> now,
                                            samples_counter |-> @.samples_counter + 1]]
        /\ MarkUpdated(e)
        /\ UNCHANGED <<in_hash, hash_table>>
  BY DEF PutChanged
<1> DEFINE r == [tag_mac |-> m, data |-> d, timestamp |-> now,
                 samples_counter |-> report[e].samples_counter + 1]
<1>2. e \in Elems /\ report[e].tag_mac = m
  BY TableAssumption DEF adv_hash_table_search, TypeOK
<1>3. r \in Report /\ r.data # NoData /\ r.timestamp = now /\ r.tag_mac = m
  BY <1>2, TableAssumption DEF TypeOK, Report
<1>4. report' = [report EXCEPT ![e] = r]
  BY <1>1, <1>2 DEF TypeOK
<1> HIDE DEF r
<1>5. /\ report \in [Elems -> Report] /\ report' \in [Elems -> Report]
      /\ report'[e] = r
      /\ \A f \in Elems : f # e => report'[f] = report[f]
      /\ \A f \in Elems : report'[f].tag_mac = report[f].tag_mac
  BY <1>2, <1>3, <1>4 DEF TypeOK
<1>6. LivePrefix' /\ HistSorted'
  BY <1>1, <1>2, <1>3, <1>4, UpdateKeepsOrder
<1>7. /\ list' \in [Lists -> Seq(Elems)]
      /\ in_list' \in [Lists -> [Elems -> BOOLEAN]]
      /\ ListFlagsExact'
      /\ \A k \in Lists, f \in Elems : in_list'[k][f] => in_list[k][f] \/ f = e
  BY <1>1, <1>2, MarkUpdatedLists
<1>8. hist' \in [Elems -> Elems] /\ HistIsPermutation'
  BY <1>1, <1>2, MarkUpdatedHist
<1>9. TypeOK'
  BY <1>1, <1>5, <1>7, <1>8 DEF TypeOK
<1>10. HashTableExact'
  BY <1>1, <1>5 DEF HashTableExact
<1>11. ListedReportsAreLive'
  BY <1>2, <1>3, <1>5, <1>7 DEF ListedReportsAreLive, Live
<1> QED BY <1>6, <1>7, <1>8, <1>9, <1>10, <1>11

\* An advertisement that is only counted (adv_table.c:201-206).
LEMMA PutRepeatedPreserves ==
  ASSUME TableInv, NEW m \in Macs, NEW d \in Data, PutRepeated(m, d),
         use_ntp' = use_ntp, now' \in Nat, now <= now'
  PROVE  TableInv'
<1> USE DEF TableInv
<1>1. PICK e \in adv_hash_table_search(m) :
        /\ report' = [report EXCEPT ![e].samples_counter = @ + 1]
        /\ UNCHANGED <<in_hash, hash_table, in_list, list, hist>>
  BY DEF PutRepeated
<1>2. e \in Elems
  BY TableAssumption DEF adv_hash_table_search, TypeOK
<1>3. /\ report' \in [Elems -> Report]
      /\ \A f \in Elems : /\ report'[f].tag_mac = report[f].tag_mac
                          /\ report'[f].data = report[f].data
                          /\ report'[f].timestamp = report[f].timestamp
                          /\ report[f].timestamp \in Nat
  <2>1. report \in [Elems -> Report]
    BY DEF TypeOK
  <2>2. report' = [report EXCEPT ![e] = [report[e] EXCEPT !.samples_counter = @ + 1]]
    BY <1>1, <1>2, <2>1
  <2> DEFINE r == [report[e] EXCEPT !.samples_counter = @ + 1]
  <2>3. /\ r \in Report
        /\ r.tag_mac = report[e].tag_mac /\ r.data = report[e].data
        /\ r.timestamp = report[e].timestamp
    BY <1>2, <2>1 DEF Report
  <2>4. \A f \in Elems : report[f].timestamp \in Nat
    BY <2>1 DEF Report
  <2> HIDE DEF r
  <2> QED BY <2>1, <2>2, <2>3, <2>4, <1>2 DEF r
<1>4. TypeOK' /\ HashTableExact' /\ ListFlagsExact' /\ HistIsPermutation'
  BY <1>1, <1>3 DEF TypeOK, HashTableExact, ListFlagsExact, HistIsPermutation
<1>5. ListedReportsAreLive' /\ LivePrefix'
  BY <1>1, <1>3 DEF ListedReportsAreLive, LivePrefix, Live, TypeOK
<1>6. HistSorted'
  BY <1>1, <1>3 DEF HistSorted, Live, TypeOK
<1> QED BY <1>4, <1>5, <1>6

\* Reading a whole list empties it and resets exactly its flags.
LEMMA DrainPreserves ==
  ASSUME TableInv, NEW k \in Lists, adv_table_read_retransmission_list_and_clear(k)
  PROVE  TableInv'
<1> USE DEF TableInv
<1> DEFINE n == Len(list[k])
           gone == {list[k][i] : i \in 1..n}
<1>1. list[k] \in Seq(Elems) /\ n \in Nat /\ n <= MAX_ADVS_TABLE
  BY ListLength DEF TypeOK, ListsFitOutputTable
<1>2. /\ list' = [list EXCEPT ![k] = SubSeq(list[k], n + 1, n)]
      /\ in_list' = [in_list EXCEPT ![k] = [e \in Elems |-> e \notin gone /\ in_list[k][e]]]
      /\ UNCHANGED <<report, in_hash, hash_table, hist, use_ntp, now>>
  BY <1>1 DEF adv_table_read_retransmission_list_and_clear
<1>3. \A e \in Elems : in_list[k][e] <=> e \in gone
  BY DEF ListFlagsExact
<1>4. SubSeq(list[k], n + 1, n) = <<>>
  BY <1>1
<1>5. /\ list' \in [Lists -> Seq(Elems)] /\ list'[k] = <<>>
      /\ \A l \in Lists : l # k => list'[l] = list[l]
  BY <1>2, <1>4 DEF TypeOK
<1>6. /\ in_list' \in [Lists -> [Elems -> BOOLEAN]]
      /\ \A e \in Elems : ~in_list'[k][e]
      /\ \A l \in Lists : l # k => in_list'[l] = in_list[l]
  BY <1>2, <1>3 DEF TypeOK
<1>7. ListFlagsExact'
  <2> SUFFICES ASSUME NEW l \in Lists
               PROVE /\ \A e \in Elems : in_list'[l][e] <=> \E i \in 1..Len(list'[l]) : list'[l][i] = e
                     /\ \A i, j \in 1..Len(list'[l]) : list'[l][i] = list'[l][j] => i = j
    BY DEF ListFlagsExact
  <2>1. CASE l = k
    BY <2>1, <1>5, <1>6
  <2>2. CASE l # k
    <3>1. /\ \A e \in Elems : in_list[l][e] <=> \E i \in 1..Len(list[l]) : list[l][i] = e
          /\ \A i, j \in 1..Len(list[l]) : list[l][i] = list[l][j] => i = j
      BY DEF ListFlagsExact
    <3>2. list'[l] = list[l] /\ in_list'[l] = in_list[l]
      BY <2>2, <1>5, <1>6
    <3> QED BY <3>1, <3>2
  <2> QED BY <2>1, <2>2
<1>8. ListedReportsAreLive'
  BY <1>2, <1>6 DEF ListedReportsAreLive, Live
<1>9. TypeOK' /\ HashTableExact' /\ HistIsPermutation' /\ LivePrefix' /\ HistSorted'
  BY <1>2, <1>5, <1>6 DEF TypeOK, HashTableExact, HistIsPermutation, LivePrefix, HistSorted, Live
<1> QED BY <1>7, <1>8, <1>9

\* Taking the head of a list resets only the flag of that element.
LEMMA TakeHeadPreserves ==
  ASSUME TableInv, NEW k \in Lists, adv_table_read_retransmission_list_head(k)
  PROVE  TableInv'
<1> USE DEF TableInv
<1> DEFINE n == Len(list[k])
           x == Head(list[k])
<1>1. /\ list[k] \in Seq(Elems) /\ n \in Nat /\ list[k] # <<>>
      /\ list' = [list EXCEPT ![k] = Tail(list[k])]
      /\ in_list' = [in_list EXCEPT ![k][x] = FALSE]
      /\ UNCHANGED <<report, in_hash, hash_table, hist, use_ntp, now>>
  BY DEF adv_table_read_retransmission_list_head, TypeOK
<1>2. /\ x \in Elems /\ x = list[k][1] /\ n >= 1
      /\ Tail(list[k]) \in Seq(Elems) /\ Len(Tail(list[k])) = n - 1
      /\ \A i \in 1..(n - 1) : Tail(list[k])[i] = list[k][i + 1]
  BY <1>1
<1>3. /\ list' \in [Lists -> Seq(Elems)] /\ list'[k] = Tail(list[k])
      /\ \A l \in Lists : l # k => list'[l] = list[l]
  BY <1>1, <1>2 DEF TypeOK
<1>4. /\ in_list' \in [Lists -> [Elems -> BOOLEAN]]
      /\ \A e \in Elems : in_list'[k][e] <=> e # x /\ in_list[k][e]
      /\ \A l \in Lists : l # k => in_list'[l] = in_list[l]
  BY <1>1, <1>2 DEF TypeOK
<1>5. ListFlagsExact'
  <2> SUFFICES ASSUME NEW l \in Lists
               PROVE /\ \A e \in Elems : in_list'[l][e] <=> \E i \in 1..Len(list'[l]) : list'[l][i] = e
                     /\ \A i, j \in 1..Len(list'[l]) : list'[l][i] = list'[l][j] => i = j
    BY DEF ListFlagsExact
  <2>0. /\ \A e \in Elems : in_list[k][e] <=> \E i \in 1..n : list[k][i] = e
        /\ \A i, j \in 1..n : list[k][i] = list[k][j] => i = j
    BY DEF ListFlagsExact
  <2>1. CASE l = k
    <3>1. ASSUME NEW e \in Elems
          PROVE  in_list'[k][e] <=> \E i \in 1..(n - 1) : list[k][i + 1] = e
      <4>1. ASSUME NEW i \in 1..(n - 1), list[k][i + 1] = e
            PROVE  e # x /\ in_list[k][e]
        BY <4>1, <2>0, <1>1, <1>2
      <4>2. ASSUME e # x, in_list[k][e]
            PROVE  \E i \in 1..(n - 1) : list[k][i + 1] = e
        <5>1. PICK i \in 1..n : list[k][i] = e
          BY <4>2, <2>0
        <5>2. i # 1 /\ i - 1 \in 1..(n - 1) /\ (i - 1) + 1 = i
          BY <5>1, <4>2, <1>1, <1>2
        <5> QED BY <5>1, <5>2
      <4> QED BY <4>1, <4>2, <1>4
    <3>2. ASSUME NEW i \in 1..(n - 1), NEW j \in 1..(n - 1), list[k][i + 1] = list[k][j + 1]
          PROVE  i = j
      <4>1. i + 1 \in 1..n /\ j + 1 \in 1..n /\ i \in Int /\ j \in Int
        BY <1>1
      <4>2. i + 1 = j + 1
        BY <3>2, <4>1, <2>0
      <4> QED BY <4>1, <4>2
    <3>3. /\ Len(list'[k]) = n - 1
          /\ \A i \in 1..(n - 1) : list'[k][i] = list[k][i + 1]
      BY <1>2, <1>3
    <3> HIDE DEF x, n
    <3>4. \A e \in Elems : in_list'[k][e] <=> \E i \in 1..(n - 1) : list'[k][i] = e
      BY <3>1, <3>3
    <3>5. \A i, j \in 1..(n - 1) : list'[k][i] = list'[k][j] => i = j
      BY <3>2, <3>3
    <3> QED BY <2>1, <3>3, <3>4, <3>5
  <2>2. CASE l # k
    <3>1. /\ \A e \in Elems : in_list[l][e] <=> \E i \in 1..Len(list[l]) : list[l][i] = e
          /\ \A i, j \in 1..Len(list[l]) : list[l][i] = list[l][j] => i = j
      BY DEF ListFlagsExact
    <3>2. list'[l] = list[l] /\ in_list'[l] = in_list[l]
      BY <2>2, <1>3, <1>4
    <3> QED BY <3>1, <3>2
  <2> QED BY <2>1, <2>2
<1>6. ListedReportsAreLive'
  BY <1>1, <1>4 DEF ListedReportsAreLive, Live
<1>7. TypeOK' /\ HashTableExact' /\ HistIsPermutation' /\ LivePrefix' /\ HistSorted'
  BY <1>1, <1>3, <1>4 DEF TypeOK, HashTableExact, HistIsPermutation, LivePrefix, HistSorted, Live
<1> QED BY <1>5, <1>6, <1>7

\* A step that changes at most samples_counter of reports keeps the invariant.
LEMMA CountersPreserve ==
  ASSUME TableInv, report' \in [Elems -> Report],
         \A f \in Elems : /\ report'[f].tag_mac = report[f].tag_mac
                          /\ report'[f].data = report[f].data
                          /\ report'[f].timestamp = report[f].timestamp,
         UNCHANGED <<in_hash, hash_table, in_list, list, hist, use_ntp, now>>
  PROVE  TableInv'
<1> USE DEF TableInv
<1>1. TypeOK'
  BY DEF TypeOK
<1>2. HashTableExact'
  BY DEF HashTableExact
<1>3. ListFlagsExact' /\ HistIsPermutation'
  BY DEF ListFlagsExact, HistIsPermutation
<1>4. ListedReportsAreLive' /\ LivePrefix' /\ HistSorted'
  BY DEF ListedReportsAreLive, LivePrefix, HistSorted, Live, TypeOK
<1> QED BY <1>1, <1>2, <1>3, <1>4

\* Reading statistics only resets counters (adv_table.c:415-443).
LEMMA StatisticsPreserves ==
  ASSUME TableInv, adv_table_statistics_read
  PROVE  TableInv'
<1> DEFINE read == {hist[i] : i \in StatisticsPositions}
<1>1. /\ report' = [e \in Elems |-> IF e \in read THEN [report[e] EXCEPT !.samples_counter = 0]
                                                 ELSE report[e]]
      /\ UNCHANGED <<in_hash, hash_table, in_list, list, hist, use_ntp, now>>
  BY DEF adv_table_statistics_read
<1>2. report \in [Elems -> Report]
  BY DEF TableInv, TypeOK
<1> HIDE DEF read
<1>3. ASSUME NEW f \in Elems
      PROVE  /\ report'[f] \in Report
             /\ report'[f].tag_mac = report[f].tag_mac
             /\ report'[f].data = report[f].data
             /\ report'[f].timestamp = report[f].timestamp
  <2>1. report[f] \in Report
    BY <1>2
  <2>2. report'[f] = IF f \in read THEN [report[f] EXCEPT !.samples_counter = 0] ELSE report[f]
    BY <1>1
  <2> QED BY <2>1, <2>2 DEF Report
<1>4. report' \in [Elems -> Report]
  BY <1>1, <1>3
<1> QED BY <1>1, <1>3, <1>4, CountersPreserve

\* Clearing empties the lists and frees every element in place
\* (adv_table.c:450-507).
LEMMA ClearPreserves ==
  ASSUME TableInv, adv_table_clear
  PROVE  TableInv'
<1> USE DEF TableInv
<1>1. /\ list' = [k \in Lists |-> <<>>]
      /\ in_list' = [k \in Lists |-> [e \in Elems |-> FALSE]]
      /\ report' = [e \in Elems |-> [report[e] EXCEPT !.timestamp = 0, !.samples_counter = 0,
                                                      !.data = NoData]]
      /\ UNCHANGED <<in_hash, hash_table, hist, use_ntp, now>>
  BY DEF adv_table_clear
<1>u. /\ UNCHANGED <<in_hash, hash_table, hist, use_ntp, now>>
      /\ list' = [k \in Lists |-> <<>>]
      /\ in_list' = [k \in Lists |-> [e \in Elems |-> FALSE]]
  BY <1>1
<1>2. ASSUME NEW f \in Elems
      PROVE  /\ report'[f] \in Report
             /\ report'[f].tag_mac = report[f].tag_mac
             /\ report'[f].data = NoData
             /\ report'[f].timestamp = 0
  <2>1. report[f] \in Report
    BY DEF TypeOK
  <2>2. report'[f] = [report[f] EXCEPT !.timestamp = 0, !.samples_counter = 0, !.data = NoData]
    BY <1>1
  <2>3. report'[f] = [tag_mac |-> report[f].tag_mac, data |-> NoData,
                      timestamp |-> 0, samples_counter |-> 0]
    BY <2>1, <2>2 DEF Report
  <2>4. report[f].tag_mac \in Macs \cup {NoMac}
    BY <2>1 DEF Report
  <2> QED BY <2>3, <2>4 DEF Report
<1>3. TypeOK'
  <2>1. report' \in [Elems -> Report]
    BY <1>1, <1>2
  <2>2. list' \in [Lists -> Seq(Elems)] /\ in_list' \in [Lists -> [Elems -> BOOLEAN]]
    <3>1. <<>> \in Seq(Elems) /\ [e \in Elems |-> FALSE] \in [Elems -> BOOLEAN]
      OBVIOUS
    <3> QED BY <1>u, <3>1
  <2> QED BY <1>u, <2>1, <2>2 DEF TypeOK
<1>4. HashTableExact'
  BY <1>u, <1>2 DEF HashTableExact
<1>5. HistIsPermutation'
  BY <1>1 DEF HistIsPermutation
<1>6. ListFlagsExact'
  <2>1. ASSUME NEW k \in Lists
        PROVE  Len(list'[k]) = 0 /\ \A e \in Elems : ~in_list'[k][e]
    BY <1>1
  <2> QED BY <2>1 DEF ListFlagsExact
<1>7. ListedReportsAreLive'
  BY <1>1 DEF ListedReportsAreLive
<1>8. LivePrefix' /\ HistSorted'
  <2>1. hist' \in [Elems -> Elems] /\ now' \in Nat
    BY <1>u DEF TypeOK
  <2> QED BY <2>1, <1>2 DEF LivePrefix, HistSorted, Live
<1> QED BY <1>3, <1>4, <1>5, <1>6, <1>7, <1>8

\* adv_table_init establishes the invariant.
LEMMA InitTableInv == Init => TableInv
<1> SUFFICES ASSUME Init PROVE TableInv
  OBVIOUS
<1> USE DEF Init, adv_table_init, InitClock
<1>1. TypeOK
  BY TableAssumption DEF TypeOK, Report, FreeReport, Elems
<1>2. HashTableExact
  BY DEF HashTableExact, FreeReport
<1>3. ListFlagsExact /\ ListedReportsAreLive
  BY DEF ListFlagsExact, ListedReportsAreLive
<1>4. HistIsPermutation
  BY DEF HistIsPermutation
<1>5. LivePrefix
  BY DEF LivePrefix, Live, FreeReport
<1>6. HistSorted
  BY DEF HistSorted, Live, FreeReport
<1> QED BY <1>1, <1>2, <1>3, <1>4, <1>5, <1>6 DEF TableInv

\* Every operation of the table keeps the invariant.
LEMMA NextTableInv == TableInv /\ [Next]_vars => TableInv'
<1> SUFFICES ASSUME TableInv, [Next]_vars PROVE TableInv'
  OBVIOUS
<1>0. now \in Nat
  BY DEF TableInv, TypeOK
<1>1. ASSUME NEW m \in Macs, NEW d \in Data, adv_put_to_table(m, d)
      PROVE  TableInv'
  <2>1. use_ntp' = use_ntp /\ now' \in Nat /\ now <= now'
    BY <1>0, <1>1 DEF adv_put_to_table
  <2>2. CASE PutNew(m, d)
    BY <2>1, <2>2, PutNewPreserves
  <2>3. CASE PutChanged(m, d)
    BY <2>1, <2>3, PutChangedPreserves
  <2>4. CASE PutRepeated(m, d)
    BY <2>1, <2>4, PutRepeatedPreserves
  <2> QED BY <1>1, <2>2, <2>3, <2>4 DEF adv_put_to_table
<1>2. ASSUME NEW k \in Lists, adv_table_read_retransmission_list_and_clear(k)
      PROVE  TableInv'
  BY <1>2, DrainPreserves
<1>3. ASSUME NEW k \in Lists \cap {3}, adv_table_read_retransmission_list_head(k)
      PROVE  TableInv'
  BY <1>3, TakeHeadPreserves
<1>4. CASE adv_table_statistics_read
  BY <1>4, StatisticsPreserves
<1>5. CASE adv_table_clear
  BY <1>5, ClearPreserves
<1>6. CASE Tick
  BY <1>6 DEF Tick, TableInv, TypeOK, HashTableExact, ListFlagsExact, ListedReportsAreLive,
              HistIsPermutation, LivePrefix, HistSorted, Live, Report
<1>7. CASE UNCHANGED vars
  BY <1>7 DEF vars, TableInv, TypeOK, HashTableExact, ListFlagsExact, ListedReportsAreLive,
              HistIsPermutation, LivePrefix, HistSorted, Live
<1> QED BY <1>1, <1>2, <1>3, <1>4, <1>5, <1>6, <1>7 DEF Next

\* The inductive invariant holds in every reachable state of the table.
THEOREM TableInvariant == Spec => []TableInv
BY InitTableInv, NextTableInv, PTL DEF Spec

\* Type correctness of adv_table.c's state.
THEOREM TypeCorrect == Spec => []TypeOK
<1>1. TableInv => TypeOK
  BY DEF TableInv
<1> QED BY <1>1, TableInvariant, PTL

\* The MAC lookup is exact whatever elements were taken over or cleared.
THEOREM HashTableCorrect == Spec => []HashTableExact
<1>1. TableInv => HashTableExact
  BY DEF TableInv
<1> QED BY <1>1, TableInvariant, PTL

\* The flags agree with the links, and no list outgrows its output table.
THEOREM ListsCorrect == Spec => [](ListFlagsExact /\ ListsFitOutputTable)
<1>1. TableInv => ListFlagsExact /\ ListsFitOutputTable
  BY ListLength DEF TableInv
<1> QED BY <1>1, TableInvariant, PTL

\* Only live reports are queued for retransmission.
THEOREM ListedLive == Spec => []ListedReportsAreLive
<1>1. TableInv => ListedReportsAreLive
  BY DEF TableInv
<1> QED BY <1>1, TableInvariant, PTL

\* hist_list is a permutation with the live reports first, newest first.
THEOREM HistCorrect == Spec => [](HistIsPermutation /\ LivePrefix /\ HistSorted)
<1>1. TableInv => HistIsPermutation /\ LivePrefix /\ HistSorted
  BY DEF TableInv
<1> QED BY <1>1, TableInvariant, PTL

\* Timestamps fit a machine word (adv_table.h:40).
LEMMA ClockBounded == Spec => [](now <= MaxTime)
<1>1. Init => now <= MaxTime
  BY TableAssumption DEF Init, InitClock
<1>2. ASSUME TypeOK, now <= MaxTime, [Next]_vars
      PROVE  (now <= MaxTime)'
  <2>0. now \in Nat /\ MaxTime \in Nat /\ use_ntp \in BOOLEAN
    BY <1>2, TableAssumption DEF TypeOK
  <2>1. ASSUME NEW m \in Macs, NEW d \in Data, adv_put_to_table(m, d) PROVE now' <= MaxTime
    BY <1>2, <2>0, <2>1 DEF adv_put_to_table
  <2>2. CASE Tick
    BY <1>2, <2>0, <2>2 DEF Tick
  <2>3. ASSUME UNCHANGED now PROVE now' <= MaxTime
    BY <1>2, <2>3
  <2> QED BY <1>2, <2>1, <2>2, <2>3 DEF Next, vars, adv_table_clear, adv_table_statistics_read,
             adv_table_read_retransmission_list_and_clear,
             adv_table_read_retransmission_list_head
<1> QED BY <1>1, <1>2, TypeCorrect, PTL DEF Spec

\* What the conversions do to small differences.
LEMMA Conversions ==
  ASSUME NEW x \in Int, -MaxTime <= x, x <= MaxTime
  PROVE  /\ ToUint(x) = IF x >= 0 THEN x ELSE x + Word
         /\ ToInt(x) = x
<1>1. Word \in Nat /\ MaxTime \in Nat /\ 2 * MaxTime < Word
  BY TableAssumption
<1>2. CASE x >= 0
  <2>1. x % Word = x
    BY <1>1, <1>2
  <2> QED BY <1>1, <1>2, <2>1 DEF ToUint, ToInt
<1>3. CASE x < 0
  <2>1. x % Word = x + Word
    BY <1>1, <1>3
  <2> QED BY <1>1, <1>3, <2>1 DEF ToUint, ToInt
<1> QED BY <1>2, <1>3

\* What a scan of hist_list that stops at the first element that does not
\* match has passed, when an element that matches comes before all others.
LEMMA ScanPrefix ==
  ASSUME TypeOK, HistIsPermutation, NEW M, NEW P,
         P = {i \in Elems : \A j \in 1..i : hist[j] \in M},
         \A i, j \in Elems : i < j /\ hist[j] \in M => hist[i] \in M
  PROVE  {hist[i] : i \in P} = {e \in Elems : e \in M}
<1>1. \A i \in Elems : 1..i \subseteq Elems /\ i \in 1..i /\ \A j \in 1..i : j = i \/ j < i
  BY TableAssumption DEF Elems
<1>2. \A i \in Elems : i \in P <=> hist[i] \in M
  BY <1>1
<1>3. hist \in [Elems -> Elems] /\ \A e \in Elems : \E i \in Elems : hist[i] = e
  BY DEF TypeOK, HistIsPermutation
<1> QED BY <1>2, <1>3

\* The scan of hist_list for the statistics loses no dated report.
LEMMA StatisticsScan == TableInv => StatisticsReadComplete
<1>1. ASSUME TableInv PROVE StatisticsReadComplete
  <2> DEFINE M == {e \in Elems : report[e].timestamp # 0}
  <2>0. /\ report \in [Elems -> Report] /\ hist \in [Elems -> Elems]
        /\ \A e \in Elems : report[e].data = NoData => report[e].timestamp = 0
        /\ \A i, j \in Elems : i < j => report[hist[j]].timestamp <= report[hist[i]].timestamp
    BY <1>1 DEF TableInv, TypeOK, HistSorted, Live
  <2>1. \A e \in Elems : report[e].timestamp \in Nat
    BY <2>0 DEF Report
  <2>2. \A i \in Elems : \A j \in 1..i : j \in Elems /\ hist[j] \in Elems
    BY <2>0, TableAssumption DEF Elems
  <2>3. StatisticsPositions = {i \in Elems : \A j \in 1..i : hist[j] \in M}
    BY <2>2 DEF StatisticsPositions, ScannedUpTo
  <2>4. \A i, j \in Elems : i < j /\ hist[j] \in M => hist[i] \in M
    BY <2>0, <2>1
  <2>5. TypeOK /\ HistIsPermutation
    BY <1>1 DEF TableInv
  <2> HIDE DEF M
  <2>6. {hist[i] : i \in StatisticsPositions} = {e \in Elems : e \in M}
    BY <2>3, <2>4, <2>5, ScanPrefix
  <2> QED BY <2>0, <2>6 DEF StatisticsReadComplete, Live, M
<1> QED BY <1>1

\* The scan of hist_list for the history, with a clock value read earlier.
LEMMA HistoryScan == TableInv /\ now <= MaxTime => HistoryReadComplete
<1> SUFFICES ASSUME TableInv, now <= MaxTime,
                    NEW cur_time \in 0..now, NEW filter \in 0..MaxTime, NEW use_filter \in BOOLEAN
             PROVE  LET Overtaken == /\ use_ntp /\ use_filter
                                     /\ \E e \in Elems : Live(e) /\ report[e].timestamp > cur_time
                        Selected(e) == use_filter =>
                                         IF use_ntp THEN cur_time - report[e].timestamp <= filter
                                                    ELSE report[e].timestamp > filter
                    IN {hist[i] : i \in adv_table_history_read(cur_time, filter, use_filter)} =
                         {e \in Elems : Live(e) /\ ~Overtaken /\ Selected(e)}
  BY DEF HistoryReadComplete
<1> DEFINE Overtaken == /\ use_ntp /\ use_filter
                        /\ \E e \in Elems : Live(e) /\ report[e].timestamp > cur_time
           Selected(e) == use_filter => IF use_ntp THEN cur_time - report[e].timestamp <= filter
                                                   ELSE report[e].timestamp > filter
           Stop(r) == \/ r.data = NoData
                      \/ use_filter /\ IF use_ntp THEN ToUint(cur_time - r.timestamp) > filter
                                                  ELSE ToInt(r.timestamp - filter) <= 0
           M == {e \in Elems : ~Stop(report[e])}
           P == adv_table_history_read(cur_time, filter, use_filter)
<1>0. /\ report \in [Elems -> Report] /\ hist \in [Elems -> Elems]
      /\ TypeOK /\ HistIsPermutation
      /\ \A e \in Elems : \E i \in Elems : hist[i] = e
      /\ \A i, j \in Elems : i < j /\ Live(hist[j]) => Live(hist[i])
      /\ \A e \in Elems : report[e].timestamp <= now
      /\ \A i, j \in Elems : i < j => report[hist[j]].timestamp <= report[hist[i]].timestamp
  BY DEF TableInv, TypeOK, HistIsPermutation, LivePrefix, HistSorted
<1>1. /\ now \in Nat /\ MaxTime \in Nat /\ Word \in Nat /\ 2 * MaxTime < Word
      /\ cur_time \in Nat /\ cur_time <= MaxTime /\ filter \in Nat /\ filter <= MaxTime
  BY TableAssumption DEF TableInv, TypeOK
<1>2. \A e \in Elems : report[e].timestamp \in Nat /\ report[e].timestamp <= MaxTime
  BY <1>0, <1>1 DEF Report
<1>3. ASSUME NEW e \in Elems
      PROVE  /\ ToUint(cur_time - report[e].timestamp) > filter <=>
                   \/ report[e].timestamp > cur_time
                   \/ cur_time - report[e].timestamp > filter
             /\ ToInt(report[e].timestamp - filter) <= 0 <=> report[e].timestamp <= filter
  <2> DEFINE x == cur_time - report[e].timestamp
             y == report[e].timestamp - filter
  <2>1. /\ report[e].timestamp \in Nat
        /\ x \in Int /\ -MaxTime <= x /\ x <= MaxTime
        /\ y \in Int /\ -MaxTime <= y /\ y <= MaxTime
    BY <1>1, <1>2
  <2>2. ToUint(x) = (IF x >= 0 THEN x ELSE x + Word) /\ ToInt(y) = y
    BY <2>1, Conversions
  <2> QED BY <1>1, <2>1, <2>2
<1>4. \A e \in Elems : e \in M <=>
        /\ Live(e)
        /\ use_filter => IF use_ntp
                         THEN report[e].timestamp <= cur_time /\ cur_time - report[e].timestamp <= filter
                         ELSE report[e].timestamp > filter
  BY <1>1, <1>2, <1>3 DEF Live
<1>5. \A i \in Elems : \A j \in 1..i : j \in Elems /\ hist[j] \in Elems
  <2>1. \A i \in Elems : 1..i \subseteq Elems
    BY TableAssumption DEF Elems
  <2>2. hist \in [Elems -> Elems]
    BY <1>0
  <2> QED BY <2>1, <2>2
<1>6. P = {i \in Elems : \A j \in 1..i : hist[j] \in M}
  BY <1>5 DEF adv_table_history_read, ScannedUpTo
<1> HIDE DEF M, P
<1>7. CASE ~Overtaken
  <2>1. \A e \in Elems : e \in M <=> Live(e) /\ ~Overtaken /\ Selected(e)
    BY <1>1, <1>2, <1>4, <1>7
  <2>2. \A i, j \in Elems : i < j /\ hist[j] \in M => hist[i] \in M
    BY <1>0, <1>1, <1>2, <2>1
  <2>3. {hist[i] : i \in P} = {e \in Elems : e \in M}
    BY <1>0, <1>6, <2>2, ScanPrefix
  <2> QED BY <2>1, <2>3 DEF P
<1>8. CASE Overtaken
  <2>1. PICK e \in Elems : use_ntp /\ use_filter /\ Live(e) /\ report[e].timestamp > cur_time
    BY <1>8
  <2>2. PICK i \in Elems : hist[i] = e
    BY <1>0
  <2>3. 1 \in Elems /\ (i = 1 \/ 1 < i) /\ \A j \in Elems : 1 \in 1..j
    BY TableAssumption DEF Elems
  <2>4. report[hist[1]].timestamp > cur_time
    BY <1>0, <1>1, <1>2, <2>1, <2>2, <2>3
  <2>5. hist[1] \notin M
    BY <1>0, <1>1, <1>2, <1>4, <2>1, <2>3, <2>4
  <2>6. P = {}
    BY <1>6, <2>3, <2>5
  <2> QED BY <1>8, <2>6 DEF P
<1> QED BY <1>7, <1>8

\* A history request returns exactly the live reports its filter selects, and
\* nothing when a newer report overtook it (adv_table_history_read,
\* adv_table.c:360-413, with its caller http_server_cb_on_get.c:343-350).
THEOREM HistoryComplete == Spec => []HistoryReadComplete
BY HistoryScan, ClockBounded, TableInvariant, PTL

\* Statistics covers every dated live report (adv_table_statistics_read,
\* adv_table.c:415-443).
THEOREM StatisticsComplete == Spec => []StatisticsReadComplete
BY StatisticsScan, TableInvariant, PTL
=============================================================================
