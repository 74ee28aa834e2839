------------------------------ MODULE AdvStore ------------------------------
(***************************************************************************)
(* What the advertisement table promises to its users, without elements,   *)
(* hash buckets, flags or links: a bounded store that keeps the latest      *)
(* report of the most recently updated tags, and, for every retransmission  *)
(* list, the set of tags whose report has changed since the list was read.  *)
(* AdvTable implements this specification.                                   *)
(***************************************************************************)
EXTENDS Naturals, Sequences, FiniteSets

CONSTANTS Macs,       \* MAC addresses of the tags
          Data,       \* payloads of advertisements
          ExtData,    \* payloads longer than a regular advertisement
          Lists,      \* retransmission lists
          Capacity    \* how many tags the store remembers

VARIABLES recent,     \* the remembered tags, the last updated one first
          store,      \* their reports
          pending,    \* for every list, the tags it still has to report
          now         \* the timestamp the next report gets

vars == <<recent, store, pending, now>>

Entry == [data : Data, timestamp : Nat, samples_counter : Nat]

Known == {recent[i] : i \in 1..Len(recent)}

Init == /\ recent = <<>>
        /\ store = [m \in {} |-> <<>>]
        /\ pending = [k \in Lists |-> {}]
        /\ now \in Nat

\* The tag at position p comes to the front.
ToFront(p) ==
  [i \in 1..Len(recent) |-> IF i = 1 THEN recent[p] ELSE IF i <= p THEN recent[i - 1]
                                                                  ELSE recent[i]]

\* A tag is put in front of the first n - 1.
PutFirst(m, n) == [i \in 1..n |-> IF i = 1 THEN m ELSE recent[i - 1]]

Repeated(m, d) == \/ store[m].data = d
                  \/ store[m].data \in ExtData /\ d \notin ExtData

\* A repeated advertisement is only counted.
Count(m, d) ==
  /\ m \in Known /\ Repeated(m, d)
  /\ store' = [store EXCEPT ![m].samples_counter = @ + 1]
  /\ UNCHANGED <<recent, pending>>

\* A new payload replaces the one of the same tag, whatever was unsent.
Update(m, d) ==
  /\ m \in Known /\ ~Repeated(m, d)
  /\ store' = [store EXCEPT ![m] = [data |-> d, timestamp |-> now,
                                    samples_counter |-> @.samples_counter + 1]]
  /\ \E p \in 1..Len(recent) : recent[p] = m /\ recent' = ToFront(p)
  /\ pending' = [k \in Lists |-> pending[k] \cup {m}]

\* A tag that is not remembered takes a free place, and forces the least
\* recently updated tag out only when there is none.
Insert(m, d) ==
  /\ m \notin Known
  /\ LET victims == IF Len(recent) < Capacity THEN {} ELSE {recent[Len(recent)]}
         kept    == Known \ victims
     IN \E n \in {0, 1} :
          /\ store' = [x \in kept \cup {m} |->
                         IF x = m THEN [data |-> d, timestamp |-> now, samples_counter |-> n]
                                  ELSE store[x]]
          /\ recent' = PutFirst(m, IF victims = {} THEN Len(recent) + 1 ELSE Capacity)
          /\ pending' = [k \in Lists |-> (pending[k] \ victims) \cup {m}]

Put(m, d) == /\ Count(m, d) \/ Update(m, d) \/ Insert(m, d)
             /\ now' \in {now, now + 1}

\* Reading a list reports every pending tag of it.
Drain(k) == /\ pending' = [pending EXCEPT ![k] = {}]
            /\ UNCHANGED <<recent, store, now>>

\* Reading the head of a list reports one pending tag of it.
TakeOne(k) == /\ \E m \in pending[k] : pending' = [pending EXCEPT ![k] = @ \ {m}]
              /\ UNCHANGED <<recent, store, now>>

\* Statistics reports and resets the counters of all dated reports.
Statistics ==
  /\ store' = [m \in Known |-> IF store[m].timestamp = 0 THEN store[m]
                               ELSE [store[m] EXCEPT !.samples_counter = 0]]
  /\ UNCHANGED <<recent, pending, now>>

Clear == /\ recent' = <<>>
         /\ store' = [m \in {} |-> <<>>]
         /\ pending' = [k \in Lists |-> {}]
         /\ UNCHANGED now

Tick == now' = now + 1 /\ UNCHANGED <<recent, store, pending>>

Next == \/ \E m \in Macs, d \in Data : Put(m, d)
        \/ \E k \in Lists : Drain(k) \/ TakeOne(k)
        \/ Statistics
        \/ Clear
        \/ Tick

Spec == Init /\ [][Next]_vars
=============================================================================
