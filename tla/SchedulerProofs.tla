-------------------------- MODULE SchedulerProofs ---------------------------
(***************************************************************************)
(* The scheduler over the kv cache, for every cache size, block size,      *)
(* budget and number of requests.  First the queues: requests are served   *)
(* in order of arrival, whatever preemption does (FirstComeFirstServed),   *)
(* and remove_request finds every request in the queue its status names    *)
(* (StatusNamesQueue).  Then the cache: each operation of its manager      *)
(* keeps the blocks accounted for and the index without stale entries.     *)
(* Then both together: each action keeps EngineInv, so that every variable *)
(* has its type and the batch is the head of the line.  Last, what the     *)
(* requests get: limits, samples, content, and the service as a whole.     *)
(*                                                                         *)
(* The concatenation of the three queues is increasing exactly when each   *)
(* queue is and each stands before the next; the actions are followed in   *)
(* that form (Ordered), where preemption and admission move one element    *)
(* over a boundary.                                                        *)
(***************************************************************************)
EXTENDS Scheduler, CommonFacts, FiniteSetTheorems, SequenceTheorems, TLAPS

Sorted(q) == \A i, j \in DOMAIN q : i < j => q[i] < q[j]
Before(p, q) == \A x \in Elements(p), y \in Elements(q) : x < y

Queues ==
    /\ running \in Seq(Requests)
    /\ preempted \in Seq(Requests)
    /\ waiting \in Seq(Requests)
    /\ status \in [Requests -> Statuses]
    /\ numAdded \in 0 .. MaxRequests
    /\ live \subseteq 1 .. numAdded
    /\ cursor \in Nat \ {0}
    /\ pc = "admit" => preempted # <<>> \/ waiting # <<>>

Ordered ==
    /\ Sorted(running) /\ Sorted(preempted) /\ Sorted(waiting)
    /\ Before(running, preempted)
    /\ Before(running, waiting)
    /\ Before(preempted, waiting)
    /\ Elements(running) \cup Elements(preempted) \cup Elements(waiting) = live

\* StatusNamesQueue, said of the elements.
StatusOfElements ==
    /\ \A r \in Elements(running) : status[r] = "running"
    /\ \A r \in Elements(preempted) : status[r] = "preempted"
    /\ \A r \in Elements(waiting) : status[r] = "waiting"

IInv == Queues /\ Ordered /\ StatusOfElements

-----------------------------------------------------------------------------
(* Queues of requests *)

LEMMA ElementsOfSeq ==
    ASSUME NEW q \in Seq(Requests)
    PROVE  /\ Elements(q) \subseteq Requests
           /\ DOMAIN q = 1 .. Len(q)
           /\ \A i \in 1 .. Len(q) : q[i] \in Elements(q)
  BY DEF Elements

LEMMA RequestsAreIntegers == Requests \subseteq Nat \ {0}
  BY DEF Requests

LEMMA ElementsOfConcat ==
    ASSUME NEW p \in Seq(Requests), NEW q \in Seq(Requests)
    PROVE  Elements(p \o q) = Elements(p) \cup Elements(q)
  <1>1. /\ p \o q \in Seq(Requests)
        /\ Len(p \o q) = Len(p) + Len(q)
        /\ \A i \in 1 .. Len(p) : (p \o q)[i] = p[i]
        /\ \A i \in 1 .. Len(q) : (p \o q)[Len(p) + i] = q[i]
    OBVIOUS
  <1>2. ASSUME NEW x \in Elements(p \o q)
        PROVE  x \in Elements(p) \cup Elements(q)
    <2>1. PICK k \in 1 .. Len(p) + Len(q) : (p \o q)[k] = x
      BY <1>1, <1>2 DEF Elements
    <2>2. CASE k <= Len(p)
      BY <1>1, <2>1, <2>2 DEF Elements
    <2>3. CASE k > Len(p)
      <3>1. k - Len(p) \in 1 .. Len(q) /\ (p \o q)[Len(p) + (k - Len(p))] = x
        BY <2>1, <2>3
      <3>2. x = q[k - Len(p)]
        BY <1>1, <3>1
      <3> QED
        BY <3>1, <3>2, ElementsOfSeq
    <2> QED
      BY <2>1, <2>2, <2>3
  <1>3. ASSUME NEW x \in Elements(p) PROVE x \in Elements(p \o q)
    <2>1. PICK k \in 1 .. Len(p) : p[k] = x
      BY <1>3 DEF Elements
    <2>2. k \in 1 .. Len(p \o q) /\ (p \o q)[k] = x
      BY <1>1, <2>1
    <2> QED
      BY <1>1, <2>2, ElementsOfSeq
  <1>4. ASSUME NEW x \in Elements(q) PROVE x \in Elements(p \o q)
    <2>1. PICK k \in 1 .. Len(q) : q[k] = x
      BY <1>4 DEF Elements
    <2>2. Len(p) + k \in 1 .. Len(p \o q) /\ (p \o q)[Len(p) + k] = x
      BY <1>1, <2>1
    <2> QED
      BY <1>1, <2>2, ElementsOfSeq
  <1> QED
    BY <1>2, <1>3, <1>4

LEMMA SortedConcat ==
    ASSUME NEW p \in Seq(Requests), NEW q \in Seq(Requests),
           Sorted(p), Sorted(q), Before(p, q)
    PROVE  Sorted(p \o q)
  <1>1. /\ DOMAIN (p \o q) = 1 .. Len(p) + Len(q)
        /\ \A i \in 1 .. Len(p) + Len(q) :
              (p \o q)[i] = IF i <= Len(p) THEN p[i] ELSE q[i - Len(p)]
    OBVIOUS
  <1>2. SUFFICES ASSUME NEW i \in 1 .. Len(p) + Len(q),
                        NEW j \in 1 .. Len(p) + Len(q), i < j
                 PROVE  (p \o q)[i] < (p \o q)[j]
    BY <1>1 DEF Sorted
  <1>3. CASE j <= Len(p)
    BY <1>1, <1>2, <1>3 DEF Sorted
  <1>4. CASE i > Len(p)
    <2>1. i - Len(p) \in DOMAIN q /\ j - Len(p) \in DOMAIN q
      BY <1>2, <1>4
    <2> QED
      BY <1>1, <1>2, <1>4, <2>1 DEF Sorted
  <1>5. CASE i <= Len(p) /\ j > Len(p)
    <2>1. p[i] \in Elements(p) /\ q[j - Len(p)] \in Elements(q)
      BY <1>2, <1>5, ElementsOfSeq
    <2> QED
      BY <1>1, <1>5, <2>1 DEF Before
  <1> QED
    BY <1>3, <1>4, <1>5

LEMMA AppendToSorted ==
    ASSUME NEW q \in Seq(Requests), NEW r \in Requests,
           Sorted(q), \A x \in Elements(q) : x < r
    PROVE  /\ Append(q, r) \in Seq(Requests)
           /\ Sorted(Append(q, r))
           /\ Elements(Append(q, r)) = Elements(q) \cup {r}
  <1>1. /\ Append(q, r) = q \o <<r>>
        /\ <<r>> \in Seq(Requests)
        /\ Elements(<<r>>) = {r}
        /\ Sorted(<<r>>)
        /\ Before(q, <<r>>)
    BY DEF Elements, Sorted, Before
  <1>2. Sorted(q \o <<r>>)
    BY <1>1, SortedConcat
  <1>3. Elements(q \o <<r>>) = Elements(q) \cup {r}
    BY <1>1, ElementsOfConcat
  <1> QED
    BY <1>1, <1>2, <1>3

LEMMA PrependToSorted ==
    ASSUME NEW q \in Seq(Requests), NEW r \in Requests,
           Sorted(q), \A x \in Elements(q) : r < x
    PROVE  /\ <<r>> \o q \in Seq(Requests)
           /\ Sorted(<<r>> \o q)
           /\ Elements(<<r>> \o q) = Elements(q) \cup {r}
  <1>1. /\ <<r>> \in Seq(Requests)
        /\ Elements(<<r>>) = {r}
        /\ Sorted(<<r>>)
        /\ Before(<<r>>, q)
    BY DEF Elements, Sorted, Before
  <1>2. Sorted(<<r>> \o q)
    BY <1>1, SortedConcat
  <1>3. Elements(<<r>> \o q) = Elements(<<r>>) \cup Elements(q)
    BY <1>1, ElementsOfConcat
  <1> QED
    BY <1>1, <1>2, <1>3

\* Erasing a request from a queue takes out that request and moves no other.
LEMMA WithoutOfSorted ==
    ASSUME NEW q \in Seq(Requests), NEW r, Sorted(q)
    PROVE  /\ Without(q, r) \in Seq(Requests)
           /\ Sorted(Without(q, r))
           /\ Elements(Without(q, r)) = Elements(q) \ {r}
  <1>1. CASE ~\E k \in DOMAIN q : q[k] = r
    <2>1. Without(q, r) = q /\ r \notin Elements(q)
      BY <1>1 DEF Without, Elements
    <2> QED
      BY <2>1
  <1>2. CASE \E k \in DOMAIN q : q[k] = r
    <2> DEFINE k == CHOOSE i \in DOMAIN q : q[i] = r
               w == [i \in 1 .. Len(q) - 1 |-> IF i < k THEN q[i] ELSE q[i + 1]]
    <2>1. k \in 1 .. Len(q) /\ q[k] = r
      BY <1>2
    <2>2. Without(q, r) = w
      BY <1>2 DEF Without
    <2> HIDE DEF k
    <2>3. w \in Seq(Requests) /\ Len(w) = Len(q) - 1
      BY <2>1
    <2>4. Sorted(w)
      <3> SUFFICES ASSUME NEW i \in DOMAIN w, NEW j \in DOMAIN w, i < j
                   PROVE  w[i] < w[j]
        BY DEF Sorted
      <3>1. \A m, n \in 1 .. Len(q) : m < n => q[m] < q[n]
        BY DEF Sorted
      <3>2. CASE j < k
        BY <2>1, <3>1, <3>2
      <3>3. CASE i < k /\ j >= k
        BY <2>1, <3>1, <3>3
      <3>4. CASE i >= k
        BY <2>1, <3>1, <3>4
      <3> QED
        BY <2>1, <3>2, <3>3, <3>4
    <2>5. \A i \in 1 .. Len(q) : q[i] = r => i = k
      <3> TAKE i \in 1 .. Len(q)
      <3>0. q[i] \in Requests /\ q[k] \in Requests
        BY <2>1
      <3>1. q[i] \in Int /\ q[k] \in Int
        BY <3>0 DEF Requests
      <3>2. /\ i < k => q[i] < q[k]
            /\ k < i => q[k] < q[i]
        BY <2>1 DEF Sorted
      <3> QED
        BY <2>1, <3>1, <3>2
    <2>6. ASSUME NEW x \in Elements(w) PROVE x \in Elements(q) \ {r}
      <3>1. PICK i \in 1 .. Len(w) : w[i] = x
        BY <2>3, <2>6 DEF Elements
      <3>2. CASE i < k
        BY <2>1, <2>3, <2>5, <3>1, <3>2, ElementsOfSeq
      <3>3. CASE i >= k
        <4>1. x = q[i + 1] /\ i + 1 \in 1 .. Len(q) /\ i + 1 # k
          BY <2>1, <2>3, <3>1, <3>3
        <4> QED
          BY <2>5, <4>1, ElementsOfSeq
      <3> QED
        BY <2>1, <3>1, <3>2, <3>3
    <2>7. ASSUME NEW x \in Elements(q) \ {r} PROVE x \in Elements(w)
      <3>1. PICK i \in 1 .. Len(q) : q[i] = x
        BY <2>7 DEF Elements
      <3>2. i # k
        BY <2>1, <2>7, <3>1
      <3>3. CASE i < k
        <4>1. i \in DOMAIN w /\ w[i] = x
          BY <2>1, <3>1, <3>3
        <4> QED
          BY <4>1 DEF Elements
      <3>4. CASE i > k
        <4>1. i - 1 \in DOMAIN w /\ w[i - 1] = x
          BY <2>1, <3>1, <3>4
        <4> QED
          BY <4>1 DEF Elements
      <3> QED
        BY <2>1, <3>1, <3>2, <3>3, <3>4
    <2> QED
      BY <2>2, <2>3, <2>4, <2>6, <2>7
  <1> QED
    BY <1>1, <1>2

-----------------------------------------------------------------------------
(* Each action preserves the order. *)

LEMMA InitIInv == Init => IInv
  BY SchedulerAssumption, KVCacheAssumption
     DEF Init, IInv, Queues, Ordered, StatusOfElements, Sorted, Before,
         Elements, Statuses, Requests

\* A new request is the youngest, and goes to the end of the line.
LEMMA AddIInv ==
    ASSUME IInv, NEW p, NEW m, NEW e, AddRequest(p, m, e)
    PROVE  IInv'
  <1> USE DEF IInv
  <1> DEFINE r == numAdded + 1
  <1>1. /\ r \in Requests
        /\ numAdded' = r
        /\ live' = live \cup {r}
        /\ waiting' = Append(waiting, r)
        /\ status' = [status EXCEPT ![r] = "waiting"]
        /\ UNCHANGED <<running, preempted, cursor, pc>>
    BY DEF AddRequest, passVars
  <1>2. \A x \in live : x < r
    BY DEF Queues, Requests
  <1>3. /\ waiting' \in Seq(Requests)
        /\ Sorted(waiting')
        /\ Elements(waiting') = Elements(waiting) \cup {r}
    BY <1>1, <1>2, AppendToSorted DEF Queues, Ordered
  <1>4. Queues'
    <2>1. waiting' # <<>>
      BY <1>1 DEF Queues
    <2>2. live' \subseteq 1 .. numAdded' /\ numAdded' \in 0 .. MaxRequests
      BY <1>1 DEF Queues, Requests
    <2> QED
      BY <1>1, <1>3, <2>1, <2>2 DEF Queues, Statuses
  <1>5. Ordered'
    BY <1>1, <1>2, <1>3 DEF Ordered, Before
  <1>6. StatusOfElements'
    BY <1>1, <1>2, <1>3 DEF StatusOfElements, Ordered, Queues
  <1> QED
    BY <1>4, <1>5, <1>6

\* remove_request takes the request out of the one queue that holds it.
LEMMA RemoveIInv ==
    ASSUME IInv, NEW r, NEW toks, RemoveRequest(r, toks), pc # "admit",
           UNCHANGED <<numAdded, cursor, pc>>
    PROVE  IInv'
  <1> USE DEF IInv
  <1>1. /\ live' = live \ {r}
        /\ running' = IF status[r] = "running" THEN Without(running, r) ELSE running
        /\ preempted' = IF status[r] = "preempted" THEN Without(preempted, r) ELSE preempted
        /\ waiting' = IF status[r] = "waiting" THEN Without(waiting, r) ELSE waiting
        /\ status' = [status EXCEPT ![r] = "waiting"]
    BY DEF RemoveRequest
  <1>2. /\ running' \in Seq(Requests) /\ Sorted(running')
        /\ Elements(running') = Elements(running) \ {r}
    BY <1>1, WithoutOfSorted DEF Queues, Ordered, StatusOfElements
  <1>3. /\ preempted' \in Seq(Requests) /\ Sorted(preempted')
        /\ Elements(preempted') = Elements(preempted) \ {r}
    BY <1>1, WithoutOfSorted DEF Queues, Ordered, StatusOfElements
  <1>4. /\ waiting' \in Seq(Requests) /\ Sorted(waiting')
        /\ Elements(waiting') = Elements(waiting) \ {r}
    BY <1>1, WithoutOfSorted DEF Queues, Ordered, StatusOfElements
  <1>5. Queues'
    BY <1>1, <1>2, <1>3, <1>4 DEF Queues, Statuses
  <1>6. Ordered'
    BY <1>1, <1>2, <1>3, <1>4 DEF Ordered, Before
  <1>7. StatusOfElements'
    BY <1>1, <1>2, <1>3, <1>4, ElementsOfSeq DEF StatusOfElements, Queues
  <1> QED
    BY <1>5, <1>6, <1>7

\* The newest running request crosses the boundary to the preempted queue.
LEMMA PreemptIInv == ASSUME IInv, PreemptNewest PROVE IInv'
  <1> USE DEF IInv
  <1> DEFINE v == running[Len(running)]
  <1>1. /\ running' = Without(running, v)
        /\ preempted' = <<v>> \o preempted
        /\ status' = [status EXCEPT ![v] = "preempted"]
        /\ UNCHANGED <<waiting, live, numAdded, cursor, pc>>
        /\ cursor <= Len(running) /\ pc = "pass1"
    BY DEF PreemptNewest, Victim, InPass1, passVars
  <1>2. Len(running) \in DOMAIN running /\ v \in Requests /\ v \in Elements(running)
    BY <1>1, ElementsOfSeq DEF Queues
  <1>3. \A x \in Elements(running) \ {v} : x < v
    BY <1>2 DEF Ordered, Sorted, Elements, Queues
  <1>4. \A x \in Elements(preempted) \cup Elements(waiting) : v < x
    BY <1>2 DEF Ordered, Before
  <1>5. /\ running' \in Seq(Requests) /\ Sorted(running')
        /\ Elements(running') = Elements(running) \ {v}
    BY <1>1, WithoutOfSorted DEF Queues, Ordered
  <1>6. /\ preempted' \in Seq(Requests) /\ Sorted(preempted')
        /\ Elements(preempted') = Elements(preempted) \cup {v}
    BY <1>1, <1>2, <1>4, PrependToSorted DEF Queues, Ordered
  <1>7. Queues'
    BY <1>1, <1>5, <1>6 DEF Queues, Statuses
  <1>8. Ordered'
    <2>1. Before(running', preempted')
      BY <1>3, <1>5, <1>6 DEF Ordered, Before
    <2>2. Before(running', waiting') /\ Before(preempted', waiting')
      BY <1>1, <1>4, <1>5, <1>6 DEF Ordered, Before
    <2>3. Elements(running') \cup Elements(preempted') \cup Elements(waiting') = live'
      BY <1>1, <1>2, <1>5, <1>6 DEF Ordered
    <2> QED
      BY <1>1, <1>5, <1>6, <2>1, <2>2, <2>3 DEF Ordered
  <1>9. StatusOfElements'
    <2>1. v \notin Elements(waiting) /\ v \notin Elements(preempted)
      BY <1>2 DEF StatusOfElements
    <2>2. status'[v] = "preempted" /\ \A x \in Requests : x # v => status'[x] = status[x]
      BY <1>1, <1>2 DEF Queues
    <2>3. /\ \A x \in Elements(running) : x \in Requests
          /\ \A x \in Elements(preempted) \cup Elements(waiting) : x \in Requests
      BY ElementsOfSeq DEF Queues
    <2>4. \A x \in Elements(running') : status'[x] = "running"
      BY <1>5, <2>2, <2>3 DEF StatusOfElements
    <2>5. \A x \in Elements(preempted') : status'[x] = "preempted"
      BY <1>6, <2>2, <2>3 DEF StatusOfElements
    <2>6. \A x \in Elements(waiting') : status'[x] = "waiting"
      BY <1>1, <2>1, <2>2, <2>3 DEF StatusOfElements
    <2> QED
      BY <2>4, <2>5, <2>6 DEF StatusOfElements
  <1> QED
    BY <1>7, <1>8, <1>9

\* The oldest of those not running crosses the boundary to the running queue.
LEMMA AdmitIInv == ASSUME IInv, Admit PROVE IInv'
  <1> USE DEF IInv
  <1> DEFINE r == Candidate
  <1>1. /\ running' = Append(running, r)
        /\ preempted' = Without(preempted, r)
        /\ waiting' = Without(waiting, r)
        /\ status' = [status EXCEPT ![r] = "running"]
        /\ UNCHANGED <<live, numAdded, cursor>>
        /\ pc = "admit" /\ pc' = "pass2"
    BY DEF Admit
  <1>2. IF preempted = <<>>
        THEN r = waiting[1] /\ 1 \in DOMAIN waiting
        ELSE r = preempted[1] /\ 1 \in DOMAIN preempted
    BY <1>1 DEF Candidate, Queues
  <1>3. preempted = <<>> => Elements(preempted) = {}
    BY DEF Elements
  <1>4. /\ r \in Requests
        /\ r \in Elements(preempted) \cup Elements(waiting)
    BY <1>2, ElementsOfSeq DEF Queues, Elements
  <1>5. \A x \in Elements(running) : x < r
    BY <1>4 DEF Ordered, Before
  <1>6. \A x \in (Elements(preempted) \cup Elements(waiting)) \ {r} : r < x
    <2>1. CASE preempted = <<>>
      BY <1>2, <1>3, <2>1 DEF Ordered, Sorted, Elements, Queues
    <2>2. CASE preempted # <<>>
      <3>1. \A x \in Elements(preempted) \ {r} : r < x
        BY <1>2, <2>2 DEF Ordered, Sorted, Elements, Queues
      <3>2. r \in Elements(preempted)
        BY <1>2, <2>2 DEF Elements
      <3> QED
        BY <3>1, <3>2 DEF Ordered, Before
    <2> QED
      BY <2>1, <2>2
  <1>7. /\ running' \in Seq(Requests) /\ Sorted(running')
        /\ Elements(running') = Elements(running) \cup {r}
    BY <1>1, <1>4, <1>5, AppendToSorted DEF Queues, Ordered
  <1>8. /\ preempted' \in Seq(Requests) /\ Sorted(preempted')
        /\ Elements(preempted') = Elements(preempted) \ {r}
        /\ waiting' \in Seq(Requests) /\ Sorted(waiting')
        /\ Elements(waiting') = Elements(waiting) \ {r}
    BY <1>1, WithoutOfSorted DEF Queues, Ordered
  <1>9. Queues'
    BY <1>1, <1>7, <1>8 DEF Queues, Statuses
  <1>10. Ordered'
    <2>1. Before(running', preempted') /\ Before(running', waiting')
      BY <1>6, <1>7, <1>8 DEF Ordered, Before
    <2>2. Before(preempted', waiting')
      BY <1>8 DEF Ordered, Before
    <2>3. Elements(running') \cup Elements(preempted') \cup Elements(waiting') = live'
      BY <1>1, <1>4, <1>7, <1>8 DEF Ordered
    <2> QED
      BY <1>7, <1>8, <2>1, <2>2, <2>3 DEF Ordered
  <1>11. StatusOfElements'
    BY <1>1, <1>4, <1>7, <1>8 DEF StatusOfElements, Queues
  <1> QED
    BY <1>9, <1>10, <1>11

\* The other actions leave the queues alone.
LEMMA KeepIInv ==
    ASSUME IInv, UNCHANGED <<queueVars, status, numAdded, live>>,
           cursor' \in Nat \ {0},
           pc' = "admit" => preempted # <<>> \/ waiting # <<>>
    PROVE  IInv'
  BY DEF IInv, Queues, Ordered, StatusOfElements, queueVars

LEMMA NextIInv == IInv /\ [Next]_vars => IInv'
  <1> SUFFICES ASSUME IInv, [Next]_vars PROVE IInv'
    OBVIOUS
  <1>0. cursor \in Nat \ {0}
    BY DEF IInv, Queues
  <1>1. ASSUME NEW p \in Prompts, NEW m \in MaxOutputs, NEW e \in IgnoreEos,
               AddRequest(p, m, e)
        PROVE  IInv'
    BY <1>1, AddIInv
  <1>2. ASSUME NEW r \in Requests, AbortRequest(r) PROVE IInv'
    <2>1. CASE r \in live
      BY <1>2, <2>1, RemoveIInv DEF AbortRequest, passVars
    <2>2. CASE r \notin live
      BY <1>0, <1>2, <2>2, KeepIInv DEF AbortRequest, passVars, reqVars
    <2> QED
      BY <2>1, <2>2
  <1>3. CASE BeginSchedule
    BY <1>3, KeepIInv DEF BeginSchedule, reqVars
  <1>4. CASE ScheduleRunning
    BY <1>0, <1>4, KeepIInv DEF ScheduleRunning, InPass1
  <1>5. CASE PreemptNewest
    BY <1>5, PreemptIInv
  <1>6. CASE EndPass1
    BY <1>0, <1>6, KeepIInv DEF EndPass1, reqVars, passVars
  <1>7. CASE LookupPrefix
    BY <1>0, <1>7, KeepIInv DEF LookupPrefix, InPass2, passVars
  <1>8. CASE Admit
    BY <1>8, AdmitIInv
  <1>9. CASE Refuse
    BY <1>0, <1>9, KeepIInv DEF Refuse, passVars
  <1>10. CASE EndPass2
    BY <1>0, <1>10, KeepIInv DEF EndPass2, reqVars, passVars
  <1>11. CASE RunModel
    BY <1>11, KeepIInv DEF RunModel, reqVars
  <1>12. ASSUME NEW t \in Tokens, Update(t) PROVE IInv'
    <2> DEFINE r == Head(sampled)
               toks == Append(tokens[r], t)
    <2>1. CASE FinishReason(r, toks, t) = "running"
      BY <1>0, <1>12, <2>1, KeepIInv DEF Update, passVars
    <2>2. CASE FinishReason(r, toks, t) # "running"
      BY <1>12, <2>2, RemoveIInv DEF Update, passVars
    <2> QED
      BY <2>1, <2>2
  <1>13. CASE EndUpdate
    BY <1>0, <1>13, KeepIInv DEF EndUpdate, reqVars, passVars
  <1>14. CASE UNCHANGED vars
    BY <1>0, <1>14, KeepIInv DEF vars, reqVars, passVars, IInv, Queues
  <1> QED
    BY <1>1, <1>2, <1>3, <1>4, <1>5, <1>6, <1>7, <1>8, <1>9, <1>10, <1>11,
       <1>12, <1>13, <1>14 DEF Next, Receive, EngineStep

-----------------------------------------------------------------------------
(* The theorems *)

\* Whatever is preempted, admitted or aborted, the three queues one after the
\* other hold exactly the live requests, in order of arrival.
THEOREM SchedulerFirstComeFirstServed == Spec => []FirstComeFirstServed
  <1>1. IInv => FirstComeFirstServed
    <2> SUFFICES ASSUME IInv PROVE FirstComeFirstServed
      OBVIOUS
    <2>1. /\ running \o preempted \in Seq(Requests)
          /\ Elements(running \o preempted) = Elements(running) \cup Elements(preempted)
          /\ Sorted(running \o preempted)
      BY SortedConcat, ElementsOfConcat DEF IInv, Queues, Ordered
    <2>2. Before(running \o preempted, waiting)
      BY <2>1 DEF IInv, Ordered, Before
    <2>3. /\ Elements(Line) = Elements(running \o preempted) \cup Elements(waiting)
          /\ Sorted(Line)
      BY <2>1, <2>2, SortedConcat, ElementsOfConcat DEF IInv, Queues, Ordered, Line
    <2> QED
      BY <2>1, <2>3 DEF IInv, Ordered, FirstComeFirstServed, Sorted
  <1> QED
    BY <1>1, InitIInv, NextIInv, PTL DEF Spec

\* remove_request erases a request from the queue that holds it: the status
\* it goes by is that of the queue, through every preemption and admission.
THEOREM SchedulerStatusNamesQueue == Spec => []StatusNamesQueue
  <1>1. IInv => StatusNamesQueue
    BY DEF IInv, StatusOfElements, StatusNamesQueue, Elements
  <1> QED
    BY <1>1, InitIInv, NextIInv, PTL DEF Spec

-----------------------------------------------------------------------------
(***************************************************************************)
(* The operations of the kv cache manager.                                 *)
(***************************************************************************)

Injective(q) == \A i, j \in DOMAIN q : q[i] = q[j] => i = j

-----------------------------------------------------------------------------
(* Counting and sequences *)

\* A downward closed set of indices is an interval, and its size its end: the
\* "leading blocks" of cache_full_blocks and reuse_prefix.
LEMMA LeadingIndices ==
    ASSUME NEW n \in Int, NEW S \in SUBSET (1 .. n),
           \A i \in S : \A j \in 1 .. i : j \in S
    PROVE  /\ Cardinality(S) \in Nat
           /\ S = 1 .. Cardinality(S)
           /\ Cardinality(S) <= n \/ Cardinality(S) = 0
  <1> DEFINE T == {i \in Nat \ {0} : i \notin S}
  <1>1. PICK m \in Nat : m = IF n < 0 THEN 0 ELSE n
    OBVIOUS
  <1>2. m + 1 \in T
    BY <1>1
  <1>3. PICK c \in T : \A y \in T : c <= y
    <2> HIDE DEF T
    <2> QED
      BY <1>2, LeastIndex, T \in SUBSET Nat DEF T
  <1>4. c \in Nat \ {0} /\ c \notin S
    OBVIOUS
  <1>5. S = 1 .. c - 1
    <2>1. \A i \in 1 .. c - 1 : i \in S
      BY <1>3, <1>4
    <2>2. \A i \in S : i \in 1 .. n /\ i < c
      BY <1>4
    <2>3. \A i \in S : i \in 1 .. c - 1
      BY <2>2, <1>4
    <2> QED
      BY <2>1, <2>3
  <1>6. Cardinality(S) = c - 1
    BY <1>4, <1>5, FS_Interval
  <1>7. c - 1 <= n \/ c - 1 = 0
    BY <1>4, <1>5
  <1> QED
    BY <1>4, <1>5, <1>6, <1>7

\* The elements of a sequence, by their places.
LEMMA ElementsOf ==
    ASSUME NEW S, NEW q \in Seq(S)
    PROVE  /\ Elements(q) \subseteq S
           /\ DOMAIN q = 1 .. Len(q) /\ Len(q) \in Nat
           /\ \A i \in 1 .. Len(q) : q[i] \in Elements(q) /\ q[i] \in S
           /\ \A x \in Elements(q) : \E i \in 1 .. Len(q) : q[i] = x
           /\ Injective(q) => \A i, j \in 1 .. Len(q) : q[i] = q[j] => i = j
  BY DEF Elements, Injective

\* The empty sequence.
LEMMA ElementsOfEmpty == Elements(<<>>) = {} /\ Injective(<<>>)
  BY DEF Elements, Injective

\* What is left of a queue without the elements of a set.
LEMMA ExcludingFacts ==
    ASSUME NEW S, NEW q \in Seq(S), NEW out
    PROVE  /\ Excluding(q, out) \in Seq(S)
           /\ Elements(Excluding(q, out)) = Elements(q) \ out
           /\ Injective(q) => Injective(Excluding(q, out))
  <1> DEFINE at == {i \in DOMAIN q : q[i] \notin out}
             n == Cardinality(at)
             s == Subsequence(q, at)
  <1>0. DOMAIN q = 1 .. Len(q) /\ at \in SUBSET (1 .. Len(q))
    OBVIOUS
  <1>1. /\ s \in Seq(S) /\ Len(s) = n /\ n \in Nat
        /\ \E f \in [1 .. n -> at] :
              /\ \A k, l \in 1 .. n : k < l => f[k] < f[l]
              /\ \A i \in at : \E k \in 1 .. n : f[k] = i
              /\ \A k \in 1 .. n : s[k] = q[f[k]]
    <2> HIDE DEF at
    <2> QED
      BY ZenonT(60), <1>0, SubsequenceIsPick
  <1>2. PICK f \in [1 .. n -> at] :
              /\ \A k, l \in 1 .. n : k < l => f[k] < f[l]
              /\ \A i \in at : \E k \in 1 .. n : f[k] = i
              /\ \A k \in 1 .. n : s[k] = q[f[k]]
    BY <1>1
  <1>3. Excluding(q, out) = s
    BY DEF Excluding
  <1>4. \A i \in at : i \in 1 .. Len(q) /\ q[i] \notin out
    OBVIOUS
  <1>5. \A i \in 1 .. Len(q) : q[i] \notin out => i \in at
    OBVIOUS
  <1> HIDE DEF at, n, s
  <1>6. DOMAIN s = 1 .. n
    BY <1>1
  <1>7. Elements(s) = Elements(q) \ out
    <2>1. \A x \in Elements(s) : x \in Elements(q) \ out
      <3> TAKE x \in Elements(s)
      <3>1. PICK k \in 1 .. n : s[k] = x
        BY <1>6 DEF Elements
      <3>2. f[k] \in at /\ x = q[f[k]]
        BY <1>2, <3>1
      <3> QED
        BY <1>4, <3>2, ElementsOf
    <2>2. \A x \in Elements(q) \ out : x \in Elements(s)
      <3> TAKE x \in Elements(q) \ out
      <3>1. PICK i \in 1 .. Len(q) : q[i] = x
        BY ElementsOf
      <3>2. PICK k \in 1 .. n : f[k] = i
        BY <1>2, <1>5, <3>1
      <3>3. s[k] = x
        BY <1>2, <3>1, <3>2
      <3> QED
        BY <1>6, <3>3 DEF Elements
    <2> QED
      BY <2>1, <2>2
  <1>8. ASSUME Injective(q) PROVE Injective(s)
    <2> SUFFICES ASSUME NEW k \in 1 .. n, NEW l \in 1 .. n, s[k] = s[l]
                 PROVE  k = l
      BY <1>6 DEF Injective
    <2>1. f[k] \in 1 .. Len(q) /\ f[l] \in 1 .. Len(q) /\ q[f[k]] = q[f[l]]
      BY <1>2, <1>4
    <2>2. f[k] = f[l]
      BY <1>0, <1>8, <2>1 DEF Injective
    <2>3. k \in Nat /\ l \in Nat /\ f[k] \in Nat
      BY <1>1, <2>1
    <2> QED
      BY <1>2, <2>2, <2>3
  <1> QED
    BY <1>1, <1>3, <1>7, <1>8

\* One sequence after another.
LEMMA ConcatFacts ==
    ASSUME NEW S, NEW p \in Seq(S), NEW q \in Seq(S)
    PROVE  /\ p \o q \in Seq(S)
           /\ Len(p \o q) = Len(p) + Len(q)
           /\ Elements(p \o q) = Elements(p) \cup Elements(q)
           /\ \A i \in 1 .. Len(p) : (p \o q)[i] = p[i]
           /\ \A i \in Len(p) + 1 .. Len(p) + Len(q) : (p \o q)[i] = q[i - Len(p)]
           /\ Injective(p) /\ Injective(q) /\ Elements(p) \cap Elements(q) = {}
                 => Injective(p \o q)
  <1> DEFINE s == p \o q
  <1>1. /\ s \in Seq(S) /\ Len(s) = Len(p) + Len(q)
        /\ \A i \in 1 .. Len(p) : s[i] = p[i]
        /\ \A i \in Len(p) + 1 .. Len(p) + Len(q) : s[i] = q[i - Len(p)]
        /\ Len(p) \in Nat /\ Len(q) \in Nat
    BY ConcatProperties
  <1>2. \A i \in 1 .. Len(s) :
           \/ i \in 1 .. Len(p) /\ s[i] = p[i]
           \/ i - Len(p) \in 1 .. Len(q) /\ s[i] = q[i - Len(p)]
    BY <1>1
  <1>3. \A i \in 1 .. Len(q) : Len(p) + i \in 1 .. Len(s) /\ s[Len(p) + i] = q[i]
    BY <1>1
  <1>4. \A i \in 1 .. Len(p) : i \in 1 .. Len(s) /\ s[i] = p[i]
    BY <1>1
  <1> HIDE DEF s
  <1>5. Elements(s) = Elements(p) \cup Elements(q)
    <2>1. \A x \in Elements(s) : x \in Elements(p) \cup Elements(q)
      <3> TAKE x \in Elements(s)
      <3>1. PICK i \in 1 .. Len(s) : s[i] = x
        BY <1>1, ElementsOf
      <3> QED
        BY <1>2, <3>1, ElementsOf
    <2>2. \A x \in Elements(p) : x \in Elements(s)
      BY <1>1, <1>4 DEF Elements
    <2>3. \A x \in Elements(q) : x \in Elements(s)
      <3> TAKE x \in Elements(q)
      <3>1. PICK i \in 1 .. Len(q) : q[i] = x
        BY ElementsOf
      <3> QED
        BY <1>1, <1>3, <3>1, ElementsOf
    <2> QED
      BY <2>1, <2>2, <2>3
  <1>6. ASSUME Injective(p), Injective(q), Elements(p) \cap Elements(q) = {}
        PROVE  Injective(s)
    <2>0. DOMAIN s = 1 .. Len(s) /\ DOMAIN p = 1 .. Len(p) /\ DOMAIN q = 1 .. Len(q)
      BY <1>1
    <2> SUFFICES ASSUME NEW i \in 1 .. Len(s), NEW j \in 1 .. Len(s), s[i] = s[j]
                 PROVE  i = j
      BY <2>0 DEF Injective
    <2>1. CASE i \in 1 .. Len(p) /\ j \in 1 .. Len(p)
      BY <1>4, <1>6, <2>0, <2>1 DEF Injective
    <2>2. CASE i \notin 1 .. Len(p) /\ j \notin 1 .. Len(p)
      <3>1. i - Len(p) = j - Len(p)
        BY <1>2, <1>6, <2>0, <2>2 DEF Injective
      <3> QED
        BY <1>1, <3>1
    <2>3. ASSUME NEW k \in 1 .. Len(p), NEW l \in 1 .. Len(q) PROVE p[k] # q[l]
      BY <1>6, <2>0 DEF Elements
    <2> QED
      BY <1>2, <2>1, <2>2, <2>3
  <1> QED
    BY <1>1, <1>5, <1>6 DEF s

\* The first k elements of a queue, and those behind them.
LEMMA SplitFacts ==
    ASSUME NEW S, NEW q \in Seq(S), NEW k \in 0 .. Len(q)
    PROVE  /\ SubSeq(q, 1, k) \in Seq(S) /\ Len(SubSeq(q, 1, k)) = k
           /\ SubSeq(q, k + 1, Len(q)) \in Seq(S)
           /\ Len(SubSeq(q, k + 1, Len(q))) = Len(q) - k
           /\ Elements(SubSeq(q, 1, k)) \cup Elements(SubSeq(q, k + 1, Len(q)))
                = Elements(q)
           /\ Injective(q) =>
                 /\ Elements(SubSeq(q, 1, k)) \cap Elements(SubSeq(q, k + 1, Len(q))) = {}
                 /\ Injective(SubSeq(q, 1, k))
                 /\ Injective(SubSeq(q, k + 1, Len(q)))
  <1> DEFINE p == SubSeq(q, 1, k)
             s == SubSeq(q, k + 1, Len(q))
  <1>1. /\ p \in Seq(S) /\ Len(p) = k
        /\ \A i \in 1 .. k : p[i] = q[i]
    BY SubSeqProperties
  <1>2. /\ s \in Seq(S) /\ Len(s) = Len(q) - k
        /\ \A i \in 1 .. Len(q) - k : s[i] = q[k + i]
    <2>1. \A i \in k + 1 .. Len(q) : q[i] \in S
      OBVIOUS
    <2> QED
      BY <2>1, SubSeqProperties
  <1> HIDE DEF p, s
  <1>3. DOMAIN p = 1 .. k /\ DOMAIN s = 1 .. Len(q) - k /\ DOMAIN q = 1 .. Len(q)
    BY <1>1, <1>2
  <1>4. Elements(p) \cup Elements(s) = Elements(q)
    <2>1. \A x \in Elements(p) : x \in Elements(q)
      BY <1>1, <1>3 DEF Elements
    <2>2. \A x \in Elements(s) : x \in Elements(q)
      <3> TAKE x \in Elements(s)
      <3>1. PICK i \in 1 .. Len(q) - k : s[i] = x
        BY <1>2, ElementsOf
      <3>2. k + i \in 1 .. Len(q) /\ q[k + i] = x
        BY <1>2, <3>1
      <3> QED
        BY <3>2, ElementsOf
    <2>3. \A x \in Elements(q) : x \in Elements(p) \cup Elements(s)
      <3> TAKE x \in Elements(q)
      <3>1. PICK i \in 1 .. Len(q) : q[i] = x
        BY ElementsOf
      <3>2. CASE i <= k
        BY <1>1, <1>3, <3>1, <3>2 DEF Elements
      <3>3. CASE i > k
        <4>1. i - k \in 1 .. Len(q) - k /\ k + (i - k) = i
          BY <3>3
        <4>2. s[i - k] = x
          BY <1>2, <3>1, <4>1
        <4> QED
          BY <1>3, <4>1, <4>2 DEF Elements
      <3> QED
        BY <3>2, <3>3
    <2> QED
      BY <2>1, <2>2, <2>3
  <1>5. ASSUME Injective(q)
        PROVE  Elements(p) \cap Elements(s) = {} /\ Injective(p) /\ Injective(s)
    <2>1. \A i \in 1 .. k, j \in 1 .. Len(q) - k : p[i] # s[j]
      <3> TAKE i \in 1 .. k, j \in 1 .. Len(q) - k
      <3>1. i \in 1 .. Len(q) /\ k + j \in 1 .. Len(q) /\ i # k + j
        OBVIOUS
      <3> QED
        BY <1>1, <1>2, <1>3, <1>5, <3>1 DEF Injective
    <2>2. Elements(p) \cap Elements(s) = {}
      BY <1>3, <2>1 DEF Elements
    <2>3. Injective(p)
      BY <1>1, <1>3, <1>5 DEF Injective
    <2>4. Injective(s)
      <3> SUFFICES ASSUME NEW i \in 1 .. Len(q) - k, NEW j \in 1 .. Len(q) - k, s[i] = s[j]
                   PROVE  i = j
        BY <1>3 DEF Injective
      <3>1. k + i \in 1 .. Len(q) /\ k + j \in 1 .. Len(q) /\ q[k + i] = q[k + j]
        BY <1>2
      <3>2. k + i = k + j
        BY <1>3, <1>5, <3>1 DEF Injective
      <3> QED
        BY <3>2
    <2> QED
      BY <2>2, <2>3, <2>4
  <1> QED
    BY <1>1, <1>2, <1>4, <1>5 DEF p, s

-----------------------------------------------------------------------------
(* Blocks and slots *)

\* A position is a block and a slot in it.
LEMMA Division ==
    ASSUME NEW x \in Nat
    PROVE  /\ x \div BlockSize \in Nat /\ x % BlockSize \in 0 .. BlockSize - 1
           /\ x = BlockSize * (x \div BlockSize) + (x % BlockSize)
  BY KVCacheAssumption

\* A number between two multiples of BlockSize has the lower one's quotient.
LEMMA BlockQuotient ==
    ASSUME NEW x \in Int, NEW m \in Int,
           m * BlockSize <= x, x < (m + 1) * BlockSize
    PROVE  x \div BlockSize = m
  <1>1. BlockSize \in Nat \ {0}
    BY KVCacheAssumption
  <1>2. x = BlockSize * m + (x - m * BlockSize) /\ x - m * BlockSize \in 0 .. BlockSize - 1
    BY <1>1
  <1> QED
    BY <1>1, <1>2

\* A block is full when its last slot is computed, and the blocks a request
\* needs cover what it computes with less than one block to spare.
LEMMA BlocksForFacts ==
    ASSUME NEW x \in Nat
    PROVE  /\ BlocksFor(x) \in Nat
           /\ x <= BlocksFor(x) * BlockSize
           /\ BlocksFor(x) * BlockSize < x + BlockSize
           /\ x \div BlockSize <= BlocksFor(x)
           /\ x = 0 => BlocksFor(x) = 0
  <1> DEFINE y == x + BlockSize - 1
             m == y \div BlockSize
  <1>1. BlockSize \in Nat \ {0} /\ y \in Nat
    BY KVCacheAssumption
  <1>2. m \in Nat /\ y % BlockSize \in 0 .. BlockSize - 1 /\ y = BlockSize * m + (y % BlockSize)
    BY <1>1, Division
  <1>3. BlocksFor(x) = m
    BY DEF BlocksFor
  <1>4. x <= m * BlockSize /\ m * BlockSize < x + BlockSize
    <2> HIDE DEF m
    <2>1. m * BlockSize = BlockSize * m /\ BlockSize * m \in Int
      BY <1>1, <1>2
    <2> QED
      BY <1>1, <1>2, <2>1
  <1>5. x \div BlockSize <= m
    <2> DEFINE d == x \div BlockSize
    <2>0. /\ d \in Nat /\ x % BlockSize \in 0 .. BlockSize - 1
          /\ x = BlockSize * d + (x % BlockSize)
      BY Division
    <2>1. d \in Nat /\ BlockSize * d <= x
      <3> HIDE DEF d
      <3> QED
        BY <1>1, <2>0
    <2> HIDE DEF d, m, y
    <2>2. BlockSize * d <= BlockSize * m
      BY <1>1, <1>2, <1>4, <2>1
    <2>3. ~(m + 1 <= d)
      <3>1. m + 1 <= d => BlockSize * (m + 1) <= BlockSize * d
        BY <1>1, <1>2, <2>1
      <3> QED
        BY <1>1, <1>2, <2>1, <2>2, <3>1
    <2>4. d <= m
      BY <1>2, <2>1, <2>3
    <2> QED
      BY <2>4 DEF d
  <1>6. x = 0 => m = 0
    <2>1. x = 0 => y = BlockSize * 0 + (BlockSize - 1)
      BY <1>1
    <2> QED
      BY <1>1, <2>1
  <1> QED
    BY <1>2, <1>3, <1>4, <1>5, <1>6

\* Positions of blocks go up as the blocks do.
LEMMA ProductOrder ==
    ASSUME NEW i \in Int, NEW j \in Int
    PROVE  /\ i * BlockSize \in Int
           /\ i <= j <=> i * BlockSize <= j * BlockSize
           /\ i < j <=> i * BlockSize < j * BlockSize
           /\ (i + 1) * BlockSize = i * BlockSize + BlockSize
           /\ i * BlockSize - j * BlockSize = (i - j) * BlockSize
  <1>1. BlockSize \in Nat \ {0}
    BY KVCacheAssumption
  <1>2. i < j => i * BlockSize < j * BlockSize
    <2>1. i < j => i + 1 <= j
      OBVIOUS
    <2>2. i + 1 <= j => (i + 1) * BlockSize <= j * BlockSize
      BY <1>1
    <2> QED
      BY <1>1, <2>1, <2>2
  <1>3. j < i => j * BlockSize < i * BlockSize
    <2>1. j < i => j + 1 <= i
      OBVIOUS
    <2>2. j + 1 <= i => (j + 1) * BlockSize <= i * BlockSize
      BY <1>1
    <2> QED
      BY <1>1, <2>1, <2>2
  <1> QED
    BY <1>1, <1>2, <1>3

\* Block i is full within x slots exactly when the whole blocks reach it.
LEMMA FullBlocks ==
    ASSUME NEW x \in Nat, NEW i \in Int
    PROVE  i <= x \div BlockSize <=> i * BlockSize <= x
  <1> DEFINE d == x \div BlockSize
  <1>1. /\ BlockSize \in Nat \ {0} /\ d \in Nat
        /\ x = BlockSize * d + (x % BlockSize) /\ x % BlockSize \in 0 .. BlockSize - 1
    BY Division, KVCacheAssumption
  <1> HIDE DEF d
  <1>2. d * BlockSize <= x /\ x < (d + 1) * BlockSize
    BY <1>1
  <1>3. i <= d => i * BlockSize <= x
    BY <1>1, <1>2, ProductOrder
  <1>4. ~(i <= d) => ~(i * BlockSize <= x)
    <2>1. ~(i <= d) => d + 1 <= i
      BY <1>1
    <2>2. d + 1 <= i => (d + 1) * BlockSize <= i * BlockSize
      BY <1>1, ProductOrder
    <2>3. (d + 1) * BlockSize \in Int /\ i * BlockSize \in Int
      BY <1>1
    <2> QED
      BY <1>2, <2>1, <2>2, <2>3
  <1> QED
    BY <1>3, <1>4 DEF d

\* A request computed block by block holds the blocks it counts.
LEMMA WholeBlocks ==
    ASSUME NEW m \in Nat
    PROVE  BlocksFor(m * BlockSize) = m
  <1>1. BlockSize \in Nat \ {0}
    BY KVCacheAssumption
  <1>2. m * BlockSize <= m * BlockSize + BlockSize - 1
        /\ m * BlockSize + BlockSize - 1 < (m + 1) * BlockSize
        /\ m * BlockSize + BlockSize - 1 \in Int
    BY <1>1
  <1> QED
    BY <1>2, BlockQuotient DEF BlocksFor

\* More tokens never need fewer blocks.
LEMMA BlocksForMonotone ==
    ASSUME NEW x \in Nat, NEW y \in Nat, x <= y
    PROVE  BlocksFor(x) <= BlocksFor(y)
  <1>1. BlockSize \in Nat \ {0} /\ BlocksFor(x) \in Nat /\ BlocksFor(y) \in Nat
    BY KVCacheAssumption, BlocksForFacts
  <1>2. (BlocksFor(x) - 1) * BlockSize < x
    <2>1. BlocksFor(x) * BlockSize < x + BlockSize
      BY BlocksForFacts
    <2>2. (BlocksFor(x) - 1) * BlockSize = BlocksFor(x) * BlockSize - BlockSize
          /\ BlocksFor(x) * BlockSize \in Int
      BY <1>1
    <2> QED
      BY <1>1, <2>1, <2>2
  <1>3. (BlocksFor(x) - 1) * BlockSize < BlocksFor(y) * BlockSize
    <2>1. y <= BlocksFor(y) * BlockSize
      BY BlocksForFacts
    <2>2. (BlocksFor(x) - 1) * BlockSize \in Int /\ BlocksFor(y) * BlockSize \in Int
      BY <1>1
    <2> QED
      BY <1>2, <2>1, <2>2
  <1>4. BlocksFor(x) - 1 < BlocksFor(y)
    BY <1>1, <1>3, ProductOrder
  <1> QED
    BY <1>1, <1>4

\* A prefix of a token sequence is cut where one likes.
LEMMA PrefixFacts ==
    ASSUME NEW toks \in Seq(Tokens), NEW a \in Nat, NEW b \in Nat,
           a <= b, b <= Len(toks)
    PROVE  /\ SubSeq(toks, 1, b) \in Seq(Tokens) /\ Len(SubSeq(toks, 1, b)) = b
           /\ SubSeq(toks, 1, a) \o SubSeq(toks, a + 1, b) = SubSeq(toks, 1, b)
  <1> DEFINE p == SubSeq(toks, 1, a)
             s == SubSeq(toks, a + 1, b)
             t == SubSeq(toks, 1, b)
  <1>0. Len(toks) \in Nat /\ \A i \in 1 .. Len(toks) : toks[i] \in Tokens
    OBVIOUS
  <1>1. p \in Seq(Tokens) /\ Len(p) = a /\ \A i \in 1 .. a : p[i] = toks[i]
    BY <1>0, SubSeqProperties
  <1>2. t \in Seq(Tokens) /\ Len(t) = b /\ \A i \in 1 .. b : t[i] = toks[i]
    BY <1>0, SubSeqProperties
  <1>3. s \in Seq(Tokens) /\ Len(s) = b - a /\ \A i \in 1 .. b - a : s[i] = toks[a + i]
    <2>1. \A i \in a + 1 .. b : toks[i] \in Tokens
      BY <1>0
    <2> QED
      BY <2>1, SubSeqProperties
  <1> HIDE DEF p, s, t
  <1>4. /\ p \o s \in Seq(Tokens) /\ Len(p \o s) = b
        /\ \A i \in 1 .. a : (p \o s)[i] = p[i]
        /\ \A i \in a + 1 .. b : (p \o s)[i] = s[i - a]
    <2>1. /\ p \o s \in Seq(Tokens)
          /\ Len(p \o s) = Len(p) + Len(s)
          /\ \A i \in 1 .. Len(p) : (p \o s)[i] = p[i]
          /\ \A i \in Len(p) + 1 .. Len(p) + Len(s) : (p \o s)[i] = s[i - Len(p)]
      BY <1>1, <1>3, ConcatFacts
    <2>2. Len(p) = a /\ Len(p) + Len(s) = b
      BY <1>1, <1>3
    <2> QED
      BY <2>1, <2>2
  <1>5. \A i \in 1 .. b : (p \o s)[i] = t[i]
    <2> TAKE i \in 1 .. b
    <2>1. CASE i <= a
      BY <1>1, <1>2, <1>4, <2>1
    <2>2. CASE ~(i <= a)
      <3>1. i - a \in 1 .. b - a /\ a + (i - a) = i /\ i \in a + 1 .. b
        BY <2>2
      <3>2. s[i - a] = toks[i]
        BY <1>3, <3>1
      <3> QED
        BY <1>2, <1>4, <3>1, <3>2
    <2> QED
      BY <2>1, <2>2
  <1>6. p \o s = t
    BY <1>2, <1>4, <1>5, SeqEqual
  <1> QED
    BY <1>2, <1>6 DEF p, s, t

-----------------------------------------------------------------------------
(* Publishing full blocks *)

IndexTypes(hs, ca, bo) ==
    /\ hs \in [BlockIds -> Seq(Tokens)]
    /\ ca \in [BlockIds -> BOOLEAN]
    /\ DOMAIN bo \subseteq Seq(Tokens) \ {<<>>}
    /\ \A h \in DOMAIN bo : bo[h] \in BlockIds

\* IndexMatchesBlocks, of any hashes, flags and index.
IndexMatches(hs, ca, bo) ==
    /\ \A b \in BlockIds : ca[b] <=> (hs[b] \in DOMAIN bo /\ bo[hs[b]] = b)
    /\ \A h \in DOMAIN bo : hs[bo[h]] = h

\* The blocks of a table that have a hash are its leading ones.
HashedLead(hs, tbl) ==
    \A i, j \in DOMAIN tbl : i < j /\ hs[tbl[j]] # <<>> => hs[tbl[i]] # <<>>

\* A block of a table with a hash is full, and its hash is the table's tokens.
HashesAreOwn(hs, tbl, toks, comp) ==
    \A i \in DOMAIN tbl : hs[tbl[i]] # <<>> =>
        i * BlockSize <= comp /\ hs[tbl[i]] = SubSeq(toks, 1, i * BlockSize)

\* cache_full_blocks extends a matching index to a matching index: it hashes
\* only blocks without hash, of the request at hand and full of its tokens.
LEMMA PublishFacts ==
    ASSUME NEW hs, NEW ca, NEW bo, NEW refs,
           NEW toks \in Seq(Tokens), NEW comp \in Nat, comp <= Len(toks),
           NEW tbl \in Seq(BlockIds), Injective(tbl),
           IndexTypes(hs, ca, bo), IndexMatches(hs, ca, bo),
           HashedLead(hs, tbl), HashesAreOwn(hs, tbl, toks, comp),
           CacheFullBlocks(hs, ca, bo, refs, toks, comp, tbl)
    PROVE  /\ IndexTypes(hash', cached', blockOf')
           /\ IndexMatches(hash', cached', blockOf')
           /\ HashedLead(hash', tbl)
           /\ HashesAreOwn(hash', tbl, toks, comp)
           /\ \A b \in BlockIds : hs[b] # <<>> => hash'[b] = hs[b]
           /\ \A b \in BlockIds : b \notin Elements(tbl) => hash'[b] = hs[b]
           /\ prefixCaching' = prefixCaching
  <1> DEFINE m == NumFull(tbl, comp)
             S == {i \in 1 .. m : \A j \in 1 .. i : hs[tbl[j]] # <<>>}
             first == NumHashed(hs, tbl, comp)
             new == IF prefixCaching THEN first + 1 .. m ELSE {}
             parent == IF first = 0 THEN <<>> ELSE hs[tbl[first]]
             Prefix(i) ==
                 parent \o SubSeq(toks, first * BlockSize + 1, i * BlockSize)
             inserted == {i \in new : Supersedes(bo, refs, Prefix(i))}
             displaced == {b \in BlockIds : \E i \in inserted :
                              Prefix(i) \in DOMAIN bo /\ bo[Prefix(i)] = b}
             P(i) == SubSeq(toks, 1, i * BlockSize)
  <1>1. hash' = [b \in BlockIds |->
                    IF \E i \in new : tbl[i] = b
                    THEN Prefix(CHOOSE i \in new : tbl[i] = b)
                    ELSE hs[b]]
    BY DEF CacheFullBlocks
  <1>2. cached' = [b \in BlockIds |->
                      IF \E i \in inserted : tbl[i] = b THEN TRUE
                      ELSE IF b \in displaced THEN FALSE
                      ELSE ca[b]]
    BY DEF CacheFullBlocks
  <1>3. blockOf' = [h \in DOMAIN bo \cup {Prefix(i) : i \in inserted} |->
                       IF \E i \in inserted : Prefix(i) = h
                       THEN tbl[CHOOSE i \in inserted : Prefix(i) = h]
                       ELSE bo[h]]
        /\ prefixCaching' = prefixCaching
    BY DEF CacheFullBlocks
  <1>4. m \in Nat /\ m <= Len(tbl) /\ m <= comp \div BlockSize
    <2> DEFINE full == comp \div BlockSize
    <2>1. full \in Nat /\ Len(tbl) \in Nat
      BY Division
    <2>2. m = IF Len(tbl) < full THEN Len(tbl) ELSE full
      BY DEF NumFull, Least
    <2> HIDE DEF full, m
    <2>3. m \in Nat /\ m <= Len(tbl) /\ m <= full
      BY <2>1, <2>2
    <2> QED
      BY <2>3 DEF full
  <1>5. first \in Nat /\ S = 1 .. first /\ (first <= m \/ first = 0)
    <2>1. S \in SUBSET (1 .. m) /\ \A i \in S : \A j \in 1 .. i : j \in S
      BY <1>4
    <2>2. first = Cardinality(S)
      BY DEF NumHashed
    <2> HIDE DEF S, m, first
    <2> QED
      BY <1>4, <2>1, <2>2, LeadingIndices
  <1>6. \A i \in 1 .. first : i \in 1 .. m /\ hs[tbl[i]] # <<>>
    <2>1. \A i \in S : i \in 1 .. m /\ \A j \in 1 .. i : hs[tbl[j]] # <<>>
      OBVIOUS
    <2> HIDE DEF S, m, first
    <2> QED
      BY <1>4, <1>5, <2>1
  <1>7. \A i \in first + 1 .. m : hs[tbl[i]] = <<>>
    <2> SUFFICES ASSUME NEW i \in first + 1 .. m, hs[tbl[i]] # <<>> PROVE FALSE
      OBVIOUS
    <2> HIDE DEF m, first
    <2>1. i \in 1 .. m /\ ~(i \in 1 .. first) /\ i \in 1 .. Len(tbl)
      BY <1>4, <1>5
    <2>2. \A j \in 1 .. i : hs[tbl[j]] # <<>>
      <3> TAKE j \in 1 .. i
      <3>1. j \in 1 .. Len(tbl) /\ (j < i \/ j = i)
        BY <1>4, <2>1
      <3> QED
        BY <2>1, <3>1 DEF HashedLead
    <2> QED
      BY <1>5, <2>1, <2>2
  <1> HIDE DEF S, m, first
  <1>8. \A i \in 1 .. m : i * BlockSize \in Nat \ {0} /\ i * BlockSize <= comp
    <2> TAKE i \in 1 .. m
    <2>1. i <= comp \div BlockSize
      BY <1>4, Division
    <2>2. i * BlockSize <= comp
      BY <2>1, FullBlocks
    <2> QED
      BY <2>2, KVCacheAssumption
  <1>9. \A i \in 1 .. m :
           P(i) \in Seq(Tokens) /\ Len(P(i)) = i * BlockSize /\ P(i) # <<>>
    <2> TAKE i \in 1 .. m
    <2>1. i * BlockSize \in Nat \ {0} /\ i * BlockSize <= Len(toks)
      BY <1>8
    <2> QED
      BY <2>1, PrefixFacts
  <1>10. \A i, j \in 1 .. m : P(i) = P(j) => i = j
    <2> SUFFICES ASSUME NEW i \in 1 .. m, NEW j \in 1 .. m, P(i) = P(j)
                 PROVE  i = j
      OBVIOUS
    <2>1. i * BlockSize = j * BlockSize
      BY <1>9
    <2>2. i \in Int /\ j \in Int
      BY <1>4
    <2> HIDE DEF P
    <2>3. i * BlockSize \in Int /\ (i <= j <=> i * BlockSize <= j * BlockSize)
          /\ (j <= i <=> j * BlockSize <= i * BlockSize)
      BY <2>2, ProductOrder
    <2> QED
      BY <2>1, <2>2, <2>3
  <1>11. \A i \in new : i \in 1 .. m /\ i \in 1 .. Len(tbl) /\ first < i /\ hs[tbl[i]] = <<>>
    BY <1>4, <1>5, <1>7
  <1>12. \A i \in new : Prefix(i) = P(i)
    <2> TAKE i \in new
    <2>0. i \in 1 .. m /\ first < i
      BY <1>11
    <2>1. parent = P(first)
      <3>1. CASE first = 0
        <4>1. 0 * BlockSize = 0
          BY KVCacheAssumption
        <4> QED
          BY <3>1, <4>1, SubSeqEmpty
      <3>2. CASE first # 0
        <4>1. first \in 1 .. first /\ first \in DOMAIN tbl
          BY <1>4, <1>5, <3>2
        <4> QED
          BY <1>6, <3>2, <4>1 DEF HashesAreOwn
      <3> QED
        BY <3>1, <3>2
    <2>2. first * BlockSize \in Nat /\ first * BlockSize <= i * BlockSize
          /\ i * BlockSize \in Nat /\ i * BlockSize <= Len(toks)
      BY <1>5, <1>8, <2>0, ProductOrder, KVCacheAssumption
    <2>3. P(first) \o SubSeq(toks, first * BlockSize + 1, i * BlockSize) = P(i)
      BY <2>2, PrefixFacts
    <2> QED
      BY <2>1, <2>3
  <1> HIDE DEF P
  \* The published blocks, by the prefixes they hold.
  <1>13. /\ \A i \in new : hash'[tbl[i]] = P(i)
         /\ \A b \in BlockIds : (\A i \in new : tbl[i] # b) => hash'[b] = hs[b]
    <2>1. ASSUME NEW i \in new PROVE hash'[tbl[i]] = P(i)
      <3> DEFINE c == CHOOSE j \in new : tbl[j] = tbl[i]
      <3>1. c \in new /\ tbl[c] = tbl[i]
        OBVIOUS
      <3>2. tbl[i] \in BlockIds /\ c \in DOMAIN tbl /\ i \in DOMAIN tbl
        BY <1>11, <3>1
      <3>3. c = i
        BY <3>1, <3>2 DEF Injective
      <3>4. hash'[tbl[i]] = Prefix(c)
        BY <1>1, <3>2
      <3> QED
        BY <1>12, <3>3, <3>4
    <2> QED
      BY <1>1, <2>1
  <1>14. /\ \A i \in inserted : i \in new
         /\ \A i \in new : i \notin inserted => P(i) \in DOMAIN bo
         /\ \A i \in new : i \in inserted <=> Supersedes(bo, refs, P(i))
    BY <1>12 DEF Supersedes
  <1>15. /\ DOMAIN blockOf' = DOMAIN bo \cup {P(i) : i \in inserted}
         /\ \A i \in inserted : blockOf'[P(i)] = tbl[i]
         /\ \A h \in DOMAIN bo : (\A i \in inserted : P(i) # h) => blockOf'[h] = bo[h]
    <2>1. {Prefix(i) : i \in inserted} = {P(i) : i \in inserted}
      BY <1>12
    <2>2. DOMAIN blockOf' = DOMAIN bo \cup {P(i) : i \in inserted}
      BY <1>3, <2>1
    <2>3. ASSUME NEW i \in inserted PROVE blockOf'[P(i)] = tbl[i]
      <3> DEFINE c == CHOOSE j \in inserted : Prefix(j) = P(i)
      <3>1. Prefix(i) = P(i)
        BY <1>12
      <3>2. c \in inserted /\ Prefix(c) = P(i)
        BY <3>1
      <3>3. c \in new /\ i \in new /\ P(c) = P(i)
        BY <1>12, <3>2
      <3>4. c = i
        BY <1>10, <1>11, <3>3
      <3>5. blockOf'[P(i)] = tbl[c]
        BY <1>3, <2>2, <3>1
      <3> QED
        BY <3>4, <3>5
    <2>4. ASSUME NEW h \in DOMAIN bo, \A i \in inserted : P(i) # h
          PROVE  blockOf'[h] = bo[h]
      BY <1>3, <1>12, <2>4
    <2> QED
      BY <2>2, <2>3, <2>4
  <1>16. /\ \A i \in inserted : cached'[tbl[i]] = TRUE
         /\ \A b \in BlockIds : (\A i \in inserted : tbl[i] # b) =>
               cached'[b] = IF \E i \in inserted : P(i) \in DOMAIN bo /\ bo[P(i)] = b
                            THEN FALSE ELSE ca[b]
    <2>1. \A i \in inserted : tbl[i] \in BlockIds
      BY <1>11
    <2>2. \A b \in BlockIds :
            b \in displaced <=> \E i \in inserted : P(i) \in DOMAIN bo /\ bo[P(i)] = b
      BY <1>12
    <2> QED
      BY <1>2, <2>1, <2>2
  <1>17. IndexTypes(hash', cached', blockOf')
    <2>1. hash' \in [BlockIds -> Seq(Tokens)]
      <3>1. \A b \in BlockIds : hash'[b] \in Seq(Tokens)
        <4> TAKE b \in BlockIds
        <4>1. CASE \E i \in new : tbl[i] = b
          BY <1>9, <1>11, <1>13, <4>1
        <4>2. CASE \A i \in new : tbl[i] # b
          BY <1>13, <4>2 DEF IndexTypes
        <4> QED
          BY <4>1, <4>2
      <3> QED
        BY <1>1, <3>1
    <2>2. cached' \in [BlockIds -> BOOLEAN]
      BY <1>2 DEF IndexTypes
    <2>3. DOMAIN blockOf' \subseteq Seq(Tokens) \ {<<>>}
      BY <1>9, <1>11, <1>14, <1>15 DEF IndexTypes
    <2>4. \A h \in DOMAIN blockOf' : blockOf'[h] \in BlockIds
      <3> TAKE h \in DOMAIN blockOf'
      <3>1. CASE \E i \in inserted : P(i) = h
        <4>1. PICK i \in inserted : P(i) = h
          BY <3>1
        <4>2. tbl[i] \in BlockIds
          BY <1>11
        <4> QED
          BY <1>15, <4>1, <4>2
      <3>2. CASE \A i \in inserted : P(i) # h
        <4>1. h \in DOMAIN bo /\ blockOf'[h] = bo[h]
          BY <1>15, <3>2
        <4> QED
          BY <4>1 DEF IndexTypes
      <3> QED
        BY <3>1, <3>2
    <2> QED
      BY <2>1, <2>2, <2>3, <2>4 DEF IndexTypes
  <1> HIDE DEF new, inserted, displaced
  <1>18. \A b \in BlockIds : hs[b] # <<>> => hash'[b] = hs[b]
    BY <1>11, <1>13
  <1>19. \A b \in BlockIds : b \notin Elements(tbl) => hash'[b] = hs[b]
    BY <1>11, <1>13, ElementsOf
  <1>20. \A h \in DOMAIN blockOf' : hash'[blockOf'[h]] = h
    <2> TAKE h \in DOMAIN blockOf'
    <2>1. CASE \E i \in inserted : P(i) = h
      BY <1>13, <1>14, <1>15, <2>1
    <2>2. CASE \A i \in inserted : P(i) # h
      <3>1. h \in DOMAIN bo /\ blockOf'[h] = bo[h]
        BY <1>15, <2>2
      <3>2. hs[bo[h]] = h /\ h # <<>> /\ bo[h] \in BlockIds
        BY <3>1 DEF IndexMatches, IndexTypes
      <3> QED
        BY <1>18, <3>1, <3>2
    <2> QED
      BY <2>1, <2>2
  <1>21. ASSUME NEW i \in new
         PROVE  ca[tbl[i]] = FALSE /\ \A h \in DOMAIN bo : bo[h] # tbl[i]
    <2>1. tbl[i] \in BlockIds /\ hs[tbl[i]] = <<>>
      BY <1>11
    <2> QED
      BY <2>1 DEF IndexMatches, IndexTypes
  <1>22. ASSUME NEW b \in BlockIds
         PROVE  cached'[b] <=> (hash'[b] \in DOMAIN blockOf' /\ blockOf'[hash'[b]] = b)
    <2>1. CASE \E i \in inserted : tbl[i] = b
      BY <1>13, <1>14, <1>15, <1>16, <2>1
    <2>2. ASSUME NEW i \in new, i \notin inserted, tbl[i] = b
          PROVE  cached'[b] <=> (hash'[b] \in DOMAIN blockOf' /\ blockOf'[hash'[b]] = b)
      <3>1. \A j \in inserted : P(j) # P(i) /\ tbl[j] # b
        <4> TAKE j \in inserted
        <4>1. j \in new /\ j # i
          BY <1>14, <2>2
        <4>2. i \in DOMAIN tbl /\ j \in DOMAIN tbl
          BY <1>11, <4>1
        <4> QED
          BY <1>10, <1>11, <2>2, <4>1, <4>2 DEF Injective
      <3>2. hash'[b] = P(i) /\ P(i) \in DOMAIN bo /\ blockOf'[P(i)] = bo[P(i)]
        BY <1>13, <1>14, <1>15, <2>2, <3>1
      <3>3. bo[P(i)] # b /\ ca[b] = FALSE
        BY <1>21, <2>2, <3>2
      <3>4. cached'[b] = FALSE
        BY <1>16, <3>1, <3>3
      <3> QED
        BY <3>2, <3>3, <3>4
    <2>3. CASE \A i \in new : tbl[i] # b
      <3>0. hash'[b] = hs[b] /\ \A i \in inserted : tbl[i] # b
        BY <1>13, <1>14, <2>3
      <3>1. CASE \E i \in inserted : P(i) \in DOMAIN bo /\ bo[P(i)] = b
        <4>1. PICK i \in inserted : P(i) \in DOMAIN bo /\ bo[P(i)] = b
          BY <3>1
        <4>2. hs[b] = P(i) /\ cached'[b] = FALSE
          BY <1>16, <3>0, <4>1 DEF IndexMatches
        <4> QED
          BY <1>15, <3>0, <4>2
      <3>2. CASE ~\E i \in inserted : P(i) \in DOMAIN bo /\ bo[P(i)] = b
        <4>1. cached'[b] = ca[b]
          BY <1>16, <3>0, <3>2
        <4>2. ca[b] <=> (hs[b] \in DOMAIN bo /\ bo[hs[b]] = b)
          BY DEF IndexMatches
        <4>3. CASE \E i \in inserted : P(i) = hs[b]
          BY <1>15, <3>0, <3>2, <4>1, <4>2, <4>3
        <4>4. CASE \A i \in inserted : P(i) # hs[b]
          <5>1. hs[b] \in DOMAIN blockOf' <=> hs[b] \in DOMAIN bo
            BY <1>15, <4>4
          <5>2. hs[b] \in DOMAIN bo => blockOf'[hs[b]] = bo[hs[b]]
            BY <1>15, <4>4
          <5> QED
            BY <3>0, <4>1, <4>2, <5>1, <5>2
        <4> QED
          BY <4>3, <4>4
      <3> QED
        BY <3>1, <3>2
    <2> QED
      BY <2>1, <2>2, <2>3
  <1>23. \A i \in DOMAIN tbl : i \in new \/ hash'[tbl[i]] = hs[tbl[i]]
    <2> TAKE i \in DOMAIN tbl
    <2>1. ASSUME i \notin new PROVE \A j \in new : tbl[j] # tbl[i]
      BY <1>11, <2>1 DEF Injective
    <2> QED
      BY <1>13, <2>1
  <1>24. HashedLead(hash', tbl)
    <2> SUFFICES ASSUME NEW i \in DOMAIN tbl, NEW j \in DOMAIN tbl,
                        i < j, hash'[tbl[j]] # <<>>, hash'[tbl[i]] = <<>>
                 PROVE  FALSE
      BY DEF HashedLead
    <2>0. i \in 1 .. Len(tbl) /\ j \in 1 .. Len(tbl)
      OBVIOUS
    <2>1. hs[tbl[i]] = <<>>
      BY <1>18, <2>0
    <2>2. hs[tbl[j]] = <<>>
      BY <2>1 DEF HashedLead
    <2>3. j \in new
      BY <1>23, <2>2
    <2>4. prefixCaching /\ j \in 1 .. m /\ first < j
      BY <1>11, <2>3 DEF new
    <2>5. CASE i <= first
      <3>1. i \in 1 .. first
        BY <1>5, <2>0, <2>5
      <3> QED
        BY <1>6, <2>1, <3>1
    <2>6. CASE first < i
      <3>1. i \in new
        BY <1>4, <1>5, <2>0, <2>4, <2>6 DEF new
      <3>2. hash'[tbl[i]] = P(i) /\ P(i) # <<>>
        BY <1>9, <1>11, <1>13, <3>1
      <3> QED
        BY <3>2
    <2> QED
      BY <1>5, <2>0, <2>5, <2>6
  <1>25. HashesAreOwn(hash', tbl, toks, comp)
    <2> SUFFICES ASSUME NEW i \in DOMAIN tbl, hash'[tbl[i]] # <<>>
                 PROVE  i * BlockSize <= comp /\ hash'[tbl[i]] = P(i)
      BY DEF HashesAreOwn, P
    <2>1. CASE i \in new
      BY <1>8, <1>11, <1>13, <2>1
    <2>2. CASE i \notin new
      <3>1. hash'[tbl[i]] = hs[tbl[i]]
        BY <1>23, <2>2
      <3> QED
        BY <3>1 DEF HashesAreOwn, P
    <2> QED
      BY <2>1, <2>2
  <1> QED
    BY <1>3, <1>17, <1>18, <1>19, <1>20, <1>22, <1>24, <1>25 DEF IndexMatches

-----------------------------------------------------------------------------
(* Counting references *)

\* Reference counts count finite sets.
LEMMA HoldersFacts ==
    ASSUME NEW b
    PROVE  IsFiniteSet(Holders(b)) /\ Cardinality(Holders(b)) \in Nat
  <1>1. IsFiniteSet(Requests)
    BY KVCacheAssumption, FS_Interval DEF Requests
  <1>2. Holders(b) \in SUBSET Requests
    BY DEF Holders
  <1> QED
    BY <1>1, <1>2, FS_Subset, FS_CardinalityType

\* When one table changes, only its request starts or stops holding a block.
LEMMA HoldersChange ==
    ASSUME table \in [Requests -> Seq(BlockIds)], NEW r \in Requests, NEW tbl,
           table' = [table EXCEPT ![r] = tbl], NEW b
    PROVE  Holders(b)' = IF b \in Elements(tbl) THEN Holders(b) \cup {r} ELSE Holders(b) \ {r}
  <1>1. \A s \in Requests : table'[s] = IF s = r THEN tbl ELSE table[s]
    OBVIOUS
  <1>2. Holders(b)' = {s \in Requests : b \in Elements(table'[s])}
    BY DEF Holders, Elements
  <1>3. Holders(b) = {s \in Requests : b \in Elements(table[s])}
    BY DEF Holders
  <1> QED
    BY <1>1, <1>2, <1>3

\* release_blocks: a block is freed exactly when its last reference goes.
LEMMA ReleaseAccounts ==
    ASSUME KVTypeOK, BlocksAccountedFor, NEW r \in Requests, NEW toks, NEW comp,
           ReleaseBlocks(r, toks, comp)
    PROVE  /\ free' \in Seq(BlockIds)
           /\ refCount' \in [BlockIds -> Int]
           /\ table' \in [Requests -> Seq(BlockIds)]
           /\ BlocksAccountedFor'
  <1> DEFINE tbl == table[r]
             kept == {b \in BlockIds : refCount[b] # 1}
             freed == Excluding(tbl, kept)
  <1>1. /\ refCount' = [b \in BlockIds |->
              IF b \in Elements(tbl) THEN refCount[b] - 1 ELSE refCount[b]]
        /\ free' = free \o freed
        /\ table' = [table EXCEPT ![r] = <<>>]
    BY DEF ReleaseBlocks
  <1>2. /\ table \in [Requests -> Seq(BlockIds)] /\ tbl \in Seq(BlockIds)
        /\ free \in Seq(BlockIds) /\ refCount \in [BlockIds -> Int]
    BY DEF KVTypeOK
  <1>3. /\ \A b \in BlockIds : refCount[b] = Cardinality(Holders(b))
        /\ \A s \in Requests : Injective(table[s])
        /\ Injective(free)
        /\ Elements(free) = {b \in BlockIds : Holders(b) = {}}
    BY DEF BlocksAccountedFor, Injective
  <1>4. \A b : Holders(b)' = Holders(b) \ {r}
    BY <1>1, <1>2, HoldersChange, ElementsOfEmpty
  <1>5. \A b \in BlockIds : b \in Elements(tbl) <=> r \in Holders(b)
    BY DEF Holders
  <1>6. /\ freed \in Seq(BlockIds) /\ Injective(freed)
        /\ Elements(freed) = Elements(tbl) \ kept
    BY <1>2, <1>3, ExcludingFacts
  <1> HIDE DEF freed, tbl
  <1>7. Elements(freed) = {b \in BlockIds : r \in Holders(b) /\ refCount[b] = 1}
    BY <1>2, <1>5, <1>6, ElementsOf
  <1>8. Elements(free) \cap Elements(freed) = {}
    BY <1>3, <1>7
  <1>9. /\ free' \in Seq(BlockIds) /\ Injective(free')
        /\ Elements(free') = Elements(free) \cup Elements(freed)
    BY <1>1, <1>2, <1>3, <1>6, <1>8, ConcatFacts
  <1>10. ASSUME NEW b \in BlockIds
         PROVE  /\ refCount'[b] = Cardinality(Holders(b)')
                /\ b \in Elements(free') <=> Holders(b)' = {}
    <2>1. /\ IsFiniteSet(Holders(b)) /\ IsFiniteSet(Holders(b) \ {r})
          /\ Cardinality(Holders(b) \ {r}) =
                IF r \in Holders(b) THEN Cardinality(Holders(b)) - 1
                ELSE Cardinality(Holders(b))
      BY HoldersFacts, FS_RemoveElement
    <2>2. refCount'[b] = Cardinality(Holders(b) \ {r})
      BY <1>1, <1>3, <1>5, <2>1
    <2>3. Holders(b) \ {r} = {} <=> Cardinality(Holders(b) \ {r}) = 0
      BY <2>1, FS_EmptySet
    <2>4. Holders(b) = {} <=> Cardinality(Holders(b)) = 0
      BY <2>1, FS_EmptySet
    <2>5. b \in Elements(free') <=> Holders(b) = {} \/ (r \in Holders(b) /\ refCount[b] = 1)
      BY <1>3, <1>7, <1>9
    <2>6. Cardinality(Holders(b)) \in Nat
      BY HoldersFacts
    <2>7. b \in Elements(free') <=> Holders(b) \ {r} = {}
      <3>1. CASE r \in Holders(b)
        BY <1>3, <2>1, <2>3, <2>5, <2>6, <3>1
      <3>2. CASE r \notin Holders(b)
        BY <2>5, <3>2
      <3> QED
        BY <3>1, <3>2
    <2> QED
      BY <1>4, <2>2, <2>7
  <1>11. \A s \in Requests : Injective(table'[s])
    BY <1>1, <1>2, <1>3, ElementsOfEmpty
  <1>12. table' \in [Requests -> Seq(BlockIds)] /\ refCount' \in [BlockIds -> Int]
    <2>1. <<>> \in Seq(BlockIds)
      OBVIOUS
    <2> QED
      BY <1>1, <1>2, <2>1
  <1>13. Elements(free') = {b \in BlockIds : Holders(b)' = {}}
    BY <1>9, <1>10, ElementsOf
  <1>14. Elements(free)' = Elements(free')
    BY DEF Elements
  <1> QED
    BY <1>9, <1>10, <1>11, <1>12, <1>13, <1>14 DEF BlocksAccountedFor, Injective

\* allocate_slots takes blocks nobody holds, and nobody else gets them.
LEMMA AllocateAccounts ==
    ASSUME KVTypeOK, BlocksAccountedFor, NEW r \in Requests, NEW toks, NEW comp, NEW n,
           NumNewBlocks(r, comp, n) \in 0 .. Len(free),
           AllocateSlots(r, toks, comp, n)
    PROVE  LET k == NumNewBlocks(r, comp, n)
               new == SubSeq(free, 1, k)
           IN  /\ new \in Seq(BlockIds) /\ Len(new) = k
               /\ \A b \in Elements(new) : b \in BlockIds /\ Holders(b) = {}
               /\ table' = [table EXCEPT ![r] = table[r] \o new]
               /\ Elements(table[r] \o new) = Elements(table[r]) \cup Elements(new)
               /\ table[r] \o new \in Seq(BlockIds) /\ Injective(table[r] \o new)
               /\ free' \in Seq(BlockIds)
               /\ refCount' \in [BlockIds -> Int]
               /\ table' \in [Requests -> Seq(BlockIds)]
               /\ BlocksAccountedFor'
  <1> DEFINE k == NumNewBlocks(r, comp, n)
             new == SubSeq(free, 1, k)
             rest == SubSeq(free, k + 1, Len(free))
             tbl == table[r] \o new
  <1>1. /\ free' = rest
        /\ refCount' = [b \in BlockIds |-> IF b \in Elements(new) THEN 1 ELSE refCount[b]]
        /\ table' = [table EXCEPT ![r] = @ \o new]
    BY DEF AllocateSlots
  <1>2. /\ table \in [Requests -> Seq(BlockIds)] /\ table[r] \in Seq(BlockIds)
        /\ free \in Seq(BlockIds) /\ refCount \in [BlockIds -> Int]
    BY DEF KVTypeOK
  <1>3. /\ \A b \in BlockIds : refCount[b] = Cardinality(Holders(b))
        /\ \A s \in Requests : Injective(table[s])
        /\ Injective(free)
        /\ Elements(free) = {b \in BlockIds : Holders(b) = {}}
    BY DEF BlocksAccountedFor, Injective
  <1>4. /\ new \in Seq(BlockIds) /\ Len(new) = k /\ rest \in Seq(BlockIds)
        /\ Elements(new) \cup Elements(rest) = Elements(free)
        /\ Elements(new) \cap Elements(rest) = {}
        /\ Injective(new) /\ Injective(rest)
    BY <1>2, <1>3, SplitFacts
  <1> HIDE DEF new, rest, k
  <1>5. \A b \in Elements(new) : b \in BlockIds /\ Holders(b) = {}
    BY <1>3, <1>4
  <1>6. \A b \in BlockIds : b \in Elements(table[r]) <=> r \in Holders(b)
    BY DEF Holders
  <1>7. Elements(table[r]) \cap Elements(new) = {}
    BY <1>5, <1>6
  <1>8. /\ tbl \in Seq(BlockIds) /\ Injective(tbl)
        /\ Elements(tbl) = Elements(table[r]) \cup Elements(new)
    BY <1>2, <1>3, <1>4, <1>7, ConcatFacts
  <1>9. table' = [table EXCEPT ![r] = tbl]
    BY <1>1
  <1> HIDE DEF tbl
  <1>10. \A b : Holders(b)' = IF b \in Elements(tbl) THEN Holders(b) \cup {r} ELSE Holders(b) \ {r}
    BY <1>2, <1>9, HoldersChange
  <1>11. \A b \in BlockIds : Holders(b)' = IF b \in Elements(new) THEN {r} ELSE Holders(b)
    BY <1>5, <1>6, <1>8, <1>10
  <1>12. \A b \in BlockIds : refCount'[b] = Cardinality(Holders(b)')
    BY <1>1, <1>3, <1>11, FS_Singleton
  <1>13. Elements(free') = {b \in BlockIds : Holders(b)' = {}}
    BY <1>1, <1>3, <1>4, <1>11
  <1>14. \A s \in Requests : Injective(table'[s])
    BY <1>2, <1>3, <1>8, <1>9
  <1>15. table' \in [Requests -> Seq(BlockIds)] /\ refCount' \in [BlockIds -> Int]
    <2>1. refCount' \in [BlockIds -> Int]
      BY <1>1, <1>2
    <2> QED
      BY <1>2, <1>8, <1>9, <2>1
  <1>16. Elements(free)' = Elements(free') /\ free' \in Seq(BlockIds) /\ Injective(free')
    BY <1>1, <1>4 DEF Elements
  <1>17. BlocksAccountedFor'
    BY <1>12, <1>13, <1>14, <1>16 DEF BlocksAccountedFor, Injective
  <1> QED
    BY <1>4, <1>5, <1>8, <1>9, <1>15, <1>16, <1>17 DEF k, new, tbl

\* What a lookup finds: the leading blocks of the tokens, each full of them,
\* without the last token.
LEMMA MatchedFacts ==
    ASSUME KVTypeOK, IndexMatchesBlocks, NEW toks \in Seq(Tokens), toks # <<>>
    PROVE  /\ Matched(toks) \in Seq(BlockIds) /\ Injective(Matched(toks))
           /\ NumReused(toks) \in Nat /\ NumReused(toks) < Len(toks)
           /\ BlocksFor(NumReused(toks)) = Len(Matched(toks))
           /\ \A i \in 1 .. Len(Matched(toks)) :
                 /\ i * BlockSize <= NumReused(toks)
                 /\ hash[Matched(toks)[i]] = SubSeq(toks, 1, i * BlockSize)
                 /\ hash[Matched(toks)[i]] # <<>>
  <1> DEFINE P(i) == SubSeq(toks, 1, i * BlockSize)
             s == NumShared(toks)
             S == {i \in 1 .. s : \A j \in 1 .. i : P(j) \in DOMAIN blockOf}
             m == NumMatched(toks)
             ma == Matched(toks)
  <1>0. Len(toks) \in Nat \ {0}
    BY EmptySeq
  <1>1. s \in Nat /\ \A i \in Int : i <= s <=> i * BlockSize <= Len(toks) - 1
    <2>1. Len(toks) - 1 \in Nat /\ s = (Len(toks) - 1) \div BlockSize
      BY <1>0 DEF NumShared
    <2> HIDE DEF s
    <2> QED
      BY <2>1, Division, FullBlocks
  <1>2. m \in Nat /\ S = 1 .. m /\ (m <= s \/ m = 0)
    <2>1. m = Cardinality(S)
      BY DEF NumMatched
    <2>2. s \in Int
      BY <1>1
    <2>3. S \in SUBSET (1 .. s)
      OBVIOUS
    <2>4. \A i \in S : \A j \in 1 .. i : j \in S
      <3> HIDE DEF s, P
      <3> QED
        BY <2>2
    <2> HIDE DEF S, s, m
    <2> QED
      BY <2>1, <2>2, <2>3, <2>4, LeadingIndices
  <1>3. \A i \in S : P(i) \in DOMAIN blockOf
    <2> HIDE DEF P
    <2> QED
      BY <1>1
  <1> HIDE DEF S, s, m
  <1>4. \A i \in 1 .. m : /\ P(i) \in DOMAIN blockOf
                          /\ i * BlockSize \in Nat \ {0} /\ i * BlockSize < Len(toks)
    <2> TAKE i \in 1 .. m
    <2>1. i \in Nat \ {0} /\ i <= s
      BY <1>1, <1>2
    <2>2. i * BlockSize \in Nat \ {0}
      BY <2>1, KVCacheAssumption
    <2>3. i * BlockSize <= Len(toks) - 1
      BY <1>1, <2>1
    <2> HIDE DEF P
    <2> QED
      BY <1>0, <1>2, <1>3, <2>2, <2>3
  <1>5. \A i \in 1 .. m : P(i) \in Seq(Tokens) /\ Len(P(i)) = i * BlockSize /\ P(i) # <<>>
    <2> TAKE i \in 1 .. m
    <2>1. i * BlockSize \in Nat \ {0} /\ i * BlockSize <= Len(toks)
      BY <1>0, <1>4
    <2> QED
      BY <2>1, PrefixFacts
  <1>6. \A i, j \in 1 .. m : P(i) = P(j) => i = j
    <2> SUFFICES ASSUME NEW i \in 1 .. m, NEW j \in 1 .. m, P(i) = P(j)
                 PROVE  i = j
      OBVIOUS
    <2>1. i * BlockSize = j * BlockSize
      BY <1>5
    <2>2. i \in Int /\ j \in Int
      BY <1>2
    <2> HIDE DEF P
    <2>3. i * BlockSize \in Int /\ (i <= j <=> i * BlockSize <= j * BlockSize)
          /\ (j <= i <=> j * BlockSize <= i * BlockSize)
      BY <2>2, ProductOrder
    <2> QED
      BY <2>1, <2>2, <2>3
  <1>7. CASE prefixCaching
    <2>1. ma = [i \in 1 .. m |-> blockOf[P(i)]]
      BY <1>7 DEF Matched, m
    <2> HIDE DEF P, ma
    <2>2. \A i \in 1 .. m : blockOf[P(i)] \in BlockIds /\ hash[blockOf[P(i)]] = P(i)
      BY <1>4 DEF KVTypeOK, IndexMatchesBlocks
    <2>3. ma \in Seq(BlockIds) /\ Len(ma) = m
      BY <1>2, <2>1, <2>2
    <2>4. Injective(ma)
      BY <1>6, <2>1, <2>2 DEF Injective
    <2>5. NumReused(toks) = m * BlockSize /\ m * BlockSize \in Nat
      BY <1>2, <2>3, KVCacheAssumption DEF NumReused, ma
    <2>6. m * BlockSize < Len(toks)
      <3>1. CASE m = 0
        <4>1. 0 * BlockSize = 0
          BY KVCacheAssumption
        <4> QED
          BY <1>0, <3>1, <4>1
      <3>2. CASE m # 0
        <4>1. m \in 1 .. m
          BY <1>2, <3>2
        <4> QED
          BY <1>4, <4>1
      <3> QED
        BY <3>1, <3>2
    <2>7. BlocksFor(NumReused(toks)) = m
      BY <1>2, <2>5, WholeBlocks
    <2>8. \A i \in 1 .. m : i * BlockSize <= m * BlockSize
      BY <1>2, ProductOrder
    <2>9. \A i \in 1 .. m : hash[ma[i]] = P(i) /\ hash[ma[i]] # <<>>
      BY <1>5, <2>1, <2>2
    <2>10. \A i \in 1 .. Len(ma) : i * BlockSize <= NumReused(toks)
      BY <2>3, <2>5, <2>8
    <2>11. \A i \in 1 .. Len(ma) : hash[ma[i]] = P(i) /\ hash[ma[i]] # <<>>
      BY <2>3, <2>9
    <2> QED
      BY <2>3, <2>4, <2>5, <2>6, <2>7, <2>10, <2>11 DEF ma, P
  <1>8. CASE ~prefixCaching
    <2>1. ma = <<>>
      BY <1>8 DEF Matched
    <2>2. NumReused(toks) = 0
      BY <2>1, KVCacheAssumption DEF NumReused
    <2> QED
      BY <1>0, <2>1, <2>2, BlocksForFacts, ElementsOfEmpty
  <1> QED
    BY <1>7, <1>8

\* hold_block: each block found gets one more reference and leaves the free
\* list if it was there.
LEMMA ReuseAccounts ==
    ASSUME KVTypeOK, BlocksAccountedFor, NEW r \in Requests, NEW toks,
           table[r] = <<>>,
           Matched(toks) \in Seq(BlockIds), Injective(Matched(toks)),
           ReusePrefix(r, toks)
    PROVE  /\ free' \in Seq(BlockIds)
           /\ refCount' \in [BlockIds -> Int]
           /\ table' \in [Requests -> Seq(BlockIds)]
           /\ table' = [table EXCEPT ![r] = Matched(toks)]
           /\ BlocksAccountedFor'
  <1> DEFINE ma == Matched(toks)
             rest == Excluding(free, Elements(ma))
  <1>1. /\ free' = rest
        /\ refCount' = [b \in BlockIds |->
              IF b \in Elements(ma) THEN refCount[b] + 1 ELSE refCount[b]]
        /\ table' = [table EXCEPT ![r] = @ \o ma]
    BY DEF ReusePrefix
  <1>2. /\ table \in [Requests -> Seq(BlockIds)]
        /\ free \in Seq(BlockIds) /\ refCount \in [BlockIds -> Int]
        /\ ma \in Seq(BlockIds) /\ Injective(ma)
    BY DEF KVTypeOK
  <1>3. /\ \A b \in BlockIds : refCount[b] = Cardinality(Holders(b))
        /\ \A s \in Requests : Injective(table[s])
        /\ Injective(free)
        /\ Elements(free) = {b \in BlockIds : Holders(b) = {}}
    BY DEF BlocksAccountedFor, Injective
  <1>4. /\ rest \in Seq(BlockIds) /\ Injective(rest)
        /\ Elements(rest) = Elements(free) \ Elements(ma)
    BY <1>2, <1>3, ExcludingFacts
  <1> HIDE DEF rest, ma
  <1>5. table' = [table EXCEPT ![r] = ma]
    <2>1. table[r] \o ma = ma
      BY <1>2, ConcatEmptySeq
    <2> QED
      BY <1>1, <2>1
  <1>6. \A b : r \notin Holders(b)
    BY ElementsOfEmpty DEF Holders
  <1>7. \A b : Holders(b)' = IF b \in Elements(ma) THEN Holders(b) \cup {r} ELSE Holders(b)
    <2>1. \A b : Holders(b) \ {r} = Holders(b)
      BY <1>6
    <2> QED
      BY <1>2, <1>5, <2>1, HoldersChange
  <1>8. ASSUME NEW b \in BlockIds PROVE refCount'[b] = Cardinality(Holders(b)')
    <2>1. Cardinality(Holders(b) \cup {r}) = Cardinality(Holders(b)) + 1
      BY <1>6, HoldersFacts, FS_AddElement
    <2> QED
      BY <1>1, <1>3, <1>7, <2>1
  <1>9. Elements(free') = {b \in BlockIds : Holders(b)' = {}}
    BY <1>1, <1>3, <1>4, <1>7
  <1>10. \A s \in Requests : Injective(table'[s])
    BY <1>2, <1>3, <1>5
  <1>11. table' \in [Requests -> Seq(BlockIds)] /\ refCount' \in [BlockIds -> Int]
    <2>1. refCount' \in [BlockIds -> Int]
      BY <1>1, <1>2
    <2> QED
      BY <1>2, <1>5, <2>1
  <1>12. Elements(free)' = Elements(free') /\ free' \in Seq(BlockIds) /\ Injective(free')
    BY <1>1, <1>4 DEF Elements
  <1>13. BlocksAccountedFor'
    BY <1>8, <1>9, <1>10, <1>12 DEF BlocksAccountedFor, Injective
  <1> QED
    BY <1>5, <1>11, <1>12, <1>13 DEF ma

-----------------------------------------------------------------------------
(* What the three operations preserve *)

\* A block in two tables is published: it was found in the index.
SharedAreHashed ==
    \A r, s \in Requests : r # s =>
        \A b \in BlockIds :
            b \in Elements(table[r]) /\ b \in Elements(table[s]) => hash[b] # <<>>

CacheTypes ==
    /\ KVTypeOK
    /\ <<>> \notin DOMAIN blockOf
    /\ tokens \in [Requests -> Seq(Tokens)]
    /\ computed \in [Requests -> Nat]

\* Every table is as long as its request's computed tokens need, and hashed
\* from its first block on under the request's own tokens.
TableFits(r) ==
    /\ computed[r] <= Len(tokens[r])
    /\ Len(table[r]) = BlocksFor(computed[r])
    /\ HashedLead(hash, table[r])
    /\ HashesAreOwn(hash, table[r], tokens[r], computed[r])

CacheInv ==
    /\ CacheTypes
    /\ BlocksAccountedFor
    /\ IndexMatchesBlocks
    /\ \A r \in Requests : TableFits(r)
    /\ SharedAreHashed

\* The hashes a call leaves are the old ones, or those of full blocks of tbl.
PublishedOnly(hs, hp, tbl, toks, comp) ==
    \A b \in BlockIds :
        \/ hp[b] = hs[b]
        \/ hp[b] = <<>>
        \/ \E i \in DOMAIN tbl :
              tbl[i] = b /\ i * BlockSize <= comp /\ hp[b] = SubSeq(toks, 1, i * BlockSize)

\* What the other requests hold stays as it was.
OthersKept(r, tb, tp, hs, hp) ==
    \A s \in Requests : s # r =>
        tp[s] = tb[s] /\ \A b \in Elements(tb[s]) : hp[b] = hs[b]

\* Hashes that stay the same for a table's blocks keep what is said of them.
LEMMA SameHashes ==
    ASSUME NEW tbl \in Seq(BlockIds), NEW hs, NEW hp,
           \A b \in Elements(tbl) : hp[b] = hs[b]
    PROVE  /\ HashedLead(hs, tbl) => HashedLead(hp, tbl)
           /\ \A toks, comp : HashesAreOwn(hs, tbl, toks, comp)
                                 => HashesAreOwn(hp, tbl, toks, comp)
  <1>1. \A i \in DOMAIN tbl : hp[tbl[i]] = hs[tbl[i]]
    BY ElementsOf
  <1> QED
    BY <1>1 DEF HashedLead, HashesAreOwn

\* A request without blocks.
LEMMA EmptyTable ==
    ASSUME NEW hs, NEW toks
    PROVE  /\ HashedLead(hs, <<>>) /\ HashesAreOwn(hs, <<>>, toks, 0)
           /\ Len(<<>>) = BlocksFor(0)
  BY BlocksForFacts DEF HashedLead, HashesAreOwn

\* The index as PublishFacts speaks of it.
LEMMA IndexOfState ==
    /\ CacheTypes => IndexTypes(hash, cached, blockOf)
    /\ IndexMatchesBlocks <=> IndexMatches(hash, cached, blockOf)
  BY DEF CacheTypes, KVTypeOK, IndexTypes, IndexMatches, IndexMatchesBlocks

\* toks is what the request has when it lets go: its tokens, or one more.
LEMMA ReleaseCache ==
    ASSUME CacheInv, NEW r \in Requests, NEW toks \in Seq(Tokens),
           computed[r] <= Len(toks),
           HashesAreOwn(hash, table[r], toks, computed[r]),
           ReleaseBlocks(r, toks, computed[r]),
           computed' = [computed EXCEPT ![r] = 0],
           NEW left \in Seq(Tokens), tokens' = [tokens EXCEPT ![r] = left]
    PROVE  /\ CacheInv'
           /\ table'[r] = <<>>
           /\ OthersKept(r, table, table', hash, hash')
           /\ PublishedOnly(hash, hash', table[r], toks, computed[r])
  <1>1. /\ KVTypeOK /\ BlocksAccountedFor /\ IndexMatchesBlocks /\ SharedAreHashed
        /\ <<>> \notin DOMAIN blockOf
        /\ table \in [Requests -> Seq(BlockIds)]
        /\ tokens \in [Requests -> Seq(Tokens)]
        /\ computed \in [Requests -> Nat]
        /\ \A s \in Requests : TableFits(s)
    BY DEF CacheInv, CacheTypes, KVTypeOK
  <1>2. /\ free' \in Seq(BlockIds) /\ refCount' \in [BlockIds -> Int]
        /\ table' \in [Requests -> Seq(BlockIds)] /\ BlocksAccountedFor'
    BY <1>1, ReleaseAccounts
  <1>3. /\ table' = [table EXCEPT ![r] = <<>>]
        /\ CacheFullBlocks(hash, cached, blockOf, refCount, toks, computed[r], table[r])
    BY DEF ReleaseBlocks
  <1>4. /\ IndexTypes(hash, cached, blockOf) /\ IndexMatches(hash, cached, blockOf)
        /\ table[r] \in Seq(BlockIds) /\ Injective(table[r]) /\ computed[r] \in Nat
        /\ HashedLead(hash, table[r])
    BY <1>1, IndexOfState DEF CacheInv, BlocksAccountedFor, Injective, TableFits
  <1>5. /\ IndexTypes(hash', cached', blockOf')
        /\ IndexMatches(hash', cached', blockOf')
        /\ \A b \in BlockIds : hash[b] # <<>> => hash'[b] = hash[b]
        /\ \A b \in BlockIds : b \notin Elements(table[r]) => hash'[b] = hash[b]
        /\ prefixCaching' = prefixCaching
        /\ HashesAreOwn(hash', table[r], toks, computed[r])
    BY <1>3, <1>4, PublishFacts
  <1>6. /\ CacheTypes'
        /\ IndexMatchesBlocks'
    <2>1. computed' \in [Requests -> Nat] /\ tokens' \in [Requests -> Seq(Tokens)]
      BY <1>1
    <2> QED
      BY <1>1, <1>2, <1>5, <2>1
         DEF CacheTypes, KVTypeOK, IndexTypes, IndexMatches, IndexMatchesBlocks
  <1>7. ASSUME NEW s \in Requests, s # r
        PROVE  \A b \in Elements(table[s]) : b \in BlockIds /\ hash'[b] = hash[b]
    <2> TAKE b \in Elements(table[s])
    <2>1. b \in BlockIds
      BY <1>1, ElementsOf
    <2> QED
      BY <1>5, <1>7, <2>1, <1>1 DEF SharedAreHashed
  <1>8. ASSUME NEW s \in Requests PROVE TableFits(s)'
    <2>1. CASE s = r
      <3>1. table'[s] = <<>> /\ computed'[s] = 0 /\ tokens'[s] = left
        BY <1>1, <1>3, <2>1
      <3>2. Len(left) \in Nat
        OBVIOUS
      <3> QED
        BY <3>1, <3>2, EmptyTable DEF TableFits
    <2>2. CASE s # r
      <3>1. table'[s] = table[s] /\ computed'[s] = computed[s] /\ tokens'[s] = tokens[s]
        BY <1>1, <1>3, <2>2
      <3>2. table[s] \in Seq(BlockIds) /\ \A b \in Elements(table[s]) : hash'[b] = hash[b]
        BY <1>1, <1>7, <2>2
      <3>3. HashedLead(hash', table[s])
            /\ HashesAreOwn(hash', table[s], tokens[s], computed[s])
        BY <1>1, <3>2, SameHashes DEF TableFits
      <3> QED
        BY <1>1, <3>1, <3>3 DEF TableFits
    <2> QED
      BY <2>1, <2>2
  <1>9. SharedAreHashed'
    <2> SUFFICES ASSUME NEW s \in Requests, NEW t \in Requests, s # t, NEW b \in BlockIds,
                        b \in Elements(table'[s]), b \in Elements(table'[t])
                 PROVE  hash'[b] # <<>>
      BY DEF SharedAreHashed, Elements
    <2>1. s # r /\ t # r
      BY <1>1, <1>3, ElementsOfEmpty
    <2>2. table'[s] = table[s] /\ table'[t] = table[t]
      BY <1>1, <1>3, <2>1
    <2> QED
      BY <1>1, <1>5, <2>2 DEF SharedAreHashed
  <1>10. CacheInv'
    BY <1>2, <1>6, <1>8, <1>9 DEF CacheInv
  <1>11. table'[r] = <<>> /\ OthersKept(r, table, table', hash, hash')
    BY <1>1, <1>3, <1>7 DEF OthersKept
  <1>12. PublishedOnly(hash, hash', table[r], toks, computed[r])
    BY <1>4, <1>5 DEF PublishedOnly, HashesAreOwn, Elements
  <1> QED
    BY <1>10, <1>11, <1>12

\* n more tokens of r get their slots; the blocks taken lose what they cached.
LEMMA AllocateCache ==
    ASSUME CacheInv, NEW r \in Requests, NEW n \in Nat,
           computed[r] + n <= Len(tokens[r]),
           CanAllocate(r, computed[r], n),
           AllocateSlots(r, tokens[r], computed[r], n),
           computed' = [computed EXCEPT ![r] = @ + n], tokens' = tokens
    PROVE  /\ CacheInv'
           /\ Len(table[r]) <= Len(table'[r])
           /\ \A i \in DOMAIN table[r] : i \in DOMAIN table'[r] /\ table'[r][i] = table[r][i]
           /\ OthersKept(r, table, table', hash, hash')
           /\ PublishedOnly(hash, hash', table[r], tokens[r], computed[r])
           /\ HashesAreOwn(hash', table'[r], tokens[r], computed[r])
  <1> DEFINE k == NumNewBlocks(r, computed[r], n)
             new == SubSeq(free, 1, k)
             taken == Elements(new)
             tbl == table[r] \o new
             hs == [b \in BlockIds |-> IF b \in taken THEN <<>> ELSE hash[b]]
             ca == [b \in BlockIds |-> b \notin taken /\ cached[b]]
             bo == Unindexed(taken)
             refs == [b \in BlockIds |-> IF b \in taken THEN 1 ELSE refCount[b]]
  <1>1. /\ KVTypeOK /\ BlocksAccountedFor /\ IndexMatchesBlocks /\ SharedAreHashed
        /\ <<>> \notin DOMAIN blockOf
        /\ table \in [Requests -> Seq(BlockIds)] /\ free \in Seq(BlockIds)
        /\ hash \in [BlockIds -> Seq(Tokens)] /\ cached \in [BlockIds -> BOOLEAN]
        /\ tokens \in [Requests -> Seq(Tokens)]
        /\ computed \in [Requests -> Nat]
        /\ \A s \in Requests : TableFits(s)
    BY DEF CacheInv, CacheTypes, KVTypeOK
  <1>2. /\ k \in 0 .. Len(free)
        /\ Len(table[r]) + k = BlocksFor(computed[r] + n)
    <2>1. computed[r] \in Nat /\ computed[r] + n \in Nat /\ Len(table[r]) = BlocksFor(computed[r])
      BY <1>1 DEF TableFits
    <2>2. /\ BlocksFor(computed[r]) <= BlocksFor(computed[r] + n)
          /\ BlocksFor(computed[r]) \in Nat /\ BlocksFor(computed[r] + n) \in Nat
      BY <2>1, BlocksForMonotone, BlocksForFacts
    <2>3. k = BlocksFor(computed[r] + n) - Len(table[r]) /\ k <= Len(free)
      BY DEF NumNewBlocks, CanAllocate
    <2>4. Len(free) \in Nat
      BY <1>1
    <2> HIDE DEF k
    <2> QED
      BY <2>1, <2>2, <2>3, <2>4
  <1>3. /\ new \in Seq(BlockIds) /\ Len(new) = k
        /\ \A b \in taken : b \in BlockIds /\ Holders(b) = {}
        /\ table' = [table EXCEPT ![r] = tbl]
        /\ Elements(tbl) = Elements(table[r]) \cup taken
        /\ tbl \in Seq(BlockIds) /\ Injective(tbl)
        /\ free' \in Seq(BlockIds)
        /\ refCount' \in [BlockIds -> Int]
        /\ table' \in [Requests -> Seq(BlockIds)]
        /\ BlocksAccountedFor'
    BY <1>1, <1>2, AllocateAccounts
  <1>4. CacheFullBlocks(hs, ca, bo, refs, tokens[r], computed[r], tbl)
    BY DEF AllocateSlots
  <1>5. \A s \in Requests : \A b \in Elements(table[s]) :
            b \in BlockIds /\ b \notin taken /\ hs[b] = hash[b]
    <2> TAKE s \in Requests
    <2> TAKE b \in Elements(table[s])
    <2>1. b \in BlockIds
      BY <1>1, ElementsOf
    <2>2. s \in Holders(b)
      BY DEF Holders
    <2> HIDE DEF taken
    <2>3. b \notin taken
      BY <1>3, <2>2
    <2> QED
      BY <2>1, <2>3
  <1> HIDE DEF new, taken, k, tbl
  <1>6. /\ DOMAIN bo = DOMAIN blockOf \ {hash[b] : b \in {c \in taken : cached[c]}}
        /\ \A h \in DOMAIN bo : bo[h] = blockOf[h]
    BY DEF Unindexed
  <1> HIDE DEF bo
  <1>7. IndexTypes(hs, ca, bo)
    <2>1. hs \in [BlockIds -> Seq(Tokens)]
      <3>1. <<>> \in Seq(Tokens)
        OBVIOUS
      <3> QED
        BY <1>1, <3>1
    <2>2. ca \in [BlockIds -> BOOLEAN]
      OBVIOUS
    <2> QED
      BY <1>1, <1>6, <2>1, <2>2 DEF IndexTypes, KVTypeOK
  <1>8. IndexMatches(hs, ca, bo)
    <2>1. ASSUME NEW b \in BlockIds
          PROVE  ca[b] <=> (hs[b] \in DOMAIN bo /\ bo[hs[b]] = b)
      <3>1. CASE b \in taken
        BY <1>1, <1>6, <3>1
      <3>2. CASE b \notin taken
        <4>1. ca[b] <=> cached[b]
          BY <3>2
        <4>2. hs[b] = hash[b]
          BY <3>2
        <4>3. cached[b] <=> (hash[b] \in DOMAIN blockOf /\ blockOf[hash[b]] = b)
          BY <1>1 DEF IndexMatchesBlocks
        <4>4. ASSUME cached[b] PROVE hash[b] \in DOMAIN bo
          <5> SUFFICES ASSUME NEW c \in taken, cached[c], hash[c] = hash[b] PROVE FALSE
            BY <1>6, <4>3, <4>4
          <5>1. c \in BlockIds /\ blockOf[hash[c]] = c
            BY <1>1, <1>3 DEF IndexMatchesBlocks
          <5> QED
            BY <3>2, <4>3, <4>4, <5>1
        <4> QED
          BY <1>6, <4>1, <4>2, <4>3, <4>4
      <3> QED
        BY <3>1, <3>2
    <2>2. ASSUME NEW h \in DOMAIN bo PROVE hs[bo[h]] = h
      <3>1. h \in DOMAIN blockOf /\ bo[h] = blockOf[h] /\ blockOf[h] \in BlockIds
        BY <1>1, <1>6 DEF KVTypeOK
      <3>2. hash[blockOf[h]] = h
        BY <1>1, <3>1 DEF IndexMatchesBlocks
      <3>3. blockOf[h] \notin taken
        <4> SUFFICES ASSUME blockOf[h] \in taken PROVE FALSE
          OBVIOUS
        <4>1. cached[blockOf[h]]
          BY <1>1, <3>1, <3>2 DEF IndexMatchesBlocks
        <4> QED
          BY <1>6, <3>2, <4>1
      <3> QED
        BY <3>1, <3>2, <3>3
    <2> QED
      BY <2>1, <2>2 DEF IndexMatches
  <1>20. /\ table[r] \in Seq(BlockIds) /\ new \in Seq(BlockIds)
         /\ Len(table[r]) \in Nat /\ Len(new) \in Nat
    BY <1>1, <1>3
  <1>21. /\ Len(tbl) = Len(table[r]) + Len(new)
         /\ \A j \in 1 .. Len(table[r]) : tbl[j] = table[r][j]
         /\ \A j \in Len(table[r]) + 1 .. Len(table[r]) + Len(new) :
               tbl[j] = new[j - Len(table[r])]
    BY <1>20, ConcatFacts DEF tbl
  <1>9. \A i \in DOMAIN tbl : \/ i \in DOMAIN table[r] /\ tbl[i] = table[r][i]
                                 /\ hs[tbl[i]] = hash[table[r][i]]
                              \/ i > Len(table[r]) /\ hs[tbl[i]] = <<>>
    <2> TAKE i \in DOMAIN tbl
    <2>0. table[r] \in Seq(BlockIds) /\ Len(table[r]) \in Nat /\ Len(new) \in Nat
      BY <1>20
    <2>1. /\ Len(tbl) = Len(table[r]) + Len(new)
          /\ \A j \in 1 .. Len(table[r]) : tbl[j] = table[r][j]
          /\ \A j \in Len(table[r]) + 1 .. Len(table[r]) + Len(new) :
                tbl[j] = new[j - Len(table[r])]
      BY <1>21
    <2>2. i \in 1 .. Len(table[r]) + Len(new)
      BY <1>3, <2>1
    <2>3. CASE i <= Len(table[r])
      <3>1. i \in DOMAIN table[r] /\ i \in 1 .. Len(table[r])
        BY <2>0, <2>2, <2>3
      <3>2. tbl[i] = table[r][i] /\ table[r][i] \in Elements(table[r])
        BY <2>0, <2>1, <3>1, ElementsOf
      <3> QED
        BY <1>5, <3>1, <3>2
    <2>4. CASE ~(i <= Len(table[r]))
      <3>1. i - Len(table[r]) \in 1 .. Len(new) /\ i \in Len(table[r]) + 1 .. Len(table[r]) + Len(new)
        BY <2>0, <2>2, <2>4
      <3>2. tbl[i] \in taken
        BY <1>3, <2>1, <3>1, ElementsOf DEF taken
      <3>3. i > Len(table[r])
        BY <2>0, <2>2, <2>4
      <3> QED
        BY <1>3, <3>2, <3>3
    <2> QED
      BY <2>3, <2>4
  <1> HIDE DEF hs, ca, refs
  <1>10. /\ HashedLead(hs, tbl)
         /\ HashesAreOwn(hs, tbl, tokens[r], computed[r])
    <2>0. HashedLead(hash, table[r]) /\ HashesAreOwn(hash, table[r], tokens[r], computed[r])
          /\ DOMAIN table[r] = 1 .. Len(table[r]) /\ Len(table[r]) \in Nat
          /\ DOMAIN tbl = 1 .. Len(tbl) /\ Len(tbl) \in Nat
      BY <1>1, <1>3 DEF TableFits
    <2>1. HashedLead(hs, tbl)
      <3> SUFFICES ASSUME NEW i \in DOMAIN tbl, NEW j \in DOMAIN tbl,
                          i < j, hs[tbl[j]] # <<>>
                   PROVE  hs[tbl[i]] # <<>>
        BY DEF HashedLead
      <3>1. j \in DOMAIN table[r] /\ hs[tbl[j]] = hash[table[r][j]]
        BY <1>9
      <3>2. i \in DOMAIN table[r] /\ ~(i > Len(table[r]))
        BY <2>0, <3>1
      <3>3. hs[tbl[i]] = hash[table[r][i]]
        BY <1>9, <3>2
      <3> QED
        BY <2>0, <3>1, <3>2, <3>3 DEF HashedLead
    <2>2. HashesAreOwn(hs, tbl, tokens[r], computed[r])
      BY <1>9, <2>0 DEF HashesAreOwn
    <2> QED
      BY <2>1, <2>2
  <1>11. /\ IndexTypes(hash', cached', blockOf')
         /\ IndexMatches(hash', cached', blockOf')
         /\ HashedLead(hash', tbl)
         /\ HashesAreOwn(hash', tbl, tokens[r], computed[r])
         /\ \A b \in BlockIds : hs[b] # <<>> => hash'[b] = hs[b]
         /\ \A b \in BlockIds : b \notin Elements(tbl) => hash'[b] = hs[b]
         /\ prefixCaching' = prefixCaching
    <2>1. tokens[r] \in Seq(Tokens) /\ computed[r] \in Nat /\ computed[r] <= Len(tokens[r])
      BY <1>1 DEF TableFits
    <2> QED
      BY <1>3, <1>4, <1>7, <1>8, <1>10, <2>1, PublishFacts
  <1>12. computed[r] + n \in Nat /\ computed' \in [Requests -> Nat] /\ computed'[r] = computed[r] + n
         /\ \A s \in Requests : s # r => computed'[s] = computed[s]
    BY <1>1
  <1>13. CacheTypes' /\ IndexMatchesBlocks'
    BY <1>1, <1>3, <1>11, <1>12
       DEF CacheTypes, KVTypeOK, IndexTypes, IndexMatches, IndexMatchesBlocks
  <1>14. ASSUME NEW s \in Requests, s # r
         PROVE  \A b \in Elements(table[s]) : hash'[b] = hash[b]
    <2> TAKE b \in Elements(table[s])
    <2>1. b \in BlockIds /\ b \notin taken /\ hs[b] = hash[b]
      BY <1>5
    <2>2. CASE b \in Elements(table[r])
      BY <1>1, <1>11, <1>14, <2>1, <2>2 DEF SharedAreHashed
    <2>3. CASE b \notin Elements(table[r])
      BY <1>3, <1>11, <2>1, <2>3
    <2> QED
      BY <2>2, <2>3
  <1>15. ASSUME NEW s \in Requests PROVE TableFits(s)'
    <2>1. CASE s = r
      <3>1. table'[r] = tbl
        BY <1>1, <1>3
      <3>2. Len(tbl) = BlocksFor(computed[r] + n)
        BY <1>2, <1>3, <1>21
      <3>3. HashesAreOwn(hash', tbl, tokens[r], computed[r] + n)
        <4>1. \A i \in DOMAIN tbl : i * BlockSize \in Int
          BY <1>3, KVCacheAssumption
        <4>2. computed[r] \in Nat /\ n \in Nat
          BY <1>1
        <4> QED
          BY <1>11, <4>1, <4>2 DEF HashesAreOwn
      <3> QED
        BY <1>11, <1>12, <2>1, <3>1, <3>2, <3>3 DEF TableFits
    <2>2. CASE s # r
      <3>1. table'[s] = table[s] /\ computed'[s] = computed[s] /\ tokens'[s] = tokens[s]
        BY <1>1, <1>3, <1>12, <2>2
      <3>2. table[s] \in Seq(BlockIds) /\ \A b \in Elements(table[s]) : hash'[b] = hash[b]
        BY <1>1, <1>14, <2>2
      <3>3. HashedLead(hash', table[s])
            /\ HashesAreOwn(hash', table[s], tokens[s], computed[s])
        BY <1>1, <3>2, SameHashes DEF TableFits
      <3> QED
        BY <1>1, <3>1, <3>3 DEF TableFits
    <2> QED
      BY <2>1, <2>2
  <1>16. SharedAreHashed'
    <2> SUFFICES ASSUME NEW s \in Requests, NEW t \in Requests, s # t, NEW b \in BlockIds,
                        b \in Elements(table'[s]), b \in Elements(table'[t])
                 PROVE  hash'[b] # <<>>
      BY DEF SharedAreHashed, Elements
    <2>1. \A u \in Requests : table'[u] = IF u = r THEN tbl ELSE table[u]
      BY <1>1, <1>3
    <2>2. b \notin taken
      BY <1>5, <2>1
    <2>3. b \in Elements(table[s]) /\ b \in Elements(table[t])
      BY <1>3, <2>1, <2>2
    <2>4. hash[b] # <<>> /\ hs[b] = hash[b]
      BY <1>1, <1>5, <2>3 DEF SharedAreHashed
    <2> QED
      BY <1>11, <2>4
  <1>17. CacheInv'
    BY <1>3, <1>13, <1>15, <1>16 DEF CacheInv
  <1>18. table'[r] = tbl /\ OthersKept(r, table, table', hash, hash')
    BY <1>1, <1>3, <1>14 DEF OthersKept
  <1>19. /\ Len(table[r]) <= Len(tbl)
         /\ \A i \in DOMAIN table[r] : i \in DOMAIN tbl /\ tbl[i] = table[r][i]
    <2>1. tbl \in Seq(BlockIds)
      BY <1>20, ConcatFacts DEF tbl
    <2> HIDE DEF tbl
    <2>2. DOMAIN tbl = 1 .. Len(tbl) /\ DOMAIN table[r] = 1 .. Len(table[r])
      BY <1>20, <2>1
    <2>3. Len(table[r]) <= Len(tbl)
      BY <1>20, <1>21
    <2>4. \A i \in 1 .. Len(table[r]) : i \in 1 .. Len(tbl) /\ tbl[i] = table[r][i]
      BY <1>20, <1>21, <2>3
    <2> QED
      BY <2>2, <2>3, <2>4
  <1>22. PublishedOnly(hash, hash', table[r], tokens[r], computed[r])
    <2> SUFFICES ASSUME NEW b \in BlockIds, hash'[b] # hash[b], hash'[b] # <<>>
                 PROVE  \E i \in DOMAIN table[r] :
                           /\ table[r][i] = b /\ i * BlockSize <= computed[r]
                           /\ hash'[b] = SubSeq(tokens[r], 1, i * BlockSize)
      BY DEF PublishedOnly
    <2>1. b \in Elements(tbl)
      BY <1>11 DEF hs
    <2>2. PICK i \in DOMAIN tbl : tbl[i] = b
      BY <2>1 DEF Elements
    <2>3. /\ i * BlockSize <= computed[r]
          /\ hash'[b] = SubSeq(tokens[r], 1, i * BlockSize)
      BY <1>11, <2>2 DEF HashesAreOwn
    <2>4. i \in 1 .. Len(table[r])
      <3>1. computed[r] \in Nat /\ Len(table[r]) = BlocksFor(computed[r]) /\ i \in Nat \ {0}
        <4>1. computed[r] \in Nat /\ Len(table[r]) = BlocksFor(computed[r])
          BY <1>1 DEF TableFits
        <4>2. tbl \in Seq(BlockIds)
          BY <1>20, ConcatFacts DEF tbl
        <4>3. i \in Nat \ {0}
          <5> HIDE DEF tbl
          <5> QED
            BY <4>2
        <4> QED
          BY <4>1, <4>3
      <3>2. i <= computed[r] \div BlockSize
        BY <2>3, <3>1, FullBlocks
      <3>3. computed[r] \div BlockSize <= BlocksFor(computed[r]) /\ computed[r] \div BlockSize \in Nat
        BY <3>1, BlocksForFacts, Division
      <3> QED
        BY <1>20, <3>1, <3>2, <3>3
    <2>5. i \in DOMAIN table[r] /\ table[r][i] = b
      BY <1>20, <1>21, <2>2, <2>4
    <2> QED
      BY <2>3, <2>5
  <1> QED
    BY <1>11, <1>17, <1>18, <1>19, <1>22

\* A request without blocks gets those that hold its first tokens.
LEMMA ReuseCache ==
    ASSUME CacheInv, NEW r \in Requests, tokens[r] # <<>>, computed[r] = 0,
           ReusePrefix(r, tokens[r]),
           computed' = [computed EXCEPT ![r] = NumReused(tokens[r])], tokens' = tokens
    PROVE  /\ CacheInv' /\ hash' = hash
           /\ table'[r] = Matched(tokens[r])
           /\ OthersKept(r, table, table', hash, hash')
           /\ NumReused(tokens[r]) \in Nat /\ NumReused(tokens[r]) < Len(tokens[r])
           /\ \A i \in DOMAIN table'[r] :
                 /\ hash[table'[r][i]] = SubSeq(tokens[r], 1, i * BlockSize)
                 /\ hash[table'[r][i]] # <<>>
  <1> DEFINE toks == tokens[r]
             ma == Matched(toks)
  <1>1. /\ KVTypeOK /\ BlocksAccountedFor /\ IndexMatchesBlocks /\ SharedAreHashed
        /\ <<>> \notin DOMAIN blockOf
        /\ table \in [Requests -> Seq(BlockIds)]
        /\ tokens \in [Requests -> Seq(Tokens)] /\ toks \in Seq(Tokens)
        /\ computed \in [Requests -> Nat]
        /\ \A s \in Requests : TableFits(s)
    BY DEF CacheInv, CacheTypes, KVTypeOK
  <1>2. table[r] = <<>>
    <2>1. Len(table[r]) = 0 /\ table[r] \in Seq(BlockIds)
      BY <1>1, BlocksForFacts DEF TableFits
    <2> QED
      BY <2>1, EmptySeq
  <1>3. /\ ma \in Seq(BlockIds) /\ Injective(ma)
        /\ NumReused(toks) \in Nat /\ NumReused(toks) < Len(toks)
        /\ BlocksFor(NumReused(toks)) = Len(ma)
        /\ \A i \in 1 .. Len(ma) :
              /\ i * BlockSize <= NumReused(toks)
              /\ hash[ma[i]] = SubSeq(toks, 1, i * BlockSize)
              /\ hash[ma[i]] # <<>>
    BY <1>1, MatchedFacts
  <1>4. /\ free' \in Seq(BlockIds) /\ refCount' \in [BlockIds -> Int]
        /\ table' \in [Requests -> Seq(BlockIds)]
        /\ table' = [table EXCEPT ![r] = ma]
        /\ BlocksAccountedFor'
    BY <1>1, <1>2, <1>3, ReuseAccounts
  <1> HIDE DEF ma, toks
  <1>5. UNCHANGED <<prefixCaching, hash, cached, blockOf>>
    BY DEF ReusePrefix
  <1>6. \A s \in Requests : computed'[s] = IF s = r THEN NumReused(toks) ELSE computed[s]
    BY <1>1 DEF toks
  <1>7. CacheTypes' /\ IndexMatchesBlocks'
    <2>1. computed' \in [Requests -> Nat]
      BY <1>1, <1>3 DEF toks
    <2> QED
      BY <1>1, <1>4, <1>5, <2>1 DEF CacheTypes, KVTypeOK, IndexMatchesBlocks
  <1>8. ASSUME NEW s \in Requests PROVE TableFits(s)'
    <2>1. CASE s = r
      <3>1. table'[s] = ma /\ computed'[s] = NumReused(toks) /\ tokens'[s] = toks
        BY <1>1, <1>4, <1>6, <2>1 DEF toks
      <3>2. DOMAIN ma = 1 .. Len(ma)
        BY <1>3
      <3>3. HashedLead(hash, ma) /\ HashesAreOwn(hash, ma, toks, NumReused(toks))
        BY <1>3, <3>2 DEF HashedLead, HashesAreOwn
      <3>4. NumReused(toks) <= Len(toks)
        BY <1>1, <1>3
      <3> QED
        BY <1>3, <1>5, <3>1, <3>3, <3>4 DEF TableFits
    <2>2. CASE s # r
      <3>1. table'[s] = table[s] /\ computed'[s] = computed[s] /\ tokens'[s] = tokens[s]
        BY <1>1, <1>4, <1>6, <2>2
      <3> QED
        BY <1>1, <1>5, <3>1 DEF TableFits
    <2> QED
      BY <2>1, <2>2
  <1>9. SharedAreHashed'
    <2> SUFFICES ASSUME NEW s \in Requests, NEW t \in Requests, s # t, NEW b \in BlockIds,
                        b \in Elements(table'[s]), b \in Elements(table'[t])
                 PROVE  hash'[b] # <<>>
      BY DEF SharedAreHashed, Elements
    <2>1. \A u \in Requests : table'[u] = IF u = r THEN ma ELSE table[u]
      BY <1>1, <1>4
    <2>2. \A c \in Elements(ma) : hash[c] # <<>>
      BY <1>3, ElementsOf
    <2>3. CASE s = r \/ t = r
      BY <1>5, <2>1, <2>2, <2>3
    <2>4. CASE s # r /\ t # r
      BY <1>1, <1>5, <2>1, <2>4 DEF SharedAreHashed
    <2> QED
      BY <2>3, <2>4
  <1>10. CacheInv'
    BY <1>4, <1>7, <1>8, <1>9 DEF CacheInv
  <1>11. table'[r] = ma /\ OthersKept(r, table, table', hash, hash')
    BY <1>1, <1>4, <1>5 DEF OthersKept
  <1>12. \A i \in DOMAIN ma : /\ hash[ma[i]] = SubSeq(toks, 1, i * BlockSize)
                              /\ hash[ma[i]] # <<>>
    BY <1>3
  <1> QED
    BY <1>3, <1>5, <1>10, <1>11, <1>12 DEF ma, toks

\* What the bookkeeping says is about the cache's own variables.
LEMMA KeepCacheParts ==
    ASSUME UNCHANGED <<free, refCount, table, hash, cached, blockOf>>
    PROVE  /\ BlocksAccountedFor => BlocksAccountedFor'
           /\ IndexMatchesBlocks => IndexMatchesBlocks'
           /\ SharedAreHashed => SharedAreHashed'
  <1>1. \A b : Holders(b)' = Holders(b)
    BY DEF Holders, Elements
  <1>2. BlocksAccountedFor => BlocksAccountedFor'
    <2> SUFFICES ASSUME BlocksAccountedFor PROVE BlocksAccountedFor'
      OBVIOUS
    <2>1. Elements(free)' = Elements(free)
      BY DEF Elements
    <2>2. \A b \in BlockIds : refCount'[b] = Cardinality(Holders(b)')
      BY <1>1 DEF BlocksAccountedFor
    <2>3. Elements(free)' = {b \in BlockIds : Holders(b)' = {}}
      BY <1>1, <2>1 DEF BlocksAccountedFor
    <2> QED
      BY <2>2, <2>3 DEF BlocksAccountedFor
  <1>3. IndexMatchesBlocks => IndexMatchesBlocks'
    BY DEF IndexMatchesBlocks
  <1>4. SharedAreHashed => SharedAreHashed'
    BY DEF SharedAreHashed, Elements
  <1> QED
    BY <1>2, <1>3, <1>4

\* The tokens a request has computed may not change; the others may.
LEMMA TokensCache ==
    ASSUME CacheInv, NEW r \in Requests, NEW toks \in Seq(Tokens),
           computed[r] <= Len(toks),
           \A m \in 1 .. computed[r] : SubSeq(toks, 1, m) = SubSeq(tokens[r], 1, m),
           UNCHANGED <<kvVars, computed>>, tokens' = [tokens EXCEPT ![r] = toks]
    PROVE  CacheInv'
  <1>1. /\ UNCHANGED <<prefixCaching, free, refCount, table, hash, cached, blockOf, computed>>
        /\ tokens \in [Requests -> Seq(Tokens)]
        /\ \A s \in Requests : tokens'[s] = IF s = r THEN toks ELSE tokens[s]
    BY DEF kvVars, CacheInv, CacheTypes
  <1>2. /\ CacheTypes' /\ BlocksAccountedFor' /\ IndexMatchesBlocks' /\ SharedAreHashed'
    <2>1. CacheTypes'
      BY <1>1 DEF CacheInv, CacheTypes, KVTypeOK
    <2> QED
      BY <1>1, <2>1, KeepCacheParts DEF CacheInv
  <1>3. ASSUME NEW s \in Requests PROVE TableFits(s)'
    <2>0. TableFits(s)
      BY DEF CacheInv
    <2>1. CASE s = r
      <3>0. /\ table[s] \in Seq(BlockIds) /\ computed[s] \in Nat
        BY DEF CacheInv, CacheTypes, KVTypeOK
      <3>1. HashesAreOwn(hash, table[s], toks, computed[s])
        <4> SUFFICES ASSUME NEW i \in DOMAIN table[s], hash[table[s][i]] # <<>>
                     PROVE  /\ i * BlockSize <= computed[s]
                            /\ hash[table[s][i]] = SubSeq(toks, 1, i * BlockSize)
          BY DEF HashesAreOwn
        <4>1. /\ i * BlockSize <= computed[s]
              /\ hash[table[s][i]] = SubSeq(tokens[s], 1, i * BlockSize)
          BY <2>0 DEF TableFits, HashesAreOwn
        <4>2. i \in Nat \ {0}
          BY <3>0
        <4>3. i * BlockSize \in Nat \ {0}
          BY <4>2, KVCacheAssumption
        <4> QED
          BY <2>1, <3>0, <4>1, <4>3
      <3> QED
        BY <1>1, <2>0, <2>1, <3>1 DEF TableFits
    <2>2. CASE s # r
      BY <1>1, <2>0, <2>2 DEF TableFits
    <2> QED
      BY <2>1, <2>2
  <1> QED
    BY <1>2, <1>3 DEF CacheInv

\* A new token changes no beginning of the sequence.
LEMMA AppendedTokens ==
    ASSUME NEW toks \in Seq(Tokens), NEW t \in Tokens
    PROVE  /\ Append(toks, t) \in Seq(Tokens) /\ Len(Append(toks, t)) = Len(toks) + 1
           /\ \A m \in 1 .. Len(toks) :
                 SubSeq(Append(toks, t), 1, m) = SubSeq(toks, 1, m)
  <1>1. /\ Append(toks, t) \in Seq(Tokens) /\ Len(Append(toks, t)) = Len(toks) + 1
        /\ \A i \in 1 .. Len(toks) : Append(toks, t)[i] = toks[i]
        /\ Len(toks) \in Nat
    OBVIOUS
  <1>2. ASSUME NEW m \in 1 .. Len(toks)
        PROVE  SubSeq(Append(toks, t), 1, m) = SubSeq(toks, 1, m)
    <2> DEFINE p == SubSeq(Append(toks, t), 1, m)
               s == SubSeq(toks, 1, m)
    <2>1. p \in Seq(Tokens) /\ Len(p) = m /\ \A i \in 1 .. m : p[i] = Append(toks, t)[i]
      BY <1>1, SubSeqProperties
    <2>2. s \in Seq(Tokens) /\ Len(s) = m /\ \A i \in 1 .. m : s[i] = toks[i]
      BY <1>1, SubSeqProperties
    <2> HIDE DEF p, s
    <2>3. \A i \in 1 .. m : p[i] = s[i]
      BY <1>1, <2>1, <2>2
    <2>4. p = s
      BY <2>1, <2>2, <2>3, SeqEqual
    <2> QED
      BY <2>4 DEF p, s
  <1> QED
    BY <1>1, <1>2

\* A step of the scheduler alone keeps the cache's invariant.
LEMMA KeepCache ==
    ASSUME CacheInv, UNCHANGED <<kvVars, computed, tokens>>
    PROVE  CacheInv'
  <1>1. UNCHANGED <<prefixCaching, free, refCount, table, hash, cached, blockOf>>
    BY DEF kvVars
  <1>2. BlocksAccountedFor' /\ IndexMatchesBlocks' /\ SharedAreHashed'
    BY <1>1, KeepCacheParts DEF CacheInv
  <1>3. CacheTypes'
    BY <1>1 DEF CacheInv, CacheTypes, KVTypeOK
  <1>4. (\A r \in Requests : TableFits(r))'
    BY <1>1 DEF CacheInv, TableFits
  <1> QED
    BY <1>2, <1>3, <1>4 DEF CacheInv

-----------------------------------------------------------------------------
(***************************************************************************)
(* Scheduler and cache together.                                           *)
(***************************************************************************)

-----------------------------------------------------------------------------
(* Queues that grow and shrink by one *)

\* A queue with one more at its end.
LEMMA AppendFacts ==
    ASSUME NEW S, NEW q \in Seq(S), NEW x \in S
    PROVE  /\ Append(q, x) \in Seq(S) /\ Len(Append(q, x)) = Len(q) + 1
           /\ \A i \in 1 .. Len(q) : Append(q, x)[i] = q[i]
           /\ Append(q, x)[Len(q) + 1] = x
           /\ Elements(Append(q, x)) = Elements(q) \cup {x}
  <1> DEFINE one == <<x>>
  <1>1. /\ Append(q, x) = q \o one /\ one \in Seq(S)
        /\ Elements(one) = {x}
    BY DEF Elements
  <1>2. /\ Append(q, x) \in Seq(S) /\ Len(Append(q, x)) = Len(q) + 1
        /\ \A i \in 1 .. Len(q) : Append(q, x)[i] = q[i]
        /\ Append(q, x)[Len(q) + 1] = x
    OBVIOUS
  <1> HIDE DEF one
  <1>3. Elements(q \o one) = Elements(q) \cup Elements(one)
    BY <1>1, ConcatFacts
  <1> QED
    BY <1>1, <1>2, <1>3

\* A queue without its head.
LEMMA TailFacts ==
    ASSUME NEW S, NEW q \in Seq(S), q # <<>>
    PROVE  /\ Head(q) \in Elements(q) /\ Head(q) \in S
           /\ Tail(q) \in Seq(S)
           /\ Elements(q) = Elements(Tail(q)) \cup {Head(q)}
           /\ Injective(q) => Head(q) \notin Elements(Tail(q)) /\ Injective(Tail(q))
  <1>1. /\ Len(q) \in Nat \ {0} /\ Head(q) = q[1] /\ Tail(q) \in Seq(S)
        /\ Len(Tail(q)) = Len(q) - 1
        /\ \A i \in 1 .. Len(q) - 1 : Tail(q)[i] = q[i + 1]
    BY EmptySeq
  <1>2. Head(q) \in Elements(q) /\ Head(q) \in S
    BY <1>1, ElementsOf
  <1>3. ASSUME NEW x \in Elements(Tail(q))
        PROVE  \E i \in 1 .. Len(q) - 1 : x = q[i + 1] /\ i + 1 \in 1 .. Len(q)
    <2>1. PICK i \in DOMAIN Tail(q) : x = Tail(q)[i]
      BY <1>3 DEF Elements
    <2>2. i \in 1 .. Len(q) - 1
      BY <1>1, <2>1
    <2>3. i + 1 \in 1 .. Len(q)
      BY <1>1, <2>2
    <2> QED
      BY <1>1, <2>1, <2>2, <2>3
  <1>4. Elements(q) = Elements(Tail(q)) \cup {Head(q)}
    <2>1. Elements(Tail(q)) \subseteq Elements(q)
      BY <1>3, ElementsOf
    <2>2. ASSUME NEW x \in Elements(q), x # Head(q) PROVE x \in Elements(Tail(q))
      <3>1. PICK i \in 1 .. Len(q) : q[i] = x
        BY <2>2, ElementsOf
      <3>2. i - 1 \in 1 .. Len(q) - 1 /\ (i - 1) + 1 = i
        BY <1>1, <2>2, <3>1
      <3>3. Tail(q)[i - 1] = x /\ i - 1 \in 1 .. Len(Tail(q))
        BY <1>1, <3>1, <3>2
      <3> QED
        BY <1>1, <3>3, ElementsOf
    <2> QED
      BY <1>2, <2>1, <2>2
  <1>5. ASSUME Injective(q) PROVE Head(q) \notin Elements(Tail(q))
    <2>1. \A i, j \in 1 .. Len(q) : q[i] = q[j] => i = j
      BY <1>5 DEF Injective
    <2> QED
      BY <1>1, <1>3, <2>1
  <1>6. ASSUME Injective(q) PROVE Injective(Tail(q))
    <2>1. \A i, j \in 1 .. Len(q) : q[i] = q[j] => i = j
      BY <1>6 DEF Injective
    <2> SUFFICES ASSUME NEW i \in 1 .. Len(q) - 1, NEW j \in 1 .. Len(q) - 1,
                        Tail(q)[i] = Tail(q)[j]
                 PROVE  i = j
      BY <1>1 DEF Injective
    <2>2. i + 1 \in 1 .. Len(q) /\ j + 1 \in 1 .. Len(q) /\ q[i + 1] = q[j + 1]
      BY <1>1
    <2> QED
      BY <2>1, <2>2
  <1> QED
    BY <1>1, <1>2, <1>4, <1>5, <1>6

\* Erasing a request shortens its queue at most by one.
LEMMA WithoutLength ==
    ASSUME NEW q \in Seq(Requests), NEW r
    PROVE  Len(Without(q, r)) <= Len(q)
  <1>1. CASE ~\E k \in DOMAIN q : q[k] = r
    BY <1>1 DEF Without
  <1>2. CASE \E k \in DOMAIN q : q[k] = r
    <2> DEFINE k == CHOOSE i \in DOMAIN q : q[i] = r
               w == [i \in 1 .. Len(q) - 1 |-> IF i < k THEN q[i] ELSE q[i + 1]]
    <2>1. Without(q, r) = w
      BY <1>2 DEF Without
    <2>2. Len(q) - 1 \in Nat
      BY <1>2
    <2>3. Len(w) = Len(q) - 1
      BY <2>2
    <2> QED
      BY <2>1, <2>2, <2>3
  <1> QED
    BY <1>1, <1>2

\* Erasing the last request of a queue leaves the others in their places.
LEMMA WithoutLast ==
    ASSUME NEW q \in Seq(Requests), q # <<>>, Sorted(q)
    PROVE  /\ Len(Without(q, q[Len(q)])) = Len(q) - 1
           /\ \A i \in 1 .. Len(q) - 1 : Without(q, q[Len(q)])[i] = q[i]
  <1> DEFINE n == Len(q)
             k == CHOOSE i \in DOMAIN q : q[i] = q[n]
             w == [i \in 1 .. n - 1 |-> IF i < k THEN q[i] ELSE q[i + 1]]
  <1>1. n \in Nat \ {0} /\ n \in DOMAIN q /\ DOMAIN q = 1 .. n
    BY EmptySeq
  <1>2. k \in 1 .. n /\ q[k] = q[n]
    BY <1>1
  <1>3. Without(q, q[n]) = w
    BY <1>1 DEF Without
  <1> HIDE DEF k
  <1>4. k = n
    <2>0. q[k] \in Requests /\ q[n] \in Requests
      BY <1>1, <1>2
    <2>1. q[k] \in Nat /\ q[n] \in Nat
      BY <2>0, RequestsAreIntegers
    <2>2. k < n => q[k] < q[n]
      BY <1>1, <1>2 DEF Sorted
    <2>3. ~(q[k] < q[n])
      BY <1>2, <2>1
    <2> HIDE DEF n
    <2> QED
      BY <1>1, <1>2, <2>2, <2>3
  <1> QED
    BY <1>1, <1>3, <1>4

-----------------------------------------------------------------------------
(* The scheduler's use of the cache *)

RestTypes ==
    /\ numPrompt \in [Requests -> Nat]
    /\ numPrefill \in [Requests -> Nat]
    /\ params \in [Requests -> [maxOutput : Nat, ignoreEos : BOOLEAN]]
    /\ outcome \in [Requests -> Outcomes]
    /\ pc \in PCs
    /\ idle \in BOOLEAN
    /\ budget \in 0 .. MaxScheduledTokens
    /\ preemptedBefore \in Nat
    /\ scheduled \in Seq(Entries)
    /\ sampled \in Seq(Requests)
    /\ kv \in [Slots -> Seq(Tokens)]

\* Only running requests, and the one under admission, hold blocks; the batch
\* stays within its requests' tokens, and is gone once it was computed.
RunInv ==
    /\ RestTypes
    /\ \A r \in live : tokens[r] # <<>>
    /\ \A r \in Requests : computed[r] # 0 =>
          r \in Elements(running) \/ (pc = "admit" /\ r = Candidate)
    /\ \A i \in DOMAIN scheduled :
          scheduled[i].offset + scheduled[i].len <= Len(tokens[scheduled[i].req])
    /\ pc \in {"inputs", "update"} => scheduled = <<>>

\* The batch is the first part of the running queue: pass 1 walks along it,
\* pass 2 lengthens both.  Sampled requests are running ones, each once.
BatchInv ==
    /\ Len(running) <= MaxNumSeqs
    /\ Len(scheduled) <= Len(running)
    /\ \A i \in 1 .. Len(scheduled) : scheduled[i].req = running[i]
    /\ pc = "pass1" => cursor = Len(scheduled) + 1
    /\ pc \in {"pass2", "admit"} /\ HasRoom => Len(scheduled) = Len(running)
    /\ pc = "admit" => HasRoom
    /\ pc # "update" => sampled = <<>>
    /\ Elements(sampled) \subseteq Elements(running)
    /\ Injective(sampled)

EngineInv == IInv /\ BatchInv /\ CacheInv /\ RunInv

\* An engine without requests.
LEMMA EngineInitInv == Init => EngineInv
  <1> SUFFICES ASSUME Init PROVE EngineInv
    OBVIOUS
  <1> USE KVCacheAssumption, SchedulerAssumption DEF Init, KVInit
  <1>1. table \in [Requests -> Seq(BlockIds)] /\ \A r \in Requests : table[r] = <<>>
    OBVIOUS
  <1>2. \A r \in Requests : computed[r] = 0 /\ tokens[r] = <<>>
    OBVIOUS
  <1>3. /\ free \in Seq(BlockIds) /\ Len(free) = NumBlocks
        /\ \A i \in 1 .. NumBlocks : free[i] = i - 1
    BY DEF BlockIds
  <1>4. CacheTypes
    BY <1>3 DEF CacheTypes, KVTypeOK
  <1>5. BlocksAccountedFor
    <2>1. \A b : Holders(b) = {}
      BY <1>1, ElementsOfEmpty DEF Holders
    <2>2. \A b \in BlockIds : refCount[b] = Cardinality(Holders(b))
      BY <2>1, FS_EmptySet
    <2>3. \A b \in BlockIds : b + 1 \in 1 .. NumBlocks /\ free[b + 1] = b
      BY <1>3 DEF BlockIds
    <2>4. Elements(free) = BlockIds
      <3>1. Elements(free) \subseteq BlockIds
        BY <1>3, ElementsOf
      <3>2. \A b \in BlockIds : b \in Elements(free)
        <4>1. DOMAIN free = 1 .. NumBlocks
          BY <1>3
        <4> QED
          BY <2>3, <4>1 DEF Elements
      <3> QED
        BY <3>1, <3>2
    <2>5. Elements(free) = {b \in BlockIds : Holders(b) = {}}
      BY <2>1, <2>4
    <2>6. \A i, j \in DOMAIN free : free[i] = free[j] => i = j
      BY <1>3
    <2>7. \A r \in Requests : \A i, j \in DOMAIN table[r] : table[r][i] = table[r][j] => i = j
      BY <1>1
    <2> QED
      BY <2>2, <2>5, <2>6, <2>7 DEF BlocksAccountedFor
  <1>6. IndexMatchesBlocks
    BY DEF IndexMatchesBlocks
  <1>7. \A r \in Requests : TableFits(r)
    BY <1>1, <1>2, EmptyTable DEF TableFits
  <1>8. SharedAreHashed
    BY <1>1, ElementsOfEmpty DEF SharedAreHashed
  <1>9. RunInv
    <2>1. RestTypes
      BY DEF RestTypes, NoParams, Outcomes, PCs
    <2> QED
      BY <1>2, <2>1 DEF RunInv
  <1>10. BatchInv
    BY ElementsOfEmpty DEF BatchInv
  <1> QED
    BY <1>4, <1>5, <1>6, <1>7, <1>8, <1>9, <1>10, InitIInv DEF EngineInv, CacheInv

\* The types of the state and what the queues say of it.
LEMMA EngineTypes ==
    ASSUME EngineInv
    PROVE  /\ running \in Seq(Requests) /\ preempted \in Seq(Requests)
           /\ waiting \in Seq(Requests)
           /\ tokens \in [Requests -> Seq(Tokens)] /\ computed \in [Requests -> Nat]
           /\ table \in [Requests -> Seq(BlockIds)] /\ hash \in [BlockIds -> Seq(Tokens)]
           /\ status \in [Requests -> Statuses]
           /\ live \subseteq Requests /\ numAdded \in Nat
           /\ live \subseteq 1 .. numAdded
           /\ Elements(running) \cup Elements(preempted) \cup Elements(waiting) = live
           /\ \A r \in Requests : TableFits(r)
  <1>1. IInv /\ CacheInv /\ CacheTypes /\ KVTypeOK /\ Queues /\ Ordered
    BY DEF EngineInv, CacheInv, CacheTypes, IInv
  <1>2. numAdded \in Nat /\ 1 .. numAdded \subseteq Requests
    BY <1>1, KVCacheAssumption DEF Queues, Requests
  <1> QED
    BY <1>1, <1>2 DEF Queues, Ordered, CacheInv, CacheTypes, KVTypeOK

\* The candidate is next in line: live, not running and without blocks.
LEMMA CandidateFacts ==
    ASSUME EngineInv, preempted # <<>> \/ waiting # <<>>
    PROVE  /\ Candidate \in live /\ Candidate \in Requests
           /\ Candidate \notin Elements(running)
           /\ pc # "admit" => computed[Candidate] = 0
  <1>1. /\ preempted = <<>> => waiting # <<>> /\ Candidate = Head(waiting)
        /\ preempted # <<>> => Candidate = Head(preempted)
    BY DEF Candidate
  <1>2. \A q \in Seq(Requests) : q # <<>> => Head(q) \in Elements(q)
    <2> SUFFICES ASSUME NEW q \in Seq(Requests), q # <<>> PROVE Head(q) \in Elements(q)
      OBVIOUS
    <2>1. Head(q) = q[1] /\ 1 \in 1 .. Len(q)
      BY EmptySeq
    <2> QED
      BY <2>1, ElementsOf
  <1>3. Candidate \in Elements(preempted) \cup Elements(waiting)
    BY <1>1, <1>2, EngineTypes
  <1>4. Candidate \in live /\ Candidate \in Requests
    BY <1>3, EngineTypes
  <1>5. Candidate \notin Elements(running)
    BY <1>3 DEF EngineInv, IInv, StatusOfElements
  <1> QED
    BY <1>4, <1>5 DEF EngineInv, RunInv

\* A chunk is a part of what the request has left.
LEMMA ChunkFacts ==
    ASSUME EngineInv, NEW r \in Requests
    PROVE  /\ ChunkLen(r) \in Nat /\ ChunkLen(r) <= budget
           /\ computed[r] + ChunkLen(r) <= Len(tokens[r])
           /\ computed[r] \in Nat /\ Len(tokens[r]) \in Nat /\ budget \in Nat
           /\ ChunkLen(r) = Len(tokens[r]) - computed[r] \/ ChunkLen(r) = budget
  <1>1. /\ tokens[r] \in Seq(Tokens) /\ computed[r] \in Nat
        /\ computed[r] <= Len(tokens[r])
    BY EngineTypes DEF TableFits
  <1>2. budget \in Nat
    BY SchedulerAssumption DEF EngineInv, RunInv, RestTypes
  <1>3. Len(tokens[r]) \in Nat
    BY <1>1
  <1> QED
    BY <1>1, <1>2, <1>3 DEF ChunkLen, Least

-----------------------------------------------------------------------------
(* Each action keeps the accounts, the index and the types. *)

\* What every action but two leaves alone.
LEMMA SameTypes ==
    ASSUME RestTypes, UNCHANGED <<numPrompt, params, outcome, idle, kv>>,
           numPrefill' \in [Requests -> Nat], pc' \in PCs,
           budget' \in 0 .. MaxScheduledTokens, preemptedBefore' \in Nat,
           scheduled' \in Seq(Entries), sampled' \in Seq(Requests)
    PROVE  RestTypes'
  BY DEF RestTypes

\* When the forward pass has run, the batch is gone.
LEMMA EmptyBatch ==
    ASSUME scheduled' = <<>>, running' \in Seq(Requests), Len(running') <= MaxNumSeqs,
           pc' \in {"inputs", "update"}, pc' = "inputs" => sampled' = <<>>,
           Elements(sampled') \subseteq Elements(running'), Injective(sampled')
    PROVE  BatchInv'
  <1>1. Len(scheduled') = 0 /\ 1 .. Len(scheduled') = {} /\ 0 <= Len(running')
    OBVIOUS
  <1>2. Elements(sampled)' \subseteq Elements(running)' /\ Injective(sampled)'
    BY DEF Elements, Injective
  <1> QED
    BY <1>1, <1>2 DEF BatchInv

\* A step that leaves the batch alone.
LEMMA KeepBatch ==
    ASSUME BatchInv, UNCHANGED <<running, scheduled, sampled, pc, cursor, budget>>
    PROVE  BatchInv'
  BY DEF BatchInv, HasRoom, Elements, Injective

\* add_request
LEMMA AddEngine ==
    ASSUME EngineInv, NEW p \in Prompts, NEW m \in MaxOutputs, NEW e \in IgnoreEos,
           AddRequest(p, m, e)
    PROVE  CacheInv' /\ RunInv' /\ BatchInv'
  <1> DEFINE r == numAdded + 1
  <1>1. /\ r \in Requests /\ pc = "inputs" /\ pc' = pc
        /\ live' = live \cup {r}
        /\ tokens' = [tokens EXCEPT ![r] = p]
        /\ computed' = [computed EXCEPT ![r] = 0]
        /\ numPrompt' = [numPrompt EXCEPT ![r] = Len(p)]
        /\ numPrefill' = [numPrefill EXCEPT ![r] = Len(p)]
        /\ params' = [params EXCEPT ![r] = [maxOutput |-> m, ignoreEos |-> e]]
        /\ idle' = FALSE
        /\ UNCHANGED <<kvVars, running, preempted, outcome, budget, cursor,
                       preemptedBefore, scheduled, sampled, kv>>
    BY DEF AddRequest, passVars
  <1>2. /\ p \in Seq(Tokens) /\ Len(p) \in Nat /\ p # <<>>
        /\ m \in Nat /\ e \in BOOLEAN
    <2>1. p \in Seq(Tokens) /\ Len(p) >= 1
      BY SchedulerAssumption
    <2> QED
      BY <2>1, SchedulerAssumption
  <1>3. r \notin live
    BY EngineTypes
  <1>4. computed[r] = 0
    BY <1>1, <1>3, EngineTypes DEF EngineInv, RunInv
  <1>5. computed' = computed
    BY <1>1, <1>4, EngineTypes
  <1>6. CacheInv'
    <2>1. computed[r] <= Len(p) /\ \A k \in 1 .. computed[r] : SubSeq(p, 1, k) = SubSeq(tokens[r], 1, k)
      BY <1>2, <1>4
    <2> QED
      BY <1>1, <1>2, <1>5, <2>1, TokensCache DEF EngineInv
  <1>7. RestTypes'
    BY <1>1, <1>2 DEF EngineInv, RunInv, RestTypes
  <1>8. \A s \in live' : tokens'[s] # <<>>
    BY <1>1, <1>2, EngineTypes DEF EngineInv, RunInv
  <1>9. RunInv'
    BY <1>1, <1>5, <1>7, <1>8 DEF EngineInv, RunInv, Elements
  <1>10. BatchInv'
    BY <1>1, KeepBatch DEF EngineInv
  <1> QED
    BY <1>6, <1>9, <1>10

\* toks is what the request leaves with.
LEMMA RemoveEngine ==
    ASSUME EngineInv, NEW r \in live, NEW toks \in Seq(Tokens),
           computed[r] <= Len(toks), HashesAreOwn(hash, table[r], toks, computed[r]),
           RemoveRequest(r, toks), pc \in {"inputs", "update"},
           UNCHANGED <<pc, passVars, kv>>,
           NEW why \in Outcomes, outcome' = [outcome EXCEPT ![r] = why],
           idle' \in BOOLEAN, sampled' \in Seq(Requests),
           Elements(sampled') \subseteq Elements(running) \ {r}, Injective(sampled'),
           pc = "inputs" => sampled' = <<>>
    PROVE  CacheInv' /\ RunInv' /\ BatchInv'
  <1>1. /\ ReleaseBlocks(r, toks, computed[r])
        /\ live' = live \ {r}
        /\ running' = IF status[r] = "running" THEN Without(running, r) ELSE running
        /\ tokens' = [tokens EXCEPT ![r] = <<>>]
        /\ numPrompt' = [numPrompt EXCEPT ![r] = 0]
        /\ numPrefill' = [numPrefill EXCEPT ![r] = 0]
        /\ computed' = [computed EXCEPT ![r] = 0]
        /\ params' = [params EXCEPT ![r] = NoParams]
        /\ UNCHANGED <<budget, cursor, preemptedBefore, scheduled>>
    BY DEF RemoveRequest, passVars
  <1>2. r \in Requests
    BY EngineTypes
  <1>3. CacheInv'
    <2>1. <<>> \in Seq(Tokens)
      OBVIOUS
    <2> QED
      BY <1>1, <1>2, <2>1, ReleaseCache DEF EngineInv
  <1>4. RestTypes'
    BY <1>1 DEF EngineInv, RunInv, RestTypes, NoParams
  <1>5. \A s \in live' : tokens'[s] # <<>>
    BY <1>1, EngineTypes DEF EngineInv, RunInv
  <1>6. \A s \in Elements(running) : s # r => s \in Elements(running')
    <2>1. running \in Seq(Requests) /\ Sorted(running)
      BY DEF EngineInv, IInv, Queues, Ordered
    <2> QED
      BY <1>1, <2>1, WithoutOfSorted
  <1>7. ASSUME NEW s \in Requests, computed'[s] # 0 PROVE s \in Elements(running')
    <2>1. s # r /\ computed[s] # 0
      BY <1>1, <1>7, EngineTypes
    <2>2. s \in Elements(running)
      BY <2>1 DEF EngineInv, RunInv
    <2> QED
      BY <1>6, <2>1, <2>2
  <1>8. scheduled' = <<>> /\ pc' = pc
    BY <1>1 DEF EngineInv, RunInv
  <1>9. RunInv'
    BY <1>4, <1>5, <1>7, <1>8 DEF RunInv, Elements
  <1>10. BatchInv'
    <2>1. Elements(sampled') \subseteq Elements(running')
      BY <1>6
    <2>2. running \in Seq(Requests) /\ running' \in Seq(Requests)
      <3>1. running \in Seq(Requests) /\ Sorted(running)
        BY DEF EngineInv, IInv, Queues, Ordered
      <3> QED
        BY <1>1, <3>1, WithoutOfSorted
    <2>3. Len(running') <= MaxNumSeqs
      <3>1. Len(running') <= Len(running) /\ Len(running) <= MaxNumSeqs
        BY <1>1, <2>2, WithoutLength DEF EngineInv, BatchInv
      <3> QED
        BY <2>2, <3>1, SchedulerAssumption
    <2> QED
      BY <1>8, <2>1, <2>2, <2>3, EmptyBatch
  <1> QED
    BY <1>3, <1>9, <1>10

\* abort_request
LEMMA AbortEngine ==
    ASSUME EngineInv, NEW r \in Requests, AbortRequest(r)
    PROVE  CacheInv' /\ RunInv' /\ BatchInv'
  <1>1. CASE r \in live
    <2>1. /\ RemoveRequest(r, tokens[r]) /\ outcome' = [outcome EXCEPT ![r] = "aborted"]
          /\ pc = "inputs" /\ idle' = FALSE /\ UNCHANGED <<pc, passVars, sampled, kv>>
      BY <1>1 DEF AbortRequest
    <2>2. /\ tokens[r] \in Seq(Tokens) /\ computed[r] <= Len(tokens[r])
          /\ HashesAreOwn(hash, table[r], tokens[r], computed[r])
          /\ "aborted" \in Outcomes
      BY EngineTypes DEF TableFits, Outcomes
    <2>3. sampled' \in Seq(Requests)
      BY <2>1 DEF EngineInv, RunInv, RestTypes
    <2>4. sampled' = <<>>
      BY <2>1 DEF EngineInv, BatchInv
    <2> QED
      BY <1>1, <2>1, <2>2, <2>3, <2>4, ElementsOfEmpty, RemoveEngine
  <1>2. CASE r \notin live
    <2>1. /\ UNCHANGED <<kvVars, queueVars, reqVars>> /\ idle' = FALSE
          /\ UNCHANGED <<pc, budget, cursor, preemptedBefore, scheduled, sampled, kv>>
      BY <1>2 DEF AbortRequest, passVars
    <2>2. CacheInv'
      BY <2>1, KeepCache DEF EngineInv, reqVars
    <2>3. RunInv'
      BY <2>1 DEF EngineInv, RunInv, RestTypes, reqVars, queueVars, Elements, Candidate
    <2>4. BatchInv'
      BY <2>1, KeepBatch DEF EngineInv, queueVars
    <2> QED
      BY <2>2, <2>3, <2>4
  <1> QED
    BY <1>1, <1>2

\* The first pass schedules a running request.
LEMMA ScheduleEngine == ASSUME EngineInv, ScheduleRunning PROVE CacheInv' /\ RunInv' /\ BatchInv'
  <1> DEFINE r == running[cursor]
             n == ChunkLen(r)
             e == Entry(r, computed[r], n, numPrefill[r], computed[r] < numPrefill[r])
  <1>1. /\ cursor <= Len(running) /\ pc = "pass1" /\ pc' = pc
        /\ CanAllocate(r, computed[r], n)
        /\ AllocateSlots(r, tokens[r], computed[r], n)
        /\ budget' = budget - n
        /\ scheduled' = Append(scheduled, e)
        /\ computed' = [computed EXCEPT ![r] = @ + n]
        /\ UNCHANGED <<running, preempted, waiting, live, tokens, numPrompt, numPrefill,
                       params, outcome, preemptedBefore, idle, sampled, kv>>
    BY DEF ScheduleRunning, InPass1, queueVars
  <1>2. r \in Requests /\ r \in Elements(running)
    <2>1. cursor \in 1 .. Len(running)
      BY <1>1, EngineTypes DEF EngineInv, IInv, Queues
    <2> QED
      BY <2>1, EngineTypes, ElementsOf
  <1> HIDE DEF r
  <1>3. /\ n \in Nat /\ n <= budget /\ computed[r] + n <= Len(tokens[r])
        /\ computed[r] \in Nat /\ budget \in Nat
    BY <1>2, ChunkFacts
  <1> HIDE DEF n
  <1>4. CacheInv'
    BY <1>1, <1>2, <1>3, AllocateCache DEF EngineInv
  <1>5. /\ e \in Entries /\ e.req = r /\ e.offset = computed[r] /\ e.len = n
    <2>1. table' \in [Requests -> Seq(BlockIds)] /\ numPrefill[r] \in Nat
      BY <1>2, <1>4 DEF CacheInv, CacheTypes, KVTypeOK, EngineInv, RunInv, RestTypes
    <2>2. /\ (computed[r] < numPrefill[r]) \in BOOLEAN
          /\ (computed[r] + n >= numPrefill[r]) \in BOOLEAN
      OBVIOUS
    <2> QED
      BY <1>2, <1>3, <2>1, <2>2 DEF Entry, Entries, ReachesEnd
  <1> HIDE DEF e
  <1>6. RestTypes'
    <2>1. budget' \in 0 .. MaxScheduledTokens
      <3>1. budget <= MaxScheduledTokens /\ MaxScheduledTokens \in Nat
        BY SchedulerAssumption DEF EngineInv, RunInv, RestTypes
      <3> QED
        BY <1>1, <1>3, <3>1
    <2>2. scheduled' \in Seq(Entries)
      BY <1>1, <1>5 DEF EngineInv, RunInv, RestTypes
    <2> QED
      BY <1>1, <2>1, <2>2 DEF EngineInv, RunInv, RestTypes
  <1>7. \A s \in Requests : computed'[s] # 0 => s \in Elements(running)
    BY <1>1, <1>2, EngineTypes DEF EngineInv, RunInv
  <1>8. \A i \in DOMAIN scheduled' :
           scheduled'[i].offset + scheduled'[i].len <= Len(tokens'[scheduled'[i].req])
    <2>1. scheduled \in Seq(Entries)
      BY DEF EngineInv, RunInv, RestTypes
    <2>2. \A i \in DOMAIN scheduled' : (i \in DOMAIN scheduled /\ scheduled'[i] = scheduled[i])
                                          \/ scheduled'[i] = e
      BY <1>1, <2>1
    <2> QED
      BY <1>1, <1>3, <1>5, <2>2 DEF EngineInv, RunInv
  <1>9. RunInv'
    BY <1>1, <1>6, <1>7, <1>8 DEF EngineInv, RunInv, Elements
  <1>10. BatchInv'
    <2>1. scheduled \in Seq(Entries) /\ running \in Seq(Requests)
      BY EngineTypes DEF EngineInv, RunInv, RestTypes
    <2>2. /\ Len(scheduled') = Len(scheduled) + 1 /\ scheduled'[Len(scheduled) + 1] = e
          /\ \A i \in 1 .. Len(scheduled) : scheduled'[i] = scheduled[i]
      BY <1>1, <1>5, <2>1, AppendFacts
    <2>3. /\ cursor = Len(scheduled) + 1 /\ cursor' = cursor + 1 /\ running' = running
      BY <1>1 DEF ScheduleRunning, queueVars, EngineInv, BatchInv
    <2>4. e.req = running[Len(scheduled) + 1]
      BY <1>5, <2>3 DEF r
    <2>5. Len(scheduled') <= Len(running')
      BY <1>1, <2>1, <2>2, <2>3
    <2>6. \A i \in 1 .. Len(scheduled') : scheduled'[i].req = running'[i]
      BY <2>1, <2>2, <2>3, <2>4 DEF EngineInv, BatchInv
    <2> QED
      BY <1>1, <2>1, <2>2, <2>3, <2>5, <2>6 DEF EngineInv, BatchInv, Elements, Injective
  <1> QED
    BY <1>4, <1>9, <1>10

\* The first pass finds no block and preempts the newest request.
LEMMA PreemptEngine == ASSUME EngineInv, PreemptNewest PROVE CacheInv' /\ RunInv' /\ BatchInv'
  <1> DEFINE v == Victim
  <1>1. /\ cursor <= Len(running) /\ pc = "pass1" /\ pc' = pc
        /\ ReleaseBlocks(v, tokens[v], computed[v])
        /\ computed' = [computed EXCEPT ![v] = 0]
        /\ running' = Without(running, v)
        /\ UNCHANGED <<live, tokens, numPrompt, numPrefill, params, outcome,
                       passVars, idle, sampled, kv>>
    BY DEF PreemptNewest, InPass1
  <1>2. v \in Requests /\ v \in Elements(running)
    <2>1. Len(running) \in 1 .. Len(running)
      BY <1>1, EngineTypes DEF EngineInv, IInv, Queues
    <2> QED
      BY <2>1, EngineTypes, ElementsOf DEF Victim
  <1> HIDE DEF v
  <1>3. CacheInv'
    <2>1. /\ tokens[v] \in Seq(Tokens) /\ computed[v] <= Len(tokens[v])
          /\ HashesAreOwn(hash, table[v], tokens[v], computed[v])
          /\ tokens' = [tokens EXCEPT ![v] = tokens[v]]
      BY <1>1, <1>2, EngineTypes DEF TableFits
    <2> QED
      BY <1>1, <1>2, <2>1, ReleaseCache DEF EngineInv
  <1>4. RestTypes'
    BY <1>1 DEF EngineInv, RunInv, RestTypes, passVars
  <1>5. \A s \in Elements(running) : s # v => s \in Elements(running')
    <2>1. running \in Seq(Requests) /\ Sorted(running)
      BY DEF EngineInv, IInv, Queues, Ordered
    <2> QED
      BY <1>1, <2>1, WithoutOfSorted
  <1>6. ASSUME NEW s \in Requests, computed'[s] # 0 PROVE s \in Elements(running')
    <2>1. s # v /\ computed[s] # 0
      BY <1>1, <1>2, <1>6, EngineTypes
    <2>2. s \in Elements(running)
      BY <1>1, <2>1 DEF EngineInv, RunInv
    <2> QED
      BY <1>5, <2>1, <2>2
  <1>7. RunInv'
    BY <1>1, <1>4, <1>6 DEF EngineInv, RunInv, Elements, passVars
  <1>8. BatchInv'
    <2>1. running \in Seq(Requests) /\ Sorted(running) /\ running # <<>>
      <3>1. cursor \in Nat \ {0}
        BY DEF EngineInv, IInv, Queues
      <3> QED
        BY <1>1, <3>1 DEF EngineInv, IInv, Queues, Ordered
    <2>2. /\ Len(running') = Len(running) - 1
          /\ \A i \in 1 .. Len(running) - 1 : running'[i] = running[i]
      BY <1>1, <2>1, WithoutLast DEF v, Victim
    <2>3. /\ scheduled' = scheduled /\ sampled' = sampled /\ sampled = <<>>
          /\ cursor' = cursor /\ cursor = Len(scheduled) + 1
          /\ Len(scheduled) \in Nat /\ Len(running) \in Nat
          /\ Len(running) <= MaxNumSeqs
      BY <1>1, <2>1 DEF EngineInv, RunInv, RestTypes, BatchInv, passVars
    <2>4. Len(scheduled') <= Len(running') /\ Len(running') <= MaxNumSeqs
      BY <1>1, <2>2, <2>3, SchedulerAssumption
    <2>5. \A i \in 1 .. Len(scheduled') : scheduled'[i].req = running'[i]
      BY <2>2, <2>3, <2>4 DEF EngineInv, BatchInv
    <2> QED
      BY <1>1, <2>3, <2>4, <2>5, ElementsOfEmpty DEF BatchInv, Elements, Injective
  <1> QED
    BY <1>3, <1>7, <1>8

\* The second pass looks for a cached prefix.
LEMMA LookupEngine == ASSUME EngineInv, LookupPrefix PROVE CacheInv' /\ RunInv' /\ BatchInv'
  <1> DEFINE r == Candidate
  <1>1. /\ preempted # <<>> \/ waiting # <<>>
        /\ pc = "pass2" /\ pc' = "admit"
        /\ ReusePrefix(r, tokens[r])
        /\ computed' = [computed EXCEPT ![r] = NumReused(tokens[r])]
        /\ UNCHANGED <<queueVars, live, tokens, numPrompt, numPrefill, params, outcome,
                       passVars, idle, sampled, kv>>
    BY DEF LookupPrefix, InPass2
  <1>2. Candidate' = Candidate
    BY <1>1 DEF Candidate, queueVars
  <1>3. r \in Requests /\ r \in live /\ computed[r] = 0 /\ tokens[r] # <<>>
    BY <1>1, CandidateFacts DEF EngineInv, RunInv
  <1> HIDE DEF r
  <1>4. CacheInv'
    BY <1>1, <1>3, ReuseCache DEF EngineInv
  <1>5. RestTypes'
    BY <1>1 DEF EngineInv, RunInv, RestTypes, passVars, PCs
  <1>6. ASSUME NEW s \in Requests, computed'[s] # 0
        PROVE  s \in Elements(running') \/ s = r
    BY <1>1, <1>3, <1>6, EngineTypes DEF EngineInv, RunInv, queueVars
  <1>7. RunInv'
    BY <1>1, <1>2, <1>5, <1>6 DEF EngineInv, RunInv, Elements, passVars, r
  <1>8. BatchInv'
    <2>1. HasRoom
      BY DEF LookupPrefix, InPass2
    <2>2. UNCHANGED <<running, scheduled, sampled, cursor, budget>>
      BY <1>1 DEF queueVars, passVars
    <2> QED
      BY <1>1, <2>1, <2>2 DEF EngineInv, BatchInv, HasRoom, Elements, Injective
  <1> QED
    BY <1>4, <1>7, <1>8

\* The second pass admits its candidate.
LEMMA AdmitEngine == ASSUME EngineInv, Admit PROVE CacheInv' /\ RunInv' /\ BatchInv'
  <1> DEFINE r == Candidate
             n == ChunkLen(r)
             e == Entry(r, computed[r], n, Len(tokens[r]), TRUE)
  <1>1. /\ pc = "admit" /\ pc' = "pass2"
        /\ CanAllocate(r, computed[r], n)
        /\ AllocateSlots(r, tokens[r], computed[r], n)
        /\ numPrefill' = [numPrefill EXCEPT ![r] = Len(tokens[r])]
        /\ budget' = budget - n
        /\ scheduled' = Append(scheduled, e)
        /\ computed' = [computed EXCEPT ![r] = @ + n]
        /\ running' = Append(running, r)
        /\ UNCHANGED <<live, tokens, numPrompt, params, outcome,
                       preemptedBefore, idle, sampled, kv>>
    BY DEF Admit
  <1>2. r \in Requests
    BY <1>1, CandidateFacts DEF EngineInv, IInv, Queues
  <1>2a. \A s \in Requests : computed[s] # 0 => s \in Elements(running) \/ s = r
    BY DEF EngineInv, RunInv
  <1> HIDE DEF r
  <1>3. /\ n \in Nat /\ n <= budget /\ computed[r] + n <= Len(tokens[r])
        /\ computed[r] \in Nat /\ budget \in Nat /\ Len(tokens[r]) \in Nat
    BY <1>2, ChunkFacts
  <1> HIDE DEF n
  <1>4. CacheInv'
    BY <1>1, <1>2, <1>3, AllocateCache DEF EngineInv
  <1>5. /\ e \in Entries /\ e.req = r /\ e.offset = computed[r] /\ e.len = n
    <2>1. table' \in [Requests -> Seq(BlockIds)]
      BY <1>4 DEF CacheInv, CacheTypes, KVTypeOK
    <2>2. (computed[r] + n >= Len(tokens[r])) \in BOOLEAN
      OBVIOUS
    <2> QED
      BY <1>2, <1>3, <2>1, <2>2 DEF Entry, Entries, ReachesEnd
  <1> HIDE DEF e
  <1>6. RestTypes'
    <2>1. budget' \in 0 .. MaxScheduledTokens
      <3>1. budget <= MaxScheduledTokens /\ MaxScheduledTokens \in Nat
        BY SchedulerAssumption DEF EngineInv, RunInv, RestTypes
      <3> QED
        BY <1>1, <1>3, <3>1
    <2>2. scheduled' \in Seq(Entries)
      BY <1>1, <1>5 DEF EngineInv, RunInv, RestTypes
    <2>3. numPrefill' \in [Requests -> Nat]
      BY <1>1, <1>3 DEF EngineInv, RunInv, RestTypes
    <2> QED
      BY <1>1, <2>1, <2>2, <2>3 DEF EngineInv, RunInv, RestTypes, PCs
  <1>7. ASSUME NEW s \in Requests, computed'[s] # 0 PROVE s \in Elements(running')
    <2>1. Elements(running') = Elements(running) \cup {r}
      BY <1>1, <1>2, EngineTypes, AppendFacts
    <2>2. CASE s = r
      BY <2>1, <2>2
    <2>3. CASE s # r
      BY <1>1, <1>2, <1>2a, <1>7, <2>1, <2>3, EngineTypes
    <2> QED
      BY <2>2, <2>3
  <1>8. \A i \in DOMAIN scheduled' :
           scheduled'[i].offset + scheduled'[i].len <= Len(tokens'[scheduled'[i].req])
    <2>1. scheduled \in Seq(Entries)
      BY DEF EngineInv, RunInv, RestTypes
    <2>2. \A i \in DOMAIN scheduled' : (i \in DOMAIN scheduled /\ scheduled'[i] = scheduled[i])
                                          \/ scheduled'[i] = e
      BY <1>1, <2>1
    <2> QED
      BY <1>1, <1>3, <1>5, <2>2 DEF EngineInv, RunInv
  <1>9. RunInv'
    BY <1>1, <1>6, <1>7, <1>8 DEF EngineInv, RunInv, Elements
  <1>10. BatchInv'
    <2>1. scheduled \in Seq(Entries) /\ running \in Seq(Requests)
      BY EngineTypes DEF EngineInv, RunInv, RestTypes
    <2>2. /\ Len(scheduled') = Len(scheduled) + 1 /\ scheduled'[Len(scheduled) + 1] = e
          /\ \A i \in 1 .. Len(scheduled) : scheduled'[i] = scheduled[i]
      BY <1>1, <1>5, <2>1, AppendFacts
    <2>3. /\ Len(running') = Len(running) + 1 /\ running'[Len(running) + 1] = r
          /\ \A i \in 1 .. Len(running) : running'[i] = running[i]
      BY <1>1, <1>2, <2>1, AppendFacts
    <2>4. /\ Len(scheduled) = Len(running) /\ Len(scheduled) < MaxNumSeqs
          /\ sampled = <<>>
      BY <1>1 DEF EngineInv, BatchInv, HasRoom
    <2>5. Len(running') <= MaxNumSeqs /\ Len(scheduled') = Len(running')
      BY <2>1, <2>2, <2>3, <2>4, SchedulerAssumption
    <2>6. \A i \in 1 .. Len(scheduled') : scheduled'[i].req = running'[i]
      BY <1>5, <2>1, <2>2, <2>3, <2>4 DEF EngineInv, BatchInv
    <2> QED
      BY <1>1, <2>1, <2>2, <2>4, <2>5, <2>6, ElementsOfEmpty DEF BatchInv, Elements, Injective
  <1> QED
    BY <1>4, <1>9, <1>10

\* The second pass finds no room, and gives back what it reused.
LEMMA RefuseEngine == ASSUME EngineInv, Refuse PROVE CacheInv' /\ RunInv' /\ BatchInv'
  <1> DEFINE r == Candidate
  <1>1. /\ pc = "admit" /\ pc' = "forward"
        /\ ReleaseBlocks(r, tokens[r], computed[r])
        /\ computed' = [computed EXCEPT ![r] = 0]
        /\ UNCHANGED <<queueVars, live, tokens, numPrompt, numPrefill, params, outcome,
                       passVars, idle, sampled, kv>>
    BY DEF Refuse
  <1>2. r \in Requests
    BY <1>1, CandidateFacts DEF EngineInv, IInv, Queues
  <1>3. \A s \in Requests : computed[s] # 0 => s \in Elements(running) \/ s = r
    BY DEF EngineInv, RunInv
  <1> HIDE DEF r
  <1>4. CacheInv'
    <2>1. /\ tokens[r] \in Seq(Tokens) /\ computed[r] <= Len(tokens[r])
          /\ HashesAreOwn(hash, table[r], tokens[r], computed[r])
          /\ tokens' = [tokens EXCEPT ![r] = tokens[r]]
      BY <1>1, <1>2, EngineTypes DEF TableFits
    <2> QED
      BY <1>1, <1>2, <2>1, ReleaseCache DEF EngineInv
  <1>5. RestTypes'
    BY <1>1 DEF EngineInv, RunInv, RestTypes, passVars, PCs
  <1>6. \A s \in Requests : computed'[s] # 0 => s \in Elements(running')
    BY <1>1, <1>2, <1>3, EngineTypes DEF queueVars
  <1>7. RunInv'
    BY <1>1, <1>5, <1>6 DEF EngineInv, RunInv, Elements, passVars
  <1>8. BatchInv'
    BY <1>1 DEF EngineInv, BatchInv, HasRoom, Elements, Injective, queueVars, passVars
  <1> QED
    BY <1>4, <1>7, <1>8

\* Each request of the batch is sampled at most once.
LEMMA SampledRequests ==
    ASSUME EngineInv, RunModel
    PROVE  /\ sampled' \in Seq(Requests)
           /\ Elements(sampled') \subseteq Elements(running) /\ Injective(sampled')
           /\ \A r : r \in Elements(sampled') <=>
                 \E i \in DOMAIN scheduled : scheduled[i].req = r /\ scheduled[i].needsSampling
  <1> DEFINE reqs == [i \in DOMAIN scheduled |-> scheduled[i].req]
             at == {i \in DOMAIN scheduled : scheduled[i].needsSampling}
  <1>1. scheduled \in Seq(Entries)
    BY DEF EngineInv, RunInv, RestTypes
  <1>2. reqs \in Seq(Requests) /\ at \in SUBSET (1 .. Len(reqs))
    <2>0. /\ DOMAIN scheduled = 1 .. Len(scheduled) /\ Len(scheduled) \in Nat
          /\ \A i \in 1 .. Len(scheduled) : scheduled[i] \in Entries
      BY <1>1
    <2>1. \A i \in 1 .. Len(scheduled) : scheduled[i].req \in Requests
      BY <2>0 DEF Entries
    <2>2. reqs \in [1 .. Len(scheduled) -> Requests]
      BY <2>0, <2>1
    <2>3. reqs \in Seq(Requests) /\ Len(reqs) = Len(scheduled)
      BY <2>0, <2>2
    <2> QED
      BY <2>0, <2>3
  <1>3. /\ running \in Seq(Requests) /\ Sorted(running)
        /\ Len(reqs) <= Len(running) /\ Len(reqs) \in Nat /\ Len(running) \in Nat
        /\ \A i \in 1 .. Len(reqs) : reqs[i] = running[i]
    <2>1. /\ Len(scheduled) <= Len(running)
          /\ \A i \in 1 .. Len(scheduled) : scheduled[i].req = running[i]
      BY DEF EngineInv, BatchInv
    <2>2. DOMAIN scheduled = 1 .. Len(scheduled) /\ Len(scheduled) \in Nat
      BY <1>1
    <2>3. Len(reqs) = Len(scheduled) /\ \A i \in 1 .. Len(scheduled) : reqs[i] = scheduled[i].req
      BY <2>2
    <2>4. running \in Seq(Requests) /\ Sorted(running)
      BY DEF EngineInv, IInv, Queues, Ordered
    <2> QED
      BY <2>1, <2>2, <2>3, <2>4
  <1>4. sampled' = Subsequence(reqs, at)
    BY DEF RunModel
  <1> HIDE DEF reqs, at
  <1> DEFINE n == Cardinality(at)
  <1>5. /\ Subsequence(reqs, at) \in Seq(Requests) /\ n \in Nat
        /\ Len(Subsequence(reqs, at)) = n
        /\ \E f \in [1 .. n -> at] :
              /\ \A k, l \in 1 .. n : k < l => f[k] < f[l]
              /\ \A i \in at : \E k \in 1 .. n : f[k] = i
              /\ \A k \in 1 .. n : Subsequence(reqs, at)[k] = reqs[f[k]]
    BY ZenonT(60), <1>2, SubsequenceIsPick
  <1> HIDE DEF n
  <1>6. PICK f \in [1 .. n -> at] :
              /\ \A k, l \in 1 .. n : k < l => f[k] < f[l]
              /\ \A i \in at : \E k \in 1 .. n : f[k] = i
              /\ \A k \in 1 .. n : sampled'[k] = reqs[f[k]]
    BY <1>4, <1>5
  <1>7. /\ sampled' \in Seq(Requests) /\ Len(sampled') = n /\ DOMAIN sampled' = 1 .. n
    BY <1>4, <1>5
  <1>8. ASSUME NEW k \in 1 .. n
        PROVE  f[k] \in 1 .. Len(running) /\ f[k] \in Nat /\ sampled'[k] = running[f[k]]
    <2>1. f[k] \in 1 .. Len(reqs)
      BY <1>2
    <2> QED
      BY <1>3, <1>6, <2>1
  <1>9. Elements(sampled') \subseteq Elements(running)
    BY <1>3, <1>7, <1>8, ElementsOf DEF Elements
  <1>10. Injective(sampled')
    <2> SUFFICES ASSUME NEW k \in 1 .. n, NEW l \in 1 .. n, sampled'[k] = sampled'[l], k < l
                 PROVE  FALSE
      BY <1>5, <1>7 DEF Injective
    <2>1. f[k] < f[l]
      BY <1>6
    <2>2. running[f[k]] < running[f[l]]
      BY <1>3, <1>8, <2>1 DEF Sorted
    <2>3. running[f[k]] \in Requests /\ running[f[k]] = running[f[l]]
      BY <1>3, <1>8
    <2>4. running[f[k]] \in Nat
      BY <2>3, RequestsAreIntegers
    <2> QED
      BY <2>2, <2>3, <2>4
  <1>11. ASSUME NEW r
         PROVE  r \in Elements(sampled') <=> \E i \in at : reqs[i] = r
    <2>1. ASSUME r \in Elements(sampled') PROVE \E i \in at : reqs[i] = r
      <3>1. PICK k \in 1 .. n : sampled'[k] = r
        BY <1>7, <2>1 DEF Elements
      <3>2. f[k] \in at /\ reqs[f[k]] = r
        BY <1>6, <3>1
      <3> QED
        BY <3>2
    <2>2. ASSUME NEW i \in at, reqs[i] = r PROVE r \in Elements(sampled')
      <3>1. PICK k \in 1 .. n : f[k] = i
        BY <1>6
      <3>2. sampled'[k] = r /\ k \in DOMAIN sampled'
        BY <1>6, <1>7, <2>2, <3>1
      <3> QED
        BY <3>2 DEF Elements
    <2> QED
      BY <2>1, <2>2
  <1>12. \A r : (\E i \in at : reqs[i] = r) <=>
                 \E i \in DOMAIN scheduled : scheduled[i].req = r /\ scheduled[i].needsSampling
    BY DEF at, reqs
  <1> QED
    BY <1>7, <1>9, <1>10, <1>11, <1>12

\* The forward pass: of the batch, the requests that were sampled are left.
LEMMA RunModelEngine == ASSUME EngineInv, RunModel PROVE CacheInv' /\ RunInv' /\ BatchInv'
  <1>1. /\ pc = "forward" /\ pc' = "update" /\ scheduled' = <<>>
        /\ budget' = 0 /\ preemptedBefore' = 0
        /\ sampled' = Subsequence([i \in DOMAIN scheduled |-> scheduled[i].req],
                                  {i \in DOMAIN scheduled : scheduled[i].needsSampling})
        /\ UNCHANGED <<kvVars, reqVars, queueVars, idle>>
    BY DEF RunModel
  <1>2. CacheInv'
    BY <1>1, KeepCache DEF EngineInv, reqVars
  <1>3. /\ sampled' \in Seq(Requests)
        /\ Elements(sampled') \subseteq Elements(running) /\ Injective(sampled')
    BY SampledRequests
  <1>4. kv' \in [Slots -> Seq(Tokens)]
    <2> SUFFICES ASSUME NEW s \in Slots PROVE kv'[s] \in Seq(Tokens)
      BY DEF RunModel
    <2>1. CASE ~\E i \in DOMAIN scheduled : s \in WrittenSlots(scheduled[i])
      <3>1. kv'[s] = kv[s]
        BY <2>1 DEF RunModel
      <3> QED
        BY <3>1 DEF EngineInv, RunInv, RestTypes
    <2>2. CASE \E i \in DOMAIN scheduled : s \in WrittenSlots(scheduled[i])
      <3> DEFINE k == CHOOSE i \in DOMAIN scheduled : s \in WrittenSlots(scheduled[i])
                 e == scheduled[k]
                 pos == CHOOSE p \in Positions(e) : SlotAt(e.blocks, p) = s
      <3>1. k \in DOMAIN scheduled /\ s \in WrittenSlots(e)
        BY <2>2
      <3>2. kv'[s] = SubSeq(tokens[e.req], 1, pos + 1)
        BY <2>2 DEF RunModel
      <3> HIDE DEF k
      <3>3. e \in Entries
        BY <3>1 DEF EngineInv, RunInv, RestTypes
      <3>4. pos \in Positions(e)
        BY <3>1 DEF WrittenSlots
      <3> HIDE DEF pos
      <3>5. e.offset + e.len <= Len(tokens[e.req])
        BY <3>1 DEF EngineInv, RunInv
      <3> HIDE DEF e
      <3>6. /\ tokens[e.req] \in Seq(Tokens) /\ e.offset \in Nat /\ e.len \in Nat
        BY <3>3, EngineTypes DEF Entries
      <3>7. pos + 1 \in 1 .. Len(tokens[e.req])
        BY <3>4, <3>5, <3>6 DEF Positions
      <3>8. SubSeq(tokens[e.req], 1, pos + 1) \in Seq(Tokens)
        BY <3>6, <3>7
      <3> QED
        BY <3>2, <3>8
    <2> QED
      BY <2>1, <2>2
  <1>5. RestTypes'
    <2>1. 0 \in 0 .. MaxScheduledTokens
      BY SchedulerAssumption
    <2> QED
      BY <1>1, <1>3, <1>4, <2>1 DEF EngineInv, RunInv, RestTypes, reqVars, PCs
  <1>6. RunInv'
    BY <1>1, <1>5 DEF EngineInv, RunInv, Elements, reqVars, queueVars
  <1>7. BatchInv'
    <2>1. running' = running /\ running \in Seq(Requests) /\ Len(running) <= MaxNumSeqs
      BY <1>1, EngineTypes DEF queueVars, EngineInv, BatchInv
    <2> QED
      BY <1>1, <1>3, <2>1, EmptyBatch
  <1> QED
    BY <1>2, <1>6, <1>7

\* The sampled request is still there, and what it computed it keeps.
LEMMA HeadOfSampled ==
    ASSUME EngineInv, sampled # <<>>, NEW t \in Tokens
    PROVE  LET r == Head(sampled)
               toks == Append(tokens[r], t)
           IN  /\ r \in live /\ r \in Requests /\ r \in Elements(running)
               /\ toks \in Seq(Tokens) /\ toks # <<>>
               /\ Len(toks) = Len(tokens[r]) + 1 /\ computed[r] <= Len(toks)
               /\ \A m \in 1 .. computed[r] : SubSeq(toks, 1, m) = SubSeq(tokens[r], 1, m)
               /\ HashesAreOwn(hash, table[r], toks, computed[r])
  <1> DEFINE r == Head(sampled)
             toks == Append(tokens[r], t)
  <1>1. r \in Elements(running)
    <2>1. sampled \in Seq(Requests) /\ Elements(sampled) \subseteq Elements(running)
      BY DEF EngineInv, RunInv, RestTypes, BatchInv
    <2> QED
      BY <2>1, TailFacts
  <1>2. r \in live /\ r \in Requests
    BY <1>1, EngineTypes
  <1> HIDE DEF r
  <1>3. /\ tokens[r] \in Seq(Tokens) /\ computed[r] \in Nat
        /\ computed[r] <= Len(tokens[r]) /\ Len(tokens[r]) \in Nat
        /\ table[r] \in Seq(BlockIds)
        /\ HashesAreOwn(hash, table[r], tokens[r], computed[r])
    BY <1>2, EngineTypes DEF TableFits
  <1>4. /\ toks \in Seq(Tokens) /\ Len(toks) = Len(tokens[r]) + 1
        /\ \A m \in 1 .. Len(tokens[r]) : SubSeq(toks, 1, m) = SubSeq(tokens[r], 1, m)
    BY <1>3, AppendedTokens
  <1> HIDE DEF toks
  <1>5. /\ toks # <<>> /\ computed[r] <= Len(toks)
        /\ \A m \in 1 .. computed[r] : SubSeq(toks, 1, m) = SubSeq(tokens[r], 1, m)
    BY <1>3, <1>4
  <1>6. HashesAreOwn(hash, table[r], toks, computed[r])
    <2> SUFFICES ASSUME NEW i \in DOMAIN table[r], hash[table[r][i]] # <<>>
                 PROVE  /\ i * BlockSize <= computed[r]
                        /\ hash[table[r][i]] = SubSeq(toks, 1, i * BlockSize)
      BY DEF HashesAreOwn
    <2>1. /\ i * BlockSize <= computed[r]
          /\ hash[table[r][i]] = SubSeq(tokens[r], 1, i * BlockSize)
      BY <1>3 DEF HashesAreOwn
    <2>2. i * BlockSize \in Nat \ {0}
      BY <1>3, KVCacheAssumption
    <2>3. i * BlockSize \in 1 .. computed[r]
      BY <1>3, <2>1, <2>2
    <2> QED
      BY <1>5, <2>1, <2>3
  <1> QED
    BY <1>1, <1>2, <1>4, <1>5, <1>6 DEF r, toks

\* update() takes the token of the next sampled request.
LEMMA UpdateEngine ==
    ASSUME EngineInv, NEW t \in Tokens, Update(t)
    PROVE  CacheInv' /\ RunInv' /\ BatchInv'
  <1> DEFINE r == Head(sampled)
             toks == Append(tokens[r], t)
             reason == FinishReason(r, toks, t)
  <1>1. /\ pc = "update" /\ sampled # <<>> /\ sampled' = Tail(sampled)
        /\ UNCHANGED <<pc, idle, passVars, kv>>
    BY DEF Update
  <1>2. /\ r \in live /\ r \in Requests /\ toks \in Seq(Tokens) /\ toks # <<>>
        /\ Len(toks) = Len(tokens[r]) + 1 /\ computed[r] <= Len(toks)
        /\ \A m \in 1 .. computed[r] : SubSeq(toks, 1, m) = SubSeq(tokens[r], 1, m)
        /\ HashesAreOwn(hash, table[r], toks, computed[r])
    BY <1>1, HeadOfSampled
  <1>3. /\ sampled' \in Seq(Requests) /\ Injective(sampled')
        /\ Elements(sampled') \subseteq Elements(running) \ {r}
    <2>1. /\ sampled \in Seq(Requests) /\ Injective(sampled)
          /\ Elements(sampled) \subseteq Elements(running)
      BY DEF EngineInv, RunInv, RestTypes, BatchInv
    <2>2. /\ Tail(sampled) \in Seq(Requests) /\ Injective(Tail(sampled))
          /\ Elements(Tail(sampled)) \subseteq Elements(sampled)
          /\ r \notin Elements(Tail(sampled))
      BY <1>1, <2>1, TailFacts
    <2> QED
      BY <1>1, <2>1, <2>2
  <1>4. idle' \in BOOLEAN
    BY <1>1 DEF EngineInv, RunInv, RestTypes
  <1>5. CASE reason = "running"
    <2>1. /\ tokens' = [tokens EXCEPT ![r] = toks]
          /\ UNCHANGED <<kvVars, queueVars, live, numPrompt, numPrefill, computed,
                         params, outcome>>
      BY <1>5 DEF Update
    <2> HIDE DEF r, toks
    <2>2. CacheInv'
      BY <1>2, <2>1, TokensCache DEF EngineInv
    <2>3. RestTypes'
      BY <1>1, <1>3, <2>1 DEF EngineInv, RunInv, RestTypes, passVars
    <2>4. \A s \in live' : tokens'[s] # <<>>
      BY <1>2, <2>1, EngineTypes DEF EngineInv, RunInv
    <2>5. scheduled' = <<>> /\ running' = running /\ computed' = computed
      BY <1>1, <2>1 DEF EngineInv, RunInv, passVars, queueVars
    <2>6. \A s \in Requests : computed'[s] # 0 => s \in Elements(running')
      BY <1>1, <2>5 DEF EngineInv, RunInv
    <2>7. RunInv'
      BY <1>1, <2>3, <2>4, <2>5, <2>6 DEF RunInv, Elements
    <2>8. BatchInv'
      BY <1>1, <1>3, <2>5, EngineTypes, EmptyBatch DEF EngineInv, BatchInv
    <2> QED
      BY <2>2, <2>7, <2>8
  <1>6. CASE reason # "running"
    <2>1. RemoveRequest(r, toks) /\ outcome' = [outcome EXCEPT ![r] = reason]
      BY <1>6 DEF Update
    <2>2. reason \in Outcomes
      BY <1>6 DEF FinishReason, Outcomes
    <2> HIDE DEF r, toks, reason
    <2> QED
      BY <1>1, <1>2, <1>3, <1>4, <2>1, <2>2, RemoveEngine
  <1> QED
    BY <1>5, <1>6

\* The steps that only move the engine's thread to its next part.
LEMMA MoveEngine ==
    ASSUME EngineInv, UNCHANGED <<kvVars, reqVars, queueVars, sampled, kv>>,
           RestTypes', scheduled' = scheduled \/ scheduled' = <<>>,
           pc' # "admit", pc # "admit",
           pc' \in {"inputs", "update"} => scheduled' = <<>>
    PROVE  CacheInv' /\ RunInv'
  <1>1. CacheInv'
    BY KeepCache DEF EngineInv, reqVars
  <1>2. \A i \in DOMAIN scheduled' : i \in DOMAIN scheduled /\ scheduled'[i] = scheduled[i]
    OBVIOUS
  <1>3. RunInv'
    BY <1>2 DEF EngineInv, RunInv, Elements, reqVars, queueVars
  <1> QED
    BY <1>1, <1>3

\* schedule() begins.
LEMMA BeginEngine == ASSUME EngineInv, BeginSchedule PROVE CacheInv' /\ RunInv' /\ BatchInv'
  <1>1. /\ pc = "inputs" /\ pc' = "pass1" /\ budget' = MaxScheduledTokens /\ cursor' = 1
        /\ preemptedBefore' = Len(preempted) /\ scheduled' = <<>>
        /\ UNCHANGED <<kvVars, reqVars, queueVars, idle, sampled, kv>>
    BY DEF BeginSchedule
  <1>2. RestTypes'
    <2>1. budget' \in 0 .. MaxScheduledTokens /\ preemptedBefore' \in Nat
      BY <1>1, SchedulerAssumption, EngineTypes
    <2> QED
      BY <1>1, <2>1 DEF EngineInv, RunInv, RestTypes, reqVars, PCs
  <1>3. BatchInv'
    <2>1. /\ Len(scheduled') = 0 /\ 0 <= Len(running') /\ 1 .. Len(scheduled') = {}
          /\ running' = running /\ sampled' = sampled
      BY <1>1, EngineTypes DEF queueVars
    <2> QED
      BY <1>1, <2>1 DEF EngineInv, BatchInv, Elements, Injective
  <1> QED
    BY <1>1, <1>2, <1>3, MoveEngine

\* The loops of schedule() and update() end.
LEMMA EndPassEngine ==
    ASSUME EngineInv, EndPass1 \/ EndPass2 \/ EndUpdate
    PROVE  CacheInv' /\ RunInv' /\ BatchInv'
  <1>1. UNCHANGED <<kvVars, reqVars, queueVars, passVars, sampled, kv>>
    BY DEF EndPass1, EndPass2, EndUpdate
  <1>2. RestTypes'
    BY <1>1 DEF EngineInv, RunInv, RestTypes, reqVars, passVars, PCs,
                EndPass1, EndPass2, EndUpdate
  <1>3. /\ pc # "admit" /\ pc' # "admit"
        /\ pc' \in {"inputs", "update"} => scheduled' = <<>>
    BY DEF EngineInv, RunInv, EndPass1, EndPass2, EndUpdate, passVars
  <1>4. BatchInv'
    <2>1. UNCHANGED <<running, scheduled, sampled, cursor, budget>>
      BY <1>1 DEF queueVars, passVars
    <2>2. /\ pc' # "pass1" /\ pc' # "update" /\ sampled = <<>>
      BY DEF EngineInv, BatchInv, EndPass1, EndPass2, EndUpdate
    <2>3. ASSUME pc' \in {"pass2", "admit"}, HasRoom PROVE Len(scheduled) = Len(running)
      <3>1. /\ pc = "pass1" /\ ~InPass1
            /\ cursor = Len(scheduled) + 1 /\ Len(scheduled) <= Len(running)
        BY <2>3 DEF EndPass1, EndPass2, EndUpdate, EngineInv, BatchInv
      <3>2. ~(cursor <= Len(running))
        BY <2>3, <3>1 DEF InPass1
      <3>3. Len(scheduled) \in Nat /\ Len(running) \in Nat
        BY EngineTypes DEF EngineInv, RunInv, RestTypes
      <3> QED
        BY <3>1, <3>2, <3>3
    <2> QED
      BY <1>3, <2>1, <2>2, <2>3 DEF EngineInv, BatchInv, HasRoom, Elements, Injective
  <1> QED
    BY <1>1, <1>2, <1>3, <1>4, MoveEngine DEF passVars

\* Every step keeps the engine's invariant.
LEMMA EngineNextInv == EngineInv /\ [Next]_vars => EngineInv'
  <1> SUFFICES ASSUME EngineInv, [Next]_vars PROVE CacheInv' /\ RunInv' /\ BatchInv'
    BY NextIInv DEF EngineInv
  <1>1. ASSUME NEW p \in Prompts, NEW m \in MaxOutputs, NEW e \in IgnoreEos,
               AddRequest(p, m, e)
        PROVE  CacheInv' /\ RunInv' /\ BatchInv'
    BY <1>1, AddEngine
  <1>2. ASSUME NEW r \in Requests, AbortRequest(r) PROVE CacheInv' /\ RunInv' /\ BatchInv'
    BY <1>2, AbortEngine
  <1>3. ASSUME NEW t \in Tokens, Update(t) PROVE CacheInv' /\ RunInv' /\ BatchInv'
    BY <1>3, UpdateEngine
  <1>4. CASE UNCHANGED vars
    <2>1. CacheInv'
      BY <1>4, KeepCache DEF EngineInv, vars, reqVars
    <2>2. RunInv'
      BY <1>4 DEF EngineInv, RunInv, RestTypes, Candidate, Elements, vars, reqVars,
                  queueVars, passVars
    <2>3. BatchInv'
      BY <1>4, KeepBatch DEF EngineInv, vars, queueVars, passVars
    <2> QED
      BY <2>1, <2>2, <2>3
  <1> QED
    BY <1>1, <1>2, <1>3, <1>4, BeginEngine, ScheduleEngine, PreemptEngine, LookupEngine,
       AdmitEngine, RefuseEngine, RunModelEngine, EndPassEngine
       DEF Next, Receive, EngineStep

\* The engine's invariant holds for ever.
LEMMA EngineIsInvariant == Spec => []EngineInv
  BY EngineInitInv, EngineNextInv, PTL DEF Spec

-----------------------------------------------------------------------------
(* The theorems *)

\* The engine's state stays well typed: among others, no count of a budget
\* runs below zero, and no block id leaves the cache.
THEOREM SchedulerTypeOK == Spec => []TypeOK
  <1>1. EngineInv => TypeOK
    BY EngineTypes DEF EngineInv, IInv, Queues, CacheInv, CacheTypes, RunInv, RestTypes, TypeOK
  <1> QED
    BY <1>1, EngineIsInvariant, PTL

\* No block leaks and none is handed out twice: every block's count is the
\* number of tables it is in, and the free list is exactly the blocks in no
\* table, through lookups, allocation, preemption, aborts and finishes.
THEOREM SchedulerBlocksAccountedFor == Spec => []BlocksAccountedFor
  <1>1. EngineInv => BlocksAccountedFor
    BY DEF EngineInv, CacheInv
  <1> QED
    BY <1>1, EngineIsInvariant, PTL

\* The prefix index never has a stale entry: hash_to_block_, the cached flags
\* and the blocks' hashes are one relation, whatever is published, displaced
\* and evicted.
THEOREM SchedulerIndexMatchesBlocks == Spec => []IndexMatchesBlocks
  <1>1. EngineInv => IndexMatchesBlocks
    BY DEF EngineInv, CacheInv
  <1> QED
    BY <1>1, EngineIsInvariant, PTL

\* The batch serves the head of the line: no request is computed in a step in
\* which an older one is not, and the candidate is the next in line.
THEOREM SchedulerBatchIsHeadOfLine == Spec => []BatchIsHeadOfLine
  <1>1. EngineInv => BatchIsHeadOfLine
    <2> SUFFICES ASSUME EngineInv PROVE BatchIsHeadOfLine
      OBVIOUS
    <2>1. /\ running \in Seq(Requests) /\ preempted \in Seq(Requests)
          /\ waiting \in Seq(Requests) /\ scheduled \in Seq(Entries)
      BY EngineTypes DEF EngineInv, RunInv, RestTypes
    <2> DEFINE rest == preempted \o waiting
    <2>2. /\ rest \in Seq(Requests) /\ Line = running \o rest
          /\ (preempted # <<>> \/ waiting # <<>>) => Len(rest) # 0 /\ Candidate = rest[1]
      BY <2>1 DEF Line, Candidate
    <2> HIDE DEF rest
    <2>3. /\ Len(Line) = Len(running) + Len(rest)
          /\ \A i \in 1 .. Len(running) : Line[i] = running[i]
          /\ Len(rest) # 0 => Line[Len(running) + 1] = rest[1]
      BY <2>1, <2>2
    <2>4. ASSUME NEW i \in DOMAIN scheduled
          PROVE  i <= Len(Line) /\ scheduled[i].req = Line[i]
      <3>1. /\ i \in 1 .. Len(scheduled) /\ Len(scheduled) <= Len(running)
            /\ scheduled[i].req = running[i]
        BY <2>1 DEF EngineInv, BatchInv
      <3>2. i \in 1 .. Len(running)
        BY <2>1, <3>1
      <3> QED
        BY <2>1, <2>2, <2>3, <3>1, <3>2
    <2>5. ASSUME pc = "admit" PROVE Candidate = Line[Len(scheduled) + 1]
      <3>1. Len(scheduled) = Len(running) /\ (preempted # <<>> \/ waiting # <<>>)
        BY <2>5 DEF EngineInv, BatchInv, IInv, Queues
      <3> QED
        BY <2>2, <2>3, <3>1
    <2> QED
      BY <2>4, <2>5 DEF BatchIsHeadOfLine
  <1> QED
    BY <1>1, EngineIsInvariant, PTL

-----------------------------------------------------------------------------
(***************************************************************************)
(* What the engine does for its requests: it implements                    *)
(* GenerationService.tla, stays within the sizes the executor allocated    *)
(* for, samples at the end of a request only, computes something in every  *)
(* step, and reads and writes keys and values of nobody but the request's  *)
(* own prefix.                                                             *)
(***************************************************************************)

(* The limits of a request *)

LimitInv ==
    /\ \A r \in live :
          /\ Len(tokens[r]) < MaxModelLen
          /\ Len(tokens[r]) - numPrompt[r] < params[r].maxOutput
          /\ outcome[r] = "none"
    /\ \A r \in Requests : r > numAdded => outcome[r] = "none"

\* The engine's state as the service sees it.
serviceVars == <<numAdded, live, tokens, numPrompt, params, outcome>>

\* Without requests every limit is kept.
LEMMA InitLimits == Init => LimitInv
  BY DEF Init, LimitInv

\* The types the limits speak of.
LEMMA LimitTypes ==
    ASSUME EngineInv, NEW r \in Requests
    PROVE  /\ tokens[r] \in Seq(Tokens) /\ Len(tokens[r]) \in Nat
           /\ numPrompt[r] \in Nat /\ params[r].maxOutput \in Nat
           /\ params[r].ignoreEos \in BOOLEAN
           /\ outcome \in [Requests -> Outcomes] /\ numPrompt \in [Requests -> Nat]
           /\ params \in [Requests -> [maxOutput : Nat, ignoreEos : BOOLEAN]]
           /\ numAdded \in Nat
  <1>1. RestTypes
    BY DEF EngineInv, RunInv
  <1>2. /\ outcome \in [Requests -> Outcomes] /\ numPrompt \in [Requests -> Nat]
        /\ params \in [Requests -> [maxOutput : Nat, ignoreEos : BOOLEAN]]
    BY <1>1 DEF RestTypes
  <1>3. numAdded \in Nat /\ tokens \in [Requests -> Seq(Tokens)]
    BY EngineTypes
  <1>4. /\ numPrompt[r] \in Nat
        /\ params[r] \in [maxOutput : Nat, ignoreEos : BOOLEAN]
    BY <1>2
  <1>5. tokens[r] \in Seq(Tokens) /\ Len(tokens[r]) \in Nat
    BY <1>3
  <1> QED
    BY <1>2, <1>3, <1>4, <1>5

\* Which steps the service sees, and as what.
LEMMA ArriveService ==
    ASSUME EngineInv, LimitInv, NEW p \in Prompts, NEW m \in MaxOutputs, NEW e \in IgnoreEos,
           AddRequest(p, m, e)
    PROVE  LimitInv' /\ Service!Arrive(p, m, e)
  <1> DEFINE r == numAdded + 1
  <1>1. /\ r \in Requests /\ numAdded' = r /\ live' = live \cup {r}
        /\ tokens' = [tokens EXCEPT ![r] = p]
        /\ numPrompt' = [numPrompt EXCEPT ![r] = Len(p)]
        /\ params' = [params EXCEPT ![r] = [maxOutput |-> m, ignoreEos |-> e]]
        /\ UNCHANGED outcome
    BY DEF AddRequest
  <1>2. Service!Arrive(p, m, e)
    BY <1>1 DEF Service!Arrive, Service!Requests, Requests
  <1>3. p \in Seq(Tokens) /\ Len(p) < MaxModelLen /\ m \in Nat \ {0} /\ Len(p) \in Nat
    BY SchedulerAssumption
  <1>4. tokens'[r] = p /\ numPrompt'[r] = Len(p) /\ params'[r].maxOutput = m
    BY <1>1, EngineTypes, LimitTypes
  <1>5. \A s \in live : s # r /\ s \in Requests
    BY EngineTypes
  <1>6. \A s \in live : /\ tokens'[s] = tokens[s] /\ numPrompt'[s] = numPrompt[s]
                        /\ params'[s] = params[s]
    BY <1>1, <1>5, EngineTypes, LimitTypes
  <1>7. outcome[r] = "none"
    BY <1>1, EngineTypes DEF LimitInv
  <1>8. \A s \in live' : /\ Len(tokens'[s]) < MaxModelLen
                         /\ Len(tokens'[s]) - numPrompt'[s] < params'[s].maxOutput
                         /\ outcome'[s] = "none"
    BY <1>1, <1>3, <1>4, <1>6, <1>7 DEF LimitInv
  <1>9. \A s \in Requests : s > numAdded' => outcome'[s] = "none"
    BY <1>1, EngineTypes DEF LimitInv, Requests
  <1> QED
    BY <1>2, <1>8, <1>9 DEF LimitInv

\* A request leaves: a step of the service.
LEMMA LeaveService ==
    ASSUME EngineInv, LimitInv, NEW r \in live, NEW toks, RemoveRequest(r, toks),
           NEW why, outcome' = [outcome EXCEPT ![r] = why], numAdded' = numAdded
    PROVE  LimitInv' /\ Service!Leave(r, why)
  <1>1. /\ live' = live \ {r}
        /\ tokens' = [tokens EXCEPT ![r] = <<>>]
        /\ numPrompt' = [numPrompt EXCEPT ![r] = 0]
        /\ params' = [params EXCEPT ![r] = NoParams]
    BY DEF RemoveRequest
  <1>2. r \in Requests /\ r <= numAdded /\ outcome[r] = "none"
    BY EngineTypes DEF LimitInv
  <1>3. Service!Leave(r, why)
    BY <1>1, <1>2 DEF Service!Leave, Service!NoParams, NoParams
  <1>4. \A s \in live' : /\ s \in live /\ s # r /\ s \in Requests
                         /\ tokens'[s] = tokens[s] /\ numPrompt'[s] = numPrompt[s]
                         /\ params'[s] = params[s] /\ outcome'[s] = outcome[s]
    BY <1>1, EngineTypes, LimitTypes
  <1>5. \A s \in Requests : s > numAdded' => outcome'[s] = "none"
    <2> SUFFICES ASSUME NEW s \in Requests, s > numAdded PROVE outcome'[s] = "none"
      OBVIOUS
    <2>1. s # r /\ outcome[s] = "none"
      BY <1>2, EngineTypes DEF LimitInv, Requests
    <2> QED
      BY <2>1, LimitTypes
  <1> QED
    BY <1>3, <1>4, <1>5 DEF LimitInv

\* A sampled token is an output of the service, or the last one.
LEMMA UpdateService ==
    ASSUME EngineInv, LimitInv, NEW t \in Tokens, Update(t)
    PROVE  /\ LimitInv'
           /\ \E r \in Requests :
                 Service!Sample(r, t) \/ Service!Stop(r, t) \/ Service!ReachLength(r, t)
  <1> DEFINE r == Head(sampled)
             toks == Append(tokens[r], t)
             reason == FinishReason(r, toks, t)
  <1>1. /\ r \in live /\ r \in Requests /\ Len(toks) = Len(tokens[r]) + 1
    BY HeadOfSampled DEF Update
  <1>2. /\ reason = "running" =>
              /\ tokens' = [tokens EXCEPT ![r] = toks]
              /\ UNCHANGED <<live, numPrompt, params, outcome>>
        /\ reason # "running" =>
              RemoveRequest(r, toks) /\ outcome' = [outcome EXCEPT ![r] = reason]
        /\ numAdded' = numAdded
    BY DEF Update
  <1> DEFINE atEos == t = Eos /\ ~params[r].ignoreEos
             atLimit == Len(toks) - numPrompt[r] >= params[r].maxOutput \/ Len(toks) >= MaxModelLen
  <1>3. reason = IF atEos THEN "stop" ELSE IF atLimit THEN "length" ELSE "running"
    BY DEF FinishReason
  <1> HIDE DEF r, reason
  <1>4. Service!AtEos(r, t) <=> atEos
    BY DEF Service!AtEos
  <1>5. /\ Len(tokens[r]) < MaxModelLen
        /\ Len(tokens[r]) - numPrompt[r] < params[r].maxOutput
        /\ Len(tokens[r]) \in Nat /\ numPrompt[r] \in Nat /\ params[r].maxOutput \in Nat
        /\ MaxModelLen \in Nat
    BY <1>1, LimitTypes, SchedulerAssumption DEF LimitInv
  <1> HIDE DEF toks
  <1>6. Service!AtLimit(r) <=> atLimit
    <2>1. /\ Len(toks) - numPrompt[r] >= params[r].maxOutput
                <=> Len(tokens[r]) + 1 - numPrompt[r] = params[r].maxOutput
          /\ Len(toks) >= MaxModelLen <=> Len(tokens[r]) + 1 = MaxModelLen
      BY <1>1, <1>5
    <2> QED
      BY <2>1 DEF Service!AtLimit
  <1> HIDE DEF atEos, atLimit
  <1>7. CASE reason = "running"
    <2>1. ~atEos /\ ~atLimit
      BY <1>3, <1>7
    <2>2. Service!Sample(r, t)
      BY <1>1, <1>2, <1>4, <1>6, <1>7, <2>1 DEF Service!Sample, toks
    <2>3. /\ Len(toks) < MaxModelLen /\ Len(toks) - numPrompt[r] < params[r].maxOutput
      BY <1>1, <1>5, <2>1 DEF atLimit
    <2>4. \A s \in live : /\ s \in Requests
                          /\ tokens'[s] = IF s = r THEN toks ELSE tokens[s]
      BY <1>2, <1>7, EngineTypes
    <2>5. LimitInv'
      BY <1>2, <1>7, <2>3, <2>4 DEF LimitInv
    <2> QED
      BY <1>1, <2>2, <2>5
  <1>8. CASE reason # "running"
    <2>1. LimitInv' /\ Service!Leave(r, reason)
      BY <1>1, <1>2, <1>8, LeaveService
    <2>2. CASE atEos
      <3>1. Service!Stop(r, t)
        BY <1>1, <1>3, <1>4, <2>1, <2>2 DEF Service!Stop
      <3> QED
        BY <1>1, <2>1, <3>1
    <2>3. CASE ~atEos
      <3>1. Service!ReachLength(r, t)
        BY <1>1, <1>3, <1>4, <1>6, <1>8, <2>1, <2>3 DEF Service!ReachLength
      <3> QED
        BY <1>1, <2>1, <3>1
    <2> QED
      BY <2>2, <2>3
  <1> QED
    BY <1>7, <1>8

\* Every step of the scheduler is a step of the service, or none.
LEMMA ServiceStep ==
    ASSUME EngineInv, LimitInv, [Next]_vars
    PROVE  LimitInv' /\ [Service!Next]_(Service!vars)
  <1>1. ASSUME UNCHANGED serviceVars PROVE LimitInv' /\ UNCHANGED Service!vars
    BY <1>1 DEF LimitInv, serviceVars, Service!vars
  <1>2. ASSUME NEW p \in Prompts, NEW m \in MaxOutputs, NEW e \in IgnoreEos,
               AddRequest(p, m, e)
        PROVE  LimitInv' /\ Service!Next
    BY <1>2, ArriveService DEF Service!Next
  <1>3. ASSUME NEW r \in Requests, AbortRequest(r)
        PROVE  LimitInv' /\ [Service!Next]_(Service!vars)
    <2>1. CASE r \in live
      <3>1. /\ RemoveRequest(r, tokens[r]) /\ outcome' = [outcome EXCEPT ![r] = "aborted"]
            /\ numAdded' = numAdded
        BY <1>3, <2>1 DEF AbortRequest
      <3>2. LimitInv' /\ Service!Leave(r, "aborted")
        BY <2>1, <3>1, LeaveService
      <3> QED
        BY <2>1, <3>2 DEF Service!Next, Service!Abort, Service!Requests, Requests
    <2>2. CASE r \notin live
      <3>1. UNCHANGED serviceVars
        BY <1>3, <2>2 DEF AbortRequest, reqVars, serviceVars
      <3> QED
        BY <1>1, <3>1
    <2> QED
      BY <2>1, <2>2
  <1>4. ASSUME NEW t \in Tokens, Update(t) PROVE LimitInv' /\ Service!Next
    BY <1>4, UpdateService DEF Service!Next, Service!Requests, Requests
  <1>5. ASSUME BeginSchedule \/ ScheduleRunning \/ PreemptNewest \/ EndPass1 \/ LookupPrefix
               \/ Admit \/ Refuse \/ EndPass2 \/ RunModel \/ EndUpdate \/ UNCHANGED vars
        PROVE  LimitInv' /\ [Service!Next]_(Service!vars)
    <2>1. UNCHANGED serviceVars
      BY <1>5 DEF BeginSchedule, ScheduleRunning, PreemptNewest, EndPass1, LookupPrefix,
         Admit, Refuse, EndPass2, RunModel, EndUpdate, vars, reqVars, serviceVars
    <2> QED
      BY <1>1, <2>1
  <1> QED
    BY <1>2, <1>3, <1>4, <1>5 DEF Next, Receive, EngineStep

\* The limits of a request hold for ever.
LEMMA LimitsAreInvariant == Spec => [](EngineInv /\ LimitInv)
  <1>1. EngineInv /\ LimitInv /\ [Next]_vars => EngineInv' /\ LimitInv'
    BY EngineNextInv, ServiceStep
  <1> QED
    BY <1>1, EngineInitInv, InitLimits, PTL DEF Spec

\* Scheduling, preemption and prefix caching are invisible: every step of the
\* engine is one of the abstract service's, or one it does not see.
THEOREM SchedulerImplementsService == Spec => ImplementsService
  <1>1. Init => Service!Init
    BY DEF Init, Service!Init, Service!Requests, Requests, Service!NoParams, NoParams
  <1>2. EngineInv /\ LimitInv /\ [Next]_vars => [Service!Next]_(Service!vars)
    BY ServiceStep
  <1> QED
    BY <1>1, <1>2, LimitsAreInvariant, PTL DEF Spec, Service!Spec, ImplementsService

-----------------------------------------------------------------------------
(* The batch and the progress of the requests *)

\* Whether the next sampled token is the request's.
Pending(r) ==
    \/ r \in Elements(sampled)
    \/ \E i \in DOMAIN scheduled : scheduled[i].req = r /\ scheduled[i].needsSampling

\* An entry computes the last tokens its request counts as computed, in
\* blocks of the request's table that nobody can look up.
EntryFits(e, tb, hs, comp) ==
    /\ e.len > 0
    /\ comp[e.req] = e.offset + e.len
    /\ e.blocks = tb[e.req]
    /\ \A i \in DOMAIN tb[e.req] : hs[tb[e.req][i]] # <<>> => i * BlockSize <= e.offset

EntryInv == \A i \in DOMAIN scheduled : EntryFits(scheduled[i], table, hash, computed)

\* A request has computed everything only until its sampled token arrives;
\* between two steps a running one prefills, or has just its last token left.
Progress(r) ==
    /\ numPrefill[r] <= Len(tokens[r])
    /\ Pending(r) => computed[r] = Len(tokens[r])
    /\ ~Pending(r) =>
          /\ computed[r] < Len(tokens[r])
          /\ r \in Elements(running) =>
                \/ computed[r] < numPrefill[r] /\ numPrefill[r] = Len(tokens[r])
                \/ computed[r] >= numPrefill[r] /\ computed[r] = Len(tokens[r]) - 1

ProgressInv == \A r \in live : Progress(r)

BudgetInv == Cardinality(BatchTokens) + budget <= MaxScheduledTokens

\* A step that found requests does not end with an empty batch.
WorkInv ==
    /\ scheduled = <<>> /\ pc \in {"pass1", "pass2", "admit"} => budget = MaxScheduledTokens
    /\ pc = "pass1" /\ running = <<>> => Len(preempted) = preemptedBefore
    /\ pc = "forward" /\ live # {} => scheduled # <<>>

StepInv == EntryInv /\ ProgressInv /\ BudgetInv /\ WorkInv

\* A queue has no more elements than places.
LEMMA ElementsCount ==
    ASSUME NEW S, NEW q \in Seq(S)
    PROVE  /\ IsFiniteSet(Elements(q)) /\ Cardinality(Elements(q)) \in Nat
           /\ Cardinality(Elements(q)) <= Len(q)
  <1>1. Len(q) \in Nat /\ DOMAIN q = 1 .. Len(q)
    OBVIOUS
  <1>2. q \in Surjection(1 .. Len(q), Elements(q))
    BY <1>1, ElementsOf DEF Surjection, Elements
  <1>3. IsFiniteSet(1 .. Len(q)) /\ Cardinality(1 .. Len(q)) = Len(q)
    BY <1>1, FS_Interval
  <1>4. IsFiniteSet(Elements(q)) /\ Cardinality(Elements(q)) <= Cardinality(1 .. Len(q))
    BY <1>2, <1>3, FS_Surjection
  <1> QED
    BY <1>3, <1>4, FS_CardinalityType

\* The cache holds any one request: it gets its blocks when no other has any.
LEMMA FitsAlone ==
    ASSUME EngineInv, LimitInv, NEW r \in live, \A s \in Requests : s # r => computed[s] = 0
    PROVE  CanAllocate(r, computed[r], ChunkLen(r))
  <1>1. /\ table \in [Requests -> Seq(BlockIds)] /\ free \in Seq(BlockIds)
        /\ Elements(free) = {b \in BlockIds : Holders(b) = {}} /\ r \in Requests
        /\ \A s \in Requests : computed[s] \in Nat /\ Len(table[s]) = BlocksFor(computed[s])
    BY EngineTypes DEF EngineInv, CacheInv, CacheTypes, KVTypeOK, BlocksAccountedFor, TableFits
  <1>2. \A s \in Requests : s # r => table[s] = <<>>
    <2> SUFFICES ASSUME NEW s \in Requests, s # r PROVE table[s] = <<>>
      OBVIOUS
    <2>1. Len(table[s]) = 0 /\ table[s] \in Seq(BlockIds)
      BY <1>1, BlocksForFacts
    <2> QED
      BY <2>1, EmptySeq
  <1>3. BlockIds \subseteq Elements(free) \cup Elements(table[r])
    <2> SUFFICES ASSUME NEW b \in BlockIds, b \notin Elements(table[r])
                 PROVE  Holders(b) = {}
      BY <1>1
    <2> QED
      BY <1>2, ElementsOfEmpty DEF Holders
  <1>4. NumBlocks <= Len(free) + Len(table[r])
    <2> DEFINE F == Elements(free)
               T == Elements(table[r])
    <2>1. /\ IsFiniteSet(F) /\ Cardinality(F) \in Nat /\ Cardinality(F) <= Len(free)
          /\ IsFiniteSet(T) /\ Cardinality(T) \in Nat /\ Cardinality(T) <= Len(table[r])
      BY <1>1, ElementsCount
    <2>2. Len(free) \in Nat /\ Len(table[r]) \in Nat
      BY <1>1
    <2>3. Cardinality(BlockIds) = NumBlocks /\ NumBlocks \in Nat
      BY KVCacheAssumption, FS_Interval DEF BlockIds
    <2> HIDE DEF F, T
    <2>4. /\ IsFiniteSet(F \cup T)
          /\ Cardinality(F \cup T) = Cardinality(F) + Cardinality(T) - Cardinality(F \cap T)
      BY <2>1, FS_Union
    <2>5. IsFiniteSet(F \cap T) /\ Cardinality(F \cap T) \in Nat
      BY <2>1, FS_Intersection, FS_CardinalityType
    <2>6. Cardinality(BlockIds) <= Cardinality(F \cup T)
      BY <1>3, <2>4, FS_Subset DEF F, T
    <2>7. NumBlocks <= Cardinality(F) + Cardinality(T) - Cardinality(F \cap T)
      BY <2>3, <2>4, <2>6
    <2> QED
      BY <2>1, <2>2, <2>3, <2>5, <2>7
  <1>5. BlocksFor(computed[r] + ChunkLen(r)) <= NumBlocks
    <2> DEFINE x == computed[r] + ChunkLen(r)
    <2>1. /\ x \in Nat /\ x <= Len(tokens[r]) /\ Len(tokens[r]) \in Nat
      BY <1>1, ChunkFacts
    <2>2. x <= NumBlocks * BlockSize /\ NumBlocks \in Nat /\ NumBlocks * BlockSize \in Nat
      <3>1. Len(tokens[r]) < MaxModelLen /\ MaxModelLen \in Nat /\ MaxModelLen <= NumBlocks * BlockSize
        BY SchedulerAssumption DEF LimitInv
      <3>2. NumBlocks \in Nat /\ NumBlocks * BlockSize \in Nat
        BY KVCacheAssumption
      <3> HIDE DEF x
      <3> QED
        BY <2>1, <3>1, <3>2
    <2> HIDE DEF x
    <2>3. BlocksFor(x) <= BlocksFor(NumBlocks * BlockSize)
      BY <2>1, <2>2, BlocksForMonotone
    <2> QED
      BY <2>2, <2>3, WholeBlocks DEF x
  <1>6. BlocksFor(computed[r] + ChunkLen(r)) \in Nat
    <2> DEFINE x == computed[r] + ChunkLen(r)
    <2>1. x \in Nat
      BY <1>1, ChunkFacts
    <2> HIDE DEF x
    <2>2. BlocksFor(x) \in Nat
      BY <2>1, BlocksForFacts
    <2> QED
      BY <2>2 DEF x
  <1>7. Len(free) \in Nat /\ Len(table[r]) \in Nat /\ NumBlocks \in Nat
    BY <1>1, KVCacheAssumption
  <1> QED
    BY <1>4, <1>5, <1>6, <1>7 DEF CanAllocate, NumNewBlocks

\* Who is not in the batch: whoever stands behind it in the running queue,
\* and whoever does not run.
LEMMA NotInBatch ==
    ASSUME EngineInv
    PROVE  /\ \A r : r \notin Elements(running) => ~InBatch(r)
           /\ \A k \in 1 .. Len(running) : k > Len(scheduled) => ~InBatch(running[k])
           /\ \A i, j \in DOMAIN scheduled : scheduled[i].req = scheduled[j].req => i = j
           /\ \A i \in DOMAIN scheduled : /\ scheduled[i].req \in Elements(running)
                                          /\ scheduled[i].req \in live
                                          /\ scheduled[i].req \in Requests
  <1>1. /\ scheduled \in Seq(Entries) /\ running \in Seq(Requests) /\ Sorted(running)
        /\ DOMAIN scheduled = 1 .. Len(scheduled) /\ DOMAIN running = 1 .. Len(running)
        /\ Len(scheduled) \in Nat /\ Len(running) \in Nat
        /\ Len(scheduled) <= Len(running)
        /\ \A i \in 1 .. Len(scheduled) : scheduled[i].req = running[i]
    <2>1. scheduled \in Seq(Entries) /\ running \in Seq(Requests) /\ Sorted(running)
      BY DEF EngineInv, RunInv, RestTypes, IInv, Queues, Ordered
    <2>2. /\ DOMAIN scheduled = 1 .. Len(scheduled) /\ DOMAIN running = 1 .. Len(running)
          /\ Len(scheduled) \in Nat /\ Len(running) \in Nat
      BY <2>1
    <2> QED
      BY <2>1, <2>2 DEF EngineInv, BatchInv
  <1>2. \A i, j \in 1 .. Len(running) : running[i] = running[j] => i = j
    <2> SUFFICES ASSUME NEW i \in 1 .. Len(running), NEW j \in 1 .. Len(running),
                        running[i] = running[j], i < j
                 PROVE  FALSE
      OBVIOUS
    <2>1. running[i] \in Requests
      BY <1>1
    <2>2. running[i] \in Nat /\ running[i] < running[j]
      BY <1>1, <2>1, RequestsAreIntegers DEF Sorted
    <2> QED
      BY <2>2
  <1>3. \A i \in DOMAIN scheduled : i \in 1 .. Len(running) /\ scheduled[i].req = running[i]
    BY <1>1
  <1>4. \A i \in DOMAIN scheduled : /\ scheduled[i].req \in Elements(running)
                                    /\ scheduled[i].req \in live
                                    /\ scheduled[i].req \in Requests
    <2>1. Elements(running) \subseteq live /\ live \subseteq Requests
      BY EngineTypes
    <2>2. \A i \in 1 .. Len(running) : running[i] \in Elements(running)
      BY <1>1, ElementsOf
    <2> QED
      BY <1>3, <2>1, <2>2
  <1>5. \A k \in 1 .. Len(running) : k > Len(scheduled) => ~InBatch(running[k])
    <2> SUFFICES ASSUME NEW k \in 1 .. Len(running), k > Len(scheduled),
                        NEW i \in DOMAIN scheduled, scheduled[i].req = running[k]
                 PROVE  FALSE
      BY DEF InBatch
    <2>1. i = k
      BY <1>2, <1>3
    <2> QED
      BY <1>1, <2>1
  <1> QED
    BY <1>2, <1>3, <1>4, <1>5 DEF InBatch

\* An entry computes whole tokens from a whole position on.
LEMMA EntryTypes ==
    ASSUME EngineInv, NEW i \in DOMAIN scheduled
    PROVE  scheduled[i].offset \in Nat /\ scheduled[i].len \in Nat
  <1>1. scheduled \in Seq(Entries)
    BY DEF EngineInv, RunInv, RestTypes
  <1>2. scheduled[i] \in Entries
    BY <1>1
  <1> QED
    BY <1>2 DEF Entries

\* The types of what Progress compares.
LEMMA ProgressTypes ==
    ASSUME EngineInv, NEW r \in Requests
    PROVE  /\ tokens[r] \in Seq(Tokens) /\ Len(tokens[r]) \in Nat /\ computed[r] \in Nat
           /\ numPrefill[r] \in Nat /\ computed \in [Requests -> Nat]
           /\ numPrefill \in [Requests -> Nat] /\ budget \in Nat
           /\ tokens \in [Requests -> Seq(Tokens)]
  <1>1. computed \in [Requests -> Nat] /\ tokens \in [Requests -> Seq(Tokens)]
    BY EngineTypes
  <1>2. numPrefill \in [Requests -> Nat] /\ budget \in 0 .. MaxScheduledTokens
    BY DEF EngineInv, RunInv, RestTypes
  <1>3. budget \in Nat
    BY <1>2, SchedulerAssumption
  <1>4. tokens[r] \in Seq(Tokens) /\ computed[r] \in Nat /\ numPrefill[r] \in Nat
    BY <1>1, <1>2
  <1> QED
    BY <1>1, <1>2, <1>3, <1>4

\* A request outside the batch may change its blocks: the batch stays as it is.
LEMMA EntriesKept ==
    ASSUME EngineInv, EntryInv, NEW r \in Requests, ~InBatch(r),
           OthersKept(r, table, table', hash, hash'),
           NEW c, computed' = [computed EXCEPT ![r] = c]
    PROVE  \A i \in DOMAIN scheduled : EntryFits(scheduled[i], table', hash', computed')
  <1> SUFFICES ASSUME NEW i \in DOMAIN scheduled
               PROVE  EntryFits(scheduled[i], table', hash', computed')
    OBVIOUS
  <1> DEFINE e == scheduled[i]
             s == scheduled[i].req
  <1>1. s \in Requests /\ s # r
    BY NotInBatch DEF InBatch
  <1>2. EntryFits(e, table, hash, computed)
    BY DEF EntryInv
  <1>3. /\ table'[s] = table[s] /\ \A b \in Elements(table[s]) : hash'[b] = hash[b]
        /\ computed'[s] = computed[s]
    BY <1>1, EngineTypes DEF OthersKept
  <1>4. \A j \in DOMAIN table[s] : hash'[table[s][j]] = hash[table[s][j]]
    BY <1>3 DEF Elements
  <1> QED
    BY <1>2, <1>3, <1>4 DEF EntryFits

\* A request outside the batch gives blocks back, or gets some of its first.
LEMMA VacateStep ==
    ASSUME EngineInv, EntryInv, ProgressInv, NEW r \in Requests, ~InBatch(r), sampled = <<>>,
           OthersKept(r, table, table', hash, hash'),
           NEW c \in Nat, c < Len(tokens[r]), computed' = [computed EXCEPT ![r] = c],
           r \notin Elements(running'), Elements(running') \subseteq Elements(running),
           UNCHANGED <<live, tokens, numPrefill, scheduled, sampled>>
    PROVE  EntryInv' /\ ProgressInv'
  <1>1. EntryInv'
    BY EntriesKept DEF EntryInv
  <1>2. ASSUME NEW s \in live PROVE Progress(s)'
    <2>1. s \in Requests /\ Progress(s)
      BY EngineTypes DEF ProgressInv
    <2>2. Pending(s)' <=> Pending(s)
      BY DEF Pending, Elements
    <2>3. CASE s = r
      <3>1. ~Pending(r)
        BY ElementsOfEmpty DEF Pending, InBatch
      <3>2. computed'[r] = c
        BY EngineTypes
      <3>3. r \notin Elements(running)'
        BY DEF Elements
      <3>4. numPrefill'[r] <= Len(tokens'[r])
        BY <2>1, <2>3 DEF Progress
      <3> QED
        BY <2>2, <2>3, <3>1, <3>2, <3>3, <3>4 DEF Progress
    <2>4. CASE s # r
      <3>1. computed'[s] = computed[s]
        BY <2>1, <2>4, EngineTypes
      <3>2. s \in Elements(running)' => s \in Elements(running)
        BY DEF Elements
      <3> QED
        BY <2>1, <2>2, <3>1, <3>2 DEF Progress
    <2> QED
      BY <2>3, <2>4
  <1> QED
    BY <1>1, <1>2 DEF ProgressInv

\* A request joins the batch with the next n tokens it has not computed.
LEMMA JoinStep ==
    ASSUME EngineInv, EntryInv, ProgressInv, NEW r \in live, ~InBatch(r), sampled = <<>>,
           NEW n \in Nat, n > 0, computed[r] + n <= Len(tokens[r]),
           OthersKept(r, table, table', hash, hash'),
           HashesAreOwn(hash', table'[r], tokens[r], computed[r]),
           computed' = [computed EXCEPT ![r] = @ + n],
           NEW prefill \in Nat, numPrefill' = [numPrefill EXCEPT ![r] = prefill],
           \/ computed[r] < prefill /\ prefill = Len(tokens[r])
           \/ computed[r] >= prefill /\ computed[r] = Len(tokens[r]) - 1,
           NEW e, e.req = r, e.offset = computed[r], e.len = n, e.blocks = table'[r],
           e.needsSampling <=> computed[r] + n >= prefill,
           scheduled' = Append(scheduled, e), scheduled' \in Seq(Entries),
           Elements(running') = Elements(running) \cup {r},
           UNCHANGED <<live, tokens, sampled>>
    PROVE  EntryInv' /\ ProgressInv'
  <1>1. r \in Requests
    BY EngineTypes
  <1>2. scheduled \in Seq(Entries)
    BY DEF EngineInv, RunInv, RestTypes
  <1>3. /\ Len(scheduled') = Len(scheduled) + 1 /\ Len(scheduled) \in Nat
        /\ scheduled'[Len(scheduled) + 1] = e
        /\ \A i \in 1 .. Len(scheduled) : scheduled'[i] = scheduled[i]
        /\ DOMAIN scheduled = 1 .. Len(scheduled) /\ DOMAIN scheduled' = 1 .. Len(scheduled) + 1
    BY <1>2
  <1>4. computed[r] \in Nat /\ Len(tokens[r]) \in Nat /\ computed'[r] = computed[r] + n
        /\ \A s \in Requests : s # r => computed'[s] = computed[s]
    BY <1>1, EngineTypes
  <1>5. EntryFits(e, table', hash', computed')
    BY <1>4 DEF EntryFits, HashesAreOwn
  <1>6. EntryInv'
    <2>1. computed' = [computed EXCEPT ![r] = computed[r] + n]
      OBVIOUS
    <2>2. \A i \in DOMAIN scheduled : EntryFits(scheduled[i], table', hash', computed')
      BY <1>1, <2>1, EntriesKept
    <2>3. \A i \in DOMAIN scheduled' : scheduled'[i] = e
                                          \/ (i \in DOMAIN scheduled /\ scheduled'[i] = scheduled[i])
      BY <1>3
    <2> QED
      BY <1>5, <2>2, <2>3 DEF EntryInv
  <1>7. ASSUME NEW s \in live PROVE Progress(s)'
    <2>1. s \in Requests /\ Progress(s)
      BY EngineTypes DEF ProgressInv
    <2>2. Pending(s)' <=> IF s = r THEN computed[r] + n >= prefill ELSE Pending(s)
      <3>1. s \notin Elements(sampled)' /\ s \notin Elements(sampled)
        BY ElementsOfEmpty DEF Elements
      <3>2. CASE s = r
        <4>1. \A i \in DOMAIN scheduled : scheduled[i].req # r
          BY DEF InBatch
        <4>2. (\E i \in DOMAIN scheduled' : scheduled'[i].req = r /\ scheduled'[i].needsSampling)
                <=> e.needsSampling
          <5>1. \A i \in DOMAIN scheduled' : scheduled'[i].req = r => scheduled'[i] = e
            BY <1>3, <4>1
          <5>2. Len(scheduled) + 1 \in DOMAIN scheduled'
            BY <1>3
          <5> QED
            BY <1>3, <5>1, <5>2
        <4> QED
          BY <3>1, <3>2, <4>2 DEF Pending
      <3>3. CASE s # r
        <4>1. (\E i \in DOMAIN scheduled' : scheduled'[i].req = s /\ scheduled'[i].needsSampling)
                <=> \E i \in DOMAIN scheduled : scheduled[i].req = s /\ scheduled[i].needsSampling
          BY <1>3, <3>3
        <4> QED
          BY <3>1, <3>3, <4>1 DEF Pending
      <3> QED
        BY <3>2, <3>3
    <2>3. CASE s = r
      <3>1. numPrefill'[r] = prefill /\ tokens'[r] = tokens[r]
        BY <1>1, ProgressTypes
      <3>2. /\ prefill <= Len(tokens[r])
            /\ computed[r] + n >= prefill => computed[r] + n = Len(tokens[r])
            /\ ~(computed[r] + n >= prefill) =>
                  /\ computed[r] + n < Len(tokens[r])
                  /\ computed[r] + n < prefill /\ prefill = Len(tokens[r])
        <4> DEFINE L == Len(tokens[r])
                   c == computed[r]
        <4>0. L \in Nat /\ c \in Nat /\ c + n <= L
          BY <1>4
        <4>1. CASE computed[r] < prefill /\ prefill = Len(tokens[r])
          <5>1. c < prefill /\ prefill = L
            BY <4>1
          <5> HIDE DEF L, c
          <5>2. prefill <= L /\ (c + n >= prefill => c + n = L)
            BY <4>0, <5>1
          <5>3. ~(c + n >= prefill) => c + n < L /\ c + n < prefill
            BY <4>0, <5>1
          <5> QED
            BY <5>1, <5>2, <5>3 DEF L, c
        <4>2. CASE computed[r] >= prefill /\ computed[r] = Len(tokens[r]) - 1
          <5>1. computed[r] + n >= prefill /\ computed[r] + n = L /\ prefill <= L
            BY <1>4, <4>2
          <5> QED
            BY <5>1
        <4> QED
          BY <4>1, <4>2
      <3> QED
        BY <1>4, <2>2, <2>3, <3>1, <3>2 DEF Progress
    <2>4. CASE s # r
      <3>1. computed'[s] = computed[s] /\ numPrefill'[s] = numPrefill[s] /\ tokens'[s] = tokens[s]
        BY <1>1, <1>4, <2>1, <2>4, ProgressTypes
      <3>2. s \in Elements(running)' <=> s \in Elements(running)
        BY <2>4 DEF Elements
      <3> QED
        BY <2>1, <2>2, <2>4, <3>1, <3>2 DEF Progress
    <2> QED
      BY <2>3, <2>4
  <1> QED
    BY <1>6, <1>7 DEF ProgressInv

\* The batch takes from the budget what it is worth.
LEMMA BudgetJoin ==
    ASSUME EngineInv, BudgetInv, NEW n \in Nat, NEW e, e.len = n, e.offset \in Nat,
           scheduled' = Append(scheduled, e), budget' = budget - n, n <= budget
    PROVE  BudgetInv'
  <1> DEFINE k == Len(scheduled) + 1
             I == e.offset .. e.offset + n - 1
             T == {k} \X I
             B == BatchTokens
  <1>1. scheduled \in Seq(Entries) /\ budget \in Nat /\ MaxScheduledTokens \in Nat
    BY SchedulerAssumption DEF EngineInv, RunInv, RestTypes
  <1>2. /\ DOMAIN scheduled' = 1 .. k /\ DOMAIN scheduled = 1 .. k - 1 /\ k \in Nat
        /\ scheduled'[k] = e /\ \A i \in 1 .. k - 1 : scheduled'[i] = scheduled[i]
    BY <1>1
  <1>3. IsFiniteSet(B) /\ Cardinality(B) \in Nat
    <2>1. MaxModelLen \in Int /\ Len(scheduled) \in Int
      BY <1>1, SchedulerAssumption
    <2>2. IsFiniteSet(DOMAIN scheduled) /\ IsFiniteSet(0 .. MaxModelLen)
      BY <1>1, <2>1, FS_Interval
    <2>3. IsFiniteSet((DOMAIN scheduled) \X (0 .. MaxModelLen))
      BY <2>2, FS_Product
    <2>4. B \in SUBSET ((DOMAIN scheduled) \X (0 .. MaxModelLen))
      BY DEF BatchTokens
    <2> QED
      BY <2>3, <2>4, FS_Subset, FS_CardinalityType
  <1>4. IsFiniteSet(T) /\ Cardinality(T) = n
    <2>1. IsFiniteSet(I) /\ Cardinality(I) = n
      <3>1. e.offset \in Int /\ e.offset + n - 1 \in Int
        OBVIOUS
      <3>2. IsFiniteSet(I) /\ Cardinality(I) = IF e.offset > e.offset + n - 1 THEN 0
                                               ELSE (e.offset + n - 1) - e.offset + 1
        BY <3>1, FS_Interval
      <3> QED
        BY <3>2
    <2>2. IsFiniteSet({k}) /\ Cardinality({k}) = 1
      BY FS_Singleton
    <2> HIDE DEF I
    <2>3. IsFiniteSet({k} \X I) /\ Cardinality({k} \X I) = 1 * n
      BY <2>1, <2>2, FS_Product
    <2> QED
      BY <2>3
  <1>5. BatchTokens' \subseteq B \cup T
    <2> SUFFICES ASSUME NEW i \in 1 .. k, NEW p \in 0 .. MaxModelLen, p \in Positions(scheduled'[i])
                 PROVE  <<i, p>> \in B \cup T
      BY <1>2 DEF BatchTokens, Positions
    <2>1. CASE i = k
      BY <1>2, <2>1 DEF Positions
    <2>2. CASE i # k
      <3>1. i \in DOMAIN scheduled /\ scheduled'[i] = scheduled[i]
        BY <1>2, <2>2
      <3> QED
        BY <3>1 DEF BatchTokens
    <2> QED
      BY <2>1, <2>2
  <1> HIDE DEF B, T
  <1>6. /\ IsFiniteSet(B \cup T)
        /\ Cardinality(B \cup T) = Cardinality(B) + Cardinality(T) - Cardinality(B \cap T)
    BY <1>3, <1>4, FS_Union
  <1>7. IsFiniteSet(B \cap T) /\ Cardinality(B \cap T) \in Nat
    BY <1>3, FS_Intersection, FS_CardinalityType
  <1>8. Cardinality(BatchTokens') <= Cardinality(B \cup T) /\ Cardinality(BatchTokens') \in Nat
    BY <1>5, <1>6, FS_Subset, FS_CardinalityType
  <1>9. Cardinality(B) + budget <= MaxScheduledTokens
    BY DEF BudgetInv, B
  <1>10. Cardinality(BatchTokens') + (budget - n) <= MaxScheduledTokens
    BY <1>1, <1>3, <1>4, <1>6, <1>7, <1>8, <1>9
  <1> QED
    BY <1>10 DEF BudgetInv

\* What is scheduled and what is left of the budget is unchanged, or nothing is scheduled.
LEMMA BudgetKept ==
    /\ BudgetInv /\ UNCHANGED <<scheduled, budget>> => BudgetInv'
    /\ EngineInv' /\ scheduled' = <<>> => BudgetInv'
  <1>1. ASSUME BudgetInv, UNCHANGED <<scheduled, budget>> PROVE BudgetInv'
    BY <1>1 DEF BudgetInv, BatchTokens, Positions
  <1>2. ASSUME EngineInv', scheduled' = <<>> PROVE BudgetInv'
    <2>1. BatchTokens' = {}
      BY <1>2 DEF BatchTokens
    <2>2. budget' \in 0 .. MaxScheduledTokens
      BY <1>2 DEF EngineInv, RunInv, RestTypes
    <2>3. Cardinality(BatchTokens') = 0
      BY <2>1, FS_EmptySet
    <2>4. MaxScheduledTokens \in Nat
      BY SchedulerAssumption
    <2>5. budget' \in Int /\ budget' <= MaxScheduledTokens
      BY <2>2, <2>4
    <2>6. Cardinality(BatchTokens') + budget' <= MaxScheduledTokens
      <3>1. \A c, b, m \in Int : c = 0 /\ b <= m => c + b <= m
        OBVIOUS
      <3>2. Cardinality(BatchTokens') \in Int /\ MaxScheduledTokens \in Int
        BY <2>3, <2>4
      <3> QED
        BY <2>3, <2>5, <3>1, <3>2
    <2> QED
      BY <2>6 DEF BudgetInv
  <1> QED
    BY <1>1, <1>2

\* The request a pass is about to compute has something left to compute.
LEMMA NextHasWork ==
    ASSUME EngineInv, ProgressInv, HasRoom, NEW r \in live, ~InBatch(r), pc # "update"
    PROVE  /\ sampled = <<>> /\ ChunkLen(r) \in Nat /\ ChunkLen(r) > 0
           /\ computed[r] < Len(tokens[r]) /\ ~Pending(r)
  <1>1. sampled = <<>>
    BY DEF EngineInv, BatchInv
  <1>2. ~Pending(r) /\ r \in Requests
    BY <1>1, ElementsOfEmpty, EngineTypes DEF Pending, InBatch
  <1>3. computed[r] < Len(tokens[r])
    BY <1>2 DEF ProgressInv, Progress
  <1>4. /\ ChunkLen(r) = Len(tokens[r]) - computed[r] \/ ChunkLen(r) = budget
        /\ ChunkLen(r) \in Nat /\ computed[r] \in Nat /\ Len(tokens[r]) \in Nat
    BY <1>2, ChunkFacts
  <1>5. budget > 0
    BY DEF HasRoom
  <1> QED
    BY <1>1, <1>2, <1>3, <1>4, <1>5

\* Scheduling a running request takes its chunk from the budget.
LEMMA ScheduleStep ==
    ASSUME EngineInv, EngineInv', LimitInv, StepInv, ScheduleRunning
    PROVE  StepInv'
  <1> DEFINE r == running[cursor]
             n == ChunkLen(r)
             e == Entry(r, computed[r], n, numPrefill[r], computed[r] < numPrefill[r])
  <1>1. /\ cursor <= Len(running) /\ pc = "pass1" /\ pc' = pc /\ HasRoom
        /\ CanAllocate(r, computed[r], n)
        /\ AllocateSlots(r, tokens[r], computed[r], n)
        /\ budget' = budget - n
        /\ scheduled' = Append(scheduled, e)
        /\ computed' = [computed EXCEPT ![r] = @ + n]
        /\ UNCHANGED <<running, live, tokens, numPrefill, sampled>>
    BY DEF ScheduleRunning, InPass1, queueVars
  <1>2. /\ cursor \in 1 .. Len(running) /\ cursor > Len(scheduled)
        /\ r \in Elements(running) /\ r \in live /\ r \in Requests
    <2>1. /\ cursor \in Nat \ {0} /\ cursor = Len(scheduled) + 1 /\ running \in Seq(Requests)
          /\ scheduled \in Seq(Entries)
      BY <1>1, EngineTypes DEF EngineInv, IInv, Queues, BatchInv, RunInv, RestTypes
    <2>2. cursor \in 1 .. Len(running) /\ cursor > Len(scheduled)
      BY <1>1, <2>1
    <2> QED
      BY <2>1, <2>2, EngineTypes, ElementsOf
  <1>3. ~InBatch(r)
    BY <1>2, NotInBatch
  <1> HIDE DEF r
  <1>4. /\ sampled = <<>> /\ n \in Nat /\ n > 0 /\ ~Pending(r)
        /\ n <= budget /\ computed[r] + n <= Len(tokens[r])
    BY <1>1, <1>2, <1>3, NextHasWork, ChunkFacts DEF StepInv
  <1> HIDE DEF n
  <1>5. /\ OthersKept(r, table, table', hash, hash')
        /\ HashesAreOwn(hash', table'[r], tokens[r], computed[r])
    BY <1>1, <1>2, <1>4, AllocateCache DEF EngineInv
  <1>6. /\ e.req = r /\ e.offset = computed[r] /\ e.len = n /\ e.blocks = table'[r]
        /\ e.needsSampling <=> computed[r] + n >= numPrefill[r]
    BY DEF Entry, ReachesEnd
  <1> HIDE DEF e
  <1>7. scheduled' \in Seq(Entries)
    BY DEF EngineInv, RunInv, RestTypes
  <1>8. EntryInv' /\ ProgressInv'
    <2>1. /\ numPrefill[r] \in Nat /\ numPrefill' = [numPrefill EXCEPT ![r] = numPrefill[r]]
      BY <1>1, <1>2, ProgressTypes
    <2>2. \/ computed[r] < numPrefill[r] /\ numPrefill[r] = Len(tokens[r])
          \/ computed[r] >= numPrefill[r] /\ computed[r] = Len(tokens[r]) - 1
      BY <1>2, <1>4 DEF StepInv, ProgressInv, Progress
    <2>3. Elements(running') = Elements(running) \cup {r}
      BY <1>1, <1>2
    <2> QED
      BY <1>1, <1>2, <1>3, <1>4, <1>5, <1>6, <1>7, <2>1, <2>2, <2>3, JoinStep DEF StepInv
  <1>9. BudgetInv'
    <2>1. e.offset \in Nat
      BY <1>2, <1>6, ProgressTypes
    <2> QED
      BY <1>1, <1>4, <1>6, <2>1, BudgetJoin DEF StepInv
  <1>10. WorkInv'
    <2>1. scheduled' # <<>>
      <3>1. Len(scheduled') = Len(scheduled) + 1 /\ Len(scheduled) \in Nat
        <4>1. scheduled \in Seq(Entries)
          BY DEF EngineInv, RunInv, RestTypes
        <4> QED
          BY <1>1, <4>1
      <3> QED
        BY <3>1
    <2>2. running' # <<>>
      BY <1>1, <1>2, ElementsOfEmpty
    <2> QED
      BY <1>1, <2>1, <2>2 DEF WorkInv
  <1> QED
    BY <1>8, <1>9, <1>10 DEF StepInv

\* Preemption takes a request out that is not scheduled yet.
LEMMA PreemptStep ==
    ASSUME EngineInv, EngineInv', LimitInv, StepInv, PreemptNewest
    PROVE  StepInv'
  <1> DEFINE v == Victim
  <1>1. /\ cursor <= Len(running) /\ pc = "pass1" /\ pc' = pc
        /\ ~CanAllocate(running[cursor], computed[running[cursor]], ChunkLen(running[cursor]))
        /\ ReleaseBlocks(v, tokens[v], computed[v])
        /\ computed' = [computed EXCEPT ![v] = 0]
        /\ running' = Without(running, v)
        /\ UNCHANGED <<live, tokens, numPrefill, scheduled, budget, sampled>>
    BY DEF PreemptNewest, InPass1, passVars
  <1>2. /\ running \in Seq(Requests) /\ Sorted(running) /\ Len(running) \in Nat \ {0}
        /\ cursor \in 1 .. Len(running) /\ cursor = Len(scheduled) + 1
        /\ scheduled \in Seq(Entries) /\ Len(scheduled) \in Nat
    <2>1. /\ cursor \in Nat \ {0} /\ cursor = Len(scheduled) + 1 /\ running \in Seq(Requests)
          /\ scheduled \in Seq(Entries) /\ Sorted(running)
      BY <1>1 DEF EngineInv, IInv, Queues, Ordered, BatchInv, RunInv, RestTypes
    <2> QED
      BY <1>1, <2>1
  <1>3. v \in Requests /\ v \in Elements(running) /\ v \in live /\ ~InBatch(v)
    <2>1. Len(running) \in 1 .. Len(running) /\ Len(running) > Len(scheduled)
      BY <1>2
    <2> QED
      BY <1>2, <2>1, EngineTypes, ElementsOf, NotInBatch DEF Victim
  <1>4. sampled = <<>>
    BY <1>1 DEF EngineInv, BatchInv
  <1>5. EntryInv' /\ ProgressInv'
    <2> HIDE DEF v
    <2>1. /\ tokens[v] \in Seq(Tokens) /\ computed[v] <= Len(tokens[v])
          /\ HashesAreOwn(hash, table[v], tokens[v], computed[v])
          /\ tokens' = [tokens EXCEPT ![v] = tokens[v]]
      BY <1>1, <1>3, EngineTypes DEF TableFits
    <2>2. OthersKept(v, table, table', hash, hash')
      BY <1>1, <1>3, <2>1, ReleaseCache DEF EngineInv
    <2>3. 0 < Len(tokens[v])
      <3>1. tokens[v] # <<>>
        BY <1>3 DEF EngineInv, RunInv
      <3> QED
        BY <2>1, <3>1, EmptySeq
    <2>4. Elements(running') = Elements(running) \ {v}
      BY <1>1, <1>2, WithoutOfSorted
    <2> QED
      BY <1>1, <1>3, <1>4, <2>2, <2>3, <2>4, VacateStep DEF StepInv
  <1>6. BudgetInv'
    BY <1>1, BudgetKept DEF StepInv
  <1>7. running' # <<>>
    <2> SUFFICES ASSUME running' = <<>> PROVE FALSE
      OBVIOUS
    <2>1. Len(running) = 1
      <3>1. Len(running') = Len(running) - 1
        BY <1>1, <1>2, WithoutLast, EmptySeq DEF Victim
      <3> QED
        BY <1>2, <3>1
    <2>2. running[cursor] = v /\ \A x \in Elements(running) : x = v
      BY <1>2, <2>1 DEF Elements, Victim
    <2>3. \A s \in Requests : s # v => computed[s] = 0
      BY <1>1, <2>2 DEF EngineInv, RunInv
    <2> QED
      BY <1>1, <1>3, <2>2, <2>3, FitsAlone
  <1>8. WorkInv'
    BY <1>1, <1>7 DEF StepInv, WorkInv
  <1> QED
    BY <1>5, <1>6, <1>8 DEF StepInv

\* The lookup only changes what is computed of a request that does not run.
LEMMA LookupStep ==
    ASSUME EngineInv, EngineInv', LimitInv, StepInv, LookupPrefix
    PROVE  StepInv'
  <1> DEFINE r == Candidate
             c == NumReused(tokens[r])
  <1>1. /\ preempted # <<>> \/ waiting # <<>>
        /\ pc = "pass2" /\ pc' = "admit"
        /\ ReusePrefix(r, tokens[r])
        /\ computed' = [computed EXCEPT ![r] = c]
        /\ UNCHANGED <<running, live, tokens, numPrefill, scheduled, budget, sampled>>
    BY DEF LookupPrefix, InPass2, queueVars, passVars
  <1>2. /\ r \in Requests /\ r \in live /\ computed[r] = 0 /\ tokens[r] # <<>>
        /\ r \notin Elements(running) /\ ~InBatch(r)
    BY <1>1, CandidateFacts, NotInBatch DEF EngineInv, RunInv
  <1>3. sampled = <<>>
    BY <1>1 DEF EngineInv, BatchInv
  <1> HIDE DEF r
  <1>4. OthersKept(r, table, table', hash, hash') /\ c \in Nat /\ c < Len(tokens[r])
    BY <1>1, <1>2, ReuseCache DEF EngineInv
  <1> HIDE DEF c
  <1>5. EntryInv' /\ ProgressInv'
    BY <1>1, <1>2, <1>3, <1>4, VacateStep DEF StepInv
  <1>6. BudgetInv'
    BY <1>1, BudgetKept DEF StepInv
  <1>7. WorkInv'
    BY <1>1 DEF StepInv, WorkInv
  <1> QED
    BY <1>5, <1>6, <1>7 DEF StepInv

\* Admission takes the candidate's chunk from the budget.
LEMMA AdmitStep ==
    ASSUME EngineInv, EngineInv', LimitInv, StepInv, Admit
    PROVE  StepInv'
  <1> DEFINE r == Candidate
             n == ChunkLen(r)
             e == Entry(r, computed[r], n, Len(tokens[r]), TRUE)
  <1>1. /\ pc = "admit" /\ pc' = "pass2"
        /\ CanAllocate(r, computed[r], n)
        /\ AllocateSlots(r, tokens[r], computed[r], n)
        /\ numPrefill' = [numPrefill EXCEPT ![r] = Len(tokens[r])]
        /\ budget' = budget - n
        /\ scheduled' = Append(scheduled, e)
        /\ computed' = [computed EXCEPT ![r] = @ + n]
        /\ running' = Append(running, r)
        /\ UNCHANGED <<live, tokens, sampled>>
    BY DEF Admit
  <1>2. /\ r \in Requests /\ r \in live /\ r \notin Elements(running) /\ ~InBatch(r)
        /\ HasRoom
    BY <1>1, CandidateFacts, NotInBatch DEF EngineInv, IInv, Queues, BatchInv
  <1> HIDE DEF r
  <1>3. /\ sampled = <<>> /\ n \in Nat /\ n > 0 /\ computed[r] < Len(tokens[r])
        /\ n <= budget /\ computed[r] + n <= Len(tokens[r]) /\ Len(tokens[r]) \in Nat
    BY <1>1, <1>2, NextHasWork, ChunkFacts DEF StepInv
  <1> HIDE DEF n
  <1>4. /\ OthersKept(r, table, table', hash, hash')
        /\ HashesAreOwn(hash', table'[r], tokens[r], computed[r])
    BY <1>1, <1>2, <1>3, AllocateCache DEF EngineInv
  <1>5. /\ e.req = r /\ e.offset = computed[r] /\ e.len = n /\ e.blocks = table'[r]
        /\ e.needsSampling <=> computed[r] + n >= Len(tokens[r])
    BY DEF Entry, ReachesEnd
  <1> HIDE DEF e
  <1>6. scheduled' \in Seq(Entries)
    BY DEF EngineInv, RunInv, RestTypes
  <1>7. EntryInv' /\ ProgressInv'
    <2>1. Elements(running') = Elements(running) \cup {r}
      BY <1>1, <1>2, EngineTypes, AppendFacts
    <2> QED
      BY <1>1, <1>2, <1>3, <1>4, <1>5, <1>6, <2>1, JoinStep DEF StepInv
  <1>8. BudgetInv'
    <2>1. e.offset \in Nat
      BY <1>2, <1>5, ProgressTypes
    <2> QED
      BY <1>1, <1>3, <1>5, <2>1, BudgetJoin DEF StepInv
  <1>9. WorkInv'
    <2>1. scheduled \in Seq(Entries)
      BY DEF EngineInv, RunInv, RestTypes
    <2>2. Len(scheduled') = Len(scheduled) + 1 /\ Len(scheduled) \in Nat
      BY <1>1, <2>1
    <2>3. scheduled' # <<>>
      BY <2>2
    <2> QED
      BY <1>1, <2>3 DEF WorkInv
  <1> QED
    BY <1>7, <1>8, <1>9 DEF StepInv

\* A refused candidate is as it was before the lookup.
LEMMA RefuseStep ==
    ASSUME EngineInv, EngineInv', LimitInv, StepInv, Refuse
    PROVE  StepInv'
  <1> DEFINE r == Candidate
  <1>1. /\ pc = "admit" /\ pc' = "forward"
        /\ ~CanAllocate(r, computed[r], ChunkLen(r))
        /\ ReleaseBlocks(r, tokens[r], computed[r])
        /\ computed' = [computed EXCEPT ![r] = 0]
        /\ UNCHANGED <<running, live, tokens, numPrefill, scheduled, budget, sampled>>
    BY DEF Refuse, queueVars, passVars
  <1>2. /\ r \in Requests /\ r \in live /\ r \notin Elements(running) /\ ~InBatch(r)
        /\ HasRoom /\ Len(scheduled) = Len(running) /\ sampled = <<>>
    BY <1>1, CandidateFacts, NotInBatch DEF EngineInv, IInv, Queues, BatchInv
  <1>3. \A s \in Requests : computed[s] # 0 => s \in Elements(running) \/ s = r
    BY DEF EngineInv, RunInv
  <1> HIDE DEF r
  <1>4. EntryInv' /\ ProgressInv'
    <2>1. /\ tokens[r] \in Seq(Tokens) /\ computed[r] <= Len(tokens[r])
          /\ HashesAreOwn(hash, table[r], tokens[r], computed[r])
          /\ tokens' = [tokens EXCEPT ![r] = tokens[r]]
      BY <1>1, <1>2, EngineTypes DEF TableFits
    <2>2. OthersKept(r, table, table', hash, hash')
      BY <1>1, <1>2, <2>1, ReleaseCache DEF EngineInv
    <2>3. 0 < Len(tokens[r])
      <3>1. tokens[r] # <<>>
        BY <1>2 DEF EngineInv, RunInv
      <3> QED
        BY <2>1, <3>1, EmptySeq
    <2> QED
      BY <1>1, <1>2, <2>2, <2>3, VacateStep DEF StepInv
  <1>5. BudgetInv'
    BY <1>1, BudgetKept DEF StepInv
  <1>6. scheduled # <<>>
    <2> SUFFICES ASSUME scheduled = <<>> PROVE FALSE
      OBVIOUS
    <2>1. running = <<>>
      <3>1. Len(running) = 0 /\ running \in Seq(Requests)
        BY <1>2, EngineTypes
      <3> QED
        BY <3>1, EmptySeq
    <2>2. \A s \in Requests : s # r => computed[s] = 0
      BY <1>3, <2>1, ElementsOfEmpty
    <2> QED
      BY <1>1, <1>2, <2>2, FitsAlone
  <1>7. WorkInv'
    BY <1>1, <1>6 DEF WorkInv
  <1> QED
    BY <1>4, <1>5, <1>7 DEF StepInv

\* What was to be sampled is sampled.
LEMMA RunModelStep ==
    ASSUME EngineInv, EngineInv', LimitInv, StepInv, RunModel
    PROVE  StepInv'
  <1>1. /\ pc = "forward" /\ pc' = "update" /\ scheduled' = <<>>
        /\ UNCHANGED <<running, live, tokens, numPrefill, computed>>
    BY DEF RunModel, reqVars, queueVars
  <1>2. sampled = <<>>
    BY <1>1 DEF EngineInv, BatchInv
  <1>3. EntryInv' /\ WorkInv'
    BY <1>1 DEF EntryInv, WorkInv
  <1>4. \A r : Pending(r)' <=> Pending(r)
    <2> TAKE r
    <2>1. r \in Elements(sampled') <=>
             \E i \in DOMAIN scheduled : scheduled[i].req = r /\ scheduled[i].needsSampling
      BY SampledRequests
    <2>2. r \notin Elements(sampled)
      BY <1>2, ElementsOfEmpty
    <2>3. ~\E i \in DOMAIN scheduled' : scheduled'[i].req = r /\ scheduled'[i].needsSampling
      BY <1>1
    <2>4. Elements(sampled)' = Elements(sampled')
      BY DEF Elements
    <2> QED
      BY <2>1, <2>2, <2>3, <2>4 DEF Pending
  <1>5. ProgressInv'
    <2>1. Elements(running)' = Elements(running)
      BY <1>1 DEF Elements
    <2> QED
      BY <1>1, <1>4, <2>1 DEF StepInv, ProgressInv, Progress
  <1>6. BudgetInv'
    BY <1>1, BudgetKept
  <1> QED
    BY <1>3, <1>5, <1>6 DEF StepInv

\* A request leaves between two batches.
LEMMA RemoveStep ==
    ASSUME EngineInv, EngineInv', StepInv, NEW r \in live, NEW toks, RemoveRequest(r, toks),
           pc \in {"inputs", "update"}, UNCHANGED <<pc, passVars>>,
           \A s : s # r => (s \in Elements(sampled') <=> s \in Elements(sampled))
    PROVE  StepInv'
  <1>1. /\ live' = live \ {r}
        /\ running' = IF status[r] = "running" THEN Without(running, r) ELSE running
        /\ tokens' = [tokens EXCEPT ![r] = <<>>]
        /\ numPrefill' = [numPrefill EXCEPT ![r] = 0]
        /\ computed' = [computed EXCEPT ![r] = 0]
        /\ scheduled = <<>> /\ scheduled' = <<>>
    BY DEF RemoveRequest, EngineInv, RunInv, passVars
  <1>2. EntryInv' /\ WorkInv' /\ BudgetInv'
    BY <1>1, BudgetKept DEF EntryInv, WorkInv
  <1>3. ASSUME NEW s \in live' PROVE Progress(s)'
    <2>1. s # r /\ s \in live /\ s \in Requests /\ Progress(s)
      BY <1>1, EngineTypes DEF StepInv, ProgressInv
    <2>2. computed'[s] = computed[s] /\ numPrefill'[s] = numPrefill[s] /\ tokens'[s] = tokens[s]
      BY <1>1, <2>1, EngineTypes, ProgressTypes
    <2>3. s \in Elements(running)' <=> s \in Elements(running)
      <3>1. running \in Seq(Requests) /\ Sorted(running)
        BY DEF EngineInv, IInv, Queues, Ordered
      <3>2. s \in Elements(running') <=> s \in Elements(running)
        BY <1>1, <2>1, <3>1, WithoutOfSorted
      <3> QED
        BY <3>2 DEF Elements
    <2>4. Pending(s)' <=> Pending(s)
      <3>1. s \in Elements(sampled)' <=> s \in Elements(sampled)
        BY <2>1 DEF Elements
      <3> QED
        BY <1>1, <3>1 DEF Pending
    <2> QED
      BY <2>1, <2>2, <2>3, <2>4 DEF Progress
  <1> QED
    BY <1>2, <1>3 DEF StepInv, ProgressInv

\* A sampled request that goes on has its new token left to compute.
LEMMA UpdateStep ==
    ASSUME EngineInv, EngineInv', LimitInv, StepInv, NEW t \in Tokens, Update(t)
    PROVE  StepInv'
  <1> DEFINE r == Head(sampled)
             toks == Append(tokens[r], t)
             reason == FinishReason(r, toks, t)
  <1>1. /\ pc = "update" /\ sampled # <<>> /\ sampled' = Tail(sampled)
        /\ UNCHANGED <<pc, passVars>> /\ scheduled = <<>> /\ scheduled' = <<>>
    BY DEF Update, passVars, EngineInv, RunInv
  <1>2. /\ sampled \in Seq(Requests) /\ Injective(sampled)
        /\ r \in Elements(sampled) /\ r \notin Elements(sampled')
        /\ Elements(sampled) = Elements(sampled') \cup {r}
    <2>1. sampled \in Seq(Requests) /\ Injective(sampled)
      BY DEF EngineInv, RunInv, RestTypes, BatchInv
    <2> QED
      BY <1>1, <2>1, TailFacts
  <1>3. r \in live /\ r \in Requests /\ Len(toks) = Len(tokens[r]) + 1
    BY <1>1, HeadOfSampled
  <1>4. CASE reason = "running"
    <2>1. /\ tokens' = [tokens EXCEPT ![r] = toks]
          /\ UNCHANGED <<running, live, numPrefill, computed>>
      BY <1>4 DEF Update, queueVars
    <2> HIDE DEF r, toks
    <2>2. EntryInv' /\ WorkInv' /\ BudgetInv'
      BY <1>1, BudgetKept DEF EntryInv, WorkInv
    <2>3. ASSUME NEW s \in live PROVE Progress(s)'
      <3>1. s \in Requests /\ Progress(s)
        BY EngineTypes DEF StepInv, ProgressInv
      <3>2. Elements(running)' = Elements(running) /\ Elements(sampled)' = Elements(sampled')
        BY <2>1 DEF Elements
      <3>3. CASE s = r
        <4>1. Pending(s) /\ ~Pending(s)'
          <5>1. Pending(s)
            BY <1>2, <3>3 DEF Pending
          <5>2. ~\E i \in DOMAIN scheduled' :
                    scheduled'[i].req = s /\ scheduled'[i].needsSampling
            BY <1>1
          <5>3. s \notin Elements(sampled)'
            BY <1>2, <3>2, <3>3
          <5>4. Pending(s)' <=> \/ s \in Elements(sampled)'
                                \/ \E i \in DOMAIN scheduled' :
                                      scheduled'[i].req = s /\ scheduled'[i].needsSampling
            BY DEF Pending
          <5> QED
            BY <5>1, <5>2, <5>3, <5>4
        <4>2. computed[r] = Len(tokens[r]) /\ numPrefill[r] <= Len(tokens[r])
          BY <3>1, <3>3, <4>1 DEF Progress
        <4>3. tokens'[r] = toks /\ Len(tokens[r]) \in Nat /\ numPrefill[r] \in Nat
          BY <1>3, <2>1, ProgressTypes
        <4>4. /\ numPrefill[r] <= Len(toks) /\ computed[r] < Len(toks)
              /\ computed[r] >= numPrefill[r] /\ computed[r] = Len(toks) - 1
          BY <1>3, <4>2, <4>3
        <4>5. computed'[s] = computed[r] /\ numPrefill'[s] = numPrefill[r] /\ tokens'[s] = toks
          BY <2>1, <3>3, <4>3
        <4> QED
          BY <4>1, <4>4, <4>5 DEF Progress
      <3>4. CASE s # r
        <4>1. tokens'[s] = tokens[s]
          BY <2>1, <3>1, <3>4, ProgressTypes
        <4>2. Pending(s)' <=> Pending(s)
          BY <1>1, <1>2, <3>2, <3>4 DEF Pending
        <4> QED
          BY <2>1, <3>1, <3>2, <4>1, <4>2 DEF Progress
      <3> QED
        BY <3>3, <3>4
    <2> QED
      BY <2>1, <2>2, <2>3 DEF StepInv, ProgressInv
  <1>5. CASE reason # "running"
    <2>1. RemoveRequest(r, toks)
      BY <1>5 DEF Update
    <2> HIDE DEF r, toks
    <2> QED
      BY <1>1, <1>2, <1>3, <2>1, RemoveStep
  <1> QED
    BY <1>4, <1>5

\* A new request has its prompt to compute.
LEMMA AddStep ==
    ASSUME EngineInv, EngineInv', StepInv, NEW p \in Prompts, NEW m \in MaxOutputs,
           NEW e \in IgnoreEos, AddRequest(p, m, e)
    PROVE  StepInv'
  <1> DEFINE r == numAdded + 1
  <1>1. /\ r \in Requests /\ pc = "inputs" /\ pc' = pc
        /\ live' = live \cup {r}
        /\ tokens' = [tokens EXCEPT ![r] = p]
        /\ numPrefill' = [numPrefill EXCEPT ![r] = Len(p)]
        /\ computed' = [computed EXCEPT ![r] = 0]
        /\ UNCHANGED <<running, scheduled, sampled>>
        /\ scheduled = <<>> /\ sampled = <<>>
    BY DEF AddRequest, passVars, EngineInv, RunInv, BatchInv
  <1>2. Len(p) \in Nat /\ Len(p) > 0
    BY SchedulerAssumption
  <1>3. r \notin live
    BY EngineTypes
  <1>4. EntryInv' /\ WorkInv' /\ BudgetInv'
    BY <1>1, BudgetKept DEF EntryInv, WorkInv
  <1>5. Elements(running)' = Elements(running) /\ Elements(running) \subseteq live
    BY <1>1, EngineTypes DEF Elements
  <1>6. \A s : ~Pending(s) /\ ~Pending(s)'
    BY <1>1, ElementsOfEmpty DEF Pending, Elements
  <1> HIDE DEF r
  <1>7. ASSUME NEW s \in live' PROVE Progress(s)'
    <2>1. s \in Requests
      BY <1>1, EngineTypes
    <2>2. CASE s = r
      <3>1. tokens'[r] = p /\ numPrefill'[r] = Len(p) /\ computed'[r] = 0
        BY <1>1, <2>1, ProgressTypes
      <3> QED
        BY <1>2, <1>3, <1>5, <1>6, <2>2, <3>1 DEF Progress
    <2>3. CASE s # r
      <3>1. tokens'[s] = tokens[s] /\ numPrefill'[s] = numPrefill[s] /\ computed'[s] = computed[s]
        BY <1>1, <2>1, <2>3, EngineTypes, ProgressTypes
      <3>2. Progress(s)
        BY <1>1, <2>3 DEF StepInv, ProgressInv
      <3> QED
        BY <1>5, <1>6, <3>1, <3>2 DEF Progress
    <2> QED
      BY <2>2, <2>3
  <1> QED
    BY <1>4, <1>7 DEF StepInv, ProgressInv

\* The steps that only move the engine's thread.
LEMMA MoveStep ==
    ASSUME StepInv, UNCHANGED <<kvVars, reqVars, queueVars, sampled>>,
           scheduled' = scheduled, BudgetInv', WorkInv'
    PROVE  StepInv'
  <1>1. EntryInv'
    BY DEF StepInv, EntryInv, kvVars, reqVars
  <1>2. \A s : Pending(s)' <=> Pending(s)
    BY DEF Pending, Elements
  <1>3. Elements(running)' = Elements(running)
    BY DEF Elements, queueVars
  <1>4. ProgressInv'
    BY <1>2, <1>3 DEF StepInv, ProgressInv, Progress, reqVars
  <1> QED
    BY <1>1, <1>4 DEF StepInv

\* A step begins with the whole budget and no batch.
LEMMA BeginStep ==
    ASSUME EngineInv, EngineInv', StepInv, BeginSchedule
    PROVE  StepInv'
  <1>1. /\ pc = "inputs" /\ pc' = "pass1" /\ budget' = MaxScheduledTokens
        /\ preemptedBefore' = Len(preempted) /\ scheduled' = <<>> /\ scheduled = <<>>
        /\ UNCHANGED <<kvVars, reqVars, queueVars, sampled>>
    BY DEF BeginSchedule, EngineInv, RunInv
  <1>2. BudgetInv'
    BY <1>1, BudgetKept
  <1>3. WorkInv'
    BY <1>1 DEF WorkInv, queueVars
  <1> QED
    BY <1>1, <1>2, <1>3, MoveStep

\* With an empty batch a pass ends only when nobody is left to serve.
LEMMA EndPassStep ==
    ASSUME EngineInv, EngineInv', StepInv, EndPass1 \/ EndPass2 \/ EndUpdate
    PROVE  StepInv'
  <1>1. UNCHANGED <<kvVars, reqVars, queueVars, passVars, sampled>>
    BY DEF EndPass1, EndPass2, EndUpdate
  <1>2. BudgetInv'
    BY <1>1, BudgetKept DEF passVars, StepInv
  <1>3. pc' # "pass1" /\ pc' # "admit"
    BY DEF EndPass1, EndPass2, EndUpdate
  <1>4. pc' = "pass2" => pc = "pass1"
    BY DEF EndPass1, EndPass2, EndUpdate
  <1>5. ASSUME pc' = "forward", scheduled = <<>>, live # {} PROVE FALSE
    <2>1. /\ pc = "pass1" \/ pc = "pass2"
          /\ pc = "pass1" => EndPass1
          /\ pc = "pass2" => EndPass2
      <3>1. ~EndUpdate
        BY <1>5 DEF EndUpdate
      <3>2. EndPass1 => pc = "pass1"
        BY DEF EndPass1
      <3>3. EndPass2 => pc = "pass2"
        BY DEF EndPass2
      <3> QED
        BY <3>1, <3>2, <3>3
    <2>2. budget = MaxScheduledTokens
      BY <1>5, <2>1 DEF StepInv, WorkInv
    <2>3. HasRoom
      BY <1>5, <2>2, SchedulerAssumption DEF HasRoom
    <2>4. CASE pc = "pass1"
      <3>1. running # <<>>
        BY <1>5, <2>1, <2>4 DEF EndPass1, StepInv, WorkInv
      <3>2. cursor = 1 /\ cursor <= Len(running)
        <4>1. Len(running) \in Nat \ {0}
          BY <3>1, EngineTypes, EmptySeq
        <4>2. cursor = Len(scheduled) + 1
          BY <2>4 DEF EngineInv, BatchInv
        <4> QED
          BY <1>5, <4>1, <4>2
      <3> QED
        BY <2>1, <2>3, <2>4, <3>2 DEF EndPass1, InPass1
    <2>5. CASE pc = "pass2"
      <3>1. Len(running) = 0
        BY <1>5, <2>3, <2>5 DEF EngineInv, BatchInv
      <3>2. running = <<>>
        BY <3>1, EngineTypes, EmptySeq
      <3>3. preempted = <<>> /\ waiting = <<>>
        BY <2>1, <2>3, <2>5 DEF EndPass2, InPass2
      <3>4. live = {}
        BY <3>2, <3>3, EngineTypes, ElementsOfEmpty
      <3> QED
        BY <1>5, <3>4
    <2> QED
      BY <2>1, <2>4, <2>5
  <1>6. WorkInv'
    BY <1>1, <1>3, <1>4, <1>5 DEF StepInv, WorkInv, passVars, reqVars
  <1> QED
    BY <1>1, <1>2, <1>6, MoveStep DEF passVars

\* Every step keeps what is said of a step.
LEMMA StepNextInv ==
    ASSUME EngineInv, EngineInv', LimitInv, StepInv, [Next]_vars
    PROVE  StepInv'
  <1>1. ASSUME NEW p \in Prompts, NEW m \in MaxOutputs, NEW e \in IgnoreEos,
               AddRequest(p, m, e)
        PROVE  StepInv'
    BY <1>1, AddStep
  <1>2. ASSUME NEW r \in Requests, AbortRequest(r) PROVE StepInv'
    <2>1. CASE r \in live
      <3>1. /\ RemoveRequest(r, tokens[r]) /\ pc = "inputs"
            /\ UNCHANGED <<pc, passVars, sampled>>
        BY <1>2, <2>1 DEF AbortRequest
      <3>2. Elements(sampled') = Elements(sampled)
        BY <3>1
      <3> QED
        BY <2>1, <3>1, <3>2, RemoveStep
    <2>2. CASE r \notin live
      <3>1. /\ UNCHANGED <<kvVars, reqVars, queueVars, passVars, sampled>> /\ pc' = "inputs"
        BY <1>2, <2>2 DEF AbortRequest
      <3>2. BudgetInv' /\ WorkInv'
        BY <3>1, BudgetKept DEF StepInv, WorkInv, passVars
      <3> QED
        BY <3>1, <3>2, MoveStep DEF passVars
    <2> QED
      BY <2>1, <2>2
  <1>3. ASSUME NEW t \in Tokens, Update(t) PROVE StepInv'
    BY <1>3, UpdateStep
  <1>4. CASE UNCHANGED vars
    <2>1. BudgetInv' /\ WorkInv'
      BY <1>4, BudgetKept DEF StepInv, WorkInv, vars, passVars, reqVars, queueVars
    <2> QED
      BY <1>4, <2>1, MoveStep DEF vars, passVars
  <1> QED
    BY <1>1, <1>2, <1>3, <1>4, BeginStep, ScheduleStep, PreemptStep, LookupStep, AdmitStep,
       RefuseStep, RunModelStep, EndPassStep DEF Next, Receive, EngineStep

\* Before the first request nothing is scheduled.
LEMMA InitStep == Init => StepInv
  <1> SUFFICES ASSUME Init PROVE StepInv
    OBVIOUS
  <1>1. scheduled = <<>> /\ live = {} /\ budget = 0 /\ pc = "inputs"
    BY DEF Init
  <1>2. BudgetInv
    <2>1. BatchTokens = {}
      BY <1>1 DEF BatchTokens
    <2>2. Cardinality(BatchTokens) = 0 /\ MaxScheduledTokens \in Nat
      BY <2>1, FS_EmptySet, SchedulerAssumption
    <2>3. Cardinality(BatchTokens) + budget <= MaxScheduledTokens
      BY <1>1, <2>2
    <2> QED
      BY <2>3 DEF BudgetInv
  <1> QED
    BY <1>1, <1>2 DEF StepInv, EntryInv, ProgressInv, WorkInv

\* What is said of a step holds for ever.
LEMMA StepIsInvariant == Spec => [](EngineInv /\ LimitInv /\ StepInv)
  <1>1. EngineInv /\ LimitInv /\ StepInv /\ [Next]_vars => EngineInv' /\ LimitInv' /\ StepInv'
    BY EngineNextInv, ServiceStep, StepNextInv
  <1> QED
    BY <1>1, EngineInitInv, InitLimits, InitStep, PTL DEF Spec

\* The batch, and the requests that run, stay within the sizes the executor
\* allocated its buffers for.
THEOREM SchedulerWithinLimits == Spec => []WithinLimits
  <1>1. EngineInv /\ LimitInv /\ StepInv => WithinLimits
    <2> SUFFICES ASSUME EngineInv, LimitInv, StepInv PROVE WithinLimits
      OBVIOUS
    <2>1. Cardinality(BatchTokens) <= MaxScheduledTokens
      <3>1. budget \in 0 .. MaxScheduledTokens /\ MaxScheduledTokens \in Nat
        BY SchedulerAssumption DEF EngineInv, RunInv, RestTypes
      <3>2. Cardinality(BatchTokens) \in Nat
        <4>1. scheduled \in Seq(Entries)
          BY DEF EngineInv, RunInv, RestTypes
        <4>2. MaxModelLen \in Int /\ Len(scheduled) \in Int /\ DOMAIN scheduled = 1 .. Len(scheduled)
          BY <4>1, SchedulerAssumption
        <4>3. IsFiniteSet(DOMAIN scheduled) /\ IsFiniteSet(0 .. MaxModelLen)
          BY <4>2, FS_Interval
        <4>4. IsFiniteSet((DOMAIN scheduled) \X (0 .. MaxModelLen))
          BY <4>3, FS_Product
        <4>5. BatchTokens \in SUBSET ((DOMAIN scheduled) \X (0 .. MaxModelLen))
          BY DEF BatchTokens
        <4> QED
          BY <4>4, <4>5, FS_Subset, FS_CardinalityType
      <3>3. Cardinality(BatchTokens) + budget <= MaxScheduledTokens
        BY DEF StepInv, BudgetInv
      <3> QED
        BY <3>1, <3>2, <3>3
    <2>2. /\ Len(running) <= MaxNumSeqs /\ Len(scheduled) <= Len(running)
          /\ running \in Seq(Requests) /\ scheduled \in Seq(Entries)
      BY EngineTypes DEF EngineInv, BatchInv, RunInv, RestTypes
    <2>3. Len(running) \in Nat /\ Len(scheduled) \in Nat /\ MaxNumSeqs \in Nat
      BY <2>2, SchedulerAssumption
    <2>4. \A r \in live : Len(tokens[r]) <= MaxModelLen
      <3>1. \A r \in live : Len(tokens[r]) \in Nat /\ Len(tokens[r]) < MaxModelLen
        BY EngineTypes, LimitTypes DEF LimitInv
      <3> QED
        BY <3>1, SchedulerAssumption
    <2> QED
      BY <2>1, <2>2, <2>3, <2>4 DEF WithinLimits
  <1> QED
    BY <1>1, StepIsInvariant, PTL

\* A token is sampled exactly when the batch reaches the end of what the
\* request has, never for an inner chunk of a prefill, and every request it
\* is sampled for is still there to receive it.
THEOREM SchedulerSamplesAtTheEnd == Spec => []SampledAtTheEnd
  <1>1. EngineInv /\ StepInv => SampledAtTheEnd
    <2> SUFFICES ASSUME EngineInv, StepInv PROVE SampledAtTheEnd
      OBVIOUS
    <2>1. ASSUME NEW i \in DOMAIN scheduled
          PROVE  LET e == scheduled[i] IN
                 /\ e.needsSampling <=> e.offset + e.len = Len(tokens[e.req])
                 /\ e.len > 0
                 /\ computed[e.req] = e.offset + e.len
      <3> DEFINE e == scheduled[i]
                 r == scheduled[i].req
      <3>1. e.len > 0 /\ computed[r] = e.offset + e.len
        BY DEF StepInv, EntryInv, EntryFits
      <3>2. r \in live /\ r \in Requests /\ Progress(r)
        BY NotInBatch DEF StepInv, ProgressInv
      <3>3. sampled = <<>>
        <4>1. pc # "update"
          BY DEF EngineInv, RunInv
        <4> QED
          BY <4>1 DEF EngineInv, BatchInv
      <3>4. Pending(r) <=> e.needsSampling
        <4>1. r \notin Elements(sampled)
          BY <3>3, ElementsOfEmpty
        <4>2. \A j \in DOMAIN scheduled : scheduled[j].req = r => j = i
          BY NotInBatch
        <4> QED
          BY <4>1, <4>2 DEF Pending
      <3>5. computed[r] \in Nat /\ Len(tokens[r]) \in Nat
        BY <3>2, ProgressTypes
      <3>6. e.needsSampling => computed[r] = Len(tokens[r])
        BY <3>2, <3>4 DEF Progress
      <3>7. ~e.needsSampling => computed[r] < Len(tokens[r])
        BY <3>2, <3>4 DEF Progress
      <3>8. e.needsSampling <=> computed[r] = Len(tokens[r])
        BY <3>5, <3>6, <3>7
      <3> QED
        BY <3>1, <3>8
    <2>2. Elements(sampled) \subseteq live
      BY EngineTypes DEF EngineInv, BatchInv
    <2>3. ASSUME pc = "inputs", NEW r \in live PROVE computed[r] < Len(tokens[r])
      <3>1. ~Pending(r)
        BY <2>3, ElementsOfEmpty DEF Pending, EngineInv, BatchInv, RunInv
      <3> QED
        BY <3>1 DEF StepInv, ProgressInv, Progress
    <2> QED
      BY <2>1, <2>2, <2>3 DEF SampledAtTheEnd
  <1> QED
    BY <1>1, StepIsInvariant, PTL

\* A step over any requests computes something: the kv cache that is large
\* enough for one request is large enough for the oldest.
THEOREM SchedulerStepComputes == Spec => []StepComputes
  <1>1. StepInv => StepComputes
    BY DEF StepInv, WorkInv, StepComputes
  <1> QED
    BY <1>1, StepIsInvariant, PTL

-----------------------------------------------------------------------------
(* What the forward pass writes *)

\* The block a position is in.
LEMMA BlockOfPosition ==
    ASSUME NEW p \in Nat, NEW x \in Nat, p < x
    PROVE  /\ p \div BlockSize + 1 \in 1 .. BlocksFor(x)
           /\ p < (p \div BlockSize + 1) * BlockSize
           /\ p % BlockSize \in 0 .. BlockSize - 1
  <1> DEFINE k == p \div BlockSize
             m == p % BlockSize
  <1>1. k \in Nat /\ m \in 0 .. BlockSize - 1 /\ p = BlockSize * k + m
    BY Division
  <1>2. BlockSize \in Nat
    BY KVCacheAssumption
  <1> HIDE DEF k, m
  <1>3. k * BlockSize = BlockSize * k /\ k * BlockSize \in Int
    BY <1>1, <1>2
  <1>4. k * BlockSize <= p /\ p < k * BlockSize + BlockSize
    BY <1>1, <1>2, <1>3
  <1>5. BlocksFor(x) \in Nat /\ x <= BlocksFor(x) * BlockSize
    BY BlocksForFacts
  <1>6. k * BlockSize < BlocksFor(x) * BlockSize
    <2>1. BlocksFor(x) * BlockSize \in Int
      BY <1>5, ProductOrder
    <2> QED
      BY <1>3, <1>4, <1>5, <2>1
  <1>7. k < BlocksFor(x) /\ (k + 1) * BlockSize = k * BlockSize + BlockSize
    <2>1. k \in Int /\ BlocksFor(x) \in Int
      BY <1>1, <1>5
    <2>2. k < BlocksFor(x)
      BY <1>6, <2>1, ProductOrder
    <2>3. (k + 1) * BlockSize = k * BlockSize + BlockSize
      BY <2>1, ProductOrder
    <2> QED
      BY <2>2, <2>3
  <1> QED
    BY <1>1, <1>4, <1>5, <1>7 DEF k, m

\* A computed position has its slot in its block of the request's table.
LEMMA SlotOfPosition ==
    ASSUME EngineInv, NEW r \in Requests, NEW p \in Nat, p < computed[r]
    PROVE  LET k == p \div BlockSize + 1
           IN  /\ k \in DOMAIN table[r] /\ table[r][k] \in BlockIds
               /\ k \in Nat /\ p < k * BlockSize
               /\ p \div BlockSize < Len(table[r])
               /\ SlotAt(table[r], p) = <<table[r][k], p % BlockSize>>
               /\ SlotAt(table[r], p) \in Slots
  <1> DEFINE k == p \div BlockSize + 1
  <1>1. computed[r] \in Nat /\ table[r] \in Seq(BlockIds) /\ Len(table[r]) = BlocksFor(computed[r])
    BY EngineTypes DEF TableFits
  <1>2. k \in 1 .. BlocksFor(computed[r]) /\ p < k * BlockSize /\ p % BlockSize \in 0 .. BlockSize - 1
    BY <1>1, BlockOfPosition
  <1>3. SlotAt(table[r], p) = <<table[r][k], p % BlockSize>>
    BY DEF SlotAt
  <1>4. p \div BlockSize < Len(table[r])
    <2>1. p \div BlockSize \in Nat
      BY Division
    <2>2. Len(table[r]) \in Nat
      BY <1>1
    <2> QED
      BY <1>1, <1>2, <2>1, <2>2
  <1> HIDE DEF k
  <1>5. k \in DOMAIN table[r] /\ table[r][k] \in BlockIds /\ k \in Nat
    BY <1>1, <1>2
  <1>6. SlotAt(table[r], p) \in Slots
    BY <1>2, <1>3, <1>5 DEF Slots
  <1> QED
    BY <1>2, <1>3, <1>4, <1>5, <1>6 DEF k

\* A position the batch computes has its slot in a block of the request's
\* table that no other table and no hash knows.
LEMMA EntrySlot ==
    ASSUME EngineInv, EntryInv, NEW i \in DOMAIN scheduled, NEW p \in Positions(scheduled[i])
    PROVE  LET r == scheduled[i].req
               k == p \div BlockSize + 1
           IN  /\ r \in Requests /\ r \in live /\ p \in Nat /\ p < computed[r]
               /\ p >= scheduled[i].offset
               /\ scheduled[i].blocks = table[r]
               /\ table[r][k] \in BlockIds
               /\ hash[table[r][k]] = <<>> /\ Holders(table[r][k]) = {r}
  <1> DEFINE r == scheduled[i].req
             k == p \div BlockSize + 1
             e == scheduled[i]
  <1>1. /\ e.blocks = table[r] /\ computed[r] = e.offset + e.len
        /\ \A j \in DOMAIN table[r] : hash[table[r][j]] # <<>> => j * BlockSize <= e.offset
    BY DEF EntryInv, EntryFits
  <1>2. r \in Requests /\ r \in live
    BY NotInBatch
  <1>3. e.offset \in Nat /\ e.len \in Nat
    BY EntryTypes
  <1>4. p \in Nat /\ p >= e.offset /\ p < computed[r]
    BY <1>1, <1>3 DEF Positions
  <1>5. /\ k \in DOMAIN table[r] /\ table[r][k] \in BlockIds
        /\ k \in Nat /\ p < k * BlockSize
    BY <1>2, <1>4, SlotOfPosition
  <1> HIDE DEF k
  <1>6. hash[table[r][k]] = <<>>
    <2>1. k * BlockSize \in Int
      BY <1>5, ProductOrder
    <2>2. ~(k * BlockSize <= e.offset)
      BY <1>3, <1>4, <1>5, <2>1
    <2> QED
      BY <1>1, <1>5, <2>2
  <1>7. Holders(table[r][k]) = {r}
    <2>1. table[r][k] \in Elements(table[r])
      BY <1>5 DEF Elements
    <2>2. \A s \in Requests : s # r => table[r][k] \notin Elements(table[s])
      BY <1>2, <1>5, <1>6, <2>1 DEF EngineInv, CacheInv, SharedAreHashed
    <2> QED
      BY <1>2, <2>1, <2>2 DEF Holders
  <1> QED
    BY <1>1, <1>2, <1>4, <1>5, <1>6, <1>7 DEF k

\* The slot of a scheduled token is that of no other computed position.
LEMMA SlotsDiffer ==
    ASSUME EngineInv, EntryInv,
           NEW i \in DOMAIN scheduled, NEW q \in Positions(scheduled[i]),
           NEW r \in Requests, NEW p \in Nat, p < computed[r],
           SlotAt(table[r], p) = SlotAt(scheduled[i].blocks, q)
    PROVE  scheduled[i].req = r /\ p = q
  <1> DEFINE s == scheduled[i].req
             k == p \div BlockSize + 1
             l == q \div BlockSize + 1
  <1>1. /\ k \in DOMAIN table[r] /\ k \in Nat
        /\ SlotAt(table[r], p) = <<table[r][k], p % BlockSize>>
    BY SlotOfPosition
  <1>2. /\ s \in Requests /\ q \in Nat /\ q < computed[s] /\ scheduled[i].blocks = table[s]
        /\ Holders(table[s][l]) = {s}
    BY EntrySlot
  <1>3. /\ l \in DOMAIN table[s] /\ l \in Nat
        /\ SlotAt(scheduled[i].blocks, q) = <<table[s][l], q % BlockSize>>
    BY <1>2, SlotOfPosition
  <1>4. table[r][k] = table[s][l] /\ p % BlockSize = q % BlockSize
    <2>1. <<table[r][k], p % BlockSize>> = <<table[s][l], q % BlockSize>>
      BY <1>1, <1>3
    <2>2. \A a, b, c, d : <<a, b>> = <<c, d>> => a = c /\ b = d
      OBVIOUS
    <2> QED
      BY <2>1, <2>2
  <1>5. r = s
    <2>1. table[r][k] \in Elements(table[r])
      BY <1>1 DEF Elements
    <2> QED
      BY <1>2, <1>4, <2>1 DEF Holders
  <1>6. k = l
    BY <1>1, <1>2, <1>3, <1>4, <1>5 DEF EngineInv, CacheInv, BlocksAccountedFor
  <1>7. p \div BlockSize = q \div BlockSize
    <2>1. p \div BlockSize \in Nat /\ q \div BlockSize \in Nat
      BY <1>2, Division
    <2> QED
      BY <1>6, <2>1
  <1>8. /\ p = BlockSize * (p \div BlockSize) + (p % BlockSize)
        /\ q = BlockSize * (q \div BlockSize) + (q % BlockSize)
    BY <1>2, Division
  <1> QED
    BY <1>4, <1>5, <1>7, <1>8

\* What the forward pass writes, it owns: each scheduled token has a slot of
\* its own in the request's current table, in a block nobody shares and that
\* is not published under a hash.
THEOREM SchedulerWritesArePrivate == Spec => []WritesArePrivate
  <1>1. EngineInv /\ StepInv => WritesArePrivate
    <2> SUFFICES ASSUME EngineInv, StepInv PROVE WritesArePrivate
      OBVIOUS
    <2>1. EntryInv
      BY DEF StepInv
    <2>2. \A i \in DOMAIN scheduled : scheduled[i].blocks = table[scheduled[i].req]
      BY <2>1 DEF EntryInv, EntryFits
    <2>3. \A s \in BatchTokens : s = <<s[1], s[2]>> /\ s[1] \in DOMAIN scheduled
                                 /\ s[2] \in Positions(scheduled[s[1]])
      BY DEF BatchTokens
    <2>4. ASSUME NEW s \in BatchTokens, NEW t \in BatchTokens,
                 SlotAt(scheduled[s[1]].blocks, s[2]) = SlotAt(scheduled[t[1]].blocks, t[2])
          PROVE  s = t
      <3> DEFINE i == s[1]
                 j == t[1]
      <3>1. /\ i \in DOMAIN scheduled /\ s[2] \in Positions(scheduled[i])
            /\ j \in DOMAIN scheduled /\ t[2] \in Positions(scheduled[j])
        BY <2>3
      <3>2. /\ scheduled[i].req \in Requests /\ s[2] \in Nat /\ s[2] < computed[scheduled[i].req]
            /\ scheduled[i].blocks = table[scheduled[i].req]
        BY <2>1, <3>1, EntrySlot
      <3>3. scheduled[j].req = scheduled[i].req /\ s[2] = t[2]
        BY <2>1, <2>4, <3>1, <3>2, SlotsDiffer
      <3>4. s[1] = t[1]
        BY <3>1, <3>3, NotInBatch
      <3> QED
        BY <2>3, <3>3, <3>4
    <2>5. ASSUME NEW s \in BatchTokens
          PROVE  LET b == SlotAt(scheduled[s[1]].blocks, s[2])[1]
                 IN  refCount[b] = 1 /\ hash[b] = <<>>
      <3> DEFINE i == s[1]
                 p == s[2]
                 b == SlotAt(scheduled[i].blocks, p)[1]
      <3>1. i \in DOMAIN scheduled /\ p \in Positions(scheduled[i])
        BY <2>3
      <3>2. b \in BlockIds /\ hash[b] = <<>> /\ Holders(b) = {scheduled[i].req}
        <4> DEFINE c == table[scheduled[i].req][p \div BlockSize + 1]
        <4>1. /\ c \in BlockIds /\ hash[c] = <<>> /\ Holders(c) = {scheduled[i].req}
              /\ scheduled[i].blocks = table[scheduled[i].req]
          BY <2>1, <3>1, EntrySlot
        <4>2. SlotAt(scheduled[i].blocks, p) = <<c, p % BlockSize>>
          BY <4>1 DEF SlotAt
        <4> HIDE DEF c
        <4>3. b = c
          BY <4>2
        <4> QED
          BY <4>1, <4>3
      <3> HIDE DEF b
      <3>3. refCount[b] = Cardinality(Holders(b))
        BY <3>2 DEF EngineInv, CacheInv, BlocksAccountedFor
      <3>4. refCount[b] = 1
        BY <3>2, <3>3, FS_Singleton
      <3> QED
        BY <3>2, <3>4 DEF b
    <2> QED
      BY <2>2, <2>4, <2>5 DEF WritesArePrivate
  <1> QED
    BY <1>1, StepIsInvariant, PTL

-----------------------------------------------------------------------------
(* What the cache holds *)

\* NumWritten, of any batch and counters.
Written(sch, comp, r) ==
    IF \E i \in DOMAIN sch : sch[i].req = r
    THEN sch[CHOOSE i \in DOMAIN sch : sch[i].req = r].offset
    ELSE comp[r]

\* The first n positions of a table hold the keys and values of toks.
Holds(tbl, toks, n, cache) ==
    \A p \in 0 .. n - 1 : cache[SlotAt(tbl, p)] = SubSeq(toks, 1, p + 1)

\* ContextIsOwn, without what the length of a table already implies.
ContextInv ==
    \A r \in live : Holds(table[r], tokens[r], Written(scheduled, computed, r), kv)

ContentInv == ContextInv /\ HashTellsContent

\* A prefix of a prefix is a prefix.
LEMMA PrefixOfPrefix ==
    ASSUME NEW toks \in Seq(Tokens), NEW w \in Nat, w <= Len(toks), NEW m \in 1 .. w
    PROVE  /\ Len(SubSeq(toks, 1, w)) = w
           /\ SubSeq(SubSeq(toks, 1, w), 1, m) = SubSeq(toks, 1, m)
  <1> DEFINE s == SubSeq(toks, 1, w)
             a == SubSeq(s, 1, m)
             b == SubSeq(toks, 1, m)
  <1>1. m \in Nat /\ m <= w /\ m <= Len(toks) /\ 0 \in Nat /\ 0 <= w
    OBVIOUS
  <1>2. s \in Seq(Tokens) /\ Len(s) = w /\ \A i \in 1 .. w : s[i] = toks[i]
    BY <1>1, SubSeqProperties
  <1>3. b \in Seq(Tokens) /\ Len(b) = m /\ \A i \in 1 .. m : b[i] = toks[i]
    BY <1>1, SubSeqProperties
  <1> HIDE DEF s
  <1>4. a \in Seq(Tokens) /\ Len(a) = m /\ \A i \in 1 .. m : a[i] = s[i]
    BY <1>1, <1>2, SubSeqProperties
  <1> HIDE DEF a, b
  <1>5. \A i \in 1 .. m : a[i] = b[i]
    BY <1>1, <1>2, <1>3, <1>4
  <1>6. a = b
    BY <1>3, <1>4, <1>5, SeqEqual
  <1> QED
    BY <1>2, <1>6 DEF s, a, b

\* What is written of a request in the batch, and of one outside it.
LEMMA WrittenFacts ==
    ASSUME EngineInv, EntryInv
    PROVE  /\ \A i \in DOMAIN scheduled :
                 Written(scheduled, computed, scheduled[i].req) = scheduled[i].offset
           /\ \A r \in Requests : ~InBatch(r) => Written(scheduled, computed, r) = computed[r]
           /\ \A r \in Requests : /\ Written(scheduled, computed, r) \in Nat
                                  /\ Written(scheduled, computed, r) <= computed[r]
  <1>1. ASSUME NEW i \in DOMAIN scheduled
        PROVE  Written(scheduled, computed, scheduled[i].req) = scheduled[i].offset
    <2>1. \A j \in DOMAIN scheduled : scheduled[j].req = scheduled[i].req => j = i
      BY NotInBatch
    <2> QED
      BY <2>1 DEF Written
  <1>2. \A r \in Requests : ~InBatch(r) => Written(scheduled, computed, r) = computed[r]
    BY DEF InBatch, Written
  <1>3. ASSUME NEW r \in Requests
        PROVE  Written(scheduled, computed, r) \in Nat /\ Written(scheduled, computed, r) <= computed[r]
    <2>1. computed[r] \in Nat
      BY EngineTypes
    <2>2. CASE InBatch(r)
      <3>1. PICK i \in DOMAIN scheduled : scheduled[i].req = r
        BY <2>2 DEF InBatch
      <3>2. scheduled[i].offset \in Nat /\ scheduled[i].len \in Nat
        BY EntryTypes
      <3>3. computed[r] = scheduled[i].offset + scheduled[i].len
        BY <3>1 DEF EntryInv, EntryFits
      <3> QED
        BY <1>1, <3>1, <3>2, <3>3
    <2>3. CASE ~InBatch(r)
      BY <1>2, <2>1, <2>3
    <2> QED
      BY <2>2, <2>3
  <1> QED
    BY <1>1, <1>2, <1>3

\* The counters of a request outside the batch change what is written of it alone.
LEMMA WrittenKept ==
    ASSUME EngineInv, NEW r \in Requests, ~InBatch(r), scheduled' = scheduled,
           NEW c, computed' = [computed EXCEPT ![r] = c]
    PROVE  /\ Written(scheduled', computed', r) = c
           /\ \A s \in Requests : s # r =>
                 Written(scheduled', computed', s) = Written(scheduled, computed, s)
  <1>1. computed'[r] = c /\ \A s \in Requests : s # r => computed'[s] = computed[s]
    BY EngineTypes
  <1> QED
    BY <1>1 DEF Written, InBatch

\* Joining the batch changes nothing that is written.
LEMMA WrittenJoin ==
    ASSUME EngineInv, NEW r \in Requests, ~InBatch(r),
           NEW e, e.req = r, e.offset = computed[r], scheduled' = Append(scheduled, e),
           NEW c, computed' = [computed EXCEPT ![r] = c]
    PROVE  \A s \in Requests :
              Written(scheduled', computed', s) = Written(scheduled, computed, s)
  <1>1. scheduled \in Seq(Entries)
    BY DEF EngineInv, RunInv, RestTypes
  <1> DEFINE k == Len(scheduled) + 1
  <1>2. /\ k \in DOMAIN scheduled' /\ scheduled'[k] = e
        /\ DOMAIN scheduled \subseteq DOMAIN scheduled'
        /\ \A i \in DOMAIN scheduled : scheduled'[i] = scheduled[i] /\ i # k
        /\ \A i \in DOMAIN scheduled' : i = k \/ i \in DOMAIN scheduled
    BY <1>1
  <1> HIDE DEF k
  <1>3. Written(scheduled', computed', r) = Written(scheduled, computed, r)
    <2>1. \A i \in DOMAIN scheduled' : scheduled'[i].req = r => i = k
      BY <1>2 DEF InBatch
    <2> QED
      BY <1>2, <2>1 DEF Written, InBatch
  <1>4. ASSUME NEW s \in Requests, s # r
        PROVE  Written(scheduled', computed', s) = Written(scheduled, computed, s)
    <2>1. computed'[s] = computed[s]
      BY <1>4, EngineTypes
    <2>2. CASE InBatch(s)
      <3>1. PICK i \in DOMAIN scheduled : scheduled[i].req = s
        BY <2>2 DEF InBatch
      <3>2. \A j \in DOMAIN scheduled : scheduled[j].req = s => j = i
        BY <3>1, NotInBatch
      <3>3. \A j \in DOMAIN scheduled' : scheduled'[j].req = s => j = i
        BY <1>2, <1>4, <3>2
      <3>4. i \in DOMAIN scheduled' /\ scheduled'[i] = scheduled[i]
        BY <1>2, <3>1
      <3>5. Written(scheduled', computed', s) = scheduled'[i].offset
        BY <3>1, <3>3, <3>4 DEF Written
      <3>6. Written(scheduled, computed, s) = scheduled[i].offset
        BY <3>1, <3>2 DEF Written
      <3> QED
        BY <3>4, <3>5, <3>6
    <2>3. CASE ~InBatch(s)
      <3>1. \A j \in DOMAIN scheduled' : scheduled'[j].req # s
        BY <1>2, <1>4, <2>3 DEF InBatch
      <3> QED
        BY <2>1, <2>3, <3>1 DEF Written, InBatch
    <2> QED
      BY <2>2, <2>3
  <1> QED
    BY <1>3, <1>4

\* Steps on one request's blocks leave the others' context alone.
LEMMA ContextKept ==
    ASSUME EngineInv, ContextInv, NEW r \in Requests, kv' = kv,
           OthersKept(r, table, table', hash, hash'),
           \A s \in live' : s # r =>
              /\ s \in live /\ tokens'[s] = tokens[s]
              /\ Written(scheduled', computed', s) = Written(scheduled, computed, s),
           r \in live' =>
              Holds(table'[r], tokens'[r], Written(scheduled', computed', r), kv)
    PROVE  ContextInv'
  <1>1. ASSUME NEW s \in live', s # r
        PROVE  Holds(table'[s], tokens'[s], Written(scheduled', computed', s), kv')
    <2>1. s \in live /\ s \in Requests
      BY <1>1, EngineTypes
    <2>2. table'[s] = table[s]
      BY <1>1, <2>1 DEF OthersKept
    <2> QED
      BY <1>1, <2>1, <2>2 DEF ContextInv
  <1> QED
    BY <1>1 DEF ContextInv

\* A block of the index is published with what its request has in the cache.
LEMMA PublishedContent ==
    ASSUME EngineInv, EntryInv, ContentInv, NEW r \in live, ~InBatch(r), kv' = kv,
           NEW toks \in Seq(Tokens), computed[r] <= Len(toks),
           \A m \in 1 .. computed[r] : SubSeq(toks, 1, m) = SubSeq(tokens[r], 1, m),
           PublishedOnly(hash, hash', table[r], toks, computed[r])
    PROVE  HashTellsContent'
  <1> SUFFICES ASSUME NEW x \in Slots, hash'[x[1]] # <<>>
               PROVE  kv[x] = SubSeq(hash'[x[1]], 1, Len(hash'[x[1]]) - BlockSize + x[2] + 1)
    BY DEF HashTellsContent
  <1> DEFINE b == x[1]
             m == x[2]
  <1>1. b \in BlockIds /\ m \in 0 .. BlockSize - 1 /\ x = <<b, m>>
    BY DEF Slots
  <1>2. r \in Requests /\ computed[r] \in Nat /\ table[r] \in Seq(BlockIds)
    BY EngineTypes
  <1>3. CASE hash'[b] = hash[b]
    BY <1>3 DEF ContentInv, HashTellsContent
  <1>4. CASE \E i \in DOMAIN table[r] :
                /\ table[r][i] = b /\ i * BlockSize <= computed[r]
                /\ hash'[b] = SubSeq(toks, 1, i * BlockSize)
    <2>1. PICK i \in DOMAIN table[r] : /\ table[r][i] = b /\ i * BlockSize <= computed[r]
                                       /\ hash'[b] = SubSeq(toks, 1, i * BlockSize)
      BY <1>4
    <2> DEFINE w == i * BlockSize
               p == w - BlockSize + m
    <2>2. i \in Nat \ {0} /\ w \in Nat /\ (i - 1) * BlockSize = w - BlockSize
          /\ (i - 1) * BlockSize \in Nat
      BY <1>2, KVCacheAssumption, ProductOrder
    <2>3. p \in Nat /\ p < w /\ (i - 1) * BlockSize <= p /\ p < ((i - 1) + 1) * BlockSize
          /\ p = (i - 1) * BlockSize + m
      <3>1. BlockSize \in Nat \ {0}
        BY KVCacheAssumption
      <3>2. (i - 1) + 1 = i
        BY <2>2
      <3> HIDE DEF w
      <3>3. m \in Nat /\ m < BlockSize
        BY <1>1, <3>1
      <3> HIDE DEF m
      <3>4. p \in Nat /\ p < w /\ (i - 1) * BlockSize <= p /\ p = (i - 1) * BlockSize + m
        BY <2>2, <3>1, <3>3
      <3> QED
        BY <3>2, <3>4 DEF w
    <2>4. p \div BlockSize = i - 1
      BY <2>2, <2>3, BlockQuotient
    <2>5. p % BlockSize = m
      <3>1. p = BlockSize * (p \div BlockSize) + (p % BlockSize) /\ (p % BlockSize) \in Int
        <4> HIDE DEF p
        <4>1. p = BlockSize * (p \div BlockSize) + (p % BlockSize)
          BY <2>3, Division
        <4>2. p % BlockSize \in 0 .. BlockSize - 1
          BY <2>3, Division
        <4> QED
          BY <4>1, <4>2
      <3>2. BlockSize * (i - 1) = (i - 1) * BlockSize
        BY <2>2, KVCacheAssumption
      <3>3. m \in Int
        BY <1>1
      <3> HIDE DEF p, m, w
      <3> QED
        BY <2>2, <2>3, <2>4, <3>1, <3>2, <3>3
    <2>6. SlotAt(table[r], p) = x
      <3>1. (i - 1) + 1 = i
        BY <2>2
      <3> HIDE DEF p
      <3> QED
        BY <1>1, <2>1, <2>4, <2>5, <3>1 DEF SlotAt
    <2>7. p \in 0 .. computed[r] - 1 /\ p + 1 \in 1 .. computed[r] /\ p + 1 <= w
      <3> HIDE DEF p
      <3> QED
        BY <1>2, <2>1, <2>2, <2>3
    <2>8. kv[x] = SubSeq(tokens[r], 1, p + 1)
      <3>1. Written(scheduled, computed, r) = computed[r]
        BY <1>2, WrittenFacts
      <3>2. Holds(table[r], tokens[r], computed[r], kv)
        BY <3>1 DEF ContentInv, ContextInv
      <3> HIDE DEF p
      <3> QED
        BY <2>6, <2>7, <3>2 DEF Holds
    <2>9. kv[x] = SubSeq(toks, 1, p + 1)
      <3> HIDE DEF p
      <3> QED
        BY <2>7, <2>8
    <2>10. /\ Len(hash'[b]) = w
           /\ SubSeq(hash'[b], 1, p + 1) = SubSeq(toks, 1, p + 1)
      <3>1. w <= Len(toks) /\ p + 1 \in 1 .. w
        <4>1. Len(toks) \in Nat
          OBVIOUS
        <4> HIDE DEF p, w
        <4> QED
          BY <1>2, <2>1, <2>2, <2>3, <2>7, <4>1 DEF w
      <3> HIDE DEF p, w
      <3> QED
        BY <2>1, <2>2, <3>1, PrefixOfPrefix DEF w
    <2> QED
      BY <2>9, <2>10
  <1> QED
    BY <1>1, <1>3, <1>4 DEF PublishedOnly

\* Which step leaves what in which slot of the cache: every scheduled token
\* its own prefix, and every other slot what it had.
LEMMA CacheWritten ==
    ASSUME EngineInv, EntryInv, RunModel
    PROVE  /\ \A i \in DOMAIN scheduled : \A p \in Positions(scheduled[i]) :
                 kv'[SlotAt(scheduled[i].blocks, p)] = SubSeq(tokens[scheduled[i].req], 1, p + 1)
           /\ \A x \in Slots : (\A i \in DOMAIN scheduled : x \notin WrittenSlots(scheduled[i]))
                 => kv'[x] = kv[x]
  <1> DEFINE Row(x) == CHOOSE i \in DOMAIN scheduled : x \in WrittenSlots(scheduled[i])
             Pos(x) == CHOOSE p \in Positions(scheduled[Row(x)]) :
                           SlotAt(scheduled[Row(x)].blocks, p) = x
  <1>1. kv' = [x \in Slots |->
                  IF \E i \in DOMAIN scheduled : x \in WrittenSlots(scheduled[i])
                  THEN SubSeq(tokens[scheduled[Row(x)].req], 1, Pos(x) + 1)
                  ELSE kv[x]]
    BY DEF RunModel
  <1>2. ASSUME NEW i \in DOMAIN scheduled, NEW p \in Positions(scheduled[i])
        PROVE  LET x == SlotAt(scheduled[i].blocks, p)
               IN  kv'[x] = SubSeq(tokens[scheduled[i].req], 1, p + 1)
    <2> DEFINE r == scheduled[i].req
               x == SlotAt(scheduled[i].blocks, p)
    <2>1. r \in Requests /\ p \in Nat /\ p < computed[r] /\ scheduled[i].blocks = table[r]
      BY EntrySlot
    <2>2. x \in Slots
      BY <2>1, SlotOfPosition
    <2>3. x \in WrittenSlots(scheduled[i])
      BY DEF WrittenSlots
    <2>4. \A j \in DOMAIN scheduled : \A q \in Positions(scheduled[j]) :
              SlotAt(scheduled[j].blocks, q) = x => j = i /\ q = p
      <3> SUFFICES ASSUME NEW j \in DOMAIN scheduled, NEW q \in Positions(scheduled[j]),
                          SlotAt(scheduled[j].blocks, q) = x
                   PROVE  j = i /\ q = p
        OBVIOUS
      <3>1. scheduled[j].req = r /\ p = q
        BY <2>1, SlotsDiffer
      <3> QED
        BY <3>1, NotInBatch
    <2> HIDE DEF x
    <2>5. \A j \in DOMAIN scheduled : x \in WrittenSlots(scheduled[j]) => j = i
      BY <2>4 DEF WrittenSlots
    <2>6. Row(x) = i
      BY <2>3, <2>5
    <2>7. Pos(x) = p
      <3>1. SlotAt(scheduled[i].blocks, p) = x
        BY DEF x
      <3> QED
        BY <2>4, <2>6, <3>1
    <2> HIDE DEF Row, Pos
    <2>8. kv'[x] = SubSeq(tokens[scheduled[Row(x)].req], 1, Pos(x) + 1)
      BY <1>1, <2>2, <2>3
    <2> QED
      BY <2>6, <2>7, <2>8 DEF x
  <1> HIDE DEF Row, Pos
  <1>3. \A x \in Slots : (\A i \in DOMAIN scheduled : x \notin WrittenSlots(scheduled[i]))
                 => kv'[x] = kv[x]
    BY <1>1
  <1> QED
    BY <1>2, <1>3

\* The forward pass completes the context of the requests in the batch.
LEMMA RunModelContent ==
    ASSUME EngineInv, EntryInv, ContentInv, RunModel
    PROVE  ContentInv'
  <1>1. scheduled' = <<>> /\ UNCHANGED <<live, tokens, computed, table, hash>>
    BY DEF RunModel, reqVars, kvVars
  <1>2. ASSUME NEW r \in live, NEW p \in 0 .. computed[r] - 1
        PROVE  kv'[SlotAt(table[r], p)] = SubSeq(tokens[r], 1, p + 1)
    <2> DEFINE x == SlotAt(table[r], p)
    <2>1. r \in Requests /\ computed[r] \in Nat /\ p \in Nat /\ p < computed[r]
      BY EngineTypes
    <2>2. x \in Slots
      BY <2>1, SlotOfPosition
    <2>3. CASE \E i \in DOMAIN scheduled : x \in WrittenSlots(scheduled[i])
      <3>1. PICK i \in DOMAIN scheduled : \E q \in Positions(scheduled[i]) :
                    x = SlotAt(scheduled[i].blocks, q)
        BY <2>3 DEF WrittenSlots
      <3>2. PICK q \in Positions(scheduled[i]) : x = SlotAt(scheduled[i].blocks, q)
        BY <3>1
      <3>3. scheduled[i].req = r /\ p = q
        BY <2>1, <3>2, SlotsDiffer
      <3>4. kv'[SlotAt(scheduled[i].blocks, q)] = SubSeq(tokens[scheduled[i].req], 1, q + 1)
        BY CacheWritten
      <3> QED
        BY <3>2, <3>3, <3>4
    <2>4. CASE ~\E i \in DOMAIN scheduled : x \in WrittenSlots(scheduled[i])
      <3>1. kv'[x] = kv[x]
        BY <2>2, <2>4, CacheWritten
      <3>2. p < Written(scheduled, computed, r)
        <4>1. CASE InBatch(r)
          <5>1. PICK i \in DOMAIN scheduled : scheduled[i].req = r
            BY <4>1 DEF InBatch
          <5>2. /\ scheduled[i].offset \in Nat /\ scheduled[i].len \in Nat
                /\ computed[r] = scheduled[i].offset + scheduled[i].len
                /\ scheduled[i].blocks = table[r]
            BY <5>1, EntryTypes DEF EntryInv, EntryFits
          <5>3. p \notin Positions(scheduled[i])
            BY <2>4, <5>2 DEF WrittenSlots
          <5>4. p < scheduled[i].offset
            BY <2>1, <5>2, <5>3 DEF Positions
          <5> QED
            BY <5>1, <5>4, WrittenFacts
        <4>2. CASE ~InBatch(r)
          BY <2>1, <4>2, WrittenFacts
        <4> QED
          BY <4>1, <4>2
      <3>3. Written(scheduled, computed, r) \in Nat
        BY <2>1, WrittenFacts
      <3>4. kv[x] = SubSeq(tokens[r], 1, p + 1)
        BY <2>1, <3>2, <3>3 DEF ContentInv, ContextInv, Holds
      <3> QED
        BY <3>1, <3>4
    <2> QED
      BY <2>3, <2>4
  <1>3. ContextInv'
    <2>1. \A r : Written(scheduled', computed', r) = computed[r]
      BY <1>1 DEF Written
    <2> QED
      BY <1>1, <1>2, <2>1 DEF ContextInv, Holds
  <1>4. HashTellsContent'
    <2> SUFFICES ASSUME NEW x \in Slots, hash[x[1]] # <<>> PROVE kv'[x] = kv[x]
      BY <1>1 DEF ContentInv, HashTellsContent
    <2>1. ASSUME NEW i \in DOMAIN scheduled, NEW q \in Positions(scheduled[i]),
                 x = SlotAt(scheduled[i].blocks, q)
          PROVE  FALSE
      <3> DEFINE c == table[scheduled[i].req][q \div BlockSize + 1]
      <3>1. hash[c] = <<>> /\ scheduled[i].blocks = table[scheduled[i].req]
        BY EntrySlot
      <3>2. x = <<c, q % BlockSize>>
        BY <2>1, <3>1 DEF SlotAt
      <3> HIDE DEF c
      <3> QED
        BY <3>1, <3>2
    <2>2. \A i \in DOMAIN scheduled : x \notin WrittenSlots(scheduled[i])
      BY <2>1 DEF WrittenSlots
    <2> QED
      BY <2>2, CacheWritten
  <1> QED
    BY <1>3, <1>4 DEF ContentInv

\* A lookup finds blocks that hold the request's own prefix.
LEMMA LookupContent ==
    ASSUME EngineInv, EngineInv', EntryInv, ContentInv, LookupPrefix
    PROVE  ContentInv'
  <1> DEFINE r == Candidate
             n == NumReused(tokens[r])
  <1>1. /\ preempted # <<>> \/ waiting # <<>>
        /\ ReusePrefix(r, tokens[r])
        /\ computed' = [computed EXCEPT ![r] = n]
        /\ UNCHANGED <<running, live, tokens, scheduled, kv>>
    BY DEF LookupPrefix, InPass2, queueVars, passVars
  <1>2. r \in live /\ r \in Requests /\ r \notin Elements(running) /\ ~InBatch(r)
    BY <1>1, CandidateFacts, NotInBatch
  <1>3. tokens[r] # <<>> /\ computed[r] = 0
    BY <1>2 DEF LookupPrefix, InPass2, EngineInv, RunInv
  <1>4. /\ hash' = hash /\ OthersKept(r, table, table', hash, hash')
        /\ n \in Nat /\ n < Len(tokens[r])
        /\ \A i \in DOMAIN table'[r] :
              /\ hash[table'[r][i]] = SubSeq(tokens[r], 1, i * BlockSize)
              /\ hash[table'[r][i]] # <<>>
    BY <1>1, <1>2, <1>3, ReuseCache DEF EngineInv
  <1> HIDE DEF r, n
  <1>5. /\ tokens[r] \in Seq(Tokens) /\ Len(tokens[r]) \in Nat /\ computed'[r] = n
        /\ table'[r] \in Seq(BlockIds) /\ Len(table'[r]) = BlocksFor(n)
        /\ \A i \in DOMAIN table'[r] : i * BlockSize <= n
    <2>1. tokens[r] \in Seq(Tokens) /\ Len(tokens[r]) \in Nat /\ computed'[r] = n
      BY <1>1, <1>2, EngineTypes
    <2>2. /\ table' \in [Requests -> Seq(BlockIds)]
          /\ \A s \in Requests : /\ Len(table'[s]) = BlocksFor(computed'[s])
                                 /\ HashesAreOwn(hash', table'[s], tokens'[s], computed'[s])
      BY DEF EngineInv, CacheInv, CacheTypes, KVTypeOK, TableFits
    <2>3. \A i \in DOMAIN table'[r] : i * BlockSize <= n
      BY <1>2, <1>4, <2>1, <2>2 DEF HashesAreOwn
    <2> QED
      BY <1>2, <2>1, <2>2, <2>3
  <1>6. Holds(table'[r], tokens[r], n, kv)
    <2> SUFFICES ASSUME NEW p \in 0 .. n - 1
                 PROVE  kv[SlotAt(table'[r], p)] = SubSeq(tokens[r], 1, p + 1)
      BY DEF Holds
    <2> DEFINE k == p \div BlockSize + 1
               m == p % BlockSize
               b == table'[r][k]
               w == k * BlockSize
    <2>1. p \in Nat /\ p < n
      BY <1>4
    <2>2. k \in 1 .. BlocksFor(n) /\ p < w /\ m \in 0 .. BlockSize - 1
      BY <1>4, <2>1, BlockOfPosition
    <2>3. w = p - m + BlockSize /\ w \in Nat
      <3>1. p \div BlockSize \in Nat /\ p = BlockSize * (p \div BlockSize) + m
        BY <2>1, Division
      <3>2. BlockSize \in Nat
        BY KVCacheAssumption
      <3> DEFINE d == p \div BlockSize
      <3>3. d \in Int
        BY <3>1
      <3>4. (d + 1) * BlockSize = d * BlockSize + BlockSize
        BY <3>3, ProductOrder
      <3>5. d * BlockSize = BlockSize * d /\ d * BlockSize \in Nat
        BY <3>1, <3>2
      <3> HIDE DEF m
      <3>6. m \in Int
        BY <2>2 DEF m
      <3> QED
        BY <2>1, <3>1, <3>2, <3>4, <3>5, <3>6
    <2> HIDE DEF k
    <2>4. k \in DOMAIN table'[r] /\ b \in BlockIds /\ k \in Nat
      BY <1>5, <2>2
    <2>5. /\ hash[b] = SubSeq(tokens[r], 1, w) /\ hash[b] # <<>> /\ w <= n
      BY <1>4, <1>5, <2>4
    <2> HIDE DEF w, m
    <2>6. w <= Len(tokens[r]) /\ p + 1 \in 1 .. w
      BY <1>4, <1>5, <2>1, <2>2, <2>3, <2>5
    <2>7. Len(hash[b]) = w /\ SubSeq(hash[b], 1, p + 1) = SubSeq(tokens[r], 1, p + 1)
      BY <1>5, <2>3, <2>5, <2>6, PrefixOfPrefix
    <2>8. Len(hash[b]) - BlockSize + m + 1 = p + 1
      <3>1. BlockSize \in Int
        BY KVCacheAssumption
      <3> QED
        BY <2>1, <2>2, <2>3, <2>7, <3>1
    <2>9. SlotAt(table'[r], p) = <<b, m>>
      BY DEF SlotAt, k, m
    <2> HIDE DEF b
    <2>10. <<b, m>> \in Slots
      BY <2>2, <2>4 DEF Slots
    <2>11. kv[<<b, m>>] = SubSeq(hash[b], 1, Len(hash[b]) - BlockSize + m + 1)
      BY <2>5, <2>10 DEF ContentInv, HashTellsContent
    <2> QED
      BY <2>7, <2>8, <2>9, <2>11
  <1>7. /\ Written(scheduled', computed', r) = n
        /\ \A s \in Requests : s # r =>
              Written(scheduled', computed', s) = Written(scheduled, computed, s)
    BY <1>1, <1>2, WrittenKept
  <1>8. ContextInv'
    <2>1. \A s \in live' : s # r =>
              /\ s \in live /\ tokens'[s] = tokens[s]
              /\ Written(scheduled', computed', s) = Written(scheduled, computed, s)
      BY <1>1, <1>7, EngineTypes
    <2>2. Holds(table'[r], tokens'[r], Written(scheduled', computed', r), kv)
      BY <1>1, <1>6, <1>7
    <2> QED
      BY <1>1, <1>2, <1>4, <2>1, <2>2, ContextKept DEF ContentInv
  <1>9. HashTellsContent'
    BY <1>1, <1>4 DEF ContentInv, HashTellsContent
  <1> QED
    BY <1>8, <1>9 DEF ContentInv

\* A request outside the batch gives its blocks back.
LEMMA VacateContent ==
    ASSUME EngineInv, EntryInv, ContentInv, NEW r \in live, ~InBatch(r),
           NEW toks \in Seq(Tokens), computed[r] <= Len(toks),
           \A m \in 1 .. computed[r] : SubSeq(toks, 1, m) = SubSeq(tokens[r], 1, m),
           ReleaseBlocks(r, toks, computed[r]), computed' = [computed EXCEPT ![r] = 0],
           NEW left \in Seq(Tokens), tokens' = [tokens EXCEPT ![r] = left],
           live' \subseteq live, scheduled' = scheduled, kv' = kv
    PROVE  ContentInv'
  <1>1. r \in Requests /\ computed[r] \in Nat
    BY EngineTypes
  <1>2. HashesAreOwn(hash, table[r], toks, computed[r])
    <2>1. ASSUME NEW i \in DOMAIN table[r], hash[table[r][i]] # <<>>
          PROVE  /\ i * BlockSize <= computed[r]
                 /\ hash[table[r][i]] = SubSeq(toks, 1, i * BlockSize)
      <3>1. /\ i * BlockSize <= computed[r]
            /\ hash[table[r][i]] = SubSeq(tokens[r], 1, i * BlockSize)
        BY <1>1, <2>1, EngineTypes DEF TableFits, HashesAreOwn
      <3>2. i \in Nat \ {0}
        BY <1>1, EngineTypes
      <3>3. i * BlockSize \in Nat \ {0}
        <4>1. 0 < i /\ 0 \in Int /\ i \in Int
          BY <3>2
        <4>2. 0 * BlockSize < i * BlockSize /\ i * BlockSize \in Int
          BY <4>1, ProductOrder
        <4>3. 0 * BlockSize = 0
          BY KVCacheAssumption
        <4> QED
          BY <4>2, <4>3
      <3> DEFINE w == i * BlockSize
      <3> HIDE DEF w
      <3>4. w \in 1 .. computed[r]
        BY <1>1, <3>1, <3>3 DEF w
      <3> QED
        BY <3>1, <3>4 DEF w
    <2> QED
      BY <2>1 DEF HashesAreOwn
  <1>3. /\ OthersKept(r, table, table', hash, hash')
        /\ PublishedOnly(hash, hash', table[r], toks, computed[r])
    BY <1>1, <1>2, ReleaseCache DEF EngineInv
  <1>4. HashTellsContent'
    BY <1>3, PublishedContent
  <1>5. /\ Written(scheduled', computed', r) = 0
        /\ \A s \in Requests : s # r =>
              Written(scheduled', computed', s) = Written(scheduled, computed, s)
    BY <1>1, WrittenKept
  <1>6. \A s \in live' : s # r =>
            /\ s \in live /\ tokens'[s] = tokens[s]
            /\ Written(scheduled', computed', s) = Written(scheduled, computed, s)
    BY <1>5, EngineTypes
  <1>7. Holds(table'[r], tokens'[r], Written(scheduled', computed', r), kv)
    <2>1. 0 .. 0 - 1 = {}
      OBVIOUS
    <2> QED
      BY <1>5, <2>1 DEF Holds
  <1>8. ContextInv'
    BY <1>1, <1>3, <1>6, <1>7, ContextKept DEF ContentInv
  <1> QED
    BY <1>4, <1>8 DEF ContentInv

\* A request joins the batch: its next blocks are not written yet.
LEMMA JoinContent ==
    ASSUME EngineInv, EntryInv, ContentInv, NEW r \in live, ~InBatch(r),
           NEW n \in Nat, computed[r] + n <= Len(tokens[r]),
           CanAllocate(r, computed[r], n), AllocateSlots(r, tokens[r], computed[r], n),
           computed' = [computed EXCEPT ![r] = @ + n],
           NEW e, e.req = r, e.offset = computed[r], scheduled' = Append(scheduled, e),
           UNCHANGED <<live, tokens, kv>>
    PROVE  ContentInv'
  <1>1. /\ r \in Requests /\ computed[r] \in Nat /\ tokens[r] \in Seq(Tokens)
        /\ Len(tokens[r]) \in Nat /\ table[r] \in Seq(BlockIds)
    BY EngineTypes
  <1>2. /\ OthersKept(r, table, table', hash, hash')
        /\ PublishedOnly(hash, hash', table[r], tokens[r], computed[r])
        /\ \A i \in DOMAIN table[r] : i \in DOMAIN table'[r] /\ table'[r][i] = table[r][i]
    BY <1>1, AllocateCache DEF EngineInv
  <1>3. HashTellsContent'
    <2>1. computed[r] <= Len(tokens[r])
      BY <1>1
    <2>2. \A m \in 1 .. computed[r] : SubSeq(tokens[r], 1, m) = SubSeq(tokens[r], 1, m)
      OBVIOUS
    <2>3. kv' = kv
      OBVIOUS
    <2> QED
      BY <1>1, <1>2, <2>1, <2>2, <2>3, PublishedContent
  <1>4. \A s \in Requests :
            Written(scheduled', computed', s) = Written(scheduled, computed, s)
    <2>1. computed' = [computed EXCEPT ![r] = computed[r] + n]
      OBVIOUS
    <2> QED
      BY <1>1, <2>1, WrittenJoin
  <1>5. Written(scheduled, computed, r) = computed[r]
    BY <1>1, WrittenFacts
  <1>6. Holds(table'[r], tokens'[r], Written(scheduled', computed', r), kv)
    <2>1. Holds(table[r], tokens[r], computed[r], kv)
      BY <1>5 DEF ContentInv, ContextInv
    <2>2. ASSUME NEW p \in 0 .. computed[r] - 1
          PROVE  SlotAt(table'[r], p) = SlotAt(table[r], p)
      <3>1. p \in Nat /\ p < computed[r]
        BY <1>1
      <3>2. p \div BlockSize + 1 \in DOMAIN table[r]
        BY <1>1, <3>1, SlotOfPosition
      <3> QED
        BY <1>2, <3>2 DEF SlotAt
    <2> QED
      BY <1>1, <1>4, <1>5, <2>1, <2>2 DEF Holds
  <1>7. \A s \in live' : s # r =>
            /\ s \in live /\ tokens'[s] = tokens[s]
            /\ Written(scheduled', computed', s) = Written(scheduled, computed, s)
    BY <1>4, EngineTypes
  <1>8. ContextInv'
    BY <1>1, <1>2, <1>6, <1>7, ContextKept DEF ContentInv
  <1> QED
    BY <1>3, <1>8 DEF ContentInv

\* The steps that touch neither blocks nor the batch: a request that arrives
\* or goes on has no context to read beyond what it had.
LEMMA KeepContent ==
    ASSUME EngineInv, EntryInv, ContentInv, UNCHANGED <<table, hash, kv>>,
           scheduled' = scheduled \/ (scheduled = <<>> /\ scheduled' = <<>>),
           \A s \in live' :
              /\ s \in Requests /\ computed'[s] \in Nat
              /\ \/ computed'[s] = 0 /\ scheduled = <<>>
                 \/ /\ s \in live /\ computed'[s] = computed[s]
                    /\ \A m \in 1 .. computed[s] :
                          SubSeq(tokens'[s], 1, m) = SubSeq(tokens[s], 1, m)
    PROVE  ContentInv'
  <1>1. scheduled' = scheduled
    OBVIOUS
  <1>2. HashTellsContent'
    BY DEF ContentInv, HashTellsContent
  <1>3. ASSUME NEW s \in live'
        PROVE  Holds(table[s], tokens'[s], Written(scheduled, computed', s), kv)
    <2>1. CASE computed'[s] = 0 /\ scheduled = <<>>
      <3>1. Written(scheduled, computed', s) = 0
        BY <2>1 DEF Written
      <3>2. 0 .. 0 - 1 = {}
        OBVIOUS
      <3> QED
        BY <3>1, <3>2 DEF Holds
    <2>2. CASE /\ s \in live /\ computed'[s] = computed[s]
               /\ \A m \in 1 .. computed[s] :
                     SubSeq(tokens'[s], 1, m) = SubSeq(tokens[s], 1, m)
      <3>1. Written(scheduled, computed', s) = Written(scheduled, computed, s)
        BY <2>2 DEF Written
      <3>2. s \in Requests /\ computed[s] \in Nat
        BY <2>2, EngineTypes
      <3>3. /\ Written(scheduled, computed, s) \in Nat
            /\ Written(scheduled, computed, s) <= computed[s]
        BY <3>2, WrittenFacts
      <3> DEFINE w == Written(scheduled, computed, s)
      <3>4. Holds(table[s], tokens[s], w, kv)
        BY <2>2 DEF ContentInv, ContextInv
      <3> HIDE DEF w
      <3>5. \A p \in 0 .. w - 1 : p + 1 \in 1 .. computed[s]
        BY <3>2, <3>3 DEF w
      <3>6. Holds(table[s], tokens'[s], w, kv)
        BY <2>2, <3>4, <3>5 DEF Holds
      <3> QED
        BY <3>1, <3>6 DEF w
    <2> QED
      BY <2>1, <2>2
  <1> QED
    BY <1>1, <1>2, <1>3 DEF ContentInv, ContextInv

\* One lemma per kind of step.
LEMMA ScheduleContent ==
    ASSUME EngineInv, EngineInv', StepInv, ContentInv, ScheduleRunning
    PROVE  ContentInv'
  <1> DEFINE r == running[cursor]
             n == ChunkLen(r)
             e == Entry(r, computed[r], n, numPrefill[r], computed[r] < numPrefill[r])
  <1>1. /\ cursor <= Len(running) /\ pc = "pass1"
        /\ CanAllocate(r, computed[r], n)
        /\ AllocateSlots(r, tokens[r], computed[r], n)
        /\ scheduled' = Append(scheduled, e)
        /\ computed' = [computed EXCEPT ![r] = @ + n]
        /\ UNCHANGED <<live, tokens, kv>>
    BY DEF ScheduleRunning, InPass1
  <1>2. r \in live /\ r \in Requests /\ ~InBatch(r)
    <2>1. /\ cursor \in Nat \ {0} /\ cursor = Len(scheduled) + 1 /\ running \in Seq(Requests)
          /\ scheduled \in Seq(Entries)
      BY <1>1, EngineTypes DEF EngineInv, IInv, Queues, BatchInv, RunInv, RestTypes
    <2>2. cursor \in 1 .. Len(running) /\ cursor > Len(scheduled)
      BY <1>1, <2>1
    <2> QED
      BY <2>1, <2>2, EngineTypes, ElementsOf, NotInBatch
  <1> HIDE DEF r
  <1>3. n \in Nat /\ computed[r] + n <= Len(tokens[r])
    BY <1>2, ChunkFacts
  <1> HIDE DEF n
  <1>4. e.req = r /\ e.offset = computed[r]
    BY DEF Entry
  <1> HIDE DEF e
  <1> QED
    BY <1>1, <1>2, <1>3, <1>4, JoinContent DEF StepInv

\* New blocks hold nothing that counts as computed.
LEMMA AdmitContent ==
    ASSUME EngineInv, EngineInv', StepInv, ContentInv, Admit
    PROVE  ContentInv'
  <1> DEFINE r == Candidate
             n == ChunkLen(r)
             e == Entry(r, computed[r], n, Len(tokens[r]), TRUE)
  <1>1. /\ pc = "admit"
        /\ CanAllocate(r, computed[r], n)
        /\ AllocateSlots(r, tokens[r], computed[r], n)
        /\ scheduled' = Append(scheduled, e)
        /\ computed' = [computed EXCEPT ![r] = @ + n]
        /\ UNCHANGED <<live, tokens, kv>>
    BY DEF Admit
  <1>2. r \in live /\ r \in Requests /\ ~InBatch(r)
    BY <1>1, CandidateFacts, NotInBatch DEF EngineInv, IInv, Queues
  <1> HIDE DEF r
  <1>3. n \in Nat /\ computed[r] + n <= Len(tokens[r])
    BY <1>2, ChunkFacts
  <1> HIDE DEF n
  <1>4. e.req = r /\ e.offset = computed[r]
    BY DEF Entry
  <1> HIDE DEF e
  <1> QED
    BY <1>1, <1>2, <1>3, <1>4, JoinContent DEF StepInv

\* A preempted request counts nothing as computed.
LEMMA PreemptContent ==
    ASSUME EngineInv, StepInv, ContentInv, PreemptNewest
    PROVE  ContentInv'
  <1> DEFINE v == Victim
  <1>1. /\ cursor <= Len(running) /\ pc = "pass1"
        /\ ReleaseBlocks(v, tokens[v], computed[v])
        /\ computed' = [computed EXCEPT ![v] = 0]
        /\ UNCHANGED <<live, tokens, scheduled, kv>>
    BY DEF PreemptNewest, InPass1, passVars
  <1>2. v \in live /\ v \in Requests /\ ~InBatch(v)
    <2>1. /\ cursor \in Nat \ {0} /\ cursor = Len(scheduled) + 1 /\ running \in Seq(Requests)
          /\ scheduled \in Seq(Entries)
      BY <1>1, EngineTypes DEF EngineInv, IInv, Queues, BatchInv, RunInv, RestTypes
    <2>2. Len(running) \in 1 .. Len(running) /\ Len(running) > Len(scheduled)
      BY <1>1, <2>1
    <2> QED
      BY <2>1, <2>2, EngineTypes, ElementsOf, NotInBatch DEF Victim
  <1> HIDE DEF v
  <1>3. /\ tokens[v] \in Seq(Tokens) /\ computed[v] <= Len(tokens[v])
        /\ tokens' = [tokens EXCEPT ![v] = tokens[v]]
    BY <1>1, <1>2, EngineTypes DEF TableFits
  <1> QED
    BY <1>1, <1>2, <1>3, VacateContent DEF StepInv

\* Nor does a refused one.
LEMMA RefuseContent ==
    ASSUME EngineInv, StepInv, ContentInv, Refuse
    PROVE  ContentInv'
  <1> DEFINE r == Candidate
  <1>1. /\ pc = "admit"
        /\ ReleaseBlocks(r, tokens[r], computed[r])
        /\ computed' = [computed EXCEPT ![r] = 0]
        /\ UNCHANGED <<live, tokens, scheduled, kv>>
    BY DEF Refuse, passVars
  <1>2. r \in live /\ r \in Requests /\ ~InBatch(r)
    BY <1>1, CandidateFacts, NotInBatch DEF EngineInv, IInv, Queues
  <1> HIDE DEF r
  <1>3. /\ tokens[r] \in Seq(Tokens) /\ computed[r] <= Len(tokens[r])
        /\ tokens' = [tokens EXCEPT ![r] = tokens[r]]
    BY <1>1, <1>2, EngineTypes DEF TableFits
  <1> QED
    BY <1>1, <1>2, <1>3, VacateContent DEF StepInv

\* toks is the request's tokens, or those and the last one sampled.
LEMMA RemoveContent ==
    ASSUME EngineInv, StepInv, ContentInv, NEW r \in live, NEW toks \in Seq(Tokens),
           computed[r] <= Len(toks),
           \A m \in 1 .. computed[r] : SubSeq(toks, 1, m) = SubSeq(tokens[r], 1, m),
           RemoveRequest(r, toks), scheduled = <<>>, UNCHANGED <<scheduled, kv>>
    PROVE  ContentInv'
  <1>1. /\ ReleaseBlocks(r, toks, computed[r])
        /\ computed' = [computed EXCEPT ![r] = 0]
        /\ tokens' = [tokens EXCEPT ![r] = <<>>]
        /\ live' \subseteq live
    BY DEF RemoveRequest
  <1>2. ~InBatch(r) /\ <<>> \in Seq(Tokens)
    BY DEF InBatch
  <1> QED
    BY <1>1, <1>2, VacateContent DEF StepInv

\* A new token is not computed yet; a request that leaves reads nothing.
LEMMA UpdateContent ==
    ASSUME EngineInv, StepInv, ContentInv, NEW t \in Tokens, Update(t)
    PROVE  ContentInv'
  <1> DEFINE r == Head(sampled)
             toks == Append(tokens[r], t)
             reason == FinishReason(r, toks, t)
  <1>1. pc = "update" /\ sampled # <<>> /\ UNCHANGED <<scheduled, kv>> /\ scheduled = <<>>
    BY DEF Update, passVars, EngineInv, RunInv
  <1>2. r \in live /\ r \in Requests
    BY <1>1, HeadOfSampled
  <1>3. /\ tokens[r] \in Seq(Tokens) /\ Len(tokens[r]) \in Nat /\ computed[r] \in Nat
        /\ computed[r] <= Len(tokens[r])
    BY <1>2, EngineTypes DEF TableFits
  <1>4. /\ toks \in Seq(Tokens) /\ Len(toks) = Len(tokens[r]) + 1
        /\ \A m \in 1 .. Len(tokens[r]) : SubSeq(toks, 1, m) = SubSeq(tokens[r], 1, m)
    BY <1>3, AppendedTokens
  <1>5. CASE reason = "running"
    <2>1. /\ tokens' = [tokens EXCEPT ![r] = toks]
          /\ UNCHANGED <<live, computed, table, hash>>
      BY <1>5 DEF Update, kvVars
    <2> HIDE DEF r, toks
    <2>2. ASSUME NEW s \in live'
          PROVE  /\ s \in Requests /\ computed'[s] \in Nat
                 /\ s \in live /\ computed'[s] = computed[s]
                 /\ \A m \in 1 .. computed[s] : SubSeq(tokens'[s], 1, m) = SubSeq(tokens[s], 1, m)
      <3>1. s \in live /\ s \in Requests /\ computed'[s] = computed[s] /\ computed[s] \in Nat
        BY <2>1, EngineTypes
      <3>2. CASE s = r
        <4>1. tokens'[s] = toks
          BY <2>1, <3>1, <3>2, EngineTypes
        <4>2. \A m \in 1 .. computed[r] : m \in 1 .. Len(tokens[r])
          BY <1>3
        <4> QED
          BY <1>4, <3>1, <3>2, <4>1, <4>2
      <3>3. CASE s # r
        <4>1. tokens'[s] = tokens[s]
          BY <2>1, <3>1, <3>3, EngineTypes
        <4> QED
          BY <3>1, <4>1
      <3> QED
        BY <3>2, <3>3
    <2> QED
      BY <1>1, <2>1, <2>2, KeepContent DEF StepInv
  <1>6. CASE reason # "running"
    <2>1. RemoveRequest(r, toks)
      BY <1>6 DEF Update
    <2> HIDE DEF r, toks
    <2>2. /\ computed[r] <= Len(toks)
          /\ \A m \in 1 .. computed[r] : SubSeq(toks, 1, m) = SubSeq(tokens[r], 1, m)
      BY <1>3, <1>4
    <2> QED
      BY <1>1, <1>2, <1>4, <2>1, <2>2, RemoveContent
  <1> QED
    BY <1>5, <1>6

\* A new request has no block.
LEMMA AddContent ==
    ASSUME EngineInv, StepInv, ContentInv, NEW p \in Prompts, NEW m \in MaxOutputs,
           NEW e \in IgnoreEos, AddRequest(p, m, e)
    PROVE  ContentInv'
  <1> DEFINE r == numAdded + 1
  <1>1. /\ r \in Requests
        /\ live' = live \cup {r}
        /\ tokens' = [tokens EXCEPT ![r] = p]
        /\ computed' = [computed EXCEPT ![r] = 0]
        /\ UNCHANGED <<table, hash, kv, scheduled>> /\ scheduled = <<>>
    BY DEF AddRequest, kvVars, passVars, EngineInv, RunInv
  <1> HIDE DEF r
  <1>2. ASSUME NEW s \in live'
        PROVE  /\ s \in Requests /\ computed'[s] \in Nat
               /\ \/ computed'[s] = 0 /\ scheduled = <<>>
                  \/ /\ s \in live /\ computed'[s] = computed[s]
                     /\ \A i \in 1 .. computed[s] :
                           SubSeq(tokens'[s], 1, i) = SubSeq(tokens[s], 1, i)
    <2>1. s \in Requests
      BY <1>1, EngineTypes
    <2>2. CASE s = r
      BY <1>1, <2>1, <2>2, EngineTypes
    <2>3. CASE s # r
      <3>1. s \in live /\ tokens'[s] = tokens[s] /\ computed'[s] = computed[s] /\ computed[s] \in Nat
        BY <1>1, <2>1, <2>3, EngineTypes
      <3> QED
        BY <2>1, <3>1
    <2> QED
      BY <2>2, <2>3
  <1> QED
    BY <1>1, <1>2, KeepContent DEF StepInv

\* Steps that touch neither blocks nor tokens.
LEMMA MoveContent ==
    ASSUME EngineInv, StepInv, ContentInv,
           UNCHANGED <<table, hash, kv, live, computed, tokens>>,
           scheduled' = scheduled \/ (scheduled = <<>> /\ scheduled' = <<>>)
    PROVE  ContentInv'
  <1>1. \A s \in live : s \in Requests /\ computed[s] \in Nat
    BY EngineTypes
  <1> QED
    BY <1>1, KeepContent DEF StepInv

\* Every step keeps the content of the cache.
LEMMA ContentNextInv ==
    ASSUME EngineInv, EngineInv', StepInv, ContentInv, [Next]_vars
    PROVE  ContentInv'
  <1>1. ASSUME NEW p \in Prompts, NEW m \in MaxOutputs, NEW e \in IgnoreEos,
               AddRequest(p, m, e)
        PROVE  ContentInv'
    BY <1>1, AddContent
  <1>2. ASSUME NEW r \in Requests, AbortRequest(r) PROVE ContentInv'
    <2>1. UNCHANGED <<scheduled, kv>> /\ scheduled = <<>>
      BY <1>2 DEF AbortRequest, passVars, EngineInv, RunInv
    <2>2. CASE r \in live
      <3>1. RemoveRequest(r, tokens[r])
        BY <1>2, <2>2 DEF AbortRequest
      <3>2. tokens[r] \in Seq(Tokens) /\ computed[r] <= Len(tokens[r])
        BY <1>2, EngineTypes DEF TableFits
      <3> QED
        BY <2>1, <2>2, <3>1, <3>2, RemoveContent
    <2>3. CASE r \notin live
      <3>1. UNCHANGED <<table, hash, live, computed, tokens>>
        BY <1>2, <2>3 DEF AbortRequest, kvVars, reqVars
      <3> QED
        BY <2>1, <3>1, MoveContent
    <2> QED
      BY <2>2, <2>3
  <1>3. ASSUME NEW t \in Tokens, Update(t) PROVE ContentInv'
    BY <1>3, UpdateContent
  <1>4. CASE RunModel
    BY <1>4, RunModelContent DEF StepInv
  <1>5. CASE LookupPrefix
    BY <1>5, LookupContent DEF StepInv
  <1>6. CASE BeginSchedule
    <2>1. /\ UNCHANGED <<table, hash, kv, live, computed, tokens>>
          /\ scheduled = <<>> /\ scheduled' = <<>>
      BY <1>6 DEF BeginSchedule, kvVars, reqVars, EngineInv, RunInv
    <2> QED
      BY <2>1, MoveContent
  <1>7. CASE EndPass1 \/ EndPass2 \/ EndUpdate \/ UNCHANGED vars
    <2>1. UNCHANGED <<table, hash, kv, live, computed, tokens, scheduled>>
      BY <1>7 DEF EndPass1, EndPass2, EndUpdate, vars, kvVars, reqVars, passVars
    <2> QED
      BY <2>1, MoveContent
  <1> QED
    BY <1>1, <1>2, <1>3, <1>4, <1>5, <1>6, <1>7, ScheduleContent, PreemptContent,
       AdmitContent, RefuseContent DEF Next, Receive, EngineStep

\* The content of the cache is right for ever.
LEMMA ContentIsInvariant == Spec => [](EngineInv /\ StepInv /\ ContentInv)
  <1>1. Init => ContentInv
    <2> SUFFICES ASSUME Init PROVE ContentInv
      OBVIOUS
    <2>1. live = {} /\ \A x \in Slots : x[1] \in BlockIds
      BY DEF Init, Slots
    <2>2. hash = [b \in BlockIds |-> <<>>]
      BY DEF Init, KVInit
    <2>3. \A x \in Slots : hash[x[1]] = <<>>
      BY <2>1, <2>2
    <2> QED
      BY <2>1, <2>3 DEF ContentInv, ContextInv, HashTellsContent
  <1>2. EngineInv /\ EngineInv' /\ StepInv /\ ContentInv /\ [Next]_vars => ContentInv'
    BY ContentNextInv
  <1> QED
    BY <1>1, <1>2, StepIsInvariant, PTL DEF Spec

\* Attention reads, at every position a request counts as computed, the keys
\* and values of the request's own tokens, whoever computed them, across
\* preemption, eviction and reuse of blocks.
THEOREM SchedulerContextIsOwn == Spec => []ContextIsOwn
  <1>1. EngineInv /\ StepInv /\ ContentInv => ContextIsOwn
    <2> SUFFICES ASSUME EngineInv, StepInv, ContentInv,
                        NEW r \in live, NEW p \in 0 .. NumWritten(r) - 1
                 PROVE  /\ p \div BlockSize < Len(table[r])
                        /\ kv[SlotAt(table[r], p)] = SubSeq(tokens[r], 1, p + 1)
      BY DEF ContextIsOwn
    <2>1. NumWritten(r) = Written(scheduled, computed, r)
      BY DEF NumWritten, InBatch, Written
    <2>2. r \in Requests /\ computed[r] \in Nat
      BY EngineTypes
    <2>3. NumWritten(r) \in Nat /\ NumWritten(r) <= computed[r]
      BY <2>1, <2>2, WrittenFacts DEF StepInv
    <2>4. p \in Nat /\ p < computed[r]
      BY <2>2, <2>3
    <2>5. p \div BlockSize < Len(table[r])
      BY <2>2, <2>4, SlotOfPosition
    <2>6. kv[SlotAt(table[r], p)] = SubSeq(tokens[r], 1, p + 1)
      BY <2>1 DEF ContentInv, ContextInv, Holds
    <2> QED
      BY <2>5, <2>6
  <1> QED
    BY <1>1, ContentIsInvariant, PTL

\* A block whose hash is valid is full of the keys and values of exactly the
\* tokens behind that hash (kv_cache_manager.h:61), for every cache.
THEOREM SchedulerHashTellsContent == Spec => []HashTellsContent
  <1>1. ContentInv => HashTellsContent
    BY DEF ContentInv
  <1> QED
    BY <1>1, ContentIsInvariant, PTL
=============================================================================
