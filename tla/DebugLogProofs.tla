--------------------------- MODULE DebugLogProofs ---------------------------
(***************************************************************************)
(* The debug log for every set of producers, every ring, every number of   *)
(* route slots and every bound: its state is well formed and its file has  *)
(* one owner, no line and no reroute misses in the counts as long as no    *)
(* write failed uncounted, and a shutdown in time leaves in the ring and   *)
(* the counters only what came after it.                                   *)
(*                                                                         *)
(* The counts are sums over the threads' hands, so the invariant follows   *)
(* the number of lines in hand through every step.  What failed writes     *)
(* took along (forgotten) is part of the sums it keeps and, being in no    *)
(* counter of the program, an exception in what it says of the log.        *)
(***************************************************************************)
EXTENDS DebugLog, FiniteSetTheorems, TLAPS

-----------------------------------------------------------------------------
(* The inductive invariant.                                                *)

ProducerPcs == {"idle", "create", "commit", "signal", "sync", "syncWrite"}
DrainerPcs  == {"none", "wait", "drain", "lastDrain", "take", "lastTake", "write",
                "lastWrite", "leave", "lastLeave", "ended", "join", "gaveUp"}

\* The places that hold a line, and the places inside the file lock
Holding == {"create", "commit", "sync", "syncWrite", "write", "lastWrite"}
Locking == {"syncWrite", "take", "write", "leave", "lastTake", "lastWrite", "lastLeave"}

Actors == Producers \cup Drainers
Counts == [lines : Nat, reroutes : Nat]

StateOK ==
    /\ ring \in Seq(Nat) /\ dropped \in Nat /\ rerouted \in Nat
    /\ current \in 1..MaxRoutes /\ slots \in [0..(RouteSlots - 1) -> 0..current]
    /\ event \in BOOLEAN /\ published \in BOOLEAN /\ starting \in BOOLEAN
    /\ stopping \in BOOLEAN
    /\ pc \in [Actors -> ProducerPcs \cup DrainerPcs]
    /\ \A p \in Producers : pc[p] \in ProducerPcs
    /\ \A a \in Drainers : pc[a] \in DrainerPcs
    /\ hand \in [Drainers -> [gen : Nat, file : Nat]]
    /\ written \in Counts /\ reported \in Counts /\ forgotten \in Counts
    /\ lines \in 0..MaxLines /\ faults \in 0..MaxFileFaults

RingOK ==
    /\ Len(ring) <= RingLines
    /\ \A i \in 1..Len(ring) : ring[i] \in 1..current

\* The file lock's owner is the thread inside it
LockOK == \A a \in Actors : pc[a] \in Locking <=> fileLock = a

\* One producer at most creates the writer, and only before there is one
CreateOK ==
    /\ pc["writer"] # "none" => starting
    /\ \A p \in Producers : pc[p] = "create" =>
         /\ starting /\ pc["writer"] = "none"
         /\ \A q \in Producers : pc[q] = "create" => q = p

Early == {p \in Producers : pc[p] \in {"create", "commit"}}

\* A drain that holds a line of another route
Astray == IF \E a \in Drainers : pc[a] \in {"write", "lastWrite"} /\ hand[a].file # hand[a].gen
          THEN 1 ELSE 0

\* The lines that have left the threads and the ring, and the reroutes that are counted
Gone  == written.lines + dropped + reported.lines + forgotten.lines
Noted == rerouted + reported.reroutes + forgotten.reroutes

\* Lines and reroutes add up; and what bounds the counts: a line in hand, in the ring or
\* dropped is a logged one or a marker that failed; a rerouted line was in the ring
LinesOK  == lines <= Len(ring) + Cardinality(InHand) + Gone
StraysOK == written.reroutes + Astray <= Noted
DropsOK  == dropped + Len(ring) + Cardinality(InHand) <= lines + faults
EarlyOK  == rerouted + Len(ring) + Cardinality(Early) <= lines

CountsOK == LinesOK /\ StraysOK /\ DropsOK /\ EarlyOK

IInv == StateOK /\ RingOK /\ LockOK /\ CreateOK /\ CountsOK

\* From its own drain on, the shutdown answers for all but late lines and file faults: for
\* the counters as soon as it has taken them, for the ring once it has seen it empty
ShutdownOK ==
    /\ late \in Nat
    /\ pc["stopper"] \in {"lastTake", "lastWrite"} => dropped <= late + faults
    /\ pc["stopper"] \in {"lastLeave", "ended"} => Len(ring) + dropped <= late + faults

-----------------------------------------------------------------------------
(* Counting hands.                                                         *)

\* The threads are finitely many and have names of their own.
LEMMA ActorsFinite ==
    ASSUME LogParameters
    PROVE  /\ IsFiniteSet(Actors) /\ Nobody \notin Actors
           /\ Producers \cap Drainers = {} /\ "writer" \in Drainers /\ "stopper" \in Drainers
<1>1. IsFiniteSet(Drainers)
  <2>1. IsFiniteSet({"writer"}) /\ IsFiniteSet({"stopper"})
    BY FS_Singleton
  <2>2. Drainers = {"writer"} \cup {"stopper"}
    BY DEF Drainers
  <2> QED
    BY <2>1, <2>2, FS_Union
<1>2. IsFiniteSet(Producers)
  BY DEF LogParameters
<1>3. IsFiniteSet(Actors)
  BY <1>1, <1>2, FS_Union DEF Actors
<1> QED
  BY <1>3 DEF LogParameters, Actors, Drainers, Nobody

\* A finite set that gains or loses one element counts one more or one less.
LEMMA OneMoreOrLess ==
    ASSUME NEW S, NEW T, NEW a, IsFiniteSet(S)
    PROVE  /\ T = S \cup {a} /\ a \notin S
                => Cardinality(T) = Cardinality(S) + 1 /\ Cardinality(T) \in Nat
           /\ S = T \cup {a} /\ a \notin T
                => Cardinality(T) = Cardinality(S) - 1 /\ Cardinality(T) \in Nat
           /\ Cardinality(S) \in Nat
<1>1. Cardinality(S) \in Nat
  BY FS_CardinalityType
<1>2. ASSUME T = S \cup {a}, a \notin S
      PROVE  Cardinality(T) = Cardinality(S) + 1 /\ Cardinality(T) \in Nat
  BY <1>1, <1>2, FS_AddElement
<1>3. ASSUME S = T \cup {a}, a \notin T
      PROVE  Cardinality(T) = Cardinality(S) - 1 /\ Cardinality(T) \in Nat
  <2>1. IsFiniteSet(T)
    BY <1>3, FS_Subset
  <2>2. Cardinality(T) \in Nat /\ Cardinality(S) = Cardinality(T) + 1
    BY <1>3, <2>1, FS_AddElement, FS_CardinalityType
  <2> QED
    BY <2>2
<1> QED
  BY <1>1, <1>2, <1>3

\* The hands are finitely many.
LEMMA HandsFinite ==
    ASSUME LogParameters, StateOK
    PROVE  /\ IsFiniteSet(InHand) /\ IsFiniteSet(Early)
           /\ Cardinality(InHand) \in Nat /\ Cardinality(Early) \in Nat
<1>1. InHand \subseteq Actors /\ Early \subseteq Actors
  BY DEF InHand, Early, StateOK, Actors
<1>2. IsFiniteSet(InHand) /\ IsFiniteSet(Early)
  BY <1>1, ActorsFinite, FS_Subset
<1> QED
  BY <1>2, FS_CardinalityType

\* How the number of lines in hand follows the step of one thread.
LEMMA HandsMove ==
    ASSUME LogParameters, StateOK, NEW a \in Actors, NEW w, Goto(a, w)
    PROVE  /\ (pc[a] \in Holding <=> w \in Holding)
                => Cardinality(InHand)' = Cardinality(InHand)
           /\ pc[a] \notin Holding /\ w \in Holding
                => Cardinality(InHand)' = Cardinality(InHand) + 1
           /\ pc[a] \in Holding /\ w \notin Holding
                => Cardinality(InHand)' = Cardinality(InHand) - 1
           /\ Cardinality(InHand) \in Nat /\ Cardinality(InHand)' \in Nat
<1>1. DOMAIN pc = Actors /\ pc' = [pc EXCEPT ![a] = w] /\ DOMAIN pc' = Actors
  BY DEF StateOK, Goto
<1>2. InHand = {b \in Actors : pc[b] \in Holding} /\ InHand' = {b \in Actors : pc'[b] \in Holding}
  BY <1>1 DEF InHand, Holding
<1>3. \A b \in Actors : pc'[b] = IF b = a THEN w ELSE pc[b]
  BY <1>1
<1>4. IsFiniteSet(InHand) /\ Cardinality(InHand) \in Nat
  BY HandsFinite
<1>5. CASE pc[a] \in Holding <=> w \in Holding
  <2>1. InHand' = InHand
    BY <1>2, <1>3, <1>5
  <2> QED
    BY <1>4, <1>5, <2>1
<1>6. CASE pc[a] \notin Holding /\ w \in Holding
  <2>1. InHand' = InHand \cup {a} /\ a \notin InHand
    BY <1>2, <1>3, <1>6
  <2> QED
    BY <1>4, <1>6, <2>1, OneMoreOrLess
<1>7. CASE pc[a] \in Holding /\ w \notin Holding
  <2>1. InHand = InHand' \cup {a} /\ a \notin InHand'
    BY <1>2, <1>3, <1>7
  <2> QED
    BY <1>4, <1>7, <2>1, OneMoreOrLess
<1> QED
  BY <1>5, <1>6, <1>7

\* How the number of lines on their way to the ring follows the step of one thread.
LEMMA EarlyMoves ==
    ASSUME LogParameters, StateOK, NEW a \in Actors, NEW w, Goto(a, w)
    PROVE  /\ (a \in Drainers \/ (pc[a] \in {"create", "commit"} <=> w \in {"create", "commit"}))
                => Cardinality(Early)' = Cardinality(Early)
           /\ a \in Producers /\ pc[a] \notin {"create", "commit"} /\ w \in {"create", "commit"}
                => Cardinality(Early)' = Cardinality(Early) + 1
           /\ a \in Producers /\ pc[a] \in {"create", "commit"} /\ w \notin {"create", "commit"}
                => Cardinality(Early)' = Cardinality(Early) - 1
           /\ Cardinality(Early) \in Nat /\ Cardinality(Early)' \in Nat
<1> DEFINE E == {"create", "commit"}
<1>1. \A b \in Producers : pc'[b] = IF b = a THEN w ELSE pc[b]
  BY DEF StateOK, Goto, Actors
<1>2. Early = {b \in Producers : pc[b] \in E} /\ Early' = {b \in Producers : pc'[b] \in E}
  BY DEF Early
<1>3. IsFiniteSet(Early) /\ Cardinality(Early) \in Nat
  BY HandsFinite
<1>4. a \in Drainers => a \notin Producers
  BY ActorsFinite
<1> HIDE DEF E
<1>5. CASE a \notin Producers \/ (pc[a] \in E <=> w \in E)
  <2>1. Early' = Early
    BY <1>1, <1>2, <1>5
  <2> QED
    BY <1>3, <1>4, <1>5, <2>1 DEF E
<1>6. CASE a \in Producers /\ pc[a] \notin E /\ w \in E
  <2>1. Early' = Early \cup {a} /\ a \notin Early
    BY <1>1, <1>2, <1>6
  <2> QED
    BY <1>3, <1>4, <1>6, <2>1, OneMoreOrLess DEF E
<1>7. CASE a \in Producers /\ pc[a] \in E /\ w \notin E
  <2>1. Early = Early' \cup {a} /\ a \notin Early'
    BY <1>1, <1>2, <1>7
  <2> QED
    BY <1>3, <1>4, <1>7, <2>1, OneMoreOrLess DEF E
<1> QED
  BY <1>5, <1>6, <1>7
-----------------------------------------------------------------------------
(* Every step keeps the invariant.                                         *)

\* The counters are natural numbers.
CountsTyped ==
    /\ lines \in Nat /\ faults \in Nat /\ dropped \in Nat /\ rerouted \in Nat
    /\ Len(ring) \in Nat /\ written.reroutes \in Nat
    /\ Gone \in Nat /\ Noted \in Nat /\ Astray \in Nat
    /\ Cardinality(InHand) \in Nat /\ Cardinality(Early) \in Nat

\* They are, in a well-formed state.
LEMMA Numbers ==
    ASSUME LogParameters, StateOK
    PROVE  CountsTyped
<1>1. /\ written.lines \in Nat /\ written.reroutes \in Nat
      /\ reported.lines \in Nat /\ reported.reroutes \in Nat
      /\ forgotten.lines \in Nat /\ forgotten.reroutes \in Nat
      /\ dropped \in Nat /\ rerouted \in Nat
  BY DEF StateOK, Counts
<1>2. Gone \in Nat /\ Noted \in Nat
  BY <1>1 DEF Gone, Noted
<1>3. Len(ring) \in Nat
  BY DEF StateOK
<1>4. lines \in Nat /\ faults \in Nat
  BY DEF LogParameters, StateOK
<1> QED
  BY <1>1, <1>2, <1>3, <1>4, HandsFinite DEF Astray, CountsTyped

\* They stay within their bounds.
LEMMA Bounds ==
    ASSUME LogParameters, StateOK
    PROVE  /\ MaxLines \in Nat /\ RingLines \in Nat /\ MaxFileFaults \in Nat
           /\ RouteSlots \in Nat /\ RouteSlots > 0
           /\ lines \in 0..MaxLines /\ faults \in 0..MaxFileFaults
BY DEF LogParameters, StateOK

\* A thread that moves stays among the places it has, and the lock and the creation of
\* the writer stay as they are unless it moves into or out of them.
LEMMA PcMoves ==
    ASSUME LogParameters, StateOK, NEW a \in Actors, NEW w, Goto(a, w),
           a \in Producers => w \in ProducerPcs, a \in Drainers => w \in DrainerPcs
    PROVE  /\ pc' \in [Actors -> ProducerPcs \cup DrainerPcs]
           /\ \A p \in Producers : pc'[p] \in ProducerPcs
           /\ \A d \in Drainers : pc'[d] \in DrainerPcs
           /\ \A b \in Actors : pc'[b] = IF b = a THEN w ELSE pc[b]
           /\ pc'["writer"] = IF a = "writer" THEN w ELSE pc["writer"]
<1>1. /\ pc' = [pc EXCEPT ![a] = w] /\ pc \in [Actors -> ProducerPcs \cup DrainerPcs]
      /\ \A p \in Producers : p \in Actors /\ pc[p] \in ProducerPcs
      /\ \A d \in Drainers : d \in Actors /\ pc[d] \in DrainerPcs
      /\ a \in Producers \/ a \in Drainers
  BY DEF StateOK, Goto, Actors
<1>2. "writer" \in Actors
  BY ActorsFinite DEF Actors
<1> QED
  BY <1>1, <1>2

\* One line written, dropped or forgotten is one line more that is gone; a line in the
\* file of another route is one stray more that is written.
LEMMA WriteLineCounts ==
    ASSUME LogParameters, StateOK, NEW r \in [gen : Nat, file : Nat], WriteLine(r),
           rerouted' = rerouted
    PROVE  /\ written' \in Counts /\ reported' \in Counts /\ forgotten' \in Counts
           /\ dropped' \in Nat /\ faults' \in 0..MaxFileFaults
           /\ Gone' = Gone + 1 /\ Noted' = Noted
           /\ dropped' + faults <= dropped + faults'
           /\ written'.reroutes <= written.reroutes + (IF r.file # r.gen THEN 1 ELSE 0)
<1>1. /\ written \in Counts /\ reported \in Counts /\ forgotten \in Counts
      /\ dropped \in Nat /\ rerouted \in Nat
      /\ faults \in 0..MaxFileFaults /\ MaxFileFaults \in Nat
  BY DEF StateOK, LogParameters
<1>2. /\ written.lines \in Nat /\ written.reroutes \in Nat /\ forgotten.lines \in Nat
      /\ forgotten.reroutes \in Nat /\ reported.lines \in Nat /\ reported.reroutes \in Nat
  BY <1>1 DEF Counts
<1>3. CASE /\ written' = [lines |-> written.lines + 1,
                      reroutes |-> written.reroutes + (IF r.file # r.gen THEN 1 ELSE 0)]
           /\ UNCHANGED <<dropped, reported, forgotten, faults>>
  <2>1. /\ written'.lines = written.lines + 1
        /\ written'.reroutes = written.reroutes + (IF r.file # r.gen THEN 1 ELSE 0)
        /\ written' \in Counts
    BY <1>2, <1>3 DEF Counts
  <2>2. Gone' = Gone + 1 /\ Noted' = Noted
    BY <1>1, <1>2, <1>3, <2>1 DEF Gone, Noted
  <2> QED
    BY <1>1, <1>2, <1>3, <2>1, <2>2
<1>4. CASE /\ faults < MaxFileFaults /\ faults' = faults + 1
           /\ dropped' = dropped + 1
           /\ UNCHANGED fileVars
  <2>1. UNCHANGED <<written, reported, forgotten>>
    BY <1>4 DEF fileVars
  <2>2. Gone' = Gone + 1 /\ Noted' = Noted
    BY <1>1, <1>2, <1>4, <2>1 DEF Gone, Noted
  <2> QED
    BY <1>1, <1>2, <1>4, <2>1, <2>2
<1>5. CASE /\ faults < MaxFileFaults /\ faults' = faults + 1
           /\ forgotten' = [forgotten EXCEPT !.lines = @ + 1]
           /\ UNCHANGED <<dropped, written, reported>>
  <2>1. /\ forgotten'.lines = forgotten.lines + 1 /\ forgotten'.reroutes = forgotten.reroutes
        /\ forgotten' \in Counts
    BY <1>1, <1>2, <1>5 DEF Counts
  <2>2. Gone' = Gone + 1 /\ Noted' = Noted
    BY <1>1, <1>2, <1>5, <2>1 DEF Gone, Noted
  <2> QED
    BY <1>1, <1>2, <1>5, <2>1, <2>2
<1> QED
  BY <1>3, <1>4, <1>5 DEF WriteLine

\* A line is logged: into the hand of its producer.
LEMMA Logs ==
    ASSUME LogParameters, IInv, NEW p \in Producers, Log(p)
    PROVE  IInv'
<1> DEFINE w == IF published THEN "commit" ELSE IF stopping \/ starting THEN "sync" ELSE "create"
<1>1. /\ pc[p] = "idle" /\ lines < MaxLines /\ lines' = lines + 1 /\ Goto(p, w)
      /\ starting' = (starting \/ (~published /\ ~stopping))
      /\ UNCHANGED <<ringVars, routeVars, event, published, stopping, fileLock, hand, fileVars,
                     faults>>
  BY DEF Log
<1>2. /\ w \in {"commit", "sync", "create"}
      /\ w = "create" => ~starting /\ starting'
      /\ starting => starting'
      /\ starting' \in BOOLEAN
  BY <1>1 DEF IInv, StateOK
<1> HIDE DEF w
<1>3. p \in Actors /\ p # "writer" /\ p \notin Drainers
  BY ActorsFinite DEF Actors
<1>4. /\ pc' \in [Actors -> ProducerPcs \cup DrainerPcs]
      /\ \A q \in Producers : pc'[q] \in ProducerPcs
      /\ \A d \in Drainers : pc'[d] \in DrainerPcs
      /\ \A b \in Actors : pc'[b] = IF b = p THEN w ELSE pc[b]
      /\ pc'["writer"] = pc["writer"]
  BY <1>1, <1>2, <1>3, PcMoves DEF IInv, ProducerPcs
<1>5. /\ Cardinality(InHand)' = Cardinality(InHand) + 1
      /\ Cardinality(InHand) \in Nat /\ Cardinality(InHand)' \in Nat
  BY <1>1, <1>2, <1>3, HandsMove DEF IInv, Holding
<1>6. /\ Cardinality(Early) \in Nat /\ Cardinality(Early)' \in Nat
      /\ Cardinality(Early)' <= Cardinality(Early) + 1
  BY <1>1, <1>2, <1>3, EarlyMoves DEF IInv
<1>7. Astray' = Astray
  <2>1. \A a \in Drainers : pc'[a] = pc[a] /\ hand' = hand
    BY <1>1, <1>3, <1>4 DEF Actors
  <2> QED
    BY <2>1 DEF Astray
<1>8. StateOK'
  <2>1. lines' \in 0..MaxLines
    BY <1>1, Bounds DEF IInv
  <2> QED
    BY <1>1, <1>2, <1>4, <2>1 DEF IInv, StateOK, ringVars, routeVars, fileVars
<1>9. RingOK'
  BY <1>1 DEF IInv, RingOK, ringVars, routeVars
<1>10. LockOK'
  BY <1>1, <1>2, <1>4 DEF IInv, LockOK, Locking
<1>11. CreateOK'
  <2>1. \A q \in Producers : q \in Actors
    BY DEF Actors
  <2> QED
    BY <1>1, <1>2, <1>4, <2>1 DEF IInv, CreateOK
<1>12. CountsOK'
  <2>1. /\ UNCHANGED <<ring, dropped, rerouted, faults>> /\ lines' = lines + 1
        /\ Gone' = Gone /\ Noted' = Noted /\ written' = written
    BY <1>1 DEF ringVars, fileVars, Gone, Noted
  <2>2. CountsOK /\ CountsTyped
    BY Numbers DEF IInv
  <2>3. LinesOK' /\ StraysOK'
    BY <1>5, <1>7, <2>1, <2>2 DEF CountsOK, CountsTyped, LinesOK, StraysOK
  <2>4. DropsOK' /\ EarlyOK'
    BY <1>5, <1>6, <2>1, <2>2 DEF CountsOK, CountsTyped, DropsOK, EarlyOK
  <2> QED
    BY <2>3, <2>4 DEF CountsOK
<1> QED
  BY <1>8, <1>9, <1>10, <1>11, <1>12 DEF IInv

\* How a step may use the file lock: not at all, take it when it is free, or give it back
LockStep(a, w) ==
    \/ fileLock' = fileLock /\ (pc[a] \in Locking <=> w \in Locking)
    \/ fileLock = Nobody /\ fileLock' = a /\ w \in Locking
    \/ pc[a] \in Locking /\ fileLock' = Nobody /\ w \notin Locking

\* The lock's owner stays the thread inside it.
LEMMA LockMoves ==
    ASSUME LogParameters, StateOK, LockOK, NEW a \in Actors, NEW w,
           \A b \in Actors : pc'[b] = IF b = a THEN w ELSE pc[b], LockStep(a, w)
    PROVE  LockOK'
<1>1. Nobody \notin Actors
  BY ActorsFinite
<1> QED
  BY <1>1 DEF LockOK, LockStep

\* A step that moves one thread and no line: the wake, the signal, the file lock, the
\* end of a drain, the stop and its join.
LEMMA QuietMove ==
    ASSUME LogParameters, IInv, NEW a \in Actors, NEW w, Goto(a, w), LockStep(a, w),
           a \in Producers => w \in ProducerPcs, a \in Drainers => w \in DrainerPcs,
           pc[a] \in Holding <=> w \in Holding,
           {pc[a], w} \cap {"create", "commit", "write", "lastWrite"} = {},
           a = "writer" => pc[a] # "none",
           UNCHANGED <<ring, dropped, rerouted, current, slots, starting, hand, written,
                       reported, forgotten, lines, faults>>,
           event' \in BOOLEAN, published' \in BOOLEAN, stopping' \in BOOLEAN
    PROVE  IInv'
<1>1. /\ pc' \in [Actors -> ProducerPcs \cup DrainerPcs]
      /\ \A p \in Producers : pc'[p] \in ProducerPcs
      /\ \A d \in Drainers : pc'[d] \in DrainerPcs
      /\ \A b \in Actors : pc'[b] = IF b = a THEN w ELSE pc[b]
      /\ pc'["writer"] = IF a = "writer" THEN w ELSE pc["writer"]
  BY PcMoves DEF IInv
<1>2. StateOK'
  BY <1>1 DEF IInv, StateOK
<1>3. RingOK'
  BY DEF IInv, RingOK
<1>4. LockOK'
  BY <1>1, LockMoves DEF IInv
<1>5. CreateOK'
  <2>1. \A q \in Producers : q \in Actors
    BY DEF Actors
  <2> QED
    BY <1>1, <2>1 DEF IInv, CreateOK
<1>6. CountsOK'
  <2>1. Cardinality(InHand)' = Cardinality(InHand) /\ Cardinality(Early)' = Cardinality(Early)
    BY HandsMove, EarlyMoves DEF IInv, Actors
  <2>2. Gone' = Gone /\ Noted' = Noted
    BY DEF Gone, Noted
  <2>3. Astray' = Astray
    <3>1. \A d \in Drainers : (pc'[d] \in {"write", "lastWrite"} <=> pc[d] \in {"write", "lastWrite"})
                              /\ hand'[d] = hand[d]
      BY <1>1 DEF Actors
    <3> QED
      BY <3>1 DEF Astray
  <2> QED
    BY <2>1, <2>2, <2>3 DEF IInv, CountsOK, LinesOK, StraysOK, DropsOK, EarlyOK
<1> QED
  BY <1>2, <1>3, <1>4, <1>5, <1>6 DEF IInv

\* The steps of that kind.
LEMMA QuietSteps ==
    ASSUME LogParameters, IInv,
           \/ \E p \in Producers : Signal(p) \/ SyncLock(p)
           \/ \E a \in Drainers : Leave(a)
           \/ Wake \/ Stop \/ Join \/ JoinTimesOut
    PROVE  IInv'
<1>1. /\ event \in BOOLEAN /\ published \in BOOLEAN /\ starting \in BOOLEAN
      /\ stopping \in BOOLEAN
  BY DEF IInv, StateOK
<1>2. /\ \A p \in Producers : p \in Actors /\ p \notin Drainers /\ p # "writer"
      /\ \A a \in Drainers : a \in Actors /\ a \notin Producers
      /\ "writer" \in Drainers /\ "stopper" \in Drainers /\ "stopper" # "writer"
  BY ActorsFinite DEF Actors
<1>3. ASSUME NEW p \in Producers, Signal(p)
      PROVE  IInv'
  BY <1>1, <1>2, <1>3, QuietMove
     DEF Signal, LockStep, ProducerPcs, Holding, Locking, ringVars, routeVars, fileVars
<1>4. ASSUME NEW p \in Producers, SyncLock(p)
      PROVE  IInv'
  BY <1>1, <1>2, <1>4, QuietMove
     DEF SyncLock, LockStep, ProducerPcs, Holding, Locking, ringVars, routeVars, threadVars,
         fileVars
<1>5. ASSUME NEW a \in Drainers, Leave(a)
      PROVE  IInv'
  <2> DEFINE w == IF pc[a] = "lastLeave" THEN "ended"
                  ELSE IF stopping THEN "lastDrain" ELSE "wait"
  <2>1. /\ pc[a] \in {"leave", "lastLeave"} /\ Goto(a, w) /\ fileLock' = Nobody
        /\ UNCHANGED <<ringVars, routeVars, threadVars, hand, fileVars, lines, faults>>
    BY <1>5 DEF Leave
  <2>2. w \in {"ended", "lastDrain", "wait"}
    OBVIOUS
  <2> HIDE DEF w
  <2> QED
    BY <1>1, <1>2, <2>1, <2>2, QuietMove
       DEF LockStep, DrainerPcs, Holding, Locking, ringVars, routeVars, threadVars, fileVars
<1>6. CASE Wake
  BY <1>1, <1>2, <1>6, QuietMove
     DEF Wake, LockStep, DrainerPcs, Holding, Locking, ringVars, routeVars, fileVars
<1>7. CASE Stop
  <2> DEFINE w == IF published THEN "join" ELSE "lastDrain"
  <2>1. /\ pc["stopper"] = "none" /\ Goto("stopper", w) /\ stopping' = TRUE
        /\ event' = (event \/ published)
        /\ UNCHANGED <<ringVars, routeVars, published, starting, fileLock, hand, fileVars,
                       lines, faults>>
    BY <1>7 DEF Stop
  <2>2. w \in {"join", "lastDrain"} /\ event' \in BOOLEAN /\ stopping' \in BOOLEAN
    BY <2>1
  <2> HIDE DEF w
  <2> QED
    BY <1>1, <1>2, <2>1, <2>2, QuietMove
       DEF LockStep, DrainerPcs, Holding, Locking, ringVars, routeVars, fileVars
<1>8. CASE Join
  BY <1>1, <1>2, <1>8, QuietMove
     DEF Join, LockStep, DrainerPcs, Holding, Locking, ringVars, routeVars, fileVars
<1>9. CASE JoinTimesOut
  BY <1>1, <1>2, <1>9, QuietMove
     DEF JoinTimesOut, LockStep, DrainerPcs, Holding, Locking, ringVars, routeVars, fileVars
<1> QED
  BY <1>3, <1>4, <1>5, <1>6, <1>7, <1>8, <1>9

\* The writer is created, by the only producer that tries, or the producer keeps its
\* line for a write of its own.
LEMMA Creates ==
    ASSUME LogParameters, IInv, NEW p \in Producers, Create(p)
    PROVE  IInv'
<1>1. /\ p \in Actors /\ p \notin Drainers /\ p # "writer" /\ "writer" \in Actors
      /\ "writer" \notin Producers
      /\ \A q \in Producers : q \in Actors
      /\ \A d \in Drainers : d \in Actors /\ d \notin Producers
  BY ActorsFinite DEF Actors
<1>2. /\ pc[p] = "create" /\ pc["writer"] = "none" /\ starting
      /\ \A q \in Producers : pc[q] = "create" => q = p
      /\ UNCHANGED <<ring, dropped, rerouted, current, slots, event, stopping, fileLock, hand,
                     written, reported, forgotten, lines>>
  BY DEF Create, IInv, CreateOK, ringVars, routeVars, fileVars
<1>3. pc \in [Actors -> ProducerPcs \cup DrainerPcs] /\ StateOK /\ CountsOK /\ CountsTyped
  BY Numbers DEF IInv, StateOK
<1>4. Gone' = Gone /\ Noted' = Noted
  BY <1>2 DEF Gone, Noted
<1>5. RingOK'
  BY <1>2 DEF IInv, RingOK
<1>6. CASE /\ published' = TRUE
           /\ pc' = [pc EXCEPT ![p] = "commit", !["writer"] = "wait"]
           /\ UNCHANGED <<starting, faults>>
  <2>1. /\ pc' \in [Actors -> ProducerPcs \cup DrainerPcs]
        /\ \A b \in Actors : pc'[b] = IF b = p THEN "commit"
                                      ELSE IF b = "writer" THEN "wait" ELSE pc[b]
    BY <1>1, <1>3, <1>6 DEF ProducerPcs, DrainerPcs
  <2>2. /\ \A q \in Producers : pc'[q] \in ProducerPcs
        /\ \A d \in Drainers : pc'[d] \in DrainerPcs
    BY <1>1, <2>1 DEF IInv, StateOK, ProducerPcs, DrainerPcs
  <2>3. StateOK'
    BY <1>2, <1>6, <2>1, <2>2 DEF IInv, StateOK
  <2>4. LockOK'
    BY <1>1, <1>2, <2>1 DEF IInv, LockOK, Locking
  <2>5. CreateOK'
    BY <1>1, <1>2, <1>6, <2>1 DEF IInv, CreateOK
  <2>6. InHand' = InHand
    <3>1. DOMAIN pc = Actors /\ DOMAIN pc' = Actors
      BY <1>3, <2>1
    <3>2. \A b \in Actors : pc'[b] \in Holding <=> pc[b] \in Holding
      BY <1>1, <1>2, <2>1 DEF Holding
    <3> QED
      BY <3>1, <3>2 DEF InHand, Holding
  <2>7. Early' = Early
    BY <1>1, <1>2, <2>1 DEF Early
  <2>8. Astray' = Astray
    <3>1. \A d \in Drainers : (pc'[d] \in {"write", "lastWrite"} <=> pc[d] \in {"write", "lastWrite"})
                              /\ hand'[d] = hand[d]
      BY <1>1, <1>2, <2>1
    <3> QED
      BY <3>1 DEF Astray
  <2>9. CountsOK'
    BY <1>2, <1>3, <1>4, <1>6, <2>6, <2>7, <2>8
       DEF CountsOK, LinesOK, StraysOK, DropsOK, EarlyOK
  <2> QED
    BY <1>5, <2>3, <2>4, <2>5, <2>9 DEF IInv
<1>7. CASE /\ faults < MaxFileFaults /\ faults' = faults + 1
           /\ starting' = FALSE
           /\ Goto(p, "sync")
           /\ UNCHANGED published
  <2>1. /\ pc' \in [Actors -> ProducerPcs \cup DrainerPcs]
        /\ \A q \in Producers : pc'[q] \in ProducerPcs
        /\ \A d \in Drainers : pc'[d] \in DrainerPcs
        /\ \A b \in Actors : pc'[b] = IF b = p THEN "sync" ELSE pc[b]
        /\ pc'["writer"] = pc["writer"]
    BY <1>1, <1>3, <1>7, PcMoves DEF ProducerPcs
  <2>2. faults' \in 0..MaxFileFaults
    BY <1>3, <1>7, Bounds
  <2>3. StateOK'
    BY <1>2, <1>7, <2>1, <2>2 DEF IInv, StateOK
  <2>4. LockOK'
    BY <1>1, <1>2, <2>1 DEF IInv, LockOK, Locking
  <2>5. CreateOK'
    BY <1>1, <1>2, <2>1 DEF CreateOK
  <2>6. Cardinality(InHand)' = Cardinality(InHand) /\ Cardinality(InHand)' \in Nat
    BY <1>1, <1>2, <1>3, <1>7, HandsMove DEF Holding
  <2>7. Cardinality(Early)' = Cardinality(Early) - 1 /\ Cardinality(Early)' \in Nat
    BY <1>1, <1>2, <1>3, <1>7, EarlyMoves
  <2>8. Astray' = Astray
    BY <1>1, <1>2, <2>1 DEF Astray
  <2>9. LinesOK' /\ StraysOK'
    BY <1>2, <1>3, <1>4, <2>6, <2>8 DEF CountsOK, CountsTyped, LinesOK, StraysOK
  <2>10. DropsOK' /\ EarlyOK'
    BY <1>2, <1>3, <1>7, <2>6, <2>7 DEF CountsOK, CountsTyped, DropsOK, EarlyOK
  <2> QED
    BY <1>5, <2>3, <2>4, <2>5, <2>9, <2>10 DEF IInv, CountsOK
<1> QED
  BY <1>6, <1>7 DEF Create

\* A line goes from its producer to the ring, or to the count of a full one.
LEMMA Commits ==
    ASSUME LogParameters, IInv, NEW p \in Producers, Commit(p)
    PROVE  IInv'
<1>1. /\ p \in Actors /\ p \notin Drainers /\ p # "writer"
      /\ \A q \in Producers : q \in Actors
      /\ \A d \in Drainers : d \in Actors /\ d # p
  BY ActorsFinite DEF Actors
<1>2. /\ pc[p] = "commit"
      /\ UNCHANGED <<rerouted, current, slots, event, published, starting, stopping, fileLock,
                     hand, written, reported, forgotten, lines, faults>>
  BY DEF Commit, routeVars, threadVars, fileVars
<1>3. StateOK /\ CountsOK /\ CountsTyped
  BY Numbers DEF IInv
<1>4. PICK w \in {"signal", "idle"} :
        /\ Goto(p, w)
        /\ \/ /\ Len(ring) < RingLines /\ ring' = Append(ring, current) /\ dropped' = dropped
           \/ ring' = ring /\ dropped' = dropped + 1
  BY DEF Commit
<1>5. /\ pc' \in [Actors -> ProducerPcs \cup DrainerPcs]
      /\ \A q \in Producers : pc'[q] \in ProducerPcs
      /\ \A d \in Drainers : pc'[d] \in DrainerPcs
      /\ \A b \in Actors : pc'[b] = IF b = p THEN w ELSE pc[b]
      /\ pc'["writer"] = pc["writer"]
  BY <1>1, <1>3, <1>4, PcMoves DEF ProducerPcs
<1>6. ring \in Seq(Nat) /\ current \in Nat /\ dropped \in Nat
  BY <1>3 DEF StateOK, LogParameters
<1>7. PICK d \in {0, 1} :
        /\ dropped' = dropped + d /\ dropped' \in Nat
        /\ ring' \in Seq(Nat) /\ Len(ring') \in Nat /\ Len(ring') + d = Len(ring) + 1
  <2>1. CASE ring' = Append(ring, current) /\ dropped' = dropped
    <3>1. ring' \in Seq(Nat) /\ Len(ring') = Len(ring) + 1 /\ Len(ring) \in Nat
      BY <1>6, <2>1
    <3> QED
      BY <1>6, <2>1, <3>1
  <2>2. CASE ring' = ring /\ dropped' = dropped + 1
    BY <1>6, <2>2
  <2> QED
    BY <1>4, <2>1, <2>2
<1>8. StateOK'
  BY <1>2, <1>5, <1>7 DEF IInv, StateOK
<1>9. RingOK'
  <2>1. RingOK /\ RingLines \in Nat /\ current \in 1..current
    BY <1>3, <1>6, Bounds DEF IInv, StateOK, LogParameters
  <2> QED
    BY <1>2, <1>4, <1>6, <2>1 DEF RingOK
<1>10. LockOK'
  BY <1>1, <1>2, <1>5 DEF IInv, LockOK, Locking
<1>11. CreateOK'
  BY <1>1, <1>2, <1>5 DEF IInv, CreateOK
<1>12. Cardinality(InHand)' = Cardinality(InHand) - 1 /\ Cardinality(InHand)' \in Nat
  BY <1>1, <1>2, <1>3, <1>4, HandsMove DEF Holding
<1>13. Cardinality(Early)' = Cardinality(Early) - 1 /\ Cardinality(Early)' \in Nat
  BY <1>1, <1>2, <1>3, <1>4, EarlyMoves
<1>14. Astray' = Astray
  BY <1>1, <1>2, <1>5 DEF Astray
<1>15. Gone' = Gone + d /\ Noted' = Noted /\ Gone' \in Nat
  <2>1. written.lines \in Nat /\ reported.lines \in Nat /\ forgotten.lines \in Nat
    BY <1>3 DEF StateOK, Counts
  <2>2. Noted' = Noted
    BY <1>2 DEF Noted
  <2>3. Gone' = Gone + d
    BY <1>2, <1>6, <1>7, <2>1 DEF Gone
  <2> QED
    BY <1>3, <2>2, <2>3 DEF CountsTyped
<1>16. LinesOK'
  <2>1. lines <= Len(ring) + Cardinality(InHand) + Gone
    BY <1>3 DEF CountsOK, LinesOK
  <2> QED
    BY <1>2, <1>3, <1>7, <1>12, <1>15, <2>1 DEF CountsTyped, LinesOK
<1>17. StraysOK'
  BY <1>2, <1>3, <1>14, <1>15 DEF CountsOK, StraysOK
<1>18. DropsOK'
  BY <1>2, <1>3, <1>6, <1>7, <1>12 DEF CountsOK, CountsTyped, DropsOK
<1>19. EarlyOK'
  BY <1>2, <1>3, <1>7, <1>13 DEF CountsOK, CountsTyped, EarlyOK
<1> QED
  BY <1>8, <1>9, <1>10, <1>11, <1>16, <1>17, <1>18, <1>19 DEF IInv, CountsOK

\* A stray line that is written leaves the hand it was in.
LEMMA StraysStep ==
    ASSUME CountsTyped, CountsTyped', StraysOK, Noted' = Noted, NEW k \in {0, 1},
           written'.reroutes <= written.reroutes + k, Astray' + k <= Astray
    PROVE  StraysOK'
<1>1. PICK w1 \in Nat, w2 \in Nat, a1 \in Nat, a2 \in Nat, n \in Nat :
        /\ w1 = written.reroutes /\ w2 = written'.reroutes
        /\ a1 = Astray /\ a2 = Astray' /\ n = Noted
  BY DEF CountsTyped
<1>2. w1 + a1 <= n /\ w2 <= w1 + k /\ a2 + k <= a1
  BY <1>1 DEF StraysOK
<1>3. w2 + a2 <= n
  BY <1>2
<1> QED
  BY <1>1, <1>3 DEF StraysOK

\* A line that is dropped leaves the hand it was in, after a fault.
LEMMA DropsStep ==
    ASSUME CountsTyped, CountsTyped', DropsOK, ring' = ring, lines' = lines,
           dropped' + faults <= dropped + faults',
           Cardinality(InHand)' = Cardinality(InHand) - 1
    PROVE  DropsOK'
<1>1. PICK d1 \in Nat, d2 \in Nat, f1 \in Nat, f2 \in Nat, h1 \in Nat, h2 \in Nat,
           n \in Nat, l \in Nat :
        /\ d1 = dropped /\ d2 = dropped' /\ f1 = faults /\ f2 = faults'
        /\ h1 = Cardinality(InHand) /\ h2 = Cardinality(InHand)'
        /\ n = Len(ring) /\ l = lines
  BY DEF CountsTyped
<1>2. d1 + n + h1 <= l + f1 /\ d2 + f1 <= d1 + f2 /\ h2 = h1 - 1
  BY <1>1 DEF DropsOK
<1>3. d2 + n + h2 <= l + f2
  BY <1>2
<1> QED
  BY <1>1, <1>3 DEF DropsOK

\* A line leaves a thread's hand under the file lock: to the file, or to a count.
LEMMA LineLeaves ==
    ASSUME LogParameters, IInv, NEW a \in Actors, NEW w, NEW r \in [gen : Nat, file : Nat],
           pc[a] \in {"syncWrite", "write", "lastWrite"}, Goto(a, w), LockStep(a, w),
           w \notin Holding, w # "none",
           a \in Producers => w \in ProducerPcs, a \in Drainers => w \in DrainerPcs,
           WriteLine(r),
           Astray' \in Nat, Astray' + (IF r.file # r.gen THEN 1 ELSE 0) <= Astray,
           hand' \in [Drainers -> [gen : Nat, file : Nat]],
           UNCHANGED <<ring, rerouted, current, slots, event, published, starting, stopping,
                       lines>>
    PROVE  IInv'
<1>1. StateOK /\ CountsOK /\ CountsTyped
  BY Numbers DEF IInv
<1>2. /\ pc' \in [Actors -> ProducerPcs \cup DrainerPcs]
      /\ \A q \in Producers : pc'[q] \in ProducerPcs
      /\ \A d \in Drainers : pc'[d] \in DrainerPcs
      /\ \A b \in Actors : pc'[b] = IF b = a THEN w ELSE pc[b]
      /\ pc'["writer"] = IF a = "writer" THEN w ELSE pc["writer"]
  BY <1>1, PcMoves
<1>3. /\ written' \in Counts /\ reported' \in Counts /\ forgotten' \in Counts
      /\ dropped' \in Nat /\ faults' \in 0..MaxFileFaults
      /\ Gone' = Gone + 1 /\ Noted' = Noted
      /\ dropped' + faults <= dropped + faults'
      /\ written'.reroutes <= written.reroutes + (IF r.file # r.gen THEN 1 ELSE 0)
  BY <1>1, WriteLineCounts
<1>4. StateOK'
  BY <1>2, <1>3 DEF IInv, StateOK
<1>5. CountsTyped'
  <2>1. LogParameters'
    BY DEF LogParameters
  <2>2. (LogParameters /\ StateOK => CountsTyped)'
    BY Numbers, PTL
  <2> QED
    BY <1>4, <2>1, <2>2
<1>6. RingOK'
  BY DEF IInv, RingOK
<1>7. LockOK'
  BY <1>1, <1>2, LockMoves DEF IInv
<1>8. CreateOK'
  <2>1. \A q \in Producers : q \in Actors
    BY DEF Actors
  <2> QED
    BY <1>2, <2>1 DEF IInv, CreateOK, Holding
<1>9. Cardinality(InHand)' = Cardinality(InHand) - 1
  BY <1>1, HandsMove DEF Holding
<1>10. Cardinality(Early)' = Cardinality(Early)
  BY <1>1, EarlyMoves DEF Actors, Holding
<1>11. LinesOK'
  BY <1>1, <1>3, <1>9 DEF CountsOK, CountsTyped, LinesOK
<1>12. StraysOK'
  <2>1. PICK k \in {0, 1} : written'.reroutes <= written.reroutes + k /\ Astray' + k <= Astray
    BY <1>3
  <2> QED
    BY <1>1, <1>3, <1>5, <2>1, StraysStep DEF CountsOK
<1>13. DropsOK'
  BY <1>1, <1>3, <1>5, <1>9, DropsStep DEF CountsOK
<1>14. EarlyOK'
  BY <1>1, <1>10 DEF CountsOK, CountsTyped, EarlyOK
<1> QED
  BY <1>4, <1>6, <1>7, <1>8, <1>11, <1>12, <1>13, <1>14 DEF IInv, CountsOK

\* A producer writes its own line, a drain the line it has taken.
LEMMA Writes ==
    ASSUME LogParameters, IInv,
           (\E p \in Producers : SyncWrite(p)) \/ (\E a \in Drainers : Write(a))
    PROVE  IInv'
<1>1. /\ current \in Nat /\ hand \in [Drainers -> [gen : Nat, file : Nat]] /\ Astray \in Nat
  BY Numbers DEF IInv, StateOK, LogParameters, CountsTyped
<1>2. ASSUME NEW p \in Producers, SyncWrite(p)
      PROVE  IInv'
  <2>1. /\ pc[p] = "syncWrite" /\ WriteLine([gen |-> current, file |-> current])
        /\ fileLock' = Nobody /\ Goto(p, "idle")
        /\ UNCHANGED <<ring, rerouted, current, slots, event, published, starting, stopping,
                       hand, lines>>
    BY <1>2 DEF SyncWrite, routeVars, threadVars
  <2>2. p \in Actors /\ p \notin Drainers
    BY ActorsFinite DEF Actors
  <2>3. Astray' = Astray
    <3>1. \A d \in Drainers : pc'[d] = pc[d]
      BY <2>1, <2>2 DEF Goto, IInv, StateOK, Actors
    <3> QED
      BY <2>1, <3>1 DEF Astray
  <2> DEFINE r == [gen |-> current, file |-> current]
  <2>4. r \in [gen : Nat, file : Nat] /\ r.file = r.gen
    BY <1>1
  <2>5. Astray' + (IF r.file # r.gen THEN 1 ELSE 0) <= Astray /\ Astray' \in Nat
    BY <1>1, <2>3, <2>4
  <2>6. LockStep(p, "idle")
    BY <2>1 DEF LockStep, Locking
  <2> HIDE DEF r
  <2>7. WriteLine(r)
    BY <2>1 DEF r
  <2> QED
    BY <1>1, <2>1, <2>2, <2>4, <2>5, <2>6, <2>7, LineLeaves DEF Holding, ProducerPcs
<1>3. ASSUME NEW a \in Drainers, Write(a)
      PROVE  IInv'
  <2> DEFINE w == IF pc[a] = "write" THEN "take" ELSE "lastTake"
  <2>1. /\ pc[a] \in {"write", "lastWrite"} /\ WriteLine(hand[a]) /\ Goto(a, w)
        /\ hand' = [hand EXCEPT ![a] = Nothing] /\ w \in {"take", "lastTake"}
        /\ fileLock' = fileLock
        /\ UNCHANGED <<ring, rerouted, current, slots, event, published, starting, stopping,
                       lines>>
    BY <1>3 DEF Write, routeVars, threadVars
  <2> HIDE DEF w
  <2>2. a \in Actors /\ a \notin Producers
    BY ActorsFinite DEF Actors
  <2>3. hand[a] \in [gen : Nat, file : Nat]
        /\ hand' \in [Drainers -> [gen : Nat, file : Nat]]
    BY <1>1, <2>1 DEF Nothing
  <2>4. \A d \in Drainers : pc'[d] \notin {"write", "lastWrite"}
    <3>1. \A d \in Drainers : d \in Actors /\ pc'[d] = IF d = a THEN w ELSE pc[d]
      BY <2>1 DEF Goto, IInv, StateOK, Actors
    <3>2. \A d \in Drainers : pc[d] \in {"write", "lastWrite"} => d = a
      BY <2>1, <2>2 DEF IInv, LockOK, Locking, Actors
    <3> QED
      BY <2>1, <3>1, <3>2
  <2>5. Astray' = 0
    BY <2>4 DEF Astray
  <2>6. hand[a].file # hand[a].gen => Astray = 1
    BY <2>1 DEF Astray
  <2>7. Astray' \in Nat /\ Astray' + (IF hand[a].file # hand[a].gen THEN 1 ELSE 0) <= Astray
    BY <1>1, <2>5, <2>6
  <2>8. LockStep(a, w)
    BY <2>1 DEF LockStep, Locking
  <2> QED
    BY <2>1, <2>2, <2>3, <2>7, <2>8, LineLeaves DEF Holding, DrainerPcs
<1> QED
  BY <1>2, <1>3

\* A drain that begins turns the counts into markers, or loses them with the markers,
\* which is on record; it never loses a count otherwise.
LEMMA BeginsDrain ==
    ASSUME LogParameters, IInv, NEW a \in Drainers, DrainBegin(a)
    PROVE  IInv'
<1> DEFINE counts == [lines |-> dropped, reroutes |-> rerouted]
           M      == DOMAIN counts
           due    == {m \in M : counts[m] > 0}
           Added(sums, markers) ==
               [m \in M |-> sums[m] + IF m \in markers THEN counts[m] ELSE 0]
           w      == IF pc[a] = "drain" THEN "take" ELSE "lastTake"
<1>0. M = {"lines", "reroutes"}
  OBVIOUS
<1>1. /\ pc[a] \in {"drain", "lastDrain"} /\ fileLock = Nobody /\ fileLock' = a
      /\ Goto(a, w) /\ rerouted' = 0 /\ w \in {"take", "lastTake"}
      /\ UNCHANGED <<ring, current, slots, event, published, starting, stopping, hand, written,
                     lines>>
  BY DEF DrainBegin, routeVars, threadVars
<1>2. PICK lost \in SUBSET due :
        /\ faults + Cardinality(lost) <= MaxFileFaults
        /\ faults' = faults + Cardinality(lost)
        /\ dropped' \in 0..Cardinality(lost)
        /\ reported' = Added(reported, due \ lost)
        /\ forgotten' = Added(forgotten, lost)
  BY DEF DrainBegin
<1>3. a \in Actors /\ a \notin Producers
  BY ActorsFinite DEF Actors
<1>4. StateOK /\ CountsOK /\ CountsTyped
  BY Numbers DEF IInv
<1>5. Cardinality(lost) \in Nat
  <2>1. IsFiniteSet({"lines"}) /\ IsFiniteSet({"reroutes"})
    BY FS_Singleton
  <2>2. lost \subseteq {"lines"} \cup {"reroutes"}
    BY <1>0
  <2>3. IsFiniteSet({"lines"} \cup {"reroutes"})
    BY <2>1, FS_Union
  <2>4. IsFiniteSet(lost)
    BY <2>2, <2>3, FS_Subset
  <2> QED
    BY <2>4, FS_CardinalityType
<1>6. /\ counts["lines"] = dropped /\ counts["reroutes"] = rerouted
      /\ dropped \in Nat /\ rerouted \in Nat
  BY <1>4 DEF CountsTyped
<1>7. /\ "lines" \in due <=> dropped > 0
      /\ "reroutes" \in due <=> rerouted > 0
  BY <1>6, <1>0
<1> HIDE DEF counts, due, M
<1>8. /\ reported.lines \in Nat /\ reported.reroutes \in Nat
      /\ forgotten.lines \in Nat /\ forgotten.reroutes \in Nat
      /\ written.lines \in Nat
  BY <1>4 DEF StateOK, Counts
<1>9. /\ reported' = [m \in M |-> reported[m] + IF m \in due \ lost THEN counts[m] ELSE 0]
      /\ forgotten' = [m \in M |-> forgotten[m] + IF m \in lost THEN counts[m] ELSE 0]
  BY <1>2
<1>10. /\ reported'.lines = reported.lines + IF "lines" \in due \ lost THEN dropped ELSE 0
       /\ reported'.reroutes = reported.reroutes + IF "reroutes" \in due \ lost THEN rerouted ELSE 0
       /\ forgotten'.lines = forgotten.lines + IF "lines" \in lost THEN dropped ELSE 0
       /\ forgotten'.reroutes = forgotten.reroutes + IF "reroutes" \in lost THEN rerouted ELSE 0
  BY <1>0, <1>6, <1>9
<1>11. reported' \in Counts /\ forgotten' \in Counts
  BY <1>0, <1>6, <1>8, <1>9, <1>10 DEF Counts
<1> HIDE DEF w
<1>12. /\ Gone' = Gone + dropped' /\ dropped' \in Nat /\ Gone' \in Nat
       /\ Noted' = Noted
  <2>1. PICK d \in Nat, r \in Nat, rl \in Nat, rr \in Nat, fl \in Nat, fr \in Nat, wl \in Nat :
          /\ d = dropped /\ r = rerouted /\ rl = reported.lines /\ rr = reported.reroutes
          /\ fl = forgotten.lines /\ fr = forgotten.reroutes /\ wl = written.lines
    BY <1>6, <1>8
  <2>2. PICK rl2 \in Nat, rr2 \in Nat, fl2 \in Nat, fr2 \in Nat, d2 \in Nat :
          /\ rl2 = reported'.lines /\ rr2 = reported'.reroutes
          /\ fl2 = forgotten'.lines /\ fr2 = forgotten'.reroutes /\ d2 = dropped'
    <3>1. dropped' \in Nat
      BY <1>2, <1>5
    <3>2. /\ reported'.lines \in Nat /\ reported'.reroutes \in Nat
          /\ forgotten'.lines \in Nat /\ forgotten'.reroutes \in Nat
      BY <1>11 DEF Counts
    <3> QED
      BY <3>1, <3>2
  <2>3. rl2 + fl2 = rl + fl + d
    <3>1. "lines" \in lost => "lines" \in due
      BY <1>2
    <3>2. CASE "lines" \in lost
      BY <1>10, <2>1, <2>2, <3>2
    <3>3. CASE "lines" \in due \ lost
      BY <1>10, <2>1, <2>2, <3>3
    <3>4. CASE "lines" \notin due
      <4>1. d = 0
        BY <1>7, <2>1, <3>4
      <4> QED
        BY <1>10, <2>1, <2>2, <3>1, <3>4, <4>1
    <3> QED
      BY <3>2, <3>3, <3>4
  <2>4. rr2 + fr2 = rr + fr + r
    <3>1. "reroutes" \in lost => "reroutes" \in due
      BY <1>2
    <3>2. CASE "reroutes" \in lost
      BY <1>10, <2>1, <2>2, <3>2
    <3>3. CASE "reroutes" \in due \ lost
      BY <1>10, <2>1, <2>2, <3>3
    <3>4. CASE "reroutes" \notin due
      <4>1. r = 0
        BY <1>7, <2>1, <3>4
      <4> QED
        BY <1>10, <2>1, <2>2, <3>1, <3>4, <4>1
    <3> QED
      BY <3>2, <3>3, <3>4
  <2>5. Gone = wl + d + rl + fl /\ Noted = r + rr + fr
    BY <2>1 DEF Gone, Noted
  <2>6. Gone' = wl + d2 + rl2 + fl2 /\ Noted' = 0 + rr2 + fr2
    BY <1>1, <2>1, <2>2 DEF Gone, Noted
  <2>7. wl + d2 + rl2 + fl2 = wl + d + rl + fl + d2 /\ 0 + rr2 + fr2 = r + rr + fr
    BY <2>3, <2>4
  <2> QED
    BY <2>2, <2>5, <2>6, <2>7
<1>13. /\ pc' \in [Actors -> ProducerPcs \cup DrainerPcs]
       /\ \A q \in Producers : pc'[q] \in ProducerPcs
       /\ \A d \in Drainers : pc'[d] \in DrainerPcs
       /\ \A b \in Actors : pc'[b] = IF b = a THEN w ELSE pc[b]
       /\ pc'["writer"] = IF a = "writer" THEN w ELSE pc["writer"]
  BY <1>1, <1>3, <1>4, PcMoves DEF DrainerPcs
<1>14. faults' \in 0..MaxFileFaults
  <2>1. PICK f \in Nat, c \in Nat, x \in Nat : f = faults /\ c = Cardinality(lost) /\ x = MaxFileFaults
    BY <1>4, <1>5 DEF CountsTyped, LogParameters
  <2>2. f + c \in 0..x
    BY <1>2, <2>1
  <2> QED
    BY <1>2, <2>1, <2>2
<1>15. StateOK'
  BY <1>1, <1>11, <1>12, <1>13, <1>14 DEF IInv, StateOK
<1>16. RingOK'
  BY <1>1 DEF IInv, RingOK
<1>17. LockOK'
  BY <1>1, <1>3, <1>4, <1>13, LockMoves DEF IInv, LockStep, Locking
<1>18. CreateOK'
  <2>1. \A q \in Producers : q \in Actors
    BY DEF Actors
  <2> QED
    BY <1>1, <1>3, <1>13, <2>1 DEF IInv, CreateOK
<1>19. Cardinality(InHand)' = Cardinality(InHand) /\ Cardinality(Early)' = Cardinality(Early)
  BY <1>1, <1>3, <1>4, HandsMove, EarlyMoves DEF Holding
<1>20. Astray' = Astray
  <2>1. \A d \in Drainers : (pc'[d] \in {"write", "lastWrite"} <=> pc[d] \in {"write", "lastWrite"})
                            /\ hand'[d] = hand[d]
    BY <1>1, <1>3, <1>13 DEF Actors
  <2> QED
    BY <2>1 DEF Astray
<1>21. LinesOK'
  <2>1. PICK l \in Nat, n \in Nat, h \in Nat, g \in Nat, d \in Nat :
          /\ l = lines /\ n = Len(ring) /\ h = Cardinality(InHand) /\ g = Gone /\ d = dropped'
    BY <1>4, <1>12 DEF CountsTyped
  <2>2. l <= n + h + g
    BY <1>4, <2>1 DEF CountsOK, LinesOK
  <2>3. l <= n + h + (g + d)
    BY <2>2
  <2> QED
    BY <1>1, <1>12, <1>19, <2>1, <2>3 DEF LinesOK
<1>22. StraysOK'
  BY <1>1, <1>4, <1>12, <1>20 DEF CountsOK, StraysOK
<1>23. DropsOK'
  <2>1. PICK l \in Nat, n \in Nat, h \in Nat, f \in Nat, d \in Nat, d2 \in Nat, c \in Nat :
          /\ l = lines /\ n = Len(ring) /\ h = Cardinality(InHand) /\ f = faults
          /\ d = dropped /\ d2 = dropped' /\ c = Cardinality(lost)
    BY <1>4, <1>5, <1>12 DEF CountsTyped
  <2>2. d + n + h <= l + f /\ d2 <= c
    BY <1>2, <1>4, <2>1 DEF CountsOK, DropsOK
  <2>3. d2 + n + h <= l + (f + c)
    BY <2>2
  <2> QED
    BY <1>1, <1>2, <1>19, <2>1, <2>3 DEF DropsOK
<1>24. EarlyOK'
  <2>1. PICK l \in Nat, n \in Nat, e \in Nat, r \in Nat :
          /\ l = lines /\ n = Len(ring) /\ e = Cardinality(Early) /\ r = rerouted
    BY <1>4 DEF CountsTyped
  <2>2. r + n + e <= l
    BY <1>4, <2>1 DEF CountsOK, EarlyOK
  <2>3. 0 + n + e <= l
    BY <2>2
  <2> QED
    BY <1>1, <1>19, <2>1, <2>3 DEF EarlyOK
<1> QED
  BY <1>15, <1>16, <1>17, <1>18, <1>21, <1>22, <1>23, <1>24 DEF IInv, CountsOK

\* A drain takes a line from the ring into its hand; a line that will go to the file of
\* another route is counted in the same step.  Or the ring is empty, and the drain ends.
LEMMA Takes ==
    ASSUME LogParameters, IInv, NEW a \in Drainers, Take(a)
    PROVE  IInv'
<1>1. /\ pc[a] \in {"take", "lastTake"}
      /\ UNCHANGED <<dropped, current, slots, event, published, starting, stopping, fileLock,
                     written, reported, forgotten, lines, faults>>
  BY DEF Take, routeVars, threadVars, fileVars
<1>2. a \in Actors /\ a \notin Producers
  BY ActorsFinite DEF Actors
<1>3. StateOK /\ CountsOK /\ CountsTyped
  BY Numbers DEF IInv
<1>4. CASE ring = <<>>
  <2> DEFINE w == IF pc[a] = "take" THEN "leave" ELSE "lastLeave"
  <2>1. Goto(a, w) /\ UNCHANGED <<ring, rerouted, hand>> /\ w \in {"leave", "lastLeave"}
    BY <1>4 DEF Take
  <2> HIDE DEF w
  <2>2. event' \in BOOLEAN /\ published' \in BOOLEAN /\ stopping' \in BOOLEAN
    BY <1>1, <1>3 DEF StateOK
  <2>3. LockStep(a, w)
    BY <1>1, <2>1 DEF LockStep, Locking
  <2> QED
    BY <1>1, <1>2, <2>1, <2>2, <2>3, QuietMove DEF DrainerPcs, Holding
<1>5. CASE ring # <<>>
  <2> DEFINE w == IF pc[a] = "take" THEN "write" ELSE "lastWrite"
             g == Head(ring)
             f == RouteOf(g).file
             k == RouteOf(g).lost
  <2>1. /\ Goto(a, w) /\ w \in {"write", "lastWrite"}
        /\ hand' = [hand EXCEPT ![a] = [gen |-> g, file |-> f]]
        /\ ring' = Tail(ring) /\ rerouted' = rerouted + k
    BY <1>5 DEF Take
  <2>2. /\ g \in 1..current /\ g \in Nat /\ ring' \in Seq(Nat)
        /\ Len(ring) \in Nat /\ Len(ring') \in Nat /\ Len(ring') = Len(ring) - 1
        /\ \A i \in 1..Len(ring') : ring'[i] = ring[i + 1]
    <3>1. ring \in Seq(Nat) /\ ring # <<>>
      BY <1>3, <1>5 DEF StateOK
    <3>2. 1 \in 1..Len(ring) /\ g = ring[1]
      BY <3>1
    <3>3. ring[1] \in 1..current
      BY <3>2 DEF IInv, RingOK
    <3> QED
      BY <2>1, <3>1, <3>2, <3>3
  <2>3. f \in Nat /\ k \in {0, 1} /\ (f # g => k = 1)
    <3>1. current \in Nat
      BY <1>3 DEF StateOK, LogParameters
    <3> QED
      BY <2>2, <3>1 DEF RouteOf
  <2> HIDE DEF w, g, f, k
  <2>4. hand' \in [Drainers -> [gen : Nat, file : Nat]] /\ hand'[a].file = f /\ hand'[a].gen = g
    BY <1>3, <2>1, <2>2, <2>3 DEF StateOK
  <2>5. /\ pc' \in [Actors -> ProducerPcs \cup DrainerPcs]
        /\ \A q \in Producers : pc'[q] \in ProducerPcs
        /\ \A d \in Drainers : pc'[d] \in DrainerPcs
        /\ \A b \in Actors : pc'[b] = IF b = a THEN w ELSE pc[b]
        /\ pc'["writer"] = IF a = "writer" THEN w ELSE pc["writer"]
    BY <1>2, <1>3, <2>1, PcMoves DEF DrainerPcs
  <2>6. rerouted' \in Nat
    BY <1>3, <2>1, <2>3 DEF CountsTyped
  <2>7. StateOK'
    BY <1>1, <2>2, <2>4, <2>5, <2>6 DEF IInv, StateOK
  <2>8. RingOK'
    <3>1. RingOK /\ RingLines \in Nat
      BY <1>3, Bounds DEF IInv
    <3>2. Len(ring') <= RingLines
      BY <2>2, <3>1 DEF RingOK
    <3>3. ASSUME NEW i \in 1..Len(ring') PROVE ring'[i] \in 1..current
      <4>1. i + 1 \in 1..Len(ring)
        BY <2>2
      <4> QED
        BY <2>2, <3>1, <4>1 DEF RingOK
    <3> QED
      BY <1>1, <3>2, <3>3 DEF RingOK
  <2>9. LockOK'
    <3>1. LockStep(a, w)
      BY <1>1, <2>1 DEF LockStep, Locking
    <3> QED
      BY <1>2, <1>3, <2>5, <3>1, LockMoves DEF IInv
  <2>10. CreateOK'
    <3>1. \A q \in Producers : q \in Actors
      BY DEF Actors
    <3> QED
      BY <1>1, <1>2, <2>1, <2>5, <3>1 DEF IInv, CreateOK
  <2>11. Cardinality(InHand)' = Cardinality(InHand) + 1 /\ Cardinality(Early)' = Cardinality(Early)
    BY <1>1, <1>2, <1>3, <2>1, HandsMove, EarlyMoves DEF Holding
  <2>12. Astray' \in Nat /\ Astray' <= k
    <3>1. \A d \in Drainers : pc[d] \in {"write", "lastWrite"} => d = a
      BY <1>1, <1>2 DEF IInv, LockOK, Locking, Actors
    <3>2. \A d \in Drainers : pc'[d] \in {"write", "lastWrite"} => d = a
      BY <1>2, <2>5, <3>1 DEF Actors
    <3>3. CASE f = g
      <4>1. Astray' = 0
        BY <2>4, <3>2, <3>3 DEF Astray
      <4> QED
        BY <2>3, <4>1
    <3>4. CASE f # g
      <4>1. Astray' \in {0, 1}
        BY DEF Astray
      <4> QED
        BY <2>3, <3>4, <4>1
    <3> QED
      BY <3>3, <3>4
  <2>13. Astray = 0
    <3>1. \A d \in Drainers : pc[d] \notin {"write", "lastWrite"}
      BY <1>1, <1>2 DEF IInv, LockOK, Locking, Actors
    <3> QED
      BY <3>1 DEF Astray
  <2>14. Gone' = Gone
    BY <1>1 DEF Gone
  <2>15. LinesOK'
    <3>1. PICK l \in Nat, n \in Nat, n2 \in Nat, h \in Nat, x \in Nat :
            /\ l = lines /\ n = Len(ring) /\ n2 = Len(ring') /\ h = Cardinality(InHand)
            /\ x = Gone
      BY <1>3, <2>2 DEF CountsTyped
    <3>2. l <= n + h + x /\ n2 = n - 1
      BY <1>3, <2>2, <3>1 DEF CountsOK, LinesOK
    <3>3. l <= n2 + (h + 1) + x
      BY <3>2
    <3> QED
      BY <1>1, <2>11, <2>14, <3>1, <3>3 DEF LinesOK
  <2>16. StraysOK'
    <3>1. PICK s \in Nat, r \in Nat, r2 \in Nat, rr \in Nat, fr \in Nat, y \in Nat :
            /\ s = written.reroutes /\ r = rerouted /\ r2 = rerouted' /\ rr = reported.reroutes
            /\ fr = forgotten.reroutes /\ y = Astray'
      BY <1>3, <2>6, <2>12 DEF StateOK, Counts
    <3>2. s <= r + rr + fr
      <4>1. s + 0 <= r + rr + fr
        BY <1>3, <2>13, <3>1 DEF CountsOK, StraysOK, Noted
      <4> QED
        BY <4>1
    <3>3. y <= k /\ r2 = r + k
      BY <2>1, <2>12, <3>1
    <3>4. s + y <= r2 + rr + fr
      BY <2>3, <3>2, <3>3
    <3> QED
      BY <1>1, <3>1, <3>4 DEF StraysOK, Noted
  <2>17. DropsOK'
    <3>1. PICK l \in Nat, n \in Nat, n2 \in Nat, h \in Nat, d \in Nat, x \in Nat :
            /\ l = lines /\ n = Len(ring) /\ n2 = Len(ring') /\ h = Cardinality(InHand)
            /\ d = dropped /\ x = faults
      BY <1>3, <2>2 DEF CountsTyped
    <3>2. d + n + h <= l + x /\ n2 = n - 1
      BY <1>3, <2>2, <3>1 DEF CountsOK, DropsOK
    <3>3. d + n2 + (h + 1) <= l + x
      BY <3>2
    <3> QED
      BY <1>1, <2>11, <3>1, <3>3 DEF DropsOK
  <2>18. EarlyOK'
    <3>1. PICK l \in Nat, n \in Nat, n2 \in Nat, e \in Nat, r \in Nat, r2 \in Nat :
            /\ l = lines /\ n = Len(ring) /\ n2 = Len(ring') /\ e = Cardinality(Early)
            /\ r = rerouted /\ r2 = rerouted'
      BY <1>3, <2>2, <2>6 DEF CountsTyped
    <3>2. r + n + e <= l /\ n2 = n - 1 /\ r2 = r + k
      BY <1>3, <2>1, <2>2, <3>1 DEF CountsOK, EarlyOK
    <3>3. r2 + n2 + e <= l
      BY <2>3, <3>2
    <3> QED
      BY <1>1, <2>11, <3>1, <3>3 DEF EarlyOK
  <2> QED
    BY <2>7, <2>8, <2>9, <2>10, <2>15, <2>16, <2>17, <2>18 DEF IInv, CountsOK
<1> QED
  BY <1>4, <1>5

\* A new route takes a slot; the lines in the ring keep the generation they were produced for.
LEMMA Routes ==
    ASSUME LogParameters, IInv, SetRoute
    PROVE  IInv'
<1>1. /\ current < MaxRoutes /\ current' = current + 1
      /\ slots' = [slots EXCEPT ![(current + 1) % RouteSlots] = current + 1]
      /\ event' \in BOOLEAN
      /\ UNCHANGED <<ring, dropped, rerouted, published, starting, stopping, fileLock, pc, hand,
                     written, reported, forgotten, lines, faults>>
  BY DEF SetRoute, ringVars, fileVars, IInv, StateOK
<1>2. /\ current \in 1..MaxRoutes /\ current \in Nat /\ MaxRoutes \in Nat
      /\ slots \in [0..(RouteSlots - 1) -> 0..current]
      /\ RouteSlots \in Nat /\ RouteSlots > 0
  BY DEF IInv, StateOK, LogParameters
<1>3. current' \in 1..MaxRoutes /\ \A x \in 0..current : x \in 0..current'
  BY <1>1, <1>2
<1>4. slots' \in [0..(RouteSlots - 1) -> 0..current']
  <2>1. current + 1 \in 0..current'
    BY <1>1, <1>2
  <2> HIDE DEF IInv
  <2>2. slots \in [0..(RouteSlots - 1) -> 0..current']
    BY <1>2, <1>3
  <2> QED
    BY <1>1, <2>1, <2>2
<1>5. StateOK'
  BY <1>1, <1>3, <1>4 DEF IInv, StateOK
<1>6. RingOK'
  <2>1. \A x \in 1..current : x \in 1..current'
    BY <1>1, <1>2
  <2> QED
    BY <1>1, <2>1 DEF IInv, RingOK
<1>7. LockOK' /\ CreateOK'
  BY <1>1 DEF IInv, LockOK, CreateOK
<1>8. /\ InHand' = InHand /\ Early' = Early /\ Astray' = Astray
      /\ Gone' = Gone /\ Noted' = Noted
  BY <1>1 DEF InHand, Early, Astray, Gone, Noted
<1>9. CountsOK'
  BY <1>1, <1>8 DEF IInv, CountsOK, LinesOK, StraysOK, DropsOK, EarlyOK
<1> QED
  BY <1>5, <1>6, <1>7, <1>9 DEF IInv

\* A step that changes nothing of the log.
LEMMA Stays ==
    ASSUME IInv, UNCHANGED vars
    PROVE  IInv'
<1>1. UNCHANGED <<ring, dropped, rerouted, current, slots, event, published, starting, stopping,
                  fileLock, pc, hand, written, reported, forgotten, lines, faults>>
  BY DEF vars, ringVars, routeVars, threadVars, fileVars
<1>2. /\ InHand' = InHand /\ Early' = Early /\ Astray' = Astray
      /\ Gone' = Gone /\ Noted' = Noted
  BY <1>1 DEF InHand, Early, Astray, Gone, Noted
<1>3. CountsOK'
  BY <1>1, <1>2 DEF IInv, CountsOK, LinesOK, StraysOK, DropsOK, EarlyOK
<1>4. StateOK' /\ RingOK' /\ LockOK' /\ CreateOK'
  BY <1>1 DEF IInv, StateOK, RingOK, LockOK, CreateOK
<1> QED
  BY <1>3, <1>4 DEF IInv

\* The invariant holds before the first line.
LEMMA InitHolds ==
    ASSUME LogParameters, Init
    PROVE  IInv
<1>1. /\ "writer" \in Actors /\ "writer" \notin Producers /\ Nobody \notin Actors
      /\ \A d \in Drainers : d \in Actors /\ d \notin Producers
      /\ \A q \in Producers : q \in Actors
  BY ActorsFinite DEF Actors
<1>2. pc = [a \in Actors |-> IF a \in Producers THEN "idle" ELSE "none"]
  BY DEF Init, Actors
<1>3. /\ written = None /\ reported = None /\ forgotten = None
      /\ None \in Counts /\ None.lines = 0 /\ None.reroutes = 0
  BY DEF Init, None, Counts
<1>4. /\ lines = 0 /\ faults = 0 /\ dropped = 0 /\ rerouted = 0 /\ ring = <<>> /\ current = 1
      /\ 0 \in 0..MaxLines /\ 0 \in 0..MaxFileFaults
  BY DEF Init, LogParameters
<1>5. ring \in Seq(Nat) /\ Len(ring) = 0
  BY <1>4
<1>6. /\ current \in 1..MaxRoutes
      /\ slots \in [0..(RouteSlots - 1) -> 0..current]
  BY DEF Init, LogParameters
<1>7. hand \in [Drainers -> [gen : Nat, file : Nat]]
  BY DEF Init, Nothing
<1>8. /\ pc \in [Actors -> ProducerPcs \cup DrainerPcs]
      /\ \A p \in Producers : pc[p] \in ProducerPcs
      /\ \A a \in Drainers : pc[a] \in DrainerPcs
  BY <1>1, <1>2 DEF ProducerPcs, DrainerPcs
<1>9. event \in BOOLEAN /\ published \in BOOLEAN /\ starting \in BOOLEAN /\ stopping \in BOOLEAN
  BY DEF Init
<1>10. StateOK
  BY <1>3, <1>4, <1>5, <1>6, <1>7, <1>8, <1>9 DEF StateOK
<1>11. RingOK
  BY <1>5 DEF RingOK, LogParameters
<1>12. LockOK /\ CreateOK
  BY <1>1, <1>2 DEF LockOK, CreateOK, Locking, Init
<1>13. InHand = {} /\ Early = {} /\ Astray = 0
  BY <1>1, <1>2 DEF InHand, Early, Astray
<1>14. Cardinality(InHand) = 0 /\ Cardinality(Early) = 0
  BY <1>13, FS_EmptySet
<1>15. Gone = 0 /\ Noted = 0
  BY <1>3, <1>4 DEF Gone, Noted
<1>16. CountsOK
  BY <1>3, <1>4, <1>5, <1>13, <1>14, <1>15 DEF CountsOK, LinesOK, StraysOK, DropsOK, EarlyOK
<1> QED
  BY <1>10, <1>11, <1>12, <1>16 DEF IInv

\* Every step of the log keeps the invariant.
LEMMA StepHolds ==
    ASSUME LogParameters, IInv, [Next]_vars
    PROVE  IInv'
<1>1. ASSUME NEW p \in Producers, Log(p) \/ Producer(p)
      PROVE  IInv'
  BY <1>1, Logs, Creates, Commits, QuietSteps, Writes DEF Producer
<1>2. ASSUME NEW a \in Drainers, Drain(a)
      PROVE  IInv'
  BY <1>2, BeginsDrain, Takes, Writes, QuietSteps DEF Drain
<1>3. CASE Wake \/ Stop \/ Join \/ JoinTimesOut
  BY <1>3, QuietSteps
<1>4. CASE SetRoute
  BY <1>4, Routes
<1>5. CASE UNCHANGED vars
  BY <1>5, Stays
<1> QED
  BY <1>1, <1>2, <1>3, <1>4, <1>5 DEF Next

-----------------------------------------------------------------------------
(* The shutdown.                                                           *)

\* Before the first line nobody has stopped.
LEMMA ShutdownStarts ==
    ASSUME LogParameters, Init
    PROVE  ShutdownOK
<1>1. "stopper" \in Producers \cup Drainers /\ "stopper" \notin Producers
  BY ActorsFinite DEF Actors
<1>2. pc["stopper"] = "none" /\ late = 0
  BY <1>1 DEF Init
<1> QED
  BY <1>2 DEF ShutdownOK

\* A step that adds nothing to the ring and to the counts but faults, and that does not
\* take the shutdown into its drain or past the ring.
LEMMA ShutdownUndisturbed ==
    ASSUME CountsTyped, CountsTyped', ShutdownOK, late' = late,
           Len(ring') <= Len(ring), dropped' + faults <= dropped + faults',
           \/ pc'["stopper"] = pc["stopper"]
           \/ pc'["stopper"] \notin {"lastTake", "lastWrite", "lastLeave", "ended"}
           \/ pc["stopper"] = "lastTake" /\ pc'["stopper"] = "lastWrite"
           \/ pc["stopper"] = "lastWrite" /\ pc'["stopper"] = "lastTake"
           \/ pc["stopper"] = "lastLeave" /\ pc'["stopper"] = "ended"
    PROVE  ShutdownOK'
<1>1. PICK t \in Nat, n1 \in Nat, n2 \in Nat, d1 \in Nat, d2 \in Nat, f1 \in Nat, f2 \in Nat :
        /\ t = late /\ n1 = Len(ring) /\ n2 = Len(ring') /\ d1 = dropped /\ d2 = dropped'
        /\ f1 = faults /\ f2 = faults'
  BY DEF CountsTyped, ShutdownOK
<1>2. n2 <= n1 /\ d2 + f1 <= d1 + f2
  BY <1>1
<1>3. d1 <= t + f1 => d2 <= t + f2
  BY <1>2
<1>4. n1 + d1 <= t + f1 => n2 + d2 <= t + f2
  BY <1>2
<1>5. late' \in Nat
  BY DEF ShutdownOK
<1>6. pc'["stopper"] \in {"lastTake", "lastWrite"} => dropped' <= late' + faults'
  BY <1>1, <1>3 DEF ShutdownOK
<1>7. pc'["stopper"] \in {"lastLeave", "ended"} => Len(ring') + dropped' <= late' + faults'
  BY <1>1, <1>4 DEF ShutdownOK
<1> QED
  BY <1>5, <1>6, <1>7 DEF ShutdownOK

\* A line that reaches a shutdown's ring or its count is late.
LEMMA ShutdownCommits ==
    ASSUME LogParameters, IInv, ShutdownOK, NEW p \in Producers, Commit(p)
    PROVE  ShutdownOK'
<1>1. StateOK /\ CountsTyped
  BY Numbers DEF IInv
<1>2. pc'["stopper"] = pc["stopper"] /\ faults' = faults
  BY <1>1, ActorsFinite DEF Commit, Goto, StateOK, Actors
<1>3. PICK t \in Nat, n \in Nat, d \in Nat, f \in Nat :
        t = late /\ n = Len(ring) /\ d = dropped /\ f = faults
  BY <1>1 DEF CountsTyped, ShutdownOK
<1>4. CASE Len(ring) < RingLines
  <2>1. /\ ring' = Append(ring, current) /\ dropped' = dropped
        /\ late' = late + Since({"lastLeave", "ended"})
    BY <1>4 DEF Commit
  <2>2. Len(ring') = Len(ring) + 1
    BY <1>1, <2>1 DEF StateOK, LogParameters
  <2>3. CASE pc["stopper"] \in {"lastLeave", "ended"}
    <3>1. late' = t + 1 /\ n + d <= t + f
      BY <1>3, <2>1, <2>3 DEF Since, ShutdownOK
    <3>2. (n + 1) + d <= (t + 1) + f /\ t + 1 \in Nat
      BY <3>1
    <3> QED
      BY <1>2, <1>3, <2>1, <2>2, <2>3, <3>1, <3>2 DEF ShutdownOK
  <2>4. CASE pc["stopper"] \notin {"lastLeave", "ended"}
    <3>1. late' = t
      BY <1>3, <2>1, <2>4 DEF Since
    <3> QED
      BY <1>2, <1>3, <2>1, <2>4, <3>1 DEF ShutdownOK
  <2> QED
    BY <2>3, <2>4
<1>5. CASE ~(Len(ring) < RingLines)
  <2>1. /\ ring' = ring /\ dropped' = dropped + 1
        /\ late' = late + Since({"lastTake", "lastWrite", "lastLeave", "ended"})
    BY <1>5 DEF Commit
  <2>2. CASE pc["stopper"] \in {"lastTake", "lastWrite", "lastLeave", "ended"}
    <3>1. late' = t + 1 /\ dropped' = d + 1
      BY <1>3, <2>1, <2>2 DEF Since
    <3>2. /\ t + 1 \in Nat
          /\ d <= t + f => d + 1 <= (t + 1) + f
          /\ n + d <= t + f => n + (d + 1) <= (t + 1) + f
      OBVIOUS
    <3> QED
      BY <1>2, <1>3, <2>1, <3>1, <3>2 DEF ShutdownOK
  <2>3. CASE pc["stopper"] \notin {"lastTake", "lastWrite", "lastLeave", "ended"}
    <3>1. late' = t
      BY <1>3, <2>1, <2>3 DEF Since
    <3> QED
      BY <1>2, <1>3, <2>3, <3>1 DEF ShutdownOK
  <2> QED
    BY <2>2, <2>3
<1> QED
  BY <1>4, <1>5

\* A drain that begins leaves no count but those of the markers it could not write.
LEMMA ShutdownDrains ==
    ASSUME LogParameters, IInv, ShutdownOK, CountsTyped', NEW a \in Drainers, DrainBegin(a)
    PROVE  ShutdownOK'
<1>1. StateOK /\ CountsTyped
  BY Numbers DEF IInv
<1>2. PICK c \in Nat : dropped' <= c /\ faults' = faults + c
  <2> DEFINE counts == [lines |-> dropped, reroutes |-> rerouted]
             due    == {m \in DOMAIN counts : counts[m] > 0}
  <2>1. PICK lost \in SUBSET due :
          /\ faults' = faults + Cardinality(lost)
          /\ dropped' \in 0..Cardinality(lost)
    BY DEF DrainBegin
  <2>2. IsFiniteSet({"lines"}) /\ IsFiniteSet({"reroutes"})
    BY FS_Singleton
  <2>3. lost \subseteq {"lines"} \cup {"reroutes"}
    OBVIOUS
  <2>4. Cardinality(lost) \in Nat
    BY <2>2, <2>3, FS_Union, FS_Subset, FS_CardinalityType
  <2> QED
    BY <2>1, <2>4
<1>3. ring' = ring /\ late' = late /\ fileLock = Nobody
  BY DEF DrainBegin
<1>4. /\ pc["stopper"] \notin {"lastTake", "lastWrite", "lastLeave"}
      /\ pc'["stopper"] = IF a = "stopper" THEN IF pc[a] = "drain" THEN "take" ELSE "lastTake"
                          ELSE pc["stopper"]
      /\ a = "stopper" => pc["stopper"] # "ended"
  <2>1. "stopper" \in Actors /\ Nobody \notin Actors
    BY ActorsFinite DEF Actors
  <2>2. pc["stopper"] \notin Locking
    BY <1>3, <2>1 DEF IInv, LockOK
  <2> QED
    BY <1>1, <2>1, <2>2 DEF DrainBegin, Goto, StateOK, Locking
<1>5. PICK t \in Nat, n \in Nat, d1 \in Nat, d2 \in Nat, f \in Nat :
        /\ t = late /\ n = Len(ring) /\ d1 = dropped /\ d2 = dropped' /\ f = faults
  BY <1>1 DEF CountsTyped, ShutdownOK
<1>6. d2 <= t + (f + c)
  BY <1>2, <1>5
<1>7. pc'["stopper"] \in {"lastTake", "lastWrite"} => dropped' <= late' + faults'
  BY <1>2, <1>3, <1>5, <1>6
<1>8. pc'["stopper"] \in {"lastLeave", "ended"} => Len(ring') + dropped' <= late' + faults'
  <2>1. SUFFICES ASSUME pc'["stopper"] \in {"lastLeave", "ended"}
                 PROVE  n + d2 <= t + (f + c)
    BY <1>2, <1>3, <1>5
  <2>2. pc["stopper"] = "ended"
    BY <1>4, <2>1
  <2>3. n + d1 <= t + f
    BY <1>5, <2>2 DEF ShutdownOK
  <2> QED
    BY <1>2, <1>5, <2>3
<1> QED
  BY <1>3, <1>7, <1>8 DEF ShutdownOK

\* A drain that takes a line leaves the counts of lines; one that finds the ring empty has
\* nothing more to answer for.
LEMMA ShutdownTakes ==
    ASSUME LogParameters, IInv, ShutdownOK, CountsTyped', NEW a \in Drainers, Take(a)
    PROVE  ShutdownOK'
<1>1. StateOK /\ CountsTyped
  BY Numbers DEF IInv
<1>2. dropped' = dropped /\ faults' = faults /\ late' = late /\ dropped \in Nat /\ faults \in Nat
  BY <1>1 DEF Take, CountsTyped
<1>3. "stopper" \in Actors
  BY ActorsFinite DEF Actors
<1>4. CASE ring = <<>>
  <2>1. ring' = ring /\ Len(ring') = 0
        /\ pc'["stopper"] = IF a = "stopper"
                            THEN IF pc[a] = "take" THEN "leave" ELSE "lastLeave"
                            ELSE pc["stopper"]
    BY <1>1, <1>3, <1>4 DEF Take, Goto, StateOK
  <2>2. CASE a = "stopper" /\ pc[a] = "lastTake"
    <3>1. pc["stopper"] = "lastTake" /\ pc'["stopper"] = "lastLeave"
      BY <2>1, <2>2
    <3>2. 0 + dropped <= late + faults
      BY <1>2, <3>1 DEF ShutdownOK
    <3> QED
      BY <1>2, <2>1, <3>1, <3>2 DEF ShutdownOK
  <2>3. CASE a = "stopper" /\ pc[a] = "take"
    <3>1. pc'["stopper"] = "leave"
      BY <2>1, <2>3
    <3> QED
      BY <1>2, <3>1 DEF ShutdownOK
  <2>4. CASE a # "stopper"
    BY <1>2, <2>1, <2>4 DEF ShutdownOK
  <2> QED
    BY <2>2, <2>3, <2>4 DEF Take
<1>5. CASE ring # <<>>
  <2>1. /\ ring' = Tail(ring) /\ pc[a] \in {"take", "lastTake"}
        /\ pc'["stopper"] = IF a = "stopper"
                            THEN IF pc[a] = "take" THEN "write" ELSE "lastWrite"
                            ELSE pc["stopper"]
    BY <1>1, <1>3, <1>5 DEF Take, Goto, StateOK
  <2>2. Len(ring') <= Len(ring)
    <3>1. ring \in Seq(Nat)
      BY <1>1 DEF StateOK
    <3> QED
      BY <1>5, <2>1, <3>1
  <2> QED
    BY <1>1, <1>2, <2>1, <2>2, ShutdownUndisturbed
<1> QED
  BY <1>4, <1>5

\* A line written by a drain or by its producer adds to the counts only by a fault.
LEMMA ShutdownWrites ==
    ASSUME LogParameters, IInv, ShutdownOK, CountsTyped',
           (\E p \in Producers : SyncWrite(p)) \/ (\E a \in Drainers : Write(a))
    PROVE  ShutdownOK'
<1>1. StateOK /\ CountsTyped
  BY Numbers DEF IInv
<1>2. current \in Nat /\ hand \in [Drainers -> [gen : Nat, file : Nat]]
  BY <1>1 DEF StateOK, LogParameters
<1>3. ASSUME NEW p \in Producers, SyncWrite(p)
      PROVE  ShutdownOK'
  <2> DEFINE r == [gen |-> current, file |-> current]
  <2>1. WriteLine(r) /\ r \in [gen : Nat, file : Nat] /\ rerouted' = rerouted
    BY <1>2, <1>3 DEF SyncWrite
  <2>2. ring' = ring /\ late' = late /\ pc'["stopper"] = pc["stopper"]
    BY <1>1, <1>3, ActorsFinite DEF SyncWrite, Goto, StateOK, Actors
  <2> HIDE DEF r
  <2>3. dropped' + faults <= dropped + faults'
    BY <1>1, <2>1, WriteLineCounts
  <2>4. Len(ring') <= Len(ring)
    BY <1>1, <2>2 DEF CountsTyped
  <2> QED
    BY <1>1, <2>2, <2>3, <2>4, ShutdownUndisturbed
<1>4. ASSUME NEW a \in Drainers, Write(a)
      PROVE  ShutdownOK'
  <2>1. WriteLine(hand[a]) /\ hand[a] \in [gen : Nat, file : Nat] /\ rerouted' = rerouted
    BY <1>2, <1>4 DEF Write
  <2>2. /\ ring' = ring /\ late' = late /\ pc[a] \in {"write", "lastWrite"}
        /\ pc'["stopper"] = IF a = "stopper"
                            THEN IF pc[a] = "write" THEN "take" ELSE "lastTake"
                            ELSE pc["stopper"]
    BY <1>1, <1>4, ActorsFinite DEF Write, Goto, StateOK, Actors
  <2>3. dropped' + faults <= dropped + faults'
    BY <1>1, <2>1, WriteLineCounts
  <2>4. Len(ring') <= Len(ring)
    BY <1>1, <2>2 DEF CountsTyped
  <2> QED
    BY <1>1, <2>2, <2>3, <2>4, ShutdownUndisturbed
<1> QED
  BY <1>3, <1>4

\* Every step keeps what the shutdown answers for.
LEMMA ShutdownHolds ==
    ASSUME LogParameters, IInv, ShutdownOK, [Next]_vars
    PROVE  ShutdownOK'
<1>1. StateOK /\ CountsTyped
  BY Numbers DEF IInv
<1>2. CountsTyped'
  <2>1. StateOK' /\ LogParameters'
    BY StepHolds DEF LogParameters, IInv
  <2>2. (LogParameters /\ StateOK => CountsTyped)'
    BY Numbers, PTL
  <2> QED
    BY <2>1, <2>2
<1>3. /\ \A p \in Producers : p \in Actors /\ p # "stopper" /\ p # "writer"
      /\ "stopper" \in Actors /\ "stopper" # "writer" /\ DOMAIN pc = Actors
  BY <1>1, ActorsFinite DEF StateOK, Actors
<1> DEFINE Same == /\ UNCHANGED <<ring, dropped, late>>
                   /\ faults' = faults \/ faults' = faults + 1
<1>4. ASSUME Same,
             \/ pc'["stopper"] = pc["stopper"]
             \/ pc'["stopper"] \notin {"lastTake", "lastWrite", "lastLeave", "ended"}
             \/ pc["stopper"] = "lastLeave" /\ pc'["stopper"] = "ended"
      PROVE  ShutdownOK'
  <2>1. Len(ring') <= Len(ring) /\ dropped' + faults <= dropped + faults'
    BY <1>1, <1>4 DEF CountsTyped
  <2> QED
    BY <1>1, <1>2, <1>4, <2>1, ShutdownUndisturbed
<1>5. ASSUME NEW p \in Producers, Log(p) \/ Create(p) \/ Signal(p) \/ SyncLock(p)
      PROVE  ShutdownOK'
  <2>1. Same
    BY <1>5 DEF Log, Create, Signal, SyncLock, ringVars
  <2>2. pc'["stopper"] = pc["stopper"]
    BY <1>3, <1>5 DEF Log, Create, Signal, SyncLock, Goto
  <2> QED
    BY <1>4, <2>1, <2>2
<1>6. ASSUME NEW a \in Drainers, Leave(a)
      PROVE  ShutdownOK'
  <2>1. Same
    BY <1>6 DEF Leave, ringVars
  <2>2. /\ pc[a] \in {"leave", "lastLeave"}
        /\ pc'["stopper"] = IF a = "stopper"
                            THEN IF pc[a] = "lastLeave" THEN "ended"
                                 ELSE IF stopping THEN "lastDrain" ELSE "wait"
                            ELSE pc["stopper"]
    BY <1>3, <1>6 DEF Leave, Goto
  <2> QED
    BY <1>4, <2>1, <2>2
<1>7. ASSUME Wake \/ SetRoute \/ Stop \/ Join \/ JoinTimesOut
      PROVE  ShutdownOK'
  <2>1. Same
    BY <1>7 DEF Wake, SetRoute, Stop, Join, JoinTimesOut, ringVars
  <2>2. pc'["stopper"] = pc["stopper"] \/ pc'["stopper"] \in {"join", "lastDrain", "gaveUp"}
    BY <1>3, <1>7 DEF Wake, SetRoute, Stop, Join, JoinTimesOut, Goto
  <2> QED
    BY <1>4, <2>1, <2>2
<1>8. ASSUME UNCHANGED vars
      PROVE  ShutdownOK'
  BY <1>4, <1>8 DEF vars, ringVars
<1>9. ASSUME NEW p \in Producers, Log(p) \/ Producer(p)
      PROVE  ShutdownOK'
  BY <1>2, <1>5, <1>9, ShutdownCommits, ShutdownWrites DEF Producer
<1>10. ASSUME NEW a \in Drainers, Drain(a)
       PROVE  ShutdownOK'
  BY <1>2, <1>6, <1>10, ShutdownDrains, ShutdownTakes, ShutdownWrites DEF Drain
<1> QED
  BY <1>7, <1>8, <1>9, <1>10 DEF Next

-----------------------------------------------------------------------------
(* What the invariants say.                                                *)

\* The invariants are at least as strong as the three properties of the log.
LEMMA InvariantSays ==
    ASSUME LogParameters, IInv, ShutdownOK
    PROVE  TypeOK /\ GapsAreCounted /\ ShutdownSettlesTheLog
<1>1. StateOK /\ CountsOK /\ CountsTyped
  BY Numbers DEF IInv
<1>2. PICK n \in Nat, h \in Nat, wl \in Nat, d \in Nat, rl \in Nat, fl \in Nat, l \in Nat :
        /\ n = Len(ring) /\ h = Cardinality(InHand) /\ wl = written.lines /\ d = dropped
        /\ rl = reported.lines /\ fl = forgotten.lines /\ l = lines
  <2>1. written.lines \in Nat /\ reported.lines \in Nat /\ forgotten.lines \in Nat
    BY <1>1 DEF StateOK, Counts
  <2> QED
    BY <1>1, <2>1 DEF CountsTyped
<1>3. PICK w \in Nat, r \in Nat, rr \in Nat, fr \in Nat, y \in Nat :
        /\ w = written.reroutes /\ r = rerouted /\ rr = reported.reroutes
        /\ fr = forgotten.reroutes /\ y = Astray
  <2>1. reported.reroutes \in Nat /\ forgotten.reroutes \in Nat
    BY <1>1 DEF StateOK, Counts
  <2> QED
    BY <1>1, <2>1 DEF CountsTyped
<1>4. GapsAreCounted
  <2>1. l <= n + h + (wl + d + rl + fl)
    BY <1>1, <1>2 DEF CountsOK, LinesOK, Gone
  <2>2. w + y <= r + rr + fr
    BY <1>1, <1>3 DEF CountsOK, StraysOK, Noted
  <2>3. (fl = 0 => l <= n + h + wl + d + rl) /\ (fr = 0 => w <= r + rr)
    BY <2>1, <2>2
  <2> QED
    BY <1>2, <1>3, <2>3 DEF GapsAreCounted
<1>5. ShutdownSettlesTheLog
  BY DEF ShutdownOK, ShutdownSettlesTheLog
<1>6. dropped \in 0..(2 * MaxLines + MaxFileFaults)
  <2>1. PICK f \in Nat, x \in Nat, z \in Nat : f = faults /\ x = MaxLines /\ z = MaxFileFaults
    BY <1>1 DEF CountsTyped, LogParameters
  <2>2. d + n + h <= l + f /\ l <= x /\ f <= z
    BY <1>1, <1>2, <2>1 DEF CountsOK, DropsOK, StateOK
  <2>3. d \in 0..(2 * x + z)
    BY <2>2
  <2> QED
    BY <1>2, <2>1, <2>3
<1>7. rerouted \in 0..MaxLines
  <2>1. PICK e \in Nat, x \in Nat : e = Cardinality(Early) /\ x = MaxLines
    BY <1>1 DEF CountsTyped, LogParameters
  <2>2. r + n + e <= l /\ l <= x
    BY <1>1, <1>2, <1>3, <2>1 DEF CountsOK, EarlyOK, StateOK
  <2>3. r \in 0..x
    BY <2>2
  <2> QED
    BY <1>3, <2>1, <2>3
<1>8. /\ current \in 1..MaxRoutes /\ \A s \in DOMAIN slots : slots[s] \in 0..current
      /\ {event, published, starting, stopping} \subseteq BOOLEAN
  BY <1>1 DEF StateOK
<1>9. \A a \in DOMAIN pc : pc[a] \in Locking <=> fileLock = a
  BY <1>1 DEF IInv, StateOK, LockOK
<1> QED
  BY <1>4, <1>5, <1>6, <1>7, <1>8, <1>9 DEF TypeOK, IInv, RingOK, Locking

-----------------------------------------------------------------------------
(* The theorems.                                                           *)

\* The debug log for every number of producers, routes and faults
\* (main_debug_log_writer.cpp): the invariants hold throughout.
THEOREM LogInvariant ==
    ASSUME LogParameters
    PROVE  Spec => [](IInv /\ ShutdownOK)
<1>1. Init => IInv /\ ShutdownOK
  BY InitHolds, ShutdownStarts
<1>2. IInv /\ ShutdownOK /\ [Next]_vars => (IInv /\ ShutdownOK)'
  BY StepHolds, ShutdownHolds
<1> QED
  BY <1>1, <1>2, PTL DEF Spec

\* The file has one owner; a line or a reroute misses in the counts only by a write or a
\* marker that failed uncounted; and a shutdown in time leaves only what came after it.
THEOREM LogKeepsItsLines ==
    ASSUME LogParameters
    PROVE  Spec => [](TypeOK /\ GapsAreCounted /\ ShutdownSettlesTheLog)
<1>1. IInv /\ ShutdownOK => TypeOK /\ GapsAreCounted /\ ShutdownSettlesTheLog
  BY InvariantSays
<1> QED
  BY <1>1, LogInvariant, PTL
=============================================================================
