---------------------- MODULE ServiceOperationsProofs ----------------------
(***************************************************************************)
(* What holds of the operation tracker and of the client's report for any  *)
(* operations, any history length and any bounds: the types, that a        *)
(* repeated request is answered from its record, that a reported success   *)
(* was committed, and that ServiceOperations implements MutationContract   *)
(* wherever the Windows gates refuse no result query.                      *)
(*                                                                         *)
(* The invariant has three parts that need each other only through the     *)
(* types: the ring of records against the history of operations begun      *)
(* (NewestAreRecorded), every state that is kept or on its way against the *)
(* verdicts reached (Sincere...), and the requests and refusals on their   *)
(* way against what the client may still be told (SentOnce, ReportIsFinal).*)
(***************************************************************************)
EXTENDS ServiceOperations, SequenceTheorems, TLAPS

\* The slot of the operation begun age operations ago (1 is the newest).
Slot(next, age) == IF next > age THEN next - age ELSE next + Capacity - age

\* The newest operations, seq with the oldest first, are in the newest slots.
Agree(t, seq) ==
    \A age \in 1..Len(seq) :
        t.records[Slot(t.nextRecord, age)].op = seq[Len(seq) + 1 - age]

NewestAreRecorded == Agree(tracker, window)

\* A mutation of op is among the requests, there is at most one of them, and
\* op has none of any kind.
MutatesIn(seq, op) == \E i \in DOMAIN seq : seq[i].op = op /\ seq[i].kind = "mutate"
OneOf(seq, op) ==
    \A i, j \in DOMAIN seq :
        /\ seq[i].op = op /\ seq[i].kind = "mutate"
        /\ seq[j].op = op /\ seq[j].kind = "mutate"
        => i = j
AbsentFrom(seq, op) == \A i \in DOMAIN seq : seq[i].op # op

\* A mutation of op is on its way, and a refusal is on its way back.
Mutates(op) == MutatesIn(inbox, op)
Refused(op) == [op |-> op, kind |-> "mutate", state |-> "none"] \in answers

\* Nothing of op runs, ran or is on its way to run.
Silent(op) == ~Mutates(op) /\ handler.op # op /\ verdicts[op] = {}

\* A record or answer claims no verdict that was not reached.
Sincere(rec, reached) ==
    rec.op \in Ops =>
        /\ rec.state = "succeeded" => "committed" \in reached[rec.op]
        /\ rec.state = "failed" => "failed" \in reached[rec.op]

Kept(rec, reached) == Sincere(rec, reached) /\ (rec.op \in Ops => rec.state # "none")

RecordsAreSincere ==
    /\ \A i \in 1..Capacity : Kept(tracker.records[i], verdicts)
    /\ Kept(opFile, verdicts)
    /\ Kept(stateFile, verdicts)
    /\ Kept(handler.saved, verdicts)

AnswersAreSincere == \A a \in answers : Sincere(a, verdicts)

HandlerHasItsVerdict ==
    /\ handler.stage # "idle" => handler.op \in Ops
    /\ handler.stage = "idle" => handler.op = NoOp
    /\ handler.stage = "committed" => "committed" \in verdicts[handler.op]
    /\ handler.stage = "failed" => "failed" \in verdicts[handler.op]

\* Until its client repeats it an operation has one request, and a refusal of that
\* request means that nothing ran.
SentOnce ==
    \A op \in Ops : retries[op] = 0 =>
        /\ OneOf(inbox, op)
        /\ Mutates(op) => handler.op # op /\ verdicts[op] = {} /\ ~Refused(op)
        /\ Refused(op) => Silent(op)

\* A result query is refused only on a platform that refuses result queries.
RefusedQueriesAreNamed ==
    \A a \in answers : a.kind = "query" /\ a.state = "none" => platform \in QueryRefusals

\* What the client of the Windows service takes for granted: an answer to its result
\* query is about the operation, never a refusal of the query.
QueriesAreAnswered == "windows" \notin QueryRefusals

\* A reported success was committed.
SuccessIsCommitted == \A op \in Ops : told[op] = "success" => "committed" \in verdicts[op]

\* Only an operation that is done has been reported, an idle one has left no
\* trace, and one reported as failed has that verdict or can never run.
ReportIsFinal ==
    \A op \in Ops :
        /\ client[op] # "done" => told[op] = "none"
        /\ client[op] = "idle" =>
              /\ Silent(op)
              /\ AbsentFrom(inbox, op)
              /\ \A a \in answers : a.op # op
        /\ QueriesAreAnswered /\ told[op] = "failure" =>
              "failed" \in verdicts[op] \/ Silent(op)

IInv ==
    /\ TypeOK
    /\ NewestAreRecorded
    /\ RecordsAreSincere
    /\ AnswersAreSincere
    /\ HandlerHasItsVerdict
    /\ SentOnce
    /\ RefusedQueriesAreNamed
    /\ SuccessIsCommitted
    /\ ReportIsFinal

---------------------------------------------------------------------------
(* Sequences.                                                              *)

\* Where the request at j was before the one at i was taken out.
Before(i, j) == IF j < i THEN j ELSE j + 1

\* Taking a request out of the queue (the service picks one, in any order) leaves the
\* others, each at its place before or one place on.
LEMMA RemovedAt ==
    ASSUME NEW S, NEW seq \in Seq(S), NEW i \in 1..Len(seq)
    PROVE  /\ RemoveAt(seq, i) \in Seq(S)
           /\ Len(RemoveAt(seq, i)) = Len(seq) - 1
           /\ \A j \in 1..(Len(seq) - 1) :
                 /\ Before(i, j) \in 1..Len(seq)
                 /\ Before(i, j) # i
                 /\ RemoveAt(seq, i)[j] = seq[Before(i, j)]
<1> DEFINE front == SubSeq(seq, 1, i - 1)
           back  == SubSeq(seq, i + 1, Len(seq))
<1>0. Len(seq) \in Nat /\ i \in Nat /\ 1 <= i /\ i <= Len(seq)
  BY LenProperties
<1>1. \A j \in 1..(i - 1) : seq[j] \in S
  BY <1>0, ElementOfSeq
<1>2. \A j \in (i + 1)..Len(seq) : seq[j] \in S
  BY <1>0, ElementOfSeq
<1>3. /\ front \in Seq(S)
      /\ Len(front) = i - 1
      /\ \A j \in 1..(i - 1) : front[j] = seq[j]
  BY <1>0, <1>1, SubSeqProperties
<1>4. /\ back \in Seq(S)
      /\ Len(back) = Len(seq) - i
      /\ \A j \in 1..(Len(seq) - i) : back[j] = seq[i + j]
  BY <1>0, <1>2, SubSeqProperties
<1> HIDE DEF front, back
<1>5. /\ front \o back \in Seq(S)
      /\ Len(front \o back) = Len(seq) - 1
      /\ \A j \in 1..(Len(seq) - 1) :
            (front \o back)[j] = IF j <= i - 1 THEN front[j] ELSE back[j - (i - 1)]
  <2>1. /\ front \o back \in Seq(S)
        /\ Len(front \o back) = Len(front) + Len(back)
        /\ \A j \in 1..(Len(front) + Len(back)) :
              (front \o back)[j] = IF j <= Len(front) THEN front[j] ELSE back[j - Len(front)]
    BY <1>3, <1>4, ConcatProperties
  <2>2. Len(front) + Len(back) = Len(seq) - 1
    BY <1>0, <1>3, <1>4
  <2> QED BY <1>3, <2>1, <2>2
<1>6. RemoveAt(seq, i) = front \o back
  BY DEF RemoveAt, front, back
<1>7. ASSUME NEW j \in 1..(Len(seq) - 1)
      PROVE  /\ Before(i, j) \in 1..Len(seq)
             /\ Before(i, j) # i
             /\ (front \o back)[j] = seq[Before(i, j)]
  <2>1. CASE j < i
    BY <1>0, <1>3, <1>5, <2>1 DEF Before
  <2>2. CASE ~(j < i)
    <3>1. j - (i - 1) \in 1..(Len(seq) - i) /\ i + (j - (i - 1)) = j + 1
      BY <1>0, <2>2
    <3>2. (front \o back)[j] = seq[j + 1]
      BY <1>0, <1>4, <1>5, <2>2, <3>1
    <3> QED BY <1>0, <2>2, <3>2 DEF Before
  <2> QED BY <2>1, <2>2
<1> QED BY <1>5, <1>6, <1>7

\* Appending leaves the older elements alone.
LEMMA Appended ==
    ASSUME NEW S, NEW seq \in Seq(S), NEW e \in S
    PROVE  /\ Append(seq, e) \in Seq(S)
           /\ Len(Append(seq, e)) = Len(seq) + 1
           /\ DOMAIN Append(seq, e) = 1..(Len(seq) + 1)
           /\ DOMAIN seq = 1..Len(seq)
           /\ \A j \in 1..Len(seq) : Append(seq, e)[j] = seq[j]
           /\ Append(seq, e)[Len(seq) + 1] = e
BY AppendProperties, LenProperties

---------------------------------------------------------------------------
(* The tracker.                                                            *)

\* The ring's next index stays within its capacity and wraps to the first slot
\* (service_operation_begin).
LEMMA NextSlot ==
    ASSUME NEW n \in 1..Capacity
    PROVE  /\ (n % Capacity) + 1 \in 1..Capacity
           /\ (n % Capacity) + 1 = IF n = Capacity THEN 1 ELSE n + 1
<1>1. Capacity \in Nat \ {0}
  BY TrackerAssumption DEF TrackerAssumption
<1>2. CASE n = Capacity
  BY <1>1, <1>2
<1>3. CASE n # Capacity
  <2>1. n \in 0..(Capacity - 1)
    BY <1>1, <1>3
  <2>2. n % Capacity = n
    BY <1>1, <2>1
  <2> QED BY <1>1, <1>3, <2>2
<1> QED BY <1>2, <1>3

\* Records that begin, complete or are restored: the types, and what stays.
LEMMA Begun ==
    ASSUME NEW t \in Trackers, NEW op \in Ops
    PROVE  /\ BeginRecord(t, op) \in Trackers
           /\ Tracked(BeginRecord(t, op), op)
           /\ \A i \in 1..Capacity :
                 BeginRecord(t, op).records[i] \in
                     {t.records[i], [op |-> op, state |-> "inProgress"]}
           /\ ~Tracked(t, op) =>
                 /\ BeginRecord(t, op).records[t.nextRecord].op = op
                 /\ \A i \in 1..Capacity \ {t.nextRecord} :
                       BeginRecord(t, op).records[i] = t.records[i]
                 /\ BeginRecord(t, op).nextRecord = (t.nextRecord % Capacity) + 1
<1>1. CASE Tracked(t, op)
  BY <1>1 DEF BeginRecord
<1>2. CASE ~Tracked(t, op)
  <2> DEFINE rec == [op |-> op, state |-> "inProgress"]
             new == [t.records EXCEPT ![t.nextRecord] = rec]
  <2>1. rec \in Record /\ rec.op = op
    BY DEF Record, States
  <2>2. t.records \in [1..Capacity -> Record] /\ t.nextRecord \in 1..Capacity
    BY DEF Trackers
  <2> HIDE DEF rec
  <2>3. /\ new \in [1..Capacity -> Record]
        /\ new[t.nextRecord] = rec
        /\ \A i \in 1..Capacity \ {t.nextRecord} : new[i] = t.records[i]
    BY <2>1, <2>2
  <2>4. (t.nextRecord % Capacity) + 1 \in 1..Capacity
    BY <2>2, NextSlot
  <2>5. BeginRecord(t, op) = [records |-> new, nextRecord |-> (t.nextRecord % Capacity) + 1]
    BY <1>2 DEF BeginRecord, rec
  <2> HIDE DEF new
  <2>6. /\ BeginRecord(t, op).records = new
        /\ BeginRecord(t, op).nextRecord = (t.nextRecord % Capacity) + 1
        /\ BeginRecord(t, op) \in Trackers
    BY <2>3, <2>4, <2>5 DEF Trackers
  <2>7. \A i \in 1..Capacity : new[i] \in {t.records[i], rec}
    BY <2>3
  <2>8. Tracked(BeginRecord(t, op), op)
    BY <2>1, <2>2, <2>3, <2>6 DEF Tracked
  <2> QED BY <1>2, <2>1, <2>3, <2>6, <2>7, <2>8 DEF rec
<1> QED BY <1>1, <1>2

\* A change of state touches only the records of its operation, and only their state
\* (service_operation_set_state).
LEMMA StateSet ==
    ASSUME NEW t \in Trackers, NEW op \in Ops, NEW from, NEW state \in States
    PROVE  /\ SetState(t, op, from, state) \in Trackers
           /\ SetState(t, op, from, state).nextRecord = t.nextRecord
           /\ \A i \in 1..Capacity :
                 /\ SetState(t, op, from, state).records[i].op = t.records[i].op
                 /\ SetState(t, op, from, state).records[i] \in
                        {t.records[i], [op |-> op, state |-> state]}
<1> DEFINE new == [i \in 1..Capacity |->
        IF t.records[i].op = op /\ t.records[i].state \in from
        THEN [t.records[i] EXCEPT !.state = state] ELSE t.records[i]]
<1>1. t.records \in [1..Capacity -> Record] /\ t.nextRecord \in 1..Capacity
      /\ t = [records |-> t.records, nextRecord |-> t.nextRecord]
  BY DEF Trackers
<1>2. ASSUME NEW i \in 1..Capacity
      PROVE  /\ new[i] \in Record
             /\ new[i].op = t.records[i].op
             /\ new[i] \in {t.records[i], [op |-> op, state |-> state]}
  <2>1. t.records[i] \in Record
    BY <1>1
  <2> QED BY <2>1 DEF Record
<1>3. new \in [1..Capacity -> Record]
  BY <1>2
<1>4. SetState(t, op, from, state) = [t EXCEPT !.records = new]
  BY DEF SetState
<1> HIDE DEF new
<1>5. /\ SetState(t, op, from, state) \in Trackers
      /\ SetState(t, op, from, state).nextRecord = t.nextRecord
      /\ SetState(t, op, from, state).records = new
  BY <1>1, <1>3, <1>4 DEF Trackers
<1> QED BY <1>2, <1>5

\* A record loaded from a file: its operation, with a state it may claim.
LEMMA Loaded ==
    ASSUME NEW t \in Trackers, NEW rec \in Record
    PROVE  /\ LoadFrom(t, rec) \in Trackers
           /\ rec.op \in Ops => Tracked(LoadFrom(t, rec), rec.op)
           /\ \A i \in 1..Capacity :
                 \/ LoadFrom(t, rec).records[i] = t.records[i]
                 \/ /\ rec.op \in Ops
                    /\ LoadFrom(t, rec).records[i] \in
                         {[op |-> rec.op, state |-> "inProgress"],
                          [op |-> rec.op, state |-> RestoredState(rec)]}
<1>0. /\ rec.op \in Ops \cup {NoOp} /\ rec.state \in States
      /\ RestoredState(rec) \in States
  BY DEF Record, States, RestoredState
<1>1. CASE rec.op = NoOp
  BY <1>1, OperationAssumption DEF OperationAssumption, LoadFrom
<1>2. CASE rec.op # NoOp
  <2> DEFINE b == BeginRecord(t, rec.op)
             s == SetState(b, rec.op, States, RestoredState(rec))
  <2>1. rec.op \in Ops
    BY <1>0, <1>2
  <2>2. /\ b \in Trackers /\ Tracked(b, rec.op)
        /\ \A i \in 1..Capacity :
              b.records[i] \in {t.records[i], [op |-> rec.op, state |-> "inProgress"]}
    BY <2>1, Begun
  <2> HIDE DEF b
  <2>3. /\ s \in Trackers
        /\ \A i \in 1..Capacity :
              /\ s.records[i].op = b.records[i].op
              /\ s.records[i] \in {b.records[i], [op |-> rec.op, state |-> RestoredState(rec)]}
    BY <1>0, <2>1, <2>2, StateSet
  <2>4. LoadFrom(t, rec) = s
    BY <1>2 DEF LoadFrom, RestoreRecord, b, s
  <2> HIDE DEF s
  <2>5. Tracked(s, rec.op)
    BY <2>2, <2>3 DEF Tracked
  <2> QED BY <2>1, <2>2, <2>3, <2>4, <2>5
<1> QED BY <1>1, <1>2

\* A fresh tracker holds no operation of any client.
LEMMA NothingTracked ==
    /\ EmptyTracker \in Trackers
    /\ \A i \in 1..Capacity : EmptyTracker.records[i] = NoRecord
    /\ NoRecord \in Record
    /\ NoRecord.op \notin Ops
<1>1. Capacity \in Nat \ {0}
  BY TrackerAssumption DEF TrackerAssumption
<1>2. NoRecord \in Record /\ NoRecord.op = NoOp
  BY DEF NoRecord, Record, States
<1>3. NoOp \notin Ops
  BY OperationAssumption DEF OperationAssumption
<1> HIDE DEF NoRecord
<1> QED BY <1>1, <1>2, <1>3 DEF EmptyTracker, Trackers

\* What a query answers: a state, and never a refusal unless that is recorded.
LEMMA LookedUp ==
    ASSUME NEW t \in Trackers, NEW op \in Ops
    PROVE  \/ Lookup(t, op) = "unknown"
           \/ \E i \in 1..Capacity :
                 /\ t.records[i].op = op
                 /\ Lookup(t, op) = t.records[i].state
                 /\ Lookup(t, op) \in States
<1>1. CASE Tracked(t, op)
  <2> DEFINE i == CHOOSE k \in 1..Capacity : t.records[k].op = op
  <2>1. i \in 1..Capacity /\ t.records[i].op = op
    BY <1>1 DEF Tracked
  <2>2. Lookup(t, op) = t.records[i].state
    BY <1>1 DEF Lookup
  <2> HIDE DEF i
  <2>3. t.records[i].state \in States
    BY <2>1 DEF Trackers, Record
  <2> QED BY <2>1, <2>2, <2>3
<1>2. CASE ~Tracked(t, op)
  BY <1>2 DEF Lookup
<1> QED BY <1>1, <1>2

---------------------------------------------------------------------------
(* The ring of records and the history of operations begun.                *)

\* What the history holds once op is the newest.
LEMMA NewestIs ==
    ASSUME NEW seq \in Windows, NEW op \in Ops,
           \A i \in 1..Len(seq) : seq[i] # op
    PROVE  /\ Newest(seq, op) \in Windows
           /\ Len(Newest(seq, op)) \in Nat \ {0}
           /\ Newest(seq, op)[Len(Newest(seq, op))] = op
           /\ \A age \in 2..Len(Newest(seq, op)) :
                 /\ age - 1 \in 1..Len(seq)
                 /\ Newest(seq, op)[Len(Newest(seq, op)) + 1 - age] =
                       seq[Len(seq) + 1 - (age - 1)]
<1> DEFINE all == Append(seq, op)
<1>1. /\ seq \in Seq(Ops) /\ Len(seq) \in Nat /\ Len(seq) <= Capacity
      /\ DOMAIN seq = 1..Len(seq)
      /\ Capacity \in Nat \ {0}
  BY LenProperties, TrackerAssumption DEF Windows, TrackerAssumption
<1>2. /\ all \in Seq(Ops)
      /\ Len(all) = Len(seq) + 1
      /\ \A j \in 1..Len(seq) : all[j] = seq[j]
      /\ all[Len(seq) + 1] = op
      /\ all # <<>>
  BY <1>1, AppendProperties
<1>3. op # NoOp
  BY OperationAssumption DEF OperationAssumption
<1>4. Newest(seq, op) = IF Len(all) > Capacity THEN Tail(all) ELSE all
  BY <1>1, <1>3 DEF Newest
<1> HIDE DEF all
<1>5. CASE Len(all) > Capacity
  <2>1. /\ Tail(all) \in Seq(Ops)
        /\ Len(Tail(all)) = Len(seq)
        /\ \A j \in 1..Len(seq) : Tail(all)[j] = all[j + 1]
    BY <1>1, <1>2, HeadTailProperties
  <2>2. Newest(seq, op) = Tail(all)
    BY <1>4, <1>5
  <2>0. Len(seq) = Capacity
    <3>1. Len(seq) + 1 > Capacity
      BY <1>2, <1>5
    <3>2. PICK n \in Nat : n = Len(seq)
      BY <1>1
    <3>3. PICK m \in Nat : m = Capacity
      BY <1>1
    <3>4. n <= m /\ n + 1 > m
      BY <1>1, <3>1, <3>2, <3>3
    <3>5. n = m
      BY <3>4
    <3> QED BY <3>2, <3>3, <3>5
  <2>3. Tail(all)[Len(seq)] = op
    BY <1>1, <1>2, <2>0, <2>1
  <2>4. ASSUME NEW age \in 2..Len(seq)
        PROVE  /\ age - 1 \in 1..Len(seq)
               /\ Tail(all)[Len(seq) + 1 - age] = seq[Len(seq) + 1 - (age - 1)]
    <3>1. /\ Len(seq) + 1 - age \in 1..Len(seq)
          /\ Len(seq) + 1 - age + 1 = Len(seq) + 1 - (age - 1)
          /\ Len(seq) + 1 - (age - 1) \in 1..Len(seq)
          /\ age - 1 \in 1..Len(seq)
      BY <1>1
    <3> QED BY <1>2, <2>1, <3>1
  <2> QED BY <1>1, <2>0, <2>1, <2>2, <2>3, <2>4 DEF Windows
<1>6. CASE ~(Len(all) > Capacity)
  <2>1. Newest(seq, op) = all
    BY <1>4, <1>6
  <2>2. ASSUME NEW age \in 2..Len(all)
        PROVE  /\ age - 1 \in 1..Len(seq)
               /\ all[Len(all) + 1 - age] = seq[Len(seq) + 1 - (age - 1)]
    <3>1. /\ Len(all) + 1 - age \in 1..Len(seq)
          /\ Len(all) + 1 - age = Len(seq) + 1 - (age - 1)
          /\ age - 1 \in 1..Len(seq)
      BY <1>1, <1>2
    <3> QED BY <1>2, <3>1
  <2> QED BY <1>1, <1>2, <1>6, <2>1, <2>2 DEF Windows
<1> QED BY <1>5, <1>6

\* The slots of the Capacity newest operations are those before the next one.
LEMMA SlotMoves ==
    ASSUME NEW next \in 1..Capacity, NEW age \in 1..Capacity
    PROVE  /\ Slot(next, age) \in 1..Capacity
           /\ Slot((next % Capacity) + 1, 1) = next
           /\ age # Capacity => /\ Slot((next % Capacity) + 1, age + 1) = Slot(next, age)
                                /\ Slot(next, age) # next
<1>1. Capacity \in Nat \ {0}
  BY TrackerAssumption DEF TrackerAssumption
<1>2. (next % Capacity) + 1 = IF next = Capacity THEN 1 ELSE next + 1
  BY NextSlot
<1> QED BY <1>1, <1>2 DEF Slot

\* An operation of the history is in the tracker.
LEMMA HistoryIsTracked ==
    ASSUME NEW t \in Trackers, NEW seq \in Windows, Agree(t, seq),
           NEW i \in 1..Len(seq)
    PROVE  Tracked(t, seq[i])
<1> DEFINE age == Len(seq) + 1 - i
<1>1. /\ Len(seq) \in Nat /\ Len(seq) <= Capacity /\ Capacity \in Nat \ {0}
      /\ t.nextRecord \in 1..Capacity
  BY LenProperties, TrackerAssumption DEF Windows, TrackerAssumption, Trackers
<1>2. age \in 1..Len(seq) /\ age \in 1..Capacity /\ Len(seq) + 1 - age = i
  BY <1>1
<1> HIDE DEF age
<1>3. Slot(t.nextRecord, age) \in 1..Capacity
  BY <1>1, <1>2, SlotMoves
<1>4. t.records[Slot(t.nextRecord, age)].op = seq[i]
  BY <1>2 DEF Agree
<1> QED BY <1>3, <1>4 DEF Tracked

\* A new operation takes the oldest slot and becomes the newest of the history.
LEMMA BeginAgrees ==
    ASSUME NEW t \in Trackers, NEW seq \in Windows, Agree(t, seq), NEW op \in Ops,
           ~Tracked(t, op)
    PROVE  /\ Agree(BeginRecord(t, op), Newest(seq, op))
           /\ Newest(seq, op) \in Windows
<1> DEFINE t2 == BeginRecord(t, op)
           new == Newest(seq, op)
<1>1. \A i \in 1..Len(seq) : seq[i] # op
  BY HistoryIsTracked
<1>2. /\ new \in Windows
      /\ Len(new) \in Nat \ {0}
      /\ new[Len(new)] = op
      /\ \A age \in 2..Len(new) :
            /\ age - 1 \in 1..Len(seq)
            /\ new[Len(new) + 1 - age] = seq[Len(seq) + 1 - (age - 1)]
  BY <1>1, NewestIs
<1>3. /\ t2.records[t.nextRecord].op = op
      /\ \A i \in 1..Capacity \ {t.nextRecord} : t2.records[i] = t.records[i]
      /\ t2.nextRecord = (t.nextRecord % Capacity) + 1
  BY Begun
<1>4. /\ Len(seq) \in Nat /\ Len(new) <= Capacity /\ Capacity \in Nat \ {0}
      /\ t.nextRecord \in 1..Capacity
  BY <1>2, LenProperties, TrackerAssumption DEF Windows, TrackerAssumption, Trackers
<1> HIDE DEF t2, new
<1>5. ASSUME NEW age \in 1..Len(new)
      PROVE  t2.records[Slot(t2.nextRecord, age)].op = new[Len(new) + 1 - age]
  <2>1. CASE age = 1
    <3>1. Slot(t2.nextRecord, 1) = t.nextRecord
      BY <1>3, <1>4, SlotMoves
    <3>2. Len(new) + 1 - age = Len(new)
      BY <1>2, <2>1
    <3> QED BY <1>2, <1>3, <2>1, <3>1, <3>2
  <2>2. CASE age # 1
    <3>1. /\ age \in 2..Len(new) /\ age - 1 \in 1..Capacity /\ age - 1 # Capacity
          /\ (age - 1) + 1 = age
      BY <1>2, <1>4, <2>2
    <3>2. /\ Slot(t2.nextRecord, age) = Slot(t.nextRecord, age - 1)
          /\ Slot(t.nextRecord, age - 1) # t.nextRecord
          /\ Slot(t.nextRecord, age - 1) \in 1..Capacity
      <4>1. PICK b \in 1..Capacity : b = age - 1
        BY <3>1
      <4>2. PICK next \in 1..Capacity : next = t.nextRecord
        BY <1>4
      <4>3. b # Capacity
        BY <3>1, <4>1
      <4>4. /\ Slot((next % Capacity) + 1, b + 1) = Slot(next, b)
            /\ Slot(next, b) # next
            /\ Slot(next, b) \in 1..Capacity
        BY <4>3, SlotMoves
      <4> QED BY <1>3, <3>1, <4>1, <4>2, <4>4
    <3>3. t2.records[Slot(t2.nextRecord, age)] = t.records[Slot(t.nextRecord, age - 1)]
      BY <1>3, <3>2
    <3>4. age - 1 \in 1..Len(seq)
      BY <1>2, <3>1
    <3>5. t.records[Slot(t.nextRecord, age - 1)].op = seq[Len(seq) + 1 - (age - 1)]
      BY <3>4 DEF Agree
    <3> QED BY <1>2, <3>1, <3>3, <3>5
  <2> QED BY <2>1, <2>2
<1> QED BY <1>2, <1>5 DEF Agree, t2, new

---------------------------------------------------------------------------
(* Types.                                                                  *)

\* A client that gives up marks its requests, it does not move or change them.
LEMMA Abandoned ==
    ASSUME NEW seq \in Seq(Requests), NEW op
    PROVE  /\ Abandon(seq, op) \in Seq(Requests)
           /\ DOMAIN Abandon(seq, op) = DOMAIN seq
           /\ \A i \in DOMAIN seq : /\ Abandon(seq, op)[i].op = seq[i].op
                                    /\ Abandon(seq, op)[i].kind = seq[i].kind
<1>1. /\ Len(seq) \in Nat /\ DOMAIN seq = 1..Len(seq)
      /\ \A i \in 1..Len(seq) : seq[i] \in Requests
  BY LenProperties, ElementOfSeq
<1>2. ASSUME NEW i \in 1..Len(seq)
      PROVE  LET r == IF seq[i].op = op THEN [seq[i] EXCEPT !.live = FALSE] ELSE seq[i]
             IN  r \in Requests /\ r.op = seq[i].op /\ r.kind = seq[i].kind
  BY <1>1 DEF Requests
<1>3. Abandon(seq, op) = [i \in 1..Len(seq) |->
         IF seq[i].op = op THEN [seq[i] EXCEPT !.live = FALSE] ELSE seq[i]]
  BY <1>1 DEF Abandon
<1>4. Abandon(seq, op) \in Seq(Requests)
  BY <1>1, <1>2, <1>3
<1> QED BY <1>1, <1>2, <1>3, <1>4

\* The requests that wait, and the one at i.
LEMMA Waiting ==
    ASSUME TypeOK, NEW i \in DOMAIN inbox
    PROVE  /\ i \in 1..Len(inbox) /\ inbox \in Seq(Requests)
           /\ inbox[i] \in Requests
           /\ inbox[i].op \in Ops /\ inbox[i].live \in BOOLEAN /\ inbox[i].kind \in Kinds
           /\ RemoveAt(inbox, i) \in Seq(Requests)
<1>1. inbox \in Seq(Requests)
  BY DEF TypeOK
<1>2. i \in 1..Len(inbox)
  BY <1>1, LenProperties
<1>3. inbox[i] \in Requests
  BY <1>1, <1>2, ElementOfSeq
<1>4. RemoveAt(inbox, i) \in Seq(Requests)
  BY <1>1, <1>2, RemovedAt
<1> QED BY <1>1, <1>2, <1>3, <1>4 DEF Requests

\* Storing the operation file, with or without success, leaves the old record or the
\* new one.
LEMMA Stores ==
    ASSUME NEW file \in Record, NEW rec \in Record, NEW new \in Stored(file, rec)
    PROVE  new \in {file, rec} /\ new \in Record
BY DEF Stored

\* An answer on its way is the only thing answering changes, and only if the client is
\* still there.
LEMMA Put ==
    ASSUME NEW op \in Ops, NEW live \in BOOLEAN, NEW kind \in Kinds, NEW state \in States,
           answers \subseteq Answers, Answer(live, op, kind, state)
    PROVE  /\ answers' \subseteq Answers
           /\ answers' \subseteq answers \cup {[op |-> op, kind |-> kind, state |-> state]}
BY DEF Answer, Answers

\* The service starts with an empty tracker and no requests.
LEMMA TypeInit == Init => TypeOK
<1> SUFFICES ASSUME Init PROVE TypeOK
  OBVIOUS
<1>1. <<>> \in Seq(Requests) /\ <<>> \in Windows
  BY EmptySeq, TrackerAssumption DEF Windows, TrackerAssumption
<1>2. 0 \in 0..MaxRetries /\ 0 \in 0..MaxAsks /\ 0 \in 0..MaxRestarts
  BY BudgetAssumption DEF BudgetAssumption
<1>3. Idle \in Handlers
  BY NothingTracked DEF Idle, Handlers
<1> QED BY <1>1, <1>2, <1>3, NothingTracked DEF Init, TypeOK

\* What a client sends is a request for its own operation.
LEMMA RequestTyped ==
    ASSUME NEW op \in Ops, NEW kind \in {"mutate", "query"}
    PROVE  Request(op, kind) \in Requests /\ Request(op, kind).op = op
           /\ Request(op, kind).kind = kind
BY DEF Request, Requests, Kinds

\* The steps of a client.
LEMMA ClientTypes ==
    ASSUME TypeOK, NEW op \in Ops,
           Send(op) \/ SendFails(op) \/ Retry(op) \/ Receive(op) \/ GiveUp(op) \/ Ask(op)
    PROVE  TypeOK'
<1> DEFINE Clients == {"idle", "waiting", "recovering", "querying", "done"}
           Reports == {"none", "success", "failure", "unknown"}
<1>0. /\ client \in [Ops -> Clients] /\ told \in [Ops -> Reports]
      /\ inbox \in Seq(Requests)
  BY DEF TypeOK
<1>1. \A kind \in {"mutate", "query"} : Append(inbox, Request(op, kind)) \in Seq(Requests)
  BY <1>0, RequestTyped, Appended
<1>2. CASE Send(op)
  <2>1. client' \in [Ops -> Clients] /\ inbox' \in Seq(Requests)
    BY <1>0, <1>1, <1>2 DEF Send
  <2> QED BY <1>2, <2>1
       DEF Send, TypeOK, serviceVars, fileVars, history
<1>3. CASE SendFails(op)
  <2>1. client' \in [Ops -> Clients] /\ told' \in [Ops -> Reports]
    BY <1>0, <1>3 DEF SendFails
  <2> QED BY <1>3, <2>1
       DEF SendFails, TypeOK, wireVars, serviceVars, fileVars, history
<1>4. CASE Retry(op)
  <2>1. client' \in [Ops -> Clients] /\ inbox' \in Seq(Requests)
    BY <1>0, <1>1, <1>4 DEF Retry
  <2>2. retries' \in [Ops -> 0..MaxRetries]
    <3>1. retries \in [Ops -> 0..MaxRetries] /\ retries[op] < MaxRetries
      BY <1>4 DEF Retry, TypeOK
    <3>2. retries[op] + 1 \in 0..MaxRetries
      BY <3>1, BudgetAssumption DEF BudgetAssumption
    <3> QED BY <1>4, <3>1, <3>2 DEF Retry
  <2> QED BY <1>4, <2>1, <2>2
       DEF Retry, TypeOK, serviceVars, fileVars, history
<1>5. CASE Receive(op)
  <2>1. client' \in [Ops -> Clients]
    BY <1>0, <1>5 DEF Receive
  <2>2. PICK a \in answers : /\ told' = [told EXCEPT ![op] = Outcome(a)]
                             /\ answers' = answers \ {a}
    BY <1>5 DEF Receive
  <2>3. a.state \in States
    BY DEF TypeOK, Answers
  <2>4. Outcome(a) \in Reports
    BY <2>3 DEF Outcome, ReadMutation, ReadQuery, States
  <2>5. told' \in [Ops -> Reports]
    BY <1>0, <2>2, <2>4
  <2>6. answers' \subseteq Answers
    BY <2>2 DEF TypeOK
  <2> QED BY <1>5, <2>1, <2>5, <2>6
       DEF Receive, TypeOK, serviceVars, fileVars, history
<1>6. CASE GiveUp(op)
  <2>1. client' \in [Ops -> Clients] /\ told' \in [Ops -> Reports]
    BY <1>0, <1>6 DEF GiveUp
  <2>2. inbox' \in Seq(Requests)
    BY <1>0, <1>6, Abandoned DEF GiveUp
  <2>3. handler' \in Handlers
    BY <1>6 DEF GiveUp, TypeOK, Handlers
  <2> QED BY <1>6, <2>1, <2>2, <2>3
       DEF GiveUp, TypeOK, fileVars, history
<1>7. CASE Ask(op)
  <2>1. client' \in [Ops -> Clients] /\ told' \in [Ops -> Reports]
    BY <1>0, <1>7 DEF Ask
  <2>2. inbox' \in Seq(Requests)
    BY <1>0, <1>1, <1>7 DEF Ask
  <2>3. asks' \in [Ops -> 0..MaxAsks]
    <3>1. CASE up /\ asks[op] < MaxAsks
      <4>1. asks[op] + 1 \in 0..MaxAsks
        BY <3>1, BudgetAssumption DEF TypeOK, BudgetAssumption
      <4> QED BY <1>7, <3>1, <4>1 DEF Ask, TypeOK
    <3>2. CASE ~(up /\ asks[op] < MaxAsks)
      BY <1>7, <3>2 DEF Ask, TypeOK
    <3> QED BY <3>1, <3>2
  <2> QED BY <1>7, <2>1, <2>2, <2>3
       DEF Ask, TypeOK, serviceVars, fileVars, history
<1> QED BY <1>2, <1>3, <1>4, <1>5, <1>6, <1>7

\* The steps of the dispatcher.
LEMMA DispatchTypes ==
    ASSUME TypeOK, NewestAreRecorded, NEW i \in DOMAIN inbox,
           Refuse(i) \/ BeginOperation(i) \/ AnswerQuery(i)
    PROVE  TypeOK'
<1> DEFINE op == inbox[i].op
           live == inbox[i].live
           kind == inbox[i].kind
<1>0. /\ op \in Ops /\ live \in BOOLEAN /\ kind \in Kinds
      /\ RemoveAt(inbox, i) \in Seq(Requests)
      /\ answers \subseteq Answers
      /\ tracker \in Trackers /\ window \in Windows
  BY Waiting DEF TypeOK
<1>1. Lookup(tracker, op) \in States
  BY <1>0, LookedUp DEF States
<1> HIDE DEF op, live, kind
<1>2. CASE Refuse(i)
  <2>1. inbox' = RemoveAt(inbox, i) /\ Answer(live, op, kind, "none")
    BY <1>2 DEF Refuse, op, live, kind
  <2>2. answers' \subseteq Answers
    BY <1>0, <2>1, Put DEF States
  <2> QED BY <1>0, <1>2, <2>1, <2>2
       DEF Refuse, TypeOK, clientVars, serviceVars, fileVars, history
<1>3. CASE AnswerQuery(i)
  <2>1. inbox' = RemoveAt(inbox, i) /\ Answer(live, op, "query", Lookup(tracker, op))
    BY <1>3 DEF AnswerQuery, op, live
  <2>2. answers' \subseteq Answers
    BY <1>0, <1>1, <2>1, Put DEF Kinds
  <2> QED BY <1>0, <1>3, <2>1, <2>2
       DEF AnswerQuery, TypeOK, clientVars, serviceVars, fileVars, history
<1>4. CASE BeginOperation(i)
  <2>1. CASE Known(op)
    <3>1. /\ inbox' = RemoveAt(inbox, i) /\ Answer(live, op, "mutate", Lookup(tracker, op))
          /\ UNCHANGED <<tracker, handler, opFile, window>>
      BY <1>4, <2>1 DEF BeginOperation, op, live
    <3>2. answers' \subseteq Answers
      BY <1>0, <1>1, <3>1, Put DEF Kinds
    <3> QED BY <1>0, <1>4, <3>1, <3>2 DEF BeginOperation, TypeOK, clientVars
  <2>2. CASE ~Known(op)
    <3>1. /\ inbox' = RemoveAt(inbox, i)
          /\ tracker' = BeginRecord(tracker, op)
          /\ handler' = [stage |-> "begun", op |-> op, live |-> live, saved |-> NoRecord]
          /\ opFile' \in Stored(opFile, [op |-> op, state |-> "inProgress"])
          /\ window' = Newest(window, op)
          /\ UNCHANGED answers
      BY <1>4, <2>2 DEF BeginOperation, op, live
    <3>2. tracker' \in Trackers
      BY <1>0, <3>1, Begun
    <3>3. window' \in Windows
      BY <1>0, <2>2, <3>1, BeginAgrees DEF NewestAreRecorded, Known
    <3>4. handler' \in Handlers
      BY <1>0, <3>1, NothingTracked DEF Handlers
    <3>5. opFile' \in Record
      BY <1>0, <3>1, Stores DEF TypeOK, Record, States
    <3> QED BY <1>0, <1>4, <3>1, <3>2, <3>3, <3>4, <3>5
         DEF BeginOperation, TypeOK, clientVars
  <2> QED BY <2>1, <2>2
<1> QED BY <1>2, <1>3, <1>4

\* What a failed transaction puts back.
PutBack == IF handler.saved.state = "inProgress" THEN handler.saved ELSE NoRecord

\* The steps of the mutation that is dispatched.
LEMMA HandlerTypes ==
    ASSUME TypeOK, HandlerHasItsVerdict,
           Abort \/ Prepare \/ Write \/ Commit \/ Complete
    PROVE  TypeOK'
<1> DEFINE op == handler.op
           Found == [Ops -> SUBSET {"committed", "failed"}]
<1>0. /\ handler \in Handlers /\ verdicts \in Found
      /\ opFile \in Record /\ stateFile \in Record /\ tracker \in Trackers
      /\ answers \subseteq Answers
      /\ handler.saved \in Record /\ PutBack \in Record /\ NoRecord \in Record
  BY NothingTracked DEF TypeOK, Handlers, PutBack
<1>1. ASSUME NEW v \in {"committed", "failed"}
      PROVE  [verdicts EXCEPT ![handler.op] = @ \cup {v}] \in Found
  BY <1>0
<1>2. ASSUME NEW st \in {"begun", "prepared", "written", "committed", "failed"}
      PROVE  [handler EXCEPT !.stage = st] \in Handlers
  BY <1>0 DEF Handlers
<1>3. handler.stage # "idle" => op \in Ops
  BY DEF HandlerHasItsVerdict
<1>4. ASSUME NEW st \in States, op \in Ops
      PROVE  [op |-> handler.op, state |-> st] \in Record
  BY <1>4 DEF Record
<1>5. CASE Abort
  <2>1. handler' \in Handlers /\ verdicts' \in Found
    BY <1>1, <1>2, <1>5 DEF Abort
  <2> QED BY <1>5, <2>1 DEF Abort, TypeOK, clientVars, wireVars, fileVars
<1>6. CASE Prepare
  <2>1. stateFile' \in Record
    BY <1>3, <1>4, <1>6 DEF Prepare, States
  <2>2. handler' = [handler EXCEPT !.stage = "prepared", !.saved = stateFile]
    BY <1>6 DEF Prepare
  <2>3. handler' \in Handlers
    BY <1>0, <2>2 DEF Handlers
  <2> QED BY <1>6, <2>1, <2>3
       DEF Prepare, TypeOK, clientVars, wireVars, history
<1>7. CASE Write
  <2>1. handler' \in Handlers
    BY <1>2, <1>7 DEF Write
  <2>2. verdicts' \in Found
    BY <1>0, <1>1, <1>7 DEF Write
  <2>3. stateFile' = stateFile \/ stateFile' \in Stored(stateFile, PutBack)
    BY <1>7 DEF Write, PutBack
  <2>4. stateFile' \in Record
    BY <1>0, <2>3, Stores
  <2> QED BY <1>7, <2>1, <2>2, <2>4 DEF Write, TypeOK, clientVars, wireVars
<1>8. CASE Commit
  <2>1. handler' \in Handlers /\ verdicts' \in Found
    BY <1>1, <1>2, <1>8 DEF Commit
  <2>2. \/ stateFile' = NoRecord
        \/ stateFile' = [op |-> handler.op, state |-> "succeeded"]
        \/ stateFile' \in Stored(stateFile, PutBack)
    BY <1>8 DEF Commit, PutBack
  <2>3. [op |-> handler.op, state |-> "succeeded"] \in Record
    BY <1>3, <1>4, <1>8 DEF Commit, States
  <2>4. stateFile' \in Record
    BY <1>0, <2>2, <2>3, Stores
  <2> QED BY <1>8, <2>1, <2>4 DEF Commit, TypeOK, clientVars, wireVars
<1>9. CASE Complete
  <2> DEFINE st == IF handler.stage = "committed" THEN "succeeded" ELSE "failed"
  <2>1. st \in States
    BY DEF States
  <2>2. /\ handler.stage # "idle"
        /\ tracker' = CompleteRecord(tracker, handler.op, st)
        /\ opFile' \in Stored(opFile, [op |-> handler.op, state |-> st])
        /\ Answer(handler.live, handler.op, "mutate", st)
        /\ handler' = Idle
    BY <1>9 DEF Complete
  <2> HIDE DEF st
  <2>3. op \in Ops /\ handler.live \in BOOLEAN
    BY <1>0, <1>3, <2>2 DEF Handlers
  <2>4. tracker' \in Trackers
    BY <1>0, <2>1, <2>2, <2>3, StateSet DEF CompleteRecord
  <2>5. opFile' \in Record
    BY <1>0, <1>4, <2>1, <2>2, <2>3, Stores
  <2>6. answers' \subseteq Answers
    BY <1>0, <2>1, <2>2, <2>3, Put DEF Kinds
  <2>7. handler' \in Handlers
    BY <2>2, NothingTracked DEF Idle, Handlers
  <2> QED BY <1>9, <2>4, <2>5, <2>6, <2>7
       DEF Complete, TypeOK, clientVars, history
<1> QED BY <1>5, <1>6, <1>7, <1>8, <1>9

\* Loading a record keeps the tracker and the history together.
LEMMA LoadAgrees ==
    ASSUME NEW rec \in Record, NEW t \in Trackers, NEW seq \in Windows, Agree(t, seq),
           rec.op \in Ops /\ Tracked(t, rec.op) => \E i \in DOMAIN seq : seq[i] = rec.op
    PROVE  /\ Agree(LoadFrom(t, rec), Newest(seq, rec.op))
           /\ Newest(seq, rec.op) \in Windows
<1>1. CASE rec.op = NoOp
  BY <1>1 DEF LoadFrom, Newest
<1>2. CASE rec.op # NoOp
  <2>1. rec.op \in Ops /\ RestoredState(rec) \in States
    BY <1>2 DEF Record, RestoredState, States
  <2> DEFINE b    == BeginRecord(t, rec.op)
             last == LoadFrom(t, rec)
             new  == Newest(seq, rec.op)
  <2>2. b \in Trackers /\ Agree(b, new) /\ new \in Windows
    <3>1. CASE Tracked(t, rec.op)
      <4>1. b = t
        BY <3>1 DEF BeginRecord
      <4>2. new = seq
        BY <2>1, <3>1 DEF Newest
      <4> QED BY <4>1, <4>2
    <3>2. CASE ~Tracked(t, rec.op)
      BY <2>1, <3>2, Begun, BeginAgrees
    <3> QED BY <3>1, <3>2
  <2> HIDE DEF b, new
  <2>3. last = SetState(b, rec.op, States, RestoredState(rec))
    BY <1>2 DEF LoadFrom, RestoreRecord, b
  <2>4. /\ last.nextRecord = b.nextRecord
        /\ \A i \in 1..Capacity : last.records[i].op = b.records[i].op
    BY <2>1, <2>2, <2>3, StateSet
  <2> HIDE DEF last
  <2>5. ASSUME NEW age \in 1..Len(new)
        PROVE  last.records[Slot(last.nextRecord, age)].op = new[Len(new) + 1 - age]
    <3>1. Len(new) \in Nat /\ Len(new) <= Capacity /\ Capacity \in Nat \ {0}
      BY <2>2, LenProperties, TrackerAssumption DEF Windows, TrackerAssumption
    <3>2. age \in 1..Capacity /\ b.nextRecord \in 1..Capacity
      BY <2>2, <3>1 DEF Trackers
    <3>3. Slot(b.nextRecord, age) \in 1..Capacity
      BY <3>2, SlotMoves
    <3> QED BY <2>2, <2>4, <3>3 DEF Agree
  <2> QED BY <2>2, <2>5 DEF Agree, last, new
<1> QED BY <1>1, <1>2

\* What the operation file puts into an empty tracker is in the history.
LEMMA FirstLoaded ==
    ASSUME NEW rec \in Record, NEW op \in Ops, Tracked(LoadFrom(EmptyTracker, rec), op)
    PROVE  \E i \in DOMAIN Newest(<<>>, rec.op) : Newest(<<>>, rec.op)[i] = op
<1> DEFINE seq == Newest(<<>>, rec.op)
<1>1. PICK k \in 1..Capacity : LoadFrom(EmptyTracker, rec).records[k].op = op
  BY DEF Tracked
<1>2. /\ rec.op \in Ops
      /\ LoadFrom(EmptyTracker, rec).records[k].op = rec.op
  <2> DEFINE last == LoadFrom(EmptyTracker, rec).records[k]
  <2>1. \/ last = EmptyTracker.records[k]
        \/ /\ rec.op \in Ops
           /\ last \in {[op |-> rec.op, state |-> "inProgress"],
                        [op |-> rec.op, state |-> RestoredState(rec)]}
    BY NothingTracked, Loaded
  <2>2. EmptyTracker.records[k].op \notin Ops
    BY NothingTracked
  <2>3. last.op = op
    BY <1>1
  <2> HIDE DEF last
  <2>4. rec.op \in Ops /\ last.op = rec.op
    BY <2>1, <2>2, <2>3
  <2> QED BY <2>4 DEF last
<1>3. <<>> \in Windows /\ Len(<<>>) = 0
  BY EmptySeq, TrackerAssumption DEF Windows, TrackerAssumption
<1>4. /\ Len(seq) \in Nat \ {0}
      /\ seq[Len(seq)] = rec.op
      /\ seq \in Windows
  BY <1>2, <1>3, NewestIs
<1> HIDE DEF seq
<1>5. DOMAIN seq = 1..Len(seq)
  BY <1>4, LenProperties DEF Windows
<1>6. \E i \in DOMAIN seq : seq[i] = op
  BY <1>1, <1>2, <1>4, <1>5
<1> QED BY <1>6 DEF seq

\* The tracker and the history of the next process.
LEMMA RestartAgrees ==
    ASSUME TypeOK, Restart
    PROVE  NewestAreRecorded' /\ tracker' \in Trackers /\ window' \in Windows
<1>0. PICK readable \in BOOLEAN :
        LET fromOpFile == IF readable THEN LoadFrom(EmptyTracker, opFile) ELSE EmptyTracker
            loaded     == IF readable THEN Newest(<<>>, opFile.op) ELSE <<>>
        IN /\ tracker' = IF platform = "linux" THEN LoadFrom(fromOpFile, stateFile)
                         ELSE fromOpFile
           /\ window' = IF platform = "linux" THEN Newest(loaded, stateFile.op) ELSE loaded
  BY DEF Restart
<1> DEFINE t   == IF readable THEN LoadFrom(EmptyTracker, opFile) ELSE EmptyTracker
           seq == IF readable THEN Newest(<<>>, opFile.op) ELSE <<>>
<1>1. opFile \in Record /\ stateFile \in Record
  BY DEF TypeOK
<1>2. /\ <<>> \in Windows /\ EmptyTracker \in Trackers /\ Agree(EmptyTracker, <<>>)
      /\ \A op \in Ops : ~Tracked(EmptyTracker, op)
  <2>1. <<>> \in Windows /\ Len(<<>>) = 0
    BY EmptySeq, TrackerAssumption DEF Windows, TrackerAssumption
  <2>2. Agree(EmptyTracker, <<>>)
    BY <2>1 DEF Agree
  <2> QED BY <2>1, <2>2, NothingTracked DEF Tracked
<1>3. /\ t \in Trackers /\ seq \in Windows /\ Agree(t, seq)
      /\ \A op \in Ops : Tracked(t, op) => \E i \in DOMAIN seq : seq[i] = op
  <2>1. CASE readable
    <3>1. t = LoadFrom(EmptyTracker, opFile) /\ seq = Newest(<<>>, opFile.op)
      BY <2>1
    <3> HIDE DEF t, seq
    <3>2. t \in Trackers
      BY <1>1, <1>2, <3>1, Loaded
    <3>3. Agree(t, seq) /\ seq \in Windows
      BY <1>1, <1>2, <3>1, LoadAgrees
    <3>4. \A op \in Ops : Tracked(t, op) => \E i \in DOMAIN seq : seq[i] = op
      BY <1>1, <3>1, FirstLoaded
    <3> QED BY <3>2, <3>3, <3>4
  <2>2. CASE ~readable
    BY <1>2, <2>2
  <2> QED BY <2>1, <2>2
<1>4. /\ tracker' = IF platform = "linux" THEN LoadFrom(t, stateFile) ELSE t
      /\ window' = IF platform = "linux" THEN Newest(seq, stateFile.op) ELSE seq
  BY <1>0
<1> HIDE DEF t, seq
<1>5. Agree(LoadFrom(t, stateFile), Newest(seq, stateFile.op))
      /\ Newest(seq, stateFile.op) \in Windows /\ LoadFrom(t, stateFile) \in Trackers
  BY <1>1, <1>3, LoadAgrees, Loaded
<1>6. Agree(tracker', window') /\ tracker' \in Trackers /\ window' \in Windows
  BY <1>3, <1>4, <1>5
<1> QED BY <1>6 DEF NewestAreRecorded

\* The death of the process and the next one.
LEMMA ProcessTypes ==
    ASSUME TypeOK, Die \/ Restart
    PROVE  TypeOK'
<1>1. CASE Die
  <2>1. <<>> \in Seq(Requests) /\ <<>> \in Windows
    BY EmptySeq, TrackerAssumption DEF Windows, TrackerAssumption
  <2>2. restarts' \in 0..MaxRestarts
    BY <1>1, BudgetAssumption DEF Die, TypeOK, BudgetAssumption
  <2>3. Idle \in Handlers /\ EmptyTracker \in Trackers
    BY NothingTracked DEF Idle, Handlers
  <2> QED BY <1>1, <2>1, <2>2, <2>3 DEF Die, TypeOK, clientVars, fileVars
<1>2. CASE Restart
  <2>1. tracker' \in Trackers /\ window' \in Windows
    BY <1>2, RestartAgrees
  <2>2. /\ up' = TRUE
        /\ UNCHANGED <<platform, clientVars, wireVars, restarts, handler, fileVars, verdicts>>
    BY <1>2 DEF Restart
  <2> QED BY <2>1, <2>2 DEF TypeOK, clientVars, wireVars, fileVars
<1> QED BY <1>1, <1>2

---------------------------------------------------------------------------
(* The ring step by step.                                                  *)

\* Beginning an operation fills the slot that was least recently begun, every other
\* step leaves the ring's order alone (service_operation_begin).
LEMMA RingStep ==
    ASSUME TypeOK, HandlerHasItsVerdict, NewestAreRecorded, [Next]_vars
    PROVE  NewestAreRecorded'
<1>0. tracker \in Trackers /\ window \in Windows
  BY DEF TypeOK
<1>1. ASSUME UNCHANGED <<tracker, window>> PROVE NewestAreRecorded'
  BY <1>1 DEF NewestAreRecorded
<1>2. CASE UNCHANGED vars
  BY <1>1, <1>2 DEF vars, serviceVars, history
<1>3. ASSUME NEW op \in Ops,
             Send(op) \/ SendFails(op) \/ Retry(op) \/ Receive(op) \/ GiveUp(op) \/ Ask(op)
      PROVE  NewestAreRecorded'
  <2>1. UNCHANGED <<tracker, window>>
    BY <1>3 DEF Send, SendFails, Retry, Receive, GiveUp, Ask, serviceVars, history
  <2> QED BY <1>1, <2>1
<1>4. ASSUME NEW i \in DOMAIN inbox, Refuse(i) \/ AnswerQuery(i)
      PROVE  NewestAreRecorded'
  <2>1. UNCHANGED <<tracker, window>>
    BY <1>4 DEF Refuse, AnswerQuery, serviceVars, history
  <2> QED BY <1>1, <2>1
<1>5. ASSUME NEW i \in DOMAIN inbox, BeginOperation(i)
      PROVE  NewestAreRecorded'
  <2>1. PICK op \in Ops : op = inbox[i].op
    BY Waiting
  <2>2. CASE Tracked(tracker, op)
    <3>1. UNCHANGED <<tracker, window>>
      BY <1>5, <2>1, <2>2 DEF BeginOperation, Known
    <3> QED BY <1>1, <3>1
  <2>3. CASE ~Tracked(tracker, op)
    <3>1. tracker' = BeginRecord(tracker, op) /\ window' = Newest(window, op)
      BY <1>5, <2>1, <2>3 DEF BeginOperation, Known
    <3>2. Agree(BeginRecord(tracker, op), Newest(window, op))
      BY <1>0, <2>3, BeginAgrees DEF NewestAreRecorded
    <3> QED BY <3>1, <3>2 DEF NewestAreRecorded
  <2> QED BY <2>2, <2>3
<1>6. CASE Abort \/ Prepare \/ Write \/ Commit
  <2>1. UNCHANGED <<tracker, window>>
    BY <1>6 DEF Abort, Prepare, Write, Commit, history
  <2> QED BY <1>1, <2>1
<1>7. CASE Complete
  <2>1. PICK op \in Ops : op = handler.op
    BY <1>7 DEF Complete, HandlerHasItsVerdict
  <2>2. PICK state \in States : tracker' = SetState(tracker, op, {"inProgress"}, state)
    BY <1>7, <2>1 DEF Complete, CompleteRecord, States
  <2>3. window' = window
    BY <1>7 DEF Complete, history
  <2>4. /\ tracker'.nextRecord = tracker.nextRecord
        /\ \A i \in 1..Capacity : tracker'.records[i].op = tracker.records[i].op
    BY <1>0, <2>2, StateSet
  <2>5. ASSUME NEW age \in 1..Len(window)
        PROVE  tracker'.records[Slot(tracker'.nextRecord, age)].op = window[Len(window) + 1 - age]
    <3>1. Len(window) \in Nat /\ Len(window) <= Capacity /\ Capacity \in Nat \ {0}
      BY <1>0, LenProperties, TrackerAssumption DEF Windows, TrackerAssumption
    <3>2. age \in 1..Capacity /\ tracker.nextRecord \in 1..Capacity
      BY <1>0, <3>1 DEF Trackers
    <3>3. Slot(tracker.nextRecord, age) \in 1..Capacity
      BY <3>2, SlotMoves
    <3> QED BY <2>4, <3>3 DEF NewestAreRecorded, Agree
  <2>6. Agree(tracker', window)
    BY <2>5 DEF Agree
  <2> QED BY <2>3, <2>6 DEF NewestAreRecorded
<1>8. CASE Die
  <2>1. window' = <<>>
    BY <1>8 DEF Die
  <2>2. Len(<<>>) = 0
    BY EmptySeq
  <2> QED BY <2>1, <2>2 DEF NewestAreRecorded, Agree
<1>9. CASE Restart
  BY <1>9, RestartAgrees
<1> QED BY <1>2, <1>3, <1>4, <1>5, <1>6, <1>7, <1>8, <1>9 DEF Next

---------------------------------------------------------------------------
(* Verdicts, and what claims to know them.                                 *)

Grows == \A op \in Ops : verdicts[op] \subseteq verdicts'[op]

\* A verdict once reached is never taken back, not even by a restart.
LEMMA VerdictsGrow ==
    ASSUME TypeOK, HandlerHasItsVerdict, [Next]_vars
    PROVE  Grows
<1>0. verdicts \in [Ops -> SUBSET {"committed", "failed"}]
  BY DEF TypeOK
<1>1. ASSUME verdicts' = verdicts PROVE Grows
  BY <1>1 DEF Grows
<1>2. ASSUME NEW v, verdicts' = [verdicts EXCEPT ![handler.op] = @ \cup {v}] PROVE Grows
  BY <1>0, <1>2 DEF Grows
<1>3. CASE UNCHANGED vars
  BY <1>1, <1>3 DEF vars, history
<1>4. ASSUME NEW op \in Ops,
             Send(op) \/ SendFails(op) \/ Retry(op) \/ Receive(op) \/ GiveUp(op) \/ Ask(op)
      PROVE  Grows
  <2>1. verdicts' = verdicts
    BY <1>4 DEF Send, SendFails, Retry, Receive, GiveUp, Ask, history
  <2> QED BY <1>1, <2>1
<1>5. ASSUME NEW i \in DOMAIN inbox, Refuse(i) \/ BeginOperation(i) \/ AnswerQuery(i)
      PROVE  Grows
  <2>1. verdicts' = verdicts
    BY <1>5 DEF Refuse, BeginOperation, AnswerQuery, history
  <2> QED BY <1>1, <2>1
<1>6. CASE Abort
  BY <1>2, <1>6 DEF Abort
<1>7. CASE Prepare \/ Complete \/ Die \/ Restart
  <2>1. verdicts' = verdicts
    BY <1>7 DEF Prepare, Complete, Die, Restart, history
  <2> QED BY <1>1, <2>1
<1>8. CASE Write
  <2>1. \/ verdicts' = verdicts
        \/ verdicts' = [verdicts EXCEPT ![handler.op] = @ \cup {"committed"}]
        \/ verdicts' = [verdicts EXCEPT ![handler.op] = @ \cup {"failed"}]
    <3>1. CASE platform = "linux"
      <4>1. ASSUME verdicts' = [verdicts EXCEPT ![handler.op] = @] PROVE verdicts' = verdicts
        BY <1>0, <4>1
      <4> QED BY <1>8, <3>1, <4>1 DEF Write
    <3>2. CASE platform # "linux"
      BY <1>8, <3>2 DEF Write
    <3> QED BY <3>1, <3>2
  <2> QED BY <1>1, <1>2, <2>1
<1>9. CASE Commit
  BY <1>2, <1>9 DEF Commit
<1> QED BY <1>3, <1>4, <1>5, <1>6, <1>7, <1>8, <1>9 DEF Next

\* What agrees with the verdicts reached goes on agreeing when there are more of them.
LEMMA StillSincere ==
    ASSUME Grows, NEW rec
    PROVE  /\ Sincere(rec, verdicts) => Sincere(rec, verdicts')
           /\ Kept(rec, verdicts) => Kept(rec, verdicts')
BY DEF Grows, Sincere, Kept

\* A state that claims no outcome agrees with any verdicts.
LEMMA PlainRecords ==
    ASSUME NEW op, NEW reached
    PROVE  /\ Kept([op |-> op, state |-> "inProgress"], reached)
           /\ Kept([op |-> op, state |-> "unknown"], reached)
           /\ Kept(NoRecord, reached)
           /\ Sincere([op |-> op, state |-> "none"], reached)
           /\ Sincere([op |-> op, state |-> "unknown"], reached)
<1>1. /\ Kept([op |-> op, state |-> "inProgress"], reached)
      /\ Kept([op |-> op, state |-> "unknown"], reached)
      /\ Sincere([op |-> op, state |-> "none"], reached)
      /\ Sincere([op |-> op, state |-> "unknown"], reached)
  BY DEF Kept, Sincere
<1>2. Kept(NoRecord, reached)
  BY NothingTracked DEF Kept, Sincere
<1> QED BY <1>1, <1>2

\* A tracker that was loaded from sincere records is sincere.
LEMMA LoadedIsSincere ==
    ASSUME NEW t \in Trackers, NEW rec \in Record, NEW reached,
           \A i \in 1..Capacity : Kept(t.records[i], reached), Kept(rec, reached)
    PROVE  \A i \in 1..Capacity : Kept(LoadFrom(t, rec).records[i], reached)
<1>1. Kept([op |-> rec.op, state |-> "inProgress"], reached)
  BY PlainRecords
<1>2. Kept([op |-> rec.op, state |-> RestoredState(rec)], reached)
  BY DEF Kept, Sincere, RestoredState
<1>3. ASSUME NEW i \in 1..Capacity
      PROVE  Kept(LoadFrom(t, rec).records[i], reached)
  <2>1. \/ LoadFrom(t, rec).records[i] = t.records[i]
        \/ LoadFrom(t, rec).records[i] = [op |-> rec.op, state |-> "inProgress"]
        \/ LoadFrom(t, rec).records[i] = [op |-> rec.op, state |-> RestoredState(rec)]
    BY Loaded
  <2> QED BY <1>1, <1>2, <2>1
<1> QED BY <1>3

\* An answer claims what its state claims, whichever request it answers.
LEMMA AnswerClaims ==
    ASSUME NEW op, NEW kind, NEW state, NEW reached,
           Sincere([op |-> op, state |-> state], reached)
    PROVE  Sincere([op |-> op, kind |-> kind, state |-> state], reached)
BY DEF Sincere

\* An answer from the tracker is sincere, and no refusal.
LEMMA LookupIsSincere ==
    ASSUME TypeOK, RecordsAreSincere, NEW op \in Ops
    PROVE  /\ Sincere([op |-> op, state |-> Lookup(tracker, op)], verdicts)
           /\ Lookup(tracker, op) \in States \ {"none"}
<1>1. CASE Lookup(tracker, op) = "unknown"
  BY <1>1, PlainRecords DEF States
<1>2. CASE Lookup(tracker, op) # "unknown"
  <2>1. PICK i \in 1..Capacity : /\ tracker.records[i].op = op
                                 /\ Lookup(tracker, op) = tracker.records[i].state
                                 /\ Lookup(tracker, op) \in States
    BY <1>2, LookedUp DEF TypeOK
  <2>2. Kept(tracker.records[i], verdicts)
    BY DEF RecordsAreSincere
  <2> QED BY <2>1, <2>2 DEF Kept, Sincere
<1> QED BY <1>1, <1>2

\* The tracker's and the file's records claim an outcome only after the handler
\* reached it (service_operation_complete, the load at a restart).
LEMMA RecordsStep ==
    ASSUME TypeOK, RecordsAreSincere, HandlerHasItsVerdict, [Next]_vars
    PROVE  RecordsAreSincere'
<1>0. /\ Grows /\ tracker \in Trackers /\ handler \in Handlers
      /\ opFile \in Record /\ stateFile \in Record
  BY VerdictsGrow DEF TypeOK
<1>a. /\ \A i \in 1..Capacity : Kept(tracker.records[i], verdicts')
      /\ Kept(opFile, verdicts') /\ Kept(stateFile, verdicts')
      /\ Kept(handler.saved, verdicts')
  BY <1>0, StillSincere DEF RecordsAreSincere
<1>b. /\ Kept(NoRecord, verdicts')
      /\ \A op : Kept([op |-> op, state |-> "inProgress"], verdicts')
  BY PlainRecords
<1>1. ASSUME UNCHANGED <<tracker, opFile, stateFile>>, handler'.saved = handler.saved
      PROVE  RecordsAreSincere'
  BY <1>1, <1>a DEF RecordsAreSincere
<1>2. CASE UNCHANGED vars
  BY <1>1, <1>2 DEF vars, serviceVars, fileVars
<1>3. ASSUME NEW op \in Ops,
             Send(op) \/ SendFails(op) \/ Retry(op) \/ Receive(op) \/ Ask(op)
      PROVE  RecordsAreSincere'
  <2>1. UNCHANGED <<tracker, opFile, stateFile, handler>>
    BY <1>3 DEF Send, SendFails, Retry, Receive, Ask, serviceVars, fileVars
  <2> QED BY <1>1, <2>1
<1>4. ASSUME NEW op \in Ops, GiveUp(op)
      PROVE  RecordsAreSincere'
  <2>1. UNCHANGED <<tracker, opFile, stateFile>>
    BY <1>4 DEF GiveUp, fileVars
  <2>2. handler'.saved = handler.saved
    BY <1>0, <1>4 DEF GiveUp, Handlers
  <2> QED BY <1>1, <2>1, <2>2
<1>5. ASSUME NEW i \in DOMAIN inbox, Refuse(i) \/ AnswerQuery(i)
      PROVE  RecordsAreSincere'
  <2>1. UNCHANGED <<tracker, opFile, stateFile, handler>>
    BY <1>5 DEF Refuse, AnswerQuery, serviceVars, fileVars
  <2> QED BY <1>1, <2>1
<1>6. ASSUME NEW i \in DOMAIN inbox, BeginOperation(i)
      PROVE  RecordsAreSincere'
  <2>1. PICK op \in Ops : op = inbox[i].op
    BY Waiting
  <2>2. CASE Known(op)
    <3>1. UNCHANGED <<tracker, opFile, stateFile, handler>>
      BY <1>6, <2>1, <2>2 DEF BeginOperation
    <3> QED BY <1>1, <3>1
  <2>3. CASE ~Known(op)
    <3>1. /\ tracker' = BeginRecord(tracker, op)
          /\ handler'.saved = NoRecord
          /\ opFile' \in Stored(opFile, [op |-> op, state |-> "inProgress"])
          /\ stateFile' = stateFile
      BY <1>6, <2>1, <2>3 DEF BeginOperation
    <3>2. opFile' \in {opFile, [op |-> op, state |-> "inProgress"]}
      BY <3>1 DEF Stored
    <3>3. \A k \in 1..Capacity :
             tracker'.records[k] \in {tracker.records[k], [op |-> op, state |-> "inProgress"]}
      BY <1>0, <3>1, Begun
    <3> QED BY <1>a, <1>b, <3>1, <3>2, <3>3 DEF RecordsAreSincere
  <2> QED BY <2>2, <2>3
<1>7. CASE Abort
  <2>1. UNCHANGED <<tracker, opFile, stateFile>>
    BY <1>7 DEF Abort, fileVars
  <2>2. handler'.saved = handler.saved
    BY <1>0, <1>7 DEF Abort, Handlers
  <2> QED BY <1>1, <2>1, <2>2
<1>8. CASE Prepare
  <2>1. /\ UNCHANGED <<tracker, opFile>>
        /\ stateFile' = [op |-> handler.op, state |-> "inProgress"]
        /\ handler' = [handler EXCEPT !.stage = "prepared", !.saved = stateFile]
    BY <1>8 DEF Prepare
  <2>2. handler'.saved = stateFile
    BY <1>0, <2>1 DEF Handlers
  <2> QED BY <1>a, <1>b, <2>1, <2>2 DEF RecordsAreSincere
<1>9. ASSUME Write \/ Commit
      PROVE  RecordsAreSincere'
  <2>1. UNCHANGED <<tracker, opFile>>
    BY <1>9 DEF Write, Commit
  <2>2. handler'.saved = handler.saved
    BY <1>0, <1>9 DEF Write, Commit, Handlers
  <2>3. \/ stateFile' \in {stateFile, NoRecord, handler.saved}
        \/ /\ stateFile' = [op |-> handler.op, state |-> "succeeded"]
           /\ handler.stage = "written"
           /\ verdicts' = [verdicts EXCEPT ![handler.op] = @ \cup {"committed"}]
    BY <1>9 DEF Write, Commit, Stored
  <2>4. CASE stateFile' \in {stateFile, NoRecord, handler.saved}
    BY <1>a, <1>b, <2>1, <2>2, <2>4 DEF RecordsAreSincere
  <2>5. CASE /\ stateFile' = [op |-> handler.op, state |-> "succeeded"]
             /\ handler.stage = "written"
             /\ verdicts' = [verdicts EXCEPT ![handler.op] = @ \cup {"committed"}]
    <3>1. handler.op \in Ops /\ "committed" \in verdicts'[handler.op]
      BY <2>5 DEF HandlerHasItsVerdict, TypeOK
    <3>2. Kept(stateFile', verdicts')
      BY <2>5, <3>1 DEF Kept, Sincere
    <3> QED BY <1>a, <2>1, <2>2, <3>2 DEF RecordsAreSincere
  <2> QED BY <2>3, <2>4, <2>5
<1>10. CASE Complete
  <2> DEFINE st == IF handler.stage = "committed" THEN "succeeded" ELSE "failed"
             rec == [op |-> handler.op, state |-> st]
  <2>1. /\ handler.stage \in {"committed", "failed"}
        /\ tracker' = SetState(tracker, handler.op, {"inProgress"}, st)
        /\ opFile' \in Stored(opFile, rec)
        /\ handler' = Idle
        /\ UNCHANGED <<stateFile, verdicts>>
    BY <1>10 DEF Complete, CompleteRecord, history
  <2>2. handler.op \in Ops /\ st \in States
    BY <2>1 DEF HandlerHasItsVerdict, States
  <2>3. Kept(rec, verdicts')
    BY <2>1 DEF Kept, Sincere, HandlerHasItsVerdict
  <2> HIDE DEF st
  <2>4. \A i \in 1..Capacity : tracker'.records[i] \in {tracker.records[i], rec}
    BY <1>0, <2>1, <2>2, StateSet
  <2> HIDE DEF rec
  <2>5. opFile' \in {opFile, rec}
    BY <2>1 DEF Stored
  <2>6. handler'.saved = NoRecord
    BY <2>1 DEF Idle
  <2> QED BY <1>a, <1>b, <2>1, <2>3, <2>4, <2>5, <2>6 DEF RecordsAreSincere
<1>11. CASE Die
  <2>1. /\ tracker' = EmptyTracker /\ handler' = Idle
        /\ UNCHANGED <<opFile, stateFile>>
    BY <1>11 DEF Die, fileVars
  <2>2. handler'.saved = NoRecord
    BY <2>1 DEF Idle
  <2> QED BY <1>a, <1>b, <2>1, <2>2, NothingTracked DEF RecordsAreSincere
<1>12. CASE Restart
  <2>1. UNCHANGED <<handler, opFile, stateFile>>
    BY <1>12 DEF Restart, fileVars
  <2>2. PICK t \in {EmptyTracker, LoadFrom(EmptyTracker, opFile)} :
           tracker' \in {t, LoadFrom(t, stateFile)}
    <3>1. PICK readable \in BOOLEAN :
            LET fromOpFile == IF readable THEN LoadFrom(EmptyTracker, opFile) ELSE EmptyTracker
            IN tracker' = IF platform = "linux" THEN LoadFrom(fromOpFile, stateFile)
                          ELSE fromOpFile
      BY <1>12 DEF Restart
    <3>2. CASE readable
      BY <3>1, <3>2
    <3>3. CASE ~readable
      BY <3>1, <3>3
    <3> QED BY <3>2, <3>3
  <2>3. \A i \in 1..Capacity : Kept(EmptyTracker.records[i], verdicts')
    BY <1>b, NothingTracked
  <2>4. t \in Trackers /\ \A i \in 1..Capacity : Kept(t.records[i], verdicts')
    <3>1. PICK empty \in Trackers : empty = EmptyTracker
      BY NothingTracked
    <3>2. CASE t = EmptyTracker
      BY <2>3, <3>1, <3>2
    <3>3. CASE t = LoadFrom(EmptyTracker, opFile)
      <4>1. LoadFrom(empty, opFile) \in Trackers
        BY <1>0, Loaded
      <4>2. \A i \in 1..Capacity : Kept(LoadFrom(empty, opFile).records[i], verdicts')
        BY <1>0, <1>a, <2>3, <3>1, LoadedIsSincere
      <4> QED BY <3>1, <3>3, <4>1, <4>2
    <3> QED BY <3>2, <3>3
  <2>5. \A i \in 1..Capacity : Kept(LoadFrom(t, stateFile).records[i], verdicts')
    BY <1>0, <1>a, <2>4, LoadedIsSincere
  <2>6. \A i \in 1..Capacity : Kept(tracker'.records[i], verdicts')
    BY <2>2, <2>4, <2>5
  <2> QED BY <1>a, <2>1, <2>6 DEF RecordsAreSincere
<1> QED BY <1>2, <1>3, <1>4, <1>5, <1>6, <1>7, <1>8, <1>9, <1>10, <1>11, <1>12 DEF Next

\* Every step's answers: those before, and at most one more that is sincere.
\* A refusal is added only by Refuse.
LEMMA AnswersStep ==
    ASSUME TypeOK, RecordsAreSincere, AnswersAreSincere, HandlerHasItsVerdict, [Next]_vars
    PROVE  AnswersAreSincere'
<1>0. /\ Grows /\ answers \subseteq Answers /\ handler \in Handlers
  BY VerdictsGrow DEF TypeOK
<1>1. ASSUME answers' \subseteq answers
      PROVE  AnswersAreSincere'
  BY <1>0, <1>1, StillSincere DEF AnswersAreSincere
<1>2. ASSUME NEW a, Sincere(a, verdicts), answers' \subseteq answers \cup {a}
      PROVE  AnswersAreSincere'
  BY <1>0, <1>2, StillSincere DEF AnswersAreSincere
<1>3. CASE UNCHANGED vars
  BY <1>1, <1>3 DEF vars, wireVars
<1>4. ASSUME NEW op \in Ops,
             Send(op) \/ SendFails(op) \/ Retry(op) \/ Receive(op) \/ GiveUp(op) \/ Ask(op)
      PROVE  AnswersAreSincere'
  <2>1. answers' \subseteq answers
    BY <1>4 DEF Send, SendFails, Retry, Receive, GiveUp, Ask, wireVars
  <2> QED BY <1>1, <2>1
<1>5. ASSUME NEW i \in DOMAIN inbox, Refuse(i)
      PROVE  AnswersAreSincere'
  <2>1. PICK op \in Ops, live \in BOOLEAN, kind \in Kinds : Answer(live, op, kind, "none")
    BY <1>5, Waiting DEF Refuse
  <2>2. answers' \subseteq answers \cup {[op |-> op, kind |-> kind, state |-> "none"]}
    BY <2>1 DEF Answer
  <2> QED BY <1>2, <2>2, PlainRecords, AnswerClaims
<1>6. ASSUME NEW i \in DOMAIN inbox, AnswerQuery(i) \/ BeginOperation(i)
      PROVE  AnswersAreSincere'
  <2>1. PICK op \in Ops, live \in BOOLEAN, kind \in Kinds :
            Answer(live, op, kind, Lookup(tracker, op)) \/ answers' = answers
    BY <1>6, Waiting DEF AnswerQuery, BeginOperation, Kinds
  <2>2. answers' \subseteq answers \cup
           {[op |-> op, kind |-> kind, state |-> Lookup(tracker, op)]}
    BY <2>1 DEF Answer
  <2> QED BY <1>2, <2>2, LookupIsSincere, AnswerClaims
<1>7. CASE Abort \/ Prepare \/ Write \/ Commit \/ Die \/ Restart
  <2>1. answers' \subseteq answers
    BY <1>7 DEF Abort, Prepare, Write, Commit, Die, Restart, wireVars
  <2> QED BY <1>1, <2>1
<1>8. CASE Complete
  <2> DEFINE st == IF handler.stage = "committed" THEN "succeeded" ELSE "failed"
  <2>1. Answer(handler.live, handler.op, "mutate", st) /\ handler.stage \in {"committed", "failed"}
    BY <1>8 DEF Complete
  <2>2. answers' \subseteq answers \cup {[op |-> handler.op, kind |-> "mutate", state |-> st]}
    BY <2>1 DEF Answer
  <2>3. Sincere([op |-> handler.op, kind |-> "mutate", state |-> st], verdicts)
    BY <2>1 DEF Sincere, HandlerHasItsVerdict
  <2> QED BY <1>2, <2>2, <2>3
<1> QED BY <1>3, <1>4, <1>5, <1>6, <1>7, <1>8 DEF Next

\* The handler's verdict is that of its own operation from the commit on.
LEMMA HandlerStep ==
    ASSUME TypeOK, HandlerHasItsVerdict, [Next]_vars
    PROVE  HandlerHasItsVerdict'
<1>0. /\ Grows /\ handler \in Handlers
      /\ verdicts \in [Ops -> SUBSET {"committed", "failed"}]
      /\ NoOp \notin Ops
  BY VerdictsGrow, OperationAssumption DEF TypeOK, OperationAssumption
<1>1. ASSUME handler'.stage = handler.stage, handler'.op = handler.op
      PROVE  HandlerHasItsVerdict'
  BY <1>0, <1>1 DEF HandlerHasItsVerdict, Grows
<1>2. ASSUME handler' = Idle PROVE HandlerHasItsVerdict'
  BY <1>2 DEF HandlerHasItsVerdict, Idle
<1>3. CASE UNCHANGED vars
  BY <1>1, <1>3 DEF vars, serviceVars
<1>4. ASSUME NEW op \in Ops,
             Send(op) \/ SendFails(op) \/ Retry(op) \/ Receive(op) \/ Ask(op)
      PROVE  HandlerHasItsVerdict'
  <2>1. handler' = handler
    BY <1>4 DEF Send, SendFails, Retry, Receive, Ask, serviceVars
  <2> QED BY <1>1, <2>1
<1>5. ASSUME NEW op \in Ops, GiveUp(op)
      PROVE  HandlerHasItsVerdict'
  <2>1. handler'.stage = handler.stage /\ handler'.op = handler.op
    BY <1>0, <1>5 DEF GiveUp, Handlers
  <2> QED BY <1>1, <2>1
<1>6. ASSUME NEW i \in DOMAIN inbox, Refuse(i) \/ AnswerQuery(i)
      PROVE  HandlerHasItsVerdict'
  <2>1. handler' = handler
    BY <1>6 DEF Refuse, AnswerQuery, serviceVars
  <2> QED BY <1>1, <2>1
<1>7. ASSUME NEW i \in DOMAIN inbox, BeginOperation(i)
      PROVE  HandlerHasItsVerdict'
  <2>1. \/ handler' = handler
        \/ handler'.stage = "begun" /\ handler'.op \in Ops
    BY <1>7, Waiting DEF BeginOperation
  <2> QED BY <1>1, <2>1 DEF HandlerHasItsVerdict
<1>8. ASSUME handler.stage # "idle", handler'.op = handler.op,
             \/ handler'.stage \in {"prepared", "written"}
             \/ \E v \in {"committed", "failed"} :
                   /\ handler'.stage = v
                   /\ verdicts' = [verdicts EXCEPT ![handler.op] = @ \cup {v}]
      PROVE  HandlerHasItsVerdict'
  <2>1. handler.op \in Ops
    BY <1>8 DEF HandlerHasItsVerdict
  <2>2. CASE handler'.stage \in {"prepared", "written"}
    BY <1>8, <2>1, <2>2 DEF HandlerHasItsVerdict
  <2>3. ASSUME NEW v \in {"committed", "failed"}, handler'.stage = v,
               verdicts' = [verdicts EXCEPT ![handler.op] = @ \cup {v}]
        PROVE  HandlerHasItsVerdict'
    <3>1. v \in verdicts'[handler.op]
      BY <1>0, <2>1, <2>3
    <3> QED BY <1>8, <2>1, <2>3, <3>1 DEF HandlerHasItsVerdict
  <2> QED BY <1>8, <2>2, <2>3
<1>9. CASE Abort \/ Prepare \/ Write \/ Commit
  <2>1. handler.stage # "idle" /\ handler'.op = handler.op
    BY <1>0, <1>9 DEF Abort, Prepare, Write, Commit, Handlers
  <2>2. \/ handler'.stage \in {"prepared", "written"}
        \/ \E v \in {"committed", "failed"} :
              /\ handler'.stage = v
              /\ verdicts' = [verdicts EXCEPT ![handler.op] = @ \cup {v}]
    <3>1. CASE Abort
      BY <1>0, <3>1 DEF Abort, Handlers
    <3>2. CASE Prepare
      BY <1>0, <3>2 DEF Prepare, Handlers
    <3>3. CASE Write
      BY <1>0, <3>3 DEF Write, Handlers
    <3>4. CASE Commit
      BY <1>0, <3>4 DEF Commit, Handlers
    <3> QED BY <1>9, <3>1, <3>2, <3>3, <3>4
  <2> QED BY <1>8, <2>1, <2>2
<1>10. CASE Complete \/ Die
  BY <1>2, <1>10 DEF Complete, Die
<1>11. CASE Restart
  <2>1. handler' = handler
    BY <1>11 DEF Restart
  <2> QED BY <1>1, <2>1
<1> QED BY <1>3, <1>4, <1>5, <1>6, <1>7, <1>9, <1>10, <1>11 DEF Next

---------------------------------------------------------------------------
(* Requests on their way.                                                  *)

\* Taking one request out; when its operation has only one, it was the last.
LEMMA QueueRemoved ==
    ASSUME NEW seq \in Seq(Requests), NEW i \in DOMAIN seq
    PROVE  /\ \A op : OneOf(seq, op) => OneOf(RemoveAt(seq, i), op)
           /\ \A op : MutatesIn(RemoveAt(seq, i), op) => MutatesIn(seq, op)
           /\ \A op : AbsentFrom(seq, op) => AbsentFrom(RemoveAt(seq, i), op)
           /\ OneOf(seq, seq[i].op) /\ seq[i].kind = "mutate" =>
                 ~MutatesIn(RemoveAt(seq, i), seq[i].op)
<1> DEFINE left == RemoveAt(seq, i)
<1>1. DOMAIN seq = 1..Len(seq) /\ i \in 1..Len(seq) /\ Len(seq) \in Nat
  BY LenProperties
<1>2. /\ left \in Seq(Requests)
      /\ Len(left) = Len(seq) - 1
      /\ \A j \in 1..(Len(seq) - 1) :
            Before(i, j) \in 1..Len(seq) /\ Before(i, j) # i /\ left[j] = seq[Before(i, j)]
  BY <1>1, RemovedAt
<1> HIDE DEF left
<1>3. DOMAIN left = 1..(Len(seq) - 1)
  BY <1>2, LenProperties
<1>4. ASSUME NEW j \in DOMAIN left
      PROVE  /\ Before(i, j) \in DOMAIN seq /\ Before(i, j) # i /\ left[j] = seq[Before(i, j)]
  BY <1>1, <1>2, <1>3
<1>5. ASSUME NEW j \in DOMAIN left, NEW k \in DOMAIN left, Before(i, j) = Before(i, k)
      PROVE  j = k
  <2>1. j \in Nat /\ k \in Nat /\ i \in Nat
    BY <1>1, <1>3
  <2> QED BY <1>5, <2>1 DEF Before
<1>6. ASSUME NEW op, OneOf(seq, op) PROVE OneOf(left, op)
  <2> SUFFICES ASSUME NEW j \in DOMAIN left, NEW k \in DOMAIN left,
                      left[j].op = op, left[j].kind = "mutate",
                      left[k].op = op, left[k].kind = "mutate"
               PROVE  j = k
    BY DEF OneOf
  <2>1. Before(i, j) = Before(i, k)
    BY <1>4, <1>6 DEF OneOf
  <2> QED BY <1>5, <2>1
<1>7. ASSUME NEW op, MutatesIn(left, op) PROVE MutatesIn(seq, op)
  BY <1>4, <1>7 DEF MutatesIn
<1>8. ASSUME NEW op, AbsentFrom(seq, op) PROVE AbsentFrom(left, op)
  BY <1>4, <1>8 DEF AbsentFrom
<1>9. ASSUME OneOf(seq, seq[i].op), seq[i].kind = "mutate", MutatesIn(left, seq[i].op) PROVE FALSE
  <2>1. PICK j \in DOMAIN left : left[j].op = seq[i].op /\ left[j].kind = "mutate"
    BY <1>9 DEF MutatesIn
  <2>2. Before(i, j) = i
    BY <1>4, <1>9, <2>1 DEF OneOf
  <2> QED BY <1>4, <2>2
<1> QED BY <1>6, <1>7, <1>8, <1>9 DEF left

\* A request that is new in the queue adds its own operation only.
LEMMA QueueAppended ==
    ASSUME NEW seq \in Seq(Requests), NEW r \in Requests
    PROVE  /\ \A op : OneOf(seq, op) /\ ~(r.kind = "mutate" /\ r.op = op /\ MutatesIn(seq, op))
                       => OneOf(Append(seq, r), op)
           /\ \A op : MutatesIn(Append(seq, r), op) =>
                         MutatesIn(seq, op) \/ (op = r.op /\ r.kind = "mutate")
           /\ \A op : AbsentFrom(seq, op) /\ op # r.op => AbsentFrom(Append(seq, r), op)
<1> DEFINE all == Append(seq, r)
<1>1. /\ DOMAIN all = 1..(Len(seq) + 1) /\ DOMAIN seq = 1..Len(seq) /\ Len(seq) \in Nat
      /\ \A j \in 1..Len(seq) : all[j] = seq[j]
      /\ all[Len(seq) + 1] = r
  BY Appended, LenProperties
<1> HIDE DEF all
<1>2. ASSUME NEW j \in DOMAIN all
      PROVE  \/ j \in DOMAIN seq /\ all[j] = seq[j]
             \/ j = Len(seq) + 1 /\ all[j] = r
  BY <1>1
<1>3. ASSUME NEW op, OneOf(seq, op), ~(r.kind = "mutate" /\ r.op = op /\ MutatesIn(seq, op))
      PROVE  OneOf(all, op)
  BY <1>2, <1>3 DEF OneOf, MutatesIn
<1>4. ASSUME NEW op, MutatesIn(all, op)
      PROVE  MutatesIn(seq, op) \/ (op = r.op /\ r.kind = "mutate")
  BY <1>2, <1>4 DEF MutatesIn
<1>5. ASSUME NEW op, AbsentFrom(seq, op), op # r.op PROVE AbsentFrom(all, op)
  BY <1>2, <1>5 DEF AbsentFrom
<1> QED BY <1>3, <1>4, <1>5 DEF all

\* Abandoned requests are not sent again.
LEMMA QueueAbandoned ==
    ASSUME NEW seq \in Seq(Requests), NEW o
    PROVE  /\ \A op : OneOf(seq, op) => OneOf(Abandon(seq, o), op)
           /\ \A op : MutatesIn(Abandon(seq, o), op) => MutatesIn(seq, op)
           /\ \A op : AbsentFrom(seq, op) => AbsentFrom(Abandon(seq, o), op)
<1>1. /\ DOMAIN Abandon(seq, o) = DOMAIN seq
      /\ \A i \in DOMAIN seq : /\ Abandon(seq, o)[i].op = seq[i].op
                               /\ Abandon(seq, o)[i].kind = seq[i].kind
  BY Abandoned
<1> QED BY <1>1 DEF OneOf, MutatesIn, AbsentFrom

\* An empty queue, as after a death, holds no request of anybody.
LEMMA QueueEmpty ==
    \A op : OneOf(<<>>, op) /\ ~MutatesIn(<<>>, op) /\ AbsentFrom(<<>>, op)
<1>1. DOMAIN <<>> = {}
  OBVIOUS
<1> QED BY <1>1 DEF OneOf, MutatesIn, AbsentFrom

---------------------------------------------------------------------------
(* Steps that send nothing, refuse nothing and begin nothing.              *)

Quiet ==
    /\ \A op \in Ops : OneOf(inbox, op) => OneOf(inbox', op)
    /\ \A op \in Ops : MutatesIn(inbox', op) => Mutates(op)
    /\ \A op \in Ops : [op |-> op, kind |-> "mutate", state |-> "none"] \in answers' => Refused(op)
    /\ handler'.op \in {handler.op, NoOp}
    /\ \A op \in Ops : op # handler.op => verdicts'[op] = verdicts[op]
    /\ retries' = retries

\* A step that sends no mutation keeps each operation's request unique and silent
\* operations silent.
LEMMA QuietStep ==
    ASSUME Quiet, SentOnce
    PROVE  SentOnce' /\ \A op \in Ops : Silent(op) => Silent(op)'
<1>1. NoOp \notin Ops
  BY OperationAssumption DEF OperationAssumption
<1>2. ASSUME NEW op \in Ops, Silent(op) PROVE Silent(op)'
  BY <1>1, <1>2 DEF Quiet, Silent, Mutates
<1>3. ASSUME NEW op \in Ops, retries'[op] = 0
      PROVE  /\ OneOf(inbox', op)
             /\ Mutates(op)' => handler'.op # op /\ verdicts'[op] = {} /\ ~Refused(op)'
             /\ Refused(op)' => Silent(op)'
  <2>1. /\ OneOf(inbox, op)
        /\ Mutates(op) => handler.op # op /\ verdicts[op] = {} /\ ~Refused(op)
        /\ Refused(op) => Silent(op)
    BY <1>3 DEF Quiet, SentOnce
  <2>2. ASSUME Mutates(op)'
        PROVE  handler'.op # op /\ verdicts'[op] = {} /\ ~Refused(op)'
    BY <1>1, <2>1, <2>2 DEF Quiet, Mutates, Refused
  <2>3. ASSUME Refused(op)' PROVE Silent(op)'
    BY <1>2, <2>1, <2>3 DEF Quiet, Refused
  <2>4. OneOf(inbox', op)
    BY <2>1 DEF Quiet
  <2> QED BY <2>2, <2>3, <2>4
<1> QED BY <1>2, <1>3 DEF SentOnce

\* Which steps send no mutation and refuse none: everything but the sending, the retry
\* and the beginning of an unknown operation.
LEMMA QuietActions ==
    ASSUME TypeOK, RecordsAreSincere, HandlerHasItsVerdict,
           \/ UNCHANGED vars
           \/ \E op \in Ops : SendFails(op) \/ Receive(op) \/ GiveUp(op) \/ Ask(op)
           \/ \E i \in DOMAIN inbox : \/ AnswerQuery(i)
                                      \/ Refuse(i) /\ inbox[i].kind = "query"
                                      \/ BeginOperation(i) /\ Known(inbox[i].op)
           \/ Abort \/ Prepare \/ Write \/ Commit \/ Complete \/ Die \/ Restart
    PROVE  Quiet
<1>0. /\ inbox \in Seq(Requests) /\ handler \in Handlers
      /\ verdicts \in [Ops -> SUBSET {"committed", "failed"}]
  BY DEF TypeOK
<1> DEFINE
    QuietInbox == /\ \A op \in Ops : OneOf(inbox, op) => OneOf(inbox', op)
                  /\ \A op \in Ops : MutatesIn(inbox', op) => Mutates(op)
    NoRefusal  == \A op \in Ops :
                     [op |-> op, kind |-> "mutate", state |-> "none"] \in answers' => Refused(op)
    QuietHandler == handler'.op \in {handler.op, NoOp}
    OwnVerdict == \A op \in Ops : op # handler.op => verdicts'[op] = verdicts[op]
<1>1. inbox' = inbox => QuietInbox
  BY DEF Mutates
<1>2. answers' \subseteq answers => NoRefusal
  BY DEF Refused
<1>3. ASSUME NEW op, NEW kind, NEW state, kind = "query" \/ state # "none",
             answers' \subseteq answers \cup {[op |-> op, kind |-> kind, state |-> state]}
      PROVE  NoRefusal
  <2>1. \A o \in Ops : [op |-> o, kind |-> "mutate", state |-> "none"]
                         # [op |-> op, kind |-> kind, state |-> state]
    BY <1>3
  <2> QED BY <1>3, <2>1 DEF Refused
<1>4. ASSUME NEW v, verdicts' = [verdicts EXCEPT ![handler.op] = @ \cup {v}]
      PROVE  OwnVerdict
  BY <1>0, <1>4
<1>5. ASSUME QuietInbox, NoRefusal, QuietHandler, OwnVerdict, retries' = retries
      PROVE  Quiet
  BY <1>5 DEF Quiet
<1> HIDE DEF QuietInbox, NoRefusal
<1>6. CASE UNCHANGED vars
  <2>1. UNCHANGED <<inbox, answers, handler, verdicts, retries>>
    BY <1>6 DEF vars, clientVars, wireVars, serviceVars, history
  <2> QED BY <1>1, <1>2, <1>5, <2>1
<1>7. ASSUME NEW op \in Ops, SendFails(op) \/ Receive(op)
      PROVE  Quiet
  <2>1. UNCHANGED <<inbox, handler, verdicts, retries>> /\ answers' \subseteq answers
    BY <1>7 DEF SendFails, Receive, wireVars, serviceVars, history
  <2> QED BY <1>1, <1>2, <1>5, <2>1
<1>8. ASSUME NEW op \in Ops, GiveUp(op)
      PROVE  Quiet
  <2>1. /\ UNCHANGED <<answers, verdicts, retries>>
        /\ inbox' = Abandon(inbox, op)
    BY <1>8 DEF GiveUp, history
  <2>2. handler'.op = handler.op
    BY <1>0, <1>8 DEF GiveUp, Handlers
  <2>3. QuietInbox
    BY <1>0, <2>1, QueueAbandoned DEF QuietInbox, Mutates
  <2> QED BY <1>2, <1>5, <2>1, <2>2, <2>3
<1>9. ASSUME NEW op \in Ops, Ask(op)
      PROVE  Quiet
  <2>1. /\ UNCHANGED <<answers, handler, verdicts, retries>>
        /\ inbox' = inbox \/ inbox' = Append(inbox, Request(op, "query"))
    BY <1>9 DEF Ask, serviceVars, history
  <2>2. PICK r \in Requests : r = Request(op, "query") /\ r.kind = "query"
    BY RequestTyped
  <2>3. QuietInbox
    <3>1. CASE inbox' = inbox
      BY <1>1, <3>1
    <3>2. CASE inbox' = Append(inbox, r)
      BY <1>0, <2>2, <3>2, QueueAppended DEF QuietInbox, Mutates
    <3> QED BY <2>1, <2>2, <3>1, <3>2
  <2> QED BY <1>2, <1>5, <2>1, <2>3
<1>10. ASSUME NEW i \in DOMAIN inbox,
              \/ AnswerQuery(i)
              \/ Refuse(i) /\ inbox[i].kind = "query"
              \/ BeginOperation(i) /\ Known(inbox[i].op)
       PROVE  Quiet
  <2>0. Lookup(tracker, inbox[i].op) \in States \ {"none"}
    BY Waiting, LookupIsSincere
  <2>1. PICK op \in Ops, live \in BOOLEAN, kind \in Kinds, state \in States :
           /\ Answer(live, op, kind, state)
           /\ kind = "query" \/ state # "none"
           /\ inbox' = RemoveAt(inbox, i)
           /\ UNCHANGED <<handler, verdicts, retries>>
    <3>1. CASE AnswerQuery(i)
      BY <2>0, <3>1, Waiting DEF AnswerQuery, clientVars, serviceVars, history, Kinds
    <3>2. CASE Refuse(i) /\ inbox[i].kind = "query"
      BY <3>2, Waiting DEF Refuse, clientVars, serviceVars, history, States
    <3>3. CASE BeginOperation(i) /\ Known(inbox[i].op)
      BY <2>0, <3>3, Waiting DEF BeginOperation, clientVars, serviceVars, history, Kinds
    <3> QED BY <1>10, <3>1, <3>2, <3>3
  <2>2. answers' \subseteq answers \cup {[op |-> op, kind |-> kind, state |-> state]}
    BY <2>1 DEF Answer
  <2>3. QuietInbox
    BY <1>0, <2>1, QueueRemoved DEF QuietInbox, Mutates
  <2> QED BY <1>3, <1>5, <2>1, <2>2, <2>3
<1>11. CASE Abort \/ Prepare \/ Write \/ Commit
  <2>1. UNCHANGED <<inbox, answers, retries>> /\ handler'.op = handler.op
    BY <1>0, <1>11 DEF Abort, Prepare, Write, Commit, clientVars, wireVars, Handlers
  <2>2. OwnVerdict
    <3>1. \/ verdicts' = verdicts
          \/ verdicts' = [verdicts EXCEPT ![handler.op] = @]
          \/ \E v \in {"committed", "failed"} :
                verdicts' = [verdicts EXCEPT ![handler.op] = @ \cup {v}]
      <4>1. CASE Write
        <5>1. CASE platform = "linux"
          BY <4>1, <5>1 DEF Write
        <5>2. CASE platform # "linux"
          BY <4>1, <5>2 DEF Write
        <5> QED BY <5>1, <5>2
      <4> QED BY <1>11, <4>1 DEF Abort, Prepare, Commit, history
    <3> QED BY <1>0, <1>4, <3>1
  <2> QED BY <1>1, <1>2, <1>5, <2>1, <2>2
<1>12. CASE Complete
  <2>1. PICK st \in {"succeeded", "failed"} : Answer(handler.live, handler.op, "mutate", st)
    BY <1>12 DEF Complete
  <2>2. /\ answers' \subseteq answers \cup {[op |-> handler.op, kind |-> "mutate", state |-> st]}
        /\ st # "none"
    BY <2>1 DEF Answer
  <2>3. UNCHANGED <<inbox, verdicts, retries>> /\ handler'.op = NoOp
    BY <1>12 DEF Complete, Idle, clientVars, history
  <2> QED BY <1>1, <1>3, <1>5, <2>2, <2>3
<1>13. CASE Die
  <2>1. /\ inbox' = <<>> /\ answers' \subseteq answers /\ handler'.op = NoOp
        /\ UNCHANGED <<verdicts, retries>>
    BY <1>13 DEF Die, Idle, clientVars
  <2>2. QuietInbox
    BY <2>1, QueueEmpty DEF QuietInbox
  <2> QED BY <1>2, <1>5, <2>1, <2>2
<1>14. CASE Restart
  <2>1. UNCHANGED <<inbox, answers, handler, verdicts, retries>>
    BY <1>14 DEF Restart, clientVars, wireVars
  <2> QED BY <1>1, <1>2, <1>5, <2>1
<1> QED BY <1>6, <1>7, <1>8, <1>9, <1>10, <1>11, <1>12, <1>13, <1>14

\* What a step adds for one operation, with the others left alone: enough for SentOnce.
LEMMA OneDisturbed ==
    ASSUME SentOnce, NEW op \in Ops,
           \A o \in Ops : OneOf(inbox, o) /\ o # op => OneOf(inbox', o),
           \A o \in Ops : MutatesIn(inbox', o) /\ o # op => Mutates(o),
           \A o \in Ops : Refused(o)' /\ o # op => Refused(o),
           handler'.op \in {handler.op, op}, verdicts' = verdicts,
           \A o \in Ops : o # op => retries'[o] = retries[o],
           retries'[op] = 0 =>
               /\ OneOf(inbox', op)
               /\ Mutates(op)' => handler'.op # op /\ verdicts[op] = {} /\ ~Refused(op)'
               /\ Refused(op)' => Silent(op)'
    PROVE  SentOnce'
<1>1. ASSUME NEW o \in Ops, retries'[o] = 0, o # op
      PROVE  /\ OneOf(inbox', o)
             /\ Mutates(o)' => handler'.op # o /\ verdicts'[o] = {} /\ ~Refused(o)'
             /\ Refused(o)' => Silent(o)'
  <2>1. /\ OneOf(inbox, o)
        /\ Mutates(o) => handler.op # o /\ verdicts[o] = {} /\ ~Refused(o)
        /\ Refused(o) => Silent(o)
    BY <1>1 DEF SentOnce
  <2>2. OneOf(inbox', o)
    BY <1>1, <2>1
  <2>3. ASSUME Mutates(o)' PROVE handler'.op # o /\ verdicts'[o] = {} /\ ~Refused(o)'
    BY <1>1, <2>1, <2>3 DEF Mutates
  <2>4. ASSUME Refused(o)' PROVE Silent(o)'
    BY <1>1, <2>1, <2>4 DEF Mutates, Silent
  <2> QED BY <2>2, <2>3, <2>4
<1>2. ASSUME retries'[op] = 0
      PROVE  /\ OneOf(inbox', op)
             /\ Mutates(op)' => handler'.op # op /\ verdicts'[op] = {} /\ ~Refused(op)'
             /\ Refused(op)' => Silent(op)'
  BY <1>2
<1> QED BY <1>1, <1>2 DEF SentOnce

\* Every step keeps SentOnce, and keeps an operation silent unless its own
\* client sends it.
LEMMA SentOnceStep ==
    ASSUME TypeOK, RecordsAreSincere, HandlerHasItsVerdict, SentOnce, ReportIsFinal, [Next]_vars
    PROVE  /\ SentOnce'
           /\ \A op \in Ops : Silent(op) /\ ~Send(op) /\ ~Retry(op) => Silent(op)'
<1>0. /\ inbox \in Seq(Requests) /\ handler \in Handlers
      /\ retries \in [Ops -> 0..MaxRetries] /\ MaxRetries \in Nat
      /\ NoOp \notin Ops
  BY OperationAssumption, BudgetAssumption DEF TypeOK, OperationAssumption, BudgetAssumption
<1> DEFINE Goal == /\ SentOnce'
                   /\ \A op \in Ops : Silent(op) /\ ~Send(op) /\ ~Retry(op) => Silent(op)'
<1>1. CASE \/ UNCHANGED vars
           \/ \E op \in Ops : SendFails(op) \/ Receive(op) \/ GiveUp(op) \/ Ask(op)
           \/ \E i \in DOMAIN inbox : \/ AnswerQuery(i)
                                      \/ Refuse(i) /\ inbox[i].kind = "query"
                                      \/ BeginOperation(i) /\ Known(inbox[i].op)
           \/ Abort \/ Prepare \/ Write \/ Commit \/ Complete \/ Die \/ Restart
  <2>1. Quiet
    BY <1>1, QuietActions
  <2> QED BY <2>1, QuietStep
<1>2. ASSUME NEW op \in Ops, Send(op) \/ Retry(op)
      PROVE  Goal
  <2>1. /\ inbox' = Append(inbox, Request(op, "mutate"))
        /\ UNCHANGED <<answers, handler, verdicts>>
    BY <1>2 DEF Send, Retry, serviceVars, history
  <2>2. PICK r \in Requests : r = Request(op, "mutate") /\ r.op = op /\ r.kind = "mutate"
    BY RequestTyped DEF Kinds
  <2>3. /\ \A o \in Ops : MutatesIn(inbox', o) => Mutates(o) \/ o = op
        /\ \A o \in Ops : OneOf(inbox, o) /\ (o = op => ~Mutates(op)) => OneOf(inbox', o)
    BY <1>0, <2>1, <2>2, QueueAppended DEF Mutates
  <2>4. \A o \in Ops : Silent(o) /\ o # op => Silent(o)'
    BY <2>1, <2>3 DEF Silent, Mutates
  <2>5. \A o \in Ops : o # op => retries'[o] = retries[o]
    BY <1>0, <1>2 DEF Send, Retry
  <2>6. ASSUME retries'[op] = 0
        PROVE  /\ OneOf(inbox', op)
               /\ Mutates(op)' => handler'.op # op /\ verdicts[op] = {} /\ ~Refused(op)'
               /\ Refused(op)' => Silent(op)'
    <3>1. ~Retry(op)
      <4>1. Retry(op) => retries'[op] = retries[op] + 1
        BY <1>0 DEF Retry
      <4>2. retries[op] \in 0..MaxRetries
        BY <1>0
      <4> QED BY <1>0, <2>6, <4>1, <4>2
    <3>2. client[op] = "idle" /\ retries' = retries
      BY <1>2, <3>1 DEF Send, MayStart
    <3>3. Silent(op) /\ ~Refused(op)
      BY <3>2 DEF ReportIsFinal, Refused
    <3>4. OneOf(inbox, op)
      BY <2>6, <3>2 DEF SentOnce
    <3>5. OneOf(inbox', op)
      BY <2>3, <3>3, <3>4 DEF Silent
    <3>6. ~Refused(op)'
      BY <2>1, <3>3 DEF Refused
    <3> QED BY <2>1, <3>3, <3>5, <3>6 DEF Silent
  <2>7. SentOnce'
    <3>1. \A o \in Ops : Refused(o)' => Refused(o)
      BY <2>1 DEF Refused
    <3> QED BY <2>1, <2>3, <2>5, <2>6, <3>1, OneDisturbed
  <2>8. ASSUME NEW o \in Ops, Silent(o), ~Send(o), ~Retry(o) PROVE Silent(o)'
    BY <1>2, <2>4, <2>8
  <2> QED BY <2>7, <2>8
<1>3. ASSUME NEW i \in DOMAIN inbox, Refuse(i), inbox[i].kind = "mutate"
      PROVE  Goal
  <2>1. PICK op \in Ops : op = inbox[i].op
    BY Waiting
  <2>2. /\ inbox' = RemoveAt(inbox, i) /\ inbox[i].kind = "mutate"
        /\ UNCHANGED <<handler, verdicts, retries>>
        /\ Answer(inbox[i].live, op, "mutate", "none")
    BY <1>3, <2>1 DEF Refuse, clientVars, serviceVars, history
  <2>3. \A o \in Ops : Refused(o)' => Refused(o) \/ o = op
    BY <2>2 DEF Answer, Refused
  <2>4. /\ \A o \in Ops : MutatesIn(inbox', o) => Mutates(o)
        /\ \A o \in Ops : OneOf(inbox, o) => OneOf(inbox', o)
        /\ OneOf(inbox, op) => ~MutatesIn(inbox', op)
    BY <1>0, <2>1, <2>2, QueueRemoved DEF Mutates
  <2>5. \A o \in Ops : Silent(o) => Silent(o)'
    BY <2>2, <2>4 DEF Silent, Mutates
  <2>6. Mutates(op)
    BY <2>1, <2>2 DEF Mutates, MutatesIn
  <2>7. ASSUME retries'[op] = 0
        PROVE  /\ OneOf(inbox', op)
               /\ Mutates(op)' => handler'.op # op /\ verdicts[op] = {} /\ ~Refused(op)'
               /\ Refused(op)' => Silent(op)'
    <3>1. OneOf(inbox, op) /\ handler.op # op /\ verdicts[op] = {}
      BY <2>2, <2>6, <2>7 DEF SentOnce
    <3>2. Silent(op)' /\ ~Mutates(op)'
      BY <2>2, <2>4, <3>1 DEF Silent, Mutates
    <3> QED BY <2>4, <3>1, <3>2
  <2>8. SentOnce'
    BY <2>2, <2>3, <2>4, <2>7, OneDisturbed
  <2> QED BY <2>5, <2>8
<1>4. ASSUME NEW i \in DOMAIN inbox, BeginOperation(i), ~Known(inbox[i].op)
      PROVE  Goal
  <2>1. PICK op \in Ops : op = inbox[i].op
    BY Waiting
  <2>2. /\ inbox' = RemoveAt(inbox, i) /\ inbox[i].kind = "mutate"
        /\ UNCHANGED <<answers, verdicts, retries>>
        /\ handler'.op = op /\ handler = Idle
    BY <1>4, <2>1 DEF BeginOperation, clientVars
  <2>3. /\ \A o \in Ops : MutatesIn(inbox', o) => Mutates(o)
        /\ \A o \in Ops : OneOf(inbox, o) => OneOf(inbox', o)
        /\ OneOf(inbox, op) => ~MutatesIn(inbox', op)
    BY <1>0, <2>1, <2>2, QueueRemoved DEF Mutates
  <2>4. Mutates(op)
    BY <2>1, <2>2 DEF Mutates, MutatesIn
  <2>5. \A o \in Ops : Silent(o) => Silent(o)'
    BY <2>2, <2>3, <2>4 DEF Silent, Mutates
  <2>6. ASSUME retries'[op] = 0
        PROVE  /\ OneOf(inbox', op)
               /\ Mutates(op)' => handler'.op # op /\ verdicts[op] = {} /\ ~Refused(op)'
               /\ Refused(op)' => Silent(op)'
    <3>1. OneOf(inbox, op) /\ ~Refused(op)
      BY <2>2, <2>4, <2>6 DEF SentOnce
    <3> QED BY <2>2, <2>3, <3>1 DEF Refused, Mutates
  <2>7. SentOnce'
    <3>1. \A o \in Ops : Refused(o)' => Refused(o)
      BY <2>2 DEF Refused
    <3> QED BY <2>2, <2>3, <2>6, <3>1, OneDisturbed
  <2> QED BY <2>5, <2>7
<1>5. ASSUME NEW i \in DOMAIN inbox
      PROVE  inbox[i].kind \in {"mutate", "query"}
  BY Waiting DEF Kinds
<1> QED BY <1>1, <1>2, <1>3, <1>4, <1>5 DEF Next

---------------------------------------------------------------------------
(* The client's report.                                                    *)

\* What every step does to the clients: nobody becomes idle, somebody who was
\* done stays done, and a report is made once, at the end.
LEMMA ClientsStep ==
    ASSUME TypeOK, [Next]_vars, NEW op \in Ops
    PROVE  /\ client'[op] = "idle" => client[op] = "idle"
           /\ client[op] = "done" => client'[op] = "done"
           /\ client'[op] = "waiting" \/ ~(Send(op) \/ Retry(op))
           /\ \/ told'[op] = told[op]
              \/ client'[op] = "done" /\ client[op] # "done"
<1>0. /\ client \in [Ops -> {"idle", "waiting", "recovering", "querying", "done"}]
      /\ told \in [Ops -> {"none", "success", "failure", "unknown"}]
  BY DEF TypeOK
<1> DEFINE Goal == /\ client'[op] = "idle" => client[op] = "idle"
                   /\ client[op] = "done" => client'[op] = "done"
                   /\ \/ told'[op] = told[op]
                      \/ client'[op] = "done" /\ client[op] # "done"
<1>1. ASSUME UNCHANGED <<client, told>> PROVE Goal
  BY <1>1
<1>2. ASSUME NEW o \in Ops, NEW stage, client' = [client EXCEPT ![o] = stage],
             stage # "idle", client[o] # "done",
             \/ told' = told
             \/ stage = "done" /\ \E report : told' = [told EXCEPT ![o] = report]
      PROVE  Goal
  BY <1>0, <1>2
<1> HIDE DEF Goal
<1>3. ASSUME UNCHANGED vars PROVE Goal
  <2>1. UNCHANGED <<client, told>>
    BY <1>3 DEF vars, clientVars
  <2> QED BY <1>1, <2>1
<1>4. ASSUME NEW o \in Ops, Send(o) PROVE Goal
  <2>1. client' = [client EXCEPT ![o] = "waiting"] /\ told' = told /\ client[o] # "done"
    BY <1>4 DEF Send, MayStart
  <2> QED BY <1>2, <2>1
<1>5. ASSUME NEW o \in Ops, Retry(o) PROVE Goal
  <2>1. client' = [client EXCEPT ![o] = "waiting"] /\ told' = told /\ client[o] # "done"
    BY <1>5 DEF Retry
  <2> QED BY <1>2, <2>1
<1>6. ASSUME NEW o \in Ops, SendFails(o) \/ Receive(o) \/ GiveUp(o) \/ Ask(o) PROVE Goal
  <2>1. client[o] # "done"
    BY <1>6 DEF SendFails, MayStart, Receive, GiveUp, GiveUpEnabled, Ask
  <2>2. PICK stage \in {"done", "recovering", "querying"} :
           /\ client' = [client EXCEPT ![o] = stage]
           /\ \/ told' = told
              \/ stage = "done" /\ \E report : told' = [told EXCEPT ![o] = report]
    <3>1. CASE SendFails(o)
      BY <3>1 DEF SendFails
    <3>2. CASE Receive(o)
      BY <3>2 DEF Receive
    <3>3. CASE GiveUp(o)
      BY <3>3 DEF GiveUp
    <3>4. CASE Ask(o)
      BY <3>4 DEF Ask
    <3> QED BY <1>6, <3>1, <3>2, <3>3, <3>4
  <2> QED BY <1>2, <2>1, <2>2
<1>7. ASSUME NEW i \in DOMAIN inbox, Refuse(i) \/ BeginOperation(i) \/ AnswerQuery(i)
      PROVE  Goal
  <2>1. UNCHANGED <<client, told>>
    BY <1>7 DEF Refuse, BeginOperation, AnswerQuery, clientVars
  <2> QED BY <1>1, <2>1
<1>8. ASSUME Abort \/ Prepare \/ Write \/ Commit \/ Complete \/ Die \/ Restart
      PROVE  Goal
  <2>1. UNCHANGED <<client, told>>
    BY <1>8 DEF Abort, Prepare, Write, Commit, Complete, Die, Restart, clientVars
  <2> QED BY <1>1, <2>1
<1>9. client'[op] = "waiting" \/ ~(Send(op) \/ Retry(op))
  BY <1>0 DEF Send, Retry
<1>10. Goal
  BY <1>3, <1>4, <1>5, <1>6, <1>7, <1>8 DEF Next
<1> QED BY <1>9, <1>10 DEF Goal

\* An operation that stays idle leaves no trace.
LEMMA TracesStep ==
    ASSUME TypeOK, HandlerHasItsVerdict, ReportIsFinal, [Next]_vars,
           NEW op \in Ops, client'[op] = "idle"
    PROVE  AbsentFrom(inbox', op) /\ \A a \in answers' : a.op # op
<1>0. /\ inbox \in Seq(Requests)
      /\ client \in [Ops -> {"idle", "waiting", "recovering", "querying", "done"}]
  BY DEF TypeOK
<1>1. client[op] = "idle"
  BY ClientsStep
<1>2. AbsentFrom(inbox, op) /\ (\A a \in answers : a.op # op) /\ handler.op # op
  BY <1>1 DEF ReportIsFinal, Silent
<1> DEFINE Goal == AbsentFrom(inbox', op) /\ \A a \in answers' : a.op # op
<1>3. ASSUME inbox' = inbox, answers' \subseteq answers PROVE Goal
  BY <1>2, <1>3
<1>4. CASE UNCHANGED vars
  BY <1>3, <1>4 DEF vars, wireVars
<1>5. ASSUME NEW o \in Ops, SendFails(o) \/ Receive(o)
      PROVE  Goal
  BY <1>3, <1>5 DEF SendFails, Receive, wireVars
<1>6. ASSUME NEW o \in Ops, GiveUp(o)
      PROVE  Goal
  <2>1. inbox' = Abandon(inbox, o) /\ answers' = answers
    BY <1>6 DEF GiveUp
  <2> QED BY <1>0, <1>2, <2>1, QueueAbandoned
<1>7. ASSUME NEW o \in Ops, Send(o) \/ Retry(o) \/ Ask(o)
      PROVE  Goal
  <2>1. answers' = answers
    BY <1>7 DEF Send, Retry, Ask
  <2>2. o # op
    BY <1>0, <1>1, <1>7 DEF Send, Retry, Ask
  <2>3. PICK kind \in Kinds :
           inbox' = inbox \/ inbox' = Append(inbox, Request(o, kind))
    BY <1>7 DEF Send, Retry, Ask, Kinds
  <2>4. PICK r \in Requests : r = Request(o, kind) /\ r.op = o
    BY RequestTyped DEF Kinds
  <2>5. AbsentFrom(Append(inbox, r), op)
    BY <1>0, <1>2, <2>2, <2>4, QueueAppended
  <2> QED BY <1>2, <2>1, <2>3, <2>4, <2>5
<1>8. ASSUME NEW i \in DOMAIN inbox, Refuse(i) \/ BeginOperation(i) \/ AnswerQuery(i)
      PROVE  Goal
  <2>1. PICK o \in Ops : o = inbox[i].op /\ o # op
    BY <1>2, Waiting DEF AbsentFrom
  <2>2. PICK live, kind, state :
           /\ inbox' = RemoveAt(inbox, i)
           /\ answers' = answers \/ Answer(live, o, kind, state)
    BY <1>8, <2>1 DEF Refuse, BeginOperation, AnswerQuery
  <2>3. AbsentFrom(inbox', op)
    BY <1>0, <1>2, <2>2, QueueRemoved
  <2>4. answers' \subseteq answers \cup {[op |-> o, kind |-> kind, state |-> state]}
    BY <2>2 DEF Answer
  <2> QED BY <1>2, <2>1, <2>3, <2>4
<1>9. CASE Abort \/ Prepare \/ Write \/ Commit \/ Restart
  BY <1>3, <1>9 DEF Abort, Prepare, Write, Commit, Restart, wireVars
<1>10. CASE Complete
  <2>1. PICK state : inbox' = inbox /\ Answer(handler.live, handler.op, "mutate", state)
    BY <1>10 DEF Complete
  <2>2. answers' \subseteq answers \cup {[op |-> handler.op, kind |-> "mutate", state |-> state]}
    BY <2>1 DEF Answer
  <2> QED BY <1>2, <2>1, <2>2
<1>11. CASE Die
  <2>1. inbox' = <<>> /\ answers' = {}
    BY <1>11 DEF Die
  <2> QED BY <2>1, QueueEmpty
<1> QED BY <1>4, <1>5, <1>6, <1>7, <1>8, <1>9, <1>10, <1>11 DEF Next

\* What a new report rests on.
LEMMA NewReport ==
    ASSUME IInv, [Next]_vars, NEW op \in Ops, told'[op] # told[op]
    PROVE  /\ told[op] = "none"
           /\ verdicts' = verdicts
           /\ \E report : told' = [told EXCEPT ![op] = report]
           /\ told'[op] = "success" => "committed" \in verdicts[op]
           /\ QueriesAreAnswered /\ told'[op] = "failure" =>
                 "failed" \in verdicts[op] \/ Silent(op)
           /\ told'[op] \in {"success", "failure", "unknown"}
<1>0. /\ told \in [Ops -> {"none", "success", "failure", "unknown"}]
      /\ answers \subseteq Answers
      /\ TypeOK /\ AnswersAreSincere /\ SentOnce /\ RefusedQueriesAreNamed /\ ReportIsFinal
      /\ platform \in {"windows", "linux"}
  BY DEF IInv, TypeOK
<1>1. client[op] # "done"
  BY <1>0, ClientsStep
<1>2. told[op] = "none"
  BY <1>0, <1>1 DEF ReportIsFinal
<1> DEFINE Goal == /\ verdicts' = verdicts
                   /\ \E report : told' = [told EXCEPT ![op] = report]
                   /\ told'[op] = "success" => "committed" \in verdicts[op]
                   /\ QueriesAreAnswered /\ told'[op] = "failure" =>
                         "failed" \in verdicts[op] \/ Silent(op)
                   /\ told'[op] \in {"success", "failure", "unknown"}
<1>3. ASSUME NEW o \in Ops, NEW report, told' = [told EXCEPT ![o] = report]
      PROVE  o = op /\ told'[op] = report
  BY <1>0, <1>3
<1>4. ASSUME NEW o \in Ops, GiveUp(o) \/ Ask(o)
      PROVE  Goal
  <2>1. verdicts' = verdicts /\ told' \in {told, [told EXCEPT ![o] = "unknown"]}
    BY <1>4 DEF GiveUp, Ask, history
  <2>2. told' = [told EXCEPT ![o] = "unknown"]
    BY <2>1
  <2> QED BY <1>3, <2>1, <2>2
<1>5. ASSUME NEW o \in Ops, SendFails(o)
      PROVE  Goal
  <2>1. verdicts' = verdicts /\ told' \in {told, [told EXCEPT ![o] = "failure"]}
    BY <1>5 DEF SendFails, history
  <2>2. told' = [told EXCEPT ![o] = "failure"]
    BY <2>1
  <2>3. Silent(o)
    BY <1>0, <1>5 DEF SendFails, MayStart, ReportIsFinal
  <2> QED BY <1>3, <2>1, <2>2, <2>3
<1>6. ASSUME NEW o \in Ops, Receive(o)
      PROVE  Goal
  <2>1. PICK a \in answers : a.op = o /\ told' = [told EXCEPT ![o] = Outcome(a)]
    BY <1>6 DEF Receive
  <2>2. verdicts' = verdicts
    BY <1>6 DEF Receive, history
  <2>3. a.op = op /\ told'[op] = Outcome(a)
    BY <1>3, <2>1
  <2>r. verdicts' = verdicts /\ \E report : told' = [told EXCEPT ![op] = report]
    BY <2>1, <2>2, <2>3
  <2>4. /\ a.state \in States /\ a.kind \in Kinds
        /\ a = [op |-> op, kind |-> a.kind, state |-> a.state]
    BY <1>0, <2>3 DEF Answers
  <2>5. CASE a.state = "succeeded"
    <3>1. "committed" \in verdicts[op]
      BY <1>0, <2>3, <2>5 DEF AnswersAreSincere, Sincere
    <3>2. told'[op] = "success"
      BY <2>3, <2>5 DEF Outcome, ReadMutation, ReadQuery
    <3> QED BY <2>r, <3>1, <3>2
  <2>6. CASE a.state = "failed"
    <3>1. "failed" \in verdicts[op]
      BY <1>0, <2>3, <2>6 DEF AnswersAreSincere, Sincere
    <3>2. told'[op] \in {"failure", "unknown"}
      BY <2>3, <2>6 DEF Outcome, ReadMutation, ReadQuery
    <3> QED BY <2>r, <3>1, <3>2
  <2>7. CASE a.state = "none" /\ a.kind = "mutate"
    <3>1. Refused(op)
      BY <2>4, <2>7 DEF Refused
    <3>2. retries[op] = 0 => Silent(op)
      BY <1>0, <3>1 DEF SentOnce
    <3>3. told'[op] = IF retries[op] = 0 THEN "failure" ELSE "unknown"
      BY <2>3, <2>7 DEF Outcome, ReadMutation
    <3> QED BY <2>r, <3>2, <3>3
  <2>8. CASE a.state = "none" /\ a.kind = "query"
    <3>1. platform \in QueryRefusals
      BY <2>8 DEF IInv, RefusedQueriesAreNamed
    <3>2. told'[op] \in {"failure", "unknown"}
      BY <2>3, <2>8 DEF Outcome, ReadQuery
    <3>3. QueriesAreAnswered => told'[op] = "unknown"
      BY <1>0, <2>3, <2>8, <3>1 DEF Outcome, ReadQuery, QueriesAreAnswered
    <3> QED BY <2>r, <3>2, <3>3
  <2>9. CASE a.state \in {"inProgress", "unknown"}
    <3>1. told'[op] = "unknown"
      BY <2>3, <2>9 DEF Outcome, ReadMutation, ReadQuery
    <3> QED BY <2>r, <3>1
  <2> QED BY <2>4, <2>5, <2>6, <2>7, <2>8, <2>9 DEF States, Kinds
<1>7. ASSUME NEW o \in Ops, Send(o) \/ Retry(o)
      PROVE  FALSE
  BY <1>7 DEF Send, Retry
<1>8. ASSUME NEW i \in DOMAIN inbox, Refuse(i) \/ BeginOperation(i) \/ AnswerQuery(i)
      PROVE  FALSE
  BY <1>8 DEF Refuse, BeginOperation, AnswerQuery, clientVars
<1>9. CASE \/ UNCHANGED vars
           \/ Abort \/ Prepare \/ Write \/ Commit \/ Complete \/ Die \/ Restart
  <2>1. told' = told
    BY <1>9 DEF vars, Abort, Prepare, Write, Commit, Complete, Die, Restart, clientVars
  <2> QED BY <2>1
<1>10. Goal
  BY <1>4, <1>5, <1>6, <1>7, <1>8, <1>9 DEF Next
<1> QED BY <1>2, <1>10

\* What a client has reported stays, and nothing on its way contradicts it.
LEMMA ReportStep ==
    ASSUME IInv, [Next]_vars
    PROVE  ReportIsFinal'
<1>0. /\ TypeOK /\ RecordsAreSincere /\ HandlerHasItsVerdict /\ SentOnce /\ ReportIsFinal
      /\ Grows
  BY VerdictsGrow DEF IInv
<1>1. ASSUME NEW op \in Ops
      PROVE  /\ client'[op] # "done" => told'[op] = "none"
             /\ client'[op] = "idle" =>
                   Silent(op)' /\ AbsentFrom(inbox', op) /\ \A a \in answers' : a.op # op
             /\ QueriesAreAnswered /\ told'[op] = "failure" =>
                   "failed" \in verdicts'[op] \/ Silent(op)'
  <2>1. ASSUME client'[op] # "done" PROVE told'[op] = "none"
    BY <1>0, <2>1, ClientsStep DEF ReportIsFinal
  <2>2. ASSUME Silent(op), client'[op] # "waiting" PROVE Silent(op)'
    BY <1>0, <2>2, ClientsStep, SentOnceStep
  <2>3. ASSUME client'[op] = "idle"
        PROVE  Silent(op)' /\ AbsentFrom(inbox', op) /\ \A a \in answers' : a.op # op
    <3>1. Silent(op)
      BY <1>0, <2>3, ClientsStep DEF ReportIsFinal
    <3>2. Silent(op)'
      BY <2>2, <2>3, <3>1
    <3> QED BY <1>0, <2>3, <3>2, TracesStep
  <2>4. ASSUME QueriesAreAnswered, told'[op] = "failure"
        PROVE  "failed" \in verdicts'[op] \/ Silent(op)'
    <3>1. client'[op] = "done"
      BY <2>1, <2>4
    <3>2. "failed" \in verdicts[op] \/ Silent(op)
      <4>1. CASE told'[op] = told[op]
        BY <1>0, <2>4, <4>1 DEF ReportIsFinal
      <4>2. CASE told'[op] # told[op]
        BY <2>4, <4>2, NewReport
      <4> QED BY <4>1, <4>2
    <3> QED BY <1>0, <2>2, <3>1, <3>2 DEF Grows
  <2> QED BY <2>1, <2>3, <2>4
<1> QED BY <1>1 DEF ReportIsFinal

\* A success that was reported stays one: verdicts are never taken back.
LEMMA SuccessStep ==
    ASSUME IInv, [Next]_vars
    PROVE  SuccessIsCommitted'
<1>0. SuccessIsCommitted /\ Grows
  BY VerdictsGrow DEF IInv
<1>1. ASSUME NEW op \in Ops, told'[op] = "success" PROVE "committed" \in verdicts'[op]
  <2>1. CASE told'[op] = told[op]
    BY <1>0, <1>1, <2>1 DEF SuccessIsCommitted, Grows
  <2>2. CASE told'[op] # told[op]
    BY <1>1, <2>2, NewReport
  <2> QED BY <2>1, <2>2
<1> QED BY <1>1 DEF SuccessIsCommitted

\* A refused query is put among the answers by Refuse alone, which checks the platform.
LEMMA RefusedQueriesStep ==
    ASSUME TypeOK, RecordsAreSincere, RefusedQueriesAreNamed, [Next]_vars
    PROVE  RefusedQueriesAreNamed'
<1>0. platform' = platform
  BY DEF Next, vars, Send, SendFails, Retry, Receive, GiveUp, Ask, Refuse, BeginOperation,
         AnswerQuery, Abort, Prepare, Write, Commit, Complete, Die, Restart
<1>1. ASSUME answers' \subseteq answers PROVE RefusedQueriesAreNamed'
  BY <1>0, <1>1 DEF RefusedQueriesAreNamed
<1>2. ASSUME NEW op, NEW kind, NEW state,
             kind = "query" /\ state = "none" => platform \in QueryRefusals,
             answers' \subseteq answers \cup {[op |-> op, kind |-> kind, state |-> state]}
      PROVE  RefusedQueriesAreNamed'
  BY <1>0, <1>2 DEF RefusedQueriesAreNamed
<1>3. CASE \/ UNCHANGED vars
           \/ \E op \in Ops : \/ Send(op) \/ SendFails(op) \/ Retry(op)
                              \/ Receive(op) \/ GiveUp(op) \/ Ask(op)
           \/ Abort \/ Prepare \/ Write \/ Commit \/ Die \/ Restart
  <2>1. answers' \subseteq answers
    BY <1>3 DEF vars, Send, SendFails, Retry, Receive, GiveUp, Ask, Abort, Prepare, Write, Commit,
                Die, Restart, wireVars
  <2> QED BY <1>1, <2>1
<1>4. ASSUME NEW i \in DOMAIN inbox, Refuse(i) PROVE RefusedQueriesAreNamed'
  <2>1. /\ inbox[i].kind = "query" => platform \in QueryRefusals
        /\ Answer(inbox[i].live, inbox[i].op, inbox[i].kind, "none")
    BY <1>4 DEF Refuse, Refusable
  <2>2. answers' \subseteq answers \cup
           {[op |-> inbox[i].op, kind |-> inbox[i].kind, state |-> "none"]}
    BY <2>1 DEF Answer
  <2> QED BY <1>2, <2>1, <2>2
<1>5. ASSUME NEW i \in DOMAIN inbox, BeginOperation(i) PROVE RefusedQueriesAreNamed'
  <2>1. \/ answers' = answers
        \/ Answer(inbox[i].live, inbox[i].op, "mutate", Lookup(tracker, inbox[i].op))
    BY <1>5 DEF BeginOperation
  <2>2. answers' \subseteq answers \cup
           {[op |-> inbox[i].op, kind |-> "mutate", state |-> Lookup(tracker, inbox[i].op)]}
    BY <2>1 DEF Answer
  <2> QED BY <1>2, <2>2
<1>6. ASSUME NEW i \in DOMAIN inbox, AnswerQuery(i) PROVE RefusedQueriesAreNamed'
  <2>1. answers' \subseteq answers \cup
           {[op |-> inbox[i].op, kind |-> "query", state |-> Lookup(tracker, inbox[i].op)]}
    BY <1>6 DEF AnswerQuery, Answer
  <2>2. Lookup(tracker, inbox[i].op) # "none"
    BY Waiting, LookupIsSincere
  <2> QED BY <1>2, <2>1, <2>2
<1>7. CASE Complete
  <2>1. PICK st : Answer(handler.live, handler.op, "mutate", st)
    BY <1>7 DEF Complete
  <2>2. answers' \subseteq answers \cup {[op |-> handler.op, kind |-> "mutate", state |-> st]}
    BY <2>1 DEF Answer
  <2> QED BY <1>2, <2>2
<1> QED BY <1>3, <1>4, <1>5, <1>6, <1>7 DEF Next

---------------------------------------------------------------------------
(* The theorems.                                                           *)

\* Every step keeps the types, the ring's index and the histories included.
LEMMA TypeStep ==
    ASSUME TypeOK, NewestAreRecorded, HandlerHasItsVerdict, [Next]_vars
    PROVE  TypeOK'
<1>1. CASE UNCHANGED vars
  BY <1>1 DEF TypeOK, vars, clientVars, wireVars, serviceVars, fileVars, history
<1> QED BY <1>1, ClientTypes, DispatchTypes, HandlerTypes, ProcessTypes DEF Next

\* The invariant holds before the first request.
LEMMA InvariantInit == Init => IInv
<1> SUFFICES ASSUME Init PROVE IInv
  OBVIOUS
<1>1. TypeOK
  BY TypeInit
<1>2. /\ inbox = <<>> /\ answers = {} /\ window = <<>> /\ tracker = EmptyTracker
      /\ handler = Idle /\ opFile = NoRecord /\ stateFile = NoRecord
      /\ client = [op \in Ops |-> "idle"] /\ told = [op \in Ops |-> "none"]
      /\ verdicts = [op \in Ops |-> {}]
  BY DEF Init
<1>3. NewestAreRecorded
  BY <1>2, EmptySeq DEF NewestAreRecorded, Agree
<1>4. Idle.saved = NoRecord /\ Idle.op = NoOp /\ Idle.stage = "idle" /\ NoOp \notin Ops
  BY OperationAssumption DEF Idle, OperationAssumption
<1>5. RecordsAreSincere
  BY <1>2, <1>4, NothingTracked, PlainRecords DEF RecordsAreSincere
<1>6. HandlerHasItsVerdict
  BY <1>2, <1>4 DEF HandlerHasItsVerdict
<1>7. \A op \in Ops : Silent(op) /\ ~Mutates(op) /\ ~Refused(op) /\ AbsentFrom(inbox, op)
  BY <1>2, <1>4, QueueEmpty DEF Silent, Mutates, Refused
<1>8. SentOnce
  BY <1>2, <1>7, QueueEmpty DEF SentOnce
<1>9. ReportIsFinal /\ SuccessIsCommitted
  BY <1>2, <1>7 DEF ReportIsFinal, SuccessIsCommitted
<1>10. AnswersAreSincere /\ RefusedQueriesAreNamed
  BY <1>2 DEF AnswersAreSincere, RefusedQueriesAreNamed
<1> QED BY <1>1, <1>3, <1>5, <1>6, <1>8, <1>9, <1>10 DEF IInv

\* Every step keeps the invariant.
LEMMA InvariantStep == IInv /\ [Next]_vars => IInv'
<1> SUFFICES ASSUME IInv, [Next]_vars PROVE IInv'
  OBVIOUS
<1>1. /\ TypeOK /\ NewestAreRecorded /\ RecordsAreSincere /\ AnswersAreSincere
      /\ HandlerHasItsVerdict /\ SentOnce /\ RefusedQueriesAreNamed /\ ReportIsFinal
  BY DEF IInv
<1> QED BY <1>1, TypeStep, RingStep, RecordsStep, AnswersStep, HandlerStep, SentOnceStep,
           RefusedQueriesStep, SuccessStep, ReportStep
    DEF IInv

\* The inductive invariant, for any queries refused anywhere: ring and history agree,
\* nothing kept or answered claims a verdict that was not reached, a reported success
\* was committed, and, where the Windows gates refuse no result query, a reported
\* failure is the verdict or of an operation that can never run.
THEOREM OperationsAreSound == Spec => []IInv
BY InvariantInit, InvariantStep, PTL DEF Spec

\* A client never reports as applied what the service did not commit, whatever is
\* lost, refused, repeated or restarted and whichever request is refused
\* (service_client_execute_mutation_request, send_simple).
THEOREM SuccessIsNeverInvented == Spec => []SuccessIsCommitted
<1>1. IInv => SuccessIsCommitted
  BY DEF IInv
<1> QED BY <1>1, OperationsAreSound, PTL

\* Requests, answers, records and histories have their types: the ring's index stays
\* within its capacity (service_operation_begin), for any capacity and any faults.
THEOREM OperationTypeCorrect == Spec => []TypeOK
<1>1. IInv => TypeOK
  BY DEF IInv
<1> QED BY <1>1, OperationsAreSound, PTL

\* A handler never takes up an operation that is in the window of the newest ones: a
\* repeat is answered from its record (service_operation_begin).
LEMMA RepeatStep ==
    ASSUME IInv, [Next]_vars, NEW i \in DOMAIN window, handler'.op = window[i]
    PROVE  handler.op = window[i]
<1>0. /\ TypeOK /\ handler \in Handlers /\ tracker \in Trackers /\ window \in Windows
      /\ Agree(tracker, window)
  BY DEF IInv, TypeOK, NewestAreRecorded
<1>1. i \in 1..Len(window) /\ window[i] \in Ops /\ window[i] # NoOp
  BY <1>0, LenProperties, ElementOfSeq, OperationAssumption DEF Windows, OperationAssumption
<1>2. Tracked(tracker, window[i])
  BY <1>0, <1>1, HistoryIsTracked
<1>3. CASE handler'.op = handler.op
  BY <1>3
<1>4. CASE \/ UNCHANGED vars
           \/ \E op \in Ops : Send(op) \/ SendFails(op) \/ Retry(op) \/ Receive(op) \/ Ask(op)
           \/ \E k \in DOMAIN inbox : Refuse(k) \/ AnswerQuery(k)
           \/ Restart
  <2>1. handler' = handler
    BY <1>4 DEF vars, Send, SendFails, Retry, Receive, Ask, Refuse, AnswerQuery, Restart,
                serviceVars
  <2> QED BY <1>3, <2>1
<1>5. CASE (\E op \in Ops : GiveUp(op)) \/ Abort \/ Prepare \/ Write \/ Commit
  <2>1. handler'.op = handler.op
    BY <1>0, <1>5 DEF GiveUp, Abort, Prepare, Write, Commit, Handlers
  <2> QED BY <1>3, <2>1
<1>6. ASSUME NEW k \in DOMAIN inbox, BeginOperation(k)
      PROVE  handler.op = window[i]
  <2>1. CASE Known(inbox[k].op)
    BY <1>3, <1>6, <2>1 DEF BeginOperation
  <2>2. CASE ~Known(inbox[k].op)
    <3>1. handler'.op = inbox[k].op
      BY <1>6, <2>2 DEF BeginOperation
    <3> QED BY <1>2, <2>2, <3>1 DEF Known
  <2> QED BY <2>1, <2>2
<1>7. CASE Complete \/ Die
  BY <1>1, <1>7 DEF Complete, Die, Idle
<1> QED BY <1>4, <1>5, <1>6, <1>7 DEF Next

\* An operation among the last Capacity ones that were begun, or found in the files,
\* never runs again: ServiceOperationRequestGuard finds its record, whatever other
\* requests, restarts and failed stores come between.
THEOREM RepeatsNeverRun == Spec => RepeatIsAnsweredFromRecord
<1>1. IInv /\ [Next]_vars
        => [\A i \in DOMAIN window : handler'.op = window[i] => handler.op = window[i]]_vars
  BY RepeatStep
<1> QED BY <1>1, OperationsAreSound, PTL DEF Spec, RepeatIsAnsweredFromRecord

\* Initially nothing was asked, as in the contract.
LEMMA ContractInit == Init => Contract!Init
BY DEF Init, Contract!Init

\* A step of the service reaches a verdict about the operation it handles, a step
\* of a client reports; nothing else is visible.
LEMMA ContractStep ==
    ASSUME QueriesAreAnswered
    PROVE  IInv /\ [Next]_vars => [Contract!Next]_<<verdicts, told>>
<1> SUFFICES ASSUME IInv, [Next]_vars, <<verdicts, told>>' # <<verdicts, told>>
             PROVE  Contract!Next
  OBVIOUS
<1>0. /\ TypeOK /\ HandlerHasItsVerdict /\ ReportIsFinal
      /\ verdicts \in [Ops -> SUBSET {"committed", "failed"}]
      /\ told \in [Ops -> {"none", "success", "failure", "unknown"}]
      /\ QueriesAreAnswered
  BY DEF IInv, TypeOK
<1>1. CASE told' # told
  <2>1. told' \in [Ops -> {"none", "success", "failure", "unknown"}]
    BY <1>0, TypeStep DEF IInv, TypeOK
  <2>2. PICK op \in Ops : told'[op] # told[op]
    BY <1>0, <1>1, <2>1
  <2>3. /\ told[op] = "none"
        /\ verdicts' = verdicts
        /\ told'[op] = "success" => "committed" \in verdicts[op]
        /\ told'[op] = "failure" => "failed" \in verdicts[op] \/ verdicts[op] = {}
        /\ told'[op] \in {"success", "failure", "unknown"}
    BY <1>0, <2>2, NewReport DEF Silent
  <2>4. PICK report : told' = [told EXCEPT ![op] = report]
    BY <2>2, NewReport
  <2>5. told' = [told EXCEPT ![op] = told'[op]]
    BY <1>0, <2>4
  <2>6. Contract!Tell(op)
    BY <2>3, <2>5 DEF Contract!Tell
  <2> QED BY <2>6 DEF Contract!Next
<1>2. CASE told' = told
  <2>1. verdicts' # verdicts
    BY <1>2
  <2>2. handler.stage # "idle" /\ \E v \in {"committed", "failed"} :
           verdicts' = [verdicts EXCEPT ![handler.op] = @ \cup {v}]
    <3>1. ASSUME NEW op \in Ops,
                 Send(op) \/ SendFails(op) \/ Retry(op) \/ Receive(op) \/ GiveUp(op) \/ Ask(op)
          PROVE  FALSE
      BY <2>1, <3>1 DEF Send, SendFails, Retry, Receive, GiveUp, Ask, history
    <3>2. ASSUME NEW i \in DOMAIN inbox, Refuse(i) \/ BeginOperation(i) \/ AnswerQuery(i)
          PROVE  FALSE
      BY <2>1, <3>2 DEF Refuse, BeginOperation, AnswerQuery, history
    <3>3. ASSUME UNCHANGED vars \/ Prepare \/ Complete \/ Die \/ Restart
          PROVE  FALSE
      BY <2>1, <3>3 DEF vars, Prepare, Complete, Die, Restart, history
    <3>4. CASE Abort
      BY <3>4 DEF Abort
    <3>5. CASE Write
      <4>1. verdicts' # [verdicts EXCEPT ![handler.op] = @]
        BY <1>0, <2>1
      <4>2. CASE platform = "linux"
        BY <3>5, <4>1, <4>2 DEF Write
      <4>3. CASE platform # "linux"
        BY <3>5, <4>3 DEF Write
      <4> QED BY <4>2, <4>3
    <3>6. CASE Commit
      BY <3>6 DEF Commit
    <3> QED BY <3>1, <3>2, <3>3, <3>4, <3>5, <3>6 DEF Next
  <2>3. PICK op \in Ops : op = handler.op
    BY <2>2, <1>0 DEF HandlerHasItsVerdict
  <2>4. told[op] = "failure" => verdicts[op] # {}
    BY <1>0, <2>3 DEF ReportIsFinal, Silent
  <2>5. PICK v \in {"committed", "failed"} : verdicts' = [verdicts EXCEPT ![op] = @ \cup {v}]
    BY <2>2, <2>3
  <2>6. Contract!Decide(op)
    BY <1>2, <2>4, <2>5 DEF Contract!Decide, Contract!Verdicts
  <2> QED BY <2>6 DEF Contract!Next
<1> QED BY <1>1, <1>2

\* The service with its clients implements the contract as long as no result query is
\* refused on Windows: whatever else is lost, delayed, refused, repeated or restarted,
\* a reported success or failure is the verdict.  Without that assumption the code
\* breaks FailureIsNotCommitted and with it the contract.
THEOREM ReportsAreVerdicts ==
    ASSUME "windows" \notin QueryRefusals
    PROVE  Spec => ImplementsContract
<1>1. QueriesAreAnswered
  BY DEF QueriesAreAnswered
<1>2. IInv /\ [Next]_vars => [Contract!Next]_<<verdicts, told>>
  BY <1>1, ContractStep
<1> QED BY <1>2, ContractInit, OperationsAreSound, PTL
        DEF Spec, ImplementsContract, Contract!Spec
=============================================================================
