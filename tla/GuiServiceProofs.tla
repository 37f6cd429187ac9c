-------------------------- MODULE GuiServiceProofs --------------------------
(***************************************************************************)
(* What holds of the GUI's coordinator for any number of requests, device  *)
(* changes, restarts and faults: no wake-up of the worker is lost, a       *)
(* waiting Reset is kept, READY authority that a notification retired      *)
(* never comes back, and the draft leaves with the commit it was sent in.  *)
(*                                                                         *)
(* The invariant follows one mutation (MutationHeld: worker, window queue  *)
(* or dialog, never two), what it was stamped with (StampsAreCurrent), what *)
(* its success says (SuccessIsCommitted), and the envelopes in flight:     *)
(* window queue, worker and service hold them in the order in which the    *)
(* service published them, all at or above what the window presents        *)
(* (AnswersAreOrdered), and each retired authority is below them or below  *)
(* the generation the window asks for (RetiredIsBehind).                   *)
(***************************************************************************)
EXTENDS GuiService, SequenceTheorems, TLAPS

---------------------------------------------------------------------------
(* The invariant.                                                          *)

\* The wait that is about to sleep has the event set if there is work.
Woken(q) == Dispatchable(q) => q.event

Mutating == worker.stage \in {"checking", "sending", "written", "refused", "answered", "posting"}
IsMutation(i) == posted[i].kind = "mutation"
MutationPosted == \E i \in DOMAIN posted : IsMutation(i)

MutationHeld ==
    /\ Mutating => ~window.dialog /\ ~MutationPosted /\ worker.work # NoWork
    /\ window.dialog => ~MutationPosted
    /\ \A i, j \in DOMAIN posted : IsMutation(i) /\ IsMutation(j) => i = j
    /\ Mutating \/ window.dialog \/ MutationPosted => queue.active # NoWork /\ queue.dispatched
    /\ queue.closing => queue.pending = NoWork

\* While the GPU epoch of a request is current, the window presents the
\* authority it was stamped with, or none.
Stamped(w) ==
    w # NoWork =>
        /\ w.id \in 1..budget.works
        /\ w.gpuEpoch <= epochs.gpu
        /\ w.instance # 0 /\ w.generation # 0
        /\ w.gpuEpoch = epochs.gpu =>
              model.instance = w.instance /\ model.generation \in {w.generation, 0}

StampsAreCurrent ==
    /\ Stamped(queue.active)
    /\ Stamped(queue.pending)
    /\ Stamped(worker.work)
    /\ \A i \in DOMAIN posted : Stamped(posted[i].work)

Written(w) == committed[w.id] = [instance |-> w.instance, generation |-> w.generation]

SuccessIsCommitted ==
    /\ worker.stage = "written" => Written(worker.work)
    /\ worker.stage \in {"answered", "posting"} /\ worker.outcome = "success"
         => Written(worker.work)
    /\ \A i \in DOMAIN posted :
         IsMutation(i) => /\ posted[i].work # NoWork
                          /\ posted[i].outcome = "success" => Written(posted[i].work)

\* The order in which the service publishes.
Upto(a, b) ==
    a.instance < b.instance \/ (a.instance = b.instance /\ a.generation <= b.generation)
Below(a, b) ==
    a.instance < b.instance \/ (a.instance = b.instance /\ a.generation < b.generation)

Real(e) == e # NoEnvelope

\* The retired authorities that e's acceptance by m could not bring back.
Outdated(m, r, e) ==
    \/ Below(r, e)
    \/ r.instance = e.instance /\ e.instance = m.instance /\ r.generation < m.minimum

Beyond(m, gone, e) ==
    Real(e) => /\ e.instance # 0 /\ e.generation # 0
               /\ Upto(m, e)
               /\ \A r \in gone : Outdated(m, r, e)

Precedes(a, b) == Real(a) /\ Real(b) => Upto(a, b)

NoAnswerYet == {"waiting", "checking", "sending", "written", "refused", "reading"}

AnswersAreOrdered ==
    /\ \A i, j \in DOMAIN posted : i < j => Precedes(posted[i].envelope, posted[j].envelope)
    /\ \A i \in DOMAIN posted : /\ Precedes(posted[i].envelope, worker.envelope)
                                /\ Precedes(posted[i].envelope, Envelope(service))
    /\ Precedes(worker.envelope, Envelope(service))
    /\ worker.stage \in NoAnswerYet => worker.envelope = NoEnvelope

RetiredIsBehind ==
    /\ \A i \in DOMAIN posted : Beyond(model, retired, posted[i].envelope)
    /\ Beyond(model, retired, worker.envelope)
    /\ Beyond(model, retired, Envelope(service))
    /\ model.accepted => model.instance # 0 /\ model.generation # 0
    /\ ModelReady(model) => \A r \in retired : Below(r, model)

IInv ==
    /\ TypeOK
    /\ NoLostWake
    /\ MutationHeld
    /\ StampsAreCurrent
    /\ SuccessIsCommitted
    /\ AnswersAreOrdered
    /\ RetiredIsBehind

---------------------------------------------------------------------------
(* The coordinator's queue.                                                *)

\* The absent work, envelope and message are of their types.
LEMMA Constants ==
    /\ NoWork \in Works
    /\ NoEnvelope \in Envelopes
    /\ Waiting \in Workers
    /\ Waiting.stage = "waiting" /\ Waiting.work = NoWork /\ Waiting.envelope = NoEnvelope
BY DEF NoWork, Works, NoEnvelope, Envelopes, Phases, Waiting, Workers, Outcomes

\* SetEvent leaves the queue's slots alone, and a set event is never a lost one.
LEMMA SignalWakes ==
    ASSUME NEW q \in Queues
    PROVE  /\ Signal(q) \in Queues
           /\ Woken(Signal(q))
           /\ Signal(q).active = q.active /\ Signal(q).pending = q.pending
           /\ Signal(q).dispatched = q.dispatched /\ Signal(q).closing = q.closing
BY DEF Signal, Woken, Dispatchable, Queues

\* A queued full read sets the event.
LEMMA FullSyncWakes ==
    ASSUME NEW q \in Queues
    PROVE  /\ QueueFullSync(q) \in Queues
           /\ Woken(QueueFullSync(q))
           /\ QueueFullSync(q).active = q.active
           /\ QueueFullSync(q).pending = q.pending
           /\ QueueFullSync(q).dispatched = q.dispatched
           /\ QueueFullSync(q).closing = q.closing
<1> DEFINE s == [q EXCEPT !.fullSync = TRUE, !.telemetry = FALSE]
<1>1. /\ s \in Queues
      /\ s.active = q.active /\ s.pending = q.pending
      /\ s.dispatched = q.dispatched /\ s.closing = q.closing
  BY DEF Queues
<1> HIDE DEF s
<1>2. QueueFullSync(q) = Signal(s)
  BY DEF QueueFullSync, s
<1> QED BY <1>1, <1>2, SignalWakes

\* So does queued telemetry, and a closing queue takes none.
LEMMA TelemetryWakes ==
    ASSUME NEW q \in Queues, Woken(q)
    PROVE  /\ QueueTelemetry(q) \in Queues
           /\ Woken(QueueTelemetry(q))
           /\ QueueTelemetry(q).active = q.active
           /\ QueueTelemetry(q).pending = q.pending
           /\ QueueTelemetry(q).dispatched = q.dispatched
           /\ QueueTelemetry(q).closing = q.closing
<1> DEFINE s == [q EXCEPT !.telemetry = TRUE]
<1>1. /\ s \in Queues
      /\ s.active = q.active /\ s.pending = q.pending
      /\ s.dispatched = q.dispatched /\ s.closing = q.closing
  BY DEF Queues
<1> HIDE DEF s
<1>2. QueueTelemetry(q) = q \/ QueueTelemetry(q) = Signal(s)
  BY DEF QueueTelemetry, s
<1> QED BY <1>1, <1>2, SignalWakes

\* Retiring drops the waiting mutation and touches no other.
LEMMA RetireDropsPending ==
    ASSUME NEW q \in Queues
    PROVE  /\ RetirePending(q) \in Queues
           /\ Woken(RetirePending(q))
           /\ RetirePending(q).active = q.active
           /\ RetirePending(q).pending = NoWork
           /\ RetirePending(q).dispatched = q.dispatched
           /\ RetirePending(q).closing = q.closing
<1> DEFINE s == [q EXCEPT !.pending = NoWork]
<1>1. /\ s \in Queues
      /\ s.active = q.active /\ s.pending = NoWork
      /\ s.dispatched = q.dispatched /\ s.closing = q.closing
  BY Constants DEF Queues
<1> HIDE DEF s
<1>2. RetirePending(q) = QueueFullSync(s)
  BY DEF RetirePending, s
<1> QED BY <1>1, <1>2, FullSyncWakes

\* The waiting mutation takes the place of the one that is over.
LEMMA AdvancePromotes ==
    ASSUME NEW q \in Queues
    PROVE  /\ Advance(q) \in Queues
           /\ Woken(Advance(q))
           /\ Advance(q).active = IF q.closing THEN NoWork ELSE q.pending
           /\ Advance(q).pending = IF q.closing THEN q.pending ELSE NoWork
           /\ Advance(q).dispatched = FALSE
           /\ Advance(q).closing = q.closing
<1> DEFINE s == [q EXCEPT !.active = IF q.closing THEN NoWork ELSE q.pending,
                          !.dispatched = FALSE, !.fullSync = TRUE,
                          !.pending = IF q.closing THEN @ ELSE NoWork]
<1>1. /\ s \in Queues
      /\ s.active = IF q.closing THEN NoWork ELSE q.pending
      /\ s.pending = IF q.closing THEN q.pending ELSE NoWork
      /\ s.dispatched = FALSE /\ s.closing = q.closing
  BY Constants DEF Queues
<1> HIDE DEF s
<1>2. Advance(q) = Signal(s)
  BY DEF Advance, s
<1> QED BY <1>1, <1>2, SignalWakes

---------------------------------------------------------------------------
(* The reducer.                                                            *)

\* A model that presents nothing new: it forgot its generation or kept it.
Fades(m, n) ==
    /\ n \in Models
    /\ n.instance = m.instance
    /\ n.generation \in {m.generation, 0}
    /\ n.accepted => m.accepted /\ n.generation = m.generation
    /\ ModelReady(n) => ModelReady(m)

\* A sync that begins presents nothing READY that was not presented, and asks for no
\* newer generation.
LEMMA BeginSyncFades ==
    ASSUME NEW m \in Models, NEW c \in Nat
    PROVE  Fades(m, BeginSync(m, c)) /\ BeginSync(m, c).minimum = m.minimum
BY DEF Fades, BeginSync, Forgotten, Models, Phases, ModelReady

\* Nor does a lost connection.
LEMMA DisconnectFades ==
    ASSUME NEW m \in Models, NEW c \in Nat
    PROVE  Fades(m, Disconnect(m, c)) /\ Disconnect(m, c).minimum = m.minimum
BY DEF Fades, Disconnect, Forgotten, Models, Phases, ModelReady

\* Nor does an opened connection, unless it is another service process.
LEMMA OpenedFades ==
    ASSUME NEW m \in Models, NEW c \in Nat, NEW env \in Envelopes
    PROVE  /\ Fades(m, Opened(m, c, env))
           /\ env.instance = m.instance => Opened(m, c, env).minimum = m.minimum
<1> DEFINE s == IF c > m.connection THEN BeginSync(m, c) ELSE m
<1>1. Fades(m, s) /\ s.minimum = m.minimum
  BY BeginSyncFades DEF Fades
<1>2. Opened(m, c, env) =
        IF /\ ~s.accepted /\ s.instance # 0
           /\ env.instance # s.instance /\ env.instance # s.retired
        THEN [s EXCEPT !.retired = s.instance, !.minimum = 0]
        ELSE s
  BY DEF Opened
<1> HIDE DEF s
<1>3. CASE Opened(m, c, env) = s
  BY <1>1, <1>3
<1>4. ASSUME Opened(m, c, env) = [s EXCEPT !.retired = s.instance, !.minimum = 0],
             env.instance # s.instance
      PROVE  /\ Fades(m, Opened(m, c, env))
             /\ env.instance # m.instance
  <2>1. s \in Models /\ s.instance = m.instance
    BY <1>1 DEF Fades
  <2>2. [s EXCEPT !.retired = s.instance, !.minimum = 0] \in Models
    BY <2>1 DEF Models
  <2>3. /\ Opened(m, c, env).instance = s.instance
        /\ Opened(m, c, env).generation = s.generation
        /\ Opened(m, c, env).accepted = s.accepted
        /\ Opened(m, c, env).phase = s.phase
    BY <1>4, <2>1 DEF Models
  <2> QED BY <1>1, <1>4, <2>1, <2>2, <2>3 DEF Fades, ModelReady
<1> QED BY <1>2, <1>3, <1>4

\* What acceptance of an answer means for what is presented.
LEMMA AdoptAccepts ==
    ASSUME NEW m \in Models, NEW c \in Nat, NEW env \in Envelopes, Accepts(m, c, env)
    PROVE  /\ Adopt(m, c, env) \in Models
           /\ Real(env)
           /\ Adopt(m, c, env).instance = env.instance
           /\ Adopt(m, c, env).generation = env.generation
           /\ Adopt(m, c, env).phase = env.phase
           /\ env.instance = m.instance => env.generation >= m.minimum
<1> DEFINE o == Opened(m, c, env)
<1>1. o \in Models /\ (env.instance = m.instance => o.instance = m.instance /\ o.minimum = m.minimum)
  BY OpenedFades DEF Fades
<1>2. Adopt(m, c, env) =
        [o EXCEPT !.accepted = TRUE, !.instance = env.instance,
                  !.generation = env.generation, !.phase = env.phase,
                  !.minimum = IF env.generation >= @ THEN 0 ELSE @]
  BY DEF Adopt
<1>3. Real(env) /\ (env.instance = o.instance => env.generation >= o.minimum)
  BY DEF Accepts, Real
<1> HIDE DEF o
<1>4. Adopt(m, c, env) \in Models
  <2> DEFINE asked == IF env.generation >= o.minimum THEN 0 ELSE o.minimum
  <2>1. asked \in Nat
    BY <1>1 DEF Models
  <2>2. Adopt(m, c, env) =
          [o EXCEPT !.accepted = TRUE, !.instance = env.instance,
                    !.generation = env.generation, !.phase = env.phase, !.minimum = asked]
    BY <1>1, <1>2 DEF Models
  <2> HIDE DEF asked
  <2> QED BY <1>1, <2>1, <2>2 DEF Models, Envelopes
<1>5. /\ Adopt(m, c, env).instance = env.instance
      /\ Adopt(m, c, env).generation = env.generation
      /\ Adopt(m, c, env).phase = env.phase
  BY <1>1, <1>2 DEF Models
<1> QED BY <1>1, <1>3, <1>4, <1>5

\* A rejected envelope presents nothing new (service_model_reduce).
LEMMA AdoptRejects ==
    ASSUME NEW m \in Models, NEW c \in Nat, NEW env \in Envelopes, ~Accepts(m, c, env)
    PROVE  /\ Fades(m, Adopt(m, c, env))
           /\ \/ Adopt(m, c, env).minimum = m.minimum
              \/ Real(env) /\ env.instance # m.instance
<1>1. Fades(m, m)
  BY DEF Fades
<1> QED BY <1>1, OpenedFades DEF Adopt, Real

\* What the window's handlers make of an answer or of its absence: either the
\* GPU epoch stays, and what is presented fades or was nothing, or the waiting
\* mutation is retired with the epoch.
Effect(q, w) ==
    /\ model' \in Models
    /\ epochs' \in EpochSets
    /\ epochs'.presentation = epochs.presentation
    /\ \/ /\ epochs'.gpu = epochs.gpu
          /\ queue' = q
          /\ model.instance # 0 =>
               /\ model'.instance = model.instance
               /\ model'.generation \in {model.generation, 0}
       \/ /\ epochs'.gpu = epochs.gpu + 1
          /\ queue' = RetirePending(q)
    /\ window' \in Windows
    /\ window'.dialog = w.dialog /\ window'.dirty = w.dirty

\* An answer changes the model by its envelope only, and of queue and window at most
\* the acknowledgement.
LEMMA AnswerEffect ==
    ASSUME TypeOK, NEW c \in Nat, NEW env \in Envelopes, NEW q \in Queues, NEW w \in Windows,
           AcceptResponse(c, env, w, q)
    PROVE  Effect(q, w) /\ model' = Adopt(model, c, env)
<1> DEFINE m == Adopt(model, c, env)
           changed == /\ Accepts(model, c, env)
                      /\ \/ /\ model.instance # 0
                            /\ \/ model.instance # env.instance
                               \/ model.generation # env.generation
                         \/ model.phase = "READY" /\ m.phase # "READY"
<1>1. /\ model' = m
      /\ epochs' = [epochs EXCEPT !.gpu = IF changed THEN @ + 1 ELSE @]
      /\ queue' = IF changed THEN RetirePending(q) ELSE q
      /\ window' = IF ~Accepts(model, c, env) THEN w
                   ELSE [w EXCEPT !.reconnectTimer = m.phase # "READY"]
  BY DEF AcceptResponse
<1>2. model \in Models /\ epochs \in EpochSets
  BY DEF TypeOK
<1>3. /\ m \in Models
      /\ ~changed /\ model.instance # 0 =>
           m.instance = model.instance /\ m.generation \in {model.generation, 0}
  <2>1. CASE Accepts(model, c, env)
    BY <1>2, <2>1, AdoptAccepts
  <2>2. CASE ~Accepts(model, c, env)
    BY <1>2, <2>2, AdoptRejects DEF Fades
  <2> QED BY <2>1, <2>2
<1> HIDE DEF m, changed
<1>4. window' \in Windows /\ window'.dialog = w.dialog /\ window'.dirty = w.dirty
  BY <1>1 DEF Windows
<1>5. /\ epochs' \in EpochSets /\ epochs'.presentation = epochs.presentation
      /\ epochs'.gpu = IF changed THEN epochs.gpu + 1 ELSE epochs.gpu
  BY <1>1, <1>2 DEF EpochSets
<1> QED BY <1>1, <1>3, <1>4, <1>5 DEF Effect, m

\* A failed exchange presents nothing new.
LEMMA FailureEffect ==
    ASSUME TypeOK, NEW c \in Nat, NEW q \in Queues, NEW w \in Windows,
           TransportFailure(c, w, q)
    PROVE  Effect(q, w) /\ Fades(model, model') /\ model'.minimum = model.minimum
<1>1. model \in Models /\ epochs \in EpochSets
  BY DEF TypeOK
<1>2. Fades(model, model') /\ model'.minimum = model.minimum
  BY <1>1, DisconnectFades DEF TransportFailure
<1>3. window' \in Windows /\ window'.dialog = w.dialog /\ window'.dirty = w.dirty
  BY DEF TransportFailure, Windows
<1>4. /\ epochs' \in EpochSets /\ epochs'.presentation = epochs.presentation
      /\ epochs'.gpu = IF ModelReady(model) THEN epochs.gpu + 1 ELSE epochs.gpu
      /\ queue' = IF ModelReady(model) THEN RetirePending(q) ELSE q
  BY <1>1 DEF TransportFailure, EpochSets
<1> QED BY <1>2, <1>3, <1>4 DEF Effect, Fades

---------------------------------------------------------------------------
(* Published order.                                                        *)

\* A later envelope is as far from what was retired as an earlier one.
LEMMA LaterIsBeyond ==
    ASSUME NEW m \in Models, NEW gone \in SUBSET Authority,
           NEW e \in Envelopes, NEW f \in Envelopes,
           Real(e), Beyond(m, gone, e), Upto(e, f), f.instance # 0, f.generation # 0
    PROVE  Beyond(m, gone, f)
<1>1. Upto(m, e) /\ \A r \in gone : Outdated(m, r, e)
  BY DEF Beyond
<1>2. Upto(m, f)
  BY <1>1 DEF Upto, Models, Envelopes
<1>3. ASSUME NEW r \in gone PROVE Outdated(m, r, f)
  <2>1. r \in Authority /\ Outdated(m, r, e)
    BY <1>1
  <2> QED BY <2>1 DEF Outdated, Below, Upto, Models, Envelopes, Authority
<1> QED BY <1>2, <1>3 DEF Beyond

\* The order of publishing carries over an envelope in between.
LEMMA PrecedesTransitive ==
    ASSUME NEW a \in Envelopes, NEW b \in Envelopes, NEW c \in Envelopes,
           Precedes(a, b), Upto(b, c), Real(b)
    PROVE  Precedes(a, c)
BY DEF Precedes, Upto, Envelopes

\* An envelope ahead of what the window presents stays ahead of a model that presents
\* less.
LEMMA FadingKeepsBeyond ==
    ASSUME NEW m \in Models, NEW n \in Models, NEW gone, NEW e \in Envelopes,
           Beyond(m, gone, e), Fades(m, n), n.minimum = m.minimum
    PROVE  Beyond(n, gone, e)
<1>1. Upto(m, e) => Upto(n, e)
  BY DEF Fades, Upto, Models, Envelopes
<1>2. ASSUME NEW r, Outdated(m, r, e) PROVE Outdated(n, r, e)
  BY <1>2 DEF Outdated, Fades
<1> QED BY <1>1, <1>2 DEF Beyond

\* Adoption of an earlier answer leaves the later ones beyond what is retired.
LEMMA AdoptionKeepsBeyond ==
    ASSUME NEW m \in Models, NEW c \in Nat, NEW env \in Envelopes, NEW e \in Envelopes,
           NEW gone \in SUBSET Authority,
           Beyond(m, gone, env), Beyond(m, gone, e), Precedes(env, e)
    PROVE  Beyond(Adopt(m, c, env), gone, e)
<1> DEFINE n == Adopt(m, c, env)
<1> SUFFICES ASSUME Real(e) PROVE Upto(n, e) /\ \A r \in gone : Outdated(n, r, e)
  BY DEF Beyond
<1>1. Upto(m, e) /\ \A r \in gone : Outdated(m, r, e)
  BY DEF Beyond
<1>2. Real(env) => Upto(env, e) /\ Upto(m, env) /\ \A r \in gone : Outdated(m, r, env)
  BY DEF Precedes, Beyond
<1>3. CASE Accepts(m, c, env)
  <2>1. /\ n \in Models /\ Real(env)
        /\ n.instance = env.instance /\ n.generation = env.generation
        /\ env.instance = m.instance => env.generation >= m.minimum
    BY <1>3, AdoptAccepts
  <2> HIDE DEF n
  <2>2. Upto(n, e)
    BY <1>2, <2>1 DEF Upto
  <2>3. ASSUME NEW r \in gone PROVE Below(r, e)
    <3>1. r \in Authority /\ Outdated(m, r, env)
      BY <1>2, <2>1
    <3> QED BY <1>2, <2>1, <3>1 DEF Outdated, Below, Upto, Models, Envelopes, Authority
  <2> QED BY <2>2, <2>3 DEF Outdated
<1>4. CASE ~Accepts(m, c, env)
  <2>1. /\ Fades(m, n)
        /\ n.minimum = m.minimum \/ (Real(env) /\ env.instance # m.instance)
    BY <1>4, AdoptRejects
  <2> HIDE DEF n
  <2>2. Upto(n, e)
    BY <1>1, <2>1 DEF Upto, Fades, Models, Envelopes
  <2>3. ASSUME NEW r \in gone PROVE Outdated(n, r, e)
    <3>1. r \in Authority /\ Outdated(m, r, e)
      BY <1>1
    <3>2. CASE n.minimum = m.minimum
      BY <2>1, <3>1, <3>2 DEF Outdated, Fades
    <3>3. CASE Real(env) /\ env.instance # m.instance
      <4>1. e.instance # m.instance
        BY <1>2, <3>3 DEF Upto, Models, Envelopes
      <4> QED BY <3>1, <4>1 DEF Outdated
    <3> QED BY <2>1, <3>2, <3>3
  <2> QED BY <2>2, <2>3
<1> QED BY <1>3, <1>4

\* A notification retires what is presented and asks for a newer generation.
LEMMA RetiringKeepsBeyond ==
    ASSUME NEW m \in Models, NEW gone \in SUBSET Authority, NEW e \in Envelopes,
           NEW phase, ModelReady(m), \A r \in gone : Below(r, m), Beyond(m, gone, e)
    PROVE  Beyond([RequireNewGeneration(m) EXCEPT !.phase = phase],
                  gone \cup {[instance |-> m.instance, generation |-> m.generation]}, e)
<1> DEFINE n == [RequireNewGeneration(m) EXCEPT !.phase = phase]
           own == [instance |-> m.instance, generation |-> m.generation]
<1>1. /\ n.instance = m.instance /\ n.generation = m.generation
      /\ n.minimum = m.generation + 1
  BY DEF RequireNewGeneration, Models
<1> SUFFICES ASSUME Real(e)
             PROVE Upto(n, e) /\ \A r \in gone \cup {own} : Outdated(n, r, e)
  BY DEF Beyond
<1>2. Upto(m, e) /\ \A r \in gone : Outdated(m, r, e)
  BY DEF Beyond
<1> HIDE DEF n
<1>3. Upto(n, e)
  BY <1>1, <1>2 DEF Upto
<1>4. Outdated(n, own, e)
  BY <1>1, <1>2 DEF Outdated, Below, Upto, Models, Envelopes
<1>5. ASSUME NEW r \in gone PROVE Outdated(n, r, e)
  <2>1. r \in Authority /\ Outdated(m, r, e) /\ Below(r, m)
    BY <1>2
  <2> QED BY <1>1, <2>1 DEF Outdated, Below, Models, Envelopes, Authority
<1> QED BY <1>3, <1>4, <1>5

---------------------------------------------------------------------------
(* Types.                                                                  *)

\* What happens to a behaviour is paid from its scenario, which stays one.
LEMMA BudgetShrinks ==
    ASSUME TypeOK, Upset
    PROVE  /\ budget' \in [works : Nat, upsets : Nat, happens : SUBSET Happenings]
           /\ budget'.works = budget.works
<1>1. budget \in [works : Nat, upsets : Nat, happens : SUBSET Happenings]
  BY DEF TypeOK
<1>2. budget.upsets - 1 \in Nat
  BY <1>1 DEF Upset
<1>3. budget' = [budget EXCEPT !.upsets = budget.upsets - 1]
  BY DEF Upset
<1> QED BY <1>1, <1>2, <1>3

\* Handling the window's first message leaves the others in their order.
LEMMA MessageTaken ==
    ASSUME TypeOK, NEW kind, Message(kind)
    PROVE  /\ Head(posted) \in Messages
           /\ Head(posted) = posted[1] /\ 1 \in DOMAIN posted
           /\ Head(posted).kind = kind
           /\ posted' \in Seq(Messages)
           /\ \A i \in DOMAIN posted' : i + 1 \in DOMAIN posted /\ posted'[i] = posted[i + 1]
BY HeadTailProperties, LenProperties DEF Message, TypeOK

\* A posted message is the last.
LEMMA MessagePosted ==
    ASSUME TypeOK, NEW msg \in Messages, posted' = Append(posted, msg)
    PROVE  /\ posted' \in Seq(Messages)
           /\ DOMAIN posted' = 1..(Len(posted) + 1)
           /\ DOMAIN posted = 1..Len(posted)
           /\ Len(posted) \in Nat
           /\ posted'[Len(posted) + 1] = msg
           /\ \A i \in DOMAIN posted : posted'[i] = posted[i]
BY AppendProperties, LenProperties DEF TypeOK

\* What the worker posts is a message with the outcome and envelope it holds.
LEMMA CompletionType ==
    ASSUME TypeOK, NEW kind \in {"mutation", "read", "admin"}
    PROVE  Completion(kind) \in Messages
BY DEF TypeOK, Completion, Messages, Workers, EpochSets

\* Recording an instance moves the connection epoch only.
LEMMA RecordedType ==
    ASSUME TypeOK, NEW instance \in Nat
    PROVE  /\ Recorded(instance) \in EpochSets
           /\ Recorded(instance).gpu = epochs.gpu
           /\ Recorded(instance).presentation = epochs.presentation
<1>1. epochs \in EpochSets
  BY DEF TypeOK
<1> DEFINE r == [epochs EXCEPT !.tracked = instance, !.connection = @ + 1]
<1>2. epochs.connection + 1 \in Nat
  BY <1>1 DEF EpochSets
<1>3. r \in EpochSets
  BY <1>1, <1>2 DEF EpochSets
<1>4. r.gpu = epochs.gpu /\ r.presentation = epochs.presentation
  BY <1>1 DEF EpochSets
<1> QED BY <1>1, <1>3, <1>4 DEF Recorded

\* A mutation is stamped with the epochs and the authority of the moment it is asked
\* for (QueueMutation).
LEMMA WorkType ==
    ASSUME TypeOK, NEW kind \in {"apply", "reset"}
    PROVE  [id |-> works + 1, kind |-> kind, gpuEpoch |-> epochs.gpu,
            presentationEpoch |-> epochs.presentation,
            instance |-> model.instance, generation |-> model.generation] \in Works \ {NoWork}
<1>1. epochs.gpu \in Nat /\ epochs.presentation \in Nat
  BY DEF TypeOK, EpochSets
<1>2. model.instance \in Nat /\ model.generation \in Nat
  BY DEF TypeOK, Models
<1>3. works + 1 \in Nat /\ works + 1 # 0
  BY DEF TypeOK
<1> QED BY <1>1, <1>2, <1>3 DEF Works, NoWork

\* Beginning a full sync queues a read and moves the connection epoch.
LEMMA BeginFullSyncType ==
    ASSUME TypeOK, NEW q \in Queues, BeginFullSync(q)
    PROVE  /\ model' \in Models /\ Fades(model, model') /\ model'.minimum = model.minimum
           /\ epochs' \in EpochSets /\ epochs'.gpu = epochs.gpu
           /\ queue' = QueueFullSync(q)
<1>1. model \in Models /\ epochs \in EpochSets /\ epochs.connection \in Nat
  BY DEF TypeOK, EpochSets
<1>2. epochs' \in EpochSets /\ epochs'.gpu = epochs.gpu
  BY <1>1 DEF BeginFullSync, EpochSets
<1> QED BY <1>1, <1>2, BeginSyncFades DEF BeginFullSync, Fades

\* The queue after a mutation of kind was asked for.
LEMMA QueueMutationQueue ==
    ASSUME TypeOK, NEW kind \in {"apply", "reset"}, QueueMutation(kind)
    PROVE  \E work \in Works \ {NoWork} :
             /\ work = [id |-> works + 1, kind |-> kind, gpuEpoch |-> epochs.gpu,
                        presentationEpoch |-> epochs.presentation,
                        instance |-> model.instance, generation |-> model.generation]
             /\ queue' \in Queues
             /\ queue'.closing = queue.closing
             /\ \/ /\ queue.active = NoWork
                   /\ queue'.active = work /\ queue'.pending = queue.pending
                   /\ Woken(queue')
                \/ /\ queue.active # NoWork
                   /\ queue.pending.kind # "reset" \/ kind # "apply"
                   /\ queue'.active = queue.active /\ queue'.dispatched = queue.dispatched
                   /\ queue'.pending = work
                   /\ Woken(queue) => Woken(queue')
                \/ /\ queue.active # NoWork
                   /\ queue.pending.kind = "reset" /\ kind = "apply"
                   /\ queue'.active = queue.active /\ queue'.dispatched = queue.dispatched
                   /\ queue'.pending = queue.pending
                   /\ Woken(queue) => Woken(queue')
<1> DEFINE work == [id |-> works + 1, kind |-> kind, gpuEpoch |-> epochs.gpu,
                    presentationEpoch |-> epochs.presentation,
                    instance |-> model.instance, generation |-> model.generation]
           q == [queue EXCEPT !.telemetry = FALSE]
           s == [q EXCEPT !.active = work, !.dispatched = FALSE]
           p == [q EXCEPT !.pending = work]
<1>1. work \in Works \ {NoWork}
  BY WorkType
<1>2. queue \in Queues
  BY DEF TypeOK
<1>3. queue' = CASE Decide(q, kind) = "start" -> Signal(s)
                 [] Decide(q, kind) \in {"pending", "replace"} -> p
                 [] Decide(q, kind) = "keep" -> q
  BY DEF QueueMutation
<1> HIDE DEF work
<1>4. q \in Queues /\ q.active = queue.active /\ q.pending = queue.pending
      /\ q.dispatched = queue.dispatched /\ q.closing = queue.closing
      /\ (Woken(queue) => Woken(q))
  BY <1>2 DEF Queues, Woken, Dispatchable
<1>5. s \in Queues /\ s.active = work /\ s.pending = queue.pending /\ s.closing = queue.closing
  BY <1>1, <1>2 DEF Queues
<1>6. p \in Queues /\ p.active = queue.active /\ p.pending = work
      /\ p.dispatched = queue.dispatched /\ p.closing = queue.closing
      /\ (Woken(queue) => Woken(p))
  BY <1>1, <1>2 DEF Queues, Woken, Dispatchable
<1> HIDE DEF q, s, p
<1>7. CASE queue.active = NoWork
  <2>1. queue' = Signal(s)
    BY <1>3, <1>4, <1>7 DEF Decide
  <2> QED BY <1>1, <1>5, <1>7, <2>1, SignalWakes DEF work
<1>8. CASE queue.active # NoWork
  <2>1. \/ queue' = p /\ (queue.pending.kind # "reset" \/ kind # "apply")
        \/ queue' = q /\ queue.pending.kind = "reset" /\ kind = "apply"
    BY <1>3, <1>4, <1>8 DEF Decide, NoWork
  <2> QED BY <1>1, <1>4, <1>6, <1>8, <2>1 DEF work
<1> QED BY <1>7, <1>8

\* The handling of a mutation's result, up to its effect on the window.
LEMMA HandleMutationEffect ==
    ASSUME TypeOK, HandleMutation
    PROVE  \E dialog \in BOOLEAN, q \in Queues, w \in Windows :
             /\ q = IF dialog THEN queue ELSE Advance(queue)
             /\ w.dialog = dialog
             /\ w.dirty = IF CanCommit(Head(posted)) THEN FALSE ELSE window.dirty
             /\ \/ /\ AcceptResponse(Head(posted).connection, Head(posted).envelope, w, q)
                   /\ Effect(q, w)
                   /\ model' = Adopt(model, Head(posted).connection, Head(posted).envelope)
                \/ /\ Effect(q, w)
                   /\ Fades(model, model') /\ model'.minimum = model.minimum
                \/ /\ queue' = q /\ window' = w /\ UNCHANGED <<model, epochs>>
<1> DEFINE msg == Head(posted)
           Q(dialog) == IF dialog THEN queue ELSE Advance(queue)
           W(dialog) == IF dialog THEN [window EXCEPT !.dialog = TRUE]
                        ELSE Acknowledged(window, Q(dialog))
           C(dialog) == [W(dialog) EXCEPT !.dirty = IF CanCommit(msg) THEN FALSE ELSE @]
<1>1. PICK dialog \in BOOLEAN :
        IF ContextCurrent(msg.work) /\ msg.envelope # NoEnvelope
        THEN AcceptResponse(msg.connection, msg.envelope, C(dialog), Q(dialog))
        ELSE IF ContextCurrent(msg.work) /\ msg.outcome # "notSent"
        THEN TransportFailure(msg.connection, C(dialog), Q(dialog))
        ELSE /\ queue' = Q(dialog) /\ window' = C(dialog)
             /\ UNCHANGED <<model, epochs>>
  BY DEF HandleMutation
<1>2. msg \in Messages
  BY MessageTaken DEF HandleMutation
<1>3. msg.connection \in Nat /\ msg.envelope \in Envelopes
  BY <1>2 DEF Messages
<1>4. queue \in Queues /\ window \in Windows
  BY DEF TypeOK
<1>5. Q(dialog) \in Queues
  BY <1>4, AdvancePromotes
<1>6. W(dialog) \in Windows /\ W(dialog).dialog = dialog /\ W(dialog).dirty = window.dirty
  BY <1>4 DEF Windows, Acknowledged
<1> HIDE DEF W
<1>7. /\ C(dialog) \in Windows /\ C(dialog).dialog = dialog
      /\ C(dialog).dirty = IF CanCommit(msg) THEN FALSE ELSE window.dirty
  BY <1>6 DEF Windows
<1> HIDE DEF C
<1>8. \/ /\ AcceptResponse(msg.connection, msg.envelope, C(dialog), Q(dialog))
         /\ Effect(Q(dialog), C(dialog))
         /\ model' = Adopt(model, msg.connection, msg.envelope)
      \/ /\ Effect(Q(dialog), C(dialog))
         /\ Fades(model, model') /\ model'.minimum = model.minimum
      \/ /\ queue' = Q(dialog) /\ window' = C(dialog) /\ UNCHANGED <<model, epochs>>
  BY <1>1, <1>3, <1>5, <1>7, AnswerEffect, FailureEffect
<1> HIDE DEF msg
<1> QED BY <1>5, <1>7, <1>8 DEF msg

\* A read's answer, its absence, or neither.
LEMMA HandleReadEffect ==
    ASSUME TypeOK, HandleRead
    PROVE  \/ /\ AcceptResponse(Head(posted).connection, Head(posted).envelope, window, queue)
              /\ Effect(queue, window)
              /\ model' = Adopt(model, Head(posted).connection, Head(posted).envelope)
           \/ /\ Effect(queue, window)
              /\ Fades(model, model') /\ model'.minimum = model.minimum
           \/ UNCHANGED <<model, epochs, queue, window>>
<1> DEFINE msg == Head(posted)
<1>1. msg \in Messages
  BY MessageTaken DEF HandleRead
<1>2. msg.connection \in Nat /\ msg.envelope \in Envelopes
  BY <1>1 DEF Messages
<1>3. queue \in Queues /\ window \in Windows
  BY DEF TypeOK
<1>4. \/ AcceptResponse(msg.connection, msg.envelope, window, queue)
      \/ TransportFailure(msg.connection, window, queue)
      \/ UNCHANGED <<model, epochs, queue, window>>
  BY DEF HandleRead
<1> HIDE DEF msg
<1> QED BY <1>2, <1>3, <1>4, AnswerEffect, FailureEffect DEF msg

\* The end of an administration presents nothing new.
LEMMA HandleAdminEffect ==
    ASSUME TypeOK, HandleAdmin
    PROVE  \/ Fades(model, model') /\ model'.minimum = model.minimum
           \/ UNCHANGED model
<1>1. Head(posted) \in Messages
  BY MessageTaken DEF HandleAdmin
<1>2. Head(posted).connection \in Nat /\ model \in Models
  BY <1>1 DEF TypeOK, Messages
<1> QED BY <1>2, DisconnectFades DEF HandleAdmin

\* A device notification ends READY, moves the GPU epoch and asks for a newer
\* generation; dialog and draft stay (gui_selected_gpu_pnp.cpp).
LEMMA CueEffect ==
    ASSUME TypeOK, HandleCue
    PROVE  /\ model' \in Models
           /\ model'.instance = model.instance /\ model'.generation = model.generation
           /\ model'.accepted = model.accepted /\ model'.phase # "READY"
           /\ ~ModelReady(model) => model'.minimum = model.minimum
           /\ epochs' \in EpochSets /\ epochs'.gpu = epochs.gpu + 1
           /\ window' \in Windows /\ window'.dialog = window.dialog
           /\ window'.dirty = window.dirty
           /\ retired' \subseteq Authority
<1>1. model \in Models /\ model.generation + 1 \in Nat
  BY DEF TypeOK, Models
<1>2. /\ RequireNewGeneration(model) \in Models
      /\ RequireNewGeneration(model).instance = model.instance
      /\ RequireNewGeneration(model).generation = model.generation
      /\ RequireNewGeneration(model).accepted = model.accepted
      /\ ~ModelReady(model) => RequireNewGeneration(model).minimum = model.minimum
  BY <1>1 DEF RequireNewGeneration, Models
<1>3. /\ model' \in Models
      /\ model'.instance = model.instance /\ model'.generation = model.generation
      /\ model'.accepted = model.accepted /\ model'.phase # "READY"
      /\ ~ModelReady(model) => model'.minimum = model.minimum
  BY <1>2 DEF HandleCue, Models, Phases
<1>4. epochs' \in EpochSets /\ epochs'.gpu = epochs.gpu + 1
  <2>1. epochs \in EpochSets /\ epochs.gpu + 1 \in Nat /\ epochs.presentation + 1 \in Nat
    BY DEF TypeOK, EpochSets
  <2>2. epochs' = [epochs EXCEPT !.presentation = epochs.presentation + 1,
                                 !.gpu = epochs.gpu + 1]
    BY <2>1 DEF HandleCue, EpochSets
  <2> QED BY <2>1, <2>2 DEF EpochSets
<1>5. window' \in Windows /\ window'.dialog = window.dialog /\ window'.dirty = window.dirty
  BY DEF TypeOK, HandleCue, Windows
<1>6. retired' \subseteq Authority
  BY <1>1 DEF TypeOK, HandleCue, Authority, Models
<1> QED BY <1>3, <1>4, <1>5, <1>6

\* Whatever the worker takes, it begins without an answer.
LEMMA TakeEffect ==
    ASSUME TypeOK, Take
    PROVE  /\ worker' \in Workers
           /\ queue' \in Queues
           /\ queue'.active = queue.active /\ queue'.pending = queue.pending
           /\ queue'.closing = queue.closing
           /\ \/ /\ worker'.stage = "stopped" /\ worker' = [worker EXCEPT !.stage = "stopped"]
                 /\ queue'.dispatched = queue.dispatched
              \/ /\ UNCHANGED worker /\ ~Dispatchable(queue')
                 /\ queue'.dispatched = queue.dispatched
              \/ /\ worker'.stage = "checking" /\ worker'.work = queue.active
                 /\ queue.active # NoWork /\ ~queue.dispatched /\ queue'.dispatched
                 /\ worker'.envelope = NoEnvelope
              \/ /\ worker'.stage = "reading" /\ worker'.work = NoWork
                 /\ worker'.envelope = NoEnvelope
                 /\ queue.active = NoWork /\ queue'.dispatched = queue.dispatched
<1> DEFINE q == [queue EXCEPT !.event = FALSE]
           read(kind) == [Waiting EXCEPT !.stage = "reading", !.kind = kind,
                                         !.presentation = epochs.presentation]
<1>0. worker \in Workers /\ queue \in Queues /\ epochs.presentation \in Nat
  BY DEF TypeOK, EpochSets
<1>1. /\ q \in Queues /\ q.active = queue.active /\ q.pending = queue.pending
      /\ q.closing = queue.closing /\ q.dispatched = queue.dispatched
      /\ q.admin = queue.admin
  BY <1>0 DEF Queues
<1>2. ASSUME NEW kind \in {"fullSync", "telemetry", "install", "remove"}
      PROVE /\ read(kind) \in Workers /\ read(kind).stage = "reading"
            /\ read(kind).work = NoWork /\ read(kind).envelope = NoEnvelope
  BY <1>0, Constants DEF Workers, Waiting
<1>3. CASE q.closing
  <2>1. queue' = q /\ worker' = [worker EXCEPT !.stage = "stopped"]
    BY <1>3 DEF Take
  <2>2. worker' \in Workers /\ worker'.envelope = worker.envelope /\ worker'.stage = "stopped"
    BY <1>0, <2>1 DEF Workers
  <2> QED BY <1>1, <2>1, <2>2
<1>4. CASE ~q.closing /\ q.active # NoWork /\ q.dispatched
  <2>1. queue' = q /\ UNCHANGED worker
    BY <1>4 DEF Take
  <2> QED BY <1>0, <1>1, <1>4, <2>1 DEF Dispatchable
<1>5. CASE ~q.closing /\ q.active # NoWork /\ ~q.dispatched
  <2>1. /\ queue' = [q EXCEPT !.dispatched = TRUE, !.busy = TRUE]
        /\ worker' = [Waiting EXCEPT !.stage = "checking", !.work = q.active]
    BY <1>5 DEF Take
  <2> HIDE DEF q
  <2>2. /\ queue' \in Queues /\ queue'.active = q.active /\ queue'.pending = q.pending
        /\ queue'.closing = q.closing /\ queue'.dispatched
    BY <1>1, <2>1 DEF Queues
  <2>3. /\ worker' \in Workers /\ worker'.stage = "checking" /\ worker'.work = q.active
        /\ worker'.envelope = NoEnvelope
    <3>1. q.active \in Works
      BY <1>1 DEF Queues
    <3> QED BY <2>1, <3>1, Constants DEF Workers, Waiting
  <2> QED BY <1>1, <1>5, <2>2, <2>3
<1>6. CASE ~q.closing /\ q.active = NoWork /\ (q.admin # "none" \/ q.fullSync \/ q.telemetry)
  <2>1. \/ /\ q.admin # "none"
           /\ queue' = [q EXCEPT !.admin = "none", !.busy = TRUE] /\ worker' = read(q.admin)
        \/ queue' = [q EXCEPT !.fullSync = FALSE, !.busy = TRUE] /\ worker' = read("fullSync")
        \/ queue' = [q EXCEPT !.telemetry = FALSE, !.busy = TRUE] /\ worker' = read("telemetry")
    BY <1>6 DEF Take
  <2>2. q.admin # "none" => q.admin \in {"install", "remove"}
    BY <1>1 DEF Queues
  <2> HIDE DEF q, read
  <2>3. /\ queue' \in Queues /\ queue'.active = q.active /\ queue'.pending = q.pending
        /\ queue'.closing = q.closing /\ queue'.dispatched = q.dispatched
    BY <1>1, <2>1 DEF Queues
  <2>4. /\ worker' \in Workers /\ worker'.stage = "reading" /\ worker'.work = NoWork
        /\ worker'.envelope = NoEnvelope
    BY <1>2, <2>1, <2>2
  <2> QED BY <1>1, <1>6, <2>3, <2>4
<1>7. CASE ~q.closing /\ q.active = NoWork /\ ~(q.admin # "none" \/ q.fullSync \/ q.telemetry)
  <2>1. queue' = q /\ UNCHANGED worker
    BY <1>7 DEF Take
  <2> QED BY <1>0, <1>1, <1>7, <2>1 DEF Dispatchable
<1> QED BY <1>3, <1>4, <1>5, <1>6, <1>7

\* Its work given up, the worker waits again.
LEMMA ReleaseEffect ==
    ASSUME TypeOK, ReleaseMutation
    PROVE  /\ worker' = Waiting
           /\ queue' \in Queues /\ Woken(queue')
           /\ queue'.active = IF queue.closing THEN NoWork ELSE queue.pending
           /\ queue'.pending = IF queue.closing THEN queue.pending ELSE NoWork
           /\ queue'.closing = queue.closing
<1> DEFINE q == [queue EXCEPT !.busy = FALSE]
<1>1. q \in Queues /\ q.pending = queue.pending /\ q.closing = queue.closing
  BY DEF TypeOK, Queues
<1>2. queue' = Advance(q) /\ worker' = Waiting
  BY DEF ReleaseMutation
<1> HIDE DEF q
<1> QED BY <1>1, <1>2, AdvancePromotes

\* A worker that is no longer busy sets the event.
LEMMA FreedEffect ==
    ASSUME TypeOK, queue' = Signal([queue EXCEPT !.busy = FALSE])
    PROVE  /\ queue' \in Queues /\ Woken(queue')
           /\ queue'.active = queue.active /\ queue'.pending = queue.pending
           /\ queue'.dispatched = queue.dispatched /\ queue'.closing = queue.closing
<1> DEFINE q == [queue EXCEPT !.busy = FALSE]
<1>1. /\ q \in Queues /\ q.active = queue.active /\ q.pending = queue.pending
      /\ q.dispatched = queue.dispatched /\ q.closing = queue.closing
  BY DEF TypeOK, Queues
<1>2. queue' = Signal(q)
  OBVIOUS
<1> HIDE DEF q
<1> QED BY <1>1, <1>2, SignalWakes

\* What the service publishes only grows.
LEMMA ServiceGrows ==
    ASSUME TypeOK, Next
    PROVE  /\ service' \in Services
           /\ Envelope(service) \in Envelopes /\ Real(Envelope(service))
           /\ Upto(Envelope(service), Envelope(service'))
           /\ service.generation # 0 => service'.generation # 0
<1>0. service \in Services /\ service.generation + 1 \in Nat /\ service.instance + 1 \in Nat
  BY DEF TypeOK, Services
<1>1. Envelope(service) \in Envelopes /\ Real(Envelope(service))
  BY <1>0 DEF Envelope, Envelopes, Services, Real, NoEnvelope
<1>2. ASSUME NEW s \in Services, s.instance = service.instance,
             s.generation \in {service.generation, service.generation + 1},
             service' = s \/ service' = Published(s)
      PROVE  /\ service' \in Services /\ Upto(Envelope(service), Envelope(service'))
             /\ service.generation # 0 => service'.generation # 0
  <2>1. /\ service' \in Services /\ service'.instance = s.instance
        /\ service'.generation = s.generation
    BY <1>2 DEF Published, Services
  <2> QED BY <1>0, <1>2, <2>1 DEF Upto, Envelope, Services
<1>3. ASSUME service' = Restarted
      PROVE  /\ service' \in Services /\ Upto(Envelope(service), Envelope(service'))
             /\ service.generation # 0 => service'.generation # 0
  <2>1. /\ service' \in Services /\ service'.instance = service.instance + 1
        /\ service'.generation = 1
    BY <1>0, <1>3 DEF Restarted, Services, Phases
  <2> QED BY <1>0, <2>1 DEF Upto, Envelope, Services
<1>4. CASE UNCHANGED service
  BY <1>0, <1>1, <1>2, <1>4
<1>5. CASE ServeRead
  <2>1. ASSUME NEW ok \in BOOLEAN
        PROVE /\ Refreshed(ok) \in Services /\ Refreshed(ok).instance = service.instance
              /\ Refreshed(ok).generation \in {service.generation, service.generation + 1}
    BY <1>0 DEF Refreshed, Services, Phases
  <2>2. device \in BOOLEAN
    BY DEF TypeOK
  <2>3. \/ service' = Published(service)
        \/ service' = Published(Refreshed(device))
        \/ service' = Published(Refreshed(FALSE))
    BY <1>5 DEF ServeRead, Answered
  <2> QED BY <1>0, <1>1, <1>2, <2>1, <2>2, <2>3
<1>6. CASE ServeAdmin
  <2>1. /\ [service EXCEPT !.up = FALSE] \in Services
        /\ [service EXCEPT !.up = FALSE].instance = service.instance
        /\ [service EXCEPT !.up = FALSE].generation = service.generation
    BY <1>0 DEF Services
  <2>2. service' = [service EXCEPT !.up = FALSE] \/ service' = Restarted \/ UNCHANGED service
    BY <1>6 DEF ServeAdmin
  <2> QED BY <1>1, <1>2, <1>3, <1>4, <2>1, <2>2
<1>7. CASE AnswerMutation
  BY <1>0, <1>1, <1>2, <1>7 DEF AnswerMutation
<1>8. CASE RestartService
  BY <1>1, <1>3, <1>8 DEF RestartService
<1>9. CASE DeliverToService
  <2>1. /\ service' \in Services /\ service'.instance = service.instance
        /\ service'.generation \in {service.generation, service.generation + 1}
    BY <1>0, <1>9 DEF DeliverToService, Services, Phases
  <2> QED BY <1>1, <1>2, <2>1
<1> QED BY <1>1, <1>4, <1>5, <1>6, <1>7, <1>8, <1>9
        DEF Next, WorkerStep, HandleMessage, Edit, QueueMutation, Refresh, ToggleService, Close,
            Dismiss, ReconnectTick, TelemetryTick, HandleRead, HandleAdmin, HandleMutation,
            HandleCue, Take, Check, FinishMutation, PostMutation, PostRead, ReleaseRead,
            ReadFails, ExecuteMutation, MutationFails, AllocFails, DeviceChanges, DeliverToGui

\* Every step keeps the types of model, epochs, window and queue, and no mutation
\* waits behind none.
LEMMA WindowTypes ==
    ASSUME TypeOK, queue.closing => queue.pending = NoWork, Next
    PROVE  /\ model' \in Models /\ epochs' \in EpochSets /\ window' \in Windows
           /\ queue' \in Queues
           /\ queue'.pending # NoWork => queue'.active # NoWork
<1>0. /\ model \in Models /\ epochs \in EpochSets /\ window \in Windows /\ queue \in Queues
      /\ queue.pending # NoWork => queue.active # NoWork
  BY DEF TypeOK
<1>1. CASE UNCHANGED <<model, epochs, window, queue>>
  BY <1>0, <1>1
<1>2. CASE Edit
  BY <1>0, <1>2 DEF Edit, Windows
<1>3. ASSUME NEW kind \in {"apply", "reset"}, QueueMutation(kind)
      PROVE  /\ model' \in Models /\ epochs' \in EpochSets /\ window' \in Windows
             /\ queue' \in Queues
             /\ queue'.pending # NoWork => queue'.active # NoWork
  <2>1. /\ queue' \in Queues
        /\ queue'.pending # NoWork => queue'.active # NoWork
    BY <1>0, <1>3, QueueMutationQueue
  <2>2. window' \in Windows
    BY <1>0, <1>3 DEF QueueMutation, Windows
  <2> QED BY <1>0, <1>3, <2>1, <2>2 DEF QueueMutation
<1>4. CASE Refresh
  <2>1. /\ UNCHANGED window
        /\ \/ queue' = QueueFullSync(queue) /\ UNCHANGED <<model, epochs>>
           \/ BeginFullSync(queue)
    BY <1>4 DEF Refresh
  <2> QED BY <1>0, <2>1, FullSyncWakes, BeginFullSyncType
<1>5. CASE ToggleService
  <2> DEFINE q == [queue EXCEPT !.admin = IF service.up THEN "remove" ELSE "install",
                                !.telemetry = FALSE]
  <2>1. q \in Queues /\ q.active = queue.active /\ q.pending = queue.pending
    BY <1>0 DEF Queues
  <2>2. UNCHANGED window /\ BeginFullSync(Signal(q))
    BY <1>5 DEF ToggleService
  <2> HIDE DEF q
  <2>3. /\ Signal(q) \in Queues
        /\ Signal(q).active = queue.active /\ Signal(q).pending = queue.pending
    BY <2>1, SignalWakes
  <2> QED BY <1>0, <2>2, <2>3, FullSyncWakes, BeginFullSyncType
<1>6. CASE ReconnectTick
  BY <1>0, <1>6, FullSyncWakes DEF ReconnectTick
<1>7. CASE TelemetryTick
  <2>1. QueueTelemetry(queue) \in Queues /\ QueueTelemetry(queue).active = queue.active
        /\ QueueTelemetry(queue).pending = queue.pending
    <3> DEFINE s == [queue EXCEPT !.telemetry = TRUE]
    <3>1. s \in Queues /\ s.active = queue.active /\ s.pending = queue.pending
      BY <1>0 DEF Queues
    <3>2. QueueTelemetry(queue) = queue \/ QueueTelemetry(queue) = Signal(s)
      BY DEF QueueTelemetry
    <3> HIDE DEF s
    <3> QED BY <1>0, <3>1, <3>2, SignalWakes
  <2> QED BY <1>0, <1>7, <2>1, FullSyncWakes DEF TelemetryTick
<1>8. CASE Close
  BY <1>0, <1>8, Constants DEF Close, Queues
<1>9. CASE HandleRead
  BY <1>0, <1>9, HandleReadEffect, RetireDropsPending DEF Effect
<1>10. CASE HandleAdmin
  BY <1>0, <1>10, HandleAdminEffect DEF HandleAdmin, Fades
<1>11. CASE HandleMutation
  <2>1. PICK q \in Queues : /\ q.pending # NoWork => q.active # NoWork
                            /\ \/ \E w \in Windows : Effect(q, w)
                               \/ queue' = q /\ window' \in Windows /\ UNCHANGED <<model, epochs>>
    BY <1>0, <1>11, HandleMutationEffect, AdvancePromotes
  <2> QED BY <1>0, <2>1, RetireDropsPending DEF Effect
<1>12. CASE Dismiss
  BY <1>0, <1>12, AdvancePromotes DEF Dismiss, Acknowledged, Windows
<1>13. CASE HandleCue
  BY <1>0, <1>13, CueEffect, RetireDropsPending DEF HandleCue
<1>14. CASE Take
  BY <1>0, <1>14, TakeEffect DEF Take
<1>15. CASE FinishMutation
  <2>1. worker.envelope.instance \in Nat
    BY DEF TypeOK, Workers, Envelopes
  <2> QED BY <1>0, <1>15, <2>1, RecordedType DEF FinishMutation, Queues
<1>16. CASE PostMutation
  BY <1>0, <1>16, ReleaseEffect DEF PostMutation
<1>17. CASE PostRead
  <2>1. worker.envelope.instance \in Nat
    BY DEF TypeOK, Workers, Envelopes
  <2> QED BY <1>0, <1>17, <2>1, RecordedType DEF PostRead
<1>18. CASE ReleaseRead
  BY <1>0, <1>18, FreedEffect DEF ReleaseRead
<1>19. CASE AllocFails
  <2>1. ReleaseMutation \/ queue' = Signal([queue EXCEPT !.busy = FALSE])
    BY <1>19 DEF AllocFails
  <2> QED BY <1>0, <1>19, <2>1, FreedEffect, ReleaseEffect DEF AllocFails
<1> QED BY <1>1, <1>2, <1>3, <1>4, <1>5, <1>6, <1>7, <1>8, <1>9, <1>10, <1>11, <1>12, <1>13,
           <1>14, <1>15, <1>16, <1>17, <1>18, <1>19
        DEF Next, WorkerStep, HandleMessage, Check, ServeRead, ReadFails, ServeAdmin,
            ExecuteMutation, AnswerMutation, MutationFails, RestartService, DeviceChanges,
            DeliverToService, DeliverToGui

\* Every step keeps the types of the worker and of the messages.
LEMMA WorkerTypes ==
    ASSUME TypeOK, Next
    PROVE  worker' \in Workers /\ posted' \in Seq(Messages)
<1>0. worker \in Workers /\ posted \in Seq(Messages) /\ <<>> \in Seq(Messages)
  BY DEF TypeOK
<1>1. CASE UNCHANGED <<worker, posted>>
  BY <1>0, <1>1
<1>2. CASE Close
  BY <1>0, <1>2 DEF Close
<1>3. ASSUME NEW kind, Message(kind), UNCHANGED worker
      PROVE  worker' \in Workers /\ posted' \in Seq(Messages)
  BY <1>0, <1>3, MessageTaken
<1>4. CASE Take
  BY <1>0, <1>4, TakeEffect DEF Take
<1>5. CASE Check
  BY <1>0, <1>5 DEF Check, Workers, Outcomes
<1>6. CASE FinishMutation
  BY <1>0, <1>6 DEF FinishMutation, Workers
<1>7. CASE PostMutation
  <2>1. \/ posted' = Append(posted, Completion("mutation")) /\ worker' = Waiting
        \/ ReleaseMutation /\ UNCHANGED posted
    BY <1>7 DEF PostMutation
  <2> QED BY <1>0, <2>1, Constants, CompletionType, MessagePosted, ReleaseEffect
<1>8. CASE PostRead
  <2> DEFINE recorded == Recorded(worker.envelope.instance)
             kind == IF worker.kind \in {"install", "remove"} THEN "admin" ELSE "read"
             msg == [Completion(kind) EXCEPT !.connection = recorded.connection]
  <2>1. worker.envelope.instance \in Nat
    BY <1>0 DEF Workers, Envelopes
  <2>2. recorded.connection \in Nat
    BY <2>1, RecordedType DEF EpochSets
  <2>3. Completion(kind) \in Messages
    BY CompletionType
  <2>4. /\ posted' = Append(posted, msg) \/ UNCHANGED posted
        /\ worker' = [worker EXCEPT !.stage = "readPosted"]
    BY <1>8 DEF PostRead
  <2> HIDE DEF recorded, kind
  <2>5. msg \in Messages
    BY <2>2, <2>3 DEF Messages
  <2> HIDE DEF msg
  <2>6. posted' \in Seq(Messages)
    BY <1>0, <2>4, <2>5, MessagePosted
  <2> QED BY <1>0, <2>4, <2>6 DEF Workers
<1>9. CASE ReleaseRead
  BY <1>0, <1>9, Constants DEF ReleaseRead
<1>10. CASE AllocFails
  BY <1>0, <1>10, Constants, ReleaseEffect DEF AllocFails
<1>11. CASE ServeRead
  <2>2. PICK s : Answered(s) /\ service' = Published(s)
    BY <1>11 DEF ServeRead, Answered
  <2>3. Envelope(s) = Envelope(service') /\ Envelope(service') \in Envelopes
    <3>1. service' \in Services
      BY ServiceGrows
    <3>2. Envelope(service') \in Envelopes
      BY <3>1 DEF Envelope, Envelopes, Services
    <3>3. Envelope(s) = Envelope(service')
      BY <2>2 DEF Published, Envelope
    <3> QED BY <3>2, <3>3
  <2>4. /\ worker' = [worker EXCEPT !.stage = "read", !.outcome = "answered",
                                    !.envelope = Envelope(service')]
        /\ UNCHANGED posted
    BY <1>11, <2>2, <2>3 DEF ServeRead, Answered
  <2> QED BY <1>0, <2>3, <2>4 DEF Workers, Outcomes
<1>12. CASE ReadFails
  BY <1>0, <1>12 DEF ReadFails, Workers, Outcomes
<1>13. CASE ServeAdmin
  BY <1>0, <1>13 DEF ServeAdmin, Workers, Outcomes
<1>14. CASE ExecuteMutation
  BY <1>0, <1>14 DEF ExecuteMutation, Workers
<1>15. CASE AnswerMutation
  <2>1. Envelope(service) \in Envelopes
    BY ServiceGrows
  <2>2. UNCHANGED posted
        /\ \E outcome \in {"success", "failure", "unknown"} :
             worker' = [worker EXCEPT !.stage = "answered", !.envelope = Envelope(service),
                                      !.outcome = outcome]
    BY <1>15 DEF AnswerMutation
  <2> QED BY <1>0, <2>1, <2>2 DEF Workers, Outcomes
<1>16. CASE MutationFails
  BY <1>0, <1>16 DEF MutationFails, Workers, Outcomes
<1>17. CASE DeliverToGui
  <2> DEFINE msg == [kind |-> "cue", work |-> NoWork, outcome |-> "none",
                     envelope |-> NoEnvelope, presentation |-> 0, connection |-> 0,
                     event |-> Head(cues["gui"])]
  <2>1. cues["gui"] \in Seq(Events) /\ cues["gui"] # <<>>
    BY <1>17 DEF TypeOK, DeliverToGui
  <2>2. Head(cues["gui"]) \in Events
    BY <2>1, HeadTailProperties
  <2>3. msg \in Messages
    BY <2>2, Constants DEF Messages, Outcomes
  <2>4. (posted' = posted \/ posted' = Append(posted, msg)) /\ UNCHANGED worker
    BY <1>17 DEF DeliverToGui
  <2> HIDE DEF msg
  <2> QED BY <1>0, <2>3, <2>4, MessagePosted
<1> QED BY <1>1, <1>2, <1>3, <1>4, <1>5, <1>6, <1>7, <1>8, <1>9, <1>10, <1>11, <1>12, <1>13,
           <1>14, <1>15, <1>16, <1>17
        DEF Next, WorkerStep, HandleMessage, Edit, QueueMutation, Refresh, ToggleService,
            Dismiss, ReconnectTick, TelemetryTick, HandleRead, HandleAdmin, HandleMutation,
            HandleCue, RestartService, DeviceChanges, DeliverToService

\* Every step keeps the scenario and counts its works.
LEMMA BoundTypes ==
    ASSUME TypeOK, Next
    PROVE  /\ budget' \in [works : Nat, upsets : Nat, happens : SUBSET Happenings]
           /\ budget'.works = budget.works
           /\ works' \in 0..budget.works
<1>0. /\ budget \in [works : Nat, upsets : Nat, happens : SUBSET Happenings]
      /\ budget.works \in Nat /\ works \in 0..budget.works
  BY DEF TypeOK
<1>1. CASE UNCHANGED <<budget, works>>
  BY <1>0, <1>1
<1>2. CASE Upset /\ UNCHANGED works
  BY <1>0, <1>2, BudgetShrinks
<1>3. CASE works < budget.works /\ works' = works + 1 /\ UNCHANGED budget
  BY <1>0, <1>3
<1> QED BY <1>1, <1>2, <1>3
        DEF Next, WorkerStep, HandleMessage, Edit, QueueMutation, Refresh, ToggleService, Close,
            Dismiss, ReconnectTick, TelemetryTick, HandleRead, HandleAdmin, HandleMutation,
            HandleCue, Take, Check, FinishMutation, PostMutation, PostRead, ReleaseRead,
            ServeRead, ServeAdmin, ReadFails, ExecuteMutation, AnswerMutation, MutationFails,
            AllocFails, RestartService, DeviceChanges, DeliverToService, DeliverToGui, Fault

\* Every step keeps the types of what was committed and retired.
LEMMA HistoryTypes ==
    ASSUME TypeOK, Next
    PROVE  /\ committed' \in [1..budget'.works -> Authority]
           /\ retired' \subseteq Authority
<1>0. budget'.works = budget.works
  BY BoundTypes
<1>1. /\ committed \in [1..budget.works -> Authority] /\ retired \subseteq Authority
      /\ [instance |-> service.instance, generation |-> service.generation] \in Authority
  BY DEF TypeOK, Authority, Services
<1>2. CASE UNCHANGED <<committed, retired>>
  BY <1>0, <1>1, <1>2
<1>3. CASE ExecuteMutation
  BY <1>0, <1>1, <1>3 DEF ExecuteMutation
<1>4. CASE HandleCue
  BY <1>0, <1>1, <1>4, CueEffect DEF HandleCue
<1> QED BY <1>2, <1>3, <1>4
        DEF Next, WorkerStep, HandleMessage, Edit, QueueMutation, Refresh, ToggleService, Close,
            Dismiss, ReconnectTick, TelemetryTick, HandleRead, HandleAdmin, HandleMutation,
            Take, Check, FinishMutation, PostMutation, PostRead, ReleaseRead,
            ServeRead, ServeAdmin, ReadFails, AnswerMutation, MutationFails,
            AllocFails, RestartService, DeviceChanges, DeliverToService, DeliverToGui

\* Every step keeps the types of the device and its notifications.
LEMMA DeviceTypes ==
    ASSUME TypeOK, Next
    PROVE  device' \in BOOLEAN /\ cues' \in [{"gui", "service"} -> Seq(Events)]
<1>0. /\ device \in BOOLEAN /\ cues \in [{"gui", "service"} -> Seq(Events)]
      /\ <<>> \in Seq(Events)
  BY DEF TypeOK
<1>1. CASE UNCHANGED <<device, cues>>
  BY <1>0, <1>1
<1>2. CASE RestartService
  BY <1>0, <1>2 DEF RestartService
<1>3. CASE DeviceChanges
  <2>1. ASSUME NEW p \in {"gui", "service"}, NEW e \in Events
        PROVE  Append(cues[p], e) \in Seq(Events)
    BY <1>0, AppendProperties
  <2>2. /\ device' = ~device
        /\ cues' = [p \in {"gui", "service"} |->
             IF p = "service" /\ ~service.up THEN cues[p]
             ELSE Append(cues[p], IF device THEN "removed" ELSE "started")]
    BY <1>0, <1>3 DEF DeviceChanges
  <2> QED BY <1>0, <2>1, <2>2 DEF Events
<1>4. ASSUME NEW p \in {"gui", "service"}, cues[p] # <<>>, UNCHANGED device,
             cues' = [cues EXCEPT ![p] = Tail(@)]
      PROVE  device' \in BOOLEAN /\ cues' \in [{"gui", "service"} -> Seq(Events)]
  <2>1. Tail(cues[p]) \in Seq(Events)
    BY <1>0, <1>4, HeadTailProperties
  <2> QED BY <1>0, <1>4, <2>1
<1> QED BY <1>1, <1>2, <1>3, <1>4
        DEF Next, WorkerStep, HandleMessage, Edit, QueueMutation, Refresh, ToggleService, Close,
            Dismiss, ReconnectTick, TelemetryTick, HandleRead, HandleAdmin, HandleMutation,
            HandleCue, Take, Check, FinishMutation, PostMutation, PostRead, ReleaseRead,
            ServeRead, ServeAdmin, ReadFails, ExecuteMutation, AnswerMutation, MutationFails,
            AllocFails, DeliverToService, DeliverToGui

\* Every step keeps the types.
LEMMA StepTypes ==
    ASSUME IInv, Next
    PROVE  TypeOK'
<1>1. TypeOK /\ (queue.closing => queue.pending = NoWork)
  BY DEF IInv, MutationHeld
<1>2. service' \in Services
  BY <1>1, ServiceGrows
<1>3. works' \in 0..budget'.works
  BY <1>1, BoundTypes
<1> QED BY <1>1, <1>2, <1>3, WindowTypes, WorkerTypes, BoundTypes, HistoryTypes, DeviceTypes
        DEF TypeOK

---------------------------------------------------------------------------
(* The worker's wake-up and the one mutation.                              *)

\* The window's queue of messages: a step clears it, takes its head, adds one
\* message or leaves it.
PostedSteps ==
    \/ UNCHANGED posted
    \/ posted' = <<>>
    \/ \E kind : Message(kind)
    \/ \E msg \in Messages :
         /\ posted' = Append(posted, msg)
         /\ \/ msg.kind = "cue" /\ msg.work = NoWork /\ msg.envelope = NoEnvelope
            \/ /\ worker.stage = "posting" /\ msg.kind = "mutation"
               /\ msg.work = worker.work /\ msg.outcome = worker.outcome
               /\ msg.envelope = worker.envelope /\ worker' = Waiting
            \/ /\ worker.stage = "read" /\ msg.kind \in {"read", "admin"}
               /\ msg.work = worker.work /\ msg.envelope = worker.envelope
               /\ worker' = [worker EXCEPT !.stage = "readPosted"]

\* The messages lose their first or gain a last one, which only the worker posts.
LEMMA PostedBySteps ==
    ASSUME TypeOK, Next
    PROVE  PostedSteps
<1>1. CASE PostMutation
  <2>1. UNCHANGED posted \/ (posted' = Append(posted, Completion("mutation")) /\ worker' = Waiting)
    BY <1>1 DEF PostMutation
  <2>2. /\ Completion("mutation").kind = "mutation"
        /\ Completion("mutation").work = worker.work
        /\ Completion("mutation").outcome = worker.outcome
        /\ Completion("mutation").envelope = worker.envelope
    BY DEF Completion
  <2>3. worker.stage = "posting"
    BY <1>1 DEF PostMutation
  <2> QED BY <2>1, <2>2, <2>3, CompletionType DEF PostedSteps
<1>2. CASE PostRead
  <2> DEFINE recorded == Recorded(worker.envelope.instance)
             kind == IF worker.kind \in {"install", "remove"} THEN "admin" ELSE "read"
             msg == [Completion(kind) EXCEPT !.connection = recorded.connection]
  <2>1. worker.envelope.instance \in Nat
    BY DEF TypeOK, Workers, Envelopes
  <2>2. recorded.connection \in Nat
    BY <2>1, RecordedType DEF EpochSets
  <2>3. Completion(kind) \in Messages /\ kind \in {"read", "admin"}
    BY CompletionType
  <2>4. /\ posted' = Append(posted, msg) \/ UNCHANGED posted
        /\ worker' = [worker EXCEPT !.stage = "readPosted"]
        /\ worker.stage = "read"
    BY <1>2 DEF PostRead
  <2> HIDE DEF recorded, kind
  <2>5. msg \in Messages
    BY <2>2, <2>3 DEF Messages
  <2>6. msg.kind = kind /\ msg.work = worker.work /\ msg.envelope = worker.envelope
    BY <2>3 DEF Completion
  <2> HIDE DEF msg
  <2> QED BY <2>3, <2>4, <2>5, <2>6 DEF PostedSteps
<1>3. CASE DeliverToGui
  <2> DEFINE msg == [kind |-> "cue", work |-> NoWork, outcome |-> "none",
                     envelope |-> NoEnvelope, presentation |-> 0, connection |-> 0,
                     event |-> Head(cues["gui"])]
  <2>1. cues["gui"] \in Seq(Events) /\ cues["gui"] # <<>>
    BY <1>3 DEF TypeOK, DeliverToGui
  <2>2. Head(cues["gui"]) \in Events
    BY <2>1, HeadTailProperties
  <2>3. msg \in Messages
    BY <2>2, Constants DEF Messages, Outcomes
  <2>4. posted' = posted \/ posted' = Append(posted, msg)
    BY <1>3 DEF DeliverToGui
  <2>5. msg.kind = "cue" /\ msg.work = NoWork /\ msg.envelope = NoEnvelope
    OBVIOUS
  <2> HIDE DEF msg
  <2> QED BY <2>3, <2>4, <2>5 DEF PostedSteps
<1>4. CASE posted' = <<>> \/ UNCHANGED posted
  BY <1>4 DEF PostedSteps
<1>5. CASE HandleMessage
  BY <1>5 DEF PostedSteps, HandleMessage, HandleRead, HandleAdmin, HandleMutation, HandleCue
<1> QED BY <1>1, <1>2, <1>3, <1>4, <1>5
        DEF Next, WorkerStep, Edit, QueueMutation, Refresh, ToggleService, Close,
            Dismiss, ReconnectTick, TelemetryTick, Take, Check, FinishMutation, ReleaseRead,
            ServeRead, ServeAdmin, ReadFails, ExecuteMutation, AnswerMutation, MutationFails,
            AllocFails, RestartService, DeviceChanges, DeliverToService

\* No message becomes a mutation's that was not one before.
Carried ==
    \E k \in {0, 1} :
        \A i \in DOMAIN posted' :
            IsMutation(i)' => /\ i + k \in DOMAIN posted
                              /\ posted'[i] = posted[i + k]

\* Unless the worker posts, every message was there before.
LEMMA NothingNewCarried ==
    ASSUME TypeOK, TypeOK', PostedSteps, worker.stage # "posting" \/ worker' # Waiting
    PROVE  Carried
<1>1. CASE UNCHANGED posted
  <2>1. \A i \in DOMAIN posted : i + 0 = i
    BY LenProperties DEF TypeOK
  <2> QED BY <1>1, <2>1 DEF Carried
<1>2. CASE posted' = <<>>
  BY <1>2 DEF Carried
<1>3. ASSUME NEW kind, Message(kind) PROVE Carried
  <2>1. \A i \in DOMAIN posted' : i + 1 \in DOMAIN posted /\ posted'[i] = posted[i + 1]
    BY <1>3, MessageTaken
  <2> QED BY <2>1 DEF Carried
<1>4. ASSUME NEW msg \in Messages, posted' = Append(posted, msg), msg.kind # "mutation"
      PROVE  Carried
  <2>1. /\ DOMAIN posted' = 1..(Len(posted) + 1) /\ DOMAIN posted = 1..Len(posted)
        /\ Len(posted) \in Nat
        /\ posted'[Len(posted) + 1].kind # "mutation"
        /\ \A i \in DOMAIN posted : posted'[i] = posted[i]
    BY <1>4, MessagePosted
  <2>2. ASSUME NEW i \in DOMAIN posted', IsMutation(i)'
        PROVE  i + 0 \in DOMAIN posted /\ posted'[i] = posted[i + 0]
    <3>1. posted'[i].kind = "mutation"
      BY <2>2 DEF IsMutation
    <3>2. i # Len(posted) + 1
      BY <2>1, <3>1
    <3>3. i \in 1..Len(posted) /\ i + 0 = i
      BY <2>1, <3>2
    <3> QED BY <2>1, <3>3
  <2> QED BY <2>2 DEF Carried
<1> QED BY <1>1, <1>2, <1>3, <1>4 DEF PostedSteps

\* A step that starts, posts and ends no mutation.
LEMMA MutationStaysWhereItIs ==
    ASSUME MutationHeld, Carried, TypeOK',
           Mutating' => Mutating /\ worker'.work = worker.work,
           window'.dialog => window.dialog,
           queue.active # NoWork => queue'.active = queue.active
                                    /\ queue'.dispatched = queue.dispatched,
           queue'.closing => queue'.pending = NoWork
    PROVE  MutationHeld'
<1>1. PICK k \in {0, 1} : \A i \in DOMAIN posted' :
        IsMutation(i)' => i + k \in DOMAIN posted /\ posted'[i] = posted[i + k]
  BY DEF Carried
<1>2. \A i \in DOMAIN posted' : IsMutation(i)' => i + k \in DOMAIN posted /\ IsMutation(i + k)
  BY <1>1 DEF IsMutation
<1>3. MutationPosted' => MutationPosted
  BY <1>2 DEF MutationPosted
<1>4. ASSUME NEW i \in DOMAIN posted', NEW j \in DOMAIN posted',
             IsMutation(i)', IsMutation(j)'
      PROVE  i = j
  <2>1. i + k = j + k
    BY <1>2, <1>4 DEF MutationHeld
  <2>2. i \in Nat /\ j \in Nat /\ k \in Nat
    BY LenProperties DEF TypeOK
  <2> QED BY <2>1, <2>2
<1>5. \A i, j \in DOMAIN posted' : IsMutation(i)' /\ IsMutation(j)' => i = j
  BY <1>4
<1> QED BY <1>3, <1>5 DEF MutationHeld

\* Without worker, message or dialog there is no mutation to hold.
LEMMA NothingIsHeld ==
    ASSUME ~Mutating', ~window'.dialog, ~MutationPosted', queue'.closing => queue'.pending = NoWork
    PROVE  MutationHeld'
BY DEF MutationHeld, MutationPosted

\* A mutation's completion does not come from nowhere.
LEMMA NoMutationCarried ==
    ASSUME Carried, ~MutationPosted
    PROVE  ~MutationPosted'
BY DEF Carried, MutationPosted, IsMutation

\* Every step keeps one mutation in one place: with the worker, in the window's queue,
\* or in the dialog.
LEMMA StepHeld ==
    ASSUME IInv, Next
    PROVE  MutationHeld'
<1>0. /\ TypeOK /\ MutationHeld /\ TypeOK' /\ PostedSteps
      /\ queue \in Queues /\ window \in Windows
  BY StepTypes, PostedBySteps DEF IInv, TypeOK
<1>1. ASSUME worker.stage # "posting" \/ worker' # Waiting,
             Mutating' => Mutating /\ worker'.work = worker.work,
             window'.dialog => window.dialog,
             queue.active # NoWork => queue'.active = queue.active
                                      /\ queue'.dispatched = queue.dispatched,
             queue'.closing => queue'.pending = NoWork
      PROVE  MutationHeld'
  BY <1>0, <1>1, NothingNewCarried, MutationStaysWhereItIs
<1>2. ASSUME UNCHANGED worker, window'.dialog => window.dialog,
             queue.active # NoWork => queue'.active = queue.active
                                      /\ queue'.dispatched = queue.dispatched,
             queue'.closing => queue'.pending = NoWork
      PROVE  MutationHeld'
  <2>1. (Mutating' => Mutating) /\ worker'.work = worker.work
    BY <1>2 DEF Mutating
  <2>2. worker.stage # "posting" \/ worker' # Waiting
    BY <1>2, Constants
  <2> QED BY <1>1, <1>2, <2>1, <2>2
<1>3. CASE Edit
  <2>1. window'.dialog = window.dialog
    BY <1>0, <1>3 DEF Edit, Windows
  <2> QED BY <1>0, <1>3, <1>2, <2>1 DEF Edit, MutationHeld
<1>4. ASSUME NEW kind \in {"apply", "reset"}, QueueMutation(kind) PROVE MutationHeld'
  <2>1. /\ queue.active # NoWork => /\ queue'.active = queue.active
                                    /\ queue'.dispatched = queue.dispatched
        /\ queue'.closing = queue.closing
    BY <1>0, <1>4, QueueMutationQueue
  <2>2. ~queue.closing /\ UNCHANGED <<worker, posted>>
    BY <1>4 DEF QueueMutation
  <2>3. window'.dialog = window.dialog
    BY <1>0, <1>4 DEF QueueMutation, Windows
  <2> QED BY <1>2, <2>1, <2>2, <2>3
<1>5. ASSUME NEW q \in Queues, q.active = queue.active, q.dispatched = queue.dispatched,
             q.pending = queue.pending, q.closing = queue.closing,
             queue' = q \/ queue' = QueueFullSync(q), UNCHANGED <<worker, posted, window>>
      PROVE  MutationHeld'
  BY <1>0, <1>5, <1>2, FullSyncWakes DEF MutationHeld
<1>6. CASE Refresh
  <2>1. /\ UNCHANGED <<worker, posted, window>>
        /\ queue' = QueueFullSync(queue)
    BY <1>6 DEF Refresh, BeginFullSync
  <2> QED BY <1>0, <1>5, <2>1
<1>7. CASE ToggleService
  <2> DEFINE q == [queue EXCEPT !.admin = IF service.up THEN "remove" ELSE "install",
                                !.telemetry = FALSE]
  <2>1. /\ q \in Queues /\ q.active = queue.active /\ q.pending = queue.pending
        /\ q.dispatched = queue.dispatched /\ q.closing = queue.closing
    BY <1>0 DEF Queues
  <2>2. /\ UNCHANGED <<worker, posted, window>>
        /\ queue' = QueueFullSync(Signal(q))
    BY <1>7 DEF ToggleService, BeginFullSync
  <2> HIDE DEF q
  <2> QED BY <1>5, <2>1, <2>2, SignalWakes
<1>8. CASE ReconnectTick
  BY <1>0, <1>5, <1>8 DEF ReconnectTick
<1>9. CASE TelemetryTick
  <2>1. /\ QueueTelemetry(queue) \in Queues
        /\ QueueTelemetry(queue).active = queue.active
        /\ QueueTelemetry(queue).pending = queue.pending
        /\ QueueTelemetry(queue).dispatched = queue.dispatched
        /\ QueueTelemetry(queue).closing = queue.closing
    <3> DEFINE s == [queue EXCEPT !.telemetry = TRUE]
    <3>1. /\ s \in Queues /\ s.active = queue.active /\ s.pending = queue.pending
          /\ s.dispatched = queue.dispatched /\ s.closing = queue.closing
      BY <1>0 DEF Queues
    <3>2. QueueTelemetry(queue) = queue \/ QueueTelemetry(queue) = Signal(s)
      BY DEF QueueTelemetry
    <3> HIDE DEF s
    <3> QED BY <1>0, <3>1, <3>2, SignalWakes
  <2>2. /\ UNCHANGED <<worker, posted, window>>
        /\ queue' = QueueTelemetry(queue) \/ queue' = QueueFullSync(queue)
    BY <1>9 DEF TelemetryTick
  <2> QED BY <1>0, <1>5, <2>1, <2>2
<1>10. CASE Close
  <2>1. /\ UNCHANGED <<worker, window>> /\ posted' = <<>>
        /\ queue'.active = queue.active /\ queue'.dispatched = queue.dispatched
        /\ queue'.pending = NoWork
    BY <1>0, <1>10 DEF Close, Queues
  <2> QED BY <1>2, <2>1
<1>11. ASSUME Message("read") \/ Message("admin") \/ Message("cue"), UNCHANGED worker,
              window'.dialog = window.dialog,
              UNCHANGED queue \/ queue' = RetirePending(queue)
       PROVE  MutationHeld'
  <2>1. /\ queue'.active = queue.active /\ queue'.dispatched = queue.dispatched
        /\ queue'.closing => queue'.pending = NoWork
    BY <1>0, <1>11, RetireDropsPending DEF MutationHeld
  <2>2. Carried
    <3>1. \A i \in DOMAIN posted' : i + 1 \in DOMAIN posted /\ posted'[i] = posted[i + 1]
      BY <1>0, <1>11, MessageTaken
    <3> QED BY <3>1 DEF Carried
  <2>3. Mutating' => Mutating /\ worker'.work = worker.work
    BY <1>11 DEF Mutating
  <2> QED BY <1>0, <1>11, <2>1, <2>2, <2>3, MutationStaysWhereItIs
<1>12. CASE HandleRead
  <2>1. window'.dialog = window.dialog /\ (UNCHANGED queue \/ queue' = RetirePending(queue))
    BY <1>0, <1>12, HandleReadEffect DEF Effect
  <2>2. Message("read") /\ UNCHANGED worker
    BY <1>12 DEF HandleRead
  <2> QED BY <1>11, <2>1, <2>2
<1>13. CASE HandleAdmin
  <2>1. Message("admin") /\ UNCHANGED <<worker, window, queue>>
    BY <1>13 DEF HandleAdmin
  <2> QED BY <1>11, <2>1
<1>14. CASE HandleCue
  <2>1. window'.dialog = window.dialog /\ queue' = RetirePending(queue)
    BY <1>0, <1>14, CueEffect DEF HandleCue
  <2>2. Message("cue") /\ UNCHANGED worker
    BY <1>14 DEF HandleCue
  <2> QED BY <1>11, <2>1, <2>2
<1>15. CASE HandleMutation
  <2>1. Message("mutation") /\ UNCHANGED worker
    BY <1>15 DEF HandleMutation
  <2>2. /\ 1 \in DOMAIN posted /\ IsMutation(1)
        /\ \A i \in DOMAIN posted' : i + 1 \in DOMAIN posted /\ posted'[i] = posted[i + 1]
    BY <1>0, <2>1, MessageTaken DEF IsMutation
  <2>3. ~Mutating /\ queue.active # NoWork /\ queue.dispatched
    BY <1>0, <2>2 DEF MutationHeld, MutationPosted
  <2>4. ~MutationPosted'
    <3>1. ASSUME NEW i \in DOMAIN posted', IsMutation(i)' PROVE FALSE
      <4>1. i + 1 \in DOMAIN posted /\ IsMutation(i + 1)
        BY <2>2, <3>1 DEF IsMutation
      <4>2. i + 1 = 1
        BY <1>0, <2>2, <4>1 DEF MutationHeld
      <4>3. i \in Nat \ {0}
        BY <1>0, LenProperties DEF TypeOK
      <4> QED BY <4>2, <4>3
    <3> QED BY <3>1 DEF MutationPosted
  <2>5. ~Mutating'
    BY <2>1, <2>3 DEF Mutating
  <2>6. PICK dialog \in BOOLEAN, q \in Queues, w \in Windows :
          /\ q = IF dialog THEN queue ELSE Advance(queue)
          /\ w.dialog = dialog
          /\ Effect(q, w) \/ (queue' = q /\ window' = w)
    BY <1>0, <1>15, HandleMutationEffect
  <2>7. /\ window'.dialog = dialog
        /\ queue' = q \/ queue' = RetirePending(q)
    BY <2>6 DEF Effect
  <2>8. q.closing => q.pending = NoWork
    BY <1>0, <2>6, AdvancePromotes DEF MutationHeld
  <2>9. /\ queue'.active = q.active /\ queue'.dispatched = q.dispatched
        /\ queue'.closing => queue'.pending = NoWork
    BY <2>7, <2>8, RetireDropsPending
  <2>10. CASE dialog
    BY <2>3, <2>4, <2>5, <2>6, <2>7, <2>9, <2>10 DEF MutationHeld, MutationPosted
  <2>11. CASE ~dialog
    BY <2>4, <2>5, <2>7, <2>9, <2>11, NothingIsHeld
  <2> QED BY <2>10, <2>11
<1>16. CASE Dismiss
  <2>1. /\ window.dialog /\ UNCHANGED <<worker, posted>>
        /\ queue' = Advance(queue) /\ window' = Acknowledged(window, queue')
    BY <1>16 DEF Dismiss
  <2>2. ~Mutating' /\ ~MutationPosted'
    BY <1>0, <2>1 DEF MutationHeld, Mutating, MutationPosted, IsMutation
  <2>3. ~window'.dialog
    BY <1>0, <2>1 DEF Acknowledged, Windows
  <2>4. queue'.closing => queue'.pending = NoWork
    BY <1>0, <2>1, AdvancePromotes DEF MutationHeld
  <2> QED BY <2>2, <2>3, <2>4, NothingIsHeld
<1>17. CASE Take
  <2>1. worker.stage = "waiting" /\ UNCHANGED <<posted, window>>
    BY <1>17 DEF Take
  <2>2. /\ queue'.active = queue.active /\ queue'.pending = queue.pending
        /\ queue'.closing = queue.closing
        /\ \/ worker'.stage \in {"stopped", "waiting", "reading"}
              /\ queue'.dispatched = queue.dispatched
           \/ /\ worker'.work = queue.active /\ queue.active # NoWork
              /\ ~queue.dispatched /\ queue'.dispatched
    BY <1>0, <1>17, <2>1, TakeEffect
  <2>3. CASE worker'.stage \in {"stopped", "waiting", "reading"}
             /\ queue'.dispatched = queue.dispatched
    <3>1. worker.stage # "posting" /\ ~Mutating'
      BY <2>1, <2>3 DEF Mutating
    <3> QED BY <1>0, <1>1, <2>1, <2>2, <2>3, <3>1 DEF MutationHeld
  <2>4. CASE /\ worker'.work = queue.active /\ queue.active # NoWork
             /\ ~queue.dispatched /\ queue'.dispatched
    BY <1>0, <2>1, <2>2, <2>4 DEF MutationHeld, MutationPosted, IsMutation
  <2> QED BY <2>2, <2>3, <2>4
<1>18. ASSUME UNCHANGED <<posted, window>>, worker'.work = worker.work, Mutating' => Mutating,
              queue'.active = queue.active, queue'.dispatched = queue.dispatched,
              queue'.pending = queue.pending, queue'.closing = queue.closing
       PROVE  MutationHeld'
  BY <1>0, <1>18 DEF MutationHeld, MutationPosted, IsMutation
<1>19. CASE Check \/ ServeRead \/ ReadFails \/ ServeAdmin \/ ExecuteMutation
            \/ AnswerMutation \/ MutationFails
  <2>1. UNCHANGED <<posted, window, queue>>
    BY <1>19 DEF Check, ServeRead, ReadFails, ServeAdmin, ExecuteMutation, AnswerMutation,
                 MutationFails
  <2>2. worker \in Workers
    BY <1>0 DEF TypeOK
  <2>3. worker'.work = worker.work /\ (Mutating' => Mutating)
    BY <1>19, <2>2 DEF Check, ServeRead, Answered, ReadFails, ServeAdmin, ExecuteMutation,
                       AnswerMutation, MutationFails, Mutating, Workers
  <2> QED BY <1>18, <2>1, <2>3
<1>20. CASE FinishMutation
  <2>1. worker'.work = worker.work /\ (Mutating' => Mutating)
    BY <1>0, <1>20 DEF TypeOK, FinishMutation, Workers, Mutating
  <2>2. /\ queue'.active = queue.active /\ queue'.dispatched = queue.dispatched
        /\ queue'.pending = queue.pending /\ queue'.closing = queue.closing
        /\ UNCHANGED <<posted, window>>
    BY <1>0, <1>20 DEF FinishMutation, Queues
  <2> QED BY <1>18, <2>1, <2>2
<1>21. ASSUME ReleaseMutation, Mutating, UNCHANGED <<posted, window>> PROVE MutationHeld'
  <2>1. /\ worker' = Waiting
        /\ queue'.closing => queue'.pending = NoWork
    BY <1>0, <1>21, ReleaseEffect DEF MutationHeld
  <2>2. ~Mutating'
    BY <2>1, Constants DEF Mutating
  <2>3. ~window'.dialog /\ ~MutationPosted'
    BY <1>0, <1>21 DEF MutationHeld, MutationPosted, IsMutation
  <2> QED BY <2>1, <2>2, <2>3, NothingIsHeld
<1>22. ASSUME UNCHANGED <<posted, window>>, worker' = Waiting,
              queue' = Signal([queue EXCEPT !.busy = FALSE])
       PROVE  MutationHeld'
  <2>1. ~Mutating'
    BY <1>22, Constants DEF Mutating
  <2>2. /\ queue'.active = queue.active /\ queue'.dispatched = queue.dispatched
        /\ queue'.pending = queue.pending /\ queue'.closing = queue.closing
    BY <1>0, <1>22, FreedEffect
  <2> QED BY <1>0, <1>22, <2>1, <2>2 DEF MutationHeld, MutationPosted, IsMutation
<1>23. CASE AllocFails
  BY <1>21, <1>22, <1>23 DEF AllocFails, Mutating
<1>24. CASE ReleaseRead
  BY <1>22, <1>24 DEF ReleaseRead
<1>25. CASE PostMutation
  <2>1. Mutating
    BY <1>25 DEF PostMutation, Mutating
  <2>2. CASE ReleaseMutation /\ UNCHANGED posted
    BY <1>21, <1>25, <2>1, <2>2 DEF PostMutation
  <2>3. CASE /\ posted' = Append(posted, Completion("mutation"))
             /\ worker' = Waiting /\ UNCHANGED queue
    <3>1. ~window.dialog /\ ~MutationPosted /\ queue.active # NoWork /\ queue.dispatched
      BY <1>0, <2>1 DEF MutationHeld
    <3>2. /\ DOMAIN posted' = 1..(Len(posted) + 1) /\ DOMAIN posted = 1..Len(posted)
          /\ Len(posted) \in Nat
          /\ \A i \in DOMAIN posted : posted'[i] = posted[i]
      BY <1>0, <2>3, CompletionType, MessagePosted
    <3>3. ASSUME NEW i \in DOMAIN posted', IsMutation(i)' PROVE i = Len(posted) + 1
      <4>1. i \notin DOMAIN posted
        BY <3>1, <3>2, <3>3 DEF MutationPosted, IsMutation
      <4> QED BY <3>2, <4>1
    <3>4. UNCHANGED window
      BY <1>25 DEF PostMutation
    <3>5. ~Mutating'
      BY <2>3, Constants DEF Mutating
    <3> QED BY <1>0, <2>3, <3>1, <3>3, <3>4, <3>5 DEF MutationHeld
  <2> QED BY <1>25, <2>2, <2>3 DEF PostMutation
<1>26. CASE PostRead
  <2>1. worker.stage # "posting" /\ ~Mutating' /\ UNCHANGED <<window, queue>>
    BY <1>0, <1>26 DEF PostRead, Mutating, TypeOK, Workers
  <2> QED BY <1>0, <1>1, <2>1 DEF MutationHeld
<1>27. CASE DeliverToGui
  <2>1. UNCHANGED <<window, queue, worker>>
    BY <1>27 DEF DeliverToGui
  <2> QED BY <1>0, <1>2, <2>1 DEF MutationHeld
<1>28. CASE RestartService \/ DeviceChanges \/ DeliverToService
  <2>1. UNCHANGED <<posted, window, queue, worker>>
    BY <1>28 DEF RestartService, DeviceChanges, DeliverToService
  <2> QED BY <1>18, <2>1 DEF Mutating
<1> QED BY <1>3, <1>4, <1>6, <1>7, <1>8, <1>9, <1>10, <1>12, <1>13, <1>14, <1>15, <1>16, <1>17,
           <1>19, <1>20, <1>23, <1>24, <1>25, <1>26, <1>27, <1>28
        DEF Next, WorkerStep, HandleMessage

\* Every step that makes work dispatchable, or clears the event, leaves the event set
\* if there is work (the worker loop).
LEMMA StepWoken ==
    ASSUME IInv, Next
    PROVE  NoLostWake'
<1>0. /\ TypeOK /\ MutationHeld /\ queue \in Queues
      /\ worker.stage = "waiting" => Woken(queue)
  BY DEF IInv, TypeOK, NoLostWake, Woken
<1>1. ASSUME Woken(queue') PROVE NoLostWake'
  BY <1>1 DEF NoLostWake, Woken
<1>2. ASSUME worker'.stage # "waiting" PROVE NoLostWake'
  BY <1>2 DEF NoLostWake
<1>3. ASSUME UNCHANGED worker, Woken(queue) => Woken(queue') PROVE NoLostWake'
  BY <1>0, <1>1, <1>2, <1>3
<1>4. ASSUME UNCHANGED <<worker, queue>> PROVE NoLostWake'
  BY <1>3, <1>4
<1>5. ASSUME NEW kind \in {"apply", "reset"}, QueueMutation(kind) PROVE NoLostWake'
  BY <1>0, <1>3, <1>5, QueueMutationQueue DEF QueueMutation
<1>6. ASSUME NEW q \in Queues, queue' = QueueFullSync(q) PROVE NoLostWake'
  BY <1>1, <1>6, FullSyncWakes
<1>7. CASE Refresh \/ ReconnectTick
  BY <1>0, <1>6, <1>7 DEF Refresh, ReconnectTick, BeginFullSync
<1>8. CASE ToggleService
  <2> DEFINE q == [queue EXCEPT !.admin = IF service.up THEN "remove" ELSE "install",
                                !.telemetry = FALSE]
  <2>1. q \in Queues
    BY <1>0 DEF Queues
  <2>2. queue' = QueueFullSync(Signal(q))
    BY <1>8 DEF ToggleService, BeginFullSync
  <2> HIDE DEF q
  <2> QED BY <1>6, <2>1, <2>2, SignalWakes
<1>9. CASE TelemetryTick
  BY <1>0, <1>3, <1>6, <1>9, TelemetryWakes DEF TelemetryTick
<1>10. CASE Close
  BY <1>0, <1>1, <1>10 DEF Close, Queues, Woken
<1>11. ASSUME NEW q \in Queues, Woken(queue) => Woken(q), UNCHANGED worker,
              queue' = q \/ queue' = RetirePending(q)
       PROVE  NoLostWake'
  BY <1>3, <1>11, RetireDropsPending
<1>12. CASE HandleRead
  BY <1>0, <1>11, <1>12, HandleReadEffect DEF HandleRead, Effect
<1>13. CASE HandleMutation
  <2>1. PICK dialog \in BOOLEAN, q \in Queues :
          /\ q = IF dialog THEN queue ELSE Advance(queue)
          /\ queue' = q \/ queue' = RetirePending(q)
    BY <1>0, <1>13, HandleMutationEffect DEF Effect
  <2>2. Woken(queue) => Woken(q)
    BY <1>0, <2>1, AdvancePromotes
  <2> QED BY <1>11, <1>13, <2>1, <2>2 DEF HandleMutation
<1>14. CASE HandleCue
  BY <1>0, <1>11, <1>14 DEF HandleCue
<1>15. CASE Dismiss
  BY <1>0, <1>1, <1>15, AdvancePromotes DEF Dismiss
<1>16. CASE Take
  <2>1. worker'.stage # "waiting" \/ ~Dispatchable(queue')
    BY <1>0, <1>16, TakeEffect
  <2> QED BY <2>1 DEF NoLostWake
<1>17. CASE PostMutation
  <2>1. CASE ReleaseMutation
    BY <1>0, <1>1, <2>1, ReleaseEffect
  <2>2. CASE UNCHANGED queue
    <3>1. queue.active # NoWork /\ queue.dispatched
      BY <1>0, <1>17 DEF PostMutation, MutationHeld, Mutating
    <3> QED BY <2>2, <3>1 DEF NoLostWake, Dispatchable
  <2> QED BY <1>17, <2>1, <2>2 DEF PostMutation
<1>18. CASE AllocFails \/ ReleaseRead
  <2>1. ReleaseMutation \/ queue' = Signal([queue EXCEPT !.busy = FALSE])
    BY <1>18 DEF AllocFails, ReleaseRead
  <2> QED BY <1>0, <1>1, <2>1, ReleaseEffect, FreedEffect
<1>19. CASE Check \/ ServeRead \/ ReadFails \/ ServeAdmin \/ ExecuteMutation
            \/ AnswerMutation \/ MutationFails \/ FinishMutation \/ PostRead
  <2>1. worker'.stage # "waiting"
    BY <1>0, <1>19 DEF Check, ServeRead, Answered, ReadFails, ServeAdmin, ExecuteMutation,
                       AnswerMutation, MutationFails, FinishMutation, PostRead, TypeOK, Workers
  <2> QED BY <1>2, <2>1
<1> QED BY <1>4, <1>5, <1>7, <1>8, <1>9, <1>10, <1>12, <1>13, <1>14, <1>15, <1>16, <1>17,
           <1>18, <1>19
        DEF Next, WorkerStep, HandleMessage, Edit, HandleAdmin, RestartService, DeviceChanges,
            DeliverToService, DeliverToGui

---------------------------------------------------------------------------
(* What the requests were stamped with.                                    *)

\* A mutation's stamp holds until its GPU epoch is over.
LEMMA StampStays ==
    ASSUME IInv, Next, NEW w \in Works, Stamped(w)
    PROVE  Stamped(w)'
<1>0. /\ TypeOK /\ model \in Models /\ epochs.gpu \in Nat /\ budget'.works = budget.works
  BY BoundTypes DEF IInv, TypeOK, EpochSets
<1>1. ASSUME epochs'.gpu = epochs.gpu,
             model.instance # 0 => /\ model'.instance = model.instance
                                   /\ model'.generation \in {model.generation, 0}
      PROVE  Stamped(w)'
  BY <1>0, <1>1 DEF Stamped, Works
<1>2. ASSUME epochs'.gpu = epochs.gpu + 1 PROVE Stamped(w)'
  <2>1. w.gpuEpoch \in Nat /\ (w # NoWork => w.gpuEpoch <= epochs.gpu)
    BY DEF Stamped, Works
  <2>2. w # NoWork => w.gpuEpoch <= epochs'.gpu /\ w.gpuEpoch # epochs'.gpu
    BY <1>0, <1>2, <2>1
  <2> QED BY <1>0, <2>2 DEF Stamped
<1>3. ASSUME epochs'.gpu = epochs.gpu, Fades(model, model') PROVE Stamped(w)'
  BY <1>1, <1>3 DEF Fades
<1>4. ASSUME epochs'.gpu = epochs.gpu, UNCHANGED model PROVE Stamped(w)'
  BY <1>1, <1>4
<1>5. ASSUME NEW q, NEW u, Effect(q, u) PROVE Stamped(w)'
  BY <1>1, <1>2, <1>5 DEF Effect
<1>6. CASE Refresh
  <2>1. (UNCHANGED <<model, epochs>>) \/ BeginFullSync(queue)
    BY <1>6 DEF Refresh
  <2> QED BY <1>0, <1>3, <1>4, <2>1, BeginFullSyncType DEF TypeOK
<1>7. CASE ToggleService
  <2> DEFINE q == [queue EXCEPT !.admin = IF service.up THEN "remove" ELSE "install",
                                !.telemetry = FALSE]
  <2>1. q \in Queues
    BY <1>0 DEF TypeOK, Queues
  <2>2. BeginFullSync(Signal(q))
    BY <1>7 DEF ToggleService
  <2> HIDE DEF q
  <2>3. Signal(q) \in Queues
    BY <2>1, SignalWakes
  <2> QED BY <1>0, <1>3, <2>2, <2>3, BeginFullSyncType
<1>8. CASE HandleRead
  BY <1>0, <1>4, <1>5, <1>8, HandleReadEffect
<1>9. CASE HandleAdmin
  BY <1>0, <1>3, <1>4, <1>9, HandleAdminEffect DEF HandleAdmin
<1>10. CASE HandleMutation
  BY <1>0, <1>4, <1>5, <1>10, HandleMutationEffect
<1>11. CASE HandleCue
  BY <1>0, <1>2, <1>11, CueEffect
<1>12. CASE FinishMutation \/ PostRead
  <2>1. worker.envelope.instance \in Nat
    BY <1>0 DEF TypeOK, Workers, Envelopes
  <2> QED BY <1>0, <1>4, <1>12, <2>1, RecordedType DEF FinishMutation, PostRead
<1> QED BY <1>4, <1>6, <1>7, <1>8, <1>9, <1>10, <1>11, <1>12
        DEF Next, WorkerStep, HandleMessage, Edit, QueueMutation, Close, Dismiss, ReconnectTick,
            TelemetryTick, Take, Check, PostMutation, ReleaseRead, ServeRead, ServeAdmin,
            ReadFails, ExecuteMutation, AnswerMutation, MutationFails, AllocFails,
            RestartService, DeviceChanges, DeliverToService, DeliverToGui

\* What is queued was queued or waited before, or is a request for what the
\* window presents.
LEMMA QueuedBefore ==
    ASSUME IInv, Next
    PROVE  \A w \in {queue'.active, queue'.pending} :
             \/ w \in {queue.active, queue.pending, NoWork}
             \/ /\ ModelReady(model) /\ UNCHANGED <<model, epochs, budget>>
                /\ works < budget.works
                /\ w = [id |-> works + 1, kind |-> w.kind, gpuEpoch |-> epochs.gpu,
                        presentationEpoch |-> epochs.presentation,
                        instance |-> model.instance, generation |-> model.generation]
<1> DEFINE Old == {queue.active, queue.pending, NoWork}
           Keeps(q) == q.active \in Old /\ q.pending \in Old
<1> SUFFICES ASSUME ~\E kind \in {"apply", "reset"} : QueueMutation(kind)
             PROVE  Keeps(queue')
  <2>1. ASSUME NEW kind \in {"apply", "reset"}, QueueMutation(kind)
        PROVE  \A w \in {queue'.active, queue'.pending} :
                 \/ w \in Old
                 \/ /\ ModelReady(model) /\ UNCHANGED <<model, epochs, budget>>
                    /\ works < budget.works
                    /\ w = [id |-> works + 1, kind |-> w.kind, gpuEpoch |-> epochs.gpu,
                            presentationEpoch |-> epochs.presentation,
                            instance |-> model.instance, generation |-> model.generation]
    <3>1. /\ ModelReady(model) /\ UNCHANGED <<model, epochs, budget>>
          /\ works < budget.works
      BY <2>1 DEF QueueMutation
    <3>2. PICK work :
             /\ work = [id |-> works + 1, kind |-> kind, gpuEpoch |-> epochs.gpu,
                        presentationEpoch |-> epochs.presentation,
                        instance |-> model.instance, generation |-> model.generation]
             /\ queue'.active \in {queue.active, work}
             /\ queue'.pending \in {queue.pending, work}
      BY <2>1, QueueMutationQueue DEF IInv
    <3> QED BY <3>1, <3>2
  <2> QED BY <2>1
<1>0. TypeOK /\ queue \in Queues /\ Keeps(queue)
  BY DEF IInv, TypeOK
<1>1. ASSUME NEW q \in Queues, Keeps(q),
             \/ queue' = q \/ queue' = QueueFullSync(q)
             \/ queue' = RetirePending(q) \/ queue' = Signal(q)
      PROVE  Keeps(queue')
  BY <1>1, FullSyncWakes, RetireDropsPending, SignalWakes
<1>2. Advance(queue) \in Queues /\ Keeps(Advance(queue))
  BY <1>0, AdvancePromotes
<1> HIDE DEF Keeps
<1>3. CASE Refresh \/ ReconnectTick \/ HandleCue
  BY <1>0, <1>1, <1>3 DEF Refresh, ReconnectTick, BeginFullSync, HandleCue
<1>4. CASE ToggleService
  <2> DEFINE q == [queue EXCEPT !.admin = IF service.up THEN "remove" ELSE "install",
                                !.telemetry = FALSE]
  <2>1. q \in Queues /\ q.active = queue.active /\ q.pending = queue.pending
    BY <1>0 DEF Queues
  <2>2. queue' = QueueFullSync(Signal(q))
    BY <1>4 DEF ToggleService, BeginFullSync
  <2> HIDE DEF q
  <2>3. Signal(q) \in Queues /\ Keeps(Signal(q))
    BY <2>1, SignalWakes DEF Keeps
  <2> QED BY <1>1, <2>2, <2>3
<1>5. CASE TelemetryTick
  <2> DEFINE s == [queue EXCEPT !.telemetry = TRUE]
  <2>1. s \in Queues /\ Keeps(s)
    BY <1>0 DEF Queues, Keeps
  <2>2. queue' = queue \/ queue' = Signal(s) \/ queue' = QueueFullSync(queue)
    BY <1>5 DEF TelemetryTick, QueueTelemetry
  <2> HIDE DEF s
  <2> QED BY <1>0, <1>1, <2>1, <2>2
<1>6. CASE Close
  BY <1>0, <1>6 DEF Close, Keeps, Queues
<1>7. CASE HandleRead
  BY <1>0, <1>1, <1>7, HandleReadEffect DEF Effect
<1>8. CASE HandleMutation
  <2>1. PICK q \in {queue, Advance(queue)} : queue' = q \/ queue' = RetirePending(q)
    BY <1>0, <1>8, HandleMutationEffect DEF Effect
  <2> QED BY <1>0, <1>1, <1>2, <2>1
<1>9. CASE Dismiss
  BY <1>2, <1>9 DEF Dismiss
<1>10. CASE Take
  BY <1>0, <1>10, TakeEffect DEF Keeps
<1>11. CASE FinishMutation
  BY <1>0, <1>11 DEF FinishMutation, Keeps, Queues
<1>12. CASE AllocFails \/ ReleaseRead \/ PostMutation
  <2>1. \/ UNCHANGED queue \/ ReleaseMutation
        \/ queue' = Signal([queue EXCEPT !.busy = FALSE])
    BY <1>12 DEF AllocFails, ReleaseRead, PostMutation
  <2> QED BY <1>0, <2>1, ReleaseEffect, FreedEffect DEF Keeps
<1>13. CASE UNCHANGED queue
  BY <1>0, <1>13
<1> QED BY <1>3, <1>4, <1>5, <1>6, <1>7, <1>8, <1>9, <1>10, <1>11, <1>12, <1>13
        DEF Next, WorkerStep, HandleMessage, Edit, HandleAdmin, Check, PostRead, ServeRead,
            ServeAdmin, ReadFails, ExecuteMutation, AnswerMutation, MutationFails,
            RestartService, DeviceChanges, DeliverToService, DeliverToGui

\* The worker's request stays, is dropped, or is the active mutation.
LEMMA WorkerHadIt ==
    ASSUME TypeOK, Next
    PROVE  worker'.work \in {worker.work, queue.active, NoWork}
<1>0. worker \in Workers
  BY DEF TypeOK
<1>1. CASE UNCHANGED worker \/ worker' = Waiting
  BY <1>1, Constants
<1>2. CASE Take
  BY <1>0, <1>2, TakeEffect DEF Workers
<1>3. CASE Check \/ ServeRead \/ ReadFails \/ ServeAdmin \/ ExecuteMutation
            \/ AnswerMutation \/ MutationFails \/ FinishMutation \/ PostRead
  BY <1>0, <1>3 DEF Check, ServeRead, Answered, ReadFails, ServeAdmin, ExecuteMutation,
                    AnswerMutation, MutationFails, FinishMutation, PostRead, Workers
<1> QED BY <1>1, <1>2, <1>3
        DEF Next, WorkerStep, HandleMessage, Edit, QueueMutation, Refresh, ToggleService, Close,
            Dismiss, ReconnectTick, TelemetryTick, HandleRead, HandleAdmin, HandleMutation,
            HandleCue, PostMutation, ReleaseRead, AllocFails, ReleaseMutation, RestartService,
            DeviceChanges, DeliverToService, DeliverToGui

\* Every message stays in its order or is the worker's, put last.
MessagesFlow ==
    \E k \in {0, 1} : \A i \in DOMAIN posted' :
        \/ i + k \in DOMAIN posted /\ posted'[i] = posted[i + k]
        \/ /\ k = 0 /\ i = Len(posted) + 1
           /\ posted'[i].work \in {worker.work, NoWork}
           /\ \/ posted'[i].envelope = NoEnvelope
              \/ /\ posted'[i].envelope = worker.envelope
                 /\ worker'.envelope \in {worker.envelope, NoEnvelope}

\* The messages keep their order through every step.
LEMMA MessagesKeepOrder ==
    ASSUME TypeOK, PostedSteps
    PROVE  MessagesFlow
<1>1. CASE UNCHANGED posted
  <2>1. \A i \in DOMAIN posted : i + 0 = i
    BY LenProperties DEF TypeOK
  <2> QED BY <1>1, <2>1 DEF MessagesFlow
<1>2. CASE posted' = <<>>
  BY <1>2 DEF MessagesFlow
<1>3. ASSUME NEW kind, Message(kind) PROVE MessagesFlow
  <2>1. \A i \in DOMAIN posted' : i + 1 \in DOMAIN posted /\ posted'[i] = posted[i + 1]
    BY <1>3, MessageTaken
  <2> QED BY <2>1 DEF MessagesFlow
<1>4. ASSUME NEW msg \in Messages, posted' = Append(posted, msg),
             msg.work \in {worker.work, NoWork},
             \/ msg.envelope = NoEnvelope
             \/ /\ msg.envelope = worker.envelope
                /\ worker'.envelope \in {worker.envelope, NoEnvelope}
      PROVE  MessagesFlow
  <2>1. /\ DOMAIN posted' = 1..(Len(posted) + 1) /\ DOMAIN posted = 1..Len(posted)
        /\ Len(posted) \in Nat
        /\ posted'[Len(posted) + 1] = msg
        /\ \A i \in DOMAIN posted : posted'[i] = posted[i]
    BY <1>4, MessagePosted
  <2>2. ASSUME NEW i \in DOMAIN posted', i # Len(posted) + 1
        PROVE  i + 0 \in DOMAIN posted /\ posted'[i] = posted[i + 0]
    <3>1. i \in 1..Len(posted) /\ i + 0 = i
      BY <2>1, <2>2
    <3> QED BY <2>1, <3>1
  <2> QED BY <1>4, <2>1, <2>2 DEF MessagesFlow
<1>5. worker' = Waiting \/ worker' = [worker EXCEPT !.stage = "readPosted"]
        => worker'.envelope \in {worker.envelope, NoEnvelope}
  BY Constants DEF TypeOK, Workers
<1> QED BY <1>1, <1>2, <1>3, <1>4, <1>5 DEF PostedSteps

\* Every step keeps the stamps current.
LEMMA StepStamps ==
    ASSUME IInv, Next
    PROVE  StampsAreCurrent'
<1>0. /\ TypeOK /\ TypeOK' /\ StampsAreCurrent
      /\ model.accepted => model.instance # 0 /\ model.generation # 0
      /\ queue.active \in Works /\ queue.pending \in Works /\ worker.work \in Works
      /\ budget'.works = budget.works
  BY StepTypes, BoundTypes DEF IInv, RetiredIsBehind, TypeOK, Queues, Workers
<1>1. Stamped(NoWork)
  BY DEF Stamped
<1>2. ASSUME NEW w \in {queue.active, queue.pending, worker.work, NoWork} PROVE Stamped(w)'
  BY <1>0, <1>1, <1>2, Constants, StampStays DEF StampsAreCurrent
<1>3. ASSUME NEW w, ModelReady(model), UNCHANGED <<model, epochs, budget>>,
             works < budget.works,
             w = [id |-> works + 1, kind |-> w.kind, gpuEpoch |-> epochs.gpu,
                  presentationEpoch |-> epochs.presentation,
                  instance |-> model.instance, generation |-> model.generation]
      PROVE  Stamped(w)'
  <2>1. /\ w.id = works + 1 /\ w.gpuEpoch = epochs.gpu
        /\ w.instance = model.instance /\ w.generation = model.generation
    BY <1>3
  <2>2. works \in Nat /\ budget.works \in Nat /\ epochs.gpu \in Nat
    BY <1>0 DEF TypeOK, EpochSets
  <2>3. w.id \in 1..budget.works /\ w.gpuEpoch <= epochs.gpu
    BY <1>3, <2>1, <2>2
  <2> QED BY <1>0, <1>3, <2>1, <2>3 DEF Stamped, ModelReady
<1>4. \A w \in {queue'.active, queue'.pending} : Stamped(w)'
  BY <1>2, <1>3, QueuedBefore
<1>5. Stamped(worker.work)'
  <2>1. PICK w \in {worker.work, queue.active, NoWork} : w = worker'.work
    BY <1>0, WorkerHadIt
  <2>2. Stamped(w)'
    BY <1>2
  <2> QED BY <2>1, <2>2 DEF Stamped
<1>6. ASSUME NEW i \in DOMAIN posted' PROVE Stamped(posted[i].work)'
  <2>1. PICK k \in {0, 1} :
          \/ i + k \in DOMAIN posted /\ posted'[i] = posted[i + k]
          \/ posted'[i].work \in {worker.work, NoWork}
    BY <1>0, PostedBySteps, MessagesKeepOrder DEF MessagesFlow
  <2>2. ASSUME NEW n \in DOMAIN posted, NEW w, w = posted[n].work PROVE Stamped(w)'
    <3>1. posted[n] \in Messages
      BY <1>0, ElementOfSeq, LenProperties DEF TypeOK
    <3>2. w \in Works
      BY <2>2, <3>1 DEF Messages
    <3> QED BY <1>0, <2>2, <3>2, StampStays DEF StampsAreCurrent
  <2>3. PICK w : w = posted'[i].work
    OBVIOUS
  <2>4. Stamped(w)'
    BY <1>2, <2>1, <2>2, <2>3
  <2> QED BY <2>3, <2>4 DEF Stamped
<1> QED BY <1>4, <1>5, <1>6 DEF StampsAreCurrent

---------------------------------------------------------------------------
(* What a success says.                                                    *)

\* Every step keeps a reported success one the service committed under the stamp.
LEMMA StepSuccess ==
    ASSUME IInv, Next
    PROVE  SuccessIsCommitted'
<1>0. /\ TypeOK /\ TypeOK' /\ PostedSteps /\ MutationHeld /\ SuccessIsCommitted
      /\ StampsAreCurrent /\ worker \in Workers
  BY StepTypes, PostedBySteps DEF IInv, TypeOK
<1>1. ASSUME UNCHANGED committed, Carried,
             worker'.stage = "written" => worker.stage = "written",
             worker'.stage \in {"answered", "posting"} /\ worker'.outcome = "success"
               => \/ worker.stage = "written"
                  \/ worker.stage \in {"answered", "posting"} /\ worker.outcome = "success",
             worker'.stage \in {"written", "answered", "posting"} => worker'.work = worker.work
      PROVE  SuccessIsCommitted'
  <2>1. ASSUME NEW i \in DOMAIN posted', IsMutation(i)'
        PROVE  /\ posted'[i].work # NoWork
               /\ posted'[i].outcome = "success" => Written(posted[i].work)'
    <3>1. PICK n \in DOMAIN posted : posted'[i] = posted[n]
      BY <1>1, <2>1 DEF Carried
    <3>2. IsMutation(n)
      BY <2>1, <3>1 DEF IsMutation
    <3> QED BY <1>0, <1>1, <3>1, <3>2 DEF SuccessIsCommitted, Written
  <2>2. worker'.stage = "written" => Written(worker.work)'
    BY <1>0, <1>1 DEF SuccessIsCommitted, Written
  <2>3. worker'.stage \in {"answered", "posting"} /\ worker'.outcome = "success"
          => Written(worker.work)'
    BY <1>0, <1>1 DEF SuccessIsCommitted, Written
  <2> QED BY <2>1, <2>2, <2>3 DEF SuccessIsCommitted
<1>2. ASSUME UNCHANGED <<committed, worker>> PROVE SuccessIsCommitted'
  <2>1. worker.stage # "posting" \/ worker' # Waiting
    BY <1>2, Constants
  <2>2. Carried
    BY <1>0, <2>1, NothingNewCarried
  <2> QED BY <1>1, <1>2, <2>2
<1>3. ASSUME UNCHANGED committed, worker.stage # "posting" \/ worker' # Waiting,
             worker'.stage \in {"waiting", "stopped", "checking", "reading", "read",
                                "readPosted", "sending", "refused"}
      PROVE  SuccessIsCommitted'
  BY <1>0, <1>1, <1>3, NothingNewCarried
<1>4. CASE Take
  BY <1>0, <1>2, <1>3, <1>4, TakeEffect DEF Take
<1>5. CASE Check
  <2>1. \/ worker'.stage = "sending"
        \/ worker'.stage = "answered" /\ worker'.outcome = "notSent"
    BY <1>0, <1>5 DEF Check, Workers
  <2>2. worker'.work = worker.work /\ worker.stage = "checking" /\ UNCHANGED committed
    BY <1>0, <1>5 DEF Check, Workers
  <2>3. Carried
    BY <1>0, <2>2, NothingNewCarried
  <2> QED BY <1>1, <2>1, <2>2, <2>3
<1>6. CASE FinishMutation
  <2>1. /\ worker'.stage = "posting" /\ worker.stage = "answered" /\ UNCHANGED committed
        /\ worker'.outcome = worker.outcome /\ worker'.work = worker.work
    BY <1>0, <1>6 DEF FinishMutation, Workers
  <2>2. Carried
    BY <1>0, <2>1, NothingNewCarried
  <2> QED BY <1>1, <2>1, <2>2
<1>7. CASE PostMutation
  <2>1. worker.stage = "posting" /\ UNCHANGED committed /\ worker' = Waiting
    BY <1>7 DEF PostMutation, ReleaseMutation
  <2>2. CASE UNCHANGED posted
    <3>1. Carried
      <4>1. \A i \in DOMAIN posted : i + 0 = i
        BY <1>0, LenProperties DEF TypeOK
      <4> QED BY <2>2, <4>1 DEF Carried
    <3> QED BY <1>1, <2>1, <3>1, Constants
  <2>3. CASE posted' = Append(posted, Completion("mutation"))
    <3>1. worker.work # NoWork /\ (worker.outcome = "success" => Written(worker.work))
      BY <1>0, <2>1 DEF MutationHeld, Mutating, SuccessIsCommitted
    <3>2. /\ DOMAIN posted' = 1..(Len(posted) + 1) /\ DOMAIN posted = 1..Len(posted)
          /\ Len(posted) \in Nat
          /\ posted'[Len(posted) + 1] = Completion("mutation")
          /\ \A i \in DOMAIN posted : posted'[i] = posted[i]
      BY <1>0, <2>3, CompletionType, MessagePosted
    <3>3. ASSUME NEW i \in DOMAIN posted', IsMutation(i)'
          PROVE  /\ posted'[i].work # NoWork
                 /\ posted'[i].outcome = "success" => Written(posted[i].work)'
      <4>1. CASE i = Len(posted) + 1
        BY <2>1, <3>1, <3>2, <4>1 DEF Completion, Written
      <4>2. CASE i # Len(posted) + 1
        <5>1. i \in DOMAIN posted /\ posted'[i] = posted[i] /\ IsMutation(i)
          BY <3>2, <3>3, <4>2 DEF IsMutation
        <5> QED BY <1>0, <2>1, <5>1 DEF SuccessIsCommitted, Written
      <4> QED BY <4>1, <4>2
    <3> QED BY <2>1, <3>3, Constants DEF SuccessIsCommitted
  <2> QED BY <1>7, <2>2, <2>3 DEF PostMutation
<1>8. CASE PostRead \/ ReleaseRead \/ AllocFails
  <2>1. UNCHANGED committed /\ worker.stage # "posting" /\ worker'.stage \in {"waiting", "readPosted"}
    BY <1>0, <1>8, Constants DEF PostRead, ReleaseRead, AllocFails, ReleaseMutation, Workers
  <2> QED BY <1>3, <2>1
<1>9. CASE ServeRead \/ ReadFails \/ ServeAdmin
  <2>1. UNCHANGED committed /\ worker.stage # "posting" /\ worker'.stage = "read"
    BY <1>0, <1>9 DEF ServeRead, Answered, ReadFails, ServeAdmin, Workers
  <2> QED BY <1>3, <2>1
<1>10. CASE ExecuteMutation
  <2>1. worker.stage = "sending" /\ UNCHANGED posted
    BY <1>10 DEF ExecuteMutation
  <2>2. CASE worker' = [worker EXCEPT !.stage = "refused"] /\ UNCHANGED committed
    BY <1>0, <1>3, <2>1, <2>2 DEF Workers
  <2>3. CASE /\ Preconditions(worker.work)
             /\ worker' = [worker EXCEPT !.stage = "written"]
             /\ committed' = [committed EXCEPT ![worker.work.id] =
                  [instance |-> service.instance, generation |-> service.generation]]
    <3>1. worker.work # NoWork /\ ~MutationPosted
      BY <1>0, <2>1 DEF MutationHeld, Mutating
    <3>2. worker.work.id \in 1..budget.works
      BY <1>0, <3>1 DEF StampsAreCurrent, Stamped
    <3>3. committed \in [1..budget.works -> Authority]
      BY <1>0 DEF TypeOK
    <3>4. worker'.stage = "written" /\ worker'.work = worker.work
      BY <1>0, <2>3 DEF Workers
    <3>5. Written(worker.work)'
      BY <2>3, <3>2, <3>3, <3>4 DEF Written, Preconditions
    <3> QED BY <2>1, <3>1, <3>4, <3>5 DEF SuccessIsCommitted, MutationPosted, IsMutation
  <2> QED BY <1>10, <2>2, <2>3 DEF ExecuteMutation
<1>11. CASE AnswerMutation
  <2>1. /\ worker.stage \in {"written", "refused"} /\ UNCHANGED <<committed, posted>>
        /\ worker'.stage = "answered" /\ worker'.work = worker.work
        /\ worker'.outcome = "success" => worker.stage = "written"
    BY <1>0, <1>11 DEF AnswerMutation, Workers
  <2>2. Carried
    BY <1>0, <2>1, NothingNewCarried
  <2> QED BY <1>1, <2>1, <2>2
<1>12. CASE MutationFails
  <2>1. /\ worker.stage \in {"sending", "written", "refused"} /\ UNCHANGED <<committed, posted>>
        /\ worker'.stage = "answered" /\ worker'.work = worker.work
        /\ worker'.outcome = "unknown"
    BY <1>0, <1>12 DEF MutationFails, Workers
  <2>2. Carried
    BY <1>0, <2>1, NothingNewCarried
  <2> QED BY <1>1, <2>1, <2>2
<1> QED BY <1>2, <1>4, <1>5, <1>6, <1>7, <1>8, <1>9, <1>10, <1>11, <1>12
        DEF Next, WorkerStep, HandleMessage, Edit, QueueMutation, Refresh, ToggleService, Close,
            Dismiss, ReconnectTick, TelemetryTick, HandleRead, HandleAdmin, HandleMutation,
            HandleCue, RestartService, DeviceChanges, DeliverToService, DeliverToGui

---------------------------------------------------------------------------
(* The envelopes in flight.                                                *)

\* The worker's envelope is the one it read from the service, until it waits again.
LEMMA WorkerAnswers ==
    ASSUME IInv, Next
    PROVE  /\ worker'.stage \in NoAnswerYet => worker'.envelope = NoEnvelope
           /\ \/ worker'.envelope \in {worker.envelope, NoEnvelope}
              \/ worker'.envelope = Envelope(service') /\ UNCHANGED posted
<1>0. /\ TypeOK /\ worker \in Workers
      /\ worker.stage \in NoAnswerYet => worker.envelope = NoEnvelope
  BY DEF IInv, TypeOK, AnswersAreOrdered
<1>1. CASE UNCHANGED worker \/ worker' = Waiting
  BY <1>0, <1>1, Constants
<1>2. CASE Take
  <2>1. worker.stage = "waiting"
    BY <1>2 DEF Take
  <2>2. worker'.envelope = NoEnvelope \/ worker' = [worker EXCEPT !.stage = "stopped"]
    BY <1>0, <1>2, <2>1, TakeEffect DEF NoAnswerYet
  <2> QED BY <1>0, <2>1, <2>2 DEF NoAnswerYet, Workers
<1>3. CASE ServeRead
  <2>1. PICK s : Answered(s)
    BY <1>3 DEF ServeRead
  <2>2. Envelope(service') = Envelope(s) /\ worker'.envelope = Envelope(s)
        /\ worker'.stage = "read"
    BY <1>0, <2>1 DEF Answered, Published, Envelope, Workers
  <2> QED BY <1>3, <2>2 DEF ServeRead, NoAnswerYet
<1>4. CASE AnswerMutation
  <2>1. /\ worker'.envelope = Envelope(service) /\ worker'.stage = "answered"
        /\ service' = Published(service) /\ UNCHANGED posted
    BY <1>0, <1>4 DEF AnswerMutation, Workers
  <2>2. Envelope(service') = Envelope(service)
    BY <1>0, <2>1 DEF TypeOK, Published, Envelope, Services
  <2> QED BY <2>1, <2>2 DEF NoAnswerYet
<1>5. CASE Check \/ ReadFails \/ ServeAdmin \/ ExecuteMutation \/ MutationFails
           \/ FinishMutation \/ PostRead
  <2>1. /\ worker'.envelope = worker.envelope
        /\ worker'.stage \in NoAnswerYet => worker.stage \in NoAnswerYet
    BY <1>0, <1>5 DEF Check, ReadFails, ServeAdmin, ExecuteMutation, MutationFails,
                      FinishMutation, PostRead, Workers, NoAnswerYet
  <2> QED BY <1>0, <2>1
<1> QED BY <1>1, <1>2, <1>3, <1>4, <1>5
        DEF Next, WorkerStep, HandleMessage, Edit, QueueMutation, Refresh, ToggleService, Close,
            Dismiss, ReconnectTick, TelemetryTick, HandleRead, HandleAdmin, HandleMutation,
            HandleCue, PostMutation, ReleaseRead, AllocFails, ReleaseMutation, RestartService,
            DeviceChanges, DeliverToService, DeliverToGui

\* Precedence passes from what the service publishes to what it publishes next.
LEMMA PrecedesGrowing ==
    ASSUME TypeOK, Next, NEW e \in Envelopes, Precedes(e, Envelope(service))
    PROVE  Precedes(e, Envelope(service'))
<1>1. /\ Envelope(service) \in Envelopes /\ Real(Envelope(service))
      /\ Upto(Envelope(service), Envelope(service')) /\ service' \in Services
  BY ServiceGrows
<1>2. Envelope(service') \in Envelopes
  BY <1>1 DEF Envelope, Envelopes, Services
<1> QED BY <1>1, <1>2, PrecedesTransitive

\* A message carries an envelope.
LEMMA PostedEnvelopes ==
    ASSUME TypeOK, NEW i \in DOMAIN posted
    PROVE  posted[i].envelope \in Envelopes
<1>1. posted[i] \in Messages
  BY ElementOfSeq, LenProperties DEF TypeOK
<1> QED BY <1>1 DEF Messages

\* An envelope may be answered twice.
LEMMA PrecedesSelf ==
    ASSUME NEW e \in Envelopes
    PROVE  Precedes(e, e)
BY DEF Precedes, Upto, Envelopes

\* Every step keeps the envelopes in flight in the order the service published them.
LEMMA StepOrdered ==
    ASSUME IInv, Next
    PROVE  AnswersAreOrdered'
<1>0. /\ TypeOK /\ TypeOK' /\ AnswersAreOrdered
      /\ worker.envelope \in Envelopes /\ Envelope(service') \in Envelopes
  BY StepTypes DEF IInv, TypeOK, Workers, Services, Envelope, Envelopes
<1>1. PICK k \in {0, 1} : \A i \in DOMAIN posted' :
        \/ i + k \in DOMAIN posted /\ posted'[i] = posted[i + k]
        \/ /\ k = 0 /\ i = Len(posted) + 1
           /\ \/ posted'[i].envelope = NoEnvelope
              \/ /\ posted'[i].envelope = worker.envelope
                 /\ worker'.envelope \in {worker.envelope, NoEnvelope}
  BY <1>0, PostedBySteps, MessagesKeepOrder DEF MessagesFlow
<1>2. /\ worker'.stage \in NoAnswerYet => worker'.envelope = NoEnvelope
      /\ \/ worker'.envelope \in {worker.envelope, NoEnvelope}
         \/ worker'.envelope = Envelope(service') /\ UNCHANGED posted
  BY WorkerAnswers
<1>3. ASSUME NEW e PROVE Precedes(NoEnvelope, e) /\ Precedes(e, NoEnvelope)
  BY DEF Precedes, Real
<1>4. Precedes(worker.envelope, Envelope(service'))
  BY <1>0, PrecedesGrowing DEF AnswersAreOrdered
<1>5. ASSUME NEW n \in DOMAIN posted
      PROVE  /\ Precedes(posted[n].envelope, worker.envelope)
             /\ Precedes(posted[n].envelope, Envelope(service'))
  BY <1>0, PostedEnvelopes, PrecedesGrowing DEF AnswersAreOrdered
<1>6. ASSUME NEW i \in DOMAIN posted', NEW j \in DOMAIN posted', i < j
      PROVE  Precedes(posted'[i].envelope, posted'[j].envelope)
  <2>1. Len(posted) \in Nat /\ DOMAIN posted = 1..Len(posted) /\ i \in Nat /\ j \in Nat
    BY <1>0, LenProperties DEF TypeOK
  <2>2. CASE i + k \in DOMAIN posted /\ posted'[i] = posted[i + k]
    <3>1. CASE j + k \in DOMAIN posted /\ posted'[j] = posted[j + k]
      <4>1. i + k < j + k
        BY <1>6, <2>1
      <4> QED BY <1>0, <2>2, <3>1, <4>1 DEF AnswersAreOrdered
    <3>2. CASE posted'[j].envelope \in {NoEnvelope, worker.envelope}
      BY <1>3, <1>5, <2>2, <3>2
    <3> QED BY <1>1, <3>1, <3>2
  <2>3. CASE k = 0 /\ i = Len(posted) + 1
    <3>1. j # Len(posted) + 1 /\ j \notin DOMAIN posted /\ j + k = j
      BY <1>6, <2>1, <2>3
    <3> QED BY <1>1, <3>1
  <2> QED BY <1>1, <2>2, <2>3
<1>7. ASSUME NEW i \in DOMAIN posted'
      PROVE  /\ Precedes(posted'[i].envelope, worker'.envelope)
             /\ Precedes(posted'[i].envelope, Envelope(service'))
  <2>1. CASE i + k \in DOMAIN posted /\ posted'[i] = posted[i + k]
    BY <1>2, <1>3, <1>5, <2>1
  <2>2. CASE \/ posted'[i].envelope = NoEnvelope
             \/ /\ posted'[i].envelope = worker.envelope
                /\ worker'.envelope \in {worker.envelope, NoEnvelope}
    BY <1>0, <1>3, <1>4, <2>2, PrecedesSelf
  <2> QED BY <1>1, <2>1, <2>2
<1>8. Precedes(worker'.envelope, Envelope(service'))
  BY <1>0, <1>2, <1>3, <1>4, PrecedesSelf
<1>9. Envelope(service)' = Envelope(service')
  BY DEF Envelope
<1> QED BY <1>2, <1>6, <1>7, <1>8, <1>9 DEF AnswersAreOrdered, Precedes, Real, Upto, NoAnswerYet

---------------------------------------------------------------------------
(* What was retired.                                                       *)

\* If what is in flight stays beyond what is retired, so does what the step
\* adds to it.
LEMMA InFlightStaysBeyond ==
    ASSUME IInv, Next,
           \A i \in DOMAIN posted : Beyond(model', retired', posted[i].envelope),
           Beyond(model', retired', worker.envelope),
           Beyond(model', retired', Envelope(service))
    PROVE  /\ \A i \in DOMAIN posted' : Beyond(model', retired', posted'[i].envelope)
           /\ Beyond(model', retired', worker'.envelope)
           /\ Beyond(model', retired', Envelope(service'))
<1>0. TypeOK /\ TypeOK'
  BY StepTypes DEF IInv
<1>1. PICK k \in {0, 1} : \A i \in DOMAIN posted' :
        \/ i + k \in DOMAIN posted /\ posted'[i] = posted[i + k]
        \/ posted'[i].envelope \in {NoEnvelope, worker.envelope}
  BY <1>0, PostedBySteps, MessagesKeepOrder DEF MessagesFlow
<1>2. Beyond(model', retired', NoEnvelope)
  BY DEF Beyond, Real
<1>3. Beyond(model', retired', Envelope(service'))
  <2>1. /\ service \in Services /\ service' \in Services /\ model' \in Models
        /\ retired' \in SUBSET Authority
    BY <1>0 DEF TypeOK
  <2>2. /\ Envelope(service) \in Envelopes /\ Real(Envelope(service))
        /\ Upto(Envelope(service), Envelope(service'))
        /\ service.generation # 0 => service'.generation # 0
    BY <1>0, ServiceGrows
  <2>3. service.instance # 0 /\ service.generation # 0
    BY <2>2 DEF Beyond, Envelope
  <2>4. Envelope(service').instance # 0
    BY <2>1, <2>2, <2>3 DEF Upto, Envelope, Services
  <2>5. Envelope(service').generation # 0 /\ Envelope(service') \in Envelopes
    BY <2>1, <2>2, <2>3 DEF Envelope, Envelopes, Services
  <2> QED BY <2>1, <2>2, <2>4, <2>5, LaterIsBeyond
<1>4. Beyond(model', retired', worker'.envelope)
  BY <1>2, <1>3, WorkerAnswers
<1>5. \A i \in DOMAIN posted' : Beyond(model', retired', posted'[i].envelope)
  BY <1>1, <1>2
<1> QED BY <1>3, <1>4, <1>5

\* Every step keeps what was retired behind the envelopes in flight or behind the
\* generation asked for.
LEMMA StepBehind ==
    ASSUME IInv, Next
    PROVE  RetiredIsBehind'
<1>0. /\ TypeOK /\ TypeOK' /\ AnswersAreOrdered /\ RetiredIsBehind
      /\ model \in Models /\ model' \in Models /\ retired \in SUBSET Authority
      /\ worker.envelope \in Envelopes /\ Envelope(service) \in Envelopes
      /\ Envelope(service)' = Envelope(service')
  BY StepTypes DEF IInv, TypeOK, Workers, Services, Envelope, Envelopes
<1> DEFINE Stays(e) == Beyond(model, retired, e) => Beyond(model', retired', e)
<1>1. ASSUME \A i \in DOMAIN posted : Stays(posted[i].envelope),
             Stays(worker.envelope), Stays(Envelope(service)),
             model'.accepted => model'.instance # 0 /\ model'.generation # 0,
             ModelReady(model') => \A r \in retired' : Below(r, model')
      PROVE  RetiredIsBehind'
  <2>1. /\ \A i \in DOMAIN posted' : Beyond(model', retired', posted'[i].envelope)
        /\ Beyond(model', retired', worker'.envelope)
        /\ Beyond(model', retired', Envelope(service'))
    BY <1>0, <1>1, InFlightStaysBeyond DEF RetiredIsBehind
  <2> QED BY <1>0, <1>1, <2>1 DEF RetiredIsBehind, Beyond, Real, Upto, Outdated, Below, ModelReady
<1>2. CASE UNCHANGED <<model, retired>>
  BY <1>0, <1>1, <1>2 DEF RetiredIsBehind
<1>3. ASSUME Fades(model, model'), model'.minimum = model.minimum, UNCHANGED retired
      PROVE  RetiredIsBehind'
  <2>1. ASSUME NEW e \in Envelopes PROVE Stays(e)
    BY <1>0, <1>3, FadingKeepsBeyond
  <2>2. model'.accepted => model'.instance # 0 /\ model'.generation # 0
    BY <1>0, <1>3 DEF Fades, RetiredIsBehind
  <2>3. ModelReady(model') => \A r \in retired' : Below(r, model')
    <3>1. ModelReady(model') => /\ ModelReady(model) /\ model'.instance = model.instance
                                /\ model'.generation = model.generation
      BY <1>3 DEF Fades, ModelReady
    <3> QED BY <1>0, <1>3, <3>1 DEF RetiredIsBehind, Below
  <2> QED BY <1>0, <1>1, <2>1, <2>2, <2>3, PostedEnvelopes
<1>4. ASSUME NEW kind, Message(kind), UNCHANGED retired,
             model' = Adopt(model, Head(posted).connection, Head(posted).envelope)
      PROVE  RetiredIsBehind'
  <2> DEFINE env == Head(posted).envelope
             c == Head(posted).connection
  <2>1. /\ Head(posted) \in Messages /\ Head(posted) = posted[1] /\ 1 \in DOMAIN posted
    BY <1>0, <1>4, MessageTaken
  <2>2. env \in Envelopes /\ c \in Nat /\ env = posted[1].envelope
    BY <2>1 DEF Messages
  <2>3. Beyond(model, retired, env)
    BY <1>0, <2>1 DEF RetiredIsBehind
  <2>4. model' = Adopt(model, c, env)
    BY <1>4
  <2> HIDE DEF env, c
  <2>5. ASSUME NEW e \in Envelopes, Precedes(env, e) PROVE Stays(e)
    BY <1>0, <1>4, <2>2, <2>3, <2>4, <2>5, AdoptionKeepsBeyond
  <2>6. \A i \in DOMAIN posted : Precedes(env, posted[i].envelope)
    <3>1. ASSUME NEW i \in DOMAIN posted PROVE Precedes(env, posted[i].envelope)
      <4>1. i = 1 \/ 1 < i
        BY <1>0, LenProperties DEF TypeOK
      <4>2. CASE i = 1
        BY <2>2, <4>2, PrecedesSelf
      <4>3. CASE 1 < i
        BY <1>0, <2>1, <2>2, <4>3 DEF AnswersAreOrdered
      <4> QED BY <4>1, <4>2, <4>3
    <3> QED BY <3>1
  <2>7. Precedes(env, worker.envelope) /\ Precedes(env, Envelope(service))
    BY <1>0, <2>1, <2>2 DEF AnswersAreOrdered
  <2>8. CASE Accepts(model, c, env)
    <3>1. /\ Real(env)
          /\ model'.instance = env.instance /\ model'.generation = env.generation
          /\ env.instance = model.instance => env.generation >= model.minimum
      BY <1>0, <2>2, <2>4, <2>8, AdoptAccepts
    <3>2. /\ env.instance # 0 /\ env.generation # 0
          /\ \A r \in retired : Outdated(model, r, env)
      BY <2>3, <3>1 DEF Beyond
    <3>3. ASSUME NEW r \in retired PROVE Below(r, model')
      <4>1. r \in Authority /\ Outdated(model, r, env)
        BY <1>0, <3>2
      <4> QED BY <1>0, <2>2, <3>1, <4>1 DEF Outdated, Below, Models, Envelopes, Authority
    <3> QED BY <1>0, <1>1, <1>4, <2>5, <2>6, <2>7, <3>1, <3>2, <3>3, PostedEnvelopes
  <2>9. CASE ~Accepts(model, c, env)
    <3>1. Fades(model, model')
      BY <1>0, <2>2, <2>4, <2>9, AdoptRejects
    <3>2. model'.accepted => model'.instance # 0 /\ model'.generation # 0
      BY <1>0, <3>1 DEF Fades, RetiredIsBehind
    <3>3. ModelReady(model') => \A r \in retired' : Below(r, model')
      <4>1. ModelReady(model') => /\ ModelReady(model) /\ model'.instance = model.instance
                                  /\ model'.generation = model.generation
        BY <3>1 DEF Fades, ModelReady
      <4> QED BY <1>0, <1>4, <4>1 DEF RetiredIsBehind, Below
    <3> QED BY <1>0, <1>1, <2>5, <2>6, <2>7, <3>2, <3>3, PostedEnvelopes
  <2> QED BY <2>8, <2>9
<1>5. CASE Refresh
  <2>1. UNCHANGED retired /\ ((UNCHANGED model) \/ BeginFullSync(queue))
    BY <1>5 DEF Refresh
  <2> QED BY <1>0, <1>2, <1>3, <2>1, BeginFullSyncType DEF TypeOK
<1>6. CASE ToggleService
  <2> DEFINE q == [queue EXCEPT !.admin = IF service.up THEN "remove" ELSE "install",
                                !.telemetry = FALSE]
  <2>1. q \in Queues
    BY <1>0 DEF TypeOK, Queues
  <2>2. BeginFullSync(Signal(q)) /\ UNCHANGED retired
    BY <1>6 DEF ToggleService
  <2> HIDE DEF q
  <2>3. Signal(q) \in Queues
    BY <2>1, SignalWakes
  <2> QED BY <1>0, <1>3, <2>2, <2>3, BeginFullSyncType
<1>7. CASE HandleRead
  <2>1. Message("read") /\ UNCHANGED retired
    BY <1>7 DEF HandleRead
  <2> QED BY <1>0, <1>2, <1>3, <1>4, <1>7, <2>1, HandleReadEffect
<1>8. CASE HandleAdmin
  <2>1. UNCHANGED retired
    BY <1>8 DEF HandleAdmin
  <2> QED BY <1>0, <1>2, <1>3, <1>8, <2>1, HandleAdminEffect
<1>9. CASE HandleMutation
  <2>1. Message("mutation") /\ UNCHANGED retired
    BY <1>9 DEF HandleMutation
  <2> QED BY <1>0, <1>2, <1>3, <1>4, <1>9, <2>1, HandleMutationEffect
<1>10. CASE HandleCue
  <2>1. /\ model'.instance = model.instance /\ model'.generation = model.generation
        /\ model'.accepted = model.accepted /\ model'.phase # "READY"
        /\ ~ModelReady(model) => model'.minimum = model.minimum
    BY <1>0, <1>10, CueEffect
  <2>2. /\ model'.accepted => model'.instance # 0 /\ model'.generation # 0
        /\ ~ModelReady(model')
    BY <1>0, <2>1 DEF RetiredIsBehind, ModelReady
  <2>3. CASE ModelReady(model)
    <3>1. /\ \E phase : model' = [RequireNewGeneration(model) EXCEPT !.phase = phase]
          /\ retired' = retired \cup {[instance |-> model.instance,
                                       generation |-> model.generation]}
      BY <1>10, <2>3 DEF HandleCue
    <3>2. \A r \in retired : Below(r, model)
      BY <1>0, <2>3 DEF RetiredIsBehind
    <3>3. ASSUME NEW e \in Envelopes PROVE Stays(e)
      BY <1>0, <2>3, <3>1, <3>2, RetiringKeepsBeyond
    <3> QED BY <1>0, <1>1, <2>2, <3>3, PostedEnvelopes
  <2>4. CASE ~ModelReady(model)
    <3>1. UNCHANGED retired
      BY <1>10, <2>4 DEF HandleCue
    <3>2. Fades(model, model')
      BY <1>0, <2>1, <2>2 DEF Fades
    <3> QED BY <1>3, <2>1, <2>4, <3>1, <3>2
  <2> QED BY <2>3, <2>4
<1> QED BY <1>2, <1>5, <1>6, <1>7, <1>8, <1>9, <1>10
        DEF Next, WorkerStep, HandleMessage, Edit, QueueMutation, Close, Dismiss, ReconnectTick,
            TelemetryTick, Take, Check, FinishMutation, PostMutation, PostRead, ReleaseRead,
            ServeRead, ServeAdmin, ReadFails, ExecuteMutation, AnswerMutation, MutationFails,
            AllocFails, RestartService, DeviceChanges, DeliverToService, DeliverToGui

---------------------------------------------------------------------------
(* The invariant, and the results.                                         *)

\* The invariant holds when the window opens.
LEMMA InitHolds ==
    ASSUME Init
    PROVE  IInv
<1>0. budget \in [works : Nat, upsets : Nat, happens : SUBSET Happenings]
  BY ScenariosAssumption DEF Init, ScenariosAssumption
<1>1. /\ <<>> \in Seq(Messages) /\ <<>> \in Seq(Events) /\ DOMAIN posted = {}
  BY DEF Init
<1>2. service \in Services /\ Envelope(service) = [instance |-> 1, generation |-> 1,
                                                    phase |-> "RECOVERING"]
  BY DEF Init, Services, Phases, Envelope
<1>3. model \in Models /\ ~model.accepted /\ model.instance = 0 /\ model.generation = 0
  BY DEF Init, Models, Phases
<1>4. queue \in Queues /\ queue.active = NoWork /\ queue.pending = NoWork /\ queue.event
  BY Constants DEF Init, Queues
<1>5. committed \in [1..budget.works -> Authority]
  BY DEF Init, NoAuthority, Authority
<1>6. epochs \in EpochSets /\ window \in Windows /\ ~window.dialog
  BY DEF Init, EpochSets, Windows
<1>7. TypeOK
  <2>1. works \in 0..budget.works
    BY <1>0 DEF Init
  <2>2. cues \in [{"gui", "service"} -> Seq(Events)]
    BY <1>1 DEF Init
  <2> QED BY <1>0, <1>1, <1>2, <1>3, <1>4, <1>5, <1>6, <2>1, <2>2, Constants DEF Init, TypeOK
<1>8. worker = Waiting /\ retired = {}
  BY DEF Init
<1>9. NoLostWake
  BY <1>4 DEF NoLostWake
<1>10. MutationHeld
  BY <1>1, <1>4, <1>6, <1>8, Constants DEF MutationHeld, Mutating, MutationPosted
<1>11. StampsAreCurrent
  BY <1>1, <1>4, <1>8, Constants DEF StampsAreCurrent, Stamped
<1>12. SuccessIsCommitted
  BY <1>1, <1>8, Constants DEF SuccessIsCommitted
<1>13. AnswersAreOrdered
  BY <1>1, <1>8, Constants DEF AnswersAreOrdered, Precedes, Real
<1>14. RetiredIsBehind
  <2>1. ~ModelReady(model)
    BY <1>3 DEF ModelReady
  <2>2. Upto(model, Envelope(service))
    BY <1>2, <1>3 DEF Upto
  <2> QED BY <1>1, <1>2, <1>3, <1>8, <2>1, <2>2, Constants DEF RetiredIsBehind, Beyond, Real
<1> QED BY <1>7, <1>9, <1>10, <1>11, <1>12, <1>13, <1>14 DEF IInv

\* Every step keeps the invariant.
LEMMA NextKeepsInvariant ==
    ASSUME IInv, [Next]_vars
    PROVE  IInv'
<1>1. CASE Next
  BY <1>1, StepTypes, StepWoken, StepHeld, StepStamps, StepSuccess, StepOrdered, StepBehind
     DEF IInv
<1>2. CASE UNCHANGED vars
  BY <1>2 DEF vars, IInv, TypeOK, NoLostWake, MutationHeld, Mutating, MutationPosted, IsMutation,
              StampsAreCurrent, Stamped, SuccessIsCommitted, Written, AnswersAreOrdered,
              RetiredIsBehind, Beyond, Outdated, ModelReady, Envelope
<1> QED BY <1>1, <1>2

\* Every run of the coordinator keeps the invariant: one mutation, current
\* stamps, sincere successes and envelopes in the order they were published.
THEOREM CoordinatorIsSound == Spec => []IInv
BY InitHolds, NextKeepsInvariant, PTL DEF Spec

\* The types of the coordinator, the worker, the window and the service, and
\* that nothing waits behind no active mutation.
THEOREM CoordinatorTypeCorrect == Spec => []TypeOK
<1>1. IInv => TypeOK
  BY DEF IInv
<1> QED BY <1>1, CoordinatorIsSound, PTL

\* No lost wake-up of the worker, for any number of requests and faults
\* (gui_worker_signal_if_dispatchable_locked).
THEOREM WakesAreNotLost == Spec => []NoLostWake
<1>1. IInv => NoLostWake
  BY DEF IInv
<1> QED BY <1>1, CoordinatorIsSound, PTL

\* Retired READY authority never comes back, for any number of device changes,
\* restarts and answers in flight (gui_service_model_accept).
THEOREM RetiredStaysRetired == Spec => []RetiredAuthorityStaysRetired
<1>1. IInv => RetiredAuthorityStaysRetired
  <2> SUFFICES ASSUME IInv, ModelReady(model),
                      [instance |-> model.instance, generation |-> model.generation] \in retired
               PROVE  FALSE
    BY DEF RetiredAuthorityStaysRetired
  <2>1. Below([instance |-> model.instance, generation |-> model.generation], model)
    BY DEF IInv, RetiredIsBehind
  <2>2. model \in Models
    BY DEF IInv, TypeOK
  <2> QED BY <2>1, <2>2 DEF Below, Models
<1> QED BY <1>1, CoordinatorIsSound, PTL

\* A waiting Reset leaves its slot only for the active one, for another Reset, or with
\* its epoch or the window (QueueMutation, Advance).
LEMMA ResetIsKept ==
    ASSUME IInv, [Next]_vars, queue.pending.kind = "reset", queue'.pending # queue.pending
    PROVE  \/ queue'.active = queue.pending
           \/ queue'.pending.kind = "reset"
           \/ epochs'.gpu # epochs.gpu
           \/ queue'.closing
<1> DEFINE Goal == \/ queue'.active = queue.pending
                   \/ queue'.pending.kind = "reset"
                   \/ epochs'.gpu # epochs.gpu
                   \/ queue'.closing
<1>0. TypeOK /\ queue \in Queues /\ epochs.gpu \in Nat
  BY DEF IInv, TypeOK, EpochSets
<1>1. epochs.gpu + 1 # epochs.gpu
  BY <1>0
<1>2. CASE queue'.pending = queue.pending
  BY <1>2
<1>3. ASSUME NEW kind \in {"apply", "reset"}, QueueMutation(kind) PROVE Goal
  <2>1. PICK work :
          /\ work.kind = kind
          /\ \/ queue'.pending = queue.pending
             \/ queue'.pending = work /\ (queue.pending.kind # "reset" \/ kind # "apply")
    BY <1>0, <1>3, QueueMutationQueue
  <2> QED BY <1>3, <2>1
<1>4. CASE Refresh \/ ReconnectTick
  <2>1. queue' = QueueFullSync(queue)
    BY <1>4 DEF Refresh, ReconnectTick, BeginFullSync
  <2> QED BY <1>0, <1>2, <2>1, FullSyncWakes
<1>5. CASE ToggleService
  <2>1. queue.active = NoWork
    BY <1>5 DEF ToggleService
  <2> QED BY <1>0, <2>1 DEF TypeOK, NoWork
<1>6. CASE TelemetryTick
  <2> DEFINE s == [queue EXCEPT !.telemetry = TRUE]
  <2>1. s \in Queues /\ s.pending = queue.pending
    BY <1>0 DEF Queues
  <2>2. queue' = queue \/ queue' = Signal(s) \/ queue' = QueueFullSync(queue)
    BY <1>6 DEF TelemetryTick, QueueTelemetry
  <2> HIDE DEF s
  <2> QED BY <1>0, <1>2, <2>1, <2>2, SignalWakes, FullSyncWakes
<1>7. CASE Close
  BY <1>0, <1>7 DEF Close, Queues
<1>8. CASE HandleRead
  BY <1>0, <1>1, <1>2, <1>8, HandleReadEffect DEF Effect
<1>9. CASE HandleMutation
  <2>1. PICK dialog \in BOOLEAN, q \in Queues :
          /\ q = IF dialog THEN queue ELSE Advance(queue)
          /\ \/ queue' = q
             \/ queue' = RetirePending(q) /\ epochs'.gpu = epochs.gpu + 1
    BY <1>0, <1>9, HandleMutationEffect DEF Effect
  <2>2. CASE queue' = q
    BY <1>0, <1>2, <2>1, <2>2, AdvancePromotes
  <2>3. CASE epochs'.gpu = epochs.gpu + 1
    BY <1>1, <2>3
  <2> QED BY <2>1, <2>2, <2>3
<1>10. CASE Dismiss
  BY <1>0, <1>2, <1>10, AdvancePromotes DEF Dismiss
<1>11. CASE HandleCue
  BY <1>0, <1>1, <1>11, CueEffect
<1>12. CASE Take
  BY <1>0, <1>2, <1>12, TakeEffect
<1>13. CASE FinishMutation
  BY <1>0, <1>2, <1>13 DEF FinishMutation, Queues
<1>14. CASE AllocFails \/ ReleaseRead \/ PostMutation
  <2>1. \/ UNCHANGED queue \/ ReleaseMutation
        \/ queue' = Signal([queue EXCEPT !.busy = FALSE])
    BY <1>14 DEF AllocFails, ReleaseRead, PostMutation
  <2> QED BY <1>0, <1>2, <2>1, ReleaseEffect, FreedEffect
<1>15. CASE UNCHANGED queue
  BY <1>2, <1>15
<1> QED BY <1>3, <1>4, <1>5, <1>6, <1>7, <1>8, <1>9, <1>10, <1>11, <1>12, <1>13, <1>14, <1>15
        DEF Next, vars, WorkerStep, HandleMessage, Edit, HandleAdmin, Check, PostRead, ServeRead,
            ServeAdmin, ReadFails, ExecuteMutation, AnswerMutation, MutationFails,
            RestartService, DeviceChanges, DeliverToService, DeliverToGui

\* A waiting Reset is never displaced by an Apply, whatever else the GUI does
\* (gui_mutation_queue_decide).
THEOREM WaitingResetSurvives == Spec => WaitingResetIsKept
<1>1. IInv /\ [Next]_vars =>
        [(queue.pending.kind = "reset" /\ queue'.pending # queue.pending) =>
           \/ queue'.active = queue.pending
           \/ queue'.pending.kind = "reset"
           \/ epochs'.gpu # epochs.gpu
           \/ queue'.closing]_vars
  BY ResetIsKept
<1> QED BY <1>1, CoordinatorIsSound, PTL DEF Spec, WaitingResetIsKept

\* The draft is given up by the handling of a mutation's result alone.
LEMMA OnlyResultsClearTheDraft ==
    ASSUME IInv, [Next]_vars, window.dirty, ~window'.dirty
    PROVE  HandleMutation /\ CanCommit(Head(posted))
<1>0. TypeOK /\ window \in Windows
  BY DEF IInv, TypeOK
<1>1. CASE window'.dirty = window.dirty
  BY <1>1
<1>2. CASE Edit \/ (\E kind \in {"apply", "reset"} : QueueMutation(kind)) \/ Dismiss
  <2>1. window'.dirty = window.dirty
    BY <1>0, <1>2 DEF Edit, QueueMutation, Dismiss, Acknowledged, Windows
  <2> QED BY <1>1, <2>1
<1>3. CASE HandleRead
  BY <1>0, <1>1, <1>3, HandleReadEffect DEF Effect
<1>4. CASE HandleMutation
  <2>1. window'.dirty = IF CanCommit(Head(posted)) THEN FALSE ELSE window.dirty
    BY <1>0, <1>4, HandleMutationEffect DEF Effect
  <2> QED BY <1>4, <2>1
<1>5. CASE HandleCue
  BY <1>0, <1>1, <1>5, CueEffect
<1>6. CASE UNCHANGED window
  BY <1>1, <1>6
<1> QED BY <1>2, <1>3, <1>4, <1>5, <1>6
        DEF Next, vars, WorkerStep, HandleMessage, Refresh, ToggleService, Close, ReconnectTick,
            TelemetryTick, HandleAdmin, Take, Check, FinishMutation, PostMutation, PostRead,
            ReleaseRead, ServeRead, ServeAdmin, ReadFails, ExecuteMutation, AnswerMutation,
            MutationFails, AllocFails, RestartService, DeviceChanges, DeliverToService,
            DeliverToGui

\* The draft is given up by the completion of a mutation committed under the authority
\* presented (HandleMutation).
LEMMA DraftLeaves ==
    ASSUME IInv, [Next]_vars, window.dirty, ~window'.dirty
    PROVE  /\ committed[Head(posted).work.id] =
                [instance |-> model.instance, generation |-> model.generation]
           /\ committed[Head(posted).work.id] \notin retired
           /\ Head(posted).work.presentationEpoch = epochs.presentation
<1> DEFINE env == Head(posted).envelope
           work == Head(posted).work
<1>0. /\ TypeOK /\ StampsAreCurrent /\ SuccessIsCommitted /\ RetiredIsBehind
      /\ model \in Models /\ retired \in SUBSET Authority
  BY DEF IInv, TypeOK
<1>1. HandleMutation /\ CanCommit(Head(posted))
  BY OnlyResultsClearTheDraft
<1>2. /\ Head(posted) \in Messages /\ Head(posted) = posted[1] /\ 1 \in DOMAIN posted
      /\ IsMutation(1)
  BY <1>0, <1>1, MessageTaken DEF HandleMutation, IsMutation
<1>3. /\ Head(posted).outcome = "success" /\ Head(posted).connection \in Nat
      /\ work.gpuEpoch = epochs.gpu /\ work.presentationEpoch = epochs.presentation
      /\ env \in Envelopes /\ Real(env)
      /\ env.instance = model.instance /\ env.generation = model.generation
      /\ Accepts(model, Head(posted).connection, env)
  BY <1>1, <1>2 DEF CanCommit, ContextCurrent, SameAuthority, Real, Messages
<1>4. work # NoWork /\ Written(work) /\ Stamped(work)
  BY <1>0, <1>2, <1>3 DEF SuccessIsCommitted, StampsAreCurrent
<1>5. /\ env.generation # 0
      /\ \A r \in retired : Outdated(model, r, env)
  BY <1>0, <1>2, <1>3 DEF RetiredIsBehind, Beyond
<1>6. env.generation >= model.minimum
  BY <1>0, <1>3, AdoptAccepts
<1> HIDE DEF env, work
<1>7. work.instance = model.instance /\ work.generation = model.generation
  BY <1>3, <1>4, <1>5 DEF Stamped
<1>8. committed[work.id] = [instance |-> model.instance, generation |-> model.generation]
  BY <1>4, <1>7 DEF Written
<1>9. committed[work.id] \notin retired
  <2> SUFFICES ASSUME NEW r \in retired,
                      r = [instance |-> model.instance, generation |-> model.generation]
               PROVE  FALSE
    BY <1>8
  <2>1. r.instance = env.instance /\ r.generation = env.generation
    BY <1>3
  <2>2. r \in Authority /\ Outdated(model, r, env)
    BY <1>0, <1>5
  <2> QED BY <1>0, <1>3, <1>6, <2>1, <2>2 DEF Outdated, Below, Models, Envelopes, Authority
<1> QED BY <1>3, <1>8, <1>9 DEF work

\* The draft leaves only with a commit made under what the window presents,
\* however the answer, device changes and restarts are ordered
\* (gui_service_mutation_can_commit).
THEOREM DraftIsNotLost == Spec => DraftLeavesWithItsCommit
<1>1. IInv /\ [Next]_vars =>
        [(window.dirty /\ ~window'.dirty) =>
           /\ committed[Head(posted).work.id] =
                [instance |-> model.instance, generation |-> model.generation]
           /\ committed[Head(posted).work.id] \notin retired
           /\ Head(posted).work.presentationEpoch = epochs.presentation]_vars
  BY DraftLeaves
<1> QED BY <1>1, CoordinatorIsSound, PTL DEF Spec, DraftLeavesWithItsCommit
=============================================================================
