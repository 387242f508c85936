--------------------------- MODULE LifecycleProofs ---------------------------
(* Proofs about Lifecycle, for any number of replicas, of migrations and of *)
(* statements in them, and any number of signals and deaths.                *)
EXTENDS Lifecycle, SequenceTheorems, TLAPS

(* One step of process p.                                                   *)
Step(p) ==
  \/ Progress(p) \/ GiveUp(p) \/ Signal(p) \/ ForceExit(p) \/ Die(p)
  \/ TakeRequest(p) \/ TakeJob(p) \/ \E work \in busy[p] : Finish(p, work)

(* The actions of Step, to be cited where a proof goes through all of them. *)
LEMMA StepCases ==
  ASSUME NEW p \in Processes, Step(p)
  PROVE  \/ Boot(p) \/ CreateObject(p) \/ RecordMigration(p) \/ Connect(p)
         \/ Provision(p) \/ StartWorker(p) \/ Listen(p) \/ TearDown(p)
         \/ Exit(p) \/ GiveUp(p) \/ ForceExit(p) \/ Die(p)
         \/ Signal(p) \/ TakeRequest(p) \/ TakeJob(p)
         \/ \E work \in busy[p] : Finish(p, work)
  BY DEF Step, Progress

-----------------------------------------------------------------------------
(* Type correctness.                                                        *)

LEMMA ServiceType == \A p \in Processes : Service(p) \in Services
  BY DEF Service, Services

(* A process that is gone has a well-formed, empty state.                   *)
LEMMA GoneType ==
  ASSUME TypeOK, NEW p \in Processes, Gone(p)
  PROVE  /\ at' \in [Processes -> {"down", "migrate", "topology", "worker", "serving", "closing"}]
         /\ todo' \in [Processes -> SUBSET Migration]
         /\ step' \in [Processes -> Nat \ {0}]
         /\ handlers' \in [Processes -> Seq(Resources)]
         /\ up' \in [Processes -> SUBSET Resources]
         /\ busy' \in [Processes -> SUBSET {"request", "job"}]
<1>1. <<>> \in Seq(Resources)
  OBVIOUS
<1>. QED
  BY <1>1 DEF TypeOK, Gone

(* Opening resources keeps the list of handlers and the set of open         *)
(* resources well formed.                                                   *)
LEMMA OpenType ==
  ASSUME TypeOK, NEW p \in Processes, NEW resources \in Seq(Resources), Open(p, resources)
  PROVE  /\ handlers' \in [Processes -> Seq(Resources)]
         /\ up' \in [Processes -> SUBSET Resources]
<1>1. handlers[p] \o resources \in Seq(Resources)
  BY ConcatProperties DEF TypeOK
<1>2. ToSet(resources) \subseteq Resources
  BY DEF ToSet
<1>. QED
  BY <1>1, <1>2 DEF TypeOK, Open

(* What each phase of main() opens, as sequences of resources.              *)
LEMMA OpenedType ==
  /\ <<"database">> \in Seq(Resources) /\ <<"nats">> \in Seq(Resources)
  /\ <<"channel", "nats">> \in Seq(Resources)
  /\ <<"worker">> \in Seq(Resources) /\ <<"http">> \in Seq(Resources)
  BY DEF Resources

(* The last of a nonempty list, and the list without it.                    *)
LEMMA LastAndFront ==
  ASSUME NEW S, NEW s \in Seq(S), s # <<>>
  PROVE  /\ Len(s) \in Nat \ {0} /\ Last(s) = s[Len(s)] /\ Last(s) \in S
         /\ Front(s) \in Seq(S) /\ Len(Front(s)) = Len(s) - 1
         /\ \A i \in 1..(Len(s) - 1) : Front(s)[i] = s[i]
<1>1. Len(s) \in Nat \ {0}
  OBVIOUS
<1>2. Last(s) = s[Len(s)] /\ Last(s) \in S
  BY <1>1 DEF Last
<1>3. Front(s) = SubSeq(s, 1, Len(s) - 1)
  BY DEF Front
<1>4. \A i \in 1..(Len(s) - 1) : s[i] \in S
  BY <1>1
<1>5. Len(s) - 1 \in Nat
  BY <1>1
<1>6. Front(s) = [i \in 1..(Len(s) - 1) |-> s[i]]
  BY <1>1, <1>3, <1>5
<1>7. Front(s) \in Seq(S)
  BY <1>4, <1>5, <1>6
<1>. QED
  BY <1>1, <1>2, <1>5, <1>6, <1>7
-----------------------------------------------------------------------------
(* What is still to do of the migrations, and what is recorded.             *)

(* The rows of _migrations are the first n migrations; what a booted        *)
(* process has to do is a last part of them, and all before it is recorded. *)
Recorded(s) == \E n \in 0..LastMigration : applied[s] = 1..n
Remaining(p, k) == /\ todo[p] = (k + 1)..LastMigration
                   /\ 1..k \subseteq applied[Service(p)]
Tails ==
  /\ \A s \in Services : Recorded(s)
  /\ \A p \in Processes :
       at[p] # "down" => \E k \in 0..LastMigration : Remaining(p, k)

(* The first of the migrations left to do.                                  *)
LEMMA MinOfRange ==
  ASSUME NEW k \in Nat, NEW n \in Nat, (k + 1)..n # {}
  PROVE  Min((k + 1)..n) = k + 1 /\ k + 1 \in 1..n
<1>1. k + 1 \in (k + 1)..n /\ \A y \in (k + 1)..n : k + 1 =< y
  OBVIOUS
<1>2. \A x \in (k + 1)..n : (\A y \in (k + 1)..n : x =< y) => x = k + 1
  BY <1>1
<1>3. Min((k + 1)..n) = k + 1
  BY <1>1, <1>2 DEF Min
<1>. QED
  BY <1>1, <1>3

LEMMA FirstToDo ==
  ASSUME TypeOK, Tails, NEW p \in Processes, at[p] # "down", todo[p] # {}
  PROVE  \E k \in 0..LastMigration :
           /\ Remaining(p, k) /\ Min(todo[p]) = k + 1 /\ k + 1 \in Migration
           /\ todo[p] \ {k + 1} = (k + 2)..LastMigration
<1>1. PICK k \in 0..LastMigration : Remaining(p, k)
  BY DEF Tails
<1>2. k \in Nat /\ LastMigration \in Nat /\ (k + 1)..LastMigration # {}
  BY <1>1, MigrationAssumption DEF Remaining
<1>3. Min(todo[p]) = k + 1 /\ k + 1 \in Migration
  BY <1>1, <1>2, MinOfRange DEF Remaining, Migration
<1>4. ((k + 1)..LastMigration) \ {k + 1} = (k + 2)..LastMigration
  BY <1>2
<1>. QED
  BY <1>1, <1>3, <1>4 DEF Remaining

(* Recording the first of what is left takes it from what is left to what   *)
(* is recorded, and leaves both as Tails wants them.                        *)
LEMMA RecordOne ==
  ASSUME TypeOK, Tails, NEW p \in Processes, at[p] # "down", todo[p] # {},
         Min(todo[p]) \notin applied[Service(p)],
         NEW k \in 0..LastMigration, Remaining(p, k), Min(todo[p]) = k + 1,
         k + 1 \in Migration
  PROVE  /\ applied[Service(p)] = 1..k
         /\ applied[Service(p)] \cup {Min(todo[p])} = 1..(k + 1)
         /\ k + 1 \in 0..LastMigration
<1>1. PICK n \in 0..LastMigration : applied[Service(p)] = 1..n
  BY ServiceType DEF Tails, Recorded
<1>2. 1..k \subseteq 1..n /\ k + 1 \notin 1..n
  BY <1>1 DEF Remaining
<1>3. k \in Nat /\ n \in Nat /\ LastMigration \in Nat
  BY MigrationAssumption
<1>4. n = k
  <2>1. k \in 1..k \/ k = 0
    BY <1>3
  <2>2. k <= n
    BY <1>2, <1>3, <2>1
  <2>. QED
    BY <1>2, <1>3, <2>2
<1>5. 1..k \cup {k + 1} = 1..(k + 1)
  BY <1>3
<1>. QED
  BY <1>1, <1>3, <1>4, <1>5 DEF Migration

(* Recording a migration, when no other replica was first.                  *)
Record(p, m) == /\ applied' = [applied EXCEPT ![Service(p)] = @ \cup {m}]
                /\ todo'    = [todo EXCEPT ![p] = @ \ {m}]
                /\ step'    = [step EXCEPT ![p] = 1]
                /\ UNCHANGED <<schema, topology, at, handlers, up, busy, mishaps>>

LEMMA RecordEffect ==
  ASSUME NEW p \in Processes, RecordMigration(p), Min(todo[p]) \notin applied[Service(p)]
  PROVE  \E m : m = Min(todo[p]) /\ Record(p, m)
  BY DEF RecordMigration, Record

(* The process that is late fails, and changes nothing else.                *)
LEMMA RecordRefused ==
  ASSUME NEW p \in Processes, RecordMigration(p), Min(todo[p]) \in applied[Service(p)]
  PROVE  Gone(p) /\ UNCHANGED <<schema, applied, topology, mishaps>>
  BY DEF RecordMigration

(* Each action keeps the types; the shape of todo says that the next        *)
(* migration is one.                                                        *)
LEMMA StepType ==
  ASSUME TypeOK, Tails, NEW p \in Processes, Step(p)
  PROVE  TypeOK'
<1>. USE MishapAssumption, MigrationAssumption
<1>1. CASE Boot(p)
  <2>1. Migration \ applied[Service(p)] \in SUBSET Migration
    OBVIOUS
  <2>2. /\ handlers' \in [Processes -> Seq(Resources)]
        /\ up' \in [Processes -> SUBSET Resources]
    BY <1>1, OpenType, OpenedType DEF Boot
  <2>. QED
    BY <1>1, <2>1, <2>2 DEF TypeOK, Boot
<1>2. CASE CreateObject(p)
  <2>1. Min(todo[p]) \in Migration /\ step[p] \in 1..Parts
    <3>1. Min(todo[p]) \in Migration
      BY <1>2, FirstToDo DEF CreateObject
    <3>2. step[p] \in Nat \ {0} /\ step[p] <= Parts
      BY <1>2 DEF CreateObject, TypeOK
    <3>. QED
      BY <3>1, <3>2
  <2>2. <<Min(todo[p]), step[p]>> \in Migration \X (1..Parts)
    BY <2>1
  <2>3. schema' \in [Services -> SUBSET (Migration \X (1..Parts))]
    BY <1>2, <2>2, ServiceType DEF CreateObject, TypeOK
  <2>. QED
    BY <1>2, <2>3 DEF TypeOK, CreateObject
<1>3. CASE RecordMigration(p)
  <2>1. Min(todo[p]) \in Migration
    BY <1>3, FirstToDo DEF RecordMigration
  <2>2. CASE Min(todo[p]) \in applied[Service(p)]
    BY <1>3, <2>2, GoneType, RecordRefused DEF TypeOK
  <2>3. CASE Min(todo[p]) \notin applied[Service(p)]
    <3>0. PICK m : m = Min(todo[p]) /\ Record(p, m)
      BY <1>3, <2>3, RecordEffect
    <3>. m \in Migration
      BY <2>1, <3>0
    <3>1. applied' \in [Services -> SUBSET Migration]
      BY <3>0, ServiceType DEF TypeOK, Record
    <3>2. todo' \in [Processes -> SUBSET Migration]
      BY <3>0 DEF TypeOK, Record
    <3>3. step' \in [Processes -> Nat \ {0}]
      BY <3>0 DEF TypeOK, Record
    <3>. QED
      BY <3>0, <3>1, <3>2, <3>3 DEF TypeOK, Record
  <2>. QED
    BY <2>2, <2>3
<1>4. CASE Connect(p)
  <2>1. /\ handlers' \in [Processes -> Seq(Resources)]
        /\ up' \in [Processes -> SUBSET Resources]
    BY <1>4, OpenType, OpenedType DEF Connect
  <2>. QED
    BY <1>4, <2>1 DEF TypeOK, Connect, bootVars
<1>5. CASE Provision(p)
  <2>1. step[p] \in 1..Len(Topology)
    BY <1>5 DEF Provision, TypeOK, Topology
  <2>2. Topology[step[p]] \in ToSet(Topology)
    BY <2>1 DEF ToSet, Topology
  <2>. QED
    BY <1>5, <2>2 DEF TypeOK, Provision
<1>6. CASE StartWorker(p)
  <2>1. /\ handlers' \in [Processes -> Seq(Resources)]
        /\ up' \in [Processes -> SUBSET Resources]
    BY <1>6, OpenType, OpenedType DEF StartWorker
  <2>. QED
    BY <1>6, <2>1 DEF TypeOK, StartWorker, bootVars
<1>7. CASE Listen(p)
  <2>1. /\ handlers' \in [Processes -> Seq(Resources)]
        /\ up' \in [Processes -> SUBSET Resources]
    BY <1>7, OpenType, OpenedType DEF Listen
  <2>. QED
    BY <1>7, <2>1 DEF TypeOK, Listen, bootVars
<1>8. CASE TearDown(p)
  <2>1. Front(handlers[p]) \in Seq(Resources)
    BY <1>8, LastAndFront DEF TearDown, TypeOK
  <2>2. up' \in [Processes -> SUBSET Resources]
    BY <1>8 DEF TearDown, TypeOK
  <2>. QED
    BY <1>8, <2>1, <2>2 DEF TypeOK, TearDown, bootVars
<1>9. CASE Exit(p) \/ GiveUp(p) \/ ForceExit(p)
  BY <1>9, GoneType DEF TypeOK, Exit, GiveUp, ForceExit
<1>10. CASE Die(p)
  BY <1>10, GoneType DEF TypeOK, Die, Mishap
<1>11. CASE Signal(p)
  BY <1>11 DEF TypeOK, Signal, Mishap, bootVars
<1>12. CASE TakeRequest(p) \/ TakeJob(p) \/ \E work \in busy[p] : Finish(p, work)
  <2>1. busy' \in [Processes -> SUBSET {"request", "job"}]
    <3>1. CASE TakeRequest(p)
      BY <3>1 DEF TypeOK, TakeRequest
    <3>2. CASE TakeJob(p)
      BY <3>2 DEF TypeOK, TakeJob
    <3>3. CASE \E work \in busy[p] : Finish(p, work)
      BY <3>3 DEF TypeOK, Finish
    <3>. QED
      BY <1>12, <3>1, <3>2, <3>3
  <2>2. UNCHANGED <<schema, applied, topology, at, todo, step, handlers, up, mishaps>>
    BY <1>12 DEF TakeRequest, TakeJob, Finish, bootVars
  <2>. QED
    BY <2>1, <2>2 DEF TypeOK
<1>. QED
  BY <1>1, <1>2, <1>3, <1>4, <1>5, <1>6, <1>7, <1>8, <1>9, <1>10, <1>11,
     <1>12, StepCases
(* A step of one process leaves what another keeps alone, and the state the *)
(* processes share only grows.                                              *)
Same(q) == /\ at'[q] = at[q] /\ todo'[q] = todo[q] /\ step'[q] = step[q]
           /\ handlers'[q] = handlers[q] /\ up'[q] = up[q] /\ busy'[q] = busy[q]
Grows   == /\ \A s \in Services : schema[s] \subseteq schema'[s]
           /\ \A s \in Services : applied[s] \subseteq applied'[s]
           /\ topology \subseteq topology'

LEMMA OnlyMine ==
  ASSUME TypeOK, NEW p \in Processes, Step(p), NEW q \in Processes, q # p
  PROVE  Same(q)
<1>1. CASE Boot(p) \/ Connect(p) \/ StartWorker(p) \/ Listen(p)
  BY <1>1 DEF TypeOK, Same, Boot, Connect, StartWorker, Listen, Open, bootVars
<1>2. CASE CreateObject(p) \/ Provision(p)
  BY <1>2 DEF TypeOK, Same, CreateObject, Provision
<1>3. CASE RecordMigration(p)
  <2>1. CASE Min(todo[p]) \in applied[Service(p)]
    BY <1>3, <2>1, RecordRefused DEF TypeOK, Same, Gone
  <2>2. CASE Min(todo[p]) \notin applied[Service(p)]
    <3>1. PICK m : Record(p, m)
      BY <1>3, <2>2, RecordEffect
    <3>. QED
      BY <3>1 DEF TypeOK, Same, Record
  <2>. QED
    BY <2>1, <2>2
<1>4. CASE Exit(p) \/ GiveUp(p) \/ ForceExit(p) \/ Die(p)
  BY <1>4 DEF TypeOK, Same, Exit, GiveUp, ForceExit, Die, Gone
<1>5. CASE TearDown(p)
  BY <1>5 DEF TypeOK, Same, TearDown, bootVars
<1>6. CASE Signal(p) \/ TakeRequest(p) \/ TakeJob(p)
  BY <1>6 DEF TypeOK, Same, Signal, TakeRequest, TakeJob, bootVars
<1>7. CASE \E work \in busy[p] : Finish(p, work)
  BY <1>7 DEF TypeOK, Same, Finish, bootVars
<1>. QED
  BY <1>1, <1>2, <1>3, <1>4, <1>5, <1>6, <1>7, StepCases

LEMMA Growing ==
  ASSUME TypeOK, NEW p \in Processes, Step(p)
  PROVE  Grows
<1>1. CASE CreateObject(p)
  BY <1>1, ServiceType DEF TypeOK, Grows, CreateObject
<1>2. CASE RecordMigration(p)
  <2>1. CASE Min(todo[p]) \in applied[Service(p)]
    BY <1>2, <2>1, RecordRefused DEF Grows
  <2>2. CASE Min(todo[p]) \notin applied[Service(p)]
    <3>1. PICK m : Record(p, m)
      BY <1>2, <2>2, RecordEffect
    <3>. QED
      BY <3>1, ServiceType DEF TypeOK, Grows, Record
  <2>. QED
    BY <2>1, <2>2
<1>3. CASE Provision(p)
  BY <1>3 DEF TypeOK, Grows, Provision
<1>4. CASE UNCHANGED <<schema, applied, topology>>
  BY <1>4 DEF Grows
<1>. QED
  BY <1>1, <1>2, <1>3, <1>4, StepCases
     DEF Boot, Connect, StartWorker, Listen, Exit, GiveUp, ForceExit, Die,
         TearDown, Signal, TakeRequest, TakeJob, Finish

(* What is still to do of the migrations stays a last part of them.         *)
LEMMA StepTails ==
  ASSUME TypeOK, Tails, NEW p \in Processes, Step(p)
  PROVE  Tails'
<1>. USE MigrationAssumption
<1>1. ASSUME NEW q \in Processes, q # p, at'[q] # "down"
      PROVE  \E k \in 0..LastMigration : Remaining(q, k)'
  <2>1. at[q] # "down" /\ todo'[q] = todo[q] /\ Grows
    BY <1>1, OnlyMine, Growing DEF Same
  <2>2. PICK k \in 0..LastMigration : Remaining(q, k)
    BY <2>1 DEF Tails
  <2>3. applied[Service(q)] \subseteq applied'[Service(q)]
    BY <2>1, ServiceType DEF Grows
  <2>. QED
    BY <2>1, <2>2, <2>3 DEF Remaining, Service
<1>2. CASE RecordMigration(p)
  <2>. at[p] = "migrate" /\ todo[p] # {}
    BY <1>2 DEF RecordMigration
  <2>1. PICK k \in 0..LastMigration :
          /\ Remaining(p, k) /\ Min(todo[p]) = k + 1 /\ k + 1 \in Migration
          /\ todo[p] \ {k + 1} = (k + 2)..LastMigration
    BY FirstToDo
  <2>2. CASE Min(todo[p]) \in applied[Service(p)]
    <3>1. at'[p] = "down" /\ applied' = applied
      BY <1>2, <2>2, RecordRefused DEF Gone, TypeOK
    <3>. QED
      BY <1>1, <3>1 DEF Tails, Recorded
  <2>3. CASE Min(todo[p]) \notin applied[Service(p)]
    <3>0. PICK m : m = Min(todo[p]) /\ Record(p, m)
      BY <1>2, <2>3, RecordEffect
    <3>1. /\ applied[Service(p)] \cup {m} = 1..(k + 1) /\ m = k + 1
          /\ k + 1 \in 0..LastMigration
      BY <2>1, <2>3, <3>0, RecordOne
    <3>2. /\ applied'[Service(p)] = 1..(k + 1)
          /\ \A s \in Services : s # Service(p) => applied'[s] = applied[s]
      BY <3>0, <3>1, ServiceType DEF TypeOK, Record
    <3>3. \A s \in Services : Recorded(s)'
      BY <3>1, <3>2 DEF Tails, Recorded
    <3>4. todo'[p] = ((k + 1) + 1)..LastMigration
      BY <2>1, <3>0, <3>1 DEF TypeOK, Record
    <3>5. Remaining(p, k + 1)'
      BY <3>2, <3>4 DEF Remaining, Service
    <3>. QED
      BY <1>1, <3>1, <3>3, <3>5 DEF Tails
  <2>. QED
    BY <2>2, <2>3
<1>3. CASE Boot(p)
  <2>1. applied' = applied /\ todo'[p] = Migration \ applied[Service(p)]
    BY <1>3 DEF Boot, TypeOK
  <2>2. PICK n \in 0..LastMigration : applied[Service(p)] = 1..n
    BY ServiceType DEF Tails, Recorded
  <2>3. (1..LastMigration) \ (1..n) = (n + 1)..LastMigration
    OBVIOUS
  <2>4. Remaining(p, n)'
    BY <2>1, <2>2, <2>3 DEF Remaining, Service, Migration
  <2>. QED
    BY <1>1, <2>1, <2>4 DEF Tails, Recorded
<1>4. CASE /\ UNCHANGED applied
           /\ at'[p] # "down" => at[p] # "down" /\ todo'[p] = todo[p]
  <2>1. at'[p] # "down" => \E k \in 0..LastMigration : Remaining(p, k)'
    BY <1>4 DEF Tails, Remaining, Service
  <2>. QED
    BY <1>1, <1>4, <2>1 DEF Tails, Recorded
<1>5. CASE CreateObject(p) \/ Connect(p) \/ Provision(p) \/ StartWorker(p) \/ Listen(p)
  BY <1>4, <1>5 DEF CreateObject, Connect, Provision, StartWorker, Listen, TypeOK, bootVars
<1>6. CASE Exit(p) \/ GiveUp(p) \/ ForceExit(p) \/ Die(p)
  BY <1>4, <1>6 DEF Exit, GiveUp, ForceExit, Die, Gone, TypeOK
<1>7. CASE TearDown(p) \/ Signal(p)
  BY <1>4, <1>7 DEF TearDown, Signal, TypeOK, bootVars
<1>8. CASE TakeRequest(p) \/ TakeJob(p) \/ \E work \in busy[p] : Finish(p, work)
  <2>1. UNCHANGED <<at, todo, applied>>
    BY <1>8 DEF TakeRequest, TakeJob, Finish, bootVars
  <2>2. CASE at[p] # "down"
    BY <1>4, <2>1, <2>2
  <2>. QED
    BY <1>1, <2>1, <2>2 DEF Tails, Recorded
<1>. QED
  BY <1>2, <1>3, <1>5, <1>6, <1>7, <1>8, StepCases
(* Every step, of whichever process or of none, keeps types and tails.      *)
TypeInv == TypeOK /\ Tails

LEMMA InitType == Init => TypeInv
<1>. SUFFICES ASSUME Init PROVE TypeInv
  OBVIOUS
<1>. USE MigrationAssumption, MishapAssumption
<1>1. TypeOK
  <2>1. <<>> \in Seq(Resources)
    OBVIOUS
  <2>. QED
    BY <2>1 DEF Init, TypeOK
<1>2. 1..0 = {} /\ 0 \in 0..LastMigration
  OBVIOUS
<1>3. \A s \in Services : Recorded(s)
  BY <1>2 DEF Init, Recorded
<1>. QED
  BY <1>1, <1>3 DEF Init, Tails, TypeInv

LEMMA NextType == TypeInv /\ [Next]_vars => TypeInv'
<1>. SUFFICES ASSUME TypeInv, [Next]_vars PROVE TypeInv'
  OBVIOUS
<1>1. CASE Next
  <2>1. PICK p \in Processes : Step(p)
    BY <1>1 DEF Next, Step
  <2>. QED
    BY <2>1, StepType, StepTails DEF TypeInv
<1>2. CASE UNCHANGED vars
  <2>1. TypeOK'
    BY <1>2 DEF TypeInv, TypeOK, vars, procVars, bootVars
  <2>2. Tails'
    BY <1>2 DEF TypeInv, Tails, Recorded, Remaining, Service, vars, procVars, bootVars
  <2>. QED
    BY <2>1, <2>2 DEF TypeInv
<1>. QED
  BY <1>1, <1>2

(* Whatever the number of replicas and migrations, every variable keeps its *)
(* shape; in particular a boot only ever runs migrations that exist.        *)
THEOREM TypeCorrect == Spec => []TypeOK
<1>1. TypeInv => TypeOK
  BY DEF TypeInv
<1>. QED
  BY InitType, NextType, <1>1, PTL DEF Spec

-----------------------------------------------------------------------------
(* The migrations.                                                          *)

(* How far a process is with its next migration is what is built of it.     *)
Halfway(p) ==
  /\ at[p] = "down" => step[p] = 1
  /\ at[p] = "migrate" =>
       /\ todo[p] = {} => step[p] = 1
       /\ todo[p] # {} => \A j \in 1..Parts :
            j < step[p] => <<Min(todo[p]), j>> \in schema[Service(p)]
  /\ at[p] \notin {"down", "migrate"} => todo[p] = {}

BuiltInv ==
  /\ \A s \in Services : \A m \in applied[s] : Built(s, m)
  /\ \A p \in Processes : Halfway(p)

(* A process that does nothing is as far as it was.                         *)
LEMMA HalfwayOfOther ==
  ASSUME NEW q \in Processes, Same(q), Grows, Halfway(q)
  PROVE  Halfway(q)'
<1>1. schema[Service(q)] \subseteq schema'[Service(q)]
  BY ServiceType DEF Grows
<1>. QED
  BY <1>1 DEF Halfway, Same, Service

(* What is built stays so.                                                  *)
LEMMA BuiltStays ==
  ASSUME Grows, NEW s \in Services, NEW m, Built(s, m)
  PROVE  Built(s, m)'
  BY DEF Grows, Built

LEMMA StepBuilt ==
  ASSUME TypeInv, BuiltInv, NEW p \in Processes, Step(p)
  PROVE  BuiltInv'
<1>. USE MigrationAssumption DEF TypeInv
<1>1. Grows
  BY Growing
<1>2. \A q \in Processes : q # p => Halfway(q)'
  BY <1>1, OnlyMine, HalfwayOfOther DEF BuiltInv
<1>3. \A s \in Services : \A m \in applied[s] : Built(s, m)'
  BY <1>1, BuiltStays DEF BuiltInv
<1>4. Halfway(p)
  BY DEF BuiltInv
<1>5. CASE RecordMigration(p)
  <2>1. CASE Min(todo[p]) \in applied[Service(p)]
    <3>1. at'[p] = "down" /\ step'[p] = 1 /\ applied' = applied
      BY <1>5, <2>1, RecordRefused DEF Gone, TypeOK
    <3>. QED
      BY <1>2, <1>3, <3>1 DEF BuiltInv, Halfway
  <2>2. CASE Min(todo[p]) \notin applied[Service(p)]
    <3>1. PICK m : m = Min(todo[p]) /\ Record(p, m)
      BY <1>5, <2>2, RecordEffect
    <3>2. at[p] = "migrate" /\ todo[p] # {} /\ step[p] > Parts /\ step[p] \in Nat
      BY <1>5 DEF RecordMigration, TypeOK
    <3>3. \A j \in 1..Parts : <<m, j>> \in schema[Service(p)]
      BY <1>4, <3>1, <3>2 DEF Halfway
    <3>4. Built(Service(p), m)'
      BY <3>1, <3>3 DEF Built, Record, Service
    <3>5. \A s \in Services : \A l \in applied'[s] : Built(s, l)'
      <4>1. \A s \in Services : \A l \in applied'[s] : l \in applied[s] \/ (s = Service(p) /\ l = m)
        BY <3>1 DEF Record, TypeOK
      <4>. QED
        BY <1>3, <3>4, <4>1
    <3>6. at'[p] = "migrate" /\ step'[p] = 1
      BY <3>1, <3>2 DEF Record, TypeOK
    <3>7. Halfway(p)'
      BY <3>6 DEF Halfway
    <3>. QED
      BY <1>2, <3>5, <3>7 DEF BuiltInv
  <2>. QED
    BY <2>1, <2>2
<1>6. CASE CreateObject(p)
  <2>1. /\ at' = at /\ todo' = todo /\ applied' = applied
        /\ at[p] = "migrate" /\ todo[p] # {}
        /\ step'[p] = step[p] + 1 /\ step[p] \in Nat
    BY <1>6 DEF CreateObject, TypeOK
  <2>2. <<Min(todo[p]), step[p]>> \in schema'[Service(p)]
    BY <1>6, ServiceType DEF CreateObject, TypeOK
  <2>3. schema[Service(p)] \subseteq schema'[Service(p)]
    BY <1>1, ServiceType DEF Grows
  <2>4. ASSUME NEW j \in 1..Parts, j < step[p] + 1
        PROVE  <<Min(todo[p]), j>> \in schema'[Service(p)]
    <3>1. CASE j = step[p]
      BY <2>2, <3>1
    <3>2. CASE j < step[p]
      BY <1>4, <2>1, <2>3, <3>2 DEF Halfway
    <3>. QED
      BY <2>1, <2>4, <3>1, <3>2
  <2>5. Halfway(p)'
    BY <2>1, <2>4 DEF Halfway, Service
  <2>. QED
    BY <1>2, <1>3, <2>1, <2>5 DEF BuiltInv
<1>7. CASE applied' = applied /\ Halfway(p)'
  BY <1>2, <1>3, <1>7 DEF BuiltInv
<1>8. CASE Boot(p)
  <2>1. applied' = applied /\ at'[p] = "migrate" /\ step'[p] = 1
    BY <1>4, <1>8 DEF Boot, Halfway, TypeOK
  <2>. QED
    BY <1>7, <2>1 DEF Halfway
<1>9. CASE Connect(p) \/ Provision(p) \/ StartWorker(p) \/ Listen(p)
  <2>1. applied' = applied /\ todo'[p] = todo[p]
    BY <1>9 DEF Connect, Provision, StartWorker, Listen, bootVars
  <2>2. at'[p] \in {"topology", "worker", "serving"}
    BY <1>9 DEF Connect, Provision, StartWorker, Listen, TypeOK
  <2>3. at[p] \in {"topology", "worker"} \/ (at[p] = "migrate" /\ todo[p] = {})
    BY <1>9 DEF Connect, Provision, StartWorker, Listen
  <2>. QED
    BY <1>4, <1>7, <2>1, <2>2, <2>3 DEF Halfway
<1>10. CASE Exit(p) \/ GiveUp(p) \/ ForceExit(p) \/ Die(p)
  <2>1. applied' = applied /\ at'[p] = "down" /\ step'[p] = 1
    BY <1>10 DEF Exit, GiveUp, ForceExit, Die, Gone, TypeOK
  <2>. QED
    BY <1>7, <2>1 DEF Halfway
<1>11. CASE TearDown(p) \/ Signal(p)
  <2>1. /\ applied' = applied /\ todo'[p] = todo[p]
        /\ {at[p], at'[p]} \cap {"down", "migrate"} = {}
    BY <1>11 DEF TearDown, Signal, bootVars, TypeOK
  <2>. QED
    BY <1>4, <1>7, <2>1 DEF Halfway
<1>12. CASE TakeRequest(p) \/ TakeJob(p) \/ \E work \in busy[p] : Finish(p, work)
  <2>1. UNCHANGED <<schema, applied, at, todo, step>>
    BY <1>12 DEF TakeRequest, TakeJob, Finish, bootVars
  <2>. QED
    BY <1>4, <1>7, <2>1 DEF Halfway, Service
<1>. QED
  BY <1>5, <1>6, <1>8, <1>9, <1>10, <1>11, <1>12, StepCases
-----------------------------------------------------------------------------
(* The topology.                                                            *)

(* Streams come before the consumer on them, whoever provisions; a process  *)
(* that has a worker found, or made, the stream and the consumer it needs.  *)
Worked   == {"worker", "serving", "closing"}
Provided == {"USER_EVENTS", "consumer"} \subseteq topology
Provisioned(p) ==
  /\ p \in UserReplicas /\ at[p] = "topology" =>
       \A j \in 1..Len(Topology) : j < step[p] => Topology[j] \in topology
  /\ at[p] \in Worked => Provided

TopologyInv ==
  /\ "consumer" \in topology => Provided
  /\ \A p \in Processes : Provisioned(p)

LEMMA TopologyParts ==
  /\ Len(Topology) = 3 /\ Topology[1] = "USER_EVENTS"
  /\ Topology[2] = "USER_EVENTS_DLQ" /\ Topology[3] = "consumer"
  BY DEF Topology

LEMMA ProvisionedOfOther ==
  ASSUME NEW q \in Processes, Same(q), Grows, Provisioned(q)
  PROVE  Provisioned(q)'
  BY DEF Provisioned, Provided, Same, Grows

LEMMA StepTopology ==
  ASSUME TypeInv, BuiltInv, TopologyInv, NEW p \in Processes, Step(p)
  PROVE  TopologyInv'
<1>. USE DEF TypeInv
<1>1. Grows
  BY Growing
<1>2. \A q \in Processes : q # p => Provisioned(q)'
  BY <1>1, OnlyMine, ProvisionedOfOther DEF TopologyInv
<1>3. Provisioned(p) /\ Halfway(p) /\ ("consumer" \in topology => Provided)
  BY DEF TopologyInv, BuiltInv
<1>4. CASE Provision(p)
  <2>1. /\ p \in UserReplicas /\ at[p] = "topology" /\ at' = at
        /\ step'[p] = step[p] + 1 /\ step[p] \in 1..3
        /\ topology' = topology \cup {Topology[step[p]]}
    BY <1>4, TopologyParts DEF Provision, TypeOK
  <2>2. \A j \in 1..3 : j < step[p] + 1 => j < step[p] \/ j = step[p]
    BY <2>1
  <2>3. \A j \in 1..3 : j < step'[p] => Topology[j] \in topology'
    BY <1>3, <2>1, <2>2, TopologyParts DEF Provisioned
  <2>4. Provisioned(p)'
    BY <2>1, <2>3, TopologyParts DEF Provisioned, Worked
  <2>5. CASE step[p] = 3
    <3>1. Topology[1] \in topology'
      BY <2>1, <2>3, <2>5
    <3>2. Topology[3] \in topology'
      BY <2>1, <2>5
    <3>. QED
      BY <1>2, <2>4, <3>1, <3>2, TopologyParts DEF TopologyInv, Provided
  <2>6. CASE step[p] # 3
    <3>1. Topology[step[p]] # "consumer"
      BY <2>1, <2>6, TopologyParts
    <3>. QED
      BY <1>2, <1>3, <2>1, <2>4, <3>1 DEF TopologyInv, Provided
  <2>. QED
    BY <2>5, <2>6
<1>5. CASE topology' = topology /\ Provisioned(p)'
  BY <1>2, <1>3, <1>5 DEF TopologyInv, Provided
<1>6. CASE Connect(p)
  <2>1. topology' = topology /\ at'[p] = "topology" /\ step'[p] = 1
    BY <1>3, <1>6 DEF Connect, Halfway, bootVars, TypeOK
  <2>. QED
    BY <1>5, <2>1, TopologyParts DEF Provisioned, Worked
<1>7. CASE StartWorker(p)
  <2>1. topology' = topology /\ at'[p] = "worker" /\ at[p] = "topology" /\ step[p] \in Nat
    BY <1>7 DEF StartWorker, TypeOK
  <2>2. Provided
    <3>1. CASE p \in UserReplicas
      <4>1. step[p] > 3
        BY <1>7, <3>1, TopologyParts DEF StartWorker
      <4>2. Topology[1] \in topology /\ Topology[3] \in topology
        BY <1>3, <2>1, <3>1, <4>1, TopologyParts DEF Provisioned
      <4>. QED
        BY <4>2, TopologyParts DEF Provided
    <3>2. CASE p \notin UserReplicas
      BY <1>3, <1>7, <3>2 DEF StartWorker
    <3>. QED
      BY <3>1, <3>2
  <2>. QED
    BY <1>5, <2>1, <2>2 DEF Provisioned, Provided
<1>8. CASE Listen(p) \/ Signal(p) \/ TearDown(p)
  <2>1. topology' = topology
    BY <1>8 DEF Listen, Signal, TearDown
  <2>2. at[p] \in Worked /\ at'[p] \in Worked
    BY <1>8 DEF Listen, Signal, TearDown, Worked, TypeOK
  <2>3. at'[p] # "topology"
    BY <2>2 DEF Worked
  <2>. QED
    BY <1>3, <1>5, <2>1, <2>2, <2>3 DEF Provisioned, Provided
<1>9. CASE topology' = topology /\ at'[p] \in {"down", "migrate"}
  BY <1>5, <1>9 DEF Provisioned, Worked
<1>10. CASE RecordMigration(p)
  <2>1. CASE Min(todo[p]) \in applied[Service(p)]
    BY <1>9, <1>10, <2>1, RecordRefused DEF Gone, TypeOK
  <2>2. CASE Min(todo[p]) \notin applied[Service(p)]
    <3>1. PICK m : Record(p, m)
      BY <1>10, <2>2, RecordEffect
    <3>2. at[p] = "migrate"
      BY <1>10 DEF RecordMigration
    <3>. QED
      BY <1>9, <3>1, <3>2 DEF Record
  <2>. QED
    BY <2>1, <2>2
<1>11. CASE Boot(p) \/ CreateObject(p)
  BY <1>9, <1>11 DEF Boot, CreateObject, TypeOK
<1>12. CASE Exit(p) \/ GiveUp(p) \/ ForceExit(p) \/ Die(p)
  BY <1>9, <1>12 DEF Exit, GiveUp, ForceExit, Die, Gone, TypeOK
<1>13. CASE TakeRequest(p) \/ TakeJob(p) \/ \E work \in busy[p] : Finish(p, work)
  <2>1. UNCHANGED <<topology, at, step>>
    BY <1>13 DEF TakeRequest, TakeJob, Finish, bootVars
  <2>. QED
    BY <1>3, <1>5, <2>1 DEF Provisioned, Provided
<1>. QED
  BY <1>4, <1>6, <1>7, <1>8, <1>10, <1>11, <1>12, <1>13, StepCases
-----------------------------------------------------------------------------
(* The handlers of a shutdown.                                              *)

(* The order in which main() opens its resources.                           *)
Order(p) == IF p \in UserReplicas
            THEN <<"database", "nats", "worker", "http">>
            ELSE <<"database", "channel", "nats", "worker", "http">>
Full(p)  == IF p \in UserReplicas THEN 4 ELSE 5

LEMMA OrderFacts ==
  ASSUME NEW p \in Processes
  PROVE  /\ Full(p) \in {4, 5}
         /\ Order(p)[Full(p)] = "http" /\ Order(p)[Full(p) - 1] = "worker"
         /\ \A i \in 1..(Full(p) - 2) : Order(p)[i] \notin {"worker", "http"}
         /\ \A i, j \in 1..Full(p) : Order(p)[i] = Order(p)[j] => i = j
<1>1. CASE p \in UserReplicas
  <2>1. \A i \in 1..4 : i = 1 \/ i = 2 \/ i = 3 \/ i = 4
    OBVIOUS
  <2>2. /\ Order(p)[1] = "database" /\ Order(p)[2] = "nats"
        /\ Order(p)[3] = "worker" /\ Order(p)[4] = "http" /\ Full(p) = 4
    BY <1>1 DEF Order, Full
  <2>3. \A i, j \in 1..4 : Order(p)[i] = Order(p)[j] => i = j
    BY <2>1, <2>2
  <2>4. \A i \in 1..2 : Order(p)[i] \notin {"worker", "http"}
    BY <2>2
  <2>. QED
    BY <2>2, <2>3, <2>4
<1>2. CASE p \notin UserReplicas
  <2>1. \A i \in 1..5 : i = 1 \/ i = 2 \/ i = 3 \/ i = 4 \/ i = 5
    OBVIOUS
  <2>2. /\ Order(p)[1] = "database" /\ Order(p)[2] = "channel" /\ Order(p)[3] = "nats"
        /\ Order(p)[4] = "worker" /\ Order(p)[5] = "http" /\ Full(p) = 5
    BY <1>2 DEF Order, Full
  <2>3. \A i, j \in 1..5 : Order(p)[i] = Order(p)[j] => i = j
    BY <2>1, <2>2
  <2>4. \A i \in 1..3 : Order(p)[i] \notin {"worker", "http"}
    BY <2>2
  <2>. QED
    BY <2>2, <2>3, <2>4
<1>. QED
  BY <1>1, <1>2

(* What is still registered is a first part of that order, is open, and is  *)
(* all there is below the work in flight.                                   *)
Registered(p) ==
  /\ Len(handlers[p]) <= Full(p)
  /\ \A i \in 1..Len(handlers[p]) :
       handlers[p][i] = Order(p)[i] /\ handlers[p][i] \in up[p]
Stack(p) ==
  /\ Registered(p)
  /\ at[p] = "down"     => Len(handlers[p]) = 0
  /\ at[p] = "migrate"  => Len(handlers[p]) = 1
  /\ at[p] = "topology" => Len(handlers[p]) = Full(p) - 2
  /\ at[p] = "worker"   => Len(handlers[p]) = Full(p) - 1
  /\ at[p] = "serving"  => Len(handlers[p]) = Full(p)
  /\ "worker" \in up[p]    => at[p] \in Worked /\ Len(handlers[p]) >= Full(p) - 1
  /\ "request" \in busy[p] => Len(handlers[p]) = Full(p)
  /\ "job" \in busy[p]     => Len(handlers[p]) >= Full(p) - 1

StackInv == \A p \in Processes : Stack(p)

(* Opening what comes next in the order extends the first part of it.       *)
LEMMA OpenNext ==
  ASSUME TypeOK, NEW p \in Processes, Registered(p),
         NEW resources \in Seq(Resources), Open(p, resources),
         Len(handlers[p]) + Len(resources) <= Full(p),
         \A i \in 1..Len(resources) : resources[i] = Order(p)[Len(handlers[p]) + i]
  PROVE  /\ Registered(p)'
         /\ Len(handlers'[p]) = Len(handlers[p]) + Len(resources)
         /\ up'[p] = up[p] \cup ToSet(resources)
<1>. DEFINE s == handlers[p]
<1>1. s \in Seq(Resources) /\ Len(s) \in Nat /\ Len(resources) \in Nat
  BY DEF TypeOK
<1>2. handlers'[p] = s \o resources /\ up'[p] = up[p] \cup ToSet(resources)
  BY DEF Open, TypeOK
<1>3. /\ Len(s \o resources) = Len(s) + Len(resources)
      /\ \A i \in 1..(Len(s) + Len(resources)) :
           (s \o resources)[i] = IF i <= Len(s) THEN s[i] ELSE resources[i - Len(s)]
  BY <1>1, ConcatProperties
<1>4. \A i \in 1..Len(resources) : resources[i] \in ToSet(resources)
  BY <1>1 DEF ToSet
<1>5. ASSUME NEW i \in 1..(Len(s) + Len(resources))
      PROVE  handlers'[p][i] = Order(p)[i] /\ handlers'[p][i] \in up'[p]
  <2>1. CASE i <= Len(s)
    <3>1. i \in 1..Len(s)
      BY <1>1, <2>1
    <3>. QED
      BY <1>2, <1>3, <2>1, <3>1 DEF Registered
  <2>2. CASE ~(i <= Len(s))
    <3>1. i - Len(s) \in 1..Len(resources) /\ Len(s) + (i - Len(s)) = i
      BY <1>1, <2>2
    <3>2. resources[i - Len(s)] = Order(p)[i]
      BY <3>1
    <3>. QED
      BY <1>2, <1>3, <1>4, <2>2, <3>1, <3>2
  <2>. QED
    BY <2>1, <2>2
<1>6. Full(p)' = Full(p) /\ Order(p)' = Order(p)
  BY DEF Full, Order
<1>. QED
  BY <1>1, <1>2, <1>3, <1>5, <1>6 DEF Registered

(* The same for a single resource.                                         *)
LEMMA OpenSingle ==
  ASSUME TypeOK, NEW p \in Processes, Registered(p),
         NEW r \in Resources, Open(p, <<r>>),
         Len(handlers[p]) < Full(p), r = Order(p)[Len(handlers[p]) + 1]
  PROVE  /\ Registered(p)' /\ Len(handlers'[p]) = Len(handlers[p]) + 1
         /\ up'[p] = up[p] \cup {r}
<1>1. /\ <<r>> \in Seq(Resources) /\ Len(<<r>>) = 1
      /\ \A i \in 1..Len(<<r>>) : i = 1 /\ <<r>>[i] = r
  OBVIOUS
<1>2. Len(handlers[p]) \in Nat /\ Full(p) \in {4, 5}
  BY OrderFacts DEF TypeOK
<1>3. /\ Len(handlers[p]) + Len(<<r>>) <= Full(p)
      /\ \A i \in 1..Len(<<r>>) : <<r>>[i] = Order(p)[Len(handlers[p]) + i]
  BY <1>1, <1>2
<1>4. ToSet(<<r>>) = {r}
  BY DEF ToSet
<1>. QED
  BY <1>1, <1>3, <1>4, OpenNext

LEMMA StackOfOther ==
  ASSUME NEW q \in Processes, Same(q), Stack(q)
  PROVE  Stack(q)'
  BY DEF Stack, Registered, Same, Full, Order, Worked

(* A process that is gone has nothing registered, open or in flight.        *)
LEMMA GoneStack ==
  ASSUME TypeOK, NEW p \in Processes, Gone(p)
  PROVE  Stack(p)'
<1>1. /\ at'[p] = "down" /\ handlers'[p] = <<>> /\ up'[p] = {} /\ busy'[p] = {}
  BY DEF Gone, TypeOK
<1>2. Len(<<>>) = 0 /\ 1..0 = {} /\ 0 <= Full(p)
  BY OrderFacts
<1>3. Registered(p)'
  BY <1>1, <1>2 DEF Registered, Full, Order
<1>. QED
  BY <1>1, <1>2, <1>3 DEF Stack, Full
(* Teardown takes the last of what is registered, once the work that needs  *)
(* it is finished.                                                          *)
LEMMA TearDownStack ==
  ASSUME TypeOK, NEW p \in Processes, Stack(p), TearDown(p)
  PROVE  Stack(p)'
<1>. DEFINE s == handlers[p]
            r == Last(s)
<1>1. /\ Len(s) \in Nat \ {0} /\ Last(s) = s[Len(s)]
      /\ Len(Front(s)) = Len(s) - 1
      /\ \A i \in 1..(Len(s) - 1) : Front(s)[i] = s[i]
  <2>1. s \in Seq(Resources) /\ s # <<>>
    BY DEF TearDown, TypeOK
  <2>. HIDE DEF s
  <2>. QED
    BY <2>1, LastAndFront
<1>2. /\ Len(s) <= Full(p) /\ Full(p) \in {4, 5}
      /\ \A i \in 1..Len(s) : s[i] = Order(p)[i] /\ s[i] \in up[p]
  BY OrderFacts DEF Stack, Registered
<1>3. /\ handlers'[p] = Front(s) /\ at'[p] = "closing" /\ busy' = busy
      /\ at[p] = "closing"
  BY DEF TearDown, bootVars, TypeOK
<1>4. Awaited(p, r) /\ r = Order(p)[Len(s)]
  BY <1>1, <1>2 DEF TearDown
<1>5. up'[p] = up[p] \ {r} \/ (r \notin {"worker", "http"} /\ up'[p] = up[p])
  BY DEF TearDown, TypeOK
<1>6. Registered(p)'
  <2>1. ASSUME NEW i \in 1..(Len(s) - 1)
        PROVE  s[i] = Order(p)[i] /\ s[i] \in up'[p]
    <3>1. i \in 1..Len(s) /\ i # Len(s) /\ i \in 1..Full(p) /\ Len(s) \in 1..Full(p)
      BY <1>1, <1>2
    <3>2. Order(p)[i] # r
      BY <1>4, <3>1, OrderFacts
    <3>. QED
      BY <1>2, <1>5, <3>1, <3>2
  <2>2. Full(p)' = Full(p) /\ Order(p)' = Order(p) /\ Len(s) - 1 <= Full(p)
    BY <1>1, <1>2 DEF Full, Order
  <2>. QED
    BY <1>1, <1>3, <2>1, <2>2 DEF Registered
<1>7. CASE Len(s) = Full(p)
  <2>1. r = "http" /\ "request" \notin busy[p]
    BY <1>4, <1>7, OrderFacts DEF Awaited
  <2>. QED
    BY <1>1, <1>2, <1>3, <1>5, <1>6, <1>7, <2>1 DEF Stack, Full, Worked
<1>8. CASE Len(s) = Full(p) - 1
  <2>1. r = "worker" /\ "job" \notin busy[p] /\ "request" \notin busy[p]
    BY <1>2, <1>4, <1>8, OrderFacts DEF Awaited, Stack
  <2>2. "worker" \notin up'[p]
    BY <1>5, <2>1
  <2>. QED
    BY <1>3, <1>6, <2>1, <2>2 DEF Stack
<1>9. CASE Len(s) < Full(p) - 1
  <2>1. /\ "job" \notin busy[p] /\ "request" \notin busy[p] /\ "worker" \notin up[p]
    BY <1>1, <1>2, <1>9 DEF Stack
  <2>. QED
    BY <1>3, <1>5, <1>6, <2>1 DEF Stack
<1>. QED
  BY <1>1, <1>2, <1>7, <1>8, <1>9

LEMMA StepStack ==
  ASSUME TypeOK, StackInv, NEW p \in Processes, Step(p)
  PROVE  StackInv'
<1>. SUFFICES Stack(p)'
  BY OnlyMine, StackOfOther DEF StackInv
<1>1. Stack(p) /\ Registered(p) /\ Full(p) \in {4, 5} /\ Len(handlers[p]) \in Nat
  BY OrderFacts DEF StackInv, Stack, TypeOK
<1>2. Full(p)' = Full(p)
  BY DEF Full
<1>3. CASE Boot(p)
  <2>1. Order(p)[0 + 1] = "database" /\ "database" \in Resources
    BY DEF Order, Resources
  <2>2. at[p] = "down" /\ Open(p, <<"database">>) /\ at'[p] = "migrate" /\ busy' = busy
    BY <1>3 DEF Boot, TypeOK
  <2>3. Len(handlers[p]) = 0
    BY <1>1, <2>2 DEF Stack
  <2>4. /\ Registered(p)' /\ Len(handlers'[p]) = 1
        /\ up'[p] = up[p] \cup {"database"}
    <3>1. /\ Len(handlers[p]) < Full(p)
          /\ "database" = Order(p)[Len(handlers[p]) + 1]
      BY <1>1, <2>1, <2>3
    <3>2. /\ Registered(p)' /\ Len(handlers'[p]) = Len(handlers[p]) + 1
          /\ up'[p] = up[p] \cup {"database"}
      BY <1>1, <2>1, <2>2, <3>1, OpenSingle
    <3>. QED
      BY <2>3, <3>2
  <2>. QED
    BY <1>1, <1>2, <2>2, <2>3, <2>4 DEF Stack, Worked
<1>4. CASE Connect(p)
  <2>. DEFINE opened == IF p \in UserReplicas THEN <<"nats">> ELSE <<"channel", "nats">>
  <2>1. /\ Len(opened) = Full(p) - 3 /\ "worker" \notin ToSet(opened)
        /\ \A i \in 1..Len(opened) : opened[i] = Order(p)[1 + i]
    <3>1. CASE p \in UserReplicas
      BY <3>1 DEF Full, Order, ToSet
    <3>2. CASE p \notin UserReplicas
      BY <3>2 DEF Full, Order, ToSet
    <3>. QED
      BY <3>1, <3>2
  <2>2. opened \in Seq(Resources)
    BY OpenedType
  <2>3. at[p] = "migrate" /\ Open(p, opened) /\ at'[p] = "topology" /\ busy' = busy
    BY <1>4 DEF Connect, TypeOK
  <2>. HIDE DEF opened
  <2>4. Len(handlers[p]) = 1
    BY <1>1, <2>3 DEF Stack
  <2>5. /\ Registered(p)' /\ Len(handlers'[p]) = Full(p) - 2
        /\ up'[p] = up[p] \cup ToSet(opened)
    <3>1. /\ Len(handlers[p]) + Len(opened) <= Full(p)
          /\ 1 + Len(opened) = Full(p) - 2
          /\ \A i \in 1..Len(opened) : opened[i] = Order(p)[Len(handlers[p]) + i]
      BY <1>1, <2>1, <2>4
    <3>. QED
      BY <1>1, <2>2, <2>3, <2>4, <3>1, OpenNext
  <2>. QED
    BY <1>1, <1>2, <2>1, <2>3, <2>4, <2>5 DEF Stack, Worked
<1>5. CASE StartWorker(p)
  <2>1. /\ at[p] = "topology" /\ Open(p, <<"worker">>) /\ at'[p] = "worker" /\ busy' = busy
    BY <1>5 DEF StartWorker, TypeOK
  <2>2. Len(handlers[p]) = Full(p) - 2
    BY <1>1, <2>1 DEF Stack
  <2>3. Order(p)[(Full(p) - 2) + 1] = "worker" /\ "worker" \in Resources
    BY <1>1, OrderFacts DEF Resources
  <2>4. Registered(p)' /\ Len(handlers'[p]) = Full(p) - 1
    BY <1>1, <2>1, <2>2, <2>3, OpenSingle
  <2>. QED
    BY <1>1, <1>2, <2>1, <2>2, <2>4 DEF Stack, Worked
<1>6. CASE Listen(p)
  <2>1. /\ at[p] = "worker" /\ Open(p, <<"http">>) /\ at'[p] = "serving" /\ busy' = busy
    BY <1>6 DEF Listen, TypeOK
  <2>2. Len(handlers[p]) = Full(p) - 1
    BY <1>1, <2>1 DEF Stack
  <2>3. Order(p)[(Full(p) - 1) + 1] = "http" /\ "http" \in Resources
    BY <1>1, OrderFacts DEF Resources
  <2>4. Registered(p)' /\ Len(handlers'[p]) = Full(p)
    BY <1>1, <2>1, <2>2, <2>3, OpenSingle
  <2>. QED
    BY <1>1, <1>2, <2>1, <2>2, <2>4 DEF Stack, Worked
<1>7. CASE TearDown(p)
  BY <1>1, <1>7, TearDownStack
<1>8. CASE Exit(p) \/ GiveUp(p) \/ ForceExit(p) \/ Die(p)
  BY <1>8, GoneStack DEF Exit, GiveUp, ForceExit, Die
<1>9. CASE /\ UNCHANGED <<handlers, up, busy>>
           /\ at'[p] = at[p] \/ (at[p] = "serving" /\ at'[p] = "closing")
  BY <1>1, <1>2, <1>9 DEF Stack, Registered, Order, Worked
<1>10. CASE RecordMigration(p)
  <2>1. CASE Min(todo[p]) \in applied[Service(p)]
    BY <1>10, <2>1, RecordRefused, GoneStack
  <2>2. CASE Min(todo[p]) \notin applied[Service(p)]
    <3>1. PICK m : Record(p, m)
      BY <1>10, <2>2, RecordEffect
    <3>. QED
      BY <1>9, <3>1 DEF Record
  <2>. QED
    BY <2>1, <2>2
<1>11. CASE CreateObject(p) \/ Provision(p) \/ Signal(p)
  BY <1>9, <1>11 DEF CreateObject, Provision, Signal, TypeOK
<1>12. CASE TakeRequest(p)
  <2>1. at[p] = "serving" /\ UNCHANGED <<at, handlers, up>> /\ busy'[p] = busy[p] \cup {"request"}
    BY <1>12 DEF TakeRequest, TypeOK
  <2>. QED
    BY <1>1, <1>2, <2>1 DEF Stack, Registered, Order
<1>13. CASE TakeJob(p)
  <2>1. "worker" \in up[p] /\ UNCHANGED <<at, handlers, up>> /\ busy'[p] = busy[p] \cup {"job"}
    BY <1>13 DEF TakeJob, TypeOK
  <2>. QED
    BY <1>1, <1>2, <2>1 DEF Stack, Registered, Order
<1>14. CASE \E work \in busy[p] : Finish(p, work)
  <2>1. UNCHANGED <<at, handlers, up>> /\ busy'[p] \subseteq busy[p]
    BY <1>14 DEF Finish, TypeOK
  <2>. QED
    BY <1>1, <1>2, <2>1 DEF Stack, Registered, Order
<1>. QED
  BY <1>3, <1>4, <1>5, <1>6, <1>7, <1>8, <1>10, <1>11, <1>12, <1>13, <1>14, StepCases
-----------------------------------------------------------------------------
(* The invariant of the whole, and what follows from it.                    *)

LifecycleInv == TypeInv /\ BuiltInv /\ TopologyInv /\ StackInv

LEMMA InitLifecycle == Init => LifecycleInv
<1>. SUFFICES ASSUME Init PROVE LifecycleInv
  OBVIOUS
<1>1. TypeInv
  BY InitType
<1>2. BuiltInv
  BY DEF Init, BuiltInv, Halfway
<1>3. TopologyInv
  BY DEF Init, TopologyInv, Provisioned, Worked
<1>4. ASSUME NEW p \in Processes PROVE Stack(p)
  <2>1. /\ Len(handlers[p]) = 0 /\ 1..0 = {} /\ 0 <= Full(p) /\ at[p] = "down"
        /\ up[p] = {} /\ busy[p] = {}
    BY OrderFacts DEF Init
  <2>. QED
    BY <2>1 DEF Stack, Registered
<1>. QED
  BY <1>1, <1>2, <1>3, <1>4 DEF LifecycleInv, StackInv

LEMMA NextLifecycle == LifecycleInv /\ [Next]_vars => LifecycleInv'
<1>. SUFFICES ASSUME LifecycleInv, [Next]_vars PROVE LifecycleInv'
  OBVIOUS
<1>1. TypeInv'
  BY NextType DEF LifecycleInv
<1>2. CASE Next
  <2>1. PICK p \in Processes : Step(p)
    BY <1>2 DEF Next, Step
  <2>. QED
    BY <1>1, <2>1, StepBuilt, StepTopology, StepStack DEF LifecycleInv, TypeInv
<1>3. CASE UNCHANGED vars
  <2>1. Grows /\ \A q \in Processes : Same(q)
    BY <1>3 DEF Grows, Same, vars, procVars, bootVars
  <2>2. BuiltInv'
    <3>1. \A q \in Processes : Halfway(q)'
      BY <2>1, HalfwayOfOther DEF LifecycleInv, BuiltInv
    <3>2. \A s \in Services : \A m \in applied'[s] : Built(s, m)'
      BY <1>3 DEF LifecycleInv, BuiltInv, Built, vars
    <3>. QED
      BY <3>1, <3>2 DEF BuiltInv
  <2>3. TopologyInv'
    <3>1. \A q \in Processes : Provisioned(q)'
      BY <2>1, ProvisionedOfOther DEF LifecycleInv, TopologyInv
    <3>. QED
      BY <1>3, <3>1 DEF LifecycleInv, TopologyInv, Provided, vars
  <2>4. StackInv'
    BY <2>1, StackOfOther DEF LifecycleInv, StackInv
  <2>. QED
    BY <1>1, <2>2, <2>3, <2>4 DEF LifecycleInv
<1>. QED
  BY <1>2, <1>3

(* A recorded migration took effect as a whole and so did all before it,    *)
(* although replicas run them at the same time, up() is no transaction, and *)
(* any of them may die between two statements.                              *)
THEOREM RecordedTookEffect == Spec => []RecordedIsBuilt
<1>1. LifecycleInv => RecordedIsBuilt
  <2>. SUFFICES ASSUME LifecycleInv, NEW s \in Services, NEW m \in applied[s]
                PROVE  Built(s, m) /\ \A l \in 1..m : l \in applied[s]
    BY DEF RecordedIsBuilt
  <2>1. Built(s, m)
    BY DEF LifecycleInv, BuiltInv
  <2>2. PICK n \in 0..LastMigration : applied[s] = 1..n
    BY DEF LifecycleInv, TypeInv, Tails, Recorded
  <2>3. \A l \in 1..m : l \in 1..n
    BY <2>2, MigrationAssumption
  <2>. QED
    BY <2>1, <2>2, <2>3
<1>. QED
  BY InitLifecycle, NextLifecycle, <1>1, PTL DEF Spec

(* No worker runs before the tables of its service and its part of the      *)
(* topology exist, in whatever order the services and replicas boot.        *)
THEOREM BootsInOrder == Spec => []ReadyBeforeWork
<1>1. LifecycleInv => ReadyBeforeWork
  <2>. SUFFICES ASSUME LifecycleInv, NEW p \in Processes, "worker" \in up[p]
                PROVE  /\ \A m \in Migration : Built(Service(p), m)
                       /\ {"USER_EVENTS", "consumer"} \subseteq topology
    BY DEF ReadyBeforeWork
  <2>1. at[p] \in Worked
    BY DEF LifecycleInv, StackInv, Stack
  <2>2. Provided
    BY <2>1 DEF LifecycleInv, TopologyInv, Provisioned
  <2>3. todo[p] = {}
    BY <2>1 DEF LifecycleInv, BuiltInv, Halfway, Worked
  <2>4. PICK k \in 0..LastMigration : Remaining(p, k)
    BY <2>1 DEF LifecycleInv, TypeInv, Tails, Worked
  <2>5. (k + 1)..LastMigration = {} /\ 1..k \subseteq applied[Service(p)]
    BY <2>3, <2>4 DEF Remaining
  <2>6. \A m \in Migration : m \in 1..k
    BY <2>5, MigrationAssumption DEF Migration
  <2>. QED
    BY <2>2, <2>5, <2>6, ServiceType DEF LifecycleInv, BuiltInv, Provided
<1>. QED
  BY InitLifecycle, NextLifecycle, <1>1, PTL DEF Spec

(* Whatever work is in flight, everything it needs is open: resources are   *)
(* closed after, and only after, those that use them, even if some of the   *)
(* handlers throw.                                                          *)
THEOREM ClosedAfterUse == Spec => []NothingClosedUnderWork
<1>1. LifecycleInv => NothingClosedUnderWork
  <2>. SUFFICES ASSUME LifecycleInv, NEW p \in Processes, NEW work \in busy[p]
                PROVE  Needs(p, work) \subseteq up[p]
    BY DEF NothingClosedUnderWork
  <2>1. work \in {"request", "job"} /\ Len(handlers[p]) \in Nat
    <3>1. busy[p] \subseteq {"request", "job"}
      BY DEF LifecycleInv, TypeInv, TypeOK
    <3>2. handlers[p] \in Seq(Resources)
      BY DEF LifecycleInv, TypeInv, TypeOK
    <3>. QED
      BY <3>1, <3>2
  <2>2. Len(handlers[p]) >= Full(p) - 1 /\ Full(p) \in {4, 5}
    BY <2>1, OrderFacts DEF LifecycleInv, StackInv, Stack
  <2>3. \A i \in 1..(Full(p) - 2) : Order(p)[i] \in up[p]
    <3>1. \A i \in 1..(Full(p) - 2) : i \in 1..Len(handlers[p])
      BY <2>1, <2>2
    <3>. QED
      BY <3>1 DEF LifecycleInv, StackInv, Stack, Registered
  <2>4. CASE p \in UserReplicas
    <3>1. Order(p)[1] = "database" /\ Order(p)[2] = "nats" /\ Full(p) - 2 = 2
      BY <2>4 DEF Order, Full
    <3>2. "database" \in up[p] /\ "nats" \in up[p]
      BY <2>3, <3>1
    <3>. QED
      BY <2>1, <2>4, <3>2 DEF Needs
  <2>5. CASE p \notin UserReplicas
    <3>1. /\ Order(p)[1] = "database" /\ Order(p)[2] = "channel"
          /\ Order(p)[3] = "nats" /\ Full(p) - 2 = 3
      BY <2>5 DEF Order, Full
    <3>2. "database" \in up[p] /\ "channel" \in up[p] /\ "nats" \in up[p]
      BY <2>3, <3>1
    <3>. QED
      BY <2>1, <2>5, <3>2 DEF Needs
  <2>. QED
    BY <2>4, <2>5
<1>. QED
  BY InitLifecycle, NextLifecycle, <1>1, PTL DEF Spec

(* A shutdown that comes to its end leaves no request and no job behind.    *)
THEOREM ExitsDrained == Spec => []DrainedAtExit
<1>1. LifecycleInv => DrainedAtExit
  <2>. SUFFICES ASSUME LifecycleInv, NEW p \in Processes, handlers[p] = <<>>
                PROVE  busy[p] = {}
    BY DEF DrainedAtExit
  <2>1. Len(handlers[p]) = 0 /\ Full(p) \in {4, 5}
    BY OrderFacts
  <2>2. "request" \notin busy[p] /\ "job" \notin busy[p]
    BY <2>1 DEF LifecycleInv, StackInv, Stack
  <2>. QED
    BY <2>2 DEF LifecycleInv, TypeInv, TypeOK
<1>. QED
  BY InitLifecycle, NextLifecycle, <1>1, PTL DEF Spec
=============================================================================
