------------------------------ MODULE Lifecycle ------------------------------
(***************************************************************************)
(* How the processes of the two services come up and go down: main() of    *)
(* each, the migrations of the database its replicas share, the JetStream  *)
(* topology the User Service provisions and the Notification Service waits *)
(* for, and GracefulShutdown (packages/shared/src/shutdown.ts).            *)
(*                                                                         *)
(* What a process does while it is up is reduced to what a shutdown must   *)
(* wait for: a request in flight, and a job of its worker, which is the    *)
(* OutboxPublisher of one service and the ConsumerRuntime of the other.    *)
(***************************************************************************)
EXTENDS Integers, Sequences, SequencesExt, FiniteSetsExt

CONSTANTS
  UserReplicas,          \* processes of the User Service
  NotificationReplicas,  \* processes of the Notification Service
  LastMigration,         \* migrations of a database, in their order
  Parts,                 \* statements of a migration's up()
  MaxMishaps             \* bound: signals and deaths of processes

ASSUME ReplicaAssumption   == UserReplicas \cap NotificationReplicas = {}
ASSUME MigrationAssumption == LastMigration \in Nat /\ Parts \in Nat \ {0}
ASSUME MishapAssumption    == MaxMishaps \in Nat

Processes  == UserReplicas \cup NotificationReplicas
Services   == {"user", "notification"}
Service(p) == IF p \in UserReplicas THEN "user" ELSE "notification"
Migration  == 1..LastMigration

VARIABLES
  schema,    \* per service: the <<migration, statement>> pairs that took effect
  applied,   \* per service: the rows of _migrations
  topology,  \* what exists in JetStream
  at,        \* how far main() has come, or "closing", or "down"
  todo,      \* migrations not in _migrations when this boot read it
  step,      \* the next statement of the migration, or part of the topology
  handlers,  \* GracefulShutdown.handlers not run yet, in registration order
  up,        \* resources open
  busy,      \* work in flight: "request", "job"
  mishaps

bootVars == <<todo, step>>
procVars == <<at, bootVars, handlers, up, busy>>
vars     == <<schema, applied, topology, procVars, mishaps>>

-----------------------------------------------------------------------------
Topology  == <<"USER_EVENTS", "USER_EVENTS_DLQ", "consumer">>
Resources == {"database", "channel", "nats", "worker", "http"}

(* What a job or a request uses.                                            *)
Needs(p, work) ==
  CASE work = "request" -> {"database"}
    [] work = "job" /\ p \in UserReplicas -> {"database", "nats"}
    [] OTHER -> {"database", "channel", "nats"}

TypeOK ==
  /\ schema   \in [Services -> SUBSET (Migration \X (1..Parts))]
  /\ applied  \in [Services -> SUBSET Migration]
  /\ topology \subseteq ToSet(Topology)
  /\ at       \in [Processes -> {"down", "migrate", "topology", "worker", "serving", "closing"}]
  /\ todo     \in [Processes -> SUBSET Migration]
  /\ step     \in [Processes -> Nat \ {0}]
  /\ handlers \in [Processes -> Seq(Resources)]
  /\ up       \in [Processes -> SUBSET Resources]
  /\ busy     \in [Processes -> SUBSET {"request", "job"}]
  /\ mishaps  \in 0..MaxMishaps

Init ==
  /\ schema   = [s \in Services |-> {}]
  /\ applied  = [s \in Services |-> {}]
  /\ topology = {}
  /\ at       = [p \in Processes |-> "down"]
  /\ todo     = [p \in Processes |-> {}]
  /\ step     = [p \in Processes |-> 1]
  /\ handlers = [p \in Processes |-> <<>>]
  /\ up       = [p \in Processes |-> {}]
  /\ busy     = [p \in Processes |-> {}]
  /\ mishaps  = 0

Mishap == mishaps < MaxMishaps /\ mishaps' = mishaps + 1

(* The process is gone, and with it what it had open or in hand.            *)
Gone(p) ==
  /\ at'       = [at EXCEPT ![p] = "down"]
  /\ todo'     = [todo EXCEPT ![p] = {}]
  /\ step'     = [step EXCEPT ![p] = 1]
  /\ handlers' = [handlers EXCEPT ![p] = <<>>]
  /\ up'       = [up EXCEPT ![p] = {}]
  /\ busy'     = [busy EXCEPT ![p] = {}]

(* Resources are opened and their teardown registered in this order.        *)
Open(p, resources) ==
  /\ handlers' = [handlers EXCEPT ![p] = @ \o resources]
  /\ up'       = [up EXCEPT ![p] = @ \cup ToSet(resources)]

-----------------------------------------------------------------------------
(* main(), 1: the database and runMigrations().                             *)

(* The rows of _migrations are read once, before any migration runs.        *)
BootBlindly(p) ==
  /\ at[p] = "down"
  /\ at'   = [at EXCEPT ![p] = "migrate"]
  /\ todo' = [todo EXCEPT ![p] = Migration]
  /\ Open(p, <<"database">>)
  /\ UNCHANGED <<schema, applied, topology, step, busy, mishaps>>
Boot(p) ==
  /\ at[p] = "down"
  /\ at'   = [at EXCEPT ![p] = "migrate"]
  /\ todo' = [todo EXCEPT ![p] = Migration \ applied[Service(p)]]
  /\ Open(p, <<"database">>)
  /\ UNCHANGED <<schema, applied, topology, step, busy, mishaps>>

(* The next statement of up(): CREATE TABLE or INDEX, IF NOT EXISTS.        *)
CreateObjectTooMany(p) ==
  /\ at[p] = "migrate" /\ todo[p] # {} /\ step[p] <= Parts + 1
  /\ schema' = [schema EXCEPT ![Service(p)] = @ \cup {<<Min(todo[p]), step[p]>>}]
  /\ step'   = [step EXCEPT ![p] = @ + 1]
  /\ UNCHANGED <<applied, topology, at, todo, handlers, up, busy, mishaps>>
CreateObject(p) ==
  /\ at[p] = "migrate" /\ todo[p] # {} /\ step[p] <= Parts
  /\ schema' = [schema EXCEPT ![Service(p)] = @ \cup {<<Min(todo[p]), step[p]>>}]
  /\ step'   = [step EXCEPT ![p] = @ + 1]
  /\ UNCHANGED <<applied, topology, at, todo, handlers, up, busy, mishaps>>

(* INSERT INTO _migrations: when another replica has inserted the name in   *)
(* the meantime the primary key refuses it, and main() fails.               *)
RecordFirst(p) ==
  /\ at[p] = "migrate" /\ todo[p] # {}
  /\ IF Min(todo[p]) \in applied[Service(p)]
     THEN Gone(p) /\ UNCHANGED applied
     ELSE /\ applied' = [applied EXCEPT ![Service(p)] = @ \cup {Min(todo[p])}]
          /\ todo'    = [todo EXCEPT ![p] = @ \ {Min(todo[p])}]
          /\ step'    = [step EXCEPT ![p] = 1]
          /\ UNCHANGED <<at, handlers, up, busy>>
  /\ UNCHANGED <<schema, topology, mishaps>>
RecordMigration(p) ==
  /\ at[p] = "migrate" /\ todo[p] # {} /\ step[p] > Parts
  /\ IF Min(todo[p]) \in applied[Service(p)]
     THEN Gone(p) /\ UNCHANGED applied
     ELSE /\ applied' = [applied EXCEPT ![Service(p)] = @ \cup {Min(todo[p])}]
          /\ todo'    = [todo EXCEPT ![p] = @ \ {Min(todo[p])}]
          /\ step'    = [step EXCEPT ![p] = 1]
          /\ UNCHANGED <<at, handlers, up, busy>>
  /\ UNCHANGED <<schema, topology, mishaps>>

-----------------------------------------------------------------------------
(* main(), 2: the channel, the broker and the topology.                     *)

Connect(p) ==
  /\ at[p] = "migrate" /\ todo[p] = {}
  /\ at' = [at EXCEPT ![p] = "topology"]
  /\ Open(p, IF p \in UserReplicas THEN <<"nats">> ELSE <<"channel", "nats">>)
  /\ UNCHANGED <<schema, applied, topology, bootVars, busy, mishaps>>

(* ensureStreams() and ensureConsumer(): whatever is missing is created.    *)
Provision(p) ==
  /\ p \in UserReplicas /\ at[p] = "topology" /\ step[p] <= Len(Topology)
  /\ topology' = topology \cup {Topology[step[p]]}
  /\ step'     = [step EXCEPT ![p] = @ + 1]
  /\ UNCHANGED <<schema, applied, at, todo, handlers, up, busy, mishaps>>

(* The worker: start() of the publisher, and of the runtime, which waits    *)
(* for its durable consumer.                                                *)
StartUnbound(p) ==
  /\ at[p] = "topology"
  /\ at' = [at EXCEPT ![p] = "worker"]
  /\ Open(p, <<"worker">>)
  /\ UNCHANGED <<schema, applied, topology, bootVars, busy, mishaps>>
StartWorker(p) ==
  /\ at[p] = "topology"
  /\ IF p \in UserReplicas THEN step[p] > Len(Topology) ELSE "consumer" \in topology
  /\ at' = [at EXCEPT ![p] = "worker"]
  /\ Open(p, <<"worker">>)
  /\ UNCHANGED <<schema, applied, topology, bootVars, busy, mishaps>>

(* ... for a minute; then main() fails.                                     *)
GiveUp(p) ==
  /\ p \in NotificationReplicas /\ at[p] = "topology" /\ "consumer" \notin topology
  /\ Gone(p)
  /\ UNCHANGED <<schema, applied, topology, mishaps>>

(* main(), 3: the HTTP server; shutdown.listen() comes right before it.     *)
Listen(p) ==
  /\ at[p] = "worker"
  /\ at' = [at EXCEPT ![p] = "serving"]
  /\ Open(p, <<"http">>)
  /\ UNCHANGED <<schema, applied, topology, bootVars, busy, mishaps>>

-----------------------------------------------------------------------------
(* Work.                                                                    *)

TakeRequest(p) ==
  /\ at[p] = "serving"
  /\ busy' = [busy EXCEPT ![p] = @ \cup {"request"}]
  /\ UNCHANGED <<schema, applied, topology, at, bootVars, handlers, up, mishaps>>

(* A worker runs from its start() until its own stop() is called.           *)
Stopping(p, resource) ==
  at[p] = "closing" /\ handlers[p] # <<>> /\ Last(handlers[p]) = resource

TakeJob(p) ==
  /\ "worker" \in up[p] /\ ~Stopping(p, "worker")
  /\ busy' = [busy EXCEPT ![p] = @ \cup {"job"}]
  /\ UNCHANGED <<schema, applied, topology, at, bootVars, handlers, up, mishaps>>

Finish(p, work) ==
  /\ work \in busy[p]
  /\ busy' = [busy EXCEPT ![p] = @ \ {work}]
  /\ UNCHANGED <<schema, applied, topology, at, bootVars, handlers, up, mishaps>>

-----------------------------------------------------------------------------
(* GracefulShutdown.                                                        *)

(* The first signal, or an unhandled error: run().                          *)
Signal(p) ==
  /\ at[p] = "serving" /\ Mishap
  /\ at' = [at EXCEPT ![p] = "closing"]
  /\ UNCHANGED <<schema, applied, topology, bootVars, handlers, up, busy>>

(* The handler registered last is awaited: close() of the server waits for  *)
(* the requests in flight, stop() of a worker for its job.                  *)
NotAwaited(p, resource) == TRUE
Awaited(p, resource) == /\ resource = "http"   => "request" \notin busy[p]
                        /\ resource = "worker" => "job" \notin busy[p]

InOrderOfRegistration(p) ==
  /\ at[p] = "closing" /\ handlers[p] # <<>>
  /\ LET resource == Head(handlers[p]) IN
       /\ Awaited(p, resource)
       /\ up' = [up EXCEPT ![p] = @ \ {resource}]
  /\ handlers' = [handlers EXCEPT ![p] = Tail(@)]
  /\ UNCHANGED <<schema, applied, topology, at, bootVars, busy, mishaps>>
TearDown(p) ==
  /\ at[p] = "closing" /\ handlers[p] # <<>>
  /\ LET resource == Last(handlers[p]) IN
       /\ Awaited(p, resource)
       /\ \/ up' = [up EXCEPT ![p] = @ \ {resource}]
          \/ resource \notin {"worker", "http"} /\ UNCHANGED up    \* it throws
  /\ handlers' = [handlers EXCEPT ![p] = Front(@)]
  /\ UNCHANGED <<schema, applied, topology, at, bootVars, busy, mishaps>>

Exit(p) ==
  /\ at[p] = "closing" /\ handlers[p] = <<>>
  /\ Gone(p)
  /\ UNCHANGED <<schema, applied, topology, mishaps>>

(* The 15 s timer of run().                                                 *)
ForceExit(p) ==
  /\ at[p] = "closing"
  /\ Gone(p)
  /\ UNCHANGED <<schema, applied, topology, mishaps>>

(* A crash, a step of main() that throws, a signal before listen(), or the  *)
(* same signal a second time, for which no handler is left.                 *)
Die(p) ==
  /\ at[p] # "down" /\ Mishap
  /\ Gone(p)
  /\ UNCHANGED <<schema, applied, topology>>

-----------------------------------------------------------------------------
Progress(p) == \/ Boot(p) \/ CreateObject(p) \/ RecordMigration(p) \/ Connect(p)
               \/ Provision(p) \/ StartWorker(p) \/ Listen(p) \/ TearDown(p) \/ Exit(p)

Next == \E p \in Processes :
  \/ Progress(p) \/ GiveUp(p) \/ Signal(p) \/ ForceExit(p) \/ Die(p)
  \/ TakeRequest(p) \/ TakeJob(p) \/ \E work \in busy[p] : Finish(p, work)

Spec == Init /\ [][Next]_vars

(* main() and teardown go on, a dead process is started again, the timer    *)
(* fires.  Work in flight need not finish: a job may hang.                  *)
FairSpec == /\ Spec
            /\ \A p \in Processes : WF_vars(Progress(p)) /\ WF_vars(ForceExit(p))

-----------------------------------------------------------------------------
(* Properties.                                                              *)

Built(s, m) == \A k \in 1..Parts : <<m, k>> \in schema[s]

(* A migration found in _migrations took effect as a whole, and those       *)
(* before it did too, although up() is no transaction, a replica may die in *)
(* the middle of it and others run it at the same time                      *)
(* (migrate.ts:10-13, 225-236).                                             *)
RecordedIsBuilt ==
  \A s \in Services : \A m \in applied[s] :
    Built(s, m) /\ \A l \in 1..m : l \in applied[s]

(* No worker runs and no request is served before the tables of the service *)
(* and what the worker uses in JetStream exist, whichever replica or        *)
(* service boots first (user-service main.ts:39-41, 77-80).                 *)
ReadyBeforeWork ==
  \A p \in Processes : "worker" \in up[p] =>
    /\ \A m \in Migration : Built(Service(p), m)
    /\ {"USER_EVENTS", "consumer"} \subseteq topology

(* Nothing a request or a job in flight depends on is closed under it       *)
(* during a shutdown (shutdown.ts:6-20, user-service main.ts:145-152).      *)
NothingClosedUnderWork ==
  \A p \in Processes : \A work \in busy[p] : Needs(p, work) \subseteq up[p]

(* A shutdown that runs to its end leaves no work in flight                 *)
(* (shutdown.ts:17-20).                                                     *)
DrainedAtExit ==
  \A p \in Processes : at[p] = "closing" /\ handlers[p] = <<>> => busy[p] = {}

(* Once signals and deaths stop, every replica comes up for good: replicas  *)
(* that race to migrate do not keep each other from starting, the services  *)
(* may boot in any order, and a hanging job does not hold up a shutdown for *)
(* ever (notification-service main.ts:80-83, shutdown.ts:98-105).           *)
EveryoneServes == \A p \in Processes : <>[](at[p] = "serving")
=============================================================================
