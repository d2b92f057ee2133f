----------------------------- MODULE CloudflareRun -----------------------------
(***************************************************************************)
(* HarnessKernel.run on the Cloudflare runtime: cloudflare_runtime.py,     *)
(* runtime_harness_controllers.py and the Worker behind them               *)
(* (cloudflare/worker/src/index.ts).                                       *)
(*                                                                         *)
(* A run id has a sandbox object and a telemetry object, which are there   *)
(* without being created: whoever runs a command, a listing included,      *)
(* wakes a container.  Requests of the container pass through the Worker,  *)
(* which posts an event to the telemetry object for each.  A call that the *)
(* client gives up on has had its effect, in part or not at all, by the    *)
(* time the client goes on; only a command may run on.                     *)
(***************************************************************************)
EXTENDS KernelRun, Sequences

CONSTANTS
  MaxEvents,   \* the telemetry object keeps so many events
  MaxEgress    \* bound on requests of the containers

ASSUME TelemetryAssumption == MaxEvents \in Nat \ {0} /\ MaxEgress \in Nat

VARIABLES
  container,  \* container[r]: the attempt that has woken it, 0: there is none
  tenants,    \* tenants[r]: the attempts whose command was run in it
  commands,   \* commands[r]: those whose command still runs
  seen,       \* seen[r]: the attempt that was the first to ask, 0: none
  events,     \* events[r]: the events of the telemetry object
  posts,      \* the events that are on their way into it, or that have read its list
  cold,       \* cold[w]: the sandbox of w has said that it is not reused
  shared,     \* history: attempts that have used the sandbox at the same time as others
  refused,    \* history: attempts whose command was told that a request is denied
  strayed,    \* history: attempts with an event on its way when events were deleted
  raced,      \* history: run ids where two events have read the list before either was put
  egress

objects == <<container, tenants, commands, seen, events, posts>>
history == <<shared, refused, strayed, raced>>
cloud == <<objects, cold, history, egress>>

CloudflareInit ==
  /\ container = [r \in RunIds |-> 0] /\ tenants = [r \in RunIds |-> {}]
  /\ commands = [r \in RunIds |-> {}]
  /\ seen = [r \in RunIds |-> 0] /\ events = [r \in RunIds |-> <<>>] /\ posts = {}
  /\ cold = [w \in Workers |-> FALSE]
  /\ shared = {} /\ refused = {} /\ strayed = {} /\ raced = {} /\ egress = 0

\* sandbox.exec, of a command or of the listing of the workspace, wakes the
\* container.
Awake(w) == container' = [container EXCEPT ![run[w]] = IF @ = 0 THEN attempt[w] ELSE @]

Stopped(r) ==
  /\ container' = [container EXCEPT ![r] = 0]
  /\ tenants' = [tenants EXCEPT ![r] = {}]
  /\ commands' = [commands EXCEPT ![r] = {}]

Others(w) ==
  {v \in Workers \ {w} : run[v] = run[w] /\ pc[v] \in Holding}

-----------------------------------------------------------------------------
(* CloudflareRuntimeController.prepare                                     *)

\* GET of the sandbox: has anybody asked before?
Asked(w) == seen' = [seen EXCEPT ![run[w]] = IF @ = 0 THEN attempt[w] ELSE @]

GetOrCreate(w) ==
  /\ Goto(w, "create", "configure")
  /\ Asked(w)
  /\ cold' = [cold EXCEPT ![w] = seen[run[w]] = 0]
  /\ shared' = IF Others(w) = {} THEN shared
               ELSE shared \cup {attempt[v] : v \in Others(w) \cup {w}}
  /\ UNCHANGED <<call, failed, bundle, witnessed, files, counters, excused,
                 container, tenants, commands, events, posts, refused, strayed, raced, egress>>

GetFails(w) ==
  /\ Goto(w, "create", "idle")
  /\ Fault
  /\ \/ UNCHANGED <<seen, excused>>
     \/ Asked(w) /\ LeftBehind(w, "create")
  /\ UNCHANGED <<call, failed, bundle, witnessed, files, container, tenants, commands,
                 events, posts, cold, history, egress>>

\* The manifest before the run.
ManifestBefore(w) ==
  /\ Goto(w, "configure", "execute")
  /\ Awake(w)
  /\ UNCHANGED <<call, failed, bundle, witnessed, files, counters, excused,
                 tenants, commands, seen, events, posts, cold, history, egress>>

\* Nobody destroys what prepare has woken.
ManifestFails(w) ==
  /\ Goto(w, "configure", "idle")
  /\ Fault
  /\ LeftBehind(w, "prepare")
  /\ \/ Awake(w)
     \/ UNCHANGED container
  /\ UNCHANGED <<call, failed, bundle, witnessed, files,
                 tenants, commands, seen, events, posts, cold, history, egress>>

-----------------------------------------------------------------------------
(* execute; timeoutMs is repeated in the answer and limits nothing         *)

Run(w) ==
  /\ Awake(w)
  /\ tenants' = [tenants EXCEPT ![run[w]] = @ \cup {attempt[w]}]
  /\ commands' = [commands EXCEPT ![run[w]] = @ \cup {attempt[w]}]

StartCommand(w) ==
  /\ Goto(w, "execute", "running")
  /\ Run(w)
  /\ UNCHANGED <<call, failed, bundle, witnessed, files, counters, excused,
                 seen, events, posts, cold, history, egress>>

CommandEnds(w) ==
  /\ Goto(w, "running", "collect")
  /\ attempt[w] \in commands[run[w]]
  /\ commands' = [commands EXCEPT ![run[w]] = @ \ {attempt[w]}]
  /\ UNCHANGED <<call, failed, bundle, witnessed, files, counters, excused,
                 container, tenants, seen, events, posts, cold, history, egress>>

\* Another worker has destroyed the container under the command.
CommandLost(w) ==
  /\ Goto(w, "running", "destroy")
  /\ attempt[w] \notin commands[run[w]]
  /\ failed' = [failed EXCEPT ![w] = TRUE]
  /\ UNCHANGED <<call, bundle, witnessed, files, counters, excused, cloud>>

\* The client gives up, on a request that was not served or on a command that
\* runs on.
ExecuteGivenUp(w) ==
  /\ \E from \in {"execute", "running"} : Goto(w, from, "destroy")
  /\ Fault
  /\ failed' = [failed EXCEPT ![w] = TRUE]
  /\ UNCHANGED <<call, bundle, witnessed, files, excused, cloud>>

-----------------------------------------------------------------------------
(* Egress                                                                  *)

\* A request of a command, which SkillSandbox.outbound denies or not by its
\* method, sends an event to telemetry and waits for the answer.
Outbound(r, by) ==
  /\ by \in commands[r]
  /\ egress < MaxEgress /\ egress' = egress + 1
  /\ \E deny \in BOOLEAN :
       posts' = posts \cup {[id |-> egress, run |-> r, by |-> by, deny |-> deny,
                            read |-> FALSE, base |-> <<>>]}
  /\ UNCHANGED <<container, tenants, commands, seen, events, cold, shared, refused, strayed, raced>>

\* Telemetry.fetch reads the list of events and then waits for the body of the
\* new one; meanwhile other events may be handled.
ReadEvents(p) ==
  /\ p \in posts /\ ~p.read
  /\ posts' = (posts \ {p}) \cup {[p EXCEPT !.read = TRUE, !.base = events[p.run]]}
  /\ raced' = IF \E q \in posts : q.run = p.run /\ q.read THEN raced \cup {p.run} ELSE raced
  /\ UNCHANGED <<container, tenants, commands, seen, events, cold, shared, refused, strayed, egress>>

Newest(s, n) == SubSeq(s, IF Len(s) > n THEN Len(s) - n + 1 ELSE 1, Len(s))

\* Mutant: slice(1 - limit).
KeptOffByOne(log) == Newest(log, MaxEvents - 1)

Kept(log) == Newest(log, MaxEvents)

PutEvents(p) ==
  /\ p \in posts /\ p.read
  /\ posts' = posts \ {p}
  /\ events' = [events EXCEPT ![p.run] = Kept(Append(p.base, [by |-> p.by, deny |-> p.deny]))]
  /\ refused' = IF p.deny THEN refused \cup {p.by} ELSE refused
  /\ UNCHANGED <<container, tenants, commands, seen, cold, shared, strayed, raced, egress>>

Egress ==
  \/ \E r \in RunIds, by \in Attempts : Outbound(r, by)
  \/ \E p \in posts : ReadEvents(p) \/ PutEvents(p)

-----------------------------------------------------------------------------
(* collect and destroy                                                     *)

\* The manifest after the run.
CollectFiles(w) ==
  /\ Goto(w, "collect", "events")
  /\ Awake(w)
  /\ witnessed' = [witnessed EXCEPT ![w] = tenants[run[w]]]
  /\ UNCHANGED <<call, failed, bundle, files, counters, excused,
                 tenants, commands, seen, events, posts, cold, history, egress>>

\* Evidence with a denied request fails the security gate.
CollectEvents(w) ==
  /\ Goto(w, "events", "destroy")
  /\ \E b \in Bundles : /\ b.run = run[w] /\ b.backend = "cloudflare"
                        /\ b.clean => \A i \in DOMAIN events[run[w]] : ~events[run[w]][i].deny
                        /\ bundle' = [bundle EXCEPT ![w] = b]
  /\ UNCHANGED <<call, failed, witnessed, files, counters, excused, cloud>>

CollectGivenUp(w) ==
  /\ \E from \in {"collect", "events"} : Goto(w, from, "destroy")
  /\ Fault
  /\ failed' = [failed EXCEPT ![w] = TRUE]
  /\ \/ Awake(w)
     \/ UNCHANGED container
  /\ UNCHANGED <<call, bundle, witnessed, files, excused,
                 tenants, commands, seen, events, posts, cold, history, egress>>

\* DELETE: the container first, and then the telemetry.
DestroyContainer(w) ==
  /\ Goto(w, "destroy", "destroy telemetry")
  /\ Stopped(run[w])
  /\ UNCHANGED <<call, failed, bundle, witnessed, files, counters, excused,
                 seen, events, posts, cold, history, egress>>

Strayed(r) ==
  strayed' = strayed \cup UNION {{p.by} \cup {p.base[i].by : i \in DOMAIN p.base} :
                                 p \in {q \in posts : q.run = r}}

\* Mutant: delete("seen") for deleteAll().
MarkForgotten(r) ==
  seen' = [seen EXCEPT ![r] = 0] /\ UNCHANGED events /\ Strayed(r)

\* deleteAll; an event that is on its way is put later, with all it has read.
Forgotten(r) ==
  /\ seen' = [seen EXCEPT ![r] = 0]
  /\ events' = [events EXCEPT ![r] = <<>>]
  /\ Strayed(r)

DestroyTelemetry(w) ==
  /\ Goto(w, "destroy telemetry", Concluded(w))
  /\ Forgotten(run[w])
  /\ UNCHANGED <<call, failed, bundle, witnessed, files, counters, excused,
                 container, tenants, commands, posts, cold, shared, refused, raced, egress>>

\* Mutant: the telemetry is deleted even if the container could not be destroyed.
DestroyForgets(w) ==
  /\ \/ Goto(w, "destroy", "idle")
     \/ Goto(w, "destroy telemetry", "idle")
  /\ Forgotten(run[w])
  /\ Fault
  /\ failed' = [failed EXCEPT ![w] = TRUE]
  /\ LeftBehind(w, "delete")
  /\ UNCHANGED <<call, bundle, witnessed, files, container, tenants, commands, posts, cold,
                 shared, refused, raced, egress>>

\* The evidence is dropped, as on OpenShell.
DestroyGivenUp(w) ==
  /\ \/ Goto(w, "destroy", "idle") /\ UNCHANGED <<seen, events, strayed>>
     \/ Goto(w, "destroy telemetry", "idle") /\ UNCHANGED <<seen, events, strayed>>
     \/ Goto(w, "destroy telemetry", "idle") /\ Forgotten(run[w])
  /\ Fault
  /\ failed' = [failed EXCEPT ![w] = TRUE]
  /\ LeftBehind(w, "delete")
  /\ UNCHANGED <<call, bundle, witnessed, files, container, tenants, commands, posts, cold,
                 shared, refused, raced, egress>>

CloudflareStep(w) ==
  \/ GetOrCreate(w) \/ GetFails(w)
  \/ ManifestBefore(w) \/ ManifestFails(w)
  \/ StartCommand(w) \/ CommandEnds(w) \/ CommandLost(w) \/ ExecuteGivenUp(w)
  \/ CollectFiles(w) \/ CollectEvents(w) \/ CollectGivenUp(w)
  \/ DestroyContainer(w) \/ DestroyTelemetry(w) \/ DestroyGivenUp(w)

-----------------------------------------------------------------------------
Event == [by : Attempts, deny : BOOLEAN]

Post == [id : 0..MaxEgress, run : RunIds, by : Attempts, deny : BOOLEAN, read : BOOLEAN,
         base : Seq(Event)]

CloudflareTypeOK ==
  /\ container \in [RunIds -> 0..MaxAttempts] /\ seen \in [RunIds -> 0..MaxAttempts]
  /\ tenants \in [RunIds -> SUBSET Attempts] /\ commands \in [RunIds -> SUBSET Attempts]
  /\ \A r \in RunIds : /\ commands[r] \subseteq tenants[r]
                       /\ container[r] = 0 => tenants[r] = {}
  /\ events \in [RunIds -> Seq(Event)] /\ \A r \in RunIds : Len(events[r]) <= MaxEvents
  /\ posts \subseteq Post
  /\ cold \in [Workers -> BOOLEAN]
  /\ shared \cup refused \cup strayed \subseteq Attempts /\ raced \subseteq RunIds
  /\ egress \in 0..MaxEgress

Collects(w) == runtime = "cloudflare" /\ pc[w] = "events" /\ pc'[w] = "destroy" /\ ~failed'[w]

\* cold_start in the evidence of a run that had its sandbox for itself means that
\* no other command ran in it and that no event is another's, unless a worker
\* that shared the sandbox has left it behind, or an event was still on its way
\* when its run was destroyed (CloudflareRuntimeController, DELETE and /seen of
\* the Worker).
ColdMeansOwn ==
  [][\A w \in Workers :
       LET leftBehind == {a \in shared : \E why \in {"delete", "crash"} : <<a, why>> \in excused}
           authors == {events[run[w]][i].by : i \in DOMAIN events[run[w]]}
       IN Collects(w) /\ cold[w] /\ attempt[w] \notin shared =>
            /\ witnessed[w] \subseteq {attempt[w]} \cup leftBehind
            /\ authors \subseteq {attempt[w]} \cup leftBehind \cup strayed]_<<pc, cloud>>

\* Evidence is not clean when a request of its command was answered with a
\* refusal, unless the sandbox was shared, two events were handled at once, or the
\* evidence has as many events as telemetry keeps (Telemetry.fetch, slice(-1000)).
DeniedIsCollected ==
  [][\A w \in Workers :
       Collects(w) /\ bundle'[w].clean /\ attempt[w] \in refused =>
         \/ attempt[w] \in shared
         \/ run[w] \in raced
         \/ Len(events[run[w]]) = MaxEvents]_<<pc, bundle, cloud>>
=============================================================================
