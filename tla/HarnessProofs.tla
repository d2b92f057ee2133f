----------------------------- MODULE HarnessProofs -----------------------------
(***************************************************************************)
(* Safety of HarnessRun for every number of workers, run ids, calls,       *)
(* faults, crashes, events and requests.                                   *)
(***************************************************************************)
EXTENDS HarnessRun, SequenceTheorems, TLAPS

-----------------------------------------------------------------------------
(* Types                                                                   *)

Reasons == {"create", "prepare", "delete", "crash", "persist"}

\* A worker that has been called has a number, and one that is about to destroy its
\* sandbox has collected evidence or failed.
Ready ==
  \A w \in Workers :
    /\ pc[w] # "idle" => attempt[w] \in Attempts
    /\ pc[w] \in {"destroy", "destroy telemetry"} => failed[w] \/ bundle[w] \in Bundles

Posted == \A p \in posts : p.run \in RunIds /\ Len(p.base) <= MaxEvents

TypeInv == TypeOK /\ Ready /\ Posted

\* Where a step of the runtime may leave a worker.
Later == Holding \cup {"idle", "evidence"}

\* What the kernel sees of a step of its runtime: it takes the worker to another
\* place and collects at most evidence; the files stay as they are.
Moves(w, to) ==
  /\ to \in Later
  /\ pc[w] \in {"create"} \cup Holding
  /\ pc' = [pc EXCEPT ![w] = to]
  /\ failed' \in {failed, [failed EXCEPT ![w] = TRUE]}
  /\ bundle' = bundle \/ \E b \in Bundles : bundle' = [bundle EXCEPT ![w] = b]
  /\ witnessed' = witnessed \/ \E some \in SUBSET Attempts : witnessed' = [witnessed EXCEPT ![w] = some]
  /\ to \in {"destroy", "destroy telemetry"} => failed'[w] \/ bundle'[w] \in Bundles
  /\ to = "evidence" => bundle'[w] \in Bundles
  /\ excused' = excused \/ \E why \in Reasons : excused' = excused \cup {<<attempt[w], why>>}
  /\ faults' \in 0..MaxFaults
  /\ UNCHANGED <<call, files, attempts, crashes>>

\* No attempt has the number of none.
LEMMA AttemptsPositive == \A a \in Attempts : a # 0
BY DEF Attempts

\* A call that fails is counted.
LEMMA FaultCounted ==
  ASSUME TypeInv, Fault
  PROVE  faults' \in 0..MaxFaults /\ UNCHANGED <<attempts, crashes>>
BY BoundsAssumption DEF TypeInv, TypeOK, KernelTypeOK, Fault

\* Every step of the OpenShell controller (prepare, execute, collect, destroy).
LEMMA OpenShellMoves ==
  ASSUME TypeInv, NEW w \in Workers, OpenShellStep(w)
  PROVE  \E to \in Later : Moves(w, to)
<1> USE DEF Goto, LeftBehind, Later, Holding, Reasons, call, files, counters, gateway
<1>t. /\ pc \in [Workers -> {"idle", "create"} \cup Holding \cup Persisting]
      /\ failed \in [Workers -> BOOLEAN] /\ faults \in 0..MaxFaults
      /\ DOMAIN bundle = Workers /\ DOMAIN witnessed = Workers /\ ran \in [RunIds -> SUBSET Attempts]
      /\ run \in [Workers -> RunIds]
      /\ pc[w] = "destroy" => failed[w] \/ bundle[w] \in Bundles
  BY DEF TypeInv, TypeOK, KernelTypeOK, OpenShellTypeOK, Ready
<1>1. Create(w) => Moves(w, "configure")
  BY <1>t DEF Create, Moves
<1>2. CreateRefused(w) => Moves(w, "idle")
  BY <1>t DEF CreateRefused, Moves
<1>3. CreateFault(w) => Moves(w, "idle")
  BY <1>t, FaultCounted DEF CreateFault, Moves
<1>4. Configure(w) => Moves(w, "execute")
  BY <1>t DEF Configure, Moves
<1>5. EnableOcsfFails(w) => Moves(w, "idle")
  BY <1>t, FaultCounted DEF EnableOcsfFails, Moves
<1>6. PrepareFails(w) => Moves(w, "idle")
  BY <1>t, FaultCounted DEF PrepareFails, Moves
<1>7. Execute(w) => Moves(w, "collect")
  BY <1>t DEF Execute, Moves
<1>8. ExecuteFails(w) => Moves(w, "destroy")
  BY <1>t, FaultCounted DEF ExecuteFails, Moves
<1>9. Collect(w) => Moves(w, "destroy")
  BY <1>t DEF Collect, Moves, Name
<1>10. CollectFails(w) => Moves(w, "destroy")
  BY <1>t, FaultCounted DEF CollectFails, Moves
<1>11. Destroy(w) => Moves(w, Concluded(w))
  BY <1>t DEF Destroy, Moves, Concluded
<1>12. DestroyFails(w) => Moves(w, "idle")
  BY <1>t, FaultCounted DEF DestroyFails, Moves
<1>13. Concluded(w) \in Later
  BY DEF Concluded
<1> QED BY <1>1, <1>2, <1>3, <1>4, <1>5, <1>6, <1>7, <1>8, <1>9, <1>10, <1>11, <1>12, <1>13
        DEF OpenShellStep

\* Every step of the Cloudflare controller and of the Worker that serves it.
LEMMA CloudflareMoves ==
  ASSUME TypeInv, NEW w \in Workers, CloudflareStep(w)
  PROVE  \E to \in Later : Moves(w, to)
<1> USE DEF Goto, LeftBehind, Later, Holding, Reasons, call, files, counters
<1>t. /\ pc \in [Workers -> {"idle", "create"} \cup Holding \cup Persisting]
      /\ failed \in [Workers -> BOOLEAN] /\ faults \in 0..MaxFaults
      /\ DOMAIN bundle = Workers /\ DOMAIN witnessed = Workers /\ tenants \in [RunIds -> SUBSET Attempts]
      /\ run \in [Workers -> RunIds]
      /\ pc[w] \in {"destroy", "destroy telemetry"} => failed[w] \/ bundle[w] \in Bundles
  BY DEF TypeInv, TypeOK, KernelTypeOK, CloudflareTypeOK, Ready
<1>1. GetOrCreate(w) => Moves(w, "configure")
  BY <1>t DEF GetOrCreate, Moves
<1>2. GetFails(w) => Moves(w, "idle")
  BY <1>t, FaultCounted DEF GetFails, Moves
<1>3. ManifestBefore(w) => Moves(w, "execute")
  BY <1>t DEF ManifestBefore, Moves
<1>4. ManifestFails(w) => Moves(w, "idle")
  BY <1>t, FaultCounted DEF ManifestFails, Moves
<1>5. StartCommand(w) => Moves(w, "running")
  BY <1>t DEF StartCommand, Moves
<1>6. CommandEnds(w) => Moves(w, "collect")
  BY <1>t DEF CommandEnds, Moves
<1>7. CommandLost(w) => Moves(w, "destroy")
  BY <1>t DEF CommandLost, Moves
<1>8. ExecuteGivenUp(w) => Moves(w, "destroy")
  BY <1>t, FaultCounted DEF ExecuteGivenUp, Moves
<1>9. CollectFiles(w) => Moves(w, "events")
  BY <1>t DEF CollectFiles, Moves
<1>10. CollectEvents(w) => Moves(w, "destroy")
  BY <1>t DEF CollectEvents, Moves
<1>11. CollectGivenUp(w) => Moves(w, "destroy")
  BY <1>t, FaultCounted DEF CollectGivenUp, Moves
<1>12. DestroyContainer(w) => Moves(w, "destroy telemetry")
  BY <1>t DEF DestroyContainer, Moves
<1>13. DestroyTelemetry(w) => Moves(w, Concluded(w))
  BY <1>t DEF DestroyTelemetry, Moves, Concluded
<1>14. DestroyGivenUp(w) => Moves(w, "idle")
  BY <1>t, FaultCounted DEF DestroyGivenUp, Moves
<1>15. Concluded(w) \in Later
  BY DEF Concluded
<1> QED BY <1>1, <1>2, <1>3, <1>4, <1>5, <1>6, <1>7, <1>8, <1>9, <1>10, <1>11, <1>12, <1>13, <1>14, <1>15
        DEF CloudflareStep

\* The kernel's part of the types survives whatever the runtime does.
LEMMA MovesTyped ==
  ASSUME TypeInv, NEW w \in Workers, NEW to, Moves(w, to)
  PROVE  KernelTypeOK' /\ Ready'
<1>1. attempt[w] \in Attempts
  BY DEF TypeInv, Ready, Moves, Holding
<1>2. excused' \subseteq Attempts \X {"create", "prepare", "delete", "crash", "persist"}
  <2>1. \A why \in Reasons : <<attempt[w], why>> \in Attempts \X {"create", "prepare", "delete", "crash", "persist"}
    BY <1>1 DEF Reasons
  <2> QED BY <2>1 DEF Moves, TypeInv, TypeOK, KernelTypeOK
<1>3. witnessed' \in [Workers -> SUBSET Attempts] /\ bundle' \in [Workers -> Bundles \cup {NoBundle}]
  BY ZenonT(60) DEF Moves, TypeInv, TypeOK, KernelTypeOK
<1>4. /\ pc' \in [Workers -> {"idle", "create"} \cup Holding \cup Persisting]
      /\ failed' \in [Workers -> BOOLEAN]
  BY DEF Moves, Later, TypeInv, TypeOK, KernelTypeOK, Persisting
<1>5. \A v \in Workers : pc'[v] \in Persisting => bundle'[v] \in Bundles
  BY DEF Moves, Later, TypeInv, TypeOK, KernelTypeOK, Persisting, Holding
<1>6. Ready'
  BY <1>1 DEF Moves, TypeInv, TypeOK, KernelTypeOK, Ready, call
<1> QED BY <1>2, <1>3, <1>4, <1>5, <1>6 DEF Moves, TypeInv, TypeOK, KernelTypeOK, call, files

\* A step of the kernel keeps its own part of the types.
LEMMA KernelTyped ==
  ASSUME TypeInv, NEW w \in Workers, KernelStep(w)
  PROVE  KernelTypeOK' /\ Ready'
<1>0. /\ MaxAttempts \in Nat /\ MaxFaults \in Nat /\ MaxCrashes \in Nat
      /\ attempts \in 0..MaxAttempts /\ faults \in 0..MaxFaults /\ crashes \in 0..MaxCrashes
  BY BoundsAssumption DEF TypeInv, TypeOK, KernelTypeOK
<1>a. attempts < MaxAttempts => attempts + 1 \in 0..MaxAttempts /\ attempts + 1 \in Attempts
  BY <1>0 DEF Attempts
<1>b. (faults < MaxFaults => faults + 1 \in 0..MaxFaults) /\ (crashes < MaxCrashes => crashes + 1 \in 0..MaxCrashes)
  BY <1>0
<1> USE DEF Goto, Persisting, Holding, TypeInv, TypeOK, KernelTypeOK, Ready, FileStates
<1>1. ASSUME Start(w)
      PROVE  KernelTypeOK' /\ Ready'
  <2>1. attempts' \in 0..MaxAttempts /\ attempts + 1 \in Attempts
    BY <1>a, <1>1 DEF Start
  <2>2. /\ attempt' \in [Workers -> 0..MaxAttempts] /\ run' \in [Workers -> RunIds]
        /\ witnessed' \in [Workers -> SUBSET Attempts]
    BY <1>1, <2>1 DEF Start, Attempts
  <2>3. pc' = [pc EXCEPT ![w] = "create"] /\ bundle' = [bundle EXCEPT ![w] = NoBundle]
        /\ failed' = [failed EXCEPT ![w] = FALSE] /\ attempt' = [attempt EXCEPT ![w] = attempts + 1]
    BY <1>1 DEF Start
  <2>4. UNCHANGED <<runtime, evidence, verdict, faults, crashes, excused>>
    BY <1>1 DEF Start, files
  <2>5. Ready'
    BY <2>1, <2>3
  <2> QED BY <2>1, <2>2, <2>3, <2>4, <2>5
<1>2. ASSUME CheckEvidence(w) \/ CheckVerdict(w)
      PROVE  KernelTypeOK' /\ Ready'
  BY <1>2 DEF CheckEvidence, CheckVerdict, call, files, counters
<1>3. ASSUME OpenEvidence(w) \/ WriteEvidence(w)
      PROVE  KernelTypeOK' /\ Ready'
  BY <1>3, ZenonT(60) DEF OpenEvidence, WriteEvidence, call, files, counters
<1>4. ASSUME OpenVerdict(w) \/ WriteVerdict(w)
      PROVE  KernelTypeOK' /\ Ready'
  BY <1>4, ZenonT(60) DEF OpenVerdict, WriteVerdict, call, files, counters
<1>5. ASSUME PersistFails(w) \/ Crash(w)
      PROVE  KernelTypeOK' /\ Ready'
  <2>1. PICK why \in {"persist", "crash"} : excused' = excused \cup {<<attempt[w], why>>}
    BY <1>5 DEF PersistFails, Crash, LeftBehind
  <2>2. attempt[w] \in Attempts
    BY <1>5 DEF PersistFails, Crash
  <2>3. <<attempt[w], why>> \in Attempts \X {"create", "prepare", "delete", "crash", "persist"}
    BY <2>2
  <2>4. excused' \subseteq Attempts \X {"create", "prepare", "delete", "crash", "persist"}
    BY <2>1, <2>3
  <2>5. faults' \in 0..MaxFaults /\ crashes' \in 0..MaxCrashes /\ attempts' = attempts
    BY <1>0, <1>b, <1>5 DEF PersistFails, Crash, Fault
  <2>6. /\ pc' = [pc EXCEPT ![w] = "idle"]
        /\ UNCHANGED <<runtime, run, attempt, failed, bundle, witnessed, evidence, verdict>>
    BY <1>5 DEF PersistFails, Crash, call, files
  <2> QED BY <2>4, <2>5, <2>6
<1> QED BY <1>1, <1>2, <1>3, <1>4, <1>5 DEF KernelStep

\* A step on OpenShell keeps the types of the sandboxes.
LEMMA OpenShellTyped ==
  ASSUME TypeInv, NEW w \in Workers, OpenShellStep(w)
  PROVE  OpenShellTypeOK'
<1>0. /\ sandbox \in [RunIds -> 0..MaxAttempts] /\ ran \in [RunIds -> SUBSET Attempts]
      /\ run \in [Workers -> RunIds] /\ attempt[w] \in 0..MaxAttempts
      /\ pc[w] # "idle" => attempt[w] \in Attempts
  BY DEF TypeInv, TypeOK, KernelTypeOK, OpenShellTypeOK, Ready
<1>a. 0 \in 0..MaxAttempts
  BY BoundsAssumption
<1>1. UNCHANGED gateway => OpenShellTypeOK'
  BY <1>0 DEF gateway, OpenShellTypeOK
<1>2. Created(w) => OpenShellTypeOK'
  BY <1>0 DEF Created, Name, OpenShellTypeOK
<1>3. Deleted(w) => OpenShellTypeOK'
  BY <1>0, <1>a DEF Deleted, Name, OpenShellTypeOK
<1>4. pc[w] = "execute" /\ sandbox' = sandbox /\ ran' = [ran EXCEPT ![Name(w)] = @ \cup {attempt[w]}] => OpenShellTypeOK'
  BY <1>0 DEF Name, OpenShellTypeOK
<1> QED BY <1>1, <1>2, <1>3, <1>4
        DEF OpenShellStep, Create, CreateRefused, CreateFault, Configure, EnableOcsfFails, PrepareFails,
            Execute, ExecuteFails, Collect, CollectFails, Destroy, DestroyFails, Goto, gateway

-----------------------------------------------------------------------------
(* The newest events of the telemetry object                               *)

\* Newest keeps all it has room for, and no event that was not there; the last event is
\* kept.
LEMMA NewestProperties ==
  ASSUME NEW S, NEW s \in Seq(S), NEW n \in Nat \ {0}
  PROVE  /\ Newest(s, n) \in Seq(S) /\ Len(Newest(s, n)) = IF Len(s) > n THEN n ELSE Len(s)
         /\ Len(s) <= n => Newest(s, n) = s
         /\ \A i \in 1..Len(Newest(s, n)) : \E j \in 1..Len(s) : Newest(s, n)[i] = s[j]
         /\ s # <<>> => Newest(s, n)[Len(Newest(s, n))] = s[Len(s)]
<1> DEFINE m == IF Len(s) > n THEN Len(s) - n + 1 ELSE 1
<1>0. /\ Len(s) \in Nat /\ m \in Int /\ m >= 1 /\ Newest(s, n) = SubSeq(s, m, Len(s))
      /\ \A i \in m..Len(s) : s[i] \in S
  BY DEF Newest
<1>m. (Len(s) > n => m = Len(s) - n + 1) /\ (Len(s) <= n => m = 1)
  BY <1>0
<1>1. /\ Newest(s, n) \in Seq(S)
      /\ Len(Newest(s, n)) = IF m <= Len(s) THEN Len(s) - m + 1 ELSE 0
      /\ \A i \in 1..(Len(s) - m + 1) : Newest(s, n)[i] = s[m + i - 1]
  <2> HIDE DEF m
  <2> QED BY <1>0, SubSeqProperties
<1> HIDE DEF m
<1>2. Len(Newest(s, n)) = IF Len(s) > n THEN n ELSE Len(s)
  BY <1>0, <1>1, <1>m
<1>3. Len(s) <= n => Newest(s, n) = s
  BY <1>0, <1>m, SubSeqFull
<1>4. \A i \in 1..Len(Newest(s, n)) : m + i - 1 \in 1..Len(s) /\ Newest(s, n)[i] = s[m + i - 1]
  BY <1>0, <1>1
<1>5. s # <<>> => Newest(s, n)[Len(Newest(s, n))] = s[Len(s)]
  <2>1. s # <<>> => Len(s) >= 1
    BY <1>0, EmptySeq
  <2> SUFFICES ASSUME s # <<>>
               PROVE  Newest(s, n)[Len(Newest(s, n))] = s[Len(s)]
    OBVIOUS
  <2>2. Len(Newest(s, n)) = Len(s) - m + 1 /\ Len(s) - m + 1 \in 1..(Len(s) - m + 1)
    BY <1>0, <1>1, <1>m, <2>1
  <2>3. m + (Len(s) - m + 1) - 1 = Len(s)
    BY <1>0
  <2> QED BY <1>1, <2>2, <2>3
<1> QED BY <1>1, <1>2, <1>3, <1>4, <1>5

\* What PutEvents stores: typed, no more than there is room for, each event from the
\* list it was given or the new one, and the new one among them.
LEMMA KeptProperties ==
  ASSUME NEW S, NEW base \in Seq(S), NEW e \in S
  PROVE  /\ Kept(Append(base, e)) \in Seq(S) /\ Len(Kept(Append(base, e))) <= MaxEvents
         /\ Len(base) < MaxEvents => Kept(Append(base, e)) = Append(base, e)
         /\ Len(base) >= MaxEvents => Len(Kept(Append(base, e))) = MaxEvents
         /\ \A i \in DOMAIN Kept(Append(base, e)) :
              Kept(Append(base, e))[i] = e \/ \E j \in DOMAIN base : Kept(Append(base, e))[i] = base[j]
         /\ \E i \in DOMAIN Kept(Append(base, e)) : Kept(Append(base, e))[i] = e
<1> DEFINE s == Append(base, e)
<1>0. MaxEvents \in Nat \ {0}
  BY TelemetryAssumption
<1>1. /\ s \in Seq(S) /\ Len(s) = Len(base) + 1 /\ s[Len(s)] = e /\ s # <<>>
      /\ \A i \in 1..Len(base) : s[i] = base[i]
      /\ Len(base) \in Nat /\ DOMAIN base = 1..Len(base)
  BY AppendProperties
<1>2. \A j \in 1..Len(s) : s[j] = e \/ \E i \in DOMAIN base : s[j] = base[i]
  BY <1>1
<1> HIDE DEF s
<1> DEFINE k == Newest(s, MaxEvents)
<1>3. /\ k \in Seq(S) /\ Len(k) = IF Len(s) > MaxEvents THEN MaxEvents ELSE Len(s)
      /\ Len(s) <= MaxEvents => k = s
      /\ \A i \in 1..Len(k) : \E j \in 1..Len(s) : k[i] = s[j]
      /\ k[Len(k)] = e
  BY <1>0, <1>1, NewestProperties
<1>4. DOMAIN k = 1..Len(k) /\ Len(k) \in DOMAIN k
  BY <1>0, <1>1, <1>3
<1>5. k = Kept(s)
  BY DEF Kept
<1> HIDE DEF k
<1>6. Kept(s) \in Seq(S) /\ Len(Kept(s)) <= MaxEvents
  BY <1>0, <1>1, <1>3, <1>5
<1>7. (Len(base) < MaxEvents => Kept(s) = s) /\ (Len(base) >= MaxEvents => Len(Kept(s)) = MaxEvents)
  BY <1>0, <1>1, <1>3, <1>5
<1>8. \A i \in DOMAIN Kept(s) : Kept(s)[i] = e \/ \E j \in DOMAIN base : Kept(s)[i] = base[j]
  <2> SUFFICES ASSUME NEW i \in DOMAIN k
               PROVE  k[i] = e \/ \E j \in DOMAIN base : k[i] = base[j]
    BY <1>5
  <2>1. PICK j \in 1..Len(s) : k[i] = s[j]
    BY <1>3, <1>4
  <2> QED BY <1>2, <2>1
<1>9. \E i \in DOMAIN Kept(s) : Kept(s)[i] = e
  BY <1>3, <1>4, <1>5
<1> QED BY <1>6, <1>7, <1>8, <1>9 DEF s

-----------------------------------------------------------------------------
(* Types of the objects of Cloudflare                                      *)

\* Waking the container of a run keeps the types and does not empty it.
LEMMA AwakeTyped ==
  ASSUME TypeInv, NEW w \in Workers, pc[w] # "idle", Awake(w)
  PROVE  /\ container' \in [RunIds -> 0..MaxAttempts] /\ container'[run[w]] # 0
         /\ \A r \in RunIds : container'[r] = container[r] \/ container[r] = 0
<1>1. /\ container \in [RunIds -> 0..MaxAttempts] /\ run[w] \in RunIds
      /\ attempt[w] \in 0..MaxAttempts /\ attempt[w] \in Attempts
  BY DEF TypeInv, TypeOK, KernelTypeOK, CloudflareTypeOK, Ready
<1>2. attempt[w] # 0
  BY <1>1 DEF Attempts
<1> QED BY <1>1, <1>2 DEF Awake

\* Commands run in containers.
Contained == \A r \in RunIds : commands[r] \subseteq tenants[r] /\ (container[r] = 0 => tenants[r] = {})

\* The types of the telemetry, which few steps touch.
Recorded ==
  /\ events \in [RunIds -> Seq(Event)] /\ \A r \in RunIds : Len(events[r]) <= MaxEvents
  /\ \A p \in posts : /\ p.run \in RunIds /\ p.by \in Attempts
                      /\ p.base \in Seq(Event) /\ Len(p.base) <= MaxEvents
                      /\ [by |-> p.by, deny |-> p.deny] \in Event
  /\ posts \subseteq Post

\* The types of the other objects and of the histories.
Placed ==
  /\ container \in [RunIds -> 0..MaxAttempts] /\ seen \in [RunIds -> 0..MaxAttempts]
  /\ tenants \in [RunIds -> SUBSET Attempts] /\ commands \in [RunIds -> SUBSET Attempts]
  /\ cold \in [Workers -> BOOLEAN]
  /\ shared \subseteq Attempts /\ refused \subseteq Attempts /\ strayed \subseteq Attempts /\ raced \subseteq RunIds
  /\ egress \in 0..MaxEgress

\* These are what CloudflareTypeOK says.
LEMMA CloudflareParts == (CloudflareTypeOK /\ Posted) <=> (Contained /\ Recorded /\ Placed)
<1>1. \A p \in Post : p.by \in Attempts /\ p.base \in Seq(Event) /\ [by |-> p.by, deny |-> p.deny] \in Event
  BY DEF Event, Post
<1>2. CloudflareTypeOK /\ Posted => Recorded
  BY <1>1 DEF CloudflareTypeOK, Posted, Recorded
<1>3. CloudflareTypeOK => Contained /\ Placed
  <2>1. CloudflareTypeOK => Contained
    BY DEF CloudflareTypeOK, Contained
  <2>2. CloudflareTypeOK => shared \subseteq Attempts /\ refused \subseteq Attempts /\ strayed \subseteq Attempts
    BY Zenon DEF CloudflareTypeOK
  <2>3. CloudflareTypeOK => Placed
    BY <2>2 DEF CloudflareTypeOK, Placed
  <2> QED BY <2>1, <2>3
<1>4. Contained /\ Recorded /\ Placed => CloudflareTypeOK /\ Posted
  BY DEF CloudflareTypeOK, Posted, Recorded, Contained, Placed
<1> QED BY <1>2, <1>3, <1>4

\* Every step of the Cloudflare controller keeps the types.
LEMMA CloudflareTyped ==
  ASSUME TypeInv, NEW w \in Workers, CloudflareStep(w)
  PROVE  CloudflareTypeOK' /\ Posted'
<1> DEFINE Fine == Contained /\ Recorded /\ Placed
<1>0. /\ run[w] \in RunIds /\ (pc[w] # "idle" => attempt[w] \in Attempts /\ attempt[w] \in 0..MaxAttempts)
      /\ attempt \in [Workers -> 0..MaxAttempts]
  BY DEF TypeInv, TypeOK, KernelTypeOK, Ready
<1>a. 0 \in 0..MaxAttempts /\ MaxEvents \in Nat /\ 0 <= MaxEvents
  BY BoundsAssumption, TelemetryAssumption
<1>b. Contained /\ Recorded /\ Placed
  BY CloudflareParts DEF TypeInv, TypeOK
<1>c. UNCHANGED <<events, posts>> => Recorded'
  BY <1>b DEF Recorded
<1>d. UNCHANGED <<container, tenants, commands>> => Contained'
  BY <1>b DEF Contained
<1>e. cold' = cold => cold' \in [Workers -> BOOLEAN]
  BY <1>b DEF Placed
<1>1. ASSUME UNCHANGED cloud
      PROVE  Fine'
  BY <1>b, <1>c, <1>d, <1>1 DEF Placed, cloud, objects, history
<1>2. ASSUME pc[w] # "idle", Asked(w) \/ UNCHANGED seen, cold' \in [Workers -> BOOLEAN],
             shared' \subseteq shared \cup {attempt[v] : v \in Others(w) \cup {w}},
             UNCHANGED <<container, tenants, commands, events, posts, refused, strayed, raced, egress>>
      PROVE  Fine'
  <2>1. seen' \in [RunIds -> 0..MaxAttempts]
    BY <1>0, <1>b, <1>2 DEF Asked, Placed
  <2>2. \A v \in Others(w) \cup {w} : attempt[v] \in Attempts
    BY <1>2 DEF Others, Holding, TypeInv, Ready
  <2>3. shared' \subseteq Attempts
    BY <1>2, <1>b, <2>2 DEF Placed
  <2> QED BY <1>b, <1>c, <1>d, <1>2, <2>1, <2>3 DEF Placed
<1>3. ASSUME pc[w] # "idle", Awake(w) \/ UNCHANGED container,
             UNCHANGED <<tenants, commands, seen, events, posts, cold, history, egress>>
      PROVE  Fine'
  <2>1. /\ container' \in [RunIds -> 0..MaxAttempts]
        /\ \A r \in RunIds : container'[r] = container[r] \/ container[r] = 0
    BY <1>b, <1>3, AwakeTyped DEF Placed
  <2>2. Contained'
    BY <1>b, <1>3, <2>1 DEF Contained
  <2> QED BY <1>b, <1>c, <1>3, <2>1, <2>2 DEF Placed, history
<1>4. ASSUME pc[w] # "idle", Run(w), UNCHANGED <<seen, events, posts, cold, history, egress>>
      PROVE  Fine'
  <2>1. /\ container' \in [RunIds -> 0..MaxAttempts] /\ container'[run[w]] # 0
        /\ \A r \in RunIds : container'[r] = container[r] \/ container[r] = 0
    BY <1>4, AwakeTyped DEF Run
  <2>2. tenants' \in [RunIds -> SUBSET Attempts] /\ commands' \in [RunIds -> SUBSET Attempts]
    BY <1>b, <1>0, <1>4 DEF Run, Placed
  <2>3. tenants \in [RunIds -> SUBSET Attempts] /\ commands \in [RunIds -> SUBSET Attempts]
    BY <1>b DEF Placed
  <2>4. Contained'
    BY <1>b, <1>0, <1>4, <2>1, <2>3 DEF Run, Contained
  <2> QED BY <1>b, <1>c, <1>4, <2>1, <2>2, <2>4 DEF Placed, history
<1>5. ASSUME commands' = [commands EXCEPT ![run[w]] = @ \ {attempt[w]}],
             UNCHANGED <<container, tenants, seen, events, posts, cold, history, egress>>
      PROVE  Fine'
  <2>1. commands \in [RunIds -> SUBSET Attempts] /\ commands' \in [RunIds -> SUBSET Attempts]
    BY <1>b, <1>5 DEF Placed
  <2>2. Contained'
    BY <1>b, <1>5, <2>1 DEF Contained
  <2> QED BY <1>b, <1>c, <1>5, <2>1, <2>2 DEF Placed, history
<1>6. ASSUME Stopped(run[w]), UNCHANGED <<seen, events, posts, cold, history, egress>>
      PROVE  Fine'
  <2>1. /\ container' \in [RunIds -> 0..MaxAttempts]
        /\ tenants' \in [RunIds -> SUBSET Attempts] /\ commands' \in [RunIds -> SUBSET Attempts]
    BY <1>b, <1>a, <1>6 DEF Placed, Stopped
  <2>2. Contained'
    BY <1>b, <1>6 DEF Contained, Stopped, Placed
  <2> QED BY <1>b, <1>c, <1>6, <2>1, <2>2 DEF Placed, history
<1>7. ASSUME Forgotten(run[w]),
             UNCHANGED <<container, tenants, commands, posts, cold, shared, refused, raced, egress>>
      PROVE  Fine'
  <2>1. \A p \in posts : p.by \in Attempts /\ \A i \in DOMAIN p.base : p.base[i].by \in Attempts
    <3> SUFFICES ASSUME NEW p \in posts
                 PROVE  p.by \in Attempts /\ \A i \in DOMAIN p.base : p.base[i].by \in Attempts
      OBVIOUS
    <3>1. p.base \in Seq(Event) /\ p.by \in Attempts
      BY <1>b DEF Recorded
    <3>2. \A i \in DOMAIN p.base : p.base[i] \in Event
      BY <3>1
    <3> QED BY <3>1, <3>2 DEF Event
  <2>2. strayed' \subseteq Attempts
    BY <1>b, <1>7, <2>1 DEF Forgotten, Strayed, Placed
  <2>3. Recorded'
    <3>1. <<>> \in Seq(Event) /\ Len(<<>>) = 0
      OBVIOUS
    <3>2. events' = [events EXCEPT ![run[w]] = <<>>] /\ events \in [RunIds -> Seq(Event)]
      BY <1>7, <1>b DEF Forgotten, Recorded
    <3>3. events' \in [RunIds -> Seq(Event)]
      BY <3>1, <3>2
    <3>4. \A r \in RunIds : Len(events'[r]) <= MaxEvents
      BY <1>b, <1>a, <3>1, <3>2 DEF Recorded
    <3> QED BY <1>b, <1>7, <3>3, <3>4 DEF Recorded
  <2>4. seen' \in [RunIds -> 0..MaxAttempts]
    BY <1>b, <1>a, <1>7 DEF Forgotten, Placed
  <2> QED BY <1>b, <1>d, <1>7, <2>2, <2>3, <2>4 DEF Placed
<1>8. Fine' => CloudflareTypeOK' /\ Posted'
  <2>1. (CloudflareTypeOK /\ Posted)' <=> (Contained /\ Recorded /\ Placed)'
    BY CloudflareParts, PTL
  <2> QED BY <2>1
<1> HIDE DEF Fine
<1>9. ASSUME GetOrCreate(w) \/ GetFails(w)
      PROVE  Fine'
  <2>1. GetOrCreate(w) => cold' \in [Workers -> BOOLEAN]
    BY <1>b DEF GetOrCreate, Placed
  <2> QED BY <1>2, <1>e, <1>9, <2>1 DEF GetOrCreate, GetFails, Goto, history
<1>10. ASSUME ManifestBefore(w) \/ ManifestFails(w) \/ CollectFiles(w) \/ CollectGivenUp(w)
       PROVE  Fine'
  BY <1>3, <1>10 DEF ManifestBefore, ManifestFails, CollectFiles, CollectGivenUp, Goto
<1>11. ASSUME StartCommand(w)
       PROVE  Fine'
  BY <1>4, <1>11 DEF StartCommand, Goto
<1>12. ASSUME CommandEnds(w)
       PROVE  Fine'
  BY <1>5, <1>12 DEF CommandEnds
<1>13. ASSUME CommandLost(w) \/ ExecuteGivenUp(w) \/ CollectEvents(w)
       PROVE  Fine'
  BY <1>1, <1>13 DEF CommandLost, ExecuteGivenUp, CollectEvents
<1>14. ASSUME DestroyContainer(w)
       PROVE  Fine'
  BY <1>6, <1>14 DEF DestroyContainer
<1>15. ASSUME DestroyTelemetry(w) \/ DestroyGivenUp(w)
       PROVE  Fine'
  BY <1>1, <1>7, <1>15 DEF DestroyTelemetry, DestroyGivenUp, cloud, objects, history
<1> QED BY <1>8, <1>9, <1>10, <1>11, <1>12, <1>13, <1>14, <1>15 DEF CloudflareStep

\* Requests of the commands and the events they leave keep the types.
LEMMA EgressTyped ==
  ASSUME TypeInv, Egress
  PROVE  CloudflareTypeOK' /\ Posted'
<1>a. MaxEgress \in Nat
  BY TelemetryAssumption
<1>b. Contained /\ Recorded /\ Placed
  BY CloudflareParts DEF TypeInv, TypeOK
<1>c. \A p \in Post : p.base \in Seq(Event) /\ p.by \in Attempts /\ p.run \in RunIds
                      /\ [by |-> p.by, deny |-> p.deny] \in Event
  BY DEF Post, Event
<1>1. ASSUME NEW r \in RunIds, NEW by \in Attempts, Outbound(r, by)
      PROVE  Contained' /\ Recorded' /\ Placed'
  <2>1. PICK deny \in BOOLEAN :
          posts' = posts \cup {[id |-> egress, run |-> r, by |-> by, deny |-> deny, read |-> FALSE, base |-> <<>>]}
    BY <1>1 DEF Outbound
  <2> DEFINE new == [id |-> egress, run |-> r, by |-> by, deny |-> deny, read |-> FALSE, base |-> <<>>]
  <2>2. new \in Post /\ Len(new.base) <= MaxEvents
    <3>1. egress \in 0..MaxEgress /\ <<>> \in Seq(Event) /\ Len(<<>>) <= MaxEvents
      BY <1>b, TelemetryAssumption DEF Placed
    <3> QED BY <3>1 DEF Post
  <2>3. Recorded'
    <3>1. posts' = posts \cup {new} /\ events' = events
      BY <1>1, <2>1 DEF Outbound
    <3> HIDE DEF new
    <3> QED BY <1>b, <1>c, <2>2, <3>1 DEF Recorded
  <2>4. egress' \in 0..MaxEgress
    BY <1>a, <1>b, <1>1 DEF Outbound, Placed
  <2> QED BY <1>b, <1>1, <2>3, <2>4 DEF Outbound, Placed, Contained
<1>4. ASSUME NEW p \in posts, ReadEvents(p)
      PROVE  Contained' /\ Recorded' /\ Placed'
  <2> DEFINE new == [p EXCEPT !.read = TRUE, !.base = events[p.run]]
  <2>1. p \in Post /\ p.run \in RunIds
    BY <1>b DEF Recorded
  <2>2. events[p.run] \in Seq(Event) /\ Len(events[p.run]) <= MaxEvents
    BY <1>b, <2>1 DEF Recorded
  <2>3. new \in Post /\ Len(new.base) <= MaxEvents
    BY <2>1, <2>2 DEF Post
  <2>4. posts' = (posts \ {p}) \cup {new} /\ events' = events
    BY <1>4 DEF ReadEvents
  <2> HIDE DEF new
  <2>5. Recorded'
    BY <1>b, <1>c, <2>3, <2>4 DEF Recorded
  <2>6. raced' \subseteq RunIds
    BY <1>b, <1>4, <2>1 DEF ReadEvents, Placed
  <2> QED BY <1>b, <1>4, <2>5, <2>6 DEF ReadEvents, Placed, Contained
<1>2. ASSUME NEW p \in posts, PutEvents(p)
      PROVE  Contained' /\ Recorded' /\ Placed'
  <2> DEFINE e == [by |-> p.by, deny |-> p.deny]
             k == Kept(Append(p.base, e))
  <2>1. p.base \in Seq(Event) /\ e \in Event /\ p.run \in RunIds /\ p.by \in Attempts
    BY <1>b DEF Recorded
  <2>2. k \in Seq(Event) /\ Len(k) <= MaxEvents
    BY <2>1, KeptProperties
  <2>3. events' = [events EXCEPT ![p.run] = k] /\ posts' = posts \ {p}
    BY <1>2 DEF PutEvents
  <2> HIDE DEF k
  <2>4. Recorded'
    BY <1>b, <2>1, <2>2, <2>3 DEF Recorded
  <2>5. refused' \subseteq Attempts
    BY <1>b, <1>2, <2>1 DEF PutEvents, Placed
  <2> QED BY <1>b, <1>2, <2>4, <2>5 DEF PutEvents, Placed, Contained
<1>3. (CloudflareTypeOK /\ Posted)' <=> (Contained /\ Recorded /\ Placed)'
  BY CloudflareParts, PTL
<1> QED BY <1>1, <1>2, <1>3, <1>4 DEF Egress

\* Every step keeps the types.
LEMMA TypeStep ==
  ASSUME TypeInv, [Next]_vars
  PROVE  TypeInv'
<1>1. ASSUME NEW w \in Workers, InKernel(w)
      PROVE  TypeInv'
  <2>1. KernelTypeOK' /\ Ready'
    BY <1>1, KernelTyped DEF InKernel
  <2>2. OpenShellTypeOK' /\ CloudflareTypeOK' /\ Posted'
    BY <1>1 DEF InKernel, gateway, cloud, objects, history, TypeInv, TypeOK, OpenShellTypeOK, CloudflareTypeOK, Posted
  <2> QED BY <2>1, <2>2 DEF TypeInv, TypeOK
<1>2. ASSUME NEW w \in Workers, OnOpenShell(w)
      PROVE  TypeInv'
  <2>1. KernelTypeOK' /\ Ready' /\ OpenShellTypeOK'
    BY <1>2, OpenShellMoves, MovesTyped, OpenShellTyped DEF OnOpenShell
  <2>2. CloudflareTypeOK' /\ Posted'
    BY <1>2 DEF OnOpenShell, cloud, objects, history, TypeInv, TypeOK, CloudflareTypeOK, Posted
  <2> QED BY <2>1, <2>2 DEF TypeInv, TypeOK
<1>3. ASSUME NEW w \in Workers, OnCloudflare(w)
      PROVE  TypeInv'
  <2>1. KernelTypeOK' /\ Ready' /\ CloudflareTypeOK' /\ Posted'
    BY <1>3, CloudflareMoves, MovesTyped, CloudflareTyped DEF OnCloudflare
  <2>2. OpenShellTypeOK'
    BY <1>3 DEF OnCloudflare, gateway, TypeInv, TypeOK, OpenShellTypeOK
  <2> QED BY <2>1, <2>2 DEF TypeInv, TypeOK
<1>4. ASSUME UNCHANGED <<call, pc, failed, bundle, witnessed, files, counters, excused, gateway>>
      PROVE  KernelTypeOK' /\ Ready' /\ OpenShellTypeOK'
  BY <1>4 DEF call, files, counters, gateway, TypeInv, TypeOK, KernelTypeOK, Ready, OpenShellTypeOK
<1>5. Egress /\ UNCHANGED <<call, pc, failed, bundle, witnessed, files, counters, excused, gateway>> => TypeInv'
  BY <1>4, EgressTyped DEF TypeInv, TypeOK
<1>6. UNCHANGED vars => TypeInv'
  BY <1>4 DEF vars, cloud, objects, history, TypeInv, TypeOK, CloudflareTypeOK, Posted
<1> QED BY <1>1, <1>2, <1>3, <1>5, <1>6 DEF Next

\* The initial states are typed.
LEMMA TypeInit ==
  ASSUME Init
  PROVE  TypeInv
<1>0. /\ 0 \in 0..MaxAttempts /\ 0 \in 0..MaxFaults /\ 0 \in 0..MaxCrashes /\ 0 \in 0..MaxEgress /\ 0 <= MaxEvents
      /\ (CHOOSE r \in RunIds : TRUE) \in RunIds
  BY BoundsAssumption, TelemetryAssumption, RunIdsAssumption
<1>1. KernelTypeOK
  BY <1>0 DEF Init, KernelInit, KernelTypeOK, FileStates, Persisting
<1>2. OpenShellTypeOK
  BY <1>0 DEF Init, OpenShellInit, OpenShellTypeOK
<1>3. <<>> \in Seq(Event) /\ Len(<<>>) = 0
  OBVIOUS
<1>4. CloudflareTypeOK
  BY <1>0, <1>3 DEF Init, CloudflareInit, CloudflareTypeOK
<1>5. Ready /\ Posted
  BY DEF Init, KernelInit, CloudflareInit, Ready, Posted
<1> QED BY <1>1, <1>2, <1>4, <1>5 DEF TypeInv, TypeOK

\* The types, as an invariant of every behaviour.
LEMMA TypedAlways == Spec => []TypeInv
<1>1. TypeInv /\ [Next]_vars => TypeInv'
  BY TypeStep
<1> QED BY TypeInit, <1>1, PTL DEF Spec

\* Every value is of its kind: a worker that persists has evidence to persist,
\* commands run in containers, and telemetry keeps no more events than its limit
\* (HarnessKernel.run, the controllers and the Worker).
THEOREM TypeCorrect == Spec => []TypeOK
<1>1. TypeInv => TypeOK
  BY DEF TypeInv
<1> QED BY TypedAlways, <1>1, PTL

-----------------------------------------------------------------------------
(* The inductive invariant                                                 *)

\* Every call has a number of its own.
Numbered ==
  /\ \A w \in Workers : attempt[w] <= attempts
  /\ \A v, w \in Workers : v # w /\ attempt[v] = attempt[w] => attempt[v] = 0

\* Evidence is partial only while somebody writes it or after an accident, and nobody
\* comes to a verdict, or has one, on evidence that was never written.
Accident == \E a \in Attempts : {<<a, "crash">>, <<a, "persist">>} \cap excused # {}

Stored ==
  /\ \A b \in Bundles : evidence[b] = "partial" =>
       (\E w \in Workers : pc[w] = "write evidence" /\ bundle[w] = b) \/ Accident
  /\ \A b \in Bundles : verdict[b] # "none" => evidence[b] # "none"
  /\ \A w \in Workers : pc[w] \in {"write evidence", "verdict", "open verdict", "write verdict"} =>
       evidence[bundle[w]] # "none"

\* On OpenShell a worker has its sandbox for itself, and its evidence is about what it
\* has run in it.
Private(w) ==
  /\ pc[w] \in Holding => sandbox[run[w]] = attempt[w] /\ ran[run[w]] \subseteq {attempt[w]}
  /\ pc[w] = "collect" => ran[run[w]] = {attempt[w]}
  /\ pc[w] = "destroy" /\ ~failed[w] => witnessed[w] = {attempt[w]}
  /\ pc[w] \in Persisting => witnessed[w] = {attempt[w]}

Separate == runtime = "openshell" => \A w \in Workers : Private(w)

\* An object that is there for a worker is there under its run id, and it is there for a
\* worker that will destroy it or for one that may have left it.
Owned(object) ==
  \A r \in RunIds : /\ object[r] <= attempts
                    /\ \A w \in Workers : object[r] = attempt[w] /\ object[r] # 0 => run[w] = r

Explained(a) == \E why \in {"create", "prepare", "delete", "crash"} : <<a, why>> \in excused

Excusable(object) == \A r \in RunIds : object[r] # 0 => InProgress(object[r]) \/ Explained(object[r])

Kind(object, backend) == runtime # backend => \A r \in RunIds : object[r] = 0

Possessed ==
  /\ Owned(sandbox) /\ Excusable(sandbox) /\ Kind(sandbox, "openshell")
  /\ Owned(container) /\ Excusable(container) /\ Kind(container, "cloudflare")
  /\ Owned(seen) /\ Excusable(seen) /\ Kind(seen, "cloudflare")
  /\ \A w \in Workers : pc[w] = "destroy telemetry" => container[run[w]] # attempt[w]

\* Where a worker's command has not been started.
Unrun == {"create", "configure", "execute"}

Wrote(a, log) == \E i \in DOMAIN log : log[i].by = a
Authored(a, r) ==
  Wrote(a, events[r]) \/ \E p \in posts : p.run = r /\ (p.by = a \/ Wrote(a, p.base))

Abandoned(a) == \E why \in {"delete", "crash"} : <<a, why>> \in excused

\* Commands and events are of attempts that have come so far, under their own run id.
Traced ==
  /\ \A r \in RunIds, a \in Attempts : a \in tenants[r] \/ Authored(a, r) =>
       a <= attempts /\ \A w \in Workers : attempt[w] = a => run[w] = r /\ pc[w] \notin Unrun
  /\ \A a \in refused : a <= attempts /\ \A w \in Workers : attempt[w] = a => pc[w] \notin Unrun

\* Who is in a sandbox together knows it; a sandbox that nobody has asked for since it was
\* deleted is used by nobody who does not share it.
Sharing ==
  /\ \A v, w \in Workers :
       v # w /\ run[v] = run[w] /\ pc[v] \in Holding /\ pc[w] \in Holding => attempt[w] \in shared
  /\ \A w \in Workers : pc[w] \in Holding /\ seen[run[w]] = 0 => attempt[w] \in shared
  /\ \A w \in Workers : pc[w] = "destroy telemetry" =>
       tenants[run[w]] \subseteq shared /\ attempt[w] \notin tenants[run[w]]
  /\ \A r \in RunIds : seen[r] = 0 => tenants[r] \subseteq shared

\* A command is there for a worker that will destroy it or has failed to; so is an event, or
\* it was on its way when telemetry was deleted, and its worker knows of others when nobody
\* has asked since.
Remaining ==
  /\ \A r \in RunIds : \A a \in tenants[r] : InProgress(a) \/ Abandoned(a)
  /\ \A r \in RunIds, a \in Attempts : seen[r] = 0 /\ Authored(a, r) =>
       a \in strayed \/ (a \in shared /\ (InProgress(a) \/ Abandoned(a)))
  /\ \A r \in RunIds, a \in Attempts : Authored(a, r) => a \in strayed \/ InProgress(a) \/ Abandoned(a)

\* What cold_start promises to a worker that shares its sandbox with nobody.
Left(a) == a \in shared /\ Abandoned(a)

Alone ==
  \A w \in Workers : pc[w] \in Holding /\ cold[w] /\ attempt[w] \notin shared =>
    /\ \A a \in tenants[run[w]] : a = attempt[w] \/ Left(a)
    /\ pc[w] = "events" => \A a \in witnessed[w] : a = attempt[w] \/ Left(a)
    /\ \A a \in Attempts : Authored(a, run[w]) => a = attempt[w] \/ Left(a) \/ a \in strayed

\* A refusal that a command was told of is in telemetry and in all that is about to replace
\* it, or there are as many events as there can be.
Denial(log) == Len(log) = MaxEvents \/ \E i \in DOMAIN log : log[i].deny

Noted ==
  /\ \A p, q \in posts : p # q /\ p.run = q.run /\ p.read /\ q.read => p.run \in raced
  /\ \A w \in Workers :
       pc[w] \in Holding /\ attempt[w] \in refused /\ attempt[w] \notin shared /\ run[w] \notin raced =>
         Denial(events[run[w]]) /\ \A p \in posts : p.run = run[w] /\ p.read => Denial(p.base)

OnCloud == runtime = "cloudflare" => Traced /\ Sharing /\ Remaining /\ Alone /\ Noted

\* Elsewhere there are no commands in containers, and so no events.
Quiet ==
  runtime # "cloudflare" => posts = {} /\ \A r \in RunIds : commands[r] = {} /\ events[r] = <<>>

-----------------------------------------------------------------------------
(* Numbers                                                                 *)

\* Only a call of run gives numbers and run ids.
LEMMA OnlyStartCalls ==
  ASSUME TypeInv, [Next]_vars, ~\E w \in Workers : InKernel(w) /\ Start(w)
  PROVE  UNCHANGED <<runtime, run, attempt, attempts>>
<1>1. ASSUME NEW w \in Workers, InKernel(w)
      PROVE  UNCHANGED <<runtime, run, attempt, attempts>>
  BY <1>1 DEF InKernel, KernelStep, CheckEvidence, OpenEvidence, WriteEvidence, CheckVerdict, OpenVerdict, WriteVerdict,
              PersistFails, Crash, Fault, call, counters
<1>2. ASSUME NEW w \in Workers, OnOpenShell(w) \/ OnCloudflare(w)
      PROVE  UNCHANGED <<runtime, run, attempt, attempts>>
  BY <1>2, OpenShellMoves, CloudflareMoves DEF OnOpenShell, OnCloudflare, Moves, call
<1> QED BY <1>1, <1>2 DEF Next, vars, call, counters

\* What a call of run does to numbers.
LEMMA StartNumbers ==
  ASSUME TypeInv, NEW w \in Workers, Start(w)
  PROVE  /\ pc[w] = "idle" /\ pc' = [pc EXCEPT ![w] = "create"]
         /\ attempts \in Nat /\ attempts' = attempts + 1 /\ runtime' = runtime
         /\ attempt \in [Workers -> Nat] /\ attempt' = [attempt EXCEPT ![w] = attempts + 1]
         /\ \A v \in Workers \ {w} : run'[v] = run[v]
<1>1. attempts \in Nat /\ attempt \in [Workers -> Nat]
  BY BoundsAssumption DEF TypeInv, TypeOK, KernelTypeOK
<1> QED BY <1>1 DEF Start, Goto

\* Every step keeps the numbers apart.
LEMMA NumberedStep ==
  ASSUME TypeInv, Numbered, [Next]_vars
  PROVE  Numbered'
<1>1. ASSUME NEW w \in Workers, Start(w)
      PROVE  Numbered'
  <2>1. /\ attempts \in Nat /\ attempts' = attempts + 1
        /\ attempt \in [Workers -> Nat] /\ attempt' = [attempt EXCEPT ![w] = attempts + 1]
    BY <1>1, StartNumbers
  <2> QED BY <2>1 DEF Numbered
<1>2. UNCHANGED <<attempt, attempts>> => Numbered'
  BY DEF Numbered
<1> QED BY <1>1, <1>2, OnlyStartCalls

-----------------------------------------------------------------------------
(* Evidence and verdicts                                                   *)

Citing == {"write evidence", "verdict", "open verdict", "write verdict"}

\* A step that does not touch the evidence.
LEMMA StoredFrame ==
  ASSUME Stored, UNCHANGED evidence, Accident => Accident',
         \A v \in Workers : pc[v] = "write evidence" =>
           (pc'[v] = "write evidence" /\ bundle'[v] = bundle[v]) \/ Accident',
         \A v \in Workers : pc'[v] \in Citing => evidence[bundle'[v]] # "none",
         \A b \in Bundles : verdict'[b] # "none" => verdict[b] # "none" \/ evidence[b] # "none"
  PROVE  Stored'
<1>1. \A b \in Bundles : evidence'[b] = "partial" =>
         (\E w \in Workers : pc'[w] = "write evidence" /\ bundle'[w] = b) \/ Accident'
  BY ZenonT(60) DEF Stored
<1>2. \A b \in Bundles : verdict'[b] # "none" => evidence'[b] # "none"
  BY DEF Stored
<1> QED BY <1>1, <1>2 DEF Stored, Citing

\* A step of the runtime leaves the files alone.
LEMMA StoredMoves ==
  ASSUME TypeInv, Stored, NEW w \in Workers, NEW to \in Later, Moves(w, to)
  PROVE  Stored'
<1>1. UNCHANGED <<evidence, verdict>> /\ excused \subseteq excused' /\ pc \in [Workers -> {"idle", "create"} \cup Holding \cup Persisting]
      /\ pc[w] \in {"create"} \cup Holding /\ pc' = [pc EXCEPT ![w] = to]
      /\ \A v \in Workers \ {w} : bundle'[v] = bundle[v]
  BY DEF Moves, files, TypeInv, TypeOK, KernelTypeOK
<1>2. to \notin {"write evidence", "verdict", "open verdict", "write verdict"} /\ pc[w] # "write evidence"
  BY <1>1 DEF Later, Holding
<1>3. \A v \in Workers : pc'[v] \in {"write evidence", "verdict", "open verdict", "write verdict"} =>
         v # w /\ pc[v] = pc'[v] /\ bundle'[v] = bundle[v]
  BY <1>1, <1>2
<1>4. \A v \in Workers : pc[v] = "write evidence" => pc'[v] = "write evidence" /\ bundle'[v] = bundle[v]
  BY <1>1, <1>2
<1>5. Accident => Accident'
  BY <1>1 DEF Accident
<1>6. \A v \in Workers : pc'[v] \in Citing => evidence[bundle'[v]] # "none"
  BY <1>3 DEF Stored, Citing
<1> HIDE DEF Citing
<1> QED BY <1>1, <1>4, <1>5, <1>6, StoredFrame

\* A step of the kernel looks at the evidence before it writes, and writes evidence
\* before it comes to the verdict.
LEMMA StoredKernel ==
  ASSUME TypeInv, Stored, NEW w \in Workers, KernelStep(w)
  PROVE  Stored'
<1>0. /\ pc \in [Workers -> {"idle", "create"} \cup Holding \cup Persisting]
      /\ evidence \in [Bundles -> FileStates] /\ verdict \in [Bundles -> FileStates]
      /\ \A v \in Workers : pc[v] \in Persisting => bundle[v] \in Bundles
      /\ \A v \in Workers : pc[v] # "idle" => attempt[v] \in Attempts
  BY DEF TypeInv, TypeOK, KernelTypeOK, Ready
<1> USE DEF Goto, Persisting, call, files, counters
<1>1. ASSUME Start(w)
      PROVE  Stored'
  <2>1. /\ pc[w] = "idle" /\ pc' = [pc EXCEPT ![w] = "create"] /\ \A v \in Workers \ {w} : bundle'[v] = bundle[v]
        /\ UNCHANGED <<evidence, verdict, excused>>
    BY <1>1 DEF Start
  <2>2. Accident' = Accident
    BY <2>1 DEF Accident
  <2>3. \A v \in Workers : pc'[v] \in Citing => evidence[bundle'[v]] # "none"
    BY <1>0, <2>1 DEF Stored, Citing
  <2>4. \A v \in Workers : pc[v] = "write evidence" => pc'[v] = "write evidence" /\ bundle'[v] = bundle[v]
    BY <1>0, <2>1
  <2> QED BY <2>1, <2>2, <2>3, <2>4, StoredFrame
<1>2. ASSUME CheckEvidence(w) \/ CheckVerdict(w)
      PROVE  Stored'
  <2>1. /\ UNCHANGED <<bundle, evidence, verdict, excused>>
        /\ pc[w] \in {"evidence", "verdict"}
        /\ \A v \in Workers \ {w} : pc'[v] = pc[v]
        /\ pc'[w] \in Citing => evidence[bundle[w]] # "none"
    BY <1>0, <1>2 DEF CheckEvidence, CheckVerdict, Stored, Citing
  <2>2. Accident' = Accident
    BY <2>1 DEF Accident
  <2>3. \A v \in Workers : pc'[v] \in Citing => evidence[bundle'[v]] # "none"
    BY <2>1 DEF Stored, Citing
  <2>4. \A v \in Workers : pc[v] = "write evidence" => pc'[v] = "write evidence" /\ bundle'[v] = bundle[v]
    BY <2>1
  <2> QED BY <2>1, <2>2, <2>3, <2>4, StoredFrame
<1>3. ASSUME OpenEvidence(w)
      PROVE  Stored'
  <2>1. Accident' = Accident
    BY <1>3 DEF OpenEvidence, Accident
  <2> QED BY <1>0, <1>3, <2>1 DEF OpenEvidence, Stored
<1>4. ASSUME WriteEvidence(w)
      PROVE  Stored'
  <2>1. Accident' = Accident
    BY <1>4 DEF WriteEvidence, Accident
  <2> QED BY <1>0, <1>4, <2>1 DEF WriteEvidence, Stored
<1>5. ASSUME OpenVerdict(w) \/ WriteVerdict(w)
      PROVE  Stored'
  <2>1. /\ UNCHANGED <<bundle, evidence, excused>>
        /\ pc[w] \in {"open verdict", "write verdict"}
        /\ pc' = [pc EXCEPT ![w] = pc'[w]] /\ pc'[w] \in {"write verdict", "idle"}
        /\ \A b \in Bundles : verdict'[b] = verdict[b] \/ b = bundle[w]
    BY <1>0, <1>5 DEF OpenVerdict, WriteVerdict
  <2>2. Accident' = Accident
    BY <2>1 DEF Accident
  <2>3. \A v \in Workers : pc'[v] \in Citing => evidence[bundle'[v]] # "none"
    BY <1>0, <2>1 DEF Stored, Citing
  <2>4. \A v \in Workers : pc[v] = "write evidence" => pc'[v] = "write evidence" /\ bundle'[v] = bundle[v]
    BY <1>0, <2>1
  <2>5. evidence[bundle[w]] # "none"
    BY <2>1 DEF Stored
  <2> QED BY <2>1, <2>2, <2>3, <2>4, <2>5, StoredFrame
<1>6. ASSUME PersistFails(w) \/ Crash(w)
      PROVE  Stored'
  <2>1. pc' = [pc EXCEPT ![w] = "idle"] /\ UNCHANGED <<bundle, evidence, verdict>> /\ attempt[w] \in Attempts
    BY <1>0, <1>6 DEF PersistFails, Crash
  <2>2. Accident'
    <3>1. {<<attempt[w], "crash">>, <<attempt[w], "persist">>} \cap excused' # {}
      BY <1>6 DEF PersistFails, Crash, LeftBehind
    <3>2. \E a \in Attempts : {<<a, "crash">>, <<a, "persist">>} \cap excused' # {}
      BY <2>1, <3>1
    <3> QED BY <3>2 DEF Accident
  <2>3. \A v \in Workers : pc'[v] \in Citing => evidence[bundle'[v]] # "none"
    BY <1>0, <2>1 DEF Stored, Citing
  <2> QED BY <2>1, <2>2, <2>3, StoredFrame
<1> QED BY <1>1, <1>2, <1>3, <1>4, <1>5, <1>6 DEF KernelStep

\* Every step keeps what is said of the files.
LEMMA StoredStep ==
  ASSUME TypeInv, Stored, [Next]_vars
  PROVE  Stored'
<1>1. ASSUME UNCHANGED <<pc, bundle, files, excused>>
      PROVE  Stored'
  BY <1>1 DEF files, Stored, Accident
<1>2. ASSUME NEW w \in Workers, OnOpenShell(w) \/ OnCloudflare(w)
      PROVE  Stored'
  BY <1>2, OpenShellMoves, CloudflareMoves, StoredMoves DEF OnOpenShell, OnCloudflare
<1>3. ASSUME NEW w \in Workers, InKernel(w)
      PROVE  Stored'
  BY <1>3, StoredKernel DEF InKernel
<1> QED BY <1>1, <1>2, <1>3 DEF Next, vars

\* Whoever finds a verdict finds the evidence it cites, whole or for a known reason not
\* (EvidenceStore.persist, HarnessVerdictStore.persist).
LEMMA CitedEvidenceIsFound == Spec => []CitedIsFound
<1>1. Init => Stored
  BY DEF Init, KernelInit, Stored
<1>2. TypeInv /\ Stored /\ [Next]_vars => Stored'
  BY StoredStep
<1>3. TypeInv /\ Stored => CitedIsFound
  <2>1. TypeInv => evidence \in [Bundles -> {"none", "partial", "complete"}]
    BY DEF TypeInv, TypeOK, KernelTypeOK, FileStates
  <2> QED BY <2>1 DEF Stored, CitedIsFound, Accident
<1> QED BY TypedAlways, <1>1, <1>2, <1>3, PTL DEF Spec

-----------------------------------------------------------------------------
(* What a call leaves in the stores                                        *)

\* A worker that has not prepared its sandbox has no evidence, and one that has returned
\* with evidence has stored it, or there is a reason.
Settled(w) ==
  \/ evidence[bundle[w]] # "none" /\ verdict[bundle[w]] # "none"
  \/ failed[w]
  \/ \E why \in {"crash", "persist"} : <<attempt[w], why>> \in excused

Returned(w) ==
  /\ pc[w] \in {"create", "configure"} => bundle[w] \notin Bundles
  /\ runtime \in Storing /\ pc[w] = "idle" /\ bundle[w] \in Bundles => Settled(w)

\* The evidence of nobody is not evidence.
LEMMA NoBundleIsNone == NoBundle \notin Bundles
BY BackendsAssumption DEF NoBundle, Bundles

\* Files are not removed.
Grown ==
  /\ \A b \in Bundles : evidence[b] # "none" => evidence'[b] # "none"
  /\ \A b \in Bundles : verdict[b] # "none" => verdict'[b] # "none"
  /\ excused \subseteq excused' /\ runtime' = runtime

\* What has been said of a worker stays true while others go on.
LEMMA ReturnedKept ==
  ASSUME NEW v \in Workers, Returned(v), Grown,
         pc'[v] = pc[v], failed'[v] = failed[v], bundle'[v] = bundle[v], attempt'[v] = attempt[v]
  PROVE  Returned(v)'
<1>1. CASE pc[v] = "idle" /\ runtime \in Storing /\ bundle[v] \in Bundles
  <2>1. Settled(v)
    BY <1>1 DEF Returned
  <2>2. Settled(v)'
    BY <1>1, <2>1 DEF Settled, Grown
  <2> QED BY <1>1, <2>2 DEF Returned
<1>2. CASE ~(pc[v] = "idle" /\ runtime \in Storing /\ bundle[v] \in Bundles)
  BY <1>2 DEF Returned, Grown
<1> QED BY <1>1, <1>2

\* A step of OpenShell that ends a call comes before there is evidence, or with an exception.
LEMMA ReturnedOpenShell ==
  ASSUME TypeInv, NEW w \in Workers, Returned(w), OpenShellStep(w)
  PROVE  Returned(w)'
<1>0. /\ DOMAIN pc = Workers /\ DOMAIN failed = Workers /\ runtime' = runtime
      /\ pc[w] \in {"create"} \cup Holding
  BY OpenShellMoves DEF TypeInv, TypeOK, KernelTypeOK, Moves, call
<1>1. Create(w) \/ CreateRefused(w) \/ CreateFault(w) \/ EnableOcsfFails(w) \/ PrepareFails(w) => Returned(w)'
  BY <1>0 DEF Create, CreateRefused, CreateFault, EnableOcsfFails, PrepareFails, Goto, Returned
<1>2. Configure(w) \/ Execute(w) \/ ExecuteFails(w) \/ Collect(w) \/ CollectFails(w) => Returned(w)'
  BY <1>0 DEF Configure, Execute, ExecuteFails, Collect, CollectFails, Goto, Returned
<1>3. Destroy(w) => Returned(w)'
  BY <1>0 DEF Destroy, Concluded, Goto, Returned, Settled
<1>4. DestroyFails(w) => Returned(w)'
  BY <1>0 DEF DestroyFails, Goto, Returned, Settled
<1> QED BY <1>1, <1>2, <1>3, <1>4 DEF OpenShellStep

\* So does one of Cloudflare.
LEMMA ReturnedCloudflare ==
  ASSUME TypeInv, NEW w \in Workers, Returned(w), CloudflareStep(w)
  PROVE  Returned(w)'
<1>0. /\ DOMAIN pc = Workers /\ DOMAIN failed = Workers /\ runtime' = runtime
      /\ pc[w] \in {"create"} \cup Holding
  BY CloudflareMoves DEF TypeInv, TypeOK, KernelTypeOK, Moves, call
<1>1. GetOrCreate(w) \/ GetFails(w) \/ ManifestFails(w) => Returned(w)'
  BY <1>0 DEF GetOrCreate, GetFails, ManifestFails, Goto, Returned
<1>2. ManifestBefore(w) \/ StartCommand(w) \/ CommandEnds(w) \/ CommandLost(w) \/ ExecuteGivenUp(w) \/ CollectFiles(w)
        \/ CollectEvents(w) \/ CollectGivenUp(w) \/ DestroyContainer(w) => Returned(w)'
  BY <1>0 DEF ManifestBefore, StartCommand, CommandEnds, CommandLost, ExecuteGivenUp, CollectFiles, CollectEvents,
       CollectGivenUp, DestroyContainer, Goto, Returned
<1>3. DestroyTelemetry(w) => Returned(w)'
  BY <1>0 DEF DestroyTelemetry, Concluded, Goto, Returned, Settled
<1>4. DestroyGivenUp(w) => Returned(w)'
  BY <1>0 DEF DestroyGivenUp, Goto, Returned, Settled
<1> QED BY <1>1, <1>2, <1>3, <1>4 DEF CloudflareStep

\* A step of the OpenShell controller changes what it knows of its own call only.
LEMMA OthersKept ==
  ASSUME TypeInv, NEW w \in Workers, OpenShellStep(w) \/ KernelStep(w), NEW v \in Workers \ {w}
  PROVE  /\ pc'[v] = pc[v] /\ run'[v] = run[v] /\ attempt'[v] = attempt[v]
         /\ failed'[v] = failed[v] /\ witnessed'[v] = witnessed[v] /\ bundle'[v] = bundle[v]
<1>1. /\ DOMAIN pc = Workers /\ DOMAIN run = Workers /\ DOMAIN attempt = Workers
      /\ DOMAIN failed = Workers /\ DOMAIN witnessed = Workers /\ DOMAIN bundle = Workers
  BY DEF TypeInv, TypeOK, KernelTypeOK
<1>2. OpenShellStep(w) => \E to \in Later : Moves(w, to)
  BY OpenShellMoves
<1>3. ASSUME NEW to \in Later, Moves(w, to)
      PROVE  /\ pc'[v] = pc[v] /\ run'[v] = run[v] /\ attempt'[v] = attempt[v]
             /\ failed'[v] = failed[v] /\ witnessed'[v] = witnessed[v] /\ bundle'[v] = bundle[v]
  BY <1>1, <1>3 DEF Moves, call
<1>4. ASSUME KernelStep(w)
      PROVE  /\ pc'[v] = pc[v] /\ run'[v] = run[v] /\ attempt'[v] = attempt[v]
             /\ failed'[v] = failed[v] /\ witnessed'[v] = witnessed[v] /\ bundle'[v] = bundle[v]
  BY <1>1, <1>4 DEF KernelStep, Start, CheckEvidence, OpenEvidence, WriteEvidence, CheckVerdict, OpenVerdict,
                    WriteVerdict, PersistFails, Crash, Goto, call
<1> QED BY <1>2, <1>3, <1>4

\* The kernel returns when both files are there, and otherwise an accident is on record.
LEMMA ReturnedKernel ==
  ASSUME TypeInv, Stored, NEW w \in Workers, Returned(w), KernelStep(w)
  PROVE  Returned(w)' /\ Grown
<1>0. /\ DOMAIN pc = Workers /\ DOMAIN bundle = Workers /\ DOMAIN evidence = Bundles /\ DOMAIN verdict = Bundles
      /\ pc[w] \in Persisting => bundle[w] \in Bundles
  BY DEF TypeInv, TypeOK, KernelTypeOK
<1> USE DEF Goto, call, files
<1>1. ASSUME Start(w)
      PROVE  Returned(w)' /\ Grown
  BY <1>0, <1>1, NoBundleIsNone DEF Start, Returned, Grown
<1>2. ASSUME CheckEvidence(w) \/ OpenEvidence(w) \/ WriteEvidence(w) \/ OpenVerdict(w)
      PROVE  Returned(w)' /\ Grown
  BY <1>0, <1>2 DEF CheckEvidence, OpenEvidence, WriteEvidence, OpenVerdict, Returned, Grown
<1>3. ASSUME CheckVerdict(w) \/ WriteVerdict(w)
      PROVE  Returned(w)' /\ Grown
  <2>1. pc[w] \in {"verdict", "write verdict"} /\ evidence[bundle[w]] # "none" /\ bundle[w] \in Bundles
    BY <1>0, <1>3 DEF CheckVerdict, WriteVerdict, Stored, Persisting
  <2>2. Grown
    BY <1>0, <1>3 DEF CheckVerdict, WriteVerdict, Grown
  <2>3. pc'[w] = "idle" => verdict'[bundle[w]] # "none"
    BY <1>0, <1>3, <2>1 DEF CheckVerdict, WriteVerdict
  <2>4. bundle' = bundle /\ evidence' = evidence /\ pc'[w] \notin {"create", "configure"}
    BY <1>0, <1>3 DEF CheckVerdict, WriteVerdict
  <2> QED BY <2>1, <2>2, <2>3, <2>4 DEF Returned, Settled
<1>4. ASSUME PersistFails(w) \/ Crash(w)
      PROVE  Returned(w)' /\ Grown
  BY <1>0, <1>4 DEF PersistFails, Crash, LeftBehind, Returned, Settled, Grown
<1> QED BY <1>1, <1>2, <1>3, <1>4 DEF KernelStep

\* Evidence that a call has collected is lost, or left without a verdict, only when an
\* exception of destroy has replaced the result, the worker was killed or a store could not
\* write (HarnessKernel.run, the finally clause and the stores after it).
LEMMA CollectedEvidenceIsStored == Spec => []CollectedIsStored
<1> DEFINE All == \A w \in Workers : Returned(w)
<1>1. Init => All
  BY NoBundleIsNone DEF Init, KernelInit, Returned
<1>2. ASSUME TypeInv, Stored, All, [Next]_vars
      PROVE  All'
  <2>1. ASSUME NEW w \in Workers, OnOpenShell(w) \/ OnCloudflare(w)
        PROVE  All'
    <3>1. PICK to \in Later : Moves(w, to)
      BY <1>2, <2>1, OpenShellMoves, CloudflareMoves DEF OnOpenShell, OnCloudflare
    <3>2. Grown
      BY <3>1 DEF Moves, Grown, files, call
    <3>3. \A v \in Workers \ {w} :
            pc'[v] = pc[v] /\ failed'[v] = failed[v] /\ bundle'[v] = bundle[v] /\ attempt'[v] = attempt[v]
      <4>1. DOMAIN pc = Workers /\ DOMAIN failed = Workers /\ DOMAIN bundle = Workers
        BY <1>2 DEF TypeInv, TypeOK, KernelTypeOK
      <4> QED BY <3>1, <4>1 DEF Moves, call
    <3>4. Returned(w)'
      BY <1>2, <2>1, ReturnedOpenShell, ReturnedCloudflare DEF OnOpenShell, OnCloudflare
    <3> QED BY <1>2, <3>2, <3>3, <3>4, ReturnedKept
  <2>2. ASSUME NEW w \in Workers, InKernel(w)
        PROVE  All'
    <3>1. Returned(w)' /\ Grown
      BY <1>2, <2>2, ReturnedKernel DEF InKernel
    <3>2. \A v \in Workers \ {w} :
            pc'[v] = pc[v] /\ failed'[v] = failed[v] /\ bundle'[v] = bundle[v] /\ attempt'[v] = attempt[v]
      BY <1>2, <2>2, OthersKept DEF InKernel
    <3> QED BY <1>2, <3>1, <3>2, ReturnedKept
  <2>3. ASSUME UNCHANGED <<call, pc, failed, bundle, files, excused>>
        PROVE  All'
    BY <1>2, <2>3 DEF Returned, Settled, call, files
  <2> QED BY <1>2, <2>1, <2>2, <2>3 DEF Next, vars
<1>3. Init => Stored
  BY DEF Init, KernelInit, Stored
<1>4. TypeInv /\ Stored /\ [Next]_vars => Stored'
  BY StoredStep
<1>5. All => CollectedIsStored
  BY DEF Returned, Settled, CollectedIsStored
<1> QED
  <2> HIDE DEF All
  <2>1. TypeInv /\ Stored /\ All /\ [Next]_vars => All'
    BY <1>2
  <2> QED BY TypedAlways, <1>1, <2>1, <1>3, <1>4, <1>5, PTL DEF Spec

\* Verdicts and evidence are found together, whatever the workers, crashes and retries:
\* nobody misses the evidence of a verdict, and what a call has collected has both, but
\* for a known reason (HarnessKernel.run, EvidenceStore.persist,
\* HarnessVerdictStore.persist).
THEOREM VerdictsHaveEvidence == Spec => []VerdictHasEvidence
<1>1. CitedIsFound /\ CollectedIsStored => VerdictHasEvidence
  BY DEF VerdictHasEvidence
<1> QED BY <1>1, CitedEvidenceIsFound, CollectedEvidenceIsStored, PTL

-----------------------------------------------------------------------------
(* Whose sandbox a run uses on OpenShell                                   *)

\* It touches the sandbox of its own name only, and creates one only if there is none.
LEMMA GatewayTouched ==
  ASSUME TypeInv, NEW w \in Workers, OpenShellStep(w)
  PROVE  /\ \A r \in RunIds \ {run[w]} : sandbox'[r] = sandbox[r] /\ ran'[r] = ran[r]
         /\ sandbox'[run[w]] \in {sandbox[run[w]], 0, attempt[w]}
         /\ pc[w] = "create" /\ sandbox[run[w]] # 0 => UNCHANGED gateway
<1>1. /\ sandbox \in [RunIds -> 0..MaxAttempts] /\ ran \in [RunIds -> SUBSET Attempts] /\ run[w] \in RunIds
  BY DEF TypeInv, TypeOK, KernelTypeOK, OpenShellTypeOK
<1> QED
  BY <1>1 DEF OpenShellStep, Create, CreateRefused, CreateFault, Configure, EnableOcsfFails, PrepareFails,
              Execute, ExecuteFails, Collect, CollectFails, Destroy, DestroyFails, Created, Deleted, Exists,
              Name, Goto, gateway

\* What holds for the worker that takes the step.
LEMMA PrivateStep ==
  ASSUME TypeInv, NEW w \in Workers, OpenShellStep(w), Private(w)
  PROVE  Private(w)'
<1>0. /\ sandbox \in [RunIds -> 0..MaxAttempts] /\ ran \in [RunIds -> SUBSET Attempts] /\ run[w] \in RunIds
      /\ DOMAIN pc = Workers /\ DOMAIN failed = Workers /\ DOMAIN witnessed = Workers
  BY DEF TypeInv, TypeOK, KernelTypeOK, OpenShellTypeOK
<1> USE DEF Private, Goto, Name, Holding, Persisting, call, gateway
<1>1. Create(w) \/ Configure(w) => Private(w)'
  BY <1>0, ZenonT(60) DEF Create, Configure, Created
<1>2. CreateRefused(w) \/ CreateFault(w) \/ EnableOcsfFails(w) \/ PrepareFails(w) \/ DestroyFails(w) => Private(w)'
  BY <1>0 DEF CreateRefused, CreateFault, EnableOcsfFails, PrepareFails, DestroyFails
<1>3. Execute(w) => Private(w)'
  BY <1>0 DEF Execute
<1>4. ExecuteFails(w) => Private(w)'
  BY <1>0 DEF ExecuteFails
<1>5. Collect(w) \/ CollectFails(w) => Private(w)'
  BY <1>0 DEF Collect, CollectFails
<1>6. Destroy(w) => Private(w)'
  BY <1>0 DEF Destroy, Concluded
<1> QED BY <1>1, <1>2, <1>3, <1>4, <1>5, <1>6 DEF OpenShellStep

\* Every step keeps a worker's sandbox from the others.
LEMMA SeparateStep ==
  ASSUME TypeInv, Numbered, Separate, [Next]_vars
  PROVE  Separate'
<1>1. ASSUME NEW w \in Workers, OnOpenShell(w)
      PROVE  Separate'
  <2>1. runtime = "openshell" /\ OpenShellStep(w) /\ \A v \in Workers : Private(v)
    BY <1>1 DEF OnOpenShell, Separate
  <2>2. ASSUME NEW v \in Workers \ {w}
        PROVE  Private(v)'
    <3>1. /\ pc'[v] = pc[v] /\ run'[v] = run[v] /\ attempt'[v] = attempt[v]
          /\ failed'[v] = failed[v] /\ witnessed'[v] = witnessed[v]
      BY <2>1, OthersKept
    <3>2. ASSUME pc[v] \in Holding
          PROVE  sandbox'[run[v]] = sandbox[run[v]] /\ ran'[run[v]] = ran[run[v]]
      <4>1. attempt[v] \in Attempts /\ attempt[w] \in Attempts /\ attempt[v] # 0 /\ run[v] \in RunIds
        <5>1. pc[v] # "idle" /\ pc[w] # "idle"
          BY <2>1, <3>2, OpenShellMoves DEF Moves, Holding
        <5>2. attempt[v] \in Attempts /\ attempt[w] \in Attempts /\ run[v] \in RunIds
          BY <5>1 DEF TypeInv, TypeOK, KernelTypeOK, Ready
        <5> QED BY <5>2 DEF Attempts
      <4>2. sandbox[run[v]] = attempt[v]
        BY <2>1, <3>2 DEF Private
      <4>3. pc[w] = "create" \/ pc[w] \in Holding
        BY <2>1, OpenShellMoves DEF Moves
      <4>4. run[v] = run[w] => pc[w] = "create"
        BY <2>1, <4>1, <4>2, <4>3 DEF Private, Numbered
      <4> QED BY <2>1, <4>1, <4>2, <4>4, GatewayTouched DEF gateway
    <3>3. Private(v)
      BY <2>1
    <3> QED BY <3>1, <3>2, <3>3 DEF Private, Holding
  <2>3. Private(w)'
    BY <2>1, PrivateStep
  <2> QED BY <2>2, <2>3 DEF Separate
<1>2. ASSUME NEW w \in Workers, InKernel(w), runtime = "openshell"
      PROVE  Separate'
  <2>1. KernelStep(w) /\ UNCHANGED gateway /\ \A v \in Workers : Private(v)
    BY <1>2 DEF InKernel, Separate
  <2>2. ASSUME NEW v \in Workers \ {w}
        PROVE  Private(v)'
    <3>1. /\ pc'[v] = pc[v] /\ run'[v] = run[v] /\ attempt'[v] = attempt[v]
          /\ failed'[v] = failed[v] /\ witnessed'[v] = witnessed[v]
      BY <2>1, OthersKept
    <3> QED BY <2>1, <3>1 DEF Private, gateway
  <2>3. Private(w)'
    <3>1. DOMAIN pc = Workers /\ Private(w)
      BY <2>1 DEF TypeInv, TypeOK, KernelTypeOK
    <3> QED
      BY <2>1, <3>1 DEF KernelStep, Start, CheckEvidence, OpenEvidence, WriteEvidence, CheckVerdict, OpenVerdict,
           WriteVerdict, PersistFails, Crash, Goto, Private, Holding, Persisting, call, gateway
  <2> QED BY <2>2, <2>3 DEF Separate
<1>3. UNCHANGED runtime
  <2>1. ASSUME NEW w \in Workers, Start(w)
        PROVE  UNCHANGED runtime
    BY <2>1 DEF Start
  <2> QED BY <2>1, OnlyStartCalls
<1>4. runtime # "openshell" => Separate'
  BY <1>3 DEF Separate
<1>5. UNCHANGED <<call, pc, failed, bundle, witnessed, files, counters, excused, gateway>> => Separate'
  BY DEF Separate, Private, call, gateway
<1>6. \A w \in Workers : OnCloudflare(w) => runtime # "openshell"
  BY DEF OnCloudflare
<1> QED BY <1>1, <1>2, <1>4, <1>5, <1>6 DEF Next, vars

\* Numbers, for every behaviour.
LEMMA NumberedAlways == Spec => []Numbered
<1>1. Init => Numbered
  BY DEF Init, KernelInit, Numbered
<1>2. TypeInv /\ Numbered /\ [Next]_vars => Numbered'
  BY NumberedStep
<1> QED BY TypedAlways, <1>1, <1>2, PTL DEF Spec

\* A run on OpenShell uses a sandbox that it has created itself and in which nobody else's
\* command ran, and its verdict is about its own command alone
\* (OpenShellController.prepare).
THEOREM SandboxesAreSeparate == Spec => []SandboxOfItsOwn
<1>1. Init => Separate
  BY DEF Init, KernelInit, Separate, Private, Holding, Persisting
<1>2. TypeInv /\ Numbered /\ Separate /\ [Next]_vars => Separate'
  BY SeparateStep
<1>3. Separate => SandboxOfItsOwn
  BY DEF Separate, Private, SandboxOfItsOwn
<1> QED BY TypedAlways, NumberedAlways, <1>1, <1>2, <1>3, PTL DEF Spec

-----------------------------------------------------------------------------
(* What a run leaves behind                                                *)

\* What a step of w may do to an object: take it for itself or delete it.
Changed(old, new, w) ==
  \A r \in RunIds : new[r] = old[r] \/ new[r] = 0 \/ (r = run[w] /\ new[r] = attempt[w])

\* When it accounts for what it has: it goes on, or had nothing, or has an excuse, or has
\* deleted it.
Accounts(old, new, w) ==
  \/ pc'[w] \in Holding
  \/ pc[w] \notin Holding /\ new = old
  \/ Explained(attempt[w])'
  \/ \A r \in RunIds : new[r] # attempt[w]

\* Excusable after a step, of a value known before it.
StillExcusable(new) ==
  \A r \in RunIds : new[r] # 0 =>
    \/ \E v \in Workers : attempt'[v] = new[r] /\ pc'[v] \in Holding
    \/ \E why \in {"create", "prepare", "delete", "crash"} : <<new[r], why>> \in excused'

\* An object that only w may take stays owned.
LEMMA OwnedStep ==
  ASSUME TypeInv, Numbered, NEW w \in Workers, pc[w] # "idle", NEW old, NEW new, Owned(old), Changed(old, new, w)
  PROVE  Owned(new)
<1>1. \A v \in Workers : attempt[v] \in Nat /\ attempt[v] <= attempts
  BY BoundsAssumption DEF Numbered, TypeInv, TypeOK, KernelTypeOK
<1>a. attempts \in Nat
  BY BoundsAssumption DEF TypeInv, TypeOK, KernelTypeOK
<1>2. attempts \in Nat /\ attempt[w] \in Attempts
  BY <1>a DEF TypeInv, Ready
<1>3. attempt[w] # 0
  BY <1>2 DEF Attempts
<1>4. \A v \in Workers : attempt[v] = attempt[w] => v = w
  BY <1>3 DEF Numbered
<1>5. \A r \in RunIds : new[r] <= attempts
  BY <1>1, <1>2 DEF Changed, Owned
<1>6. \A r \in RunIds : \A v \in Workers : new[r] = attempt[v] /\ new[r] # 0 => run[v] = r
  BY <1>4 DEF Changed, Owned
<1> QED BY <1>5, <1>6 DEF Owned

\* What was in progress before a step of w, and is not w's, still is.
LEMMA ExcusableStep ==
  ASSUME NEW w \in Workers, NEW old, NEW new, Excusable(old), Changed(old, new, w), Accounts(old, new, w),
         attempt' = attempt, excused \subseteq excused',
         \A v \in Workers \ {w} : pc'[v] = pc[v]
  PROVE  StillExcusable(new)
<1>2. SUFFICES ASSUME NEW r \in RunIds, new[r] # 0
               PROVE  (\E v \in Workers : attempt'[v] = new[r] /\ pc'[v] \in Holding) \/ Explained(new[r])'
  BY DEF StillExcusable, Explained
<1>3. CASE new[r] = attempt[w] /\ new[r] # old[r]
  BY <1>2, <1>3 DEF Accounts, Explained
<1>4. CASE new[r] = old[r]
  <2>1. InProgress(old[r]) \/ Explained(old[r])
    BY <1>2, <1>4 DEF Excusable
  <2>2. Explained(old[r]) => Explained(new[r])'
    BY <1>4 DEF Explained
  <2>3. ASSUME NEW v \in Workers, attempt[v] = old[r], pc[v] \in Holding, v # w
        PROVE  \E u \in Workers : attempt'[u] = new[r] /\ pc'[u] \in Holding
    BY <1>4, <2>3
  <2>4. ASSUME attempt[w] = old[r], pc[w] \in Holding
        PROVE  (\E u \in Workers : attempt'[u] = new[r] /\ pc'[u] \in Holding) \/ Explained(new[r])'
    BY <1>4, <2>4 DEF Accounts, Explained
  <2> QED BY <2>1, <2>2, <2>3, <2>4 DEF InProgress
<1> QED BY <1>2, <1>3, <1>4 DEF Changed

\* A step on OpenShell accounts for the sandbox.
LEMMA OpenShellAccounts ==
  ASSUME TypeInv, Numbered, Owned(sandbox), NEW w \in Workers, OpenShellStep(w)
  PROVE  Changed(sandbox, sandbox', w) /\ Accounts(sandbox, sandbox', w)
<1>0. /\ sandbox \in [RunIds -> 0..MaxAttempts] /\ run[w] \in RunIds /\ DOMAIN pc = Workers
      /\ \A r \in RunIds : sandbox[r] = attempt[w] /\ sandbox[r] # 0 => r = run[w]
  BY DEF TypeInv, TypeOK, KernelTypeOK, OpenShellTypeOK, Owned
<1>a. pc[w] # "idle" /\ attempt[w] # 0
  <2>1. pc[w] # "idle"
    BY OpenShellMoves DEF Moves, Holding
  <2>2. attempt[w] \in Attempts
    BY <2>1 DEF TypeInv, Ready
  <2> QED BY <2>1, <2>2 DEF Attempts
<1>1. Changed(sandbox, sandbox', w)
  BY GatewayTouched DEF Changed
<1>2. Deleted(w) => \A r \in RunIds : sandbox'[r] # attempt[w]
  BY <1>0, <1>a DEF Deleted, Name
<1> USE DEF Goto, Holding
<1>3. Create(w) \/ Configure(w) \/ Execute(w) \/ ExecuteFails(w) \/ Collect(w) \/ CollectFails(w) => pc'[w] \in Holding
  BY <1>0 DEF Create, Configure, Execute, ExecuteFails, Collect, CollectFails
<1>4. CreateRefused(w) => pc[w] \notin Holding /\ sandbox' = sandbox
  BY <1>0 DEF CreateRefused, gateway
<1>5. CreateFault(w) => (pc[w] \notin Holding /\ sandbox' = sandbox) \/ Explained(attempt[w])'
  BY <1>0 DEF CreateFault, gateway, LeftBehind, Explained, call
<1>6. EnableOcsfFails(w) \/ PrepareFails(w) \/ DestroyFails(w) => Deleted(w) \/ Explained(attempt[w])'
  BY <1>0 DEF EnableOcsfFails, PrepareFails, DestroyFails, LeftBehind, Explained, call
<1>7. Destroy(w) => Deleted(w)
  BY DEF Destroy
<1>8. Accounts(sandbox, sandbox', w)
  BY <1>2, <1>3, <1>4, <1>5, <1>6, <1>7 DEF OpenShellStep, Accounts
<1> QED BY <1>1, <1>8

\* A step on Cloudflare accounts for the container and for the telemetry.
LEMMA CloudflareAccounts ==
  ASSUME TypeInv, Numbered, Possessed, NEW w \in Workers, CloudflareStep(w)
  PROVE  /\ Changed(container, container', w) /\ Accounts(container, container', w)
         /\ Changed(seen, seen', w) /\ Accounts(seen, seen', w)
<1>0. /\ container \in [RunIds -> 0..MaxAttempts] /\ seen \in [RunIds -> 0..MaxAttempts]
      /\ run[w] \in RunIds /\ DOMAIN pc = Workers
      /\ \A r \in RunIds : container[r] = attempt[w] /\ container[r] # 0 => r = run[w]
      /\ \A r \in RunIds : seen[r] = attempt[w] /\ seen[r] # 0 => r = run[w]
      /\ pc[w] = "destroy telemetry" => container[run[w]] # attempt[w]
  BY DEF TypeInv, TypeOK, KernelTypeOK, CloudflareTypeOK, Possessed, Owned
<1>a. pc[w] # "idle" /\ attempt[w] # 0
  <2>1. pc[w] # "idle"
    BY CloudflareMoves DEF Moves, Holding
  <2>2. attempt[w] \in Attempts
    BY <2>1 DEF TypeInv, Ready
  <2> QED BY <2>1, <2>2 DEF Attempts
<1>b. Changed(container, container, w) /\ Changed(seen, seen, w)
  BY DEF Changed
<1>c. Awake(w) => Changed(container, container', w)
  BY <1>0 DEF Awake, Changed
<1>d. Asked(w) => Changed(seen, seen', w)
  BY <1>0 DEF Asked, Changed
<1>e. Stopped(run[w]) => Changed(container, container', w)
  BY <1>0 DEF Stopped, Changed
<1>f. Forgotten(run[w]) => Changed(seen, seen', w) /\ \A r \in RunIds : seen'[r] # attempt[w]
  BY <1>0, <1>a DEF Forgotten, Changed
<1>g. pc[w] = "destroy telemetry" => \A r \in RunIds : container[r] # attempt[w]
  BY <1>0, <1>a
<1>1. /\ Changed(container, container', w) /\ Changed(seen, seen', w)
  BY <1>b, <1>c, <1>d, <1>e, <1>f
     DEF CloudflareStep, GetOrCreate, GetFails, ManifestBefore, ManifestFails, StartCommand, Run, CommandEnds, CommandLost,
         ExecuteGivenUp, CollectFiles, CollectEvents, CollectGivenUp, DestroyContainer, DestroyTelemetry, DestroyGivenUp,
         cloud, objects
<1>2. GetOrCreate(w) \/ ManifestBefore(w) \/ StartCommand(w) \/ CommandEnds(w) \/ CommandLost(w) \/ ExecuteGivenUp(w)
        \/ CollectFiles(w) \/ CollectEvents(w) \/ CollectGivenUp(w) \/ DestroyContainer(w) => pc'[w] \in Holding
  BY <1>0 DEF GetOrCreate, ManifestBefore, StartCommand, CommandEnds, CommandLost, ExecuteGivenUp, CollectFiles,
              CollectEvents, CollectGivenUp, DestroyContainer, Goto, Holding
<1>3. GetFails(w) => (pc[w] \notin Holding /\ seen' = seen /\ container' = container) \/ Explained(attempt[w])'
  BY <1>0 DEF GetFails, LeftBehind, Explained, call, Goto, Holding
<1>4. ManifestFails(w) \/ DestroyGivenUp(w) => Explained(attempt[w])'
  BY <1>0 DEF ManifestFails, DestroyGivenUp, LeftBehind, Explained, call
<1>5. DestroyTelemetry(w) => Forgotten(run[w]) /\ pc[w] = "destroy telemetry" /\ container' = container
  BY DEF DestroyTelemetry, Goto
<1>6. Accounts(container, container', w) /\ Accounts(seen, seen', w)
  BY <1>2, <1>3, <1>4, <1>5, <1>f, <1>g DEF CloudflareStep, Accounts
<1> QED BY <1>1, <1>6

\* Owned after a step.
StillOwned(object) ==
  \A r \in RunIds : /\ object[r] <= attempts'
                    /\ \A v \in Workers : object[r] = attempt'[v] /\ object[r] # 0 => run'[v] = r

\* An object that nobody touches, when a call starts.
LEMMA StartPossessed ==
  ASSUME TypeInv, Numbered, NEW w \in Workers, Start(w), NEW object, \A r \in RunIds : object[r] \in Nat,
         Owned(object), Excusable(object)
  PROVE  StillOwned(object) /\ StillExcusable(object)
<1>1. /\ pc[w] = "idle" /\ pc \in [Workers -> {"idle", "create"} \cup Holding \cup Persisting] /\ pc' = [pc EXCEPT ![w] = "create"]
      /\ attempts \in Nat /\ attempts' = attempts + 1
      /\ attempt \in [Workers -> Nat] /\ attempt' = [attempt EXCEPT ![w] = attempts + 1]
      /\ \A v \in Workers \ {w} : run'[v] = run[v]
  BY StartNumbers DEF TypeInv, TypeOK, KernelTypeOK
<1>2. excused' = excused
  BY DEF Start
<1>3. StillOwned(object)
  BY <1>1 DEF StillOwned, Owned
<1>4. StillExcusable(object)
  <2>1. \A v \in Workers : pc[v] \in Holding => pc'[v] = pc[v] /\ attempt'[v] = attempt[v]
    BY <1>1 DEF Holding
  <2> QED BY <1>2, <2>1 DEF StillExcusable, Excusable, InProgress, Explained
<1> QED BY <1>3, <1>4

\* A step of w after its call has started.
LEMMA PossessedFrame ==
  ASSUME TypeInv, Numbered, Possessed, NEW w \in Workers, pc[w] # "idle",
         UNCHANGED <<runtime, run, attempt, attempts>>, excused \subseteq excused',
         \A v \in Workers \ {w} : pc'[v] = pc[v],
         Changed(sandbox, sandbox', w), Accounts(sandbox, sandbox', w), Kind(sandbox, "openshell")',
         Changed(container, container', w), Accounts(container, container', w), Kind(container, "cloudflare")',
         Changed(seen, seen', w), Accounts(seen, seen', w), Kind(seen, "cloudflare")',
         pc'[w] = "destroy telemetry" => container'[run[w]] # attempt[w]
  PROVE  Possessed'
<1>1. Owned(sandbox)' /\ Owned(container)' /\ Owned(seen)'
  <2>1. Owned(sandbox') /\ Owned(container') /\ Owned(seen')
    BY OwnedStep DEF Possessed
  <2> QED BY <2>1 DEF Owned
<1>2. Excusable(sandbox)'
  <2>1. StillExcusable(sandbox')
    BY ExcusableStep DEF Possessed
  <2> QED BY <2>1 DEF StillExcusable, Excusable, InProgress, Explained
<1>3. Excusable(container)'
  <2>1. StillExcusable(container')
    BY ExcusableStep DEF Possessed
  <2> QED BY <2>1 DEF StillExcusable, Excusable, InProgress, Explained
<1>4. Excusable(seen)'
  <2>1. StillExcusable(seen')
    BY ExcusableStep DEF Possessed
  <2> QED BY <2>1 DEF StillExcusable, Excusable, InProgress, Explained
<1>5. ASSUME NEW v \in Workers, pc'[v] = "destroy telemetry"
      PROVE  container'[run'[v]] # attempt'[v]
  <2>1. CASE v = w
    BY <1>5, <2>1
  <2>2. CASE v # w
    <3>1. pc[v] = "destroy telemetry" /\ run[v] \in RunIds
      BY <1>5, <2>2 DEF TypeInv, TypeOK, KernelTypeOK
    <3>2. attempt[v] \in Attempts
      BY <3>1 DEF TypeInv, Ready
    <3>3. attempt[v] # 0
      BY <3>2, AttemptsPositive
    <3>4. attempt[w] # attempt[v] /\ container[run[v]] # attempt[v]
      BY <2>2, <3>1, <3>3 DEF Numbered, Possessed
    <3> QED BY <3>1, <3>3, <3>4 DEF Changed
  <2> QED BY <2>1, <2>2
<1> QED BY <1>1, <1>2, <1>3, <1>4, <1>5 DEF Possessed

\* Every step keeps track of what is there for whom.
LEMMA PossessedStep ==
  ASSUME TypeInv, Numbered, Possessed, [Next]_vars
  PROVE  Possessed'
<1>0. \A object, w : Changed(object, object, w)
  BY DEF Changed
<1>1. ASSUME NEW w \in Workers, OnOpenShell(w)
      PROVE  Possessed'
  <2>1. /\ UNCHANGED <<runtime, run, attempt, attempts>> /\ excused \subseteq excused' /\ pc[w] # "idle"
        /\ \A v \in Workers \ {w} : pc'[v] = pc[v]
    BY <1>1, OpenShellMoves, OthersKept DEF OnOpenShell, Moves, call, Holding
  <2>2. Changed(sandbox, sandbox', w) /\ Accounts(sandbox, sandbox', w)
    BY <1>1, OpenShellAccounts DEF OnOpenShell, Possessed
  <2>3. /\ container' = container /\ seen' = seen
        /\ Kind(sandbox, "openshell")' /\ Kind(container, "cloudflare")' /\ Kind(seen, "cloudflare")'
    BY <1>1, <2>1 DEF OnOpenShell, cloud, objects, Kind, Possessed
  <2>4. run[w] \in RunIds /\ attempt[w] # 0
    <3>1. attempt[w] \in Attempts /\ run[w] \in RunIds
      BY <2>1 DEF TypeInv, TypeOK, KernelTypeOK, Ready
    <3> QED BY <3>1 DEF Attempts
  <2>5. \A r \in RunIds : container[r] = 0 /\ seen[r] = 0
    BY <1>1 DEF OnOpenShell, Possessed, Kind
  <2>6. Accounts(container, container, w) /\ Accounts(seen, seen, w) /\ container[run[w]] # attempt[w]
    BY <2>4, <2>5 DEF Accounts
  <2> QED BY <1>0, <2>1, <2>2, <2>3, <2>6, PossessedFrame
<1>2. ASSUME NEW w \in Workers, OnCloudflare(w)
      PROVE  Possessed'
  <2>1. UNCHANGED <<runtime, run, attempt, attempts>> /\ excused \subseteq excused' /\ pc[w] # "idle"
    BY <1>2, CloudflareMoves DEF OnCloudflare, Moves, call, Holding
  <2>2. \A v \in Workers \ {w} : pc'[v] = pc[v]
    <3>1. \E to \in Later : pc' = [pc EXCEPT ![w] = to]
      BY <1>2, CloudflareMoves DEF OnCloudflare, Moves
    <3>2. DOMAIN pc = Workers
      BY DEF TypeInv, TypeOK, KernelTypeOK
    <3> QED BY <3>1, <3>2
  <2>3. /\ Changed(container, container', w) /\ Accounts(container, container', w)
        /\ Changed(seen, seen', w) /\ Accounts(seen, seen', w)
    BY <1>2, CloudflareAccounts DEF OnCloudflare
  <2>4. /\ sandbox' = sandbox
        /\ Kind(sandbox, "openshell")' /\ Kind(container, "cloudflare")' /\ Kind(seen, "cloudflare")'
    BY <1>2, <2>1 DEF OnCloudflare, gateway, Kind, Possessed
  <2>5. run[w] \in RunIds /\ attempt[w] # 0
    <3>1. attempt[w] \in Attempts /\ run[w] \in RunIds
      BY <2>1 DEF TypeInv, TypeOK, KernelTypeOK, Ready
    <3> QED BY <3>1 DEF Attempts
  <2>6. Accounts(sandbox, sandbox, w)
    BY <1>2, <2>5 DEF OnCloudflare, Possessed, Kind, Accounts
  <2>7. pc'[w] = "destroy telemetry" => container'[run[w]] # attempt[w]
    <3>1. container \in [RunIds -> 0..MaxAttempts] /\ DOMAIN pc = Workers
      BY DEF TypeInv, TypeOK, KernelTypeOK, CloudflareTypeOK
    <3>2. DestroyContainer(w) => container'[run[w]] = 0
      BY <2>5, <3>1 DEF DestroyContainer, Stopped
    <3>3. pc'[w] = "destroy telemetry" => DestroyContainer(w)
      BY <1>2, <3>1 DEF OnCloudflare, CloudflareStep, GetOrCreate, GetFails, ManifestBefore, ManifestFails, StartCommand,
           CommandEnds, CommandLost, ExecuteGivenUp, CollectFiles, CollectEvents, CollectGivenUp, DestroyTelemetry,
           DestroyGivenUp, Concluded, Goto
    <3> QED BY <2>5, <3>2, <3>3
  <2> QED BY <1>0, <2>1, <2>2, <2>3, <2>4, <2>6, <2>7, PossessedFrame
<1>3. ASSUME NEW w \in Workers, InKernel(w), ~Start(w)
      PROVE  Possessed'
  <2>1. UNCHANGED <<runtime, run, attempt, attempts>> /\ excused \subseteq excused' /\ pc[w] # "idle"
        /\ (pc[w] \notin Holding \/ Crash(w)) /\ pc'[w] # "destroy telemetry"
    <3>1. DOMAIN pc = Workers
      BY DEF TypeInv, TypeOK, KernelTypeOK
    <3> QED
      BY <1>3, <3>1 DEF InKernel, KernelStep, CheckEvidence, OpenEvidence, WriteEvidence, CheckVerdict, OpenVerdict,
           WriteVerdict, PersistFails, Crash, Fault, LeftBehind, Goto, Persisting, Holding, call, counters
  <2>2. \A v \in Workers \ {w} : pc'[v] = pc[v]
    BY <1>3, OthersKept DEF InKernel
  <2>3. Crash(w) => Explained(attempt[w])'
    BY DEF Crash, LeftBehind, Explained, call
  <2>4. \A object : Accounts(object, object, w)
    BY <2>1, <2>3 DEF Accounts
  <2>5. sandbox' = sandbox /\ container' = container /\ seen' = seen
    BY <1>3 DEF InKernel, gateway, cloud, objects
  <2>6. Kind(sandbox, "openshell")' /\ Kind(container, "cloudflare")' /\ Kind(seen, "cloudflare")'
    BY <2>1, <2>5 DEF Kind, Possessed
  <2> QED BY <1>0, <2>1, <2>2, <2>4, <2>5, <2>6, PossessedFrame
<1>4. ASSUME NEW w \in Workers, InKernel(w), Start(w)
      PROVE  Possessed'
  <2>1. sandbox' = sandbox /\ container' = container /\ seen' = seen /\ runtime' = runtime
    BY <1>4 DEF InKernel, Start, gateway, cloud, objects
  <2>2. \A r \in RunIds : sandbox[r] \in Nat /\ container[r] \in Nat /\ seen[r] \in Nat
    BY BoundsAssumption DEF TypeInv, TypeOK, OpenShellTypeOK, CloudflareTypeOK
  <2>3. Owned(sandbox)' /\ Excusable(sandbox)'
    <3>1. StillOwned(sandbox) /\ StillExcusable(sandbox)
      BY <1>4, <2>2, StartPossessed DEF Possessed
    <3> QED BY <2>1, <3>1 DEF StillOwned, Owned, StillExcusable, Excusable, InProgress, Explained
  <2>4. Owned(container)' /\ Excusable(container)'
    <3>1. StillOwned(container) /\ StillExcusable(container)
      BY <1>4, <2>2, StartPossessed DEF Possessed
    <3> QED BY <2>1, <3>1 DEF StillOwned, Owned, StillExcusable, Excusable, InProgress, Explained
  <2>5. Owned(seen)' /\ Excusable(seen)'
    <3>1. StillOwned(seen) /\ StillExcusable(seen)
      BY <1>4, <2>2, StartPossessed DEF Possessed
    <3> QED BY <2>1, <3>1 DEF StillOwned, Owned, StillExcusable, Excusable, InProgress, Explained
  <2>6. Kind(sandbox, "openshell")' /\ Kind(container, "cloudflare")' /\ Kind(seen, "cloudflare")'
    BY <2>1 DEF Kind, Possessed
  <2>7. \A v \in Workers : pc'[v] = "destroy telemetry" => container'[run'[v]] # attempt'[v]
    <3>1. DOMAIN pc = Workers /\ DOMAIN run = Workers /\ DOMAIN attempt = Workers
      BY DEF TypeInv, TypeOK, KernelTypeOK
    <3> QED BY <1>4, <2>1, <3>1 DEF Start, Goto, Possessed
  <2> QED BY <2>3, <2>4, <2>5, <2>6, <2>7 DEF Possessed
<1>5. ASSUME UNCHANGED <<call, pc, attempts, excused, sandbox, container, seen>>
      PROVE  Possessed'
  BY <1>5 DEF Possessed, Owned, Excusable, Kind, Explained, InProgress, call
<1>6. Egress => UNCHANGED <<container, seen>>
  BY DEF Egress, Outbound, ReadEvents, PutEvents
<1> QED BY <1>1, <1>2, <1>3, <1>4, <1>5, <1>6 DEF Next, vars, cloud, objects, counters, gateway

\* What is there for whom, for every behaviour.
LEMMA PossessedAlways == Spec => []Possessed
<1>1. Init => Possessed
  <2>1. Init => attempts = 0 /\ (\A w \in Workers : pc[w] = "idle")
                /\ (\A r \in RunIds : sandbox[r] = 0 /\ container[r] = 0 /\ seen[r] = 0)
    BY DEF Init, KernelInit, OpenShellInit, CloudflareInit
  <2>2. Init => \A r \in RunIds : sandbox[r] <= attempts /\ container[r] <= attempts /\ seen[r] <= attempts
    BY <2>1
  <2> QED BY <2>1, <2>2 DEF Possessed, Owned, Excusable, Kind
<1>2. TypeInv /\ Numbered /\ Possessed /\ [Next]_vars => Possessed'
  BY PossessedStep
<1> QED BY TypedAlways, NumberedAlways, <1>1, <1>2, PTL DEF Spec

-----------------------------------------------------------------------------
(* What a step of a worker does to what it shares on Cloudflare            *)

\* It changes its own place, adds to the histories and puts no event on its way.
Steps(w) ==
  /\ UNCHANGED <<runtime, run, attempt, attempts, posts, refused, raced>>
  /\ shared \subseteq shared' /\ excused \subseteq excused' /\ strayed \subseteq strayed'
  /\ \A v \in Workers \ {w} : pc'[v] = pc[v] /\ cold'[v] = cold[v] /\ witnessed'[v] = witnessed[v]
  /\ pc[w] # "idle"
  /\ pc'[w] \in Unrun => pc[w] \in Unrun

\* It brings no command but its own into the container.
Brings(w) ==
  /\ \A r \in RunIds : \A a \in tenants'[r] : a \in tenants[r] \/
       (r = run[w] /\ a = attempt[w] /\ pc[w] = "execute" /\ pc'[w] = "running")
  /\ pc'[w] = "destroy telemetry" => tenants'[run[w]] = {}
  /\ pc'[w] = "events" => pc[w] \in Holding /\ witnessed'[w] \subseteq tenants[run[w]]

\* It comes to have a sandbox when it has asked whether anybody has.
Enters(w) ==
  /\ pc[w] \in Holding => cold'[w] = cold[w]
  /\ pc[w] \notin Holding /\ pc'[w] \in Holding =>
       /\ pc[w] = "create" /\ pc'[w] = "configure"
       /\ (cold'[w] => seen[run[w]] = 0) /\ seen'[run[w]] # 0
       /\ \A v \in Others(w) : attempt[v] \in shared' /\ attempt[w] \in shared'

\* It gives it up when telemetry is deleted, and otherwise abandons it.
Leaves(w) ==
  /\ pc[w] \in Holding /\ pc'[w] \notin Holding =>
       \/ Abandoned(attempt[w])'
       \/ pc[w] \in Unrun
       \/ pc[w] = "destroy telemetry" /\ Forgotten(run[w])
  /\ \/ events' = events /\ \A r \in RunIds : seen'[r] = seen[r] \/ seen'[r] # 0
     \/ Forgotten(run[w]) /\ pc[w] = "destroy telemetry" /\ pc'[w] \notin Holding

Progress(w) == Steps(w) /\ Brings(w) /\ Enters(w) /\ Leaves(w)

\* So does every step of the Cloudflare controller.
LEMMA CloudflareProgress ==
  ASSUME TypeInv, NEW w \in Workers, CloudflareStep(w)
  PROVE  Progress(w)
<1>0. /\ DOMAIN pc = Workers /\ DOMAIN witnessed = Workers /\ DOMAIN cold = Workers
      /\ run[w] \in RunIds /\ DOMAIN seen = RunIds /\ DOMAIN tenants = RunIds /\ pc[w] # "idle"
  BY CloudflareMoves DEF TypeInv, TypeOK, KernelTypeOK, CloudflareTypeOK, Moves, Holding
<1>a. attempt[w] # 0
  BY <1>0, AttemptsPositive DEF TypeInv, Ready
<1>1. Steps(w)
  <2>1. UNCHANGED <<runtime, run, attempt, attempts>> /\ excused \subseteq excused'
    BY CloudflareMoves DEF Moves, call
  <2>2. \A v \in Workers \ {w} : pc'[v] = pc[v] /\ witnessed'[v] = witnessed[v]
    <3>1. PICK to \in Later : Moves(w, to)
      BY CloudflareMoves
    <3> QED BY <1>0, <3>1 DEF Moves
  <2>3. \A v \in Workers \ {w} : cold'[v] = cold[v]
    BY <1>0 DEF CloudflareStep, GetOrCreate, GetFails, ManifestBefore, ManifestFails, StartCommand, CommandEnds,
         CommandLost, ExecuteGivenUp, CollectFiles, CollectEvents, CollectGivenUp, DestroyContainer, DestroyTelemetry,
         DestroyGivenUp, cloud
  <2>4. UNCHANGED <<posts, refused, raced>> /\ shared \subseteq shared' /\ strayed \subseteq strayed'
    BY DEF CloudflareStep, GetOrCreate, GetFails, ManifestBefore, ManifestFails, StartCommand, CommandEnds,
         CommandLost, ExecuteGivenUp, CollectFiles, CollectEvents, CollectGivenUp, DestroyContainer, DestroyTelemetry,
         DestroyGivenUp, Forgotten, Strayed, cloud, objects, history
  <2>5. pc'[w] \in Unrun => pc[w] \in Unrun
    BY <1>0 DEF CloudflareStep, GetOrCreate, GetFails, ManifestBefore, ManifestFails, StartCommand, CommandEnds,
         CommandLost, ExecuteGivenUp, CollectFiles, CollectEvents, CollectGivenUp, DestroyContainer, DestroyTelemetry,
         DestroyGivenUp, Concluded, Goto, Unrun
  <2> QED BY <1>0, <2>1, <2>2, <2>3, <2>4, <2>5 DEF Steps
<1>2. Brings(w)
  <2>1. StartCommand(w) => Brings(w)
    BY <1>0 DEF StartCommand, Run, Brings, Goto
  <2>2. DestroyContainer(w) => Brings(w)
    BY <1>0 DEF DestroyContainer, Stopped, Brings, Goto
  <2>3. CollectFiles(w) => Brings(w)
    BY <1>0 DEF CollectFiles, Brings, Goto, Holding
  <2>4. ~StartCommand(w) /\ ~DestroyContainer(w) /\ ~CollectFiles(w) =>
          tenants' = tenants /\ pc'[w] \notin {"destroy telemetry", "events"}
    BY <1>0 DEF CloudflareStep, GetOrCreate, GetFails, ManifestBefore, ManifestFails, CommandEnds, CommandLost,
         ExecuteGivenUp, CollectEvents, CollectGivenUp, DestroyTelemetry, DestroyGivenUp, Concluded, Goto, cloud, objects
  <2> QED BY <2>1, <2>2, <2>3, <2>4 DEF Brings
<1>3. Enters(w)
  <2>1. GetOrCreate(w) => Enters(w)
    BY <1>0, <1>a DEF GetOrCreate, Asked, Enters, Goto, Holding
  <2>2. ~GetOrCreate(w) => (pc[w] \in Holding \/ pc'[w] \notin Holding) /\ cold' = cold
    BY <1>0 DEF CloudflareStep, GetFails, ManifestBefore, ManifestFails, StartCommand, CommandEnds,
         CommandLost, ExecuteGivenUp, CollectFiles, CollectEvents, CollectGivenUp, DestroyContainer, DestroyTelemetry,
         DestroyGivenUp, Goto, Holding, cloud
  <2> QED BY <2>1, <2>2 DEF Enters
<1>4. Leaves(w)
  <2>1. GetOrCreate(w) \/ GetFails(w) => Leaves(w)
    BY <1>0, <1>a DEF GetOrCreate, GetFails, Asked, Leaves, Goto, Holding
  <2>2. ManifestFails(w) => Leaves(w)
    BY DEF ManifestFails, Leaves, Goto, Unrun
  <2>3. DestroyTelemetry(w) => Leaves(w)
    BY <1>0 DEF DestroyTelemetry, Leaves, Goto, Concluded, Holding
  <2>4. DestroyGivenUp(w) => Leaves(w)
    <3>1. DestroyGivenUp(w) => Abandoned(attempt[w])'
      BY DEF DestroyGivenUp, LeftBehind, Abandoned, call
    <3> QED BY <1>0, <3>1 DEF DestroyGivenUp, Leaves, Goto, Holding
  <2>5. ManifestBefore(w) \/ StartCommand(w) \/ CommandEnds(w) \/ CommandLost(w) \/ ExecuteGivenUp(w) \/ CollectFiles(w)
          \/ CollectEvents(w) \/ CollectGivenUp(w) \/ DestroyContainer(w) =>
          pc'[w] \in Holding /\ events' = events /\ seen' = seen
    BY <1>0 DEF ManifestBefore, StartCommand, CommandEnds, CommandLost, ExecuteGivenUp, CollectFiles, CollectEvents,
         CollectGivenUp, DestroyContainer, Goto, Holding, cloud, objects
  <2> QED BY <2>1, <2>2, <2>3, <2>4, <2>5 DEF CloudflareStep, Leaves
<1> QED BY <1>1, <1>2, <1>3, <1>4 DEF Progress

\* And every step of the kernel after the call has started.
LEMMA KernelProgress ==
  ASSUME TypeInv, NEW w \in Workers, KernelStep(w), ~Start(w), UNCHANGED cloud
  PROVE  Progress(w)
<1>0. DOMAIN pc = Workers
  BY DEF TypeInv, TypeOK, KernelTypeOK
<1>1. \A v \in Workers \ {w} : pc'[v] = pc[v] /\ witnessed'[v] = witnessed[v]
  BY OthersKept
<1>2. UNCHANGED <<container, tenants, seen, events, posts, cold, shared, refused, strayed, raced>>
  BY DEF cloud, objects, history
<1>3. /\ UNCHANGED <<runtime, run, attempt, attempts>> /\ excused \subseteq excused' /\ pc[w] # "idle"
      /\ pc'[w] \notin Holding /\ pc'[w] \notin Unrun
      /\ pc[w] \in Holding => Crash(w)
  BY <1>0 DEF KernelStep, CheckEvidence, OpenEvidence, WriteEvidence, CheckVerdict, OpenVerdict,
       WriteVerdict, PersistFails, Crash, Fault, LeftBehind, Goto, Persisting, Holding, Unrun, call, counters
<1>4. Crash(w) => Abandoned(attempt[w])'
  BY DEF Crash, LeftBehind, Abandoned, call
<1>5. Steps(w)
  BY <1>1, <1>2, <1>3 DEF Steps
<1>6. Brings(w) /\ Enters(w) /\ Leaves(w)
  <2>1. pc'[w] \notin {"destroy telemetry", "events"}
    BY <1>3 DEF Holding
  <2> QED BY <1>2, <1>3, <1>4, <2>1 DEF Brings, Enters, Leaves
<1> QED BY <1>5, <1>6 DEF Progress

\* Deleting telemetry makes strays of the events that are on their way; nothing else
\* that a worker does makes an event.
LEMMA AuthoredStep ==
  ASSUME TypeInv, NEW w \in Workers, Progress(w), NEW r \in RunIds, NEW a, Authored(a, r)'
  PROVE  /\ Authored(a, r)
         /\ Forgotten(run[w]) /\ r = run[w] => a \in strayed'
<1>1. posts' = posts /\ DOMAIN events = RunIds
  BY DEF Progress, Steps, TypeInv, TypeOK, CloudflareTypeOK
<1>2. events'[r] = events[r] \/ events'[r] = <<>>
  BY <1>1 DEF Progress, Leaves, Forgotten
<1>3. ~Wrote(a, <<>>)
  BY DEF Wrote
<1>4. Authored(a, r)
  BY <1>1, <1>2, <1>3 DEF Authored
<1>5. ASSUME Forgotten(run[w]), r = run[w]
      PROVE  a \in strayed'
  <2>1. events'[r] = <<>>
    BY <1>1, <1>5 DEF Forgotten
  <2>2. PICK p \in posts : p.run = r /\ (p.by = a \/ Wrote(a, p.base))
    BY <1>1, <1>3, <2>1 DEF Authored
  <2>3. a \in {p.by} \cup {p.base[i].by : i \in DOMAIN p.base}
    BY <2>2 DEF Wrote
  <2> QED BY <1>5, <2>2, <2>3 DEF Forgotten, Strayed
<1> QED BY <1>4, <1>5

\* Two workers have different numbers as soon as one has been called.
LEMMA NumbersDiffer ==
  ASSUME TypeInv, Numbered, NEW v \in Workers, NEW w \in Workers, pc[w] # "idle", attempt[v] = attempt[w]
  PROVE  v = w
BY AttemptsPositive DEF TypeInv, Ready, Numbered

\* A worker leaves traces under its own run id, once its command has been started.
LEMMA TracedProgress ==
  ASSUME TypeInv, Numbered, Traced, NEW w \in Workers, Progress(w)
  PROVE  Traced'
<1>1. ASSUME NEW r \in RunIds, NEW a \in Attempts, a \in tenants'[r] \/ Authored(a, r)'
      PROVE  a <= attempts' /\ \A v \in Workers : attempt'[v] = a => run'[v] = r /\ pc'[v] \notin Unrun
  <2>1. UNCHANGED <<run, attempt, attempts>> /\ (pc'[w] \in Unrun => pc[w] \in Unrun)
        /\ \A v \in Workers \ {w} : pc'[v] = pc[v]
    BY DEF Progress, Steps
  <2>2. CASE a \in tenants[r] \/ Authored(a, r)
    BY <2>1, <2>2 DEF Traced
  <2>3. CASE r = run[w] /\ a = attempt[w] /\ pc[w] = "execute" /\ pc'[w] = "running"
    <3>1. \A v \in Workers : attempt[v] = a => v = w
      BY <2>3, NumbersDiffer
    <3> QED BY <2>1, <2>3, <3>1 DEF Numbered, Unrun
  <2> QED BY <1>1, <2>2, <2>3, AuthoredStep DEF Progress, Brings
<1>2. \A a \in refused' : a <= attempts' /\ \A v \in Workers : attempt'[v] = a => pc'[v] \notin Unrun
  BY DEF Progress, Steps, Traced
<1> QED BY <1>1, <1>2 DEF Traced

\* Who joins a sandbox says so of itself and of all it finds there.
LEMMA SharingProgress ==
  ASSUME TypeInv, Numbered, Traced, Sharing, NEW w \in Workers, Progress(w)
  PROVE  Sharing'
<1>0. /\ UNCHANGED <<run, attempt>> /\ shared \subseteq shared'
      /\ \A v \in Workers \ {w} : pc'[v] = pc[v]
  BY DEF Progress, Steps
<1>t. \A v \in Workers : run[v] \in RunIds
  BY DEF TypeInv, TypeOK, KernelTypeOK
<1>e. "execute" \in Holding /\ "destroy telemetry" \in Holding /\ "destroy telemetry" # "execute"
  BY DEF Holding
<1>1. ASSUME NEW v \in Workers, NEW u \in Workers, v # u, run[v] = run[u], pc'[v] \in Holding, pc'[u] \in Holding
      PROVE  attempt[u] \in shared'
  <2>1. CASE pc[v] \in Holding /\ pc[u] \in Holding
    BY <1>0, <1>1, <2>1 DEF Sharing
  <2>2. CASE pc[v] \notin Holding
    <3>1. v = w /\ u \in Others(w)
      BY <1>0, <1>1, <2>2 DEF Others
    <3> QED BY <1>1, <2>2, <3>1 DEF Progress, Enters
  <2>3. CASE pc[u] \notin Holding
    <3>1. u = w /\ v \in Others(w)
      BY <1>0, <1>1, <2>3 DEF Others
    <3> QED BY <1>1, <2>3, <3>1 DEF Progress, Enters
  <2> QED BY <2>1, <2>2, <2>3
<1>2. ASSUME NEW u \in Workers, pc'[u] \in Holding, seen'[run[u]] = 0
      PROVE  attempt[u] \in shared'
  <2>1. CASE pc[u] \notin Holding
    BY <1>0, <1>2, <2>1 DEF Progress, Enters
  <2>2. CASE pc[u] \in Holding /\ seen[run[u]] = 0
    BY <1>0, <2>2 DEF Sharing
  <2>3. CASE pc[u] \in Holding /\ seen[run[u]] # 0
    <3>1. Forgotten(run[w]) /\ pc[w] = "destroy telemetry" /\ pc'[w] \notin Holding
      BY <1>2, <1>t, <2>3 DEF Progress, Leaves
    <3>2. run[u] = run[w]
      BY <1>2, <1>t, <2>3, <3>1 DEF Forgotten, TypeInv, TypeOK, CloudflareTypeOK
    <3>3. u # w
      BY <1>2, <3>1
    <3> QED BY <1>0, <1>e, <2>3, <3>1, <3>2, <3>3 DEF Sharing
  <2> QED BY <2>1, <2>2, <2>3
<1>3. ASSUME NEW u \in Workers, pc'[u] = "destroy telemetry"
      PROVE  tenants'[run[u]] \subseteq shared' /\ attempt[u] \notin tenants'[run[u]]
  <2>1. CASE u = w
    BY <1>3, <2>1 DEF Progress, Brings
  <2>2. CASE u # w
    <3>1. pc[u] = "destroy telemetry"
      BY <1>0, <1>3, <2>2
    <3>2. tenants[run[u]] \subseteq shared /\ attempt[u] \notin tenants[run[u]]
      BY <3>1 DEF Sharing
    <3>3. attempt[w] # attempt[u]
      BY <2>2, <3>1, NumbersDiffer
    <3>4. run[w] = run[u] /\ pc[w] = "execute" => attempt[w] \in shared
      BY <1>e, <2>2, <3>1 DEF Sharing
    <3> QED BY <1>0, <1>t, <3>2, <3>3, <3>4 DEF Progress, Brings
  <2> QED BY <2>1, <2>2
<1>4. ASSUME NEW r \in RunIds, seen'[r] = 0, NEW a \in tenants'[r]
      PROVE  a \in shared'
  <2>1. CASE seen[r] = 0
    <3>1. tenants[r] \subseteq shared
      BY <2>1 DEF Sharing
    <3>2. r = run[w] /\ pc[w] = "execute" => attempt[w] \in shared
      BY <1>e, <2>1 DEF Sharing
    <3> QED BY <1>0, <1>4, <3>1, <3>2 DEF Progress, Brings
  <2>2. CASE seen[r] # 0
    <3>1. Forgotten(run[w]) /\ pc[w] = "destroy telemetry"
      BY <1>4, <2>2 DEF Progress, Leaves
    <3>2. r = run[w]
      BY <1>4, <1>t, <2>2, <3>1 DEF Forgotten, TypeInv, TypeOK, CloudflareTypeOK
    <3>3. tenants[r] \subseteq shared
      BY <3>1, <3>2 DEF Sharing
    <3> QED BY <1>0, <1>e, <1>4, <3>1, <3>3 DEF Progress, Brings
  <2> QED BY <2>1, <2>2
<1> QED BY <1>0, <1>1, <1>2, <1>3, <1>4 DEF Sharing

\* An attempt that is in progress before a step of w and not after it is w's own, and it was
\* abandoned, or its telemetry was deleted.
LEMMA ProgressKept ==
  ASSUME TypeInv, Traced, NEW w \in Workers, Progress(w), NEW r \in RunIds, NEW a \in Attempts,
         a \in tenants[r] \/ Authored(a, r), InProgress(a) \/ Abandoned(a)
  PROVE  \/ InProgress(a)' \/ Abandoned(a)'
         \/ a = attempt[w] /\ r = run[w] /\ pc[w] = "destroy telemetry" /\ Forgotten(run[w])
<1>0. /\ attempt' = attempt /\ excused \subseteq excused' /\ \A v \in Workers \ {w} : pc'[v] = pc[v]
  BY DEF Progress, Steps
<1>1. Abandoned(a) => Abandoned(a)'
  BY <1>0 DEF Abandoned
<1>2. ASSUME NEW v \in Workers, attempt[v] = a, pc[v] \in Holding, v # w
      PROVE  InProgress(a)'
  BY <1>0, <1>2 DEF InProgress
<1>3. ASSUME attempt[w] = a, pc[w] \in Holding, pc'[w] \in Holding
      PROVE  InProgress(a)'
  BY <1>0, <1>3 DEF InProgress
<1>4. ASSUME attempt[w] = a, pc[w] \in Holding, pc'[w] \notin Holding
      PROVE  Abandoned(a)' \/ (a = attempt[w] /\ r = run[w] /\ pc[w] = "destroy telemetry" /\ Forgotten(run[w]))
  <2>1. run[w] = r /\ pc[w] \notin Unrun
    BY <1>4 DEF Traced
  <2> QED BY <1>0, <1>4, <2>1 DEF Progress, Leaves, Abandoned
<1> QED BY <1>1, <1>2, <1>3, <1>4 DEF InProgress

\* A worker that gives its sandbox up has abandoned its command or stopped it.
LEMMA RemainingProgress ==
  ASSUME TypeInv, Numbered, Traced, Sharing, Remaining, NEW w \in Workers, Progress(w)
  PROVE  Remaining'
<1>t. \A r \in RunIds : tenants[r] \subseteq Attempts
  BY DEF TypeInv, TypeOK, CloudflareTypeOK
<1>1. ASSUME NEW r \in RunIds, NEW a \in tenants'[r]
      PROVE  InProgress(a)' \/ Abandoned(a)'
  <2>1. CASE a \in tenants[r]
    <3>1. a \in Attempts /\ (InProgress(a) \/ Abandoned(a))
      BY <1>t, <2>1 DEF Remaining
    <3>2. pc[w] = "destroy telemetry" => attempt[w] \notin tenants[run[w]]
      BY DEF Sharing
    <3> QED BY <2>1, <3>1, <3>2, ProgressKept
  <2>2. CASE r = run[w] /\ a = attempt[w] /\ pc'[w] = "running"
    BY <2>2 DEF InProgress, Holding, Progress, Steps
  <2> QED BY <1>1, <2>1, <2>2 DEF Progress, Brings
<1>2. ASSUME NEW r \in RunIds, NEW a \in Attempts, seen'[r] = 0, Authored(a, r)'
      PROVE  a \in strayed' \/ (a \in shared' /\ (InProgress(a)' \/ Abandoned(a)'))
  <2>1. Authored(a, r) /\ (Forgotten(run[w]) /\ r = run[w] => a \in strayed')
    BY <1>2, AuthoredStep
  <2>2. shared \subseteq shared' /\ strayed \subseteq strayed'
    BY DEF Progress, Steps
  <2>3. CASE seen[r] = 0
    <3>1. a \in strayed \/ (a \in shared /\ (InProgress(a) \/ Abandoned(a)))
      BY <2>1, <2>3 DEF Remaining
    <3> QED BY <2>1, <2>2, <3>1, ProgressKept
  <2>4. CASE seen[r] # 0
    <3>1. Forgotten(run[w])
      BY <1>2, <2>4 DEF Progress, Leaves
    <3>2. r = run[w]
      BY <1>2, <2>4, <3>1 DEF Forgotten, TypeInv, TypeOK, CloudflareTypeOK
    <3> QED BY <2>1, <3>1, <3>2
  <2> QED BY <2>3, <2>4
<1>3. ASSUME NEW r \in RunIds, NEW a \in Attempts, Authored(a, r)'
      PROVE  a \in strayed' \/ InProgress(a)' \/ Abandoned(a)'
  <2>1. Authored(a, r) /\ (Forgotten(run[w]) /\ r = run[w] => a \in strayed')
    BY <1>3, AuthoredStep
  <2>2. strayed \subseteq strayed'
    BY DEF Progress, Steps
  <2>3. a \in strayed \/ InProgress(a) \/ Abandoned(a)
    BY <2>1 DEF Remaining
  <2>4. InProgress(a) \/ Abandoned(a) => InProgress(a)' \/ Abandoned(a)' \/ a \in strayed'
    BY <2>1, ProgressKept
  <2> QED BY <2>2, <2>3, <2>4
<1> QED BY <1>1, <1>2, <1>3 DEF Remaining

\* Who comes into a sandbox that nobody has asked for and nobody else uses finds only what
\* others have left.
LEMMA FindsLeft ==
  ASSUME TypeInv, Traced, Sharing, Remaining, NEW w \in Workers, pc[w] \notin Holding, Others(w) = {}, seen[run[w]] = 0
  PROVE  /\ \A a \in tenants[run[w]] : Left(a)
         /\ \A a \in Attempts : Authored(a, run[w]) => Left(a) \/ a \in strayed
<1>1. run[w] \in RunIds /\ tenants[run[w]] \subseteq Attempts
  BY DEF TypeInv, TypeOK, KernelTypeOK, CloudflareTypeOK
<1>2. ASSUME NEW a \in Attempts, a \in tenants[run[w]] \/ Authored(a, run[w])
      PROVE  ~InProgress(a)
  <2>1. \A v \in Workers : attempt[v] = a => run[v] = run[w]
    BY <1>1, <1>2 DEF Traced
  <2> QED BY <2>1 DEF InProgress, Others
<1>3. \A a \in tenants[run[w]] : a \in shared /\ (InProgress(a) \/ Abandoned(a))
  BY <1>1 DEF Sharing, Remaining
<1>4. \A a \in Attempts : Authored(a, run[w]) => a \in strayed \/ (a \in shared /\ (InProgress(a) \/ Abandoned(a)))
  BY <1>1 DEF Remaining
<1> QED BY <1>1, <1>2, <1>3, <1>4 DEF Left

\* What a worker finds in a sandbox of its own, its own step or another's cannot spoil.
LEMMA AloneProgress ==
  ASSUME TypeInv, Numbered, Traced, Sharing, Remaining, Alone, NEW w \in Workers, Progress(w)
  PROVE  Alone'
<1>0. /\ UNCHANGED <<run, attempt>> /\ shared \subseteq shared' /\ excused \subseteq excused' /\ strayed \subseteq strayed'
      /\ \A v \in Workers \ {w} : pc'[v] = pc[v] /\ cold'[v] = cold[v] /\ witnessed'[v] = witnessed[v]
  BY DEF Progress, Steps
<1>t. \A v \in Workers : run[v] \in RunIds /\ tenants[run[v]] \subseteq Attempts
  BY DEF TypeInv, TypeOK, KernelTypeOK, CloudflareTypeOK
<1>l. \A a : Left(a) => Left(a)'
  BY <1>0 DEF Left, Abandoned
<1>1. SUFFICES ASSUME NEW u \in Workers, pc'[u] \in Holding, cold'[u], attempt[u] \notin shared'
               PROVE  /\ \A a \in tenants'[run[u]] : a = attempt[u] \/ Left(a)'
                      /\ pc'[u] = "events" => \A a \in witnessed'[u] : a = attempt[u] \/ Left(a)'
                      /\ \A a \in Attempts : Authored(a, run[u])' => a = attempt[u] \/ Left(a)' \/ a \in strayed'
  BY <1>0 DEF Alone
<1>2. CASE pc[u] \notin Holding
  <2>1. /\ u = w /\ pc[w] = "create" /\ pc'[w] = "configure" /\ seen[run[w]] = 0
        /\ \A v \in Others(w) : attempt[v] \in shared' /\ attempt[w] \in shared'
    BY <1>0, <1>1, <1>2 DEF Progress, Enters
  <2>2. Others(w) = {}
    BY <1>1, <2>1
  <2>3. /\ \A a \in tenants[run[w]] : Left(a)
        /\ \A a \in Attempts : Authored(a, run[w]) => Left(a) \/ a \in strayed
    BY <1>2, <2>1, <2>2, FindsLeft
  <2>4. tenants'[run[w]] \subseteq tenants[run[w]]
    BY <1>t, <2>1 DEF Progress, Brings
  <2>5. \A a \in Attempts : Authored(a, run[w])' => Authored(a, run[w])
    <3>1. ASSUME NEW a \in Attempts, NEW r \in RunIds, Authored(a, r)'
          PROVE  Authored(a, r)
      BY <3>1, AuthoredStep
    <3> QED BY <1>0, <1>t, <3>1 DEF Authored
  <2> QED BY <1>0, <1>l, <2>1, <2>3, <2>4, <2>5
<1>3. CASE pc[u] \in Holding
  <2>1. /\ \A a \in tenants[run[u]] : a = attempt[u] \/ Left(a)
        /\ pc[u] = "events" => \A a \in witnessed[u] : a = attempt[u] \/ Left(a)
        /\ \A a \in Attempts : Authored(a, run[u]) => a = attempt[u] \/ Left(a) \/ a \in strayed
    <3>1. cold[u] /\ attempt[u] \notin shared
      BY <1>0, <1>1, <1>3 DEF Progress, Enters
    <3> QED BY <1>3, <3>1 DEF Alone
  <2>2. run[w] = run[u] /\ pc[w] = "execute" => w = u
    <3>1. pc[w] = "execute" => pc[w] \in Holding
      BY DEF Holding
    <3> QED BY <1>0, <1>1, <1>3, <3>1 DEF Sharing
  <2>3. \A a \in tenants'[run[u]] : a = attempt[u] \/ Left(a)'
    BY <1>l, <1>t, <2>1, <2>2 DEF Progress, Brings
  <2>4. pc'[u] = "events" => \A a \in witnessed'[u] : a = attempt[u] \/ Left(a)'
    <3>1. CASE u = w
      BY <1>l, <2>1, <3>1 DEF Progress, Brings
    <3>2. CASE u # w
      BY <1>0, <1>l, <2>1, <3>2
    <3> QED BY <3>1, <3>2
  <2>5. \A a \in Attempts : Authored(a, run[u])' => Authored(a, run[u])
    <3>1. ASSUME NEW a \in Attempts, NEW r \in RunIds, Authored(a, r)'
          PROVE  Authored(a, r)
      BY <3>1, AuthoredStep
    <3> QED BY <1>0, <1>t, <3>1 DEF Authored
  <2> QED BY <1>0, <1>l, <2>1, <2>3, <2>4, <2>5
<1> QED BY <1>2, <1>3

\* Only who shares the sandbox of a worker can delete what its telemetry has noted.
LEMMA NotedProgress ==
  ASSUME TypeInv, Numbered, Traced, Sharing, Noted, NEW w \in Workers, Progress(w)
  PROVE  Noted'
<1>0. /\ UNCHANGED <<run, attempt, posts, refused, raced>> /\ shared \subseteq shared'
      /\ \A v \in Workers \ {w} : pc'[v] = pc[v]
  BY DEF Progress, Steps
<1>t. \A v \in Workers : run[v] \in RunIds
  BY DEF TypeInv, TypeOK, KernelTypeOK
<1>1. ASSUME NEW u \in Workers, pc'[u] \in Holding, attempt[u] \in refused, attempt[u] \notin shared', run[u] \notin raced
      PROVE  Denial(events'[run[u]]) /\ \A p \in posts : p.run = run[u] /\ p.read => Denial(p.base)
  <2>1. pc[u] \in Holding
    <3>1. "create" \in Unrun
      BY DEF Unrun
    <3>2. pc[u] \notin Unrun
      BY <1>1 DEF Traced
    <3> QED BY <1>0, <1>1, <3>1, <3>2 DEF Progress, Enters
  <2>2. Denial(events[run[u]]) /\ \A p \in posts : p.run = run[u] /\ p.read => Denial(p.base)
    BY <1>0, <1>1, <2>1 DEF Noted
  <2>3. events'[run[u]] = events[run[u]]
    <3>1. SUFFICES ASSUME Forgotten(run[w]), pc[w] = "destroy telemetry", pc'[w] \notin Holding
                   PROVE  run[u] # run[w]
      <4>1. DOMAIN events = RunIds
        BY DEF TypeInv, TypeOK, CloudflareTypeOK
      <4> QED BY <1>t, <4>1 DEF Progress, Leaves, Forgotten
    <3>2. pc[w] \in Holding /\ u # w
      BY <1>1, <3>1 DEF Holding
    <3> QED BY <1>0, <1>1, <2>1, <3>2 DEF Sharing
  <2> QED BY <2>2, <2>3
<1>2. \A p, q \in posts' : p # q /\ p.run = q.run /\ p.read /\ q.read => p.run \in raced'
  BY <1>0 DEF Noted
<1>3. \A u \in Workers :
        pc'[u] \in Holding /\ attempt'[u] \in refused' /\ attempt'[u] \notin shared' /\ run'[u] \notin raced' =>
          Denial(events'[run'[u]]) /\ \A p \in posts' : p.run = run'[u] /\ p.read => Denial(p.base)
  BY <1>0, <1>1
<1> QED BY <1>2, <1>3 DEF Noted, Denial

-----------------------------------------------------------------------------
(* Calls and requests                                                      *)

\* A call that starts finds nothing under its number.
LEMMA CloudStart ==
  ASSUME TypeInv, Numbered, Traced, Sharing, Remaining, Alone, Noted, NEW w \in Workers, Start(w), UNCHANGED cloud
  PROVE  Traced' /\ Sharing' /\ Remaining' /\ Alone' /\ Noted'
<1>0. /\ pc[w] = "idle" /\ attempts \in Nat /\ attempts' = attempts + 1
      /\ pc' = [pc EXCEPT ![w] = "create"] /\ DOMAIN pc = Workers /\ DOMAIN witnessed = Workers
      /\ attempt \in [Workers -> Nat] /\ attempt' = [attempt EXCEPT ![w] = attempts + 1]
      /\ \A v \in Workers \ {w} : run'[v] = run[v]
  BY StartNumbers DEF TypeInv, TypeOK, KernelTypeOK
<1>a. /\ excused' = excused /\ \A v \in Workers \ {w} : witnessed'[v] = witnessed[v]
  BY DEF Start
<1>b. UNCHANGED <<tenants, seen, events, posts, cold, shared, refused, strayed, raced>>
  BY DEF cloud, objects, history
<1>c. \A v \in Workers : pc'[v] \in Holding =>
        v # w /\ pc[v] \in Holding /\ pc'[v] = pc[v] /\ attempt'[v] = attempt[v] /\ run'[v] = run[v]
  BY <1>0 DEF Holding
<1>d. \A a : InProgress(a) => InProgress(a)'
  <2>1. \A v \in Workers : pc[v] \in Holding => pc'[v] = pc[v] /\ attempt'[v] = attempt[v]
    BY <1>0 DEF Holding
  <2> QED BY <2>1 DEF InProgress
<1>e. /\ \A a : Abandoned(a) <=> Abandoned(a)'
      /\ \A a : Left(a) <=> Left(a)'
      /\ \A a, r : Authored(a, r)' <=> Authored(a, r)
  BY <1>a, <1>b DEF Abandoned, Left, Authored
<1>f. \A a \in Attempts : a \in Nat
  BY DEF Attempts
<1>1. Traced'
  <2>1. ASSUME NEW r \in RunIds, NEW a \in Attempts, a \in tenants[r] \/ Authored(a, r)
        PROVE  a <= attempts' /\ \A v \in Workers : attempt'[v] = a => run'[v] = r /\ pc'[v] \notin Unrun
    <3>1. a <= attempts /\ \A v \in Workers : attempt[v] = a => run[v] = r /\ pc[v] \notin Unrun
      BY <2>1 DEF Traced
    <3>2. a # attempts + 1 /\ a <= attempts + 1
      BY <1>0, <1>f, <3>1
    <3> QED BY <1>0, <3>1, <3>2
  <2>2. ASSUME NEW a \in refused
        PROVE  a <= attempts' /\ \A v \in Workers : attempt'[v] = a => pc'[v] \notin Unrun
    <3>1. a <= attempts /\ a \in Nat /\ \A v \in Workers : attempt[v] = a => pc[v] \notin Unrun
      <4>1. a \in Attempts
        BY <2>2 DEF TypeInv, TypeOK, CloudflareTypeOK
      <4> QED BY <1>f, <2>2, <4>1 DEF Traced
    <3>2. a # attempts + 1 /\ a <= attempts + 1
      BY <1>0, <3>1
    <3> QED BY <1>0, <3>1, <3>2
  <2> QED BY <1>b, <1>e, <2>1, <2>2 DEF Traced
<1>2. Sharing'
  <2>1. \A v \in Workers : pc'[v] = "destroy telemetry" => pc'[v] \in Holding
    BY DEF Holding
  <2> QED BY <1>b, <1>c, <2>1 DEF Sharing
<1>3. Remaining'
  BY <1>b, <1>d, <1>e DEF Remaining
<1>4. Alone'
  BY <1>a, <1>b, <1>c, <1>e DEF Alone
<1>5. Noted'
  BY <1>b, <1>c DEF Noted, Denial
<1> QED BY <1>1, <1>2, <1>3, <1>4, <1>5

\* A request of a command, and an event that arrives, change events and histories only.
LEMMA EgressFrame ==
  ASSUME Egress, UNCHANGED <<call, pc, failed, bundle, witnessed, files, counters, excused, gateway>>
  PROVE  /\ UNCHANGED <<runtime, run, attempt, attempts, pc, witnessed, excused, tenants, seen, cold, shared, strayed>>
         /\ \A a : (InProgress(a)' <=> InProgress(a)) /\ (Abandoned(a)' <=> Abandoned(a)) /\ (Left(a)' <=> Left(a))
<1>1. UNCHANGED <<runtime, run, attempt, attempts, pc, witnessed, excused, tenants, seen, cold, shared, strayed>>
  BY DEF Egress, Outbound, ReadEvents, PutEvents, call, counters
<1> QED BY <1>1 DEF InProgress, Abandoned, Left

\* Whoever has written an event after such a step had written one before it, or its
\* command runs.
LEMMA EgressAuthored ==
  ASSUME TypeInv, Egress, NEW r \in RunIds, NEW a \in Attempts, Authored(a, r)'
  PROVE  Authored(a, r) \/ a \in tenants[r]
<1>1. ASSUME NEW r0 \in RunIds, NEW by \in Attempts, Outbound(r0, by)
      PROVE  Authored(a, r) \/ a \in tenants[r]
  <2>1. PICK deny \in BOOLEAN :
          posts' = posts \cup {[id |-> egress, run |-> r0, by |-> by, deny |-> deny, read |-> FALSE, base |-> <<>>]}
    BY <1>1 DEF Outbound
  <2>2. by \in tenants[r0] /\ events' = events
    BY <1>1 DEF Outbound, TypeInv, TypeOK, CloudflareTypeOK
  <2>3. CASE \E p \in posts' : p.run = r /\ (p.by = a \/ Wrote(a, p.base))
    <3>1. PICK p \in posts' : p.run = r /\ (p.by = a \/ Wrote(a, p.base))
      BY <2>3
    <3>2. p \in posts => Authored(a, r)
      BY <3>1 DEF Authored
    <3>3. p \notin posts => p.run = r0 /\ p.by = by /\ ~Wrote(a, p.base)
      BY <2>1, <3>1 DEF Wrote
    <3> QED BY <2>2, <3>1, <3>2, <3>3
  <2>4. CASE Wrote(a, events'[r])
    BY <2>2, <2>4 DEF Authored
  <2> QED BY <2>3, <2>4 DEF Authored
<1>2. ASSUME NEW p \in posts, PutEvents(p)
      PROVE  Authored(a, r)
  <2> DEFINE e == [by |-> p.by, deny |-> p.deny]
             k == Kept(Append(p.base, e))
  <2>1. posts' \subseteq posts /\ events' = [events EXCEPT ![p.run] = k]
    BY <1>2 DEF PutEvents
  <2>2. p.base \in Seq(Event) /\ e \in Event
    <3>1. Recorded
      BY CloudflareParts DEF TypeInv, TypeOK
    <3> QED BY <3>1 DEF Recorded
  <2>4. e.by = p.by
    OBVIOUS
  <2>5. events \in [RunIds -> Seq(Event)]
    BY DEF TypeInv, TypeOK, CloudflareTypeOK
  <2> HIDE DEF e
  <2>3. \A i \in DOMAIN k : k[i] = e \/ \E j \in DOMAIN p.base : k[i] = p.base[j]
    BY ONLY <2>2, KeptProperties
  <2> HIDE DEF k
  <2>6. Wrote(a, k) => p.by = a \/ Wrote(a, p.base)
    BY <2>3, <2>4 DEF Wrote
  <2>7. CASE Wrote(a, events'[r])
    <3>1. events'[r] = IF r = p.run THEN k ELSE events[r]
      BY <2>1, <2>5
    <3> QED BY <2>6, <2>7, <3>1 DEF Authored
  <2>8. CASE \E q \in posts' : q.run = r /\ (q.by = a \/ Wrote(a, q.base))
    BY <2>1, <2>8 DEF Authored
  <2> QED BY <2>7, <2>8 DEF Authored
<1>3. ASSUME NEW p \in posts, ReadEvents(p)
      PROVE  Authored(a, r)
  <2> DEFINE new == [p EXCEPT !.read = TRUE, !.base = events[p.run]]
  <2>1. p \in Post
    BY DEF TypeInv, TypeOK, CloudflareTypeOK
  <2>2. new.run = p.run /\ new.by = p.by /\ new.base = events[p.run]
    BY <2>1 DEF Post
  <2>3. posts' = (posts \ {p}) \cup {new} /\ events' = events
    BY <1>3 DEF ReadEvents
  <2> HIDE DEF new
  <2> QED BY <2>2, <2>3 DEF Authored
<1> QED BY <1>1, <1>2, <1>3 DEF Egress

\* What was said of attempts with traces is said of requests, too.
LEMMA CloudEgress ==
  ASSUME TypeInv, Numbered, Traced, Sharing, Remaining, Alone, Egress,
         UNCHANGED <<call, pc, failed, bundle, witnessed, files, counters, excused, gateway>>
  PROVE  Traced' /\ Sharing' /\ Remaining' /\ Alone'
<1>0. UNCHANGED <<runtime, run, attempt, attempts, pc, witnessed, excused, tenants, seen, cold, shared, strayed>>
  BY EgressFrame
<1>p. \A a : (InProgress(a)' <=> InProgress(a)) /\ (Abandoned(a)' <=> Abandoned(a)) /\ (Left(a)' <=> Left(a))
  BY EgressFrame
<1>a. \A r \in RunIds, a \in Attempts : Authored(a, r)' => Authored(a, r) \/ a \in tenants[r]
  BY EgressAuthored
<1>t. \A v \in Workers : run[v] \in RunIds
  BY DEF TypeInv, TypeOK, KernelTypeOK
<1>r. \A a \in refused' : a \in refused \/ \E r \in RunIds : Authored(a, r) /\ a \in Attempts
  <2>1. ASSUME NEW p \in posts, PutEvents(p), NEW a \in refused'
        PROVE  a \in refused \/ \E r \in RunIds : Authored(a, r) /\ a \in Attempts
    <3>1. p.run \in RunIds
      BY DEF TypeInv, Posted
    <3>2. p.by \in Attempts
      <4>1. Recorded
        BY CloudflareParts DEF TypeInv, TypeOK
      <4> QED BY <4>1 DEF Recorded
    <3>3. a \in refused \/ a = p.by
      BY <2>1 DEF PutEvents
    <3> QED BY <3>1, <3>2, <3>3 DEF Authored
  <2>2. ASSUME NEW r \in RunIds, NEW by \in Attempts, Outbound(r, by)
        PROVE  refused' = refused
    BY <2>2 DEF Outbound
  <2>3. ASSUME NEW p \in posts, ReadEvents(p)
        PROVE  refused' = refused
    BY <2>3 DEF ReadEvents
  <2> QED BY <2>1, <2>2, <2>3 DEF Egress
<1>1. Traced'
  <2>1. \A r \in RunIds, a \in Attempts : a \in tenants'[r] \/ Authored(a, r)' =>
          a <= attempts /\ \A w \in Workers : attempt[w] = a => run[w] = r /\ pc[w] \notin Unrun
    BY <1>0, <1>a DEF Traced
  <2>2. \A a \in refused' : a <= attempts /\ \A w \in Workers : attempt[w] = a => pc[w] \notin Unrun
    BY <1>r DEF Traced
  <2> QED BY <1>0, <2>1, <2>2 DEF Traced
<1>2. Sharing'
  BY <1>0 DEF Sharing
<1>3. Remaining'
  <2>1. \A r \in RunIds : \A a \in tenants'[r] : InProgress(a)' \/ Abandoned(a)'
    BY <1>0, <1>p DEF Remaining
  <2>2. ASSUME NEW r \in RunIds, NEW a \in Attempts, seen'[r] = 0, Authored(a, r)'
        PROVE  a \in strayed' \/ (a \in shared' /\ (InProgress(a)' \/ Abandoned(a)'))
    <3>1. seen[r] = 0 /\ (Authored(a, r) \/ a \in tenants[r])
      BY <1>0, <1>a, <2>2
    <3>2. a \in tenants[r] => a \in shared /\ (InProgress(a) \/ Abandoned(a))
      BY <3>1 DEF Sharing, Remaining
    <3>3. Authored(a, r) => a \in strayed \/ (a \in shared /\ (InProgress(a) \/ Abandoned(a)))
      BY <3>1 DEF Remaining
    <3> QED BY <1>0, <1>p, <3>1, <3>2, <3>3
  <2>3. ASSUME NEW r \in RunIds, NEW a \in Attempts, Authored(a, r)'
        PROVE  a \in strayed' \/ InProgress(a)' \/ Abandoned(a)'
    <3>1. Authored(a, r) \/ a \in tenants[r]
      BY <1>a, <2>3
    <3> QED BY <1>0, <1>p, <3>1 DEF Remaining
  <2> QED BY <2>1, <2>2, <2>3 DEF Remaining
<1>4. Alone'
  <2>1. ASSUME NEW w \in Workers, pc[w] \in Holding, cold[w], attempt[w] \notin shared
        PROVE  /\ \A a \in tenants[run[w]] : a = attempt[w] \/ Left(a)
               /\ pc[w] = "events" => \A a \in witnessed[w] : a = attempt[w] \/ Left(a)
               /\ \A a \in Attempts : Authored(a, run[w])' => a = attempt[w] \/ Left(a) \/ a \in strayed
    <3>1. /\ \A a \in tenants[run[w]] : a = attempt[w] \/ Left(a)
          /\ pc[w] = "events" => \A a \in witnessed[w] : a = attempt[w] \/ Left(a)
          /\ \A a \in Attempts : Authored(a, run[w]) => a = attempt[w] \/ Left(a) \/ a \in strayed
      BY <2>1 DEF Alone
    <3>2. \A a \in Attempts : Authored(a, run[w])' => Authored(a, run[w]) \/ a \in tenants[run[w]]
      <4>1. \A r \in RunIds, a \in Attempts : r = run[w] => (Authored(a, run[w])' => Authored(a, r)')
        BY <1>0 DEF Authored
      <4> QED BY <1>a, <1>t, <4>1
    <3> QED BY <3>1, <3>2
  <2> QED BY <1>0, <1>p, <2>1 DEF Alone
<1> QED BY <1>1, <1>2, <1>3, <1>4

\* A list that a denied request was put on, or one that noted a refusal, notes it.
LEMMA DenialKept ==
  ASSUME NEW base \in Seq(Event), NEW e \in Event, Len(base) <= MaxEvents, e.deny \/ Denial(base)
  PROVE  Denial(Kept(Append(base, e)))
<1> DEFINE k == Kept(Append(base, e))
<1>1. /\ Len(base) < MaxEvents => k = Append(base, e)
      /\ Len(base) >= MaxEvents => Len(k) = MaxEvents
      /\ \E i \in DOMAIN k : k[i] = e
  <2>1. base \in Seq(Event) /\ e \in Event
    OBVIOUS
  <2>2. Len(base) < MaxEvents => Kept(Append(base, e)) = Append(base, e)
    BY ONLY <2>1, KeptProperties
  <2>3. Len(base) >= MaxEvents => Len(Kept(Append(base, e))) = MaxEvents
    BY ONLY <2>1, KeptProperties
  <2>4. \E i \in DOMAIN Kept(Append(base, e)) : Kept(Append(base, e))[i] = e
    BY ONLY <2>1, KeptProperties
  <2> QED BY <2>2, <2>3, <2>4
<1>2. /\ Append(base, e) \in Seq(Event) /\ Len(Append(base, e)) = Len(base) + 1
      /\ \A i \in 1..Len(base) : Append(base, e)[i] = base[i]
      /\ DOMAIN base = 1..Len(base) /\ Len(base) \in Nat /\ MaxEvents \in Nat
  BY AppendProperties, TelemetryAssumption
<1>3. CASE e.deny
  <2> HIDE DEF k
  <2>1. Denial(k)
    BY <1>1, <1>3 DEF Denial
  <2> QED BY <2>1 DEF k
<1>4. CASE Len(base) = MaxEvents
  <2>1. Len(k) = MaxEvents
    BY <1>1, <1>2, <1>4
  <2> QED BY <2>1 DEF Denial
<1>5. CASE Len(base) # MaxEvents /\ \E i \in DOMAIN base : base[i].deny
  <2>1. PICK i \in 1..Len(base) : base[i].deny
    BY <1>2, <1>5
  <2>2. k = Append(base, e)
    <3>1. Len(base) <= MaxEvents /\ Len(base) # MaxEvents /\ Len(base) \in Nat /\ MaxEvents \in Nat
      BY <1>2, <1>5
    <3>2. Len(base) < MaxEvents
      BY ONLY <3>1
    <3> QED BY <1>1, <3>2
  <2>3. i \in DOMAIN Append(base, e) /\ Append(base, e)[i] = base[i]
    <3>1. DOMAIN Append(base, e) = 1..(Len(base) + 1)
      BY <1>2
    <3> QED BY <1>2, <3>1
  <2>4. \E j \in DOMAIN k : k[j].deny
    BY <2>1, <2>2, <2>3
  <2> QED BY <2>4 DEF Denial
<1> QED BY <1>3, <1>4, <1>5 DEF Denial

\* An event that replaces the list has read what the list has noted, or was raced.
LEMMA NotedEgress ==
  ASSUME TypeInv, Traced, Noted, Egress,
         UNCHANGED <<call, pc, failed, bundle, witnessed, files, counters, excused, gateway>>
  PROVE  Noted'
<1>0. UNCHANGED <<run, attempt, pc, shared>>
  BY EgressFrame
<1>t. /\ \A v \in Workers : run[v] \in RunIds /\ (pc[v] # "idle" => attempt[v] \in Attempts)
      /\ DOMAIN events = RunIds
  BY DEF TypeInv, TypeOK, KernelTypeOK, CloudflareTypeOK, Ready
<1>1. ASSUME NEW r \in RunIds, NEW by \in Attempts, Outbound(r, by)
      PROVE  Noted'
  <2>1. PICK deny \in BOOLEAN :
          posts' = posts \cup {[id |-> egress, run |-> r, by |-> by, deny |-> deny, read |-> FALSE, base |-> <<>>]}
    BY <1>1 DEF Outbound
  <2>2. events' = events /\ refused' = refused /\ raced' = raced
    BY <1>1 DEF Outbound
  <2>3. \A p \in posts' : p.read => p \in posts
    BY <2>1
  <2> QED BY <1>0, <2>2, <2>3 DEF Noted, Denial
<1>3. ASSUME NEW p \in posts, ReadEvents(p)
      PROVE  Noted'
  <2> DEFINE new == [p EXCEPT !.read = TRUE, !.base = events[p.run]]
  <2>1. p \in Post
    BY DEF TypeInv, TypeOK, CloudflareTypeOK
  <2>2. new.run = p.run /\ new.base = events[p.run]
    BY <2>1 DEF Post
  <2>3. /\ posts' = (posts \ {p}) \cup {new} /\ events' = events /\ refused' = refused /\ raced \subseteq raced'
        /\ \A q \in posts : q.run = p.run /\ q.read => p.run \in raced'
    BY <1>3 DEF ReadEvents
  <2> HIDE DEF new
  <2>4. \A q \in posts' : q \in posts \/ q = new
    BY <2>3
  <2>5. \A q1, q2 \in posts' : q1 # q2 /\ q1.run = q2.run /\ q1.read /\ q2.read => q1.run \in raced'
    BY <2>2, <2>3, <2>4 DEF Noted
  <2>6. ASSUME NEW u \in Workers, pc[u] \in Holding, attempt[u] \in refused, attempt[u] \notin shared, run[u] \notin raced'
        PROVE  Denial(events[run[u]]) /\ \A q \in posts' : q.run = run[u] /\ q.read => Denial(q.base)
    <3>1. Denial(events[run[u]]) /\ \A q \in posts : q.run = run[u] /\ q.read => Denial(q.base)
      BY <2>3, <2>6 DEF Noted
    <3> QED BY <2>2, <2>4, <3>1
  <2> QED BY <1>0, <2>3, <2>5, <2>6 DEF Noted, Denial
<1>2. ASSUME NEW p \in posts, PutEvents(p)
      PROVE  Noted'
  <2> DEFINE e == [by |-> p.by, deny |-> p.deny]
             k == Kept(Append(p.base, e))
  <2>1. /\ posts' = posts \ {p} /\ p.read /\ events' = [events EXCEPT ![p.run] = k] /\ raced' = raced
        /\ refused' = IF p.deny THEN refused \cup {p.by} ELSE refused
    BY <1>2 DEF PutEvents
  <2>2. p.base \in Seq(Event) /\ e \in Event /\ p.run \in RunIds /\ p.by \in Attempts /\ e.deny = p.deny
    <3>1. Recorded
      BY CloudflareParts DEF TypeInv, TypeOK
    <3> QED BY <3>1 DEF Recorded
  <2> HIDE DEF e
  <2>3. Len(p.base) <= MaxEvents /\ (p.deny \/ Denial(p.base)) => Denial(k)
    BY ONLY <2>2, DenialKept
  <2> HIDE DEF k
  <2>4. Len(p.base) <= MaxEvents
    BY DEF TypeInv, Posted
  <2>5. \A q1, q2 \in posts' : q1 # q2 /\ q1.run = q2.run /\ q1.read /\ q2.read => q1.run \in raced'
    BY <2>1 DEF Noted
  <2>6. ASSUME NEW u \in Workers, pc[u] \in Holding, attempt[u] \in refused', attempt[u] \notin shared, run[u] \notin raced
        PROVE  Denial(events'[run[u]]) /\ \A q \in posts' : q.run = run[u] /\ q.read => Denial(q.base)
    <3>1. CASE attempt[u] \in refused
      <4>1. Denial(events[run[u]]) /\ \A q \in posts : q.run = run[u] /\ q.read => Denial(q.base)
        BY <2>6, <3>1 DEF Noted
      <4>2. events'[run[u]] = IF run[u] = p.run THEN k ELSE events[run[u]]
        BY <1>t, <2>1
      <4> QED BY <2>1, <2>3, <2>4, <4>1, <4>2
    <3>2. CASE attempt[u] \notin refused
      <4>1. p.deny /\ attempt[u] = p.by
        BY <2>1, <2>6, <3>2
      <4>2. run[u] = p.run
        BY <2>2, <4>1 DEF Traced, Authored
      <4>3. events'[run[u]] = k
        BY <1>t, <2>1, <4>2
      <4>4. \A q \in posts' : q.run = run[u] => ~q.read
        BY <2>1, <2>6, <4>2 DEF Noted
      <4> QED BY <2>3, <2>4, <4>1, <4>3, <4>4
    <3> QED BY <3>1, <3>2
  <2> QED BY <1>0, <2>1, <2>5, <2>6 DEF Noted, Denial
<1> QED BY <1>1, <1>2, <1>3 DEF Egress

-----------------------------------------------------------------------------
(* What evidence from Cloudflare is worth                                  *)

\* Every step keeps the invariant of the Cloudflare runtime.
LEMMA OnCloudStep ==
  ASSUME TypeInv, Numbered, OnCloud, [Next]_vars
  PROVE  OnCloud'
<1>0. UNCHANGED runtime
  <2>1. ASSUME NEW w \in Workers, Start(w)
        PROVE  UNCHANGED runtime
    BY <2>1 DEF Start
  <2> QED BY <2>1, OnlyStartCalls
<1>1. SUFFICES ASSUME runtime = "cloudflare"
               PROVE  Traced' /\ Sharing' /\ Remaining' /\ Alone' /\ Noted'
  BY <1>0 DEF OnCloud
<1>2. Traced /\ Sharing /\ Remaining /\ Alone /\ Noted
  BY <1>1 DEF OnCloud
<1>3. ASSUME NEW w \in Workers, Progress(w)
      PROVE  Traced' /\ Sharing' /\ Remaining' /\ Alone' /\ Noted'
  BY <1>2, <1>3, TracedProgress, SharingProgress, RemainingProgress, AloneProgress, NotedProgress
<1>4. ASSUME NEW w \in Workers, InKernel(w) \/ OnCloudflare(w)
      PROVE  Traced' /\ Sharing' /\ Remaining' /\ Alone' /\ Noted'
  <2>1. (InKernel(w) /\ ~Start(w)) \/ OnCloudflare(w) => Progress(w)
    BY CloudflareProgress, KernelProgress DEF InKernel, OnCloudflare
  <2>2. InKernel(w) /\ Start(w) => Traced' /\ Sharing' /\ Remaining' /\ Alone' /\ Noted'
    BY <1>2, CloudStart DEF InKernel
  <2> QED BY <1>3, <1>4, <2>1, <2>2
<1>5. ASSUME Egress /\ UNCHANGED <<call, pc, failed, bundle, witnessed, files, counters, excused, gateway>>
      PROVE  Traced' /\ Sharing' /\ Remaining' /\ Alone' /\ Noted'
  BY <1>2, <1>5, CloudEgress, NotedEgress
<1>6. ASSUME UNCHANGED vars
      PROVE  Traced' /\ Sharing' /\ Remaining' /\ Alone' /\ Noted'
  <2>1. UNCHANGED <<run, attempt, attempts, pc, witnessed, excused, tenants, seen, events, posts, cold, shared, refused,
                    strayed, raced>>
    BY <1>6 DEF vars, call, counters, cloud, objects, history
  <2>2. /\ \A a : (InProgress(a)' <=> InProgress(a)) /\ (Abandoned(a)' <=> Abandoned(a)) /\ (Left(a)' <=> Left(a))
        /\ \A a, r : Authored(a, r)' <=> Authored(a, r)
    BY <2>1 DEF InProgress, Abandoned, Left, Authored
  <2>3. Traced' /\ Sharing'
    BY <1>2, <2>1, <2>2 DEF Traced, Sharing
  <2>4. Remaining'
    BY <1>2, <2>1, <2>2 DEF Remaining
  <2>5. Alone'
    BY <1>2, <2>1, <2>2 DEF Alone
  <2>6. Noted'
    BY <1>2, <2>1 DEF Noted, Denial
  <2> QED BY <2>3, <2>4, <2>5, <2>6
<1>7. \A w \in Workers : ~OnOpenShell(w)
  BY <1>1 DEF OnOpenShell
<1> QED BY <1>4, <1>5, <1>6, <1>7 DEF Next

\* The invariant of the Cloudflare runtime, for every behaviour.
LEMMA OnCloudAlways == Spec => []OnCloud
<1>1. Init => OnCloud
  <2>1. ASSUME Init
        PROVE  /\ \A w \in Workers : pc[w] = "idle"
               /\ \A r \in RunIds : tenants[r] = {} /\ events[r] = <<>>
               /\ posts = {} /\ refused = {}
    BY <2>1 DEF Init, KernelInit, CloudflareInit
  <2>2. \A a : ~Wrote(a, <<>>)
    BY DEF Wrote
  <2>3. Init => \A r \in RunIds : \A a : ~Authored(a, r)
    BY <2>1, <2>2 DEF Authored
  <2>4. "idle" \notin Holding
    BY DEF Holding
  <2> QED BY <2>1, <2>3, <2>4 DEF OnCloud, Traced, Sharing, Remaining, Alone, Noted
<1>2. TypeInv /\ Numbered /\ OnCloud /\ [Next]_vars => OnCloud'
  BY OnCloudStep
<1> QED BY TypedAlways, NumberedAlways, <1>1, <1>2, PTL DEF Spec

\* On OpenShell nothing happens on Cloudflare.
LEMMA QuietAlways == Spec => []Quiet
<1>1. Init => Quiet
  BY DEF Init, CloudflareInit, Quiet
<1>2. ASSUME Quiet, [Next]_vars
      PROVE  Quiet'
  <2>1. ASSUME NEW w \in Workers, OnCloudflare(w)
        PROVE  runtime' = runtime /\ runtime = "cloudflare"
    BY <2>1 DEF OnCloudflare, CloudflareStep, GetOrCreate, GetFails, ManifestBefore, ManifestFails, StartCommand, CommandEnds,
         CommandLost, ExecuteGivenUp, CollectFiles, CollectEvents, CollectGivenUp, DestroyContainer, DestroyTelemetry,
         DestroyGivenUp, call
  <2>2. ASSUME NEW w \in Workers, InKernel(w) \/ OnOpenShell(w)
        PROVE  runtime' = runtime /\ UNCHANGED <<posts, commands, events>>
    <3>1. UNCHANGED <<posts, commands, events>>
      BY <2>2 DEF InKernel, OnOpenShell, cloud, objects
    <3>2. InKernel(w) => runtime' = runtime
      BY DEF InKernel, KernelStep, Start, CheckEvidence, OpenEvidence, WriteEvidence, CheckVerdict, OpenVerdict,
           WriteVerdict, PersistFails, Crash, call
    <3>3. OnOpenShell(w) => runtime' = runtime
      BY DEF OnOpenShell, OpenShellStep, Create, CreateRefused, CreateFault, EnableOcsfFails, Configure, PrepareFails, Execute,
           ExecuteFails, Collect, CollectFails, Destroy, DestroyFails, call
    <3> QED BY <2>2, <3>1, <3>2, <3>3
  <2>3. ASSUME Egress, UNCHANGED <<call, pc, failed, bundle, witnessed, files, counters, excused, gateway>>
        PROVE  Quiet'
    BY <1>2, <2>3 DEF Egress, Outbound, ReadEvents, PutEvents, Quiet, call
  <2>4. UNCHANGED vars => Quiet'
    BY <1>2 DEF vars, call, cloud, objects, Quiet
  <2> QED BY <1>2, <2>1, <2>2, <2>3, <2>4 DEF Next, Quiet
<1> QED BY <1>1, <1>2, PTL DEF Spec

\* A sandbox, a container or telemetry, its events included, outlives its run only when a step
\* of prepare has failed, the deletion has failed, or the worker was killed; an event also when
\* it was on its way while telemetry was deleted, as it is put after that (HarnessKernel.run,
\* the two controllers, DELETE of the Worker, Telemetry.fetch).
THEOREM LeftoversAreExplained == Spec => []LeftoversExplained
<1>1. TypeInv /\ Possessed /\ OnCloud /\ Quiet => LeftoversExplained
  <2>1. ASSUME Possessed, NEW a \in Owners
        PROVE  InProgress(a) \/ Explained(a)
    <3>1. PICK r \in RunIds : a = sandbox[r] \/ a = container[r] \/ a = seen[r]
      BY <2>1 DEF Owners
    <3>2. a # 0
      BY <2>1 DEF Owners
    <3>3. Excusable(sandbox) /\ Excusable(container) /\ Excusable(seen)
      BY <2>1 DEF Possessed
    <3> QED BY <3>1, <3>2, <3>3 DEF Excusable
  <2>2. ASSUME TypeInv, OnCloud, Quiet, NEW a \in Authors
        PROVE  InProgress(a) \/ Explained(a) \/ a \in strayed
    <3>1. PICK r \in RunIds : \E i \in DOMAIN events[r] : a = events[r][i].by
      BY <2>2 DEF Authors
    <3>2. runtime = "cloudflare"
      BY <2>2, <3>1 DEF Quiet
    <3>3. a \in Attempts /\ Authored(a, r)
      <4>1. PICK i \in DOMAIN events[r] : a = events[r][i].by
        BY <3>1
      <4>2. events[r] \in Seq(Event)
        BY <2>2 DEF TypeInv, TypeOK, CloudflareTypeOK
      <4>3. events[r][i] \in Event
        BY <4>1, <4>2
      <4> QED BY <4>1, <4>3 DEF Event, Authored, Wrote
    <3> QED BY <2>2, <3>2, <3>3 DEF OnCloud, Remaining, Abandoned, Explained
  <2> QED BY <2>1, <2>2 DEF LeftoversExplained, Explained
<1> QED BY TypedAlways, PossessedAlways, OnCloudAlways, QuietAlways, <1>1, PTL

\* A worker that collects evidence collects the events of its telemetry.
LEMMA CollectsEvents ==
  ASSUME TypeInv, [Next]_vars, NEW w \in Workers, Collects(w)
  PROVE  CollectEvents(w) /\ UNCHANGED cloud
<1>0. /\ runtime = "cloudflare" /\ pc[w] = "events" /\ pc'[w] = "destroy" /\ ~failed'[w]
      /\ DOMAIN pc = Workers /\ DOMAIN failed = Workers /\ "events" \in Holding /\ "events" \notin Persisting
  BY DEF Collects, TypeInv, TypeOK, KernelTypeOK, Holding, Persisting
<1>1. ASSUME NEW v \in Workers, InKernel(v)
      PROVE  FALSE
  BY <1>0, <1>1 DEF InKernel, KernelStep, Start, CheckEvidence, OpenEvidence, WriteEvidence, CheckVerdict, OpenVerdict,
       WriteVerdict, PersistFails, Crash, Goto, Persisting
<1>2. ASSUME NEW v \in Workers, OnOpenShell(v)
      PROVE  FALSE
  BY <1>0, <1>2 DEF OnOpenShell
<1>3. ASSUME NEW v \in Workers, OnCloudflare(v)
      PROVE  CollectEvents(w) /\ UNCHANGED cloud
  <2>1. v = w
    <3>1. \E to \in Later : pc' = [pc EXCEPT ![v] = to]
      BY <1>3, CloudflareMoves DEF OnCloudflare, Moves
    <3> QED BY <1>0, <3>1
  <2>2. CollectEvents(w)
    BY <1>0, <1>3, <2>1 DEF OnCloudflare, CloudflareStep, GetOrCreate, GetFails, ManifestBefore, ManifestFails, StartCommand,
         CommandEnds, CommandLost, ExecuteGivenUp, CollectFiles, CollectGivenUp, DestroyContainer, DestroyTelemetry,
         DestroyGivenUp, Goto
  <2> QED BY <2>2 DEF CollectEvents
<1>4. pc' # pc
  BY <1>0
<1> QED BY <1>1, <1>2, <1>3, <1>4 DEF Next, vars

\* cold_start in the evidence of a run that had its sandbox for itself means that no other
\* command ran in it and that no event is another's, unless a worker that shared the sandbox
\* has left it behind, or an event was still on its way when its run was destroyed
\* (CloudflareRuntimeController, DELETE and /seen of the Worker).
THEOREM ColdSandboxesAreOwn == Spec => ColdMeansOwn
<1> DEFINE Own(w) ==
      LET leftBehind == {a \in shared : \E why \in {"delete", "crash"} : <<a, why>> \in excused}
          authors == {events[run[w]][i].by : i \in DOMAIN events[run[w]]}
      IN Collects(w) /\ cold[w] /\ attempt[w] \notin shared =>
           /\ witnessed[w] \subseteq {attempt[w]} \cup leftBehind
           /\ authors \subseteq {attempt[w]} \cup leftBehind \cup strayed
<1>1. ASSUME TypeInv, OnCloud, [Next]_vars, NEW w \in Workers
      PROVE  Own(w)
  <2>1. SUFFICES ASSUME Collects(w), cold[w], attempt[w] \notin shared
                 PROVE  /\ \A a \in witnessed[w] : a = attempt[w] \/ Left(a)
                        /\ \A i \in DOMAIN events[run[w]] :
                             LET a == events[run[w]][i].by IN a = attempt[w] \/ Left(a) \/ a \in strayed
    BY DEF Left, Abandoned
  <2>2. pc[w] = "events" /\ pc[w] \in Holding /\ runtime = "cloudflare"
    BY <2>1 DEF Collects, Holding
  <2>3. /\ \A a \in witnessed[w] : a = attempt[w] \/ Left(a)
        /\ \A a \in Attempts : Authored(a, run[w]) => a = attempt[w] \/ Left(a) \/ a \in strayed
    BY <1>1, <2>1, <2>2 DEF OnCloud, Alone
  <2>4. ASSUME NEW i \in DOMAIN events[run[w]]
        PROVE  events[run[w]][i].by \in Attempts /\ Authored(events[run[w]][i].by, run[w])
    <3>1. events[run[w]] \in Seq(Event)
      BY <1>1 DEF TypeInv, TypeOK, KernelTypeOK, CloudflareTypeOK
    <3>2. events[run[w]][i] \in Event
      BY <3>1
    <3> QED BY <3>2 DEF Event, Authored, Wrote
  <2> QED BY <2>3, <2>4
<1>2. TypeInv /\ OnCloud /\ [Next]_vars => [\A w \in Workers : Own(w)]_<<pc, cloud>>
  BY <1>1
<1> QED BY TypedAlways, OnCloudAlways, <1>2, PTL DEF Spec, ColdMeansOwn

\* Evidence is not clean when a request of its command was answered with a refusal, unless
\* the sandbox was shared, two events were handled at once, or the evidence has as many
\* events as telemetry keeps (Telemetry.fetch, slice(-1000)).
THEOREM DenialsAreCollected == Spec => DeniedIsCollected
<1> DEFINE Dirty(w) ==
      Collects(w) /\ bundle'[w].clean /\ attempt[w] \in refused =>
        \/ attempt[w] \in shared
        \/ run[w] \in raced
        \/ Len(events[run[w]]) = MaxEvents
<1>1. ASSUME TypeInv, OnCloud, [Next]_vars, NEW w \in Workers
      PROVE  Dirty(w)
  <2>1. SUFFICES ASSUME Collects(w), bundle'[w].clean, attempt[w] \in refused, attempt[w] \notin shared, run[w] \notin raced
                 PROVE  Len(events[run[w]]) = MaxEvents
    OBVIOUS
  <2>2. pc[w] \in Holding /\ runtime = "cloudflare"
    BY <2>1 DEF Collects, Holding
  <2>3. Denial(events[run[w]])
    BY <1>1, <2>1, <2>2 DEF OnCloud, Noted
  <2>4. CollectEvents(w)
    BY <1>1, <2>1, CollectsEvents
  <2>5. \A i \in DOMAIN events[run[w]] : ~events[run[w]][i].deny
    <3>1. DOMAIN bundle = Workers
      BY <1>1 DEF TypeInv, TypeOK, KernelTypeOK
    <3> QED BY <2>1, <2>4, <3>1 DEF CollectEvents
  <2> QED BY <2>3, <2>5 DEF Denial
<1>2. TypeInv /\ OnCloud /\ [Next]_vars => [\A w \in Workers : Dirty(w)]_<<pc, bundle, cloud>>
  BY <1>1
<1> QED BY TypedAlways, OnCloudAlways, <1>2, PTL DEF Spec, DeniedIsCollected
=============================================================================
