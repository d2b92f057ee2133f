------------------------------- MODULE KernelRun -------------------------------
(***************************************************************************)
(* What HarnessKernel.run does on every runtime (harness_kernel_impl.py,   *)
(* evidence.py): a call gets a run id, drives a sandbox of its runtime,    *)
(* and persists the evidence and then the verdict.  Workers are processes  *)
(* with a kernel and a controller of their own; they share the directories *)
(* of evidence and verdicts.  OpenShellRun and CloudflareRun add what      *)
(* happens between Start and the persisting of the evidence.               *)
(***************************************************************************)
EXTENDS Naturals, FiniteSets

CONSTANTS
  Workers,      \* processes that call HarnessKernel.run
  RunIds,       \* RunSpec.run_id
  Backends,     \* the runtimes that workers may be given
  Storing,      \* those whose workers are given stores for evidence and verdicts
  MaxAttempts,  \* bound on calls of HarnessKernel.run
  MaxFaults,    \* bound on failing calls of the CLI, of HTTP and of the disk
  MaxCrashes    \* bound on crashes of workers

ASSUME BoundsAssumption ==
  /\ MaxAttempts \in Nat /\ MaxFaults \in Nat /\ MaxCrashes \in Nat
ASSUME BackendsAssumption == /\ Backends \subseteq {"openshell", "cloudflare"}
                             /\ Storing \subseteq Backends
ASSUME RunIdsAssumption == RunIds # {}

Attempts == 1..MaxAttempts

\* What an evidence bundle says, its digest included: nothing is wrong, or a
\* check or the security gate fails.  Two attempts may well agree in it.
Bundles == [run : RunIds, backend : Backends, clean : BOOLEAN]

VARIABLES
  runtime,   \* the backend of the RuntimeAdapter the workers are given
  pc,        \* where in HarnessKernel.run a worker is
  run,       \* the run id of a worker
  attempt,   \* the number of its call
  failed,    \* is an exception on its way out?
  bundle,    \* the evidence it has collected
  witnessed, \* history: the attempts whose command that evidence is about
  evidence,  \* evidence[b]: the file of b: "none", "partial" or "complete"
  verdict,   \* verdict[b]: the file of the verdict on b
  attempts, faults, crashes,
  excused    \* history: attempts that may have left a sandbox or a file, and why

call == <<runtime, run, attempt>>
files == <<evidence, verdict>>
counters == <<attempts, faults, crashes>>

NoBundle == [run |-> "none", backend |-> "none", clean |-> FALSE]

KernelInit ==
  /\ runtime \in Backends
  /\ pc = [w \in Workers |-> "idle"]
  /\ run = [w \in Workers |-> CHOOSE r \in RunIds : TRUE]
  /\ attempt = [w \in Workers |-> 0]
  /\ failed = [w \in Workers |-> FALSE]
  /\ bundle = [w \in Workers |-> NoBundle]
  /\ witnessed = [w \in Workers |-> {}]
  /\ evidence = [b \in Bundles |-> "none"] /\ verdict = [b \in Bundles |-> "none"]
  /\ attempts = 0 /\ faults = 0 /\ crashes = 0
  /\ excused = {}

Goto(w, from, to) == pc[w] = from /\ pc' = [pc EXCEPT ![w] = to]

\* A call that fails.
Fault == faults < MaxFaults /\ faults' = faults + 1 /\ UNCHANGED <<attempts, crashes>>

LeftBehind(w, why) == excused' = excused \cup {<<attempt[w], why>>}

\* run is called, and the plan is compiled.  A call the compiler rejects
\* changes nothing.
Start(w) ==
  /\ Goto(w, "idle", "create")
  /\ attempts < MaxAttempts
  /\ attempts' = attempts + 1
  /\ \E r \in RunIds : run' = [run EXCEPT ![w] = r]
  /\ attempt' = [attempt EXCEPT ![w] = attempts + 1]
  /\ failed' = [failed EXCEPT ![w] = FALSE]
  /\ bundle' = [bundle EXCEPT ![w] = NoBundle]
  /\ witnessed' = [witnessed EXCEPT ![w] = {}]
  /\ UNCHANGED <<runtime, files, faults, crashes, excused>>

\* Where run goes on after destroy.
Concluded(w) == IF failed[w] \/ runtime \notin Storing THEN "idle" ELSE "evidence"

-----------------------------------------------------------------------------
(* verify, EvidenceStore.persist and HarnessVerdictStore.persist           *)

\* Where a worker has done with its sandbox.
Persisting ==
  {"evidence", "open evidence", "write evidence", "verdict", "open verdict", "write verdict"}

\* Mutant: where there is evidence there is a verdict on it.
CheckEvidenceOnly(w) ==
  /\ Goto(w, "evidence", IF evidence[bundle[w]] = "none" THEN "open evidence" ELSE "idle")
  /\ UNCHANGED <<call, failed, bundle, witnessed, files, counters, excused>>

\* Both stores trust a file that exists and write one that did not when they
\* looked, in place; open empties the file.
CheckEvidence(w) ==
  /\ Goto(w, "evidence", IF evidence[bundle[w]] = "none" THEN "open evidence" ELSE "verdict")
  /\ UNCHANGED <<call, failed, bundle, witnessed, files, counters, excused>>

OpenEvidence(w) ==
  /\ Goto(w, "open evidence", "write evidence")
  /\ evidence' = [evidence EXCEPT ![bundle[w]] = "partial"]
  /\ UNCHANGED <<call, failed, bundle, witnessed, verdict, counters, excused>>

WriteEvidence(w) ==
  /\ Goto(w, "write evidence", "verdict")
  /\ evidence' = [evidence EXCEPT ![bundle[w]] = "complete"]
  /\ UNCHANGED <<call, failed, bundle, witnessed, verdict, counters, excused>>

CheckVerdict(w) ==
  /\ Goto(w, "verdict", IF verdict[bundle[w]] = "none" THEN "open verdict" ELSE "idle")
  /\ UNCHANGED <<call, failed, bundle, witnessed, files, counters, excused>>

OpenVerdict(w) ==
  /\ Goto(w, "open verdict", "write verdict")
  /\ verdict' = [verdict EXCEPT ![bundle[w]] = "partial"]
  /\ UNCHANGED <<call, failed, bundle, witnessed, evidence, counters, excused>>

WriteVerdict(w) ==
  /\ Goto(w, "write verdict", "idle")
  /\ verdict' = [verdict EXCEPT ![bundle[w]] = "complete"]
  /\ UNCHANGED <<call, failed, bundle, witnessed, evidence, counters, excused>>

\* open or write raises an OSError (the disk is full); the file stays as it is.
PersistFails(w) ==
  /\ \E at \in Persisting \ {"evidence", "verdict"} : Goto(w, at, "idle")
  /\ Fault
  /\ LeftBehind(w, "persist")
  /\ UNCHANGED <<call, failed, bundle, witnessed, files>>

\* A worker is killed; another may take its place.
Crash(w) ==
  /\ pc[w] # "idle"
  /\ crashes < MaxCrashes
  /\ crashes' = crashes + 1
  /\ pc' = [pc EXCEPT ![w] = "idle"]
  /\ LeftBehind(w, "crash")
  /\ UNCHANGED <<call, failed, bundle, witnessed, files, attempts, faults>>

KernelStep(w) ==
  \/ Start(w)
  \/ CheckEvidence(w) \/ OpenEvidence(w) \/ WriteEvidence(w)
  \/ CheckVerdict(w) \/ OpenVerdict(w) \/ WriteVerdict(w)
  \/ PersistFails(w)
  \/ Crash(w)

-----------------------------------------------------------------------------
\* Where a worker may have a sandbox.
Holding == {"configure", "execute", "running", "collect", "events", "destroy", "destroy telemetry"}

InProgress(a) == \E w \in Workers : attempt[w] = a /\ pc[w] \in Holding

FileStates == {"none", "partial", "complete"}

KernelTypeOK ==
  /\ runtime \in Backends
  /\ pc \in [Workers -> {"idle", "create"} \cup Holding \cup Persisting]
  /\ run \in [Workers -> RunIds]
  /\ attempt \in [Workers -> 0..MaxAttempts]
  /\ failed \in [Workers -> BOOLEAN]
  /\ bundle \in [Workers -> Bundles \cup {NoBundle}]
  /\ \A w \in Workers : pc[w] \in Persisting => bundle[w] \in Bundles
  /\ witnessed \in [Workers -> SUBSET Attempts]
  /\ evidence \in [Bundles -> FileStates] /\ verdict \in [Bundles -> FileStates]
  /\ attempts \in 0..MaxAttempts /\ faults \in 0..MaxFaults /\ crashes \in 0..MaxCrashes
  /\ excused \subseteq Attempts \X {"create", "prepare", "delete", "crash", "persist"}

\* Whoever finds a verdict finds the evidence it cites, and finds it whole,
\* unless a worker was killed, a write has failed or the evidence is just being
\* written (EvidenceStore.persist, HarnessVerdictStore.persist).
CitedIsFound ==
  \A b \in Bundles : verdict[b] # "none" =>
    \/ evidence[b] = "complete"
    \/ evidence[b] = "partial"
       /\ \/ \E w \in Workers : pc[w] = "write evidence" /\ bundle[w] = b
          \/ \E a \in Attempts : {<<a, "crash">>, <<a, "persist">>} \cap excused # {}

\* Evidence that a call has collected is lost, or left without a verdict, only when
\* an exception of destroy has replaced the result, the worker was killed or a store
\* could not write; a call that is repeated after such an end leaves both, whatever
\* it finds (HarnessKernel.run, the finally clause and the stores after it).
CollectedIsStored ==
  runtime \in Storing => \A w \in Workers : pc[w] = "idle" /\ bundle[w] \in Bundles =>
    \/ evidence[bundle[w]] # "none" /\ verdict[bundle[w]] # "none"
    \/ failed[w]
    \/ \E why \in {"crash", "persist"} : <<attempt[w], why>> \in excused

\* Verdicts and evidence are found together: nobody misses the evidence of a verdict, and
\* no evidence goes without one but for a known reason (HarnessKernel.run, the finally
\* clause and the two stores).
VerdictHasEvidence == CitedIsFound /\ CollectedIsStored
=============================================================================
