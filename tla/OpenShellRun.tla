------------------------------ MODULE OpenShellRun ------------------------------
(***************************************************************************)
(* HarnessKernel.run on the OpenShell runtime: openshell.py and            *)
(* runtime_harness_controllers.py.                                         *)
(*                                                                         *)
(* Workers meet in the OpenShell gateway, where the name of a sandbox      *)
(* follows from the run id.  A run that is repeated keeps its id.  The     *)
(* gateway refuses to create a name twice and to delete a name it does not *)
(* have.  A call of the CLI that ends in an error or a timeout may or may  *)
(* not have had its effect.                                                *)
(***************************************************************************)
EXTENDS KernelRun

VARIABLES
  sandbox,   \* sandbox[r]: the attempt that has created r's sandbox, 0: there is none
  ran        \* ran[r]: the attempts whose command ran in that sandbox

gateway == <<sandbox, ran>>

OpenShellInit == sandbox = [r \in RunIds |-> 0] /\ ran = [r \in RunIds |-> {}]

Name(w) == run[w]
Exists(r) == sandbox[r] # 0

Created(w) ==
  /\ sandbox' = [sandbox EXCEPT ![Name(w)] = attempt[w]]
  /\ ran' = [ran EXCEPT ![Name(w)] = {}]

Deleted(w) ==
  /\ sandbox' = [sandbox EXCEPT ![Name(w)] = 0]
  /\ ran' = [ran EXCEPT ![Name(w)] = {}]

-----------------------------------------------------------------------------
(* OpenShellController.prepare *)

Create(w) ==
  /\ Goto(w, "create", "configure")
  /\ ~Exists(Name(w))
  /\ Created(w)
  /\ UNCHANGED <<call, failed, bundle, witnessed, files, counters, excused>>

\* Mutant: whatever has the name is deleted when it cannot be created.
CreateRefusedDelete(w) ==
  /\ Goto(w, "create", "idle")
  /\ Exists(Name(w))
  /\ Deleted(w)
  /\ UNCHANGED <<call, failed, bundle, witnessed, files, counters, excused>>

\* The name is taken: prepare raises, and leaves the sandbox alone.
CreateRefused(w) ==
  /\ Goto(w, "create", "idle")
  /\ Exists(Name(w))
  /\ UNCHANGED <<call, failed, bundle, witnessed, gateway, files, counters, excused>>

\* Status, gateway info or create fails; nobody deletes what was created.
CreateFault(w) ==
  /\ Goto(w, "create", "idle")
  /\ Fault
  /\ \/ UNCHANGED <<gateway, excused>>
     \/ ~Exists(Name(w)) /\ Created(w) /\ LeftBehind(w, "create")
  /\ UNCHANGED <<call, failed, bundle, witnessed, files>>

\* The metadata is read and attested, OCSF is enabled, the credential probe and
\* the first manifest are taken.
Configure(w) ==
  /\ Goto(w, "configure", "execute")
  /\ Exists(Name(w))
  /\ UNCHANGED <<call, failed, bundle, witnessed, gateway, files, counters, excused>>

\* OCSF cannot be enabled: the sandbox is deleted, with luck.
EnableOcsfFails(w) ==
  /\ Goto(w, "configure", "idle")
  /\ Fault
  /\ \/ Deleted(w) /\ UNCHANGED excused
     \/ LeftBehind(w, "delete") /\ UNCHANGED gateway
  /\ UNCHANGED <<call, failed, bundle, witnessed, files>>

\* Anything else in prepare fails: the exception leaves the sandbox behind.
PrepareFails(w) ==
  /\ Goto(w, "configure", "idle")
  /\ Fault
  /\ LeftBehind(w, "prepare")
  /\ UNCHANGED <<call, failed, bundle, witnessed, gateway, files>>

\* OpenShellHarnessController.execute; the exit code is part of the evidence.
Execute(w) ==
  /\ Goto(w, "execute", "collect")
  /\ ran' = [ran EXCEPT ![Name(w)] = @ \cup {attempt[w]}]
  /\ UNCHANGED <<call, failed, bundle, witnessed, sandbox, files, counters, excused>>

\* The CLI is given up on; the command may have run.
ExecuteFails(w) ==
  /\ Goto(w, "execute", "destroy")
  /\ Fault
  /\ failed' = [failed EXCEPT ![w] = TRUE]
  /\ \/ UNCHANGED ran
     \/ ran' = [ran EXCEPT ![Name(w)] = @ \cup {attempt[w]}]
  /\ UNCHANGED <<call, bundle, witnessed, sandbox, files, excused>>

\* collect, normalize_evidence and attach_run_receipts.
Collect(w) ==
  /\ Goto(w, "collect", "destroy")
  /\ Exists(Name(w))
  /\ \E b \in Bundles : /\ b.run = run[w] /\ b.backend = "openshell"
                        /\ bundle' = [bundle EXCEPT ![w] = b]
  /\ witnessed' = [witnessed EXCEPT ![w] = ran[Name(w)]]
  /\ UNCHANGED <<call, failed, gateway, files, counters, excused>>

\* Mutant: destroy is not in a finally clause.
CollectFailsUnprotected(w) ==
  /\ Goto(w, "collect", "idle")
  /\ Fault
  /\ failed' = [failed EXCEPT ![w] = TRUE]
  /\ UNCHANGED <<call, bundle, witnessed, gateway, files, excused>>

\* Mutant: the exception is swallowed.
CollectFailsSilently(w) ==
  /\ Goto(w, "collect", "destroy")
  /\ Fault
  /\ UNCHANGED <<call, failed, bundle, witnessed, gateway, files, excused>>

\* The policy, the logs or OCSF events are missing, or the domain's receipt is
\* not what the adapter expects.
CollectFails(w) ==
  /\ Goto(w, "collect", "destroy")
  /\ Fault
  /\ failed' = [failed EXCEPT ![w] = TRUE]
  /\ UNCHANGED <<call, bundle, witnessed, gateway, files, excused>>

\* Mutant: the evidence is not stored before the verdict.
DestroyThenVerdict(w) ==
  /\ Goto(w, "destroy", IF failed[w] THEN "idle" ELSE "verdict")
  /\ Exists(Name(w))
  /\ Deleted(w)
  /\ UNCHANGED <<call, failed, bundle, witnessed, files, counters, excused>>

Destroy(w) ==
  /\ Goto(w, "destroy", Concluded(w))
  /\ Exists(Name(w))
  /\ Deleted(w)
  /\ UNCHANGED <<call, failed, bundle, witnessed, files, counters, excused>>

\* Delete fails: whatever has been collected is dropped, there is no verdict.
DestroyFails(w) ==
  /\ Goto(w, "destroy", "idle")
  /\ Fault
  /\ failed' = [failed EXCEPT ![w] = TRUE]
  /\ \/ Deleted(w) /\ UNCHANGED excused
     \/ LeftBehind(w, "delete") /\ UNCHANGED gateway
  /\ UNCHANGED <<call, bundle, witnessed, files>>

OpenShellStep(w) ==
  \/ Create(w) \/ CreateRefused(w) \/ CreateFault(w)
  \/ Configure(w) \/ EnableOcsfFails(w) \/ PrepareFails(w)
  \/ Execute(w) \/ ExecuteFails(w)
  \/ Collect(w) \/ CollectFails(w)
  \/ Destroy(w) \/ DestroyFails(w)

-----------------------------------------------------------------------------
OpenShellTypeOK ==
  sandbox \in [RunIds -> 0..MaxAttempts] /\ ran \in [RunIds -> SUBSET Attempts]

\* From the end of create to destroy a run on OpenShell has a sandbox that it has
\* created itself and in which no other run's command was executed, and so a
\* verdict is about its own command alone, even if run ids are reused or a
\* predecessor has crashed (OpenShellController.prepare).
SandboxOfItsOwn ==
  runtime = "openshell" => \A w \in Workers :
    /\ pc[w] \in Holding => sandbox[run[w]] = attempt[w] /\ ran[run[w]] \subseteq {attempt[w]}
    /\ pc[w] \in Persisting => witnessed[w] = {attempt[w]}
=============================================================================
