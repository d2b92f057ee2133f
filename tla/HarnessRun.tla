------------------------------ MODULE HarnessRun ------------------------------
(***************************************************************************)
(* HarnessKernel.run by workers that have the OpenShell or the Cloudflare  *)
(* runtime (runtime.py); runs on different runtimes have no sandbox in     *)
(* common, and their evidence differs.                                     *)
(***************************************************************************)
EXTENDS OpenShellRun, CloudflareRun

vars == <<call, pc, failed, bundle, witnessed, files, counters, excused, gateway, cloud>>

Init == KernelInit /\ OpenShellInit /\ CloudflareInit

OnOpenShell(w) == runtime = "openshell" /\ OpenShellStep(w) /\ UNCHANGED cloud

OnCloudflare(w) == runtime = "cloudflare" /\ CloudflareStep(w) /\ UNCHANGED gateway

InKernel(w) == KernelStep(w) /\ UNCHANGED <<gateway, cloud>>

Next ==
  \/ \E w \in Workers : InKernel(w) \/ OnOpenShell(w) \/ OnCloudflare(w)
  \/ Egress /\ UNCHANGED <<call, pc, failed, bundle, witnessed, files, counters, excused, gateway>>

Spec == Init /\ [][Next]_vars

-----------------------------------------------------------------------------
(* Properties                                                              *)

\* The kinds of values; evidence is persisted when there is some, and commands
\* run in containers.
TypeOK == KernelTypeOK /\ OpenShellTypeOK /\ CloudflareTypeOK

\* The attempts a sandbox, a container or the mark of a telemetry object is there for.
Owners == {object[r] : object \in {sandbox, container, seen}, r \in RunIds} \ {0}

\* Those whose events are in a telemetry object.
Authors == UNION {{events[r][i].by : i \in DOMAIN events[r]} : r \in RunIds}

\* A sandbox, a container or telemetry, its events included, outlives its run only
\* when a step of prepare has failed, the deletion has failed, or the worker was
\* killed; an event also when it was on its way while telemetry was deleted, as it is
\* put after that (HarnessKernel.run, the two controllers, DELETE of the Worker,
\* Telemetry.fetch).
LeftoversExplained ==
  LET Excused(a) == \E why \in {"create", "prepare", "delete", "crash"} : <<a, why>> \in excused
  IN /\ \A a \in Owners : InProgress(a) \/ Excused(a)
     /\ \A a \in Authors : InProgress(a) \/ Excused(a) \/ a \in strayed

\* docs/STATE_MACHINES.md: "Cleanup runs even after failures."  What was created
\* is left only where delete itself has failed or could not be called.
CleanupRuns ==
  \A a \in Owners :
    InProgress(a) \/ \E why \in {"create", "delete", "crash"} : <<a, why>> \in excused
=============================================================================
