------------------------------ MODULE CodingProofs ------------------------------
(***************************************************************************)
(* Safety of CodingRunner for every workspace, every number of tests, and  *)
(* any number of writes and of descendants of the untrusted processes.     *)
(***************************************************************************)
EXTENDS CodingRunner, TLAPS

-----------------------------------------------------------------------------
(* The inductive invariant                                                 *)

\* Before _terminate_process_tree has answered, and after.
Supervised == {"launch", "wait", "probe", "term"}
Terminated == {"reap", "join", "close"}
Returned == {"snapshot", "launch", "done"}

\* A step is run, a step that comes has no result, and one that is supervised has
\* not been found to have left processes.
StepInv ==
  /\ pc \in Supervised \cup Terminated => step \in Steps
  /\ \A s \in Steps : s > step => result[s] = NoResult
  /\ pc \in Supervised => result[step].terminated
  /\ pc \in {"launch", "wait"} => result[step].exit = "none"

\* The leader is reaped with its exit code, the group is gone when it is said to be,
\* and a runner that has returned from a step has neither.
GroupInv ==
  /\ pc \in Supervised \cup Terminated /\ result[step].exit # "none" => leader = "none"
  /\ pc \in Terminated /\ result[step].terminated => ~GroupExists
  /\ pc \in Returned => ~GroupExists

\* Every step's processes were said to be terminated, and none has left its group.
Quiet == ~detached /\ \A s \in Steps : result[s].terminated

\* Then none is left, and what a snapshot has read is what the workspace holds.
QuietInv ==
  Quiet =>
    /\ outside = {}
    /\ pc \in {"snapshot", "done"} => \A p \in Paths \ unread : snapshot[step][p] = workspace[p]

OutcomeInv ==
  /\ outcome # "none" => pc = "done" /\ step = Tests + 2 /\ unread = {}
  /\ outcome = "pass" => PolicyChecks(result, snapshot)

IInv == TypeOK /\ StepInv /\ GroupInv /\ QuietInv /\ OutcomeInv

-----------------------------------------------------------------------------
(* Types                                                                   *)

\* _run_process returns to a snapshot, or to the next test.
LEMMA ReturnTyped ==
  ASSUME TypeOK, step \in Steps, ReturnTo
  PROVE  /\ pc' \in {"snapshot", "launch"} /\ step' \in Steps /\ unread' \in SUBSET Paths
         /\ step' \in {step, step + 1} /\ (pc' = "launch" => step' = step + 1)
         /\ (pc' = "snapshot" => step' = step /\ unread' = Paths)
<1>1. Tests \in Nat \ {0}
  BY ContractAssumption
<1> QED BY <1>1 DEF ReturnTo, Observed, TypeOK, Steps, Version, Agent

\* What _CapturedProcess says of a step is typed, whatever is known of it.
LEMMA ResultTyped ==
  ASSUME TypeOK, NEW exit \in {"none", "0", "1"}, NEW answer \in BOOLEAN
  PROVE  /\ [result EXCEPT ![step].exit = exit] \in [Steps -> Results]
         /\ [result EXCEPT ![step].timedOut = TRUE] \in [Steps -> Results]
         /\ [result EXCEPT ![step].terminated = answer] \in [Steps -> Results]
         /\ [result EXCEPT ![step].terminated = @ /\ answer] \in [Steps -> Results]
BY ZenonT(60) DEF TypeOK, Results

\* Every step keeps the types.
LEMMA TypeStep ==
  ASSUME TypeOK, StepInv, [Next]_vars
  PROVE  TypeOK'
<1>1. ASSUME SnapshotFile
      PROVE  TypeOK'
  BY <1>1 DEF SnapshotFile, untrusted, TypeOK
<1>2. ASSUME SnapshotError
      PROVE  TypeOK'
  BY <1>2 DEF SnapshotError, Goto, untrusted, TypeOK
<1>3. ASSUME SnapshotDone
      PROVE  TypeOK'
  <2>1. step' \in 0..(Tests + 2)
    BY <1>3, ContractAssumption DEF SnapshotDone, TypeOK
  <2> QED BY <1>3, <2>1 DEF SnapshotDone, Goto, untrusted, TypeOK
<1>4. ASSUME Launch
      PROVE  TypeOK'
  <2>1. step \in Steps
    BY <1>4 DEF Launch, StepInv, Supervised
  <2>2. \/ pc' = "wait" /\ leader' = "running" /\ UNCHANGED <<step, result, unread>>
        \/ result' = [result EXCEPT ![step].exit = "1"] /\ ReturnTo /\ UNCHANGED leader
    BY <1>4 DEF Launch
  <2>3. pc' \in {"wait", "snapshot", "launch"} /\ step' \in 0..(Tests + 2) /\ unread' \subseteq Paths
    BY <2>1, <2>2, ReturnTyped DEF TypeOK, Steps
  <2>4. result' \in [Steps -> Results]
    BY <2>2, ResultTyped DEF TypeOK
  <2> QED BY <1>4, <2>2, <2>3, <2>4 DEF Launch, TypeOK
<1>5. ASSUME WaitExited \/ WaitTimeout \/ KillGroup \/ Reap \/ Join
      PROVE  TypeOK'
  <2>1. result' \in [Steps -> Results]
    BY <1>5, ResultTyped, ZenonT(60) DEF WaitExited, WaitTimeout, KillGroup, Reap, Join
  <2>2. pc' \in {"probe", "reap", "join", "close"}
    BY <1>5 DEF WaitExited, WaitTimeout, KillGroup, Reap, Join, Goto, AfterTerminate
  <2> QED BY <1>5, <2>1, <2>2 DEF WaitExited, WaitTimeout, KillGroup, Reap, Join, untrusted, TypeOK
<1>6. ASSUME ProbeGone \/ Terminate \/ TermGone \/ ReapTimeout
      PROVE  TypeOK'
  BY <1>6 DEF ProbeGone, Terminate, TermGone, ReapTimeout, Goto, AfterTerminate, untrusted, TypeOK
<1>7. ASSUME Close
      PROVE  TypeOK'
  <2>1. step \in Steps
    BY <1>7 DEF Close, StepInv, Terminated
  <2>2. pc' \in {"aborted", "snapshot", "launch"} /\ step' \in 0..(Tests + 2) /\ unread' \subseteq Paths
    BY <1>7, <2>1, ReturnTyped DEF Close, LeaveStep, TypeOK, Steps
  <2> QED BY <1>7, <2>2 DEF Close, TypeOK
<1>8. ASSUME Untrusted
      PROVE  TypeOK'
  <2>1. Write => TypeOK'
    BY BoundsAssumption DEF Write, untrusted, TypeOK
  <2>2. Spawn => TypeOK'
    <3> SUFFICES ASSUME Spawn
                 PROVE  TypeOK'
      OBVIOUS
    <3>1. spawns' \in 0..MaxSpawns
      BY BoundsAssumption DEF Spawn, TypeOK
    <3> QED BY <3>1 DEF Spawn, TypeOK
  <2>3. Exit \/ Hang \/ DescendantExit => TypeOK'
    BY DEF Exit, Hang, DescendantExit, TypeOK
  <2> QED BY <1>8, <2>1, <2>2, <2>3 DEF Untrusted
<1>9. CASE UNCHANGED vars
  BY <1>9 DEF vars, untrusted, TypeOK
<1> QED BY <1>1, <1>2, <1>3, <1>4, <1>5, <1>6, <1>7, <1>8, <1>9 DEF Next, Runner

-----------------------------------------------------------------------------
(* The steps and their process groups                                      *)

\* The untrusted processes cannot touch what the runner knows.
LEMMA UntrustedLeaves ==
  ASSUME Untrusted
  PROVE  UNCHANGED <<pc, step, result, unread, snapshot, outcome>>
BY DEF Untrusted, Write, Spawn, Exit, Hang, DescendantExit, untrusted

\* Every step keeps the results of those that come empty.
LEMMA StepStep ==
  ASSUME TypeOK, StepInv, [Next]_vars
  PROVE  StepInv'
<1> USE DEF Supervised, Terminated, Goto
<1>0. /\ Tests \in Nat \ {0} /\ step \in Nat /\ step <= Tests + 2
      /\ result \in [Steps -> Results] /\ (step # 0 => step \in Steps)
  BY ContractAssumption DEF TypeOK, Steps
<1>1. ASSUME SnapshotFile \/ SnapshotError \/ ProbeGone \/ TermGone \/ Terminate \/ ReapTimeout
      PROVE  StepInv'
  BY <1>1 DEF SnapshotFile, SnapshotError, ProbeGone, TermGone, Terminate, ReapTimeout, AfterTerminate, untrusted, StepInv
<1>2. ASSUME SnapshotDone
      PROVE  StepInv'
  <2>1. CASE step = Tests + 2
    BY <1>2, <2>1 DEF SnapshotDone, StepInv
  <2>2. CASE step # Tests + 2
    <3>1. /\ step' = step + 1 /\ pc' = "launch" /\ result' = result /\ step' \in Steps
          /\ step' > step
      BY <1>0, <1>2, <2>2 DEF SnapshotDone, Steps
    <3>2. result[step'] = NoResult
      BY <3>1 DEF StepInv
    <3>3. \A s \in Steps : s > step' => s > step
      BY <1>0, <3>1 DEF Steps
    <3> QED BY <3>1, <3>2, <3>3 DEF StepInv, NoResult
  <2> QED BY <2>1, <2>2
<1>3. ASSUME Launch \/ Close
      PROVE  StepInv'
  <2>1. step \in Steps /\ pc \in {"launch", "close"}
    BY <1>3 DEF Launch, Close, StepInv
  <2>2. \/ pc' \in {"wait", "aborted"} /\ UNCHANGED <<step, result>> /\ (pc' = "wait" => pc = "launch")
        \/ ReturnTo /\ \A s \in Steps : s # step => result'[s] = result[s]
    BY <1>0, <1>3 DEF Launch, Close, LeaveStep
  <2>3. CASE pc' \in {"wait", "aborted"} /\ UNCHANGED <<step, result>> /\ (pc' = "wait" => pc = "launch")
    BY <2>1, <2>3 DEF StepInv
  <2>4. CASE ReturnTo /\ \A s \in Steps : s # step => result'[s] = result[s]
    <3>1. /\ pc' \in {"snapshot", "launch"} /\ step' \in Steps /\ step' \in {step, step + 1}
          /\ pc' = "launch" => step' = step + 1
      BY <2>1, <2>4, ReturnTyped
    <3>2. \A s \in Steps : s > step' => s > step /\ s # step
      BY <1>0, <3>1 DEF Steps
    <3>3. pc' = "launch" => result'[step'] = NoResult
      <4>1. step + 1 > step /\ step + 1 # step
        BY <1>0
      <4> QED BY <2>4, <3>1, <4>1 DEF StepInv
    <3> QED BY <2>4, <3>1, <3>2, <3>3 DEF StepInv, NoResult
  <2> QED BY <2>2, <2>3, <2>4
<1>4. ASSUME WaitExited \/ WaitTimeout \/ KillGroup \/ Reap \/ Join
      PROVE  StepInv'
  <2>1. /\ step \in Steps /\ step' = step /\ pc' \in {"probe", "reap", "join", "close"}
        /\ pc' = "probe" => pc = "wait"
    BY <1>4 DEF WaitExited, WaitTimeout, KillGroup, Reap, Join, AfterTerminate, StepInv
  <2>2. \A s \in Steps : s # step => result'[s] = result[s]
    BY <1>0, <1>4 DEF WaitExited, WaitTimeout, KillGroup, Reap, Join
  <2>3. \A s \in Steps : s > step => s # step
    BY <1>0 DEF Steps
  <2>4. pc' = "probe" => result'[step].terminated = result[step].terminated
    BY <1>0, <1>4, <2>1 DEF WaitExited, WaitTimeout, KillGroup, Reap, Join, AfterTerminate, Results
  <2> QED BY <2>1, <2>2, <2>3, <2>4 DEF StepInv
<1>5. CASE Untrusted \/ UNCHANGED vars
  BY <1>5, UntrustedLeaves DEF vars, StepInv
<1> QED BY <1>1, <1>2, <1>3, <1>4, <1>5 DEF Next, Runner

\* Every step keeps what is said of the process group true.
LEMMA GroupStep ==
  ASSUME TypeOK, StepInv, GroupInv, [Next]_vars
  PROVE  GroupInv'
<1> USE DEF Supervised, Terminated, Returned, Goto, GroupExists
<1>0. /\ result \in [Steps -> Results] /\ (pc \in Supervised \cup Terminated => step \in Steps)
  BY DEF TypeOK, StepInv
<1>1. ASSUME SnapshotFile \/ SnapshotError \/ SnapshotDone
      PROVE  GroupInv'
  <2>1. /\ pc = "snapshot" /\ UNCHANGED <<leader, member, result>>
        /\ pc' \in {"snapshot", "aborted", "done", "launch"}
    BY <1>1 DEF SnapshotFile, SnapshotError, SnapshotDone, untrusted
  <2> QED BY <2>1 DEF GroupInv
<1>2. ASSUME Launch
      PROVE  GroupInv'
  <2>1. CASE pc' = "wait" /\ UNCHANGED <<step, result, unread>>
    BY <1>2, <2>1 DEF Launch, StepInv, GroupInv
  <2>2. CASE ReturnTo /\ UNCHANGED leader
    <3>1. pc' \in {"snapshot", "launch"} /\ UNCHANGED <<leader, member>> /\ leader = "none" /\ member = "none"
      BY <1>0, <1>2, <2>2, ReturnTyped DEF Launch, GroupInv
    <3> QED BY <3>1 DEF GroupInv
  <2> QED BY <1>2, <2>1, <2>2 DEF Launch
<1>3. ASSUME WaitExited \/ WaitTimeout
      PROVE  GroupInv'
  <2>1. pc = "wait" /\ pc' = "probe" /\ step' = step /\ step \in Steps /\ result[step].exit = "none"
    BY <1>3 DEF WaitExited, WaitTimeout, StepInv
  <2>2. leader' = "none" \/ result'[step].exit = "none"
    BY <1>0, <1>3, <2>1 DEF WaitExited, WaitTimeout, Results
  <2> QED BY <2>1, <2>2 DEF GroupInv
<1>4. ASSUME ProbeGone \/ TermGone
      PROVE  GroupInv'
  BY <1>4 DEF ProbeGone, TermGone, AfterTerminate, untrusted, GroupInv
<1>5. ASSUME Terminate
      PROVE  GroupInv'
  BY <1>5 DEF Terminate, GroupInv
<1>6. ASSUME KillGroup
      PROVE  GroupInv'
  <2>1. /\ pc' \in {"reap", "join"} /\ pc = "term" /\ step' = step /\ step \in Steps
        /\ leader = "none" => leader' = "none"
    BY <1>6 DEF KillGroup, AfterTerminate, StepInv
  <2>2. result'[step].exit = result[step].exit
    BY <1>0, <1>6, <2>1 DEF KillGroup, Results
  <2>3. result'[step].terminated = ~GroupExists'
    BY <1>0, <1>6, <2>1 DEF KillGroup, Results
  <2> QED BY <2>1, <2>2, <2>3 DEF GroupInv
<1>7. ASSUME Reap
      PROVE  GroupInv'
  <2>1. pc' = "join" /\ pc = "reap" /\ step' = step /\ step \in Steps /\ leader' = "none" /\ member' = member
    BY <1>7 DEF Reap, StepInv
  <2>2. result'[step].terminated = result[step].terminated
    BY <1>0, <1>7, <2>1 DEF Reap, Results
  <2> QED BY <2>1, <2>2 DEF GroupInv
<1>8. ASSUME ReapTimeout
      PROVE  GroupInv'
  BY <1>8 DEF ReapTimeout, untrusted, GroupInv
<1>9. ASSUME Join
      PROVE  GroupInv'
  <2>1. pc' = "close" /\ pc = "join" /\ step' = step /\ step \in Steps /\ UNCHANGED <<leader, member>>
    BY <1>9 DEF Join, untrusted, StepInv
  <2>2. result'[step].exit = result[step].exit
    BY <1>0, <1>9, <2>1 DEF Join, Results
  <2>3. result'[step].terminated => result[step].terminated
    BY <1>0, <1>9, <2>1 DEF Join, Results
  <2> QED BY <2>1, <2>2, <2>3 DEF GroupInv
<1>10. ASSUME Close
      PROVE  GroupInv'
  <2>1. /\ pc = "close" /\ step \in Steps /\ member' = "none" /\ UNCHANGED <<leader, result>>
        /\ \/ result[step].exit = "none" /\ pc' = "aborted"
           \/ result[step].exit # "none" /\ ReturnTo
    BY <1>10 DEF Close, LeaveStep, StepInv
  <2>2. result[step].exit # "none" => pc' \in {"snapshot", "launch"} /\ leader = "none"
    BY <2>1, ReturnTyped DEF GroupInv
  <2> QED BY <2>1, <2>2 DEF GroupInv
<1>11. CASE Untrusted
  <2>1. UNCHANGED <<pc, step, result>>
    BY <1>11, UntrustedLeaves
  <2>2. leader = "none" => leader' = "none"
    BY <1>11 DEF Untrusted, Write, Spawn, Exit, Hang, DescendantExit, untrusted
  <2>3. ~GroupExists => ~GroupExists'
    BY <1>11 DEF Untrusted, Write, Spawn, Exit, Hang, DescendantExit, untrusted
  <2> QED BY <2>1, <2>2, <2>3 DEF GroupInv
<1>12. CASE UNCHANGED vars
  BY <1>12 DEF vars, untrusted, GroupInv
<1> QED BY <1>1, <1>2, <1>3, <1>4, <1>5, <1>6, <1>7, <1>8, <1>9, <1>10, <1>11, <1>12 DEF Next, Runner

-----------------------------------------------------------------------------
(* The workspace of quiet steps                                            *)

\* A runner that has returned from quiet steps is alone with the workspace.
LEMMA AloneWhenQuiet ==
  ASSUME GroupInv, QuietInv, Quiet, pc \in Returned
  PROVE  ~Alive
BY DEF GroupInv, QuietInv, GroupExists, Alive

\* A result that says that processes are left is never taken back, and neither is
\* that one has left its group.
LEMMA QuietAlways ==
  ASSUME TypeOK, StepInv, [Next]_vars, Quiet'
  PROVE  Quiet
<1> USE DEF Next, Runner, SnapshotFile, SnapshotError, SnapshotDone, Launch, WaitExited, WaitTimeout, ProbeGone,
            Terminate, TermGone, KillGroup, Reap, ReapTimeout, Join, Close, Goto, vars
<1>1. result \in [Steps -> Results]
  BY DEF TypeOK
<1>2. \A s \in Steps : s # step => result'[s] = result[s]
  BY <1>1, UntrustedLeaves
<1>3. pc # "term" => \A s \in Steps : result'[s].terminated => result[s].terminated
  BY <1>1, UntrustedLeaves DEF Results
<1>4. pc = "term" => result[step].terminated
  BY DEF StepInv, Supervised
<1>5. detached => detached'
  BY DEF Untrusted, Write, Spawn, Exit, Hang, DescendantExit
<1> QED BY <1>2, <1>3, <1>4, <1>5 DEF Quiet

\* Without anybody else, what a snapshot has read stays so.
LEMMA QuietStep ==
  ASSUME TypeOK, StepInv, GroupInv, QuietInv, [Next]_vars
  PROVE  QuietInv'
<1> USE DEF Goto, Returned
<1> SUFFICES ASSUME Quiet'
             PROVE  /\ outside' = {}
                    /\ pc' \in {"snapshot", "done"} =>
                         \A p \in Paths \ unread' : snapshot'[step'][p] = workspace'[p]
  BY DEF QuietInv
<1>0. Quiet /\ outside = {}
  BY QuietAlways DEF QuietInv
<1>1. outside' = {}
  <2>1. Close => outside' = {}
    <3> SUFFICES ASSUME Close
                 PROVE  member = "none"
      BY <1>0 DEF Close
    <3>1. pc = "close" /\ step \in Steps /\ result[step].terminated
      BY <1>0 DEF Close, StepInv, Terminated, Quiet
    <3> QED BY <3>1 DEF GroupInv, Terminated, GroupExists
  <2>2. Untrusted => outside' = {}
    BY <1>0 DEF Untrusted, Write, Spawn, Exit, Hang, DescendantExit, untrusted, Quiet
  <2> QED BY <1>0, <2>1, <2>2 DEF Next, Runner, SnapshotFile, SnapshotError, SnapshotDone, Launch, WaitExited,
             WaitTimeout, ProbeGone, Terminate, TermGone, KillGroup, Reap, ReapTimeout, Join, untrusted, vars
<1>2. CASE pc \notin {"snapshot", "done"}
  <2>1. pc' \in {"snapshot", "done"} => unread' = Paths
    <3>1. Launch \/ Close => (pc' \in {"snapshot", "done"} => unread' = Paths)
      BY DEF Launch, Close, LeaveStep, ReturnTo
    <3>2. Untrusted => pc' = pc
      BY UntrustedLeaves
    <3> QED BY <1>2, <3>1, <3>2 DEF Next, Runner, SnapshotFile, SnapshotError, SnapshotDone, WaitExited, WaitTimeout,
             ProbeGone, Terminate, TermGone, KillGroup, Reap, ReapTimeout, Join, AfterTerminate, vars
  <2> QED BY <1>1, <2>1
<1>3. CASE pc \in {"snapshot", "done"}
  <2>0. /\ ~Alive /\ \A p \in Paths \ unread : snapshot[step][p] = workspace[p]
        /\ step \in 0..(Tests + 2) /\ unread \subseteq Paths
        /\ snapshot \in [0..(Tests + 2) -> [Paths -> Contents]]
    BY <1>0, <1>3, AloneWhenQuiet DEF QuietInv, TypeOK
  <2>1. workspace' = workspace
    BY <2>0 DEF Next, Runner, Untrusted, SnapshotFile, SnapshotError, SnapshotDone, Launch, WaitExited, WaitTimeout,
             ProbeGone, Terminate, TermGone, KillGroup, Reap, ReapTimeout, Join, Close, vars,
             Write, Spawn, Exit, Hang, DescendantExit
  <2>2. CASE SnapshotFile
    <3> DEFINE p == CHOOSE q \in unread : TRUE
    <3>1. /\ p \in unread /\ unread' = unread \ {p} /\ step' = step
          /\ snapshot' = [snapshot EXCEPT ![step][p] = workspace[p]]
      BY <2>2 DEF SnapshotFile
    <3> HIDE DEF p
    <3>2. \A q \in Paths : snapshot'[step][q] = (IF q = p THEN workspace[p] ELSE snapshot[step][q])
      BY <2>0, <3>1
    <3>3. \A q \in Paths \ unread' : q = p \/ q \in Paths \ unread
      BY <3>1
    <3> QED BY <1>1, <2>0, <2>1, <3>1, <3>2, <3>3
  <2>3. CASE ~SnapshotFile
    <3>1. /\ UNCHANGED <<unread, snapshot>>
          /\ pc' \in {"snapshot", "done"} => step' = step
      BY <1>3, <2>3, UntrustedLeaves DEF Next, Runner, SnapshotError, SnapshotDone, Launch, WaitExited, WaitTimeout,
             ProbeGone, Terminate, TermGone, KillGroup, Reap, ReapTimeout, Join, Close, vars
    <3> QED BY <1>1, <2>0, <2>1, <3>1
  <2> QED BY <2>2, <2>3
<1> QED BY <1>1, <1>2, <1>3

\* The receipt is made from the last snapshot, and the runner is done with it.
LEMMA OutcomeStep ==
  ASSUME TypeOK, OutcomeInv, [Next]_vars
  PROVE  OutcomeInv'
<1>1. CASE outcome' # outcome
  <2>1. SnapshotDone /\ step = Tests + 2
    BY <1>1, UntrustedLeaves DEF Next, Runner, SnapshotFile, SnapshotError, SnapshotDone, Launch, WaitExited,
             WaitTimeout, ProbeGone, Terminate, TermGone, KillGroup, Reap, ReapTimeout, Join, Close, vars
  <2>2. /\ pc' = "done" /\ unread' = {} /\ step' = step /\ UNCHANGED <<result, snapshot>>
        /\ outcome' = IF PolicyChecks(result, snapshot) THEN "pass" ELSE "fail"
    BY <2>1 DEF SnapshotDone, Goto
  <2> QED BY <2>1, <2>2 DEF OutcomeInv
<1>2. CASE outcome' = outcome /\ outcome # "none"
  <2>1. pc = "done"
    BY <1>2 DEF OutcomeInv
  <2>2. UNCHANGED <<pc, step, unread, result, snapshot>>
    BY <2>1, UntrustedLeaves DEF Next, Runner, SnapshotFile, SnapshotError, SnapshotDone, Launch, WaitExited,
             WaitTimeout, ProbeGone, Terminate, TermGone, KillGroup, Reap, ReapTimeout, Join, Close, Goto, vars
  <2> QED BY <1>2, <2>2 DEF OutcomeInv
<1>3. CASE outcome' = outcome /\ outcome = "none"
  BY <1>3 DEF OutcomeInv
<1> QED BY <1>1, <1>2, <1>3

-----------------------------------------------------------------------------
(* Theorems                                                                *)

\* The first state: nothing has run.
LEMMA InvInit ==
  ASSUME Init
  PROVE  IInv
<1>1. TypeOK
  <2>1. workspace \in [Paths -> Contents] /\ snapshot \in [0..(Tests + 2) -> [Paths -> Contents]]
    BY DEF Init, Contents
  <2>2. result \in [Steps -> Results] /\ outside \subseteq {"detached", "holding"}
    BY DEF Init, Results, NoResult
  <2>3. step \in 0..(Tests + 2) /\ writes \in 0..MaxWrites /\ spawns \in 0..MaxSpawns
    BY ContractAssumption, BoundsAssumption DEF Init
  <2> QED BY <2>1, <2>2, <2>3 DEF Init, TypeOK
<1>2. StepInv /\ GroupInv
  BY DEF Init, StepInv, GroupInv, GroupExists, Supervised, Terminated, Returned
<1>3. QuietInv /\ OutcomeInv
  BY DEF Init, QuietInv, OutcomeInv
<1> QED BY <1>1, <1>2, <1>3 DEF IInv

\* The invariant is inductive.
LEMMA InvAlways == Spec => []IInv
<1>1. IInv /\ [Next]_vars => IInv'
  BY TypeStep, StepStep, GroupStep, QuietStep, OutcomeStep DEF IInv
<1> QED BY <1>1, InvInit, PTL DEF Spec

\* Type correctness of the runner and the processes it watches.
THEOREM TypeCorrect == Spec => []TypeOK
<1>1. IInv => TypeOK
  BY DEF IInv
<1> QED BY <1>1, InvAlways, PTL

\* A pass is about the workspace the caller gets, whatever the agent has written and
\* spawned, unless a descendant has left its process group: the last snapshot was
\* taken when no process was left, and every difference from the baseline is within
\* the policy (execute_coding_agent).
THEOREM PassesAreFinal == Spec => []PassIsFinal
<1>1. IInv => PassIsFinal
  <2> SUFFICES ASSUME IInv, outcome = "pass", ~detached
               PROVE  /\ workspace = snapshot[Agent]
                      /\ Changed(snapshot[0], workspace) \subseteq Allowed \ Protected
                      /\ Cardinality(Changed(snapshot[0], workspace)) <= MaxChangedFiles
                      /\ ~Alive
    BY DEF PassIsFinal
  <2>1. PolicyChecks(result, snapshot) /\ pc = "done" /\ step = Tests + 2 /\ unread = {}
    BY DEF IInv, OutcomeInv
  <2>2. Quiet
    BY <2>1 DEF PolicyChecks, Passed, Quiet
  <2>3. ~Alive
    BY <2>1, <2>2, AloneWhenQuiet DEF IInv, Returned
  <2>4. \A p \in Paths : snapshot[Tests + 2][p] = workspace[p]
    BY <2>1, <2>2 DEF IInv, QuietInv
  <2>5. snapshot[Tests + 2] = workspace
    BY <2>4, ContractAssumption DEF IInv, TypeOK
  <2>6. snapshot[Agent] = workspace /\ snapshot[Version] = snapshot[0]
    BY <2>1, <2>5 DEF PolicyChecks
  <2> QED BY <2>1, <2>3, <2>6 DEF PolicyChecks
<1> QED BY <1>1, InvAlways, PTL

\* Where _run_process says that the process tree was terminated, the leader and its
\* group are gone (_terminate_process_tree).
THEOREM TerminationIsReal == Spec => TerminatedMeansDead
<1>1. IInv /\ [Next]_vars => [pc = "close" /\ pc' # "close" /\ result[step].terminated => ~GroupExists]_vars
  BY DEF IInv, GroupInv, Terminated
<1> QED BY <1>1, InvAlways, PTL DEF Spec, TerminatedMeansDead
=============================================================================
