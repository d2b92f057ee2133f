----------------------------- MODULE CodingRunner -----------------------------
(***************************************************************************)
(* The trusted coding-agent runner, coding_agent.py: execute_coding_agent  *)
(* runs a version probe, an untrusted agent and the test commands one      *)
(* after another, each in a POSIX session of its own, takes snapshots of   *)
(* the workspace between them and issues a receipt.                        *)
(*                                                                         *)
(* A step's processes are its leader (the direct child), at most one       *)
(* descendant in the leader's process group and descendants that have left *)
(* it for a session of their own: detached ones have closed the standard   *)
(* streams, holding ones have not.  A stuck process does not react to      *)
(* SIGKILL (yet), and neither does a quiet one, which has closed the       *)
(* standard streams.  Whatever is alive may write to the workspace.        *)
(***************************************************************************)
EXTENDS Naturals, FiniteSets

CONSTANTS
  Paths,            \* the files of the workspace that are not ignored
  Allowed,          \* those that match allowed_change_globs
  Protected,        \* those that match protected_change_globs
  MaxChangedFiles,  \* CodingAgentContract.max_changed_files
  Tests,            \* number of test commands
  MaxWrites,        \* bound on writes to the workspace
  MaxSpawns         \* bound on descendants

ASSUME ContractAssumption ==
  /\ Allowed \subseteq Paths /\ Protected \subseteq Paths /\ IsFiniteSet(Paths)
  /\ MaxChangedFiles \in Nat /\ Tests \in Nat \ {0}
ASSUME BoundsAssumption == MaxWrites \in Nat /\ MaxSpawns \in Nat

\* A link is one that resolves outside of the workspace.
Contents == {"old", "new", "link"}

Version == 1
Agent == 2
Steps == 1..(Tests + 2)

VARIABLES
  workspace,  \* the content of every path
  leader,     \* the direct child: "none", "running", "stuck" or "zombie"
  member,     \* the descendant in its group: "none", "plain", "stubborn", "stuck" or "quiet"
  outside,    \* descendants in no group the runner kills: "detached", "holding"
  pc,         \* where _run_process or execute_coding_agent is
  step,       \* the process that is run, or was run last
  result,     \* result[s]: what _CapturedProcess says of step s
  unread,     \* paths the snapshot in progress has not read
  snapshot,   \* the snapshot taken after step s, the baseline at 0
  outcome,    \* of the receipt, or "none"
  detached,   \* history: has a descendant ever left its group?
  writes, spawns

untrusted == <<leader, member, outside>>
vars == <<workspace, untrusted, pc, step, result, unread, snapshot, outcome, detached, writes, spawns>>

NoResult == [exit |-> "none", timedOut |-> FALSE, terminated |-> TRUE]

-----------------------------------------------------------------------------
(* The receipt                                                             *)

Changed(before, after) == {p \in Paths : before[p] # after[p]}

\* _CapturedProcess.result; exit "0" stands for exit code 0 and acceptable
\* output (not truncated, the version found, the events well formed).
Passed(r) == r.exit = "0" /\ ~r.timedOut /\ r.terminated

\* Mutant: the trees are not checked.
ChecksWithoutTrees(results, snaps) ==
  LET changes == Changed(snaps[Version], snaps[Agent])
  IN /\ \A s \in Steps : results[s].exit = "0" /\ ~results[s].timedOut
     /\ changes \subseteq Allowed
     /\ changes \cap Protected = {}
     /\ Cardinality(changes) <= MaxChangedFiles
     /\ \A p \in Paths : snaps[Agent][p] # "link"
     /\ snaps[0] = snaps[Version]
     /\ snaps[Agent] = snaps[Tests + 2]

\* Mutant: a test may change the workspace.
ChecksWithoutPostTest(results, snaps) ==
  LET changes == Changed(snaps[Version], snaps[Agent])
  IN /\ \A s \in Steps : Passed(results[s])
     /\ changes \subseteq Allowed
     /\ changes \cap Protected = {}
     /\ Cardinality(changes) <= MaxChangedFiles
     /\ \A p \in Paths : snaps[Agent][p] # "link"
     /\ snaps[0] = snaps[Version]

\* policy_checks: all of them hold.
PolicyChecks(results, snaps) ==
  LET changes == Changed(snaps[Version], snaps[Agent])
  IN /\ \A s \in Steps : Passed(results[s])
     /\ changes \subseteq Allowed
     /\ changes \cap Protected = {}
     /\ Cardinality(changes) <= MaxChangedFiles
     /\ \A p \in Paths : snaps[Agent][p] # "link"
     /\ snaps[0] = snaps[Version]
     /\ snaps[Agent] = snaps[Tests + 2]

-----------------------------------------------------------------------------
Init ==
  /\ workspace = [p \in Paths |-> "old"]
  /\ leader = "none" /\ member = "none" /\ outside = {}
  /\ pc = "snapshot" /\ step = 0
  /\ result = [s \in Steps |-> NoResult]
  /\ unread = Paths
  /\ snapshot = [s \in 0..(Tests + 2) |-> workspace]
  /\ outcome = "none"
  /\ detached = FALSE
  /\ writes = 0 /\ spawns = 0

Goto(from, to) == pc = from /\ pc' = to

(* execute_coding_agent                                                    *)

\* Mutant: the snapshot after the last test is forgotten.
ObservedBeforeTests(s) == s \in {0, Version, Agent}

\* Is a snapshot taken after this step?  Not between two tests.
Observed(s) == s \in {0, Version, Agent, Tests + 2}

\* _snapshot reads one file after the other, while others may write.
SnapshotFile ==
  LET p == CHOOSE q \in unread : TRUE
  IN /\ pc = "snapshot"
     /\ unread # {}
     /\ unread' = unread \ {p}
     /\ snapshot' = [snapshot EXCEPT ![step][p] = workspace[p]]
     /\ UNCHANGED <<workspace, untrusted, pc, step, result, outcome, detached, writes, spawns>>

\* A file disappears between os.walk and open: main ends without a receipt.
SnapshotError ==
  /\ Goto("snapshot", "aborted")
  /\ unread # {}
  /\ member # "none" \/ outside # {}
  /\ UNCHANGED <<workspace, untrusted, step, result, unread, snapshot, outcome, detached, writes, spawns>>

SnapshotDone ==
  /\ Goto("snapshot", IF step = Tests + 2 THEN "done" ELSE "launch")
  /\ unread = {}
  /\ IF step = Tests + 2
       THEN /\ outcome' = IF PolicyChecks(result, snapshot) THEN "pass" ELSE "fail"
            /\ UNCHANGED step
       ELSE /\ step' = step + 1
            /\ UNCHANGED outcome
  /\ UNCHANGED <<workspace, untrusted, result, unread, snapshot, detached, writes, spawns>>

\* _run_process returns: the next thing is a snapshot or another test.
ReturnTo ==
  IF Observed(step) THEN /\ pc' = "snapshot" /\ unread' = Paths /\ UNCHANGED step
                    ELSE /\ pc' = "launch" /\ step' = step + 1 /\ UNCHANGED unread

-----------------------------------------------------------------------------
(* _run_process                                                            *)

\* Popen; exit code 127 reports an OSError.
Launch ==
  /\ pc = "launch"
  /\ \/ /\ pc' = "wait"
        /\ leader' = "running"
        /\ UNCHANGED <<step, result, unread>>
     \/ /\ result' = [result EXCEPT ![step].exit = "1"]
        /\ ReturnTo
        /\ UNCHANGED leader
  /\ UNCHANGED <<workspace, member, outside, snapshot, outcome, detached, writes, spawns>>

\* process.wait returns in time and has reaped the leader.
WaitExited ==
  /\ Goto("wait", "probe")
  /\ leader = "zombie"
  /\ leader' = "none"
  /\ \E e \in {"0", "1"} : result' = [result EXCEPT ![step].exit = e]
  /\ UNCHANGED <<workspace, member, outside, step, unread, snapshot, outcome, detached, writes, spawns>>

\* Mutant: wait() without a timeout.
WaitForever ==
  /\ Goto("wait", "probe")
  /\ leader = "zombie"
  /\ result' = [result EXCEPT ![step].timedOut = TRUE]
  /\ UNCHANGED <<workspace, untrusted, step, unread, snapshot, outcome, detached, writes, spawns>>

WaitTimeout ==
  /\ Goto("wait", "probe")
  /\ leader # "zombie"
  /\ result' = [result EXCEPT ![step].timedOut = TRUE]
  /\ UNCHANGED <<workspace, untrusted, step, unread, snapshot, outcome, detached, writes, spawns>>

\* killpg(pgid, 0): a leader nobody has waited for keeps its group alive.
GroupExists == leader # "none" \/ member # "none"

AfterTerminate == IF result[step].timedOut THEN "reap" ELSE "join"

\* _terminate_process_tree finds no group.
ProbeGone ==
  /\ Goto("probe", AfterTerminate)
  /\ ~GroupExists
  /\ UNCHANGED <<workspace, untrusted, step, result, unread, snapshot, outcome, detached, writes, spawns>>

\* SIGTERM, and what has become of the group a second later.
Terminate ==
  /\ Goto("probe", "term")
  /\ GroupExists
  /\ leader' \in IF leader = "running" THEN {"running", "zombie"} ELSE {leader}
  /\ member' = IF member = "plain" THEN "none" ELSE member
  /\ UNCHANGED <<workspace, outside, step, result, unread, snapshot, outcome, detached, writes, spawns>>

TermGone ==
  /\ Goto("term", AfterTerminate)
  /\ ~GroupExists
  /\ UNCHANGED <<workspace, untrusted, step, result, unread, snapshot, outcome, detached, writes, spawns>>

\* Mutant: the group is not killed after it has ignored SIGTERM.
TermOnly ==
  /\ Goto("term", AfterTerminate)
  /\ GroupExists
  /\ UNCHANGED <<workspace, untrusted, step, result, unread, snapshot, outcome, detached, writes, spawns>>

\* SIGKILL, and a second later the answer of _terminate_process_tree.
KillGroup ==
  /\ Goto("term", AfterTerminate)
  /\ GroupExists
  /\ leader' = IF leader = "running" THEN "zombie" ELSE leader
  /\ member' = IF member \in {"stuck", "quiet"} THEN member ELSE "none"
  /\ result' = [result EXCEPT ![step].terminated = ~GroupExists']
  /\ UNCHANGED <<workspace, outside, step, unread, snapshot, outcome, detached, writes, spawns>>

\* After a timeout the leader is waited for once more, and killed alone if it
\* is running still.
Reap ==
  /\ Goto("reap", "join")
  /\ leader # "stuck"
  /\ leader' = "none"
  /\ result' = [result EXCEPT ![step].exit = "1"]
  /\ UNCHANGED <<workspace, member, outside, step, unread, snapshot, outcome, detached, writes, spawns>>

\* TimeoutExpired: the finally block is run on the way out.
ReapTimeout ==
  /\ Goto("reap", "join")
  /\ leader = "stuck"
  /\ UNCHANGED <<workspace, untrusted, step, result, unread, snapshot, outcome, detached, writes, spawns>>

\* Does somebody still have the other ends of the pipes?
PipesHeld ==
  leader \in {"running", "stuck"} \/ member \notin {"none", "quiet"} \/ "holding" \in outside

\* The I/O threads are joined, for five seconds each.
Join ==
  /\ Goto("join", "close")
  /\ result' = [result EXCEPT ![step].terminated = @ /\ ~PipesHeld]
  /\ UNCHANGED <<workspace, untrusted, step, unread, snapshot, outcome, detached, writes, spawns>>

\* After an exception, and only then, the leader has no exit code.
LeaveStep ==
  IF result[step].exit = "none" THEN pc' = "aborted" /\ UNCHANGED <<step, unread>> ELSE ReturnTo

\* The pipes are closed: close() of a stream waits for the thread that is
\* blocked in reading or writing it.  What SIGKILL has left of this step's
\* group is in no later step's group.
Close ==
  /\ pc = "close"
  /\ ~PipesHeld
  /\ member' = "none"
  /\ outside' = outside \cup (IF member = "none" THEN {} ELSE {"detached"})
  /\ LeaveStep
  /\ UNCHANGED <<workspace, leader, result, snapshot, outcome, detached, writes, spawns>>

-----------------------------------------------------------------------------
(* The untrusted processes                                                 *)

Alive == leader = "running" \/ member # "none" \/ outside # {}

Write ==
  /\ Alive
  /\ writes < MaxWrites
  /\ writes' = writes + 1
  /\ \E p \in Paths, c \in Contents : workspace' = [workspace EXCEPT ![p] = c]
  /\ UNCHANGED <<untrusted, pc, step, result, unread, snapshot, outcome, detached, spawns>>

\* The leader or its descendant starts a process in the group or outside it.
Spawn ==
  /\ leader = "running" \/ member # "none"
  /\ spawns < MaxSpawns
  /\ spawns' = spawns + 1
  /\ \/ /\ member = "none"
        /\ member' \in {"plain", "stubborn", "stuck", "quiet"}
        /\ UNCHANGED <<outside, detached>>
     \/ /\ outside' \in {outside \cup {"detached"}, outside \cup {"holding"}}
        /\ detached' = TRUE
        /\ UNCHANGED member
  /\ UNCHANGED <<workspace, leader, pc, step, result, unread, snapshot, outcome, writes>>

\* The leader ends.
Exit ==
  /\ leader \in {"running", "stuck"}
  /\ leader' = "zombie"
  /\ UNCHANGED <<workspace, member, outside, pc, step, result, unread, snapshot, outcome, detached, writes, spawns>>

\* The leader enters a system call no signal ends.
Hang ==
  /\ pc = "wait"
  /\ leader = "running"
  /\ leader' = "stuck"
  /\ UNCHANGED <<workspace, member, outside, pc, step, result, unread, snapshot, outcome, detached, writes, spawns>>

\* A descendant ends by itself.
DescendantExit ==
  /\ \/ member # "none" /\ member' = "none" /\ UNCHANGED outside
     \/ \E d \in outside : outside' = outside \ {d} /\ UNCHANGED member
  /\ UNCHANGED <<workspace, leader, pc, step, result, unread, snapshot, outcome, detached, writes, spawns>>

-----------------------------------------------------------------------------
Runner ==
  \/ SnapshotFile \/ SnapshotError \/ SnapshotDone
  \/ Launch \/ WaitExited \/ WaitTimeout \/ ProbeGone \/ Terminate \/ TermGone
  \/ KillGroup \/ Reap \/ ReapTimeout \/ Join \/ Close

Untrusted == Write \/ Spawn \/ Exit \/ Hang \/ DescendantExit

Next == Runner \/ Untrusted

Spec == Init /\ [][Next]_vars

\* The runner keeps running; the untrusted processes may do nothing for ever.
FairSpec == Spec /\ WF_vars(Runner)

-----------------------------------------------------------------------------
(* Properties                                                              *)

Results ==
  [exit : {"none", "0", "1"}, timedOut : BOOLEAN, terminated : BOOLEAN]

\* The kinds of values of the runner and of the processes it watches.
TypeOK ==
  /\ workspace \in [Paths -> Contents]
  /\ leader \in {"none", "running", "stuck", "zombie"}
  /\ member \in {"none", "plain", "stubborn", "stuck", "quiet"}
  /\ outside \subseteq {"detached", "holding"}
  /\ pc \in {"snapshot", "launch", "wait", "probe", "term", "reap", "join", "close", "done", "aborted"}
  /\ step \in 0..(Tests + 2)
  /\ result \in [Steps -> Results]
  /\ unread \subseteq Paths
  /\ snapshot \in [0..(Tests + 2) -> [Paths -> Contents]]
  /\ outcome \in {"none", "pass", "fail"}
  /\ detached \in BOOLEAN
  /\ writes \in 0..MaxWrites /\ spawns \in 0..MaxSpawns

\* A pass is about the workspace the caller gets: unless a descendant has left
\* its process group, the workspace is and stays what the agent had left, its
\* difference from the baseline is within the policy, and no process of the
\* run is left that could change it.
PassIsFinal ==
  outcome = "pass" /\ ~detached =>
    LET changes == Changed(snapshot[0], workspace)
    IN /\ workspace = snapshot[Agent]
       /\ changes \subseteq Allowed \ Protected
       /\ Cardinality(changes) <= MaxChangedFiles
       /\ ~Alive

\* When _run_process says that the process tree was terminated, nothing of the
\* leader's group is left for the snapshot or the step that comes next.
TerminatedMeansDead ==
  [][pc = "close" /\ pc' # "close" /\ result[step].terminated => ~GroupExists]_vars

\* The runner ends, whatever the agent does or does not do with its standard
\* input, its signals and its descendants, unless a descendant outside of the
\* group, or one that survives SIGKILL, keeps the pipes open for ever.
RunnerEnds == <>(pc \in {"done", "aborted"}) \/ <>[](pc = "close" /\ PipesHeld)

\* docs/CODING_AGENT_HARNESS.md: "Output truncation, timeout, or failure to
\* terminate the process tree forces failure."  Stated for runs in which every
\* process dies of SIGKILL; one that has left its group is never sent it, and
\* close() waits for it.
FailureForced ==
  [](leader # "stuck" /\ member \notin {"stuck", "quiet"}) =>
    \A s \in Steps : ~result[s].terminated ~> pc = "aborted" \/ outcome = "fail"
=============================================================================
