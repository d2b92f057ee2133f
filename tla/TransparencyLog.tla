---------------------------- MODULE TransparencyLog ----------------------------
(***************************************************************************)
(* The local transparency log of src/skill_native/transparency_log.py: a   *)
(* JSONL file of hash-chained entries, a checkpoint file beside it and an  *)
(* fcntl lock file.  Any number of operating-system processes append,      *)
(* verify and check inclusion receipts; each may fail with an OSError or   *)
(* be killed between any two system calls, and the machine may lose power. *)
(*                                                                         *)
(* Files are modelled twice: what open file descriptors see (log, ckpt)    *)
(* and what is guaranteed to outlive a power loss (synced, named,          *)
(* ckptDisk).  A line of the log is an entry or Garbage: a torn,           *)
(* non-canonical or wrongly digested line, which _read_entries refuses.    *)
(* SHA-256 is collision free: a digest is a tagged tuple of what it hashes.*)
(***************************************************************************)
EXTENDS Naturals, Sequences, FiniteSets

CONSTANTS
  Procs,              \* processes that open the log
  Envelopes,          \* DSSE envelopes offered for publication
  Authentic,          \* those verify_attestation accepts
  None,               \* Python's None
  Garbage,            \* a line that does not validate
  MerkleRoot(_),      \* _merkle_root, from the entry digests
  MerklePath(_, _),   \* _merkle_path, from the entry digests and a leaf index
  DirFsyncSupported,  \* can the parent directory be opened and synced?
  MaxFaults,          \* bound on I/O errors, kills and power losses
  MaxTampers          \* bound on edits of the log file from outside

ASSUME AuthenticAssumption == Authentic \subseteq Envelopes
ASSUME NoneAssumption == None \notin Procs
ASSUME DirFsyncAssumption == DirFsyncSupported \in BOOLEAN
ASSUME BoundsAssumption == MaxFaults \in Nat /\ MaxTampers \in Nat

VARIABLES
  log,        \* the lines of the log file
  ckpt,       \* the checkpoint file: a checkpoint, or None when missing
  synced,     \* the lines that fsync has put on disk
  named,      \* is the log file's directory entry on disk?
  ckptDisk,   \* checkpoint files a power loss may leave behind
  excl,       \* holder of LOCK_EX, or None
  shared,     \* holders of LOCK_SH
  pc,         \* pc[p]: the next system call of p
  arg,        \* arg[p]: the envelope or receipt p was called with
  entries,    \* entries[p]: the entry list of append, in memory
  ret,        \* ret[p]: how the last call of p ended
  issued,     \* history: receipts append has returned
  written,    \* history: entries append has written
  faults, tampers

files == <<log, ckpt, synced, named, ckptDisk>>
locks == <<excl, shared>>
locals == <<pc, arg, entries, ret>>
history == <<issued, written>>
budget == <<faults, tampers>>
vars == <<files, locks, locals, history, budget>>

-----------------------------------------------------------------------------
(* Entries, checkpoints and receipts.                                      *)

Entry(sequence, previous, envelope) ==
  [sequence |-> sequence, previous |-> previous, envelope |-> envelope]

\* entry_digest, which every later entry and every Merkle leaf commits to.
EntryDigest(e) == <<"entry", e.sequence, e.previous, e.envelope>>

Digests(es) == [i \in 1..Len(es) |-> EntryDigest(es[i])]

HeadDigest(es) == IF es = <<>> THEN None ELSE EntryDigest(es[Len(es)])

\* The entry append builds after the entries it has read.
NextEntry(es, envelope) == Entry(Len(es), HeadDigest(es), envelope)

\* _validate_entry_chain
ValidChain(es) ==
  \A i \in 1..Len(es) :
    /\ es[i].sequence = i - 1
    /\ es[i].previous = IF i = 1 THEN None ELSE EntryDigest(es[i - 1])
    /\ \A j \in 1..(i - 1) : es[j].envelope # es[i].envelope

\* _build_checkpoint
Checkpoint(es) ==
  [tree_size |-> Len(es), root_hash |-> MerkleRoot(Digests(es)),
   head |-> HeadDigest(es)]

\* _build_inclusion_receipt
InclusionReceipt(es, leafIndex) ==
  [leaf_index   |-> leafIndex,
   entry_digest |-> EntryDigest(es[leafIndex + 1]),
   path         |-> MerklePath(Digests(es), leafIndex),
   checkpoint   |-> Checkpoint(es)]

\* _read_entries succeeds: every line of the file validates.
Readable(lines) == \A i \in 1..Len(lines) : lines[i] # Garbage

\* Mutant: a checkpoint that does not match the log is accepted.
VerifyWithoutMatch(lines, checkpoint, allowMissingEmpty) ==
  IF ~Readable(lines) \/ ~ValidChain(lines) THEN "invalid"
  ELSE IF checkpoint = None /\ ~(lines = <<>> /\ allowMissingEmpty) THEN "missing"
  ELSE "ok"

\* Mutant: the checkpoint is only compared in its size.
VerifySizeOnly(lines, checkpoint, allowMissingEmpty) ==
  IF ~Readable(lines) \/ ~ValidChain(lines) THEN "invalid"
  ELSE IF checkpoint = None
    THEN IF lines = <<>> /\ allowMissingEmpty THEN "ok" ELSE "missing"
  ELSE IF checkpoint.tree_size # Len(lines) THEN "mismatch" ELSE "ok"

\* _verify_unlocked: "ok", or which AttestationError it raises.
VerifyUnlocked(lines, checkpoint, allowMissingEmpty) ==
  IF ~Readable(lines) \/ ~ValidChain(lines) THEN "invalid"
  ELSE IF checkpoint = None
    THEN IF lines = <<>> /\ allowMissingEmpty THEN "ok" ELSE "missing"
  ELSE IF checkpoint # Checkpoint(lines) THEN "mismatch" ELSE "ok"

\* The checks of verify_receipt: the whole file is read, the prefix the
\* receipt names is rebuilt and the receipt is derived again from it.
ReceiptVerifies(receipt, lines) ==
  LET size == receipt.checkpoint.tree_size
      prefix == SubSeq(lines, 1, size)
  IN /\ Readable(lines)
     /\ size <= Len(lines)
     /\ ValidChain(prefix)
     /\ Checkpoint(prefix) = receipt.checkpoint
     /\ EntryDigest(prefix[receipt.leaf_index + 1]) = receipt.entry_digest
     /\ InclusionReceipt(prefix, receipt.leaf_index) = receipt

-----------------------------------------------------------------------------
Init ==
  /\ log = <<>> /\ synced = <<>> /\ named = FALSE
  /\ ckpt = None /\ ckptDisk = {None}
  /\ excl = None /\ shared = {}
  /\ pc = [p \in Procs |-> "idle"]
  /\ arg = [p \in Procs |-> None]
  /\ entries = [p \in Procs |-> <<>>]
  /\ ret = [p \in Procs |-> "none"]
  /\ issued = {} /\ written = {}
  /\ faults = 0 /\ tampers = 0

Goto(p, from, to) ==
  /\ pc[p] = from
  /\ pc' = [pc EXCEPT ![p] = to]

\* Mutant: the lock is only given back with a receipt.
ReturnLocked(p, result) ==
  /\ pc' = [pc EXCEPT ![p] = "idle"]
  /\ ret' = [ret EXCEPT ![p] = result]
  /\ arg' = [arg EXCEPT ![p] = None]
  /\ entries' = [entries EXCEPT ![p] = <<>>]
  /\ excl' = IF excl = p /\ result = "receipt" THEN None ELSE excl
  /\ shared' = shared \ {p}

\* Leave the with-block: the lock file is closed, so its lock is released.
Return(p, result) ==
  /\ pc' = [pc EXCEPT ![p] = "idle"]
  /\ ret' = [ret EXCEPT ![p] = result]
  /\ arg' = [arg EXCEPT ![p] = None]
  /\ entries' = [entries EXCEPT ![p] = <<>>]
  /\ excl' = IF excl = p THEN None ELSE excl
  /\ shared' = shared \ {p}

-----------------------------------------------------------------------------
(* append                                                                  *)

\* Mutant: any envelope is published.
AppendStartUnverified(p, envelope) ==
  /\ Goto(p, "idle", "lock")
  /\ arg' = [arg EXCEPT ![p] = envelope]
  /\ ret' = [ret EXCEPT ![p] = "none"]
  /\ UNCHANGED <<files, locks, entries, history, budget>>

\* Verification of the envelope comes first, outside the lock.
AppendStart(p, envelope) ==
  /\ pc[p] = "idle"
  /\ IF envelope \in Authentic
       THEN /\ pc' = [pc EXCEPT ![p] = "lock"]
            /\ arg' = [arg EXCEPT ![p] = envelope]
            /\ ret' = [ret EXCEPT ![p] = "none"]
       ELSE /\ ret' = [ret EXCEPT ![p] = "unverified"]
            /\ UNCHANGED <<pc, arg>>
  /\ UNCHANGED <<files, locks, entries, history, budget>>

\* Mutant: append takes LOCK_SH.
AppendLockShared(p) ==
  /\ Goto(p, "lock", "read")
  /\ excl = None
  /\ shared' = shared \cup {p}
  /\ UNCHANGED <<files, excl, arg, entries, ret, history, budget>>

\* flock(LOCK_EX) returns.
AppendLock(p) ==
  /\ Goto(p, "lock", "read")
  /\ excl = None
  /\ shared = {}
  /\ excl' = p
  /\ UNCHANGED <<files, shared, arg, entries, ret, history, budget>>

\* Read and verify both files, refuse a second publication of the envelope.
AppendRead(p) ==
  /\ pc[p] = "read"
  /\ LET status == VerifyUnlocked(log, ckpt, TRUE)
         duplicate == \E i \in 1..Len(log) : log[i].envelope = arg[p]
     IN \/ /\ status # "ok"
           /\ Return(p, status)
        \/ /\ status = "ok"
           /\ duplicate
           /\ Return(p, "duplicate")
        \/ /\ status = "ok"
           /\ ~duplicate
           /\ pc' = [pc EXCEPT ![p] = "write"]
           /\ entries' = [entries EXCEPT ![p] = log]
           /\ UNCHANGED <<locks, arg, ret>>
  /\ UNCHANGED <<files, history, budget>>

\* write() and flush() of the new line in O_APPEND mode.
AppendWrite(p) ==
  LET entry == NextEntry(entries[p], arg[p])
  IN /\ Goto(p, "write", "fsync")
     /\ log' = Append(log, entry)
     /\ written' = written \cup {entry}
     /\ entries' = [entries EXCEPT ![p] = Append(@, entry)]
     /\ UNCHANGED <<ckpt, synced, named, ckptDisk, locks, arg, ret, issued, budget>>

\* Mutant: the log file is flushed but not synced.
AppendFlushOnly(p) ==
  /\ Goto(p, "fsync", "checkpoint")
  /\ UNCHANGED <<files, locks, arg, entries, ret, history, budget>>

\* fsync() of the log file.
AppendFsync(p) ==
  /\ Goto(p, "fsync", "checkpoint")
  /\ synced' = log
  /\ UNCHANGED <<log, ckpt, named, ckptDisk, locks, arg, entries, ret, history, budget>>

\* _atomic_write_json: the synced temporary file replaces the checkpoint; the
\* rename itself is not on disk before the directory is.
AppendCheckpoint(p) ==
  /\ Goto(p, "checkpoint", "finish")
  /\ ckpt' = Checkpoint(entries[p])
  /\ ckptDisk' = ckptDisk \cup {ckpt'}
  /\ UNCHANGED <<log, synced, named, locks, arg, entries, ret, history, budget>>

\* Mutant: the receipt is returned without syncing the directory.
AppendFinishUnsynced(p) ==
  /\ pc[p] = "finish"
  /\ issued' = issued \cup {InclusionReceipt(entries[p], Len(entries[p]) - 1)}
  /\ Return(p, "receipt")
  /\ UNCHANGED <<files, written, budget>>

\* _fsync_directory, then the receipt is built and returned.
AppendFinish(p) ==
  /\ pc[p] = "finish"
  /\ named' = (named \/ DirFsyncSupported)
  /\ ckptDisk' = IF DirFsyncSupported THEN {ckpt} ELSE ckptDisk
  /\ issued' = issued \cup {InclusionReceipt(entries[p], Len(entries[p]) - 1)}
  /\ Return(p, "receipt")
  /\ UNCHANGED <<log, ckpt, synced, written, budget>>

-----------------------------------------------------------------------------
(* verify and verify_receipt                                               *)

\* verify() is called with None, verify_receipt with an issued receipt.
ReadStart(p, receipt) ==
  /\ Goto(p, "idle", "lockshared")
  /\ arg' = [arg EXCEPT ![p] = receipt]
  /\ ret' = [ret EXCEPT ![p] = "none"]
  /\ UNCHANGED <<files, locks, entries, history, budget>>

\* flock(LOCK_SH) returns.
ReadLock(p) ==
  /\ Goto(p, "lockshared", "readshared")
  /\ excl = None
  /\ shared' = shared \cup {p}
  /\ UNCHANGED <<files, excl, arg, entries, ret, history, budget>>

ReadCheck(p) ==
  /\ pc[p] = "readshared"
  /\ Return(p, IF arg[p] = None THEN VerifyUnlocked(log, ckpt, FALSE)
               ELSE IF ReceiptVerifies(arg[p], log) THEN "ok" ELSE "refused")
  /\ UNCHANGED <<files, history, budget>>

-----------------------------------------------------------------------------
(* Faults                                                                  *)

Fault ==
  /\ faults < MaxFaults
  /\ faults' = faults + 1
  /\ UNCHANGED tampers

\* An OSError of write, fsync, mkstemp, replace or the directory's fsync
\* leaves append; a failed write may have put part of the line into the file.
AppendError(p) ==
  /\ Fault
  /\ pc[p] \in {"write", "fsync", "checkpoint", "finish"}
  /\ Return(p, "error")
  /\ \/ UNCHANGED log
     \/ pc[p] = "write" /\ log' = Append(log, Garbage)
  /\ UNCHANGED <<ckpt, synced, named, ckptDisk, history>>

\* The process is killed between two system calls: the kernel drops its lock.
Kill(p) ==
  /\ Fault
  /\ pc[p] # "idle"
  /\ Return(p, "killed")
  /\ UNCHANGED <<files, history>>

\* What a power loss may leave of the log file: its synced lines and some of
\* the others, possibly with a torn line at the end; nothing at all while the
\* file's name is not on disk.
Survivors ==
  {SubSeq(log, 1, n) : n \in Len(synced)..Len(log)}
  \cup {Append(SubSeq(log, 1, n), Garbage) : n \in Len(synced)..(Len(log) - 1)}
  \cup (IF named THEN {} ELSE {<<>>})

\* Power loss: every process dies and the files are what the disk has.
PowerLoss ==
  /\ Fault
  /\ log' \in Survivors
  /\ ckpt' \in ckptDisk
  /\ synced' = log'
  /\ named' = (log' # <<>>)
  /\ ckptDisk' = {ckpt'}
  /\ pc' = [p \in Procs |-> "idle"]
  /\ arg' = [p \in Procs |-> None]
  /\ entries' = [p \in Procs |-> <<>>]
  /\ ret' = [p \in Procs |-> "killed"]
  /\ excl' = None /\ shared' = {}
  /\ UNCHANGED history

Continued(lines) == {Append(lines, NextEntry(lines, envelope)) : envelope \in Envelopes}

\* Edits of the log file alone by something else than this module: a line is
\* damaged, two lines change places, the file is cut, or it is cut and continued by
\* a line that agrees with the chain, after which the line that was cut may follow,
\* made to agree as well.
TamperLines ==
  \/ \E i \in 1..Len(log) : log' = [log EXCEPT ![i] = Garbage]
  \/ \E i, j \in 1..Len(log) : log' = [log EXCEPT ![i] = log[j], ![j] = log[i]]
  \/ \E n \in 0..Len(log) : log' = SubSeq(log, 1, n)
  \/ \E n \in 0..Len(log) :
       /\ Readable(SubSeq(log, 1, n))
       /\ \E more \in Continued(SubSeq(log, 1, n)) :
            \/ log' = more
            \/ /\ n < Len(log) /\ log[n + 1] # Garbage
               /\ log' = Append(more, NextEntry(more, log[n + 1].envelope))

Tamper ==
  /\ tampers < MaxTampers
  /\ tampers' = tampers + 1
  /\ TamperLines
  /\ synced' = log'
  /\ UNCHANGED <<ckpt, named, ckptDisk, locks, locals, history, faults>>

-----------------------------------------------------------------------------
Call(p) ==
  \/ \E envelope \in Envelopes : AppendStart(p, envelope)
  \/ \E receipt \in issued \cup {None} : ReadStart(p, receipt)

Step(p) ==
  \/ AppendLock(p) \/ AppendRead(p) \/ AppendWrite(p) \/ AppendFsync(p)
  \/ AppendCheckpoint(p) \/ AppendFinish(p)
  \/ ReadLock(p) \/ ReadCheck(p)

Failure(p) == AppendError(p) \/ Kill(p)

Next ==
  \/ \E p \in Procs : Call(p) \/ Step(p) \/ Failure(p)
  \/ PowerLoss
  \/ Tamper

\* A process between two system calls keeps running; nothing makes a caller
\* call, and the kernel promises no order among the waiters of a lock.
Fairness == \A p \in Procs : WF_vars(Step(p))

Spec == Init /\ [][Next]_vars

FairSpec == Spec /\ Fairness

-----------------------------------------------------------------------------
(* Properties                                                              *)

PcValues ==
  {"idle", "lock", "read", "write", "fsync", "checkpoint", "finish",
   "lockshared", "readshared"}

RetValues ==
  {"none", "unverified", "ok", "invalid", "missing", "mismatch", "duplicate",
   "receipt", "refused", "error", "killed"}

IsSequence(s) == Len(s) \in Nat /\ s = [i \in 1..Len(s) |-> s[i]]

\* The kinds of values each file, lock and local variable of
\* TransparencyLog holds.
TypeOK ==
  /\ IsSequence(log) /\ IsSequence(synced)
  /\ named \in BOOLEAN
  /\ ckpt \in ckptDisk
  /\ excl \in Procs \cup {None}
  /\ shared \subseteq Procs
  /\ pc \in [Procs -> PcValues]
  /\ arg \in [Procs -> Authentic \cup issued \cup {None}]
  /\ DOMAIN entries = Procs
  /\ \A p \in Procs : IsSequence(entries[p])
  /\ ret \in [Procs -> RetValues]
  /\ faults \in 0..MaxFaults /\ tampers \in 0..MaxTampers

Untampered == tampers = 0

\* Concurrent appends and retries after a failed append never write a second
\* entry for an envelope: append holds LOCK_EX from the duplicate check to the
\* write, and a log whose last append failed takes no more entries.
OneEntryPerEnvelope ==
  Untampered =>
    \A i, j \in 1..Len(log) :
      i # j /\ log[i] # Garbage /\ log[j] # Garbage
        => log[i].envelope # log[j].envelope

\* No checkpoint that a power loss may leave behind covers a line that fsync
\* has not put on disk: append syncs the line before it replaces the
\* checkpoint.  (Before the first directory sync the log's name itself may
\* be lost.)
WriteAhead ==
  Untampered /\ named =>
    \A c \in ckptDisk : c # None => c.tree_size <= Len(synced)

\* Every receipt append has returned verifies, whatever has been appended,
\* killed or lost since, as long as every line of the log can be read:
\* verify_receipt of an issued receipt is never refused.
ReceiptsVerifiable ==
  Untampered /\ DirFsyncSupported /\ Readable(log) =>
    \A r \in issued : ReceiptVerifies(r, log)

\* A log that verify() accepts holds only entries append wrote and still
\* proves every receipt append returned, whoever edited the log file in the
\* meantime: the one thing an edit can hide is an entry nobody got a receipt
\* for.
TamperEvident ==
  DirFsyncSupported /\ VerifyUnlocked(log, ckpt, FALSE) = "ok" =>
    /\ \A i \in 1..Len(log) : log[i] \in written
    /\ \A r \in issued : ReceiptVerifies(r, log)

\* Receipts never show two histories: two receipts over trees of the same
\* size are the same receipt, across crashes, power losses and edits of the
\* log file.
NoFork ==
  DirFsyncSupported =>
    \A r, s \in issued :
      r.checkpoint.tree_size = s.checkpoint.tree_size => r = s

\* The exclusive lock is given back however append ends.
LocksReleased == \A p \in Procs : excl = p ~> excl # p

\* What a line of the log publishes.
Published(lines) ==
  [i \in 1..Len(lines) |-> IF lines[i] = Garbage THEN {} ELSE {lines[i].envelope}]

\* The sizes receipts name; without a directory that can be synced a receipt
\* promises nothing that a power loss may not take.
Promised == {r.checkpoint.tree_size : r \in {s \in issued : DirFsyncSupported}}

Publication == INSTANCE PublicationLog
  WITH Envelopes <- Authentic, published <- Published(log),
       promised <- Promised, edited <- ~Untampered

\* Concurrent processes, failing system calls, kills and power losses show in what
\* is published and promised only as PublicationLog says: append, its failures and
\* the repair after a crash implement it.
ImplementsPublication == Publication!Spec

\* docs/ATTESTATIONS.md: "Receipts for older prefixes remain verifiable after
\* later appends because verification reconstructs the exact prefix named by
\* the embedded checkpoint."
ReceiptsRemainVerifiable ==
  Untampered /\ DirFsyncSupported => \A r \in issued : ReceiptVerifies(r, log)
=============================================================================
