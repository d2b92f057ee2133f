------------------------- MODULE TransparencyLogProofs -------------------------
(***************************************************************************)
(* Safety of TransparencyLog, and that it implements PublicationLog, for   *)
(* every set of processes and envelopes, every Merkle hashing and any      *)
(* number of faults and edits.  What survives an edit of the log needs a   *)
(* hashing without collisions: CollisionFree.                              *)
(***************************************************************************)
EXTENDS TransparencyLog, TLAPS

-----------------------------------------------------------------------------
(* The inductive invariant                                                 *)

Writing == {"write", "fsync", "checkpoint", "finish"}

Critical == {"read"} \cup Writing

\* A process holds a lock exactly between the two ends of its with-block, and
\* an exclusive holder is alone.
LockInv ==
  /\ \A p \in Procs : excl = p <=> pc[p] \in Critical
  /\ \A p \in Procs : p \in shared <=> pc[p] = "readshared"
  /\ excl # None => shared = {}

\* The lines form a chain without a second entry for an envelope; only the
\* last one may be Garbage.
Chained(lines) ==
  \A i \in 1..Len(lines) :
    /\ lines[i] = Garbage => i = Len(lines)
    /\ lines[i] # Garbage =>
         /\ lines[i].sequence = i - 1
         /\ lines[i].previous = IF i = 1 THEN None ELSE EntryDigest(lines[i - 1])
         /\ \A j \in 1..(i - 1) : lines[j].envelope # lines[i].envelope

LogInv == Chained(log) /\ Len(synced) <= Len(log)

\* The log's name was lost with the log, its checkpoint was not: no append
\* succeeds any more.
Wedged == log = <<>> /\ ckpt # None /\ ckptDisk = {ckpt} /\ ~named

CheckpointInv ==
  /\ \A c \in ckptDisk : c # None => c.tree_size \in Nat \ {0}
  /\ Wedged \/ \A c \in ckptDisk : c # None => c.tree_size <= Len(synced)

\* What an appending process has in memory is what the file holds.
WriterInv ==
  \A p \in Procs :
    /\ pc[p] = "write" =>
         /\ ~Wedged
         /\ Readable(log)
         /\ \A i \in 1..Len(log) : log[i].envelope # arg[p]
    /\ pc[p] \in Writing => entries[p] = log
    /\ pc[p] \in {"fsync", "checkpoint", "finish"} => log # <<>>
    /\ pc[p] \in {"checkpoint", "finish"} => synced = log
    /\ pc[p] = "finish" => ckpt = Checkpoint(log)

\* A receipt was derived from a prefix of the log that is on disk for good.
ReceiptInv ==
  DirFsyncSupported =>
    \A r \in issued :
      /\ named
      /\ \E n \in 1..Len(synced) : r = InclusionReceipt(SubSeq(log, 1, n), n - 1)

FilesInv == LogInv /\ CheckpointInv /\ WriterInv /\ ReceiptInv

DataInv == Untampered => FilesInv

IInv == TypeOK /\ LockInv /\ DataInv
-----------------------------------------------------------------------------
(* Sequences                                                               *)

\* A member of Seq(S) is a function on an initial segment of the positive
\* naturals, whatever S is.
LEMMA SeqIsSequence ==
  ASSUME NEW S, NEW s \in Seq(S)
  PROVE  IsSequence(s)
BY DEF IsSequence

\* A sequence is a sequence over its own elements.
LEMMA SequenceOverElements ==
  ASSUME NEW s, IsSequence(s)
  PROVE  s \in Seq({s[i] : i \in 1..Len(s)})
<1> DEFINE S == {s[i] : i \in 1..Len(s)}
<1>1. [i \in 1..Len(s) |-> s[i]] \in Seq(S)
  BY DEF IsSequence
<1> QED BY <1>1 DEF IsSequence

\* The log after one more line.
LEMMA AppendLine ==
  ASSUME NEW s, NEW e, IsSequence(s)
  PROVE  /\ IsSequence(Append(s, e))
         /\ Len(Append(s, e)) = Len(s) + 1
         /\ \A i \in 1..Len(s) : Append(s, e)[i] = s[i]
         /\ Append(s, e)[Len(s) + 1] = e
<1> DEFINE T == {s[i] : i \in 1..Len(s)}
           S == T \cup {e}
<1>0. s \in Seq(T)
  BY SequenceOverElements
<1>1. s \in Seq(S)
  BY <1>0
<1>2. Append(s, e) \in Seq(S)
  BY <1>1
<1>3. IsSequence(Append(s, e))
  BY <1>2, SeqIsSequence
<1>4. s \in Seq(S) /\ e \in S
  BY <1>1
<1> HIDE DEF S
<1>5. /\ Len(Append(s, e)) = Len(s) + 1
      /\ \A i \in 1..Len(s) : Append(s, e)[i] = s[i]
      /\ Append(s, e)[Len(s) + 1] = e
  BY <1>4
<1> QED BY <1>3, <1>5

\* A prefix of the log.
LEMMA PrefixLines ==
  ASSUME NEW s, IsSequence(s), NEW n \in 0..Len(s)
  PROVE  /\ IsSequence(SubSeq(s, 1, n))
         /\ Len(SubSeq(s, 1, n)) = n
         /\ \A i \in 1..n : SubSeq(s, 1, n)[i] = s[i]
<1> DEFINE S == {s[i] : i \in 1..Len(s)}
<1>1. s \in Seq(S)
  BY SequenceOverElements
<1>2. SubSeq(s, 1, n) \in Seq(S)
  BY <1>1 DEF IsSequence
<1>3. /\ Len(SubSeq(s, 1, n)) = n
      /\ \A i \in 1..n : SubSeq(s, 1, n)[i] = s[i]
  BY <1>1 DEF IsSequence
<1> QED BY <1>2, <1>3, SeqIsSequence

\* Sequences of the same length with the same elements are the same.
LEMMA SameLines ==
  ASSUME NEW s, NEW t, IsSequence(s), IsSequence(t), Len(s) = Len(t),
         \A i \in 1..Len(s) : s[i] = t[i]
  PROVE  s = t
<1>1. s = [i \in 1..Len(s) |-> s[i]] /\ t = [i \in 1..Len(s) |-> t[i]]
  BY DEF IsSequence
<1> QED BY <1>1

\* Lines appended after a prefix do not change it.
LEMMA PrefixOfAppend ==
  ASSUME NEW s, NEW e, IsSequence(s), NEW n \in 0..Len(s)
  PROVE  SubSeq(Append(s, e), 1, n) = SubSeq(s, 1, n)
<1>1. /\ IsSequence(SubSeq(s, 1, n)) /\ Len(SubSeq(s, 1, n)) = n
      /\ \A i \in 1..n : SubSeq(s, 1, n)[i] = s[i]
  BY PrefixLines
<1>2. IsSequence(Append(s, e)) /\ n \in 0..Len(Append(s, e))
  BY AppendLine DEF IsSequence
<1>3. /\ IsSequence(SubSeq(Append(s, e), 1, n))
      /\ Len(SubSeq(Append(s, e), 1, n)) = n
      /\ \A i \in 1..n : SubSeq(Append(s, e), 1, n)[i] = Append(s, e)[i]
  BY <1>2, PrefixLines
<1>4. \A i \in 1..n : Append(s, e)[i] = s[i]
  BY AppendLine DEF IsSequence
<1> QED BY <1>1, <1>3, <1>4, SameLines

\* A prefix of a prefix is a prefix.
LEMMA PrefixOfPrefix ==
  ASSUME NEW s, IsSequence(s), NEW m \in 0..Len(s), NEW n \in 0..m
  PROVE  SubSeq(SubSeq(s, 1, m), 1, n) = SubSeq(s, 1, n)
<1>1. n \in 0..Len(s)
  BY DEF IsSequence
<1>2. /\ IsSequence(SubSeq(s, 1, n)) /\ Len(SubSeq(s, 1, n)) = n
      /\ \A i \in 1..n : SubSeq(s, 1, n)[i] = s[i]
  BY <1>1, PrefixLines
<1>3. /\ IsSequence(SubSeq(s, 1, m)) /\ Len(SubSeq(s, 1, m)) = m
      /\ \A i \in 1..m : SubSeq(s, 1, m)[i] = s[i]
  BY PrefixLines
<1> DEFINE t == SubSeq(s, 1, m)
<1> HIDE DEF t
<1>4. /\ IsSequence(SubSeq(t, 1, n)) /\ Len(SubSeq(t, 1, n)) = n
      /\ \A i \in 1..n : SubSeq(t, 1, n)[i] = t[i]
  BY <1>3, PrefixLines DEF t
<1>5. SubSeq(t, 1, n) = SubSeq(s, 1, n)
  BY <1>2, <1>3, <1>4, SameLines DEF t
<1> QED BY <1>5 DEF t

\* The whole log is a prefix of itself.
LEMMA WholePrefix ==
  ASSUME NEW s, IsSequence(s)
  PROVE  SubSeq(s, 1, Len(s)) = s
<1>1. Len(s) \in 0..Len(s)
  BY DEF IsSequence
<1> QED BY <1>1, PrefixLines, SameLines
-----------------------------------------------------------------------------
(* Type correctness                                                        *)

\* Leaving the with-block resets the local variables and gives the lock back.
LEMMA ReturnTyped ==
  ASSUME TypeOK, NEW p \in Procs, NEW result \in RetValues, Return(p, result)
  PROVE  /\ excl' \in Procs \cup {None} /\ shared' \subseteq Procs
         /\ pc' \in [Procs -> PcValues]
         /\ arg' \in [Procs -> Authentic \cup issued \cup {None}]
         /\ DOMAIN entries' = Procs
         /\ \A q \in Procs : IsSequence(entries'[q])
         /\ ret' \in [Procs -> RetValues]
<1>1. IsSequence(<<>>)
  BY DEF IsSequence
<1>2. DOMAIN entries' = Procs /\ \A q \in Procs : IsSequence(entries'[q])
  BY <1>1 DEF Return, TypeOK
<1>3. /\ excl' \in Procs \cup {None} /\ shared' \subseteq Procs
      /\ pc' \in [Procs -> PcValues]
      /\ arg' \in [Procs -> Authentic \cup issued \cup {None}]
      /\ ret' \in [Procs -> RetValues]
  BY DEF Return, TypeOK, PcValues
<1> QED BY <1>2, <1>3

\* The outcomes of verify are results of a call.
LEMMA VerifyResult ==
  ASSUME NEW lines, NEW c, NEW b \in BOOLEAN
  PROVE  VerifyUnlocked(lines, c, b) \in {"ok", "invalid", "missing", "mismatch"}
BY DEF VerifyUnlocked

\* What a power loss leaves of the log is a sequence.
LEMMA SurvivorsAreSequences ==
  ASSUME TypeOK, NEW lines \in Survivors
  PROVE  IsSequence(lines)
<1>1. \A n \in Len(synced)..Len(log) : IsSequence(SubSeq(log, 1, n))
  <2> TAKE n \in Len(synced)..Len(log)
  <2>1. n \in 0..Len(log)
    BY DEF TypeOK, IsSequence
  <2> QED BY <2>1, PrefixLines DEF TypeOK
<1>2. \A n \in Len(synced)..(Len(log) - 1) : IsSequence(Append(SubSeq(log, 1, n), Garbage))
  <2> TAKE n \in Len(synced)..(Len(log) - 1)
  <2>1. n \in Len(synced)..Len(log)
    BY DEF TypeOK, IsSequence
  <2> QED BY <2>1, <1>1, AppendLine
<1>3. IsSequence(<<>>)
  BY DEF IsSequence
<1> QED BY <1>1, <1>2, <1>3 DEF Survivors

\* So is what an edit leaves.
LEMMA TamperedAreSequences ==
  ASSUME TypeOK, TamperLines
  PROVE  IsSequence(log')
<1>1. IsSequence(log)
  BY DEF TypeOK
<1>2. \A n \in 0..Len(log) : IsSequence(SubSeq(log, 1, n))
  BY <1>1, PrefixLines
<1>3. \A i \in 1..Len(log) : IsSequence([log EXCEPT ![i] = Garbage])
  <2> TAKE i \in 1..Len(log)
  <2>1. [log EXCEPT ![i] = Garbage] = [k \in 1..Len(log) |-> IF k = i THEN Garbage ELSE log[k]]
    BY <1>1 DEF IsSequence
  <2> DEFINE S == {log[k] : k \in 1..Len(log)} \cup {Garbage}
  <2>2. [k \in 1..Len(log) |-> IF k = i THEN Garbage ELSE log[k]] \in Seq(S)
    BY <1>1 DEF IsSequence
  <2> QED BY <2>1, <2>2, SeqIsSequence
<1>4. \A i, j \in 1..Len(log) : IsSequence([log EXCEPT ![i] = log[j], ![j] = log[i]])
  <2> TAKE i, j \in 1..Len(log)
  <2>1. [log EXCEPT ![i] = log[j], ![j] = log[i]]
          = [k \in 1..Len(log) |-> IF k = j THEN log[i] ELSE IF k = i THEN log[j] ELSE log[k]]
    BY <1>1 DEF IsSequence
  <2> DEFINE S == {log[k] : k \in 1..Len(log)}
  <2>2. [k \in 1..Len(log) |-> IF k = j THEN log[i] ELSE IF k = i THEN log[j] ELSE log[k]] \in Seq(S)
    BY <1>1 DEF IsSequence
  <2> QED BY <2>1, <2>2, SeqIsSequence
<1>5. \A n \in 0..Len(log) : \A more \in Continued(SubSeq(log, 1, n)) :
        IsSequence(more) /\ \A e : IsSequence(Append(more, e))
  <2> TAKE n \in 0..Len(log)
  <2> TAKE more \in Continued(SubSeq(log, 1, n))
  <2> DEFINE t == SubSeq(log, 1, n)
  <2>1. PICK envelope \in Envelopes : more = Append(t, NextEntry(t, envelope))
    BY DEF Continued
  <2>2. IsSequence(t)
    BY <1>2
  <2> HIDE DEF t
  <2>3. IsSequence(more)
    BY <2>1, <2>2, AppendLine
  <2> QED BY <2>3, AppendLine
<1> QED BY <1>2, <1>3, <1>4, <1>5 DEF TamperLines

\* Every step keeps TypeOK.
LEMMA TypeStep ==
  ASSUME TypeOK, [Next]_vars
  PROVE  TypeOK'
<1> USE NoneAssumption, BoundsAssumption
<1>1. ASSUME NEW p \in Procs, NEW envelope \in Envelopes, AppendStart(p, envelope)
      PROVE  TypeOK'
  <2>1. UNCHANGED <<files, locks, entries, history, budget>>
    BY <1>1 DEF AppendStart
  <2>2. /\ pc' \in [Procs -> PcValues]
        /\ arg' \in [Procs -> Authentic \cup issued \cup {None}]
        /\ ret' \in [Procs -> RetValues]
    BY <1>1 DEF AppendStart, TypeOK, PcValues, RetValues
  <2> QED BY <2>1, <2>2 DEF TypeOK, files, locks, history, budget, IsSequence
<1>2. ASSUME NEW p \in Procs, NEW receipt \in issued \cup {None}, ReadStart(p, receipt)
      PROVE  TypeOK'
  BY <1>2 DEF ReadStart, Goto, TypeOK, PcValues, RetValues, files, locks, history, budget, IsSequence
<1>3. ASSUME NEW p \in Procs, AppendLock(p)
      PROVE  TypeOK'
  BY <1>3 DEF AppendLock, Goto, TypeOK, PcValues, files, history, budget, IsSequence
<1>4. ASSUME NEW p \in Procs, AppendRead(p)
      PROVE  TypeOK'
  <2>1. UNCHANGED <<files, history, budget>>
    BY <1>4 DEF AppendRead
  <2>2. CASE \E result \in RetValues : Return(p, result)
    <3>1. PICK result \in RetValues : Return(p, result)
      BY <2>2
    <3> QED BY <2>1, <3>1, ReturnTyped DEF TypeOK, files, history, budget, IsSequence
  <2>3. CASE /\ pc' = [pc EXCEPT ![p] = "write"]
             /\ entries' = [entries EXCEPT ![p] = log]
             /\ UNCHANGED <<locks, arg, ret>>
    BY <2>1, <2>3 DEF TypeOK, PcValues, files, locks, history, budget, IsSequence
  <2>4. \A b \in BOOLEAN : VerifyUnlocked(log, ckpt, b) \in RetValues
    BY VerifyResult DEF RetValues
  <2>5. "duplicate" \in RetValues
    BY DEF RetValues
  <2> QED BY <1>4, <2>2, <2>3, <2>4, <2>5 DEF AppendRead
<1>5. ASSUME NEW p \in Procs, AppendWrite(p)
      PROVE  TypeOK'
  <2> DEFINE entry == NextEntry(entries[p], arg[p])
  <2>1. IsSequence(log') /\ IsSequence(Append(entries[p], entry))
    BY <1>5, AppendLine DEF AppendWrite, TypeOK
  <2>2. DOMAIN entries' = Procs /\ \A q \in Procs : IsSequence(entries'[q])
    BY <1>5, <2>1 DEF AppendWrite, TypeOK
  <2>3. pc' \in [Procs -> PcValues]
    BY <1>5 DEF AppendWrite, Goto, TypeOK, PcValues
  <2>4. UNCHANGED <<ckpt, synced, named, ckptDisk, excl, shared, arg, ret, issued, faults, tampers>>
    BY <1>5 DEF AppendWrite, locks, budget
  <2> QED BY <2>1, <2>2, <2>3, <2>4 DEF TypeOK, IsSequence
<1>6. ASSUME NEW p \in Procs, AppendFsync(p)
      PROVE  TypeOK'
  BY <1>6 DEF AppendFsync, Goto, TypeOK, PcValues, locks, history, budget, IsSequence
<1>7. ASSUME NEW p \in Procs, AppendCheckpoint(p)
      PROVE  TypeOK'
  BY <1>7 DEF AppendCheckpoint, Goto, TypeOK, PcValues, locks, history, budget, IsSequence
<1>8. ASSUME NEW p \in Procs, AppendFinish(p)
      PROVE  TypeOK'
  <2>1. Return(p, "receipt") /\ "receipt" \in RetValues
    BY <1>8 DEF AppendFinish, RetValues
  <2>2. /\ UNCHANGED <<log, synced, ckpt, faults, tampers>>
        /\ named' \in BOOLEAN /\ ckpt' \in ckptDisk' /\ issued \subseteq issued'
    BY <1>8, DirFsyncAssumption DEF AppendFinish, TypeOK, budget
  <2> QED BY <2>1, <2>2, ReturnTyped DEF TypeOK, IsSequence
<1>9. ASSUME NEW p \in Procs, ReadLock(p)
      PROVE  TypeOK'
  BY <1>9 DEF ReadLock, Goto, TypeOK, PcValues, files, history, budget, IsSequence
<1>10. ASSUME NEW p \in Procs, ReadCheck(p)
       PROVE  TypeOK'
  <2>1. UNCHANGED <<files, history, budget>>
    BY <1>10 DEF ReadCheck
  <2>2. PICK result \in RetValues : Return(p, result)
    BY <1>10, VerifyResult DEF ReadCheck, RetValues
  <2> QED BY <2>1, <2>2, ReturnTyped DEF TypeOK, files, history, budget, IsSequence
<1>11. ASSUME NEW p \in Procs, Failure(p)
       PROVE  TypeOK'
  <2>1. PICK result \in RetValues : Return(p, result)
    BY <1>11 DEF Failure, AppendError, Kill, RetValues
  <2>2. IsSequence(log') /\ UNCHANGED <<ckpt, synced, named, ckptDisk, issued>>
    BY <1>11, AppendLine DEF Failure, AppendError, Kill, TypeOK, files, history, IsSequence
  <2>3. faults' \in 0..MaxFaults /\ tampers' = tampers
    BY <1>11 DEF Failure, AppendError, Kill, Fault, TypeOK
  <2> QED BY <2>1, <2>2, <2>3, ReturnTyped DEF TypeOK, IsSequence
<1>12. ASSUME PowerLoss
       PROVE  TypeOK'
  <2>1. IsSequence(log') /\ IsSequence(synced')
    BY <1>12, SurvivorsAreSequences DEF PowerLoss
  <2>2. /\ DOMAIN entries' = Procs /\ \A q \in Procs : IsSequence(entries'[q])
    <3>1. IsSequence(<<>>)
      BY DEF IsSequence
    <3> QED BY <1>12, <3>1 DEF PowerLoss
  <2>3. /\ named' \in BOOLEAN /\ ckpt' \in ckptDisk'
        /\ excl' \in Procs \cup {None} /\ shared' \subseteq Procs
        /\ pc' \in [Procs -> PcValues] /\ ret' \in [Procs -> RetValues]
        /\ arg' \in [Procs -> Authentic \cup issued' \cup {None}]
        /\ faults' \in 0..MaxFaults /\ tampers' \in 0..MaxTampers
    BY <1>12 DEF PowerLoss, Fault, TypeOK, PcValues, RetValues
  <2> QED BY <2>1, <2>2, <2>3 DEF TypeOK
<1>13. ASSUME Tamper
       PROVE  TypeOK'
  <2>1. IsSequence(log') /\ IsSequence(synced')
    BY <1>13, TamperedAreSequences DEF Tamper
  <2>2. UNCHANGED <<ckpt, named, ckptDisk, excl, shared, pc, arg, entries, ret, issued, faults>>
    BY <1>13 DEF Tamper, locks, locals, history
  <2>3. tampers' \in 0..MaxTampers
    BY <1>13 DEF Tamper, TypeOK
  <2> QED BY <2>1, <2>2, <2>3 DEF TypeOK
<1>14. CASE UNCHANGED vars
  BY <1>14 DEF vars, files, locks, locals, history, budget, TypeOK, IsSequence
<1> QED
  BY <1>1, <1>2, <1>3, <1>4, <1>5, <1>6, <1>7, <1>8, <1>9, <1>10, <1>11, <1>12, <1>13, <1>14
  DEF Next, Call, Step

\* The initial state has the types.
LEMMA TypeInit ==
  ASSUME Init
  PROVE  TypeOK
<1>1. IsSequence(<<>>)
  BY DEF IsSequence
<1>2. DOMAIN entries = Procs /\ \A p \in Procs : IsSequence(entries[p])
  BY <1>1 DEF Init
<1>3. IsSequence(log) /\ IsSequence(synced)
  BY <1>1 DEF Init
<1>4. /\ named \in BOOLEAN /\ ckpt \in ckptDisk
      /\ excl \in Procs \cup {None} /\ shared \subseteq Procs
  BY DEF Init
<1>5. pc \in [Procs -> PcValues] /\ ret \in [Procs -> RetValues]
  BY DEF Init, PcValues, RetValues
<1>6. arg \in [Procs -> Authentic \cup issued \cup {None}]
  BY DEF Init
<1>7. faults \in 0..MaxFaults /\ tampers \in 0..MaxTampers
  BY BoundsAssumption DEF Init
<1> QED BY <1>2, <1>3, <1>4, <1>5, <1>6, <1>7 DEF TypeOK

\* The files, locks and local variables of append, verify and verify_receipt
\* keep their types, whatever fails.
THEOREM TypeCorrect == Spec => []TypeOK
<1>1. Init => TypeOK
  BY TypeInit
<1>2. TypeOK /\ [Next]_vars => TypeOK'
  BY TypeStep
<1> QED BY <1>1, <1>2, PTL DEF Spec
-----------------------------------------------------------------------------
(* Locking                                                                 *)

\* Leaving the with-block keeps LockInv, whoever held the lock.
LEMMA LockReturn ==
  ASSUME TypeOK, LockInv, NEW p \in Procs, NEW result, Return(p, result)
  PROVE  LockInv'
<1>1. /\ pc' = [pc EXCEPT ![p] = "idle"] /\ pc \in [Procs -> PcValues]
      /\ excl' = IF excl = p THEN None ELSE excl
      /\ shared' = shared \ {p}
  BY DEF Return, TypeOK
<1>2. "idle" \notin Critical /\ "idle" # "readshared"
  BY DEF Critical, Writing
<1>3. \A q \in Procs : excl' = q <=> pc'[q] \in Critical
  BY <1>1, <1>2, NoneAssumption DEF LockInv
<1>4. \A q \in Procs : q \in shared' <=> pc'[q] = "readshared"
  BY <1>1, <1>2 DEF LockInv
<1>5. excl' # None => shared' = {}
  BY <1>1 DEF LockInv
<1> QED BY <1>3, <1>4, <1>5 DEF LockInv

\* A step from one place inside the lock to another keeps it.
LEMMA LockKept ==
  ASSUME TypeOK, LockInv, NEW p \in Procs, UNCHANGED locks,
         NEW to \in PcValues, pc' = [pc EXCEPT ![p] = to],
         pc[p] \in Critical <=> to \in Critical,
         pc[p] # "readshared", to # "readshared"
  PROVE  LockInv'
BY DEF LockInv, locks, TypeOK

\* Every step keeps LockInv.
LEMMA LockStep ==
  ASSUME TypeOK, LockInv, [Next]_vars
  PROVE  LockInv'
<1>1. ASSUME NEW p \in Procs, NEW envelope \in Envelopes, AppendStart(p, envelope)
      PROVE  LockInv'
  <2>1. CASE UNCHANGED <<pc, locks>>
    BY <2>1 DEF LockInv, locks
  <2>2. CASE pc[p] = "idle" /\ pc' = [pc EXCEPT ![p] = "lock"] /\ UNCHANGED locks
    BY <2>2, LockKept DEF Critical, Writing, PcValues
  <2> QED BY <1>1, <2>1, <2>2 DEF AppendStart
<1>2. ASSUME NEW p \in Procs, NEW receipt \in issued \cup {None}, ReadStart(p, receipt)
      PROVE  LockInv'
  BY <1>2, LockKept DEF ReadStart, Goto, Critical, Writing, PcValues
<1>3. ASSUME NEW p \in Procs, AppendLock(p)
      PROVE  LockInv'
  BY <1>3, NoneAssumption DEF AppendLock, Goto, LockInv, TypeOK, Critical, Writing
<1>4. ASSUME NEW p \in Procs, AppendRead(p)
      PROVE  LockInv'
  <2>1. CASE \E result : Return(p, result)
    BY <2>1, LockReturn
  <2>2. CASE pc[p] = "read" /\ pc' = [pc EXCEPT ![p] = "write"] /\ UNCHANGED locks
    BY <2>2, LockKept DEF Critical, Writing, PcValues
  <2> QED BY <1>4, <2>1, <2>2 DEF AppendRead
<1>5. ASSUME NEW p \in Procs, AppendWrite(p)
      PROVE  LockInv'
  BY <1>5, LockKept DEF AppendWrite, Goto, Critical, Writing, PcValues
<1>6. ASSUME NEW p \in Procs, AppendFsync(p)
      PROVE  LockInv'
  BY <1>6, LockKept DEF AppendFsync, Goto, Critical, Writing, PcValues
<1>7. ASSUME NEW p \in Procs, AppendCheckpoint(p)
      PROVE  LockInv'
  BY <1>7, LockKept DEF AppendCheckpoint, Goto, Critical, Writing, PcValues
<1>8. ASSUME NEW p \in Procs, NEW result, Return(p, result)
      PROVE  LockInv'
  BY <1>8, LockReturn
<1>9. ASSUME NEW p \in Procs, ReadLock(p)
      PROVE  LockInv'
  BY <1>9 DEF ReadLock, Goto, LockInv, TypeOK, Critical, Writing
<1>10. CASE PowerLoss
  BY <1>10, NoneAssumption DEF PowerLoss, LockInv, Critical, Writing
<1>11. CASE Tamper
  BY <1>11 DEF Tamper, LockInv, locks, locals
<1>12. CASE UNCHANGED vars
  BY <1>12 DEF vars, LockInv, locks, locals
<1> QED
  BY <1>1, <1>2, <1>3, <1>4, <1>5, <1>6, <1>7, <1>8, <1>9, <1>10, <1>11, <1>12
  DEF Next, Call, Step, Failure, AppendFinish, ReadCheck, AppendError, Kill

\* At most one process is between the duplicate check and the directory sync
\* of append, and none reads meanwhile.
THEOREM MutualExclusion ==
  Spec => [](\A p, q \in Procs :
               pc[p] \in Critical /\ pc[q] \in Critical \cup {"readshared"} => p = q)
<1>1. Init => LockInv
  BY NoneAssumption DEF Init, LockInv, Critical, Writing
<1>2. TypeOK /\ LockInv /\ [Next]_vars => LockInv'
  BY LockStep
<1>3. LockInv => \A p, q \in Procs :
                   pc[p] \in Critical /\ pc[q] \in Critical \cup {"readshared"} => p = q
  BY NoneAssumption DEF LockInv
<1> QED BY <1>1, <1>2, <1>3, TypeCorrect, PTL DEF Spec
-----------------------------------------------------------------------------
(* The chain of entries                                                    *)

\* What append knows once _verify_unlocked has returned.
LEMMA VerifiedLog ==
  ASSUME NEW lines, NEW c, VerifyUnlocked(lines, c, TRUE) = "ok"
  PROVE  /\ Readable(lines) /\ ValidChain(lines)
         /\ c = None \/ c = Checkpoint(lines)
BY DEF VerifyUnlocked

\* The entry append builds extends a chain, unless its envelope is in it.
LEMMA ChainGrows ==
  ASSUME NEW lines, NEW envelope, IsSequence(lines), Chained(lines), Readable(lines),
         \A i \in 1..Len(lines) : lines[i].envelope # envelope
  PROVE  Chained(Append(lines, NextEntry(lines, envelope)))
<1> DEFINE e == NextEntry(lines, envelope)
           t == Append(lines, e)
<1>1. /\ Len(t) = Len(lines) + 1 /\ t[Len(lines) + 1] = e
      /\ \A i \in 1..Len(lines) : t[i] = lines[i]
  BY AppendLine
<1>2. Len(lines) \in Nat /\ (lines = <<>> <=> Len(lines) = 0)
  BY DEF IsSequence
<1>3. /\ e.sequence = Len(lines) /\ e.envelope = envelope
      /\ e.previous = IF Len(lines) = 0 THEN None ELSE EntryDigest(lines[Len(lines)])
  BY <1>2 DEF NextEntry, Entry, HeadDigest
<1> HIDE DEF e, t
<1>4. ASSUME NEW i \in 1..Len(t), i <= Len(lines)
      PROVE  /\ t[i] = lines[i] /\ t[i] # Garbage
             /\ t[i].sequence = i - 1
             /\ t[i].previous = IF i = 1 THEN None ELSE EntryDigest(t[i - 1])
             /\ \A j \in 1..(i - 1) : t[j].envelope # t[i].envelope
  <2>1. i \in 1..Len(lines) /\ t[i] = lines[i] /\ lines[i] # Garbage
    BY <1>1, <1>2, <1>4 DEF Readable
  <2>2. i # 1 => t[i - 1] = lines[i - 1]
    BY <1>1, <1>2, <2>1
  <2>3. \A j \in 1..(i - 1) : t[j] = lines[j]
    BY <1>1, <1>2, <2>1
  <2>4. /\ lines[i].sequence = i - 1
        /\ lines[i].previous = IF i = 1 THEN None ELSE EntryDigest(lines[i - 1])
        /\ \A j \in 1..(i - 1) : lines[j].envelope # lines[i].envelope
    BY <2>1 DEF Chained
  <2>5. t[i].previous = IF i = 1 THEN None ELSE EntryDigest(t[i - 1])
    BY <2>1, <2>2, <2>4
  <2>6. \A j \in 1..(i - 1) : t[j].envelope # t[i].envelope
    BY <2>1, <2>3, <2>4
  <2> QED BY <2>1, <2>4, <2>5, <2>6
<1>5. /\ t[Len(lines) + 1].sequence = Len(lines)
      /\ t[Len(lines) + 1].previous
           = IF Len(lines) = 0 THEN None ELSE EntryDigest(t[Len(lines)])
      /\ \A j \in 1..Len(lines) : t[j].envelope # t[Len(lines) + 1].envelope
  BY <1>1, <1>2, <1>3
<1>6. ASSUME NEW i \in 1..Len(t)
      PROVE  /\ t[i] = Garbage => i = Len(t)
             /\ t[i] # Garbage =>
                  /\ t[i].sequence = i - 1
                  /\ t[i].previous = IF i = 1 THEN None ELSE EntryDigest(t[i - 1])
                  /\ \A j \in 1..(i - 1) : t[j].envelope # t[i].envelope
  <2>1. CASE i <= Len(lines)
    BY <2>1, <1>4
  <2>2. CASE i = Len(lines) + 1
    BY <2>2, <1>1, <1>2, <1>5
  <2> QED BY <2>1, <2>2, <1>1, <1>2
<1> QED BY <1>6 DEF Chained, t, e

\* A torn line ends the chain.
LEMMA ChainTorn ==
  ASSUME NEW lines, IsSequence(lines), Chained(lines), Readable(lines)
  PROVE  Chained(Append(lines, Garbage))
<1> DEFINE t == Append(lines, Garbage)
<1>1. /\ Len(t) = Len(lines) + 1 /\ t[Len(lines) + 1] = Garbage
      /\ \A i \in 1..Len(lines) : t[i] = lines[i]
  BY AppendLine
<1>2. Len(lines) \in Nat
  BY DEF IsSequence
<1> HIDE DEF t
<1>3. ASSUME NEW i \in 1..Len(t)
      PROVE  /\ t[i] = Garbage => i = Len(t)
             /\ t[i] # Garbage =>
                  /\ t[i].sequence = i - 1
                  /\ t[i].previous = IF i = 1 THEN None ELSE EntryDigest(t[i - 1])
                  /\ \A j \in 1..(i - 1) : t[j].envelope # t[i].envelope
  <2>1. CASE i = Len(lines) + 1
    BY <2>1, <1>1
  <2>2. CASE i \in 1..Len(lines)
    <3>1. t[i] = lines[i] /\ lines[i] # Garbage
      BY <2>2, <1>1 DEF Readable
    <3>2. i # 1 => t[i - 1] = lines[i - 1]
      BY <1>1, <1>2, <2>2
    <3>3. \A j \in 1..(i - 1) : t[j] = lines[j]
      BY <1>1, <1>2, <2>2
    <3> QED BY <2>2, <3>1, <3>2, <3>3 DEF Chained
  <2> QED BY <2>1, <2>2, <1>1, <1>2
<1> QED BY <1>3 DEF Chained, t

\* A prefix of a chain is a chain, without a torn line if it is shorter.
LEMMA ChainPrefix ==
  ASSUME NEW lines, IsSequence(lines), Chained(lines), NEW n \in 0..Len(lines)
  PROVE  /\ Chained(SubSeq(lines, 1, n))
         /\ n < Len(lines) => Readable(SubSeq(lines, 1, n))
         /\ Readable(lines) => Readable(SubSeq(lines, 1, n))
<1> DEFINE t == SubSeq(lines, 1, n)
<1>1. Len(t) = n /\ \A i \in 1..n : t[i] = lines[i]
  BY PrefixLines
<1>2. Len(lines) \in Nat
  BY DEF IsSequence
<1> HIDE DEF t
<1>3. ASSUME NEW i \in 1..n
      PROVE  /\ t[i] = Garbage => i = Len(lines)
             /\ t[i] # Garbage =>
                  /\ t[i].sequence = i - 1
                  /\ t[i].previous = IF i = 1 THEN None ELSE EntryDigest(t[i - 1])
                  /\ \A j \in 1..(i - 1) : t[j].envelope # t[i].envelope
  <2>1. i \in 1..Len(lines) /\ t[i] = lines[i]
    BY <1>1, <1>2
  <2>2. i # 1 => t[i - 1] = lines[i - 1]
    BY <1>1, <1>2
  <2>3. \A j \in 1..(i - 1) : t[j] = lines[j]
    BY <1>1, <1>2
  <2> QED BY <2>1, <2>2, <2>3 DEF Chained
<1>4. Chained(t)
  BY <1>1, <1>2, <1>3 DEF Chained
<1>5. n < Len(lines) => Readable(t)
  BY <1>1, <1>2, <1>3 DEF Readable
<1>6. Readable(lines) => Readable(t)
  BY <1>1, <1>2 DEF Readable
<1> QED BY <1>4, <1>5, <1>6 DEF t

\* A readable chain passes _validate_entry_chain.
LEMMA ChainValid ==
  ASSUME NEW lines, IsSequence(lines), Chained(lines), Readable(lines)
  PROVE  ValidChain(lines)
BY DEF Chained, Readable, ValidChain
-----------------------------------------------------------------------------
(* Files, memory and receipts                                              *)

\* Nobody else is inside append.
LEMMA Alone ==
  ASSUME LockInv, NEW p \in Procs, pc[p] \in Critical
  PROVE  \A q \in Procs : q # p => pc[q] \notin Critical
BY DEF LockInv

\* A step that leaves the files alone and starts no write keeps the relation
\* between files, memory and receipts.
LEMMA FilesKept ==
  ASSUME FilesInv, UNCHANGED <<files, issued>>,
         \A q \in Procs :
           \/ pc'[q] = pc[q] /\ entries'[q] = entries[q] /\ arg'[q] = arg[q]
           \/ pc'[q] \notin Writing
  PROVE  FilesInv'
<1>1. UNCHANGED <<log, ckpt, synced, named, ckptDisk, issued>>
  BY DEF files
<1>2. LogInv' /\ CheckpointInv' /\ ReceiptInv'
  BY <1>1 DEF FilesInv, LogInv, CheckpointInv, ReceiptInv, Wedged
<1>3. WriterInv'
  BY <1>1 DEF FilesInv, WriterInv, Writing, Wedged
<1> QED BY <1>2, <1>3 DEF FilesInv

\* Leaving append or a reader without a change of the files.
LEMMA FilesReturn ==
  ASSUME TypeOK, FilesInv, UNCHANGED <<files, issued>>, NEW p \in Procs, NEW result, Return(p, result)
  PROVE  FilesInv'
BY FilesKept DEF Return, TypeOK, Writing

\* The duplicate check passed: append is about to write.
LEMMA FilesRead ==
  ASSUME TypeOK, LockInv, FilesInv, NEW p \in Procs, AppendRead(p)
  PROVE  FilesInv'
<1>1. UNCHANGED <<files, history>>
  BY DEF AppendRead
<1>2. CASE \E result : Return(p, result)
  BY <1>1, <1>2, FilesReturn DEF history
<1>3. CASE /\ VerifyUnlocked(log, ckpt, TRUE) = "ok"
           /\ ~\E i \in 1..Len(log) : log[i].envelope = arg[p]
           /\ pc' = [pc EXCEPT ![p] = "write"]
           /\ entries' = [entries EXCEPT ![p] = log]
           /\ UNCHANGED <<locks, arg, ret>>
  <2>1. Readable(log) /\ (ckpt = None \/ ckpt = Checkpoint(log))
    <3>1. VerifyUnlocked(log, ckpt, TRUE) = "ok"
      BY <1>3
    <3> QED BY <3>1, VerifiedLog
  <2>2. ~Wedged
    <3> SUFFICES ASSUME Wedged PROVE FALSE
      OBVIOUS
    <3>1. ckpt = Checkpoint(<<>>) /\ ckpt \in ckptDisk /\ ckpt # None
      BY <2>1 DEF Wedged
    <3>2. Checkpoint(<<>>).tree_size = 0
      BY DEF Checkpoint
    <3> QED BY <3>1, <3>2 DEF FilesInv, CheckpointInv
  <2>3. UNCHANGED <<log, ckpt, synced, named, ckptDisk, issued>>
    BY <1>1 DEF files, history
  <2>4. LogInv' /\ CheckpointInv' /\ ReceiptInv'
    BY <2>3 DEF FilesInv, LogInv, CheckpointInv, ReceiptInv, Wedged
  <2>5. ASSUME NEW q \in Procs
        PROVE  \/ pc'[q] = pc[q] /\ entries'[q] = entries[q] /\ arg'[q] = arg[q]
               \/ /\ pc'[q] = "write" /\ entries'[q] = log'
                  /\ \A i \in 1..Len(log') : log'[i].envelope # arg'[q]
    BY <1>3, <2>3 DEF TypeOK
  <2>6. WriterInv'
    BY <2>1, <2>2, <2>3, <2>5 DEF FilesInv, WriterInv, Writing, Wedged, Readable
  <2> QED BY <2>4, <2>6 DEF FilesInv
<1> QED BY <1>2, <1>3 DEF AppendRead

\* The receipts keep naming prefixes of a log that has grown.
LEMMA ReceiptsGrow ==
  ASSUME IsSequence(log), IsSequence(synced), LogInv, ReceiptInv, NEW line,
         log' = Append(log, line), UNCHANGED <<named, synced, issued>>
  PROVE  ReceiptInv'
<1>1. ASSUME NEW n \in 1..Len(synced)
      PROVE  SubSeq(log', 1, n) = SubSeq(log, 1, n)
  BY PrefixOfAppend DEF LogInv, IsSequence
<1> QED BY <1>1 DEF ReceiptInv

\* A new line, whole or torn, reaches the file.
LEMMA FilesWrite ==
  ASSUME TypeOK, LockInv, FilesInv, NEW p \in Procs, pc[p] = "write", NEW line,
         line = NextEntry(entries[p], arg[p]) \/ line = Garbage,
         log' = Append(log, line),
         UNCHANGED <<ckpt, synced, named, ckptDisk, issued>>,
         \A q \in Procs : q # p => pc'[q] = pc[q],
         \/ pc'[p] = "idle"
         \/ pc'[p] = "fsync" /\ entries'[p] = Append(entries[p], line)
  PROVE  FilesInv'
<1>1. IsSequence(log) /\ IsSequence(synced) /\ Len(log) \in Nat
  BY DEF TypeOK, IsSequence
<1>2. /\ Readable(log) /\ ~Wedged /\ entries[p] = log
      /\ \A i \in 1..Len(log) : log[i].envelope # arg[p]
  BY DEF FilesInv, WriterInv, Writing
<1>3. Chained(log')
  BY <1>1, <1>2, ChainGrows, ChainTorn DEF FilesInv, LogInv
<1>4. Len(log') = Len(log) + 1 /\ log' # <<>>
  BY <1>1, AppendLine
<1>5. LogInv'
  BY <1>1, <1>3, <1>4 DEF FilesInv, LogInv, IsSequence
<1>6. CheckpointInv'
  BY <1>2 DEF FilesInv, CheckpointInv
<1>7. ReceiptInv'
  BY <1>1, ReceiptsGrow DEF FilesInv
<1>8. \A q \in Procs : q # p => pc'[q] \notin Writing
  BY Alone DEF Critical, Writing
<1>9. WriterInv'
  BY <1>2, <1>4, <1>8 DEF WriterInv, Writing
<1> QED BY <1>5, <1>6, <1>7, <1>9 DEF FilesInv

\* fsync of the log file keeps the relation between files, memory and receipts.
LEMMA FilesFsync ==
  ASSUME TypeOK, LockInv, FilesInv, NEW p \in Procs, AppendFsync(p)
  PROVE  FilesInv'
<1>1. /\ pc[p] = "fsync" /\ pc' = [pc EXCEPT ![p] = "checkpoint"] /\ synced' = log
      /\ UNCHANGED <<log, ckpt, named, ckptDisk, issued, entries, arg>>
  BY DEF AppendFsync, Goto, history
<1>2. log # <<>> /\ entries[p] = log
  BY <1>1 DEF FilesInv, WriterInv, Writing
<1>3. Len(log) \in Nat /\ Len(synced) \in Nat /\ Len(synced) <= Len(log)
  BY DEF FilesInv, LogInv, TypeOK, IsSequence
<1>4. LogInv'
  BY <1>1, <1>3 DEF FilesInv, LogInv
<1>5. CheckpointInv'
  BY <1>1, <1>2, <1>3 DEF FilesInv, CheckpointInv, Wedged
<1>6. ReceiptInv'
  BY <1>1, <1>3 DEF FilesInv, ReceiptInv
<1>7. \A q \in Procs : q # p => pc'[q] \notin Writing
  BY <1>1, Alone DEF Critical, Writing, TypeOK
<1>8. WriterInv'
  BY <1>1, <1>2, <1>7 DEF WriterInv, Writing, TypeOK
<1> QED BY <1>4, <1>5, <1>6, <1>8 DEF FilesInv

\* Replacing the checkpoint keeps it: the lines it covers are on disk.
LEMMA FilesCheckpoint ==
  ASSUME TypeOK, LockInv, FilesInv, NEW p \in Procs, AppendCheckpoint(p)
  PROVE  FilesInv'
<1>1. /\ pc[p] = "checkpoint" /\ pc' = [pc EXCEPT ![p] = "finish"]
      /\ ckpt' = Checkpoint(entries[p]) /\ ckptDisk' = ckptDisk \cup {ckpt'}
      /\ UNCHANGED <<log, synced, named, issued, entries, arg>>
  BY DEF AppendCheckpoint, Goto, history
<1>2. log # <<>> /\ entries[p] = log /\ synced = log
  BY <1>1 DEF FilesInv, WriterInv, Writing
<1>3. Len(log) \in Nat \ {0}
  BY <1>2 DEF TypeOK, IsSequence
<1>4. ckpt'.tree_size = Len(log)
  BY <1>1, <1>2 DEF Checkpoint
<1>5. LogInv' /\ ReceiptInv'
  BY <1>1 DEF FilesInv, LogInv, ReceiptInv
<1>6. CheckpointInv'
  BY <1>1, <1>2, <1>3, <1>4 DEF FilesInv, CheckpointInv, Wedged
<1>7. \A q \in Procs : q # p => pc'[q] \notin Writing
  BY <1>1, Alone DEF Critical, Writing, TypeOK
<1>8. WriterInv'
  BY <1>1, <1>2, <1>7 DEF WriterInv, Writing, TypeOK
<1> QED BY <1>5, <1>6, <1>8 DEF FilesInv

\* The directory sync keeps it, and the new receipt verifies.
LEMMA FilesFinish ==
  ASSUME TypeOK, LockInv, FilesInv, NEW p \in Procs, AppendFinish(p)
  PROVE  FilesInv'
<1>1. /\ pc[p] = "finish" /\ pc' = [pc EXCEPT ![p] = "idle"]
      /\ named' = (named \/ DirFsyncSupported)
      /\ ckptDisk' = IF DirFsyncSupported THEN {ckpt} ELSE ckptDisk
      /\ issued' = issued \cup {InclusionReceipt(entries[p], Len(entries[p]) - 1)}
      /\ UNCHANGED <<log, ckpt, synced>>
  BY DEF AppendFinish, Return
<1>2. log # <<>> /\ entries[p] = log /\ synced = log
  BY <1>1 DEF FilesInv, WriterInv, Writing
<1>3. Len(log) \in Nat \ {0}
  BY <1>2 DEF TypeOK, IsSequence
<1>4. LogInv'
  BY <1>1 DEF FilesInv, LogInv
<1>5. CheckpointInv'
  BY <1>1, <1>2 DEF FilesInv, CheckpointInv, Wedged, TypeOK
<1>6. ReceiptInv'
  <2> SUFFICES ASSUME DirFsyncSupported, NEW r \in issued'
               PROVE  /\ named'
                      /\ \E n \in 1..Len(synced) :
                           r = InclusionReceipt(SubSeq(log, 1, n), n - 1)
    BY <1>1 DEF ReceiptInv
  <2>1. CASE r \in issued
    BY <1>1, <2>1 DEF FilesInv, ReceiptInv
  <2>2. CASE r = InclusionReceipt(log, Len(log) - 1)
    <3>1. SubSeq(log, 1, Len(log)) = log
      BY WholePrefix DEF TypeOK
    <3>2. Len(log) \in 1..Len(synced)
      BY <1>2, <1>3
    <3> QED BY <1>1, <2>2, <3>1, <3>2
  <2> QED BY <1>1, <1>2, <2>1, <2>2
<1>7. \A q \in Procs : pc'[q] \notin Writing
  BY <1>1, Alone DEF Critical, Writing, TypeOK
<1>8. WriterInv'
  BY <1>7 DEF WriterInv, Writing
<1> QED BY <1>4, <1>5, <1>6, <1>8 DEF FilesInv

\* What a power loss leaves of the log: at least its synced lines, unless the
\* file itself is gone.
LEMMA SurvivingLog ==
  ASSUME TypeOK, LogInv, NEW lines \in Survivors
  PROVE  /\ Chained(lines)
         /\ \/ /\ Len(lines) \in Nat /\ Len(synced) <= Len(lines)
               /\ \A n \in 1..Len(synced) : SubSeq(lines, 1, n) = SubSeq(log, 1, n)
               /\ log = <<>> => lines = <<>>
            \/ ~named /\ lines = <<>>
<1>1. /\ IsSequence(log) /\ Chained(log) /\ Len(log) \in Nat
      /\ Len(synced) \in Nat /\ Len(synced) <= Len(log)
  BY DEF TypeOK, LogInv, IsSequence
<1>2. CASE \E m \in Len(synced)..Len(log) : lines = SubSeq(log, 1, m)
  <2>1. PICK m \in Len(synced)..Len(log) : lines = SubSeq(log, 1, m)
    BY <1>2
  <2>2. m \in 0..Len(log)
    BY <1>1
  <2>3. Len(lines) = m /\ Chained(lines) /\ IsSequence(lines)
    BY <1>1, <2>1, <2>2, PrefixLines, ChainPrefix
  <2>4. \A n \in 1..Len(synced) : SubSeq(lines, 1, n) = SubSeq(log, 1, n)
    BY <1>1, <2>1, <2>2, PrefixOfPrefix
  <2>5. log = <<>> => lines = <<>>
    BY <2>1, <2>2, <2>3 DEF IsSequence
  <2> QED BY <1>1, <2>2, <2>3, <2>4, <2>5
<1>3. CASE \E m \in Len(synced)..(Len(log) - 1) : lines = Append(SubSeq(log, 1, m), Garbage)
  <2>1. PICK m \in Len(synced)..(Len(log) - 1) : lines = Append(SubSeq(log, 1, m), Garbage)
    BY <1>3
  <2> DEFINE t == SubSeq(log, 1, m)
  <2>2. m \in 0..Len(log) /\ m < Len(log)
    BY <1>1
  <2>3. Len(t) = m /\ IsSequence(t) /\ Chained(t) /\ Readable(t)
    BY <1>1, <2>2, PrefixLines, ChainPrefix
  <2>4. \A n \in 1..Len(synced) : SubSeq(t, 1, n) = SubSeq(log, 1, n)
    BY <1>1, <2>2, PrefixOfPrefix
  <2> HIDE DEF t
  <2>5. Chained(lines) /\ Len(lines) = m + 1
    BY <2>1, <2>3, ChainTorn, AppendLine DEF t
  <2>6. \A n \in 1..Len(synced) : SubSeq(lines, 1, n) = SubSeq(t, 1, n)
    BY <1>1, <2>1, <2>2, <2>3, PrefixOfAppend DEF t
  <2>7. log # <<>>
    BY <2>2
  <2> QED BY <1>1, <2>2, <2>4, <2>5, <2>6, <2>7
<1>4. CASE ~named /\ lines = <<>>
  BY <1>4 DEF Chained
<1> QED BY <1>2, <1>3, <1>4 DEF Survivors

\* A power loss keeps it: what is left covers every receipt.
LEMMA FilesPowerLoss ==
  ASSUME TypeOK, FilesInv, PowerLoss
  PROVE  FilesInv'
<1>1. /\ log' \in Survivors /\ synced' = log' /\ ckpt' \in ckptDisk
      /\ ckptDisk' = {ckpt'} /\ named' = (log' # <<>>) /\ issued' = issued
      /\ pc' = [p \in Procs |-> "idle"]
  BY DEF PowerLoss, history
<1>2. /\ Chained(log')
      /\ \/ /\ Len(log') \in Nat /\ Len(synced) <= Len(log')
            /\ \A n \in 1..Len(synced) : SubSeq(log', 1, n) = SubSeq(log, 1, n)
            /\ log = <<>> => log' = <<>>
         \/ ~named /\ log' = <<>>
  BY <1>1, SurvivingLog DEF FilesInv
<1>3. Len(synced) \in Nat
  BY DEF TypeOK, IsSequence
<1>4. LogInv'
  <2>1. Len(log') \in Nat
    BY <1>2
  <2> QED BY <1>1, <1>2, <2>1 DEF LogInv
<1>5. CheckpointInv'
  <2>1. ckpt' # None => ckpt'.tree_size \in Nat \ {0}
    BY <1>1 DEF FilesInv, CheckpointInv
  <2>2. CASE Wedged
    BY <1>1, <1>2, <2>1, <2>2 DEF Wedged, CheckpointInv
  <2>3. CASE log' = <<>>
    BY <1>1, <2>1, <2>3 DEF Wedged, CheckpointInv
  <2>4. CASE ~Wedged /\ log' # <<>>
    <3>1. Len(log') \in Nat /\ Len(synced) <= Len(log')
      BY <1>2, <2>4
    <3>2. ckpt' # None => ckpt'.tree_size <= Len(log')
      BY <1>1, <1>3, <2>1, <2>4, <3>1 DEF FilesInv, CheckpointInv
    <3> QED BY <1>1, <2>1, <3>2 DEF CheckpointInv
  <2> QED BY <2>2, <2>3, <2>4
<1>6. ReceiptInv'
  <2> SUFFICES ASSUME DirFsyncSupported, NEW r \in issued
               PROVE  /\ named'
                      /\ \E n \in 1..Len(log') :
                           r = InclusionReceipt(SubSeq(log', 1, n), n - 1)
    BY <1>1 DEF ReceiptInv
  <2>1. PICK n \in 1..Len(synced) : r = InclusionReceipt(SubSeq(log, 1, n), n - 1)
    BY DEF FilesInv, ReceiptInv
  <2>2. named
    BY DEF FilesInv, ReceiptInv
  <2>3. /\ Len(log') \in Nat /\ Len(synced) <= Len(log')
        /\ SubSeq(log', 1, n) = SubSeq(log, 1, n)
    BY <1>2, <2>2
  <2>4. n \in 1..Len(log') /\ log' # <<>>
    BY <1>3, <2>3
  <2> QED BY <1>1, <2>1, <2>3, <2>4
<1>7. WriterInv'
  BY <1>1 DEF WriterInv, Writing
<1> QED BY <1>4, <1>5, <1>6, <1>7 DEF FilesInv

\* Every step of an untampered log keeps files, memory and receipts in step.
LEMMA DataStep ==
  ASSUME TypeOK, LockInv, DataInv, [Next]_vars
  PROVE  DataInv'
<1> SUFFICES ASSUME Untampered'
             PROVE  FilesInv'
  BY DEF DataInv
<1>1. tampers' \in {tampers, tampers + 1} /\ (Tamper => tampers' = tampers + 1)
  BY DEF Next, Call, Step, Failure, vars, budget, AppendStart, AppendLock, AppendRead, AppendWrite,
     AppendFsync, AppendCheckpoint, AppendFinish, ReadStart, ReadLock, ReadCheck, AppendError,
     Kill, PowerLoss, Tamper, Fault
<1>2. FilesInv /\ ~Tamper
  BY <1>1 DEF DataInv, Untampered, TypeOK
<1>3. ASSUME NEW p \in Procs, NEW envelope \in Envelopes, AppendStart(p, envelope)
      PROVE  FilesInv'
  <2>1. UNCHANGED <<files, entries, issued>>
    BY <1>3 DEF AppendStart, history
  <2>2. \A q \in Procs : (pc'[q] = pc[q] /\ arg'[q] = arg[q]) \/ pc'[q] \notin Writing
    BY <1>3 DEF AppendStart, TypeOK, Writing
  <2> QED BY <1>2, <2>1, <2>2, FilesKept
<1>4. ASSUME NEW p \in Procs, NEW receipt \in issued \cup {None}, ReadStart(p, receipt)
      PROVE  FilesInv'
  <2>1. UNCHANGED <<files, entries, issued>>
    BY <1>4 DEF ReadStart, history
  <2>2. \A q \in Procs : (pc'[q] = pc[q] /\ arg'[q] = arg[q]) \/ pc'[q] \notin Writing
    BY <1>4 DEF ReadStart, Goto, TypeOK, Writing
  <2> QED BY <1>2, <2>1, <2>2, FilesKept
<1>5. ASSUME NEW p \in Procs, AppendLock(p) \/ ReadLock(p)
      PROVE  FilesInv'
  <2>1. UNCHANGED <<files, entries, arg, issued>>
    BY <1>5 DEF AppendLock, ReadLock, history
  <2>2. \A q \in Procs : pc'[q] = pc[q] \/ pc'[q] \notin Writing
    BY <1>5 DEF AppendLock, ReadLock, Goto, TypeOK, Writing
  <2> QED BY <1>2, <2>1, <2>2, FilesKept
<1>6. ASSUME NEW p \in Procs, AppendRead(p)
      PROVE  FilesInv'
  BY <1>2, <1>6, FilesRead
<1>7. ASSUME NEW p \in Procs, AppendWrite(p)
      PROVE  FilesInv'
  <2> DEFINE line == NextEntry(entries[p], arg[p])
  <2>1. /\ pc[p] = "write" /\ pc' = [pc EXCEPT ![p] = "fsync"]
        /\ log' = Append(log, line)
        /\ entries' = [entries EXCEPT ![p] = Append(@, line)]
        /\ UNCHANGED <<ckpt, synced, named, ckptDisk, issued>>
    BY <1>7 DEF AppendWrite, Goto
  <2>2. /\ \A q \in Procs : q # p => pc'[q] = pc[q]
        /\ pc'[p] = "fsync" /\ entries'[p] = Append(entries[p], line)
    BY <2>1 DEF TypeOK
  <2> HIDE DEF line
  <2>3. line = NextEntry(entries[p], arg[p])
    BY DEF line
  <2> QED BY <1>2, <2>1, <2>2, <2>3, FilesWrite
<1>8. ASSUME NEW p \in Procs, AppendFsync(p)
      PROVE  FilesInv'
  BY <1>2, <1>8, FilesFsync
<1>9. ASSUME NEW p \in Procs, AppendCheckpoint(p)
      PROVE  FilesInv'
  BY <1>2, <1>9, FilesCheckpoint
<1>10. ASSUME NEW p \in Procs, AppendFinish(p)
       PROVE  FilesInv'
  BY <1>2, <1>10, FilesFinish
<1>11. ASSUME NEW p \in Procs, ReadCheck(p) \/ Kill(p)
       PROVE  FilesInv'
  <2>1. UNCHANGED <<files, issued>> /\ \E result : Return(p, result)
    BY <1>11 DEF ReadCheck, Kill, history
  <2> QED BY <1>2, <2>1, FilesReturn
<1>12. ASSUME NEW p \in Procs, AppendError(p)
       PROVE  FilesInv'
  <2>1. /\ Return(p, "error")
        /\ UNCHANGED <<ckpt, synced, named, ckptDisk, issued>>
    BY <1>12 DEF AppendError, history
  <2>2. CASE UNCHANGED log
    BY <1>2, <2>1, <2>2, FilesReturn DEF files
  <2>3. CASE pc[p] = "write" /\ log' = Append(log, Garbage)
    <3>1. pc'[p] = "idle" /\ \A q \in Procs : q # p => pc'[q] = pc[q]
      BY <2>1 DEF Return, TypeOK
    <3> QED BY <1>2, <2>1, <2>3, <3>1, FilesWrite
  <2> QED BY <1>12, <2>2, <2>3 DEF AppendError
<1>13. CASE PowerLoss
  BY <1>2, <1>13, FilesPowerLoss
<1>14. CASE UNCHANGED vars
  BY <1>2, <1>14, FilesKept DEF vars, locals, history
<1> QED
  BY <1>2, <1>3, <1>4, <1>5, <1>6, <1>7, <1>8, <1>9, <1>10, <1>11, <1>12, <1>13, <1>14
  DEF Next, Call, Step, Failure

\* The strengthened invariant holds in every reachable state.
LEMMA Invariant == Spec => []IInv
<1>1. Init => DataInv
  <2> SUFFICES ASSUME Init PROVE FilesInv
    BY DEF DataInv
  <2>1. LogInv
    BY DEF Init, LogInv, Chained
  <2>2. CheckpointInv /\ WriterInv /\ ReceiptInv
    BY DEF Init, CheckpointInv, WriterInv, ReceiptInv, Writing
  <2> QED BY <2>1, <2>2 DEF FilesInv
<1>2. Init => IInv
  BY <1>1, TypeInit, NoneAssumption DEF Init, IInv, LockInv, Critical, Writing
<1>3. IInv /\ [Next]_vars => IInv'
  BY TypeStep, LockStep, DataStep DEF IInv
<1> QED BY <1>2, <1>3, PTL DEF Spec

\* Concurrent, failed and repeated appends publish an envelope at most once.
THEOREM PublishedOnce == Spec => []OneEntryPerEnvelope
<1>1. IInv => OneEntryPerEnvelope
  <2> SUFFICES ASSUME IInv, Untampered, NEW i \in 1..Len(log), NEW j \in 1..Len(log),
                      i # j, log[i] # Garbage, log[j] # Garbage
               PROVE  log[i].envelope # log[j].envelope
    BY DEF OneEntryPerEnvelope
  <2>1. Chained(log) /\ Len(log) \in Nat
    BY DEF IInv, DataInv, FilesInv, LogInv, TypeOK, IsSequence
  <2>2. CASE i < j
    BY <2>1, <2>2 DEF Chained
  <2>3. CASE j < i
    BY <2>1, <2>3 DEF Chained
  <2> QED BY <2>1, <2>2, <2>3
<1> QED BY <1>1, Invariant, PTL

\* A checkpoint on disk never covers more lines than are on disk.
THEOREM CheckpointFollowsLog == Spec => []WriteAhead
<1>1. IInv => WriteAhead
  BY DEF IInv, DataInv, FilesInv, CheckpointInv, Wedged, WriteAhead
<1> QED BY <1>1, Invariant, PTL

\* The receipt of a prefix that is still there verifies.
LEMMA PrefixReceiptVerifies ==
  ASSUME IsSequence(log), Chained(log), Readable(log), NEW n \in 1..Len(log)
  PROVE  ReceiptVerifies(InclusionReceipt(SubSeq(log, 1, n), n - 1), log)
<1> DEFINE t == SubSeq(log, 1, n)
           r == InclusionReceipt(t, n - 1)
<1>1. n \in 0..Len(log) /\ Len(log) \in Nat
  BY DEF IsSequence
<1>2. IsSequence(t) /\ Len(t) = n /\ Chained(t) /\ Readable(t)
  BY <1>1, PrefixLines, ChainPrefix
<1>3. ValidChain(t)
  BY <1>2, ChainValid
<1> HIDE DEF t
<1>4. /\ r.checkpoint = Checkpoint(t) /\ r.leaf_index = n - 1
      /\ r.entry_digest = EntryDigest(t[(n - 1) + 1])
  BY DEF InclusionReceipt
<1>5. r.checkpoint.tree_size = n
  BY <1>2, <1>4 DEF Checkpoint
<1> HIDE DEF r
<1>6. r = InclusionReceipt(t, n - 1)
  BY DEF r
<1> QED BY <1>1, <1>3, <1>4, <1>5, <1>6 DEF ReceiptVerifies, t, r

\* Every receipt append ever returned verifies against the log as it is,
\* while its lines can be read.
THEOREM ReceiptsStayVerifiable == Spec => []ReceiptsVerifiable
<1>1. IInv => ReceiptsVerifiable
  <2> SUFFICES ASSUME IInv, Untampered, DirFsyncSupported, Readable(log), NEW r \in issued
               PROVE  ReceiptVerifies(r, log)
    BY DEF ReceiptsVerifiable
  <2>1. IsSequence(log) /\ Chained(log) /\ Len(synced) <= Len(log) /\ ReceiptInv
    BY DEF IInv, DataInv, FilesInv, LogInv, TypeOK
  <2>2. Len(synced) \in Nat /\ Len(log) \in Nat
    BY DEF IInv, TypeOK, IsSequence
  <2>3. PICK n \in 1..Len(synced) : r = InclusionReceipt(SubSeq(log, 1, n), n - 1)
    BY <2>1 DEF ReceiptInv
  <2>4. n \in 1..Len(log)
    BY <2>1, <2>2
  <2> QED BY <2>1, <2>3, <2>4, PrefixReceiptVerifies
<1> QED BY <1>1, Invariant, PTL

\* As long as nothing but this module edits the log, receipts never show two
\* histories, across any number of crashes and power losses.
THEOREM SingleHistory == Spec => [](Untampered => NoFork)
<1>1. IInv => (Untampered => NoFork)
  <2> SUFFICES ASSUME IInv, Untampered, DirFsyncSupported, NEW r \in issued, NEW s \in issued,
                      r.checkpoint.tree_size = s.checkpoint.tree_size
               PROVE  r = s
    BY DEF NoFork
  <2>1. IsSequence(log) /\ Len(synced) <= Len(log) /\ ReceiptInv
    BY DEF IInv, DataInv, FilesInv, LogInv, TypeOK
  <2>2. Len(synced) \in Nat /\ Len(log) \in Nat
    BY DEF IInv, TypeOK, IsSequence
  <2>3. \A n \in 1..Len(synced) :
          InclusionReceipt(SubSeq(log, 1, n), n - 1).checkpoint.tree_size = n
    <3> TAKE n \in 1..Len(synced)
    <3>1. n \in 0..Len(log)
      BY <2>1, <2>2
    <3>2. Len(SubSeq(log, 1, n)) = n
      BY <2>1, <3>1, PrefixLines
    <3> QED BY <3>2 DEF InclusionReceipt, Checkpoint
  <2>4. PICK m \in 1..Len(synced) : r = InclusionReceipt(SubSeq(log, 1, m), m - 1)
    BY <2>1 DEF ReceiptInv
  <2>5. PICK n \in 1..Len(synced) : s = InclusionReceipt(SubSeq(log, 1, n), n - 1)
    BY <2>1 DEF ReceiptInv
  <2>6. m = n
    BY <2>3, <2>4, <2>5
  <2> QED BY <2>4, <2>5, <2>6
<1> QED BY <1>1, Invariant, PTL
-----------------------------------------------------------------------------
(* Edits of the log file                                                   *)

\* What append trusts of SHA-256: the root of the tree tells lists of as many
\* digests apart.
CollisionFree ==
  \A s, t : IsSequence(s) /\ IsSequence(t) /\ Len(s) = Len(t)
              /\ MerkleRoot(s) = MerkleRoot(t) => s = t

\* A checkpoint file that exists is told apart from a missing one.
CheckpointExists == \A es : Checkpoint(es) # None

IsEntry(e) == e = Entry(e.sequence, e.previous, e.envelope)

\* Entries that append has written, in the order of their chain, and from
\* whose prefixes every receipt was derived.
Vouched(es) ==
  /\ IsSequence(es)
  /\ ValidChain(es)
  /\ \A i \in 1..Len(es) : es[i] \in written
  /\ \A r \in issued : \E n \in 1..Len(es) : r = InclusionReceipt(SubSeq(es, 1, n), n - 1)

\* Whoever edits the log, its lines are entries or do not validate.
LinesInv ==
  /\ \A i \in 1..Len(log) : log[i] = Garbage \/ IsEntry(log[i])
  /\ \A e \in written : IsEntry(e)

\* Every checkpoint a power loss may leave is of entries that carry all the
\* receipts; without one there is no receipt.
CheckpointsVouch ==
  \A c \in ckptDisk :
    IF c = None THEN issued = {} ELSE \E es : Vouched(es) /\ c = Checkpoint(es)

\* So is what an appending process has in memory, whatever the file has become.
WritersVouch ==
  \A p \in Procs :
    /\ pc[p] \in Writing => Vouched(entries[p])
    /\ pc[p] = "write" => \A i \in 1..Len(entries[p]) : entries[p][i].envelope # arg[p]
    /\ pc[p] \in {"fsync", "checkpoint", "finish"} => entries[p] # <<>>
    /\ pc[p] = "finish" => ckpt = Checkpoint(entries[p])

VouchInv == LinesInv /\ (DirFsyncSupported => CheckpointsVouch /\ WritersVouch)

\* Lists of entries with the same checkpoint are the same.
LEMMA SameCheckpoint ==
  ASSUME CollisionFree, NEW s, NEW t, IsSequence(s), IsSequence(t),
         \A i \in 1..Len(s) : IsEntry(s[i]), \A i \in 1..Len(t) : IsEntry(t[i]),
         Checkpoint(s) = Checkpoint(t)
  PROVE  s = t
<1>1. \A es : IsSequence(es) =>
        IsSequence(Digests(es)) /\ Len(Digests(es)) = Len(es)
  <2> TAKE es
  <2> HAVE IsSequence(es)
  <2> DEFINE D == {EntryDigest(es[i]) : i \in 1..Len(es)}
  <2>1. Digests(es) \in Seq(D) /\ Len(Digests(es)) = Len(es)
    BY DEF Digests, IsSequence
  <2> QED BY <2>1, SeqIsSequence
<1>2. Len(s) = Len(t) /\ MerkleRoot(Digests(s)) = MerkleRoot(Digests(t))
  BY DEF Checkpoint
<1>3. Digests(s) = Digests(t)
  BY <1>1, <1>2 DEF CollisionFree
<1>4. ASSUME NEW i \in 1..Len(s)
      PROVE  s[i] = t[i]
  <2>1. EntryDigest(s[i]) = Digests(s)[i] /\ EntryDigest(t[i]) = Digests(t)[i]
    BY <1>2 DEF Digests
  <2>2. EntryDigest(s[i]) = EntryDigest(t[i])
    BY <1>3, <2>1
  <2>3. /\ s[i].sequence = t[i].sequence /\ s[i].previous = t[i].previous
        /\ s[i].envelope = t[i].envelope
    BY <2>2 DEF EntryDigest
  <2>4. IsEntry(s[i]) /\ IsEntry(t[i])
    BY <1>2
  <2> QED BY <2>3, <2>4 DEF IsEntry
<1> QED BY <1>2, <1>4, SameLines

\* A log that matches a checkpoint on disk is the list of entries it is of.
LEMMA MatchingLogVouched ==
  ASSUME CollisionFree, DirFsyncSupported, VouchInv, IsSequence(log), Readable(log),
         ckpt \in ckptDisk, ckpt # None, ckpt = Checkpoint(log)
  PROVE  Vouched(log)
<1>1. PICK es : Vouched(es) /\ ckpt = Checkpoint(es)
  BY DEF VouchInv, CheckpointsVouch
<1>2. \A i \in 1..Len(es) : IsEntry(es[i])
  BY <1>1 DEF Vouched, VouchInv, LinesInv
<1>3. \A i \in 1..Len(log) : IsEntry(log[i])
  BY DEF VouchInv, LinesInv, Readable
<1>4. log = es
  BY <1>1, <1>2, <1>3, SameCheckpoint DEF Vouched
<1> QED BY <1>1, <1>4

\* The chain append extends stays one that _validate_entry_chain accepts.
LEMMA ValidChainGrows ==
  ASSUME NEW lines, NEW envelope, IsSequence(lines), ValidChain(lines),
         \A i \in 1..Len(lines) : lines[i].envelope # envelope
  PROVE  ValidChain(Append(lines, NextEntry(lines, envelope)))
<1> DEFINE e == NextEntry(lines, envelope)
           t == Append(lines, e)
<1>1. /\ Len(t) = Len(lines) + 1 /\ t[Len(lines) + 1] = e
      /\ \A i \in 1..Len(lines) : t[i] = lines[i]
  BY AppendLine
<1>2. Len(lines) \in Nat /\ (lines = <<>> <=> Len(lines) = 0)
  BY DEF IsSequence
<1>3. /\ e.sequence = Len(lines) /\ e.envelope = envelope
      /\ e.previous = IF Len(lines) = 0 THEN None ELSE EntryDigest(lines[Len(lines)])
  BY <1>2 DEF NextEntry, Entry, HeadDigest
<1> HIDE DEF e, t
<1>4. ASSUME NEW i \in 1..Len(t)
      PROVE  /\ t[i].sequence = i - 1
             /\ t[i].previous = IF i = 1 THEN None ELSE EntryDigest(t[i - 1])
             /\ \A j \in 1..(i - 1) : t[j].envelope # t[i].envelope
  <2>1. CASE i <= Len(lines)
    <3>1. i \in 1..Len(lines) /\ t[i] = lines[i]
      BY <1>1, <1>2, <2>1
    <3>2. i # 1 => t[i - 1] = lines[i - 1]
      BY <1>1, <1>2, <3>1
    <3>3. \A j \in 1..(i - 1) : t[j] = lines[j]
      BY <1>1, <1>2, <3>1
    <3> QED BY <3>1, <3>2, <3>3 DEF ValidChain
  <2>2. CASE i = Len(lines) + 1
    <3>1. i # 1 => t[i - 1] = lines[i - 1]
      BY <1>1, <1>2, <2>2
    <3>2. \A j \in 1..(i - 1) : t[j] = lines[j]
      BY <1>1, <1>2, <2>2
    <3> QED BY <1>1, <1>2, <1>3, <2>2, <3>1, <3>2
  <2> QED BY <1>1, <1>2, <2>1, <2>2
<1> QED BY <1>4 DEF ValidChain, t, e

\* A prefix of such a chain is one.
LEMMA ValidChainPrefix ==
  ASSUME NEW lines, IsSequence(lines), ValidChain(lines), NEW n \in 0..Len(lines)
  PROVE  ValidChain(SubSeq(lines, 1, n))
<1> DEFINE t == SubSeq(lines, 1, n)
<1>1. Len(t) = n /\ \A i \in 1..n : t[i] = lines[i]
  BY PrefixLines
<1>2. Len(lines) \in Nat
  BY DEF IsSequence
<1> HIDE DEF t
<1>3. ASSUME NEW i \in 1..n
      PROVE  /\ t[i].sequence = i - 1
             /\ t[i].previous = IF i = 1 THEN None ELSE EntryDigest(t[i - 1])
             /\ \A j \in 1..(i - 1) : t[j].envelope # t[i].envelope
  <2>1. i \in 1..Len(lines) /\ t[i] = lines[i]
    BY <1>1, <1>2
  <2>2. i # 1 => t[i - 1] = lines[i - 1]
    BY <1>1, <1>2
  <2>3. \A j \in 1..(i - 1) : t[j] = lines[j]
    BY <1>1, <1>2
  <2> QED BY <2>1, <2>2, <2>3 DEF ValidChain
<1> QED BY <1>1, <1>3 DEF ValidChain, t

\* The receipts of a chain verify against it: this is PrefixReceiptVerifies
\* for a log that was edited and accepted.
LEMMA VouchedReceiptVerifies ==
  ASSUME IsSequence(log), ValidChain(log), Readable(log), NEW n \in 1..Len(log)
  PROVE  ReceiptVerifies(InclusionReceipt(SubSeq(log, 1, n), n - 1), log)
<1> DEFINE t == SubSeq(log, 1, n)
           r == InclusionReceipt(t, n - 1)
<1>1. n \in 0..Len(log) /\ Len(log) \in Nat
  BY DEF IsSequence
<1>2. Len(t) = n /\ ValidChain(t)
  BY <1>1, PrefixLines, ValidChainPrefix
<1> HIDE DEF t
<1>3. /\ r.checkpoint = Checkpoint(t) /\ r.leaf_index = n - 1
      /\ r.entry_digest = EntryDigest(t[(n - 1) + 1])
  BY DEF InclusionReceipt
<1>4. r.checkpoint.tree_size = n
  BY <1>2, <1>3 DEF Checkpoint
<1> HIDE DEF r
<1>5. r = InclusionReceipt(t, n - 1)
  BY DEF r
<1> QED BY <1>1, <1>2, <1>3, <1>4, <1>5 DEF ReceiptVerifies, t, r

\* One more written entry leaves the receipts in the prefixes.
LEMMA VouchedGrows ==
  ASSUME NEW es, NEW envelope, Vouched(es),
         \A i \in 1..Len(es) : es[i].envelope # envelope,
         NEW e, e = NextEntry(es, envelope),
         written' = written \cup {e}, issued' = issued
  PROVE  Vouched(Append(es, e))'
<1>1. /\ IsSequence(es) /\ Len(es) \in Nat
      /\ ValidChain(es) /\ \A i \in 1..Len(es) : es[i] \in written
      /\ \A r \in issued : \E n \in 1..Len(es) : r = InclusionReceipt(SubSeq(es, 1, n), n - 1)
  BY DEF Vouched, IsSequence
<1> DEFINE t == Append(es, e)
<1>2. /\ IsSequence(t) /\ Len(t) = Len(es) + 1 /\ t[Len(es) + 1] = e
      /\ \A i \in 1..Len(es) : t[i] = es[i]
  BY <1>1, AppendLine
<1>3. ValidChain(t)
  BY <1>1, ValidChainGrows
<1>4. \A n \in 1..Len(es) : SubSeq(t, 1, n) = SubSeq(es, 1, n)
  BY <1>1, PrefixOfAppend
<1> HIDE DEF t
<1>5. \A i \in 1..Len(t) : t[i] \in written'
  BY <1>1, <1>2
<1>6. ASSUME NEW r \in issued'
      PROVE  \E n \in 1..Len(t) : r = InclusionReceipt(SubSeq(t, 1, n), n - 1)
  <2>1. PICK n \in 1..Len(es) : r = InclusionReceipt(SubSeq(es, 1, n), n - 1)
    BY <1>1
  <2>2. n \in 1..Len(t) /\ SubSeq(t, 1, n) = SubSeq(es, 1, n)
    BY <1>1, <1>2, <1>4
  <2> QED BY <2>1, <2>2
<1>7. Vouched(t)'
  BY <1>2, <1>3, <1>5, <1>6 DEF Vouched
<1> QED BY <1>7 DEF t

\* A power loss and an edit of the file leave lines that are entries or do not
\* validate, and so does every step of append.
LEMMA LinesStep ==
  ASSUME TypeOK, LinesInv, [Next]_vars
  PROVE  LinesInv'
<1>1. IsSequence(log) /\ Len(log) \in Nat /\ Len(synced) \in Nat
  BY DEF TypeOK, IsSequence
<1>2. ASSUME NEW line, log' = Append(log, line), line = Garbage \/ IsEntry(line),
             written' = written \/ (written' = written \cup {line} /\ IsEntry(line))
      PROVE  LinesInv'
  <2>1. /\ Len(log') = Len(log) + 1 /\ log'[Len(log) + 1] = line
        /\ \A i \in 1..Len(log) : log'[i] = log[i]
    BY <1>1, <1>2, AppendLine
  <2> QED BY <1>1, <1>2, <2>1 DEF LinesInv
<1>3. ASSUME NEW n \in 0..Len(log)
      PROVE  LET t == SubSeq(log, 1, n)
             IN IsSequence(t) /\ Len(t) = n /\ \A i \in 1..Len(t) : t[i] = Garbage \/ IsEntry(t[i])
  BY <1>1, PrefixLines DEF LinesInv
<1>4. \A s, e : IsEntry(NextEntry(s, e))
  BY DEF IsEntry, NextEntry, Entry
<1>5. ASSUME NEW n \in 0..Len(log), NEW line, line = Garbage \/ IsEntry(line),
             log' = Append(SubSeq(log, 1, n), line), written' = written
      PROVE  LinesInv'
  <2> DEFINE t == SubSeq(log, 1, n)
  <2>1. IsSequence(t) /\ Len(t) = n /\ \A i \in 1..n : t[i] = Garbage \/ IsEntry(t[i])
    BY <1>3
  <2> HIDE DEF t
  <2>2. log' = Append(t, line)
    BY <1>5 DEF t
  <2>3. /\ Len(log') = n + 1 /\ log'[n + 1] = line
        /\ \A i \in 1..n : log'[i] = t[i]
    BY <2>1, <2>2, AppendLine
  <2>4. \A i \in 1..Len(log') : log'[i] = Garbage \/ IsEntry(log'[i])
    BY <1>1, <1>5, <2>1, <2>3
  <2> QED BY <1>5, <2>4 DEF LinesInv
<1>6. CASE UNCHANGED <<log, written>>
  BY <1>6 DEF LinesInv
<1>7. ASSUME NEW p \in Procs, AppendWrite(p)
      PROVE  LinesInv'
  BY <1>2, <1>4, <1>7 DEF AppendWrite
<1>8. ASSUME NEW p \in Procs, AppendError(p)
      PROVE  LinesInv'
  BY <1>2, <1>6, <1>8 DEF AppendError, history
<1>9. CASE PowerLoss
  <2>1. log' \in Survivors /\ written' = written
    BY <1>9 DEF PowerLoss, history
  <2>2. CASE \E n \in Len(synced)..Len(log) : log' = SubSeq(log, 1, n)
    BY <1>1, <1>3, <2>1, <2>2 DEF LinesInv
  <2>3. CASE \E n \in Len(synced)..(Len(log) - 1) : log' = Append(SubSeq(log, 1, n), Garbage)
    BY <1>1, <1>5, <2>1, <2>3
  <2>4. CASE log' = <<>>
    BY <2>1, <2>4 DEF LinesInv
  <2> QED BY <2>1, <2>2, <2>3, <2>4 DEF Survivors
<1>10. CASE Tamper
  <2>1. TamperLines /\ written' = written
    BY <1>10 DEF Tamper, history
  <2>2. ASSUME NEW i \in 1..Len(log), log' = [log EXCEPT ![i] = Garbage]
        PROVE  LinesInv'
    <3>1. Len(log') = Len(log) /\ \A k \in 1..Len(log) : log'[k] \in {Garbage, log[k]}
      BY <1>1, <2>2 DEF IsSequence
    <3> QED BY <2>1, <3>1 DEF LinesInv
  <2>3. ASSUME NEW i \in 1..Len(log), NEW j \in 1..Len(log),
               log' = [log EXCEPT ![i] = log[j], ![j] = log[i]]
        PROVE  LinesInv'
    <3>1. Len(log') = Len(log) /\ \A k \in 1..Len(log) : log'[k] \in {log[i], log[j], log[k]}
      BY <1>1, <2>3 DEF IsSequence
    <3> QED BY <2>1, <3>1 DEF LinesInv
  <2>4. ASSUME NEW n \in 0..Len(log), log' = SubSeq(log, 1, n)
        PROVE  LinesInv'
    BY <1>3, <2>1, <2>4 DEF LinesInv
  <2>5. ASSUME NEW n \in 0..Len(log), NEW more \in Continued(SubSeq(log, 1, n)),
               log' = more \/ \E e : log' = Append(more, NextEntry(more, e))
        PROVE  LinesInv'
    <3> DEFINE t == SubSeq(log, 1, n)
    <3>1. PICK envelope \in Envelopes : more = Append(t, NextEntry(t, envelope))
      BY <2>5 DEF Continued
    <3>2. IsSequence(t) /\ Len(t) = n /\ \A i \in 1..Len(t) : t[i] = Garbage \/ IsEntry(t[i])
      BY <1>3
    <3> HIDE DEF t
    <3>3. /\ IsSequence(more) /\ Len(more) = n + 1 /\ more[n + 1] = NextEntry(t, envelope)
          /\ \A i \in 1..n : more[i] = t[i]
      BY <3>1, <3>2, AppendLine
    <3>4. \A i \in 1..Len(more) : more[i] = Garbage \/ IsEntry(more[i])
      BY <1>4, <3>2, <3>3
    <3>5. CASE log' = more
      BY <2>1, <3>4, <3>5 DEF LinesInv
    <3>6. ASSUME NEW e, log' = Append(more, NextEntry(more, e))
          PROVE  LinesInv'
      <4>1. /\ Len(log') = Len(more) + 1 /\ log'[Len(more) + 1] = NextEntry(more, e)
            /\ \A i \in 1..Len(more) : log'[i] = more[i]
        BY <3>3, <3>6, AppendLine
      <4>2. \A i \in 1..Len(log') : log'[i] = Garbage \/ IsEntry(log'[i])
        BY <1>4, <3>3, <3>4, <4>1
      <4> QED BY <2>1, <4>2 DEF LinesInv
    <3> QED BY <2>5, <3>5, <3>6
  <2> QED BY <2>1, <2>2, <2>3, <2>4, <2>5 DEF TamperLines
<1> QED
  BY <1>6, <1>7, <1>8, <1>9, <1>10
  DEF Next, Call, Step, Failure, vars, files, history, AppendStart, AppendLock, AppendRead,
      AppendFsync, AppendCheckpoint, AppendFinish, ReadStart, ReadLock, ReadCheck, Kill

\* A step that writes nothing, issues nothing and replaces no checkpoint keeps
\* the receipts in what the checkpoints and the writers stand for.
LEMMA VouchKept ==
  ASSUME CheckpointsVouch, WritersVouch, UNCHANGED <<written, issued, ckpt, ckptDisk>>,
         \A q \in Procs :
           \/ pc'[q] = pc[q] /\ entries'[q] = entries[q] /\ arg'[q] = arg[q]
           \/ pc'[q] \notin Writing
  PROVE  CheckpointsVouch' /\ WritersVouch'
<1>1. \A es : Vouched(es) => Vouched(es)'
  BY DEF Vouched
<1>2. CheckpointsVouch'
  BY <1>1 DEF CheckpointsVouch
<1>3. WritersVouch'
  BY <1>1 DEF WritersVouch, Writing
<1> QED BY <1>2, <1>3

\* The duplicate check passed: what append has read vouches.
LEMMA VouchRead ==
  ASSUME CollisionFree, DirFsyncSupported, TypeOK, VouchInv, NEW p \in Procs, AppendRead(p)
  PROVE  CheckpointsVouch' /\ WritersVouch'
<1>1. /\ CheckpointsVouch /\ WritersVouch
      /\ UNCHANGED <<log, written, issued, ckpt, ckptDisk>>
  BY DEF VouchInv, AppendRead, files, history
<1>2. CASE \E result : Return(p, result)
  BY <1>1, <1>2, VouchKept DEF Return, TypeOK, Writing
<1>3. CASE /\ VerifyUnlocked(log, ckpt, TRUE) = "ok"
           /\ ~ \E i \in 1..Len(log) : log[i].envelope = arg[p]
           /\ pc' = [pc EXCEPT ![p] = "write"]
           /\ entries' = [entries EXCEPT ![p] = log]
           /\ arg' = arg
  <2>1. IsSequence(log) /\ ckpt \in ckptDisk
    BY DEF TypeOK
  <2>2. Vouched(log)
    <3>1. CASE ckpt = None
      <4>1. issued = {} /\ log = <<>>
        BY <1>1, <1>3, <2>1, <3>1 DEF CheckpointsVouch, VerifyUnlocked
      <4> QED BY <2>1, <4>1 DEF Vouched, ValidChain
    <3>2. CASE ckpt # None
      <4>1. Readable(log) /\ ckpt = Checkpoint(log)
        BY <1>3, <3>2, VerifiedLog
      <4> QED BY <2>1, <3>2, <4>1, MatchingLogVouched
    <3> QED BY <3>1, <3>2
  <2>3. \A es : Vouched(es) => Vouched(es)'
    BY <1>1 DEF Vouched
  <2>4. CheckpointsVouch'
    BY <1>1, <2>3 DEF CheckpointsVouch
  <2>5. pc'[p] = "write" /\ entries'[p] = log /\ arg'[p] = arg[p]
    BY <1>3 DEF TypeOK
  <2>6. \A q \in Procs : q # p => pc'[q] = pc[q] /\ entries'[q] = entries[q] /\ arg'[q] = arg[q]
    BY <1>3 DEF TypeOK
  <2>7. WritersVouch'
    BY <1>1, <1>3, <2>2, <2>3, <2>5, <2>6 DEF WritersVouch
  <2> QED BY <2>4, <2>7
<1> QED BY <1>2, <1>3 DEF AppendRead

\* Every step keeps what checkpoints and writers stand for, edits included: no
\* edit reaches the checkpoint file or the memory of a process.
LEMMA VouchStep ==
  ASSUME CollisionFree, CheckpointExists, TypeOK, LockInv, VouchInv, [Next]_vars
  PROVE  VouchInv'
<1> SUFFICES ASSUME DirFsyncSupported
             PROVE  CheckpointsVouch' /\ WritersVouch'
  BY LinesStep DEF VouchInv
<1>1. CheckpointsVouch /\ WritersVouch
  BY DEF VouchInv
<1>2. ASSUME NEW p \in Procs, NEW envelope \in Envelopes, AppendStart(p, envelope)
      PROVE  CheckpointsVouch' /\ WritersVouch'
  <2>1. UNCHANGED <<entries, written, issued, ckpt, ckptDisk>>
    BY <1>2 DEF AppendStart, files, history
  <2>2. \A q \in Procs : (pc'[q] = pc[q] /\ arg'[q] = arg[q]) \/ pc'[q] \notin Writing
    BY <1>2 DEF AppendStart, TypeOK, Writing
  <2> QED BY <1>1, <2>1, <2>2, VouchKept
<1>3. ASSUME NEW p \in Procs, NEW receipt \in issued \cup {None}, ReadStart(p, receipt)
      PROVE  CheckpointsVouch' /\ WritersVouch'
  <2>1. UNCHANGED <<entries, written, issued, ckpt, ckptDisk>>
    BY <1>3 DEF ReadStart, files, history
  <2>2. \A q \in Procs : (pc'[q] = pc[q] /\ arg'[q] = arg[q]) \/ pc'[q] \notin Writing
    BY <1>3 DEF ReadStart, Goto, TypeOK, Writing
  <2> QED BY <1>1, <2>1, <2>2, VouchKept
<1>4. ASSUME NEW p \in Procs, AppendLock(p) \/ ReadLock(p)
      PROVE  CheckpointsVouch' /\ WritersVouch'
  <2>1. UNCHANGED <<entries, arg, written, issued, ckpt, ckptDisk>>
    BY <1>4 DEF AppendLock, ReadLock, files, history
  <2>2. \A q \in Procs : pc'[q] = pc[q] \/ pc'[q] \notin Writing
    BY <1>4 DEF AppendLock, ReadLock, Goto, TypeOK, Writing
  <2> QED BY <1>1, <2>1, <2>2, VouchKept
<1>5. ASSUME NEW p \in Procs, AppendRead(p)
      PROVE  CheckpointsVouch' /\ WritersVouch'
  BY <1>5, VouchRead
<1>6. ASSUME NEW p \in Procs, AppendWrite(p)
      PROVE  CheckpointsVouch' /\ WritersVouch'
  <2>0. PICK es, e : es = entries[p] /\ e = NextEntry(es, arg[p])
    OBVIOUS
  <2>1. /\ pc[p] = "write" /\ pc' = [pc EXCEPT ![p] = "fsync"]
        /\ written' = written \cup {e}
        /\ entries' = [entries EXCEPT ![p] = Append(@, e)]
        /\ UNCHANGED <<arg, issued, ckpt, ckptDisk>>
    BY <1>6, <2>0 DEF AppendWrite, Goto
  <2>2. Vouched(es) /\ \A i \in 1..Len(es) : es[i].envelope # arg[p]
    BY <1>1, <2>0, <2>1 DEF WritersVouch, Writing
  <2>3. /\ pc'[p] = "fsync" /\ entries'[p] = Append(es, e)
        /\ \A q \in Procs : q # p => pc'[q] \notin Writing
    BY <2>0, <2>1, Alone DEF TypeOK, Critical, Writing
  <2>4. \A t : Vouched(t) => Vouched(t)'
    BY <2>1 DEF Vouched
  <2>5. CheckpointsVouch'
    BY <1>1, <2>1, <2>4 DEF CheckpointsVouch
  <2>6. Vouched(Append(es, e))'
    <3>1. PICK envelope : envelope = arg[p]
      OBVIOUS
    <3> QED BY <2>0, <2>1, <2>2, <3>1, VouchedGrows
  <2>7. Vouched(entries[p])'
    BY <2>3, <2>6 DEF Vouched
  <2>8. entries'[p] # <<>>
    <3>1. IsSequence(es) /\ Len(es) \in Nat
      BY <2>2 DEF Vouched, IsSequence
    <3>2. Len(entries'[p]) = Len(es) + 1
      BY <2>3, <3>1, AppendLine
    <3> QED BY <3>1, <3>2
  <2>9. WritersVouch'
    BY <2>3, <2>7, <2>8 DEF WritersVouch, Writing
  <2> QED BY <2>5, <2>9
<1>7. ASSUME NEW p \in Procs, AppendFsync(p)
      PROVE  CheckpointsVouch' /\ WritersVouch'
  <2>1. /\ pc[p] = "fsync" /\ pc' = [pc EXCEPT ![p] = "checkpoint"]
        /\ UNCHANGED <<written, issued, ckpt, ckptDisk, entries, arg>>
    BY <1>7 DEF AppendFsync, Goto, history
  <2>2. \A es : Vouched(es) => Vouched(es)'
    BY <2>1 DEF Vouched
  <2>3. CheckpointsVouch'
    BY <1>1, <2>1, <2>2 DEF CheckpointsVouch
  <2>4. WritersVouch'
    BY <1>1, <2>1, <2>2 DEF WritersVouch, Writing, TypeOK
  <2> QED BY <2>3, <2>4
<1>8. ASSUME NEW p \in Procs, AppendCheckpoint(p)
      PROVE  CheckpointsVouch' /\ WritersVouch'
  <2>1. /\ pc[p] = "checkpoint" /\ pc' = [pc EXCEPT ![p] = "finish"]
        /\ ckpt' = Checkpoint(entries[p]) /\ ckptDisk' = ckptDisk \cup {ckpt'}
        /\ UNCHANGED <<written, issued, entries, arg>>
    BY <1>8 DEF AppendCheckpoint, Goto, history
  <2>2. Vouched(entries[p]) /\ entries[p] # <<>>
    BY <1>1, <2>1 DEF WritersVouch, Writing
  <2>3. \A es : Vouched(es) => Vouched(es)'
    BY <2>1 DEF Vouched
  <2>4. ckpt' # None
    BY <2>1 DEF CheckpointExists
  <2>5. CheckpointsVouch'
    BY <1>1, <2>1, <2>2, <2>3, <2>4 DEF CheckpointsVouch
  <2>6. /\ pc'[p] = "finish"
        /\ \A q \in Procs : q # p => pc'[q] \notin Writing
    BY <2>1, Alone DEF TypeOK, Critical, Writing
  <2>7. WritersVouch'
    BY <2>1, <2>2, <2>3, <2>6 DEF WritersVouch, Writing
  <2> QED BY <2>5, <2>7
<1>9. ASSUME NEW p \in Procs, AppendFinish(p)
      PROVE  CheckpointsVouch' /\ WritersVouch'
  <2>0. PICK es : es = entries[p]
    OBVIOUS
  <2>1. /\ pc[p] = "finish" /\ pc' = [pc EXCEPT ![p] = "idle"]
        /\ ckptDisk' = {ckpt}
        /\ issued' = issued \cup {InclusionReceipt(es, Len(es) - 1)}
        /\ UNCHANGED <<written, ckpt>>
    BY <1>9, <2>0 DEF AppendFinish, Return
  <2>2. Vouched(es) /\ es # <<>> /\ ckpt = Checkpoint(es)
    BY <1>1, <2>0, <2>1 DEF WritersVouch, Writing
  <2>3. IsSequence(es) /\ Len(es) \in 1..Len(es)
    BY <2>2 DEF Vouched, IsSequence
  <2>4. SubSeq(es, 1, Len(es)) = es
    BY <2>3, WholePrefix
  <2>5. Vouched(es)'
    <3>1. \A r \in issued' : \E n \in 1..Len(es) : r = InclusionReceipt(SubSeq(es, 1, n), n - 1)
      BY <2>1, <2>2, <2>3, <2>4 DEF Vouched
    <3> QED BY <2>1, <2>2, <3>1 DEF Vouched
  <2>6. CheckpointsVouch'
    BY <2>1, <2>2, <2>5 DEF CheckpointsVouch, CheckpointExists
  <2>7. \A q \in Procs : pc'[q] \notin Writing
    BY <2>1, Alone DEF Critical, Writing, TypeOK
  <2>8. WritersVouch'
    BY <2>7 DEF WritersVouch, Writing
  <2> QED BY <2>6, <2>8
<1>10. ASSUME NEW p \in Procs, ReadCheck(p) \/ Kill(p) \/ AppendError(p)
       PROVE  CheckpointsVouch' /\ WritersVouch'
  <2>1. UNCHANGED <<written, issued, ckpt, ckptDisk>> /\ \E result : Return(p, result)
    BY <1>10 DEF ReadCheck, Kill, AppendError, files, history
  <2> QED BY <1>1, <2>1, VouchKept DEF Return, TypeOK, Writing
<1>11. CASE PowerLoss
  <2>1. /\ ckpt' \in ckptDisk /\ ckptDisk' = {ckpt'} /\ UNCHANGED <<written, issued>>
        /\ pc' = [q \in Procs |-> "idle"]
    BY <1>11 DEF PowerLoss, history
  <2>2. \A es : Vouched(es) => Vouched(es)'
    BY <2>1 DEF Vouched
  <2>3. CheckpointsVouch'
    BY <1>1, <2>1, <2>2 DEF CheckpointsVouch
  <2>4. WritersVouch'
    BY <2>1 DEF WritersVouch, Writing
  <2> QED BY <2>3, <2>4
<1>12. CASE Tamper \/ UNCHANGED vars
  BY <1>1, <1>12, VouchKept DEF Tamper, vars, files, locals, history
<1> QED
  BY <1>2, <1>3, <1>4, <1>5, <1>6, <1>7, <1>8, <1>9, <1>10, <1>11, <1>12
  DEF Next, Call, Step, Failure

\* In every reachable state, of an edited log too.
LEMMA VouchInvariant ==
  ASSUME CollisionFree, CheckpointExists
  PROVE  Spec => [](TypeOK /\ VouchInv)
<1>1. Init => VouchInv
  BY DEF Init, VouchInv, LinesInv, CheckpointsVouch, WritersVouch, Writing
<1>2. Init => TypeOK /\ LockInv /\ VouchInv
  BY <1>1, TypeInit, NoneAssumption DEF Init, LockInv, Critical, Writing
<1>3. TypeOK /\ LockInv /\ VouchInv /\ [Next]_vars => (TypeOK /\ LockInv /\ VouchInv)'
  BY TypeStep, LockStep, VouchStep
<1> QED BY <1>2, <1>3, PTL DEF Spec

\* A log that verify() accepts holds what append has written and proves every
\* receipt append has returned, whoever edited the log file, if the roots of
\* different lists differ and a checkpoint is told from None.
THEOREM EditsAreEvident ==
  ASSUME CollisionFree, CheckpointExists
  PROVE  Spec => []TamperEvident
<1>1. TypeOK /\ VouchInv => TamperEvident
  <2> SUFFICES ASSUME TypeOK, VouchInv, DirFsyncSupported,
                      VerifyUnlocked(log, ckpt, FALSE) = "ok"
               PROVE  /\ \A i \in 1..Len(log) : log[i] \in written
                      /\ \A r \in issued : ReceiptVerifies(r, log)
    BY DEF TamperEvident
  <2>1. IsSequence(log) /\ ckpt \in ckptDisk
    BY DEF TypeOK
  <2>2. Readable(log) /\ ckpt # None /\ ckpt = Checkpoint(log)
    BY DEF VerifyUnlocked
  <2>3. Vouched(log)
    BY <2>1, <2>2, MatchingLogVouched
  <2> QED BY <2>2, <2>3, VouchedReceiptVerifies DEF Vouched
<1> QED BY <1>1, VouchInvariant, PTL

\* Two receipts over trees of one size are the same receipt, across kills,
\* power losses and edits of the log file, under the same two conditions.
THEOREM NoTwoHistories ==
  ASSUME CollisionFree, CheckpointExists
  PROVE  Spec => []NoFork
<1>1. TypeOK /\ VouchInv => NoFork
  <2> SUFFICES ASSUME TypeOK, VouchInv, DirFsyncSupported, NEW r \in issued, NEW s \in issued,
                      r.checkpoint.tree_size = s.checkpoint.tree_size
               PROVE  r = s
    BY DEF NoFork
  <2>1. PICK es : Vouched(es)
    BY DEF TypeOK, VouchInv, CheckpointsVouch
  <2>2. IsSequence(es) /\ Len(es) \in Nat
    BY <2>1 DEF Vouched, IsSequence
  <2>3. \A n \in 1..Len(es) :
          InclusionReceipt(SubSeq(es, 1, n), n - 1).checkpoint.tree_size = n
    <3> TAKE n \in 1..Len(es)
    <3>1. n \in 0..Len(es)
      BY <2>2
    <3>2. Len(SubSeq(es, 1, n)) = n
      BY <2>2, <3>1, PrefixLines
    <3> QED BY <3>2 DEF InclusionReceipt, Checkpoint
  <2>4. PICK m \in 1..Len(es) : r = InclusionReceipt(SubSeq(es, 1, m), m - 1)
    BY <2>1 DEF Vouched
  <2>5. PICK n \in 1..Len(es) : s = InclusionReceipt(SubSeq(es, 1, n), n - 1)
    BY <2>1 DEF Vouched
  <2>6. m = n
    BY <2>3, <2>4, <2>5
  <2> QED BY <2>4, <2>5, <2>6
<1> QED BY <1>1, VouchInvariant, PTL

-----------------------------------------------------------------------------
(* TransparencyLog implements PublicationLog                               *)

\* Who is inside append has an envelope that verified.
ArgInv == \A p \in Procs : pc[p] \in {"lock"} \cup Critical => arg[p] \in Authentic

-----------------------------------------------------------------------------
(* What lines publish                                                      *)

\* Every line publishes one envelope, or none if it is torn.
LEMMA PublishedLines ==
  ASSUME NEW lines, IsSequence(lines)
  PROVE  /\ IsSequence(Published(lines))
         /\ Len(Published(lines)) = Len(lines)
         /\ \A i \in 1..Len(lines) :
              Published(lines)[i] = IF lines[i] = Garbage THEN {} ELSE {lines[i].envelope}
<1> DEFINE Line(i) == IF lines[i] = Garbage THEN {} ELSE {lines[i].envelope}
           t == [i \in 1..Len(lines) |-> Line(i)]
<1>1. Len(lines) \in Nat
  BY DEF IsSequence
<1>2. Len(t) = Len(lines) /\ t = [i \in 1..Len(t) |-> t[i]]
  BY <1>1
<1>3. \A i \in 1..Len(lines) : t[i] = Line(i)
  OBVIOUS
<1>4. Published(lines) = t
  BY DEF Published
<1> HIDE DEF t
<1> QED BY <1>1, <1>2, <1>3, <1>4 DEF IsSequence

\* One more line publishes one more envelope.
LEMMA PublishedAppend ==
  ASSUME NEW lines, IsSequence(lines), NEW line
  PROVE  Published(Append(lines, line)) =
           Append(Published(lines), IF line = Garbage THEN {} ELSE {line.envelope})
<1> DEFINE e == IF line = Garbage THEN {} ELSE {line.envelope}
           s == Append(lines, line)
           t == Append(Published(lines), e)
<1>1. /\ IsSequence(s) /\ Len(s) = Len(lines) + 1 /\ s[Len(lines) + 1] = line
      /\ \A i \in 1..Len(lines) : s[i] = lines[i]
  BY AppendLine
<1>2. /\ IsSequence(Published(lines)) /\ Len(Published(lines)) = Len(lines)
      /\ \A i \in 1..Len(lines) :
           Published(lines)[i] = IF lines[i] = Garbage THEN {} ELSE {lines[i].envelope}
  BY PublishedLines
<1>3. /\ IsSequence(t) /\ Len(t) = Len(lines) + 1 /\ t[Len(lines) + 1] = e
      /\ \A i \in 1..Len(lines) : t[i] = Published(lines)[i]
  BY <1>2, AppendLine
<1> HIDE DEF s, t
<1>4. /\ IsSequence(Published(s)) /\ Len(Published(s)) = Len(s)
      /\ \A i \in 1..Len(s) : Published(s)[i] = IF s[i] = Garbage THEN {} ELSE {s[i].envelope}
  BY <1>1, PublishedLines
<1>5. Len(lines) \in Nat
  BY DEF IsSequence
<1>6. ASSUME NEW i \in 1..Len(s)
      PROVE  Published(s)[i] = t[i]
  <2>1. CASE i \in 1..Len(lines)
    BY <1>1, <1>2, <1>3, <1>4, <2>1, ZenonT(60)
  <2>2. CASE i = Len(lines) + 1
    BY <1>1, <1>3, <1>4, <2>2
  <2> QED BY <1>1, <1>5, <2>1, <2>2
<1>7. Published(s) = t
  BY <1>1, <1>3, <1>4, <1>6, SameLines
<1> QED BY <1>7 DEF s, t

\* A prefix of the lines publishes a prefix.
LEMMA PublishedPrefix ==
  ASSUME NEW lines, IsSequence(lines), NEW n \in 0..Len(lines)
  PROVE  Published(SubSeq(lines, 1, n)) = SubSeq(Published(lines), 1, n)
<1> DEFINE s == SubSeq(lines, 1, n)
           t == SubSeq(Published(lines), 1, n)
<1>1. IsSequence(s) /\ Len(s) = n /\ \A i \in 1..n : s[i] = lines[i]
  BY PrefixLines
<1>2. /\ IsSequence(Published(lines)) /\ Len(Published(lines)) = Len(lines)
      /\ \A i \in 1..Len(lines) :
           Published(lines)[i] = IF lines[i] = Garbage THEN {} ELSE {lines[i].envelope}
  BY PublishedLines
<1>3. IsSequence(t) /\ Len(t) = n /\ \A i \in 1..n : t[i] = Published(lines)[i]
  BY <1>2, PrefixLines
<1> HIDE DEF s, t
<1>4. /\ IsSequence(Published(s)) /\ Len(Published(s)) = n
      /\ \A i \in 1..n : Published(s)[i] = IF s[i] = Garbage THEN {} ELSE {s[i].envelope}
  BY <1>1, PublishedLines
<1>5. \A i \in 1..n : i \in 1..Len(lines)
  BY DEF IsSequence
<1>6. \A i \in 1..n : Published(s)[i] = t[i]
  BY <1>1, <1>2, <1>3, <1>4, <1>5
<1>7. Published(s) = t
  BY <1>3, <1>4, <1>6, SameLines
<1> QED BY <1>7 DEF s, t
-----------------------------------------------------------------------------
(* Every step is a step of PublicationLog                                  *)

\* Nobody gets inside append but with an envelope that verified.
LEMMA ArgStep ==
  ASSUME TypeOK, ArgInv, [Next]_vars
  PROVE  ArgInv'
<1> USE DEF ArgInv, Critical, Writing
<1>1. ASSUME NEW p \in Procs, NEW result, Return(p, result)
      PROVE  ArgInv'
  BY <1>1 DEF Return, TypeOK
<1>2. ASSUME NEW p \in Procs, NEW envelope \in Envelopes, AppendStart(p, envelope)
      PROVE  ArgInv'
  BY <1>2 DEF AppendStart, TypeOK
<1>3. ASSUME NEW p \in Procs, NEW receipt \in issued \cup {None}, ReadStart(p, receipt)
      PROVE  ArgInv'
  BY <1>3 DEF ReadStart, Goto, TypeOK
<1>4. ASSUME NEW p \in Procs,
             \/ AppendLock(p) \/ AppendWrite(p) \/ AppendFsync(p)
             \/ AppendCheckpoint(p) \/ ReadLock(p)
      PROVE  ArgInv'
  BY <1>4 DEF AppendLock, AppendWrite, AppendFsync, AppendCheckpoint, ReadLock, Goto, TypeOK
<1>5. ASSUME NEW p \in Procs, AppendRead(p)
      PROVE  ArgInv'
  <2>1. CASE \E result : Return(p, result)
    BY <1>1, <2>1
  <2>2. CASE pc[p] = "read" /\ pc' = [pc EXCEPT ![p] = "write"] /\ arg' = arg
    BY <2>2 DEF TypeOK
  <2> QED BY <1>5, <2>1, <2>2 DEF AppendRead
<1>6. ASSUME NEW p \in Procs,
             AppendFinish(p) \/ ReadCheck(p) \/ AppendError(p) \/ Kill(p)
      PROVE  ArgInv'
  <2>1. \E result : Return(p, result)
    BY <1>6 DEF AppendFinish, ReadCheck, AppendError, Kill
  <2> QED BY <1>1, <2>1
<1>7. CASE PowerLoss
  BY <1>7 DEF PowerLoss
<1>8. CASE Tamper \/ UNCHANGED vars
  BY <1>8 DEF Tamper, vars, locals
<1> QED
  BY <1>2, <1>3, <1>4, <1>5, <1>6, <1>7, <1>8 DEF Next, Call, Step, Failure

\* Once the log has been edited all that is left to show is that receipts stay.
LEMMA EditedStep ==
  ASSUME TypeOK, [Next]_vars, ~Untampered'
  PROVE  [Publication!Next]_(Publication!state)
<1>1. issued \subseteq issued'
  BY DEF Next, Call, Step, Failure, vars, history, AppendStart, AppendLock, AppendRead, AppendWrite,
     AppendFsync, AppendCheckpoint, AppendFinish, ReadStart, ReadLock, ReadCheck, AppendError,
     Kill, PowerLoss, Tamper
<1>2. Promised \subseteq Promised'
  BY <1>1 DEF Promised
<1>3. Publication!Edit
  BY <1>2 DEF Publication!Edit
<1> QED BY <1>3 DEF Publication!Next

\* Lines and receipts as they were: nothing happens to what is published.
LEMMA SilentStep ==
  ASSUME UNCHANGED <<log, issued, tampers>>
  PROVE  UNCHANGED Publication!state
BY DEF Publication!state, Published, Promised, Untampered

\* A line that reaches the file publishes its envelope or is torn.
LEMMA WriteStep ==
  ASSUME TypeOK, FilesInv, ArgInv, Untampered, NEW p \in Procs, pc[p] = "write", NEW line,
         line = NextEntry(entries[p], arg[p]) \/ line = Garbage,
         log' = Append(log, line), UNCHANGED <<issued, tampers>>
  PROVE  Publication!Next
<1>1. IsSequence(log) /\ Readable(log) /\ \A i \in 1..Len(log) : log[i].envelope # arg[p]
  BY DEF TypeOK, FilesInv, WriterInv
<1>2. /\ Len(Published(log)) = Len(log)
      /\ \A i \in 1..Len(log) : Published(log)[i] = {log[i].envelope}
  BY <1>1, PublishedLines DEF Readable
<1>3. arg[p] \in Authentic
  BY DEF ArgInv, Critical, Writing
<1>4. UNCHANGED <<Promised, ~Untampered>>
  BY DEF Promised, Untampered
<1>5. Published(log)' = Append(Published(log), IF line = Garbage THEN {} ELSE {line.envelope})
  <2>1. Published(log)' = Published(Append(log, line))
    BY DEF Published
  <2> QED BY <1>1, <2>1, PublishedAppend
<1>6. Publication!Accepts
  BY <1>1, <1>2 DEF Untampered, Publication!Accepts
<1>7. CASE line = Garbage
  BY <1>4, <1>5, <1>6, <1>7 DEF Publication!Tear, Publication!Next
<1>8. CASE line # Garbage
  <2>1. line.envelope = arg[p]
    BY <1>8 DEF NextEntry, Entry
  <2>2. Publication!Publish(arg[p])
    BY <1>1, <1>2, <1>4, <1>5, <1>6, <1>8, <2>1 DEF Publication!Publish
  <2> QED BY <1>3, <2>2 DEF Publication!Next
<1> QED BY <1>7, <1>8

\* The receipt of append is for the whole log.
LEMMA FinishStep ==
  ASSUME TypeOK, FilesInv, Untampered, NEW p \in Procs, AppendFinish(p)
  PROVE  [Publication!Next]_(Publication!state)
<1>1. /\ pc[p] = "finish" /\ issued' = issued \cup {InclusionReceipt(entries[p], Len(entries[p]) - 1)}
      /\ UNCHANGED <<log, tampers>>
  BY DEF AppendFinish, budget
<1>2. log # <<>> /\ entries[p] = log
  BY <1>1 DEF FilesInv, WriterInv, Writing
<1>3. UNCHANGED <<Published(log), ~Untampered>>
  BY <1>1 DEF Published, Untampered
<1>4. InclusionReceipt(log, Len(log) - 1).checkpoint.tree_size = Len(log)
  BY DEF InclusionReceipt, Checkpoint
<1>5. /\ Len(Published(log)) = Len(log) /\ Len(log) # 0
      /\ Len(<<>>) = 0
  BY <1>2, PublishedLines DEF TypeOK, IsSequence
<1>6. Published(log) # <<>>
  BY <1>5
<1>7. CASE DirFsyncSupported
  <2>1. Promised' = Promised \cup {Len(Published(log))}
    BY <1>1, <1>2, <1>4, <1>5, <1>7 DEF Promised
  <2>2. Publication!Promise
    BY <1>3, <1>6, <2>1 DEF Publication!Promise
  <2> QED BY <2>2 DEF Publication!Next
<1>8. CASE ~DirFsyncSupported
  <2>1. Promised = {} /\ Promised' = {}
    BY <1>8 DEF Promised
  <2> QED BY <1>3, <2>1 DEF Publication!state
<1> QED BY <1>7, <1>8

\* The size a receipt names is on disk.
LEMMA PromisedIsSynced ==
  ASSUME TypeOK, FilesInv, NEW size \in Promised
  PROVE  named /\ size \in 1..Len(synced)
<1>1. PICK r \in issued : DirFsyncSupported /\ size = r.checkpoint.tree_size
  BY DEF Promised
<1>2. PICK n \in 1..Len(synced) : r = InclusionReceipt(SubSeq(log, 1, n), n - 1)
  BY <1>1 DEF FilesInv, ReceiptInv
<1>3. n \in 0..Len(log) /\ IsSequence(log)
  BY DEF FilesInv, LogInv, TypeOK, IsSequence
<1>4. Len(SubSeq(log, 1, n)) = n
  BY <1>3, PrefixLines
<1>5. size = n
  BY <1>1, <1>2, <1>4 DEF InclusionReceipt, Checkpoint
<1> QED BY <1>1, <1>5 DEF FilesInv, ReceiptInv

\* A power loss takes only what no receipt has named.
LEMMA PowerLossStep ==
  ASSUME TypeOK, FilesInv, Untampered, PowerLoss
  PROVE  Publication!Next
<1>1. log' \in Survivors /\ UNCHANGED <<issued, tampers>>
  BY DEF PowerLoss, Fault, history
<1>2. UNCHANGED <<Promised, ~Untampered>>
  BY <1>1 DEF Promised, Untampered
<1>3. /\ IsSequence(log) /\ Len(log) \in Nat /\ Len(synced) \in Nat
      /\ Len(synced) <= Len(log) /\ Len(Published(log)) = Len(log)
  BY PublishedLines DEF TypeOK, IsSequence, FilesInv, LogInv
<1>4. CASE \E m \in Len(synced)..Len(log) : log' = SubSeq(log, 1, m)
  <2>1. PICK m \in Len(synced)..Len(log) : log' = SubSeq(log, 1, m)
    BY <1>4
  <2>2. m \in 0..Len(log) /\ \A size \in Promised : size <= m
    BY <1>3, PromisedIsSynced
  <2>3. Published(log)' = SubSeq(Published(log), 1, m)
    <3>1. Published(log)' = Published(SubSeq(log, 1, m))
      BY <2>1 DEF Published
    <3> QED BY <1>3, <2>2, <3>1, PublishedPrefix
  <2>4. Publication!Lose
    BY <1>2, <1>3, <2>2, <2>3 DEF Publication!Lose
  <2> QED BY <2>4 DEF Publication!Next
<1>5. CASE \E m \in Len(synced)..(Len(log) - 1) : log' = Append(SubSeq(log, 1, m), Garbage)
  <2>1. PICK m \in Len(synced)..(Len(log) - 1) : log' = Append(SubSeq(log, 1, m), Garbage)
    BY <1>5
  <2>2. m \in 0..Len(log) /\ m < Len(log) /\ \A size \in Promised : size <= m
    BY <1>3, PromisedIsSynced
  <2>3. Published(Append(SubSeq(log, 1, m), Garbage)) = Append(SubSeq(Published(log), 1, m), {})
    BY <1>3, <2>2, PrefixLines, PublishedPrefix, PublishedAppend
  <2>4. Published(log)' = Append(SubSeq(Published(log), 1, m), {})
    BY <2>1, <2>3 DEF Published
  <2>5. Publication!Lose
    BY <1>2, <1>3, <2>2, <2>4 DEF Publication!Lose
  <2> QED BY <2>5 DEF Publication!Next
<1>6. CASE ~named /\ log' = <<>>
  <2>1. Promised = {}
    BY <1>6, PromisedIsSynced
  <2>2. /\ IsSequence(SubSeq(log, 1, 0)) /\ Len(SubSeq(log, 1, 0)) = 0
        /\ 0 \in 0..Len(log)
    BY <1>3, PrefixLines
  <2>3. SubSeq(log, 1, 0) = <<>>
    BY <2>2 DEF IsSequence
  <2>4. Published(log)' = SubSeq(Published(log), 1, 0)
    BY <1>3, <1>6, <2>2, <2>3, PublishedPrefix DEF Published
  <2>5. Publication!Lose
    BY <1>2, <1>3, <2>1, <2>2, <2>4 DEF Publication!Lose
  <2> QED BY <2>5 DEF Publication!Next
<1> QED BY <1>1, <1>4, <1>5, <1>6 DEF Survivors

\* Every step of the log is one of PublicationLog or changes nothing it knows of.
LEMMA PublicationStep ==
  ASSUME IInv, ArgInv, [Next]_vars
  PROVE  [Publication!Next]_(Publication!state)
<1> USE DEF IInv
<1>1. CASE ~Untampered'
  BY <1>1, EditedStep
<1>2. CASE Untampered'
  <2>1. tampers' \in {tampers, tampers + 1} /\ (Tamper => tampers' = tampers + 1)
    BY DEF Next, Call, Step, Failure, vars, budget, AppendStart, AppendLock, AppendRead, AppendWrite,
       AppendFsync, AppendCheckpoint, AppendFinish, ReadStart, ReadLock, ReadCheck, AppendError,
       Kill, PowerLoss, Tamper, Fault
  <2>2. Untampered /\ FilesInv /\ ~Tamper /\ tampers' = tampers
    BY <1>2, <2>1 DEF DataInv, Untampered, TypeOK
  <2>3. CASE UNCHANGED <<log, issued>>
    BY <2>2, <2>3, SilentStep
  <2>4. ASSUME NEW p \in Procs, AppendWrite(p)
        PROVE  Publication!Next
    <3>1. /\ pc[p] = "write" /\ log' = Append(log, NextEntry(entries[p], arg[p]))
          /\ UNCHANGED <<issued, tampers>>
      BY <2>4 DEF AppendWrite, Goto, budget
    <3> QED BY <2>2, <3>1, WriteStep
  <2>5. ASSUME NEW p \in Procs, AppendError(p)
        PROVE  [Publication!Next]_(Publication!state)
    <3>1. UNCHANGED issued /\ (UNCHANGED log \/ (pc[p] = "write" /\ log' = Append(log, Garbage)))
      BY <2>5 DEF AppendError, history
    <3>2. CASE UNCHANGED log
      BY <2>3, <3>1, <3>2
    <3>3. CASE pc[p] = "write" /\ log' = Append(log, Garbage)
      BY <2>2, <3>1, <3>3, WriteStep
    <3> QED BY <3>1, <3>2, <3>3
  <2>6. ASSUME NEW p \in Procs, AppendFinish(p)
        PROVE  [Publication!Next]_(Publication!state)
    BY <2>2, <2>6, FinishStep
  <2>7. CASE PowerLoss
    BY <2>2, <2>7, PowerLossStep
  <2>8. ASSUME NEW p \in Procs,
               \/ Call(p) \/ AppendLock(p) \/ AppendRead(p) \/ AppendFsync(p)
               \/ AppendCheckpoint(p) \/ ReadLock(p) \/ ReadCheck(p) \/ Kill(p)
        PROVE  UNCHANGED <<log, issued>>
    BY <2>8 DEF Call, AppendStart, ReadStart, AppendLock, AppendRead, AppendFsync, AppendCheckpoint,
       ReadLock, ReadCheck, Kill, files, history
  <2>9. CASE UNCHANGED vars
    BY <2>3, <2>9 DEF vars, files, history
  <2> QED
    BY <2>2, <2>3, <2>4, <2>5, <2>6, <2>7, <2>8, <2>9 DEF Next, Step, Failure
<1> QED BY <1>1, <1>2

\* TransparencyLog implements PublicationLog: whatever processes, faults, power
\* losses and edits do, an envelope is published once, and what a receipt names
\* stays published until something else edits the log.
THEOREM Refinement == Spec => ImplementsPublication
<1>1. Init => Publication!Init
  <2> SUFFICES ASSUME Init PROVE Publication!Init
    OBVIOUS
  <2>1. Published(<<>>) = <<>>
    BY PublishedLines DEF Published, IsSequence
  <2> QED BY <2>1 DEF Init, Publication!Init, Promised, Untampered
<1>2. Init => ArgInv
  BY DEF Init, ArgInv, Critical, Writing
<1>3. TypeOK /\ ArgInv /\ [Next]_vars => ArgInv'
  BY ArgStep
<1>4. IInv /\ ArgInv /\ [Next]_vars => [Publication!Next]_(Publication!state)
  BY PublicationStep
<1> QED
  BY <1>1, <1>2, <1>3, <1>4, TypeCorrect, Invariant, PTL
  DEF Spec, ImplementsPublication, Publication!Spec
=============================================================================
