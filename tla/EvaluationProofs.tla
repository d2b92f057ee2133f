---------------------------- MODULE EvaluationProofs ----------------------------
(***************************************************************************)
(* Safety of Evaluation for every set of manifests, events, authorities    *)
(* and publishers, and any number of runs and kills.                       *)
(***************************************************************************)
EXTENDS Evaluation, FiniteSetTheorems, TLAPS

-----------------------------------------------------------------------------
(* Type correctness                                                        *)

PcValues == {"start", "check", "open", "write", "ranked", "diagnostic", "collided", "killed", "torn"}

Contents == {"absent", "partial", "complete"}

\* More runs make for more bundles that could be asked for.
LEMMA ProductsGrow ==
  ASSUME executed \subseteq executed'
  PROVE  Products \subseteq Products'
BY DEF Products

\* A step of a publisher that makes no directory keeps the types.
LEMMA PublisherTyped ==
  ASSUME TypeOK, NEW w \in Publishers, NEW to \in PcValues \ {"start"}, pc[w] # "start",
         pc' = [pc EXCEPT ![w] = to], UNCHANGED <<executed, product>>,
         file' = file \/ (file' = [file EXCEPT ![w] = @ + 1] /\ file[w] < Len(Files)),
         \/ disk' = disk
         \/ \E content \in Contents : disk' = [disk EXCEPT ![product[w]][Files[file[w]]] = content]
  PROVE  TypeOK'
<1>1. Len(Files) \in Nat /\ DOMAIN Files = 1..Len(Files)
  BY EvaluationAssumption
<1>2. /\ product[w] \in DOMAIN disk /\ file[w] \in DOMAIN Files
      /\ \A p \in DOMAIN disk : disk[p] \in [Range(Files) -> Contents]
  BY DEF TypeOK, Contents
<1>3. /\ DOMAIN disk' = DOMAIN disk
      /\ \A p \in DOMAIN disk : disk'[p] \in [Range(Files) -> Contents]
  <2>1. CASE disk' = disk
    BY <1>2, <2>1
  <2>2. ASSUME NEW content \in Contents, disk' = [disk EXCEPT ![product[w]][Files[file[w]]] = content]
        PROVE  /\ DOMAIN disk' = DOMAIN disk
               /\ \A p \in DOMAIN disk : disk'[p] \in [Range(Files) -> Contents]
    BY <1>2, <2>2
  <2> QED BY <2>1, <2>2
<1>4. pc' \in [Publishers -> PcValues]
  BY DEF TypeOK, PcValues
<1>5. ASSUME NEW v \in Publishers
      PROVE  IF pc'[v] = "start" THEN product'[v] = None /\ file'[v] = 0
             ELSE product'[v] \in DOMAIN disk' /\ file'[v] \in DOMAIN Files
  <2>1. IF pc[v] = "start" THEN product[v] = None /\ file[v] = 0
        ELSE product[v] \in DOMAIN disk /\ file[v] \in DOMAIN Files
    BY DEF TypeOK
  <2>2. pc'[v] = "start" <=> pc[v] = "start"
    BY DEF TypeOK, PcValues
  <2>3. file'[v] = file[v] \/ (v = w /\ file'[v] = file[v] + 1 /\ file[v] < Len(Files))
    BY DEF TypeOK
  <2> QED BY <1>1, <1>2, <1>3, <2>1, <2>2, <2>3
<1>6. Products' = Products /\ DOMAIN product' = Publishers /\ DOMAIN file' = Publishers
  BY DEF Products, TypeOK
<1> QED BY <1>3, <1>4, <1>5, <1>6 DEF TypeOK, PcValues, Contents

\* Every step of a publisher keeps the types of its variables (RunArtifactStore.persist).
LEMMA TypeStep ==
  ASSUME TypeOK, [Next]_vars
  PROVE  TypeOK'
<1>1. ASSUME NEW input \in DOMAIN Inputs, NEW happening \in DOMAIN Happenings, Execute(input, happening)
      PROVE  TypeOK'
  <2>1. UNCHANGED <<pc, product, file, disk>> /\ executed \subseteq executed'
    BY <1>1 DEF Execute
  <2>2. Products \subseteq Products'
    BY <2>1, ProductsGrow
  <2>3. \A run \in executed' : /\ run.input \in DOMAIN Inputs /\ run.happening \in DOMAIN Happenings
                               /\ run.calls \in BOOLEAN
    <3> DEFINE calls == \/ Happenings[happening].calls
                        \/ \E r \in executed : /\ r.calls
                                               /\ PlanOf(r.input).run_id = PlanOf(input).run_id
    <3>1. calls \in BOOLEAN
      OBVIOUS
    <3>2. executed' = executed \cup {[input |-> input, happening |-> happening, calls |-> calls]}
      BY <1>1 DEF Execute
    <3> HIDE DEF calls
    <3> QED BY <3>1, <3>2 DEF TypeOK
  <2> QED BY <2>1, <2>2, <2>3 DEF TypeOK
<1>2. ASSUME NEW w \in Publishers, NEW p \in Products, Build(w, p)
      PROVE  TypeOK'
  <2>1. /\ pc' = [pc EXCEPT ![w] = "check"] /\ product' = [product EXCEPT ![w] = p]
        /\ file' = [file EXCEPT ![w] = 1] /\ executed' = executed
    BY <1>2 DEF Build
  <2>2. 1 \in DOMAIN Files
    BY EvaluationAssumption
  <2>3. /\ DOMAIN disk' = DOMAIN disk \cup {p}
        /\ \A d \in DOMAIN disk' : disk'[d] \in [Range(Files) -> Contents]
    <3>1. CASE p \in DOMAIN disk /\ disk' = disk
      BY <3>1 DEF TypeOK, Contents
    <3>2. CASE disk' = [d \in DOMAIN disk \cup {p} |->
                          IF d = p THEN [f \in Range(Files) |-> "absent"] ELSE disk[d]]
      BY <3>2 DEF TypeOK, Contents
    <3> QED BY <1>2, <3>1, <3>2 DEF Build
  <2>4. ASSUME NEW v \in Publishers
        PROVE  IF pc'[v] = "start" THEN product'[v] = None /\ file'[v] = 0
               ELSE product'[v] \in DOMAIN disk' /\ file'[v] \in DOMAIN Files
    <3>1. DOMAIN pc = Publishers /\ DOMAIN product = Publishers /\ DOMAIN file = Publishers
      BY DEF TypeOK
    <3>2. CASE v = w
      BY <2>1, <2>2, <2>3, <3>1, <3>2
    <3>3. CASE v # w
      BY <2>1, <2>3, <3>1, <3>3 DEF TypeOK
    <3> QED BY <3>2, <3>3
  <2>5. DOMAIN disk' \subseteq Products' /\ pc' \in [Publishers -> PcValues]
    BY <2>1, <2>3 DEF TypeOK, Products, PcValues
  <2>6. DOMAIN product' = Publishers /\ DOMAIN file' = Publishers
    BY <2>1 DEF TypeOK
  <2> QED BY <2>1, <2>3, <2>4, <2>5, <2>6 DEF TypeOK, PcValues, Contents
<1>3. ASSUME NEW w \in Publishers, CheckFile(w)
      PROVE  TypeOK'
  <2> DEFINE to == IF Collides(Content(w)) THEN "collided" ELSE "open"
  <2>1. /\ pc[w] = "check" /\ pc' = [pc EXCEPT ![w] = to]
        /\ UNCHANGED <<executed, product, file, disk>>
    BY <1>3 DEF CheckFile
  <2>2. to \in PcValues \ {"start"}
    BY DEF PcValues
  <2> HIDE DEF to
  <2> QED BY <2>1, <2>2, PublisherTyped
<1>4. ASSUME NEW w \in Publishers, OpenFile(w)
      PROVE  TypeOK'
  <2>1. /\ pc[w] = "open" /\ pc' = [pc EXCEPT ![w] = "write"]
        /\ disk' = [disk EXCEPT ![product[w]][Files[file[w]]] = "partial"]
        /\ UNCHANGED <<executed, product, file>>
    BY <1>4 DEF OpenFile
  <2>2. "write" \in PcValues \ {"start"} /\ "partial" \in Contents
    BY DEF PcValues, Contents
  <2> QED BY <2>1, <2>2, PublisherTyped
<1>5. ASSUME NEW w \in Publishers, WriteFile(w)
      PROVE  TypeOK'
  <2>1. /\ pc[w] = "write" /\ UNCHANGED <<executed, product>>
        /\ disk' = [disk EXCEPT ![product[w]][Files[file[w]]] = "complete"]
    BY <1>5 DEF WriteFile
  <2>2. \E to \in PcValues \ {"start"} : pc' = [pc EXCEPT ![w] = to]
    BY <1>5 DEF WriteFile, PcValues
  <2>3. file' = file \/ (file' = [file EXCEPT ![w] = @ + 1] /\ file[w] < Len(Files))
    <3>1. file[w] \in 1..Len(Files) /\ Len(Files) \in Nat
      BY <2>1, EvaluationAssumption DEF TypeOK
    <3> QED BY <1>5, <3>1 DEF WriteFile, IsLast
  <2>4. "complete" \in Contents
    BY DEF Contents
  <2> QED BY <2>1, <2>2, <2>3, <2>4, PublisherTyped
<1>6. ASSUME NEW w \in Publishers, Kill(w)
      PROVE  TypeOK'
  <2>1. /\ pc[w] # "start" /\ UNCHANGED <<executed, product, file, disk>>
        /\ pc' = [pc EXCEPT ![w] = IF pc[w] = "write" THEN "torn" ELSE "killed"]
    BY <1>6 DEF Kill
  <2>2. (IF pc[w] = "write" THEN "torn" ELSE "killed") \in PcValues \ {"start"}
    BY DEF PcValues
  <2> QED BY <2>1, <2>2, PublisherTyped
<1>7. CASE UNCHANGED vars
  BY <1>7 DEF vars, TypeOK, Products
<1> QED BY <1>1, <1>2, <1>3, <1>4, <1>5, <1>6, <1>7 DEF Next

\* Every publisher at work has a bundle, a file of it and a directory.
THEOREM TypeCorrect == Spec => []TypeOK
<1>1. Init => TypeOK
  BY DEF Init, TypeOK
<1>2. TypeOK /\ [Next]_vars => TypeOK'
  BY TypeStep
<1> QED BY <1>1, <1>2, PTL DEF Spec

-----------------------------------------------------------------------------
(* What a crash can leave behind                                           *)

\* A publisher has been through the files before its own.
Progress ==
  \A w \in Publishers : pc[w] # "start" =>
    \A i \in 1..(file[w] - 1) : disk[product[w]][Files[i]] # "absent"

\* What Progress needs and what it is for.
Interrupted == TypeOK /\ Progress /\ WholeUnlessInterrupted

\* A file that is there stays: the steps of a publisher that is at a file.
LEMMA NothingGoesAbsent ==
  ASSUME TypeOK, NEW w \in Publishers, pc[w] # "start", NEW content \in {"partial", "complete"},
         disk' = [disk EXCEPT ![product[w]][Files[file[w]]] = content]
  PROVE  /\ DOMAIN disk' = DOMAIN disk
         /\ disk'[product[w]][Files[file[w]]] = content
         /\ \A p \in DOMAIN disk, f \in Range(Files) :
              \/ disk'[p][f] = disk[p][f]
              \/ p = product[w] /\ f = Files[file[w]] /\ disk'[p][f] = content
<1>1. product[w] \in DOMAIN disk /\ file[w] \in DOMAIN Files
  BY DEF TypeOK
<1>2. \A p \in DOMAIN disk : DOMAIN disk[p] = Range(Files)
  BY DEF TypeOK
<1>3. Files[file[w]] \in Range(Files)
  BY <1>1 DEF Range
<1> QED BY <1>1, <1>2, <1>3

\* A step that only moves a publisher on, but not to the end.
LEMMA MovingOn ==
  ASSUME Interrupted, NEW w \in Publishers, pc[w] \notin {"start", "torn"},
         NEW to \in {"open", "collided", "killed", "torn"},
         to = "torn" <=> pc[w] = "write",
         pc' = [pc EXCEPT ![w] = to], UNCHANGED <<executed, product, file, disk>>
  PROVE  Progress' /\ WholeUnlessInterrupted'
<1>1. DOMAIN pc = Publishers
  BY DEF Interrupted, TypeOK
<1>2. Progress'
  BY <1>1 DEF Interrupted, Progress
<1>3. Finished' \subseteq Finished /\ Readable' = Readable
  BY <1>1 DEF Finished, Readable
<1>4. \A v \in Publishers : pc[v] \in {"write", "torn"} => pc'[v] \in {"write", "torn"}
  BY <1>1
<1> QED BY <1>2, <1>3, <1>4 DEF Interrupted, WholeUnlessInterrupted

\* Every step keeps the invariant, the death of a publisher between open and write
\* included (RunArtifactStore.persist, main of run_artifacts).
LEMMA InterruptedStep ==
  ASSUME Interrupted, [Next]_vars
  PROVE  Interrupted'
<1>0. TypeOK' /\ TypeOK
  BY TypeStep DEF Interrupted
<1>d. DOMAIN pc = Publishers /\ DOMAIN product = Publishers /\ DOMAIN file = Publishers
  BY <1>0 DEF TypeOK
<1>l. Len(Files) \in Nat /\ DOMAIN Files = 1..Len(Files) /\ Len(Files) > 0
  BY EvaluationAssumption
<1>r. \A i \in 1..Len(Files) : Files[i] \in Range(Files)
  BY <1>l DEF Range
<1>1. ASSUME NEW input \in DOMAIN Inputs, NEW happening \in DOMAIN Happenings, Execute(input, happening)
      PROVE  Interrupted'
  <2>1. UNCHANGED <<pc, product, file, disk>>
    BY <1>1 DEF Execute
  <2> QED BY <1>0, <2>1 DEF Interrupted, Progress, WholeUnlessInterrupted, Finished, Readable
<1>2. ASSUME NEW w \in Publishers, NEW p \in Products, Build(w, p)
      PROVE  Interrupted'
  <2>1. /\ pc[w] = "start" /\ pc' = [pc EXCEPT ![w] = "check"]
        /\ product' = [product EXCEPT ![w] = p] /\ file' = [file EXCEPT ![w] = 1]
    BY <1>2 DEF Build
  <2>2. /\ DOMAIN disk \subseteq DOMAIN disk'
        /\ \A d \in DOMAIN disk : disk'[d] = disk[d]
        /\ \A d \in DOMAIN disk' \ DOMAIN disk : \A f \in Range(Files) : disk'[d][f] = "absent"
    BY <1>2 DEF Build
  <2>3. \A v \in Publishers : pc[v] # "start" => /\ v # w /\ product[v] \in DOMAIN disk
                                              /\ file[v] \in DOMAIN Files
    BY <1>0, <2>1 DEF TypeOK
  <2>4. Progress'
    BY <1>d, <1>l, <2>1, <2>2, <2>3 DEF Interrupted, Progress
  <2>5. Finished' = Finished
    BY <1>d, <2>1 DEF Finished
  <2>6. Readable' = Readable
    BY <1>l, <1>r, <2>2 DEF Readable
  <2>7. \A v \in Finished : \A f \in Range(Files) : disk'[product'[v]][f] # "absent"
    BY <1>d, <2>1, <2>2, <2>3 DEF Interrupted, WholeUnlessInterrupted, Finished
  <2>8. \A d \in Readable : \A f \in Range(Files) : disk'[d][f] # "absent"
    BY <2>2 DEF Interrupted, WholeUnlessInterrupted, Readable
  <2>9. ASSUME NEW d \in DOMAIN disk', NEW f \in Range(Files), disk'[d][f] = "partial"
        PROVE  \E v \in Publishers : /\ pc'[v] \in {"write", "torn"}
                                     /\ product'[v] = d /\ Files[file'[v]] = f
    <3>1. d \in DOMAIN disk /\ disk[d][f] = "partial"
      BY <2>2, <2>9
    <3>2. PICK v \in Publishers : /\ pc[v] \in {"write", "torn"} /\ product[v] = d /\ Files[file[v]] = f
      BY <3>1 DEF Interrupted, WholeUnlessInterrupted
    <3> QED BY <1>d, <2>1, <3>2
  <2> QED BY <1>0, <2>4, <2>5, <2>6, <2>7, <2>8, <2>9 DEF Interrupted, WholeUnlessInterrupted
<1>3. ASSUME NEW w \in Publishers, CheckFile(w)
      PROVE  Interrupted'
  <2> DEFINE to == IF Collides(Content(w)) THEN "collided" ELSE "open"
  <2>1. /\ pc[w] = "check" /\ pc' = [pc EXCEPT ![w] = to]
        /\ UNCHANGED <<executed, product, file, disk>>
    BY <1>3 DEF CheckFile
  <2>2. to \in {"open", "collided"}
    OBVIOUS
  <2> HIDE DEF to
  <2> QED BY <1>0, <2>1, <2>2, MovingOn DEF Interrupted
<1>4. ASSUME NEW w \in Publishers, OpenFile(w)
      PROVE  Interrupted'
  <2>1. /\ pc[w] = "open" /\ pc' = [pc EXCEPT ![w] = "write"]
        /\ disk' = [disk EXCEPT ![product[w]][Files[file[w]]] = "partial"]
        /\ UNCHANGED <<executed, product, file>>
    BY <1>4 DEF OpenFile
  <2>2. /\ DOMAIN disk' = DOMAIN disk
        /\ \A p \in DOMAIN disk, f \in Range(Files) :
             \/ disk'[p][f] = disk[p][f]
             \/ p = product[w] /\ f = Files[file[w]] /\ disk'[p][f] = "partial"
    BY <1>0, <2>1, NothingGoesAbsent
  <2>3. \A v \in Publishers : pc[v] # "start" => product[v] \in DOMAIN disk /\ file[v] \in DOMAIN Files
    BY <1>0 DEF TypeOK
  <2>4. Progress'
    BY <1>d, <1>l, <1>r, <2>1, <2>2, <2>3 DEF Interrupted, Progress
  <2>5. Finished' = Finished
    BY <1>d, <2>1 DEF Finished
  <2>6. Readable' \subseteq Readable
    BY <1>l, <1>r, <2>2 DEF Readable
  <2>7. \A v \in Finished : \A f \in Range(Files) : disk'[product'[v]][f] # "absent"
    BY <2>1, <2>2, <2>3 DEF Interrupted, WholeUnlessInterrupted, Finished
  <2>8. \A d \in Readable : \A f \in Range(Files) : disk'[d][f] # "absent"
    BY <2>2 DEF Interrupted, WholeUnlessInterrupted, Readable
  <2>9. ASSUME NEW d \in DOMAIN disk', NEW f \in Range(Files), disk'[d][f] = "partial"
        PROVE  \E v \in Publishers : /\ pc'[v] \in {"write", "torn"}
                                     /\ product'[v] = d /\ Files[file'[v]] = f
    <3>1. CASE disk[d][f] = "partial"
      <4>1. PICK v \in Publishers : /\ pc[v] \in {"write", "torn"} /\ product[v] = d /\ Files[file[v]] = f
        BY <2>2, <3>1 DEF Interrupted, WholeUnlessInterrupted
      <4> QED BY <1>d, <2>1, <4>1
    <3>2. CASE d = product[w] /\ f = Files[file[w]]
      BY <1>d, <2>1, <3>2
    <3> QED BY <2>2, <2>9, <3>1, <3>2
  <2> QED BY <1>0, <2>4, <2>5, <2>6, <2>7, <2>8, <2>9 DEF Interrupted, WholeUnlessInterrupted
<1>5. ASSUME NEW w \in Publishers, WriteFile(w)
      PROVE  Interrupted'
  <2>1. /\ pc[w] = "write" /\ UNCHANGED <<executed, product>>
        /\ disk' = [disk EXCEPT ![product[w]][Files[file[w]]] = "complete"]
    BY <1>5 DEF WriteFile
  <2>2. \/ /\ file[w] = Len(Files) /\ file' = file
           /\ \E to \in {"ranked", "diagnostic"} : pc' = [pc EXCEPT ![w] = to]
        \/ /\ file[w] # Len(Files) /\ file' = [file EXCEPT ![w] = @ + 1]
           /\ pc' = [pc EXCEPT ![w] = "check"]
    BY <1>5 DEF WriteFile, IsLast
  <2>3. /\ DOMAIN disk' = DOMAIN disk
        /\ disk'[product[w]][Files[file[w]]] = "complete"
        /\ \A p \in DOMAIN disk, f \in Range(Files) :
             \/ disk'[p][f] = disk[p][f]
             \/ p = product[w] /\ f = Files[file[w]] /\ disk'[p][f] = "complete"
    BY <1>0, <2>1, NothingGoesAbsent
  <2>4. \A v \in Publishers : pc[v] # "start" => product[v] \in DOMAIN disk /\ file[v] \in 1..Len(Files)
    BY <1>0, <1>l DEF TypeOK
  <2>5. \A i \in 1..(file[w] - 1) : disk'[product[w]][Files[i]] # "absent"
    BY <1>l, <1>r, <2>1, <2>3, <2>4 DEF Interrupted, Progress
  <2>6. \A i \in 1..file[w] : disk'[product[w]][Files[i]] # "absent"
    BY <1>l, <2>1, <2>3, <2>4, <2>5
  <2>7. Progress'
    <3>1. ASSUME NEW v \in Publishers, pc'[v] # "start", NEW i \in 1..(file'[v] - 1)
          PROVE  disk'[product'[v]][Files[i]] # "absent"
      <4>1. CASE v = w
        <5>1. i \in 1..file[w]
          BY <1>d, <1>l, <2>1, <2>2, <2>4, <3>1, <4>1
        <5> QED BY <2>1, <2>6, <4>1, <5>1
      <4>2. CASE v # w
        <5>1. pc[v] # "start" /\ i \in 1..(file[v] - 1)
          BY <1>d, <2>2, <3>1, <4>2
        <5>2. i \in 1..Len(Files) /\ product[v] \in DOMAIN disk
          BY <1>l, <2>4, <5>1
        <5> QED BY <1>r, <2>1, <2>3, <5>1, <5>2 DEF Interrupted, Progress
      <4> QED BY <4>1, <4>2
    <3> QED BY <3>1 DEF Progress
  <2>8. file[w] = Len(Files) => \A f \in Range(Files) : disk'[product[w]][f] # "absent"
    BY <1>l, <2>6 DEF Range
  <2>9. \A v \in Finished' : \A f \in Range(Files) : disk'[product'[v]][f] # "absent"
    <3>1. ASSUME NEW v \in Finished', v # w
          PROVE  v \in Finished /\ product[v] \in DOMAIN disk
      BY <1>d, <2>2, <2>4, <3>1 DEF Finished
    <3>2. w \in Finished' => file[w] = Len(Files)
      BY <1>d, <2>1, <2>2 DEF Finished
    <3> QED BY <2>1, <2>3, <2>8, <3>1, <3>2 DEF Interrupted, WholeUnlessInterrupted
  <2>10. \A d \in Readable' : \A f \in Range(Files) : disk'[d][f] # "absent"
    <3>1. ASSUME NEW d \in Readable', d \notin Readable
          PROVE  d = product[w] /\ Files[Len(Files)] = Files[file[w]]
      BY <1>l, <1>r, <2>3, <3>1 DEF Readable
    <3>2. Files[Len(Files)] = Files[file[w]] => file[w] = Len(Files)
      BY <1>l, <2>1, <2>4, EvaluationAssumption DEF IsInjective
    <3> QED BY <2>3, <2>8, <3>1, <3>2 DEF Interrupted, WholeUnlessInterrupted, Readable
  <2>11. ASSUME NEW d \in DOMAIN disk', NEW f \in Range(Files), disk'[d][f] = "partial"
         PROVE  \E v \in Publishers : /\ pc'[v] \in {"write", "torn"}
                                      /\ product'[v] = d /\ Files[file'[v]] = f
    <3>1. disk[d][f] = "partial" /\ ~(d = product[w] /\ f = Files[file[w]])
      BY <2>3, <2>11
    <3>2. PICK v \in Publishers : /\ pc[v] \in {"write", "torn"} /\ product[v] = d /\ Files[file[v]] = f
      BY <2>3, <3>1 DEF Interrupted, WholeUnlessInterrupted
    <3> QED BY <1>d, <2>1, <2>2, <3>1, <3>2
  <2> QED BY <1>0, <2>7, <2>9, <2>10, <2>11 DEF Interrupted, WholeUnlessInterrupted
<1>6. ASSUME NEW w \in Publishers, Kill(w)
      PROVE  Interrupted'
  <2> DEFINE to == IF pc[w] = "write" THEN "torn" ELSE "killed"
  <2>1. /\ pc[w] \in {"check", "open", "write"} /\ pc' = [pc EXCEPT ![w] = to]
        /\ UNCHANGED <<executed, product, file, disk>>
    BY <1>6 DEF Kill
  <2>2. to \in {"torn", "killed"} /\ (to = "torn" <=> pc[w] = "write")
    OBVIOUS
  <2> HIDE DEF to
  <2> QED BY <1>0, <2>1, <2>2, MovingOn DEF Interrupted
<1>7. CASE UNCHANGED vars
  BY <1>0, <1>7 DEF vars, Interrupted, Progress, WholeUnlessInterrupted, Finished, Readable
<1> QED BY <1>1, <1>2, <1>3, <1>4, <1>5, <1>6, <1>7 DEF Next

\* The invariant holds for any number of publishers, files and deaths.
LEMMA InterruptedAlways == Spec => []Interrupted
<1>1. Init => Interrupted
  BY DEF Init, Interrupted, TypeOK, Progress, WholeUnlessInterrupted, Finished, Readable
<1>2. Interrupted /\ [Next]_vars => Interrupted'
  BY InterruptedStep
<1> QED BY <1>1, <1>2, PTL DEF Spec

\* A bundle that has been reported, or whose bundle file can be read, has all its
\* files, and a file is cut short only by a publisher that is writing it or was
\* killed there (RunArtifactStore.persist).
THEOREM NothingMissing == Spec => []WholeUnlessInterrupted
<1>1. Interrupted => WholeUnlessInterrupted
  BY DEF Interrupted
<1> QED BY <1>1, InterruptedAlways, PTL

\* Whoever meets a file with other content meets one that another publisher is
\* writing or was killed in (RunArtifactStore.persist).
LEMMA CollisionStep ==
  ASSUME Interrupted, [Next]_vars, NEW w \in Publishers, pc'[w] = "collided", pc[w] # "collided"
  PROVE  \E v \in Publishers \ {w} : /\ pc[v] \in {"write", "torn"}
                                     /\ product[v] = product[w] /\ file[v] = file[w]
<1>0. TypeOK /\ DOMAIN pc = Publishers
  BY DEF Interrupted, TypeOK
<1>1. CheckFile(w) /\ Collides(Content(w))
  BY <1>0 DEF Next, vars, Execute, Build, CheckFile, OpenFile, WriteFile, Kill
<1>2. pc[w] = "check" /\ disk[product[w]][Files[file[w]]] = "partial"
  BY <1>1 DEF CheckFile, Collides, Content
<1>3. product[w] \in DOMAIN disk /\ file[w] \in DOMAIN Files /\ Files[file[w]] \in Range(Files)
  BY <1>0, <1>2 DEF TypeOK, Range
<1>4. PICK v \in Publishers : /\ pc[v] \in {"write", "torn"} /\ product[v] = product[w]
                             /\ Files[file[v]] = Files[file[w]]
  BY <1>2, <1>3 DEF Interrupted, WholeUnlessInterrupted
<1>5. file[v] \in DOMAIN Files
  BY <1>0, <1>4 DEF TypeOK
<1>6. file[v] = file[w]
  BY <1>3, <1>4, <1>5, EvaluationAssumption DEF IsInjective
<1> QED BY <1>2, <1>4, <1>6

\* A repeated build is refused for a collision only when another publisher is in the
\* middle of that file or was killed there (RunArtifactStore.persist).
THEOREM CollisionsExplained == Spec => CollisionExplained
<1>1. ASSUME Interrupted, [Next]_vars
      PROVE  [\A w \in Publishers : pc'[w] = "collided" /\ pc[w] # "collided" =>
                \E v \in Publishers \ {w} : /\ pc[v] \in {"write", "torn"}
                                            /\ product[v] = product[w] /\ file[v] = file[w]]_vars
  BY <1>1, CollisionStep
<1> QED BY <1>1, InterruptedAlways, PTL DEF Spec, CollisionExplained
-----------------------------------------------------------------------------
(* What binds the parts of a bundle to each other                          *)

\* At most five elements.
LEMMA FiniteFive ==
  ASSUME NEW a, NEW b, NEW c, NEW d, NEW e
  PROVE  IsFiniteSet({a, b, c, d, e}) /\ IsFiniteSet({a, b, c, d})
<1>1. IsFiniteSet({a}) /\ IsFiniteSet({b}) /\ IsFiniteSet({c}) /\ IsFiniteSet({d}) /\ IsFiniteSet({e})
  BY FS_Singleton
<1>2. IsFiniteSet({a} \cup {b}) /\ IsFiniteSet({c} \cup {d})
  BY <1>1, FS_Union
<1>3. IsFiniteSet(({a} \cup {b}) \cup ({c} \cup {d}))
  BY <1>2, FS_Union
<1>4. IsFiniteSet((({a} \cup {b}) \cup ({c} \cup {d})) \cup {e})
  BY <1>1, <1>3, FS_Union
<1>5. /\ {a, b, c, d} = ({a} \cup {b}) \cup ({c} \cup {d})
      /\ {a, b, c, d, e} = (({a} \cup {b}) \cup ({c} \cup {d})) \cup {e}
  OBVIOUS
<1> QED BY <1>3, <1>4, <1>5

\* One run id is what five equal ones are.
LEMMA OneRunId ==
  ASSUME NEW a, NEW b, NEW c, NEW d, NEW e, Cardinality({a, b, c, d, e}) = 1
  PROVE  a = e
<1>1. IsFiniteSet({a, b, c, d, e})
  BY FiniteFive
<1>2. PICK x : {a, b, c, d, e} = {x}
  BY <1>1, FS_Singleton
<1> QED BY <1>2

\* The nodes of a graph name one authority, one plan, one evidence and one verdict.
LEMMA GraphNames ==
  ASSUME NEW authority, NEW plan, NEW evidence, NEW verdict, NEW a, NEW p, NEW e, NEW v,
         {<<"evaluator_authority", a>>, <<"harness_plan", p>>, <<"evidence_bundle", e>>,
          <<"harness_verdict", v>>} \subseteq Graph(authority, plan, evidence, verdict).nodes
  PROVE  a = authority /\ p = plan /\ e = evidence /\ v = verdict
BY DEF Graph

\* The same of the spans of a trace.
LEMMA TraceNames ==
  ASSUME NEW authority, NEW plan, NEW evidence, NEW verdict, NEW a, NEW p, NEW e, NEW v,
         {<<"authority_digest", a>>, <<"plan_digest", p>>, <<"evidence_digest", e>>,
          <<"verdict_digest", v>>} \subseteq Trace(authority, plan, evidence, verdict).attributes
  PROVE  a = authority /\ p = plan /\ e = evidence /\ v = verdict
BY DEF Trace

Loose(bundle) == [bundle EXCEPT !.replay.snapshot_digest = None]

\* What the validator finds in the graph and in the trace.
LEMMA ValidNames ==
  ASSUME NEW b, ValidBundle(b)
  PROVE  /\ {<<"evaluator_authority", b.authority>>, <<"harness_plan", b.plan>>,
             <<"evidence_bundle", b.evidence>>, <<"harness_verdict", b.verdict>>} \subseteq b.graph.nodes
         /\ {<<"authority_digest", b.authority>>, <<"plan_digest", b.plan>>,
             <<"evidence_digest", b.evidence>>, <<"verdict_digest", b.verdict>>} \subseteq b.trace.attributes
BY DEF ValidBundle

\* Parts of two built bundles that pass the validator together are, but for the
\* snapshot digest, those of the bundle the scorecard is from.
LEMMA RecombinationAgrees ==
  ASSUME NEW a1, NEW p1, NEW e1, NEW v1, NEW a2, NEW p2, NEW e2, NEW v2,
         NEW parts \in [1..5 -> 1..2],
         ValidBundle(Recombination(<<Bundle(a1, p1, e1, v1), Bundle(a2, p2, e2, v2)>>, parts))
  PROVE  LET two == <<Bundle(a1, p1, e1, v1), Bundle(a2, p2, e2, v2)>>
         IN Loose(Recombination(two, parts)) = Loose(two[parts[5]])
<1> DEFINE a == <<a1, a2>>
           p == <<p1, p2>>
           e == <<e1, e2>>
           v == <<v1, v2>>
           i == parts[5]
           mix == [authority |-> a[parts[1]],
                   graph |-> Graph(a[parts[2]], p[parts[2]], e[parts[2]], v[parts[2]]),
                   replay |-> Replay(a[parts[3]], p[parts[3]], e[parts[3]]),
                   trace |-> Trace(a[parts[4]], p[parts[4]], e[parts[4]], v[parts[4]]),
                   scorecard |-> Scorecard(a[i], p[i], e[i], v[i]),
                   run_id |-> p[parts[1]].run_id, plan |-> p[i], evidence |-> e[i], verdict |-> v[i]]
           two == <<Bundle(a1, p1, e1, v1), Bundle(a2, p2, e2, v2)>>
<1>0. parts[1] \in 1..2 /\ parts[2] \in 1..2 /\ parts[3] \in 1..2 /\ parts[4] \in 1..2 /\ i \in 1..2
  OBVIOUS
<1>t. \A j \in 1..2 : two[j] = Bundle(a[j], p[j], e[j], v[j])
  OBVIOUS
<1>1. Recombination(two, parts) = mix
  <2> HIDE DEF two, a, p, e, v
  <2> QED BY <1>0, <1>t DEF Recombination, Bundle
<1> HIDE DEF a, p, e, v, two
<1>2. ValidBundle(mix)
  BY <1>1 DEF two
<1> DEFINE card == Scorecard(a[i], p[i], e[i], v[i])
           replay == Replay(a[parts[3]], p[parts[3]], e[parts[3]])
<1>3. /\ a[parts[1]] = a[i] /\ a[parts[1]] = a[parts[3]]
      /\ p[i] = p[parts[3]] /\ p[i] = p[parts[4]]
      /\ card.replay_class = replay.replay_class
  BY <1>2 DEF ValidBundle, Scorecard, Replay, Trace
<1>4. a[i] = a[parts[2]] /\ p[i] = p[parts[2]] /\ e[i] = e[parts[2]] /\ v[i] = v[parts[2]]
  <2>1. {<<"evaluator_authority", a[i]>>, <<"harness_plan", p[i]>>, <<"evidence_bundle", e[i]>>,
          <<"harness_verdict", v[i]>>} \subseteq Graph(a[parts[2]], p[parts[2]], e[parts[2]], v[parts[2]]).nodes
    <3>1. /\ mix.authority = a[i] /\ mix.plan = p[i] /\ mix.evidence = e[i] /\ mix.verdict = v[i]
          /\ mix.graph = Graph(a[parts[2]], p[parts[2]], e[parts[2]], v[parts[2]])
      BY <1>3
    <3> HIDE DEF mix
    <3>2. {<<"evaluator_authority", mix.authority>>, <<"harness_plan", mix.plan>>,
            <<"evidence_bundle", mix.evidence>>, <<"harness_verdict", mix.verdict>>} \subseteq mix.graph.nodes
      BY <1>2, ValidNames
    <3> QED BY <3>1, <3>2
  <2> QED BY <2>1, GraphNames
<1>5. a[i] = a[parts[4]] /\ p[i] = p[parts[4]] /\ e[i] = e[parts[4]] /\ v[i] = v[parts[4]]
  <2>1. {<<"authority_digest", a[i]>>, <<"plan_digest", p[i]>>, <<"evidence_digest", e[i]>>,
          <<"verdict_digest", v[i]>>} \subseteq Trace(a[parts[4]], p[parts[4]], e[parts[4]], v[parts[4]]).attributes
    <3>1. /\ mix.authority = a[i] /\ mix.plan = p[i] /\ mix.evidence = e[i] /\ mix.verdict = v[i]
          /\ mix.trace = Trace(a[parts[4]], p[parts[4]], e[parts[4]], v[parts[4]])
      BY <1>3
    <3> HIDE DEF mix
    <3>2. {<<"authority_digest", mix.authority>>, <<"plan_digest", mix.plan>>,
            <<"evidence_digest", mix.evidence>>, <<"verdict_digest", mix.verdict>>} \subseteq mix.trace.attributes
      BY <1>2, ValidNames
    <3> QED BY <3>1, <3>2
  <2> QED BY <2>1, TraceNames
<1>6. p[parts[1]].run_id = p[i].run_id
  <2>1. \E b, c, d : Cardinality({p[parts[1]].run_id, b, c, d, p[i].run_id}) = 1
    <3>1. Cardinality({mix.run_id, mix.graph.run_id, mix.replay.run_id, mix.trace.run_id,
                       mix.scorecard.run_id}) = 1
      BY <1>2 DEF ValidBundle
    <3>2. mix.run_id = p[parts[1]].run_id /\ mix.scorecard.run_id = p[i].run_id
      BY DEF Scorecard
    <3> HIDE DEF mix
    <3> QED BY <3>1, <3>2
  <2> QED BY <2>1, OneRunId
<1>7. [replay EXCEPT !.snapshot_digest = None] = [Replay(a[i], p[i], e[i]) EXCEPT !.snapshot_digest = None]
  BY <1>3 DEF Replay, Scorecard
<1>8. Loose(mix) = Loose(Bundle(a[i], p[i], e[i], v[i]))
  <2>1. /\ mix.graph = Graph(a[i], p[i], e[i], v[i]) /\ mix.trace = Trace(a[i], p[i], e[i], v[i])
        /\ mix.authority = a[i] /\ mix.run_id = p[i].run_id
    BY <1>3, <1>4, <1>5, <1>6
  <2>2. mix = [authority |-> a[i], graph |-> Graph(a[i], p[i], e[i], v[i]), replay |-> replay,
               trace |-> Trace(a[i], p[i], e[i], v[i]), scorecard |-> card,
               run_id |-> p[i].run_id, plan |-> p[i], evidence |-> e[i], verdict |-> v[i]]
    BY <2>1
  <2> HIDE DEF mix, replay, card
  <2>3. Bundle(a[i], p[i], e[i], v[i]) =
          [authority |-> a[i], graph |-> Graph(a[i], p[i], e[i], v[i]), replay |-> Replay(a[i], p[i], e[i]),
           trace |-> Trace(a[i], p[i], e[i], v[i]), scorecard |-> card,
           run_id |-> p[i].run_id, plan |-> p[i], evidence |-> e[i], verdict |-> v[i]]
    BY DEF Bundle, card
  <2> DEFINE whole == Replay(a[i], p[i], e[i])
             graph == Graph(a[i], p[i], e[i], v[i])
             trace == Trace(a[i], p[i], e[i], v[i])
             id == p[i].run_id
  <2>4. [replay EXCEPT !.snapshot_digest = None] = [whole EXCEPT !.snapshot_digest = None]
    BY <1>7
  <2> HIDE DEF whole, graph, trace, id
  <2>5. Loose([authority |-> a[i], graph |-> graph, replay |-> replay, trace |-> trace,
               scorecard |-> card, run_id |-> id, plan |-> p[i], evidence |-> e[i], verdict |-> v[i]])
        = Loose([authority |-> a[i], graph |-> graph, replay |-> whole, trace |-> trace,
                 scorecard |-> card, run_id |-> id, plan |-> p[i], evidence |-> e[i], verdict |-> v[i]])
    BY <2>4 DEF Loose
  <2> QED BY <2>2, <2>3, <2>5 DEF whole, graph, trace, id
<1> QED BY <1>0, <1>t, <1>1, <1>8 DEF two

\* Whatever is in the store, parts of two of its bundles pass for one only if they
\* say what one of the two says (validate_cross_artifact_continuity).
THEOREM MixesAgree == Spec => []MixAgrees
<1>1. MixAgrees
  <2>1. ASSUME NEW p \in Readable, NEW q \in Readable, NEW parts \in [1..5 -> 1..2],
               ValidBundle(Recombination(<<BundleOf(p), BundleOf(q)>>, parts))
        PROVE  Loose(Recombination(<<BundleOf(p), BundleOf(q)>>, parts))
                 = Loose(<<BundleOf(p), BundleOf(q)>>[parts[5]])
    BY <2>1, RecombinationAgrees DEF BundleOf
  <2>2. \A parts \in [1..5 -> 1..2] : parts[5] \in 1..2
    OBVIOUS
  <2>3. ASSUME NEW p \in Readable, NEW q \in Readable, NEW parts \in [1..5 -> 1..2],
               ValidBundle(Recombination(<<BundleOf(p), BundleOf(q)>>, parts))
        PROVE  \E i \in 1..2 : Loose(Recombination(<<BundleOf(p), BundleOf(q)>>, parts))
                                = Loose(<<BundleOf(p), BundleOf(q)>>[i])
    BY <2>1, <2>2, <2>3
  <2> QED BY <2>3, Zenon DEF MixAgrees, Loose
<1> QED BY <1>1, PTL

-----------------------------------------------------------------------------
(* What the bundles of the store are made of                               *)

\* Every run was compiled, and no two runs have left the same evidence.
Ran ==
  /\ \A run \in executed : Compiles(Inputs[run.input].manifest, Inputs[run.input].spec, Inputs[run.input].runtime)
  /\ \A r, s \in executed : EvidenceOf(r) = EvidenceOf(s) => r = s

\* A directory was made for what the builder accepted.
Accepted ==
  \A p \in DOMAIN disk :
    Builds(p.authority, PlanOf(p.input), EvidenceOf(p.evidence), VerdictOf(p.verdict))

\* The exit status is what the scorecard says.
Judged ==
  \A w \in Publishers :
    /\ pc[w] = "ranked" => Eligible(BundleOf(product[w]).scorecard)
    /\ pc[w] = "diagnostic" => ~Eligible(BundleOf(product[w]).scorecard)

\* What is true of the store besides its types.
Stocked == TypeOK /\ Ran /\ Accepted /\ Judged

\* Runs, directories and exit statuses are added and not changed.
LEMMA StockedStep ==
  ASSUME Stocked, [Next]_vars
  PROVE  Stocked'
<1>0. TypeOK'
  BY TypeStep DEF Stocked
<1>1. ASSUME NEW input \in DOMAIN Inputs, NEW happening \in DOMAIN Happenings, Execute(input, happening)
      PROVE  Ran' /\ Accepted' /\ Judged'
  <2>1. PICK run : /\ run.input = input /\ executed' = executed \cup {run}
                   /\ \A r \in executed : EvidenceOf(r) # EvidenceOf(run)
    BY <1>1 DEF Execute
  <2>2. Compiles(Inputs[run.input].manifest, Inputs[run.input].spec, Inputs[run.input].runtime)
    BY <1>1, <2>1 DEF Execute
  <2>3. Ran'
    BY <2>1, <2>2 DEF Ran, Stocked
  <2>4. Accepted' /\ Judged'
    BY <1>1 DEF Execute, Stocked, Accepted, Judged
  <2> QED BY <2>3, <2>4
<1>2. ASSUME NEW w \in Publishers, NEW p \in Products, Build(w, p)
      PROVE  Ran' /\ Accepted' /\ Judged'
  <2>1. /\ DOMAIN disk' = DOMAIN disk \cup {p}
        /\ Builds(p.authority, PlanOf(p.input), EvidenceOf(p.evidence), VerdictOf(p.verdict))
    BY <1>2 DEF Build
  <2>2. Accepted'
    BY <2>1 DEF Accepted, Stocked
  <2>3. executed' = executed /\ pc' = [pc EXCEPT ![w] = "check"] /\ product' = [product EXCEPT ![w] = p]
    BY <1>2 DEF Build
  <2>4. Judged'
    BY <2>3 DEF Judged, Stocked, TypeOK
  <2> QED BY <2>2, <2>3, <2>4 DEF Ran, Stocked
<1>3. ASSUME NEW w \in Publishers, CheckFile(w) \/ OpenFile(w) \/ WriteFile(w) \/ Kill(w)
      PROVE  Ran' /\ Accepted' /\ Judged'
  <2>1. UNCHANGED <<executed, product>> /\ DOMAIN disk' = DOMAIN disk
    BY <1>3 DEF CheckFile, OpenFile, WriteFile, Kill
  <2> DEFINE eligible == Eligible(BundleOf(product[w]).scorecard)
             status == IF eligible THEN "ranked" ELSE "diagnostic"
  <2>2. \/ \E to \in PcValues \ {"ranked", "diagnostic"} : pc' = [pc EXCEPT ![w] = to]
        \/ pc' = [pc EXCEPT ![w] = status]
    BY <1>3 DEF CheckFile, OpenFile, WriteFile, Kill, PcValues
  <2>3. ASSUME NEW v \in Publishers
        PROVE  /\ pc'[v] = "ranked" => Eligible(BundleOf(product[v]).scorecard)
               /\ pc'[v] = "diagnostic" => ~Eligible(BundleOf(product[v]).scorecard)
    <3>1. /\ pc[v] = "ranked" => Eligible(BundleOf(product[v]).scorecard)
          /\ pc[v] = "diagnostic" => ~Eligible(BundleOf(product[v]).scorecard)
      BY DEF Stocked, Judged
    <3>2. CASE v # w
      BY <2>2, <3>1, <3>2 DEF Stocked, TypeOK
    <3>3. CASE v = w
      <4>1. pc'[v] \in PcValues \ {"ranked", "diagnostic"} \/ pc'[v] = status
        BY <2>2, <3>3 DEF Stocked, TypeOK
      <4>2. CASE pc'[v] = status
        BY <3>3, <4>2
      <4> QED BY <4>1, <4>2
    <3> QED BY <3>2, <3>3
  <2>4. Judged'
    BY <2>1, <2>3 DEF Judged, BundleOf
  <2> QED BY <2>1, <2>4 DEF Ran, Accepted, Stocked
<1>4. CASE UNCHANGED vars
  <2>1. UNCHANGED <<executed, pc, product, disk>>
    BY <1>4 DEF vars
  <2>2. Ran' /\ Accepted' /\ Judged'
    BY <2>1 DEF Stocked, Ran, Accepted, Judged
  <2> QED BY <1>0, <2>2 DEF Stocked
<1> QED BY <1>0, <1>1, <1>2, <1>3, <1>4 DEF Next, Stocked

LEMMA StockedAlways == Spec => []Stocked
<1>1. Init => Stocked
  BY DEF Init, Stocked, TypeOK, Ran, Accepted, Judged
<1>2. Stocked /\ [Next]_vars => Stocked'
  BY StockedStep
<1> QED BY <1>1, <1>2, PTL DEF Spec

\* A plan tells its input.
LEMMA PlanTellsInput ==
  ASSUME NEW i \in DOMAIN Inputs, NEW j \in DOMAIN Inputs, PlanOf(i) = PlanOf(j)
  PROVE  i = j
<1>1. /\ Inputs[i].manifest = Inputs[j].manifest /\ Inputs[i].spec = Inputs[j].spec
      /\ Capabilities(Inputs[i].runtime) = Capabilities(Inputs[j].runtime)
  BY DEF PlanOf, Plan
<1>2. Inputs[i].runtime \in Runtimes /\ Inputs[j].runtime \in Runtimes
  BY EvaluationAssumption
<1>3. \A runtime, other \in Runtimes : Capabilities(runtime) = Capabilities(other) => runtime = other
  <2>1. \A runtime \in Runtimes :
          /\ ("stdin_stream" \in Capabilities(runtime)) = (runtime # "cloudflare")
          /\ ("brokered_secrets" \in Capabilities(runtime)) = (runtime # "fixture")
          /\ ("gpu" \in Capabilities(runtime)) = (runtime = "openshell")
    BY DEF Capabilities, Runtimes, Backend
  <2> QED BY <2>1 DEF Runtimes
<1>4. Inputs[i].runtime = Inputs[j].runtime
  BY <1>1, <1>2, <1>3
<1> QED BY <1>1, <1>4, InputsAssumption

\* The plan, the evidence and the verdict of a bundle are of one run, although the
\* builder is given them one by one (_validate_continuity).
LEMMA BundleOfOneRun ==
  ASSUME Stocked, NEW p \in DOMAIN disk
  PROVE  /\ p.evidence \in executed /\ p.evidence.input \in DOMAIN Inputs
         /\ p.verdict = p.evidence /\ p.input = p.evidence.input
<1>1. p \in Products
  BY DEF Stocked, TypeOK
<1>2. /\ p.evidence \in executed /\ p.verdict \in executed
      /\ \E r \in executed : p.input = r.input
  BY <1>1 DEF Products
<1>3. p.input \in DOMAIN Inputs /\ p.evidence.input \in DOMAIN Inputs /\ p.verdict.input \in DOMAIN Inputs
  BY <1>2 DEF Stocked, TypeOK
<1>4. /\ VerdictOf(p.verdict).plan = PlanOf(p.input)
      /\ VerdictOf(p.verdict).evidence = EvidenceOf(p.evidence)
  BY DEF Stocked, Accepted, Builds, Continuous
<1>5. /\ VerdictOf(p.verdict).plan = PlanOf(p.verdict.input)
      /\ VerdictOf(p.verdict).evidence = EvidenceOf(p.verdict)
  BY DEF VerdictOf, Verify
<1>6. p.verdict = p.evidence
  BY <1>2, <1>4, <1>5 DEF Stocked, Ran
<1> QED BY <1>2, <1>3, <1>4, <1>5, <1>6, PlanTellsInput

-----------------------------------------------------------------------------
(* What a pass says about the run                                          *)

\* What the gate looks at when it passes (evaluate_security).
LEMMA GatePassed ==
  ASSUME NEW evidence, Gate(Findings(evidence)) = "pass"
  PROVE  /\ \A i \in DOMAIN evidence.findings : evidence.findings[i].severity \notin Severe
         /\ \A i \in DOMAIN evidence.network : evidence.network[i].action # "denied"
         /\ evidence.changed \cap ControlMarkers = {}
         /\ (evidence.stdout \cup evidence.stderr) \cap SecretMarkers = {}
<1> DEFINE findings == Findings(evidence)
<1>1. \A place \in DOMAIN findings : findings[place].severity \notin Severe
  BY DEF Gate
<1>2. "high" \in Severe /\ "critical" \in Severe
  BY DEF Severe
<1>3. ASSUME NEW i \in DOMAIN evidence.findings
      PROVE  evidence.findings[i].severity \notin Severe
  <2>1. <<"findings", i>> \in DOMAIN findings /\ findings[<<"findings", i>>] = evidence.findings[i]
    BY DEF Findings
  <2> QED BY <1>1, <2>1
<1>4. ASSUME NEW i \in DOMAIN evidence.network, evidence.network[i].action = "denied"
      PROVE  FALSE
  <2>1. /\ <<"network", i>> \in DOMAIN findings
        /\ findings[<<"network", i>>] = Finding("high", "network", evidence.network[i])
    BY <1>4 DEF Findings
  <2> QED BY <1>1, <1>2, <2>1 DEF Finding
<1>5. ASSUME NEW path \in evidence.changed \cap ControlMarkers
      PROVE  FALSE
  <2>1. /\ <<"filesystem_path", path>> \in DOMAIN findings
        /\ findings[<<"filesystem_path", path>>] = Finding("critical", "filesystem_path", path)
    BY DEF Findings
  <2> QED BY <1>1, <1>2, <2>1 DEF Finding
<1>6. ASSUME NEW text \in (evidence.stdout \cup evidence.stderr) \cap SecretMarkers
      PROVE  FALSE
  <2>1. /\ <<"output_marker", text>> \in DOMAIN findings
        /\ findings[<<"output_marker", text>>] = Finding("critical", "output_marker", text)
    BY DEF Findings
  <2> QED BY <1>1, <1>2, <2>1 DEF Finding
<1> QED BY <1>3, <1>4, <1>5, <1>6

\* In a verdict that passes every check has passed.
LEMMA ChecksPassed ==
  ASSUME NEW plan, NEW evidence, Verify(plan, evidence).status = "pass"
  PROVE  \A check \in Checks(plan, evidence) : check.passed
BY DEF Verify, FailedIds

\* A run is of a compiled input.
Proper(run) ==
  /\ run.input \in DOMAIN Inputs /\ run.happening \in DOMAIN Happenings
  /\ run.calls \in BOOLEAN

\* What a runtime asserts says nothing of what the command has achieved.
LEMMA RuntimesAssertNoOutcome ==
  \A runtime \in Runtimes : RuntimeAssertions(runtime) \cap
    {"coding_outcome_pass", "browser_outcome_pass", "browser_artifacts_valid"} = {}
BY DEF Runtimes, RuntimeAssertions, Backend

\* A scorecard that may be ranked is that of a run without blemish (_build_scorecard,
\* HarnessKernel.verify, verify_evidence of the adapters).
LEMMA EligibleIsClean ==
  ASSUME NEW run, Proper(run), NEW authority,
         Eligible(Scorecard(authority, PlanOf(run.input), EvidenceOf(run), VerdictOf(run)))
  PROVE  ~Blemished(run)
<1> DEFINE plan == PlanOf(run.input)
           happening == Happenings[run.happening]
           events == [happening EXCEPT !.calls = run.calls]
           manifest == Inputs[run.input].manifest
           runtime == Inputs[run.input].runtime
           evidence == Evidence(plan, runtime, events)
           trusted == HasReceipt(manifest.adapter)
<1>0. runtime \in Runtimes
  BY EvaluationAssumption DEF Proper
<1>1. /\ EvidenceOf(run) = evidence /\ VerdictOf(run) = Verify(plan, evidence)
  BY DEF EvidenceOf, VerdictOf
<1>2. /\ events.exit_code = happening.exit_code /\ events.text = happening.text
      /\ events.network = happening.network /\ events.trace = happening.trace
      /\ events.changed = happening.changed /\ events.findings = happening.findings
      /\ events.receipt = happening.receipt /\ events.artifacts = happening.artifacts
      /\ events.calls = run.calls
      /\ events.receipt \in BOOLEAN /\ events.artifacts \in BOOLEAN /\ run.calls \in BOOLEAN
  BY HappeningsAssumption DEF Proper
<1>3. /\ plan.manifest = manifest /\ plan.adapter = manifest.adapter
      /\ plan.required_evidence = manifest.required
  BY DEF PlanOf, Plan
<1>4. /\ Verify(plan, evidence).status = "pass" /\ Verify(plan, evidence).security_gate = "pass"
      /\ Failures(plan, evidence, Verify(plan, evidence)) = {}
  BY <1>1 DEF Eligible, Scorecard
<1> HIDE DEF plan, events, manifest, happening, runtime
<1>5. manifest.required \subseteq evidence.captured
  BY <1>3, <1>4 DEF Failures
<1>6. \A check \in Checks(plan, evidence) : check.passed
  BY <1>4, ChecksPassed
<1>7. \A name \in DomainAssertions(manifest.adapter) : name \in evidence.assertions
  <2>1. SUFFICES ASSUME NEW name \in DomainAssertions(manifest.adapter)
                 PROVE  name \in evidence.assertions
    OBVIOUS
  <2> DEFINE check == Check(<<"domain", name>>, name \in evidence.assertions)
  <2>2. check \in Checks(plan, evidence)
    BY <1>3 DEF Checks
  <2>3. check.passed = (name \in evidence.assertions)
    BY DEF Check
  <2>4. check.passed
    BY <1>6, <2>2
  <2> HIDE DEF check, evidence
  <2> QED BY <2>3, <2>4
<1>8. trusted => events.receipt /\ events.exit_code = 0
  <2>1. SUFFICES ASSUME trusted
                 PROVE  events.receipt /\ events.exit_code = 0
    OBVIOUS
  <2>2. PICK name \in DomainAssertions(manifest.adapter) : name \in {"coding_outcome_pass", "browser_outcome_pass"}
    BY <2>1, EvaluationAssumption DEF Proper, ValidManifest, HasReceipt, Adapters, DomainAssertions, manifest
  <2>3. name \in Assertions(plan, runtime, events)
    BY <1>7, <2>2 DEF Evidence
  <2>4. name \notin RuntimeAssertions(runtime) /\ name \in OutcomeAssertions
    BY <1>0, <2>2, RuntimesAssertNoOutcome DEF OutcomeAssertions
  <2> QED BY <2>3, <2>4 DEF Assertions
<1>9. manifest.artifacts # {} => events.artifacts /\ TellsWorkspace(runtime)
  <2>1. SUFFICES ASSUME manifest.artifacts # {}
                 PROVE  events.artifacts /\ TellsWorkspace(runtime)
    OBVIOUS
  <2>2. manifest.adapter = "browser.playwright.v1"
    BY <2>1, EvaluationAssumption DEF Proper, ValidManifest, manifest
  <2>3. "browser_artifacts_valid" \in Assertions(plan, runtime, events)
    BY <1>7, <2>2 DEF DomainAssertions, Evidence
  <2> QED BY <1>0, <2>3, RuntimesAssertNoOutcome DEF Assertions, ArtifactsValid
<1>10. "inference" \in manifest.required => run.calls
  <2>1. SUFFICES ASSUME "inference" \in manifest.required
                 PROVE  run.calls
    OBVIOUS
  <2>2. "inference" \in Captured(plan, runtime, events)
    BY <1>5, <2>1 DEF Evidence
  <2>3. /\ "inference" \notin RuntimeEvidence(plan.runtime_backend)
        /\ "inference" \notin ReceiptEvidence(plan.adapter)
        /\ "inference" \notin manifest.artifacts
    <3>1. manifest.adapter \in Adapters /\ manifest.artifacts \subseteq BrowserArtifacts
      BY EvaluationAssumption DEF Proper, ValidManifest, manifest
    <3> QED BY <1>3, <3>1 DEF RuntimeEvidence, ReceiptEvidence, BrowserArtifacts, Adapters
  <2> QED BY <1>2, <1>3, <2>2, <2>3 DEF Captured
<1>11. /\ \A i \in DOMAIN evidence.findings : evidence.findings[i].severity \notin Severe
       /\ \A i \in DOMAIN evidence.network : evidence.network[i].action # "denied"
       /\ evidence.changed \cap ControlMarkers = {}
       /\ (evidence.stdout \cup evidence.stderr) \cap SecretMarkers = {}
  <2>1. Gate(Findings(evidence)) = "pass"
    BY <1>4 DEF Verify
  <2> HIDE DEF evidence
  <2> QED BY <2>1, GatePassed
<1>12. /\ \A i \in DOMAIN happening.findings : happening.findings[i].severity \notin Severe
       /\ happening.changed \cap ControlMarkers = {} /\ happening.text \cap SecretMarkers = {}
  BY <1>2, <1>11 DEF Evidence
<1>13. "denied" \notin Range(IF manifest.adapter = "browser.playwright.v1" THEN happening.trace ELSE happening.network)
  <2> DEFINE network == IF manifest.adapter = "browser.playwright.v1" THEN happening.trace ELSE happening.network
  <2>1. trusted = (manifest.adapter # "coding.command.v1")
    BY DEF HasReceipt
  <2>2. evidence.network = Network(plan, events)
    BY DEF Evidence
  <2>3. \A i \in DOMAIN network : i \in DOMAIN evidence.network /\ evidence.network[i].action = network[i]
    <3>1. CASE manifest.adapter = "browser.playwright.v1"
      <4>1. plan.adapter = "browser.playwright.v1" /\ events.receipt /\ network = events.trace
        BY <1>2, <1>3, <1>8, <2>1, <3>1
      <4>2. evidence.network = [i \in DOMAIN events.trace |->
                                  [action |-> events.trace[i], evidence_id |-> <<"trace", i>>]]
        BY <2>2, <4>1 DEF Network
      <4> HIDE DEF network, evidence
      <4> QED BY <4>1, <4>2
    <3>2. CASE manifest.adapter # "browser.playwright.v1"
      <4>1. plan.adapter # "browser.playwright.v1" /\ network = events.network
        BY <1>2, <1>3, <3>2
      <4>2. evidence.network = [i \in DOMAIN events.network |->
                                  [action |-> events.network[i], evidence_id |-> None]]
        BY <2>2, <4>1 DEF Network
      <4> HIDE DEF network, evidence
      <4> QED BY <4>1, <4>2
    <3> QED BY <3>1, <3>2
  <2> HIDE DEF network, evidence
  <2> QED BY <1>11, <2>3 DEF Range, network
<1> QED
  BY <1>2, <1>8, <1>9, <1>10, <1>12, <1>13 DEF Blemished, manifest, happening, runtime

-----------------------------------------------------------------------------
(* What a score says                                                       *)

\* Some of a number in hundredths of 35 points, rounded down.
Rate(k, n) == (3500 * k) \div n

LEMMA FullRate == ASSUME NEW n \in Nat \ {0} PROVE Rate(n, n) = 3500
BY DEF Rate

LEMMA PartRate ==
  ASSUME NEW k \in Nat, NEW n \in Nat \ {0}, k < n
  PROVE  Rate(k, n) \in Nat /\ Rate(k, n) < 3500
BY DEF Rate

\* A part of a whole: all of it earns all points, and less earns fewer.
Share(part, whole) == Rate(Cardinality(part), Cardinality(whole))

LEMMA RateOfPart ==
  ASSUME NEW whole, IsFiniteSet(whole), whole # {}, NEW part \in SUBSET whole
  PROVE  /\ Share(part, whole) \in Nat /\ Share(part, whole) <= 3500
         /\ part = whole => Share(part, whole) = 3500
         /\ part # whole => Share(part, whole) < 3500
<1> DEFINE k == Cardinality(part)
           n == Cardinality(whole)
<1>1. k \in Nat /\ n \in Nat \ {0} /\ k <= n
  BY FS_CardinalityType, FS_Subset, FS_EmptySet
<1>2. part = whole <=> k = n
  BY FS_CardinalityType, FS_Subset
<1>3. Share(part, whole) = Rate(k, n)
  BY DEF Share
<1> HIDE DEF k, n
<1>4. CASE k = n
  <2>1. Rate(k, n) = 3500
    BY <1>1, <1>4, FullRate
  <2> QED BY <1>2, <1>3, <1>4, <2>1
<1>5. CASE k # n
  <2>1. k < n
    BY <1>1, <1>5
  <2>2. Rate(k, n) \in Nat /\ Rate(k, n) < 3500
    BY <1>1, <2>1, PartRate
  <2> QED BY <1>2, <1>3, <1>5, <2>2
<1> QED BY <1>4, <1>5

\* The image of a finite set.
LEMMA FiniteImage ==
  ASSUME NEW S, IsFiniteSet(S), NEW f, DOMAIN f = S
  PROVE  IsFiniteSet({f[x] : x \in S})
<1> DEFINE T == {f[x] : x \in S}
           g == [x \in S |-> f[x]]
<1>1. g \in Surjection(S, T)
  BY DEF Surjection
<1> QED BY <1>1, FS_Surjection

\* A verdict has finitely many checks.
LEMMA ChecksFinite ==
  ASSUME NEW plan, NEW evidence, IsFiniteSet(plan.required_evidence),
         IsFiniteSet(plan.manifest.verifiers), plan.adapter \in Adapters
  PROVE  IsFiniteSet(Checks(plan, evidence)) /\ Checks(plan, evidence) # {}
<1> DEFINE findings == Findings(evidence)
           always1 == Check(<<"provenance-continuity">>, evidence.provenance_digest = plan.provenance_digest)
           always2 == Check(<<"runtime-continuity">>, evidence.runtime_backend = plan.runtime_backend)
           always3 == Check(<<"command-continuity">>, \E command \in evidence.commands : command.argv = plan.command)
           always4 == [id |-> <<"security-gate">>, passed |-> Gate(findings) = "pass",
                       evidence_ids |-> EvidenceIds(findings)]
           input == [digest \in {plan.stdin_digest} \ {None} |->
                       Check(<<"input-continuity">>, \E command \in evidence.commands : command.stdin_digest = digest)]
           required == [kind \in plan.required_evidence |-> Check(<<"evidence", kind>>, EvidencePresent(evidence, kind))]
           domain == [name \in DomainAssertions(plan.adapter) |-> Check(<<"domain", name>>, name \in evidence.assertions)]
           checks == [verifier \in plan.manifest.verifiers |-> Check(<<"check", verifier>>, Passes(verifier, evidence))]
           Image(f) == {f[x] : x \in DOMAIN f}
<1>1. Checks(plan, evidence) =
        {always1, always2, always3, always4} \cup Image(input) \cup Image(required) \cup Image(domain) \cup Image(checks)
  <2>1. Image(input) = {Check(<<"input-continuity">>,
                          \E command \in evidence.commands : command.stdin_digest = digest) :
                            digest \in {plan.stdin_digest} \ {None}}
    OBVIOUS
  <2>2. Image(required) = {Check(<<"evidence", kind>>, EvidencePresent(evidence, kind)) :
                             kind \in plan.required_evidence}
    OBVIOUS
  <2>3. Image(domain) = {Check(<<"domain", name>>, name \in evidence.assertions) :
                           name \in DomainAssertions(plan.adapter)}
    OBVIOUS
  <2>4. Image(checks) = {Check(<<"check", verifier>>, Passes(verifier, evidence)) :
                           verifier \in plan.manifest.verifiers}
    OBVIOUS
  <2> HIDE DEF input, required, domain, checks, Image
  <2> QED BY <2>1, <2>2, <2>3, <2>4, Zenon DEF Checks
<1>2. IsFiniteSet(DOMAIN input) /\ IsFiniteSet(DOMAIN domain)
  <2>1. IsFiniteSet({plan.stdin_digest} \ {None})
    BY FS_Singleton, FS_Difference
  <2>2. IsFiniteSet(DomainAssertions(plan.adapter))
    <3> DEFINE coding == {"coding_receipt_valid", "coding_outcome_pass", "coding_policy_pass",
                          "coding_wrapper_exit_consistent"}
               browser == {"browser_receipt_valid", "browser_outcome_pass", "browser_policy_pass",
                           "browser_artifacts_valid", "browser_wrapper_exit_consistent"}
    <3>1. IsFiniteSet({}) /\ IsFiniteSet(coding) /\ IsFiniteSet(browser)
      BY FS_EmptySet, FiniteFive
    <3>2. DomainAssertions(plan.adapter) \in {{}, coding, browser}
      BY DEF DomainAssertions, Adapters
    <3> QED BY <3>1, <3>2
  <2> QED BY <2>1, <2>2
<1>3. IsFiniteSet({always1, always2, always3, always4})
  BY FiniteFive, ZenonT(60)
<1> HIDE DEF always1, always2, always3, always4, input, required, domain, checks
<1>4. /\ IsFiniteSet(Image(input)) /\ IsFiniteSet(Image(domain))
      /\ IsFiniteSet(Image(required)) /\ IsFiniteSet(Image(checks))
  <2>1. DOMAIN required = plan.required_evidence /\ DOMAIN checks = plan.manifest.verifiers
    BY DEF required, checks
  <2> QED BY <1>2, <2>1, FiniteImage
<1> HIDE DEF Image
<1> QED BY <1>1, <1>3, <1>4, FS_Union

\* The points for a replay class.
ReplayPoints(class) ==
  CASE class = "exact" -> 1000 [] class = "partial" -> 500 [] class = "none" -> 0

\* A scorecard that may be ranked has the full score, and no other one of its replay
\* class has (_build_scorecard).
LEMMA ScoreTells ==
  ASSUME NEW run, Proper(run), NEW authority
  PROVE  LET card == Scorecard(authority, PlanOf(run.input), EvidenceOf(run), VerdictOf(run))
         IN /\ ReplayPoints(card.replay_class) \in Nat
            /\ Eligible(card) => card.diagnostic_score = 9000 + ReplayPoints(card.replay_class)
            /\ ~Eligible(card) => card.diagnostic_score < 9000 + ReplayPoints(card.replay_class)
<1> DEFINE plan == PlanOf(run.input)
           evidence == EvidenceOf(run)
           verdict == VerdictOf(run)
           replay == ReplayClass(plan, evidence)
           card == Scorecard(authority, plan, evidence, verdict)
           required == plan.required_evidence
           captured == required \cap evidence.captured
           checks == Checks(plan, evidence)
           passed == {check \in checks : check.passed}
           rate1 == Share(captured, required)
           rate2 == Share(passed, checks)
<1>1. /\ IsFiniteSet(required) /\ required # {} /\ IsFiniteSet(plan.manifest.verifiers)
      /\ plan.adapter \in Adapters
  BY EvaluationAssumption, InputsAssumption DEF Proper, PlanOf, Plan, ValidManifest
<1>2. IsFiniteSet(checks) /\ checks # {}
  BY <1>1, ChecksFinite
<1>3. /\ verdict.checks = checks
      /\ verdict.status \in {"pass", "fail"} /\ verdict.security_gate \in {"pass", "fail"}
      /\ verdict.security_gate = Gate(verdict.security_findings)
      /\ verdict.status = "pass" => passed = checks
  <2>1. verdict = Verify(plan, evidence)
    BY DEF VerdictOf
  <2> HIDE DEF verdict, plan, evidence
  <2>2. verdict.status = "pass" => passed = checks
    BY <2>1, ChecksPassed
  <2>3. /\ verdict.checks = checks
        /\ verdict.status \in {"pass", "fail"} /\ verdict.security_gate \in {"pass", "fail"}
        /\ verdict.security_gate = Gate(verdict.security_findings)
    BY <2>1 DEF Verify, Gate
  <2> QED BY <2>2, <2>3
<1> HIDE DEF plan, evidence, verdict
<1>4. replay \in {"exact", "none", "partial"} /\ ReplayPoints(replay) \in Nat
  BY DEF ReplayClass, ReplayPoints
<1>5. /\ rate1 \in Nat /\ (captured = required => rate1 = 3500) /\ (captured # required => rate1 < 3500)
      /\ rate2 \in Nat /\ rate2 <= 3500 /\ (passed = checks => rate2 = 3500)
  <2>1. captured \in SUBSET required /\ passed \in SUBSET checks
    OBVIOUS
  <2> HIDE DEF required, captured, checks, passed
  <2>2. rate1 \in Nat /\ (captured = required => rate1 = 3500) /\ (captured # required => rate1 < 3500)
    BY <1>1, <2>1, RateOfPart
  <2>3. rate2 \in Nat /\ rate2 <= 3500 /\ (passed = checks => rate2 = 3500)
    BY <1>2, <2>1, RateOfPart
  <2> HIDE DEF rate1, rate2
  <2> QED BY <2>2, <2>3
<1>6. card.diagnostic_score =
        IF verdict.security_gate = "fail" THEN 0
        ELSE rate1 + rate2 + (IF verdict.status = "pass" THEN 2000 ELSE 0) + ReplayPoints(replay)
  <2>1. card.diagnostic_score = Score(plan, evidence, verdict)
    BY DEF Scorecard
  <2>2. /\ plan.required_evidence # {} /\ verdict.checks # {}
        /\ plan.required_evidence \cap evidence.captured = captured /\ plan.required_evidence = required
        /\ {check \in verdict.checks : check.passed} = passed /\ verdict.checks = checks
    BY <1>1, <1>2, <1>3
  <2> HIDE DEF card, captured, required, passed, checks, replay
  <2>3. Score(plan, evidence, verdict) =
          IF verdict.security_gate = "fail" THEN 0
          ELSE rate1 + rate2 + (IF verdict.status = "pass" THEN 2000 ELSE 0) + ReplayPoints(replay)
    <3> DEFINE rate(part, whole) ==
                 IF whole = {} THEN 3500 ELSE Share(part, whole)
    <3>1. Score(plan, evidence, verdict) =
            IF verdict.security_gate = "fail" THEN 0
            ELSE rate(plan.required_evidence \cap evidence.captured, plan.required_evidence)
                 + rate({check \in verdict.checks : check.passed}, verdict.checks)
                 + (IF verdict.status = "pass" THEN 2000 ELSE 0)
                 + ReplayPoints(replay)
      BY SMTT(60) DEF Score, Share, Rate, ReplayPoints, replay
    <3>2. /\ rate(plan.required_evidence \cap evidence.captured, plan.required_evidence) = rate1
          /\ rate({check \in verdict.checks : check.passed}, verdict.checks) = rate2
      <4>1. \A part, whole : whole # {} => rate(part, whole) = Share(part, whole)
        OBVIOUS
      <4> HIDE DEF rate
      <4>2. rate(plan.required_evidence \cap evidence.captured, plan.required_evidence) = rate(captured, required)
        BY <2>2, Zenon
      <4>3. rate({check \in verdict.checks : check.passed}, verdict.checks) = rate(passed, checks)
        BY <2>2, Zenon
      <4>4. required # {} /\ checks # {}
        BY <1>1, <1>2
      <4>5. rate(captured, required) = rate1 /\ rate(passed, checks) = rate2
        BY <4>1, <4>4
      <4> QED BY <4>2, <4>3, <4>5
    <3> HIDE DEF rate, rate1, rate2
    <3> QED BY <3>1, <3>2, Zenon
  <2> QED BY <2>1, <2>3
<1>7. Eligible(card) => /\ verdict.status = "pass" /\ verdict.security_gate = "pass"
                        /\ captured = required
  <2>1. SUFFICES ASSUME Eligible(card)
                 PROVE  /\ verdict.status = "pass" /\ verdict.security_gate = "pass"
                        /\ captured = required
    OBVIOUS
  <2>2. /\ verdict.status = "pass" /\ verdict.security_gate = "pass"
        /\ Failures(plan, evidence, verdict) = {}
    BY <2>1 DEF Eligible, Scorecard
  <2>3. required \subseteq evidence.captured
    BY <2>2 DEF Failures
  <2> QED BY <2>2, <2>3
<1>8. verdict.status = "pass" /\ verdict.security_gate = "pass" /\ captured = required => Eligible(card)
  BY <1>3 DEF Eligible, Scorecard, Failures
<1> HIDE DEF card, required, captured, checks, passed, rate1, rate2
<1>9. /\ Eligible(card) => card.diagnostic_score = 9000 + ReplayPoints(replay)
      /\ ~Eligible(card) => card.diagnostic_score < 9000 + ReplayPoints(replay)
  <2> HIDE DEF replay
  <2>1. CASE Eligible(card)
    BY <1>3, <1>4, <1>5, <1>6, <1>7, <2>1
  <2>2. CASE ~Eligible(card)
    <3>1. CASE verdict.security_gate = "fail"
      BY <1>4, <1>6, <2>2, <3>1
    <3>2. CASE verdict.security_gate = "pass" /\ verdict.status = "fail"
      BY <1>4, <1>5, <1>6, <2>2, <3>2
    <3>3. CASE captured # required /\ verdict.security_gate = "pass" /\ verdict.status = "pass"
      BY <1>4, <1>5, <1>6, <2>2, <3>3
    <3> QED BY <1>3, <1>8, <2>2, <3>1, <3>2, <3>3
  <2> QED BY <2>1, <2>2
<1>10. card.replay_class = replay
  BY DEF card, Scorecard
<1> QED BY <1>4, <1>9, <1>10 DEF card, plan, evidence, verdict

\* The bundle of a directory is that of one proper run.
LEMMA BundleOfRun ==
  ASSUME Stocked, NEW p \in DOMAIN disk
  PROVE  /\ Proper(p.evidence)
         /\ BundleOf(p).scorecard
              = Scorecard(p.authority, PlanOf(p.evidence.input), EvidenceOf(p.evidence), VerdictOf(p.evidence))
<1>1. /\ p.evidence \in executed /\ p.verdict = p.evidence /\ p.input = p.evidence.input
  BY BundleOfOneRun
<1>2. Proper(p.evidence)
  BY <1>1 DEF Stocked, TypeOK, Proper
<1>3. BundleOf(p).scorecard = Scorecard(p.authority, PlanOf(p.input), EvidenceOf(p.evidence), VerdictOf(p.verdict))
  BY DEF BundleOf, Bundle
<1> QED BY <1>1, <1>2, <1>3

\* What the scores of the store tell.
LEMMA StoredScore ==
  ASSUME Stocked, NEW p \in DOMAIN disk
  PROVE  LET card == BundleOf(p).scorecard
         IN /\ ReplayPoints(card.replay_class) \in Nat
            /\ Eligible(card) => card.diagnostic_score = 9000 + ReplayPoints(card.replay_class)
            /\ ~Eligible(card) => card.diagnostic_score < 9000 + ReplayPoints(card.replay_class)
<1> DEFINE run == p.evidence
           card == BundleOf(p).scorecard
           same == Scorecard(p.authority, PlanOf(run.input), EvidenceOf(run), VerdictOf(run))
<1>1. Proper(run) /\ card = same
  BY BundleOfRun
<1> HIDE DEF run
<1>2. /\ ReplayPoints(same.replay_class) \in Nat
      /\ Eligible(same) => same.diagnostic_score = 9000 + ReplayPoints(same.replay_class)
      /\ ~Eligible(same) => same.diagnostic_score < 9000 + ReplayPoints(same.replay_class)
  BY <1>1, ScoreTells
<1> HIDE DEF card, same
<1>3. /\ ReplayPoints(card.replay_class) \in Nat
      /\ Eligible(card) => card.diagnostic_score = 9000 + ReplayPoints(card.replay_class)
      /\ ~Eligible(card) => card.diagnostic_score < 9000 + ReplayPoints(card.replay_class)
  BY <1>1, <1>2
<1> QED BY <1>3 DEF card

\* Whatever files skill-native-run-artifacts build is given, exit status 0 means a
\* clean run whose plan and verdict they are, and a better score than any bundle of
\* its replay class that ends with status 2 (run_artifact_builder.py,
\* run_artifact_derived.py).
THEOREM RanksAreClean == Spec => []RankMeansClean
<1>1. ASSUME Stocked
      PROVE  RankMeansClean
  <2>1. ASSUME NEW w \in Publishers, pc[w] \in {"ranked", "diagnostic"}
        PROVE  product[w] \in DOMAIN disk
    BY <1>1, <2>1 DEF Stocked, TypeOK
  <2>2. ASSUME NEW w \in Publishers, pc[w] = "ranked"
        PROVE  /\ ~Blemished(product[w].evidence)
               /\ product[w].input = product[w].evidence.input
               /\ product[w].verdict = product[w].evidence
    <3> DEFINE p == product[w]
    <3>1. p \in DOMAIN disk /\ Eligible(BundleOf(p).scorecard)
      BY <1>1, <2>1, <2>2 DEF Stocked, Judged
    <3> HIDE DEF p
    <3>2. ~Blemished(p.evidence)
      BY <1>1, <3>1, BundleOfRun, EligibleIsClean
    <3>3. p.input = p.evidence.input /\ p.verdict = p.evidence
      BY <1>1, <3>1, BundleOfOneRun
    <3> QED BY <3>2, <3>3 DEF p
  <2>3. ASSUME NEW w \in Publishers, NEW v \in Publishers, pc[w] = "ranked", pc[v] = "diagnostic",
               BundleOf(product[v]).scorecard.replay_class = BundleOf(product[w]).scorecard.replay_class
        PROVE  BundleOf(product[v]).scorecard.diagnostic_score < BundleOf(product[w]).scorecard.diagnostic_score
    <3> DEFINE mine == BundleOf(product[w]).scorecard
               other == BundleOf(product[v]).scorecard
    <3>1. Eligible(mine) /\ ~Eligible(other) /\ product[w] \in DOMAIN disk /\ product[v] \in DOMAIN disk
      BY <1>1, <2>1, <2>3 DEF Stocked, Judged
    <3>2. mine.diagnostic_score = 9000 + ReplayPoints(mine.replay_class)
      BY <1>1, <3>1, StoredScore
    <3>3. other.diagnostic_score < 9000 + ReplayPoints(other.replay_class)
      BY <1>1, <3>1, StoredScore
    <3>4. mine.replay_class = other.replay_class /\ ReplayPoints(mine.replay_class) \in Nat
      BY <1>1, <2>3, <3>1, StoredScore
    <3> HIDE DEF mine, other
    <3>5. other.diagnostic_score < mine.diagnostic_score
      BY <3>2, <3>3, <3>4
    <3> QED BY <3>5 DEF mine, other
  <2> QED BY <2>2, <2>3 DEF RankMeansClean
<1> QED BY <1>1, StockedAlways, PTL

-----------------------------------------------------------------------------
(* What an attestation says                                                *)

\* Different directories hold different bundles.
LEMMA BundlesDiffer ==
  ASSUME Stocked, NEW p \in DOMAIN disk, NEW q \in DOMAIN disk, BundleOf(p) = BundleOf(q)
  PROVE  p = q
<1>1. p \in Products /\ q \in Products
  BY DEF Stocked, TypeOK
<1>2. /\ p.authority = q.authority /\ PlanOf(p.input) = PlanOf(q.input)
      /\ EvidenceOf(p.evidence) = EvidenceOf(q.evidence)
  BY DEF BundleOf, Bundle
<1>3. /\ p.evidence \in executed /\ p.verdict = p.evidence /\ p.input = p.evidence.input
      /\ q.evidence \in executed /\ q.verdict = q.evidence /\ q.input = q.evidence.input
  BY BundleOfOneRun
<1>4. p.evidence = q.evidence
  BY <1>2, <1>3 DEF Stocked, Ran
<1> QED BY <1>1, <1>2, <1>3, <1>4 DEF Products

\* An envelope that verify_attestation accepts for a bundle of the store was signed
\* for this bundle, by a key and for an identity the policy allows, and of a clean
\* run if the policy asks for one (attestation_crypto.py).
THEOREM ReceiptsAreSigned == Spec => []ReceiptMeansSigned
<1>1. ASSUME Stocked
      PROVE  ReceiptMeansSigned
  <2>1. SUFFICES ASSUME NEW p \in Readable, NEW q \in Readable, NEW key \in Keys, NEW signer \in Keys,
                        NEW identity \in Identities, NEW policy \in Policies,
                        Verifies(BundleOf(q), Envelope(BundleOf(p), identity, signer), key, policy)
                 PROVE  /\ p = q /\ key = signer /\ signer \in policy.allowed_key_ids
                        /\ \A field \in DOMAIN policy.expected : policy.expected[field] \in {None, identity[field]}
                        /\ policy.require_rank_eligible => ~Blemished(p.evidence)
    BY Zenon DEF ReceiptMeansSigned
  <2>2. p \in DOMAIN disk /\ q \in DOMAIN disk
    BY DEF Readable
  <2> DEFINE signed == BundleOf(p)
             shown == BundleOf(q)
  <2> HIDE DEF signed, shown
  <2>3. Verifies(shown, Envelope(signed, identity, signer), key, policy)
    BY <2>1 DEF signed, shown
  <2>4. /\ key = signer /\ signer \in policy.allowed_key_ids
        /\ Statement(signed, identity) = Statement(shown, identity)
        /\ \A field \in DOMAIN policy.expected : policy.expected[field] \in {None, identity[field]}
        /\ policy.require_rank_eligible => Eligible(signed.scorecard)
    BY <2>3 DEF Verifies, Envelope, Statement
  <2>5. signed = shown
    BY <2>4 DEF Statement
  <2>6. p = q
    BY <1>1, <2>2, <2>5, BundlesDiffer DEF signed, shown
  <2>7. policy.require_rank_eligible => ~Blemished(p.evidence)
    BY <1>1, <2>2, <2>4, BundleOfRun, EligibleIsClean DEF signed
  <2> QED BY <2>4, <2>6, <2>7
<1> QED BY <1>1, StockedAlways, PTL

-----------------------------------------------------------------------------
(* What compile promises                                                   *)

\* An input compile has let through and no exception of CompiledPlanCanPass is about.
Promising(input) ==
  /\ ValidManifest(input.manifest) /\ input.runtime \in Runtimes
  /\ Compiles(input.manifest, input.spec, input.runtime)
  /\ ~Hopeless(input)
  /\ input.manifest.required \cap BrowserArtifacts \subseteq input.manifest.artifacts
  /\ \A verifier \in input.manifest.verifiers : ~Unmet(verifier, input)

\* Its plan, and what its best run leaves behind.
PlanFor(input) == Plan(input.manifest, input.spec, input.runtime)

BestEvidence(input) == Evidence(PlanFor(input), input.runtime, Ideal(input))

\* The best run of such an input has a receipt if the adapter reads one, and files
\* that are found if it is the browser's.
LEMMA IdealRuns ==
  ASSUME NEW input, Promising(input)
  PROVE  LET events == Ideal(input)
             plan == PlanFor(input)
         IN /\ plan.adapter = input.manifest.adapter /\ plan.manifest = input.manifest
            /\ plan.adapter \in Adapters /\ plan.runtime_backend = input.spec.backend
            /\ plan.required_evidence = input.manifest.required
            /\ HasReceipt(plan.adapter) => events.receipt = TRUE
            /\ plan.adapter = "browser.playwright.v1" => ArtifactsValid(input.runtime, events)
            /\ events.exit_code = 0 /\ events.calls = TRUE /\ events.trace = <<>>
            /\ CanHappen(input.runtime, events)
<1> DEFINE events == Ideal(input)
           plan == PlanFor(input)
<1>1. /\ plan.adapter = input.manifest.adapter /\ plan.manifest = input.manifest
      /\ plan.runtime_backend = input.spec.backend /\ plan.required_evidence = input.manifest.required
  BY DEF PlanFor, Plan
<1>2. /\ events.exit_code = 0 /\ events.calls = TRUE /\ events.trace = <<>> /\ events.network = <<>>
      /\ events.changed = {} /\ events.findings = <<>> /\ events.artifacts = TRUE
      /\ events.receipt = (input.runtime # "fake")
      /\ input.runtime = "fake" => events.text = FakeText
  BY DEF Ideal
<1> HIDE DEF events, plan
<1>3. HasReceipt(plan.adapter) => events.receipt = TRUE
  BY <1>1, <1>2 DEF Promising, Hopeless
<1>4. plan.adapter = "browser.playwright.v1" => ArtifactsValid(input.runtime, events)
  BY <1>1, <1>2 DEF Promising, Hopeless, ArtifactsValid
<1>5. CanHappen(input.runtime, events)
  BY <1>2 DEF CanHappen
<1>6. plan.adapter \in Adapters
  BY <1>1 DEF Promising, ValidManifest
<1> QED BY <1>1, <1>2, <1>3, <1>4, <1>5, <1>6 DEF events, plan

\* What compile has let through is collected in the best run (HarnessKernel.compile,
\* mark_evidence_captured).
LEMMA IdealCaptures ==
  ASSUME NEW input, Promising(input)
  PROVE  input.manifest.required \subseteq Captured(PlanFor(input), input.runtime, Ideal(input))
<1> DEFINE plan == PlanFor(input)
           events == Ideal(input)
           runtime == input.runtime
           manifest == input.manifest
           backend == input.spec.backend
<1>1. /\ plan.runtime_backend = backend /\ plan.adapter = manifest.adapter /\ plan.manifest = manifest
      /\ HasReceipt(plan.adapter) => events.receipt = TRUE
      /\ plan.adapter = "browser.playwright.v1" => ArtifactsValid(runtime, events)
      /\ events.calls = TRUE
  BY IdealRuns
<1>2. /\ manifest.adapter \in Adapters /\ manifest.required \subseteq manifest.capture
      /\ manifest.required \cap BrowserArtifacts \subseteq manifest.artifacts
  BY DEF Promising, ValidManifest
<1>a. manifest.capture \subseteq RuntimeEvidence(backend) \cup {"inference"} \cup AdapterEvidence(manifest.adapter)
  BY DEF Promising, Compiles
<1> SUFFICES ASSUME NEW kind \in manifest.required
             PROVE  kind \in Captured(plan, runtime, events)
  OBVIOUS
<1> HIDE DEF plan, events, manifest, runtime, backend
<1>3. kind \in RuntimeEvidence(backend) \cup {"inference"} \cup AdapterEvidence(manifest.adapter)
  BY <1>2, <1>a
<1>4. CASE kind \in RuntimeEvidence(backend) \/ kind = "inference"
  BY <1>1, <1>4 DEF Captured
<1>5. CASE kind \in ReceiptEvidence(manifest.adapter)
  BY <1>1, <1>2, <1>5 DEF Captured, HasReceipt, ReceiptEvidence, Adapters
<1>6. CASE kind \in BrowserArtifacts /\ manifest.adapter = "browser.playwright.v1"
  BY <1>1, <1>2, <1>6 DEF Captured, HasReceipt
<1> QED BY <1>3, <1>4, <1>5, <1>6 DEF AdapterEvidence

\* In the best run everything is asserted that the runtime and the adapter assert.
LEMMA IdealAsserts ==
  ASSUME NEW input, Promising(input)
  PROVE  RuntimeAssertions(input.runtime) \cup AdapterAssertions(input.manifest.adapter)
           \subseteq Assertions(PlanFor(input), input.runtime, Ideal(input))
<1> DEFINE plan == PlanFor(input)
           events == Ideal(input)
<1>1. /\ plan.adapter = input.manifest.adapter /\ plan.adapter \in Adapters
      /\ HasReceipt(plan.adapter) => events.receipt = TRUE
      /\ plan.adapter = "browser.playwright.v1" => ArtifactsValid(input.runtime, events)
      /\ events.exit_code = 0 /\ events.trace = <<>>
  BY IdealRuns
<1> HIDE DEF plan, events
<1>2. ASSUME NEW name \in AdapterAssertions(plan.adapter)
      PROVE  name \in Assertions(plan, input.runtime, events)
  <2>1. HasReceipt(plan.adapter)
    BY <1>1 DEF AdapterAssertions, DomainAssertions, HasReceipt, Adapters
  <2>2. name = "browser_artifacts_valid" => plan.adapter = "browser.playwright.v1"
    BY <1>1 DEF AdapterAssertions, DomainAssertions, Adapters
  <2>3. {events.trace[i] : i \in DOMAIN events.trace} = {}
    BY <1>1
  <2> QED BY <1>1, <2>1, <2>2, <2>3 DEF Assertions
<1>3. RuntimeAssertions(input.runtime) \subseteq Assertions(plan, input.runtime, events)
  BY DEF Assertions
<1> QED BY <1>1, <1>2, <1>3 DEF plan, events

\* The best run passes every verifier that can be passed.
LEMMA IdealSatisfies ==
  ASSUME NEW input, Promising(input), NEW verifier \in input.manifest.verifiers
  PROVE  Passes(verifier, BestEvidence(input))
<1> DEFINE plan == PlanFor(input)
           events == Ideal(input)
           runtime == input.runtime
           evidence == BestEvidence(input)
<1>1. /\ evidence.exit_code = 0 /\ evidence.stderr = {} /\ evidence.stdout = events.text
      /\ evidence.captured = Captured(plan, runtime, events)
      /\ evidence.assertions = Assertions(plan, runtime, events)
  BY IdealRuns DEF BestEvidence, Evidence
<1>2. input.manifest.required \subseteq evidence.captured
  BY <1>1, IdealCaptures
<1>3. Dependency(verifier) \in evidence.captured /\ verifier.kind \in VerifierKinds
  BY <1>2 DEF Promising, ValidManifest
<1>9. ~Unmet(verifier, input)
  BY DEF Promising
<1> SUFFICES Passes(verifier, evidence)
  OBVIOUS
<1> HIDE DEF evidence, plan, events, runtime
<1>4. CASE verifier.kind = "exit_code_zero"
  BY <1>1, <1>4 DEF Passes
<1>5. CASE verifier.kind = "assertion_true"
  <2>1. verifier.of \in RuntimeAssertions(input.runtime) \cup AdapterAssertions(input.manifest.adapter)
    BY <1>5, <1>9 DEF Unmet
  <2>2. verifier.of \in Assertions(plan, runtime, events)
    BY <2>1, IdealAsserts DEF plan, runtime, events
  <2>3. verifier.of \in evidence.assertions
    BY <1>1, <2>2
  <2> QED BY <1>5, <2>3 DEF Passes
<1>6. CASE verifier.kind = "stdout_contains"
  <2>1. verifier.of \in events.text
    BY <1>6, <1>9 DEF events, Ideal, Unmet
  <2> QED BY <1>1, <1>6, <2>1 DEF Passes
<1>7. CASE verifier.kind = "stderr_empty"
  <2>1. "stderr" \in evidence.captured
    BY <1>3, <1>7 DEF Dependency
  <2> QED BY <1>1, <1>7, <2>1 DEF Passes, EvidencePresent
<1>8. CASE verifier.kind = "evidence_present"
  <2>1. verifier.of \in evidence.captured
    BY <1>3, <1>8 DEF Dependency
  <2> QED BY <1>8, <2>1 DEF Passes, EvidencePresent
<1> QED BY <1>3, <1>4, <1>5, <1>6, <1>7, <1>8 DEF VerifierKinds

\* The gate finds nothing in the best run.
LEMMA IdealFindsNothing ==
  ASSUME NEW input, Promising(input)
  PROVE  LET evidence == BestEvidence(input)
         IN DOMAIN Findings(evidence) = {} /\ DOMAIN evidence.findings = {} /\ DOMAIN evidence.network = {}
<1> DEFINE evidence == BestEvidence(input)
<1>1. /\ evidence.findings = <<>> /\ evidence.changed = {} /\ evidence.stderr = {}
      /\ evidence.stdout = Ideal(input).text
      /\ evidence.network = Network(PlanFor(input), Ideal(input))
  BY DEF BestEvidence, Evidence, Ideal
<1>2. DOMAIN evidence.findings = {}
  BY <1>1
<1>3. DOMAIN evidence.network = {}
  <2>1. Ideal(input).trace = <<>> /\ Ideal(input).network = <<>> /\ DOMAIN <<>> = {}
    BY DEF Ideal
  <2>2. \A plan, events : DOMAIN Network(plan, events) \in {DOMAIN events.trace, DOMAIN events.network}
    BY DEF Network
  <2> QED BY <1>1, <2>1, <2>2
<1>4. (evidence.stdout \cup evidence.stderr) \cap SecretMarkers = {}
  <2>1. \A text \in FakeText : text \notin SecretMarkers
    BY DEF FakeText, SecretMarkers
  <2>2. \A text \in Ideal(input).text : text \notin SecretMarkers
    BY <2>1 DEF Ideal, Promising, Unmet
  <2> QED BY <1>1, <2>2
<1> HIDE DEF evidence
<1>5. DOMAIN Findings(evidence) = {}
  BY <1>1, <1>2, <1>3, <1>4 DEF Findings
<1> QED BY <1>2, <1>3, <1>5 DEF evidence

\* The best run passes every check (HarnessKernel.verify).
LEMMA IdealPasses ==
  ASSUME NEW input, Promising(input)
  PROVE  \A check \in Checks(PlanFor(input), BestEvidence(input)) :
           check.passed /\ check.evidence_ids = {}
<1> DEFINE plan == PlanFor(input)
           evidence == BestEvidence(input)
           findings == Findings(evidence)
<1>1. /\ evidence.provenance_digest = plan.provenance_digest
      /\ evidence.runtime_backend = plan.runtime_backend
      /\ \E command \in evidence.commands : command.argv = plan.command
      /\ \E command \in evidence.commands : command.stdin_digest = plan.stdin_digest
      /\ evidence.captured = Captured(plan, input.runtime, Ideal(input))
      /\ evidence.assertions = Assertions(plan, input.runtime, Ideal(input))
  BY DEF BestEvidence, Evidence
<1>2. Gate(findings) = "pass" /\ EvidenceIds(findings) = {}
  BY IdealFindsNothing DEF Gate, EvidenceIds
<1>3. plan.required_evidence \subseteq evidence.captured
  BY <1>1, IdealCaptures, IdealRuns
<1>4. \A name \in DomainAssertions(plan.adapter) : name \in evidence.assertions
  BY <1>1, IdealAsserts, IdealRuns DEF AdapterAssertions
<1>5. \A verifier \in plan.manifest.verifiers : Passes(verifier, evidence)
  BY IdealSatisfies, IdealRuns
<1> HIDE DEF evidence, plan, findings
<1> SUFFICES ASSUME NEW check \in Checks(plan, evidence)
             PROVE  check.passed /\ check.evidence_ids = {}
  BY DEF plan, evidence
<1> DEFINE provenance == evidence.provenance_digest = plan.provenance_digest
           runtime == evidence.runtime_backend = plan.runtime_backend
           command1 == \E command \in evidence.commands : command.argv = plan.command
           gate == Gate(findings) = "pass"
<1>a. provenance /\ runtime /\ command1 /\ gate
  BY <1>1, <1>2
<1>b. ASSUME NEW id, NEW passed \in BOOLEAN, passed, check = Check(id, passed)
      PROVE  check.passed /\ check.evidence_ids = {}
  BY <1>b DEF Check
<1>6. CASE \/ check = Check(<<"provenance-continuity">>, provenance)
           \/ check = Check(<<"runtime-continuity">>, runtime)
           \/ check = Check(<<"command-continuity">>, command1)
           \/ check = [id |-> <<"security-gate">>, passed |-> gate, evidence_ids |-> EvidenceIds(findings)]
  <2>1. provenance \in BOOLEAN /\ runtime \in BOOLEAN /\ command1 \in BOOLEAN /\ gate \in BOOLEAN
    OBVIOUS
  <2> HIDE DEF provenance, runtime, command1, gate
  <2>2. CASE check = [id |-> <<"security-gate">>, passed |-> gate, evidence_ids |-> EvidenceIds(findings)]
    BY <1>2, <1>a, <2>2
  <2> QED BY <1>6, <1>a, <1>b, <2>1, <2>2
<1>7. CASE \E digest \in {plan.stdin_digest} \ {None} :
             check = Check(<<"input-continuity">>, \E command \in evidence.commands : command.stdin_digest = digest)
  BY <1>1, <1>7 DEF Check
<1>8. CASE \E kind \in plan.required_evidence : check = Check(<<"evidence", kind>>, EvidencePresent(evidence, kind))
  BY <1>3, <1>8 DEF Check, EvidencePresent
<1>9. CASE \E name \in DomainAssertions(plan.adapter) : check = Check(<<"domain", name>>, name \in evidence.assertions)
  <2>1. PICK name \in DomainAssertions(plan.adapter) : check = Check(<<"domain", name>>, name \in evidence.assertions)
    BY <1>9
  <2> DEFINE asserted == name \in evidence.assertions
  <2>2. asserted /\ asserted \in BOOLEAN /\ check = Check(<<"domain", name>>, asserted)
    BY <1>4, <2>1
  <2> HIDE DEF asserted
  <2> QED BY <1>b, <2>2
<1>10. CASE \E verifier \in plan.manifest.verifiers : check = Check(<<"check", verifier>>, Passes(verifier, evidence))
  BY <1>5, <1>10 DEF Check
<1> QED BY <1>6, <1>7, <1>8, <1>9, <1>10, Zenon DEF Checks, findings

\* One thing named five times is one thing.
LEMMA SameFive ==
  ASSUME NEW x
  PROVE  Cardinality({x, x, x, x, x}) = 1
<1>1. {x, x, x, x, x} = {x}
  OBVIOUS
<1> QED BY <1>1, FS_Singleton

\* Artifacts that are built together pass the validator of the bundle
\* (validate_cross_artifact_continuity).
LEMMA BuiltIsValid ==
  ASSUME NEW authority, NEW plan, NEW evidence, NEW verdict
  PROVE  ValidBundle(Bundle(authority, plan, evidence, verdict))
<1> DEFINE b == Bundle(authority, plan, evidence, verdict)
<1>1. /\ b.run_id = plan.run_id /\ b.authority = authority /\ b.plan = plan /\ b.evidence = evidence
      /\ b.verdict = verdict /\ b.graph = Graph(authority, plan, evidence, verdict)
      /\ b.replay = Replay(authority, plan, evidence) /\ b.trace = Trace(authority, plan, evidence, verdict)
      /\ b.scorecard = Scorecard(authority, plan, evidence, verdict)
  BY DEF Bundle
<1> HIDE DEF b
<1>2. /\ b.graph.run_id = plan.run_id /\ b.replay.run_id = plan.run_id /\ b.trace.run_id = plan.run_id
      /\ b.scorecard.run_id = plan.run_id
  BY <1>1 DEF Graph, Replay, Trace, Scorecard
<1>3. Cardinality({b.run_id, b.graph.run_id, b.replay.run_id, b.trace.run_id, b.scorecard.run_id}) = 1
  BY <1>1, <1>2, SameFive
<1>4. /\ b.authority = b.scorecard.authority /\ b.authority = b.replay.authority
      /\ b.plan = b.replay.plan /\ b.plan = b.trace.plan /\ b.plan = b.scorecard.plan
      /\ b.evidence = b.scorecard.evidence /\ b.verdict = b.scorecard.verdict
      /\ b.scorecard.replay_class = b.replay.replay_class
      /\ b.scorecard.runtime = b.replay.runtime
      /\ b.replay.runtime = Runtime(plan) /\ b.replay.provenance_digest = plan.provenance_digest
  BY <1>1 DEF Replay, Trace, Scorecard
<1>5. {<<"evaluator_authority", b.authority>>, <<"harness_plan", b.plan>>,
       <<"skill_provenance", b.replay.provenance_digest>>, <<"evidence_bundle", b.evidence>>,
       <<"harness_verdict", b.verdict>>, <<"runtime", b.replay.runtime>>} \subseteq b.graph.nodes
  <2> DEFINE graph == Graph(authority, plan, evidence, verdict)
  <2>1. {<<"evaluator_authority", authority>>, <<"harness_plan", plan>>,
         <<"skill_provenance", plan.provenance_digest>>, <<"runtime", Runtime(plan)>>,
         <<"evidence_bundle", evidence>>, <<"harness_verdict", verdict>>} \subseteq graph.nodes
    BY DEF Graph
  <2> HIDE DEF graph
  <2> QED BY <1>1, <1>4, <2>1 DEF graph
<1>6. {<<"authority_digest", b.authority>>, <<"plan_digest", b.plan>>,
       <<"evidence_digest", b.evidence>>, <<"verdict_digest", b.verdict>>} \subseteq b.trace.attributes
  BY <1>1 DEF Trace
<1>7. ValidBundle(b)
  BY <1>3, <1>4, <1>5, <1>6 DEF ValidBundle
<1> QED BY <1>7 DEF b

\* What compile has let through can be built and ranked, but for the exceptions
\* CompiledPlanCanPass names (HarnessKernel.compile, RunArtifactBuilder.build).
THEOREM CompiledPlansCanPass == Spec => []CompiledPlanCanPass
<1>1. ASSUME Stocked
      PROVE  CompiledPlanCanPass
  <2> SUFFICES ASSUME NEW run \in executed,
                      LET input == Inputs[run.input]
                      IN /\ ~Hopeless(input) /\ Immutable(input.spec.ref)
                         /\ input.manifest.required \cap BrowserArtifacts \subseteq input.manifest.artifacts
                         /\ \A verifier \in input.manifest.verifiers : ~Unmet(verifier, input)
               PROVE  LET input == Inputs[run.input]
                          plan == PlanOf(run.input)
                          evidence == Evidence(plan, input.runtime, Ideal(input))
                          verdict == Verify(plan, evidence)
                          authority == [id |-> "any", manifest |-> input.manifest]
                      IN /\ CanHappen(input.runtime, Ideal(input))
                         /\ Builds(authority, plan, evidence, verdict)
                         /\ Eligible(Scorecard(authority, plan, evidence, verdict))
    BY Zenon DEF CompiledPlanCanPass
  <2> DEFINE input == Inputs[run.input]
             plan == PlanFor(input)
             evidence == BestEvidence(input)
             verdict == Verify(plan, evidence)
             authority == [id |-> "any", manifest |-> input.manifest]
  <2>1. run.input \in DOMAIN Inputs /\ Compiles(input.manifest, input.spec, input.runtime)
    BY <1>1 DEF Stocked, TypeOK, Ran
  <2>2. Promising(input) /\ Immutable(input.spec.ref)
    BY <2>1, EvaluationAssumption DEF Promising
  <2>3. PlanOf(run.input) = plan /\ Evidence(plan, input.runtime, Ideal(input)) = evidence
    BY DEF PlanOf, PlanFor, BestEvidence
  <2> HIDE DEF input
  <2>4. \A check \in Checks(plan, evidence) : check.passed /\ check.evidence_ids = {}
    BY <2>2, IdealPasses
  <2>5. DOMAIN Findings(evidence) = {} /\ DOMAIN evidence.findings = {} /\ DOMAIN evidence.network = {}
    BY <2>2, IdealFindsNothing
  <2>6. input.manifest.required \subseteq evidence.captured
    BY <2>2, IdealCaptures DEF BestEvidence, Evidence
  <2>7. /\ plan.manifest = input.manifest /\ plan.run_spec = input.spec /\ plan.runtime_backend = input.spec.backend
        /\ plan.required_evidence = input.manifest.required
        /\ evidence.run_id = plan.run_id /\ evidence.provenance_digest = plan.provenance_digest
        /\ evidence.runtime_backend = plan.runtime_backend /\ authority.manifest = input.manifest
    BY DEF PlanFor, Plan, BestEvidence, Evidence
  <2>14. CanHappen(input.runtime, Ideal(input))
    BY <2>2, IdealRuns
  <2> HIDE DEF plan, evidence, authority
  <2>8. /\ verdict.run_id = plan.run_id /\ verdict.manifest = plan.manifest
        /\ verdict.provenance_digest = plan.provenance_digest /\ verdict.plan = plan
        /\ verdict.evidence = evidence /\ verdict.runtime_backend = plan.runtime_backend
        /\ verdict.failed_check_ids = FailedIds(verdict.checks)
        /\ verdict.checks = Checks(plan, evidence) /\ verdict.security_findings = Findings(evidence)
        /\ verdict.status = (IF verdict.failed_check_ids = {} THEN "pass" ELSE "fail")
        /\ verdict.security_gate = Gate(verdict.security_findings)
    BY DEF Verify
  <2> HIDE DEF verdict
  <2>9. verdict.failed_check_ids = {} /\ verdict.status = "pass" /\ verdict.security_gate = "pass"
    BY <2>4, <2>5, <2>8 DEF FailedIds, Gate
  <2>10. Continuous(authority, plan, evidence, verdict)
    BY <2>2, <2>7, <2>8, <2>9 DEF Continuous
  <2>11. GraphAccepts(evidence, verdict)
    <3>1. DOMAIN SourceIds(evidence) = {}
      BY <2>5 DEF SourceIds
    <3>2. IsInjective(SourceIds(evidence)) /\ IsInjective(verdict.security_findings)
      BY <2>5, <2>8, <3>1 DEF IsInjective
    <3>3. Unresolved(evidence, verdict) = {}
      BY <2>5, <2>8 DEF Unresolved
    <3>4. ~CitesTwice(verdict)
      BY <2>5, <2>8 DEF CitesTwice
    <3> QED BY <2>4, <2>8, <3>2, <3>3, <3>4 DEF GraphAccepts
  <2>12. Builds(authority, plan, evidence, verdict)
    BY <2>10, <2>11, BuiltIsValid DEF Builds
  <2>13. Eligible(Scorecard(authority, plan, evidence, verdict))
    <3>1. plan.required_evidence \cap evidence.captured = plan.required_evidence
      BY <2>6, <2>7
    <3>2. {check \in verdict.checks : check.passed} = verdict.checks
      BY <2>4, <2>8
    <3>3. Failures(plan, evidence, verdict) = {}
      BY <2>6, <2>7, <2>8, <2>9 DEF Failures
    <3> QED BY <2>9, <3>1, <3>2, <3>3 DEF Eligible, Scorecard
  <2> QED BY <2>3, <2>12, <2>13, <2>14 DEF verdict, authority, input
<1> QED BY <1>1, StockedAlways, PTL
=============================================================================
