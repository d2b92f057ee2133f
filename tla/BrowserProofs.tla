---------------------------- MODULE BrowserProofs ----------------------------
(***************************************************************************)
(* What holds of the browser runner for every contract and any number of   *)
(* runners, callbacks, kills and edits: type correctness, what a pass      *)
(* hides, whose the artifacts are and how many, and what the adapter makes *)
(* of the receipt.                                                         *)
(***************************************************************************)
EXTENDS BrowserRunner, FiniteSums, SequenceTheorems, TLAPS

-----------------------------------------------------------------------------
(* _ExecutionState                                                         *)

\* What was dropped from a log is an overflow, and an overflow is a violation.
Honest(s) ==
  /\ s.lost # 0 => s.overflow # {}
  /\ s.overflow \subseteq s.violations

\* An _ExecutionState within the limits of the contract.
Proper(s) == s \in States /\ InBudget(s)

\* From s to t nothing that speaks against a pass is forgotten.
Grows(s, t) ==
  /\ Proper(t)
  /\ s.violations \subseteq t.violations /\ s.overflow \subseteq t.overflow
  /\ "Denied" \in Range(s.network) => "Denied" \in Range(t.network)
  /\ Honest(s) => Honest(t)

\* Nothing is forgotten over two steps.
LEMMA GrowsTwice ==
  ASSUME NEW s, NEW t, NEW u, Grows(s, t), Grows(t, u)
  PROVE  Grows(s, u)
BY DEF Grows

\* No step at all forgets nothing.
LEMMA GrowsAlready ==
  ASSUME NEW s, Proper(s)
  PROVE  Grows(s, s)
BY DEF Grows

\* The limits of a contract are numbers.
LEMMA LimitsAreNumbers ==
  ASSUME contract \in Contracts
  PROVE  /\ contract.max_events \in Nat /\ contract.max_network_events \in Nat
         /\ contract.max_console_bytes \in Nat /\ contract.max_artifact_bytes \in Nat
         /\ contract.actions \in Seq(Range(contract.actions))
         /\ Len(contract.actions) \in Nat \ {0} /\ DOMAIN contract.actions = 1..Len(contract.actions)
<1>1. contract.actions \in Seq(Range(contract.actions)) /\ contract.actions # <<>>
  BY ContractsAssumption, FieldsAssumption DEF ValidContract
<1>2. Len(contract.actions) \in Nat \ {0} /\ DOMAIN contract.actions = 1..Len(contract.actions)
  BY <1>1, EmptySeq, LenProperties
<1> QED BY <1>1, <1>2, FieldsAssumption

\* A record that finds its log full is lost, and the log overflows.
LEMMA OverflowGrows ==
  ASSUME NEW s, Proper(s), NEW log \in Logs
  PROVE  /\ Grows(s, Overflow(s, log))
         /\ log \in Overflow(s, log).overflow
<1> DEFINE t == Overflow(s, log)
<1>1. /\ t = [s EXCEPT !.overflow = s.overflow \cup {log}, !.violations = s.violations \cup {log},
                       !.lost = s.lost + 1]
  BY DEF Overflow
<1> HIDE DEF t
<1>2. /\ t.overflow = s.overflow \cup {log} /\ t.violations = s.violations \cup {log}
      /\ t.network = s.network /\ t.asserted = s.asserted /\ t.events = s.events
      /\ t.console = s.console /\ t.lost = s.lost + 1 /\ t \in States
  <2>1. s \in States /\ s.lost + 1 \in Nat
    BY DEF Proper, InBudget, States
  <2>2. s.overflow \cup {log} \in SUBSET Logs /\ s.violations \cup {log} \in SUBSET ({"origin", "pages"} \cup Effects \cup Logs)
    BY <2>1 DEF States
  <2> QED BY <1>1, <2>1, <2>2 DEF States
<1>3. Proper(t)
  BY <1>2 DEF Proper, InBudget, States
<1> QED BY <1>2, <1>3 DEF Grows, Honest, Proper, InBudget, States, t

\* _ExecutionState.event
LEMMA EventGrows ==
  ASSUME contract \in Contracts, NEW s, Proper(s)
  PROVE  /\ Grows(s, Event(s))
         /\ Event(s).network = s.network
<1>1. CASE s.events < contract.max_events
  <2> DEFINE t == Event(s)
  <2>1. t = [s EXCEPT !.events = s.events + 1]
    BY <1>1 DEF Event
  <2> HIDE DEF t
  <2>2. /\ t \in States /\ t.violations = s.violations /\ t.overflow = s.overflow
        /\ t.network = s.network /\ t.lost = s.lost /\ t.asserted = s.asserted
        /\ t.events = s.events + 1 /\ t.console = s.console
    BY <2>1, SMTT(60) DEF Proper, InBudget, States
  <2>3. Proper(t)
    BY <1>1, <2>2, LimitsAreNumbers, SMTT(60) DEF Proper, InBudget, States
  <2> QED BY <2>2, <2>3 DEF Grows, Honest, t
<1>2. CASE ~(s.events < contract.max_events)
  <2>1. Event(s) = Overflow(s, "event") /\ Overflow(s, "event").network = s.network
    BY <1>2 DEF Event, Overflow, InBudget
  <2> QED BY <2>1, OverflowGrows DEF Logs
<1> QED BY <1>1, <1>2

\* _ExecutionState.network_event, and what it leaves of a denied request
LEMMA NetworkGrows ==
  ASSUME contract \in Contracts, NEW s, Proper(s), NEW event \in NetworkEvents
  PROVE  /\ Grows(s, Network(s, event))
         /\ event \in Range(Network(s, event).network) \/ "network" \in Network(s, event).overflow
<1>1. CASE Len(s.network) < contract.max_network_events
  <2> DEFINE t == Network(s, event)
  <2>1. t = [s EXCEPT !.network = Append(s.network, event)]
    BY <1>1 DEF Network
  <2> HIDE DEF t
  <2>2. /\ s.network \in Seq(NetworkEvents) /\ Append(s.network, event) \in Seq(NetworkEvents)
        /\ Len(Append(s.network, event)) = Len(s.network) + 1 /\ Len(s.network) \in Nat
    BY AppendProperties, LenProperties DEF Proper, InBudget, States
  <2>3. /\ Range(s.network) \subseteq Range(Append(s.network, event))
        /\ event \in Range(Append(s.network, event))
    BY <2>2, AppendProperties DEF Range
  <2>4. /\ t.violations = s.violations /\ t.overflow = s.overflow /\ t.events = s.events
        /\ t.network = Append(s.network, event) /\ t.console = s.console
        /\ t.lost = s.lost /\ t.asserted = s.asserted
    BY <2>1 DEF Proper, InBudget, States
  <2>5. Proper(t)
    <3>1. Len(t.network) <= contract.max_network_events
      BY <1>1, <2>2, <2>4, LimitsAreNumbers
    <3> QED BY <2>1, <2>2, <2>4, <3>1 DEF Proper, InBudget, States
  <2> QED BY <2>3, <2>4, <2>5 DEF Grows, Honest, t
<1>2. CASE ~(Len(s.network) < contract.max_network_events)
  <2>1. Network(s, event) = Overflow(s, "network")
    BY <1>2 DEF Network
  <2> QED BY <2>1, OverflowGrows DEF Logs
<1> QED BY <1>1, <1>2

\* _ExecutionState.console_event
LEMMA ConsoleGrows ==
  ASSUME contract \in Contracts, NEW s, Proper(s), NEW bytes \in Nat
  PROVE  Grows(s, Console(s, bytes))
<1>1. CASE s.console + bytes <= contract.max_console_bytes
  <2> DEFINE t == Console(s, bytes)
  <2>1. t = [s EXCEPT !.console = s.console + bytes]
    BY <1>1 DEF Console
  <2> HIDE DEF t
  <2>2. /\ t \in States /\ t.violations = s.violations /\ t.overflow = s.overflow
        /\ t.network = s.network /\ t.lost = s.lost /\ t.asserted = s.asserted
        /\ t.events = s.events /\ t.console = s.console + bytes
    <3>1. s \in States /\ s.console + bytes \in Nat
      BY DEF Proper, InBudget, States
    <3> QED BY <2>1, <3>1 DEF States
  <2>3. Proper(t)
    BY <1>1, <2>2, LimitsAreNumbers DEF Proper, InBudget, States
  <2> QED BY <2>2, <2>3 DEF Grows, Honest, t
<1>2. CASE ~(s.console + bytes <= contract.max_console_bytes)
  <2>1. Console(s, bytes) = Overflow(s, "console")
    BY <1>2 DEF Console
  <2> QED BY <2>1, OverflowGrows DEF Logs
<1> QED BY <1>1, <1>2

\* _ExecutionState.violation
LEMMA ViolationGrows ==
  ASSUME contract \in Contracts, NEW s, Proper(s), NEW value \in {"origin", "pages"} \cup Effects
  PROVE  /\ Grows(s, Violation(s, value))
         /\ value \in Violation(s, value).violations
         /\ Violation(s, value).network = s.network
<1> DEFINE t == [s EXCEPT !.violations = s.violations \cup {value}]
<1>1. /\ t.violations = s.violations \cup {value} /\ t.overflow = s.overflow /\ t.network = s.network
      /\ t.lost = s.lost /\ t.asserted = s.asserted /\ Proper(t)
  BY DEF Proper, InBudget, States
<1>2. Violation(s, value) = Event(t)
  BY DEF Violation
<1> HIDE DEF t
<1>3. Grows(s, t)
  BY <1>1 DEF Grows, Honest
<1>4. Grows(t, Event(t)) /\ Event(t).network = t.network
  BY <1>1, EventGrows
<1>5. value \in Event(t).violations
  BY <1>1, <1>4 DEF Grows
<1> QED BY <1>1, <1>2, <1>3, <1>4, <1>5, GrowsTwice

\* attach_page, and the count of the pages
LEMMA PagesGrow ==
  ASSUME contract \in Contracts, NEW s, Proper(s)
  PROVE  Grows(s, Attach(s)) /\ Grows(s, Counted(s))
<1>1. Grows(s, Attach(s))
  <2> DEFINE t == [s EXCEPT !.pages = s.pages + 1]
  <2>1. /\ t.violations = s.violations /\ t.overflow = s.overflow /\ t.network = s.network
        /\ t.lost = s.lost /\ t.asserted = s.asserted /\ Proper(t)
    BY DEF Proper, InBudget, States
  <2>2. Attach(s) = Event(t)
    BY DEF Attach
  <2> HIDE DEF t
  <2>3. Grows(s, t)
    BY <2>1 DEF Grows, Honest
  <2> QED BY <2>1, <2>2, <2>3, EventGrows, GrowsTwice
<1>2. Grows(s, Counted(s))
  <2> DEFINE t == Counted(s)
  <2>1. t = [s EXCEPT !.page_count = s.pages]
    BY DEF Counted
  <2> HIDE DEF t
  <2>2. /\ t.violations = s.violations /\ t.overflow = s.overflow /\ t.network = s.network
        /\ t.lost = s.lost /\ t.asserted = s.asserted /\ Proper(t)
    BY <2>1 DEF Proper, InBudget, States
  <2> QED BY <2>2 DEF Grows, Honest, t
<1> QED BY <1>1, <1>2

\* An event too many is an overflow of the events only.
LEMMA EventOverflows ==
  ASSUME NEW s \in States
  PROVE  Event(s).overflow \subseteq s.overflow \cup {"event"}
<1>1. [s EXCEPT !.events = s.events + 1].overflow = s.overflow
  BY DEF States
<1>2. Overflow(s, "event").overflow = s.overflow \cup {"event"}
  BY DEF Overflow, States
<1> QED BY <1>1, <1>2 DEF Event

\* What was asserted is changed by the outcome of an action only.
LEMMA AssertedKept ==
  ASSUME contract \in Contracts, NEW s, Proper(s)
  PROVE  /\ Event(s).asserted = s.asserted
         /\ \A event \in NetworkEvents : Network(s, event).asserted = s.asserted
         /\ Console(s, 1).asserted = s.asserted
         /\ \A value \in {"origin", "pages"} \cup Effects : Violation(s, value).asserted = s.asserted
         /\ Attach(s).asserted = s.asserted /\ Counted(s).asserted = s.asserted
<1>1. \A t \in States, log \in Logs : Overflow(t, log).asserted = t.asserted
  BY DEF Overflow, States
<1>2. \A t \in States : Event(t).asserted = t.asserted
  <2> SUFFICES ASSUME NEW t \in States
               PROVE  Event(t).asserted = t.asserted
    OBVIOUS
  <2>1. [t EXCEPT !.events = t.events + 1].asserted = t.asserted
    BY DEF States
  <2> QED BY <1>1, <2>1 DEF Event, Logs
<1>3. \A event \in NetworkEvents : Network(s, event).asserted = s.asserted
  <2>1. \A log : [s EXCEPT !.network = log].asserted = s.asserted
    BY DEF Proper, States
  <2> QED BY <1>1, <2>1 DEF Network, Logs, Proper
<1>4. Console(s, 1).asserted = s.asserted
  <2>1. [s EXCEPT !.console = s.console + 1].asserted = s.asserted
    BY DEF Proper, States
  <2> QED BY <1>1, <2>1 DEF Console, Logs, Proper
<1>5. \A value \in {"origin", "pages"} \cup Effects : Violation(s, value).asserted = s.asserted
  <2> SUFFICES ASSUME NEW value \in {"origin", "pages"} \cup Effects
               PROVE  Violation(s, value).asserted = s.asserted
    OBVIOUS
  <2> DEFINE t == [s EXCEPT !.violations = s.violations \cup {value}]
  <2>1. t \in States /\ t.asserted = s.asserted
    BY DEF Proper, States
  <2>2. Violation(s, value) = Event(t)
    BY DEF Violation
  <2> HIDE DEF t
  <2> QED BY <1>2, <2>1, <2>2
<1>6. Attach(s).asserted = s.asserted
  <2> DEFINE t == [s EXCEPT !.pages = s.pages + 1]
  <2>1. t \in States /\ t.asserted = s.asserted
    BY DEF Proper, States
  <2>2. Attach(s) = Event(t)
    BY DEF Attach
  <2> HIDE DEF t
  <2> QED BY <1>2, <2>1, <2>2
<1>7. Counted(s).asserted = s.asserted
  BY DEF Counted, Proper, States
<1> QED BY <1>2, <1>3, <1>4, <1>5, <1>6, <1>7 DEF Proper

\* The history knows of nothing that is not on record.
Known(events, s) ==
  /\ events \ {"foreign"} \subseteq s.violations
  /\ "foreign" \in events =>
       "origin" \in s.violations /\ ("Denied" \in Range(s.network) \/ "network" \in s.overflow)

\* What is on record stays there.
LEMMA KnownGrows ==
  ASSUME NEW events, NEW new, NEW s, NEW t, Known(events, s), Grows(s, t), Known(new, t)
  PROVE  Known(events \cup new, t)
BY DEF Known, Grows

\* route_handler records what it denies.
LEMMA RouteGrows ==
  ASSUME contract \in Contracts, NEW s, Proper(s), NEW origin \in {"allowed", "foreign"}
  PROVE  /\ Grows(s, Route(s, origin)) /\ Known({origin} \cap {"foreign"}, Route(s, origin))
         /\ Route(s, origin).asserted = s.asserted
<1>1. CASE origin = "foreign"
  <2> DEFINE t == Network(s, "Denied")
             u == Violation(t, "origin")
  <2>1. Route(s, origin) = u
    BY <1>1 DEF Route
  <2>2. Grows(s, t) /\ ("Denied" \in Range(t.network) \/ "network" \in t.overflow) /\ t.asserted = s.asserted
    BY NetworkGrows, AssertedKept DEF NetworkEvents
  <2> HIDE DEF t
  <2>3. Grows(t, u) /\ "origin" \in u.violations /\ u.asserted = t.asserted
    BY <2>2, ViolationGrows, AssertedKept DEF Grows
  <2> HIDE DEF u
  <2>4. Known({"foreign"}, u)
    BY <2>2, <2>3 DEF Known, Grows
  <2>5. {origin} \cap {"foreign"} = {"foreign"}
    BY <1>1
  <2> QED BY <2>1, <2>2, <2>3, <2>4, <2>5, GrowsTwice
<1>2. CASE origin = "allowed"
  <2>1. Route(s, origin) = Network(s, "Allowed") /\ {origin} \cap {"foreign"} = {}
    BY <1>2 DEF Route
  <2>2. Known({}, Network(s, "Allowed"))
    BY DEF Known
  <2> QED BY <2>1, <2>2, NetworkGrows, AssertedKept DEF NetworkEvents
<1> QED BY <1>1, <1>2

\* on_new_page, on_dialog and on_download record what was not expected.
LEMMA EffectGrows ==
  ASSUME contract \in Contracts, NEW s, Proper(s), NEW effect \in Effects, NEW expected \in BOOLEAN,
         NEW t, t = IF effect = "popup" THEN NewPage(s, expected) ELSE Undeclared(s, effect, expected)
  PROVE  /\ Grows(s, t) /\ t.asserted = s.asserted
         /\ ~expected => effect \in t.violations
<1> DEFINE u == IF effect = "popup" THEN Attach(s) ELSE Event(s)
<1>1. Grows(s, u) /\ u.asserted = s.asserted
  BY PagesGrow, EventGrows, AssertedKept
<1>2. t = IF expected THEN u ELSE Violation(u, effect)
  BY DEF NewPage, Undeclared
<1> HIDE DEF u
<1>3. Grows(u, Violation(u, effect)) /\ effect \in Violation(u, effect).violations
      /\ Violation(u, effect).asserted = u.asserted
  BY <1>1, ViolationGrows, AssertedKept DEF Grows
<1> QED BY <1>1, <1>2, <1>3, GrowsTwice

\* Too many pages are on record.
LEMMA OverrunGrows ==
  ASSUME contract \in Contracts, NEW s, Proper(s)
  PROVE  /\ Grows(s, Overrun(s)) /\ Overrun(s).asserted = s.asserted
         /\ Overrun(s).overflow \subseteq s.overflow \cup {"event"}
         /\ s.pages > contract.max_pages => "pages" \in Overrun(s).violations
         /\ ~(s.pages > contract.max_pages) => Overrun(s) = s
<1>1. CASE s.pages > contract.max_pages
  <2> DEFINE t == [s EXCEPT !.violations = s.violations \cup {"pages"}]
  <2>1. Overrun(s) = Violation(s, "pages") /\ Violation(s, "pages") = Event(t)
    BY <1>1 DEF Overrun, Violation
  <2>2. t \in States /\ t.overflow = s.overflow
    BY DEF Proper, States
  <2> HIDE DEF t
  <2> QED BY <1>1, <2>1, <2>2, ViolationGrows, AssertedKept, EventOverflows
<1>2. CASE ~(s.pages > contract.max_pages)
  BY <1>2, GrowsAlready DEF Overrun
<1> QED BY <1>1, <1>2

-----------------------------------------------------------------------------
(* Types                                                                   *)

Early == {"idle", "root", "mkdir", "launch"}
Acting == {"action", "expect"}
Finishing == {"final", "dom", "aria", "shot", "close"}

\* A capture at the end, and a text, have the path of their kind.
Named(a) == Closing(a) \/ a.kind \in {"dom", "aria"} => a.path = <<"final", a.kind>>

\* What a runner is saving is one of the captures at the end, or belongs to an action.
Saving(r) ==
  /\ pending[r] \in Artifacts /\ pending[r].content.by = r /\ Named(pending[r]) /\ ~error[r]
  /\ Closing(pending[r]) =>
       index[r] = Len(contract.actions) + 1 /\ pending[r].kind \in {"dom", "aria", "screenshot"}
  /\ ~Closing(pending[r]) => index[r] <= Len(contract.actions)

\* Where a runner is in its plan, and whether it may have failed.
At(r) ==
  /\ pc[r] \in Early => index[r] = 1
  /\ pc[r] \in Acting => index[r] <= Len(contract.actions)
  /\ pc[r] \in Finishing \/ (pc[r] \in {"report", "exited"} /\ ~error[r]) =>
       index[r] = Len(contract.actions) + 1
  /\ pc[r] \in Early \cup Acting \cup Finishing => ~error[r]
  /\ pc[r] = "caught" => error[r]
  /\ pc[r] = "expect" =>
       Action(r).kind = "click" /\ window[r] = Action(r).expect /\ window[r] \in Effects
  /\ pc[r] = "register" => Saving(r)

\* And what of it was done.
Placed(r) == At(r) /\ state[r].asserted + 1 = index[r]

Typed == TypeOK /\ \A r \in Runners : Placed(r)

Steps(r) == Start(r) \/ Run(r) \/ Callback(r) \/ Hang(r) \/ Kill(r) \/ Normalize(r)

\* Every state record is within the limits.
LEMMA StateProper ==
  ASSUME Typed, NEW r \in Runners
  PROVE  contract \in Contracts /\ Proper(state[r])
BY DEF Typed, TypeOK, Proper

\* What a step makes of the _ExecutionState: nothing is forgotten, and what the history
\* adds is on record.
Notes(r) ==
  \E t, new :
    /\ state' = Set(state, r, t) /\ Grows(state[r], t)
    /\ t.asserted + index[r] = state[r].asserted + index'[r]
    /\ new \subseteq Effects \cup {"foreign"}
    /\ happened' = Set(happened, r, happened[r] \cup new) /\ Known(new, t)

\* A step that leaves state, index and history alone.
LEMMA NotesNothing ==
  ASSUME Typed, NEW r \in Runners, UNCHANGED <<state, index, happened>>
  PROVE  Notes(r)
<1>1. state' = Set(state, r, state[r]) /\ happened' = Set(happened, r, happened[r] \cup {})
  BY DEF Typed, TypeOK, Set
<1>2. Grows(state[r], state[r]) /\ Known({}, state[r])
  BY StateProper, GrowsAlready DEF Known
<1>3. index' = index /\ {} \subseteq Effects \cup {"foreign"}
  OBVIOUS
<1> QED BY <1>1, <1>2, <1>3 DEF Notes

\* A step that makes a new state, and leaves index and history alone.
LEMMA NotesState ==
  ASSUME Typed, NEW r \in Runners, UNCHANGED <<index, happened>>, NEW t,
         state' = Set(state, r, t), Grows(state[r], t), t.asserted = state[r].asserted
  PROVE  Notes(r)
<1>1. happened' = Set(happened, r, happened[r] \cup {}) /\ Known({}, t)
  BY DEF Typed, TypeOK, Set, Known
<1>2. {} \subseteq Effects \cup {"foreign"}
  OBVIOUS
<1> QED BY <1>1, <1>2 DEF Notes

\* The outcome of an action.
LEMMA NotesOutcome ==
  ASSUME Typed, NEW r \in Runners, NEW s, Grows(state[r], s), s.asserted = state[r].asserted,
         NEW passed \in BOOLEAN, ActionEnds(r, s, passed)
  PROVE  Notes(r)
<1> DEFINE u == IF passed THEN [s EXCEPT !.asserted = s.asserted + 1] ELSE [s EXCEPT !.failed = TRUE]
<1>1. s \in States /\ InBudget(s) /\ contract \in Contracts
  BY DEF Grows, Proper, Typed, TypeOK
<1>2. /\ u \in States /\ u.violations = s.violations /\ u.overflow = s.overflow
      /\ u.network = s.network /\ u.lost = s.lost /\ u.events = s.events /\ u.console = s.console
      /\ u.asserted = s.asserted + (IF passed THEN 1 ELSE 0)
  <2>1. s.asserted \in Nat /\ s.asserted + 1 \in Nat /\ s.asserted + 0 = s.asserted
    BY <1>1 DEF States
  <2> HIDE DEF u
  <2>2. CASE passed
    <3>1. u = [s EXCEPT !.asserted = s.asserted + 1]
      BY <2>2 DEF u
    <3> QED BY <1>1, <2>1, <2>2, <3>1 DEF States
  <2>3. CASE ~passed
    <3>1. u = [s EXCEPT !.failed = TRUE]
      BY <2>3 DEF u
    <3> QED BY <1>1, <2>1, <2>3, <3>1 DEF States
  <2> QED BY <2>2, <2>3
<1>3. state' = Set(state, r, Event(u))
  BY DEF ActionEnds
<1> HIDE DEF u
<1>4. Grows(s, u)
  BY <1>1, <1>2 DEF Grows, Proper, InBudget, Honest
<1>5. Grows(u, Event(u)) /\ Event(u).asserted = u.asserted
  BY <1>1, <1>4, EventGrows, AssertedKept DEF Grows
<1>6. Grows(state[r], Event(u))
  BY <1>4, <1>5, GrowsTwice
<1>7. Event(u).asserted + index[r] = state[r].asserted + index'[r]
  <2>1. s.asserted \in Nat /\ index[r] \in Nat /\ index \in [Runners -> Int]
    <3>1. s.asserted \in Nat
      BY <1>1 DEF States
    <3>2. 1..(Len(contract.actions) + 1) \subseteq Nat
      BY <1>1, LimitsAreNumbers
    <3>3. index \in [Runners -> Nat]
      BY <3>2 DEF Typed, TypeOK
    <3> QED BY <3>1, <3>3
  <2>2. index'[r] = index[r] + (IF passed THEN 1 ELSE 0)
    BY <2>1 DEF ActionEnds
  <2> QED BY <1>2, <1>5, <2>1, <2>2
<1>8. /\ happened' = Set(happened, r, happened[r] \cup {}) /\ Known({}, Event(u))
      /\ {} \subseteq Effects \cup {"foreign"}
  BY DEF ActionEnds, Typed, TypeOK, Set, Known
<1> QED BY <1>3, <1>6, <1>7, <1>8 DEF Notes

\* A callback is recorded.
LEMMA NotesCallback ==
  ASSUME Typed, NEW r \in Runners, Callback(r)
  PROVE  Notes(r)
<1>1. contract \in Contracts /\ Proper(state[r])
  BY StateProper
<1>2. CASE RequestCallback(r)
  <2>1. PICK origin \in {"allowed", "foreign"} :
          /\ Calls(r) /\ state' = Set(state, r, Route(state[r], origin))
          /\ Did(r, {origin} \cap {"foreign"})
    BY <1>2 DEF RequestCallback
  <2>2. happened' = Set(happened, r, happened[r] \cup ({origin} \cap {"foreign"})) /\ index' = index
    BY <2>1 DEF Did, Set, Calls
  <2>3. {origin} \cap {"foreign"} \subseteq Effects \cup {"foreign"}
    OBVIOUS
  <2> QED BY <1>1, <2>1, <2>2, <2>3, RouteGrows DEF Notes
<1>3. CASE ResponseCallback(r)
  <2>1. "Observed" \in NetworkEvents
    BY DEF NetworkEvents
  <2> QED BY <1>1, <1>3, <2>1, NetworkGrows, AssertedKept, NotesState DEF ResponseCallback, Calls
<1>4. CASE ConsoleCallback(r)
  BY <1>1, <1>4, ConsoleGrows, AssertedKept, NotesState DEF ConsoleCallback, Calls
<1>5. CASE EffectCallback(r)
  <2>1. PICK effect \in Effects :
          /\ Calls(r)
          /\ state' = Set(state, r,
               IF effect = "popup" THEN NewPage(state[r], window[r] = effect)
               ELSE Undeclared(state[r], effect, window[r] = effect))
          /\ Did(r, {effect} \ {window[r]})
    BY <1>5 DEF EffectCallback
  <2> DEFINE expected == window[r] = effect
             t == IF effect = "popup" THEN NewPage(state[r], expected)
                  ELSE Undeclared(state[r], effect, expected)
  <2>2. state' = Set(state, r, t) /\ expected \in BOOLEAN
    BY <2>1
  <2> HIDE DEF expected
  <2>3. Grows(state[r], t) /\ t.asserted = state[r].asserted /\ (~expected => effect \in t.violations)
    BY <1>1, <2>2, EffectGrows
  <2> HIDE DEF t
  <2>4. happened' = Set(happened, r, happened[r] \cup ({effect} \ {window[r]})) /\ index' = index
    BY <2>1 DEF Did, Set, Calls
  <2>5. {effect} \ {window[r]} \subseteq Effects \cup {"foreign"}
    OBVIOUS
  <2>6. Known({effect} \ {window[r]}, t)
    BY <2>3 DEF Known, expected, Effects
  <2> QED BY <2>2, <2>3, <2>4, <2>5, <2>6 DEF Notes
<1>6. CASE Navigate(r)
  BY <1>6, NotesNothing DEF Navigate, Calls
<1> QED BY <1>2, <1>3, <1>4, <1>5, <1>6 DEF Callback

\* Every step of a runner keeps what is on record.
LEMMA NotesAlways ==
  ASSUME Typed, NEW r \in Runners, Steps(r)
  PROVE  Notes(r)
<1>1. contract \in Contracts /\ Proper(state[r]) /\ Grows(state[r], state[r])
  BY StateProper, GrowsAlready
<1>2. CASE Start(r) \/ CheckRoot(r) \/ MakeRoot(r) \/ Expect(r) \/ CaptureDom(r) \/ CaptureAria(r)
           \/ Hang(r) \/ Kill(r) \/ Normalize(r)
  <2>1. UNCHANGED <<state, index, happened>>
    BY <1>2 DEF Start, CheckRoot, MakeRoot, Expect, CaptureDom, CaptureAria, Capture, Hang,
                Kill, Normalize, runner
  <2> QED BY <2>1, NotesNothing
<1>3. CASE Launch(r)
  <2>1. UNCHANGED <<index, happened>>
    BY <1>3 DEF Launch
  <2>2. state' = state \/ state' = Set(state, r, Attach(state[r]))
    BY <1>3 DEF Launch
  <2> QED BY <1>1, <2>1, <2>2, PagesGrow, AssertedKept, NotesState, NotesNothing
<1>4. CASE Perform(r) \/ TakeScreenshot(r) \/ ExpectFails(r) \/ SaveDownload(r) \/ SaveEnds(r)
  <2>1. CASE \E passed \in BOOLEAN : ActionEnds(r, state[r], passed)
    BY <1>1, <2>1, NotesOutcome
  <2>2. CASE \E a : BeginSave(r, a)
    BY <2>2, NotesNothing DEF BeginSave
  <2>3. SaveEnds(r) => \E passed \in BOOLEAN : ActionEnds(r, state[r], passed)
    <3> SUFFICES ASSUME SaveEnds(r)
                 PROVE  \E passed \in BOOLEAN : ActionEnds(r, state[r], passed)
      OBVIOUS
    <3> DEFINE small == pending[r].kind = "download" => pending[r].content.bytes <= contract.max_download_bytes
    <3>1. small \in BOOLEAN /\ (ActionEnds(r, state[r], small) \/ ActionEnds(r, state[r], FALSE))
      BY DEF SaveEnds
    <3> HIDE DEF small
    <3> QED BY <3>1
  <2> QED BY <1>4, <2>1, <2>2, <2>3 DEF Perform, TakeScreenshot, ExpectFails, SaveDownload
<1>5. CASE ExpectedSeen(r)
  <2>1. ActionEnds(r, state[r], TRUE) \/ ActionEnds(r, Violation(state[r], "origin"), TRUE)
    BY <1>5 DEF ExpectedSeen
  <2> QED BY <1>1, <2>1, ViolationGrows, AssertedKept, NotesOutcome
<1>6. CASE Final(r)
  <2>1. UNCHANGED <<index, happened>>
    BY <1>6 DEF Final
  <2>2. \/ state' = state \/ state' = Set(state, r, state[r])
        \/ state' = Set(state, r, Violation(state[r], "origin"))
    BY <1>6 DEF Final
  <2> QED BY <1>1, <2>1, <2>2, ViolationGrows, AssertedKept, NotesState, NotesNothing
<1>7. CASE CaptureShot(r) \/ CaptureEnds(r) \/ Caught(r) \/ Close(r)
  <2>1. UNCHANGED <<index, happened>> /\ (state' = state \/ state' = Set(state, r, Counted(state[r])))
    BY <1>7 DEF CaptureShot, Capture, CaptureEnds, Caught, Close
  <2> QED BY <1>1, <2>1, PagesGrow, AssertedKept, NotesState, NotesNothing
<1>8. CASE Report(r)
  <2>1. UNCHANGED <<index, happened>> /\ state' = Set(state, r, Overrun(state[r]))
    BY <1>8 DEF Report
  <2> QED BY <1>1, <2>1, OverrunGrows, NotesState
<1> QED BY <1>2, <1>3, <1>4, <1>5, <1>6, <1>7, <1>8, NotesCallback DEF Steps, Run

\* What a write leaves to be registered.
Begins(r, a) ==
  /\ a \in Artifacts /\ a.content.by = r /\ Named(a)
  /\ Closing(a) => pc[r] \in Finishing /\ a.kind \in {"dom", "aria", "screenshot"}
  /\ ~Closing(a) => pc[r] \in Acting

\* A step begins to write one file at most, of this contract and this runner.
Writes(r) == \E a : Begins(r, a) /\ Write(r, a) /\ UNCHANGED <<store, index, window, error>>

\* What was written is registered, or it ends the plan.
Settles(r) ==
  /\ SaveEnds(r) \/ CaptureEnds(r)
  /\ pc[r] = "register" /\ (Register(r) \/ (RegisterFails(r) /\ error'[r]))

\* The files are changed in no other way.
LEMMA SavesOnly ==
  ASSUME Typed, NEW r \in Runners, Steps(r)
  PROVE  UNCHANGED <<store, disk, pending>> \/ Writes(r) \/ Settles(r)
<1>1. /\ contract \in Contracts /\ error \in [Runners -> BOOLEAN]
      /\ index[r] \in Nat \ {0} /\ At(r)
  <2>1. 1..(Len(contract.actions) + 1) \subseteq Nat \ {0}
    BY LimitsAreNumbers DEF Typed, TypeOK
  <2> QED BY <2>1 DEF Typed, TypeOK, Placed
<1>2. ASSUME pc[r] \in Acting
      PROVE  Action(r) \in Planned(Action(r).kind)
  <2>1. index[r] \in DOMAIN contract.actions
    BY <1>1, <1>2, LimitsAreNumbers DEF At
  <2> QED BY <2>1 DEF Action, Planned
<1>3. ASSUME NEW a, Begins(r, a), BeginSave(r, a)
      PROVE  Writes(r)
  BY <1>3 DEF Writes, BeginSave
<1>4. CASE TakeScreenshot(r)
  <2>1. pc[r] = "action" /\ Action(r).kind = "screenshot"
    BY <1>4 DEF TakeScreenshot
  <2> DEFINE a(bytes) == Artifact("screenshot", <<"screenshots", Action(r).name[1]>>, Content(r, bytes))
  <2>2. UNCHANGED <<store, pending, disk>> \/ \E bytes \in Sizes : BeginSave(r, a(bytes))
    BY <1>4 DEF TakeScreenshot
  <2>3. <<"screenshots", Action(r).name[1]>> \in Paths
    BY <1>2, <2>1 DEF Paths, Acting
  <2>4. ASSUME NEW bytes \in Sizes
        PROVE  Begins(r, a(bytes))
    <3>1. /\ a(bytes) \in Artifacts /\ a(bytes).content.by = r /\ a(bytes).kind = "screenshot"
          /\ ~Closing(a(bytes))
      BY <2>3 DEF Artifact, Content, Artifacts, Closing
    <3> HIDE DEF a
    <3> QED BY <2>1, <3>1 DEF Begins, Named, Acting
  <2> HIDE DEF a
  <2> QED BY <1>3, <2>2, <2>4
<1>5. CASE SaveDownload(r)
  <2>1. pc[r] = "expect" /\ Action(r).kind = "click"
    BY <1>1, <1>5 DEF SaveDownload, At
  <2> DEFINE a(bytes) == Artifact("download", <<"downloads", Action(r).name>>, Content(r, bytes))
  <2>2. \E bytes \in Sizes : BeginSave(r, a(bytes))
    BY <1>5 DEF SaveDownload
  <2>3. <<"downloads", Action(r).name>> \in Paths
    BY <1>2, <2>1 DEF Paths, Acting
  <2>4. ASSUME NEW bytes \in Sizes
        PROVE  Begins(r, a(bytes))
    <3>1. /\ a(bytes) \in Artifacts /\ a(bytes).content.by = r /\ a(bytes).kind = "download"
          /\ ~Closing(a(bytes))
      BY <2>3 DEF Artifact, Content, Artifacts, Closing
    <3> HIDE DEF a
    <3> QED BY <2>1, <3>1 DEF Begins, Named, Acting
  <2> HIDE DEF a
  <2> QED BY <1>3, <2>2, <2>4
<1>6. ASSUME NEW from \in Finishing, NEW to, NEW kind \in {"dom", "aria", "screenshot"},
             NEW wanted, NEW limit, Capture(r, from, to, kind, wanted, limit)
      PROVE  UNCHANGED <<store, disk, pending>> \/ Writes(r)
  <2> DEFINE a(bytes) == Artifact(kind, <<"final", kind>>, Content(r, bytes))
  <2>1. \/ UNCHANGED <<store, disk, pending>>
        \/ \E bytes \in Sizes : Write(r, a(bytes)) /\ UNCHANGED <<store, index, window, error>>
    BY <1>6 DEF Capture
  <2>2. <<"final", kind>> \in Paths
    BY DEF Paths
  <2>3. ASSUME NEW bytes \in Sizes
        PROVE  Begins(r, a(bytes))
    <3>1. /\ a(bytes) \in Artifacts /\ a(bytes).content.by = r /\ a(bytes).kind = kind
          /\ a(bytes).path = <<"final", kind>> /\ Closing(a(bytes))
      BY <2>2 DEF Artifact, Content, Artifacts, Closing
    <3>2. pc[r] \in Finishing
      BY <1>6 DEF Capture
    <3> HIDE DEF a
    <3> QED BY <3>1, <3>2 DEF Begins, Named
  <2> HIDE DEF a
  <2> QED BY <2>1, <2>3 DEF Writes
<1>7. CASE CaptureDom(r) \/ CaptureAria(r) \/ CaptureShot(r)
  BY <1>6, <1>7 DEF CaptureDom, CaptureAria, CaptureShot, Finishing
<1>8. CASE SaveEnds(r)
  <2>1. ActionEnds(r, state[r], FALSE) => error'[r]
    BY <1>1 DEF ActionEnds, Raise, Set
  <2>2. pc[r] = "register" /\ (Register(r) \/ (RegisterFails(r) /\ ActionEnds(r, state[r], FALSE)))
    BY <1>8 DEF SaveEnds
  <2> QED BY <1>8, <2>1, <2>2 DEF Settles
<1>9. CASE CaptureEnds(r)
  BY <1>1, <1>9 DEF CaptureEnds, Settles, Raise, Set
<1>10. CASE Start(r) \/ CheckRoot(r) \/ MakeRoot(r) \/ Launch(r) \/ Perform(r) \/ Expect(r)
           \/ ExpectFails(r) \/ ExpectedSeen(r) \/ Final(r) \/ Caught(r) \/ Close(r) \/ Report(r)
           \/ Callback(r) \/ Hang(r) \/ Kill(r) \/ Normalize(r)
  BY <1>10 DEF Start, CheckRoot, MakeRoot, Launch, Perform, Expect, ExpectFails, ExpectedSeen, Final,
              Caught, Close, Report, Hang, Kill, Normalize, Callback, RequestCallback, ResponseCallback,
              ConsoleCallback, EffectCallback, Navigate, Calls, runner, shared
<1> QED BY <1>4, <1>5, <1>7, <1>8, <1>9, <1>10 DEF Steps, Run

\* A step of a runner touches no other runner's place in its plan.
Elsewhere(r) ==
  \A q \in Runners \ {r} :
    /\ pc'[q] = pc[q] /\ index'[q] = index[q] /\ window'[q] = window[q] /\ error'[q] = error[q]

\* Where a runner is, and the kinds of what it knows of its page.
LocalOK ==
  /\ pc \in [Runners -> {"idle"} \cup Running \cup Ended]
  /\ browser \in [Runners -> {"none", "open", "closed", "left"}]
  /\ page \in [Runners -> {"allowed", "blank", "invalid"}]
  /\ index \in [Runners -> Nat \ {0}]
  /\ window \in [Runners -> Effects \cup {None}]
  /\ observed \in [Runners -> BOOLEAN] /\ error \in [Runners -> BOOLEAN]

\* TypeOK has it.
LEMMA LocalTyped ==
  ASSUME Typed
  PROVE  LocalOK
<1>1. 1..(Len(contract.actions) + 1) \subseteq Nat \ {0}
  BY LimitsAreNumbers DEF Typed, TypeOK
<1> QED BY <1>1 DEF LocalOK, Typed, TypeOK

\* Nor its artifacts.
LEMMA PendingElsewhere ==
  ASSUME Typed, NEW r \in Runners, Steps(r), NEW q \in Runners \ {r}
  PROVE  pending'[q] = pending[q] /\ store'[q] = store[q]
<1>1. pending \in [Runners -> Artifacts \cup {None}] /\ store \in [Runners -> Seq(Artifacts)]
  BY DEF Typed, TypeOK
<1> QED BY <1>1, SavesOnly DEF Writes, Write, Settles, Register, RegisterFails, Set

\* The outcome of an action leads on, or to the end of the plan, or out of it.
LEMMA OutcomeAt ==
  ASSUME Typed, NEW r \in Runners, index[r] <= Len(contract.actions), ~error[r],
         NEW s, NEW passed \in BOOLEAN,
         ActionEnds(r, s, passed), page' \in [Runners -> {"allowed", "blank", "invalid"}]
  PROVE  LocalOK' /\ Elsewhere(r) /\ At(r)' /\ index'[r] <= Len(contract.actions) + 1
<1>1. LocalOK /\ At(r) /\ Len(contract.actions) \in Nat /\ contract' = contract
  BY LocalTyped, LimitsAreNumbers DEF Typed, TypeOK, Placed, ActionEnds, given
<1>2. index[r] \in Nat \ {0} /\ index[r] <= Len(contract.actions)
  BY <1>1 DEF LocalOK
<1>3. /\ window' = Set(window, r, None) /\ observed' = Set(observed, r, FALSE) /\ browser' = browser
      /\ passed => /\ index' = [index EXCEPT ![r] = @ + 1] /\ error' = error
                   /\ pc' = Set(pc, r, IF index[r] = Len(contract.actions) THEN "final" ELSE "action")
      /\ ~passed => Raise(r, "caught") /\ index' = index
  BY DEF ActionEnds
<1>4. LocalOK' /\ Elsewhere(r)
  <2>1. index' \in [Runners -> Nat \ {0}]
    <3>1. index' = index \/ index' = [index EXCEPT ![r] = index[r] + 1]
      BY <1>3
    <3> QED BY <1>1, <1>2, <3>1 DEF LocalOK
  <2> QED BY <1>1, <1>3, <2>1 DEF LocalOK, Elsewhere, Set, Raise, Running, Calling
<1>5. ~error[r]
  OBVIOUS
<1>6. CASE passed /\ index[r] = Len(contract.actions)
  <2>1. pc'[r] = "final" /\ index'[r] = Len(contract.actions) + 1 /\ ~error'[r]
    BY <1>1, <1>3, <1>5, <1>6 DEF Set, LocalOK
  <2> QED BY <1>1, <1>4, <2>1 DEF At, Early, Acting, Finishing
<1>7. CASE passed /\ index[r] # Len(contract.actions)
  <2>1. pc'[r] = "action" /\ index'[r] = index[r] + 1 /\ ~error'[r]
    BY <1>1, <1>3, <1>5, <1>7 DEF Set, LocalOK
  <2>2. index'[r] <= Len(contract.actions) /\ index'[r] <= Len(contract.actions) + 1 /\ index'[r] # 1
    BY <1>1, <1>2, <1>7, <2>1
  <2> QED BY <1>1, <1>4, <2>1, <2>2 DEF At, Early, Acting, Finishing
<1>8. CASE ~passed
  <2>1. pc'[r] = "caught" /\ index'[r] = index[r] /\ error'[r]
    BY <1>1, <1>3, <1>8 DEF Set, LocalOK, Raise
  <2> QED BY <1>1, <1>2, <1>4, <2>1 DEF At, Early, Acting, Finishing
<1> QED BY <1>6, <1>7, <1>8

\* What is begun is to be registered.
LEMMA WriteAt ==
  ASSUME Typed, NEW r \in Runners, Writes(r), contract' = contract
  PROVE  Elsewhere(r) /\ At(r)' /\ index' = index
<1>1. PICK a : Begins(r, a) /\ Write(r, a) /\ UNCHANGED <<store, index, window, error>>
  BY DEF Writes
<1>2. pc' = Set(pc, r, "register") /\ pending' = Set(pending, r, a)
  BY <1>1 DEF Write
<1>3. pc'[r] = "register" /\ pending'[r] = a /\ \A q \in Runners \ {r} : pc'[q] = pc[q]
  BY <1>2 DEF Typed, TypeOK, Set
<1>4. At(r)
  BY DEF Typed, Placed
<1>5. Artifacts' = Artifacts
  BY DEF Artifacts, Paths, Planned
<1>6. /\ a \in Artifacts /\ a.content.by = r /\ Named(a) /\ ~error[r]
      /\ Closing(a) => index[r] = Len(contract.actions) + 1 /\ a.kind \in {"dom", "aria", "screenshot"}
      /\ ~Closing(a) => index[r] <= Len(contract.actions)
  BY <1>1, <1>4 DEF Begins, At
<1>7. Saving(r)'
  BY <1>1, <1>3, <1>5, <1>6 DEF Saving, Named, Closing
<1> QED BY <1>1, <1>3, <1>7 DEF At, Elsewhere, Early, Acting, Finishing

\* Every step leads to a place of the plan.
LEMMA AtAlways ==
  ASSUME Typed, NEW r \in Runners, Steps(r)
  PROVE  LocalOK' /\ Elsewhere(r) /\ At(r)' /\ index'[r] <= Len(contract.actions) + 1
<1>1. LocalOK /\ At(r) /\ Len(contract.actions) \in Nat \ {0} /\ index[r] <= Len(contract.actions) + 1
  <2>1. index[r] \in 1..(Len(contract.actions) + 1)
    BY DEF Typed, TypeOK
  <2> QED BY <2>1, LocalTyped, LimitsAreNumbers DEF Typed, TypeOK, Placed
<1>2. contract' = contract
  BY DEF Steps, Run, Start, CheckRoot, MakeRoot, Launch, Perform, TakeScreenshot, Expect, ExpectFails,
         ExpectedSeen, SaveDownload, BeginSave, SaveEnds, CaptureEnds, Hang, ActionEnds, Final, CaptureDom, CaptureAria, CaptureShot, Capture,
         Caught, Close, Report, Kill, Normalize, Callback, RequestCallback, ResponseCallback,
         ConsoleCallback, EffectCallback, Navigate, Calls, given
<1>3. CASE Start(r) \/ CheckRoot(r) \/ MakeRoot(r) \/ Launch(r)
  <2>1. pc[r] \in Early /\ index' = index /\ window' = window
    BY <1>3 DEF Start, CheckRoot, MakeRoot, Launch, Early, runner, Step
  <2>2. /\ LocalOK' /\ Elsewhere(r)
        /\ \/ pc'[r] \in Early \cup {"action"} /\ error'[r] = error[r]
           \/ pc'[r] \in {"report", "caught"} /\ error'[r]
    BY <1>1, <1>3, ZenonT(60) DEF Start, CheckRoot, MakeRoot, Launch, runner, Step, Raise, Set, LocalOK, Elsewhere,
                      Running, Calling, Early
  <2> QED BY <1>1, <1>2, <2>1, <2>2 DEF At, Early, Acting, Finishing
<1>4. CASE Callback(r) \/ Normalize(r)
  <2>1. UNCHANGED <<pc, index, window, error, pending>>
    BY <1>4 DEF Callback, Normalize, RequestCallback, ResponseCallback, ConsoleCallback, EffectCallback,
                Navigate, Calls, runner
  <2>2. LocalOK'
    BY <1>1, <1>4, ZenonT(60) DEF Callback, Normalize, RequestCallback, ResponseCallback, ConsoleCallback,
                      EffectCallback, Navigate, Calls, runner, LocalOK, Set
  <2>3. Artifacts' = Artifacts
    BY <1>2 DEF Artifacts, Paths, Planned
  <2>4. Saving(r) => Saving(r)'
    BY <1>2, <2>1, <2>3 DEF Saving, Named, Closing
  <2> QED BY <1>1, <1>2, <2>1, <2>2, <2>4 DEF At, Action, Elsewhere
<1>5. CASE \/ Perform(r) \/ TakeScreenshot(r) \/ ExpectFails(r) \/ ExpectedSeen(r) \/ SaveDownload(r)
           \/ SaveEnds(r)
  <2>1. index[r] <= Len(contract.actions) /\ ~error[r] /\ pc[r] \in Acting \cup {"register"}
    BY <1>1, <1>5 DEF Perform, TakeScreenshot, ExpectFails, ExpectedSeen, SaveDownload, SaveEnds, Acting,
                      At, Saving
  <2>2. CASE \E a : BeginSave(r, a)
    <3>1. UNCHANGED <<store, browser, page, index, window, observed, error>> /\ pc' = Set(pc, r, "register")
      BY <2>2 DEF BeginSave, Write
    <3>2. LocalOK'
      BY <1>1, <3>1 DEF LocalOK, Set, Running
    <3>3. Writes(r)
      <4>1. Writes(r) \/ UNCHANGED <<store, disk, pending>> \/ Settles(r)
        BY SavesOnly
      <4>2. disk' # disk
        BY <2>2 DEF BeginSave, Write
      <4>3. pc'[r] = "register"
        BY <1>1, <3>1 DEF LocalOK, Set
      <4>4. ~SaveEnds(r) /\ ~CaptureEnds(r)
        BY <1>1, <4>3 DEF SaveEnds, CaptureEnds, ActionEnds, At, Saving, After, Raise, Set, LocalOK
      <4> QED BY <4>1, <4>2, <4>4 DEF Settles
    <3> QED BY <1>1, <1>2, <3>1, <3>2, <3>3, WriteAt
  <2>3. CASE \E s : \E passed \in BOOLEAN : ActionEnds(r, s, passed)
    <3>1. page' \in [Runners -> {"allowed", "blank", "invalid"}]
      BY <1>1, <1>5 DEF Perform, TakeScreenshot, ExpectFails, ExpectedSeen, SaveDownload, BeginSave, SaveEnds,
                        LocalOK, Set
    <3> QED BY <2>1, <2>3, <3>1, OutcomeAt
  <2> QED BY <1>5, <2>2, <2>3 DEF Perform, TakeScreenshot, ExpectFails, ExpectedSeen, SaveDownload, SaveEnds
<1>6. CASE Expect(r)
  <2>1. pc[r] = "action" /\ Action(r).kind = "click" /\ Action(r).expect \in Effects /\ ~error[r]
    BY <1>1, <1>6 DEF Expect, At, Acting
  <2>2. /\ LocalOK' /\ Elsewhere(r) /\ index' = index /\ error' = error
        /\ pc'[r] = "expect" /\ window'[r] = Action(r).expect
    BY <1>1, <1>6, <2>1 DEF Expect, LocalOK, Elsewhere, Set, Running, Calling
  <2>3. Action(r)' = Action(r)
    BY <1>2, <2>2 DEF Action
  <2> QED BY <1>1, <1>2, <2>1, <2>2, <2>3 DEF At, Early, Acting, Finishing
<1>7. CASE Final(r) \/ CaptureDom(r) \/ CaptureAria(r) \/ CaptureShot(r) \/ CaptureEnds(r) \/ Close(r)
  <2>1. index' = index /\ window' = window /\ index[r] = Len(contract.actions) + 1 /\ ~error[r]
    BY <1>1, <1>7 DEF Final, CaptureDom, CaptureAria, CaptureShot, Capture, CaptureEnds, Close, Finishing,
                      At, Saving
  <2>2. LocalOK' /\ Elsewhere(r)
    <3>1. \E to \in Running : pc' = Set(pc, r, to)
      BY <1>1, <1>7 DEF Final, CaptureDom, CaptureAria, CaptureShot, Capture, CaptureEnds, At, Saving, After, Close,
                        Write, Raise, Running, Calling
    <3>2. browser' = browser \/ \E b \in {"none", "open", "closed", "left"} : browser' = Set(browser, r, b)
      BY <1>1, <1>7 DEF Final, CaptureDom, CaptureAria, CaptureShot, Capture, CaptureEnds, Close, Shut, LocalOK
    <3>3. /\ UNCHANGED <<page, observed>>
          /\ error' = error \/ error' = Set(error, r, TRUE)
      BY <1>7 DEF Final, CaptureDom, CaptureAria, CaptureShot, Capture, CaptureEnds, Close, Raise
    <3>4. pc' \in [Runners -> {"idle"} \cup Running \cup Ended]
      BY <1>1, <3>1 DEF LocalOK, Set
    <3>5. browser' \in [Runners -> {"none", "open", "closed", "left"}]
      BY <1>1, <3>2 DEF LocalOK, Set
    <3>6. error' \in [Runners -> BOOLEAN]
      BY <1>1, <3>3 DEF LocalOK, Set
    <3>7. Elsewhere(r)
      BY <1>1, <2>1, <3>1, <3>3 DEF LocalOK, Elsewhere, Set
    <3> QED BY <1>1, <2>1, <3>3, <3>4, <3>5, <3>6, <3>7 DEF LocalOK
  <2>3. CASE pc'[r] = "register"
    <3>1. CASE CaptureDom(r) \/ CaptureAria(r) \/ CaptureShot(r)
      <4>1. pc[r] \in {"dom", "aria", "shot"} /\ \E a : Write(r, a)
        BY <1>1, <2>3, <3>1 DEF CaptureDom, CaptureAria, CaptureShot, Capture, Raise, Set, LocalOK
      <4>2. disk' # disk
        BY <4>1 DEF Write
      <4> QED BY <1>1, <1>2, <2>1, <2>2, <4>1, <4>2, SavesOnly, WriteAt DEF Settles
    <3>2. CASE Final(r) \/ CaptureEnds(r) \/ Close(r)
      BY <1>1, <2>3, <3>2 DEF Final, CaptureEnds, Close, At, Saving, After, Raise, Set, LocalOK
    <3> QED BY <1>7, <3>1, <3>2
  <2>4. CASE pc'[r] # "register"
    <3>1. \/ pc'[r] \in Finishing \cup {"report"} /\ error'[r] = error[r]
          \/ pc'[r] \in {"caught", "report"} /\ error'[r]
      BY <1>1, <1>7, <2>4 DEF Final, CaptureDom, CaptureAria, CaptureShot, Capture, CaptureEnds, At, Saving,
                              After, Close, Write, Raise, Set, LocalOK, Finishing
    <3> QED BY <1>1, <1>2, <2>1, <2>2, <3>1 DEF At, Early, Acting, Finishing
  <2> QED BY <2>3, <2>4
<1>8. CASE Caught(r) \/ Report(r) \/ Hang(r) \/ Kill(r)
  <2>1. UNCHANGED <<index, window, error>>
    BY <1>8 DEF Caught, Report, Hang, Kill, runner
  <2>2. /\ LocalOK' /\ Elsewhere(r)
        /\ \/ pc[r] = "caught" /\ pc'[r] = "report"
           \/ pc[r] = "report" /\ pc'[r] = "exited"
           \/ pc'[r] \in {"hung", "killed"}
    <3>1. pc' = Set(pc, r, pc'[r]) /\ UNCHANGED <<page, observed>>
      BY <1>1, <1>8 DEF Caught, Report, Hang, Kill, Step, Set, LocalOK, runner
    <3>2. /\ \/ pc[r] = "caught" /\ pc'[r] = "report"
             \/ pc[r] = "report" /\ pc'[r] = "exited"
             \/ pc'[r] \in {"hung", "killed"}
      BY <1>1, <1>8 DEF Caught, Report, Hang, Kill, Step, Set, LocalOK
    <3>3. browser' = browser \/ \E b \in {"none", "open", "closed", "left"} : browser' = Set(browser, r, b)
      BY <1>1, <1>8 DEF Caught, Report, Hang, Kill, Shut, LocalOK, runner
    <3>4. Elsewhere(r)
      BY <1>1, <2>1, <3>1 DEF LocalOK, Elsewhere, Set
    <3>5. pc'[r] \in {"idle"} \cup Running \cup Ended
      BY <3>2 DEF Running, Calling, Ended
    <3>6. pc' \in [Runners -> {"idle"} \cup Running \cup Ended]
      BY <1>1, <3>1, <3>5 DEF LocalOK, Set
    <3>7. browser' \in [Runners -> {"none", "open", "closed", "left"}]
      BY <1>1, <3>3 DEF LocalOK, Set
    <3>8. LocalOK'
      BY <1>1, <2>1, <3>1, <3>6, <3>7 DEF LocalOK
    <3> QED BY <3>2, <3>4, <3>8
  <2> QED BY <1>1, <1>2, <2>1, <2>2 DEF At, Early, Acting, Finishing
<1> QED BY <1>3, <1>4, <1>5, <1>6, <1>7, <1>8 DEF Steps, Run

\* A runner that has exited is left to the adapter.
LEMMA ExitedIsRead ==
  ASSUME NEW r \in Runners, Steps(r), pc[r] = "exited"
  PROVE  Normalize(r)
BY DEF Steps, Run, Start, CheckRoot, MakeRoot, Launch, Perform, TakeScreenshot, Expect, ExpectFails,
       ExpectedSeen, SaveDownload, SaveEnds, Final, CaptureDom, CaptureAria, CaptureShot, Capture,
       CaptureEnds, Caught, Close, Report, Hang, Endless, Kill, Callback, RequestCallback, ResponseCallback, ConsoleCallback, EffectCallback,
       Navigate, Calls, Calling, Running, Step

\* Only Report prints, only Normalize reads, and only MakeRoot makes the root.
LEMMA WhoWrites ==
  ASSUME NEW r \in Runners, Steps(r)
  PROVE  /\ UNCHANGED given
         /\ Report(r) \/ receipt' = receipt
         /\ Normalize(r) \/ evidence' = evidence
         /\ MakeRoot(r) \/ root' = root
<1>1. CASE Start(r) \/ CheckRoot(r) \/ MakeRoot(r) \/ Launch(r) \/ Expect(r) \/ Final(r) \/ Caught(r)
           \/ Close(r) \/ Report(r) \/ Hang(r) \/ Kill(r) \/ Normalize(r)
  BY <1>1 DEF Start, CheckRoot, MakeRoot, Launch, Expect, Final, Caught, Close, Report, Hang, Kill, Normalize,
              outcome, shared
<1>2. CASE \/ Perform(r) \/ TakeScreenshot(r) \/ ExpectFails(r) \/ ExpectedSeen(r) \/ SaveDownload(r)
           \/ SaveEnds(r)
  BY <1>2 DEF Perform, TakeScreenshot, ExpectFails, ExpectedSeen, SaveDownload, BeginSave, SaveEnds, ActionEnds,
              outcome
<1>3. CASE CaptureDom(r) \/ CaptureAria(r) \/ CaptureShot(r) \/ CaptureEnds(r)
  BY <1>3 DEF CaptureDom, CaptureAria, CaptureShot, Capture, CaptureEnds, outcome
<1>4. CASE Callback(r)
  BY <1>4 DEF Callback, RequestCallback, ResponseCallback, ConsoleCallback, EffectCallback, Navigate,
              Calls, outcome, shared
<1> QED BY <1>1, <1>2, <1>3, <1>4 DEF Steps, Run

\* A runner's records stay within their limits.
LEMMA StateTyped ==
  ASSUME Typed, NEW r \in Runners, Steps(r)
  PROVE  /\ state' \in [Runners -> States]
         /\ happened' \in [Runners -> SUBSET (Effects \cup {"foreign"})]
         /\ \A q \in Runners :
              InBudget(state[q])' /\ (state[q].asserted + 1 = index[q])' /\ (state[q].asserted < index[q])'
<1>1. contract' = contract /\ Elsewhere(r) /\ LocalOK /\ LocalOK'
  BY WhoWrites, AtAlways, LocalTyped DEF given
<1>2. PICK t, new :
        /\ state' = Set(state, r, t) /\ Grows(state[r], t)
        /\ t.asserted + index[r] = state[r].asserted + index'[r]
        /\ new \subseteq Effects \cup {"foreign"}
        /\ happened' = Set(happened, r, happened[r] \cup new)
  BY NotesAlways DEF Notes
<1>3. /\ state \in [Runners -> States] /\ happened \in [Runners -> SUBSET (Effects \cup {"foreign"})]
      /\ \A q \in Runners : InBudget(state[q]) /\ state[q].asserted + 1 = index[q]
  BY DEF Typed, TypeOK, Placed
<1>4. t \in States /\ InBudget(t)
  BY <1>2 DEF Grows, Proper
<1>5. /\ state' \in [Runners -> States] /\ happened' \in [Runners -> SUBSET (Effects \cup {"foreign"})]
      /\ state'[r] = t /\ \A q \in Runners \ {r} : state'[q] = state[q]
  BY <1>2, <1>3, <1>4 DEF Set
<1>6. ASSUME NEW q \in Runners
      PROVE  InBudget(state[q])' /\ state'[q].asserted + 1 = index'[q]
  <2>1. InBudget(state'[q])
    BY <1>3, <1>4, <1>5
  <2>2. InBudget(state[q])'
    BY <1>1, <2>1 DEF InBudget
  <2>3. state'[q].asserted + 1 = index'[q]
    <3>1. state[q].asserted \in Nat /\ t.asserted \in Nat /\ index[r] \in Nat /\ index'[r] \in Nat
          /\ state[r].asserted \in Nat
      BY <1>1, <1>3, <1>4 DEF States, LocalOK
    <3>2. CASE q = r
      <4>1. t.asserted + 1 = index'[r]
        BY <1>2, <1>3, <3>1
      <4> QED BY <1>5, <3>2, <4>1
    <3>3. CASE q # r
      BY <1>1, <1>3, <1>5, <3>3 DEF Elsewhere
    <3> QED BY <3>2, <3>3
  <2> QED BY <2>2, <2>3
<1>7. ASSUME NEW q \in Runners
      PROVE  state'[q].asserted < index'[q]
  <2>1. state'[q].asserted \in Nat /\ index'[q] \in Nat
    BY <1>1, <1>5 DEF States, LocalOK
  <2> QED BY <1>6, <2>1
<1> QED BY <1>5, <1>6, <1>7

\* The artifacts and files stay those of the contract.
LEMMA FilesTyped ==
  ASSUME Typed, NEW r \in Runners, Steps(r)
  PROVE  /\ store' \in [Runners -> Seq(Artifacts)] /\ DOMAIN disk' \subseteq Paths
         /\ disk' \in [DOMAIN disk' -> [by : Runners \cup {None}, bytes : Sizes]]
         /\ pending' \in [Runners -> Artifacts \cup {None}]
<1>1. /\ store \in [Runners -> Seq(Artifacts)] /\ DOMAIN disk \subseteq Paths
      /\ disk \in [DOMAIN disk -> [by : Runners \cup {None}, bytes : Sizes]]
      /\ pending \in [Runners -> Artifacts \cup {None}]
  BY DEF Typed, TypeOK
<1>2. CASE UNCHANGED <<store, disk, pending>>
  BY <1>1, <1>2
<1>3. CASE Writes(r)
  <2>1. PICK a \in Artifacts : Write(r, a) /\ store' = store
    BY <1>3 DEF Writes, Begins
  <2>2. a.path \in Paths /\ a.content \in [by : Runners \cup {None}, bytes : Sizes]
    BY DEF Artifacts
  <2>3. /\ disk' = [p \in DOMAIN disk \cup {a.path} |-> IF p = a.path THEN a.content ELSE disk[p]]
        /\ pending' = Set(pending, r, a)
    BY <2>1 DEF Write
  <2>4. DOMAIN disk' = DOMAIN disk \cup {a.path}
    BY <2>3
  <2>5. \A p \in DOMAIN disk : disk[p] \in [by : Runners \cup {None}, bytes : Sizes]
    BY <1>1
  <2>6. pending' \in [Runners -> Artifacts \cup {None}]
    BY <1>1, <2>3 DEF Set
  <2> QED BY <1>1, <2>1, <2>2, <2>3, <2>4, <2>5, <2>6
<1>4. CASE Settles(r)
  <2>1. pending[r] \in Artifacts /\ pending' = Set(pending, r, None)
    BY <1>4 DEF Settles, Register, RegisterFails, Typed, Placed, At, Saving
  <2>2. store' = store \/ store' = [store EXCEPT ![r] = Append(@, pending[r])]
    BY <1>4 DEF Settles, Register, RegisterFails
  <2>3. store' \in [Runners -> Seq(Artifacts)]
    <3>1. Append(store[r], pending[r]) \in Seq(Artifacts)
      BY <1>1, <2>1, AppendProperties
    <3> QED BY <1>1, <2>2, <3>1
  <2>4. disk' = disk \/ disk' = Restrict(disk, DOMAIN disk \ {pending[r].path})
    BY <1>4 DEF Settles, Register, RegisterFails
  <2>5. /\ DOMAIN disk' \subseteq Paths
        /\ disk' \in [DOMAIN disk' -> [by : Runners \cup {None}, bytes : Sizes]]
    BY <1>1, <2>4 DEF Restrict
  <2> QED BY <1>1, <2>1, <2>3, <2>5 DEF Set
<1> QED BY <1>2, <1>3, <1>4, SavesOnly

\* The receipt that Report makes, valid or not.
Value(r) ==
  LET s == Overrun(state[r])
      failedChecks == FailedChecks(r, state[r])
  IN [passed |-> ~error[r] /\ s.violations = {} /\ failedChecks = {},
      pages |-> s.page_count, network |-> s.network, artifacts |-> store[r],
      violations |-> s.violations, failed_checks |-> failedChecks, driver |-> driver]

\* Report prints it if it is valid.
LEMMA ReportsValue ==
  ASSUME Typed, NEW r \in Runners, Report(r)
  PROVE  /\ receipt' = Set(receipt, r, IF ValidReceipt(r, Value(r)) THEN Value(r) ELSE None)
         /\ pc[r] = "report" /\ pc'[r] = "exited" /\ UNCHANGED <<given, store, error, shared, happened>>
         /\ state'[r] = Overrun(state[r])
<1>1. pc \in [Runners -> {"idle"} \cup Running \cup Ended] /\ state \in [Runners -> States]
  BY DEF Typed, TypeOK
<1> QED BY <1>1 DEF Report, Value, Set, given, shared

\* A receipt and what is made of it have their types.
LEMMA ReceiptsTyped ==
  ASSUME Typed, NEW r \in Runners, Steps(r)
  PROVE  /\ receipt' \in [Runners -> Receipts \cup {None}]
         /\ evidence' \in [Runners ->
              [receipt : BOOLEAN, passed : BOOLEAN, policy : BOOLEAN, artifacts : BOOLEAN, denied : BOOLEAN]
                \cup {None}]
         /\ \A q \in Runners : receipt'[q] # None => pc'[q] = "exited"
<1>1. /\ receipt \in [Runners -> Receipts \cup {None}]
      /\ evidence \in [Runners ->
           [receipt : BOOLEAN, passed : BOOLEAN, policy : BOOLEAN, artifacts : BOOLEAN, denied : BOOLEAN]
             \cup {None}]
      /\ \A q \in Runners : receipt[q] # None => pc[q] = "exited"
      /\ Elsewhere(r)
  BY AtAlways DEF Typed, TypeOK
<1>2. receipt' \in [Runners -> Receipts \cup {None}]
  <2>1. ASSUME Report(r), ValidReceipt(r, Value(r))
        PROVE  Value(r) \in Receipts
    <3> DEFINE s == Overrun(state[r])
    <3>1. s \in States /\ state[r] \in States /\ store[r] \in Seq(Artifacts)
          /\ driver \in {"declared", "other", "unparsable", "missing"}
      BY StateProper, OverrunGrows DEF Typed, TypeOK, Grows, Proper
    <3> HIDE DEF s
    <3>2. /\ s.violations \subseteq {"origin", "pages"} \cup Effects \cup Logs
          /\ s.page_count \in Nat /\ s.network \in Seq(NetworkEvents)
          /\ state[r].violations \subseteq {"origin", "pages"} \cup Effects \cup Logs
          /\ state[r].overflow \subseteq Logs
      BY <3>1 DEF States
    <3>3. FailedChecks(r, state[r]) \subseteq
            {"origin", "pages", "driver", "artifacts", "assertions"} \cup Effects \cup Logs
      BY <3>2 DEF FailedChecks
    <3>4. driver # "unparsable"
      BY <2>1 DEF ValidReceipt
    <3>5. Value(r) = [passed |-> ~error[r] /\ s.violations = {} /\ FailedChecks(r, state[r]) = {},
             pages |-> s.page_count, network |-> s.network, artifacts |-> store[r],
             violations |-> s.violations, failed_checks |-> FailedChecks(r, state[r]), driver |-> driver]
      BY DEF Value, s
    <3> QED BY <3>1, <3>2, <3>3, <3>4, <3>5 DEF Receipts
  <2>2. CASE Report(r)
    BY <1>1, <2>1, <2>2, ReportsValue DEF Set
  <2> QED BY <1>1, <2>2, WhoWrites
<1>3. evidence' \in [Runners ->
        [receipt : BOOLEAN, passed : BOOLEAN, policy : BOOLEAN, artifacts : BOOLEAN, denied : BOOLEAN]
          \cup {None}]
  <2>1. CASE Normalize(r)
    <3>1. ASSUME Continuous(receipt[r])
          PROVE  receipt[r].passed \in BOOLEAN
      BY <1>1, <3>1 DEF Continuous, Receipts
    <3>2. \A told, artifacts, complete : ArtifactsMatch(told, artifacts, complete) \in BOOLEAN
      BY DEF ArtifactsMatch
    <3> QED BY <1>1, <2>1, <3>1, <3>2 DEF Normalize, Set, Rejected
  <2> QED BY <1>1, <2>1, WhoWrites
<1>4. ASSUME NEW q \in Runners, receipt'[q] # None
      PROVE  pc'[q] = "exited"
  <2>1. CASE Report(r)
    BY <1>1, <1>4, <2>1, ReportsValue DEF Elsewhere, Set
  <2>2. CASE ~Report(r)
    <3>1. receipt' = receipt /\ pc[q] = "exited"
      BY <1>1, <1>4, <2>2, WhoWrites
    <3>2. q = r => pc' = pc
      BY <3>1, ExitedIsRead DEF Normalize
    <3> QED BY <1>1, <3>1, <3>2 DEF Elsewhere
  <2> QED BY <2>1, <2>2
<1> QED BY <1>2, <1>3, <1>4

\* The path of a runner that a step of another leaves alone is the same.
LEMMA AtElsewhere ==
  ASSUME Typed, NEW r \in Runners, Steps(r), NEW q \in Runners \ {r}
  PROVE  At(q)' /\ index'[q] <= Len(contract.actions) + 1
<1>1. contract' = contract /\ At(q) /\ Elsewhere(r)
  BY WhoWrites, AtAlways DEF given, Typed, Placed
<1>2. Action(q)' = Action(q)
  BY <1>1 DEF Action, Elsewhere
<1>3. index[q] <= Len(contract.actions) + 1
  <2>1. index[q] \in 1..(Len(contract.actions) + 1)
    BY DEF Typed, TypeOK
  <2> QED BY <2>1, LimitsAreNumbers DEF Typed, TypeOK
<1>4. Artifacts' = Artifacts /\ pending'[q] = pending[q]
  BY <1>1, PendingElsewhere DEF Artifacts, Paths, Planned
<1>5. Saving(q) => Saving(q)'
  BY <1>1, <1>4 DEF Saving, Named, Closing, Elsewhere
<1> QED BY <1>1, <1>2, <1>3, <1>5 DEF At, Elsewhere

\* The types of a step of a runner.
LEMMA RunnerTyped ==
  ASSUME Typed, NEW r \in Runners, Steps(r)
  PROVE  Typed'
<1>1. /\ UNCHANGED given /\ contract' \in Contracts
      /\ driver' \in {"declared", "other", "unparsable", "missing"}
      /\ Len(contract.actions) \in Nat
  BY WhoWrites, LimitsAreNumbers DEF given, Typed, TypeOK
<1>2. LocalOK' /\ \A q \in Runners : At(q)' /\ index'[q] <= Len(contract.actions) + 1
  BY AtAlways, AtElsewhere
<1>3. index' \in [Runners -> 1..(Len(contract'.actions) + 1)]
  <2>1. index' \in [Runners -> Nat \ {0}] /\ contract' = contract
    BY <1>1, <1>2 DEF LocalOK, given
  <2>2. \A q \in Runners : index'[q] \in 1..(Len(contract.actions) + 1)
    BY <1>1, <1>2, <2>1
  <2> QED BY <2>1, <2>2
<1>4. /\ state' \in [Runners -> States] /\ happened' \in [Runners -> SUBSET (Effects \cup {"foreign"})]
      /\ \A q \in Runners :
           InBudget(state[q])' /\ (state[q].asserted + 1 = index[q])' /\ (state[q].asserted < index[q])'
  BY StateTyped
<1>5. Paths' = Paths /\ Artifacts' = Artifacts /\ Receipts' = Receipts
  BY <1>1 DEF given, Paths, Planned, Artifacts, Receipts
<1>6. root' \in Runners \cup {None}
  <2>1. MakeRoot(r) => root' \in {root, r}
    BY DEF MakeRoot
  <2> QED BY <2>1, WhoWrites DEF Typed, TypeOK
<1>7. TypeOK'
  BY <1>1, <1>2, <1>3, <1>4, <1>5, <1>6, FilesTyped, ReceiptsTyped DEF TypeOK, LocalOK
<1> QED BY <1>2, <1>4, <1>7 DEF Typed, Placed

\* Every step keeps the types.
LEMMA TypedStep ==
  ASSUME Typed, [Next]_vars
  PROVE  Typed'
<1>1. ASSUME Tamper
      PROVE  Typed'
  <2>1. UNCHANGED <<given, pc, runner, outcome, root, happened, callbacks, kills>>
    BY <1>1 DEF Tamper
  <2>2. /\ UNCHANGED <<contract, driver, pc, browser, page, index, window, observed, state, store>>
        /\ UNCHANGED <<pending, error, receipt, evidence, root, happened>>
    BY <2>1 DEF given, runner, outcome
  <2>3. DOMAIN disk \subseteq Paths /\ disk \in [DOMAIN disk -> [by : Runners \cup {None}, bytes : Sizes]]
    BY DEF Typed, TypeOK
  <2>4. DOMAIN disk' \subseteq DOMAIN disk
        /\ disk' \in [DOMAIN disk' -> [by : Runners \cup {None}, bytes : Sizes]]
    BY <1>1, <2>3 DEF Tamper, Content, Restrict
  <2>5. Paths' = Paths /\ Artifacts' = Artifacts /\ Receipts' = Receipts
    BY <2>2 DEF Paths, Planned, Artifacts, Receipts
  <2>6. \A q \in Runners : InBudget(state[q])' /\ At(q)' /\ Placed(q)'
    BY <2>2, <2>5 DEF Typed, TypeOK, InBudget, Placed, At, Saving, Named, Closing, Action
  <2> QED BY <2>2, <2>3, <2>4, <2>5, <2>6 DEF Typed, TypeOK
<1>2. ASSUME UNCHANGED vars
      PROVE  Typed'
  <2>1. /\ UNCHANGED <<contract, driver, pc, browser, page, index, window, observed, state, store>>
        /\ UNCHANGED <<pending, error, receipt, evidence, root, disk, happened>>
    BY <1>2 DEF vars, given, runner, outcome, shared
  <2>2. Paths' = Paths /\ Artifacts' = Artifacts /\ Receipts' = Receipts
    BY <2>1 DEF Paths, Planned, Artifacts, Receipts
  <2>3. \A q \in Runners : InBudget(state[q])' /\ At(q)' /\ Placed(q)'
    BY <2>1, <2>2 DEF Typed, TypeOK, InBudget, Placed, At, Saving, Named, Closing, Action
  <2> QED BY <2>1, <2>2, <2>3 DEF Typed, TypeOK
<1>3. Next => Tamper \/ \E r \in Runners : Steps(r)
  BY DEF Next, Steps
<1> QED BY <1>1, <1>2, <1>3, RunnerTyped

\* A state that has just begun is typed.
LEMMA TypedInit ==
  ASSUME Init
  PROVE  Typed
<1>1. contract \in Contracts
  BY DEF Init
<1>2. /\ contract.max_events \in Nat /\ contract.max_network_events \in Nat
      /\ contract.max_console_bytes \in Nat /\ Len(contract.actions) \in Nat \ {0}
  BY <1>1, LimitsAreNumbers
<1>3. NewState \in States /\ InBudget(NewState)
  <2>1. <<>> \in Seq(NetworkEvents) /\ Len(<<>>) = 0
    OBVIOUS
  <2>2. NewState \in States
    BY <2>1 DEF NewState, States
  <2>3. NewState.events = 0 /\ NewState.network = <<>> /\ NewState.console = 0
    BY DEF NewState
  <2> QED BY <1>2, <2>1, <2>2, <2>3 DEF InBudget
<1>4. 1 \in 1..(Len(contract.actions) + 1) /\ 1 <= Len(contract.actions)
  BY <1>2
<1>5. /\ state \in [Runners -> States] /\ \A r \in Runners : InBudget(state[r]) /\ state[r].asserted = 0
  BY <1>3 DEF Init, NewState
<1>6. \A r \in Runners : Placed(r) /\ state[r].asserted < index[r]
  BY <1>4, <1>5 DEF Init, Placed, At, Early, Acting, Finishing
<1>7. DOMAIN disk = {} /\ disk \in [DOMAIN disk -> [by : Runners \cup {None}, bytes : Sizes]]
  BY DEF Init
<1>8. TypeOK
  BY <1>1, <1>4, <1>5, <1>6, <1>7 DEF Init, TypeOK, Running
<1> QED BY <1>6, <1>8 DEF Typed

\* Every state is typed.
LEMMA TypedAlways == Spec => []Typed
<1>1. Init => Typed
  BY TypedInit
<1>2. Typed /\ [Next]_vars => Typed'
  BY TypedStep
<1> QED BY <1>1, <1>2, PTL DEF Spec

\* Type correctness: the logs of a runner stay within their limits, its artifacts and the
\* files under the root are those the contract names, and a receipt is of a runner that has
\* exited (execute_browser, _ExecutionState, _ArtifactStore).
THEOREM TypeCorrect == Spec => []TypeOK
<1>1. Typed => TypeOK
  BY DEF Typed
<1> QED BY <1>1, TypedAlways, PTL

-----------------------------------------------------------------------------
(* What a receipt says                                                     *)

\* Whatever speaks against a pass is on record.
Recorded == \A r \in Runners : Honest(state[r]) /\ Known(happened[r], state[r])

\* A receipt is about the state its runner has ended in.
ReportOf(r) ==
  receipt[r] # None =>
    /\ receipt[r].artifacts = store[r] /\ receipt[r].network = state[r].network
    /\ state[r].violations \subseteq receipt[r].violations
    /\ state[r].overflow \subseteq receipt[r].failed_checks \cup {"event"}
    /\ receipt[r].passed =>
         ~error[r] /\ receipt[r].violations = {} /\ state[r].pages <= contract.max_pages

\* Evidence is about the receipt.
ReadingOf(r) ==
  evidence[r] # None /\ evidence[r].receipt =>
    /\ receipt[r] # None
    /\ evidence[r].policy <=> receipt[r].failed_checks = {} /\ receipt[r].violations = {}
    /\ evidence[r].denied <=> "Denied" \in Range(receipt[r].network)

Reported == \A r \in Runners : ReportOf(r) /\ ReadingOf(r)

\* A step of a runner leaves the state and the artifacts of the others alone.
LEMMA OthersKept ==
  ASSUME Typed, NEW r \in Runners, Steps(r), NEW q \in Runners \ {r}
  PROVE  /\ state'[q] = state[q] /\ happened'[q] = happened[q] /\ store'[q] = store[q]
         /\ receipt'[q] = receipt[q] /\ evidence'[q] = evidence[q] /\ error'[q] = error[q]
<1>1. state'[q] = state[q] /\ happened'[q] = happened[q]
  BY NotesAlways DEF Notes, Set, Typed, TypeOK
<1>2. store'[q] = store[q]
  BY PendingElsewhere
<1>3. receipt'[q] = receipt[q]
  <2>1. CASE Report(r)
    <3>1. \E value : receipt' = Set(receipt, r, value)
      BY <2>1, ReportsValue
    <3> QED BY <3>1 DEF Set, Typed, TypeOK
  <2> QED BY <2>1, WhoWrites
<1>4. evidence'[q] = evidence[q]
  <2>1. CASE Normalize(r)
    BY <2>1 DEF Normalize, Set, Typed, TypeOK
  <2> QED BY <2>1, WhoWrites
<1>5. error'[q] = error[q]
  BY AtAlways DEF Elsewhere
<1> QED BY <1>1, <1>2, <1>3, <1>4, <1>5

\* What is on record stays on record.
LEMMA RecordedStep ==
  ASSUME Typed, Recorded, [Next]_vars
  PROVE  Recorded'
<1>1. ASSUME NEW r \in Runners, Steps(r)
      PROVE  Recorded'
  <2>1. PICK t, new :
          /\ state' = Set(state, r, t) /\ Grows(state[r], t)
          /\ happened' = Set(happened, r, happened[r] \cup new) /\ Known(new, t)
    BY <1>1, NotesAlways DEF Notes
  <2>2. state'[r] = t /\ happened'[r] = happened[r] \cup new
    BY <2>1 DEF Typed, TypeOK, Set
  <2>3. Honest(t) /\ Known(happened[r] \cup new, t)
    <3>1. Honest(state[r]) /\ Known(happened[r], state[r])
      BY DEF Recorded
    <3> QED BY <2>1, <3>1, KnownGrows DEF Grows
  <2>4. \A q \in Runners \ {r} : state'[q] = state[q] /\ happened'[q] = happened[q]
    BY <1>1, OthersKept
  <2>5. \A q \in Runners : Honest(state'[q]) /\ Known(happened'[q], state'[q])
    BY <2>2, <2>3, <2>4 DEF Recorded
  <2> QED BY <2>5 DEF Recorded, Honest, Known
<1>2. ASSUME Tamper \/ UNCHANGED vars
      PROVE  Recorded'
  <2>1. UNCHANGED <<state, happened>>
    BY <1>2 DEF Tamper, vars, runner
  <2> QED BY <2>1 DEF Recorded, Honest, Known
<1>3. Next => Tamper \/ \E r \in Runners : Steps(r)
  BY DEF Next, Steps
<1> QED BY <1>1, <1>2, <1>3

\* What a valid receipt says when it is printed.
LEMMA ValueSays ==
  ASSUME Typed, NEW r \in Runners, NEW s, s = Overrun(state[r])
  PROVE  /\ Value(r).artifacts = store[r] /\ Value(r).network = s.network
         /\ s.violations \subseteq Value(r).violations
         /\ s.overflow \subseteq Value(r).failed_checks \cup {"event"}
         /\ Value(r).passed =>
              ~error[r] /\ Value(r).violations = {} /\ s.pages <= contract.max_pages
<1>1. /\ s.overflow \subseteq state[r].overflow \cup {"event"}
      /\ state[r].pages > contract.max_pages => "pages" \in s.violations
      /\ ~(state[r].pages > contract.max_pages) => s = state[r]
  BY StateProper, OverrunGrows
<1>2. /\ Value(r).artifacts = store[r] /\ Value(r).network = s.network /\ Value(r).violations = s.violations
      /\ Value(r).failed_checks = FailedChecks(r, state[r])
      /\ Value(r).passed => ~error[r] /\ s.violations = {}
  BY DEF Value
<1>3. Value(r).passed => s.pages <= contract.max_pages
  <2>1. state[r].pages \in Nat /\ contract.max_pages \in Nat
    <3>1. state[r] \in States /\ contract \in Contracts
      BY DEF Typed, TypeOK
    <3> QED BY <3>1, FieldsAssumption DEF States
  <2>2. Value(r).passed => s.violations = {}
    BY <1>2
  <2>3. Value(r).passed => ~(state[r].pages > contract.max_pages)
    BY <1>1, <2>2
  <2> QED BY <1>1, <2>1, <2>3
<1>4. state[r].overflow \subseteq FailedChecks(r, state[r])
  BY DEF FailedChecks
<1> QED BY <1>1, <1>2, <1>3, <1>4

\* Receipts and evidence stay about the end of the run.
LEMMA ReportedStep ==
  ASSUME Typed, Reported, [Next]_vars
  PROVE  Reported'
<1>1. ASSUME NEW r \in Runners, Steps(r)
      PROVE  Reported'
  <2>1. contract' = contract
    BY <1>1, WhoWrites DEF given
  <2>2. ASSUME NEW q \in Runners \ {r}
        PROVE  ReportOf(q)' /\ ReadingOf(q)'
    <3>1. /\ state'[q] = state[q] /\ store'[q] = store[q] /\ error'[q] = error[q]
          /\ receipt'[q] = receipt[q] /\ evidence'[q] = evidence[q]
      BY <1>1, OthersKept
    <3>2. ReportOf(q) /\ ReadingOf(q)
      BY DEF Reported
    <3> QED BY <2>1, <3>1, <3>2 DEF ReportOf, ReadingOf
  <2>3. receipt \in [Runners -> Receipts \cup {None}] /\ (receipt[r] # None => pc[r] = "exited")
    BY DEF Typed, TypeOK
  <2>4. CASE Report(r)
    <3>1. /\ receipt'[r] = IF ValidReceipt(r, Value(r)) THEN Value(r) ELSE None
          /\ UNCHANGED <<store, error, evidence>> /\ pc[r] = "report" /\ state'[r] = Overrun(state[r])
      BY <2>3, <2>4, ReportsValue DEF Set, Report
    <3>2. receipt[r] = None
      BY <2>3, <3>1
    <3>3. ReadingOf(r)'
      BY <3>1, <3>2 DEF ReadingOf, Reported
    <3>4. ReportOf(r)'
      <4>1. receipt'[r] # None => receipt'[r] = Value(r)
        BY <3>1
      <4>2. /\ state'[r] = Overrun(state[r]) /\ store'[r] = store[r] /\ error'[r] = error[r]
        BY <3>1
      <4> HIDE DEF Value
      <4> QED BY <2>1, <4>1, <4>2, ValueSays DEF ReportOf
    <3> QED BY <2>2, <3>3, <3>4 DEF Reported
  <2>5. CASE Normalize(r)
    <3>1. UNCHANGED <<state, store, error, receipt>>
      BY <2>5 DEF Normalize, runner
    <3>2. ReportOf(r)'
      BY <2>1, <3>1 DEF ReportOf, Reported
    <3>3. ReadingOf(r)'
      <4>1. evidence \in [Runners ->
              [receipt : BOOLEAN, passed : BOOLEAN, policy : BOOLEAN, artifacts : BOOLEAN, denied : BOOLEAN]
                \cup {None}]
        BY DEF Typed, TypeOK
      <4>2. CASE Continuous(receipt[r])
        <5>1. /\ evidence'[r].policy = (receipt[r].failed_checks = {} /\ receipt[r].violations = {})
              /\ evidence'[r].denied = ("Denied" \in Range(receipt[r].network))
          BY <2>5, <4>1, <4>2 DEF Normalize, Set
        <5> QED BY <3>1, <4>2, <5>1 DEF ReadingOf, Continuous
      <4>3. CASE ~Continuous(receipt[r])
        <5>1. ~evidence'[r].receipt
          BY <2>5, <4>1, <4>3 DEF Normalize, Set, Rejected
        <5> QED BY <5>1 DEF ReadingOf
      <4> QED BY <4>2, <4>3
    <3> QED BY <2>2, <3>2, <3>3 DEF Reported
  <2>6. CASE ~Report(r) /\ ~Normalize(r)
    <3>1. receipt' = receipt /\ evidence' = evidence /\ receipt[r] = None
      BY <1>1, <2>3, <2>6, WhoWrites, ExitedIsRead
    <3>2. ReportOf(r)' /\ ReadingOf(r)'
      BY <3>1 DEF ReportOf, ReadingOf, Reported
    <3> QED BY <2>2, <3>2 DEF Reported
  <2> QED BY <2>4, <2>5, <2>6
<1>2. ASSUME Tamper \/ UNCHANGED vars
      PROVE  Reported'
  <2>1. UNCHANGED <<contract, state, store, error, receipt, evidence>>
    BY <1>2 DEF Tamper, vars, runner, given, outcome
  <2> QED BY <2>1 DEF Reported, ReportOf, ReadingOf
<1>3. Next => Tamper \/ \E r \in Runners : Steps(r)
  BY DEF Next, Steps
<1> QED BY <1>1, <1>2, <1>3

\* Every state is on record, and every receipt is about it.
LEMMA ReportedAlways == Spec => [](Recorded /\ Reported)
<1>1. Init => Recorded /\ Reported
  BY DEF Init, Recorded, Reported, ReportOf, ReadingOf, Honest, Known, NewState
<1>2. Typed /\ Recorded /\ Reported /\ [Next]_vars => Recorded' /\ Reported'
  BY RecordedStep, ReportedStep
<1> QED BY <1>1, <1>2, TypedAlways, PTL DEF Spec

\* A pass speaks of the whole run, for any contract, budgets and callbacks: a page that has
\* asked for a foreign origin, made an effect that was not declared or filled a log cannot
\* get one (route_handler, on_new_page, on_dialog, on_download, BrowserReceipt).
THEOREM PassesHideNothing == Spec => []PassHidesNothing
<1>1. Typed /\ Recorded /\ Reported => PassHidesNothing
  <2> SUFFICES ASSUME Typed, Recorded, Reported, NEW r \in Runners, receipt[r] # None, receipt[r].passed
               PROVE  /\ happened[r] = {} /\ state[r].lost = 0 /\ state[r].pages <= contract.max_pages
                      /\ state[r].asserted = Len(contract.actions)
    BY DEF PassHidesNothing
  <2>1. /\ ~error[r] /\ state[r].violations = {} /\ state[r].pages <= contract.max_pages
    BY DEF Reported, ReportOf
  <2>2. Honest(state[r]) /\ Known(happened[r], state[r])
    BY DEF Recorded
  <2>3. happened[r] = {} /\ state[r].lost = 0
    BY <2>1, <2>2 DEF Honest, Known
  <2>4. state[r].asserted = Len(contract.actions)
    <3>1. state[r].asserted + 1 = Len(contract.actions) + 1
      BY <2>1 DEF Typed, TypeOK, Placed, At
    <3>2. state[r].asserted \in Nat /\ Len(contract.actions) \in Nat
      BY LimitsAreNumbers DEF Typed, TypeOK, States
    <3> QED BY <3>1, <3>2
  <2> QED BY <2>1, <2>3, <2>4
<1> QED BY <1>1, TypedAlways, ReportedAlways, PTL

\* A request to a foreign origin is in the receipt of every run, unless the network log was
\* full, and then that is (route_handler, BrowserPlaywrightAdapter.normalize_evidence).
THEOREM DenialsAreNoticed == Spec => []DeniedIsNoticed
<1>1. Recorded /\ Reported => DeniedIsNoticed
  <2> SUFFICES ASSUME Recorded, Reported, NEW r \in Runners, evidence[r] # None, evidence[r].receipt,
                      "foreign" \in happened[r]
               PROVE  ~evidence[r].policy /\ (evidence[r].denied \/ "network" \in receipt[r].failed_checks)
    BY DEF DeniedIsNoticed
  <2>1. /\ "origin" \in state[r].violations
        /\ "Denied" \in Range(state[r].network) \/ "network" \in state[r].overflow
    BY DEF Recorded, Known
  <2>2. ReportOf(r) /\ ReadingOf(r)
    BY DEF Reported
  <2> QED BY <2>1, <2>2 DEF ReportOf, ReadingOf
<1> QED BY <1>1, ReportedAlways, PTL

-----------------------------------------------------------------------------
(* The sizes of the artifacts                                              *)

BytesIn(artifacts) == [i \in DOMAIN artifacts |-> artifacts[i].content.bytes]

\* The artifacts of a store have sizes.
LEMMA BytesAreNumbers ==
  ASSUME NEW artifacts \in Seq(Artifacts)
  PROVE  /\ DOMAIN artifacts = 1..Len(artifacts) /\ Len(artifacts) \in Nat
         /\ IsFiniteSet(DOMAIN artifacts) /\ BytesIn(artifacts) \in [DOMAIN artifacts -> Nat]
<1>1. DOMAIN artifacts = 1..Len(artifacts) /\ Len(artifacts) \in Nat
  BY LenProperties
<1>2. IsFiniteSet(DOMAIN artifacts)
  BY <1>1, FS_Interval
<1>3. \A i \in DOMAIN artifacts : artifacts[i].content.bytes \in Nat
  <2>1. \A a \in Artifacts : a.content.bytes \in Nat
    BY DEF Artifacts, Sizes
  <2>2. \A i \in DOMAIN artifacts : artifacts[i] \in Artifacts
    BY <1>1, ElementOfSeq
  <2> QED BY <2>1, <2>2
<1> QED BY <1>1, <1>2, <1>3 DEF BytesIn

\* Total is the sum of the sizes.
LEMMA TotalIsSum ==
  ASSUME NEW artifacts \in Seq(Artifacts)
  PROVE  Total(artifacts) = SumOf(BytesIn(artifacts), DOMAIN artifacts)
<1> DEFINE S == DOMAIN artifacts
           f == BytesIn(artifacts)
           Solves(g) == g = [s \in SUBSET S |->
                               IF s = {} THEN 0
                               ELSE artifacts[OneOf(s)].content.bytes + g[s \ {OneOf(s)}]]
           bytes == CHOOSE g : Solves(g)
<1>1. IsFiniteSet(S) /\ f \in [S -> Nat]
  BY BytesAreNumbers
<1>2. Total(artifacts) = bytes[S]
  BY DEF Total, MapThenSumSet, MapThenFoldSet, OneOf
<1>3. \A g : Solves(g) <=> Sums(g, f, S)
  <2>1. \A s \in SUBSET S : s # {} => f[OneOf(s)] = artifacts[OneOf(s)].content.bytes
    BY OneOfElement DEF BytesIn
  <2> QED BY <2>1 DEF Sums, SumStep
<1> HIDE DEF f, S
<1>4. PICK a \in [SUBSET S -> Nat] : Sums(a, f, S) /\ SumOf(f, S) = a[S]
  BY <1>1, SumOfSums
<1>5. Solves(bytes)
  <2> HIDE DEF Solves
  <2> QED BY <1>3, <1>4
<1>6. Sums(bytes, f, S)
  BY <1>3, <1>5
<1> HIDE DEF bytes
<1>7. bytes[S] = a[S]
  BY <1>1, <1>4, <1>6, SumsAgree
<1> QED BY <1>2, <1>4, <1>7 DEF f, S

\* No artifacts have no bytes.
LEMMA TotalOfNothing == Total(<<>>) = 0
<1>1. <<>> \in Seq(Artifacts) /\ DOMAIN <<>> = {}
  OBVIOUS
<1>2. BytesIn(<<>>) \in [{} -> Nat]
  BY <1>1, BytesAreNumbers
<1>3. SumOf(BytesIn(<<>>), {}) = 0
  BY <1>2, SumOfNothing
<1> QED BY <1>1, <1>3, TotalIsSum

\* One more artifact adds its bytes.
LEMMA TotalOfAppend ==
  ASSUME NEW artifacts \in Seq(Artifacts), NEW a \in Artifacts
  PROVE  Total(Append(artifacts, a)) = Total(artifacts) + a.content.bytes
<1> DEFINE n == Len(artifacts) + 1
           S == DOMAIN artifacts
           longer == Append(artifacts, a)
           f == BytesIn(artifacts)
           h == BytesIn(longer)
<1>1. /\ longer \in Seq(Artifacts) /\ DOMAIN longer = S \cup {n} /\ n \notin S
      /\ longer[n] = a /\ \A i \in S : longer[i] = artifacts[i]
  BY BytesAreNumbers, AppendProperties
<1> HIDE DEF longer, n
<1>2. /\ IsFiniteSet(S) /\ f \in [S -> Nat] /\ h \in [S \cup {n} -> Nat]
  BY <1>1, BytesAreNumbers
<1>3. (\A i \in S : f[i] = h[i]) /\ h[n] = a.content.bytes
  BY <1>1 DEF BytesIn
<1>4. Total(artifacts) = SumOf(f, S) /\ Total(longer) = SumOf(h, S \cup {n})
  BY <1>1, TotalIsSum
<1> HIDE DEF f, h, S
<1>5. SumOf(h, S \cup {n}) = SumOf(f, S) + h[n]
  <2>1. /\ IsFiniteSet(S) /\ n \notin S /\ f \in [S -> Nat] /\ h \in [S \cup {n} -> Nat]
        /\ \A i \in S : f[i] = h[i]
    BY <1>1, <1>2, <1>3
  <2> QED BY ONLY <2>1, SumOfAdd
<1> QED BY <1>3, <1>4, <1>5 DEF longer

-----------------------------------------------------------------------------
(* The artifact root                                                       *)

\* Where a runner is at work on its plan.
Working == {"launch", "caught", "register"} \cup Acting \cup Finishing

\* Whoever works on its plan has made the root, and what is under it is its own.
Rooted ==
  /\ \A r \in Runners : pc[r] \in Working => root = r
  /\ \A r \in Runners : store[r] # <<>> => root = r
  /\ \A path \in DOMAIN disk : disk[path].by \in {root, None}
  /\ root = None => DOMAIN disk = {}

FilesOf(artifacts) == {artifacts[i].path : i \in DOMAIN artifacts}

\* A file that is not registered may be there.
Loose(r) == error[r] \/ pc[r] \in {"register", "killed"}

\* Its artifacts are within the budget, what is captured has a name of its own, and the
\* files are the artifacts, but for the one that is being saved or was not.
Housed(r) ==
  /\ Total(store[r]) <= contract.max_artifact_bytes
  /\ \A i \in DOMAIN store[r] : store[r][i].kind \in {"dom", "aria"} =>
       store[r][i].path = <<"final", store[r][i].kind>>
  /\ root = r =>
       /\ \E path : DOMAIN disk \subseteq FilesOf(store[r]) \cup {path}
       /\ pc[r] = "register" => DOMAIN disk \subseteq FilesOf(store[r]) \cup {pending[r].path}
       /\ ~Loose(r) => DOMAIN disk \subseteq FilesOf(store[r])

\* Whoever has come to the end of its plan has made its last picture.
Pictured(r) ==
  (pc[r] = "close" \/ (pc[r] \in {"report", "exited"} /\ ~error[r])) /\ contract.final_screenshot =>
    <<"final", "screenshot">> \in FilesOf(store[r])

Kept == Rooted /\ \A r \in Runners : Housed(r)

\* A runner that has failed stays so.
LEMMA FailsOnly ==
  ASSUME Typed, NEW r \in Runners, Steps(r)
  PROVE  error' = error \/ error'[r]
<1>1. error \in [Runners -> BOOLEAN]
  BY DEF Typed, TypeOK
<1>2. error' = error \/ error' = Set(error, r, TRUE)
  BY DEF Steps, Run, Start, CheckRoot, MakeRoot, Launch, Perform, TakeScreenshot, Expect, ExpectFails,
         ExpectedSeen, SaveDownload, BeginSave, SaveEnds, ActionEnds, Final, CaptureDom, CaptureAria,
         CaptureShot, Capture, CaptureEnds, Caught, Close, Report, Hang, Kill, Normalize, Callback,
         RequestCallback, ResponseCallback, ConsoleCallback, EffectCallback, Navigate, Calls, Raise, runner
<1> QED BY <1>1, <1>2 DEF Set

\* Nobody comes to its plan but through MakeRoot.
LEMMA EntersPlan ==
  ASSUME Typed, NEW r \in Runners, Steps(r),
         pc'[r] \in Working
  PROVE  MakeRoot(r) \/ pc[r] \in Working
<1>1. pc \in [Runners -> {"idle"} \cup Running \cup Ended]
  BY DEF Typed, TypeOK
<1>2. CASE Start(r) \/ CheckRoot(r) \/ Report(r) \/ Hang(r) \/ Kill(r)
  BY <1>1, <1>2 DEF Start, CheckRoot, Report, Hang, Kill, Step, Raise, Set, Working, Acting, Finishing
<1>3. CASE Callback(r) \/ Normalize(r)
  BY <1>3 DEF Callback, Normalize, RequestCallback, ResponseCallback, ConsoleCallback, EffectCallback,
              Navigate, Calls
<1>4. CASE \/ Launch(r) \/ Perform(r) \/ TakeScreenshot(r) \/ Expect(r) \/ ExpectFails(r)
           \/ ExpectedSeen(r) \/ SaveDownload(r) \/ SaveEnds(r) \/ Final(r) \/ CaptureDom(r)
           \/ CaptureAria(r) \/ CaptureShot(r) \/ CaptureEnds(r) \/ Caught(r) \/ Close(r)
  BY <1>4 DEF Launch, Perform, TakeScreenshot, Expect, ExpectFails, ExpectedSeen, SaveDownload, SaveEnds, Final,
              CaptureDom, CaptureAria, CaptureShot, Capture, CaptureEnds, Caught, Close, Step, Working, Acting,
              Finishing
<1> QED BY <1>2, <1>3, <1>4 DEF Steps, Run

\* Until a file is registered its runner goes nowhere, but it may be killed; and what is
\* to be registered has been written.
LEMMA WaitsToRegister ==
  ASSUME Typed, NEW r \in Runners, Steps(r)
  PROVE  /\ pc[r] \in {"register", "killed"} => Settles(r) \/ pc'[r] \in {"register", "killed"}
         /\ Settles(r) => pc'[r] # "register"
         /\ pc'[r] = "register" => Writes(r) \/ (pc[r] = "register" /\ UNCHANGED pending)
<1>1. pc \in [Runners -> {"idle"} \cup Running \cup Ended] /\ error \in [Runners -> BOOLEAN] /\ At(r)
  BY DEF Typed, TypeOK, Placed
<1>2. CASE SaveEnds(r) \/ CaptureEnds(r)
  <2>1. pc'[r] # "register"
    BY <1>1, <1>2 DEF SaveEnds, CaptureEnds, ActionEnds, At, Saving, After, Raise, Set
  <2>2. ActionEnds(r, state[r], FALSE) \/ Raise(r, "caught") => error'[r]
    BY <1>1 DEF ActionEnds, Raise, Set
  <2>3. Settles(r)
    BY <1>2, <2>2 DEF SaveEnds, CaptureEnds, Settles
  <2> QED BY <2>1, <2>3
<1> SUFFICES ASSUME ~SaveEnds(r), ~CaptureEnds(r)
             PROVE  /\ pc[r] \in {"register", "killed"} => pc'[r] \in {"register", "killed"}
                    /\ pc'[r] = "register" => Writes(r) \/ (pc[r] = "register" /\ UNCHANGED pending)
  BY <1>2 DEF Settles
<1>3. CASE Callback(r) \/ Normalize(r)
  BY <1>1, <1>3 DEF Callback, Normalize, RequestCallback, ResponseCallback, ConsoleCallback, EffectCallback,
              Navigate, Calls, Calling, runner
<1>4. CASE Kill(r)
  BY <1>1, <1>4 DEF Kill, Set
<1>5. CASE \/ Start(r) \/ CheckRoot(r) \/ MakeRoot(r) \/ Launch(r) \/ Perform(r) \/ Expect(r) \/ ExpectFails(r)
           \/ ExpectedSeen(r) \/ Final(r) \/ Caught(r) \/ Close(r) \/ Report(r) \/ Hang(r)
  BY <1>1, <1>5 DEF Start, CheckRoot, MakeRoot, Launch, Perform, Expect, ExpectFails, ExpectedSeen, ActionEnds,
                    Final, Caught, Close, Report, Hang, Endless, Step, Raise, Set
<1>6. CASE TakeScreenshot(r) \/ SaveDownload(r) \/ CaptureDom(r) \/ CaptureAria(r) \/ CaptureShot(r)
  <2>1. pc[r] \notin {"register", "killed"}
    BY <1>6 DEF TakeScreenshot, SaveDownload, CaptureDom, CaptureAria, CaptureShot, Capture
  <2>2. \A a : Write(r, a) => disk' # disk
    BY DEF Write
  <2>3. (\E a : Write(r, a)) \/ pc'[r] # "register"
    <3>1. CASE CaptureDom(r) \/ CaptureAria(r) \/ CaptureShot(r)
      BY <1>1, <3>1 DEF CaptureDom, CaptureAria, CaptureShot, Capture, Raise, Set
    <3>2. CASE TakeScreenshot(r)
      BY <1>1, <3>2 DEF TakeScreenshot, BeginSave, ActionEnds, Raise, Set
    <3>3. CASE SaveDownload(r)
      BY <1>1, <3>3 DEF SaveDownload, BeginSave
    <3> QED BY <1>6, <3>1, <3>2, <3>3
  <2> QED BY <2>1, <2>2, <2>3, SavesOnly DEF Settles
<1> QED BY <1>2, <1>3, <1>4, <1>5, <1>6 DEF Steps, Run

\* A step that saves nothing and makes no root.
LEMMA KeptQuietly ==
  ASSUME Typed, Kept, NEW r \in Runners, Steps(r), UNCHANGED <<store, disk, root>>,
         ~Writes(r), ~Settles(r)
  PROVE  Kept'
<1>1. contract' = contract /\ Elsewhere(r) /\ (error' = error \/ error'[r])
  BY WhoWrites, AtAlways, FailsOnly DEF given
<1>2. ASSUME NEW q \in Runners
      PROVE  Housed(q)'
  <2>1. Loose(q) => Loose(q)'
    BY <1>1, WaitsToRegister DEF Loose, Elsewhere
  <2>2. pc'[q] = "register" => pc[q] = "register" /\ pending'[q] = pending[q]
    <3>1. q # r => pending'[q] = pending[q]
      BY PendingElsewhere
    <3> QED BY <1>1, <3>1, WaitsToRegister DEF Elsewhere
  <2>3. Housed(q)
    BY DEF Kept
  <2> QED BY <1>1, <2>1, <2>2, <2>3 DEF Housed, FilesOf
<1>3. ASSUME NEW q \in Runners, pc'[q] \in Working
      PROVE  root' = q
  <2>1. CASE q # r
    BY <1>1, <1>3, <2>1 DEF Elsewhere, Kept, Rooted
  <2>2. CASE q = r
    <3>1. CASE MakeRoot(r)
      <4>1. /\ pc \in [Runners -> {"idle"} \cup Running \cup Ended] /\ root \in Runners \cup {None}
        BY DEF Typed, TypeOK
      <4>2. root = r
        BY <1>3, <2>2, <3>1, <4>1, NoneAssumption DEF MakeRoot, Raise, Set, Working, Acting, Finishing
      <4> QED BY <2>2, <4>2
    <3>2. CASE ~MakeRoot(r)
      BY <1>3, <2>2, <3>2, EntersPlan DEF Kept, Rooted
    <3> QED BY <3>1, <3>2
  <2> QED BY <2>1, <2>2
<1> QED BY <1>2, <1>3 DEF Kept, Rooted

\* A new root is empty.
LEMMA KeptWithRoot ==
  ASSUME Typed, Kept, NEW r \in Runners, MakeRoot(r), root' # root
  PROVE  Kept'
<1>1. /\ root = None /\ root' = r /\ pc[r] = "mkdir" /\ UNCHANGED <<contract, store, disk>>
      /\ \A q \in Runners \ {r} : pc'[q] = pc[q] /\ error'[q] = error[q]
  BY DEF MakeRoot, Raise, Set, given, Typed, TypeOK
<1>2. DOMAIN disk = {} /\ \A q \in Runners : store[q] = <<>>
  BY <1>1, NoneAssumption DEF Kept, Rooted
<1>3. ASSUME NEW q \in Runners
      PROVE  Housed(q)'
  <2>1. Housed(q)
    BY DEF Kept
  <2> QED BY <1>1, <1>2, <2>1 DEF Housed, FilesOf
<1>4. ASSUME NEW q \in Runners, pc'[q] \in Working
      PROVE  root' = q
  BY <1>1, <1>4, NoneAssumption DEF Kept, Rooted
<1>5. (\A path \in DOMAIN disk' : disk'[path].by \in {root', None}) /\ root' # None
  BY <1>1, <1>2, NoneAssumption
<1> QED BY <1>1, <1>2, <1>3, <1>4, <1>5 DEF Kept, Rooted

\* Whoever saves a file has made the root, and no other runner has anything there.
LEMMA KeptBySaver ==
  ASSUME Typed, Kept, NEW r \in Runners, Steps(r), pc[r] \in Working, root' = root, Housed(r)',
         \A path \in DOMAIN disk' : disk'[path].by \in {root, None}
  PROVE  Kept'
<1>1. contract' = contract /\ Elsewhere(r) /\ root = r
  BY WhoWrites, AtAlways DEF given, Kept, Rooted
<1>2. ASSUME NEW q \in Runners \ {r}
      PROVE  Housed(q)' /\ store'[q] = store[q]
  <2>1. store'[q] = store[q]
    BY PendingElsewhere
  <2>2. Housed(q) /\ root' # q
    BY <1>1 DEF Kept
  <2> QED BY <1>1, <2>1, <2>2 DEF Housed
<1>3. ASSUME NEW q \in Runners, pc'[q] \in Working
      PROVE  root' = q
  <2>1. q # r => pc[q] \in Working
    BY <1>1, <1>3 DEF Elsewhere
  <2> QED BY <1>1, <2>1 DEF Kept, Rooted
<1>4. \A q \in Runners : store'[q] # <<>> => root' = q
  BY <1>1, <1>2 DEF Kept, Rooted
<1>5. root' # None
  BY <1>1, NoneAssumption
<1>6. \A path \in DOMAIN disk' : disk'[path].by \in {root', None}
  OBVIOUS
<1> QED BY <1>2, <1>3, <1>4, <1>5, <1>6 DEF Kept, Rooted

\* A file that is begun is the root's runner's.
LEMMA KeptWritten ==
  ASSUME Typed, Kept, NEW r \in Runners, Steps(r), Writes(r), root' = root
  PROVE  Kept'
<1>1. PICK a : Begins(r, a) /\ Write(r, a) /\ store' = store
  BY DEF Writes
<1>2. pc[r] \in Acting \cup Finishing /\ ~error[r]
  BY <1>1 DEF Begins, Typed, Placed, At
<1>3. root = r /\ contract' = contract /\ Housed(r) /\ DOMAIN disk \subseteq FilesOf(store[r])
  <2>1. root = r /\ Housed(r) /\ ~Loose(r)
    BY <1>2 DEF Kept, Rooted, Working, Loose, Acting, Finishing
  <2> QED BY <2>1, WhoWrites DEF given, Housed
<1>4. /\ pc'[r] = "register" /\ pending'[r] = a
      /\ disk' = [p \in DOMAIN disk \cup {a.path} |-> IF p = a.path THEN a.content ELSE disk[p]]
  BY <1>1 DEF Write, Set, Typed, TypeOK
<1>5. DOMAIN disk' \subseteq FilesOf(store'[r]) \cup {a.path}
  BY <1>1, <1>3, <1>4
<1>6. \E path : DOMAIN disk' \subseteq FilesOf(store'[r]) \cup {path}
  BY <1>5
<1>7. Housed(r)'
  BY <1>1, <1>3, <1>4, <1>5, <1>6 DEF Housed, Loose, FilesOf
<1>8. \A path \in DOMAIN disk' : disk'[path].by \in {root, None}
  BY <1>1, <1>3, <1>4 DEF Begins, Kept, Rooted
<1> QED BY <1>2, <1>7, <1>8, KeptBySaver DEF Working

\* It is registered if it fits.
LEMMA KeptSettled ==
  ASSUME Typed, Kept, NEW r \in Runners, Steps(r), Settles(r), root' = root
  PROVE  Kept'
<1> DEFINE a == pending[r]
<1>1. /\ pc[r] = "register" /\ a \in Artifacts /\ Named(a)
      /\ Register(r) \/ (RegisterFails(r) /\ error'[r])
  BY DEF Settles, Typed, Placed, At, Saving
<1>2. /\ root = r /\ contract' = contract /\ Housed(r) /\ store \in [Runners -> Seq(Artifacts)]
      /\ DOMAIN disk \subseteq FilesOf(store[r]) \cup {a.path}
  <2>1. root = r /\ Housed(r)
    BY <1>1 DEF Kept, Rooted, Working
  <2> QED BY <1>1, <2>1, WhoWrites DEF given, Housed, Typed, TypeOK
<1>3. pc'[r] # "register"
  BY WaitsToRegister
<1>4. DOMAIN disk' \subseteq DOMAIN disk /\ \A path \in DOMAIN disk' : disk'[path] = disk[path]
  BY <1>1 DEF Register, RegisterFails, Restrict
<1>5. \A path \in DOMAIN disk' : disk'[path].by \in {root, None}
  BY <1>4 DEF Kept, Rooted
<1>6. Housed(r)'
  <2>1. CASE Register(r)
    <3> DEFINE longer == Append(store[r], a)
    <3>1. store'[r] = longer
      BY <1>2, <2>1 DEF Register
    <3>2. /\ store[r] \in Seq(Artifacts) /\ longer \in Seq(Artifacts)
          /\ DOMAIN longer = DOMAIN store[r] \cup {Len(store[r]) + 1}
          /\ longer[Len(store[r]) + 1] = a /\ \A i \in DOMAIN store[r] : longer[i] = store[r][i]
      BY <1>1, <1>2, BytesAreNumbers, AppendProperties
    <3>3. Total(longer) <= contract.max_artifact_bytes
      <4>1. Total(store[r]) + a.content.bytes <= contract.max_artifact_bytes
        BY <2>1 DEF Register, Fits
      <4> QED BY <1>1, <3>2, <4>1, TotalOfAppend
    <3> HIDE DEF longer, a
    <3>4. \A i \in DOMAIN longer : longer[i].kind \in {"dom", "aria"} =>
            longer[i].path = <<"final", longer[i].kind>>
      BY <1>1, <1>2, <3>2 DEF Housed, Named
    <3>5. DOMAIN disk' \subseteq FilesOf(longer)
      BY <1>2, <1>4, <3>2 DEF FilesOf
    <3>6. \E path : DOMAIN disk' \subseteq FilesOf(longer) \cup {path}
      BY <3>5
    <3>7. FilesOf(store[r])' = FilesOf(longer)
      BY <3>1 DEF FilesOf
    <3> QED BY <1>2, <1>3, <3>1, <3>3, <3>4, <3>5, <3>6, <3>7, ZenonT(60) DEF Housed
  <2>2. CASE RegisterFails(r) /\ error'[r]
    <3>1. store' = store /\ Loose(r)'
      BY <2>2 DEF RegisterFails, Loose
    <3>2. \E path : DOMAIN disk' \subseteq FilesOf(store[r]) \cup {path}
      BY <1>2, <1>4
    <3> QED BY <1>2, <1>3, <3>1, <3>2, ZenonT(60) DEF Housed, FilesOf
  <2> QED BY <1>1, <2>1, <2>2
<1> QED BY <1>1, <1>5, <1>6, KeptBySaver DEF Working

\* Every step keeps it.
LEMMA KeptStep ==
  ASSUME Typed, Kept, [Next]_vars
  PROVE  Kept'
<1>1. ASSUME NEW r \in Runners, Steps(r)
      PROVE  Kept'
  <2>1. CASE MakeRoot(r) /\ root' # root
    BY <2>1, KeptWithRoot
  <2>2. CASE Writes(r) /\ root' = root
    BY <1>1, <2>2, KeptWritten
  <2>3. CASE Settles(r) /\ root' = root
    BY <1>1, <2>3, KeptSettled
  <2>4. CASE UNCHANGED <<store, disk, root>> /\ ~Writes(r) /\ ~Settles(r)
    BY <1>1, <2>4, KeptQuietly
  <2>5. root' = root \/ MakeRoot(r)
    BY <1>1, WhoWrites
  <2> QED BY <1>1, <2>1, <2>2, <2>3, <2>4, <2>5, SavesOnly
<1>2. ASSUME Tamper
      PROVE  Kept'
  <2>1. UNCHANGED <<contract, pc, store, pending, error, root>>
    BY <1>2 DEF Tamper, given, runner
  <2>2. DOMAIN disk' \subseteq DOMAIN disk /\ \A path \in DOMAIN disk' : disk'[path].by \in {root, None}
    <3>1. disk \in [DOMAIN disk -> [by : Runners \cup {None}, bytes : Sizes]]
      BY DEF Typed, TypeOK
    <3>2. \A path \in DOMAIN disk : disk[path].by \in {root, None}
      BY DEF Kept, Rooted
    <3> QED BY <1>2, <3>1, <3>2 DEF Tamper, Content, Restrict
  <2>3. ASSUME NEW q \in Runners
        PROVE  Housed(q)'
    <3>1. Housed(q)
      BY DEF Kept
    <3> QED BY <2>1, <2>2, <3>1 DEF Housed, Loose, FilesOf
  <2> QED BY <2>1, <2>2, <2>3 DEF Kept, Rooted
<1>3. ASSUME UNCHANGED vars
      PROVE  Kept'
  <2>1. UNCHANGED <<contract, pc, store, pending, error, root, disk>>
    BY <1>3 DEF vars, given, runner, shared
  <2>2. \A q \in Runners : Housed(q)'
    BY <2>1 DEF Kept, Housed, Loose, FilesOf
  <2> QED BY <2>1, <2>2 DEF Kept, Rooted
<1>4. Next => Tamper \/ \E r \in Runners : Steps(r)
  BY DEF Next, Steps
<1> QED BY <1>1, <1>2, <1>3, <1>4

\* Every state has it.
LEMMA KeptAlways == Spec => []Kept
<1>1. Init => Kept
  <2> SUFFICES ASSUME Init
               PROVE  Kept
    OBVIOUS
  <2>1. contract.max_artifact_bytes \in Nat
    BY LimitsAreNumbers DEF Init
  <2>2. DOMAIN disk = {} /\ \A r \in Runners : store[r] = <<>> /\ pc[r] = "idle" /\ root # r
    BY NoneAssumption DEF Init
  <2>3. \A r \in Runners : Housed(r)
    BY <2>1, <2>2, TotalOfNothing DEF Housed
  <2> QED BY <2>2, <2>3 DEF Kept, Rooted, Working, Acting, Finishing
<1>2. Typed /\ Kept /\ [Next]_vars => Kept'
  BY KeptStep
<1> QED BY <1>1, <1>2, TypedAlways, PTL DEF Spec

\* The last picture is made on the way to the end of the plan only.
LEMMA PicturedStep ==
  ASSUME Typed, \A r \in Runners : Pictured(r), [Next]_vars
  PROVE  \A r \in Runners : Pictured(r)'
<1>1. ASSUME NEW r \in Runners, Steps(r), NEW q \in Runners
      PROVE  Pictured(q)'
  <2>1. contract' = contract /\ Elsewhere(r) /\ Pictured(q)
    BY <1>1, WhoWrites, AtAlways DEF given
  <2>2. CASE q # r
    <3>1. store'[q] = store[q]
      BY <1>1, <2>2, PendingElsewhere
    <3> QED BY <2>1, <2>2, <3>1 DEF Pictured, Elsewhere, FilesOf
  <2>3. CASE q = r
    <3>1. /\ pc \in [Runners -> {"idle"} \cup Running \cup Ended] /\ error \in [Runners -> BOOLEAN]
          /\ store \in [Runners -> Seq(Artifacts)] /\ At(r)
      BY DEF Typed, TypeOK, Placed
    <3>2. CASE CaptureEnds(r)
      <4>1. CASE Register(r) /\ pending[r].kind = "screenshot"
        <5> DEFINE longer == Append(store[r], pending[r])
        <5>1. pending[r] \in Artifacts /\ pending[r].path = <<"final", "screenshot">>
          BY <3>1, <3>2, <4>1 DEF CaptureEnds, At, Saving, Named
        <5>2. store'[r] = longer
          BY <3>1, <4>1 DEF Register
        <5>3. Len(store[r]) + 1 \in DOMAIN longer /\ longer[Len(store[r]) + 1] = pending[r]
          BY <3>1, <5>1, BytesAreNumbers, AppendProperties
        <5> HIDE DEF longer
        <5>4. <<"final", "screenshot">> \in FilesOf(longer)
          BY <5>1, <5>3 DEF FilesOf
        <5> QED BY <2>3, <5>2, <5>4 DEF Pictured, FilesOf
      <4>2. CASE ~(Register(r) /\ pending[r].kind = "screenshot")
        <5>1. pc'[r] \in {"aria", "shot", "caught"}
          BY <3>1, <3>2, <4>2 DEF CaptureEnds, At, Saving, After, Raise, Set
        <5> QED BY <2>3, <5>1 DEF Pictured
      <4> QED BY <4>1, <4>2
    <3>3. CASE SaveEnds(r)
      <4>1. pc'[r] \in {"action", "final", "caught"}
        BY <3>1, <3>3 DEF SaveEnds, ActionEnds, Raise, Set
      <4> QED BY <2>3, <4>1 DEF Pictured
    <3>4. CASE TakeScreenshot(r) \/ SaveDownload(r) \/ Perform(r) \/ ExpectFails(r) \/ ExpectedSeen(r)
      <4>1. pc'[r] \in {"action", "final", "caught", "register"}
        BY <3>1, <3>4 DEF TakeScreenshot, SaveDownload, BeginSave, Write, Perform, ExpectFails, ExpectedSeen,
                          ActionEnds, Raise, Set
      <4> QED BY <2>3, <4>1 DEF Pictured
    <3>5. CASE CaptureDom(r) \/ CaptureAria(r) \/ CaptureShot(r)
      <4>1. \/ pc'[r] \in {"aria", "shot", "caught", "register"}
            \/ ~contract.final_screenshot
        BY <3>1, <3>5 DEF CaptureDom, CaptureAria, CaptureShot, Capture, Write, Raise, Set
      <4> QED BY <2>1, <2>3, <4>1 DEF Pictured
    <3>6. CASE Start(r) \/ CheckRoot(r) \/ MakeRoot(r) \/ Launch(r) \/ Expect(r) \/ Final(r) \/ Hang(r) \/ Kill(r)
      <4>1. pc'[r] \notin {"close", "report", "exited"} \/ (pc'[r] = "report" /\ error'[r])
        BY <3>1, <3>6 DEF Start, CheckRoot, MakeRoot, Launch, Expect, Final, Hang, Kill, Step, Raise, Set
      <4> QED BY <2>3, <4>1 DEF Pictured
    <3>7. CASE Caught(r)
      <4>1. error'[r] /\ pc'[r] = "report"
        BY <3>1, <3>7 DEF Caught, Step, At
      <4> QED BY <2>3, <4>1 DEF Pictured
    <3>8. CASE Close(r) \/ Report(r)
      <4>1. /\ store' = store /\ pc'[r] \in {"report", "exited"}
            /\ ~error'[r] => pc[r] = "close" \/ (pc[r] = "report" /\ ~error[r])
        BY <3>1, <3>8 DEF Close, Report, Raise, Set
      <4> QED BY <2>1, <2>3, <4>1 DEF Pictured, FilesOf
    <3>9. CASE Callback(r) \/ Normalize(r)
      <4>1. UNCHANGED <<store, pc, error>>
        BY <3>9 DEF Callback, Normalize, RequestCallback, ResponseCallback, ConsoleCallback, EffectCallback,
                    Navigate, Calls, runner
      <4> QED BY <2>1, <4>1 DEF Pictured, FilesOf
    <3> QED BY <1>1, <3>2, <3>3, <3>4, <3>5, <3>6, <3>7, <3>8, <3>9 DEF Steps, Run
  <2> QED BY <2>2, <2>3
<1>2. ASSUME Tamper \/ UNCHANGED vars, NEW q \in Runners
      PROVE  Pictured(q)'
  <2>1. UNCHANGED <<contract, pc, store, error>>
    BY <1>2 DEF Tamper, vars, runner, given
  <2> QED BY <2>1 DEF Pictured, FilesOf
<1>3. Next => Tamper \/ \E r \in Runners : Steps(r)
  BY DEF Next, Steps
<1> QED BY <1>1, <1>2, <1>3

\* Every plan that was carried out has its last picture.
LEMMA PicturedAlways == Spec => [](\A r \in Runners : Pictured(r))
<1>1. Init => \A r \in Runners : Pictured(r)
  BY DEF Init, Pictured
<1>2. Typed /\ (\A r \in Runners : Pictured(r)) /\ [Next]_vars => (\A r \in Runners : Pictured(r))'
  BY PicturedStep
<1> QED BY <1>1, <1>2, TypedAlways, PTL DEF Spec

\* The artifacts under the root are of one runner, for any number of runners that are
\* started with one run id, at any time: mkdir lets one of them through, and it alone saves
\* (_ArtifactStore.__init__).
THEOREM ArtifactsAreOfOneRun == Spec => []ArtifactsOfOneRun
<1>1. Kept => ArtifactsOfOneRun
  <2> SUFFICES ASSUME Kept, NEW r \in Runners, store[r] # <<>>
               PROVE  /\ \A other \in Runners \ {r} : store[other] = <<>>
                      /\ \A path \in DOMAIN disk : disk[path].by \in {r, None}
    BY DEF ArtifactsOfOneRun
  <2>1. root = r
    BY DEF Kept, Rooted
  <2> QED BY <2>1 DEF Kept, Rooted
<1> QED BY <1>1, KeptAlways, PTL

\* The files under the root are the registered ones, within the budget, and at most one
\* more: the one on which the plan has failed, or that was being saved, even when the runner
\* was killed (_ArtifactStore.write_text, screenshot, download, _register).
THEOREM DiskIsBounded == Spec => []DiskBounded
<1>1. Kept => DiskBounded
  <2> SUFFICES ASSUME Kept, NEW r \in Runners
               PROVE  /\ Total(store[r]) <= contract.max_artifact_bytes
                      /\ root = r => Cardinality(DOMAIN disk \ FilesOf(store[r])) <= (IF Loose(r) THEN 1 ELSE 0)
    BY DEF DiskBounded, FilesOf, Loose
  <2>1. Housed(r)
    BY DEF Kept
  <2>2. ASSUME root = r
        PROVE  Cardinality(DOMAIN disk \ FilesOf(store[r])) <= (IF Loose(r) THEN 1 ELSE 0)
    <3>1. PICK path : DOMAIN disk \subseteq FilesOf(store[r]) \cup {path}
      BY <2>1, <2>2 DEF Housed
    <3>2. CASE Loose(r)
      <4>1. DOMAIN disk \ FilesOf(store[r]) \in SUBSET {path}
        BY <3>1
      <4>2. Cardinality(DOMAIN disk \ FilesOf(store[r])) <= Cardinality({path})
        <5>1. IsFiniteSet({path})
          BY FS_Singleton
        <5> QED BY <4>1, <5>1, FS_Subset
      <4> QED BY <3>2, <4>2, FS_Singleton
    <3>3. CASE ~Loose(r)
      <4>1. DOMAIN disk \ FilesOf(store[r]) = {}
        BY <2>1, <2>2, <3>3 DEF Housed
      <4> QED BY <3>3, <4>1, FS_EmptySet
    <3> QED BY <3>2, <3>3
  <2> QED BY <2>1, <2>2 DEF Housed
<1> QED BY <1>1, KeptAlways, PTL

\* Evidence is accepted only of files that are as the runner has written them, however they
\* were changed before, and with every capture the contract asks for
\* (BrowserPlaywrightAdapter._validate_artifacts).
THEOREM AcceptanceIsOfTheWritten == Spec => AcceptedAsWritten
<1> DEFINE Written ==
      \A r \in Runners : ~Accepted(evidence[r]) /\ Accepted(evidence'[r]) =>
        /\ \A i \in DOMAIN store[r] : disk[store[r][i].path] = store[r][i].content
        /\ contract.capture_dom => <<"final", "dom">> \in DOMAIN disk
        /\ contract.capture_aria => <<"final", "aria">> \in DOMAIN disk
        /\ contract.final_screenshot => <<"final", "screenshot">> \in DOMAIN disk
           Drawn == \A r \in Runners : Pictured(r)
<1>1. Typed /\ Reported /\ Kept /\ Drawn /\ [Next]_vars => [Written]_vars
  <2> SUFFICES ASSUME Typed, Reported, Kept, Drawn, Next, NEW r \in Runners,
                      ~Accepted(evidence[r]), Accepted(evidence'[r])
               PROVE  /\ \A i \in DOMAIN store[r] : disk[store[r][i].path] = store[r][i].content
                      /\ contract.capture_dom => <<"final", "dom">> \in DOMAIN disk
                      /\ contract.capture_aria => <<"final", "aria">> \in DOMAIN disk
                      /\ contract.final_screenshot => <<"final", "screenshot">> \in DOMAIN disk
    OBVIOUS
  <2>1. Normalize(r)
    <3>1. Tamper => evidence' = evidence
      BY DEF Tamper, outcome
    <3>2. PICK q \in Runners : Steps(q)
      <4>1. Next => Tamper \/ \E q \in Runners : Steps(q)
        BY DEF Next, Steps
      <4> QED BY <3>1, <4>1
    <3>3. q = r
      BY <3>2, OthersKept
    <3> QED BY <3>2, <3>3, WhoWrites
  <2>2. /\ receipt[r] # None /\ receipt[r].passed
        /\ \E told \in BOOLEAN : ArtifactsMatch(told, receipt[r].artifacts, receipt[r].passed)
    <3>1. PICK told \in BOOLEAN :
            evidence'[r] = (IF ~Continuous(receipt[r]) THEN Rejected
             ELSE [receipt |-> TRUE, passed |-> receipt[r].passed,
                   policy |-> receipt[r].failed_checks = {} /\ receipt[r].violations = {},
                   artifacts |-> ArtifactsMatch(told, receipt[r].artifacts, receipt[r].passed),
                   denied |-> "Denied" \in Range(receipt[r].network)])
      BY <2>1 DEF Normalize, Set, Typed, TypeOK
    <3>2. Continuous(receipt[r])
      BY <3>1 DEF Accepted, Rejected
    <3> QED BY <3>1, <3>2 DEF Accepted, Continuous
  <2>3. receipt[r].artifacts = store[r] /\ ~error[r] /\ pc[r] = "exited"
    BY <2>2 DEF Reported, ReportOf, Typed, TypeOK
  <2>4. \A i \in DOMAIN store[r] :
          store[r][i].path \in DOMAIN disk /\ disk[store[r][i].path] = store[r][i].content
    BY <2>2, <2>3 DEF ArtifactsMatch
  <2>5. ASSUME NEW kind \in {"dom", "aria"}, kind \in Kinds(store[r])
        PROVE  <<"final", kind>> \in DOMAIN disk
    <3>1. PICK i \in DOMAIN store[r] : store[r][i].kind = kind
      BY <2>5 DEF Kinds
    <3>2. store[r][i].path = <<"final", kind>>
      BY <3>1 DEF Kept, Housed
    <3> QED BY <2>4, <3>2
  <2>6. /\ contract.capture_dom => "dom" \in Kinds(store[r])
        /\ contract.capture_aria => "aria" \in Kinds(store[r])
    BY <2>2, <2>3 DEF ArtifactsMatch
  <2>7. contract.final_screenshot => <<"final", "screenshot">> \in DOMAIN disk
    BY <2>3, <2>4 DEF Pictured, FilesOf
  <2> QED BY <2>4, <2>5, <2>6, <2>7
<1>2. Spec => [][Written]_vars
  BY <1>1, TypedAlways, ReportedAlways, KeptAlways, PicturedAlways, PTL DEF Spec
<1> QED BY <1>2 DEF AcceptedAsWritten
=============================================================================
