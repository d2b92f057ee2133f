------------------------------ MODULE BrowserRunner ------------------------------
(***************************************************************************)
(* execute_browser of browser_runner.py, the contract it runs and the      *)
(* receipt it prints (browser_contract.py), and the adapter that reads the *)
(* receipt (browser_adapter.py).                                           *)
(*                                                                         *)
(* A runner drives one page through synchronous Playwright calls.  While   *)
(* it is inside a call, and only then, the browser calls back: requests to *)
(* route, responses, console messages, new pages, dialogs and downloads.   *)
(* Runners that were started with one run id share an artifact root.       *)
(* Every request is taken to reach the route handler.                      *)
(***************************************************************************)
EXTENDS Naturals, Sequences, FiniteSets, Functions, FiniteSetsExt, TLC

CONSTANTS
  Runners,       \* processes started for one run id, in one workspace
  Contracts,     \* the BrowserContracts they may be given
  None,          \* Python's None
  MaxCallbacks,  \* bound on the callbacks of a run
  MaxKills,      \* bound on runners killed
  MaxTampers     \* bound on files changed after their runner has ended

ASSUME BoundsAssumption ==
  /\ MaxCallbacks \in Nat /\ MaxKills \in Nat /\ MaxTampers \in Nat
ASSUME NoneAssumption == None \notin Runners

Effects == {"popup", "dialog", "download"}

\* An action: goto, an action on an element (fill, select, press, wait_for), an
\* assertion, a screenshot with its name, or a click with the effect it
\* declares.  one_expected_side_effect: there is at most one.
Goto == [kind |-> "goto"]
Act == [kind |-> "act"]
AssertPage == [kind |-> "assert"]
Screenshot(stem, suffixed) == [kind |-> "screenshot", name |-> <<stem, suffixed>>]
Click(effect, name) == [kind |-> "click", expect |-> effect, name |-> name]

\* BrowserContract.validate_contract, on the names of screenshots: "a" and
\* "a.png" differ here, and are one file to the runner.
ValidContract(c) ==
  /\ c.actions # <<>>
  /\ \A i, j \in DOMAIN c.actions :
       (i # j /\ c.actions[i].kind = "screenshot" /\ c.actions[j].kind = "screenshot")
         => c.actions[i].name # c.actions[j].name

ASSUME ContractsAssumption == \A c \in Contracts : ValidContract(c)

\* Its fields, with their types.
ASSUME FieldsAssumption == \A c \in Contracts :
  /\ c.actions \in Seq(Range(c.actions))
  /\ {c.max_events, c.max_network_events, c.max_console_bytes, c.max_pages,
      c.max_artifact_bytes, c.max_download_bytes, c.max_dom_bytes, c.max_aria_bytes} \subseteq Nat

VARIABLES
  contract,   \* the contract of this run id
  pc,         \* where in execute_browser a runner is, and how it has ended
  driver,     \* the installed driver: the declared one, another, or none
  browser,    \* is a runner's browser "none", "open" or "closed"?
  page,       \* origin of what its page shows: "allowed", "blank", "invalid"
  index,      \* the action it is at
  window,     \* the effect that is expected now, or None
  observed,   \* has the expected effect been observed in this window?
  state,      \* the _ExecutionState of a runner
  store,      \* its _ArtifactStore: the registered artifacts
  pending,    \* the artifact whose file it has begun to write, until it is registered
  error,      \* has an exception ended the plan?
  receipt,    \* the BrowserReceipt it has printed, or None
  evidence,   \* what normalize_evidence has made of it, or None
  root,       \* the runner that has created the artifact root, or None
  disk,       \* the files under that root, by their path
  happened,   \* history: foreign requests and undeclared effects, recorded or not
  callbacks, kills, tampers

given == <<contract, driver>>
runner == <<browser, page, index, window, observed, state, store, pending, error>>
outcome == <<receipt, evidence>>
shared == <<root, disk>>
counters == <<callbacks, kills, tampers>>
vars == <<given, pc, runner, outcome, shared, happened, counters>>

-----------------------------------------------------------------------------
(* _ExecutionState                                                         *)

NewState ==
  [events |-> 0, network |-> <<>>, console |-> 0, pages |-> 0, page_count |-> 0,
   violations |-> {}, overflow |-> {}, asserted |-> 0, failed |-> FALSE,
   lost |-> 0]   \* history: what was dropped from the three logs

Overflow(s, log) ==
  [s EXCEPT !.overflow = @ \cup {log}, !.violations = @ \cup {log}, !.lost = @ + 1]

\* Mutant: one event too many is kept.
EventOffByOne(s) ==
  IF s.events <= contract.max_events THEN [s EXCEPT !.events = @ + 1]
  ELSE Overflow(s, "event")

Event(s) ==
  IF s.events < contract.max_events THEN [s EXCEPT !.events = @ + 1]
  ELSE Overflow(s, "event")

Network(s, action) ==
  IF Len(s.network) < contract.max_network_events
  THEN [s EXCEPT !.network = Append(@, action)]
  ELSE Overflow(s, "network")

Console(s, bytes) ==
  IF s.console + bytes <= contract.max_console_bytes
  THEN [s EXCEPT !.console = @ + bytes]
  ELSE Overflow(s, "console")

Violation(s, value) == Event([s EXCEPT !.violations = @ \cup {value}])

\* page_count, which callbacks no longer change
Counted(s) == [s EXCEPT !.page_count = s.pages]

\* attach_page
Attach(s) == Event([s EXCEPT !.pages = @ + 1])

\* Mutant: a denied request is not on record.
RouteUnrecorded(s, origin) ==
  IF origin = "foreign" THEN Violation(s, "origin") ELSE Network(s, "Allowed")

\* route_handler
Route(s, origin) ==
  IF origin = "foreign"
  THEN Violation(Network(s, "Denied"), "origin")
  ELSE Network(s, "Allowed")

\* on_new_page, on_dialog and on_download; an expected download has no
\* violation and is saved by the action.
NewPage(s, expected) ==
  IF expected THEN Attach(s) ELSE Violation(Attach(s), "popup")

Undeclared(s, effect, expected) ==
  IF expected THEN Event(s) ELSE Violation(Event(s), effect)

-----------------------------------------------------------------------------
Init ==
  /\ contract \in Contracts
  /\ pc = [r \in Runners |-> "idle"]
  /\ driver \in {"declared", "other", "unparsable", "missing"}
  /\ browser = [r \in Runners |-> "none"]
  /\ page = [r \in Runners |-> "blank"]
  /\ index = [r \in Runners |-> 1]
  /\ window = [r \in Runners |-> None]
  /\ observed = [r \in Runners |-> FALSE]
  /\ state = [r \in Runners |-> NewState]
  /\ store = [r \in Runners |-> <<>>]
  /\ pending = [r \in Runners |-> None]
  /\ error = [r \in Runners |-> FALSE]
  /\ receipt = [r \in Runners |-> None]
  /\ evidence = [r \in Runners |-> None]
  /\ root = None /\ disk = <<>>
  /\ happened = [r \in Runners |-> {}]
  /\ callbacks = 0 /\ kills = 0 /\ tampers = 0

Step(r, from, to) == pc[r] = from /\ pc' = [pc EXCEPT ![r] = to]
Set(f, r, value) == [f EXCEPT ![r] = value]

Start(r) ==
  /\ Step(r, "idle", "root")
  /\ UNCHANGED <<given, runner, outcome, shared, happened, counters>>

Raise(r, to) == pc' = Set(pc, r, to) /\ error' = Set(error, r, TRUE)

\* _ArtifactStore.__init__: a root that exists is refused.
CheckRoot(r) ==
  /\ pc[r] = "root"
  /\ \/ root # None /\ Raise(r, "report")
     \/ root = None /\ pc' = Set(pc, r, "mkdir") /\ UNCHANGED error
  /\ UNCHANGED <<given, browser, page, index, window, observed, state, store, pending,
                 outcome, shared, happened, counters>>

\* Mutant: mkdir(exist_ok=True).
MakeRootAnyway(r) ==
  /\ pc[r] = "mkdir"
  /\ root' = r
  /\ IF driver = "declared" THEN pc' = Set(pc, r, "launch") /\ UNCHANGED error
     ELSE Raise(r, "report")
  /\ UNCHANGED <<given, browser, page, index, window, observed, state, store, pending,
                 outcome, disk, happened, counters>>

\* mkdir refuses as well if another runner was faster.  Only now does a driver
\* that does not match end the run: it leaves its root behind.
MakeRoot(r) ==
  /\ pc[r] = "mkdir"
  /\ \/ root # None /\ Raise(r, "report") /\ UNCHANGED root
     \/ root = None /\ root' = r /\ driver # "declared" /\ Raise(r, "report")
     \/ /\ root = None /\ root' = r /\ driver = "declared"
        /\ pc' = Set(pc, r, "launch") /\ UNCHANGED error
  /\ UNCHANGED <<given, browser, page, index, window, observed, state, store, pending,
                 outcome, disk, happened, counters>>

\* launch, new_context, new_page and the handlers; each may fail.
Launch(r) ==
  /\ pc[r] = "launch"
  /\ \/ /\ pc' = Set(pc, r, "action")
        /\ browser' = Set(browser, r, "open")
        /\ state' = Set(state, r, Attach(state[r]))
        /\ UNCHANGED error
     \/ /\ Raise(r, "caught")
        /\ \E b \in {"none", "open"} : browser' = Set(browser, r, b)
        /\ UNCHANGED state
  /\ UNCHANGED <<given, page, index, window, observed, store, pending, outcome, shared,
                 happened, counters>>

-----------------------------------------------------------------------------
(* Callbacks                                                               *)

Calling == {"action", "expect", "final", "dom", "aria", "shot", "caught", "close", "hung"}

\* A screenshot and a download are written by a call, a text is not.
Calls(r) ==
  /\ pc[r] \in Calling \/ (pc[r] = "register" /\ pending[r].kind \in {"screenshot", "download"})
  /\ browser[r] = "open" /\ state[r].pages > 0
  /\ callbacks < MaxCallbacks /\ callbacks' = callbacks + 1
  /\ UNCHANGED <<given, pc, browser, index, window, store, pending, error,
                 outcome, shared, kills, tampers>>

Did(r, what) == happened' = [happened EXCEPT ![r] = @ \cup what]

\* about:, data: and blob: have no origin, and are allowed.
RequestCallback(r) ==
  \E origin \in {"allowed", "foreign"} :
    /\ Calls(r)
    /\ state' = Set(state, r, Route(state[r], origin))
    /\ Did(r, {origin} \cap {"foreign"})
    /\ UNCHANGED <<page, observed>>

\* response and requestfailed
ResponseCallback(r) ==
  /\ Calls(r)
  /\ state' = Set(state, r, Network(state[r], "Observed"))
  /\ UNCHANGED <<page, observed, happened>>

ConsoleCallback(r) ==
  /\ Calls(r)
  /\ state' = Set(state, r, Console(state[r], 1))
  /\ UNCHANGED <<page, observed, happened>>

\* Mutant: an expected effect of one kind excuses those of another.
EffectCallbackAnyWindow(r) ==
  \E effect \in Effects :
    LET expected == window[r] # None IN
    /\ Calls(r)
    /\ state' = Set(state, r,
         IF effect = "popup" THEN NewPage(state[r], expected)
         ELSE Undeclared(state[r], effect, expected))
    /\ observed' = Set(observed, r, observed[r] \/ expected)
    /\ Did(r, {effect} \ {window[r]})
    /\ UNCHANGED page

EffectCallback(r) ==
  \E effect \in Effects :
    LET expected == window[r] = effect IN
    /\ Calls(r)
    /\ state' = Set(state, r,
         IF effect = "popup" THEN NewPage(state[r], expected)
         ELSE Undeclared(state[r], effect, expected))
    /\ observed' = Set(observed, r, observed[r] \/ expected)
    /\ Did(r, {effect} \ {window[r]})
    /\ UNCHANGED page

\* The page goes elsewhere by itself; a navigation that was aborted leaves an
\* error page.
Navigate(r) ==
  \E origin \in {"allowed", "blank", "invalid"} \ {page[r]} :
    /\ Calls(r)
    /\ page' = Set(page, r, origin)
    /\ UNCHANGED <<state, observed, happened>>

Callback(r) ==
  \/ RequestCallback(r) \/ ResponseCallback(r) \/ ConsoleCallback(r)
  \/ EffectCallback(r) \/ Navigate(r)

-----------------------------------------------------------------------------
(* _ArtifactStore; a digest is the content itself                          *)

Sizes == 1..2
Content(r, bytes) == [by |-> r, bytes |-> bytes]
Artifact(kind, path, content) == [kind |-> kind, path |-> path, content |-> content]

Total(artifacts) == MapThenSumSet(LAMBDA i : artifacts[i].content.bytes, DOMAIN artifacts)

\* Mutant: the sizes of earlier artifacts are forgotten.
FitsAlone(r, a) == a.content.bytes <= contract.max_artifact_bytes

\* Does _register find room for it?
Fits(r, a) == Total(store[r]) + a.content.bytes <= contract.max_artifact_bytes

\* A new file is there as soon as it is opened,
Write(r, a) ==
  /\ a.path \notin DOMAIN disk
  /\ disk' = [path \in DOMAIN disk \cup {a.path} |-> IF path = a.path THEN a.content ELSE disk[path]]
  /\ pending' = Set(pending, r, a)
  /\ pc' = Set(pc, r, "register")

\* ... and is registered when it has been written to its end, if it fits.
Register(r) ==
  /\ Fits(r, pending[r])
  /\ store' = [store EXCEPT ![r] = Append(@, pending[r])]
  /\ pending' = Set(pending, r, None)
  /\ UNCHANGED disk

\* The write or _register fails: of the write of a text nothing is left, but a file
\* that could not be registered stays where it is.
RegisterFails(r) ==
  /\ \/ UNCHANGED disk
     \/ /\ pending[r].kind \in {"dom", "aria"}
        /\ disk' = Restrict(disk, DOMAIN disk \ {pending[r].path})
  /\ pending' = Set(pending, r, None)
  /\ UNCHANGED store

-----------------------------------------------------------------------------
(* The actions of the plan                                                 *)

Action(r) == contract.actions[index[r]]

\* The outcome is recorded; a failure ends the plan, and the window is shut.
ActionEnds(r, s, passed) ==
  /\ state' = Set(state, r,
       IF passed THEN Event([s EXCEPT !.asserted = @ + 1]) ELSE Event([s EXCEPT !.failed = TRUE]))
  /\ IF passed
     THEN /\ index' = [index EXCEPT ![r] = @ + 1]
          /\ pc' = Set(pc, r, IF index[r] = Len(contract.actions) THEN "final" ELSE "action")
          /\ UNCHANGED error
     ELSE Raise(r, "caught") /\ UNCHANGED index
  /\ window' = Set(window, r, None)
  /\ observed' = Set(observed, r, FALSE)
  /\ UNCHANGED <<given, browser, outcome, root, happened, counters>>

\* goto, an action on an element, an assertion or a plain click.
Perform(r) ==
  /\ pc[r] = "action"
  /\ Action(r).kind \in {"goto", "act", "assert"} \/ Action(r) = Click("nothing", None)
  /\ \E passed \in BOOLEAN :
       /\ ActionEnds(r, state[r], passed)
       /\ page' = IF Action(r) = Goto /\ passed THEN Set(page, r, "allowed") ELSE page
  /\ UNCHANGED <<store, pending, disk>>

\* Up to the write of the file.
BeginSave(r, a) ==
  /\ Write(r, a)
  /\ UNCHANGED <<given, browser, page, index, window, observed, state, store, error,
                 outcome, root, happened, counters>>

\* The name is completed with its suffix; a target that exists is refused.
TakeScreenshot(r) ==
  /\ pc[r] = "action" /\ Action(r).kind = "screenshot"
  /\ \/ ActionEnds(r, state[r], FALSE) /\ UNCHANGED <<page, store, pending, disk>>
     \/ \E bytes \in Sizes :
          BeginSave(r, Artifact("screenshot", <<"screenshots", Action(r).name[1]>>, Content(r, bytes)))

\* A click that declares an effect opens its window.
Expect(r) ==
  /\ pc[r] = "action" /\ Action(r).kind = "click" /\ Action(r).expect \in Effects
  /\ pc' = Set(pc, r, "expect")
  /\ window' = Set(window, r, Action(r).expect)
  /\ observed' = Set(observed, r, FALSE)
  /\ UNCHANGED <<given, browser, page, index, state, store, pending, error,
                 outcome, shared, happened, counters>>

\* Mutant: an effect that does not come is waited for without a timeout.
ExpectWaits(r) ==
  /\ pc[r] = "expect" /\ observed[r]
  /\ ActionEnds(r, state[r], FALSE)
  /\ UNCHANGED <<page, store, pending, disk>>

\* The effect is not seen in time, or what follows fails.
ExpectFails(r) ==
  /\ pc[r] = "expect"
  /\ ActionEnds(r, state[r], FALSE)
  /\ UNCHANGED <<page, store, pending, disk>>

\* The popup must have arrived at an allowed origin, or there is a violation;
\* the action passes all the same.
ExpectedSeen(r) ==
  /\ pc[r] = "expect" /\ window[r] \in {"popup", "dialog"} /\ observed[r]
  /\ \E strayed \in BOOLEAN :
       /\ strayed => window[r] = "popup"
       /\ ActionEnds(r, IF strayed THEN Violation(state[r], "origin") ELSE state[r], TRUE)
  /\ UNCHANGED <<page, store, pending, disk>>

\* save_as, once the download has ended.
SaveDownload(r) ==
  /\ pc[r] = "expect" /\ window[r] = "download" /\ observed[r]
  /\ \E bytes \in Sizes :
       BeginSave(r, Artifact("download", <<"downloads", Action(r).name>>, Content(r, bytes)))

\* Is it one of the captures at the end that is being saved?
Closing(a) == a.path[1] = "final"

\* A download is registered before its own limit is looked at.
SaveEnds(r) ==
  /\ pc[r] = "register" /\ ~Closing(pending[r])
  /\ LET a == pending[r] IN
     \/ /\ Register(r)
        /\ ActionEnds(r, state[r], a.kind = "download" => a.content.bytes <= contract.max_download_bytes)
     \/ RegisterFails(r) /\ ActionEnds(r, state[r], FALSE)
  /\ UNCHANGED page

-----------------------------------------------------------------------------
(* What is captured at the end                                             *)

\* page.url and title
Final(r) ==
  /\ pc[r] = "final"
  /\ \/ Raise(r, "caught") /\ UNCHANGED state
     \/ /\ pc' = Set(pc, r, "dom")
        /\ state' = Set(state, r, IF page[r] = "allowed" THEN state[r] ELSE Violation(state[r], "origin"))
        /\ UNCHANGED error
  /\ UNCHANGED <<given, browser, page, index, window, observed, store, pending,
                 outcome, shared, happened, counters>>

\* Every capture may fail; a text is measured before it is written.
Capture(r, from, to, kind, wanted, limit) ==
  /\ pc[r] = from
  /\ \/ ~wanted /\ pc' = Set(pc, r, to) /\ UNCHANGED <<error, pending, disk>>
     \/ wanted /\ Raise(r, "caught") /\ UNCHANGED <<pending, disk>>
     \/ /\ wanted /\ UNCHANGED error
        /\ \E bytes \in Sizes :
             bytes <= limit /\ Write(r, Artifact(kind, <<"final", kind>>, Content(r, bytes)))
  /\ UNCHANGED <<given, browser, page, index, window, observed, store,
                 outcome, root, happened, counters>>

CaptureDom(r) ==
  /\ Capture(r, "dom", "aria", "dom", contract.capture_dom, contract.max_dom_bytes)
  /\ UNCHANGED state

CaptureAria(r) ==
  /\ Capture(r, "aria", "shot", "aria", contract.capture_aria, contract.max_aria_bytes)
  /\ UNCHANGED state

\* The pages are counted when nothing is left to capture.
CaptureShot(r) ==
  /\ Capture(r, "shot", "close", "screenshot", contract.final_screenshot, 2)
  /\ state' = IF contract.final_screenshot THEN state ELSE Set(state, r, Counted(state[r]))

\* What follows the capture of a kind.
After(kind) == CASE kind = "dom" -> "aria" [] kind = "aria" -> "shot" [] kind = "screenshot" -> "close"

CaptureEnds(r) ==
  /\ pc[r] = "register" /\ Closing(pending[r])
  /\ \/ /\ Register(r)
        /\ pc' = Set(pc, r, After(pending[r].kind))
        /\ state' = IF pending[r].kind = "screenshot" THEN Set(state, r, Counted(state[r])) ELSE state
        /\ UNCHANGED error
     \/ RegisterFails(r) /\ Raise(r, "caught") /\ UNCHANGED state
  /\ UNCHANGED <<given, browser, page, index, window, observed, outcome, root, happened, counters>>

\* The exit of sync_playwright stops the browser; one that raises may leave it.
Shut(r, raises) ==
  \E left \in {"closed"} \cup {b \in {"left"} : raises} :
    browser' = Set(browser, r, IF browser[r] = "open" THEN left ELSE browser[r])

\* The exception leaves sync_playwright, whose exit may raise another one, and only
\* then its handler counts the pages.
Caught(r) ==
  /\ Step(r, "caught", "report")
  /\ \E raises \in BOOLEAN : Shut(r, raises)
  /\ state' = Set(state, r, Counted(state[r]))
  /\ UNCHANGED <<given, page, index, window, observed, store, pending, error,
                 outcome, shared, happened, counters>>

\* The end of the plan leaves sync_playwright as well, inside the same try.
Close(r) ==
  /\ pc[r] = "close"
  /\ \/ pc' = Set(pc, r, "report") /\ Shut(r, FALSE) /\ UNCHANGED <<state, error>>
     \/ Raise(r, "report") /\ Shut(r, TRUE) /\ state' = Set(state, r, Counted(state[r]))
  /\ UNCHANGED <<given, page, index, window, observed, store, pending,
                 outcome, shared, happened, counters>>

\* policy_checks, those that fail; they are computed before the number of pages
\* becomes a violation.
FailedChecks(r, s) ==
  s.overflow
    \cup (s.violations \cap ({"origin"} \cup Effects))
    \cup {check \in {"driver"} : driver \notin {"declared", "missing"}}
    \cup {check \in {"pages"} : s.pages > contract.max_pages}
    \cup {check \in {"artifacts"} : root # r \/ Total(store[r]) > contract.max_artifact_bytes}
    \cup {check \in {"assertions"} : s.asserted = 0 \/ s.failed}

\* BrowserReceipt refuses a version that does not look like one, a receipt
\* with one path twice, and a pass with anything against it.
ValidReceipt(r, receiptOf) ==
  /\ driver # "unparsable"
  /\ IsInjective([i \in DOMAIN receiptOf.artifacts |-> receiptOf.artifacts[i].path])
  /\ receiptOf.passed => receiptOf.violations = {} /\ receiptOf.failed_checks = {}

\* Too many pages are a violation, and so one event more.
Overrun(s) == IF s.pages > contract.max_pages THEN Violation(s, "pages") ELSE s

\* The receipt, and with it the exit code: 0, 1, or 2 when there is none.
Report(r) ==
  /\ pc[r] = "report"
  /\ LET s == Overrun(state[r])
         failedChecks == FailedChecks(r, state[r])
         value == [passed |-> ~error[r] /\ s.violations = {} /\ failedChecks = {},
                   pages |-> s.page_count, network |-> s.network, artifacts |-> store[r],
                   violations |-> s.violations, failed_checks |-> failedChecks,
                   driver |-> driver]
     IN /\ receipt' = Set(receipt, r, IF ValidReceipt(r, value) THEN value ELSE None)
        /\ state' = Set(state, r, s)
  /\ pc' = Set(pc, r, "exited")
  /\ UNCHANGED <<given, browser, page, index, window, observed, store, pending, error,
                 evidence, shared, happened, counters>>

-----------------------------------------------------------------------------
(* The environment, and BrowserPlaywrightAdapter                           *)

Running == {"root", "mkdir", "launch", "register", "report"} \cup Calling

\* The call a runner is in has no timeout: new_context and new_page, title, the close
\* of the popup, save_as of a download that does not end, content, and the exit of
\* sync_playwright.
Endless(r) ==
  \/ pc[r] \in {"launch", "final", "caught", "close"}
  \/ pc[r] = "action" /\ Action(r).kind = "assert"
  \/ pc[r] = "expect" /\ window[r] \in {"popup", "download"} /\ observed[r]
  \/ pc[r] = "dom" /\ contract.capture_dom

\* Such a call never returns.
Hang(r) ==
  /\ Endless(r)
  /\ \E b \in IF pc[r] = "launch" THEN {"none", "open"} ELSE {browser[r]} :
       browser' = Set(browser, r, b)
  /\ pc' = Set(pc, r, "hung")
  /\ UNCHANGED <<given, page, index, window, observed, state, store, pending, error,
                 outcome, shared, happened, counters>>

\* The command's own timeout, or a crash.
Kill(r) ==
  /\ pc[r] \in Running
  /\ kills < MaxKills /\ kills' = kills + 1
  /\ pc' = Set(pc, r, "killed")
  /\ UNCHANGED <<given, browser, page, index, window, observed, state, store, pending, error,
                 outcome, shared, happened, callbacks, tampers>>

\* A file is changed or removed between the run and the adapter.
Tamper ==
  /\ root # None /\ pc[root] = "exited" /\ evidence[root] = None
  /\ tampers < MaxTampers /\ tampers' = tampers + 1
  /\ \E path \in DOMAIN disk :
       \/ \E bytes \in Sizes : disk' = [disk EXCEPT ![path] = Content(None, bytes)]
       \/ disk' = Restrict(disk, DOMAIN disk \ {path})
  /\ UNCHANGED <<given, pc, runner, outcome, root, happened, callbacks, kills>>

Kinds(artifacts) == {artifacts[i].kind : i \in DOMAIN artifacts}

\* Mutant: only the size of a file is compared.
ArtifactsBySize(told, artifacts, complete) ==
  /\ told /\ root # None
  /\ \A i \in DOMAIN artifacts : LET a == artifacts[i] IN
       a.path \in DOMAIN disk /\ disk[a.path].bytes = a.content.bytes

\* _validate_artifacts, which has to be told the workspace by the runtime.
ArtifactsMatch(told, artifacts, complete) ==
  /\ told /\ root # None
  /\ \A i \in DOMAIN artifacts : LET a == artifacts[i] IN
       /\ a.path \in DOMAIN disk /\ disk[a.path] = a.content
       /\ a.kind = "download" => a.content.bytes <= contract.max_download_bytes
  /\ Total(artifacts) <= contract.max_artifact_bytes
  /\ complete =>
       /\ contract.capture_dom => "dom" \in Kinds(artifacts)
       /\ contract.capture_aria => "aria" \in Kinds(artifacts)
       /\ contract.final_screenshot => "screenshot" \in Kinds(artifacts)

\* The receipt preserves the compiled plan.
Continuous(value) ==
  /\ value # None
  /\ value.driver \in {"declared", "missing"}
  /\ value.pages <= contract.max_pages
  /\ Len(value.network) <= contract.max_network_events

Rejected == [receipt |-> FALSE, passed |-> FALSE, policy |-> FALSE, artifacts |-> FALSE, denied |-> FALSE]

\* normalize_evidence: a receipt that is not accepted takes what it says of the
\* network with it.  Not every runtime puts a workspace_root in its metadata.
Normalize(r) ==
  /\ pc[r] = "exited" /\ evidence[r] = None
  /\ \E told \in BOOLEAN : LET value == receipt[r] IN
     evidence' = Set(evidence, r,
       IF ~Continuous(value) THEN Rejected
       ELSE [receipt |-> TRUE, passed |-> value.passed,
             policy |-> value.failed_checks = {} /\ value.violations = {},
             artifacts |-> ArtifactsMatch(told, value.artifacts, value.passed),
             denied |-> "Denied" \in Range(value.network)])
  /\ UNCHANGED <<given, pc, runner, receipt, shared, happened, counters>>

\* verify_evidence
Accepted(value) == value # None /\ value.receipt /\ value.passed /\ value.policy /\ value.artifacts

Run(r) ==
  \/ CheckRoot(r) \/ MakeRoot(r) \/ Launch(r)
  \/ Perform(r) \/ TakeScreenshot(r)
  \/ Expect(r) \/ ExpectFails(r) \/ ExpectedSeen(r) \/ SaveDownload(r)
  \/ SaveEnds(r)
  \/ Final(r) \/ CaptureDom(r) \/ CaptureAria(r) \/ CaptureShot(r) \/ CaptureEnds(r)
  \/ Caught(r) \/ Close(r) \/ Report(r)

Next ==
  \/ \E r \in Runners : Start(r) \/ Run(r) \/ Callback(r) \/ Hang(r) \/ Kill(r) \/ Normalize(r)
  \/ Tamper

\* A call with a timeout returns or raises, a call without one may hang, and
\* between its calls a runner that is not killed goes on.
Spec == Init /\ [][Next]_vars /\ \A r \in Runners : WF_vars(Run(r))

-----------------------------------------------------------------------------
(* Properties                                                              *)

Ended == {"exited", "killed"}

Logs == {"event", "network", "console"}
NetworkEvents == {"Allowed", "Denied", "Observed"}

States ==
  [events : Nat, network : Seq(NetworkEvents), console : Nat, pages : Nat, page_count : Nat,
   violations : SUBSET ({"origin", "pages"} \cup Effects \cup Logs), overflow : SUBSET Logs,
   asserted : Nat, failed : BOOLEAN, lost : Nat]

\* An _ExecutionState whose three logs are within their limits.
InBudget(s) ==
  /\ s.events <= contract.max_events
  /\ Len(s.network) <= contract.max_network_events
  /\ s.console <= contract.max_console_bytes

\* The files a contract may make, and what is in them.
Planned(kind) == {contract.actions[i] : i \in {j \in DOMAIN contract.actions : contract.actions[j].kind = kind}}

Paths ==
  {<<"screenshots", a.name[1]>> : a \in Planned("screenshot")}
    \cup {<<"downloads", a.name>> : a \in Planned("click")}
    \cup {<<"final", kind>> : kind \in {"dom", "aria", "screenshot"}}

Artifacts ==
  [kind : {"screenshot", "download", "dom", "aria"}, path : Paths,
   content : [by : Runners, bytes : Sizes]]

Receipts ==
  [passed : BOOLEAN, pages : Nat, network : Seq(NetworkEvents), artifacts : Seq(Artifacts),
   violations : SUBSET ({"origin", "pages"} \cup Effects \cup Logs),
   failed_checks : SUBSET ({"origin", "pages", "driver", "artifacts", "assertions"} \cup Effects \cup Logs),
   driver : {"declared", "other", "missing"}]

\* The kinds of values.
TypeOK ==
  /\ contract \in Contracts
  /\ pc \in [Runners -> {"idle"} \cup Running \cup Ended]
  /\ driver \in {"declared", "other", "unparsable", "missing"}
  /\ browser \in [Runners -> {"none", "open", "closed", "left"}]
  /\ page \in [Runners -> {"allowed", "blank", "invalid"}]
  /\ index \in [Runners -> 1..(Len(contract.actions) + 1)]
  /\ window \in [Runners -> Effects \cup {None}]
  /\ observed \in [Runners -> BOOLEAN] /\ error \in [Runners -> BOOLEAN]
  /\ store \in [Runners -> Seq(Artifacts)]
  /\ pending \in [Runners -> Artifacts \cup {None}]
  /\ receipt \in [Runners -> Receipts \cup {None}]
  /\ evidence \in [Runners ->
       [receipt : BOOLEAN, passed : BOOLEAN, policy : BOOLEAN, artifacts : BOOLEAN, denied : BOOLEAN] \cup {None}]
  /\ state \in [Runners -> States]
  /\ \A r \in Runners :
       /\ InBudget(state[r]) /\ state[r].asserted < index[r]
       /\ receipt[r] # None => pc[r] = "exited"
  /\ root \in Runners \cup {None}
  /\ DOMAIN disk \subseteq Paths
  /\ disk \in [DOMAIN disk -> [by : Runners \cup {None}, bytes : Sizes]]
  /\ happened \in [Runners -> SUBSET (Effects \cup {"foreign"})]

\* A receipt that says "pass" speaks of the whole run: no request left the
\* allowed origins and no popup, dialog or download came outside the window
\* that declares it, no log has lost a record, the pages stayed within their
\* budget and every action of the plan was performed.
PassHidesNothing ==
  \A r \in Runners : receipt[r] # None /\ receipt[r].passed =>
    /\ happened[r] = {}
    /\ state[r].lost = 0
    /\ state[r].pages <= contract.max_pages
    /\ state[r].asserted = Len(contract.actions)

\* Of the runners that were started with one run id at most one registers
\* artifacts, and those under the root are its own.
ArtifactsOfOneRun ==
  \A r \in Runners : store[r] # <<>> =>
    /\ \A other \in Runners \ {r} : store[other] = <<>>
    /\ \A path \in DOMAIN disk : disk[path].by \in {r, None}

\* Whatever goes wrong, the files under the root are those that are registered,
\* within the budget, and at most one more: the one that is being written, or was
\* when the runner was killed, or the one on which the plan has failed.
DiskBounded ==
  \A r \in Runners :
    LET paths == {store[r][i].path : i \in DOMAIN store[r]} IN
    /\ Total(store[r]) <= contract.max_artifact_bytes
    /\ root = r => Cardinality(DOMAIN disk \ paths) <=
         (IF error[r] \/ pc[r] \in {"register", "killed"} THEN 1 ELSE 0)

\* A request to a foreign origin reaches the security gate as a denied event
\* whenever the adapter accepts the receipt, unless the network log was full;
\* then the policy check has failed.
DeniedIsNoticed ==
  \A r \in Runners : evidence[r] # None /\ evidence[r].receipt /\ "foreign" \in happened[r] =>
    /\ ~evidence[r].policy
    /\ evidence[r].denied \/ "network" \in receipt[r].failed_checks

\* Evidence is accepted only while the files are what the runner wrote, those of
\* the captures that the contract asks for among them; _validate_artifacts itself
\* is content with any screenshot.
AcceptedAsWritten ==
  [][\A r \in Runners : ~Accepted(evidence[r]) /\ Accepted(evidence'[r]) =>
       /\ \A i \in DOMAIN store[r] : disk[store[r][i].path] = store[r][i].content
       /\ contract.capture_dom => <<"final", "dom">> \in DOMAIN disk
       /\ contract.capture_aria => <<"final", "aria">> \in DOMAIN disk
       /\ contract.final_screenshot => <<"final", "screenshot">> \in DOMAIN disk]_vars

\* A runner that has been started ends, whatever the page does, unless it is killed
\* or hangs in a call that has no timeout, and it leaves no browser behind unless the
\* exit of sync_playwright itself raises (execute_browser and its timeouts).
RunnerEnds ==
  \A r \in Runners :
    pc[r] = "root" ~> pc[r] \in {"killed", "hung"} \/ (pc[r] = "exited" /\ browser[r] # "open")
=============================================================================
