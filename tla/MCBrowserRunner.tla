---------------------------- MODULE MCBrowserRunner ----------------------------
(* Two runners of one run id and four plans, with budgets that overflow.  *)
EXTENDS BrowserRunner

Budget(actions, events, network, console, pages, artifacts, aria, shot) ==
  [actions |-> actions, max_events |-> events, max_network_events |-> network,
   max_console_bytes |-> console, max_pages |-> pages, max_artifact_bytes |-> artifacts,
   max_download_bytes |-> 1, max_dom_bytes |-> 1, max_aria_bytes |-> 1,
   capture_dom |-> ~aria, capture_aria |-> aria, final_screenshot |-> shot]

MCContracts ==
  {Budget(<<Goto, Click("popup", None)>>, 4, 1, 0, 2, 3, FALSE, TRUE),
   Budget(<<Goto, Click("download", "file"), Click("dialog", None)>>, 6, 1, 1, 1, 4, TRUE, TRUE),
   Budget(<<Goto, Screenshot("a", FALSE), AssertPage>>, 6, 2, 1, 1, 2, FALSE, FALSE),
   Budget(<<Screenshot("a", FALSE), Screenshot("a", TRUE)>>, 6, 2, 1, 1, 4, FALSE, TRUE)}
=============================================================================
