---------------------------- MODULE UpdateChecks ----------------------------
(***************************************************************************)
(* The updater's question whether there is a newer release: the record of  *)
(* the last check, and the checks that write it.  Releases are numbered in *)
(* the order they are published; the running build is release 0.  A check  *)
(* is made by the background thread, of which there is at most one, or by  *)
(* a connection that asked for it.                                         *)
(***************************************************************************)
LOCAL INSTANCE Naturals

CONSTANTS
  LastRelease, \* bound: how many releases are published
  Caller,      \* connections that ask for a check
  Nothing

Background == "background"
Checker == {Background} \cup Caller

VARIABLES
  published, \* the newest release on GitHub
  record,    \* update-state.json
  nudged,    \* a connection has found that a check is due and has not started it yet
  busy,      \* the single-flight flag of the background thread
  check,     \* of a checker: its step, its copy of the record, what it got
  asked,     \* how often the background has asked GitHub since the last day began
  spared,    \* no question and no write of the record has failed since then
  pane,      \* the release the settings pane shows
  sent       \* the last download that was enqueued

checkVars == <<published, record, nudged, busy, check, asked, spared, pane, sent>>

NoCheck == [step |-> "idle", copy |-> Nothing, got |-> 0]

CheckInit ==
  /\ published = 1
  /\ record = [fresh |-> FALSE, latest |-> 0, asset |-> FALSE]
  /\ nudged = FALSE /\ busy = FALSE /\ check = [c \in Checker |-> NoCheck]
  /\ asked = 0 /\ spared = TRUE /\ pane = 0 /\ sent = Nothing

Rest == UNCHANGED <<published, pane, sent, nudged>>

Publish ==
  /\ published < LastRelease /\ published' = published + 1
  /\ UNCHANGED <<record, nudged, busy, check, asked, spared, pane, sent>>
\* CHECK_INTERVAL_SECONDS after a successful check.
DayPasses ==
  /\ record.fresh /\ record' = [record EXCEPT !.fresh = FALSE]
  /\ asked' = 0 /\ spared' = (\A c \in Checker : check[c] = NoCheck)
  /\ Rest /\ UNCHANGED <<busy, check>>
-----------------------------------------------------------------------------
should_check == ~record.fresh
Begins(c, step) == check' = [check EXCEPT ![c] = [NoCheck EXCEPT !.step = step]]
Steps(c, step) == check' = [check EXCEPT ![c].step = step]
Stops(c) == check' = [check EXCEPT ![c] = NoCheck] /\ busy' = (busy /\ c # Background)

\* get_update_state, which the pane calls when it opens and whenever an update
\* is announced.  Several connections may be between the question and the start.
ReadState ==
  /\ pane' = record.latest /\ nudged' = (nudged \/ should_check)
  /\ UNCHANGED <<published, record, busy, check, asked, spared, sent>>
schedule_background_check ==
  /\ nudged /\ nudged' \in BOOLEAN
  /\ IF busy THEN UNCHANGED <<busy, check>> ELSE busy' = TRUE /\ Begins(Background, "start")
  /\ UNCHANGED <<record, asked, spared, published, pane, sent>>

\* seeded fault: the thread relies on the question that started it.
BackgroundTrusts ==
  /\ check[Background].step = "start"
  /\ check' = [check EXCEPT ![Background] = [step |-> "ask", copy |-> record, got |-> 0]]
  /\ UNCHANGED <<busy, record, asked, spared>> /\ Rest
BackgroundStarts ==
  /\ check[Background].step = "start"
  /\ IF should_check
     THEN /\ check' = [check EXCEPT ![Background] = [step |-> "ask", copy |-> record, got |-> 0]]
          /\ UNCHANGED busy
     ELSE Stops(Background)
  /\ UNCHANGED <<record, asked, spared>> /\ Rest

CallerStarts(c) ==
  /\ check[c].step = "idle"
  /\ check' = [check EXCEPT ![c] = [step |-> "ask", copy |-> record, got |-> 0]]
  /\ UNCHANGED <<record, busy, asked, spared>> /\ Rest

\* fetch_latest_release
Asks(c) ==
  /\ check[c].step = "ask"
  /\ asked' = IF c = Background /\ asked < 2 THEN asked + 1 ELSE asked
  /\ \/ check' = [check EXCEPT ![c].step = "manifest", ![c].got = published] /\ UNCHANGED spared
     \/ Steps(c, "failed") /\ spared' = FALSE
  /\ UNCHANGED <<record, busy>> /\ Rest

\* resolve_asset and the write of the record, or of the failure, over what the
\* record was when the check began.  Nobody hears of a write that fails.
Writes(c, written) ==
  \/ record' = written /\ UNCHANGED spared
  \/ UNCHANGED record /\ spared' = FALSE
Answers(c) ==
  /\ check[c].step = "manifest"
  /\ \E found \in BOOLEAN :
       LET answer == [fresh |-> TRUE, latest |-> check[c].got, asset |-> found]
       IN /\ Writes(c, answer)
          /\ IF c = Background
             THEN check' = [check EXCEPT ![c].step = "act", ![c].copy = answer] /\ UNCHANGED busy
             ELSE Stops(c)
  /\ UNCHANGED asked /\ Rest
Fails(c) ==
  /\ check[c].step = "failed"
  /\ Writes(c, check[c].copy)
  /\ Stops(c)
  /\ UNCHANGED asked /\ Rest

\* seeded fault: the download takes the tag of the record as it is by then.
ActsLate(ready) ==
  LET copy == check[Background].copy
  IN /\ check[Background].step = "act"
     /\ sent' = IF copy.latest > 0 /\ copy.asset /\ ~ready
                THEN [version |-> copy.latest, tag |-> record.latest, auto |-> TRUE] ELSE sent
     /\ Stops(Background)
     /\ UNCHANGED <<record, nudged, asked, spared, published, pane>>
\* What the policy does with the answer, whether or not it was written: a newer
\* release with an asset that is not on the disk is fetched.
Acts(ready) ==
  LET copy == check[Background].copy
  IN /\ check[Background].step = "act"
     /\ sent' = IF copy.latest > 0 /\ copy.asset /\ ~ready
                THEN [version |-> copy.latest, tag |-> copy.latest, auto |-> TRUE] ELSE sent
     /\ Stops(Background)
     /\ UNCHANGED <<record, nudged, asked, spared, published, pane>>

\* The pane asks for the version it shows, and the daemon adds the tag of the
\* release it knows.
PaneDownloads ==
  /\ record.latest > 0
  /\ sent' = [version |-> IF pane = 0 THEN record.latest ELSE pane, tag |-> record.latest, auto |-> FALSE]
  /\ UNCHANGED <<record, nudged, busy, check, asked, spared, published, pane>>

\* The daemon dies.
CheckerCrash ==
  /\ check' = [c \in Checker |-> NoCheck] /\ busy' = FALSE /\ nudged' = FALSE /\ spared' = FALSE
  /\ UNCHANGED <<record, asked, published, pane, sent>>

CheckNext ==
  \/ Publish \/ DayPasses \/ ReadState \/ schedule_background_check \/ BackgroundStarts
  \/ \E ready \in BOOLEAN : Acts(ready)
  \/ \E c \in Caller : CallerStarts(c)
  \/ \E c \in Checker : Asks(c) \/ Answers(c) \/ Fails(c)
  \/ PaneDownloads \/ CheckerCrash
-----------------------------------------------------------------------------
\* While nothing fails, the background asks GitHub once a day, however often the
\* pane reads the state and whoever else asks.
AskedOnce == spared => asked <= 1

\* What the background fetches for a version is that version's installer.
AutomaticIsItself == (sent # Nothing /\ sent.auto) => sent.tag = sent.version

ChecksSound == AskedOnce /\ AutomaticIsItself

\* What is fetched for a version is its installer, whoever asked.  It fails: see
\* the README.
FetchedIsItself == sent # Nothing => sent.tag = sent.version
\* A later check's answer is not replaced by an earlier one's.  It fails: see the
\* README.
NeverBack == [][record'.latest >= record.latest]_checkVars
=============================================================================
