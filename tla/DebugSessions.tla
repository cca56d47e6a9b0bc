---------------------------- MODULE DebugSessions ----------------------------
(***************************************************************************)
(* The page-debugging surface: one headless browser per container, kept in *)
(* a map under one mutex, and the DevTools connection every page tool goes *)
(* through.                                                                *)
(*                                                                         *)
(* A request runs on a connection thread of its own.  It takes the mutex   *)
(* once per section of its work and holds it across every DevTools command *)
(* of that section; between two sections any other request may run.  The   *)
(* browser is another process: it answers commands, emits events on the    *)
(* same socket, closes the socket or dies whenever it likes.               *)
(***************************************************************************)
EXTENDS Naturals, Sequences, SequencesExt, FiniteSets

CONSTANTS
  Thread,      \* connection threads of the daemon
  Container,
  MaxBrowsers, \* bound on browsers that exist at a time
  MaxCalls,    \* bound on commands of one browser that are still of interest
  SectionCalls,\* bound on the commands of one section
  MaxEvents,   \* bound on events a browser emits
  Driven,      \* containers whose pages log and are worked on; others are only opened and closed
  EventCap,    \* EVENT_CAP, the events a session buffers
  Ops,         \* the requests each thread makes: open, close, or one of DOMAIN Sections
  Faults       \* what the world does: "die", "close", "stop", "exit"

ASSUME DebugAssumption ==
  /\ Thread \subseteq Nat \ {0}
  /\ DOMAIN Ops = Thread
  /\ MaxBrowsers \in Nat /\ MaxEvents \in Nat /\ SectionCalls \in Nat \ {0}
  /\ MaxCalls \in Nat \ {0} /\ EventCap \in Nat \ {0}
  /\ Driven \subseteq Container
  /\ Faults \subseteq {"die", "close", "stop", "exit"}

VARIABLES
  sessions, \* container -> the browser of its session, or none
  lock,     \* who holds the mutex over the map
  request,  \* what each thread is doing
  browser,  \* the browser processes, dead ones of a session included
  portFile, \* the browser named by a profile's DevToolsActivePort file
  running,  \* containers whose host answers with a URL
  leaked,   \* browsers a failed launch left behind
  up        \* the daemon process

vars == <<sessions, lock, request, browser, portFile, running, leaked, up>>

Browser == 1..MaxBrowsers
None == 0  \* no browser
Free == 0  \* nobody holds the mutex
-----------------------------------------------------------------------------
(* The sections of each request: one with_session call each. *)

screenshot_rpc     == <<"metrics", "capture", "location">>
query_elements_rpc == <<"query">>
click_element_rpc  == <<"query", "hit", "click">>
click_at_rpc       == <<"hit", "click">>
click_by_name_rpc  == <<"locate", "hit", "click">>
type_text_rpc      == <<"focused", "insert">>
press_key_rpc      == <<"key">>
page_text_rpc      == <<"tree">>
scroll_rpc         == <<"scroll">>
navigate_rpc       == <<"navigate", "location">>
hover_rpc          == <<"locate", "hover", "hit", "location">>
evaluate_rpc       == <<"evaluate", "location">>
console_rpc        == <<"drain">>

Sections ==
  [screenshot |-> screenshot_rpc, query |-> query_elements_rpc,
   click_element |-> click_element_rpc, click_at |-> click_at_rpc,
   click_by_name |-> click_by_name_rpc, type_text |-> type_text_rpc,
   press_key |-> press_key_rpc, page_text |-> page_text_rpc,
   scroll |-> scroll_rpc, navigate |-> navigate_rpc, hover |-> hover_rpc,
   evaluate |-> evaluate_rpc, console |-> console_rpc]
-----------------------------------------------------------------------------
Idle == [at |-> "idle", op |-> "none", on |-> None, b |-> None, rest |-> <<>>,
         id |-> 0, calls |-> 0]

\* calls: commands of this section.
\* wire: what the browser sent and the daemon has not read; asked: commands
\* not answered; events: BrowserSession::events; read: the last event a
\* console request returned.
NoBrowser == [alive |-> FALSE, socket |-> "none", port |-> None,
              wire |-> <<>>, asked |-> {}, emitted |-> 0, events |-> <<>>, read |-> 0]

Event(n) == [kind |-> "event", n |-> n]
Reply(i) == [kind |-> "reply", n |-> i]

Init ==
  /\ sessions = [c \in Container |-> None]
  /\ lock = Free
  /\ request = [t \in Thread |-> Idle]
  /\ browser = [b \in Browser |-> NoBrowser]
  /\ portFile = [c \in Container |-> None]
  /\ running = Container
  /\ leaked = {}
  /\ up = TRUE

Alive == {b \in Browser : browser[b].alive}
Spawned == {b \in Browser : browser[b].socket # "none"}

\* Dropping a session kills its browser, and nothing of it is looked at again;
\* its profile goes too, with the port file in it.
Killed(B) == [b \in Browser |-> IF b \in B THEN NoBrowser ELSE browser[b]]
Unprofiled(cs) == [c \in Container |-> IF c \in cs THEN None ELSE portFile[c]]
\* Commands a reply can still arrive to.
Pending(b) == browser[b].asked \cup {m.n : m \in {x \in ToSet(browser[b].wire) : x.kind = "reply"}}
Mapped(cs) == {sessions[c] : c \in cs} \ {None}

Goto(t, r) == request' = [request EXCEPT ![t] = r]
Done(t) == Goto(t, Idle) /\ lock' = Free
-----------------------------------------------------------------------------
(* open and close. *)

\* container_url is asked before the mutex is taken.
OpenResolve(t, c) ==
  /\ up /\ request[t].at = "idle" /\ "open" \in Ops[t] /\ c \in running
  /\ Goto(t, [Idle EXCEPT !.at = "open", !.op = "open", !.on = c])
  /\ UNCHANGED <<sessions, lock, browser, portFile, running, leaked, up>>

\* seeded fault: only the container's own session is dropped.
SweptOwn(c) == {c}
\* close_sessions_of_stopped_containers, then the session that is replaced.
Swept(c) == (Container \ running) \cup {c}

\* seeded fault: the file of an earlier browser stays.
KeepPortFile(c) == UNCHANGED portFile
ClearPortFile(c) == portFile' = Unprofiled({c})

OpenLock(t) ==
  LET r == request[t] IN
  /\ up /\ r.at = "open" /\ lock = Free
  /\ sessions' = [c \in Container |-> IF c \in Swept(r.on) THEN None ELSE sessions[c]]
  /\ browser' = Killed(Mapped(Swept(r.on)))
  /\ portFile' = Unprofiled({c \in Swept(r.on) : sessions[c] # None})
  /\ Goto(t, [r EXCEPT !.at = "launch"])
  /\ lock' = t
  /\ UNCHANGED <<running, leaked, up>>

Spawn(t) ==
  LET r == request[t] IN
  /\ up /\ r.at = "launch"
  /\ \E b \in Browser \ Spawned :
       /\ \A a \in Browser \ Spawned : b <= a
       /\ browser' = [browser EXCEPT ![b].alive = TRUE, ![b].socket = "starting"]
       /\ Goto(t, [r EXCEPT !.at = "port", !.b = b])
  /\ ClearPortFile(r.on)
  /\ UNCHANGED <<sessions, lock, running, leaked, up>>

SpawnFails(t) ==
  /\ up /\ request[t].at = "launch"
  /\ Done(t)
  /\ UNCHANGED <<sessions, browser, portFile, running, leaked, up>>

\* The browser writes the port it listens on into its profile.
Publishes(t) ==
  LET r == request[t] IN
  /\ r.at = "port" /\ browser[r.b].alive /\ portFile[r.on] # r.b
  /\ portFile' = [portFile EXCEPT ![r.on] = r.b]
  /\ UNCHANGED <<sessions, lock, request, browser, running, leaked, up>>

\* find_page_target over the port read from the file, and the socket.
Attach(t) ==
  LET r == request[t] IN
  /\ up /\ r.at = "port" /\ portFile[r.on] # None /\ browser[r.b].alive
  /\ browser' = [browser EXCEPT ![r.b].socket = "open", ![r.b].port = portFile[r.on]]
  /\ Goto(t, [r EXCEPT !.at = "send"])
  /\ UNCHANGED <<sessions, lock, portFile, running, leaked, up>>

\* seeded fault: the child of a failed launch is left running.
LaunchFailsKeepingChild(t) ==
  LET r == request[t] IN
  /\ up /\ r.at = "port"
  /\ portFile' = Unprofiled({r.on})
  /\ Done(t)
  /\ UNCHANGED <<sessions, browser, running, leaked, up>>
\* No port, or no page: the child is killed and its profile removed.
LaunchFails(t) ==
  LET r == request[t] IN
  /\ up /\ r.at = "port"
  /\ browser' = Killed({r.b})
  /\ portFile' = Unprofiled({r.on})
  /\ Done(t)
  /\ UNCHANGED <<sessions, running, leaked, up>>

\* The socket cannot be opened: the error is returned before a session owns
\* the child, and dropping a Child does not end the process.
ConnectFails(t) ==
  LET r == request[t] IN
  /\ up /\ r.at = "port" /\ portFile[r.on] # None
  /\ leaked' = leaked \cup (Alive \cap {r.b})
  /\ Done(t)
  /\ UNCHANGED <<sessions, browser, portFile, running, up>>

CloseSession(t, c) ==
  /\ up /\ request[t].at = "idle" /\ "close" \in Ops[t] /\ lock = Free
  /\ sessions' = [sessions EXCEPT ![c] = None]
  /\ browser' = Killed(Mapped({c}))
  /\ portFile' = IF sessions[c] # None THEN Unprofiled({c}) ELSE portFile
  /\ UNCHANGED <<lock, request, running, leaked, up>>
-----------------------------------------------------------------------------
(* with_session: a request and its sections. *)

Ask(t, op, c) ==
  /\ up /\ request[t].at = "idle" /\ op \in Ops[t] \cap DOMAIN Sections /\ c \in Driven
  /\ op = "navigate" => c \in running
  /\ Goto(t, [Idle EXCEPT !.at = "section", !.op = op, !.on = c, !.rest = Sections[op]])
  /\ UNCHANGED <<sessions, lock, browser, portFile, running, leaked, up>>

NoSession(t) ==
  LET r == request[t] IN
  /\ up /\ r.at = "section" /\ lock = Free /\ sessions[r.on] = None
  /\ Goto(t, Idle)
  /\ UNCHANGED <<sessions, lock, browser, portFile, running, leaked, up>>

Enter(t) ==
  LET r == request[t] IN
  /\ up /\ r.at = "section" /\ lock = Free /\ sessions[r.on] # None
  /\ lock' = t
  /\ Goto(t, [r EXCEPT !.at = "send", !.b = sessions[r.on]])
  /\ UNCHANGED <<sessions, browser, portFile, running, leaked, up>>

\* seeded fault: every error costs the session.
AnyError(outcome) == outcome # "ok"
\* seeded fault: no error does.
NoErrorIsDead(outcome) == FALSE
\* is_dead_session_error: the transport failures of a lost browser.  The text
\* of a socket the browser closed is not among them.
Dead(outcome) == outcome = "lost"

\* A launch that fails drops its session, a dead session is taken out.
Drops(t, outcome) == IF request[t].op = "open" THEN outcome # "ok" ELSE Dead(outcome)

\* What a section's outcome does to the map, and to the request.
Outcome(t, outcome) ==
  LET r == request[t]
      c == r.on
      more == outcome = "ok" /\ Len(r.rest) > 1
  IN /\ sessions' = [sessions EXCEPT ![c] =
                       IF r.op = "open" THEN (IF outcome = "ok" THEN r.b ELSE None)
                       ELSE IF Dead(outcome) THEN None ELSE @]
     /\ portFile' = IF Drops(t, outcome) THEN Unprofiled({c}) ELSE portFile
     /\ lock' = Free
     /\ Goto(t, IF more THEN [r EXCEPT !.at = "section", !.rest = Tail(@), !.calls = 0] ELSE Idle)
     /\ UNCHANGED <<running, leaked, up>>
-----------------------------------------------------------------------------
(* BrowserSession::call. *)

\* next_id only ever grows.  A number is compared with those of the replies
\* that can still arrive and with nothing else, so the smallest other one
\* stands for it.
NextId(b) == CHOOSE i \in 1..MaxCalls : i \notin Pending(b) /\ 1..(i - 1) \subseteq Pending(b)
\* seeded fault: the command carries the number before the increment.
SentStale(b) == NextId(b) - 1
Sent(b) == NextId(b)

Send(t) ==
  LET r == request[t] IN
  /\ up /\ r.at = "send" /\ browser[r.b].socket = "open"
  /\ browser' = IF browser[r.b].alive THEN [browser EXCEPT ![r.b].asked = @ \cup {Sent(r.b)}] ELSE browser
  /\ Goto(t, [r EXCEPT !.at = "loop", !.id = NextId(r.b), !.calls = @ + 1])
  /\ UNCHANGED <<sessions, lock, portFile, running, leaked, up>>

SendFails(t) ==
  LET r == request[t] IN
  /\ up /\ r.at = "send"
  /\ \/ browser[r.b].socket = "closed" /\ Outcome(t, "closed")
     \/ ~browser[r.b].alive /\ browser[r.b].socket = "open" /\ Outcome(t, "lost")
  /\ browser' = IF sessions'[r.on] # r.b THEN Killed({r.b}) ELSE browser

\* The deadline is looked at before each read, and only there.
TimesOut(t) ==
  LET r == request[t] IN
  /\ up /\ r.at = "loop" /\ Pending(r.b) # 1..MaxCalls
  /\ Outcome(t, "late")
  /\ browser' = IF r.op = "open" THEN Killed({r.b}) ELSE browser

StartRead(t) ==
  LET r == request[t] IN
  /\ up /\ r.at = "loop"
  /\ Goto(t, [r EXCEPT !.at = "read"])
  /\ UNCHANGED <<sessions, lock, browser, portFile, running, leaked, up>>

\* seeded fault: at the cap the new event is the one that is dropped.
BufferedDropNew(events, n) == IF Len(events) >= EventCap THEN events ELSE Append(events, n)
\* seeded fault: the cap is looked at one event too late.
BufferedLate(events, n) == Append(IF Len(events) > EventCap THEN Tail(events) ELSE events, n)
\* The buffer after one more event: the oldest goes first.
Buffered(events, n) ==
  Append(IF Len(events) >= EventCap THEN Tail(events) ELSE events, n)

ReadEvent(t) ==
  LET r == request[t] IN
  /\ up /\ r.at = "read" /\ browser[r.b].wire # <<>>
  /\ Head(browser[r.b].wire).kind = "event"
  /\ browser' = [browser EXCEPT ![r.b].wire = Tail(@),
                                ![r.b].events = Buffered(@, Head(browser[r.b].wire).n)]
  /\ Goto(t, [r EXCEPT !.at = "loop"])
  /\ UNCHANGED <<sessions, lock, portFile, running, leaked, up>>

\* seeded fault: the first reply is taken, whatever its id.
FirstReply(r, m) == TRUE
\* Whether a reply on the socket is the one this command waits for.
Mine(r, m) == m.n = r.id

\* The answer to a command that was given up on.
SkipReply(t) ==
  LET r == request[t] IN
  /\ up /\ r.at = "read" /\ browser[r.b].wire # <<>>
  /\ Head(browser[r.b].wire).kind = "reply" /\ ~Mine(r, Head(browser[r.b].wire))
  /\ browser' = [browser EXCEPT ![r.b].wire = Tail(@)]
  /\ Goto(t, [r EXCEPT !.at = "loop"])
  /\ UNCHANGED <<sessions, lock, portFile, running, leaked, up>>

\* seeded fault: the buffer is read and not emptied.
Peeked(b, t) == IF request[t].op = "console"
                THEN [b EXCEPT !.wire = Tail(@), !.read = IF b.events = <<>> THEN @ ELSE Last(b.events)]
                ELSE [b EXCEPT !.wire = Tail(@)]
\* drain_events hands the buffer over and empties it.
Drained(b, t) == IF request[t].op = "console"
                 THEN [b EXCEPT !.wire = Tail(@), !.events = <<>>,
                                !.read = IF b.events = <<>> THEN @ ELSE Last(b.events)]
                 ELSE [b EXCEPT !.wire = Tail(@)]

\* A reply ends the command, with a result or with what the page made of it.
\* A section, or the two commands of a launch, may go on to a further command
\* under the same lock.
TakeReply(t) ==
  LET r == request[t]
      m == Head(browser[r.b].wire)
  IN
  /\ up /\ r.at = "read" /\ browser[r.b].wire # <<>> /\ m.kind = "reply" /\ Mine(r, m)
  /\ \/ /\ r.op # "console" /\ r.calls < SectionCalls
        /\ Goto(t, [r EXCEPT !.at = "send"])
        /\ browser' = [browser EXCEPT ![r.b].wire = Tail(@)]
        /\ UNCHANGED <<sessions, lock, portFile, running, leaked, up>>
     \/ /\ Outcome(t, "ok")
        /\ browser' = [browser EXCEPT ![r.b] = Drained(@, t)]
     \/ /\ Outcome(t, "page")
        /\ browser' = IF Drops(t, "page") THEN Killed({r.b})
                      ELSE [browser EXCEPT ![r.b].wire = Tail(@)]

ReadClose(t) ==
  LET r == request[t] IN
  /\ up /\ r.at = "read" /\ browser[r.b].wire # <<>> /\ Head(browser[r.b].wire).kind = "close"
  /\ Outcome(t, "closed")
  /\ browser' = IF Drops(t, "closed") THEN Killed({r.b})
                ELSE [browser EXCEPT ![r.b].wire = <<>>, ![r.b].socket = "closed"]

ReadFails(t) ==
  LET r == request[t] IN
  /\ up /\ r.at = "read" /\ ~browser[r.b].alive /\ browser[r.b].wire = <<>>
  /\ Outcome(t, "lost")
  /\ browser' = IF Drops(t, "lost") THEN Killed({r.b}) ELSE browser
-----------------------------------------------------------------------------
(* The browser and the world. *)

Connected(b) == /\ browser[b].alive
                /\ \A i \in DOMAIN browser[b].wire : browser[b].wire[i].kind # "close"

Answers(b) ==
  /\ Connected(b)
  /\ \E i \in browser[b].asked :
       browser' = [browser EXCEPT ![b].asked = @ \ {i}, ![b].wire = Append(@, Reply(i))]
  /\ UNCHANGED <<sessions, lock, request, portFile, running, leaked, up>>

\* The container a browser shows.
Shows(b) == {c \in Container : \/ sessions[c] = b
                               \/ \E t \in Thread : request[t].on = c /\ request[t].b = b /\ lock = t}

Emits(b) ==
  /\ Shows(b) \cap Driven # {} /\ Connected(b) /\ browser[b].socket = "open"
  /\ browser[b].emitted < MaxEvents
  /\ browser' = [browser EXCEPT ![b].emitted = @ + 1,
                                ![b].wire = Append(@, Event(browser[b].emitted + 1))]
  /\ UNCHANGED <<sessions, lock, request, portFile, running, leaked, up>>

Closes(b) ==
  /\ "close" \in Faults /\ Shows(b) \cap Driven # {} /\ Connected(b) /\ browser[b].socket = "open"
  /\ browser' = [browser EXCEPT ![b].asked = {}, ![b].wire = Append(@, [kind |-> "close", n |-> 0])]
  /\ UNCHANGED <<sessions, lock, request, portFile, running, leaked, up>>

Dies(b) ==
  /\ "die" \in Faults /\ browser[b].alive /\ Shows(b) \cap Driven # {}
  /\ browser' = [browser EXCEPT ![b].alive = FALSE, ![b].asked = {}]
  /\ UNCHANGED <<sessions, lock, request, portFile, running, leaked, up>>

\* A container's host stops, or one comes up.
Host(c) ==
  /\ "stop" \in Faults
  /\ running' = IF c \in running THEN running \ {c} ELSE running \cup {c}
  /\ UNCHANGED <<sessions, lock, request, browser, portFile, leaked, up>>

\* The daemon ends through process::exit: nothing is dropped.
Exit ==
  /\ "exit" \in Faults /\ up
  /\ up' = FALSE
  /\ sessions' = [c \in Container |-> None]
  /\ request' = [t \in Thread |-> Idle]
  /\ lock' = Free
  /\ UNCHANGED <<browser, portFile, running, leaked>>

Handler(t) ==
  \/ OpenLock(t) \/ Spawn(t) \/ SpawnFails(t) \/ Attach(t) \/ LaunchFails(t)
  \/ ConnectFails(t) \/ NoSession(t) \/ Enter(t)
  \/ Send(t) \/ SendFails(t) \/ TimesOut(t) \/ StartRead(t)
  \/ ReadEvent(t) \/ SkipReply(t) \/ TakeReply(t) \/ ReadClose(t) \/ ReadFails(t)

World == \/ \E t \in Thread : Publishes(t)
         \/ \E b \in Browser : Answers(b) \/ Emits(b) \/ Closes(b) \/ Dies(b)
         \/ \E c \in Container : Host(c)

Next ==
  \/ \E t \in Thread : \/ Handler(t)
                       \/ \E c \in Container : \/ OpenResolve(t, c) \/ CloseSession(t, c)
                                               \/ \E op \in Ops[t] : Ask(t, op, c)
  \/ World \/ Exit

Spec == Init /\ [][Next]_vars

\* A thread that can go on does; a browser that is there answers.
FairSpec == Spec /\ (\A t \in Thread : WF_vars(Handler(t))) /\ (\A b \in Browser : WF_vars(Answers(b)))

\* A page that a dialog blocks answers nothing.
SilentSpec == Spec /\ \A t \in Thread : WF_vars(Handler(t))
-----------------------------------------------------------------------------
(* Properties. *)

Message == [kind : {"event", "reply", "close"}, n : 0..(MaxCalls + MaxEvents)]

\* What may be left of a request: the sections from one of them on, or none.
Rests == UNION {{SubSeq(q, i, Len(q)) : i \in 1..(Len(q) + 1)} : q \in Range(Sections)}
Request == [at : {"idle", "open", "launch", "port", "section", "send", "loop", "read"},
            op : (UNION Range(Ops)) \cup {"none"}, on : Container \cup {None},
            b : Browser \cup {None}, rest : Rests,
            id : 0..MaxCalls, calls : 0..SectionCalls]

\* Every variable keeps its type, and at most one session attaches to a browser.
TypeOK ==
  /\ sessions \in [Container -> Browser \cup {None}]
  /\ lock \in Thread \cup {Free}
  /\ request \in [Thread -> Request]
  /\ \A b \in Browser :
       /\ browser[b].socket \in {"none", "starting", "open", "closed"}
       /\ browser[b].asked \subseteq 1..MaxCalls
       /\ Len(browser[b].events) <= EventCap
       /\ \A i \in DOMAIN browser[b].wire : browser[b].wire[i] \in Message
  /\ portFile \in [Container -> Browser \cup {None}]
  /\ running \subseteq Container
  /\ \A c, d \in Container : sessions[c] = sessions[d] /\ sessions[c] # None => c = d

\* A command gets the answer to itself: the late answer to a command that was
\* given up on is never taken for the answer to the next one.
OwnAnswer ==
  [][\A t \in Thread : LET r == request[t] IN
       r.at = "read" /\ browser[r.b].wire # <<>> /\ Head(browser[r.b].wire).kind = "reply"
       /\ request'[t].at # r.at /\ request'[t].at # "loop" /\ up'
       => Head(browser[r.b].wire).n = r.id]_vars

\* The buffer ends with the last event read off the socket, without a gap.
Run(events, last) == \A i \in DOMAIN events : events[i] = last - Len(events) + i
\* The socket holds the later ones, each of them once and in order.
Coming(wire, last, newest) ==
  LET on == {i \in DOMAIN wire : wire[i].kind = "event"}
  IN  /\ \A i \in on : wire[i].n \in (last + 1)..newest
      /\ \A i, j \in on : i < j => wire[i].n < wire[j].n
      /\ \A n \in (last + 1)..newest : \E i \in on : wire[i].n = n

\* What a page logged reaches the console once and in order: the buffer and
\* the socket hold one unbroken run of events that ends with the newest, and
\* it starts right after what was read unless the buffer is at its cap.
ConsoleInOrder ==
  \A b \in Browser : LET s == browser[b] IN \E last \in 0..s.emitted :
    /\ Run(s.events, last) /\ Coming(s.wire, last, s.emitted)
    /\ IF Len(s.events) < EventCap THEN last = s.read + Len(s.events)
                                   ELSE last >= s.read + Len(s.events)

\* Every browser that runs belongs to a session or to a launch under way; the
\* exception is the child of a launch that could not open the socket.
NoStrayBrowser ==
  up => Alive \subseteq Mapped(Container) \cup leaked
                       \cup {request[t].b : t \in {x \in Thread : request[x].op = "open" /\ lock = x}}

\* A session talks to the browser that was started for it, not to one an
\* earlier launch left listening on the port its profile still names.
AttachedToOwn == \A b \in Browser : browser[b].port \in {None, b}

\* Opening any container closes the browsers of the containers that stopped.
OpenSweeps ==
  [][\A t \in Thread : request[t].at = "open" /\ request'[t].at = "launch"
        => \A c \in Container \ running : sessions'[c] = None]_vars

\* A page that throws, or is slow, keeps its session: a session ends only by a
\* close or an open, with its container, or with its browser.
KeptOnPageError ==
  [][\A c \in Container : sessions[c] # None /\ sessions'[c] # sessions[c] =>
       \/ request' = request
       \/ \E t \in Thread : request[t].at = "open" /\ request'[t].at = "launch"
                             /\ (c = request[t].on \/ c \notin running)
       \/ ~browser[sessions[c]].alive
       \/ ~up']_vars

\* The request that finds its browser gone takes the session with it, so that
\* the next one is told to open first.
LostIsDropped ==
  [][\A t \in Thread : LET r == request[t] IN
       (/\ r.at = "read" /\ ~browser[r.b].alive /\ browser[r.b].wire = <<>>
        /\ request'[t] = Idle /\ up')
       => sessions'[r.on] # r.b]_vars

\* Every browser is some session's, and is the one that session talks to.
BrowsersOwned == NoStrayBrowser /\ AttachedToOwn

\* A session ends when it should and only then.
SessionKept == OpenSweeps /\ KeptOnPageError /\ LostIsDropped

\* No request keeps the map locked for ever.
MutexReleased == \A t \in Thread : lock = t ~> lock # t

\* Not held: a socket the browser closed in order also costs the session.
ClosedIsDropped ==
  [][\A t \in Thread : LET r == request[t] IN
       r.at = "send" /\ browser[r.b].socket = "closed" /\ request'[t] = Idle /\ up'
       => sessions'[r.on] # r.b]_vars
\* Not held: a click lands in the browser its coordinates were measured in.
OneBrowser ==
  [][\A t \in Thread : request[t].at = "section" /\ request[t].b # None /\ request'[t].at = "send"
        => request'[t].b = request[t].b]_vars
\* Not held: no browser outlives the daemon.
ExitClosesBrowsers == ~up => Alive = {}
\* Not held: a failed launch leaves nothing behind.
NoLeak == leaked \cap Alive = {}
=============================================================================
