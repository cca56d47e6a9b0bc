------------------------- MODULE DebugSessionsProofs -------------------------
(***************************************************************************)
(* Theorems about DebugSessions for any number of threads, containers and  *)
(* browsers, any requests and any bounds: who may hold a browser, whose    *)
(* answer a command takes, and what becomes of the events of a page.       *)
(***************************************************************************)
EXTENDS DebugSessions, SequenceTheorems, WellFoundedInduction, TLAPS

USE DebugAssumption

-----------------------------------------------------------------------------
(* The inductive invariant. *)

Process == [alive : BOOLEAN, socket : {"none", "starting", "open", "closed"},
            port : Browser \cup {None}, wire : Seq(Message), asked : SUBSET (1..MaxCalls),
            emitted : 0..MaxEvents, events : Seq(Nat), read : Nat]

\* The stages of a request under the lock.
Working(r) == r.at \in {"launch", "port", "send", "loop", "read"}
\* Those of them that have a browser in hand.
Driving(r) == r.at \in {"port", "send", "loop", "read"}

\* A request's stage goes with its kind, its container and its counters.
Staged(r) ==
  /\ r.at # "idle" => r.on \in Container
  /\ r.at \in {"open", "launch", "port"} => r.op = "open"
  /\ r.op = "open" => r.rest = <<>>
  /\ r.at \in {"open", "launch"} => r.b = None
  /\ r.at = "section" => r.op \in DOMAIN Sections
  /\ r.at \in {"send", "loop", "read"} => r.op \in DOMAIN Sections \cup {"open"}
  /\ r.at \in {"open", "launch", "port", "section"} => r.calls = 0
  /\ r.at = "send" => r.calls < SectionCalls
  /\ r.at \in {"loop", "read"} => r.id \in 1..MaxCalls
  /\ Driving(r) => r.b \in Browser

\* A launch works on a browser that is no session's, for a container without
\* one; every other request on the browser of its session.
ClaimsIn(r, ses, br, file) ==
  /\ r.op = "open" /\ Working(r) => ses[r.on] = None
  /\ Driving(r) => /\ br[r.b].socket # "none"
                   /\ IF r.op = "open" THEN \A c \in Container : ses[c] # r.b
                                       ELSE ses[r.on] = r.b
  /\ r.at = "port" => br[r.b].socket = "starting" /\ file[r.on] \in {None, r.b}
Claims(r) == ClaimsIn(r, sessions, browser, portFile)

\* A session's browser was started.
Housed(ses, br) == \A c \in Container : ses[c] # None => br[ses[c]].socket # "none"

\* One thread at a time works on the map and on what it names.
Locked == /\ \A t \in Thread : Working(request[t]) <=> lock = t
          /\ \A t \in Thread : Staged(request[t]) /\ Claims(request[t])
          /\ Housed(sessions, browser)

\* No command has two answers on the way, and nothing follows a close.
Wired(s) ==
  /\ \A i \in DOMAIN s.wire : s.wire[i].kind = "reply" =>
       /\ s.wire[i].n \in (1..MaxCalls) \ s.asked
       /\ \A j \in DOMAIN s.wire : s.wire[j].kind = "reply" /\ s.wire[j].n = s.wire[i].n => j = i
  /\ \A i \in DOMAIN s.wire : s.wire[i].kind = "close" => i = Len(s.wire)
  /\ s.socket \in {"none", "starting"} => s.wire = <<>> /\ s.asked = {}
  /\ ~s.alive => s.asked = {}

\* Every command of a connected browser has a number.
PendingOf(s) == s.asked \cup {m.n : m \in {x \in ToSet(s.wire) : x.kind = "reply"}}
Crowded(s) == s.socket = "open" /\ PendingOf(s) = 1..MaxCalls

\* What ConsoleInOrder says of one browser.
HeardTo(s, last) ==
  /\ last \in 0..s.emitted
  /\ Run(s.events, last) /\ Coming(s.wire, last, s.emitted)
  /\ IF Len(s.events) < EventCap THEN last = s.read + Len(s.events)
                                 ELSE last >= s.read + Len(s.events)

\* What holds of every browser process, whoever has it in hand.
Fit(s) == /\ s \in Process /\ Len(s.events) <= EventCap
          /\ Wired(s) /\ \E last \in 0..s.emitted : HeardTo(s, last)

\* There is a number left for the next command, unless its request still waits
\* for the answers.
Room == up => \A b \in Browser : Crowded(browser[b]) =>
          \E t \in Thread : request[t].at \in {"loop", "read"} /\ request[t].b = b

\* Every browser that runs is some session's, was left behind, or is being
\* launched.
Kept(b, br, ses, left, req, holder) ==
  br[b].alive => \/ \E c \in Container : ses[c] = b
                 \/ b \in left
                 \/ \E t \in Thread : req[t].op = "open" /\ req[t].b = b /\ holder = t
Tended == up => \A b \in Browser : Kept(b, browser, sessions, leaked, request, lock)

\* Types, with what makes each value a sound one.
Mapping(ses) == /\ ses \in [Container -> Browser \cup {None}]
                /\ \A c, d \in Container : ses[c] = ses[d] /\ ses[c] # None => c = d
Healthy(br) == /\ br \in [Browser -> Process]
               /\ \A b \in Browser : Fit(br[b]) /\ br[b].port \in {None, b}
Files(file) == file \in [Container -> Browser \cup {None}]

DebugInv ==
  /\ Mapping(sessions) /\ lock \in Thread \cup {Free} /\ request \in [Thread -> Request]
  /\ Healthy(browser) /\ Files(portFile)
  /\ running \subseteq Container /\ leaked \subseteq Browser /\ up \in BOOLEAN
  /\ Locked /\ Room /\ Tended

-----------------------------------------------------------------------------
(* What a browser process may become. *)

\* The parts of a process that the lemmas below speak about.
LEMMA ProcessParts ==
  ASSUME NEW s \in Process
  PROVE  /\ s.wire \in Seq(Message) /\ s.events \in Seq(Nat) /\ s.asked \subseteq 1..MaxCalls
         /\ Len(s.wire) \in Nat /\ Len(s.events) \in Nat
         /\ DOMAIN s.wire = 1..Len(s.wire) /\ DOMAIN s.events = 1..Len(s.events)
         /\ \A i \in 1..Len(s.wire) : /\ s.wire[i] \in Message
                                      /\ s.wire[i].kind \in {"event", "reply", "close"}
                                      /\ s.wire[i].n \in Nat
         /\ \A i \in 1..Len(s.events) : s.events[i] \in Nat
         /\ s.emitted \in Nat /\ s.read \in Nat
<1>1. s.wire \in Seq(Message) /\ s.events \in Seq(Nat) /\ s.asked \subseteq 1..MaxCalls
      /\ s.emitted \in Nat /\ s.read \in Nat
  BY DEF Process
<1>2. /\ Len(s.wire) \in Nat /\ Len(s.events) \in Nat
      /\ DOMAIN s.wire = 1..Len(s.wire) /\ DOMAIN s.events = 1..Len(s.events)
  BY <1>1, LenProperties
<1>3. ASSUME NEW i \in 1..Len(s.wire)
      PROVE  /\ s.wire[i] \in Message
             /\ s.wire[i].kind \in {"event", "reply", "close"} /\ s.wire[i].n \in Nat
  <2>1. s.wire[i] \in Message
    BY <1>1, ElementOfSeq
  <2>2. QED
    BY <2>1 DEF Message
<1>4. ASSUME NEW i \in 1..Len(s.events) PROVE s.events[i] \in Nat
  BY <1>1, ElementOfSeq
<1>5. QED
  BY <1>1, <1>2, <1>3, <1>4

LEMMA PendingMeans ==
  ASSUME NEW s \in Process
  PROVE  \A n : n \in PendingOf(s) <=>
           n \in s.asked \/ \E i \in 1..Len(s.wire) : s.wire[i].kind = "reply" /\ s.wire[i].n = n
BY ProcessParts DEF PendingOf, ToSet

LEMMA NoneFits == Fit(NoBrowser) /\ ~Crowded(NoBrowser)
<1>1. <<>> \in Seq(Message) /\ <<>> \in Seq(Nat) /\ Len(<<>>) = 0
  BY EmptySeq
<1>2. NoBrowser \in Process
  <2>1. 0 \in 0..MaxEvents
    OBVIOUS
  <2>2. QED
    BY <1>1, <2>1 DEF NoBrowser, Process
<1>3. NoBrowser.wire = <<>> /\ NoBrowser.events = <<>> /\ DOMAIN <<>> = {}
      /\ NoBrowser.emitted = 0 /\ NoBrowser.read = 0 /\ NoBrowser.asked = {}
      /\ NoBrowser.socket = "none" /\ NoBrowser.alive = FALSE
  BY DEF NoBrowser
<1>4. Wired(NoBrowser)
  BY <1>3 DEF Wired
<1>5. HeardTo(NoBrowser, 0)
  BY <1>1, <1>3 DEF HeardTo, Run, Coming
<1>6. QED
  BY <1>1, <1>2, <1>3, <1>4, <1>5 DEF Fit, Crowded

\* Commands, births, attachments and deaths leave what was sent as it is.
LEMMA SameTalk ==
  ASSUME NEW s, Fit(s), NEW s2 \in Process,
         s2.wire = s.wire, s2.events = s.events, s2.emitted = s.emitted, s2.read = s.read,
         Wired(s2)
  PROVE  Fit(s2)
BY DEF Fit, HeardTo

Started(s) == [s EXCEPT !.alive = TRUE, !.socket = "starting"]

LEMMA SpawnedFits ==
  ASSUME NEW s, Fit(s), s.socket = "none"
  PROVE  LET s2 == Started(s)
         IN  Fit(s2) /\ ~Crowded(s2) /\ s2.socket = "starting" /\ s2.alive
<1> DEFINE s2 == [s EXCEPT !.alive = TRUE, !.socket = "starting"]
<1>1. /\ s2 \in Process /\ s2.wire = s.wire /\ s2.events = s.events /\ s2.emitted = s.emitted
      /\ s2.read = s.read /\ s2.asked = s.asked /\ s2.socket = "starting" /\ s2.alive
  BY DEF Fit, Process
<1> HIDE DEF s2
<1>2. Wired(s2)
  BY <1>1 DEF Fit, Wired
<1>3. Fit(s2) /\ ~Crowded(s2)
  BY <1>1, <1>2, SameTalk DEF Crowded
<1>4. QED
  BY <1>1, <1>3 DEF s2, Started

AttachedTo(s, p) == [s EXCEPT !.socket = "open", !.port = p]

LEMMA AttachedFits ==
  ASSUME NEW s, Fit(s), s.socket = "starting", NEW p \in Browser
  PROVE  LET s2 == AttachedTo(s, p)
         IN  Fit(s2) /\ ~Crowded(s2) /\ s2.socket = "open" /\ s2.alive = s.alive /\ s2.port = p
<1> DEFINE s2 == [s EXCEPT !.socket = "open", !.port = p]
<1>1. /\ s2 \in Process /\ s2.wire = s.wire /\ s2.events = s.events /\ s2.emitted = s.emitted
      /\ s2.read = s.read /\ s2.asked = s.asked /\ s2.socket = "open" /\ s2.alive = s.alive
      /\ s2.port = p /\ s \in Process
  BY DEF Fit, Process
<1> HIDE DEF s2
<1>2. Wired(s2) /\ s2.wire = <<>> /\ s2.asked = {}
  BY <1>1 DEF Fit, Wired
<1>3. PendingOf(s2) = {}
  BY <1>2 DEF PendingOf, ToSet
<1>4. 1 \in 1..MaxCalls
  OBVIOUS
<1>5. Fit(s2) /\ ~Crowded(s2)
  BY <1>1, <1>2, <1>3, <1>4, SameTalk DEF Crowded
<1>6. QED
  BY <1>1, <1>5 DEF s2, AttachedTo

AskedTo(s, i) == [s EXCEPT !.asked = @ \cup {i}]

LEMMA AskedFits ==
  ASSUME NEW s, Fit(s), s.socket = "open", s.alive, NEW i \in 1..MaxCalls, i \notin PendingOf(s)
  PROVE  LET s2 == AskedTo(s, i)
         IN  Fit(s2) /\ s2.socket = s.socket /\ s2.alive = s.alive /\ s2.port = s.port
<1> DEFINE s2 == [s EXCEPT !.asked = @ \cup {i}]
<1>1. /\ s2 \in Process /\ s2.wire = s.wire /\ s2.events = s.events /\ s2.emitted = s.emitted
      /\ s2.read = s.read /\ s2.asked = s.asked \cup {i} /\ s2.socket = s.socket
      /\ s2.alive = s.alive /\ s2.port = s.port /\ s \in Process
  BY DEF Fit, Process
<1> HIDE DEF s2
<1>2. \A j \in DOMAIN s.wire : s.wire[j].kind = "reply" => s.wire[j].n # i
  BY <1>1, PendingMeans, ProcessParts
<1>3. Wired(s2)
  BY <1>1, <1>2 DEF Fit, Wired
<1>4. QED
  BY <1>1, <1>3, SameTalk DEF s2, AskedTo

Died(s) == [s EXCEPT !.alive = FALSE, !.asked = {}]

LEMMA DiedFits ==
  ASSUME NEW s, Fit(s)
  PROVE  LET s2 == Died(s)
         IN  Fit(s2) /\ (Crowded(s2) => Crowded(s)) /\ s2.socket = s.socket
             /\ ~s2.alive /\ s2.port = s.port
<1> DEFINE s2 == [s EXCEPT !.alive = FALSE, !.asked = {}]
<1>1. /\ s2 \in Process /\ s2.wire = s.wire /\ s2.events = s.events /\ s2.emitted = s.emitted
      /\ s2.read = s.read /\ s2.asked = {} /\ s2.socket = s.socket
      /\ ~s2.alive /\ s2.port = s.port /\ s \in Process
  BY DEF Fit, Process
<1> HIDE DEF s2
<1>2. Wired(s2)
  BY <1>1 DEF Fit, Wired
<1>3. PendingOf(s2) \subseteq PendingOf(s)
  BY <1>1 DEF PendingOf
<1>4. PendingOf(s) \subseteq 1..MaxCalls
  BY <1>1, PendingMeans, ProcessParts DEF Fit, Wired
<1>5. QED
  BY <1>1, <1>2, <1>3, <1>4, SameTalk DEF Crowded, s2, Died

\* The message at the head of the socket is taken off it.
LEMMA Taken ==
  ASSUME NEW s \in Process, s.wire # <<>>
  PROVE  /\ Tail(s.wire) \in Seq(Message) /\ Head(s.wire) = s.wire[1] /\ 1 \in 1..Len(s.wire)
         /\ Len(Tail(s.wire)) = Len(s.wire) - 1 /\ DOMAIN Tail(s.wire) = 1..(Len(s.wire) - 1)
         /\ \A i \in 1..(Len(s.wire) - 1) : Tail(s.wire)[i] = s.wire[i + 1] /\ i + 1 \in 1..Len(s.wire)
         /\ \A i \in 2..Len(s.wire) : s.wire[i] = Tail(s.wire)[i - 1] /\ i - 1 \in 1..(Len(s.wire) - 1)
<1>1. s.wire \in Seq(Message) /\ Len(s.wire) \in Nat /\ Len(s.wire) # 0
  BY ProcessParts, EmptySeq
<1>2. /\ Tail(s.wire) \in Seq(Message) /\ Len(Tail(s.wire)) = Len(s.wire) - 1
      /\ \A i \in 1..Len(Tail(s.wire)) : Tail(s.wire)[i] = s.wire[i + 1]
  BY <1>1, HeadTailProperties
<1>3. DOMAIN Tail(s.wire) = 1..(Len(s.wire) - 1)
  BY <1>2, LenProperties
<1>4. Head(s.wire) = s.wire[1]
  BY <1>1
<1>5. QED
  BY <1>1, <1>2, <1>3, <1>4

\* What is left on the socket is still in order and answers nothing twice.
LEMMA TakenWired ==
  ASSUME NEW s, Fit(s), s.wire # <<>>, NEW s2 \in Process,
         s2.wire = Tail(s.wire), s2.asked = s.asked, s2.socket = s.socket, s2.alive = s.alive
  PROVE  /\ Wired(s2) /\ (Crowded(s2) => Crowded(s))
         /\ Head(s.wire).kind = "reply" => Head(s.wire).n \notin PendingOf(s2)
<1>1. /\ s \in Process /\ Wired(s) /\ DOMAIN s.wire = 1..Len(s.wire) /\ Len(s.wire) \in Nat
      /\ DOMAIN s2.wire = 1..(Len(s.wire) - 1) /\ Len(s2.wire) = Len(s.wire) - 1
      /\ \A i \in 1..(Len(s.wire) - 1) : s2.wire[i] = s.wire[i + 1] /\ i + 1 \in 1..Len(s.wire)
      /\ Head(s.wire) = s.wire[1] /\ 1 \in 1..Len(s.wire)
  BY Taken, ProcessParts DEF Fit
<1>2. s.socket \notin {"none", "starting"}
  BY <1>1 DEF Wired
<1>3. \A i \in DOMAIN s2.wire : s2.wire[i].kind = "reply" =>
        /\ s2.wire[i].n \in (1..MaxCalls) \ s2.asked
        /\ \A j \in DOMAIN s2.wire : s2.wire[j].kind = "reply" /\ s2.wire[j].n = s2.wire[i].n => j = i
  <2> SUFFICES ASSUME NEW i \in DOMAIN s2.wire, s2.wire[i].kind = "reply"
               PROVE  /\ s2.wire[i].n \in (1..MaxCalls) \ s2.asked
                      /\ \A j \in DOMAIN s2.wire :
                           s2.wire[j].kind = "reply" /\ s2.wire[j].n = s2.wire[i].n => j = i
    OBVIOUS
  <2>1. i + 1 \in DOMAIN s.wire /\ s.wire[i + 1].kind = "reply" /\ s2.wire[i] = s.wire[i + 1]
        /\ i \in Nat
    BY <1>1
  <2>2. ASSUME NEW j \in DOMAIN s2.wire, s2.wire[j].kind = "reply", s2.wire[j].n = s2.wire[i].n
        PROVE  j = i
    <3>1. j + 1 \in DOMAIN s.wire /\ s2.wire[j] = s.wire[j + 1] /\ j \in Nat
      BY <1>1
    <3>2. j + 1 = i + 1
      BY <1>1, <2>1, <2>2, <3>1 DEF Wired
    <3>3. QED
      BY <2>1, <3>1, <3>2
  <2>3. QED
    BY <1>1, <2>1, <2>2 DEF Wired
<1>4. \A i \in DOMAIN s2.wire : s2.wire[i].kind = "close" => i = Len(s2.wire)
  <2> SUFFICES ASSUME NEW i \in DOMAIN s2.wire, s2.wire[i].kind = "close" PROVE i = Len(s2.wire)
    OBVIOUS
  <2>1. i + 1 \in DOMAIN s.wire /\ s.wire[i + 1].kind = "close" /\ i \in Nat
    BY <1>1
  <2>2. i + 1 = Len(s.wire)
    BY <1>1, <2>1 DEF Wired
  <2>3. QED
    BY <1>1, <2>1, <2>2
<1>5. Wired(s2)
  BY <1>1, <1>2, <1>3, <1>4 DEF Wired
<1> DEFINE sent(x, n) == \E i \in 1..Len(x.wire) : x.wire[i].kind = "reply" /\ x.wire[i].n = n
<1>a. \A n : n \in PendingOf(s) <=> n \in s.asked \/ sent(s, n)
  BY <1>1, PendingMeans
<1>b. \A n : n \in PendingOf(s2) <=> n \in s2.asked \/ sent(s2, n)
  BY PendingMeans
<1>6. PendingOf(s2) \subseteq PendingOf(s)
  <2>1. ASSUME NEW n, sent(s2, n) PROVE sent(s, n)
    BY <1>1, <2>1
  <2> HIDE DEF sent
  <2>2. QED
    BY <1>a, <1>b, <2>1
<1>7. PendingOf(s) \subseteq 1..MaxCalls
  <2>1. ASSUME NEW n, sent(s, n) PROVE n \in 1..MaxCalls
    BY <1>1, <2>1 DEF Wired
  <2>2. s.asked \subseteq 1..MaxCalls
    BY <1>1, ProcessParts
  <2> HIDE DEF sent
  <2>3. QED
    BY <1>a, <2>1, <2>2
<1>8. Head(s.wire).kind = "reply" => Head(s.wire).n \notin PendingOf(s2)
  <2> SUFFICES ASSUME Head(s.wire).kind = "reply", Head(s.wire).n \in PendingOf(s2) PROVE FALSE
    OBVIOUS
  <2>1. s.wire[1].n \notin s.asked
    BY <1>1 DEF Wired
  <2>2. PICK i \in 1..Len(s2.wire) : s2.wire[i].kind = "reply" /\ s2.wire[i].n = s.wire[1].n
    BY <1>1, <1>b, <2>1
  <2>3. i \in Nat /\ i # 0 /\ s2.wire[i] = s.wire[i + 1] /\ i + 1 \in DOMAIN s.wire
    BY <1>1
  <2>4. i + 1 = 1
    BY <1>1, <2>2, <2>3 DEF Wired
  <2>5. QED
    BY <2>3, <2>4
<1>9. QED
  BY <1>5, <1>6, <1>7, <1>8 DEF Crowded

\* Taking a reply leaves the events on the socket as they were.
LEMMA TakenComing ==
  ASSUME NEW s \in Process, s.wire # <<>>, Head(s.wire).kind # "event",
         NEW last, Coming(s.wire, last, s.emitted)
  PROVE  Coming(Tail(s.wire), last, s.emitted)
<1> DEFINE w == Tail(s.wire)
<1>1. /\ DOMAIN s.wire = 1..Len(s.wire) /\ Len(s.wire) \in Nat /\ DOMAIN w = 1..(Len(s.wire) - 1)
      /\ \A i \in 1..(Len(s.wire) - 1) : w[i] = s.wire[i + 1] /\ i + 1 \in 1..Len(s.wire)
      /\ \A i \in 2..Len(s.wire) : s.wire[i] = w[i - 1] /\ i - 1 \in 1..(Len(s.wire) - 1)
      /\ s.wire[1].kind # "event"
  <2>1. s.wire[1].kind # "event"
    BY Taken
  <2>2. DOMAIN s.wire = 1..Len(s.wire) /\ Len(s.wire) \in Nat
    BY ProcessParts
  <2>3. DOMAIN w = 1..(Len(s.wire) - 1)
    BY Taken
  <2>4. \A i \in 1..(Len(s.wire) - 1) : w[i] = s.wire[i + 1] /\ i + 1 \in 1..Len(s.wire)
    BY Taken
  <2>5. \A i \in 2..Len(s.wire) : s.wire[i] = w[i - 1] /\ i - 1 \in 1..(Len(s.wire) - 1)
    BY Taken
  <2>6. QED
    BY <2>1, <2>2, <2>3, <2>4, <2>5
<1> HIDE DEF w
<1>2. \A i \in DOMAIN w : w[i].kind = "event" => w[i].n \in (last + 1)..s.emitted
  <2> SUFFICES ASSUME NEW i \in DOMAIN w, w[i].kind = "event"
               PROVE  w[i].n \in (last + 1)..s.emitted
    OBVIOUS
  <2>1. i + 1 \in DOMAIN s.wire /\ w[i] = s.wire[i + 1]
    BY <1>1
  <2>2. QED
    BY <2>1 DEF Coming
<1>3. \A i, j \in DOMAIN w : w[i].kind = "event" /\ w[j].kind = "event" /\ i < j => w[i].n < w[j].n
  <2> SUFFICES ASSUME NEW i \in DOMAIN w, NEW j \in DOMAIN w,
                      w[i].kind = "event", w[j].kind = "event", i < j
               PROVE  w[i].n < w[j].n
    OBVIOUS
  <2>1. i + 1 \in DOMAIN s.wire /\ j + 1 \in DOMAIN s.wire /\ i + 1 < j + 1
        /\ w[i] = s.wire[i + 1] /\ w[j] = s.wire[j + 1]
    BY <1>1
  <2>2. QED
    BY <2>1 DEF Coming
<1>4. ASSUME NEW n \in (last + 1)..s.emitted PROVE \E i \in DOMAIN w : w[i].kind = "event" /\ w[i].n = n
  <2>1. PICK i \in DOMAIN s.wire : s.wire[i].kind = "event" /\ s.wire[i].n = n
    BY DEF Coming
  <2>2. i \in 2..Len(s.wire)
    BY <1>1, <2>1
  <2>3. QED
    BY <1>1, <2>1, <2>2
<1>5. QED
  BY <1>2, <1>3, <1>4 DEF Coming, w

Skipped(s) == [s EXCEPT !.wire = Tail(@)]

LEMMA SkippedFits ==
  ASSUME NEW s, Fit(s), s.wire # <<>>, Head(s.wire).kind = "reply"
  PROVE  LET s2 == Skipped(s)
         IN  /\ Fit(s2) /\ (Crowded(s2) => Crowded(s)) /\ Head(s.wire).n \notin PendingOf(s2)
             /\ s2.socket = s.socket /\ s2.alive = s.alive /\ s2.port = s.port
             /\ s2.events = s.events
<1> DEFINE s2 == [s EXCEPT !.wire = Tail(@)]
<1>1. s \in Process /\ Tail(s.wire) \in Seq(Message)
  BY Taken DEF Fit
<1>2. /\ s2 \in Process /\ s2.wire = Tail(s.wire) /\ s2.events = s.events
      /\ s2.emitted = s.emitted /\ s2.read = s.read /\ s2.asked = s.asked
      /\ s2.socket = s.socket /\ s2.alive = s.alive /\ s2.port = s.port
  BY <1>1 DEF Process
<1> HIDE DEF s2
<1>3. /\ Wired(s2) /\ (Crowded(s2) => Crowded(s)) /\ Head(s.wire).n \notin PendingOf(s2)
  BY <1>2, TakenWired
<1>4. \E last \in 0..s2.emitted : HeardTo(s2, last)
  <2>1. PICK last \in 0..s.emitted : HeardTo(s, last)
    BY DEF Fit
  <2>2. Coming(s2.wire, last, s2.emitted)
    BY <1>1, <1>2, <2>1, TakenComing DEF HeardTo
  <2>3. HeardTo(s2, last)
    BY <1>2, <2>1, <2>2 DEF HeardTo
  <2>4. QED
    BY <1>2, <2>3
<1>5. QED
  BY <1>2, <1>3, <1>4 DEF Fit, s2, Skipped

Emptied(s) == [s EXCEPT !.events = <<>>,
                  !.read = IF s.events = <<>> THEN @ ELSE Last(s.events)]

\* drain_events: what was buffered has now been read.
LEMMA DrainedFits ==
  ASSUME NEW s, Fit(s)
  PROVE  LET s2 == Emptied(s)
         IN  /\ Fit(s2) /\ (Crowded(s2) => Crowded(s)) /\ PendingOf(s2) = PendingOf(s)
             /\ s2.socket = s.socket /\ s2.alive = s.alive /\ s2.port = s.port
<1> DEFINE read == IF s.events = <<>> THEN s.read ELSE Last(s.events)
           s2 == [s EXCEPT !.events = <<>>, !.read = read]
<1>1. /\ s \in Process /\ Len(s.events) \in Nat /\ s.events \in Seq(Nat) /\ s.emitted \in Nat
      /\ s.read \in Nat /\ DOMAIN s.events = 1..Len(s.events) /\ Len(s.events) <= EventCap
      /\ <<>> \in Seq(Nat) /\ Len(<<>>) = 0
      /\ s.events # <<>> => Len(s.events) \in 1..Len(s.events)
  <2>1. s \in Process /\ s.events \in Seq(Nat) /\ Len(s.events) <= EventCap
    BY ProcessParts DEF Fit
  <2>2. s.events # <<>> => Len(s.events) \in Nat \ {0}
    BY <2>1, EmptySeq
  <2>3. QED
    BY <2>1, <2>2, EmptySeq, ProcessParts
<1>2. PICK last \in 0..s.emitted : HeardTo(s, last)
  BY DEF Fit
<1>3. read = last
  <2>1. CASE s.events = <<>>
    BY <1>1, <1>2, <2>1 DEF HeardTo
  <2>2. CASE s.events # <<>>
    <3>1. s.events[Len(s.events)] = last - Len(s.events) + Len(s.events)
      BY <1>1, <1>2, <2>2 DEF HeardTo, Run
    <3>2. QED
      BY <1>1, <1>2, <2>2, <3>1 DEF Last
  <2>3. QED
    BY <2>1, <2>2
<1>4. last \in Nat
  BY <1>1, <1>2
<1> HIDE DEF read
<1>5. /\ s2 \in Process /\ s2.wire = s.wire /\ s2.events = <<>>
      /\ s2.emitted = s.emitted /\ s2.read = last /\ s2.asked = s.asked
      /\ s2.socket = s.socket /\ s2.alive = s.alive /\ s2.port = s.port
  BY <1>1, <1>3, <1>4 DEF Process
<1> HIDE DEF s2
<1>6. Wired(s2) /\ PendingOf(s2) = PendingOf(s) /\ (Crowded(s2) <=> Crowded(s))
  BY <1>5 DEF Fit, Wired, PendingOf, Crowded
<1>7. HeardTo(s2, last)
  BY <1>1, <1>2, <1>4, <1>5 DEF HeardTo, Run
<1>8. Fit(s2)
  BY <1>1, <1>5, <1>6, <1>7, <1>2 DEF Fit
<1>9. QED
  BY <1>5, <1>6, <1>8 DEF s2, read, Emptied

Ended(s) == [s EXCEPT !.wire = <<>>, !.socket = "closed"]

\* The close is the last message, so nothing unread is lost with the socket.
LEMMA ClosedFits ==
  ASSUME NEW s, Fit(s), s.wire # <<>>, Head(s.wire).kind = "close"
  PROVE  LET s2 == Ended(s)
         IN  /\ Fit(s2) /\ ~Crowded(s2)
             /\ s2.socket = "closed" /\ s2.alive = s.alive /\ s2.port = s.port
<1> DEFINE s2 == [s EXCEPT !.wire = <<>>, !.socket = "closed"]
<1>1. s \in Process /\ <<>> \in Seq(Message) /\ DOMAIN <<>> = {} /\ Len(s.wire) = 1
      /\ s.wire[1].kind = "close" /\ DOMAIN s.wire = 1..1
  <2>1. s \in Process /\ Head(s.wire) = s.wire[1] /\ 1 \in 1..Len(s.wire)
        /\ DOMAIN s.wire = 1..Len(s.wire)
    BY Taken, ProcessParts DEF Fit
  <2>2. Len(s.wire) = 1
    BY <2>1 DEF Fit, Wired
  <2>3. QED
    BY <2>1, <2>2, EmptySeq
<1>2. /\ s2 \in Process /\ s2.wire = <<>> /\ s2.events = s.events
      /\ s2.emitted = s.emitted /\ s2.read = s.read /\ s2.asked = s.asked
      /\ s2.socket = "closed" /\ s2.alive = s.alive /\ s2.port = s.port
  BY <1>1 DEF Process
<1> HIDE DEF s2
<1>3. Wired(s2)
  BY <1>1, <1>2 DEF Fit, Wired
<1>4. PICK last \in 0..s.emitted : HeardTo(s, last)
  BY DEF Fit
<1>5. Coming(s2.wire, last, s2.emitted)
  <2>1. \A n \in (last + 1)..s.emitted : FALSE
    BY <1>1, <1>4 DEF HeardTo, Coming
  <2>2. QED
    BY <1>1, <1>2, <2>1 DEF Coming
<1>6. HeardTo(s2, last)
  BY <1>2, <1>4, <1>5 DEF HeardTo
<1>7. QED
  BY <1>2, <1>3, <1>4, <1>6 DEF Fit, Crowded, s2, Ended

\* A message more on the socket.
LEMMA Appended ==
  ASSUME NEW s \in Process, NEW m \in Message
  PROVE  /\ Append(s.wire, m) \in Seq(Message) /\ Len(Append(s.wire, m)) = Len(s.wire) + 1
         /\ DOMAIN Append(s.wire, m) = 1..(Len(s.wire) + 1)
         /\ \A i \in 1..Len(s.wire) : Append(s.wire, m)[i] = s.wire[i]
         /\ Append(s.wire, m)[Len(s.wire) + 1] = m
<1>1. s.wire \in Seq(Message)
  BY ProcessParts
<1>2. /\ Append(s.wire, m) \in Seq(Message) /\ Len(Append(s.wire, m)) = Len(s.wire) + 1
      /\ \A i \in 1..Len(s.wire) : Append(s.wire, m)[i] = s.wire[i]
      /\ Append(s.wire, m)[Len(s.wire) + 1] = m
  BY <1>1, AppendProperties
<1>3. DOMAIN Append(s.wire, m) = 1..Len(Append(s.wire, m))
  BY <1>2, LenProperties
<1>4. QED
  BY <1>2, <1>3

LEMMA AppendedWired ==
  ASSUME NEW s, Fit(s), s.alive, NEW m \in Message, NEW s2 \in Process,
         s2.wire = Append(s.wire, m), s2.asked \subseteq s.asked,
         s2.socket = s.socket, s2.alive = s.alive, s.socket \notin {"none", "starting"},
         \A i \in DOMAIN s.wire : s.wire[i].kind # "close",
         m.kind = "reply" => m.n \in s.asked \ s2.asked
  PROVE  Wired(s2) /\ (Crowded(s2) => Crowded(s))
<1> DEFINE k == Len(s.wire)
<1>1. /\ s \in Process /\ Wired(s) /\ k \in Nat /\ DOMAIN s.wire = 1..k
      /\ s.asked \subseteq 1..MaxCalls
  BY ProcessParts DEF Fit
<1>2. /\ DOMAIN s2.wire = 1..(k + 1) /\ Len(s2.wire) = k + 1
      /\ \A i \in 1..k : s2.wire[i] = s.wire[i]
      /\ s2.wire[k + 1] = m
  BY <1>1, Appended
<1> HIDE DEF k
<1>3. \A i \in 1..k : s.wire[i].kind = "reply" => s.wire[i].n \in (1..MaxCalls) \ s.asked
  BY <1>1 DEF Wired
<1>4. ASSUME NEW i \in 1..(k + 1), s2.wire[i].kind = "reply"
      PROVE  /\ s2.wire[i].n \in (1..MaxCalls) \ s2.asked
             /\ \A j \in 1..(k + 1) : s2.wire[j].kind = "reply" /\ s2.wire[j].n = s2.wire[i].n => j = i
  <2>1. CASE i = k + 1
    <3>1. s2.wire[i].n \in s.asked \ s2.asked
      BY <1>2, <1>4, <2>1
    <3>2. ASSUME NEW j \in 1..k, s2.wire[j].kind = "reply" PROVE s2.wire[j].n \notin s.asked
      BY <1>2, <1>3, <3>2
    <3>3. \A j \in 1..(k + 1) : j \in 1..k \/ j = k + 1
      BY <1>1
    <3>4. QED
      BY <1>1, <2>1, <3>1, <3>2, <3>3
  <2>2. CASE i \in 1..k
    <3>1. s2.wire[i].n \in (1..MaxCalls) \ s.asked
      BY <1>2, <1>3, <1>4, <2>2
    <3>2. ASSUME NEW j \in 1..k, s2.wire[j].kind = "reply", s2.wire[j].n = s2.wire[i].n PROVE j = i
      BY <1>1, <1>2, <1>4, <2>2, <3>2 DEF Wired
    <3>3. s2.wire[k + 1].kind = "reply" => s2.wire[k + 1].n # s2.wire[i].n
      BY <1>2, <3>1
    <3>4. \A j \in 1..(k + 1) : j \in 1..k \/ j = k + 1
      BY <1>1
    <3>5. QED
      BY <3>1, <3>2, <3>3, <3>4
  <2>3. QED
    BY <1>1, <2>1, <2>2
<1>5. ASSUME NEW i \in 1..(k + 1), s2.wire[i].kind = "close" PROVE i = k + 1
  BY <1>1, <1>2, <1>5
<1>6. Wired(s2)
  BY <1>1, <1>2, <1>4, <1>5 DEF Wired
<1>7. PendingOf(s2) \subseteq PendingOf(s)
  <2> DEFINE sent(x, n) == \E i \in 1..Len(x.wire) : x.wire[i].kind = "reply" /\ x.wire[i].n = n
  <2>1. \A n : n \in PendingOf(s) <=> n \in s.asked \/ sent(s, n)
    BY <1>1, PendingMeans
  <2>2. \A n : n \in PendingOf(s2) <=> n \in s2.asked \/ sent(s2, n)
    BY PendingMeans
  <2>3. ASSUME NEW n, sent(s2, n) PROVE sent(s, n) \/ n \in s.asked
    <3>1. PICK i \in 1..(k + 1) : s2.wire[i].kind = "reply" /\ s2.wire[i].n = n
      BY <1>2, <2>3
    <3>2. i \in 1..k \/ i = k + 1
      BY <1>1
    <3>3. QED
      BY <1>1, <1>2, <3>1, <3>2 DEF k
  <2> HIDE DEF sent
  <2>4. QED
    BY <2>1, <2>2, <2>3
<1>8. PendingOf(s) \subseteq 1..MaxCalls
  <2> DEFINE sent(n) == \E i \in 1..k : s.wire[i].kind = "reply" /\ s.wire[i].n = n
  <2>1. \A n : n \in PendingOf(s) <=> n \in s.asked \/ sent(n)
    BY <1>1, PendingMeans DEF k
  <2>2. ASSUME NEW n, sent(n) PROVE n \in 1..MaxCalls
    BY <1>3, <2>2
  <2> HIDE DEF sent
  <2>3. QED
    BY <1>1, <2>1, <2>2
<1>9. QED
  BY <1>6, <1>7, <1>8 DEF Crowded

LEMMA AppendedComing ==
  ASSUME NEW s \in Process, NEW m \in Message, m.kind # "event",
         NEW last, Coming(s.wire, last, s.emitted)
  PROVE  Coming(Append(s.wire, m), last, s.emitted)
<1> DEFINE w == Append(s.wire, m)
           k == Len(s.wire)
<1>1. /\ k \in Nat /\ DOMAIN s.wire = 1..k /\ DOMAIN w = 1..(k + 1)
      /\ \A i \in 1..k : w[i] = s.wire[i]
      /\ w[k + 1].kind # "event"
  <2>1. k \in Nat /\ DOMAIN s.wire = 1..k
    BY ProcessParts
  <2>2. /\ DOMAIN w = 1..(k + 1) /\ \A i \in 1..k : w[i] = s.wire[i]
    BY Appended
  <2>3. w[k + 1] = m
    BY Appended
  <2>4. QED
    BY <2>1, <2>2, <2>3
<1> HIDE DEF w, k
<1>2. {i \in DOMAIN w : w[i].kind = "event"} = {i \in DOMAIN s.wire : s.wire[i].kind = "event"}
  <2>1. \A i \in 1..(k + 1) : i \in 1..k \/ i = k + 1
    BY <1>1
  <2>2. \A i \in 1..k : i \in 1..(k + 1)
    BY <1>1
  <2>3. QED
    BY <1>1, <2>1, <2>2
<1> DEFINE on == {i \in DOMAIN s.wire : s.wire[i].kind = "event"}
<1>3. \A i \in on : w[i] = s.wire[i]
  BY <1>1
<1>4. QED
  <2>1. \A i \in on : s.wire[i].n \in (last + 1)..s.emitted
    BY DEF Coming
  <2>2. \A i, j \in on : i < j => s.wire[i].n < s.wire[j].n
    BY DEF Coming
  <2>3. \A n \in (last + 1)..s.emitted : \E i \in on : s.wire[i].n = n
    BY DEF Coming
  <2>4. on = {i \in DOMAIN w : w[i].kind = "event"}
    BY <1>2
  <2> HIDE DEF on
  <2>5. QED
    BY <1>3, <2>1, <2>2, <2>3, <2>4 DEF Coming, w

AnsweredTo(s, i) == [s EXCEPT !.asked = @ \ {i}, !.wire = Append(@, Reply(i))]

\* A browser answers: the number moves from what it was asked to the socket.
LEMMA AnsweredFits ==
  ASSUME NEW s, Fit(s), s.alive, NEW i \in s.asked,
         \A j \in DOMAIN s.wire : s.wire[j].kind # "close"
  PROVE  LET s2 == AnsweredTo(s, i)
         IN  /\ Fit(s2) /\ (Crowded(s2) => Crowded(s))
             /\ s2.socket = s.socket /\ s2.alive = s.alive /\ s2.port = s.port
<1> DEFINE m == Reply(i)
           s2 == [s EXCEPT !.asked = @ \ {i}, !.wire = Append(@, m)]
<1>1. s \in Process /\ Wired(s) /\ s.socket \notin {"none", "starting"} /\ i \in 1..MaxCalls
  BY ProcessParts DEF Fit, Wired
<1>2. m \in Message /\ m.kind = "reply" /\ m.n = i
  BY <1>1 DEF Reply, Message
<1> HIDE DEF m
<1>3. Append(s.wire, m) \in Seq(Message)
  BY <1>1, <1>2, Appended
<1>4. /\ s2 \in Process /\ s2.wire = Append(s.wire, m) /\ s2.events = s.events
      /\ s2.emitted = s.emitted /\ s2.read = s.read /\ s2.asked = s.asked \ {i}
      /\ s2.socket = s.socket /\ s2.alive = s.alive /\ s2.port = s.port
  BY <1>1, <1>3 DEF Process
<1> HIDE DEF s2
<1>5. Wired(s2) /\ (Crowded(s2) => Crowded(s))
  <2>1. i \in s.asked \ s2.asked /\ s2.asked \subseteq s.asked
    BY <1>4
  <2>2. QED
    BY <1>1, <1>2, <1>4, <2>1, AppendedWired
<1>6. PICK last \in 0..s.emitted : HeardTo(s, last)
  BY DEF Fit
<1>7. HeardTo(s2, last)
  <2>1. Coming(s2.wire, last, s2.emitted)
    BY <1>1, <1>2, <1>4, <1>6, AppendedComing DEF HeardTo
  <2>2. QED
    BY <1>4, <1>6, <2>1 DEF HeardTo
<1>8. QED
  BY <1>4, <1>5, <1>6, <1>7 DEF Fit, s2, m, AnsweredTo

Closing(s) == [s EXCEPT !.asked = {}, !.wire = Append(@, [kind |-> "close", n |-> 0])]

\* A browser closes the socket: what it was asked is not answered any more.
LEMMA ClosingFits ==
  ASSUME NEW s, Fit(s), s.alive, s.socket = "open",
         \A j \in DOMAIN s.wire : s.wire[j].kind # "close"
  PROVE  LET s2 == Closing(s)
         IN  /\ Fit(s2) /\ (Crowded(s2) => Crowded(s))
             /\ s2.socket = s.socket /\ s2.alive = s.alive /\ s2.port = s.port
<1> DEFINE m == [kind |-> "close", n |-> 0]
           s2 == [s EXCEPT !.asked = {}, !.wire = Append(@, m)]
<1>1. s \in Process
  BY DEF Fit
<1>2. m \in Message /\ m.kind = "close"
  <2>1. 0 \in 0..(MaxCalls + MaxEvents)
    OBVIOUS
  <2>2. QED
    BY <2>1 DEF Message
<1> HIDE DEF m
<1>3. Append(s.wire, m) \in Seq(Message)
  BY <1>1, <1>2, Appended
<1>4. /\ s2 \in Process /\ s2.wire = Append(s.wire, m) /\ s2.events = s.events
      /\ s2.emitted = s.emitted /\ s2.read = s.read /\ s2.asked = {}
      /\ s2.socket = s.socket /\ s2.alive = s.alive /\ s2.port = s.port
  BY <1>1, <1>3 DEF Process
<1> HIDE DEF s2
<1>5. Wired(s2) /\ (Crowded(s2) => Crowded(s))
  <2>1. s2.asked \subseteq s.asked /\ m.kind # "reply" /\ s.socket \notin {"none", "starting"}
    BY <1>2, <1>4
  <2>2. QED
    BY <1>1, <1>2, <1>4, <2>1, AppendedWired
<1>6. PICK last \in 0..s.emitted : HeardTo(s, last)
  BY DEF Fit
<1>7. HeardTo(s2, last)
  <2>1. Coming(s2.wire, last, s2.emitted)
    BY <1>1, <1>2, <1>4, <1>6, AppendedComing DEF HeardTo
  <2>2. QED
    BY <1>4, <1>6, <2>1 DEF HeardTo
<1>8. QED
  BY <1>4, <1>5, <1>6, <1>7 DEF Fit, s2, m, Closing

Logged(s) == [s EXCEPT !.emitted = @ + 1, !.wire = Append(@, Event(s.emitted + 1))]

\* A page logs: the newest event is the last on the socket.
LEMMA EmittedFits ==
  ASSUME NEW s, Fit(s), s.alive, s.socket = "open", s.emitted < MaxEvents,
         \A j \in DOMAIN s.wire : s.wire[j].kind # "close"
  PROVE  LET s2 == Logged(s)
         IN  /\ Fit(s2) /\ (Crowded(s2) => Crowded(s))
             /\ s2.socket = s.socket /\ s2.alive = s.alive /\ s2.port = s.port
<1> DEFINE m == Event(s.emitted + 1)
           w == Append(s.wire, m)
           k == Len(s.wire)
           s2 == [s EXCEPT !.emitted = @ + 1, !.wire = w]
<1>1. s \in Process /\ s.emitted \in 0..MaxEvents /\ s.emitted + 1 \in 0..MaxEvents
  BY DEF Fit, Process
<1>2. m \in Message /\ m.kind = "event" /\ m.n = s.emitted + 1
  <2>1. s.emitted + 1 \in 0..(MaxCalls + MaxEvents)
    BY <1>1
  <2>2. QED
    BY <2>1 DEF Message, Event
<1> HIDE DEF m
<1>3. w \in Seq(Message)
  BY <1>1, <1>2, Appended
<1>a. /\ k \in Nat /\ DOMAIN s.wire = 1..k /\ DOMAIN w = 1..(k + 1)
      /\ \A i \in 1..k : w[i] = s.wire[i]
      /\ w[k + 1] = m
  <2>1. k \in Nat /\ DOMAIN s.wire = 1..k
    BY <1>1, ProcessParts
  <2>2. /\ DOMAIN w = 1..(k + 1) /\ \A i \in 1..k : w[i] = s.wire[i]
    BY <1>1, <1>2, Appended
  <2>3. w[k + 1] = m
    BY <1>1, <1>2, Appended
  <2>4. QED
    BY <2>1, <2>2, <2>3
<1>4. /\ s2 \in Process /\ s2.wire = Append(s.wire, m) /\ s2.events = s.events /\ s2.wire = w
      /\ s2.emitted = s.emitted + 1 /\ s2.read = s.read /\ s2.asked = s.asked
      /\ s2.socket = s.socket /\ s2.alive = s.alive /\ s2.port = s.port
  BY <1>1, <1>3 DEF Process
<1> HIDE DEF s2, w, k
<1>5. Wired(s2) /\ (Crowded(s2) => Crowded(s))
  <2>1. s2.asked \subseteq s.asked /\ m.kind # "reply" /\ s.socket \notin {"none", "starting"}
    BY <1>2, <1>4
  <2>2. QED
    BY <1>1, <1>2, <1>4, <2>1, AppendedWired
<1>6. PICK last \in 0..s.emitted : HeardTo(s, last)
  BY DEF Fit
<1>7. Coming(w, last, s.emitted + 1)
  <2> DEFINE now(i) == w[i].kind = "event"
             was(i) == s.wire[i].kind = "event"
  <2>1. \A i \in 1..k : was(i) => s.wire[i].n \in (last + 1)..s.emitted
    BY <1>6, <1>a DEF HeardTo, Coming
  <2>2. \A i, j \in 1..k : was(i) /\ was(j) /\ i < j => s.wire[i].n < s.wire[j].n
    BY <1>6, <1>a DEF HeardTo, Coming
  <2>3. \A n \in (last + 1)..s.emitted : \E i \in 1..k : was(i) /\ s.wire[i].n = n
    BY <1>6, <1>a DEF HeardTo, Coming
  <2>4. \A i \in 1..(k + 1) : i \in 1..k \/ i = k + 1
    BY <1>a
  <2>5. \A i \in 1..k : w[i] = s.wire[i] /\ i < k + 1 /\ i \in 1..(k + 1)
    BY <1>a
  <2>6. w[k + 1].n = s.emitted + 1 /\ now(k + 1) /\ k + 1 \in 1..(k + 1)
    BY <1>2, <1>a
  <2>7. ASSUME NEW i \in 1..(k + 1), now(i) PROVE w[i].n \in (last + 1)..(s.emitted + 1)
    <3>1. CASE i \in 1..k
      <4>1. s.wire[i].n \in (last + 1)..s.emitted
        BY <2>1, <2>5, <2>7, <3>1
      <4>2. QED
        BY <1>1, <1>6, <2>5, <3>1, <4>1
    <3>2. CASE i = k + 1
      BY <1>1, <1>6, <2>6, <3>2
    <3>3. QED
      BY <2>4, <3>1, <3>2
  <2>8. ASSUME NEW i \in 1..(k + 1), NEW j \in 1..(k + 1), now(i), now(j), i < j
        PROVE  w[i].n < w[j].n
    <3>1. i \in 1..k
      BY <1>a, <2>8
    <3>2. CASE j \in 1..k
      BY <2>2, <2>5, <2>8, <3>1, <3>2
    <3>3. CASE j = k + 1
      <4>1. w[i].n \in (last + 1)..s.emitted
        BY <2>1, <2>5, <2>8, <3>1
      <4>2. QED
        BY <1>1, <1>6, <2>6, <3>3, <4>1
    <3>4. QED
      BY <2>4, <3>2, <3>3
  <2>9. ASSUME NEW n \in (last + 1)..(s.emitted + 1)
        PROVE  \E i \in 1..(k + 1) : now(i) /\ w[i].n = n
    <3>1. CASE n = s.emitted + 1
      BY <2>6, <3>1
    <3>2. CASE n \in (last + 1)..s.emitted
      <4>1. PICK i \in 1..k : was(i) /\ s.wire[i].n = n
        BY <2>3, <3>2
      <4>2. QED
        BY <2>5, <4>1
    <3>3. n = s.emitted + 1 \/ n \in (last + 1)..s.emitted
      BY <1>1, <1>6
    <3>4. QED
      BY <3>1, <3>2, <3>3
  <2>10. QED
    BY <1>a, <2>7, <2>8, <2>9 DEF Coming
<1>8. HeardTo(s2, last)
  <2>1. last \in 0..s2.emitted
    BY <1>1, <1>4, <1>6
  <2>2. QED
    BY <1>4, <1>6, <1>7, <2>1 DEF HeardTo
<1>9. last \in 0..s2.emitted
  BY <1>8 DEF HeardTo
<1>10. QED
  BY <1>4, <1>5, <1>8, <1>9 DEF Fit, s2, m, w, Logged

\* The buffer after one more event still ends with the last one read.
LEMMA BufferedRuns ==
  ASSUME NEW events \in Seq(Nat), Len(events) <= EventCap, NEW last \in Nat, Run(events, last)
  PROVE  LET after == Buffered(events, last + 1)
         IN  /\ after \in Seq(Nat) /\ Run(after, last + 1)
             /\ Len(after) = IF Len(events) < EventCap THEN Len(events) + 1 ELSE Len(events)
<1> DEFINE k == Len(events)
           kept == IF k >= EventCap THEN Tail(events) ELSE events
           lost == IF k >= EventCap THEN 1 ELSE 0
           after == Append(kept, last + 1)
<1>1. k \in Nat /\ DOMAIN events = 1..k
  BY LenProperties
<1>2. \A i \in 1..k : events[i] = last - k + i
  BY <1>1 DEF Run
<1>3. kept \in Seq(Nat) /\ Len(kept) = k - lost /\ \A i \in 1..(k - lost) : kept[i] = last - k + (i + lost)
  <2>1. CASE k >= EventCap
    <3>1. events # <<>>
      BY <2>1, EmptySeq
    <3>2. Tail(events) \in Seq(Nat) /\ Len(Tail(events)) = k - 1
          /\ \A i \in 1..(k - 1) : Tail(events)[i] = events[i + 1]
      BY <3>1, HeadTailProperties
    <3>3. \A i \in 1..(k - 1) : i + 1 \in 1..k
      BY <1>1
    <3>4. \A i \in 1..(k - 1) : Tail(events)[i] = last - k + (i + 1)
      BY <1>2, <3>2, <3>3
    <3>5. kept = Tail(events) /\ lost = 1
      BY <2>1
    <3> HIDE DEF kept, lost, k
    <3>6. QED
      BY <3>2, <3>4, <3>5
  <2>2. CASE ~(k >= EventCap)
    BY <1>1, <1>2, <2>2
  <2>3. QED
    BY <2>1, <2>2
<1>4. lost \in {0, 1} /\ (k < EventCap => lost = 0) /\ (~(k < EventCap) => lost = 1) /\ k - lost \in Nat
  BY <1>1
<1> DEFINE r == k - lost
<1>5. last + 1 \in Nat
  OBVIOUS
<1> HIDE DEF kept, lost
<1>6. /\ after \in Seq(Nat) /\ Len(after) = r + 1
      /\ \A i \in 1..r : after[i] = kept[i]
      /\ after[r + 1] = last + 1
  BY <1>3, <1>5, AppendProperties
<1>7. DOMAIN after = 1..(r + 1)
  BY <1>6, LenProperties
<1>8. ASSUME NEW i \in 1..(r + 1) PROVE after[i] = (last + 1) - (r + 1) + i
  <2>1. CASE i \in 1..r
    BY <1>1, <1>3, <1>4, <1>6, <2>1
  <2>2. CASE i = r + 1
    BY <1>1, <1>4, <1>6, <2>2
  <2>3. i \in 1..r \/ i = r + 1
    <3>1. r \in Nat
      BY <1>4
    <3> HIDE DEF r
    <3>2. QED
      BY <3>1
  <2>4. QED
    BY <2>1, <2>2, <2>3
<1>9. Run(after, last + 1)
  BY <1>6, <1>7, <1>8 DEF Run
<1>10. r + 1 = IF k < EventCap THEN k + 1 ELSE k
  BY <1>1, <1>4
<1>11. after = Buffered(events, last + 1)
  BY DEF Buffered, kept
<1> HIDE DEF r, k
<1>12. QED
  BY <1>6, <1>9, <1>10, <1>11 DEF k

\* The event at the head of the socket is the one after the last one read, and
\* what is behind it comes after it.
LEMMA HeadIsNext ==
  ASSUME NEW s \in Process, s.wire # <<>>, Head(s.wire).kind = "event",
         NEW last \in Nat, Coming(s.wire, last, s.emitted)
  PROVE  /\ Head(s.wire).n = last + 1 /\ last + 1 \in 0..s.emitted
         /\ Coming(Tail(s.wire), last + 1, s.emitted)
<1> DEFINE w == Tail(s.wire)
           k == Len(s.wire)
           was(i) == s.wire[i].kind = "event"
           now(i) == w[i].kind = "event"
<1>1. k \in Nat /\ DOMAIN s.wire = 1..k /\ s.emitted \in Nat
  BY ProcessParts
<1>2. DOMAIN w = 1..(k - 1)
  BY Taken
<1>3. \A i \in 1..(k - 1) : w[i] = s.wire[i + 1] /\ i + 1 \in 1..k
  BY Taken
<1>4. \A i \in 2..k : s.wire[i] = w[i - 1] /\ i - 1 \in 1..(k - 1)
  BY Taken
<1>5. Head(s.wire) = s.wire[1] /\ 1 \in 1..k /\ was(1)
  BY Taken
<1> DEFINE on == {i \in 1..k : was(i)}
<1>6. \A i \in on : s.wire[i].n \in (last + 1)..s.emitted
  BY <1>1 DEF Coming
<1>7. \A i, j \in on : i < j => s.wire[i].n < s.wire[j].n
  BY <1>1 DEF Coming
<1>8. \A n \in (last + 1)..s.emitted : \E i \in on : s.wire[i].n = n
  BY <1>1 DEF Coming
<1>9. 1 \in on /\ \A i \in on : i \in 1..k /\ was(i)
  BY <1>5
<1>10. \A i \in 1..k : was(i) => i \in on
  OBVIOUS
<1> HIDE DEF on, w, k, was
<1>11. s.wire[1].n = last + 1
  <2>1. s.wire[1].n \in (last + 1)..s.emitted
    BY <1>6, <1>9
  <2>2. last + 1 \in (last + 1)..s.emitted
    BY <1>1, <2>1
  <2>3. PICK i \in on : s.wire[i].n = last + 1
    BY <1>8, <2>2
  <2>4. i \in 1..k
    BY <1>9
  <2>5. CASE i = 1
    BY <2>3, <2>5
  <2>6. CASE 1 < i
    <3>1. s.wire[1].n < last + 1
      BY <1>7, <1>9, <2>3, <2>6
    <3>2. QED
      BY <1>1, <2>1, <3>1
  <2>7. QED
    BY <1>1, <2>4, <2>5, <2>6
<1>12. last + 1 \in 0..s.emitted
  <2>1. last + 1 \in (last + 1)..s.emitted
    BY <1>6, <1>9, <1>11
  <2>2. QED
    BY <1>1, <2>1
<1>13. \A i \in 1..(k - 1) : now(i) => i + 1 \in on /\ 1 < i + 1 /\ w[i] = s.wire[i + 1]
  BY <1>1, <1>3, <1>10 DEF was
<1>14. ASSUME NEW i \in 1..(k - 1), now(i) PROVE w[i].n \in (last + 1 + 1)..s.emitted
  <2>1. w[i].n \in (last + 1)..s.emitted
    BY <1>6, <1>13, <1>14
  <2>2. last + 1 < w[i].n
    BY <1>7, <1>9, <1>11, <1>13, <1>14
  <2>3. QED
    BY <1>1, <2>1, <2>2
<1>15. ASSUME NEW i \in 1..(k - 1), NEW j \in 1..(k - 1), now(i), now(j), i < j
       PROVE  w[i].n < w[j].n
  <2>1. i + 1 \in on /\ j + 1 \in on /\ w[i] = s.wire[i + 1] /\ w[j] = s.wire[j + 1]
    BY <1>13, <1>15
  <2>2. i + 1 < j + 1
    BY <1>1, <1>15
  <2>3. QED
    BY <1>7, <2>1, <2>2
<1>16. ASSUME NEW n \in (last + 1 + 1)..s.emitted
       PROVE  \E i \in 1..(k - 1) : now(i) /\ w[i].n = n
  <2>1. n \in (last + 1)..s.emitted /\ n # last + 1
    BY <1>1
  <2>2. PICK i \in on : s.wire[i].n = n
    BY <1>8, <2>1
  <2>3. i \in 1..k /\ was(i) /\ i # 1
    BY <1>9, <1>11, <2>1, <2>2
  <2>4. i \in 2..k
    BY <1>1, <2>3
  <2>5. s.wire[i] = w[i - 1] /\ i - 1 \in 1..(k - 1)
    BY <1>4, <2>4
  <2>6. QED
    BY <2>2, <2>3, <2>5 DEF was
<1>17. Coming(w, last + 1, s.emitted)
  BY <1>2, <1>14, <1>15, <1>16 DEF Coming
<1>18. QED
  BY <1>5, <1>11, <1>12, <1>17 DEF w

Heard(s) == [s EXCEPT !.wire = Tail(@), !.events = Buffered(@, Head(s.wire).n)]

LEMMA HeardFits ==
  ASSUME NEW s, Fit(s), s.wire # <<>>, Head(s.wire).kind = "event"
  PROVE  LET s2 == Heard(s)
         IN  /\ Fit(s2) /\ (Crowded(s2) => Crowded(s))
             /\ s2.socket = s.socket /\ s2.alive = s.alive /\ s2.port = s.port
<1> DEFINE n == Head(s.wire).n
           after == Buffered(s.events, n)
           s2 == [s EXCEPT !.wire = Tail(@), !.events = after]
<1>1. /\ s \in Process /\ s.events \in Seq(Nat) /\ s.emitted \in Nat /\ s.read \in Nat
      /\ Len(s.events) \in Nat /\ Len(s.events) <= EventCap
  BY ProcessParts DEF Fit
<1>2. Tail(s.wire) \in Seq(Message)
  BY <1>1, Taken
<1>3. PICK last \in 0..s.emitted : HeardTo(s, last)
  BY DEF Fit
<1>4. last \in Nat /\ Coming(s.wire, last, s.emitted) /\ Run(s.events, last)
  BY <1>1, <1>3 DEF HeardTo
<1>5. n = last + 1 /\ last + 1 \in 0..s.emitted /\ Coming(Tail(s.wire), last + 1, s.emitted)
  BY <1>1, <1>4, HeadIsNext
<1>6. /\ after \in Seq(Nat) /\ Run(after, last + 1)
      /\ Len(after) = IF Len(s.events) < EventCap THEN Len(s.events) + 1 ELSE Len(s.events)
  BY <1>1, <1>4, <1>5, BufferedRuns
<1> HIDE DEF after, n
<1>7. /\ s2 \in Process /\ s2.wire = Tail(s.wire) /\ s2.events = after
      /\ s2.emitted = s.emitted /\ s2.read = s.read /\ s2.asked = s.asked
      /\ s2.socket = s.socket /\ s2.alive = s.alive /\ s2.port = s.port
  BY <1>1, <1>2, <1>6 DEF Process
<1> HIDE DEF s2
<1>8. Wired(s2) /\ (Crowded(s2) => Crowded(s))
  BY <1>7, TakenWired
<1>9. Len(after) <= EventCap
      /\ IF Len(after) < EventCap THEN last + 1 = s.read + Len(after)
                                  ELSE last + 1 >= s.read + Len(after)
  <2>1. IF Len(s.events) < EventCap THEN last = s.read + Len(s.events)
                                    ELSE last >= s.read + Len(s.events)
    BY <1>3 DEF HeardTo
  <2>2. QED
    BY <1>1, <1>4, <1>6, <2>1
<1>10. HeardTo(s2, last + 1)
  BY <1>5, <1>6, <1>7, <1>9 DEF HeardTo
<1>11. Fit(s2)
  BY <1>5, <1>7, <1>8, <1>9, <1>10 DEF Fit
<1>12. QED
  BY <1>7, <1>8, <1>11 DEF s2, after, n, Heard

-----------------------------------------------------------------------------
(* The number of the next command, and what is left of a request. *)

Below == OpToRel(<, Nat)

LEMMA BelowMeans ==
  ASSUME NEW x \in Nat, NEW y \in Nat, y < x
  PROVE  <<y, x>> \in Below
<1>1. <<y, x>> \in Nat \X Nat /\ <<y, x>>[1] = y /\ <<y, x>>[2] = x
  OBVIOUS
<1>2. <<y, x>>[1] < <<y, x>>[2]
  BY <1>1
<1>3. QED
  BY <1>1, <1>2, Zenon DEF Below, OpToRel

\* A set of numbers that has a member has a least one.
LEMMA Least ==
  ASSUME NEW T, T \subseteq Nat, T # {}
  PROVE  \E x \in T : \A y \in T : x <= y
<1>1. PICK x \in T : \A y \in T : ~(<<y, x>> \in Below)
  BY NatLessThanWellFounded, WFMin DEF Below
<1>2. ASSUME NEW y \in T PROVE ~(y < x)
  BY <1>1, BelowMeans
<1>3. \A y \in T : x \in Nat /\ y \in Nat
  OBVIOUS
<1>4. QED
  BY <1>2, <1>3

\* While some number is not pending, the next command gets one that is not.
LEMMA NextIdIsFresh ==
  ASSUME NEW b \in Browser, browser[b] \in Process, Wired(browser[b]),
         PendingOf(browser[b]) # 1..MaxCalls
  PROVE  NextId(b) \in 1..MaxCalls /\ NextId(b) \notin PendingOf(browser[b])
<1> DEFINE P == PendingOf(browser[b])
           s == browser[b]
           T == (1..MaxCalls) \ P
           Fresh(i) == i \notin P /\ 1..(i - 1) \subseteq P
<1>1. Pending(b) = P
  BY DEF Pending, PendingOf
<1>2. P \subseteq 1..MaxCalls
  <2> DEFINE sent(n) == \E i \in 1..Len(s.wire) : s.wire[i].kind = "reply" /\ s.wire[i].n = n
  <2>1. \A n : n \in P <=> n \in s.asked \/ sent(n)
    BY PendingMeans
  <2>2. s.asked \subseteq 1..MaxCalls /\ DOMAIN s.wire = 1..Len(s.wire)
    BY ProcessParts
  <2>3. ASSUME NEW n, sent(n) PROVE n \in 1..MaxCalls
    BY <2>2, <2>3 DEF Wired
  <2> HIDE DEF sent
  <2>4. QED
    BY <2>1, <2>2, <2>3
<1>3. P # 1..MaxCalls
  OBVIOUS
<1> HIDE DEF P
<1>a. T \subseteq Nat /\ T # {}
  <2>1. T \subseteq Nat
    OBVIOUS
  <2>2. \E n \in 1..MaxCalls : n \notin P
    BY <1>2, <1>3
  <2>3. QED
    BY <2>1, <2>2
<1>4. PICK i \in T : \A j \in T : i <= j
  <2> HIDE DEF T
  <2>1. QED
    BY <1>a, Least
<1>5. i \in 1..MaxCalls /\ Fresh(i)
  <2>1. i \in 1..MaxCalls /\ i \notin P
    BY <1>4
  <2>2. ASSUME NEW j \in 1..(i - 1), j \notin P PROVE FALSE
    <3>1. j \in T /\ j < i
      BY <2>1, <2>2
    <3>2. i <= j
      BY <1>4, <3>1
    <3>3. QED
      BY <2>1, <3>1, <3>2
  <2>3. QED
    BY <2>1, <2>2
<1>6. NextId(b) = CHOOSE n \in 1..MaxCalls : Fresh(n)
  BY <1>1 DEF NextId
<1>7. QED
  BY <1>5, <1>6 DEF P

Step == {"metrics", "capture", "location", "query", "hit", "click", "locate", "focused", "insert",
         "key", "tree", "scroll", "navigate", "hover", "evaluate", "drain"}

LEMMA SectionsAreSeqs == \A q \in Range(Sections) : q \in Seq(Step)
<1> DEFINE Seqs == Seq(Step)
<1>1. \A x \in Step : <<x>> \in Seqs
  OBVIOUS
<1>2. \A x, y \in Step : <<x, y>> \in Seqs
  OBVIOUS
<1>3. \A x, y, z \in Step : <<x, y, z>> \in Seqs
  OBVIOUS
<1>4. \A x, y, z, w \in Step : <<x, y, z, w>> \in Seqs
  OBVIOUS
<1> HIDE DEF Seqs
<1>5. /\ query_elements_rpc \in Seqs /\ press_key_rpc \in Seqs /\ page_text_rpc \in Seqs
      /\ scroll_rpc \in Seqs /\ console_rpc \in Seqs
  BY <1>1 DEF Step, query_elements_rpc, press_key_rpc, page_text_rpc, scroll_rpc, console_rpc
<1>6. /\ click_at_rpc \in Seqs /\ type_text_rpc \in Seqs /\ navigate_rpc \in Seqs
      /\ evaluate_rpc \in Seqs
  BY <1>2 DEF Step, click_at_rpc, type_text_rpc, navigate_rpc, evaluate_rpc
<1>7. /\ screenshot_rpc \in Seqs /\ click_element_rpc \in Seqs /\ click_by_name_rpc \in Seqs
  BY <1>3 DEF Step, screenshot_rpc, click_element_rpc, click_by_name_rpc
<1>8. hover_rpc \in Seqs
  <2>1. "locate" \in Step /\ "hover" \in Step /\ "hit" \in Step /\ "location" \in Step
    BY DEF Step
  <2>2. QED
    BY <1>4, <2>1 DEF hover_rpc
<1>9. ASSUME NEW op \in DOMAIN Sections PROVE Sections[op] \in Seqs
  <2>1. op \in {"screenshot", "query", "click_element", "click_at", "click_by_name", "type_text",
               "press_key", "page_text", "scroll", "navigate", "hover", "evaluate", "console"}
    BY DEF Sections
  <2>2. QED
    BY <1>5, <1>6, <1>7, <1>8, <2>1 DEF Sections
<1>10. QED
  BY <1>9 DEF Range, Seqs

\* A request starts with all of its sections, goes on with the next one, and
\* has none when it is done.
LEMMA RestsAre ==
  /\ <<>> \in Rests
  /\ \A op \in DOMAIN Sections : Sections[op] \in Rests
  /\ \A rest \in Rests : Len(rest) > 1 => Tail(rest) \in Rests
<1> DEFINE from(q) == {SubSeq(q, i, Len(q)) : i \in 1..(Len(q) + 1)}
<1>1. \A q \in Range(Sections) : from(q) \subseteq Rests
  BY DEF Rests
<1>2. ASSUME NEW q \in Range(Sections) PROVE <<>> \in from(q) /\ q \in from(q)
  <2>1. q \in Seq(Step) /\ Len(q) \in Nat
    BY SectionsAreSeqs, LenProperties
  <2>2. Len(q) + 1 \in Int /\ Len(q) \in Int /\ Len(q) < Len(q) + 1
        /\ Len(q) + 1 \in 1..(Len(q) + 1) /\ 1 \in 1..(Len(q) + 1)
    BY <2>1
  <2>3. SubSeq(q, Len(q) + 1, Len(q)) = <<>>
    BY <2>2, SubSeqEmpty
  <2>4. SubSeq(q, 1, Len(q)) = q
    BY <2>1, SubSeqFull
  <2>5. QED
    BY <2>2, <2>3, <2>4
<1>3. console_rpc \in Range(Sections)
  BY DEF Range, Sections
<1>4. \A op \in DOMAIN Sections : Sections[op] \in Range(Sections)
  BY DEF Range
<1>5. ASSUME NEW rest \in Rests, Len(rest) > 1 PROVE Tail(rest) \in Rests
  <2>1. PICK q \in Range(Sections) : \E i \in 1..(Len(q) + 1) : rest = SubSeq(q, i, Len(q))
    BY DEF Rests
  <2>2. PICK i \in 1..(Len(q) + 1) : rest = SubSeq(q, i, Len(q))
    BY <2>1
  <2>3. q \in Seq(Step) /\ Len(q) \in Nat
    BY SectionsAreSeqs, LenProperties
  <2>4. i # Len(q) + 1
    <3>1. SubSeq(q, Len(q) + 1, Len(q)) = <<>>
      BY <2>3, SubSeqEmpty
    <3>2. Len(<<>>) = 0
      BY EmptySeq
    <3>3. QED
      BY <1>5, <2>2, <3>1, <3>2
  <2>5. i \in 1..Len(q) /\ Len(q) \in i..Len(q) /\ i + 1 \in 1..(Len(q) + 1)
    BY <2>3, <2>4
  <2>6. Tail(rest) = SubSeq(q, i + 1, Len(q))
    BY <2>2, <2>3, <2>5, HeadTailOfSubSeq
  <2>7. Tail(rest) \in from(q)
    BY <2>5, <2>6
  <2> HIDE DEF from
  <2>8. QED
    BY <1>1, <2>7
<1> HIDE DEF from
<1>6. QED
  BY <1>1, <1>2, <1>3, <1>4, <1>5

-----------------------------------------------------------------------------
(* Kinds of steps. *)

\* A step of the thread that has the mutex, or takes it.
LEMMA Acts ==
  ASSUME DebugInv, up, NEW t \in Thread, lock \in {t, Free}, NEW r2 \in Request,
         request' = [request EXCEPT ![t] = r2], lock' = IF Working(r2) THEN t ELSE Free,
         Mapping(sessions'), Healthy(browser'), Files(portFile'), running' = running,
         leaked \subseteq leaked', leaked' \subseteq Browser, up' = up,
         Staged(r2), ClaimsIn(r2, sessions', browser', portFile'), Housed(sessions', browser'),
         \A b \in Browser : Crowded(browser'[b]) =>
           \/ Crowded(browser[b]) /\ ~(request[t].at \in {"loop", "read"} /\ request[t].b = b)
           \/ r2.at \in {"loop", "read"} /\ r2.b = b,
         \A b \in Browser : browser'[b].alive =>
           \/ /\ browser[b].alive /\ \A c \in Container : sessions[c] = b => sessions'[c] = b
              /\ ~(request[t].op = "open" /\ request[t].b = b /\ lock = t)
           \/ \E c \in Container : sessions'[c] = b
           \/ b \in leaked'
           \/ r2.op = "open" /\ r2.b = b /\ Working(r2)
  PROVE  DebugInv'
<1>1. t \in Nat /\ t # Free /\ request \in [Thread -> Request]
  BY DEF DebugInv, Free
<1>2. request' \in [Thread -> Request] /\ request'[t] = r2
      /\ \A x \in Thread \ {t} : request'[x] = request[x] /\ ~Working(request[x]) /\ lock' # x
                               /\ Staged(request[x])
  <2>1. request' \in [Thread -> Request] /\ request'[t] = r2
        /\ \A x \in Thread \ {t} : request'[x] = request[x]
    BY <1>1
  <2>2. ASSUME NEW x \in Thread \ {t} PROVE ~Working(request[x]) /\ lock' # x /\ Staged(request[x])
    <3>1. x # Free /\ lock # x
      BY DEF Free
    <3>2. (Working(request[x]) <=> lock = x) /\ Staged(request[x])
      BY DEF DebugInv, Locked
    <3>3. QED
      BY <3>1, <3>2
  <2>3. QED
    BY <2>1, <2>2
<1>3. lock' \in Thread \cup {Free}
  OBVIOUS
<1>4. Locked'
  <2>1. \A x \in Thread : Working(request'[x]) <=> lock' = x
    BY <1>1, <1>2
  <2>2. \A x \in Thread : Staged(request'[x]) /\ ClaimsIn(request'[x], sessions', browser', portFile')
    <3>1. ASSUME NEW x \in Thread \ {t} PROVE ClaimsIn(request'[x], sessions', browser', portFile')
      BY <1>2 DEF ClaimsIn, Working, Driving
    <3>2. QED
      BY <1>2, <3>1
  <2>3. QED
    BY <2>1, <2>2 DEF Locked, Claims
<1>5. Room'
  <2>1. ASSUME NEW b \in Browser, Crowded(browser'[b])
        PROVE  \E x \in Thread : request'[x].at \in {"loop", "read"} /\ request'[x].b = b
    <3>1. CASE r2.at \in {"loop", "read"} /\ r2.b = b
      BY <1>2, <3>1
    <3>2. CASE Crowded(browser[b]) /\ ~(request[t].at \in {"loop", "read"} /\ request[t].b = b)
      <4>1. PICK x \in Thread : request[x].at \in {"loop", "read"} /\ request[x].b = b
        BY <3>2 DEF DebugInv, Room
      <4>2. x # t
        BY <3>2, <4>1
      <4>3. QED
        BY <1>2, <4>1, <4>2
    <3>3. QED
      BY <2>1, <3>1, <3>2
  <2>2. QED
    BY <2>1 DEF Room
<1>6. Tended'
  <2>1. ASSUME NEW b \in Browser, browser'[b].alive
        PROVE  \/ \E c \in Container : sessions'[c] = b
               \/ b \in leaked'
               \/ \E x \in Thread : request'[x].op = "open" /\ request'[x].b = b /\ lock' = x
    <3>1. CASE /\ browser[b].alive /\ \A c \in Container : sessions[c] = b => sessions'[c] = b
               /\ ~(request[t].op = "open" /\ request[t].b = b /\ lock = t)
      <4>1. \/ \E c \in Container : sessions[c] = b
            \/ b \in leaked
            \/ \E x \in Thread : request[x].op = "open" /\ request[x].b = b /\ lock = x
        BY <3>1 DEF DebugInv, Tended, Kept
      <4>2. \A x \in Thread : lock = x => x = t
        BY DEF Free
      <4>3. QED
        BY <3>1, <4>1, <4>2
    <3>2. CASE r2.op = "open" /\ r2.b = b /\ Working(r2)
      BY <1>2, <3>2
    <3>3. QED
      BY <2>1, <3>1, <3>2
  <2>2. QED
    BY <2>1 DEF Tended, Kept
<1>7. /\ Mapping(sessions)' /\ Healthy(browser)' /\ Files(portFile)' /\ (running \subseteq Container)'
      /\ (up \in BOOLEAN)'
  BY DEF DebugInv, Mapping, Healthy, Files
<1>8. QED
  BY <1>2, <1>3, <1>4, <1>5, <1>6, <1>7 DEF DebugInv

\* A step of a thread that waits for the mutex, or starts to, or gives up.
LEMMA Waits ==
  ASSUME DebugInv, NEW t \in Thread, NEW r2 \in Request,
         request' = [request EXCEPT ![t] = r2], ~Working(request[t]), ~Working(r2), Staged(r2),
         UNCHANGED <<sessions, lock, browser, portFile, running, leaked, up>>
  PROVE  DebugInv'
<1>1. request \in [Thread -> Request]
  BY DEF DebugInv
<1>2. request' \in [Thread -> Request] /\ request'[t] = r2
      /\ \A x \in Thread \ {t} : request'[x] = request[x]
  BY <1>1
<1>3. lock # t
  BY DEF DebugInv, Locked
<1>4. Locked'
  <2>1. \A x \in Thread : Working(request'[x]) <=> lock' = x
    BY <1>2, <1>3 DEF DebugInv, Locked
  <2>2. ASSUME NEW x \in Thread
        PROVE  Staged(request'[x]) /\ ClaimsIn(request'[x], sessions', browser', portFile')
    <3>1. CASE x = t
      BY <1>2, <3>1 DEF ClaimsIn, Working, Driving
    <3>2. CASE x # t
      BY <1>2, <3>2 DEF DebugInv, Locked, Claims
    <3>3. QED
      BY <3>1, <3>2
  <2>3. Housed(sessions', browser')
    BY DEF DebugInv, Locked
  <2>4. QED
    BY <2>1, <2>2, <2>3 DEF Locked, Claims
<1>5. Room'
  <2>1. ASSUME NEW b \in Browser, up, Crowded(browser[b])
        PROVE  \E x \in Thread : request'[x].at \in {"loop", "read"} /\ request'[x].b = b
    <3>1. PICK x \in Thread : request[x].at \in {"loop", "read"} /\ request[x].b = b
      BY <2>1 DEF DebugInv, Room
    <3>2. x # t
      BY <3>1 DEF Working
    <3>3. QED
      BY <1>2, <3>1, <3>2
  <2>2. QED
    BY <2>1 DEF Room
<1>6. Tended'
  <2>1. ASSUME NEW b \in Browser, up PROVE Kept(b, browser', sessions', leaked', request', lock')
    <3>1. Kept(b, browser, sessions, leaked, request, lock)
      BY <2>1 DEF DebugInv, Tended
    <3>2. \A x \in Thread : lock = x => request'[x] = request[x]
      BY <1>2, <1>3
    <3>3. QED
      BY <3>1, <3>2 DEF Kept
  <2>2. QED
    BY <2>1 DEF Tended
<1>7. QED
  BY <1>2, <1>4, <1>5, <1>6 DEF DebugInv

\* A step of the browsers, or of the hosts.
LEMMA Happens ==
  ASSUME DebugInv, UNCHANGED <<sessions, lock, request, portFile, leaked, up>>,
         running' \subseteq Container, Healthy(browser'),
         \A b \in Browser : /\ browser'[b].socket = browser[b].socket
                            /\ browser'[b].alive => browser[b].alive
                            /\ Crowded(browser'[b]) => Crowded(browser[b])
  PROVE  DebugInv'
<1>1. Locked'
  <2>1. ASSUME NEW t \in Thread
        PROVE  Staged(request[t]) /\ ClaimsIn(request[t], sessions, browser', portFile)
    <3>1. Staged(request[t]) /\ ClaimsIn(request[t], sessions, browser, portFile)
      BY DEF DebugInv, Locked, Claims
    <3>2. Driving(request[t]) => request[t].b \in Browser
      BY <3>1 DEF Staged
    <3>3. request[t].at = "port" => Driving(request[t])
      BY DEF Driving
    <3>4. QED
      BY <3>1, <3>2, <3>3 DEF ClaimsIn
  <2>2. Housed(sessions, browser')
    <3>1. \A c \in Container : sessions[c] # None => sessions[c] \in Browser
      BY DEF DebugInv, Mapping
    <3>2. QED
      BY <3>1 DEF DebugInv, Locked, Housed
  <2>3. QED
    BY <2>1, <2>2 DEF DebugInv, Locked, Claims
<1>2. Room'
  BY DEF DebugInv, Room
<1>3. Tended'
  BY DEF DebugInv, Tended, Kept
<1>4. QED
  BY <1>1, <1>2, <1>3 DEF DebugInv, Mapping, Healthy, Files

-----------------------------------------------------------------------------
(* What the steps are made of. *)

LEMMA NoneIsNone == None \notin Browser
BY DEF None, Browser

LEMMA IdleMeans == Idle \in Request /\ ~Working(Idle) /\ Staged(Idle) /\ Idle.b = None /\ Idle.at = "idle"
<1>1. 0 \in 0..MaxCalls /\ 0 \in 0..SectionCalls /\ <<>> \in Rests
  BY RestsAre
<1>2. Idle \in Request
  BY <1>1 DEF Idle, Request
<1>3. QED
  BY <1>2 DEF Idle, Working, Staged, Driving

\* Who does not work claims nothing.
LEMMA NothingClaimed ==
  ASSUME NEW r, ~Working(r), NEW ses, NEW br, NEW file
  PROVE  ClaimsIn(r, ses, br, file)
BY DEF ClaimsIn, Working, Driving

LEMMA Holds ==
  ASSUME DebugInv, NEW t \in Thread
  PROVE  /\ request[t] \in Request /\ Staged(request[t])
         /\ ClaimsIn(request[t], sessions, browser, portFile)
         /\ Working(request[t]) <=> lock = t
BY DEF DebugInv, Locked, Claims

LEMMA KilledMeans ==
  ASSUME Healthy(browser), NEW B
  PROVE  /\ Healthy(Killed(B))
         /\ \A b \in Browser : /\ b \in B => Killed(B)[b] = NoBrowser
                               /\ b \notin B => Killed(B)[b] = browser[b]
<1>1. \A b \in Browser : /\ b \in B => Killed(B)[b] = NoBrowser
                         /\ b \notin B => Killed(B)[b] = browser[b]
  BY DEF Killed
<1>2. Fit(NoBrowser) /\ NoBrowser \in Process /\ NoBrowser.port = None
  BY NoneFits DEF Fit, NoBrowser
<1>3. Killed(B) \in [Browser -> Process]
  BY <1>2 DEF Killed, Healthy
<1>4. QED
  BY <1>1, <1>2, <1>3 DEF Healthy

LEMMA GoneMeans == ~NoBrowser.alive /\ ~Crowded(NoBrowser) /\ NoBrowser.socket = "none"
BY NoneFits DEF NoBrowser

LEMMA ChangedMeans ==
  ASSUME Healthy(browser), NEW b \in Browser, NEW s2, Fit(s2), s2.port \in {None, b},
         browser' = [browser EXCEPT ![b] = s2]
  PROVE  /\ Healthy(browser') /\ browser'[b] = s2
         /\ \A x \in Browser \ {b} : browser'[x] = browser[x]
<1>1. s2 \in Process
  BY DEF Fit
<1>2. browser' \in [Browser -> Process] /\ browser'[b] = s2
      /\ \A x \in Browser \ {b} : browser'[x] = browser[x]
  BY <1>1 DEF Healthy
<1>3. QED
  BY <1>2 DEF Healthy

LEMMA UnprofiledMeans ==
  ASSUME Files(portFile), NEW cs
  PROVE  /\ Files(Unprofiled(cs))
         /\ \A c \in Container : /\ c \in cs => Unprofiled(cs)[c] = None
                                 /\ c \notin cs => Unprofiled(cs)[c] = portFile[c]
BY DEF Files, Unprofiled

-----------------------------------------------------------------------------
(* Open and close. *)

LEMMA OpenResolveStep ==
  ASSUME DebugInv, NEW t \in Thread, NEW c \in Container, OpenResolve(t, c)
  PROVE  DebugInv'
<1> DEFINE r2 == [Idle EXCEPT !.at = "open", !.op = "open", !.on = c]
<1>1. "open" \in UNION Range(Ops)
  BY DEF OpenResolve, Range
<1>2. /\ r2 \in Request /\ ~Working(r2) /\ Staged(r2)
  <2>1. r2 \in Request
    BY <1>1, IdleMeans DEF Request
  <2>2. QED
    BY <2>1 DEF Working, Staged, Idle, Driving
<1>3. ~Working(request[t]) /\ request' = [request EXCEPT ![t] = r2]
  BY DEF OpenResolve, Working, Goto
<1> HIDE DEF r2
<1>4. QED
  BY <1>2, <1>3, Waits DEF OpenResolve

LEMMA OpenLockStep ==
  ASSUME DebugInv, NEW t \in Thread, OpenLock(t)
  PROVE  DebugInv'
<1> DEFINE r == request[t]
           r2 == [r EXCEPT !.at = "launch"]
           S == Swept(r.on)
           B == Mapped(S)
<1>1. /\ up /\ r.at = "open" /\ lock = Free /\ lock' = t
      /\ sessions' = [c \in Container |-> IF c \in S THEN None ELSE sessions[c]]
      /\ browser' = Killed(B) /\ portFile' = Unprofiled({c \in S : sessions[c] # None})
      /\ request' = [request EXCEPT ![t] = r2]
      /\ running' = running /\ leaked' = leaked /\ up' = up
  BY DEF OpenLock, Goto
<1>2. r \in Request /\ Staged(r) /\ lock # t
  BY <1>1, Holds DEF Free
<1>3. r2 \in Request /\ Working(r2) /\ Staged(r2) /\ r2.at = "launch" /\ r2.on = r.on
      /\ r.on \in Container
  BY <1>1, <1>2 DEF Request, Working, Staged, Driving
<1>4. S \subseteq Container /\ r.on \in S
  BY <1>3 DEF Swept
<1>5. Mapping(sessions) /\ Healthy(browser) /\ Files(portFile) /\ leaked \subseteq Browser
      /\ Housed(sessions, browser)
  BY DEF DebugInv, Locked
<1>6. \A c \in Container : c \notin S => sessions[c] \notin B
  BY <1>4, <1>5 DEF Mapped, Mapping
<1> HIDE DEF S, B, r2
<1>7. Mapping(sessions')
  BY <1>1, <1>5 DEF Mapping
<1>8. Healthy(browser') /\ \A b \in Browser : /\ b \in B => browser'[b] = NoBrowser
                                              /\ b \notin B => browser'[b] = browser[b]
  BY <1>1, <1>5, KilledMeans
<1>9. Files(portFile')
  BY <1>1, <1>5, UnprofiledMeans
<1>10. Housed(sessions', browser')
  BY <1>1, <1>5, <1>6, <1>8 DEF Housed, Mapping
<1>11. ClaimsIn(r2, sessions', browser', portFile')
  BY <1>1, <1>3, <1>4 DEF ClaimsIn, Driving
<1>12. r.at \notin {"loop", "read"}
  BY <1>1
<1>13. \A b \in Browser : Crowded(browser'[b]) => Crowded(browser[b])
  BY <1>8, GoneMeans
<1>14. \A b \in Browser : browser'[b].alive =>
         browser[b].alive /\ \A c \in Container : sessions[c] = b => sessions'[c] = b
  <2> SUFFICES ASSUME NEW b \in Browser, browser'[b].alive
               PROVE  browser[b].alive /\ \A c \in Container : sessions[c] = b => sessions'[c] = b
    OBVIOUS
  <2>1. b \notin B /\ browser'[b] = browser[b]
    BY <1>8, GoneMeans
  <2>2. ASSUME NEW c \in Container, sessions[c] = b PROVE c \notin S
    BY <2>1, <2>2, NoneIsNone DEF B, Mapped
  <2>3. QED
    BY <1>1, <2>1, <2>2
<1>15. QED
  BY <1>1, <1>2, <1>3, <1>5, <1>7, <1>8, <1>9, <1>10, <1>11, <1>12, <1>13, <1>14, Acts

LEMMA SpawnStep ==
  ASSUME DebugInv, NEW t \in Thread, Spawn(t)
  PROVE  DebugInv'
<1> DEFINE r == request[t]
<1>1. PICK b \in Browser \ Spawned :
        /\ browser' = [browser EXCEPT ![b].alive = TRUE, ![b].socket = "starting"]
        /\ Goto(t, [r EXCEPT !.at = "port", !.b = b])
  BY DEF Spawn
<1> DEFINE r2 == [r EXCEPT !.at = "port", !.b = b]
           s2 == Started(browser[b])
<1>2. /\ up /\ r.at = "launch" /\ portFile' = Unprofiled({r.on})
      /\ request' = [request EXCEPT ![t] = r2]
      /\ sessions' = sessions /\ lock' = lock
      /\ running' = running /\ leaked' = leaked /\ up' = up
  BY <1>1 DEF Spawn, ClearPortFile, Goto
<1>3. r \in Request /\ Staged(r) /\ ClaimsIn(r, sessions, browser, portFile) /\ lock = t
  BY <1>2, Holds DEF Working
<1>4. /\ r2 \in Request /\ Working(r2) /\ Staged(r2) /\ r2.at = "port" /\ r2.on = r.on
      /\ r2.b = b /\ r2.op = "open" /\ r.on \in Container /\ Driving(r2)
  BY <1>2, <1>3 DEF Request, Working, Staged, Driving
<1>5. Mapping(sessions) /\ Healthy(browser) /\ Files(portFile) /\ leaked \subseteq Browser
      /\ Housed(sessions, browser)
  BY DEF DebugInv, Locked
<1>6. browser[b].socket = "none" /\ Fit(browser[b]) /\ browser[b].port \in {None, b} /\ b \in Browser
  BY <1>5 DEF Spawned, Healthy
<1>7. Fit(s2) /\ ~Crowded(s2) /\ s2.socket = "starting" /\ s2.port \in {None, b}
  <2>1. s2.port = browser[b].port
    BY <1>6 DEF Fit, Process, Started
  <2>2. QED
    BY <1>6, <2>1, SpawnedFits
<1>8. browser' = [browser EXCEPT ![b] = s2]
  BY <1>1, <1>5, <1>6 DEF Healthy, Started
<1> HIDE DEF r2, s2
<1>9. Healthy(browser') /\ browser'[b] = s2 /\ \A x \in Browser \ {b} : browser'[x] = browser[x]
  BY <1>5, <1>6, <1>7, <1>8, ChangedMeans
<1>10. Files(portFile') /\ portFile'[r.on] = None
  BY <1>2, <1>4, <1>5, UnprofiledMeans
<1>11. \A c \in Container : sessions[c] # b
  <2>1. b # None
    BY <1>6, NoneIsNone
  <2>2. QED
    BY <1>5, <1>6, <2>1 DEF Housed
<1>12. Housed(sessions', browser')
  BY <1>2, <1>5, <1>9, <1>11 DEF Housed, Mapping
<1>13. ClaimsIn(r2, sessions', browser', portFile')
  <2>1. sessions[r.on] = None
    BY <1>2, <1>3 DEF ClaimsIn, Working, Staged
  <2>2. QED
    BY <1>2, <1>4, <1>7, <1>9, <1>10, <1>11, <2>1 DEF ClaimsIn
<1>14. \A x \in Browser : Crowded(browser'[x]) => Crowded(browser[x])
  BY <1>7, <1>9
<1>15. r.at \notin {"loop", "read"}
  BY <1>2
<1>16. r.b = None
  BY <1>2, <1>3 DEF Staged
<1>17. \A x \in Browser : browser'[x].alive =>
         \/ /\ browser[x].alive /\ \A c \in Container : sessions[c] = x => sessions'[c] = x
            /\ ~(r.op = "open" /\ r.b = x /\ lock = t)
         \/ r2.op = "open" /\ r2.b = x /\ Working(r2)
  BY <1>2, <1>4, <1>9, <1>16, NoneIsNone
<1>18. lock \in {t, Free} /\ lock' = IF Working(r2) THEN t ELSE Free
  BY <1>2, <1>3, <1>4
<1>19. leaked \subseteq leaked' /\ leaked' \subseteq Browser /\ Mapping(sessions')
  BY <1>2, <1>5
<1>20. \A x \in Browser : Crowded(browser'[x]) =>
         \/ Crowded(browser[x]) /\ ~(r.at \in {"loop", "read"} /\ r.b = x)
         \/ r2.at \in {"loop", "read"} /\ r2.b = x
  BY <1>14, <1>15
<1>21. QED
  BY <1>2, <1>4, <1>9, <1>10, <1>12, <1>13, <1>17, <1>18, <1>19, <1>20, Acts

\* A launch that ends, and its browser with it or left behind.
LEMMA LaunchEnds ==
  ASSUME DebugInv, up, NEW t \in Thread, request[t].at \in {"launch", "port"},
         request' = [request EXCEPT ![t] = Idle], lock' = Free,
         sessions' = sessions, running' = running, up' = up,
         Healthy(browser'), Files(portFile'),
         leaked \subseteq leaked', leaked' \subseteq Browser,
         \A b \in Browser : IF b = request[t].b THEN browser'[b].alive => b \in leaked'
                                                ELSE browser'[b] = browser[b],
         \A b \in Browser : Crowded(browser'[b]) => Crowded(browser[b])
  PROVE  DebugInv'
<1> DEFINE r == request[t]
<1>1. /\ Mapping(sessions) /\ Housed(sessions, browser) /\ Staged(r) /\ lock = t
      /\ ClaimsIn(r, sessions, browser, portFile)
  BY Holds DEF DebugInv, Locked, Working
<1>2. Idle \in Request /\ ~Working(Idle) /\ Staged(Idle) /\ Idle.at = "idle"
  BY IdleMeans
<1>3. \A c \in Container : sessions[c] # None => sessions[c] # r.b
  <2>1. CASE r.at = "launch"
    BY <1>1, <2>1 DEF Staged
  <2>2. CASE r.at = "port"
    BY <1>1, <2>2 DEF Staged, ClaimsIn, Driving
  <2>3. QED
    BY <2>1, <2>2
<1>4. Housed(sessions', browser')
  BY <1>1, <1>3 DEF Housed, Mapping
<1>5. \A b \in Browser : Crowded(browser'[b]) =>
        \/ Crowded(browser[b]) /\ ~(r.at \in {"loop", "read"} /\ r.b = b)
        \/ Idle.at \in {"loop", "read"} /\ Idle.b = b
  OBVIOUS
<1>6. \A b \in Browser : browser'[b].alive =>
        \/ /\ browser[b].alive /\ \A c \in Container : sessions[c] = b => sessions'[c] = b
           /\ ~(r.op = "open" /\ r.b = b /\ lock = t)
        \/ b \in leaked'
  OBVIOUS
<1>7. ClaimsIn(Idle, sessions', browser', portFile')
  BY <1>2, NothingClaimed
<1>8. lock \in {t, Free} /\ lock' = IF Working(Idle) THEN t ELSE Free
  BY <1>1, <1>2
<1>9. Mapping(sessions')
  BY <1>1
<1>10. QED
  BY <1>2, <1>4, <1>5, <1>6, <1>7, <1>8, <1>9, Acts

LEMMA LaunchSteps ==
  ASSUME DebugInv, NEW t \in Thread, SpawnFails(t) \/ LaunchFails(t) \/ ConnectFails(t)
  PROVE  DebugInv'
<1> DEFINE r == request[t]
<1>1. /\ Healthy(browser) /\ Files(portFile) /\ leaked \subseteq Browser /\ Staged(r)
  BY Holds DEF DebugInv
<1>2. CASE SpawnFails(t)
  <2>1. /\ up /\ r.at = "launch" /\ request' = [request EXCEPT ![t] = Idle] /\ lock' = Free
        /\ UNCHANGED <<sessions, browser, portFile, running, leaked, up>>
    BY <1>2 DEF SpawnFails, Done, Goto
  <2>2. r.b \notin Browser
    BY <1>1, <2>1, NoneIsNone DEF Staged
  <2>3. \A b \in Browser : IF b = r.b THEN browser'[b].alive => b \in leaked'
                                       ELSE browser'[b] = browser[b]
    BY <2>1, <2>2
  <2>4. \A b \in Browser : Crowded(browser'[b]) => Crowded(browser[b])
    BY <2>1
  <2>5. QED
    BY <1>1, <2>1, <2>3, <2>4, LaunchEnds
<1>3. CASE LaunchFails(t)
  <2>1. /\ up /\ r.at = "port" /\ request' = [request EXCEPT ![t] = Idle] /\ lock' = Free
        /\ browser' = Killed({r.b}) /\ portFile' = Unprofiled({r.on})
        /\ UNCHANGED <<sessions, running, leaked, up>>
    BY <1>3 DEF LaunchFails, Done, Goto
  <2>2. Healthy(browser') /\ Files(portFile')
    BY <1>1, <2>1, KilledMeans, UnprofiledMeans
  <2>3. \A b \in Browser : /\ b = r.b => browser'[b] = NoBrowser
                           /\ b # r.b => browser'[b] = browser[b]
    BY <1>1, <2>1, KilledMeans
  <2>4. \A b \in Browser : IF b = r.b THEN browser'[b].alive => b \in leaked'
                                       ELSE browser'[b] = browser[b]
    BY <2>3, GoneMeans
  <2>5. \A b \in Browser : Crowded(browser'[b]) => Crowded(browser[b])
    BY <2>3, GoneMeans
  <2>6. QED
    BY <1>1, <2>1, <2>2, <2>4, <2>5, LaunchEnds
<1>4. CASE ConnectFails(t)
  <2>1. /\ up /\ r.at = "port" /\ request' = [request EXCEPT ![t] = Idle] /\ lock' = Free
        /\ leaked' = leaked \cup (Alive \cap {r.b})
        /\ UNCHANGED <<sessions, browser, portFile, running, up>>
    BY <1>4 DEF ConnectFails, Done, Goto
  <2>2. leaked \subseteq leaked' /\ leaked' \subseteq Browser
    BY <1>1, <2>1 DEF Alive
  <2>3. \A b \in Browser : IF b = r.b THEN browser'[b].alive => b \in leaked'
                                       ELSE browser'[b] = browser[b]
    BY <2>1 DEF Alive
  <2>4. \A b \in Browser : Crowded(browser'[b]) => Crowded(browser[b])
    BY <2>1
  <2>5. QED
    BY <1>1, <2>1, <2>2, <2>3, <2>4, LaunchEnds
<1>5. QED
  BY <1>2, <1>3, <1>4

LEMMA AttachStep ==
  ASSUME DebugInv, NEW t \in Thread, Attach(t)
  PROVE  DebugInv'
<1> DEFINE r == request[t]
           r2 == [r EXCEPT !.at = "send"]
<1>1. /\ up /\ r.at = "port" /\ portFile[r.on] # None
      /\ browser' = [browser EXCEPT ![r.b].socket = "open", ![r.b].port = portFile[r.on]]
      /\ request' = [request EXCEPT ![t] = r2]
      /\ UNCHANGED <<sessions, lock, portFile, running, leaked, up>>
  BY DEF Attach, Goto
<1>2. /\ r \in Request /\ Staged(r) /\ lock = t
      /\ ClaimsIn(r, sessions, browser, portFile)
  BY <1>1, Holds DEF Working
<1>a. r.b \in Browser
  BY <1>1, <1>2 DEF Staged, Driving
<1>b. PICK b : b \in Browser /\ b = r.b
  BY <1>a
<1> DEFINE s2 == AttachedTo(browser[b], b)
<1>3. /\ r.op = "open" /\ r.on \in Container
      /\ browser[b].socket = "starting" /\ portFile[r.on] = b
      /\ sessions[r.on] = None /\ \A c \in Container : sessions[c] # b
  BY <1>1, <1>2, <1>b DEF ClaimsIn, Staged, Driving, Working
<1>4. /\ r2 \in Request /\ Working(r2) /\ r2.at = "send" /\ r2.on = r.on
      /\ r2.b = b /\ r2.op = "open" /\ Driving(r2)
  BY <1>1, <1>2, <1>3, <1>b DEF Request, Working, Driving
<1>5. Staged(r2)
  <2>1. r2.calls = 0 /\ r2.rest = <<>>
    BY <1>1, <1>2, <1>3 DEF Staged
  <2>2. 0 < SectionCalls
    OBVIOUS
  <2>3. QED
    BY <1>b, <1>3, <1>4, <2>1, <2>2 DEF Staged
<1>6. Mapping(sessions) /\ Healthy(browser) /\ Files(portFile) /\ leaked \subseteq Browser
      /\ Housed(sessions, browser)
  BY DEF DebugInv, Locked
<1>7. Fit(browser[b])
  BY <1>b, <1>3, <1>6 DEF Healthy
<1>8. Fit(s2) /\ ~Crowded(s2) /\ s2.socket = "open" /\ s2.alive = browser[b].alive
      /\ s2.port \in {None, b}
  BY <1>3, <1>7, <1>b, AttachedFits
<1>9. browser' = [browser EXCEPT ![b] = s2]
  BY <1>1, <1>3, <1>6, <1>b DEF Healthy, AttachedTo
<1> HIDE DEF r2, s2
<1>10. Healthy(browser') /\ browser'[b] = s2 /\ \A x \in Browser \ {b} : browser'[x] = browser[x]
  <2>1. b \in Browser /\ Fit(s2) /\ s2.port \in {None, b} /\ Healthy(browser)
    BY <1>6, <1>8, <1>b
  <2>2. QED
    BY <1>9, <2>1, ChangedMeans
<1>11. Housed(sessions', browser')
  <2>1. sessions' = sessions /\ \A c \in Container : sessions[c] # b
    BY <1>1, <1>3
  <2>2. QED
    BY <1>6, <1>10, <2>1 DEF Housed, Mapping
<1>12. ClaimsIn(r2, sessions', browser', portFile')
  BY <1>1, <1>3, <1>4, <1>8, <1>10, <1>b DEF ClaimsIn
<1>13. \A x \in Browser : Crowded(browser'[x]) =>
         \/ Crowded(browser[x]) /\ ~(r.at \in {"loop", "read"} /\ r.b = x)
         \/ r2.at \in {"loop", "read"} /\ r2.b = x
  BY <1>1, <1>8, <1>10
<1>14. \A x \in Browser : browser'[x].alive =>
         \/ /\ browser[x].alive /\ \A c \in Container : sessions[c] = x => sessions'[c] = x
            /\ ~(r.op = "open" /\ r.b = x /\ lock = t)
         \/ r2.op = "open" /\ r2.b = x /\ Working(r2)
  BY <1>1, <1>4, <1>10, <1>b
<1>15. lock \in {t, Free} /\ lock' = IF Working(r2) THEN t ELSE Free
  BY <1>1, <1>2, <1>4
<1>16. leaked \subseteq leaked' /\ leaked' \subseteq Browser /\ Mapping(sessions') /\ Files(portFile')
  BY <1>1, <1>6
<1>17. QED
  BY <1>1, <1>b, <1>4, <1>5, <1>10, <1>11, <1>12, <1>13, <1>14, <1>15, <1>16, Acts

LEMMA PublishesStep ==
  ASSUME DebugInv, NEW t \in Thread, Publishes(t)
  PROVE  DebugInv'
<1> DEFINE r == request[t]
<1>1. /\ r.at = "port" /\ portFile' = [portFile EXCEPT ![r.on] = r.b]
      /\ UNCHANGED <<sessions, lock, request, browser, running, leaked, up>>
  BY DEF Publishes
<1>2. Staged(r) /\ lock = t /\ ClaimsIn(r, sessions, browser, portFile)
  BY <1>1, Holds DEF Working
<1>3. r.b \in Browser /\ r.on \in Container /\ Files(portFile)
  BY <1>1, <1>2 DEF Staged, Driving, DebugInv
<1>4. Files(portFile') /\ portFile'[r.on] = r.b
  BY <1>1, <1>3 DEF Files
<1>5. Locked'
  <2>1. ClaimsIn(r, sessions, browser, portFile')
    BY <1>2, <1>4 DEF ClaimsIn
  <2>2. ASSUME NEW x \in Thread, x # t PROVE ClaimsIn(request[x], sessions, browser, portFile')
    <3>1. ~Working(request[x])
      BY <1>2, <2>2 DEF DebugInv, Locked
    <3>2. QED
      BY <3>1, NothingClaimed
  <2>3. \A x \in Thread : ClaimsIn(request[x], sessions, browser, portFile')
    BY <2>1, <2>2
  <2>4. QED
    BY <1>1, <2>3 DEF DebugInv, Locked, Claims
<1>6. Room' /\ Tended'
  BY <1>1 DEF DebugInv, Room, Tended
<1>7. QED
  BY <1>1, <1>4, <1>5, <1>6 DEF DebugInv

LEMMA CloseSessionStep ==
  ASSUME DebugInv, NEW t \in Thread, NEW c \in Container, CloseSession(t, c)
  PROVE  DebugInv'
<1> DEFINE B == Mapped({c})
<1>1. /\ lock = Free /\ sessions' = [sessions EXCEPT ![c] = None] /\ browser' = Killed(B)
      /\ portFile' = IF sessions[c] # None THEN Unprofiled({c}) ELSE portFile
      /\ UNCHANGED <<lock, request, running, leaked, up>>
  BY DEF CloseSession
<1>2. Mapping(sessions) /\ Healthy(browser) /\ Files(portFile) /\ Housed(sessions, browser)
  BY DEF DebugInv, Locked
<1>3. Mapping(sessions')
  BY <1>1, <1>2 DEF Mapping
<1>4. \A d \in Container \ {c} : sessions[d] \notin B
  BY <1>2 DEF Mapped, Mapping
<1>5. \A b \in Browser : sessions[c] = b => b \in B
  BY NoneIsNone DEF Mapped
<1> HIDE DEF B
<1>6. Healthy(browser') /\ \A b \in Browser : /\ b \in B => browser'[b] = NoBrowser
                                              /\ b \notin B => browser'[b] = browser[b]
  BY <1>1, <1>2, KilledMeans
<1>7. Files(portFile')
  BY <1>1, <1>2, UnprofiledMeans
<1>8. Locked'
  <2>1. \A x \in Thread : ~Working(request[x])
    <3>1. \A x \in Thread : x # Free
      BY DEF Free
    <3>2. QED
      BY <1>1, <3>1 DEF DebugInv, Locked
  <2>2. \A x \in Thread : ClaimsIn(request[x], sessions', browser', portFile')
    BY <2>1, NothingClaimed
  <2>3. Housed(sessions', browser')
    BY <1>1, <1>2, <1>4, <1>6 DEF Housed, Mapping
  <2>4. QED
    BY <1>1, <2>2, <2>3 DEF DebugInv, Locked, Claims
<1>9. Room'
  <2>1. \A b \in Browser : Crowded(browser'[b]) => Crowded(browser[b])
    BY <1>6, GoneMeans
  <2>2. QED
    BY <1>1, <2>1 DEF DebugInv, Room
<1>10. Tended'
  <2>1. ASSUME NEW b \in Browser, up PROVE Kept(b, browser', sessions', leaked, request, lock)
    <3>1. Kept(b, browser, sessions, leaked, request, lock)
      BY <2>1 DEF DebugInv, Tended
    <3>2. browser'[b].alive => browser[b].alive /\ b \notin B
      BY <1>6, GoneMeans
    <3>3. ASSUME NEW d \in Container, sessions[d] = b, b \notin B PROVE sessions'[d] = b
      BY <1>1, <1>2, <1>5, <3>3 DEF Mapping
    <3>4. QED
      BY <3>1, <3>2, <3>3 DEF Kept
  <2>2. QED
    BY <1>1, <2>1 DEF Tended
<1>11. QED
  BY <1>1, <1>3, <1>6, <1>7, <1>8, <1>9, <1>10 DEF DebugInv

-----------------------------------------------------------------------------
(* The sections of a request. *)

LEMMA AskStep ==
  ASSUME DebugInv, NEW t \in Thread, NEW c \in Container, NEW op \in Ops[t], Ask(t, op, c)
  PROVE  DebugInv'
<1> DEFINE r2 == [Idle EXCEPT !.at = "section", !.op = op, !.on = c, !.rest = Sections[op]]
<1>1. /\ request[t].at = "idle" /\ op \in DOMAIN Sections /\ request' = [request EXCEPT ![t] = r2]
      /\ UNCHANGED <<sessions, lock, browser, portFile, running, leaked, up>>
  BY DEF Ask, Goto
<1>2. op \in UNION Range(Ops) /\ op # "open"
  BY <1>1 DEF Range, Sections
<1>3. Sections[op] \in Rests
  BY <1>1, RestsAre
<1>4. r2 \in Request
  BY <1>2, <1>3, IdleMeans DEF Request
<1>5. ~Working(r2) /\ Staged(r2) /\ ~Working(request[t])
  <2>1. r2.at = "section" /\ r2.op = op /\ r2.on = c /\ r2.calls = 0
    BY DEF Idle
  <2>2. QED
    BY <1>1, <1>2, <2>1 DEF Working, Staged, Driving
<1> HIDE DEF r2
<1>6. QED
  BY <1>1, <1>4, <1>5, Waits

LEMMA NoSessionStep ==
  ASSUME DebugInv, NEW t \in Thread, NoSession(t)
  PROVE  DebugInv'
<1>1. ~Working(request[t]) /\ request' = [request EXCEPT ![t] = Idle]
      /\ UNCHANGED <<sessions, lock, browser, portFile, running, leaked, up>>
  BY DEF NoSession, Goto, Working
<1>2. QED
  BY <1>1, IdleMeans, Waits

LEMMA EnterStep ==
  ASSUME DebugInv, NEW t \in Thread, Enter(t)
  PROVE  DebugInv'
<1> DEFINE r == request[t]
           r2 == [r EXCEPT !.at = "send", !.b = sessions[r.on]]
<1>1. /\ up /\ r.at = "section" /\ lock = Free /\ sessions[r.on] # None /\ lock' = t
      /\ request' = [request EXCEPT ![t] = r2]
      /\ UNCHANGED <<sessions, browser, portFile, running, leaked, up>>
  BY DEF Enter, Goto
<1>2. /\ r \in Request /\ Staged(r) /\ Mapping(sessions) /\ Healthy(browser) /\ Files(portFile)
      /\ Housed(sessions, browser) /\ leaked \subseteq Browser
  BY Holds DEF DebugInv, Locked
<1>3. r.on \in Container /\ r.op \in DOMAIN Sections /\ r.op # "open" /\ r.calls = 0
  BY <1>1, <1>2 DEF Staged, Sections
<1>4. sessions[r.on] \in Browser
  BY <1>1, <1>2, <1>3 DEF Mapping
<1>5. /\ r2 \in Request /\ r2.at = "send" /\ Working(r2) /\ r2.op = r.op /\ r2.on = r.on
      /\ r2.b = sessions[r.on] /\ r2.calls = 0
  BY <1>2, <1>3, <1>4 DEF Request, Working
<1> HIDE DEF r2
<1>6. Staged(r2)
  BY <1>3, <1>4, <1>5 DEF Staged
<1>7. ClaimsIn(r2, sessions', browser', portFile') /\ Housed(sessions', browser')
  BY <1>1, <1>2, <1>3, <1>4, <1>5 DEF ClaimsIn, Housed
<1>8. \A x \in Browser : Crowded(browser'[x]) =>
         \/ Crowded(browser[x]) /\ ~(r.at \in {"loop", "read"} /\ r.b = x)
         \/ r2.at \in {"loop", "read"} /\ r2.b = x
  BY <1>1
<1>9. \A x \in Browser : browser'[x].alive =>
         \/ /\ browser[x].alive /\ \A c \in Container : sessions[c] = x => sessions'[c] = x
            /\ ~(r.op = "open" /\ r.b = x /\ lock = t)
         \/ r2.op = "open" /\ r2.b = x /\ Working(r2)
  BY <1>1, <1>3
<1>10. lock \in {t, Free} /\ lock' = IF Working(r2) THEN t ELSE Free
  BY <1>1, <1>5
<1>11. /\ leaked \subseteq leaked' /\ leaked' \subseteq Browser /\ Mapping(sessions')
       /\ Files(portFile') /\ Healthy(browser')
  BY <1>1, <1>2
<1>12. QED
  BY <1>1, <1>5, <1>6, <1>7, <1>8, <1>9, <1>10, <1>11, Acts

\* A command, a read, and whatever goes on with the browser in hand.
LEMMA GoesOn ==
  ASSUME DebugInv, up, NEW t \in Thread, request[t].at \in {"send", "loop", "read"},
         NEW r2 \in Request, request' = [request EXCEPT ![t] = r2],
         r2.at \in {"send", "loop", "read"}, Staged(r2),
         r2.op = request[t].op, r2.on = request[t].on, r2.b = request[t].b,
         UNCHANGED <<sessions, lock, portFile, running, leaked, up>>,
         Healthy(browser'),
         \A x \in Browser : x # r2.b => browser'[x] = browser[x],
         browser'[r2.b].socket = browser[r2.b].socket,
         browser'[r2.b].alive => browser[r2.b].alive,
         Crowded(browser'[r2.b]) => r2.at \in {"loop", "read"}
  PROVE  DebugInv'
<1> DEFINE r == request[t]
<1>1. /\ Staged(r) /\ lock = t /\ ClaimsIn(r, sessions, browser, portFile)
      /\ Mapping(sessions) /\ Files(portFile) /\ Housed(sessions, browser) /\ leaked \subseteq Browser
  BY Holds DEF Working, DebugInv, Locked
<1>2. Working(r2) /\ Driving(r2) /\ Driving(r) /\ Working(r)
  BY DEF Working, Driving
<1>3. r.b \in Browser /\ r2.b = r.b
  BY <1>1, <1>2 DEF Staged
<1>4. ClaimsIn(r2, sessions', browser', portFile')
  <2>1. browser[r.b].socket # "none"
        /\ IF r.op = "open" THEN \A c \in Container : sessions[c] # r.b ELSE sessions[r.on] = r.b
    BY <1>1, <1>2 DEF ClaimsIn
  <2>2. r.op = "open" => sessions[r.on] = None
    BY <1>1, <1>2 DEF ClaimsIn
  <2>3. r2.at # "port"
    OBVIOUS
  <2>4. QED
    BY <1>3, <2>1, <2>2, <2>3 DEF ClaimsIn
<1>5. Housed(sessions', browser')
  <2>1. \A x \in Browser : browser'[x].socket = browser[x].socket
    BY <1>3
  <2>2. QED
    BY <1>1, <2>1 DEF Housed, Mapping
<1>6. \A x \in Browser : Crowded(browser'[x]) =>
        \/ Crowded(browser[x]) /\ ~(r.at \in {"loop", "read"} /\ r.b = x)
        \/ r2.at \in {"loop", "read"} /\ r2.b = x
  BY <1>3
<1>7. \A x \in Browser : browser'[x].alive =>
        \/ /\ browser[x].alive /\ \A c \in Container : sessions[c] = x => sessions'[c] = x
           /\ ~(r.op = "open" /\ r.b = x /\ lock = t)
        \/ r2.op = "open" /\ r2.b = x /\ Working(r2)
  BY <1>2, <1>3
<1>8. lock \in {t, Free} /\ lock' = IF Working(r2) THEN t ELSE Free
  BY <1>1, <1>2
<1>9. leaked \subseteq leaked' /\ leaked' \subseteq Browser /\ Mapping(sessions') /\ Files(portFile')
  BY <1>1
<1>10. QED
  BY <1>4, <1>5, <1>6, <1>7, <1>8, <1>9, Acts

\* What a thread has in hand when it drives a browser.
LEMMA Drives ==
  ASSUME DebugInv, NEW t \in Thread, request[t].at \in {"send", "loop", "read"}
  PROVE  /\ request[t] \in Request /\ Staged(request[t]) /\ lock = t
         /\ request[t].b \in Browser /\ request[t].on \in Container
         /\ Healthy(browser) /\ Fit(browser[request[t].b])
         /\ browser[request[t].b].port \in {None, request[t].b}
         /\ browser[request[t].b].socket # "none"
<1>1. request[t] \in Request /\ Staged(request[t]) /\ lock = t /\ Driving(request[t])
      /\ ClaimsIn(request[t], sessions, browser, portFile) /\ request[t].at # "idle"
  BY Holds DEF Working, Driving
<1>2. request[t].b \in Browser /\ request[t].on \in Container /\ Healthy(browser)
  BY <1>1 DEF Staged, DebugInv
<1>3. browser[request[t].b].socket # "none"
  BY <1>1 DEF ClaimsIn
<1>4. QED
  BY <1>1, <1>2, <1>3 DEF Healthy

\* The thread about to send is the only one that may wait for answers, so that
\* there is a number left.
LEMMA SendHasRoom ==
  ASSUME DebugInv, up, NEW t \in Thread, request[t].at = "send", browser[request[t].b].socket = "open"
  PROVE  PendingOf(browser[request[t].b]) # 1..MaxCalls
<1>1. lock = t /\ request[t].b \in Browser
  BY Drives
<1>2. \A x \in Thread : request[x].at \in {"loop", "read"} => x = t
  BY <1>1 DEF DebugInv, Locked, Working
<1>3. ~Crowded(browser[request[t].b])
  BY <1>1, <1>2 DEF DebugInv, Room
<1>4. QED
  BY <1>3 DEF Crowded

LEMMA SendStep ==
  ASSUME DebugInv, NEW t \in Thread, Send(t)
  PROVE  DebugInv'
<1> DEFINE r == request[t]
           i == NextId(r.b)
           r2 == [r EXCEPT !.at = "loop", !.id = i, !.calls = @ + 1]
<1>1. /\ up /\ r.at = "send" /\ browser[r.b].socket = "open"
      /\ browser' = IF browser[r.b].alive THEN [browser EXCEPT ![r.b].asked = @ \cup {i}] ELSE browser
      /\ request' = [request EXCEPT ![t] = r2]
      /\ UNCHANGED <<sessions, lock, portFile, running, leaked, up>>
  BY DEF Send, Goto, Sent
<1>2. /\ r \in Request /\ Staged(r) /\ r.b \in Browser /\ Healthy(browser) /\ Fit(browser[r.b])
      /\ browser[r.b].port \in {None, r.b}
  BY <1>1, Drives
<1>3. i \in 1..MaxCalls /\ i \notin PendingOf(browser[r.b])
  <2>1. PendingOf(browser[r.b]) # 1..MaxCalls
    BY <1>1, SendHasRoom
  <2>2. browser[r.b] \in Process /\ Wired(browser[r.b])
    BY <1>2 DEF Fit
  <2>3. QED
    BY <1>2, <2>1, <2>2, NextIdIsFresh
<1> HIDE DEF i
<1>4. r.calls < SectionCalls /\ r.calls \in 0..SectionCalls
  BY <1>1, <1>2 DEF Staged, Request
<1>5. r.calls + 1 \in 0..SectionCalls /\ i \in 0..MaxCalls
  BY <1>3, <1>4
<1>6. /\ r2 \in Request /\ r2.at = "loop" /\ r2.op = r.op /\ r2.on = r.on /\ r2.b = r.b
      /\ r2.id = i /\ r2.rest = r.rest
  BY <1>2, <1>5 DEF Request
<1> HIDE DEF r2
<1>7. Staged(r2)
  BY <1>1, <1>2, <1>3, <1>6 DEF Staged, Driving
<1>8. PICK b : b \in Browser /\ b = r.b
  BY <1>2
<1>9. /\ Healthy(browser') /\ \A x \in Browser \ {b} : browser'[x] = browser[x]
      /\ browser'[b].socket = browser[b].socket /\ (browser'[b].alive => browser[b].alive)
  <2>1. CASE browser[b].alive
    <3> DEFINE s2 == AskedTo(browser[b], i)
    <3>1. Fit(s2) /\ s2.socket = browser[b].socket /\ s2.port = browser[b].port
      BY <1>1, <1>2, <1>3, <1>8, <2>1, AskedFits
    <3>2. browser' = [browser EXCEPT ![b] = s2]
      BY <1>1, <1>2, <1>8, <2>1 DEF AskedTo, Healthy
    <3> HIDE DEF s2
    <3>3. s2.port \in {None, b} /\ Healthy(browser)
      BY <1>2, <1>8, <3>1
    <3>4. /\ Healthy(browser') /\ browser'[b] = s2 /\ \A x \in Browser \ {b} : browser'[x] = browser[x]
      BY <1>8, <3>1, <3>2, <3>3, ChangedMeans
    <3>5. QED
      BY <2>1, <3>1, <3>4
  <2>2. CASE ~browser[b].alive
    <3>1. browser' = browser
      BY <1>1, <1>8, <2>2
    <3>2. QED
      BY <1>2, <3>1
  <2>3. QED
    BY <2>1, <2>2
<1>10. r2.b = b /\ r2.at \in {"loop", "read"} /\ r2.at \in {"send", "loop", "read"}
       /\ r.at \in {"send", "loop", "read"}
  BY <1>1, <1>6, <1>8
<1>11. QED
  BY <1>1, <1>6, <1>7, <1>9, <1>10, GoesOn

LEMMA StartReadStep ==
  ASSUME DebugInv, NEW t \in Thread, StartRead(t)
  PROVE  DebugInv'
<1> DEFINE r == request[t]
           r2 == [r EXCEPT !.at = "read"]
<1>1. /\ up /\ r.at = "loop" /\ request' = [request EXCEPT ![t] = r2]
      /\ UNCHANGED <<sessions, lock, browser, portFile, running, leaked, up>>
  BY DEF StartRead, Goto
<1>2. r \in Request /\ Staged(r) /\ r.b \in Browser /\ Healthy(browser)
  BY <1>1, Drives
<1>3. /\ r2 \in Request /\ r2.at = "read" /\ r2.op = r.op /\ r2.on = r.on /\ r2.b = r.b
      /\ r2.id = r.id /\ r2.rest = r.rest
  BY <1>2 DEF Request
<1> HIDE DEF r2
<1>4. Staged(r2)
  BY <1>1, <1>2, <1>3 DEF Staged, Driving
<1>5. QED
  BY <1>1, <1>2, <1>3, <1>4, GoesOn

\* A message is taken off the socket, and the command goes on.
LEMMA Reads ==
  ASSUME DebugInv, up, NEW t \in Thread, request[t].at = "read", NEW next \in {"loop", "send"},
         request' = [request EXCEPT ![t] = [request[t] EXCEPT !.at = next]],
         next = "send" => request[t].calls < SectionCalls,
         NEW s2, Fit(s2), browser' = [browser EXCEPT ![request[t].b] = s2],
         s2.socket = browser[request[t].b].socket, s2.port = browser[request[t].b].port,
         s2.alive = browser[request[t].b].alive,
         next = "send" => ~Crowded(s2),
         UNCHANGED <<sessions, lock, portFile, running, leaked, up>>
  PROVE  DebugInv'
<1> DEFINE r == request[t]
           r2 == [r EXCEPT !.at = next]
<1>1. /\ r \in Request /\ Staged(r) /\ r.b \in Browser /\ Healthy(browser)
      /\ browser[r.b].port \in {None, r.b}
  BY Drives
<1>2. /\ r2 \in Request /\ r2.at = next /\ r2.op = r.op /\ r2.on = r.on /\ r2.b = r.b
      /\ r2.id = r.id /\ r2.rest = r.rest /\ r2.calls = r.calls
      /\ request' = [request EXCEPT ![t] = r2]
  BY <1>1 DEF Request
<1> HIDE DEF r2
<1>3. Staged(r2)
  BY <1>1, <1>2 DEF Staged, Driving
<1>4. PICK b : b \in Browser /\ b = r.b
  BY <1>1
<1>5. s2.port \in {None, b} /\ browser' = [browser EXCEPT ![b] = s2]
  BY <1>1, <1>4
<1>6. /\ Healthy(browser') /\ browser'[b] = s2 /\ \A x \in Browser \ {b} : browser'[x] = browser[x]
  BY <1>1, <1>4, <1>5, ChangedMeans
<1>7. /\ \A x \in Browser : x # r2.b => browser'[x] = browser[x]
      /\ browser'[r2.b].socket = browser[r2.b].socket
      /\ browser'[r2.b].alive => browser[r2.b].alive
      /\ Crowded(browser'[r2.b]) => r2.at \in {"loop", "read"}
  BY <1>2, <1>4, <1>6
<1>8. r2.at \in {"send", "loop", "read"}
  BY <1>2
<1>9. QED
  BY <1>1, <1>2, <1>3, <1>6, <1>7, <1>8, GoesOn

LEMMA ReadEventStep ==
  ASSUME DebugInv, NEW t \in Thread, ReadEvent(t)
  PROVE  DebugInv'
<1> DEFINE r == request[t]
           s2 == Heard(browser[r.b])
<1>1. /\ up /\ r.at = "read" /\ browser[r.b].wire # <<>> /\ Head(browser[r.b].wire).kind = "event"
      /\ request' = [request EXCEPT ![t] = [r EXCEPT !.at = "loop"]]
      /\ UNCHANGED <<sessions, lock, portFile, running, leaked, up>>
  BY DEF ReadEvent, Goto
<1>2. r.b \in Browser /\ Healthy(browser) /\ Fit(browser[r.b])
  BY <1>1, Drives
<1>3. /\ Fit(s2) /\ s2.socket = browser[r.b].socket /\ s2.alive = browser[r.b].alive
      /\ s2.port = browser[r.b].port
  BY <1>1, <1>2, HeardFits
<1>4. browser' = [browser EXCEPT ![r.b] = s2]
  BY <1>2 DEF ReadEvent, Healthy, Heard
<1> HIDE DEF s2
<1>5. QED
  BY <1>1, <1>3, <1>4, Reads

LEMMA SkipReplyStep ==
  ASSUME DebugInv, NEW t \in Thread, SkipReply(t)
  PROVE  DebugInv'
<1> DEFINE r == request[t]
           s2 == Skipped(browser[r.b])
<1>1. /\ up /\ r.at = "read" /\ browser[r.b].wire # <<>> /\ Head(browser[r.b].wire).kind = "reply"
      /\ request' = [request EXCEPT ![t] = [r EXCEPT !.at = "loop"]]
      /\ UNCHANGED <<sessions, lock, portFile, running, leaked, up>>
  BY DEF SkipReply, Goto
<1>2. r.b \in Browser /\ Healthy(browser) /\ Fit(browser[r.b])
  BY <1>1, Drives
<1>3. /\ Fit(s2) /\ s2.socket = browser[r.b].socket /\ s2.alive = browser[r.b].alive
      /\ s2.port = browser[r.b].port
  BY <1>1, <1>2, SkippedFits
<1>4. browser' = [browser EXCEPT ![r.b] = s2]
  BY <1>2 DEF SkipReply, Healthy, Skipped
<1> HIDE DEF s2
<1>5. QED
  BY <1>1, <1>3, <1>4, Reads

\* A section that ends, well or not, and what becomes of its session and of
\* its browser.
LEMMA OutcomeStep ==
  ASSUME DebugInv, up, NEW t \in Thread, request[t].at \in {"send", "loop", "read"},
         NEW o \in {"ok", "page", "late", "closed", "lost"}, Outcome(t, o),
         Healthy(browser'), \A x \in Browser : x # request[t].b => browser'[x] = browser[x],
         ~Crowded(browser'[request[t].b]),
         sessions'[request[t].on] = request[t].b => browser'[request[t].b].socket # "none",
         browser'[request[t].b].alive =>
           browser[request[t].b].alive /\ sessions'[request[t].on] = request[t].b
  PROVE  DebugInv'
<1> DEFINE r == request[t]
           c == r.on
           more == o = "ok" /\ Len(r.rest) > 1
           r2 == IF more THEN [r EXCEPT !.at = "section", !.rest = Tail(@), !.calls = 0] ELSE Idle
<1>1. /\ sessions' = [sessions EXCEPT ![c] =
                       IF r.op = "open" THEN (IF o = "ok" THEN r.b ELSE None)
                       ELSE IF Dead(o) THEN None ELSE @]
      /\ portFile' = IF Drops(t, o) THEN Unprofiled({c}) ELSE portFile
      /\ lock' = Free
      /\ request' = [request EXCEPT ![t] = r2]
      /\ UNCHANGED <<running, leaked, up>>
  BY DEF Outcome, Goto
<1>2. /\ r \in Request /\ Staged(r) /\ lock = t /\ r.b \in Browser /\ c \in Container
      /\ ClaimsIn(r, sessions, browser, portFile) /\ Driving(r) /\ Working(r)
  BY Drives, Holds DEF Driving, Working
<1>3. /\ Mapping(sessions) /\ Files(portFile) /\ Housed(sessions, browser) /\ leaked \subseteq Browser
  BY DEF DebugInv, Locked
<1>4. /\ r.op = "open" => sessions[c] = None /\ \A d \in Container : sessions[d] # r.b
      /\ r.op # "open" => sessions[c] = r.b
  BY <1>2 DEF ClaimsIn
<1>5. r.b # None
  BY <1>2, NoneIsNone
<1> DEFINE v == sessions'[c]
<1>6. v \in {None, r.b} /\ \A d \in Container \ {c} : sessions'[d] = sessions[d] /\ sessions[d] # r.b
  BY <1>1, <1>2, <1>3, <1>4, <1>5 DEF Mapping
<1>7. Mapping(sessions')
  <2>1. sessions' \in [Container -> Browser \cup {None}]
    BY <1>1, <1>2, <1>3, <1>4 DEF Mapping
  <2>2. ASSUME NEW d \in Container, NEW e \in Container, sessions'[d] = sessions'[e], sessions'[d] # None
        PROVE  d = e
    BY <1>3, <1>6, <2>2 DEF Mapping
  <2>3. QED
    BY <2>1, <2>2 DEF Mapping
<1>8. Files(portFile')
  BY <1>1, <1>3, UnprofiledMeans
<1>9. Housed(sessions', browser')
  <2>1. ASSUME NEW d \in Container, sessions'[d] # None PROVE browser'[sessions'[d]].socket # "none"
    <3>1. CASE d = c
      BY <1>6, <2>1, <3>1
    <3>2. CASE d # c
      <4>1. sessions'[d] = sessions[d] /\ sessions[d] # r.b /\ sessions[d] \in Browser
        BY <1>3, <1>6, <2>1, <3>2 DEF Mapping
      <4>2. browser[sessions[d]].socket # "none"
        BY <1>3, <2>1, <4>1 DEF Housed
      <4>3. QED
        BY <4>1, <4>2
    <3>3. QED
      BY <3>1, <3>2
  <2>2. QED
    BY <2>1 DEF Housed
<1>10. r2 \in Request /\ Staged(r2) /\ ~Working(r2) /\ r2.at \notin {"loop", "read"}
  <2>1. CASE more
    <3>1. r.rest \in Rests /\ Tail(r.rest) \in Rests
      BY <1>2, <2>1, RestsAre DEF Request
    <3>2. r2 = [r EXCEPT !.at = "section", !.rest = Tail(@), !.calls = 0] /\ 0 \in 0..SectionCalls
      BY <2>1
    <3>3. /\ r2 \in Request /\ r2.at = "section" /\ r2.op = r.op /\ r2.on = c /\ r2.calls = 0
      BY <1>2, <3>1, <3>2 DEF Request
    <3>4. r.op # "open"
      <4>1. r.op = "open" => r.rest = <<>>
        BY <1>2 DEF Staged
      <4>2. Len(<<>>) = 0
        BY EmptySeq
      <4>3. QED
        BY <2>1, <4>1, <4>2
    <3> HIDE DEF r2
    <3>5. r.op \in DOMAIN Sections
      BY <1>2, <3>4 DEF Staged
    <3>6. QED
      BY <1>2, <3>3, <3>4, <3>5 DEF Staged, Working, Driving
  <2>2. CASE ~more
    BY <2>2, IdleMeans
  <2>3. QED
    BY <2>1, <2>2
<1> HIDE DEF r2, v
<1>11. ClaimsIn(r2, sessions', browser', portFile')
  BY <1>10, NothingClaimed
<1>12. \A x \in Browser : Crowded(browser'[x]) =>
         \/ Crowded(browser[x]) /\ ~(r.at \in {"loop", "read"} /\ r.b = x)
         \/ r2.at \in {"loop", "read"} /\ r2.b = x
  OBVIOUS
<1>13. ASSUME NEW x \in Browser, browser'[x].alive
       PROVE  \/ /\ browser[x].alive /\ \A d \in Container : sessions[d] = x => sessions'[d] = x
                 /\ ~(r.op = "open" /\ r.b = x /\ lock = t)
              \/ \E d \in Container : sessions'[d] = x
  <2>1. CASE x = r.b
    BY <1>2, <1>13, <2>1
  <2>2. CASE x # r.b
    <3>1. browser[x].alive
      BY <1>13, <2>2
    <3>2. ASSUME NEW d \in Container, sessions[d] = x PROVE sessions'[d] = x
      <4>1. sessions[c] # x
        BY <1>4, <2>2, NoneIsNone
      <4>2. QED
        BY <1>6, <3>2, <4>1
    <3>3. QED
      BY <2>2, <3>1, <3>2
  <2>3. QED
    BY <2>1, <2>2
<1>14. lock \in {t, Free} /\ lock' = IF Working(r2) THEN t ELSE Free
  BY <1>1, <1>2, <1>10
<1>15. leaked \subseteq leaked' /\ leaked' \subseteq Browser
  BY <1>1, <1>3
<1>16. QED
  BY <1>1, <1>7, <1>8, <1>9, <1>10, <1>11, <1>12, <1>13, <1>14, <1>15, Acts

\* What Outcome says of the session: a launch that ends well has one, a launch
\* that does not and a lost browser leave none, and otherwise nothing changes.
LEMMA OutcomeMeans ==
  ASSUME DebugInv, NEW t \in Thread, request[t].at \in {"send", "loop", "read"}, NEW o, Outcome(t, o)
  PROVE  /\ Drops(t, o) => sessions'[request[t].on] = None
         /\ ~Drops(t, o) => sessions'[request[t].on] = request[t].b
         /\ \A d \in Container : d # request[t].on => sessions'[d] = sessions[d]
<1>1. /\ Staged(request[t]) /\ ClaimsIn(request[t], sessions, browser, portFile)
      /\ request[t].on \in Container /\ Mapping(sessions)
  BY Drives, Holds DEF DebugInv
<1>2. request[t].op # "open" => sessions[request[t].on] = request[t].b
  BY <1>1 DEF ClaimsIn, Driving
<1>3. QED
  BY <1>1, <1>2 DEF Outcome, Drops, Mapping

\* The section ends and its browser with it.
LEMMA DropStep ==
  ASSUME DebugInv, up, NEW t \in Thread, request[t].at \in {"send", "loop", "read"},
         NEW o \in {"ok", "page", "late", "closed", "lost"}, Outcome(t, o), Drops(t, o),
         browser' = Killed({request[t].b})
  PROVE  DebugInv'
<1> DEFINE r == request[t]
<1>1. r.b \in Browser /\ Healthy(browser)
  BY Drives
<1>2. Healthy(browser') /\ browser'[r.b] = NoBrowser
      /\ \A x \in Browser : x # r.b => browser'[x] = browser[x]
  <2>1. PICK B : B = {r.b}
    OBVIOUS
  <2>2. browser' = Killed(B)
    BY <2>1
  <2>3. Healthy(browser') /\ \A b \in Browser : /\ b \in B => browser'[b] = NoBrowser
                                                /\ b \notin B => browser'[b] = browser[b]
    BY <1>1, <2>2, KilledMeans
  <2>4. QED
    BY <1>1, <2>1, <2>3
<1>3. sessions'[r.on] # r.b
  BY <1>1, OutcomeMeans, NoneIsNone
<1>4. ~Crowded(browser'[r.b]) /\ ~browser'[r.b].alive
  BY <1>2, GoneMeans
<1>5. QED
  BY <1>2, <1>3, <1>4, OutcomeStep

\* The section ends and the session stays, with what is left of its browser.
LEMMA KeepStep ==
  ASSUME DebugInv, up, NEW t \in Thread, request[t].at \in {"send", "loop", "read"},
         NEW o \in {"ok", "page", "late", "closed", "lost"}, Outcome(t, o), ~Drops(t, o),
         NEW s2, Fit(s2), browser' = [browser EXCEPT ![request[t].b] = s2],
         s2.port = browser[request[t].b].port, s2.socket # "none",
         s2.alive => browser[request[t].b].alive, ~Crowded(s2)
  PROVE  DebugInv'
<1> DEFINE r == request[t]
<1>1. r.b \in Browser /\ Healthy(browser) /\ browser[r.b].port \in {None, r.b}
  BY Drives
<1>2. PICK b : b \in Browser /\ b = r.b
  BY <1>1
<1>3. s2.port \in {None, b} /\ browser' = [browser EXCEPT ![b] = s2]
  BY <1>1, <1>2
<1>4. Healthy(browser') /\ browser'[b] = s2 /\ \A x \in Browser \ {b} : browser'[x] = browser[x]
  BY <1>1, <1>2, <1>3, ChangedMeans
<1>5. /\ \A x \in Browser : x # r.b => browser'[x] = browser[x]
      /\ ~Crowded(browser'[r.b]) /\ browser'[r.b].socket # "none"
      /\ browser'[r.b].alive => browser[r.b].alive
  BY <1>2, <1>4
<1>6. sessions'[r.on] = r.b
  BY OutcomeMeans
<1>7. QED
  BY <1>4, <1>5, <1>6, OutcomeStep

\* An unchanged browser is a special case.
LEMMA KeepAsIs ==
  ASSUME DebugInv, up, NEW t \in Thread, request[t].at \in {"send", "loop", "read"},
         NEW o \in {"ok", "page", "late", "closed", "lost"}, Outcome(t, o), ~Drops(t, o),
         browser' = browser, ~Crowded(browser[request[t].b])
  PROVE  DebugInv'
<1>1. /\ request[t].b \in Browser /\ Healthy(browser) /\ Fit(browser[request[t].b])
      /\ browser[request[t].b].socket # "none"
  BY Drives
<1>2. browser' = [browser EXCEPT ![request[t].b] = browser[request[t].b]]
  BY <1>1 DEF Healthy
<1>3. QED
  BY <1>1, <1>2, KeepStep

LEMMA SendFailsStep ==
  ASSUME DebugInv, NEW t \in Thread, SendFails(t)
  PROVE  DebugInv'
<1> DEFINE r == request[t]
<1>1. /\ up /\ r.at \in {"send", "loop", "read"}
      /\ browser' = IF sessions'[r.on] # r.b THEN Killed({r.b}) ELSE browser
  BY DEF SendFails
<1>2. r.b \in Browser
  BY <1>1, Drives
<1>3. PICK o \in {"closed", "lost"} :
        /\ Outcome(t, o)
        /\ o = "closed" => browser[r.b].socket = "closed"
  BY DEF SendFails
<1>4. o \in {"ok", "page", "late", "closed", "lost"}
  BY <1>3
<1>5. CASE Drops(t, o)
  <2>1. sessions'[r.on] # r.b
    BY <1>1, <1>2, <1>3, <1>5, OutcomeMeans, NoneIsNone
  <2>2. QED
    BY <1>1, <1>3, <1>4, <1>5, <2>1, DropStep
<1>6. CASE ~Drops(t, o)
  <2>1. sessions'[r.on] = r.b
    BY <1>1, <1>3, <1>6, OutcomeMeans
  <2>2. ~Crowded(browser[r.b])
    BY <1>3, <1>6 DEF Drops, Dead, Crowded
  <2>3. QED
    BY <1>1, <1>3, <1>4, <1>6, <2>1, <2>2, KeepAsIs
<1>7. QED
  BY <1>5, <1>6

LEMMA TimesOutStep ==
  ASSUME DebugInv, NEW t \in Thread, TimesOut(t)
  PROVE  DebugInv'
<1> DEFINE r == request[t]
<1>1. /\ up /\ r.at \in {"send", "loop", "read"} /\ Pending(r.b) # 1..MaxCalls /\ Outcome(t, "late")
      /\ browser' = IF r.op = "open" THEN Killed({r.b}) ELSE browser
  BY DEF TimesOut
<1>2. ~Crowded(browser[r.b])
  BY <1>1 DEF Crowded, Pending, PendingOf
<1>3. Drops(t, "late") <=> r.op = "open"
  BY DEF Drops, Dead
<1>4. CASE r.op = "open"
  BY <1>1, <1>3, <1>4, DropStep
<1>5. CASE r.op # "open"
  BY <1>1, <1>2, <1>3, <1>5, KeepAsIs
<1>6. QED
  BY <1>4, <1>5

LEMMA TakeReplyStep ==
  ASSUME DebugInv, NEW t \in Thread, TakeReply(t)
  PROVE  DebugInv'
<1> DEFINE r == request[t]
           s == browser[r.b]
           s2 == Skipped(s)
           s3 == Emptied(s2)
<1>1. /\ up /\ r.at = "read" /\ s.wire # <<>> /\ Head(s.wire).kind = "reply"
      /\ Head(s.wire).n = r.id
  BY DEF TakeReply, Mine
<1>2. /\ r.b \in Browser /\ Healthy(browser) /\ Fit(s) /\ Staged(r) /\ s.socket # "none"
      /\ r.at \in {"send", "loop", "read"}
  BY <1>1, Drives
<1>3. /\ Fit(s2) /\ s2.socket = s.socket /\ s2.alive = s.alive /\ s2.port = s.port
      /\ Head(s.wire).n \notin PendingOf(s2)
  BY <1>1, <1>2, SkippedFits
<1>4. r.id \in 1..MaxCalls
  BY <1>1, <1>2 DEF Staged
<1>5. ~Crowded(s2)
  BY <1>1, <1>3, <1>4 DEF Crowded
<1>6. [browser EXCEPT ![r.b].wire = Tail(@)] = [browser EXCEPT ![r.b] = s2]
  BY <1>2 DEF Healthy, Skipped
<1>7. CASE /\ r.op # "console" /\ r.calls < SectionCalls
           /\ Goto(t, [r EXCEPT !.at = "send"])
           /\ browser' = [browser EXCEPT ![r.b].wire = Tail(@)]
           /\ UNCHANGED <<sessions, lock, portFile, running, leaked, up>>
  <2>1. request' = [request EXCEPT ![t] = [r EXCEPT !.at = "send"]]
        /\ browser' = [browser EXCEPT ![r.b] = s2]
    BY <1>6, <1>7 DEF Goto
  <2> HIDE DEF s2
  <2>2. QED
    BY <1>1, <1>3, <1>5, <1>7, <2>1, Reads
<1>8. CASE Outcome(t, "ok") /\ browser' = [browser EXCEPT ![r.b] = Drained(@, t)]
  <2>1. ~Drops(t, "ok")
    BY DEF Drops, Dead
  <2>2. PICK x : x = Drained(s, t)
    OBVIOUS
  <2>3. /\ Fit(x) /\ x.socket = s.socket /\ x.alive = s.alive /\ x.port = s.port /\ ~Crowded(x)
    <3>1. CASE r.op = "console"
      <4>1. s \in Process
        BY <1>2 DEF Fit
      <4>2. x = s3
        BY <2>2, <3>1, <4>1 DEF Drained, Emptied, Skipped, Process
      <4> HIDE DEF s2
      <4>3. /\ Fit(s3) /\ s3.socket = s2.socket /\ s3.alive = s2.alive /\ s3.port = s2.port
            /\ (Crowded(s3) => Crowded(s2))
        BY <1>3, DrainedFits
      <4> HIDE DEF s3
      <4>4. QED
        BY <1>3, <1>5, <4>2, <4>3
    <3>2. CASE r.op # "console"
      <4>1. x = s2
        BY <2>2, <3>2 DEF Drained, Skipped
      <4> HIDE DEF s2
      <4>2. QED
        BY <1>3, <1>5, <4>1
    <3>3. QED
      BY <3>1, <3>2
  <2>4. browser' = [browser EXCEPT ![r.b] = x]
    BY <1>8, <2>2
  <2>5. QED
    BY <1>1, <1>2, <1>8, <2>1, <2>3, <2>4, KeepStep
<1>9. CASE /\ Outcome(t, "page")
           /\ browser' = IF Drops(t, "page") THEN Killed({r.b})
                         ELSE [browser EXCEPT ![r.b].wire = Tail(@)]
  <2>1. CASE Drops(t, "page")
    BY <1>1, <1>2, <1>9, <2>1, DropStep
  <2>2. CASE ~Drops(t, "page")
    <3>1. browser' = [browser EXCEPT ![r.b] = s2]
      BY <1>6, <1>9, <2>2
    <3> HIDE DEF s2
    <3>2. s2.socket # "none"
      BY <1>2, <1>3
    <3>3. QED
      BY <1>1, <1>2, <1>3, <1>5, <1>9, <2>2, <3>1, <3>2, KeepStep
  <2>3. QED
    BY <2>1, <2>2
<1>10. QED
  BY <1>7, <1>8, <1>9 DEF TakeReply

LEMMA ReadCloseStep ==
  ASSUME DebugInv, NEW t \in Thread, ReadClose(t)
  PROVE  DebugInv'
<1> DEFINE r == request[t]
           s == browser[r.b]
           s2 == Ended(s)
<1>1. /\ up /\ r.at \in {"send", "loop", "read"} /\ s.wire # <<>> /\ Head(s.wire).kind = "close"
      /\ Outcome(t, "closed")
      /\ browser' = IF Drops(t, "closed") THEN Killed({r.b})
                    ELSE [browser EXCEPT ![r.b].wire = <<>>, ![r.b].socket = "closed"]
  BY DEF ReadClose
<1>2. r.b \in Browser /\ Healthy(browser) /\ Fit(s)
  BY <1>1, Drives
<1>3. /\ Fit(s2) /\ s2.socket = "closed" /\ s2.alive = s.alive /\ s2.port = s.port /\ ~Crowded(s2)
  BY <1>1, <1>2, ClosedFits
<1>4. [browser EXCEPT ![r.b].wire = <<>>, ![r.b].socket = "closed"] = [browser EXCEPT ![r.b] = s2]
  BY <1>2 DEF Healthy, Ended
<1> HIDE DEF s2
<1>5. CASE Drops(t, "closed")
  BY <1>1, <1>5, DropStep
<1>6. CASE ~Drops(t, "closed")
  <2>1. browser' = [browser EXCEPT ![r.b] = s2] /\ s2.socket # "none"
    BY <1>1, <1>3, <1>4, <1>6
  <2>2. QED
    BY <1>1, <1>3, <1>6, <2>1, KeepStep
<1>7. QED
  BY <1>5, <1>6

LEMMA ReadFailsStep ==
  ASSUME DebugInv, NEW t \in Thread, ReadFails(t)
  PROVE  DebugInv'
<1> DEFINE r == request[t]
<1>1. /\ up /\ r.at \in {"send", "loop", "read"} /\ Outcome(t, "lost")
      /\ browser' = IF Drops(t, "lost") THEN Killed({r.b}) ELSE browser
  BY DEF ReadFails
<1>2. Drops(t, "lost")
  BY DEF Drops, Dead
<1>3. QED
  BY <1>1, <1>2, DropStep

LEMMA HandlerStep ==
  ASSUME DebugInv, NEW t \in Thread, Handler(t)
  PROVE  DebugInv'
BY OpenLockStep, SpawnStep, LaunchSteps, AttachStep, NoSessionStep, EnterStep, SendStep,
   SendFailsStep, TimesOutStep, StartReadStep, ReadEventStep, SkipReplyStep, TakeReplyStep,
   ReadCloseStep, ReadFailsStep DEF Handler
-----------------------------------------------------------------------------
(* The browsers and the world. *)

\* A connected browser runs, and its socket has not been closed.
LEMMA AnswersStep ==
  ASSUME DebugInv, NEW b \in Browser, Answers(b)
  PROVE  DebugInv'
<1> DEFINE s == browser[b]
<1>1. Healthy(browser) /\ Fit(s) /\ s.port \in {None, b}
  BY DEF DebugInv, Healthy
<1>2. s.alive /\ \A j \in DOMAIN s.wire : s.wire[j].kind # "close"
  BY DEF Answers, Connected
<1>3. PICK i \in s.asked :
        browser' = [browser EXCEPT ![b].asked = @ \ {i}, ![b].wire = Append(@, Reply(i))]
  BY DEF Answers
<1>4. browser' = [browser EXCEPT ![b] = AnsweredTo(s, i)]
  BY <1>1, <1>3 DEF Healthy, AnsweredTo
<1>5. PICK s2 : s2 = AnsweredTo(s, i)
  OBVIOUS
<1>6. /\ Fit(s2) /\ (Crowded(s2) => Crowded(s))
      /\ s2.socket = s.socket /\ s2.alive = s.alive /\ s2.port = s.port
  BY <1>1, <1>2, <1>5, AnsweredFits
<1>7. /\ Healthy(browser') /\ browser'[b] = s2
      /\ \A x \in Browser \ {b} : browser'[x] = browser[x]
  BY <1>1, <1>4, <1>5, <1>6, ChangedMeans
<1>8. UNCHANGED <<sessions, lock, request, portFile, running, leaked, up>>
  BY DEF Answers
<1>9. running' \subseteq Container
  BY <1>8 DEF DebugInv
<1>10. QED
  BY <1>6, <1>7, <1>8, <1>9, Happens

LEMMA EmitsStep ==
  ASSUME DebugInv, NEW b \in Browser, Emits(b)
  PROVE  DebugInv'
<1> DEFINE s == browser[b]
<1>1. Healthy(browser) /\ Fit(s) /\ s.port \in {None, b}
  BY DEF DebugInv, Healthy
<1>2. /\ s.alive /\ s.socket = "open" /\ s.emitted < MaxEvents
      /\ \A j \in DOMAIN s.wire : s.wire[j].kind # "close"
  BY DEF Emits, Connected
<1>3. browser' = [browser EXCEPT ![b].emitted = @ + 1,
                                 ![b].wire = Append(@, Event(browser[b].emitted + 1))]
  BY DEF Emits
<1>4. browser' = [browser EXCEPT ![b] = Logged(s)]
  BY <1>1, <1>3 DEF Healthy, Logged
<1>5. PICK s2 : s2 = Logged(s)
  OBVIOUS
<1>6. /\ Fit(s2) /\ (Crowded(s2) => Crowded(s))
      /\ s2.socket = s.socket /\ s2.alive = s.alive /\ s2.port = s.port
  BY <1>1, <1>2, <1>5, EmittedFits
<1>7. /\ Healthy(browser') /\ browser'[b] = s2
      /\ \A x \in Browser \ {b} : browser'[x] = browser[x]
  BY <1>1, <1>4, <1>5, <1>6, ChangedMeans
<1>8. UNCHANGED <<sessions, lock, request, portFile, running, leaked, up>>
  BY DEF Emits
<1>9. running' \subseteq Container
  BY <1>8 DEF DebugInv
<1>10. QED
  BY <1>6, <1>7, <1>8, <1>9, Happens

LEMMA ClosesStep ==
  ASSUME DebugInv, NEW b \in Browser, Closes(b)
  PROVE  DebugInv'
<1> DEFINE s == browser[b]
<1>1. Healthy(browser) /\ Fit(s) /\ s.port \in {None, b}
  BY DEF DebugInv, Healthy
<1>2. /\ s.alive /\ s.socket = "open"
      /\ \A j \in DOMAIN s.wire : s.wire[j].kind # "close"
  BY DEF Closes, Connected
<1>3. browser' = [browser EXCEPT ![b].asked = {},
                                 ![b].wire = Append(@, [kind |-> "close", n |-> 0])]
  BY DEF Closes
<1>4. browser' = [browser EXCEPT ![b] = Closing(s)]
  BY <1>1, <1>3 DEF Healthy, Closing
<1>5. PICK s2 : s2 = Closing(s)
  OBVIOUS
<1>6. /\ Fit(s2) /\ (Crowded(s2) => Crowded(s))
      /\ s2.socket = s.socket /\ s2.alive = s.alive /\ s2.port = s.port
  BY <1>1, <1>2, <1>5, ClosingFits
<1>7. /\ Healthy(browser') /\ browser'[b] = s2
      /\ \A x \in Browser \ {b} : browser'[x] = browser[x]
  BY <1>1, <1>4, <1>5, <1>6, ChangedMeans
<1>8. UNCHANGED <<sessions, lock, request, portFile, running, leaked, up>>
  BY DEF Closes
<1>9. running' \subseteq Container
  BY <1>8 DEF DebugInv
<1>10. QED
  BY <1>6, <1>7, <1>8, <1>9, Happens

LEMMA DiesStep ==
  ASSUME DebugInv, NEW b \in Browser, Dies(b)
  PROVE  DebugInv'
<1> DEFINE s == browser[b]
<1>1. Healthy(browser) /\ Fit(s) /\ s.port \in {None, b}
  BY DEF DebugInv, Healthy
<1>2. browser' = [browser EXCEPT ![b].alive = FALSE, ![b].asked = {}]
      /\ UNCHANGED <<sessions, lock, request, portFile, running, leaked, up>>
  BY DEF Dies
<1>3. browser' = [browser EXCEPT ![b] = Died(s)]
  BY <1>1, <1>2 DEF Healthy, Died
<1>4. PICK s2 : s2 = Died(s)
  OBVIOUS
<1>5. /\ Fit(s2) /\ (Crowded(s2) => Crowded(s)) /\ s2.socket = s.socket
      /\ ~s2.alive /\ s2.port = s.port
  BY <1>1, <1>4, DiedFits
<1>6. /\ Healthy(browser') /\ browser'[b] = s2
      /\ \A x \in Browser \ {b} : browser'[x] = browser[x]
  BY <1>1, <1>3, <1>4, <1>5, ChangedMeans
<1>7. running' \subseteq Container
  BY <1>2 DEF DebugInv
<1>8. QED
  BY <1>2, <1>5, <1>6, <1>7, Happens

LEMMA HostStep ==
  ASSUME DebugInv, NEW c \in Container, Host(c)
  PROVE  DebugInv'
<1>1. UNCHANGED <<sessions, lock, request, browser, portFile, leaked, up>>
      /\ running' \subseteq Container
  BY DEF Host, DebugInv
<1>2. Healthy(browser')
  BY <1>1 DEF DebugInv
<1>3. QED
  BY <1>1, <1>2, Happens

LEMMA WorldStep ==
  ASSUME DebugInv, World
  PROVE  DebugInv'
BY PublishesStep, AnswersStep, EmitsStep, ClosesStep, DiesStep, HostStep DEF World

\* Nobody works on the map of a daemon that is gone, and there is nothing in it.
LEMMA ExitStep ==
  ASSUME DebugInv, Exit
  PROVE  DebugInv'
<1>1. /\ up' = FALSE /\ sessions' = [c \in Container |-> None]
      /\ request' = [t \in Thread |-> Idle] /\ lock' = Free
      /\ UNCHANGED <<browser, portFile, running, leaked>>
  BY DEF Exit
<1>2. \A t \in Thread : request'[t] = Idle /\ lock' # t
  BY <1>1 DEF Free
<1>3. Mapping(sessions') /\ \A c \in Container : sessions'[c] = None
  BY <1>1 DEF Mapping
<1>4. request' \in [Thread -> Request]
  BY <1>1, IdleMeans
<1>5. Locked'
  <2>1. \A t \in Thread : Staged(request'[t]) /\ ClaimsIn(request'[t], sessions', browser', portFile')
    BY <1>2, IdleMeans, NothingClaimed
  <2>2. Housed(sessions', browser')
    BY <1>3 DEF Housed
  <2>3. \A t \in Thread : Working(request'[t]) <=> lock' = t
    BY <1>2, IdleMeans
  <2>4. QED
    BY <2>1, <2>2, <2>3 DEF Locked, Claims
<1>6. Room' /\ Tended'
  BY <1>1 DEF Room, Tended
<1>7. lock' \in Thread \cup {Free} /\ up' \in BOOLEAN
  BY <1>1
<1>8. /\ Healthy(browser)' /\ Files(portFile)' /\ (running \subseteq Container)'
      /\ (leaked \subseteq Browser)'
  BY <1>1 DEF DebugInv
<1>9. QED
  BY <1>3, <1>4, <1>5, <1>6, <1>7, <1>8 DEF DebugInv

-----------------------------------------------------------------------------
(* The invariant. *)

LEMMA DebugStart == Init => DebugInv
<1> SUFFICES ASSUME Init PROVE DebugInv
  OBVIOUS
<1>1. /\ sessions = [c \in Container |-> None] /\ lock = Free
      /\ request = [t \in Thread |-> Idle] /\ browser = [b \in Browser |-> NoBrowser]
      /\ portFile = [c \in Container |-> None] /\ running = Container /\ leaked = {}
      /\ up = TRUE
  BY DEF Init
<1>2. \A t \in Thread : request[t] = Idle /\ lock # t
  BY <1>1 DEF Free
<1>3. Mapping(sessions) /\ Files(portFile) /\ request \in [Thread -> Request]
  BY <1>1, IdleMeans DEF Mapping, Files
<1>4. Healthy(browser)
  <2>1. Fit(NoBrowser) /\ NoBrowser \in Process /\ NoBrowser.port = None
    BY NoneFits DEF Fit, NoBrowser
  <2>2. QED
    BY <1>1, <2>1 DEF Healthy
<1>5. Locked
  <2>1. \A t \in Thread : Staged(request[t]) /\ ClaimsIn(request[t], sessions, browser, portFile)
    BY <1>2, IdleMeans, NothingClaimed
  <2>2. \A t \in Thread : Working(request[t]) <=> lock = t
    BY <1>2, IdleMeans
  <2>3. QED
    BY <1>1, <2>1, <2>2 DEF Locked, Claims, Housed
<1>6. Room
  BY <1>1, GoneMeans DEF Room
<1>7. Tended
  BY <1>1, GoneMeans DEF Tended, Kept
<1>8. QED
  BY <1>1, <1>3, <1>4, <1>5, <1>6, <1>7 DEF DebugInv

LEMMA DebugStep == DebugInv /\ [Next]_vars => DebugInv'
<1> SUFFICES ASSUME DebugInv, [Next]_vars PROVE DebugInv'
  OBVIOUS
<1>1. ASSUME NEW t \in Thread, Handler(t) PROVE DebugInv'
  BY <1>1, HandlerStep
<1>2. ASSUME NEW t \in Thread, NEW c \in Container, OpenResolve(t, c) PROVE DebugInv'
  BY <1>2, OpenResolveStep
<1>3. ASSUME NEW t \in Thread, NEW c \in Container, CloseSession(t, c) PROVE DebugInv'
  BY <1>3, CloseSessionStep
<1>4. ASSUME NEW t \in Thread, NEW c \in Container, NEW op \in Ops[t], Ask(t, op, c) PROVE DebugInv'
  BY <1>4, AskStep
<1>5. CASE World
  BY <1>5, WorldStep
<1>6. CASE Exit
  BY <1>6, ExitStep
<1>7. CASE UNCHANGED vars
  BY <1>7 DEF vars, DebugInv, Mapping, Healthy, Files, Locked, Claims, Room, Tended
<1>8. QED
  BY <1>1, <1>2, <1>3, <1>4, <1>5, <1>6, <1>7 DEF Next

LEMMA DebugInvHolds == Spec => []DebugInv
<1>1. QED
  BY DebugStart, DebugStep, PTL DEF Spec

\* Every variable of the surface keeps its type, the number of a command stays
\* within its bound and an event buffer within EVENT_CAP, whatever the requests,
\* the browsers and the hosts do; and no two sessions hold one browser.
THEOREM TypeCorrect == Spec => []TypeOK
<1>1. DebugInv => TypeOK
  <2> SUFFICES ASSUME DebugInv PROVE TypeOK
    OBVIOUS
  <2>1. ASSUME NEW b \in Browser
        PROVE  /\ browser[b].socket \in {"none", "starting", "open", "closed"}
               /\ browser[b].asked \subseteq 1..MaxCalls
               /\ Len(browser[b].events) <= EventCap
               /\ \A i \in DOMAIN browser[b].wire : browser[b].wire[i] \in Message
    <3>1. Fit(browser[b]) /\ browser[b] \in Process
      BY DEF DebugInv, Healthy
    <3>2. browser[b].socket \in {"none", "starting", "open", "closed"}
      BY <3>1 DEF Process
    <3>3. Len(browser[b].events) <= EventCap
      BY <3>1 DEF Fit
    <3>4. QED
      BY <3>1, <3>2, <3>3, ProcessParts
  <2>2. QED
    BY <2>1 DEF TypeOK, DebugInv, Mapping, Files
<1>2. QED
  BY <1>1, DebugInvHolds, PTL

\* What a page logged reaches the console once and in order, for any cap and any
\* number of events: the buffer and the socket hold one unbroken run of events.
THEOREM ConsoleInOrderHolds == Spec => []ConsoleInOrder
<1>1. DebugInv => ConsoleInOrder
  <2> SUFFICES ASSUME DebugInv, NEW b \in Browser
               PROVE  \E last \in 0..browser[b].emitted : HeardTo(browser[b], last)
    BY DEF ConsoleInOrder, HeardTo
  <2>1. QED
    BY DEF DebugInv, Healthy, Fit
<1>2. QED
  BY <1>1, DebugInvHolds, PTL

\* Every browser that runs is some session's, is being launched or was left by a
\* launch that could not open the socket; and each talks on its own port.
THEOREM BrowsersOwnedHolds == Spec => []BrowsersOwned
<1>1. DebugInv => BrowsersOwned
  <2> SUFFICES ASSUME DebugInv PROVE BrowsersOwned
    OBVIOUS
  <2>1. AttachedToOwn
    BY DEF DebugInv, Healthy, AttachedToOwn
  <2>2. ASSUME up, NEW b \in Browser, browser[b].alive
        PROVE  b \in Mapped(Container) \cup leaked
                       \cup {request[t].b : t \in {x \in Thread : request[x].op = "open" /\ lock = x}}
    <3>1. Kept(b, browser, sessions, leaked, request, lock)
      BY <2>2 DEF DebugInv, Tended
    <3>2. CASE \E c \in Container : sessions[c] = b
      BY <3>2, NoneIsNone DEF Mapped
    <3>3. CASE b \in leaked
      BY <3>3
    <3>4. CASE \E t \in Thread : request[t].op = "open" /\ request[t].b = b /\ lock = t
      BY <3>4
    <3>5. QED
      BY <2>2, <3>1, <3>2, <3>3, <3>4 DEF Kept
  <2>3. NoStrayBrowser
    BY <2>2 DEF NoStrayBrowser, Alive
  <2>4. QED
    BY <2>1, <2>3 DEF BrowsersOwned
<1>2. QED
  BY <1>1, DebugInvHolds, PTL

-----------------------------------------------------------------------------
(* What a step may do. *)

\* A handler moves its own request and no other, and only in a daemon that is up.
LEMMA HandlerOwn ==
  ASSUME NEW t \in Thread, Handler(t)
  PROVE  /\ up' = up
         /\ \E r2 : request' = [request EXCEPT ![t] = r2]
<1>1. ASSUME OpenLock(t) \/ Spawn(t) \/ SpawnFails(t) \/ Attach(t) \/ LaunchFails(t) \/ ConnectFails(t)
      PROVE  up' = up /\ \E r2 : request' = [request EXCEPT ![t] = r2]
  BY <1>1 DEF OpenLock, Spawn, SpawnFails, Attach, LaunchFails, ConnectFails, Done, Goto
<1>2. ASSUME NoSession(t) \/ Enter(t) \/ Send(t) \/ StartRead(t) \/ ReadEvent(t) \/ SkipReply(t)
      PROVE  up' = up /\ \E r2 : request' = [request EXCEPT ![t] = r2]
  BY <1>2 DEF NoSession, Enter, Send, StartRead, ReadEvent, SkipReply, Goto
<1>3. ASSUME NEW o, Outcome(t, o)
      PROVE  up' = up /\ \E r2 : request' = [request EXCEPT ![t] = r2]
  BY <1>3 DEF Outcome, Goto
<1>4. ASSUME SendFails(t) \/ TimesOut(t) \/ ReadClose(t) \/ ReadFails(t)
      PROVE  \E o : Outcome(t, o)
  BY <1>4 DEF SendFails, TimesOut, ReadClose, ReadFails
<1>5. ASSUME TakeReply(t)
      PROVE  \/ \E o : Outcome(t, o)
             \/ up' = up /\ \E r2 : request' = [request EXCEPT ![t] = r2]
  BY <1>5 DEF TakeReply, Goto
<1>6. QED
  BY <1>1, <1>2, <1>3, <1>4, <1>5 DEF Handler

\* While the daemon stays up, a request is moved by its own thread.
LEMMA MovedBySelf ==
  ASSUME DebugInv, [Next]_vars, NEW t \in Thread, request'[t] # request[t], up',
         request[t].at # "idle"
  PROVE  Handler(t)
<1>1. request \in [Thread -> Request]
  BY DEF DebugInv
<1>2. ASSUME NEW x \in Thread, x # t, NEW r2, request' = [request EXCEPT ![x] = r2]
      PROVE  FALSE
  BY <1>1, <1>2
<1>3. ASSUME NEW x \in Thread, Handler(x) PROVE Handler(t)
  BY <1>2, <1>3, HandlerOwn
<1>4. ASSUME NEW x \in Thread, NEW c \in Container, OpenResolve(x, c) PROVE FALSE
  BY <1>2, <1>4 DEF OpenResolve, Goto
<1>5. ASSUME NEW x \in Thread, NEW c \in Container, NEW op \in Ops[x], Ask(x, op, c) PROVE FALSE
  BY <1>2, <1>5 DEF Ask, Goto
<1>6. ASSUME NEW x \in Thread, NEW c \in Container, CloseSession(x, c) PROVE FALSE
  BY <1>6 DEF CloseSession
<1>7. ASSUME World PROVE FALSE
  <2>1. request' = request
    BY <1>7 DEF World, Publishes, Answers, Emits, Closes, Dies, Host
  <2>2. QED
    BY <2>1
<1>8. ASSUME Exit PROVE FALSE
  BY <1>8 DEF Exit
<1>9. ASSUME UNCHANGED vars PROVE FALSE
  BY <1>9 DEF vars
<1>10. QED
  BY <1>3, <1>4, <1>5, <1>6, <1>7, <1>8, <1>9 DEF Next

\* A thread that reads does one of five things.
LEMMA ReadsOnly ==
  ASSUME NEW t \in Thread, Handler(t), request[t].at = "read"
  PROVE  ReadEvent(t) \/ SkipReply(t) \/ TakeReply(t) \/ ReadClose(t) \/ ReadFails(t)
BY DEF Handler, OpenLock, Spawn, SpawnFails, Attach, LaunchFails, ConnectFails, NoSession, Enter,
       Send, SendFails, TimesOut, StartRead

\* A thread that waits to open takes the mutex.
LEMMA OpensOnly ==
  ASSUME NEW t \in Thread, Handler(t), request[t].at = "open"
  PROVE  OpenLock(t)
BY DEF Handler, Spawn, SpawnFails, Attach, LaunchFails, ConnectFails, NoSession, Enter,
       Send, SendFails, TimesOut, StartRead, ReadEvent, SkipReply, TakeReply, ReadClose, ReadFails

\* A step with a request moved changes request[t] itself.
LEMMA GoesToLoop ==
  ASSUME DebugInv, NEW t \in Thread, ReadEvent(t) \/ SkipReply(t)
  PROVE  request'[t].at = "loop"
<1>1. request \in [Thread -> Request] /\ request[t] \in Request
  BY DEF DebugInv
<1>2. request' = [request EXCEPT ![t] = [request[t] EXCEPT !.at = "loop"]]
  BY DEF ReadEvent, SkipReply, Goto
<1>3. QED
  BY <1>1, <1>2 DEF Request

\* The late answer to a command that was given up on is never taken for the
\* answer to the next one, however many are still on the way.
THEOREM OwnAnswerHolds == Spec => OwnAnswer
<1> DEFINE Takes(t) == LET r == request[t] IN
             r.at = "read" /\ browser[r.b].wire # <<>> /\ Head(browser[r.b].wire).kind = "reply"
             /\ request'[t].at # r.at /\ request'[t].at # "loop" /\ up'
           Own(t) == Takes(t) => Head(browser[request[t].b].wire).n = request[t].id
<1>1. ASSUME DebugInv, [Next]_vars, NEW t \in Thread, Takes(t)
      PROVE  Head(browser[request[t].b].wire).n = request[t].id
  <2>1. Handler(t)
    BY <1>1, MovedBySelf
  <2>2. ReadEvent(t) \/ SkipReply(t) \/ TakeReply(t) \/ ReadClose(t) \/ ReadFails(t)
    BY <1>1, <2>1, ReadsOnly
  <2>3. ~ReadEvent(t) /\ ~SkipReply(t)
    BY <1>1, GoesToLoop
  <2>4. ~ReadClose(t) /\ ~ReadFails(t)
    BY <1>1 DEF ReadClose, ReadFails
  <2>5. TakeReply(t)
    BY <2>2, <2>3, <2>4
  <2>6. QED
    BY <2>5 DEF TakeReply, Mine
<1>2. DebugInv /\ [Next]_vars => [\A t \in Thread : Own(t)]_vars
  BY <1>1
<1>3. Spec => [][\A t \in Thread : Own(t)]_vars
  BY <1>2, DebugInvHolds, PTL DEF Spec
<1>4. QED
  BY <1>3 DEF OwnAnswer

-----------------------------------------------------------------------------
(* When a session ends. *)

\* Opening any container closes the sessions of the containers that stopped.
LEMMA Sweeps ==
  ASSUME DebugInv, [Next]_vars, NEW t \in Thread,
         request[t].at = "open", request'[t].at = "launch",
         NEW c \in Container \ running
  PROVE  sessions'[c] = None
<1>1. up'
  <2>1. CASE Exit
    BY <2>1 DEF Exit, Idle
  <2>2. ASSUME NEW x \in Thread, Handler(x) PROVE up'
    <3>1. up
      BY <2>2 DEF Handler, OpenLock, Spawn, SpawnFails, Attach, LaunchFails, ConnectFails, NoSession,
                  Enter, Send, SendFails, TimesOut, StartRead, ReadEvent, SkipReply, TakeReply,
                  ReadClose, ReadFails
    <3>2. QED
      BY <2>2, <3>1, HandlerOwn
  <2>3. ASSUME NEW x \in Thread, NEW d \in Container,
               OpenResolve(x, d) \/ CloseSession(x, d) \/ \E op \in Ops[x] : Ask(x, op, d)
        PROVE  up'
    <3>1. CASE OpenResolve(x, d)
      BY <3>1 DEF OpenResolve
    <3>2. CASE CloseSession(x, d)
      BY <3>2 DEF CloseSession
    <3>3. CASE \E op \in Ops[x] : Ask(x, op, d)
      BY <3>3 DEF Ask
    <3>4. QED
      BY <2>3, <3>1, <3>2, <3>3
  <2>4. ~World /\ ~UNCHANGED vars
    <3>1. World => request' = request
      BY DEF World, Publishes, Answers, Emits, Closes, Dies, Host
    <3>2. UNCHANGED vars => request' = request
      BY DEF vars
    <3>3. QED
      BY <3>1, <3>2
  <2>5. QED
    BY <2>1, <2>2, <2>3, <2>4 DEF Next
<1>2. OpenLock(t)
  BY <1>1, MovedBySelf, OpensOnly
<1>3. c \in Swept(request[t].on)
  BY DEF Swept
<1>4. QED
  BY <1>2, <1>3 DEF OpenLock

\* A handler of a request that has a browser ends no session that it does not
\* find dead.
LEMMA OutcomeKeeps ==
  ASSUME DebugInv, NEW t \in Thread, request[t].at \in {"send", "loop", "read"},
         NEW o, Outcome(t, o), o = "lost" => ~browser[request[t].b].alive,
         NEW c \in Container, sessions[c] # None, sessions'[c] # sessions[c]
  PROVE  ~browser[sessions[c]].alive
<1>1. c = request[t].on
  BY OutcomeMeans
<1>2. ClaimsIn(request[t], sessions, browser, portFile)
  BY Holds
<1>3. request[t].op # "open" /\ sessions[c] = request[t].b
  BY <1>1, <1>2 DEF ClaimsIn, Working, Driving
<1>4. Drops(t, o)
  BY <1>1, <1>3, OutcomeMeans
<1>5. o = "lost"
  BY <1>3, <1>4 DEF Drops, Dead
<1>6. QED
  BY <1>3, <1>5

LEMMA Keeps ==
  ASSUME DebugInv, [Next]_vars, NEW c \in Container, sessions[c] # None, sessions'[c] # sessions[c]
  PROVE  \/ request' = request
         \/ \E t \in Thread : request[t].at = "open" /\ request'[t].at = "launch"
                               /\ (c = request[t].on \/ c \notin running)
         \/ ~browser[sessions[c]].alive
         \/ ~up'
<1>1. ASSUME NEW t \in Thread, OpenLock(t)
      PROVE  request[t].at = "open" /\ request'[t].at = "launch"
             /\ (c = request[t].on \/ c \notin running)
  <2>1. request \in [Thread -> Request] /\ request[t] \in Request
    BY DEF DebugInv
  <2>2. request' = [request EXCEPT ![t] = [request[t] EXCEPT !.at = "launch"]] /\ request[t].at = "open"
    BY <1>1 DEF OpenLock, Goto
  <2>3. request'[t].at = "launch"
    BY <2>1, <2>2 DEF Request
  <2>4. c \in Swept(request[t].on)
    BY <1>1 DEF OpenLock
  <2>5. QED
    BY <2>2, <2>3, <2>4 DEF Swept
<1>2. ASSUME NEW t \in Thread,
             \/ Spawn(t) \/ SpawnFails(t) \/ Attach(t) \/ LaunchFails(t) \/ ConnectFails(t)
             \/ NoSession(t) \/ Enter(t) \/ Send(t) \/ StartRead(t) \/ ReadEvent(t) \/ SkipReply(t)
      PROVE  FALSE
  <2>1. sessions' = sessions
    BY <1>2 DEF Spawn, SpawnFails, Attach, LaunchFails, ConnectFails, NoSession, Enter, Send,
                StartRead, ReadEvent, SkipReply
  <2>2. QED
    BY <2>1
<1>3. ASSUME NEW t \in Thread, SendFails(t) \/ TimesOut(t) \/ ReadClose(t) \/ ReadFails(t) \/ TakeReply(t)
      PROVE  ~browser[sessions[c]].alive
  <2>1. request[t].at \in {"send", "loop", "read"}
    BY <1>3 DEF SendFails, TimesOut, ReadClose, ReadFails, TakeReply
  <2>2. \/ sessions' = sessions
        \/ \E o : Outcome(t, o) /\ (o = "lost" => ~browser[request[t].b].alive)
    <3>1. CASE SendFails(t)
      BY <3>1 DEF SendFails
    <3>2. CASE TimesOut(t)
      BY <3>2 DEF TimesOut
    <3>3. CASE ReadClose(t)
      BY <3>3 DEF ReadClose
    <3>4. CASE ReadFails(t)
      BY <3>4 DEF ReadFails
    <3>5. CASE TakeReply(t)
      <4>1. UNCHANGED <<sessions, lock, portFile, running, leaked, up>> \/ Outcome(t, "ok") \/ Outcome(t, "page")
        BY <3>5 DEF TakeReply
      <4>2. "ok" # "lost" /\ "page" # "lost"
        OBVIOUS
      <4>3. QED
        BY <4>1, <4>2
    <3>6. QED
      BY <1>3, <3>1, <3>2, <3>3, <3>4, <3>5
  <2>3. QED
    BY <2>1, <2>2, OutcomeKeeps
<1>4. ASSUME NEW t \in Thread, NEW d \in Container,
             OpenResolve(t, d) \/ \E op \in Ops[t] : Ask(t, op, d)
      PROVE  FALSE
  BY <1>4 DEF OpenResolve, Ask
<1>5. ASSUME NEW t \in Thread, NEW d \in Container, CloseSession(t, d) PROVE request' = request
  BY <1>5 DEF CloseSession
<1>6. ~World
  <2>1. World => sessions' = sessions
    BY DEF World, Publishes, Answers, Emits, Closes, Dies, Host
  <2>2. QED
    BY <2>1
<1>7. Exit => ~up'
  BY DEF Exit
<1>8. ~UNCHANGED vars
  BY DEF vars
<1>9. ASSUME NEW t \in Thread, Handler(t)
      PROVE  \/ \E x \in Thread : request[x].at = "open" /\ request'[x].at = "launch"
                                  /\ (c = request[x].on \/ c \notin running)
             \/ ~browser[sessions[c]].alive
  BY <1>1, <1>2, <1>3, <1>9 DEF Handler
<1>10. QED
  BY <1>4, <1>5, <1>6, <1>7, <1>8, <1>9 DEF Next

\* The request that finds its browser gone takes the session with it.
LEMMA Loses ==
  ASSUME DebugInv, [Next]_vars, NEW t \in Thread, request[t].at = "read",
         ~browser[request[t].b].alive, browser[request[t].b].wire = <<>>,
         request'[t] = Idle, up'
  PROVE  sessions'[request[t].on] # request[t].b
<1>1. Handler(t)
  BY MovedBySelf, IdleMeans
<1>2. ReadFails(t)
  BY <1>1, ReadsOnly DEF ReadEvent, SkipReply, TakeReply, ReadClose
<1>3. Outcome(t, "lost") /\ Drops(t, "lost")
  BY <1>2 DEF ReadFails, Drops, Dead
<1>4. request[t].b \in Browser
  BY Drives
<1>5. QED
  BY <1>3, <1>4, OutcomeMeans, NoneIsNone

\* A session ends when it should and only then: with its container when another
\* is opened, with its browser when a request finds that gone, by a close or an
\* open; never because the page threw or was slow.
THEOREM SessionKeptHolds == Spec => SessionKept
<1> DEFINE Sweep == \A t \in Thread : request[t].at = "open" /\ request'[t].at = "launch"
                      => \A c \in Container \ running : sessions'[c] = None
           Keep == \A c \in Container : sessions[c] # None /\ sessions'[c] # sessions[c] =>
                     \/ request' = request
                     \/ \E t \in Thread : request[t].at = "open" /\ request'[t].at = "launch"
                                           /\ (c = request[t].on \/ c \notin running)
                     \/ ~browser[sessions[c]].alive
                     \/ ~up'
           Lose == \A t \in Thread : LET r == request[t] IN
                     (/\ r.at = "read" /\ ~browser[r.b].alive /\ browser[r.b].wire = <<>>
                      /\ request'[t] = Idle /\ up')
                     => sessions'[r.on] # r.b
<1>1. DebugInv /\ [Next]_vars => [Sweep]_vars
  BY Sweeps
<1>2. DebugInv /\ [Next]_vars => [Keep]_vars
  BY Keeps
<1>3. DebugInv /\ [Next]_vars => [Lose]_vars
  BY Loses
<1>4. Spec => [][Sweep]_vars /\ [][Keep]_vars /\ [][Lose]_vars
  BY <1>1, <1>2, <1>3, DebugInvHolds, PTL DEF Spec
<1>5. QED
  BY <1>4 DEF SessionKept, OpenSweeps, KeptOnPageError, LostIsDropped
=============================================================================
