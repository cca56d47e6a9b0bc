---------------------------- MODULE StoreOpening ----------------------------
(***************************************************************************)
(* How the store is opened: open_document_store_for_paths and the import   *)
(* of the file that was the queue before the database (box-store), the     *)
(* store of JSON files (box-foundation), and what the daemon and the       *)
(* desktop do when the database cannot be opened.  The two processes share *)
(* the directory; every call on a resource opens the store again.          *)
(***************************************************************************)
EXTENDS Naturals, FiniteSets

CONSTANTS
  Legacy,      \* tasks of the old queue
  Fresh,       \* tasks that may be enqueued
  MaxStarts,   \* opens of the store
  MaxFaults    \* opens that fail, and processes that die

VARIABLES
  tasksFile,   \* state/tasks.json: its form, and the tasks in it
  archive,     \* tasks.json.pre-sqlite
  database,    \* the tasks in dshbox.db
  opener,      \* who opens the store: the daemon and the desktop at their starts, and
               \* a call: the node registry when the daemon starts, then any resource
  backend,     \* where each process keeps its tasks
  inMemory,    \* the tasks each process knows
  filling,     \* a JSON file that is being written: where, with what, and for which task
  nodesIn,     \* where the daemon keeps its nodes
  starts, faults,
  accepted,    \* history: the tasks whose enqueue succeeded, and where they went
  deleted,     \* history: the tasks that were deleted
  fellBack,    \* history: a process did not get the database
  entwined     \* history: an import ran beside another one, or beside a write of the file
openingVars == <<tasksFile, archive, database, opener, backend, inMemory, filling, nodesIn,
                 starts, faults, accepted, deleted, fellBack, entwined>>

Process == {"daemon", "desktop"}
Opener == Process \cup {"call"}
Row == Legacy \cup Fresh
NoFile == [form |-> "absent", tasks |-> {}]
Torn == [form |-> "torn", tasks |-> {}]
Holding(form, tasks) == [form |-> form, tasks |-> tasks]
Idle == [at |-> "idle", saw |-> {}]
Written == [into |-> "nowhere", tasks |-> {}, task |-> {}]

OpeningInit ==
  /\ tasksFile \in {NoFile, Torn, Holding("array", Legacy), Holding("array", {}), Holding("object", Legacy)}
  /\ archive = NoFile /\ database = {} /\ filling = Written /\ nodesIn = "none"
  /\ opener = [o \in Opener |-> Idle]
  /\ backend = [p \in Process |-> "none"] /\ inMemory = [p \in Process |-> {}]
  /\ starts = 0 /\ faults = 0 /\ accepted = {} /\ deleted = {} /\ fellBack = FALSE /\ entwined = FALSE

Entered == {a[1] : a \in accepted}
At(o, steps) == opener[o].at \in steps
Importing == {o \in Opener : ~At(o, {"idle"})}
Steps(o, step) == opener' = [opener EXCEPT ![o].at = step]
Backends == <<backend, inMemory, nodesIn, fellBack>>
Stored == <<tasksFile, archive, database, filling>>
Past == <<starts, faults, accepted, deleted, entwined>>
-----------------------------------------------------------------------------
(* The JSON store *)

\* load_scope and put_documents accept no other form than an object.
Usable == tasksFile.form \in {"absent", "object"}
load_scope == IF tasksFile.form = "object" THEN tasksFile.tasks ELSE {}
\* write_file empties the file and then fills it; the descriptor follows the file
\* when it is renamed.
Truncates(tasks, task) ==
  /\ tasksFile' = Torn /\ filling' = [into |-> "file", tasks |-> tasks, task |-> task]
  /\ entwined' = (entwined \/ Importing # {})
Fills ==
  /\ filling.into # "nowhere"
  /\ tasksFile' = IF filling.into = "file" THEN Holding("object", filling.tasks) ELSE tasksFile
  /\ archive' = IF filling.into = "archive" THEN Holding("object", filling.tasks) ELSE archive
  /\ accepted' = accepted \cup {<<t, "json">> : t \in filling.task} /\ filling' = Written
  /\ UNCHANGED <<database, opener, starts, faults, deleted, entwined>> /\ UNCHANGED Backends
-----------------------------------------------------------------------------
(* open_document_store_for_paths *)

\* What follows an open.  The daemon falls back to the JSON store, which loads
\* nothing when the file is no object; the desktop to its memory.
Opened(o) ==
  /\ opener' = [opener EXCEPT ![o] = Idle]
  /\ IF o = "call" THEN UNCHANGED <<backend, inMemory, fellBack>> /\ nodesIn' = IF nodesIn = "none" THEN "sqlite" ELSE nodesIn
     ELSE /\ backend' = [backend EXCEPT ![o] = "sqlite"] /\ inMemory' = [inMemory EXCEPT ![o] = database]
          /\ UNCHANGED <<nodesIn, fellBack>>
FallBack(o) ==
  /\ opener' = [opener EXCEPT ![o] = Idle]
  /\ IF o = "call" THEN UNCHANGED <<backend, inMemory, fellBack>> /\ nodesIn' = IF nodesIn = "none" THEN "memory" ELSE nodesIn
     ELSE /\ backend' = [backend EXCEPT ![o] = IF o = "daemon" THEN "json" ELSE "memory"]
          /\ inMemory' = [inMemory EXCEPT ![o] = IF o = "daemon" THEN load_scope ELSE {}]
          /\ fellBack' = TRUE /\ UNCHANGED nodesIn
\* restore writes what it loaded.
Restored(o) ==
  IF o = "daemon" /\ load_scope # {} THEN Truncates(load_scope, {}) /\ UNCHANGED <<archive, database>>
  ELSE UNCHANGED Stored /\ UNCHANGED entwined
Refused(o) == FallBack(o) /\ Restored(o)

Opens(o) ==
  /\ At(o, {"idle"}) /\ starts < MaxStarts /\ starts' = starts + 1
  /\ IF o = "call" THEN backend["daemon"] # "none" ELSE backend[o] = "none"
  /\ Steps(o, "exists") /\ entwined' = (entwined \/ Importing # {} \/ filling # Written)
  /\ UNCHANGED <<faults, accepted, deleted>> /\ UNCHANGED Stored /\ UNCHANGED Backends
\* The database, or its lock, is not to be had.
Fails(o) ==
  /\ At(o, {"exists", "load", "put"}) /\ faults < MaxFaults /\ faults' = faults + 1
  /\ Refused(o) /\ UNCHANGED <<starts, accepted, deleted>>
Exists(o) ==
  /\ At(o, {"exists"})
  /\ IF tasksFile = NoFile THEN Opened(o) ELSE Steps(o, "read") /\ UNCHANGED Backends
  /\ UNCHANGED Stored /\ UNCHANGED Past
\* seeded fault: a file that does not parse holds no documents.
read_legacy_documents_lenient(o) ==
  /\ At(o, {"read"}) /\ opener' = [opener EXCEPT ![o] = [at |-> "load", saw |-> tasksFile.tasks]]
  /\ UNCHANGED Stored /\ UNCHANGED Backends /\ UNCHANGED Past
read_legacy_documents(o) ==
  /\ At(o, {"read"})
  /\ IF tasksFile.form \in {"absent", "torn"} THEN Refused(o) /\ UNCHANGED <<starts, faults, accepted, deleted>>
     ELSE /\ opener' = [opener EXCEPT ![o] = [at |-> "load", saw |-> tasksFile.tasks]]
          /\ UNCHANGED Stored /\ UNCHANGED Backends /\ UNCHANGED Past
\* A database that has tasks supersedes the file.
Compares(o) ==
  /\ At(o, {"load"}) /\ Steps(o, IF database = {} /\ opener[o].saw # {} THEN "put" ELSE "rename")
  /\ UNCHANGED Stored /\ UNCHANGED Backends /\ UNCHANGED Past
Puts(o) ==
  /\ At(o, {"put"}) /\ database' = database \cup opener[o].saw /\ Steps(o, "rename")
  /\ UNCHANGED <<tasksFile, archive, filling>> /\ UNCHANGED Backends /\ UNCHANGED Past
Archives(o) ==
  /\ At(o, {"rename"})
  /\ IF tasksFile = NoFile THEN Refused(o) /\ UNCHANGED <<starts, faults, accepted, deleted>>
     ELSE /\ archive' = tasksFile /\ tasksFile' = NoFile
          /\ filling' = [filling EXCEPT !.into = CASE @ = "file" -> "archive" [] @ = "archive" -> "lost" [] OTHER -> @]
          /\ Opened(o) /\ UNCHANGED database /\ UNCHANGED Past
-----------------------------------------------------------------------------
(* The queue over the store it got *)

\* The record is in the map before it is persisted, and stays when that fails.
Enqueue(p, t) ==
  /\ backend[p] # "none" /\ t \in Fresh /\ \A q \in Process : t \notin inMemory[q]
  /\ t \notin Entered /\ t \notin deleted \cup filling.task
  /\ inMemory' = [inMemory EXCEPT ![p] = @ \cup {t}]
  /\ CASE backend[p] = "sqlite" ->
            database' = database \cup inMemory[p] \cup {t} /\ accepted' = accepted \cup {<<t, "sqlite">>} /\
            UNCHANGED <<tasksFile, archive, filling, entwined>>
       [] backend[p] = "memory" ->
            accepted' = accepted \cup {<<t, "memory">>} /\ UNCHANGED Stored /\ UNCHANGED entwined
       [] backend[p] = "json" /\ Usable ->
            filling = Written /\ Truncates(load_scope \cup inMemory[p] \cup {t}, {t}) /\
            UNCHANGED <<archive, database, accepted>>
       [] OTHER -> UNCHANGED Stored /\ UNCHANGED <<entwined, accepted>>
  /\ UNCHANGED <<opener, backend, nodesIn, starts, faults, deleted, fellBack>>
Remove(p, t) ==
  /\ backend[p] # "none" /\ t \in inMemory[p] /\ filling = Written
  /\ inMemory' = [inMemory EXCEPT ![p] = @ \ {t}] /\ deleted' = deleted \cup {t}
  /\ IF backend[p] = "sqlite" THEN database' = database \ {t} /\ UNCHANGED <<tasksFile, archive, filling, entwined>>
     ELSE IF backend[p] = "json" /\ t \in load_scope
     THEN Truncates(load_scope \ {t}, {}) /\ UNCHANGED <<archive, database>>
     ELSE UNCHANGED Stored /\ UNCHANGED entwined
  /\ UNCHANGED <<opener, backend, nodesIn, starts, faults, accepted, fellBack>>
\* A process ends, with what it was writing.
Dies(p) ==
  /\ faults < MaxFaults /\ faults' = faults + 1 /\ (backend[p] # "none" \/ ~At(p, {"idle"}))
  /\ backend' = [backend EXCEPT ![p] = "none"] /\ inMemory' = [inMemory EXCEPT ![p] = {}]
  /\ opener' = [o \in Opener |-> IF o = p \/ (p = "daemon" /\ o = "call") THEN Idle ELSE opener[o]]
  /\ filling' = IF p = "daemon" THEN Written ELSE filling
  /\ nodesIn' = IF p = "daemon" THEN "none" ELSE nodesIn
  /\ UNCHANGED <<tasksFile, archive, database, starts, accepted, deleted, fellBack, entwined>>

OpeningNext ==
  \/ \E o \in Opener : \/ Opens(o) \/ Fails(o) \/ Exists(o) \/ read_legacy_documents(o)
                       \/ Compares(o) \/ Puts(o) \/ Archives(o)
  \/ Fills
  \/ \E p \in Process, t \in Row : Enqueue(p, t) \/ Remove(p, t)
  \/ \E p \in Process : Dies(p)
-----------------------------------------------------------------------------
(* What must hold *)

\* The rows of the old queue are in the database before the file is put aside, also
\* when a process dies between the two or another one imports as well: otherwise
\* nothing would ever read them again (import_legacy_scopes).
ImportedFirst == ~fellBack => archive.tasks \subseteq database \cup deleted
\* A task that was accepted into the database stays there until it is deleted,
\* whatever another process has fallen back to and imports later.
DatabaseKeeps == \A t \in Row : <<t, "sqlite">> \in accepted => t \in database \cup deleted
\* A file that does not parse is left in place (the comment of import_legacy_scopes).
TornStays == ~entwined => archive.form # "torn"
\* Both processes end up with the database unless it cannot be opened, the file
\* does not parse, or both import it at once.
Converges ==
  (~entwined /\ faults = 0 /\ tasksFile.form # "torn") => /\ \A p \in Process : backend[p] \in {"none", "sqlite"}
                                                       /\ nodesIn \in {"none", "sqlite"}
OpeningSound == ImportedFirst /\ DatabaseKeeps /\ TornStays /\ Converges

(* What the comments say and the code does not do *)

\* Daemon and desktop converge on the database (import.rs:47); here, whenever it
\* can be opened and the file parses.
ConvergesAtOnce ==
  (faults = 0 /\ tasksFile.form # "torn" /\ filling = Written) => \A p \in Process : backend[p] \in {"none", "sqlite"}
\* The JSON store is the fallback where the old file is usable, memory where it is
\* not (state.rs:215).
FallbackUsable == (backend["daemon"] = "json" /\ filling = Written) => Usable
\* A task that was accepted is kept, in a file that will be read again.
FallbackKeeps ==
  \A t \in Row : <<t, "json">> \in accepted => t \in database \cup tasksFile.tasks \cup deleted \cup filling.tasks
=============================================================================
