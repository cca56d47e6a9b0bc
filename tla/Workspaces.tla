----------------------------- MODULE Workspaces -----------------------------
(***************************************************************************)
(* The workspace registry of one container (dshboxd/src/workspaces.rs): a  *)
(* document that the host of the container rewrites whole while it runs,   *)
(* and Box while it does not.  A connection looks for a host and writes,   *)
(* without the key of the container; a task holds the key, stops the host, *)
(* writes and starts it again.                                             *)
(***************************************************************************)
EXTENDS Naturals, Sequences, Functions

CONSTANTS
  Folder,  \* the directories that are registered
  Adder,   \* connections and task workers that register one
  MaxAdds  \* how many registrations are begun

VARIABLES
  doc,     \* the file: its form, its rows, the ids in display order
  host,    \* the process of the container, and the document it has read
  adders,  \* where each registration is
  adds,    \* registrations begun
  answered,\* rows promised by a registration that met nobody
  colds    \* whether every write of a task found the host stopped
workspaceVars == <<doc, host, adders, adds, answered, colds>>

Row == 1 .. MaxAdds + 2
NoRow == [f \in {} |-> f]
empty_registry == [form |-> "good", table |-> NoRow, order |-> <<>>]
Down == [up |-> "none", has |-> empty_registry]
AtRest == [at |-> "none", task |-> FALSE]

\* No file yet; one that is not text; one without a table of workspaces; and one
\* of the host, whose order has lost a row.
WorkspacesInit ==
  /\ doc \in [form : {"absent", "garbled", "odd"}, table : {NoRow}, order : {<<>>}]
            \cup [form : {"good"}, table : [{1} -> Folder], order : {<<>>, <<2>>}]
  /\ host = Down /\ adders = [a \in Adder |-> AtRest]
  /\ adds = 0 /\ answered = {} /\ colds = TRUE

\* What cannot be read at all counts as empty; what is not the document does not.
read_registry(d) ==
  CASE d.form \in {"absent", "garbled"} -> empty_registry
    [] d.form = "good" -> d
    [] d.form = "odd" -> [d EXCEPT !.form = "null"]

\* seeded fault: the rows the order names, and no others.
OrphansNone(d) == {}
Orphans(d) == DOMAIN d.table \ Range(d.order)
\* The places at which a row is shown: where the order has it, and the rows that
\* the order has lost after its end.
list_workspaces(d) ==
  [i \in DOMAIN d.table |->
     {k \in DOMAIN d.order : d.order[k] = i} \cup {Len(d.order) + 1 : o \in Orphans(d) \cap {i}}]

At(a, step) == adders[a].at = step
Goes(a, step) == adders' = [adders EXCEPT ![a].at = step]
\* What is left of a registration that is done: the start, for a task.
Left(a) == IF adders[a].task THEN [adders[a] EXCEPT !.at = "start", !.base = empty_registry] ELSE AtRest
Writing(a) == adders[a].at \in {"read", "write", "torn"}
\* Another writer of the document is under way.
Meets(a) == host.up # "none" \/ \E b \in Adder \ {a} : Writing(b)
Noticed == [b \in Adder |-> IF adders[b].at \in {"none", "start"} THEN adders[b]
                            ELSE [adders[b] EXCEPT !.met = TRUE]]
KeyFree == \A a \in Adder : ~adders[a].task
-----------------------------------------------------------------------------
(* Registering a directory *)

Begins(a, f, task, at) ==
  /\ At(a, "none") /\ adds < MaxAdds /\ adds' = adds + 1
  /\ adders' = [adders EXCEPT ![a] = [at |-> at, folder |-> f, task |-> task, met |-> FALSE, base |-> empty_registry]]
  /\ UNCHANGED <<doc, host, answered, colds>>

\* Without restart: refused when the host can be opened; one that is still
\* starting has no address yet and does not count.
Asks(a) == host.up # "ready" /\ \E f \in Folder : Begins(a, f, FALSE, "read")
AsksRestart(a) == KeyFree /\ \E f \in Folder : Begins(a, f, TRUE, "stop")
\* The task stops the host, or fails.
StopsHost(a) ==
  /\ At(a, "stop") /\ host' = Down /\ Goes(a, "read")
  /\ UNCHANGED <<doc, adds, answered, colds>>
StopFails(a) ==
  /\ At(a, "stop") /\ host.up # "none" /\ adders' = [adders EXCEPT ![a] = AtRest]
  /\ UNCHANGED <<doc, host, adds, answered, colds>>

\* seeded fault: the row of the directory is not looked for.
KnownNever(d, f) == FALSE
Registered(d, f) == \E i \in DOMAIN d.table : d.table[i] = f
\* A random id: any that the document has nowhere.
new_workspace_id(d) == Row \ (DOMAIN d.table \cup Range(d.order))

add_workspace(d, f, i) ==
  [form |-> "good", table |-> [j \in DOMAIN d.table \cup {i} |-> IF j = i THEN f ELSE d.table[j]],
   order |-> Append(d.order, i)]
\* A directory that has a row keeps it, and nothing is written.
Reads(a) ==
  LET d == read_registry(doc)
  IN /\ At(a, "read")
     /\ adders' = [adders EXCEPT ![a] = IF d.form = "null" THEN AtRest
                                        ELSE IF Registered(d, adders[a].folder) THEN Left(a)
                                        ELSE [@ EXCEPT !.at = "write", !.met = Meets(a), !.base = d]]
     /\ UNCHANGED <<doc, host, adds, answered, colds>>
\* The file is emptied first and filled after.
Empties(a) ==
  /\ At(a, "write") /\ doc' = [form |-> "odd", table |-> NoRow, order |-> <<>>]
  /\ adders' = [Noticed EXCEPT ![a] = [adders[a] EXCEPT !.at = "torn", !.met = @ \/ Meets(a)]]
  /\ colds' = (colds /\ (adders[a].task => host.up = "none"))
  /\ UNCHANGED <<host, adds, answered>>
write_registry(a) ==
  LET met == adders[a].met \/ Meets(a)
  IN /\ At(a, "torn")
     /\ \E i \in new_workspace_id(adders[a].base) : doc' = add_workspace(adders[a].base, adders[a].folder, i)
     /\ adders' = [Noticed EXCEPT ![a] = Left(a)]
     /\ answered' = IF met THEN {} ELSE answered \cup {adders[a].folder}
     /\ UNCHANGED <<host, adds, colds>>

\* The task starts the host, unless it has been cancelled.
StartsHost(a) ==
  /\ At(a, "start") /\ adders' = [adders EXCEPT ![a] = AtRest]
  /\ \/ host.up = "none" /\ host' = [Down EXCEPT !.up = "starting"]
     \/ UNCHANGED host
  /\ UNCHANGED <<doc, adds, answered, colds>>
-----------------------------------------------------------------------------
(* The host of the container (external), its start and its stop *)

Start ==
  /\ host.up = "none" /\ KeyFree /\ host' = [Down EXCEPT !.up = "starting"]
  /\ UNCHANGED <<doc, adders, adds, answered, colds>>
Opens ==
  /\ host.up = "starting" /\ doc.form # "odd"
  /\ host' = [up |-> "ready", has |-> read_registry(doc)]
  /\ adders' = Noticed
  /\ UNCHANGED <<doc, adds, answered, colds>>
\* It replaces the file by what it has in memory.
HostWrites ==
  /\ host.up = "ready" /\ doc' = host.has
  /\ adders' = Noticed
  /\ answered' = IF doc = host.has THEN answered ELSE {}
  /\ UNCHANGED <<host, adds, colds>>
\* A connection may stop it at any time, without the key.
Stop ==
  /\ host.up # "none" /\ host' = Down
  /\ UNCHANGED <<doc, adders, adds, answered, colds>>

WorkspacesNext ==
  \/ \E a \in Adder :
       \/ Asks(a) \/ AsksRestart(a) \/ StopsHost(a) \/ StopFails(a)
       \/ Reads(a) \/ Empties(a) \/ write_registry(a) \/ StartsHost(a)
  \/ Start \/ Opens \/ HostWrites \/ Stop
WorkspacesSpec == WorkspacesInit /\ [][WorkspacesNext]_workspaceVars
-----------------------------------------------------------------------------
\* No directory has two rows, and every row is shown exactly once, whoever wrote
\* last.
RowsUnique ==
  /\ \A i, j \in DOMAIN doc.table : doc.table[i] = doc.table[j] => i = j
  /\ \A i \in DOMAIN doc.table : \E k \in 1 .. Len(doc.order) + 1 : list_workspaces(doc)[i] = {k}
\* A registration that met no host and no other registration stays, until
\* somebody writes what was read before it.
AnsweredStays == doc.form = "good" => \A f \in answered : Registered(doc, f)
\* The task writes with the host stopped.
WritesCold == colds
WorkspacesSound == RowsUnique /\ AnsweredStays /\ WritesCold

\* What was answered stays whatever else happens.  It fails: see the README.
NothingLost == [][answered \subseteq answered']_workspaceVars
\* A document that cannot be read is never replaced.  It fails: see the README.
NeverReplaced == [][doc.form = "garbled" => doc'.form = "garbled"]_workspaceVars
=============================================================================
