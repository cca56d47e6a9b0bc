------------------------------ MODULE Settings ------------------------------
(***************************************************************************)
(* The settings of this machine: one JSON file that the daemon and the     *)
(* desktop both read whole, change and write whole, with no lock.  A new   *)
(* storage directory is adopted by the daemon and gets the bundled plugins *)
(* vendored into it; the desktop vendors them too when it starts.          *)
(***************************************************************************)
EXTENDS Naturals, FiniteSets

CONSTANTS
  Saver,    \* connections of the daemon and commands of the desktop
  Storage,  \* directories the user may choose
  NotSet,   \* a setting without a value
  MaxSaves  \* how many calls are made

VARIABLES
  config,   \* the file: whole or emptied, and its settings
  works,    \* the call of each saver
  saves,    \* calls made
  adopted,  \* the storage directory the daemon works in
  trees,    \* the vendored plugins of each directory
  promised, \* what the last undisturbed save of each setting wrote
  mixed,    \* a save was written over what it had not read
  spoilt    \* directories where a pass ended half way, or two overlapped
settingVars == <<config, works, saves, adopted, trees, promised, mixed, spoilt>>

\* The settings told apart: a plain one, the selected version (which removing it
\* clears), the storage directory and the digest of the vendored plugins.
Field == {"plain", "selected", "storage", "digest"}
Unsaid == [f \in Field |-> NotSet]
NoTree == [modules |-> "none", manifest |-> FALSE]
AtRest == [op |-> "none"]

SettingsInit ==
  /\ \E d \in Storage \cup {NotSet}, g \in {NotSet, "old", "new"} :
       /\ config = [whole |-> TRUE, said |-> [Unsaid EXCEPT !["storage"] = d, !["digest"] = g]]
       /\ adopted = d
       /\ trees = [s \in Storage |-> IF s = d /\ g # NotSet THEN [modules |-> g, manifest |-> TRUE] ELSE NoTree]
  /\ works = [w \in Saver |-> AtRest] /\ saves = 0
  /\ promised = Unsaid /\ mixed = FALSE /\ spoilt = {}

At(w, op, step) == works[w].op = op /\ works[w].step = step
Goes(w, step) == works' = [works EXCEPT ![w].step = step]
Ends(w) == works' = [works EXCEPT ![w] = AtRest]
Vendoring(w, s) == works[w].op = "vendor" /\ works[w].step # "look" /\ works[w].base["storage"] = s

Stands(w, op, f, v, step) ==
  works' = [works EXCEPT ![w] = [op |-> op, step |-> step, field |-> f, value |-> v, base |-> Unsaid, clean |-> TRUE]]
-----------------------------------------------------------------------------
(* Saving one setting *)

\* A value of its own for each call.
Saves(w, f, v) ==
  /\ works[w] = AtRest /\ saves < MaxSaves /\ saves' = saves + 1
  /\ Stands(w, "save", f, v, "read")
  /\ UNCHANGED <<config, adopted, trees, promised, mixed, spoilt>>
SavesPlain(w) == Saves(w, "plain", saves + 1)
Selects(w) == Saves(w, "selected", "v")
Unselects(w) == Saves(w, "selected", NotSet)
SavesStorage(w) == \E s \in Storage : Saves(w, "storage", s)

\* A file that is being written does not parse: the call fails.  Removing a
\* version writes nothing unless that version is the selected one.
read_config(w) ==
  /\ At(w, "save", "read")
  /\ IF ~config.whole \/ (works[w].field = "selected" /\ works[w].value = NotSet /\ config.said["selected"] = NotSet)
     THEN Ends(w)
     ELSE works' = [works EXCEPT ![w].step = "write", ![w].base = config.said, ![w].clean = TRUE]
  /\ UNCHANGED <<config, saves, adopted, trees, promised, mixed, spoilt>>

\* The file is emptied, then filled with what was read and the one change.
Empties(w) ==
  /\ works[w].op \in {"save", "vendor"} /\ works[w].step = "write"
  /\ Goes(w, "fill") /\ config' = [config EXCEPT !.whole = FALSE]
  /\ UNCHANGED <<saves, adopted, trees, promised, mixed, spoilt>>
\* seeded fault: the file is filled with the change and nothing else.
FilledAlone(w) == [Unsaid EXCEPT ![works[w].field] = works[w].value]
Filled(w) == [works[w].base EXCEPT ![works[w].field] = works[w].value]
write_config(w) ==
  /\ works[w].op \in {"save", "vendor"} /\ works[w].step = "fill"
  /\ config' = [whole |-> TRUE, said |-> Filled(w)]
  /\ works' = [x \in Saver |->
                 IF x = w THEN IF works[w].field = "storage" THEN [works[w] EXCEPT !.step = "adopt"] ELSE AtRest
                 ELSE IF works[x] # AtRest THEN [works[x] EXCEPT !.clean = FALSE] ELSE AtRest]
  /\ promised' = IF works[w].clean THEN [promised EXCEPT ![works[w].field] = works[w].value] ELSE Unsaid
  /\ mixed' = (mixed \/ ~works[w].clean)
  /\ UNCHANGED <<saves, adopted, trees, spoilt>>
\* The daemon works in the new directory from now on, and vendors into it.
adopt_config(w) ==
  /\ At(w, "save", "adopt") /\ adopted' = works[w].value
  /\ mixed' = (mixed \/ \E x \in Saver \ {w} : At(x, "save", "adopt"))
  /\ Stands(w, "vendor", "digest", "new", "look")
  /\ UNCHANGED <<config, saves, trees, promised, spoilt>>
-----------------------------------------------------------------------------
(* Vendoring the bundled plugins *)

\* The desktop starts.
VendorStarts(w) ==
  /\ works[w] = AtRest /\ saves < MaxSaves /\ saves' = saves + 1
  /\ Stands(w, "vendor", "digest", "new", "look")
  /\ UNCHANGED <<config, adopted, trees, promised, mixed, spoilt>>

\* seeded fault: the digest alone says that there is nothing to do.
VendoredByDigest(said) == said["digest"] = "new"
Vendored(said) == said["digest"] = "new" /\ trees[said["storage"]].manifest
Named == {config.said["storage"]} \ {NotSet}
\* The settings are read here, and written back when the copy is done.
VendorLooks(w) ==
  /\ At(w, "vendor", "look")
  /\ IF ~config.whole \/ config.said["storage"] = NotSet \/ Vendored(config.said)
     THEN Ends(w) /\ spoilt' = IF config.whole THEN spoilt ELSE spoilt \cup Named
     ELSE /\ works' = [works EXCEPT ![w].step = "clean", ![w].base = config.said, ![w].clean = TRUE]
          /\ spoilt' = IF \E x \in Saver : Vendoring(x, config.said["storage"]) THEN spoilt \cup {config.said["storage"]}
                       ELSE spoilt
  /\ UNCHANGED <<config, saves, adopted, trees, promised, mixed>>
Puts(w, step, tree) ==
  /\ trees' = [trees EXCEPT ![works[w].base["storage"]] = tree] /\ Goes(w, step)
  /\ UNCHANGED <<config, saves, adopted, promised, mixed, spoilt>>
\* The modules go before the manifest.
VendorCleans(w) == At(w, "vendor", "clean") /\ Puts(w, "copy", NoTree)
\* The entries are copied in the order the directory gives them.
VendorCopies(w) ==
  /\ At(w, "vendor", "copy")
  /\ \E first \in BOOLEAN : Puts(w, "rest", [modules |-> "part", manifest |-> first])
VendorCopied(w) == At(w, "vendor", "rest") /\ Puts(w, "write", [modules |-> "new", manifest |-> TRUE])

\* A step fails, or the process ends.
Breaks(w) ==
  /\ works[w] # AtRest /\ Ends(w)
  /\ spoilt' = IF works[w].op = "vendor"
               THEN spoilt \cup Named \cup ({works[w].base["storage"]} \ {NotSet}) ELSE spoilt
  /\ mixed' = (mixed \/ works[w].step = "adopt")
  /\ UNCHANGED <<config, saves, adopted, trees, promised>>

SettingsNext ==
  \E w \in Saver :
     \/ SavesPlain(w) \/ Selects(w) \/ Unselects(w) \/ SavesStorage(w)
     \/ read_config(w) \/ Empties(w) \/ write_config(w) \/ adopt_config(w)
     \/ VendorStarts(w) \/ VendorLooks(w) \/ VendorCleans(w) \/ VendorCopies(w) \/ VendorCopied(w)
     \/ Breaks(w)
SettingsSpec == SettingsInit /\ [][SettingsNext]_settingVars
-----------------------------------------------------------------------------
\* A save that nobody overlapped is read back until a write of what was read
\* before it.
SavesKept == config.whole => \A f \in Field : promised[f] # NotSet => config.said[f] = promised[f]
\* The directory the daemon works in is the one the file names, when no two
\* saves have crossed and no change of it is under way.
AdoptedIsSaved ==
  (config.whole /\ ~mixed /\ \A w \in Saver : ~At(w, "save", "adopt")) => adopted = config.said["storage"]
\* Where no pass ended half way or met another one, a manifest stands for all the
\* plugins.
ManifestIsWhole ==
  \A s \in Storage \ spoilt :
     (trees[s].manifest /\ \A w \in Saver : ~Vendoring(w, s)) => trees[s].modules \in {"old", "new"}
\* ... and the directory that is named with the current digest has plugins, also
\* after the directory was changed, once nothing is under way.
NamedIsVendored ==
  (config.whole /\ ~mixed /\ config.said["storage"] \notin spoilt \cup {NotSet}
   /\ config.said["digest"] = "new" /\ \A w \in Saver : works[w] = AtRest)
  => trees[config.said["storage"]].modules # "none"
SettingsSound == SavesKept /\ AdoptedIsSaved /\ ManifestIsWhole /\ NamedIsVendored

\* ... and they are the current ones.  It fails: see the README.
DigestIsCurrent ==
  (config.whole /\ ~mixed /\ config.said["storage"] \notin spoilt \cup {NotSet}
   /\ config.said["digest"] = "new" /\ \A w \in Saver : works[w] = AtRest)
  => trees[config.said["storage"]].modules = "new"
\* A pass that is skipped leaves a whole tree.  It fails: see the README.
SkippedIsWhole ==
  [][\A w \in Saver :
       (At(w, "vendor", "look") /\ works'[w] = AtRest /\ config.whole /\ config.said["storage"] # NotSet)
       => trees[config.said["storage"]].modules = "new"]_settingVars
\* No save undoes another one.  It fails: see the README.
NothingUndone == ~mixed
=============================================================================
