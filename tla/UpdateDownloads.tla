-------------------------- MODULE UpdateDownloads --------------------------
(***************************************************************************)
(* The updater's downloads: the directory of one version, the task that    *)
(* fills it, and the helper the desktop starts to install from it.  The    *)
(* directories of other versions are their own.  A request's tag is that   *)
(* of any release, since UpdateChecks pairs versions with tags freely.     *)
(***************************************************************************)

CONSTANTS
  Release, \* the releases there are
  Nothing

VARIABLES
  load,     \* the download that runs: the task's step and its release
  disk,     \* the files of the directory
  staged,   \* the file an install helper was started for
  installed \* what the helpers installed last

downloadVars == <<load, disk, staged, installed>>

NoLoad == [step |-> "idle", tag |-> Nothing]

\* A file: what it is, the release it belongs to, and whether its bytes are
\* those the release's manifest describes.
File == [sort : {"part", "installer", "note", "tmp"}, of : Release, good : BOOLEAN]

DownloadInit ==
  /\ load = NoLoad /\ disk = {}
  /\ staged = Nothing /\ installed = Nothing

\* download_payload: the file the note names, and without a note any file that
\* is neither a helper's nor unfinished.
Ready ==
  LET notes == {f.of : f \in {g \in disk : g.sort = "note"}}
  IN IF notes # {} THEN {f \in disk : f.sort = "installer" /\ f.of \in notes}
     ELSE {f \in disk : f.sort \in {"installer", "tmp"}}

\* seeded fault: the transfer writes the installer's own file.
Transferred == "installer"
Staging == "part"
Has(sort) == {f \in disk : f.sort = sort /\ f.of = load.tag}
Loads(step) == load' = [load EXCEPT !.step = step]
Puts(files) == disk' = files
LoadKeeps == UNCHANGED <<staged, installed>>

\* The resource key "updates" lets one download run at a time.
LoadStarts ==
  /\ load = NoLoad
  /\ \E tag \in Release : load' = [step |-> "look", tag |-> tag]
  /\ UNCHANGED disk /\ LoadKeeps

\* A verified file of the name is kept, any other is removed.
LoadLooks ==
  /\ load.step = "look"
  /\ LET found == Has("installer")
     IN IF \E f \in found : f.good THEN load' = NoLoad /\ UNCHANGED disk
        ELSE Loads("fetch") /\ Puts(disk \ found)
  /\ LoadKeeps

LoadFetches ==
  /\ load.step = "fetch" /\ Loads("check")
  /\ \E good \in BOOLEAN :
       Puts((disk \ Has(Staging)) \cup {[sort |-> Staging, of |-> load.tag, good |-> good]})
  /\ LoadKeeps

\* download_and_verify: size and digest.  A mismatch and a cancel remove the
\* file; a transfer that breaks off leaves it.
LoadChecks ==
  /\ load.step = "check"
  /\ LET part == Has(Staging)
     IN \/ (\A f \in part : f.good) /\ Loads("rename") /\ UNCHANGED disk
        \/ load' = NoLoad /\ Puts(disk \ part)
        \/ (\A f \in part : ~f.good) /\ load' = NoLoad /\ UNCHANGED disk
  /\ LoadKeeps

LoadRenames ==
  /\ load.step = "rename"
  /\ LET part == Has(Staging)
     IN IF part = {} THEN load' = NoLoad /\ UNCHANGED disk
        ELSE /\ Loads("note")
             /\ Puts((disk \ part) \cup {[f EXCEPT !.sort = "installer"] : f \in part})
  /\ LoadKeeps

\* download.json, through a file of another name beside it.
LoadNotes ==
  /\ load.step = "note" /\ Loads("noted")
  /\ Puts(disk \cup {[sort |-> "tmp", of |-> load.tag, good |-> FALSE]})
  /\ LoadKeeps
LoadEnds ==
  /\ load.step = "noted" /\ load' = NoLoad
  /\ LET tmp == Has("tmp")
     IN Puts(IF tmp = {} THEN disk
             ELSE {f \in disk \ tmp : f.sort # "note"} \cup {[sort |-> "note", of |-> load.tag, good |-> FALSE]})
  /\ LoadKeeps

\* discard_update_download takes the files one by one and waits for nobody.
Discards ==
  /\ \E f \in disk : Puts(disk \ {f})
  /\ UNCHANGED load /\ LoadKeeps
-----------------------------------------------------------------------------
(* Installing *)

\* install_update and the quit path: the file the daemon calls ready, and one
\* helper at a time.
Stage ==
  /\ staged = Nothing
  /\ \E f \in Ready : staged' = f
  /\ UNCHANGED <<load, disk, installed>>

\* The helper, when the application is gone: it runs what has the file's name.
HelperRuns ==
  /\ staged # Nothing /\ staged' = Nothing
  /\ LET found == {f \in disk : f.sort = staged.sort /\ f.of = staged.of}
     IN IF found # {} /\ staged.sort = "installer" THEN installed' \in found ELSE UNCHANGED installed
  /\ UNCHANGED <<load, disk>>

\* The daemon dies.
DownloaderCrash == load # NoLoad /\ load' = NoLoad /\ UNCHANGED disk /\ LoadKeeps

DownloadNext ==
  \/ LoadStarts \/ LoadLooks \/ LoadFetches \/ LoadChecks \/ LoadRenames
  \/ LoadNotes \/ LoadEnds \/ Discards
  \/ Stage \/ HelperRuns \/ DownloaderCrash
-----------------------------------------------------------------------------
\* An installer that is called ready has the bytes of its release, through
\* cancels, discards and crashes at any step; and so has what is installed,
\* whatever became of the directory between the two.
DownloadsSound ==
  /\ \A f \in Ready : f.sort = "installer" => f.good
  /\ installed # Nothing => installed.good

\* What is called ready is an installer.  It fails: see the README.
ReadyIsInstaller == \A f \in Ready : f.sort = "installer"
=============================================================================
