--------------------------- MODULE HarnessMirror ---------------------------
(***************************************************************************)
(* The shared bare mirror of the Harness sources (box-runtime/mirror.rs,   *)
(* stage_mirrored_checkout of dshboxd/versions.rs): a cache that every     *)
(* pull asks first, fetches into when it lacks the version, and discards   *)
(* only when it is provably incomplete.  Pulls and the purge hold one key, *)
(* so that there is at most one of them; the remotes move meanwhile, every *)
(* call to them may fail, and the daemon may die between any two steps.    *)
(***************************************************************************)
EXTENDS Naturals

CONSTANTS
  Remote,   \* repositories a reference may name
  Tag,      \* versions, true or mistyped
  MaxMoves  \* how often a remote publishes or moves a reference

VARIABLES
  upstream, \* of each remote: its references, and the number each is at
  moves,
  mirror,   \* the bare repository: how far it was made, its origin, its references
  pull,     \* the pull that is running
  served,   \* what the last pull checked out, and for what
  wasted,   \* what a discarded mirror was discarded in spite of
  stuck     \* a pull failed on a version that a rebuilt mirror had fetched
mirrorVars == <<upstream, moves, mirror, pull, served, wasted, stuck>>

\* HEAD of a mirror names none of these branches: it is never moved.
Branch == {"main", "dev", "next"}
Latest == "latest"
NoRefs == [n \in {} |-> n]
Lost == [repo |-> "none"]
NoMirror == [form |-> "none", origin |-> "none", source |-> "none", refs |-> NoRefs]
NoPull == [at |-> "none"]
NotServed == [ref |-> "none"]

MirrorInit ==
  /\ upstream \in [Remote -> {[b \in bs |-> 0] : bs \in {{"main"}, {"dev", "next"}}}] /\ moves = 0
  /\ mirror = NoMirror /\ pull = NoPull /\ served = NotServed /\ wasted = {} /\ stuck = FALSE

At(step) == pull.at = step
Goes(step) == pull' = [pull EXCEPT !.at = step]
Elsewhere == UNCHANGED <<upstream, moves, served, wasted, stuck>>
\* A failure says why; nothing of the pull is kept, and the mirror is.
Fails == pull' = NoPull /\ UNCHANGED mirror /\ Elsewhere
-----------------------------------------------------------------------------
(* What the mirror answers *)

is_usable == mirror.form = "bare"

\* main, or the only branch there is; several are never a guess.
resolve_default_branch(refs) ==
  IF "main" \in DOMAIN refs THEN {"main"} ELSE {b \in Branch : Branch \cap DOMAIN refs = {b}}
Named(refs, ref) == IF ref = Latest THEN resolve_default_branch(refs) ELSE {ref} \cap DOMAIN refs
\* The commits that a reference may be resolved to: one or none.
resolve_in_mirror(ref) == {mirror.refs[n] : n \in Named(mirror.refs, ref)} \ {Lost}

\* The remote lists its references; for the latest any branch will do.
remote_has_revision(r, ref) ==
  IF ref = Latest THEN Branch \cap DOMAIN upstream[r] # {} ELSE ref \in DOMAIN upstream[r]

\* Of all its branches the latest one, or the tag alone: what of them there is.
refspec_for(ref) == (IF ref = Latest THEN Branch ELSE {ref}) \cap DOMAIN upstream[mirror.origin]
-----------------------------------------------------------------------------
(* stage_mirrored_checkout *)

Begins(r, ref) ==
  /\ At("none")
  /\ pull' = [at |-> "ensure", remote |-> r, ref |-> ref, fetched |-> FALSE, again |-> FALSE,
              advertised |-> FALSE, lister |-> "none"]
  /\ UNCHANGED mirror /\ Elsewhere

\* A usable mirror is pointed at the remote when another one is recorded; the URL
\* is recorded after that.
open_mirror_with_remote ==
  /\ At("ensure") /\ is_usable
  /\ IF mirror.source = pull.remote
     THEN UNCHANGED mirror /\ Goes(IF pull.again THEN "fetch" ELSE "look")
     ELSE mirror' = [mirror EXCEPT !.origin = pull.remote] /\ Goes("record")
  /\ Elsewhere
\* Otherwise it is made: the bare repository, then its origin, then the record.
init_bare ==
  /\ At("ensure") /\ ~is_usable
  /\ mirror' = [mirror EXCEPT !.form = "begun"] /\ Goes("origin") /\ Elsewhere
AddsOrigin ==
  /\ At("origin") /\ mirror' = [mirror EXCEPT !.form = "bare", !.origin = pull.remote]
  /\ Goes("record") /\ Elsewhere
record_remote ==
  /\ At("record") /\ mirror' = [mirror EXCEPT !.source = pull.remote]
  /\ Goes(IF pull.again THEN "fetch" ELSE "look") /\ Elsewhere

\* A version that is held needs no network.
Looks ==
  /\ At("look") /\ Goes(IF resolve_in_mirror(pull.ref) = {} THEN "fetch" ELSE "checkout")
  /\ UNCHANGED mirror /\ Elsewhere

\* From the origin.  The fetch of what it does not have succeeds and brings
\* nothing; other references stay; a lost object may stay lost.
fetch_ref_to_mirror ==
  LET names == refspec_for(pull.ref)
  IN /\ At("fetch")
     /\ \E still \in SUBSET {n \in names \cap DOMAIN mirror.refs : mirror.refs[n] = Lost} :
          mirror' = [mirror EXCEPT !.refs = [n \in DOMAIN @ \cup names |->
                       IF n \in names \ still THEN [repo |-> mirror.origin, name |-> n, at |-> upstream[mirror.origin][n]]
                       ELSE @[n]]]
     /\ pull' = [pull EXCEPT !.at = IF pull.again THEN "last" ELSE "resolve", !.fetched = TRUE,
                         !.advertised = @ \/ remote_has_revision(mirror.origin, pull.ref)]
     /\ Elsewhere
\* No space, no network, or the user cancels.
FetchFails == At("fetch") /\ Fails
Resolves ==
  /\ At("resolve") /\ Goes(IF resolve_in_mirror(pull.ref) = {} THEN "list" ELSE "checkout")
  /\ UNCHANGED mirror /\ Elsewhere

\* seeded fault: the mirror is rebuilt whether or not the remote has the version.
ListsUnasked ==
  /\ At("list") /\ Goes("discard") /\ UNCHANGED mirror /\ Elsewhere
\* The remote is asked before anything is discarded.
Lists ==
  /\ At("list") /\ pull' = IF remote_has_revision(mirror.origin, pull.ref) THEN [pull EXCEPT !.at = "discard", !.lister = mirror.origin]
                         ELSE NoPull
  /\ UNCHANGED mirror /\ Elsewhere
ListFails == At("list") /\ Fails

rebuild_bare_mirror ==
  /\ At("discard") /\ mirror' = NoMirror
  /\ pull' = [pull EXCEPT !.at = "ensure", !.again = TRUE]
  /\ wasted' = wasted \cup (IF pull.advertised THEN {} ELSE {"mistyped"})
                      \cup (IF pull.fetched THEN {} ELSE {"offline"})
                      \cup (IF \E n \in DOMAIN mirror.refs : mirror.refs[n] = Lost THEN {} ELSE {"whole"})
  /\ UNCHANGED <<upstream, moves, served, stuck>>
\* Some of it is gone, and it cannot be opened.
DiscardFails ==
  /\ At("discard") /\ mirror' = [mirror EXCEPT !.form = "begun", !.refs = NoRefs]
  /\ pull' = NoPull /\ Elsewhere
ResolvesLast ==
  /\ At("last")
  /\ IF resolve_in_mirror(pull.ref) = {}
     THEN /\ pull' = NoPull
          /\ stuck' = (stuck \/ (pull.ref # Latest /\ pull.lister = mirror.origin))
     ELSE Goes("checkout") /\ UNCHANGED stuck
  /\ UNCHANGED <<upstream, moves, mirror, served, wasted>>

\* The objects are borrowed while the files are written, and not after.
checkout_from_mirror ==
  /\ At("checkout")
  /\ \E c \in resolve_in_mirror(pull.ref) :
       served' = [ref |-> pull.ref, remote |-> pull.remote, origin |-> mirror.origin, commit |-> c,
                  fetched |-> pull.fetched]
  /\ pull' = NoPull /\ UNCHANGED <<upstream, moves, mirror, wasted, stuck>>
CheckoutFails == At("checkout") /\ Fails
-----------------------------------------------------------------------------
(* What happens meanwhile *)

\* A reference is published, or moved to another commit.
Publishes(r, n) ==
  /\ moves < MaxMoves /\ moves' = moves + 1
  /\ upstream' = [upstream EXCEPT ![r] = [m \in DOMAIN @ \cup {n} |-> IF m = n THEN moves' ELSE @[m]]]
  /\ pull' = IF pull.at # "none" /\ mirror.origin = r
             THEN [pull EXCEPT !.advertised = @ \/ pull.ref = n] ELSE pull
  /\ UNCHANGED <<mirror, served, wasted, stuck>>
\* Objects of the mirror are lost on disk.
Damages(n) ==
  /\ n \in DOMAIN mirror.refs /\ mirror' = [mirror EXCEPT !.refs[n] = Lost]
  /\ At("none") /\ UNCHANGED pull /\ Elsewhere
purge == At("none") /\ mirror' = NoMirror /\ UNCHANGED pull /\ Elsewhere
Dies == ~At("none") /\ Fails

MirrorNext ==
  \/ \E r \in Remote : (\E ref \in Tag \cup {Latest} : Begins(r, ref))
                       \/ (\E n \in Tag \cup {"main"} : Publishes(r, n))
  \/ open_mirror_with_remote \/ init_bare \/ AddsOrigin \/ record_remote \/ Looks
  \/ fetch_ref_to_mirror \/ FetchFails \/ Resolves \/ Lists \/ ListFails
  \/ rebuild_bare_mirror \/ DiscardFails \/ ResolvesLast \/ checkout_from_mirror \/ CheckoutFails
  \/ (\E n \in Tag : Damages(n)) \/ purge \/ Dies
MirrorSpec == MirrorInit /\ [][MirrorNext]_mirrorVars
-----------------------------------------------------------------------------
\* A version that the remote never had, and a remote that cannot be reached,
\* discard nothing (mirror.rs 561-574, 26-32).
NothingWasted == wasted \cap {"mistyped", "offline"} = {}
\* What a pull had to fetch is of the origin, also when the mirror holds branches
\* of another remote.
FetchedIsItself == (served # NotServed /\ served.fetched) => served.commit.repo = served.origin
\* A mirror that was rebuilt for a version its origin lists has it after the fetch.
RebuildRepairs == ~stuck
MirrorSound == NothingWasted /\ FetchedIsItself /\ RebuildRepairs

\* Only a mirror that lacks objects is discarded.  It fails: see the README.
OnlyDamagedDiscarded == "whole" \notin wasted
\* What is served is of the repository that was asked.  It fails: see the README.
RightRepository == served # NotServed => served.commit.repo = served.remote
\* The origin is the remote of the pull, once the mirror is asked anything.  It
\* fails: see the README.
OriginFollows ==
  pull.at \in {"look", "fetch", "resolve", "list", "last", "checkout"} => mirror.origin = pull.remote
\* The latest is the latest.  It fails: see the README.
LatestIsCurrent ==
  [][(served' # served /\ served'.ref = Latest) => served'.commit.at = upstream[served'.remote][served'.commit.name]]_mirrorVars
=============================================================================
