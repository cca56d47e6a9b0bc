-------------------------- MODULE TemplateProofs --------------------------
(***************************************************************************)
(* Theorems about the templates and the containers made of them, and about *)
(* the mirror the templates' sources come from, for every number of        *)
(* references, names, recipes, callers, remotes and faults.                *)
(***************************************************************************)
EXTENDS Parts, FiniteSetTheorems, TLAPS

-----------------------------------------------------------------------------
(* The shared mirror (HarnessMirror). *)

\* A step of the whole is a step of the mirror, when the mirror is followed.
LEMMA MirrorMoves ==
  ASSUME part = "mirrors", [PartsNext]_partsVars
  PROVE  part' = "mirrors" /\ (Mirror!MirrorNext \/ UNCHANGED mirrors)
BY DEF PartsNext, partsVars, TreeStep, StoreStep, CheckStep, DownloadStep, DeletionStep, RepositoryStep,
       InstallStep, CopyStep, RegistryStep, SettingStep, MirrorStep, FeedStep, EndpointStep, OpeningStep

Names == Mirror!Branch \cup Tag
Heads == UNION {[s -> Nat] : s \in SUBSET Names}
Objects == [repo : Remote, name : Names, at : Nat] \cup {Mirror!Lost}
References == UNION {[s -> Objects] : s \in SUBSET Names}
Mirrors ==
  [form : {"none", "begun", "bare"}, origin : Remote \cup {"none"}, source : Remote \cup {"none"}, refs : References]
Pulls ==
  [at : {"ensure", "origin", "record", "look", "fetch", "resolve", "list", "discard", "last", "checkout"},
   remote : Remote, ref : Tag \cup {Mirror!Latest}, fetched : BOOLEAN, again : BOOLEAN, advertised : BOOLEAN,
   lister : Remote \cup {"none"}]
MirrorType ==
  /\ upstream \in [Remote -> Heads] /\ moves \in Nat
  /\ mirror \in Mirrors /\ pull \in Pulls \cup {Mirror!NoPull}
\* A remote has a branch, and a repository that can be used has an origin.
Grounded ==
  /\ \A r \in Remote : Mirror!Branch \cap DOMAIN upstream[r] # {}
  /\ mirror.form = "bare" => mirror.origin \in Remote
  /\ pull.at \notin {"none", "ensure", "origin"} => mirror.form = "bare"
\* The second attempt begins with nothing, for a version that was listed.
Afresh ==
  /\ (pull.at # "none" /\ pull.again) =>
       /\ pull.lister \in Remote /\ Mirror!remote_has_revision(pull.lister, pull.ref)
       /\ pull.at = "ensure" => mirror.form # "bare"
       /\ pull.at \in {"ensure", "origin", "record", "fetch"} => mirror.refs = Mirror!NoRefs
  /\ pull.at = "discard" => pull.lister = mirror.origin /\ Mirror!remote_has_revision(pull.lister, pull.ref)
  /\ pull.at = "last" => pull.again
\* Before anything is discarded it was fetched for, and the origin has said that
\* it has the version.
Tried ==
  /\ pull.at \in {"ensure", "origin", "record", "fetch"} => pull.fetched = pull.again
  /\ pull.at = "look" => ~pull.fetched /\ ~pull.again
  /\ pull.at \in {"resolve", "list", "discard", "last"} => pull.fetched
  /\ (pull.at \in {"resolve", "list"} /\ Mirror!remote_has_revision(mirror.origin, pull.ref)) => pull.advertised
  /\ pull.at = "discard" => pull.advertised
Found == Mirror!resolve_in_mirror(pull.ref)
\* What is fetched for was not there; what was fetched is of the origin.
FoundIsOfOrigin ==
  /\ pull.at = "fetch" => Found = {}
  /\ (pull.at \in {"resolve", "last", "checkout"} /\ pull.fetched) => \A c \in Found : c.repo = mirror.origin
  /\ (pull.at = "last" /\ pull.ref # Mirror!Latest /\ pull.lister = mirror.origin) => Found # {}
MirrorInv ==
  /\ MirrorType /\ Grounded /\ Afresh /\ Tried /\ FoundIsOfOrigin
  /\ Mirror!NothingWasted /\ Mirror!FetchedIsItself /\ ~stuck

\* The records of a pull under way, and the references of a mirror.
LEMMA PullIs ==
  ASSUME MirrorType
  PROVE  (pull.at # "none" => pull \in Pulls) /\ mirror.refs \in References
BY DEF MirrorType, Mirrors, Mirror!NoPull

\* A repository without references.
LEMMA NoRefsIs == Mirror!NoRefs \in References /\ DOMAIN Mirror!NoRefs = {}
<1>1. DOMAIN Mirror!NoRefs = {} /\ Mirror!NoRefs \in [{} -> Objects]
  BY DEF Mirror!NoRefs
<1>2. QED
  BY <1>1 DEF References

\* What a step changes of a mirror leaves a mirror.
LEMMA MirrorBecomes ==
  ASSUME NEW m \in Mirrors, NEW form \in {"none", "begun", "bare"}, NEW origin \in Remote \cup {"none"},
         NEW refs \in References
  PROVE  /\ [m EXCEPT !.form = form, !.origin = origin] \in Mirrors
         /\ [m EXCEPT !.form = form, !.refs = refs] \in Mirrors
         /\ [m EXCEPT !.refs = refs] \in Mirrors
BY DEF Mirrors

\* A fetch brings what the origin has of what was asked for; a lost object may
\* stay lost, and nothing else changes.
LEMMA Fetched ==
  ASSUME MirrorInv, Mirror!fetch_ref_to_mirror, mirror \in Mirrors, mirror.origin \in Remote
  PROVE  LET names == Mirror!refspec_for(pull.ref)
         IN /\ DOMAIN mirror'.refs = DOMAIN mirror.refs \cup names
            /\ \A n \in DOMAIN mirror'.refs \ names : mirror'.refs[n] = mirror.refs[n]
            /\ \A n \in names :
                 \/ n \in DOMAIN mirror.refs /\ mirror.refs[n] = Mirror!Lost /\ mirror'.refs[n] = Mirror!Lost
                 \/ mirror'.refs[n].repo = mirror.origin /\ mirror'.refs[n] # Mirror!Lost
<1> DEFINE names == Mirror!refspec_for(pull.ref)
<1>1. PICK still \in SUBSET {n \in names \cap DOMAIN mirror.refs : mirror.refs[n] = Mirror!Lost} :
        mirror' = [mirror EXCEPT !.refs = [n \in DOMAIN @ \cup names |->
                     IF n \in names \ still THEN [repo |-> mirror.origin, name |-> n, at |-> upstream[mirror.origin][n]]
                     ELSE @[n]]]
  BY DEF Mirror!fetch_ref_to_mirror
<1> HIDE DEF names
<1> DEFINE new == [n \in DOMAIN mirror.refs \cup names |->
                     IF n \in names \ still THEN [repo |-> mirror.origin, name |-> n, at |-> upstream[mirror.origin][n]]
                     ELSE mirror.refs[n]]
<1>2. mirror'.refs = new
  BY <1>1 DEF Mirrors
<1>3. \A n \in names \ still : new[n] = [repo |-> mirror.origin, name |-> n, at |-> upstream[mirror.origin][n]]
  OBVIOUS
<1>4. \A n \in names \ still : new[n].repo = mirror.origin /\ new[n] # Mirror!Lost
  <2> SUFFICES ASSUME NEW n \in names \ still
               PROVE  new[n].repo = mirror.origin /\ new[n] # Mirror!Lost
    OBVIOUS
  <2> DEFINE c == [repo |-> mirror.origin, name |-> n, at |-> upstream[mirror.origin][n]]
  <2>1. DOMAIN c = {"repo", "name", "at"} /\ DOMAIN Mirror!Lost = {"repo"}
    BY DEF Mirror!Lost
  <2>2. "name" \in DOMAIN c /\ "name" \notin DOMAIN Mirror!Lost
    BY <2>1
  <2>3. c # Mirror!Lost /\ c.repo = mirror.origin
    BY <2>2
  <2>4. QED
    BY <1>3, <2>3
<1>5. \A n \in (DOMAIN mirror.refs \cup names) \ (names \ still) : new[n] = mirror.refs[n]
  OBVIOUS
<1>6. DOMAIN new = DOMAIN mirror.refs \cup names
  OBVIOUS
<1> HIDE DEF new
<1>7. QED
  BY <1>1, <1>2, <1>4, <1>5, <1>6 DEF names

\* Every step leaves remotes, a mirror and a pull.
LEMMA MirrorTyped ==
  ASSUME MirrorInv, Mirror!MirrorNext
  PROVE  MirrorType'
<1> USE DEF MirrorInv, MirrorType, Mirrors, Pulls, Mirror!NoMirror, Mirror!NoPull, Mirror!At, Mirror!Goes,
        Mirror!Elsewhere, Mirror!Fails, Mirror!is_usable
<1>1. ASSUME NEW r \in Remote, NEW ref \in Tag \cup {Mirror!Latest}, Mirror!Begins(r, ref)
      PROVE  MirrorType'
  BY <1>1 DEF Mirror!Begins
<1>2. ASSUME NEW r \in Remote, NEW n \in Tag \cup {"main"}, Mirror!Publishes(r, n)
      PROVE  MirrorType'
  <2>1. PICK s \in SUBSET Names : upstream[r] \in [s -> Nat]
    BY DEF Heads
  <2>2. moves' \in Nat /\ upstream' = [upstream EXCEPT ![r] = [m \in DOMAIN @ \cup {n} |-> IF m = n THEN moves' ELSE @[m]]]
    BY <1>2 DEF Mirror!Publishes
  <2>3. n \in Names
    BY DEF Names, Mirror!Branch
  <2>4. [m \in DOMAIN upstream[r] \cup {n} |-> IF m = n THEN moves' ELSE upstream[r][m]] \in [s \cup {n} -> Nat]
    BY <2>1, <2>2
  <2>5. [m \in DOMAIN upstream[r] \cup {n} |-> IF m = n THEN moves' ELSE upstream[r][m]] \in Heads
    <3>1. s \cup {n} \in SUBSET Names
      BY <2>3
    <3>2. QED
      BY <2>4, <3>1 DEF Heads
  <2>6. upstream' \in [Remote -> Heads]
    BY <2>2, <2>5
  <2>7. pull' \in Pulls \cup {Mirror!NoPull} /\ mirror' = mirror
    <3>2. pull.at # "none" => [pull EXCEPT !.advertised = @ \/ pull.ref = n] \in Pulls
      BY PullIs
    <3>3. QED
      BY <1>2, <3>2 DEF Mirror!Publishes
  <2>8. QED
    BY <2>2, <2>6, <2>7
<1>3. ASSUME Mirror!open_mirror_with_remote
      PROVE  MirrorType'
  BY <1>3 DEF Mirror!open_mirror_with_remote
<1>4. ASSUME Mirror!init_bare
      PROVE  MirrorType'
  BY <1>4 DEF Mirror!init_bare
<1>5. ASSUME Mirror!AddsOrigin
      PROVE  MirrorType'
  <2>1. pull \in Pulls /\ mirror \in Mirrors
    BY <1>5, PullIs DEF Mirror!AddsOrigin
  <2>2. [mirror EXCEPT !.form = "bare", !.origin = pull.remote] \in Mirrors
    BY <2>1
  <2>3. [pull EXCEPT !.at = "record"] \in Pulls
    BY <2>1
  <2>4. QED
    BY <1>5, <2>2, <2>3 DEF Mirror!AddsOrigin
<1>6. ASSUME Mirror!record_remote
      PROVE  MirrorType'
  BY <1>6 DEF Mirror!record_remote
<1>7. ASSUME Mirror!Looks
      PROVE  MirrorType'
  BY <1>7 DEF Mirror!Looks
<1>8. ASSUME Mirror!fetch_ref_to_mirror
      PROVE  MirrorType'
  <2>1. pull \in Pulls /\ mirror \in Mirrors
    BY <1>8, PullIs DEF Mirror!fetch_ref_to_mirror
  <2>2. mirror.origin \in Remote
    BY <1>8 DEF Mirror!fetch_ref_to_mirror, Grounded
  <2> DEFINE names == Mirror!refspec_for(pull.ref)
  <2>3. PICK still \in SUBSET {n \in names \cap DOMAIN mirror.refs : mirror.refs[n] = Mirror!Lost} :
          mirror' = [mirror EXCEPT !.refs = [n \in DOMAIN @ \cup names |->
                       IF n \in names \ still THEN [repo |-> mirror.origin, name |-> n, at |-> upstream[mirror.origin][n]]
                       ELSE @[n]]]
    BY <1>8 DEF Mirror!fetch_ref_to_mirror
  <2>4. PICK s \in SUBSET Names : mirror.refs \in [s -> Objects]
    BY <2>1 DEF References
  <2>5. PICK h \in SUBSET Names : upstream[mirror.origin] \in [h -> Nat]
    BY <2>2 DEF Heads
  <2>6. names \subseteq h
    BY <2>5 DEF Mirror!refspec_for
  <2> HIDE DEF names
  <2> DEFINE new == [n \in DOMAIN mirror.refs \cup names |->
                       IF n \in names \ still THEN [repo |-> mirror.origin, name |-> n, at |-> upstream[mirror.origin][n]]
                       ELSE mirror.refs[n]]
  <2>7. new \in [s \cup names -> Objects]
    <3>1. ASSUME NEW n \in s \cup names
          PROVE  new[n] \in Objects
      <4>1. CASE n \in names \ still
        <5>1. new[n] = [repo |-> mirror.origin, name |-> n, at |-> upstream[mirror.origin][n]]
          BY <4>1
        <5>2. n \in Names /\ upstream[mirror.origin][n] \in Nat
          BY <2>5, <2>6, <4>1
        <5>3. QED
          BY <2>2, <5>1, <5>2 DEF Objects
      <4>2. CASE n \notin names \ still
        BY <2>3, <2>4, <4>2
      <4>3. QED
        BY <4>1, <4>2
    <3>2. QED
      BY <2>4, <3>1
  <2>8. new \in References
    <3>1. s \cup names \in SUBSET Names
      BY <2>5, <2>6
    <3> HIDE DEF new
    <3>2. QED
      BY <2>7, <3>1 DEF References
  <2>9. mirror' = [mirror EXCEPT !.refs = new]
    BY <2>3
  <2> HIDE DEF new
  <2>10. mirror' \in Mirrors
    BY <2>1, <2>8, <2>9, MirrorBecomes
  <2>11. Mirror!remote_has_revision(mirror.origin, pull.ref) \in BOOLEAN
    <3>1. CASE pull.ref = Mirror!Latest
      BY <3>1 DEF Mirror!remote_has_revision
    <3>2. CASE pull.ref # Mirror!Latest
      BY <3>2 DEF Mirror!remote_has_revision
    <3>3. QED
      BY <3>1, <3>2
  <2>12. pull' \in Pulls /\ UNCHANGED <<upstream, moves>>
    BY <1>8, <2>1, <2>11 DEF Mirror!fetch_ref_to_mirror
  <2>13. QED
    BY <2>10, <2>12
<1>9. ASSUME Mirror!FetchFails
      PROVE  MirrorType'
  BY <1>9 DEF Mirror!FetchFails
<1>10. ASSUME Mirror!Resolves
      PROVE  MirrorType'
  BY <1>10 DEF Mirror!Resolves
<1>11. ASSUME Mirror!Lists
      PROVE  MirrorType'
  <2>1. pull \in Pulls /\ mirror.origin \in Remote \cup {"none"}
    BY <1>11, PullIs DEF Mirror!Lists
  <2>2. [pull EXCEPT !.at = "discard", !.lister = mirror.origin] \in Pulls
    BY <2>1
  <2>3. QED
    BY <1>11, <2>2 DEF Mirror!Lists
<1>12. ASSUME Mirror!ListFails
      PROVE  MirrorType'
  BY <1>12 DEF Mirror!ListFails
<1>13. ASSUME Mirror!rebuild_bare_mirror
      PROVE  MirrorType'
  <2>1. pull \in Pulls
    BY <1>13, PullIs DEF Mirror!rebuild_bare_mirror
  <2>2. [pull EXCEPT !.at = "ensure", !.again = TRUE] \in Pulls
    BY <2>1
  <2>3. QED
    BY <1>13, <2>2, NoRefsIs DEF Mirror!rebuild_bare_mirror
<1>14. ASSUME Mirror!DiscardFails
      PROVE  MirrorType'
  <2>1. [mirror EXCEPT !.form = "begun", !.refs = Mirror!NoRefs] \in Mirrors
    BY NoRefsIs, MirrorBecomes DEF Mirrors
  <2>2. QED
    BY <1>14, <2>1 DEF Mirror!DiscardFails
<1>15. ASSUME Mirror!ResolvesLast
      PROVE  MirrorType'
  BY <1>15 DEF Mirror!ResolvesLast
<1>16. ASSUME Mirror!checkout_from_mirror
      PROVE  MirrorType'
  BY <1>16 DEF Mirror!checkout_from_mirror
<1>17. ASSUME Mirror!CheckoutFails
      PROVE  MirrorType'
  BY <1>17 DEF Mirror!CheckoutFails
<1>18. ASSUME NEW n \in Tag, Mirror!Damages(n)
      PROVE  MirrorType'
  <2>1. PICK s \in SUBSET Names : mirror.refs \in [s -> Objects]
    BY DEF References
  <2>2. [mirror.refs EXCEPT ![n] = Mirror!Lost] \in [s -> Objects]
    BY <2>1 DEF Objects
  <2>3. [mirror.refs EXCEPT ![n] = Mirror!Lost] \in References
    BY <2>2 DEF References
  <2>4. mirror' = [mirror EXCEPT !.refs = [mirror.refs EXCEPT ![n] = Mirror!Lost]]
    BY <1>18 DEF Mirror!Damages
  <2>5. mirror' \in Mirrors
    BY <2>3, <2>4, MirrorBecomes
  <2>6. QED
    BY <1>18, <2>5 DEF Mirror!Damages
<1>19. ASSUME Mirror!purge
      PROVE  MirrorType'
  <2>1. Mirror!NoMirror \in Mirrors
    BY NoRefsIs
  <2>2. QED
    BY <1>19, <2>1 DEF Mirror!purge
<1>20. ASSUME Mirror!Dies
      PROVE  MirrorType'
  BY <1>20 DEF Mirror!Dies
<1>21. QED
  BY <1>1, <1>2, <1>3, <1>4, <1>5, <1>6, <1>7, <1>8, <1>9, <1>10, <1>11, <1>12, <1>13, <1>14, <1>15, <1>16, <1>17,
     <1>18, <1>19, <1>20 DEF Mirror!MirrorNext

\* A mirror keeps its origin, and a remote its branch.
LEMMA GroundedStays ==
  ASSUME MirrorInv, Mirror!MirrorNext
  PROVE  Grounded'
<1> USE DEF MirrorInv, MirrorType, Mirrors, Pulls, Mirror!NoMirror, Mirror!NoPull, Mirror!At, Mirror!Goes,
        Mirror!Elsewhere, Mirror!Fails, Mirror!is_usable, Grounded
<1>1. ASSUME NEW r \in Remote, NEW ref \in Tag \cup {Mirror!Latest}, Mirror!Begins(r, ref)
      PROVE  Grounded'
  BY <1>1 DEF Mirror!Begins
<1>2. ASSUME NEW r \in Remote, NEW n \in Tag \cup {"main"}, Mirror!Publishes(r, n)
      PROVE  Grounded'
  BY <1>2 DEF Mirror!Publishes
<1>3. ASSUME Mirror!open_mirror_with_remote
      PROVE  Grounded'
  BY <1>3 DEF Mirror!open_mirror_with_remote
<1>4. ASSUME Mirror!init_bare
      PROVE  Grounded'
  BY <1>4 DEF Mirror!init_bare
<1>5. ASSUME Mirror!AddsOrigin
      PROVE  Grounded'
  BY <1>5 DEF Mirror!AddsOrigin
<1>6. ASSUME Mirror!record_remote
      PROVE  Grounded'
  BY <1>6 DEF Mirror!record_remote
<1>7. ASSUME Mirror!Looks
      PROVE  Grounded'
  BY <1>7 DEF Mirror!Looks
<1>8. ASSUME Mirror!fetch_ref_to_mirror
      PROVE  Grounded'
  BY <1>8 DEF Mirror!fetch_ref_to_mirror
<1>9. ASSUME Mirror!FetchFails
      PROVE  Grounded'
  BY <1>9 DEF Mirror!FetchFails
<1>10. ASSUME Mirror!Resolves
      PROVE  Grounded'
  BY <1>10 DEF Mirror!Resolves
<1>11. ASSUME Mirror!Lists
      PROVE  Grounded'
  BY <1>11 DEF Mirror!Lists
<1>12. ASSUME Mirror!ListFails
      PROVE  Grounded'
  BY <1>12 DEF Mirror!ListFails
<1>13. ASSUME Mirror!rebuild_bare_mirror
      PROVE  Grounded'
  BY <1>13 DEF Mirror!rebuild_bare_mirror
<1>14. ASSUME Mirror!DiscardFails
      PROVE  Grounded'
  BY <1>14 DEF Mirror!DiscardFails
<1>15. ASSUME Mirror!ResolvesLast
      PROVE  Grounded'
  BY <1>15 DEF Mirror!ResolvesLast
<1>16. ASSUME Mirror!checkout_from_mirror
      PROVE  Grounded'
  BY <1>16 DEF Mirror!checkout_from_mirror
<1>17. ASSUME Mirror!CheckoutFails
      PROVE  Grounded'
  BY <1>17 DEF Mirror!CheckoutFails
<1>18. ASSUME NEW n \in Tag, Mirror!Damages(n)
      PROVE  Grounded'
  BY <1>18 DEF Mirror!Damages
<1>19. ASSUME Mirror!purge
      PROVE  Grounded'
  BY <1>19 DEF Mirror!purge
<1>20. ASSUME Mirror!Dies
      PROVE  Grounded'
  BY <1>20 DEF Mirror!Dies
<1>21. QED
  BY <1>1, <1>2, <1>3, <1>4, <1>5, <1>6, <1>7, <1>8, <1>9, <1>10, <1>11, <1>12, <1>13, <1>14, <1>15, <1>16, <1>17,
     <1>18, <1>19, <1>20 DEF Mirror!MirrorNext

\* A mirror is discarded for a version that was listed, and fetched into anew.
LEMMA AfreshStays ==
  ASSUME MirrorInv, Mirror!MirrorNext
  PROVE  Afresh'
<1> USE DEF MirrorInv, MirrorType, Mirrors, Pulls, Mirror!NoMirror, Mirror!NoPull, Mirror!At, Mirror!Goes,
        Mirror!Elsewhere, Mirror!Fails, Mirror!is_usable, Grounded, Afresh, Tried, Mirror!remote_has_revision
<1>1. ASSUME NEW r \in Remote, NEW ref \in Tag \cup {Mirror!Latest}, Mirror!Begins(r, ref)
      PROVE  Afresh'
  BY <1>1 DEF Mirror!Begins
<1>2. ASSUME NEW r \in Remote, NEW n \in Tag \cup {"main"}, Mirror!Publishes(r, n)
      PROVE  Afresh'
  BY <1>2 DEF Mirror!Publishes
<1>3. ASSUME Mirror!open_mirror_with_remote
      PROVE  Afresh'
  BY <1>3 DEF Mirror!open_mirror_with_remote
<1>4. ASSUME Mirror!init_bare
      PROVE  Afresh'
  BY <1>4 DEF Mirror!init_bare
<1>5. ASSUME Mirror!AddsOrigin
      PROVE  Afresh'
  BY <1>5 DEF Mirror!AddsOrigin
<1>6. ASSUME Mirror!record_remote
      PROVE  Afresh'
  BY <1>6 DEF Mirror!record_remote
<1>7. ASSUME Mirror!Looks
      PROVE  Afresh'
  <2>1. pull.at = "look" /\ ~pull.again /\ pull \in Pulls
    BY <1>7, PullIs DEF Mirror!Looks
  <2>2. ~pull'.again /\ pull'.at \in {"fetch", "checkout"}
    BY <1>7, <2>1 DEF Mirror!Looks
  <2>3. QED
    BY <2>2
<1>8. ASSUME Mirror!fetch_ref_to_mirror
      PROVE  Afresh'
  BY <1>8 DEF Mirror!fetch_ref_to_mirror
<1>9. ASSUME Mirror!FetchFails
      PROVE  Afresh'
  BY <1>9 DEF Mirror!FetchFails
<1>10. ASSUME Mirror!Resolves
      PROVE  Afresh'
  BY <1>10 DEF Mirror!Resolves
<1>11. ASSUME Mirror!Lists
      PROVE  Afresh'
  BY <1>11 DEF Mirror!Lists
<1>12. ASSUME Mirror!ListFails
      PROVE  Afresh'
  BY <1>12 DEF Mirror!ListFails
<1>13. ASSUME Mirror!rebuild_bare_mirror
      PROVE  Afresh'
  BY <1>13 DEF Mirror!rebuild_bare_mirror
<1>14. ASSUME Mirror!DiscardFails
      PROVE  Afresh'
  BY <1>14 DEF Mirror!DiscardFails
<1>15. ASSUME Mirror!ResolvesLast
      PROVE  Afresh'
  BY <1>15 DEF Mirror!ResolvesLast
<1>16. ASSUME Mirror!checkout_from_mirror
      PROVE  Afresh'
  BY <1>16 DEF Mirror!checkout_from_mirror
<1>17. ASSUME Mirror!CheckoutFails
      PROVE  Afresh'
  BY <1>17 DEF Mirror!CheckoutFails
<1>18. ASSUME NEW n \in Tag, Mirror!Damages(n)
      PROVE  Afresh'
  BY <1>18 DEF Mirror!Damages
<1>19. ASSUME Mirror!purge
      PROVE  Afresh'
  BY <1>19 DEF Mirror!purge
<1>20. ASSUME Mirror!Dies
      PROVE  Afresh'
  BY <1>20 DEF Mirror!Dies
<1>21. QED
  BY <1>1, <1>2, <1>3, <1>4, <1>5, <1>6, <1>7, <1>8, <1>9, <1>10, <1>11, <1>12, <1>13, <1>14, <1>15, <1>16, <1>17,
     <1>18, <1>19, <1>20 DEF Mirror!MirrorNext

\* A pull fetches before it discards.
LEMMA TriedStays ==
  ASSUME MirrorInv, Mirror!MirrorNext
  PROVE  Tried'
<1> USE DEF MirrorInv, MirrorType, Mirrors, Pulls, Mirror!NoMirror, Mirror!NoPull, Mirror!At, Mirror!Goes,
        Mirror!Elsewhere, Mirror!Fails, Mirror!is_usable, Tried
<1>1. ASSUME NEW r \in Remote, NEW ref \in Tag \cup {Mirror!Latest}, Mirror!Begins(r, ref)
      PROVE  Tried'
  BY <1>1 DEF Mirror!Begins
<1>2. ASSUME NEW r \in Remote, NEW n \in Tag \cup {"main"}, Mirror!Publishes(r, n)
      PROVE  Tried'
  <2>1. CASE pull.at = "none" \/ mirror.origin # r
    <3>1. pull' = pull /\ mirror' = mirror /\ \A q \in Remote \ {r} : upstream'[q] = upstream[q]
      BY <1>2, <2>1 DEF Mirror!Publishes
    <3>2. CASE pull.at \in {"resolve", "list"}
      <4>1. mirror.origin \in Remote \ {r}
        BY <2>1, <3>2 DEF Grounded
      <4>2. Mirror!remote_has_revision(mirror.origin, pull.ref)' <=> Mirror!remote_has_revision(mirror.origin, pull.ref)
        BY <3>1, <4>1 DEF Mirror!remote_has_revision
      <4>3. QED
        BY <3>1, <4>2
    <3>3. CASE pull.at \notin {"resolve", "list"}
      BY <3>1, <3>3
    <3>4. QED
      BY <3>2, <3>3
  <2>2. CASE pull.at # "none" /\ mirror.origin = r
    <3>1. pull \in Pulls /\ mirror' = mirror
      BY <1>2, <2>2, PullIs DEF Mirror!Publishes
    <3>2. pull' = [pull EXCEPT !.advertised = @ \/ pull.ref = n]
      BY <1>2, <2>2 DEF Mirror!Publishes
    <3>3. /\ pull'.at = pull.at /\ pull'.fetched = pull.fetched /\ pull'.again = pull.again /\ pull'.ref = pull.ref
          /\ pull'.advertised <=> pull.advertised \/ pull.ref = n
      BY <3>1, <3>2
    <3>4. (pull.ref # n /\ Mirror!remote_has_revision(r, pull.ref)') => Mirror!remote_has_revision(r, pull.ref)
      <4>1. DOMAIN upstream'[r] = DOMAIN upstream[r] \cup {n} /\ Mirror!Branch \cap DOMAIN upstream[r] # {}
        BY <1>2 DEF Mirror!Publishes, Grounded
      <4>2. CASE pull.ref = Mirror!Latest
        BY <4>1, <4>2 DEF Mirror!remote_has_revision
      <4>3. CASE pull.ref # Mirror!Latest
        BY <3>3, <4>1, <4>3 DEF Mirror!remote_has_revision
      <4>4. QED
        BY <4>2, <4>3
    <3>5. QED
      BY <2>2, <3>1, <3>3, <3>4
  <2>3. QED
    BY <2>1, <2>2
<1>3. ASSUME Mirror!open_mirror_with_remote
      PROVE  Tried'
  BY <1>3 DEF Mirror!open_mirror_with_remote
<1>4. ASSUME Mirror!init_bare
      PROVE  Tried'
  BY <1>4 DEF Mirror!init_bare
<1>5. ASSUME Mirror!AddsOrigin
      PROVE  Tried'
  BY <1>5 DEF Mirror!AddsOrigin
<1>6. ASSUME Mirror!record_remote
      PROVE  Tried'
  BY <1>6 DEF Mirror!record_remote
<1>7. ASSUME Mirror!Looks
      PROVE  Tried'
  BY <1>7 DEF Mirror!Looks
<1>8. ASSUME Mirror!fetch_ref_to_mirror
      PROVE  Tried'
  <2>1. pull \in Pulls /\ pull.at = "fetch"
    BY <1>8, PullIs DEF Mirror!fetch_ref_to_mirror
  <2>2. /\ pull'.at = IF pull.again THEN "last" ELSE "resolve"
        /\ pull'.fetched /\ pull'.ref = pull.ref /\ mirror'.origin = mirror.origin /\ upstream' = upstream
        /\ Mirror!remote_has_revision(mirror.origin, pull.ref) => pull'.advertised
    BY <1>8, <2>1 DEF Mirror!fetch_ref_to_mirror
  <2>3. Mirror!remote_has_revision(mirror.origin, pull.ref)' <=> Mirror!remote_has_revision(mirror.origin, pull.ref)
    BY <2>2 DEF Mirror!remote_has_revision
  <2>4. QED
    BY <2>2, <2>3
<1>9. ASSUME Mirror!FetchFails
      PROVE  Tried'
  BY <1>9 DEF Mirror!FetchFails
<1>10. ASSUME Mirror!Resolves
      PROVE  Tried'
  <2>1. /\ pull.at = "resolve" /\ pull'.at \in {"list", "checkout"} /\ pull'.fetched = pull.fetched /\ pull'.ref = pull.ref
        /\ pull'.advertised = pull.advertised /\ UNCHANGED <<upstream, mirror>>
    BY <1>10 DEF Mirror!Resolves
  <2>2. Mirror!remote_has_revision(mirror.origin, pull.ref)' <=> Mirror!remote_has_revision(mirror.origin, pull.ref)
    BY <2>1 DEF Mirror!remote_has_revision
  <2>3. QED
    BY <2>1, <2>2
<1>11. ASSUME Mirror!Lists
      PROVE  Tried'
  <2>1. /\ pull.at = "list" /\ pull \in Pulls
        /\ \/ pull' = Mirror!NoPull
           \/ /\ Mirror!remote_has_revision(mirror.origin, pull.ref)
              /\ pull' = [pull EXCEPT !.at = "discard", !.lister = mirror.origin]
    BY <1>11, PullIs DEF Mirror!Lists
  <2>2. CASE pull' = Mirror!NoPull
    BY <2>2
  <2>3. CASE /\ Mirror!remote_has_revision(mirror.origin, pull.ref)
             /\ pull' = [pull EXCEPT !.at = "discard", !.lister = mirror.origin]
    <3>1. pull.advertised /\ pull.fetched
      BY <2>1, <2>3
    <3>2. pull'.advertised /\ pull'.fetched /\ pull'.at = "discard"
      BY <2>1, <2>3, <3>1
    <3>3. QED
      BY <3>2
  <2>4. QED
    BY <2>1, <2>2, <2>3
<1>12. ASSUME Mirror!ListFails
      PROVE  Tried'
  BY <1>12 DEF Mirror!ListFails
<1>13. ASSUME Mirror!rebuild_bare_mirror
      PROVE  Tried'
  <2>1. pull \in Pulls /\ pull.at = "discard" /\ pull' = [pull EXCEPT !.at = "ensure", !.again = TRUE]
    BY <1>13, PullIs DEF Mirror!rebuild_bare_mirror
  <2>2. QED
    BY <2>1
<1>14. ASSUME Mirror!DiscardFails
      PROVE  Tried'
  BY <1>14 DEF Mirror!DiscardFails
<1>15. ASSUME Mirror!ResolvesLast
      PROVE  Tried'
  BY <1>15 DEF Mirror!ResolvesLast
<1>16. ASSUME Mirror!checkout_from_mirror
      PROVE  Tried'
  BY <1>16 DEF Mirror!checkout_from_mirror
<1>17. ASSUME Mirror!CheckoutFails
      PROVE  Tried'
  BY <1>17 DEF Mirror!CheckoutFails
<1>18. ASSUME NEW n \in Tag, Mirror!Damages(n)
      PROVE  Tried'
  BY <1>18 DEF Mirror!Damages
<1>19. ASSUME Mirror!purge
      PROVE  Tried'
  BY <1>19 DEF Mirror!purge
<1>20. ASSUME Mirror!Dies
      PROVE  Tried'
  BY <1>20 DEF Mirror!Dies
<1>21. QED
  BY <1>1, <1>2, <1>3, <1>4, <1>5, <1>6, <1>7, <1>8, <1>9, <1>10, <1>11, <1>12, <1>13, <1>14, <1>15, <1>16, <1>17,
     <1>18, <1>19, <1>20 DEF Mirror!MirrorNext

\* A fetch that was needed leaves what the origin has.
LEMMA FoundStays ==
  ASSUME MirrorInv, Mirror!MirrorNext
  PROVE  FoundIsOfOrigin'
<1> USE DEF MirrorInv, MirrorType, Mirrors, Pulls, Mirror!NoMirror, Mirror!NoPull, Mirror!At, Mirror!Goes,
        Mirror!Elsewhere, Mirror!Fails, Mirror!is_usable, FoundIsOfOrigin
<1>1. ASSUME NEW r \in Remote, NEW ref \in Tag \cup {Mirror!Latest}, Mirror!Begins(r, ref)
      PROVE  FoundIsOfOrigin'
  BY <1>1 DEF Mirror!Begins
<1>2. ASSUME NEW r \in Remote, NEW n \in Tag \cup {"main"}, Mirror!Publishes(r, n)
      PROVE  FoundIsOfOrigin'
  <2>1. Found' = Found
    BY <1>2 DEF Mirror!Publishes, Found, Mirror!resolve_in_mirror
  <2>2. QED
    BY <1>2, <2>1 DEF Mirror!Publishes
<1>3. ASSUME Mirror!open_mirror_with_remote
      PROVE  FoundIsOfOrigin'
  <2>1. pull \in Pulls /\ ~pull.again
    BY <1>3, PullIs DEF Mirror!open_mirror_with_remote, Afresh
  <2>2. pull'.at \in {"look", "record"}
    BY <1>3, <2>1 DEF Mirror!open_mirror_with_remote
  <2>3. QED
    BY <2>2
<1>4. ASSUME Mirror!init_bare
      PROVE  FoundIsOfOrigin'
  <2>1. pull'.at \notin {"fetch", "resolve", "last", "checkout"}
    BY <1>4, PullIs DEF Mirror!init_bare
  <2>2. QED
    BY <2>1
<1>5. ASSUME Mirror!AddsOrigin
      PROVE  FoundIsOfOrigin'
  <2>1. pull'.at \notin {"fetch", "resolve", "last", "checkout"}
    BY <1>5, PullIs DEF Mirror!AddsOrigin
  <2>2. QED
    BY <2>1
<1>6. ASSUME Mirror!record_remote
      PROVE  FoundIsOfOrigin'
  <2>1. pull \in Pulls /\ pull'.at \in {"look", "fetch"} /\ mirror'.refs = mirror.refs
    BY <1>6, PullIs DEF Mirror!record_remote
  <2>2. pull'.at = "fetch" => mirror.refs = Mirror!NoRefs
    BY <1>6, <2>1 DEF Mirror!record_remote, Afresh
  <2>3. pull'.at = "fetch" => Found' = {}
    BY <2>1, <2>2, NoRefsIs DEF Found, Mirror!resolve_in_mirror, Mirror!Named, Mirror!resolve_default_branch
  <2>4. QED
    BY <2>1, <2>3
<1>7. ASSUME Mirror!Looks
      PROVE  FoundIsOfOrigin'
  <2>1. Found' = Found /\ (pull'.at = "fetch" => Found = {}) /\ pull'.at \in {"fetch", "checkout"} /\ ~pull'.fetched
    BY <1>7 DEF Mirror!Looks, Found, Mirror!resolve_in_mirror, Tried
  <2>2. QED
    BY <2>1
<1>8. ASSUME Mirror!fetch_ref_to_mirror
      PROVE  FoundIsOfOrigin'
  <2>1. pull \in Pulls /\ mirror \in Mirrors /\ mirror.origin \in Remote /\ Found = {}
    BY <1>8, PullIs DEF Mirror!fetch_ref_to_mirror, Grounded
  <2> DEFINE names == Mirror!refspec_for(pull.ref)
             old == mirror.refs
             new == mirror'.refs
  <2>2. /\ pull'.at = (IF pull.again THEN "last" ELSE "resolve") /\ pull'.ref = pull.ref /\ pull'.lister = pull.lister
        /\ mirror'.origin = mirror.origin
    BY <1>8, <2>1 DEF Mirror!fetch_ref_to_mirror
  <2>3. /\ DOMAIN new = DOMAIN old \cup names
        /\ \A n \in DOMAIN new \ names : new[n] = old[n]
        /\ \A n \in names : \/ n \in DOMAIN old /\ old[n] = Mirror!Lost /\ new[n] = Mirror!Lost
                            \/ new[n].repo = mirror.origin /\ new[n] # Mirror!Lost
    BY <1>8, <2>1, Fetched
  <2> HIDE DEF new, names, old
  <2>4. \A c \in Found' : c.repo = mirror.origin
    <3>1. Found' = {new[n] : n \in Mirror!Named(new, pull.ref)} \ {Mirror!Lost}
      BY <2>2 DEF Found, new, Mirror!resolve_in_mirror, Mirror!Named, Mirror!resolve_default_branch
    <3>2. ASSUME NEW n \in Mirror!Named(new, pull.ref), n \notin names
          PROVE  new[n] = Mirror!Lost
      <4>1. n \in Mirror!Named(old, pull.ref) /\ n \in DOMAIN old
        <5>1. CASE pull.ref # Mirror!Latest
          BY <2>3, <3>2, <5>1 DEF Mirror!Named
        <5>2. CASE pull.ref = Mirror!Latest
          <6>1. names \subseteq Mirror!Branch
            BY <5>2 DEF names, Mirror!refspec_for
          <6>2. CASE "main" \in DOMAIN new
            BY <2>3, <3>2, <5>2, <6>2 DEF Mirror!Named, Mirror!resolve_default_branch
          <6>3. CASE "main" \notin DOMAIN new
            <7>1. n \in Mirror!Branch /\ Mirror!Branch \cap DOMAIN new = {n}
              BY <3>2, <5>2, <6>3 DEF Mirror!Named, Mirror!resolve_default_branch
            <7>2. "main" \notin DOMAIN old /\ Mirror!Branch \cap DOMAIN old = {n}
              BY <2>3, <3>2, <6>1, <6>3, <7>1
            <7>3. QED
              BY <5>2, <7>1, <7>2 DEF Mirror!Named, Mirror!resolve_default_branch
          <6>4. QED
            BY <6>2, <6>3
        <5>3. QED
          BY <5>1, <5>2
      <4>2. old[n] = Mirror!Lost
        BY <2>1, <4>1 DEF Found, Mirror!resolve_in_mirror, old
      <4>3. QED
        BY <2>3, <3>2, <4>1, <4>2
    <3>3. QED
      BY <2>3, <3>1, <3>2
  <2>5. (pull.again /\ pull.ref # Mirror!Latest /\ pull.lister = mirror.origin) => Found' # {}
    <3> SUFFICES ASSUME pull.again, pull.ref # Mirror!Latest, pull.lister = mirror.origin
                 PROVE  Found' # {}
      OBVIOUS
    <3>1. DOMAIN old = {} /\ pull.ref \in names
      BY <1>8, <2>1, NoRefsIs DEF Mirror!fetch_ref_to_mirror, Afresh, old, names, Mirror!refspec_for,
         Mirror!remote_has_revision
    <3>2. new[pull.ref] # Mirror!Lost /\ pull.ref \in DOMAIN new
      BY <2>3, <3>1
    <3>3. QED
      BY <2>2, <3>2 DEF Found, new, Mirror!resolve_in_mirror, Mirror!Named
  <2>6. QED
    BY <2>2, <2>4, <2>5
<1>9. ASSUME Mirror!FetchFails
      PROVE  FoundIsOfOrigin'
  BY <1>9 DEF Mirror!FetchFails
<1>10. ASSUME Mirror!Resolves
      PROVE  FoundIsOfOrigin'
  <2>1. Found' = Found
    BY <1>10 DEF Mirror!Resolves, Found, Mirror!resolve_in_mirror
  <2>2. QED
    BY <1>10, <2>1 DEF Mirror!Resolves
<1>11. ASSUME Mirror!Lists
      PROVE  FoundIsOfOrigin'
  <2>1. pull'.at \notin {"fetch", "resolve", "last", "checkout"}
    BY <1>11, PullIs DEF Mirror!Lists
  <2>2. QED
    BY <2>1
<1>12. ASSUME Mirror!ListFails
      PROVE  FoundIsOfOrigin'
  BY <1>12 DEF Mirror!ListFails
<1>13. ASSUME Mirror!rebuild_bare_mirror
      PROVE  FoundIsOfOrigin'
  <2>1. pull'.at \notin {"fetch", "resolve", "last", "checkout"}
    BY <1>13, PullIs DEF Mirror!rebuild_bare_mirror
  <2>2. QED
    BY <2>1
<1>14. ASSUME Mirror!DiscardFails
      PROVE  FoundIsOfOrigin'
  BY <1>14 DEF Mirror!DiscardFails
<1>15. ASSUME Mirror!ResolvesLast
      PROVE  FoundIsOfOrigin'
  <2>1. CASE pull' = Mirror!NoPull
    BY <2>1
  <2>2. CASE pull' = [pull EXCEPT !.at = "checkout"]
    <3>1. Found' = Found
      BY <1>15, <2>2 DEF Mirror!ResolvesLast, Found, Mirror!resolve_in_mirror
    <3>2. QED
      BY <1>15, <2>2, <3>1 DEF Mirror!ResolvesLast
  <2>3. QED
    BY <1>15, <2>1, <2>2 DEF Mirror!ResolvesLast
<1>16. ASSUME Mirror!checkout_from_mirror
      PROVE  FoundIsOfOrigin'
  BY <1>16 DEF Mirror!checkout_from_mirror
<1>17. ASSUME Mirror!CheckoutFails
      PROVE  FoundIsOfOrigin'
  BY <1>17 DEF Mirror!CheckoutFails
<1>18. ASSUME NEW n \in Tag, Mirror!Damages(n)
      PROVE  FoundIsOfOrigin'
  BY <1>18 DEF Mirror!Damages
<1>19. ASSUME Mirror!purge
      PROVE  FoundIsOfOrigin'
  BY <1>19 DEF Mirror!purge
<1>20. ASSUME Mirror!Dies
      PROVE  FoundIsOfOrigin'
  BY <1>20 DEF Mirror!Dies
<1>21. QED
  BY <1>1, <1>2, <1>3, <1>4, <1>5, <1>6, <1>7, <1>8, <1>9, <1>10, <1>11, <1>12, <1>13, <1>14, <1>15, <1>16, <1>17,
     <1>18, <1>19, <1>20 DEF Mirror!MirrorNext

\* What the properties of the mirror say is kept by every step.
LEMMA ServedStays ==
  ASSUME MirrorInv, Mirror!MirrorNext
  PROVE  (Mirror!NothingWasted /\ Mirror!FetchedIsItself /\ ~stuck)'
<1> USE DEF MirrorInv, MirrorType, Mirrors, Pulls, Mirror!NoMirror, Mirror!NoPull, Mirror!At, Mirror!Goes,
        Mirror!Elsewhere, Mirror!Fails, Mirror!is_usable, Mirror!NothingWasted, Mirror!FetchedIsItself,
        Mirror!NotServed, Tried, FoundIsOfOrigin, Found
<1>1. ASSUME NEW r \in Remote, NEW ref \in Tag \cup {Mirror!Latest}, Mirror!Begins(r, ref)
      PROVE  (Mirror!NothingWasted /\ Mirror!FetchedIsItself /\ ~stuck)'
  BY <1>1 DEF Mirror!Begins
<1>2. ASSUME NEW r \in Remote, NEW n \in Tag \cup {"main"}, Mirror!Publishes(r, n)
      PROVE  (Mirror!NothingWasted /\ Mirror!FetchedIsItself /\ ~stuck)'
  BY <1>2 DEF Mirror!Publishes
<1>3. ASSUME Mirror!open_mirror_with_remote
      PROVE  (Mirror!NothingWasted /\ Mirror!FetchedIsItself /\ ~stuck)'
  BY <1>3 DEF Mirror!open_mirror_with_remote
<1>4. ASSUME Mirror!init_bare
      PROVE  (Mirror!NothingWasted /\ Mirror!FetchedIsItself /\ ~stuck)'
  BY <1>4 DEF Mirror!init_bare
<1>5. ASSUME Mirror!AddsOrigin
      PROVE  (Mirror!NothingWasted /\ Mirror!FetchedIsItself /\ ~stuck)'
  BY <1>5 DEF Mirror!AddsOrigin
<1>6. ASSUME Mirror!record_remote
      PROVE  (Mirror!NothingWasted /\ Mirror!FetchedIsItself /\ ~stuck)'
  BY <1>6 DEF Mirror!record_remote
<1>7. ASSUME Mirror!Looks
      PROVE  (Mirror!NothingWasted /\ Mirror!FetchedIsItself /\ ~stuck)'
  BY <1>7 DEF Mirror!Looks
<1>8. ASSUME Mirror!fetch_ref_to_mirror
      PROVE  (Mirror!NothingWasted /\ Mirror!FetchedIsItself /\ ~stuck)'
  BY <1>8 DEF Mirror!fetch_ref_to_mirror
<1>9. ASSUME Mirror!FetchFails
      PROVE  (Mirror!NothingWasted /\ Mirror!FetchedIsItself /\ ~stuck)'
  BY <1>9 DEF Mirror!FetchFails
<1>10. ASSUME Mirror!Resolves
      PROVE  (Mirror!NothingWasted /\ Mirror!FetchedIsItself /\ ~stuck)'
  BY <1>10 DEF Mirror!Resolves
<1>11. ASSUME Mirror!Lists
      PROVE  (Mirror!NothingWasted /\ Mirror!FetchedIsItself /\ ~stuck)'
  BY <1>11 DEF Mirror!Lists
<1>12. ASSUME Mirror!ListFails
      PROVE  (Mirror!NothingWasted /\ Mirror!FetchedIsItself /\ ~stuck)'
  BY <1>12 DEF Mirror!ListFails
<1>13. ASSUME Mirror!rebuild_bare_mirror
      PROVE  (Mirror!NothingWasted /\ Mirror!FetchedIsItself /\ ~stuck)'
  BY <1>13 DEF Mirror!rebuild_bare_mirror
<1>14. ASSUME Mirror!DiscardFails
      PROVE  (Mirror!NothingWasted /\ Mirror!FetchedIsItself /\ ~stuck)'
  BY <1>14 DEF Mirror!DiscardFails
<1>15. ASSUME Mirror!ResolvesLast
      PROVE  (Mirror!NothingWasted /\ Mirror!FetchedIsItself /\ ~stuck)'
  BY <1>15 DEF Mirror!ResolvesLast
<1>16. ASSUME Mirror!checkout_from_mirror
      PROVE  (Mirror!NothingWasted /\ Mirror!FetchedIsItself /\ ~stuck)'
  BY <1>16 DEF Mirror!checkout_from_mirror
<1>17. ASSUME Mirror!CheckoutFails
      PROVE  (Mirror!NothingWasted /\ Mirror!FetchedIsItself /\ ~stuck)'
  BY <1>17 DEF Mirror!CheckoutFails
<1>18. ASSUME NEW n \in Tag, Mirror!Damages(n)
      PROVE  (Mirror!NothingWasted /\ Mirror!FetchedIsItself /\ ~stuck)'
  BY <1>18 DEF Mirror!Damages
<1>19. ASSUME Mirror!purge
      PROVE  (Mirror!NothingWasted /\ Mirror!FetchedIsItself /\ ~stuck)'
  BY <1>19 DEF Mirror!purge
<1>20. ASSUME Mirror!Dies
      PROVE  (Mirror!NothingWasted /\ Mirror!FetchedIsItself /\ ~stuck)'
  BY <1>20 DEF Mirror!Dies
<1>21. QED
  BY <1>1, <1>2, <1>3, <1>4, <1>5, <1>6, <1>7, <1>8, <1>9, <1>10, <1>11, <1>12, <1>13, <1>14, <1>15, <1>16, <1>17,
     <1>18, <1>19, <1>20 DEF Mirror!MirrorNext

\* The invariant of the mirror holds in every state.
LEMMA MirrorHolds == PartsSpec => [](part = "mirrors" => MirrorInv)
<1>1. PartsInit => (part = "mirrors" => MirrorInv)
  <2> SUFFICES ASSUME Mirror!MirrorInit PROVE MirrorInv
    BY DEF PartsInit, PartsStart
  <2> USE DEF Mirror!MirrorInit
  <2>1. PICK bs \in [Remote -> {{"main"}, {"dev", "next"}}] : upstream = [r \in Remote |-> [b \in bs[r] |-> 0]]
    <3> DEFINE bs == [r \in Remote |-> DOMAIN upstream[r]]
    <3>1. upstream \in [Remote -> {[b \in x |-> 0] : x \in {{"main"}, {"dev", "next"}}}]
      OBVIOUS
    <3>2. \A r \in Remote : /\ DOMAIN upstream[r] \in {{"main"}, {"dev", "next"}}
                            /\ upstream[r] = [b \in DOMAIN upstream[r] |-> 0]
      BY <3>1
    <3>3. bs \in [Remote -> {{"main"}, {"dev", "next"}}] /\ upstream = [r \in Remote |-> [b \in bs[r] |-> 0]]
      BY <3>1, <3>2
    <3>4. QED
      BY <3>3
  <2>2. \A r \in Remote : upstream[r] \in Heads /\ Mirror!Branch \cap DOMAIN upstream[r] # {}
    <3> SUFFICES ASSUME NEW r \in Remote
                 PROVE  upstream[r] \in Heads /\ Mirror!Branch \cap DOMAIN upstream[r] # {}
      OBVIOUS
    <3>1. bs[r] \in SUBSET Names /\ Mirror!Branch \cap bs[r] # {}
      BY <2>1 DEF Names, Mirror!Branch
    <3>2. upstream[r] \in [bs[r] -> Nat] /\ DOMAIN upstream[r] = bs[r]
      BY <2>1
    <3>3. QED
      BY <3>1, <3>2 DEF Heads
  <2>3. MirrorType
    <3>1. upstream \in [Remote -> Heads]
      BY <2>1, <2>2
    <3>2. Mirror!NoMirror \in Mirrors
      BY NoRefsIs DEF Mirrors, Mirror!NoMirror
    <3>3. QED
      BY <3>1, <3>2 DEF MirrorType
  <2>4. Grounded /\ Afresh /\ Tried /\ FoundIsOfOrigin
    BY <2>2 DEF Grounded, Afresh, Tried, FoundIsOfOrigin, Mirror!NoPull, Mirror!NoMirror
  <2>5. QED
    BY <2>3, <2>4 DEF MirrorInv, Mirror!NothingWasted, Mirror!FetchedIsItself
<1>2. (part = "mirrors" => MirrorInv) /\ [PartsNext]_partsVars => (part = "mirrors" => MirrorInv)'
  <2> SUFFICES ASSUME part = "mirrors" => MirrorInv, [PartsNext]_partsVars, part' = "mirrors"
               PROVE  MirrorInv'
    OBVIOUS
  <2>1. part = "mirrors"
    BY DEF PartsNext, partsVars
  <2>2. CASE Mirror!MirrorNext
    BY <2>1, <2>2, MirrorTyped, GroundedStays, AfreshStays, TriedStays, FoundStays, ServedStays DEF MirrorInv
  <2>3. CASE UNCHANGED mirrors
    BY <2>1, <2>3 DEF mirrors, MirrorInv, MirrorType, Grounded, Afresh, Tried, FoundIsOfOrigin, Found,
      Mirror!resolve_in_mirror, Mirror!remote_has_revision, Mirror!NothingWasted, Mirror!FetchedIsItself
  <2>4. QED
    BY <2>1, <2>2, <2>3, MirrorMoves
<1>3. QED
  BY <1>1, <1>2, PTL DEF PartsSpec

-----------------------------------------------------------------------------
(* Templates and containers (TemplateStore). *)

\* A step of the whole is a step of the templates, when they are followed.
LEMMA StoreMoves ==
  ASSUME part = "store", [PartsNext]_partsVars
  PROVE  part' = "store" /\ (Store!StoreNext \/ UNCHANGED store)
BY DEF PartsNext, partsVars, TreeStep, StoreStep, CheckStep, DownloadStep, DeletionStep, RepositoryStep,
       InstallStep, CopyStep, RegistryStep, SettingStep, MirrorStep, FeedStep, EndpointStep, OpeningStep

Actors == Task \cup Client
Bases == {Store!Base(r) : r \in Ref}
Sealeds == {Store!Sealed(n, r, x) : n \in Name, r \in Ref, x \in Recipe}
States == Store!TreeState
Index == [Name -> Sealeds \cup {Nothing}]
Busy(t, op, steps) == does[t] # Nothing /\ does[t].op = op /\ at[t] \in steps
Places == {"idle", "called", "prepare", "publish", "delete", "artifacts", "copy", "read", "index", "list"}
Placed == at \in [Actors -> Places]
Asking == does \in [Actors -> Requests \cup {Nothing}]
Holding == holds \in [Actors -> States \cup {Nothing}]
Seeing == DOMAIN seen = Actors
Filed ==
  /\ bases \subseteq Ref /\ sealed \in Index
  /\ trees \in [Store!TreeId -> States \cup {Nothing}] /\ DOMAIN listed = Instance
  /\ stale \in BOOLEAN
StoreType == Placed /\ Asking /\ Holding /\ Seeing /\ Filed
\* A thread that is at work is at a step of its call.
Steps(op) ==
  CASE op = "pull" -> {"called", "prepare", "publish", "index"}
    [] op \in {"uninstall", "remove"} -> {"called", "delete", "index"}
    [] op = "build" -> {"called", "artifacts", "copy", "publish", "read", "index"}
    [] op = "import" -> {"called", "publish", "index"}
    [] op = "create" -> {"called", "copy", "publish", "prepare", "list"}
AtOwn(t) == IF does[t] = Nothing THEN at[t] = "idle" ELSE at[t] \in Steps(does[t].op)
\* What it has read, and what it has staged.
HasRead(t) ==
  /\ Busy(t, "pull", {"prepare", "publish", "index"}) => seen[t] \subseteq Ref /\ does[t].ref \notin seen[t]
  /\ Busy(t, "uninstall", {"delete", "index"}) => seen[t] \subseteq Ref /\ does[t].ref \in seen[t]
  /\ Busy(t, "remove", {"delete", "index"}) => seen[t] \in Index /\ seen[t][does[t].name] # Nothing
  /\ Busy(t, "build", {"index"}) => seen[t] \in Index /\ seen[t][does[t].name] = Nothing
  /\ Busy(t, "import", {"publish", "index"}) => seen[t] \in Index /\ seen[t][does[t].name] = Nothing
  /\ Busy(t, "create", {"copy"}) => seen[t] \in Bases \cup Sealeds
  /\ at[t] = "publish" => holds[t] # Nothing
  /\ Busy(t, "pull", {"publish"}) => holds[t] = Store!Tree(Here)
AtWork == \A t \in Actors : AtOwn(t) /\ HasRead(t)
\* Tasks have their keys to themselves.
Keyed ==
  /\ \A t \in Actors : does[t] # Nothing => (t \in Task <=> Store!KeysOf(does[t]) # {})
  /\ \A t, u \in Actors :
       (t # u /\ does[t] # Nothing /\ does[u] # Nothing) => Store!KeysOf(does[t]) \cap Store!KeysOf(does[u]) = {}
\* Markers tell the truth, in published trees and in staged ones; a base is of
\* this machine or has nothing.
Honest(x) == (x.marked # Nothing /\ (x.whole \/ x.built # Nothing)) => x.built = x.marked
TreesTrue ==
  /\ \A d \in Store!TreeId : trees[d] # Nothing => Honest(trees[d])
  /\ \A d \in Bases : trees[d] # Nothing => trees[d].built \in {Here, Nothing} /\ trees[d].marked \in {Here, Nothing}
MarkersTrue == TreesTrue /\ \A t \in Actors : holds[t] # Nothing => Honest(holds[t])
\* A container that is being made is nobody else's, and is listed last.
MadeBy(t) ==
  /\ Busy(t, "create", {"copy", "publish", "prepare", "list"}) => listed[does[t].id] = Nothing
  /\ Busy(t, "create", {"prepare", "list"}) => trees[Store!Container(does[t].id)] # Nothing
  /\ Busy(t, "create", {"list"}) =>
       trees[Store!Container(does[t].id)].linked /\ trees[Store!Container(does[t].id)].built = Here
Made == \A t \in Actors : MadeBy(t)
\* A reference in the index has its base, or somebody has just deleted it; a pull
\* adds one that is not there.
Leaving(r) == \E t \in Actors : Busy(t, "uninstall", {"index"}) /\ does[t].ref = r
BasesAgree ==
  /\ \A r \in bases : trees[Store!Base(r)] # Nothing \/ Leaving(r)
  /\ \A t \in Actors :
       /\ Busy(t, "pull", {"prepare", "publish", "index"}) => does[t].ref \notin bases
       /\ Busy(t, "pull", {"index"}) => trees[Store!Base(does[t].ref)] # Nothing \/ Leaving(does[t].ref)
\* Of a sealed tree: the names it has, the calls that are about to give it one, and
\* the removals that are about to take one away.
Named(d) == {n \in Name : sealed[n] = d}
Given(t) == IF does[t].op = "build" THEN Store!Sealed(does[t].name, does[t].ref, does[t].recipe)
            ELSE Store!ArchiveTree(does[t].archive)
Coming(d) == {t \in Actors : (Busy(t, "build", {"read", "index"}) \/ Busy(t, "import", {"index"})) /\ Given(t) = d}
Going(d) == {t \in Actors : Busy(t, "remove", {"index"}) /\ seen[t][does[t].name] = d}
There(d) == IF trees[d] = Nothing THEN 0 ELSE 1
Balanced ==
  \A d \in Sealeds : Cardinality(Named(d)) + Cardinality(Coming(d)) <= Cardinality(Going(d)) + There(d)
StoreInv ==
  /\ StoreType /\ AtWork /\ Keyed /\ MarkersTrue /\ Made /\ Store!ListedIsReady
  /\ ~stale => BasesAgree /\ Balanced

\* The directories of bases, sealed templates and containers are different ones.
LEMMA TreesApart ==
  /\ \A r \in Ref : Store!Base(r) \in Bases
  /\ \A n \in Name, r \in Ref, x \in Recipe : Store!Sealed(n, r, x) \in Sealeds
  /\ \A i \in Instance : Store!Container(i) \in Store!TreeId \ (Bases \cup Sealeds)
  /\ Bases \subseteq Store!TreeId /\ Sealeds \subseteq Store!TreeId /\ Bases \cap Sealeds = {}
  /\ \A q, r \in Ref : Store!Base(q) = Store!Base(r) => q = r
  /\ \A i, j \in Instance : Store!Container(i) = Store!Container(j) => i = j
<1>1. /\ \A d \in Bases : d.sort = "base"
      /\ \A d \in Sealeds : d.sort = "sealed"
      /\ \A i \in Instance : Store!Container(i).sort = "container"
  BY DEF Bases, Sealeds, Store!Base, Store!Sealed, Store!Container
<1>2. /\ \A r \in Ref : Store!Base(r) \in Bases
      /\ \A n \in Name, r \in Ref, x \in Recipe : Store!Sealed(n, r, x) \in Sealeds
  BY DEF Bases, Sealeds
<1>3. \A i \in Instance : Store!Container(i) \in Store!TreeId
  BY DEF Store!TreeId
<1>4. /\ \A r \in Ref : Store!Base(r).ref = r
      /\ \A i \in Instance : Store!Container(i).id = i
  BY DEF Store!Base, Store!Container
<1>5. Bases \subseteq Store!TreeId /\ Sealeds \subseteq Store!TreeId
  BY DEF Bases, Sealeds, Store!TreeId
<1>6. QED
  BY <1>1, <1>2, <1>3, <1>4, <1>5

\* What is there is not the value for nothing.
LEMMA NoValue ==
  /\ Here # Nothing /\ Nothing \notin Requests /\ Nothing \notin Bases \cup Sealeds /\ Nothing \notin States
  /\ \A r \in Ref : Store!Base(r) # Nothing
BY TemplateAssumption, TreesApart DEF States

\* What a request is.
LEMMA RequestIs ==
  ASSUME NEW c \in Requests
  PROVE  /\ c.op \in {"pull", "uninstall", "build", "create", "import", "remove"}
         /\ c.op \in {"pull", "uninstall", "build"} => c.ref \in Ref
         /\ c.op \in {"build", "import", "remove"} => c.name \in Name
         /\ c.op = "build" => Store!Sealed(c.name, c.ref, c.recipe) \in Sealeds
         /\ c.op = "create" => c.id \in Instance
         /\ c.op = "import" => /\ Store!ArchiveTree(c.archive) \in Sealeds
                               /\ c.archive.platform \in Store!Platforms
<1>1. c.op = "import" => Store!ArchiveTree(c.archive) \in Sealeds
  <2> SUFFICES ASSUME c.op = "import" PROVE Store!ArchiveTree(c.archive) \in Sealeds
    OBVIOUS
  <2>1. Store!ArchiveTree(c.archive) \in Store!TreeId /\ Store!ArchiveTree(c.archive).sort = "sealed"
    BY TemplateAssumption DEF Store!ArchiveTree, Store!Sealed
  <2>2. Store!TreeId = Bases \cup Sealeds \cup {Store!Container(i) : i \in Instance}
    BY DEF Store!TreeId, Bases, Sealeds
  <2>3. \A d \in Bases \cup {Store!Container(i) : i \in Instance} : d.sort # "sealed"
    BY DEF Bases, Store!Base, Store!Container
  <2>4. QED
    BY <2>1, <2>2, <2>3
<1>2. c.op = "import" => c.archive.platform \in Store!Platforms
  BY DEF Store!Platforms
<1>3. QED
  BY <1>1, <1>2, TemplateAssumption, TreesApart

\* What a step makes of the state of a tree is a state of a tree.
LEMMA StatesAre ==
  /\ \A p \in Store!Platforms : Store!Tree(p) \in States /\ Store!Tree(p).built = p /\ Store!Tree(p).marked = p
  /\ \A x \in States : /\ [x EXCEPT !.linked = FALSE] \in States /\ [x EXCEPT !.linked = TRUE] \in States
                       /\ [x EXCEPT !.built = Here] \in States /\ [x EXCEPT !.marked = Here] \in States
                       /\ Store!Prepared(x) \in States
                       /\ \A b \in {x.built, Nothing}, m \in {x.marked, Nothing} :
                            [x EXCEPT !.whole = FALSE, !.built = b, !.marked = m] \in States
  /\ Here \in Store!Platforms /\ Nothing \in Store!Platforms
<1>1. Here \in Store!Platforms /\ Nothing \in Store!Platforms
  BY DEF Store!Platforms
<1>2. QED
  BY <1>1 DEF States, Store!TreeState, Store!Tree, Store!Prepared

\* What a caller does, and that everybody else waits meanwhile.
Acts(t) ==
  \/ \E c \in Requests : Store!Begin(t, c)
  \/ Store!PullReads(t)
  \/ Store!PullPrepares(t)
  \/ Store!PullPublishes(t)
  \/ Store!PullIndexes(t)
  \/ Store!UninstallReads(t)
  \/ Store!RemoveReads(t)
  \/ Store!Deletes(t)
  \/ Store!UninstallIndexes(t)
  \/ Store!RemoveIndexes(t)
  \/ Store!BuildReads(t)
  \/ Store!BuildsArtifacts(t)
  \/ Store!BuildCopies(t)
  \/ Store!BuildPublishes(t)
  \/ Store!BuildReadsIndex(t)
  \/ Store!BuildIndexes(t)
  \/ Store!ImportReads(t)
  \/ Store!ImportPublishes(t)
  \/ Store!ImportIndexes(t)
  \/ Store!CreateResolves(t)
  \/ Store!CreateCopies(t)
  \/ Store!CreatePublishes(t)
  \/ Store!CreatePrepares(t)
  \/ Store!CreateLists(t)
Waits(u) == at'[u] = at[u] /\ does'[u] = does[u] /\ seen'[u] = seen[u] /\ holds'[u] = holds[u]

\* A step is one caller's, or the end of the daemon.
LEMMA SomebodyActs == Store!StoreNext => Store!StoreCrash \/ \E t \in Actors : Acts(t)
BY DEF Store!StoreNext, Acts, Actors, Store!Actor

\* What a step leaves of a thread.
LEMMA Ended ==
  ASSUME StoreType, NEW t \in Actors, Store!Ends(t)
  PROVE  /\ Placed' /\ Asking' /\ Holding' /\ Seeing'
         /\ at'[t] = "idle" /\ does'[t] = Nothing /\ holds'[t] = Nothing
BY DEF StoreType, Placed, Places, Asking, Holding, Seeing, Store!Ends, Store!Absent

\* A thread that goes on.
LEMMA Went ==
  ASSUME StoreType, NEW t \in Actors, NEW step \in Places, Store!Goes(t, step)
  PROVE  Placed' /\ at'[t] = step
BY DEF StoreType, Placed, Store!Goes

\* A thread that has read an index.
LEMMA HasSeen ==
  ASSUME StoreType, NEW t \in Actors, NEW found, Store!Reads(t, found)
  PROVE  Seeing' /\ seen'[t] = found
BY DEF StoreType, Seeing, Store!Reads

\* A copy has what the tree has, without its links.
LEMMA Copied ==
  ASSUME StoreType, NEW t \in Actors, NEW d \in Store!TreeId, Store!Copies(t, d)
  PROVE  Holding' /\ trees[d] \in States /\ holds'[t] = [trees[d] EXCEPT !.linked = FALSE] /\ holds'[t] \in States
BY StatesAre DEF StoreType, Holding, Filed, Store!Copies, Store!Exists, Store!Absent

\* What a thread is about to change.
LEMMA Working ==
  ASSUME StoreInv, NEW t \in Actors, at[t] # "idle"
  PROVE  /\ does[t] \in Requests /\ at[t] \in Steps(does[t].op)
         /\ at[t] = "delete" => does[t].op \in {"uninstall", "remove"}
         /\ at[t] = "delete" /\ does[t].op = "uninstall" => Store!Doomed(t) = Store!Base(does[t].ref)
         /\ at[t] = "delete" /\ does[t].op = "remove" => Store!Doomed(t) = seen[t][does[t].name] /\ Store!Doomed(t) \in Sealeds
<1>1. does[t] \in Requests /\ at[t] \in Steps(does[t].op) /\ does[t] # Nothing
  BY NoValue DEF StoreInv, StoreType, Asking, AtWork, AtOwn
<1>2. at[t] = "delete" => does[t].op \in {"uninstall", "remove"}
  BY <1>1, RequestIs DEF Steps
<1>3. at[t] = "delete" /\ does[t].op = "uninstall" => Store!Doomed(t) = Store!Base(does[t].ref)
  BY DEF Store!Doomed
<1>4. at[t] = "delete" /\ does[t].op = "remove" => Store!Doomed(t) = seen[t][does[t].name] /\ Store!Doomed(t) \in Sealeds
  BY <1>1, RequestIs DEF StoreInv, AtWork, HasRead, Busy, Index, Store!Doomed
<1>5. QED
  BY <1>1, <1>2, <1>3, <1>4
\* What a step leaves of the directories.
TreesTyped == trees \in [Store!TreeId -> States \cup {Nothing}]

\* One directory changes.
LEMMA OneTree ==
  ASSUME TreesTyped, NEW d \in Store!TreeId, NEW x \in States \cup {Nothing}, trees' = [trees EXCEPT ![d] = x]
  PROVE  TreesTyped' /\ trees'[d] = x /\ \A e \in Store!TreeId \ {d} : trees'[e] = trees[e]
BY DEF TreesTyped

\* A tree is published where there was none.
LEMMA PublishedTree ==
  ASSUME StoreInv, NEW t \in Actors, at[t] = "publish", NEW d \in Store!TreeId, Store!Publish(t, d)
  PROVE  /\ TreesTyped' /\ \A e \in Store!TreeId \ {d} : trees'[e] = trees[e]
         /\ trees[d] = Nothing /\ trees'[d] = holds[t] /\ holds[t] \in States
<1>1. TreesTyped /\ holds[t] \in States
  BY DEF StoreInv, StoreType, Filed, TreesTyped, Holding, AtWork, HasRead
<1>2. QED
  BY <1>1, OneTree DEF Store!Publish, Store!Exists, Store!Absent
\* The removal of a tree goes on, is over, stops, or finds nothing.
Erodes(t) ==
  /\ trees[Store!Doomed(t)] \in States /\ trees'[Store!Doomed(t)] \in States /\ ~trees'[Store!Doomed(t)].whole
  /\ trees'[Store!Doomed(t)].built \in {trees[Store!Doomed(t)].built, Nothing}
  /\ trees'[Store!Doomed(t)].marked \in {trees[Store!Doomed(t)].marked, Nothing}
  /\ UNCHANGED <<at, does, seen, holds>>
Removed(t) ==
  trees[Store!Doomed(t)] \in States /\ trees'[Store!Doomed(t)] = Nothing /\ Store!Goes(t, "index") /\ UNCHANGED <<does, seen, holds>>
FindsNone(t) ==
  trees[Store!Doomed(t)] = Nothing /\ trees' = trees /\ Store!Goes(t, "index") /\ UNCHANGED <<does, seen, holds>>

\* A removal changes the tree it removes and no other.
LEMMA Deleting ==
  ASSUME StoreInv, NEW t \in Actors, Store!Deletes(t)
  PROVE  /\ at[t] = "delete" /\ Store!Doomed(t) \in Bases \cup Sealeds
         /\ TreesTyped' /\ \A e \in Store!TreeId \ {Store!Doomed(t)} : trees'[e] = trees[e]
         /\ Erodes(t) \/ Removed(t) \/ (trees' = trees /\ Store!Ends(t)) \/ FindsNone(t)
<1> DEFINE d == Store!Doomed(t)
<1>1. at[t] = "delete" /\ d \in Bases \cup Sealeds /\ d \in Store!TreeId
  BY Working, RequestIs, TreesApart DEF Store!Deletes
<1>2. TreesTyped /\ trees[d] \in States \cup {Nothing}
  BY <1>1 DEF StoreInv, StoreType, Filed, TreesTyped
<1> HIDE DEF d
<1>3. ASSUME NEW b \in {trees[d].built, Nothing}, NEW m \in {trees[d].marked, Nothing}, trees[d] # Nothing,
             trees' = [trees EXCEPT ![d] = [@ EXCEPT !.whole = FALSE, !.built = b, !.marked = m]],
             UNCHANGED <<at, does, seen, holds>>
      PROVE  (\A e \in Store!TreeId \ {d} : trees'[e] = trees[e]) /\ TreesTyped' /\ Erodes(t)
  <2> DEFINE x == [trees[d] EXCEPT !.whole = FALSE, !.built = b, !.marked = m]
  <2>1. trees[d] \in States
    BY <1>2, <1>3
  <2>2. x \in States
    BY <1>3, <2>1, StatesAre
  <2>3. ~x.whole /\ x.built = b /\ x.marked = m
    BY <2>1 DEF States, Store!TreeState
  <2>4. trees' = [trees EXCEPT ![d] = x]
    BY <1>3
  <2> HIDE DEF x
  <2>5. TreesTyped' /\ trees'[d] = x /\ \A e \in Store!TreeId \ {d} : trees'[e] = trees[e]
    BY <1>1, <1>2, <2>2, <2>4, OneTree
  <2>6. QED
    BY <1>3, <2>1, <2>2, <2>3, <2>5 DEF Erodes, d
<1>4. ASSUME trees[d] # Nothing, trees' = [trees EXCEPT ![d] = Nothing], Store!Goes(t, "index"), UNCHANGED <<does, seen, holds>>
      PROVE  (\A e \in Store!TreeId \ {d} : trees'[e] = trees[e]) /\ TreesTyped' /\ Removed(t)
  <2>1. TreesTyped' /\ trees'[d] = Nothing /\ \A e \in Store!TreeId \ {d} : trees'[e] = trees[e]
    BY <1>1, <1>2, <1>4, OneTree
  <2>2. QED
    BY <1>2, <1>4, <2>1 DEF Removed, d
<1>5. ASSUME trees' = trees, Store!Ends(t) \/ FindsNone(t)
      PROVE  (\A e \in Store!TreeId \ {d} : trees'[e] = trees[e]) /\ TreesTyped'
  BY <1>2, <1>5 DEF TreesTyped
<1>6. QED
  BY <1>1, <1>3, <1>4, <1>5 DEF Store!Deletes, Store!Exists, Store!Absent, FindsNone, d

\* A step is the step of one caller.
LEMMA OthersWait ==
  ASSUME StoreType, NEW t \in Actors, Acts(t)
  PROVE  \A u \in Actors \ {t} : Waits(u)
<1> USE DEF Waits, StoreType, Placed, Asking, Holding, Seeing, Store!Goes, Store!Reads, Store!Ends, Store!Copies
<1>1. ASSUME NEW c \in Requests, Store!Begin(t, c)
      PROVE  \A u \in Actors \ {t} : Waits(u)
  BY <1>1 DEF Store!Begin
<1>2. CASE Store!PullReads(t)
  BY <1>2 DEF Store!PullReads
<1>3. CASE Store!PullPrepares(t)
  BY <1>3 DEF Store!PullPrepares
<1>4. CASE Store!PullPublishes(t)
  BY <1>4 DEF Store!PullPublishes
<1>5. CASE Store!PullIndexes(t)
  BY <1>5 DEF Store!PullIndexes
<1>6. CASE Store!UninstallReads(t)
  BY <1>6 DEF Store!UninstallReads
<1>7. CASE Store!RemoveReads(t)
  BY <1>7 DEF Store!RemoveReads
<1>8. CASE Store!Deletes(t)
  BY <1>8 DEF Store!Deletes
<1>9. CASE Store!UninstallIndexes(t)
  BY <1>9 DEF Store!UninstallIndexes
<1>10. CASE Store!RemoveIndexes(t)
  BY <1>10 DEF Store!RemoveIndexes
<1>11. CASE Store!BuildReads(t)
  BY <1>11 DEF Store!BuildReads
<1>12. CASE Store!BuildsArtifacts(t)
  BY <1>12 DEF Store!BuildsArtifacts
<1>13. CASE Store!BuildCopies(t)
  BY <1>13 DEF Store!BuildCopies
<1>14. CASE Store!BuildPublishes(t)
  BY <1>14 DEF Store!BuildPublishes
<1>15. CASE Store!BuildReadsIndex(t)
  BY <1>15 DEF Store!BuildReadsIndex
<1>16. CASE Store!BuildIndexes(t)
  BY <1>16 DEF Store!BuildIndexes
<1>17. CASE Store!ImportReads(t)
  BY <1>17 DEF Store!ImportReads
<1>18. CASE Store!ImportPublishes(t)
  BY <1>18 DEF Store!ImportPublishes
<1>19. CASE Store!ImportIndexes(t)
  BY <1>19 DEF Store!ImportIndexes
<1>20. CASE Store!CreateResolves(t)
  BY <1>20 DEF Store!CreateResolves
<1>21. CASE Store!CreateCopies(t)
  BY <1>21 DEF Store!CreateCopies
<1>22. CASE Store!CreatePublishes(t)
  BY <1>22 DEF Store!CreatePublishes
<1>23. CASE Store!CreatePrepares(t)
  BY <1>23 DEF Store!CreatePrepares
<1>24. CASE Store!CreateLists(t)
  BY <1>24 DEF Store!CreateLists
<1>25. QED
  BY <1>1, <1>2, <1>3, <1>4, <1>5, <1>6, <1>7, <1>8, <1>9, <1>10, <1>11, <1>12, <1>13, <1>14, <1>15, <1>16, <1>17,
     <1>18, <1>19, <1>20, <1>21, <1>22, <1>23, <1>24 DEF Acts

\* Every step leaves threads at steps of their calls.
LEMMA ThreadTyped ==
  ASSUME StoreInv, NEW t \in Actors, Acts(t)
  PROVE  (Placed /\ Asking /\ Holding /\ Seeing)'
<1>0. StoreType /\ Placed /\ Asking /\ Holding /\ Seeing /\ Filed
  BY DEF StoreInv, StoreType
<1> USE DEF Placed, Places, Asking, Holding, Seeing, Store!Ran, Store!Goes, Store!Reads, Store!Ends, Store!Absent,
        Store!Kept
<1>1. ASSUME NEW c \in Requests, Store!Begin(t, c)
      PROVE  (Placed /\ Asking /\ Holding /\ Seeing)'
  BY <1>0, <1>1 DEF Store!Begin
<1>2. CASE Store!PullReads(t)
  BY <1>0, <1>2 DEF Store!PullReads
<1>3. CASE Store!PullPrepares(t)
  <2>1. Store!Tree(Here) \in States
    BY StatesAre
  <2>2. QED
    BY <1>0, <1>3, <2>1 DEF Store!PullPrepares
<1>4. CASE Store!PullPublishes(t)
  BY <1>0, <1>4 DEF Store!PullPublishes
<1>5. CASE Store!PullIndexes(t)
  BY <1>0, <1>5 DEF Store!PullIndexes
<1>6. CASE Store!UninstallReads(t)
  BY <1>0, <1>6 DEF Store!UninstallReads
<1>7. CASE Store!RemoveReads(t)
  BY <1>0, <1>7 DEF Store!RemoveReads
<1>8. CASE Store!Deletes(t)
  BY <1>0, <1>8 DEF Store!Deletes
<1>9. CASE Store!UninstallIndexes(t)
  BY <1>0, <1>9 DEF Store!UninstallIndexes
<1>10. CASE Store!RemoveIndexes(t)
  BY <1>0, <1>10 DEF Store!RemoveIndexes
<1>11. CASE Store!BuildReads(t)
  BY <1>0, <1>11 DEF Store!BuildReads
<1>12. CASE Store!BuildsArtifacts(t)
  BY <1>0, <1>12 DEF Store!BuildsArtifacts
<1>13. CASE Store!BuildCopies(t)
  <2>1. does[t] \in Requests /\ Store!Base(does[t].ref) \in Store!TreeId
    BY <1>13, Working, RequestIs, TreesApart DEF Store!BuildCopies
  <2>2. CASE Store!Copies(t, Store!Base(does[t].ref))
    <3>1. Holding'
      BY <2>1, <2>2, Copied, <1>0
    <3>2. QED
      BY <1>0, <1>13, <3>1 DEF Store!BuildCopies
  <2>3. CASE Store!Ends(t)
    BY <1>0, <1>13, <2>3
  <2>4. QED
    BY <1>13, <2>2, <2>3 DEF Store!BuildCopies
<1>14. CASE Store!BuildPublishes(t)
  BY <1>0, <1>14 DEF Store!BuildPublishes
<1>15. CASE Store!BuildReadsIndex(t)
  BY <1>0, <1>15 DEF Store!BuildReadsIndex
<1>16. CASE Store!BuildIndexes(t)
  BY <1>0, <1>16 DEF Store!BuildIndexes
<1>17. CASE Store!ImportReads(t)
  <2>1. Store!Ran(t, "import", "called") /\ does[t] \in Requests
    BY <1>17, Working DEF Store!ImportReads
  <2>2. Store!Tree(does[t].archive.platform) \in States
    BY <2>1, RequestIs, StatesAre
  <2>3. QED
    BY <1>0, <1>17, <2>2 DEF Store!ImportReads
<1>18. CASE Store!ImportPublishes(t)
  BY <1>0, <1>18 DEF Store!ImportPublishes
<1>19. CASE Store!ImportIndexes(t)
  BY <1>0, <1>19 DEF Store!ImportIndexes
<1>20. CASE Store!CreateResolves(t)
  BY <1>0, <1>20 DEF Store!CreateResolves
<1>21. CASE Store!CreateCopies(t)
  <2>1. does[t] \in Requests /\ seen[t] \in Store!TreeId
    BY <1>21, Working, RequestIs, TreesApart DEF Store!CreateCopies, StoreInv, AtWork, HasRead, Busy
  <2>2. CASE Store!Copies(t, seen[t])
    <3>1. Holding'
      BY <2>1, <2>2, Copied, <1>0
    <3>2. QED
      BY <1>0, <1>21, <3>1 DEF Store!CreateCopies
  <2>3. CASE Store!Ends(t)
    BY <1>0, <1>21, <2>3
  <2>4. QED
    BY <1>21, <2>2, <2>3 DEF Store!CreateCopies
<1>22. CASE Store!CreatePublishes(t)
  BY <1>0, <1>22 DEF Store!CreatePublishes
<1>23. CASE Store!CreatePrepares(t)
  BY <1>0, <1>23 DEF Store!CreatePrepares
<1>24. CASE Store!CreateLists(t)
  BY <1>0, <1>24 DEF Store!CreateLists
<1>25. QED
  BY <1>1, <1>2, <1>3, <1>4, <1>5, <1>6, <1>7, <1>8, <1>9, <1>10, <1>11, <1>12, <1>13, <1>14, <1>15, <1>16, <1>17,
     <1>18, <1>19, <1>20, <1>21, <1>22, <1>23, <1>24 DEF Acts

\* Every step leaves indexes and trees.
LEMMA FilesTyped ==
  ASSUME StoreInv, NEW t \in Actors, Acts(t)
  PROVE  Filed'
<1>0. StoreType /\ Filed /\ TreesTyped /\ Holding /\ HasRead(t) /\ (at[t] # "idle" => does[t] \in Requests)
  BY Working DEF StoreInv, StoreType, AtWork, Filed, TreesTyped
<1> USE DEF Filed, Store!Ran, Store!Absent, Store!Kept, Store!WriteBases, Store!WriteSealed
<1>1. ASSUME NEW c \in Requests, Store!Begin(t, c)
      PROVE  Filed'
  BY <1>0, <1>1 DEF Store!Begin
<1>2. CASE Store!PullReads(t)
  BY <1>0, <1>2 DEF Store!PullReads
<1>3. CASE Store!PullPrepares(t)
  BY <1>0, <1>3 DEF Store!PullPrepares
<1>4. CASE Store!PullPublishes(t)
  <2>1. at[t] = "publish" /\ does[t] \in Requests /\ Store!Base(does[t].ref) \in Store!TreeId
    BY <1>4, Working, RequestIs, TreesApart DEF Store!PullPublishes, Store!Ran
  <2>2. TreesTyped'
    BY <1>0, <1>4, <2>1, PublishedTree DEF Store!PullPublishes, TreesTyped
  <2>3. QED
    BY <1>0, <1>4, <2>2 DEF Store!PullPublishes, TreesTyped
<1>5. CASE Store!PullIndexes(t)
  <2>1. does[t] \in Requests /\ does[t].ref \in Ref /\ seen[t] \subseteq Ref
    BY <1>0, <1>5, RequestIs DEF Store!PullIndexes, Store!Ran, HasRead, Busy
  <2>2. QED
    BY <1>0, <1>5, <2>1 DEF Store!PullIndexes
<1>6. CASE Store!UninstallReads(t)
  BY <1>0, <1>6 DEF Store!UninstallReads
<1>7. CASE Store!RemoveReads(t)
  BY <1>0, <1>7 DEF Store!RemoveReads
<1>8. CASE Store!Deletes(t)
  <2>1. TreesTyped'
    BY <1>8, Deleting
  <2>2. QED
    BY <1>0, <1>8, <2>1 DEF Store!Deletes, TreesTyped
<1>9. CASE Store!UninstallIndexes(t)
  <2>1. does[t] \in Requests /\ does[t].ref \in Ref /\ seen[t] \subseteq Ref
    BY <1>0, <1>9, RequestIs DEF Store!UninstallIndexes, Store!Ran, HasRead, Busy
  <2>2. QED
    BY <1>0, <1>9, <2>1 DEF Store!UninstallIndexes
<1>10. CASE Store!RemoveIndexes(t)
  <2>1. does[t] \in Requests /\ does[t].name \in Name /\ seen[t] \in Index /\ Nothing \in Sealeds \cup {Nothing}
    BY <1>0, <1>10, RequestIs DEF Store!RemoveIndexes, Store!Ran, HasRead, Busy
  <2>2. [seen[t] EXCEPT ![does[t].name] = Nothing] \in Index
    BY <2>1 DEF Index
  <2>3. QED
    BY <1>0, <1>10, <2>2 DEF Store!RemoveIndexes
<1>11. CASE Store!BuildReads(t)
  BY <1>0, <1>11 DEF Store!BuildReads
<1>12. CASE Store!BuildsArtifacts(t)
  <2>1. does[t] \in Requests /\ Store!Base(does[t].ref) \in Store!TreeId
    BY <1>0, <1>12, RequestIs, TreesApart DEF Store!BuildsArtifacts, Store!Ran
  <2> DEFINE b == Store!Base(does[t].ref)
             x == IF trees[b].built # Here THEN [trees[b] EXCEPT !.built = Here] ELSE [trees[b] EXCEPT !.marked = Here]
  <2>2. CASE trees[b] # Nothing /\ trees' = [trees EXCEPT ![b] = x]
    <3>1. x \in States
      BY <1>0, <2>1, <2>2, StatesAre DEF TreesTyped
    <3> HIDE DEF x, b
    <3>2. TreesTyped'
      BY <1>0, <2>1, <2>2, <3>1, OneTree DEF b
    <3>3. QED
      BY <1>0, <1>12, <3>2 DEF Store!BuildsArtifacts, TreesTyped
  <2>3. CASE trees' = trees
    BY <1>0, <1>12, <2>3 DEF Store!BuildsArtifacts
  <2>4. QED
    BY <1>12, <2>2, <2>3 DEF Store!BuildsArtifacts, Store!Exists
<1>13. CASE Store!BuildCopies(t)
  BY <1>0, <1>13 DEF Store!BuildCopies
<1>14. CASE Store!BuildPublishes(t)
  <2>1. at[t] = "publish" /\ does[t] \in Requests /\ Store!Sealed(does[t].name, does[t].ref, does[t].recipe) \in Store!TreeId
    BY <1>14, Working, RequestIs, TreesApart DEF Store!BuildPublishes, Store!Ran
  <2>2. TreesTyped'
    BY <1>0, <1>14, <2>1, PublishedTree DEF Store!BuildPublishes, TreesTyped
  <2>3. QED
    BY <1>0, <1>14, <2>2 DEF Store!BuildPublishes, TreesTyped
<1>15. CASE Store!BuildReadsIndex(t)
  BY <1>0, <1>15 DEF Store!BuildReadsIndex
<1>16. CASE Store!BuildIndexes(t)
  <2>1. does[t] \in Requests /\ does[t].name \in Name /\ seen[t] \in Index /\ Store!Sealed(does[t].name, does[t].ref, does[t].recipe) \in Sealeds \cup {Nothing}
    BY <1>0, <1>16, RequestIs DEF Store!BuildIndexes, Store!Ran, HasRead, Busy
  <2>2. [seen[t] EXCEPT ![does[t].name] = Store!Sealed(does[t].name, does[t].ref, does[t].recipe)] \in Index
    BY <2>1 DEF Index
  <2>3. QED
    BY <1>0, <1>16, <2>2 DEF Store!BuildIndexes
<1>17. CASE Store!ImportReads(t)
  BY <1>0, <1>17 DEF Store!ImportReads
<1>18. CASE Store!ImportPublishes(t)
  <2>1. at[t] = "publish" /\ does[t] \in Requests /\ Store!ArchiveTree(does[t].archive) \in Store!TreeId
    BY <1>18, Working, RequestIs, TreesApart DEF Store!ImportPublishes, Store!Ran
  <2>2. TreesTyped'
    BY <1>0, <1>18, <2>1, PublishedTree DEF Store!ImportPublishes, TreesTyped
  <2>3. QED
    BY <1>0, <1>18, <2>2 DEF Store!ImportPublishes, TreesTyped
<1>19. CASE Store!ImportIndexes(t)
  <2>1. does[t] \in Requests /\ does[t].name \in Name /\ seen[t] \in Index /\ Store!ArchiveTree(does[t].archive) \in Sealeds \cup {Nothing}
    BY <1>0, <1>19, RequestIs DEF Store!ImportIndexes, Store!Ran, HasRead, Busy
  <2>2. [seen[t] EXCEPT ![does[t].name] = Store!ArchiveTree(does[t].archive)] \in Index
    BY <2>1 DEF Index
  <2>3. QED
    BY <1>0, <1>19, <2>2 DEF Store!ImportIndexes
<1>20. CASE Store!CreateResolves(t)
  BY <1>0, <1>20 DEF Store!CreateResolves
<1>21. CASE Store!CreateCopies(t)
  BY <1>0, <1>21 DEF Store!CreateCopies
<1>22. CASE Store!CreatePublishes(t)
  <2>1. at[t] = "publish" /\ does[t] \in Requests /\ Store!Container(does[t].id) \in Store!TreeId
    BY <1>22, Working, RequestIs, TreesApart DEF Store!CreatePublishes, Store!Ran
  <2>2. TreesTyped'
    BY <1>0, <1>22, <2>1, PublishedTree DEF Store!CreatePublishes, TreesTyped
  <2>3. QED
    BY <1>0, <1>22, <2>2 DEF Store!CreatePublishes, TreesTyped
<1>23. CASE Store!CreatePrepares(t)
  <2> DEFINE d == Store!Container(does[t].id)
  <2>1. does[t] \in Requests /\ d \in Store!TreeId /\ trees[d] \in States
    BY <1>0, <1>23, RequestIs, TreesApart DEF Store!CreatePrepares, Store!Ran, StoreInv, Made, MadeBy, Busy,
       TreesTyped
  <2>2. Store!Prepared(trees[d]) \in States
    BY <2>1, StatesAre
  <2>3. trees' = [trees EXCEPT ![d] = Store!Prepared(trees[d])] \/ trees' = [trees EXCEPT ![d] = Nothing]
    BY <1>23 DEF Store!CreatePrepares
  <2> HIDE DEF d
  <2>4. TreesTyped'
    BY <1>0, <2>1, <2>2, <2>3, OneTree
  <2>5. QED
    BY <1>0, <1>23, <2>4 DEF Store!CreatePrepares, TreesTyped
<1>24. CASE Store!CreateLists(t)
  BY <1>0, <1>24 DEF Store!CreateLists
<1>25. QED
  BY <1>1, <1>2, <1>3, <1>4, <1>5, <1>6, <1>7, <1>8, <1>9, <1>10, <1>11, <1>12, <1>13, <1>14, <1>15, <1>16, <1>17,
     <1>18, <1>19, <1>20, <1>21, <1>22, <1>23, <1>24 DEF Acts

\* A caller goes from step to step of its own call, with what the step needs.
LEMMA OwnStep ==
  ASSUME StoreInv, NEW t \in Actors, Acts(t)
  PROVE  (AtOwn(t) /\ HasRead(t))'
<1>0. /\ Placed /\ Asking /\ Holding /\ Seeing /\ AtOwn(t) /\ HasRead(t) /\ bases \subseteq Ref /\ sealed \in Index
      /\ \A c \in Requests : c.op \in {"pull", "uninstall", "build", "create", "import", "remove"} /\ c # Nothing
  BY RequestIs, NoValue DEF StoreInv, StoreType, AtWork, Filed
<1> USE DEF AtOwn, HasRead, Busy, Steps, Placed, Asking, Holding, Seeing, Store!Ran, Store!Goes, Store!Reads,
        Store!Ends, Store!Absent, Store!Kept
<1>1. ASSUME NEW c \in Requests, Store!Begin(t, c)
      PROVE  (AtOwn(t) /\ HasRead(t))'
  BY <1>0, <1>1 DEF Store!Begin
<1>2. CASE Store!PullReads(t)
  BY <1>0, <1>2 DEF Store!PullReads
<1>3. CASE Store!PullPrepares(t)
  <2>1. Store!Tree(Here) # Nothing
    BY StatesAre, NoValue
  <2>2. does[t] \in Requests /\ does[t].op = "pull" /\ (does' = does \/ Store!Ends(t))
    BY <1>0, <1>3 DEF Store!PullPrepares
  <2>3. CASE Store!Ends(t)
    BY <1>0, <2>3
  <2>4. CASE ~Store!Ends(t)
    BY <1>0, <1>3, <2>1, <2>4 DEF Store!PullPrepares
  <2>5. QED
    BY <2>3, <2>4
<1>4. CASE Store!PullPublishes(t)
  BY <1>0, <1>4 DEF Store!PullPublishes
<1>5. CASE Store!PullIndexes(t)
  BY <1>0, <1>5 DEF Store!PullIndexes
<1>6. CASE Store!UninstallReads(t)
  BY <1>0, <1>6 DEF Store!UninstallReads
<1>7. CASE Store!RemoveReads(t)
  BY <1>0, <1>7 DEF Store!RemoveReads
<1>8. CASE Store!Deletes(t)
  BY <1>0, <1>8 DEF Store!Deletes
<1>9. CASE Store!UninstallIndexes(t)
  BY <1>0, <1>9 DEF Store!UninstallIndexes
<1>10. CASE Store!RemoveIndexes(t)
  BY <1>0, <1>10 DEF Store!RemoveIndexes
<1>11. CASE Store!BuildReads(t)
  BY <1>0, <1>11 DEF Store!BuildReads
<1>12. CASE Store!BuildsArtifacts(t)
  BY <1>0, <1>12 DEF Store!BuildsArtifacts
<1>13. CASE Store!BuildCopies(t)
  <2>1. does[t] \in Requests /\ does[t].op = "build" /\ at[t] = "copy" /\ Store!Base(does[t].ref) \in Store!TreeId
    BY <1>13, Working, RequestIs, TreesApart DEF Store!BuildCopies, StoreInv, AtWork
  <2>2. CASE Store!Copies(t, Store!Base(does[t].ref)) /\ Store!Goes(t, "publish") /\ does' = does
    <3>1. holds'[t] \in States /\ holds'[t] # Nothing
      BY <2>1, <2>2, Copied, NoValue DEF StoreInv
    <3>2. at'[t] = "publish" /\ does'[t] = does[t]
      BY <1>0, <2>2
    <3>3. QED
      BY <2>1, <3>1, <3>2, NoValue
  <2>3. CASE Store!Ends(t)
    BY <1>0, <1>13, <2>3
  <2>4. QED
    BY <1>13, <2>2, <2>3 DEF Store!BuildCopies
<1>14. CASE Store!BuildPublishes(t)
  BY <1>0, <1>14 DEF Store!BuildPublishes
<1>15. CASE Store!BuildReadsIndex(t)
  BY <1>0, <1>15 DEF Store!BuildReadsIndex
<1>16. CASE Store!BuildIndexes(t)
  BY <1>0, <1>16 DEF Store!BuildIndexes
<1>17. CASE Store!ImportReads(t)
  <2>1. CASE Store!Ends(t)
    BY <1>0, <2>1
  <2>2. CASE ~Store!Ends(t)
    <3>1. /\ does[t] \in Requests /\ does[t].op = "import" /\ sealed[does[t].name] = Nothing /\ Store!Goes(t, "publish") /\ does' = does
          /\ seen' = [seen EXCEPT ![t] = sealed] /\ holds' = [holds EXCEPT ![t] = Store!Tree(does[t].archive.platform)]
      BY <1>0, <1>17, <2>2 DEF Store!ImportReads
    <3>2. Store!Tree(does[t].archive.platform) # Nothing
      BY <3>1, RequestIs, StatesAre, NoValue
    <3>3. at'[t] = "publish" /\ does'[t] = does[t] /\ seen'[t] = sealed /\ holds'[t] # Nothing
      BY <1>0, <3>1, <3>2
    <3>4. QED
      BY <1>0, <3>1, <3>3
  <2>3. QED
    BY <2>1, <2>2
<1>18. CASE Store!ImportPublishes(t)
  BY <1>0, <1>18 DEF Store!ImportPublishes
<1>19. CASE Store!ImportIndexes(t)
  BY <1>0, <1>19 DEF Store!ImportIndexes
<1>20. CASE Store!CreateResolves(t)
  <2>1. CASE Store!Ends(t)
    BY <1>0, <2>1
  <2>2. CASE ~Store!Ends(t)
    <3> DEFINE source == Store!SourceOf(does[t].template)
    <3>1. /\ does[t] \in Requests /\ does[t].op = "create" /\ source # Nothing /\ Store!Goes(t, "copy") /\ does' = does
          /\ seen' = [seen EXCEPT ![t] = source]
      BY <1>0, <1>20, <2>2 DEF Store!CreateResolves
    <3>2. source \in Bases \cup Sealeds
      BY <1>0, <3>1, TreesApart DEF Store!SourceOf, Index
    <3> HIDE DEF source
    <3>3. at'[t] = "copy" /\ does'[t] = does[t] /\ seen'[t] = source
      BY <1>0, <3>1
    <3>4. QED
      BY <3>1, <3>2, <3>3, NoValue
  <2>3. QED
    BY <2>1, <2>2
<1>21. CASE Store!CreateCopies(t)
  <2>1. does[t] \in Requests /\ does[t].op = "create" /\ at[t] = "copy" /\ seen[t] \in Store!TreeId
    BY <1>21, Working, RequestIs, TreesApart DEF Store!CreateCopies, StoreInv, AtWork
  <2>2. CASE Store!Copies(t, seen[t]) /\ Store!Goes(t, "publish") /\ does' = does
    <3>1. holds'[t] \in States /\ holds'[t] # Nothing
      BY <2>1, <2>2, Copied, NoValue DEF StoreInv
    <3>2. at'[t] = "publish" /\ does'[t] = does[t]
      BY <1>0, <2>2
    <3>3. QED
      BY <2>1, <3>1, <3>2, NoValue
  <2>3. CASE Store!Ends(t)
    BY <1>0, <1>21, <2>3
  <2>4. QED
    BY <1>21, <2>2, <2>3 DEF Store!CreateCopies
<1>22. CASE Store!CreatePublishes(t)
  BY <1>0, <1>22 DEF Store!CreatePublishes
<1>23. CASE Store!CreatePrepares(t)
  BY <1>0, <1>23 DEF Store!CreatePrepares
<1>24. CASE Store!CreateLists(t)
  BY <1>0, <1>24 DEF Store!CreateLists
<1>25. QED
  BY <1>1, <1>2, <1>3, <1>4, <1>5, <1>6, <1>7, <1>8, <1>9, <1>10, <1>11, <1>12, <1>13, <1>14, <1>15, <1>16, <1>17,
     <1>18, <1>19, <1>20, <1>21, <1>22, <1>23, <1>24 DEF Acts

\* Every caller is at a step of its call, with what it has read for it.
LEMMA AtWorkStays ==
  ASSUME StoreInv, NEW t \in Actors, Acts(t)
  PROVE  AtWork'
<1>1. ASSUME NEW u \in Actors \ {t}
      PROVE  (AtOwn(u) /\ HasRead(u))'
  <2>1. Waits(u) /\ AtOwn(u) /\ HasRead(u)
    BY OthersWait DEF StoreInv, AtWork
  <2>2. QED
    BY <2>1 DEF Waits, AtOwn, HasRead, Busy
<1>2. QED
  BY <1>1, OwnStep DEF AtWork

\* Pulls share their keys, and so do builds and creations.
LEMMA SharedKeys ==
  ASSUME NEW c \in Requests, NEW d \in Requests
  PROVE  /\ Store!KeysOf(c) # {} <=> c.op \in {"pull", "build", "create"}
         /\ Store!KeysOf(c) \cap Store!KeysOf(d) # {} <=>
              \/ c.op = "pull" /\ d.op = "pull"
              \/ c.op \in {"build", "create"} /\ d.op \in {"build", "create"}
BY RequestIs DEF Store!KeysOf

\* One pull at a time, and one build or creation.
LEMMA Alone ==
  ASSUME StoreInv, NEW t \in Actors, NEW u \in Actors \ {t}, does[t] # Nothing, does[u] # Nothing
  PROVE  /\ does[t].op = "pull" => does[u].op # "pull"
         /\ does[t].op \in {"build", "create"} => does[u].op \notin {"build", "create"}
<1>1. does[t] \in Requests /\ does[u] \in Requests /\ Store!KeysOf(does[t]) \cap Store!KeysOf(does[u]) = {}
  BY DEF StoreInv, StoreType, Asking, Keyed
<1>2. QED
  BY <1>1, SharedKeys

\* No two calls hold one key.
LEMMA KeyedStays ==
  ASSUME StoreInv, NEW t \in Actors, Acts(t)
  PROVE  Keyed'
<1>1. \A u \in Actors \ {t} : does'[u] = does[u]
  BY OthersWait DEF StoreInv, Waits
<1>2. Asking /\ Keyed
  BY DEF StoreInv, StoreType
<1>3. ASSUME NEW c \in Requests, Store!Begin(t, c) PROVE Keyed'
  <2>1. does'[t] = c /\ (t \in Task <=> Store!KeysOf(c) # {})
        /\ \A u \in Task \ {t} : does[u] # Nothing => Store!KeysOf(does[u]) \cap Store!KeysOf(c) = {}
    BY <1>2, <1>3 DEF Store!Begin, Asking
  <2>2. \A u \in Actors \ {t} : does[u] # Nothing => Store!KeysOf(does[u]) \cap Store!KeysOf(c) = {}
    BY <1>2, <2>1 DEF Keyed, Actors
  <2>3. QED
    BY <1>1, <1>2, <2>1, <2>2 DEF Keyed
<1>4. ASSUME does'[t] \in {does[t], Nothing} PROVE Keyed'
  BY <1>1, <1>2, <1>4 DEF Keyed
<1>5. (\E c \in Requests : Store!Begin(t, c)) \/ does'[t] \in {does[t], Nothing}
  <2> USE <1>2 DEF Asking, Store!Ends
  <2>1. QED
    BY DEF Acts, Store!Kept, Store!PullReads, Store!PullPrepares, Store!PullPublishes, Store!PullIndexes,
       Store!UninstallReads,
      Store!RemoveReads, Store!Deletes, Store!UninstallIndexes, Store!RemoveIndexes, Store!BuildReads, Store!BuildsArtifacts,
      Store!BuildCopies, Store!BuildPublishes, Store!BuildReadsIndex, Store!BuildIndexes, Store!ImportReads, Store!ImportPublishes,
      Store!ImportIndexes, Store!CreateResolves, Store!CreateCopies, Store!CreatePublishes, Store!CreatePrepares, Store!CreateLists
<1>6. QED
  BY <1>3, <1>4, <1>5

\* What is done to an honest tree leaves it honest.
LEMMA HonestStays ==
  ASSUME NEW x \in States, Honest(x)
  PROVE  /\ Honest([x EXCEPT !.linked = FALSE])
         /\ Honest(Store!Prepared(x)) /\ Store!Prepared(x).linked /\ Store!Prepared(x).built = Here
         /\ x.built \in {Here, Nothing} /\ x.marked \in {Here, Nothing} =>
              Honest(IF x.built # Here THEN [x EXCEPT !.built = Here] ELSE [x EXCEPT !.marked = Here])
         /\ \A y \in States : (~y.whole /\ y.built \in {x.built, Nothing} /\ y.marked \in {x.marked, Nothing}) => Honest(y)
<1> USE NoValue DEF Honest, States, Store!TreeState
<1>1. Honest([x EXCEPT !.linked = FALSE])
  OBVIOUS
<1>2. Honest(Store!Prepared(x)) /\ Store!Prepared(x).linked /\ Store!Prepared(x).built = Here
  BY DEF Store!Prepared, Store!client_artifacts_present
<1>3. x.built \in {Here, Nothing} /\ x.marked \in {Here, Nothing} =>
        Honest(IF x.built # Here THEN [x EXCEPT !.built = Here] ELSE [x EXCEPT !.marked = Here])
  OBVIOUS
<1>4. \A y \in States : (~y.whole /\ y.built \in {x.built, Nothing} /\ y.marked \in {x.marked, Nothing}) => Honest(y)
  OBVIOUS
<1>5. QED
  BY <1>1, <1>2, <1>3, <1>4

\* What is staged has a true marker.
LEMMA HoldsHonest ==
  ASSUME StoreInv, NEW t \in Actors, Acts(t)
  PROVE  holds'[t] # Nothing => Honest(holds'[t])
<1>0. Holding /\ (holds[t] # Nothing => Honest(holds[t])) /\ holds \in [Actors -> States \cup {Nothing}]
  BY DEF StoreInv, StoreType, MarkersTrue, Holding
<1> USE DEF Store!Ends, Store!Absent, Store!Kept
<1>1. ASSUME NEW c \in Requests, Store!Begin(t, c)
      PROVE  holds'[t] # Nothing => Honest(holds'[t])
  BY <1>0, <1>1 DEF Store!Begin
<1>2. CASE Store!PullReads(t)
  BY <1>0, <1>2 DEF Store!PullReads
<1>3. CASE Store!PullPrepares(t)
  <2>1. CASE holds' = [holds EXCEPT ![t] = Store!Tree(Here)]
    <3>1. Honest(Store!Tree(Here)) /\ holds'[t] = Store!Tree(Here)
      BY <1>0, <2>1 DEF Honest, Store!Tree
    <3>2. QED
      BY <3>1
  <2>2. CASE Store!Ends(t)
    BY <1>0, <2>2
  <2>3. QED
    BY <1>3, <2>1, <2>2 DEF Store!PullPrepares
<1>4. CASE Store!PullPublishes(t)
  BY <1>0, <1>4 DEF Store!PullPublishes
<1>5. CASE Store!PullIndexes(t)
  BY <1>0, <1>5 DEF Store!PullIndexes
<1>6. CASE Store!UninstallReads(t)
  BY <1>0, <1>6 DEF Store!UninstallReads
<1>7. CASE Store!RemoveReads(t)
  BY <1>0, <1>7 DEF Store!RemoveReads
<1>8. CASE Store!Deletes(t)
  BY <1>0, <1>8 DEF Store!Deletes
<1>9. CASE Store!UninstallIndexes(t)
  BY <1>0, <1>9 DEF Store!UninstallIndexes
<1>10. CASE Store!RemoveIndexes(t)
  BY <1>0, <1>10 DEF Store!RemoveIndexes
<1>11. CASE Store!BuildReads(t)
  BY <1>0, <1>11 DEF Store!BuildReads
<1>12. CASE Store!BuildsArtifacts(t)
  BY <1>0, <1>12 DEF Store!BuildsArtifacts
<1>13. CASE Store!BuildCopies(t)
  <2>1. CASE Store!Copies(t, Store!Base(does[t].ref))
    <3>1. Store!Base(does[t].ref) \in Store!TreeId
      BY <1>13, Working, RequestIs, TreesApart DEF Store!BuildCopies, Store!Ran, StoreInv, AtWork, HasRead, Busy
    <3>2. trees[Store!Base(does[t].ref)] \in States /\ holds'[t] = [trees[Store!Base(does[t].ref)] EXCEPT !.linked = FALSE]
      BY <2>1, <3>1, Copied DEF StoreInv
    <3>3. Honest(trees[Store!Base(does[t].ref)])
      BY <3>1, <3>2, NoValue DEF StoreInv, MarkersTrue, TreesTrue
    <3>4. QED
      BY <3>2, <3>3, HonestStays
  <2>2. CASE Store!Ends(t)
    BY <1>0, <2>2
  <2>3. QED
    BY <1>13, <2>1, <2>2 DEF Store!BuildCopies
<1>14. CASE Store!BuildPublishes(t)
  BY <1>0, <1>14 DEF Store!BuildPublishes
<1>15. CASE Store!BuildReadsIndex(t)
  BY <1>0, <1>15 DEF Store!BuildReadsIndex
<1>16. CASE Store!BuildIndexes(t)
  BY <1>0, <1>16 DEF Store!BuildIndexes
<1>17. CASE Store!ImportReads(t)
  <2>1. CASE holds' = [holds EXCEPT ![t] = Store!Tree(does[t].archive.platform)]
    <3>1. Honest(Store!Tree(does[t].archive.platform)) /\ holds'[t] = Store!Tree(does[t].archive.platform)
      BY <1>0, <2>1 DEF Honest, Store!Tree
    <3>2. QED
      BY <3>1
  <2>2. CASE Store!Ends(t)
    BY <1>0, <2>2
  <2>3. QED
    BY <1>17, <2>1, <2>2 DEF Store!ImportReads
<1>18. CASE Store!ImportPublishes(t)
  BY <1>0, <1>18 DEF Store!ImportPublishes
<1>19. CASE Store!ImportIndexes(t)
  BY <1>0, <1>19 DEF Store!ImportIndexes
<1>20. CASE Store!CreateResolves(t)
  BY <1>0, <1>20 DEF Store!CreateResolves
<1>21. CASE Store!CreateCopies(t)
  <2>1. CASE Store!Copies(t, seen[t])
    <3>1. seen[t] \in Store!TreeId
      BY <1>21, Working, RequestIs, TreesApart DEF Store!CreateCopies, Store!Ran, StoreInv, AtWork, HasRead, Busy
    <3>2. trees[seen[t]] \in States /\ holds'[t] = [trees[seen[t]] EXCEPT !.linked = FALSE]
      BY <2>1, <3>1, Copied DEF StoreInv
    <3>3. Honest(trees[seen[t]])
      BY <3>1, <3>2, NoValue DEF StoreInv, MarkersTrue, TreesTrue
    <3>4. QED
      BY <3>2, <3>3, HonestStays
  <2>2. CASE Store!Ends(t)
    BY <1>0, <2>2
  <2>3. QED
    BY <1>21, <2>1, <2>2 DEF Store!CreateCopies
<1>22. CASE Store!CreatePublishes(t)
  BY <1>0, <1>22 DEF Store!CreatePublishes
<1>23. CASE Store!CreatePrepares(t)
  BY <1>0, <1>23 DEF Store!CreatePrepares
<1>24. CASE Store!CreateLists(t)
  BY <1>0, <1>24 DEF Store!CreateLists
<1>25. QED
  BY <1>1, <1>2, <1>3, <1>4, <1>5, <1>6, <1>7, <1>8, <1>9, <1>10, <1>11, <1>12, <1>13, <1>14, <1>15, <1>16, <1>17,
     <1>18, <1>19, <1>20, <1>21, <1>22, <1>23, <1>24 DEF Acts

\* The artifacts of a base are built in place, and its marker follows.
LEMMA Building ==
  ASSUME StoreInv, NEW t \in Actors, Store!BuildsArtifacts(t)
  PROVE  LET b == Store!Base(does[t].ref)
         IN /\ does[t].op = "build" /\ b \in Bases /\ b \in Store!TreeId /\ \A e \in Store!TreeId \ {b} : trees'[e] = trees[e]
            /\ \/ trees' = trees
               \/ /\ trees[b] \in States
                  /\ trees'[b] = IF trees[b].built # Here THEN [trees[b] EXCEPT !.built = Here] ELSE [trees[b] EXCEPT !.marked = Here]
<1> DEFINE b == Store!Base(does[t].ref)
           x == IF trees[b].built # Here THEN [trees[b] EXCEPT !.built = Here] ELSE [trees[b] EXCEPT !.marked = Here]
<1>1. does[t].op = "build" /\ b \in Bases /\ b \in Store!TreeId
  BY Working, RequestIs, TreesApart DEF Store!BuildsArtifacts, Store!Ran
<1>2. TreesTyped
  BY DEF StoreInv, StoreType, Filed, TreesTyped
<1>3. trees' = trees \/ (trees[b] # Nothing /\ trees' = [trees EXCEPT ![b] = x])
  BY DEF Store!BuildsArtifacts, Store!Exists, Store!Absent
<1>4. trees[b] # Nothing => trees[b] \in States /\ x \in States
  BY <1>1, <1>2, StatesAre DEF TreesTyped
<1> HIDE DEF x
<1>5. CASE trees[b] # Nothing /\ trees' = [trees EXCEPT ![b] = x]
  <2>1. trees'[b] = x /\ \A e \in Store!TreeId \ {b} : trees'[e] = trees[e]
    BY <1>1, <1>2, <1>4, <1>5, OneTree
  <2>2. QED
    BY <1>1, <1>4, <1>5, <2>1 DEF x
<1>6. QED
  BY <1>1, <1>3, <1>5

\* A container is prepared in its directory, or the directory goes.
LEMMA Preparing ==
  ASSUME StoreInv, NEW t \in Actors, Store!CreatePrepares(t)
  PROVE  LET d == Store!Container(does[t].id)
         IN /\ at[t] = "prepare" /\ does[t].op = "create" /\ does[t] \in Requests /\ does[t].id \in Instance
            /\ d \in Store!TreeId \ (Bases \cup Sealeds)
            /\ trees[d] \in States /\ Honest(trees[d]) /\ \A e \in Store!TreeId \ {d} : trees'[e] = trees[e]
            /\ \/ trees'[d] = Store!Prepared(trees[d]) /\ Store!Goes(t, "list") /\ UNCHANGED <<does, seen, holds>>
               \/ trees'[d] = Nothing /\ Store!Ends(t)
<1> DEFINE d == Store!Container(does[t].id)
<1>1. at[t] = "prepare" /\ does[t].op = "create" /\ does[t] \in Requests /\ does[t].id \in Instance
      /\ d \in Store!TreeId \ (Bases \cup Sealeds)
  BY Working, RequestIs, TreesApart DEF Store!CreatePrepares, Store!Ran
<1>2. TreesTyped
  BY DEF StoreInv, StoreType, Filed, TreesTyped
<1>3. trees[d] \in States /\ Honest(trees[d])
  BY <1>1, <1>2, NoValue DEF StoreInv, Made, MadeBy, MarkersTrue, TreesTrue, TreesTyped, Busy
<1>4. \/ trees' = [trees EXCEPT ![d] = Store!Prepared(trees[d])] /\ Store!Goes(t, "list") /\ UNCHANGED <<does, seen, holds>>
      \/ trees' = [trees EXCEPT ![d] = Nothing] /\ Store!Ends(t)
  BY DEF Store!CreatePrepares, Store!Absent
<1>5. Store!Prepared(trees[d]) \in States
  BY <1>3, StatesAre
<1> HIDE DEF d
<1>6. QED
  BY <1>1, <1>2, <1>3, <1>4, <1>5, OneTree DEF d

\* Markers stay true, step by step.
LEMMA TreesTrueStay ==
  ASSUME StoreInv, NEW t \in Actors, Acts(t)
  PROVE  TreesTrue'
<1>0. TreesTrue /\ Bases \subseteq Store!TreeId
  BY TreesApart DEF StoreInv, MarkersTrue
<1> USE DEF TreesTrue, Store!Kept
<1>1. ASSUME NEW c \in Requests, Store!Begin(t, c)
      PROVE  TreesTrue'
  BY <1>0, <1>1 DEF Store!Begin
<1>2. CASE Store!PullReads(t)
  BY <1>0, <1>2 DEF Store!PullReads
<1>3. CASE Store!PullPrepares(t)
  BY <1>0, <1>3 DEF Store!PullPrepares
<1>4. CASE Store!PullPublishes(t)
  <2> DEFINE d == Store!Base(does[t].ref)
  <2>1. at[t] = "publish" /\ d \in Store!TreeId /\ holds[t] = Store!Tree(Here)
    BY <1>4, Working, RequestIs, TreesApart, NoValue DEF Store!PullPublishes, Store!Ran, StoreInv, AtWork, HasRead,
       Busy
  <2>2. CASE Store!Publish(t, d)
    <3>1. trees'[d] = Store!Tree(Here) /\ \A e \in Store!TreeId \ {d} : trees'[e] = trees[e]
      BY <2>1, <2>2, PublishedTree
    <3>2. Honest(Store!Tree(Here)) /\ Store!Tree(Here).built = Here /\ Store!Tree(Here).marked = Here
      BY DEF Honest, Store!Tree
    <3> HIDE DEF d
    <3>3. QED
      BY <1>0, <2>1, <3>1, <3>2
  <2>3. CASE trees' = trees
    BY <1>0, <2>3
  <2>4. QED
    BY <1>4, <2>2, <2>3 DEF Store!PullPublishes
<1>5. CASE Store!PullIndexes(t)
  BY <1>0, <1>5 DEF Store!PullIndexes
<1>6. CASE Store!UninstallReads(t)
  BY <1>0, <1>6 DEF Store!UninstallReads
<1>7. CASE Store!RemoveReads(t)
  BY <1>0, <1>7 DEF Store!RemoveReads
<1>8. CASE Store!Deletes(t)
  <2> DEFINE d == Store!Doomed(t)
  <2>1. d \in Store!TreeId /\ \A e \in Store!TreeId \ {d} : trees'[e] = trees[e]
    BY <1>8, Deleting, TreesApart
  <2>2. CASE trees' = trees
    BY <1>0, <2>2
  <2>3. CASE Erodes(t)
    <3>1. Honest(trees[d])
      BY <1>0, <2>1, <2>3, NoValue DEF Erodes
    <3>2. Honest(trees'[d])
      BY <2>3, <3>1, HonestStays DEF Erodes
    <3>3. d \in Bases => trees'[d].built \in {Here, Nothing} /\ trees'[d].marked \in {Here, Nothing}
      BY <1>0, <2>1, <2>3, NoValue DEF Erodes
    <3> HIDE DEF d
    <3>4. QED
      BY <1>0, <2>1, <3>2, <3>3
  <2>4. CASE Removed(t)
    <3>1. trees'[d] = Nothing
      BY <2>4 DEF Removed
    <3> HIDE DEF d
    <3>2. QED
      BY <1>0, <2>1, <3>1
  <2>5. QED
    BY <1>8, Deleting, <2>2, <2>3, <2>4 DEF FindsNone
<1>9. CASE Store!UninstallIndexes(t)
  BY <1>0, <1>9 DEF Store!UninstallIndexes
<1>10. CASE Store!RemoveIndexes(t)
  BY <1>0, <1>10 DEF Store!RemoveIndexes
<1>11. CASE Store!BuildReads(t)
  BY <1>0, <1>11 DEF Store!BuildReads
<1>12. CASE Store!BuildsArtifacts(t)
  <2> DEFINE d == Store!Base(does[t].ref)
  <2>1. d \in Bases /\ d \in Store!TreeId /\ \A e \in Store!TreeId \ {d} : trees'[e] = trees[e]
    BY <1>12, Building
  <2>2. CASE trees' = trees
    BY <1>0, <2>2
  <2>3. CASE trees' # trees
    <3> DEFINE x == IF trees[d].built # Here THEN [trees[d] EXCEPT !.built = Here] ELSE [trees[d] EXCEPT !.marked = Here]
    <3>1. trees[d] \in States /\ trees'[d] = x
      BY <1>12, Building, <2>3
    <3>2. Honest(trees[d]) /\ trees[d].built \in {Here, Nothing} /\ trees[d].marked \in {Here, Nothing}
      BY <1>0, <2>1, <3>1, NoValue
    <3>3. Honest(x)
      BY <3>1, <3>2, HonestStays
    <3>4. x.built \in {Here, Nothing} /\ x.marked \in {Here, Nothing}
      BY <3>1, <3>2 DEF States, Store!TreeState
    <3> HIDE DEF x, d
    <3>5. QED
      BY <1>0, <2>1, <3>1, <3>3, <3>4
  <2>4. QED
    BY <2>2, <2>3
<1>13. CASE Store!BuildCopies(t)
  BY <1>0, <1>13 DEF Store!BuildCopies
<1>14. CASE Store!BuildPublishes(t)
  <2>1. at[t] = "publish" /\ does[t] \in Requests /\ Store!Sealed(does[t].name, does[t].ref, does[t].recipe) \in Store!TreeId \ Bases
    BY <1>14, Working, RequestIs, TreesApart DEF Store!BuildPublishes, Store!Ran
  <2>2. CASE Store!Publish(t, Store!Sealed(does[t].name, does[t].ref, does[t].recipe))
    <3>1. /\ trees'[Store!Sealed(does[t].name, does[t].ref, does[t].recipe)] = holds[t] /\ Honest(holds[t])
          /\ \A e \in Store!TreeId \ {Store!Sealed(does[t].name, does[t].ref, does[t].recipe)} : trees'[e] = trees[e]
      BY <2>1, <2>2, PublishedTree, NoValue DEF StoreInv, MarkersTrue
    <3>2. QED
      BY <1>0, <2>1, <3>1
  <2>3. CASE trees' = trees
    BY <1>0, <2>3
  <2>4. QED
    BY <1>14, <2>2, <2>3 DEF Store!BuildPublishes
<1>15. CASE Store!BuildReadsIndex(t)
  BY <1>0, <1>15 DEF Store!BuildReadsIndex
<1>16. CASE Store!BuildIndexes(t)
  BY <1>0, <1>16 DEF Store!BuildIndexes
<1>17. CASE Store!ImportReads(t)
  BY <1>0, <1>17 DEF Store!ImportReads
<1>18. CASE Store!ImportPublishes(t)
  <2>1. at[t] = "publish" /\ does[t] \in Requests /\ Store!ArchiveTree(does[t].archive) \in Store!TreeId \ Bases
    BY <1>18, Working, RequestIs, TreesApart DEF Store!ImportPublishes, Store!Ran
  <2>2. CASE Store!Publish(t, Store!ArchiveTree(does[t].archive))
    <3>1. /\ trees'[Store!ArchiveTree(does[t].archive)] = holds[t] /\ Honest(holds[t])
          /\ \A e \in Store!TreeId \ {Store!ArchiveTree(does[t].archive)} : trees'[e] = trees[e]
      BY <2>1, <2>2, PublishedTree, NoValue DEF StoreInv, MarkersTrue
    <3>2. QED
      BY <1>0, <2>1, <3>1
  <2>3. CASE trees' = trees
    BY <1>0, <2>3
  <2>4. QED
    BY <1>18, <2>2, <2>3 DEF Store!ImportPublishes
<1>19. CASE Store!ImportIndexes(t)
  BY <1>0, <1>19 DEF Store!ImportIndexes
<1>20. CASE Store!CreateResolves(t)
  BY <1>0, <1>20 DEF Store!CreateResolves
<1>21. CASE Store!CreateCopies(t)
  BY <1>0, <1>21 DEF Store!CreateCopies
<1>22. CASE Store!CreatePublishes(t)
  <2>1. at[t] = "publish" /\ does[t] \in Requests /\ Store!Container(does[t].id) \in Store!TreeId \ Bases
    BY <1>22, Working, RequestIs, TreesApart DEF Store!CreatePublishes, Store!Ran
  <2>2. CASE Store!Publish(t, Store!Container(does[t].id))
    <3>1. /\ trees'[Store!Container(does[t].id)] = holds[t] /\ Honest(holds[t])
          /\ \A e \in Store!TreeId \ {Store!Container(does[t].id)} : trees'[e] = trees[e]
      BY <2>1, <2>2, PublishedTree, NoValue DEF StoreInv, MarkersTrue
    <3>2. QED
      BY <1>0, <2>1, <3>1
  <2>3. CASE trees' = trees
    BY <1>0, <2>3
  <2>4. QED
    BY <1>22, <2>2, <2>3 DEF Store!CreatePublishes
<1>23. CASE Store!CreatePrepares(t)
  <2> DEFINE d == Store!Container(does[t].id)
  <2>1. d \in Store!TreeId \ Bases /\ \A e \in Store!TreeId \ {d} : trees'[e] = trees[e]
    BY <1>23, Preparing
  <2>2. trees[d] \in States /\ Honest(trees[d]) /\ trees'[d] \in {Nothing, Store!Prepared(trees[d])}
    BY <1>23, Preparing
  <2> HIDE DEF d
  <2>3. Honest(Store!Prepared(trees[d]))
    BY <2>2, HonestStays
  <2>4. QED
    BY <1>0, <2>1, <2>2, <2>3
<1>24. CASE Store!CreateLists(t)
  BY <1>0, <1>24 DEF Store!CreateLists
<1>25. QED
  BY <1>1, <1>2, <1>3, <1>4, <1>5, <1>6, <1>7, <1>8, <1>9, <1>10, <1>11, <1>12, <1>13, <1>14, <1>15, <1>16, <1>17,
     <1>18, <1>19, <1>20, <1>21, <1>22, <1>23, <1>24 DEF Acts

\* Who makes no container changes none.
LEMMA MadeOn ==
  ASSUME StoreInv, NEW t \in Actors, Acts(t), \A i \in Instance : trees'[Store!Container(i)] = trees[Store!Container(i)],
         listed' = listed, MadeBy(t)'
  PROVE  (Made /\ Store!ListedIsReady)'
<1>1. ASSUME NEW u \in Actors \ {t} PROVE MadeBy(u)'
  <2>1. Waits(u) /\ MadeBy(u) /\ (does[u] # Nothing /\ does[u].op = "create" => does[u].id \in Instance)
    BY OthersWait, RequestIs DEF StoreInv, StoreType, Asking, Made
  <2>2. QED
    BY <2>1 DEF Waits, MadeBy, Busy
<1>2. Store!ListedIsReady'
  BY DEF StoreInv, Store!ListedIsReady, Store!Exists
<1>3. QED
  BY <1>1, <1>2 DEF Made

\* Who makes one does it alone.
LEMMA MadeAlone ==
  ASSUME StoreInv, NEW t \in Actors, Acts(t), does[t] # Nothing, does[t].op = "create", MadeBy(t)'
  PROVE  Made'
<1>1. ASSUME NEW u \in Actors \ {t} PROVE MadeBy(u)'
  <2>1. Waits(u) /\ (does[u] # Nothing => does[u].op # "create")
    BY OthersWait, Alone DEF StoreInv
  <2>2. QED
    BY <2>1 DEF Waits, MadeBy, Busy
<1>2. QED
  BY <1>1 DEF Made

\* What is listed is ready, and what is being made is not listed.
LEMMA MadeStays ==
  ASSUME StoreInv, NEW t \in Actors, Acts(t)
  PROVE  (Made /\ Store!ListedIsReady)'
<1>0. /\ StoreInv /\ Acts(t) /\ t \in Actors /\ MadeBy(t) /\ Placed /\ Asking /\ at \in [Actors -> Places]
      /\ does \in [Actors -> Requests \cup {Nothing}] /\ (at[t] # "idle" => does[t] \in Requests)
      /\ DOMAIN seen = Actors /\ holds \in [Actors -> States \cup {Nothing}]
  BY Working DEF StoreInv, StoreType, Made, Placed, Asking, Seeing, Holding
<1> USE DEF MadeBy, Busy, Store!Ran, Store!Goes, Store!Reads, Store!Ends, Store!Kept, Store!Absent, Store!WriteBases,
        Store!WriteSealed
<1>1. ASSUME NEW c \in Requests, Store!Begin(t, c)
      PROVE  (Made /\ Store!ListedIsReady)'
  <2>1. (\A i \in Instance : trees'[Store!Container(i)] = trees[Store!Container(i)]) /\ listed' = listed
    BY <1>0, <1>1 DEF Store!Begin
  <2>2. MadeBy(t)'
    BY <1>0, <1>1 DEF Store!Begin
  <2>3. QED
    BY <1>0, <2>1, <2>2, MadeOn
<1>2. CASE Store!PullReads(t)
  <2>1. (\A i \in Instance : trees'[Store!Container(i)] = trees[Store!Container(i)]) /\ listed' = listed
    BY <1>0, <1>2 DEF Store!PullReads
  <2>2. MadeBy(t)'
    BY <1>0, <1>2 DEF Store!PullReads
  <2>3. QED
    BY <1>0, <2>1, <2>2, MadeOn
<1>3. CASE Store!PullPrepares(t)
  <2>1. (\A i \in Instance : trees'[Store!Container(i)] = trees[Store!Container(i)]) /\ listed' = listed
    BY <1>0, <1>3 DEF Store!PullPrepares
  <2>2. MadeBy(t)'
    BY <1>0, <1>3 DEF Store!PullPrepares
  <2>3. QED
    BY <1>0, <2>1, <2>2, MadeOn
<1>4. CASE Store!PullPublishes(t)
  <2>1. (\A i \in Instance : trees'[Store!Container(i)] = trees[Store!Container(i)]) /\ listed' = listed
    <3>1. at[t] = "publish" /\ does[t] \in Requests /\ Store!Base(does[t].ref) \in Bases \cup Sealeds
      BY <1>4, Working, RequestIs, TreesApart DEF Store!PullPublishes, Store!Ran
    <3>2. CASE Store!Publish(t, Store!Base(does[t].ref))
      <4>1. \A e \in Store!TreeId \ {Store!Base(does[t].ref)} : trees'[e] = trees[e]
        BY <3>1, <3>2, PublishedTree, TreesApart
      <4>2. QED
        BY <1>4, <3>1, <4>1, TreesApart DEF Store!PullPublishes
    <3>3. CASE trees' = trees
      BY <1>4, <3>3 DEF Store!PullPublishes
    <3>4. QED
      BY <1>4, <3>2, <3>3 DEF Store!PullPublishes
  <2>2. MadeBy(t)'
    BY <1>0, <1>4 DEF Store!PullPublishes
  <2>3. QED
    BY <1>0, <2>1, <2>2, MadeOn
<1>5. CASE Store!PullIndexes(t)
  <2>1. (\A i \in Instance : trees'[Store!Container(i)] = trees[Store!Container(i)]) /\ listed' = listed
    BY <1>0, <1>5 DEF Store!PullIndexes
  <2>2. MadeBy(t)'
    BY <1>0, <1>5 DEF Store!PullIndexes
  <2>3. QED
    BY <1>0, <2>1, <2>2, MadeOn
<1>6. CASE Store!UninstallReads(t)
  <2>1. (\A i \in Instance : trees'[Store!Container(i)] = trees[Store!Container(i)]) /\ listed' = listed
    BY <1>0, <1>6 DEF Store!UninstallReads
  <2>2. MadeBy(t)'
    BY <1>0, <1>6 DEF Store!UninstallReads
  <2>3. QED
    BY <1>0, <2>1, <2>2, MadeOn
<1>7. CASE Store!RemoveReads(t)
  <2>1. (\A i \in Instance : trees'[Store!Container(i)] = trees[Store!Container(i)]) /\ listed' = listed
    BY <1>0, <1>7 DEF Store!RemoveReads
  <2>2. MadeBy(t)'
    BY <1>0, <1>7 DEF Store!RemoveReads
  <2>3. QED
    BY <1>0, <2>1, <2>2, MadeOn
<1>8. CASE Store!Deletes(t)
  <2>1. (\A i \in Instance : trees'[Store!Container(i)] = trees[Store!Container(i)]) /\ listed' = listed
    <3>1. /\ Store!Doomed(t) \in Bases \cup Sealeds /\ listed' = listed
          /\ \A e \in Store!TreeId \ {Store!Doomed(t)} : trees'[e] = trees[e]
      BY <1>8, Deleting DEF Store!Deletes
    <3> HIDE DEF Store!Doomed
    <3>2. QED
      BY <3>1, TreesApart
  <2>2. MadeBy(t)'
    <3>1. does'[t] = Nothing \/ (does' = does /\ does[t].op # "create")
      BY <1>0, <1>8, Working DEF Store!Deletes
    <3>2. QED
      BY <3>1
  <2>3. QED
    BY <1>0, <2>1, <2>2, MadeOn
<1>9. CASE Store!UninstallIndexes(t)
  <2>1. (\A i \in Instance : trees'[Store!Container(i)] = trees[Store!Container(i)]) /\ listed' = listed
    BY <1>0, <1>9 DEF Store!UninstallIndexes
  <2>2. MadeBy(t)'
    BY <1>0, <1>9 DEF Store!UninstallIndexes
  <2>3. QED
    BY <1>0, <2>1, <2>2, MadeOn
<1>10. CASE Store!RemoveIndexes(t)
  <2>1. (\A i \in Instance : trees'[Store!Container(i)] = trees[Store!Container(i)]) /\ listed' = listed
    BY <1>0, <1>10 DEF Store!RemoveIndexes
  <2>2. MadeBy(t)'
    BY <1>0, <1>10 DEF Store!RemoveIndexes
  <2>3. QED
    BY <1>0, <2>1, <2>2, MadeOn
<1>11. CASE Store!BuildReads(t)
  <2>1. (\A i \in Instance : trees'[Store!Container(i)] = trees[Store!Container(i)]) /\ listed' = listed
    BY <1>0, <1>11 DEF Store!BuildReads
  <2>2. MadeBy(t)'
    BY <1>0, <1>11 DEF Store!BuildReads
  <2>3. QED
    BY <1>0, <2>1, <2>2, MadeOn
<1>12. CASE Store!BuildsArtifacts(t)
  <2>1. (\A i \in Instance : trees'[Store!Container(i)] = trees[Store!Container(i)]) /\ listed' = listed
    BY <1>12, Building, TreesApart DEF Store!BuildsArtifacts
  <2>2. MadeBy(t)'
    BY <1>0, <1>12 DEF Store!BuildsArtifacts
  <2>3. QED
    BY <1>0, <2>1, <2>2, MadeOn
<1>13. CASE Store!BuildCopies(t)
  <2>1. (\A i \in Instance : trees'[Store!Container(i)] = trees[Store!Container(i)]) /\ listed' = listed
    BY <1>0, <1>13 DEF Store!BuildCopies
  <2>2. MadeBy(t)'
    BY <1>0, <1>13 DEF Store!BuildCopies
  <2>3. QED
    BY <1>0, <2>1, <2>2, MadeOn
<1>14. CASE Store!BuildPublishes(t)
  <2>1. (\A i \in Instance : trees'[Store!Container(i)] = trees[Store!Container(i)]) /\ listed' = listed
    <3>1. at[t] = "publish" /\ does[t] \in Requests /\ Store!Sealed(does[t].name, does[t].ref, does[t].recipe) \in Bases \cup Sealeds
      BY <1>14, Working, RequestIs, TreesApart DEF Store!BuildPublishes, Store!Ran
    <3>2. CASE Store!Publish(t, Store!Sealed(does[t].name, does[t].ref, does[t].recipe))
      <4>1. \A e \in Store!TreeId \ {Store!Sealed(does[t].name, does[t].ref, does[t].recipe)} : trees'[e] = trees[e]
        BY <3>1, <3>2, PublishedTree, TreesApart
      <4>2. QED
        BY <1>14, <3>1, <4>1, TreesApart DEF Store!BuildPublishes
    <3>3. CASE trees' = trees
      BY <1>14, <3>3 DEF Store!BuildPublishes
    <3>4. QED
      BY <1>14, <3>2, <3>3 DEF Store!BuildPublishes
  <2>2. MadeBy(t)'
    BY <1>0, <1>14 DEF Store!BuildPublishes
  <2>3. QED
    BY <1>0, <2>1, <2>2, MadeOn
<1>15. CASE Store!BuildReadsIndex(t)
  <2>1. (\A i \in Instance : trees'[Store!Container(i)] = trees[Store!Container(i)]) /\ listed' = listed
    BY <1>0, <1>15 DEF Store!BuildReadsIndex
  <2>2. MadeBy(t)'
    BY <1>0, <1>15 DEF Store!BuildReadsIndex
  <2>3. QED
    BY <1>0, <2>1, <2>2, MadeOn
<1>16. CASE Store!BuildIndexes(t)
  <2>1. (\A i \in Instance : trees'[Store!Container(i)] = trees[Store!Container(i)]) /\ listed' = listed
    BY <1>0, <1>16 DEF Store!BuildIndexes
  <2>2. MadeBy(t)'
    BY <1>0, <1>16 DEF Store!BuildIndexes
  <2>3. QED
    BY <1>0, <2>1, <2>2, MadeOn
<1>17. CASE Store!ImportReads(t)
  <2>1. (\A i \in Instance : trees'[Store!Container(i)] = trees[Store!Container(i)]) /\ listed' = listed
    BY <1>0, <1>17 DEF Store!ImportReads
  <2>2. MadeBy(t)'
    BY <1>0, <1>17 DEF Store!ImportReads
  <2>3. QED
    BY <1>0, <2>1, <2>2, MadeOn
<1>18. CASE Store!ImportPublishes(t)
  <2>1. (\A i \in Instance : trees'[Store!Container(i)] = trees[Store!Container(i)]) /\ listed' = listed
    <3>1. at[t] = "publish" /\ does[t] \in Requests /\ Store!ArchiveTree(does[t].archive) \in Bases \cup Sealeds
      BY <1>18, Working, RequestIs, TreesApart DEF Store!ImportPublishes, Store!Ran
    <3>2. CASE Store!Publish(t, Store!ArchiveTree(does[t].archive))
      <4>1. \A e \in Store!TreeId \ {Store!ArchiveTree(does[t].archive)} : trees'[e] = trees[e]
        BY <3>1, <3>2, PublishedTree, TreesApart
      <4>2. QED
        BY <1>18, <3>1, <4>1, TreesApart DEF Store!ImportPublishes
    <3>3. CASE trees' = trees
      BY <1>18, <3>3 DEF Store!ImportPublishes
    <3>4. QED
      BY <1>18, <3>2, <3>3 DEF Store!ImportPublishes
  <2>2. MadeBy(t)'
    BY <1>0, <1>18 DEF Store!ImportPublishes
  <2>3. QED
    BY <1>0, <2>1, <2>2, MadeOn
<1>19. CASE Store!ImportIndexes(t)
  <2>1. (\A i \in Instance : trees'[Store!Container(i)] = trees[Store!Container(i)]) /\ listed' = listed
    BY <1>0, <1>19 DEF Store!ImportIndexes
  <2>2. MadeBy(t)'
    BY <1>0, <1>19 DEF Store!ImportIndexes
  <2>3. QED
    BY <1>0, <2>1, <2>2, MadeOn
<1>20. CASE Store!CreateResolves(t)
  <2>1. (\A i \in Instance : trees'[Store!Container(i)] = trees[Store!Container(i)]) /\ listed' = listed
    BY <1>0, <1>20 DEF Store!CreateResolves
  <2>2. MadeBy(t)'
    BY <1>0, <1>20 DEF Store!CreateResolves
  <2>3. QED
    BY <1>0, <2>1, <2>2, MadeOn
<1>21. CASE Store!CreateCopies(t)
  <2>1. (\A i \in Instance : trees'[Store!Container(i)] = trees[Store!Container(i)]) /\ listed' = listed
    BY <1>0, <1>21 DEF Store!CreateCopies
  <2>2. MadeBy(t)'
    BY <1>0, <1>21 DEF Store!CreateCopies
  <2>3. QED
    BY <1>0, <2>1, <2>2, MadeOn
<1>22. CASE Store!CreatePublishes(t)
  <2> DEFINE d == Store!Container(does[t].id)
  <2>1. at[t] = "publish" /\ does[t].op = "create" /\ does[t] # Nothing /\ does[t].id \in Instance /\ d \in Store!TreeId
    BY <1>22, Working, RequestIs, TreesApart, NoValue DEF Store!CreatePublishes, Store!Ran
  <2>2. trees[d] = Nothing /\ trees'[d] # Nothing /\ \A e \in Store!TreeId \ {d} : trees'[e] = trees[e]
    BY <2>1, <1>22, PublishedTree, NoValue DEF Store!CreatePublishes
  <2>3. listed[does[t].id] = Nothing /\ UNCHANGED <<does, listed>> /\ at'[t] = "prepare"
    BY <1>0, <2>1, <1>22 DEF Store!CreatePublishes
  <2>4. MadeBy(t)'
    BY <2>2, <2>3
  <2>5. Made'
    BY <1>0, <2>1, <2>4, MadeAlone
  <2> HIDE DEF d
  <2>6. \A i \in Instance : listed[i] # Nothing => trees'[Store!Container(i)] = trees[Store!Container(i)]
    BY <2>2, <2>3, TreesApart DEF StoreInv, Store!ListedIsReady, Store!Exists, Store!Absent
  <2>7. Store!ListedIsReady'
    BY <2>3, <2>6 DEF StoreInv, Store!ListedIsReady, Store!Exists, Store!Absent
  <2>8. QED
    BY <2>5, <2>7
<1>23. CASE Store!CreatePrepares(t)
  <2> DEFINE d == Store!Container(does[t].id)
  <2>1. at[t] = "prepare" /\ does[t].op = "create" /\ does[t] # Nothing /\ does[t].id \in Instance /\ d \in Store!TreeId
        /\ trees[d] \in States /\ Honest(trees[d]) /\ (\A e \in Store!TreeId \ {d} : trees'[e] = trees[e])
        /\ \/ trees'[d] = Store!Prepared(trees[d]) /\ Store!Goes(t, "list") /\ UNCHANGED <<does, seen, holds>>
           \/ trees'[d] = Nothing /\ Store!Ends(t)
    BY <1>23, Preparing, NoValue
  <2>2. Store!Prepared(trees[d]) # Nothing /\ Store!Prepared(trees[d]).linked /\ Store!Prepared(trees[d]).built = Here
    BY <2>1, HonestStays, StatesAre, NoValue
  <2>3. listed[does[t].id] = Nothing /\ listed' = listed
    BY <1>0, <2>1, <1>23 DEF Store!CreatePrepares
  <2>4. MadeBy(t)'
    <3>1. CASE trees'[d] = Store!Prepared(trees[d]) /\ Store!Goes(t, "list") /\ UNCHANGED <<does, seen, holds>>
      <4>1. at'[t] = "list" /\ does'[t] = does[t]
        BY <1>0, <3>1
      <4>2. QED
        BY <2>2, <2>3, <3>1, <4>1
    <3>2. CASE trees'[d] = Nothing /\ Store!Ends(t)
      <4>1. does'[t] = Nothing
        BY <1>0, <3>2
      <4>2. QED
        BY <4>1
    <3> HIDE DEF d, MadeBy, Store!Goes, Store!Ends
    <3>3. QED
      BY <2>1, <3>1, <3>2
  <2>5. Made'
    BY <1>0, <2>1, <2>4, MadeAlone
  <2>6. \A i \in Instance : listed[i] # Nothing => trees'[Store!Container(i)] = trees[Store!Container(i)]
    <3> SUFFICES ASSUME NEW i \in Instance, listed[i] # Nothing
                 PROVE  trees'[Store!Container(i)] = trees[Store!Container(i)]
      OBVIOUS
    <3>1. Store!Container(i) \in Store!TreeId /\ Store!Container(i) # d
      BY <2>1, <2>3, TreesApart
    <3>2. QED
      BY <2>1, <3>1
  <2>7. Store!ListedIsReady'
    BY <2>3, <2>6 DEF StoreInv, Store!ListedIsReady, Store!Exists, Store!Absent
  <2>8. QED
    BY <2>5, <2>7
<1>24. CASE Store!CreateLists(t)
  <2>1. at[t] = "list" /\ does[t].op = "create" /\ does[t] # Nothing /\ does[t].id \in Instance
    BY <1>24, Working, RequestIs, NoValue DEF Store!CreateLists, Store!Ran
  <2>2. trees' = trees /\ listed' = [listed EXCEPT ![does[t].id] = does[t].template] /\ does'[t] = Nothing
    BY <1>0, <1>24 DEF Store!CreateLists
  <2>3. Made'
    <3>1. MadeBy(t)'
      BY <2>2
    <3>2. QED
      BY <1>0, <2>1, <3>1, MadeAlone
  <2>4. LET x == trees[Store!Container(does[t].id)] IN x # Nothing /\ x.linked /\ x.built = Here
    BY <1>0, <2>1
  <2>5. Store!ListedIsReady'
    BY <2>2, <2>4 DEF StoreInv, StoreType, Filed, Store!ListedIsReady, Store!Exists, Store!Absent
  <2>6. QED
    BY <2>3, <2>5
<1>25. QED
  BY <1>1, <1>2, <1>3, <1>4, <1>5, <1>6, <1>7, <1>8, <1>9, <1>10, <1>11, <1>12, <1>13, <1>14, <1>15, <1>16, <1>17,
     <1>18, <1>19, <1>20, <1>21, <1>22, <1>23, <1>24 DEF Acts

\* What the prepared bases depend on: the index, the trees, whoever pulls and
\* whoever uninstalls.
PullsFit(t) ==
  /\ Busy(t, "pull", {"prepare", "publish", "index"}) => does[t].ref \notin bases
  /\ Busy(t, "pull", {"index"}) => trees[Store!Base(does[t].ref)] # Nothing \/ Leaving(does[t].ref)
Leaves(t, r) == Busy(t, "uninstall", {"index"}) /\ does[t].ref = r

\* A step after which the index is as it was, and every base is where it was or
\* is being left.
LEMMA BasesOn ==
  ASSUME StoreInv, BasesAgree, NEW t \in Actors, Acts(t), bases' = bases,
         \A r \in Ref : trees[Store!Base(r)] # Nothing => trees'[Store!Base(r)] # Nothing \/ Leaves(t, r)',
         \A r \in Ref : Leaves(t, r) => Leaves(t, r)', PullsFit(t)'
  PROVE  BasesAgree'
<1>1. \A u \in Actors \ {t} : Waits(u)
  BY OthersWait DEF StoreInv
<1>2. \A r \in Ref : Leaving(r) => Leaving(r)'
  <2> SUFFICES ASSUME NEW r \in Ref, NEW u \in Actors, Leaves(u, r)
               PROVE  \E v \in Actors : Leaves(v, r)'
    BY DEF Leaving, Leaves
  <2>1. Leaves(u, r)'
    BY <1>1 DEF Leaves, Busy, Waits
  <2>2. QED
    BY <2>1
<1>3. \A r \in Ref : Leaves(t, r)' => Leaving(r)'
  BY DEF Leaves, Leaving
<1>4. bases \subseteq Ref
  BY DEF StoreInv, StoreType, Filed
<1>5. ASSUME NEW u \in Actors \ {t} PROVE PullsFit(u)'
  <2>1. Waits(u) /\ PullsFit(u) /\ (Busy(u, "pull", {"index"}) => does[u].ref \in Ref)
    BY <1>1, RequestIs DEF BasesAgree, PullsFit, StoreInv, StoreType, Asking, Busy
  <2>2. Busy(u, "pull", {"index"})' <=> Busy(u, "pull", {"index"})
    BY <2>1 DEF Busy, Waits
  <2>3. Busy(u, "pull", {"prepare", "publish", "index"})' <=> Busy(u, "pull", {"prepare", "publish", "index"})
    BY <2>1 DEF Busy, Waits
  <2>4. does'[u] = does[u]
    BY <2>1 DEF Waits
  <2>5. QED
    BY <1>2, <1>3, <2>1, <2>2, <2>3, <2>4 DEF PullsFit
<1>6. \A r \in bases' : trees'[Store!Base(r)] # Nothing \/ Leaving(r)'
  BY <1>2, <1>3, <1>4 DEF BasesAgree
<1>7. QED
  BY <1>5, <1>6 DEF BasesAgree, PullsFit

\* As long as no index is written late: a reference has its base.
LEMMA BasesStay ==
  ASSUME StoreInv, BasesAgree, ~stale', NEW t \in Actors, Acts(t)
  PROVE  BasesAgree'
<1>0. /\ StoreInv /\ BasesAgree /\ ~stale' /\ Acts(t) /\ t \in Actors /\ (\A u \in Actors : PullsFit(u)) /\ (\A u \in Actors \ {t} : Waits(u))
      /\ at \in [Actors -> Places] /\ bases \subseteq Ref
      /\ does \in [Actors -> Requests \cup {Nothing}] /\ (at[t] # "idle" => does[t] \in Requests)
      /\ DOMAIN seen = Actors /\ holds \in [Actors -> States \cup {Nothing}] /\ HasRead(t)
  BY Working, OthersWait DEF StoreInv, StoreType, BasesAgree, PullsFit, Placed, Asking, Seeing, Holding, Filed, AtWork
<1> USE DEF PullsFit, Leaves, Busy, Store!Ran, Store!Goes, Store!Reads, Store!Ends, Store!Kept, Store!Absent,
        Store!WriteBases, Store!WriteSealed
<1>1. ASSUME NEW c \in Requests, Store!Begin(t, c)
      PROVE  BasesAgree'
  <2>1. bases' = bases
    BY <1>0, <1>1 DEF Store!Begin
  <2>2. \A r \in Ref : trees[Store!Base(r)] # Nothing => trees'[Store!Base(r)] # Nothing \/ Leaves(t, r)'
    BY <1>0, <1>1 DEF Store!Begin
  <2>3. \A r \in Ref : Leaves(t, r) => Leaves(t, r)'
    BY <1>0, <1>1 DEF Store!Begin
  <2>4. PullsFit(t)'
    BY <1>0, <1>1 DEF Store!Begin
  <2>5. QED
    BY <1>0, <2>1, <2>2, <2>3, <2>4, BasesOn
<1>2. CASE Store!PullReads(t)
  <2>1. bases' = bases
    BY <1>0, <1>2 DEF Store!PullReads
  <2>2. \A r \in Ref : trees[Store!Base(r)] # Nothing => trees'[Store!Base(r)] # Nothing \/ Leaves(t, r)'
    BY <1>0, <1>2 DEF Store!PullReads
  <2>3. \A r \in Ref : Leaves(t, r) => Leaves(t, r)'
    BY <1>0, <1>2 DEF Store!PullReads
  <2>4. PullsFit(t)'
    BY <1>0, <1>2 DEF Store!PullReads
  <2>5. QED
    BY <1>0, <2>1, <2>2, <2>3, <2>4, BasesOn
<1>3. CASE Store!PullPrepares(t)
  <2>1. bases' = bases
    BY <1>0, <1>3 DEF Store!PullPrepares
  <2>2. \A r \in Ref : trees[Store!Base(r)] # Nothing => trees'[Store!Base(r)] # Nothing \/ Leaves(t, r)'
    BY <1>0, <1>3 DEF Store!PullPrepares
  <2>3. \A r \in Ref : Leaves(t, r) => Leaves(t, r)'
    BY <1>0, <1>3 DEF Store!PullPrepares
  <2>4. PullsFit(t)'
    BY <1>0, <1>3 DEF Store!PullPrepares
  <2>5. QED
    BY <1>0, <2>1, <2>2, <2>3, <2>4, BasesOn
<1>4. CASE Store!PullPublishes(t)
  <2>1. bases' = bases
    BY <1>0, <1>4 DEF Store!PullPublishes
  <2>2. \A r \in Ref : trees[Store!Base(r)] # Nothing => trees'[Store!Base(r)] # Nothing \/ Leaves(t, r)'
    <3>1. at[t] = "publish" /\ does[t] \in Requests /\ Store!Base(does[t].ref) \in Store!TreeId
      BY <1>4, Working, RequestIs, TreesApart DEF Store!PullPublishes, Store!Ran
    <3>2. CASE Store!Publish(t, Store!Base(does[t].ref))
      <4>1. trees[Store!Base(does[t].ref)] = Nothing /\ \A e \in Store!TreeId \ {Store!Base(does[t].ref)} : trees'[e] = trees[e]
        BY <3>1, <3>2, PublishedTree
      <4>2. QED
        BY <4>1, TreesApart
    <3>3. CASE trees' = trees
      BY <3>3
    <3>4. QED
      BY <1>4, <3>2, <3>3 DEF Store!PullPublishes
  <2>3. \A r \in Ref : Leaves(t, r) => Leaves(t, r)'
    BY <1>0, <1>4 DEF Store!PullPublishes
  <2>4. PullsFit(t)'
    <3> DEFINE d == Store!Base(does[t].ref)
    <3>1. at[t] = "publish" /\ does[t] \in Requests /\ d \in Store!TreeId
      BY <1>4, Working, RequestIs, TreesApart DEF Store!PullPublishes, Store!Ran
    <3>2. CASE Store!Publish(t, d)
      <4>1. trees'[d] # Nothing
        BY <3>1, <3>2, PublishedTree, NoValue
      <4>2. UNCHANGED <<does, bases>> /\ does[t].ref \notin bases
        BY <1>0, <1>4, <3>2 DEF Store!PullPublishes, Store!Exists, Store!Publish
      <4>3. QED
        BY <4>1, <4>2
    <3>3. CASE ~Store!Publish(t, d)
      <4>1. does'[t] = Nothing
        BY <1>0, <1>4, <3>3 DEF Store!PullPublishes
      <4>2. QED
        BY <4>1
    <3>4. QED
      BY <3>2, <3>3
  <2>5. QED
    BY <1>0, <2>1, <2>2, <2>3, <2>4, BasesOn
<1>5. CASE Store!PullIndexes(t)
  <2>1. at[t] = "index" /\ does[t] \in Requests /\ does[t].op = "pull" /\ does[t].ref \in Ref /\ does'[t] = Nothing
        /\ bases' = bases \cup {does[t].ref} /\ trees' = trees
    BY <1>0, <1>5, RequestIs DEF Store!PullIndexes
  <2>2. trees[Store!Base(does[t].ref)] # Nothing \/ Leaving(does[t].ref)
    BY <1>0, <2>1, NoValue
  <2>3. \A r \in Ref : Leaving(r) => Leaving(r)'
    BY <1>0, <2>1 DEF Leaving, Waits
  <2>4. \A r \in bases' : trees'[Store!Base(r)] # Nothing \/ Leaving(r)'
    <3>1. \A r \in bases : trees[Store!Base(r)] # Nothing \/ Leaving(r)
      BY <1>0 DEF BasesAgree
    <3>2. QED
      BY <1>0, <2>1, <2>2, <2>3, <3>1
  <2>5. \A u \in Actors : PullsFit(u)'
    <3>1. \A u \in Actors \ {t} : does'[u] = Nothing \/ does'[u].op # "pull"
      BY <1>0, <2>1, Alone, NoValue DEF Waits
    <3>2. QED
      BY <2>1, <3>1
  <2>6. QED
    BY <2>4, <2>5 DEF BasesAgree
<1>6. CASE Store!UninstallReads(t)
  <2>1. bases' = bases
    BY <1>0, <1>6 DEF Store!UninstallReads
  <2>2. \A r \in Ref : trees[Store!Base(r)] # Nothing => trees'[Store!Base(r)] # Nothing \/ Leaves(t, r)'
    BY <1>0, <1>6 DEF Store!UninstallReads
  <2>3. \A r \in Ref : Leaves(t, r) => Leaves(t, r)'
    BY <1>0, <1>6 DEF Store!UninstallReads
  <2>4. PullsFit(t)'
    BY <1>0, <1>6 DEF Store!UninstallReads
  <2>5. QED
    BY <1>0, <2>1, <2>2, <2>3, <2>4, BasesOn
<1>7. CASE Store!RemoveReads(t)
  <2>1. bases' = bases
    BY <1>0, <1>7 DEF Store!RemoveReads
  <2>2. \A r \in Ref : trees[Store!Base(r)] # Nothing => trees'[Store!Base(r)] # Nothing \/ Leaves(t, r)'
    BY <1>0, <1>7 DEF Store!RemoveReads
  <2>3. \A r \in Ref : Leaves(t, r) => Leaves(t, r)'
    BY <1>0, <1>7 DEF Store!RemoveReads
  <2>4. PullsFit(t)'
    BY <1>0, <1>7 DEF Store!RemoveReads
  <2>5. QED
    BY <1>0, <2>1, <2>2, <2>3, <2>4, BasesOn
<1>8. CASE Store!Deletes(t)
  <2>1. bases' = bases
    BY <1>0, <1>8 DEF Store!Deletes
  <2>2. \A r \in Ref : trees[Store!Base(r)] # Nothing => trees'[Store!Base(r)] # Nothing \/ Leaves(t, r)'
    <3> SUFFICES ASSUME NEW r \in Ref, trees[Store!Base(r)] # Nothing, trees'[Store!Base(r)] = Nothing
                 PROVE  Leaves(t, r)'
      OBVIOUS
    <3>1. Store!Base(r) = Store!Doomed(t)
      BY <1>8, Deleting, TreesApart
    <3>2. at[t] = "delete" /\ does[t] \in Requests /\ does[t].op = "uninstall" /\ Store!Base(does[t].ref) = Store!Base(r)
      <4>1. at[t] = "delete"
        BY <1>8, Deleting
      <4>2. QED
        BY <3>1, <4>1, Working, TreesApart
    <3>3. does[t].ref = r
      BY <3>2, RequestIs, TreesApart
    <3>4. Removed(t)
      BY <1>8, Deleting, <3>1, NoValue DEF Erodes, FindsNone
    <3>5. at'[t] = "index" /\ does' = does
      BY <1>0, <3>4 DEF Removed
    <3>6. QED
      BY <1>0, <3>2, <3>3, <3>5, NoValue
  <2>3. \A r \in Ref : Leaves(t, r) => Leaves(t, r)'
    BY <1>0, <1>8 DEF Store!Deletes
  <2>4. PullsFit(t)'
    <3>1. at[t] = "delete" /\ does[t] \in Requests /\ does[t].op # "pull"
      BY <1>8, Deleting, Working
    <3>2. does'[t] \in {Nothing, does[t]}
      BY <1>0, <1>8 DEF Store!Deletes
    <3>3. QED
      BY <3>1, <3>2
  <2>5. QED
    BY <1>0, <2>1, <2>2, <2>3, <2>4, BasesOn
<1>9. CASE Store!UninstallIndexes(t)
  <2>1. at[t] = "index" /\ does[t] \in Requests /\ does[t].op = "uninstall" /\ does[t].ref \in Ref /\ does'[t] = Nothing
        /\ bases' = bases \ {does[t].ref} /\ trees' = trees /\ does[t].ref \in bases
    <3>1. at[t] = "index" /\ does[t].op = "uninstall" /\ does[t] # Nothing /\ seen[t] = bases /\ does'[t] = Nothing
          /\ bases' = seen[t] \ {does[t].ref} /\ trees' = trees
      BY <1>0, <1>9 DEF Store!UninstallIndexes
    <3>2. does[t] \in Requests /\ does[t].ref \in seen[t]
      BY <1>0, <3>1 DEF HasRead
    <3>3. QED
      BY <1>0, <3>1, <3>2
  <2>2. \A r \in Ref \ {does[t].ref} : Leaving(r) => Leaving(r)'
    BY <1>0, <2>1 DEF Leaving, Waits
  <2>3. \A r \in bases' : trees'[Store!Base(r)] # Nothing \/ Leaving(r)'
    <3>1. \A r \in bases : trees[Store!Base(r)] # Nothing \/ Leaving(r)
      BY <1>0 DEF BasesAgree
    <3>2. QED
      BY <1>0, <2>1, <2>2, <3>1
  <2>4. ASSUME NEW u \in Actors \ {t} PROVE PullsFit(u)'
    <3>1. Waits(u) /\ PullsFit(u) /\ (does[u] # Nothing => does[u] \in Requests)
      BY <1>0 DEF BasesAgree
    <3>2. CASE Busy(u, "pull", {"prepare", "publish", "index"})
      <4>1. does[u].ref \in Ref /\ does[u].ref \notin bases
        BY <3>1, <3>2, RequestIs
      <4>2. QED
        BY <2>1, <2>2, <3>1, <4>1 DEF Waits
    <3>3. CASE ~Busy(u, "pull", {"prepare", "publish", "index"})
      BY <3>1, <3>3 DEF Waits
    <3>4. QED
      BY <3>2, <3>3
  <2>5. PullsFit(t)'
    BY <2>1
  <2>6. QED
    BY <2>3, <2>4, <2>5 DEF BasesAgree
<1>10. CASE Store!RemoveIndexes(t)
  <2>1. bases' = bases
    BY <1>0, <1>10 DEF Store!RemoveIndexes
  <2>2. \A r \in Ref : trees[Store!Base(r)] # Nothing => trees'[Store!Base(r)] # Nothing \/ Leaves(t, r)'
    BY <1>0, <1>10 DEF Store!RemoveIndexes
  <2>3. \A r \in Ref : Leaves(t, r) => Leaves(t, r)'
    BY <1>0, <1>10 DEF Store!RemoveIndexes
  <2>4. PullsFit(t)'
    BY <1>0, <1>10 DEF Store!RemoveIndexes
  <2>5. QED
    BY <1>0, <2>1, <2>2, <2>3, <2>4, BasesOn
<1>11. CASE Store!BuildReads(t)
  <2>1. bases' = bases
    BY <1>0, <1>11 DEF Store!BuildReads
  <2>2. \A r \in Ref : trees[Store!Base(r)] # Nothing => trees'[Store!Base(r)] # Nothing \/ Leaves(t, r)'
    BY <1>0, <1>11 DEF Store!BuildReads
  <2>3. \A r \in Ref : Leaves(t, r) => Leaves(t, r)'
    BY <1>0, <1>11 DEF Store!BuildReads
  <2>4. PullsFit(t)'
    BY <1>0, <1>11 DEF Store!BuildReads
  <2>5. QED
    BY <1>0, <2>1, <2>2, <2>3, <2>4, BasesOn
<1>12. CASE Store!BuildsArtifacts(t)
  <2>1. bases' = bases
    BY <1>0, <1>12 DEF Store!BuildsArtifacts
  <2>2. \A r \in Ref : trees[Store!Base(r)] # Nothing => trees'[Store!Base(r)] # Nothing \/ Leaves(t, r)'
    <3>1. LET b == Store!Base(does[t].ref)
          IN trees' = trees \/ trees'[b] # Nothing
      <4>1. trees' = trees \/ trees'[Store!Base(does[t].ref)] \in States
        BY <1>12, Building, StatesAre
      <4>2. QED
        BY <4>1, NoValue
    <3>2. \A e \in Store!TreeId \ {Store!Base(does[t].ref)} : trees'[e] = trees[e]
      BY <1>12, Building
    <3>3. QED
      BY <3>1, <3>2, TreesApart
  <2>3. \A r \in Ref : Leaves(t, r) => Leaves(t, r)'
    BY <1>0, <1>12 DEF Store!BuildsArtifacts
  <2>4. PullsFit(t)'
    BY <1>0, <1>12 DEF Store!BuildsArtifacts
  <2>5. QED
    BY <1>0, <2>1, <2>2, <2>3, <2>4, BasesOn
<1>13. CASE Store!BuildCopies(t)
  <2>1. bases' = bases
    BY <1>0, <1>13 DEF Store!BuildCopies
  <2>2. \A r \in Ref : trees[Store!Base(r)] # Nothing => trees'[Store!Base(r)] # Nothing \/ Leaves(t, r)'
    BY <1>0, <1>13 DEF Store!BuildCopies
  <2>3. \A r \in Ref : Leaves(t, r) => Leaves(t, r)'
    BY <1>0, <1>13 DEF Store!BuildCopies
  <2>4. PullsFit(t)'
    BY <1>0, <1>13 DEF Store!BuildCopies
  <2>5. QED
    BY <1>0, <2>1, <2>2, <2>3, <2>4, BasesOn
<1>14. CASE Store!BuildPublishes(t)
  <2>1. bases' = bases
    BY <1>0, <1>14 DEF Store!BuildPublishes
  <2>2. \A r \in Ref : trees[Store!Base(r)] # Nothing => trees'[Store!Base(r)] # Nothing \/ Leaves(t, r)'
    <3>1. at[t] = "publish" /\ does[t] \in Requests /\ Store!Sealed(does[t].name, does[t].ref, does[t].recipe) \in Store!TreeId
      BY <1>14, Working, RequestIs, TreesApart DEF Store!BuildPublishes, Store!Ran
    <3>2. CASE Store!Publish(t, Store!Sealed(does[t].name, does[t].ref, does[t].recipe))
      <4>1. trees[Store!Sealed(does[t].name, does[t].ref, does[t].recipe)] = Nothing /\ \A e \in Store!TreeId \ {Store!Sealed(does[t].name, does[t].ref, does[t].recipe)} : trees'[e] = trees[e]
        BY <3>1, <3>2, PublishedTree
      <4>2. QED
        BY <4>1, TreesApart
    <3>3. CASE trees' = trees
      BY <3>3
    <3>4. QED
      BY <1>14, <3>2, <3>3 DEF Store!BuildPublishes
  <2>3. \A r \in Ref : Leaves(t, r) => Leaves(t, r)'
    BY <1>0, <1>14 DEF Store!BuildPublishes
  <2>4. PullsFit(t)'
    BY <1>0, <1>14 DEF Store!BuildPublishes
  <2>5. QED
    BY <1>0, <2>1, <2>2, <2>3, <2>4, BasesOn
<1>15. CASE Store!BuildReadsIndex(t)
  <2>1. bases' = bases
    BY <1>0, <1>15 DEF Store!BuildReadsIndex
  <2>2. \A r \in Ref : trees[Store!Base(r)] # Nothing => trees'[Store!Base(r)] # Nothing \/ Leaves(t, r)'
    BY <1>0, <1>15 DEF Store!BuildReadsIndex
  <2>3. \A r \in Ref : Leaves(t, r) => Leaves(t, r)'
    BY <1>0, <1>15 DEF Store!BuildReadsIndex
  <2>4. PullsFit(t)'
    BY <1>0, <1>15 DEF Store!BuildReadsIndex
  <2>5. QED
    BY <1>0, <2>1, <2>2, <2>3, <2>4, BasesOn
<1>16. CASE Store!BuildIndexes(t)
  <2>1. bases' = bases
    BY <1>0, <1>16 DEF Store!BuildIndexes
  <2>2. \A r \in Ref : trees[Store!Base(r)] # Nothing => trees'[Store!Base(r)] # Nothing \/ Leaves(t, r)'
    BY <1>0, <1>16 DEF Store!BuildIndexes
  <2>3. \A r \in Ref : Leaves(t, r) => Leaves(t, r)'
    BY <1>0, <1>16 DEF Store!BuildIndexes
  <2>4. PullsFit(t)'
    BY <1>0, <1>16 DEF Store!BuildIndexes
  <2>5. QED
    BY <1>0, <2>1, <2>2, <2>3, <2>4, BasesOn
<1>17. CASE Store!ImportReads(t)
  <2>1. bases' = bases
    BY <1>0, <1>17 DEF Store!ImportReads
  <2>2. \A r \in Ref : trees[Store!Base(r)] # Nothing => trees'[Store!Base(r)] # Nothing \/ Leaves(t, r)'
    BY <1>0, <1>17 DEF Store!ImportReads
  <2>3. \A r \in Ref : Leaves(t, r) => Leaves(t, r)'
    BY <1>0, <1>17 DEF Store!ImportReads
  <2>4. PullsFit(t)'
    BY <1>0, <1>17 DEF Store!ImportReads
  <2>5. QED
    BY <1>0, <2>1, <2>2, <2>3, <2>4, BasesOn
<1>18. CASE Store!ImportPublishes(t)
  <2>1. bases' = bases
    BY <1>0, <1>18 DEF Store!ImportPublishes
  <2>2. \A r \in Ref : trees[Store!Base(r)] # Nothing => trees'[Store!Base(r)] # Nothing \/ Leaves(t, r)'
    <3>1. at[t] = "publish" /\ does[t] \in Requests /\ Store!ArchiveTree(does[t].archive) \in Store!TreeId
      BY <1>18, Working, RequestIs, TreesApart DEF Store!ImportPublishes, Store!Ran
    <3>2. CASE Store!Publish(t, Store!ArchiveTree(does[t].archive))
      <4>1. trees[Store!ArchiveTree(does[t].archive)] = Nothing /\ \A e \in Store!TreeId \ {Store!ArchiveTree(does[t].archive)} : trees'[e] = trees[e]
        BY <3>1, <3>2, PublishedTree
      <4>2. QED
        BY <4>1, TreesApart
    <3>3. CASE trees' = trees
      BY <3>3
    <3>4. QED
      BY <1>18, <3>2, <3>3 DEF Store!ImportPublishes
  <2>3. \A r \in Ref : Leaves(t, r) => Leaves(t, r)'
    BY <1>0, <1>18 DEF Store!ImportPublishes
  <2>4. PullsFit(t)'
    BY <1>0, <1>18 DEF Store!ImportPublishes
  <2>5. QED
    BY <1>0, <2>1, <2>2, <2>3, <2>4, BasesOn
<1>19. CASE Store!ImportIndexes(t)
  <2>1. bases' = bases
    BY <1>0, <1>19 DEF Store!ImportIndexes
  <2>2. \A r \in Ref : trees[Store!Base(r)] # Nothing => trees'[Store!Base(r)] # Nothing \/ Leaves(t, r)'
    BY <1>0, <1>19 DEF Store!ImportIndexes
  <2>3. \A r \in Ref : Leaves(t, r) => Leaves(t, r)'
    BY <1>0, <1>19 DEF Store!ImportIndexes
  <2>4. PullsFit(t)'
    BY <1>0, <1>19 DEF Store!ImportIndexes
  <2>5. QED
    BY <1>0, <2>1, <2>2, <2>3, <2>4, BasesOn
<1>20. CASE Store!CreateResolves(t)
  <2>1. bases' = bases
    BY <1>0, <1>20 DEF Store!CreateResolves
  <2>2. \A r \in Ref : trees[Store!Base(r)] # Nothing => trees'[Store!Base(r)] # Nothing \/ Leaves(t, r)'
    BY <1>0, <1>20 DEF Store!CreateResolves
  <2>3. \A r \in Ref : Leaves(t, r) => Leaves(t, r)'
    BY <1>0, <1>20 DEF Store!CreateResolves
  <2>4. PullsFit(t)'
    BY <1>0, <1>20 DEF Store!CreateResolves
  <2>5. QED
    BY <1>0, <2>1, <2>2, <2>3, <2>4, BasesOn
<1>21. CASE Store!CreateCopies(t)
  <2>1. bases' = bases
    BY <1>0, <1>21 DEF Store!CreateCopies
  <2>2. \A r \in Ref : trees[Store!Base(r)] # Nothing => trees'[Store!Base(r)] # Nothing \/ Leaves(t, r)'
    BY <1>0, <1>21 DEF Store!CreateCopies
  <2>3. \A r \in Ref : Leaves(t, r) => Leaves(t, r)'
    BY <1>0, <1>21 DEF Store!CreateCopies
  <2>4. PullsFit(t)'
    BY <1>0, <1>21 DEF Store!CreateCopies
  <2>5. QED
    BY <1>0, <2>1, <2>2, <2>3, <2>4, BasesOn
<1>22. CASE Store!CreatePublishes(t)
  <2>1. bases' = bases
    BY <1>0, <1>22 DEF Store!CreatePublishes
  <2>2. \A r \in Ref : trees[Store!Base(r)] # Nothing => trees'[Store!Base(r)] # Nothing \/ Leaves(t, r)'
    <3>1. at[t] = "publish" /\ does[t] \in Requests /\ Store!Container(does[t].id) \in Store!TreeId
      BY <1>22, Working, RequestIs, TreesApart DEF Store!CreatePublishes, Store!Ran
    <3>2. CASE Store!Publish(t, Store!Container(does[t].id))
      <4>1. trees[Store!Container(does[t].id)] = Nothing /\ \A e \in Store!TreeId \ {Store!Container(does[t].id)} : trees'[e] = trees[e]
        BY <3>1, <3>2, PublishedTree
      <4>2. QED
        BY <4>1, TreesApart
    <3>3. CASE trees' = trees
      BY <3>3
    <3>4. QED
      BY <1>22, <3>2, <3>3 DEF Store!CreatePublishes
  <2>3. \A r \in Ref : Leaves(t, r) => Leaves(t, r)'
    BY <1>0, <1>22 DEF Store!CreatePublishes
  <2>4. PullsFit(t)'
    BY <1>0, <1>22 DEF Store!CreatePublishes
  <2>5. QED
    BY <1>0, <2>1, <2>2, <2>3, <2>4, BasesOn
<1>23. CASE Store!CreatePrepares(t)
  <2>1. bases' = bases
    BY <1>0, <1>23 DEF Store!CreatePrepares
  <2>2. \A r \in Ref : trees[Store!Base(r)] # Nothing => trees'[Store!Base(r)] # Nothing \/ Leaves(t, r)'
    <3>1. /\ Store!Container(does[t].id) \notin Bases
          /\ \A e \in Store!TreeId \ {Store!Container(does[t].id)} : trees'[e] = trees[e]
      BY <1>23, Preparing
    <3>2. QED
      BY <3>1, TreesApart
  <2>3. \A r \in Ref : Leaves(t, r) => Leaves(t, r)'
    BY <1>0, <1>23 DEF Store!CreatePrepares
  <2>4. PullsFit(t)'
    BY <1>0, <1>23 DEF Store!CreatePrepares
  <2>5. QED
    BY <1>0, <2>1, <2>2, <2>3, <2>4, BasesOn
<1>24. CASE Store!CreateLists(t)
  <2>1. bases' = bases
    BY <1>0, <1>24 DEF Store!CreateLists
  <2>2. \A r \in Ref : trees[Store!Base(r)] # Nothing => trees'[Store!Base(r)] # Nothing \/ Leaves(t, r)'
    BY <1>0, <1>24 DEF Store!CreateLists
  <2>3. \A r \in Ref : Leaves(t, r) => Leaves(t, r)'
    BY <1>0, <1>24 DEF Store!CreateLists
  <2>4. PullsFit(t)'
    BY <1>0, <1>24 DEF Store!CreateLists
  <2>5. QED
    BY <1>0, <2>1, <2>2, <2>3, <2>4, BasesOn
<1>25. QED
  BY <1>1, <1>2, <1>3, <1>4, <1>5, <1>6, <1>7, <1>8, <1>9, <1>10, <1>11, <1>12, <1>13, <1>14, <1>15, <1>16, <1>17,
     <1>18, <1>19, <1>20, <1>21, <1>22, <1>23, <1>24 DEF Acts

\* The names of a tree and the callers that work for one are finitely many.
LEMMA Finite ==
  ASSUME NEW d
  PROVE  /\ IsFiniteSet(Named(d)) /\ IsFiniteSet(Named(d)')
         /\ IsFiniteSet(Coming(d)) /\ IsFiniteSet(Coming(d)')
         /\ IsFiniteSet(Going(d)) /\ IsFiniteSet(Going(d)')
<1>1. IsFiniteSet(Name) /\ IsFiniteSet(Actors)
  BY TemplateAssumption DEF Actors, Store!Actor
<1>2. Named(d) \in SUBSET Name /\ Named(d)' \in SUBSET Name
  BY DEF Named
<1>3. Coming(d) \in SUBSET Actors /\ Coming(d)' \in SUBSET Actors
  BY DEF Coming
<1>4. Going(d) \in SUBSET Actors /\ Going(d)' \in SUBSET Actors
  BY DEF Going
<1>5. QED
  BY <1>1, <1>2, <1>3, <1>4, FS_Subset
Sums(d) == Cardinality(Named(d)) + Cardinality(Coming(d)) <= Cardinality(Going(d)) + There(d)

\* Nothing is named or coming that was not, and what is gone is being removed.
LEMMA SumsOn ==
  ASSUME NEW d, Sums(d), Named(d)' \subseteq Named(d), Coming(d)' \subseteq Coming(d), Going(d) \subseteq Going(d)',
         There(d)' \in {0, 1}, There(d) <= There(d)', There(d) \in {0, 1}
  PROVE  Sums(d)'
<1>1. /\ Cardinality(Named(d)') <= Cardinality(Named(d)) /\ Cardinality(Coming(d)') <= Cardinality(Coming(d))
      /\ Cardinality(Going(d)) <= Cardinality(Going(d)')
  BY Finite, FS_Subset
<1>2. /\ Cardinality(Named(d)') \in Nat /\ Cardinality(Named(d)) \in Nat /\ Cardinality(Coming(d)') \in Nat
      /\ Cardinality(Coming(d)) \in Nat /\ Cardinality(Going(d)) \in Nat /\ Cardinality(Going(d)') \in Nat
  BY Finite, FS_CardinalityType
<1>3. Sums(d)' <=> Cardinality(Named(d)') + Cardinality(Coming(d)') <= Cardinality(Going(d)') + There(d)'
  BY DEF Sums
<1>4. QED
  BY <1>1, <1>2, <1>3 DEF Sums

\* A tree is published for one caller.
LEMMA SumsPublished ==
  ASSUME NEW d, NEW t, Sums(d), Named(d)' = Named(d), Coming(d)' = Coming(d) \cup {t}, Going(d) \subseteq Going(d)',
         There(d) = 0, There(d)' = 1
  PROVE  Sums(d)'
<1>1. Cardinality(Coming(d)') <= Cardinality(Coming(d)) + 1 /\ Cardinality(Going(d)) <= Cardinality(Going(d)')
      /\ Cardinality(Named(d)') = Cardinality(Named(d))
  <2>1. Cardinality(Coming(d)) \in Nat
    BY Finite, FS_CardinalityType
  <2>2. QED
    BY <2>1, Finite, FS_Subset, FS_AddElement
<1>2. /\ Cardinality(Named(d)) \in Nat /\ Cardinality(Coming(d)') \in Nat
      /\ Cardinality(Coming(d)) \in Nat /\ Cardinality(Going(d)) \in Nat /\ Cardinality(Going(d)') \in Nat
  BY Finite, FS_CardinalityType
<1>3. Sums(d)' <=> Cardinality(Named(d)') + Cardinality(Coming(d)') <= Cardinality(Going(d)') + There(d)'
  BY DEF Sums
<1>4. QED
  BY <1>1, <1>2, <1>3 DEF Sums

\* A caller that comes gives a name.
LEMMA SumsNamed ==
  ASSUME NEW d, NEW t \in Coming(d), NEW n, Sums(d), Named(d)' = Named(d) \cup {n}, Coming(d)' = Coming(d) \ {t},
         Going(d) \subseteq Going(d)', There(d) \in {0, 1}, There(d)' = There(d)
  PROVE  Sums(d)'
<1>1. Cardinality(Named(d)') <= Cardinality(Named(d)) + 1 /\ Cardinality(Coming(d)') = Cardinality(Coming(d)) - 1
      /\ Cardinality(Going(d)) <= Cardinality(Going(d)')
  <2>1. Cardinality(Named(d)) \in Nat
    BY Finite, FS_CardinalityType
  <2>2. Cardinality(Named(d)') <= Cardinality(Named(d)) + 1
    <3>1. IsFiniteSet(Named(d))
      BY Finite
    <3>2. Cardinality(Named(d) \cup {n}) = IF n \in Named(d) THEN Cardinality(Named(d)) ELSE Cardinality(Named(d)) + 1
      BY <3>1, FS_AddElement
    <3>3. QED
      BY <2>1, <3>2
  <2>3. Cardinality(Coming(d)') = Cardinality(Coming(d)) - 1
    BY Finite, FS_RemoveElement
  <2>4. Cardinality(Going(d)) <= Cardinality(Going(d)')
    BY Finite, FS_Subset
  <2>5. QED
    BY <2>2, <2>3, <2>4
<1>2. /\ Cardinality(Named(d)) \in Nat /\ Cardinality(Named(d)') \in Nat /\ Cardinality(Coming(d)') \in Nat
      /\ Cardinality(Coming(d)) \in Nat /\ Cardinality(Going(d)) \in Nat /\ Cardinality(Going(d)') \in Nat
  BY Finite, FS_CardinalityType
<1>3. Sums(d)' <=> Cardinality(Named(d)') + Cardinality(Coming(d)') <= Cardinality(Going(d)') + There(d)'
  BY DEF Sums
<1>4. QED
  BY <1>1, <1>2, <1>3 DEF Sums

\* A caller is to remove a name, and the tree may be gone.
LEMMA SumsRemoving ==
  ASSUME NEW d, NEW t, t \notin Going(d), Sums(d), Named(d)' = Named(d), Coming(d)' = Coming(d), Going(d)' = Going(d) \cup {t},
         There(d) \in {0, 1}, There(d)' \in {0, 1}
  PROVE  Sums(d)'
<1>1. Cardinality(Going(d)') = Cardinality(Going(d)) + 1
  BY Finite, FS_AddElement
<1>2. Cardinality(Named(d)) \in Nat /\ Cardinality(Coming(d)) \in Nat /\ Cardinality(Going(d)) \in Nat
  BY Finite, FS_CardinalityType
<1>3. Sums(d)' <=> Cardinality(Named(d)') + Cardinality(Coming(d)') <= Cardinality(Going(d)') + There(d)'
  BY DEF Sums
<1>4. Cardinality(Named(d)') = Cardinality(Named(d)) /\ Cardinality(Coming(d)') = Cardinality(Coming(d))
  OBVIOUS
<1>5. QED
  BY <1>1, <1>2, <1>3, <1>4 DEF Sums

\* The caller takes the name away.
LEMMA SumsTaken ==
  ASSUME NEW d, NEW t \in Going(d), NEW n \in Named(d), Sums(d), Named(d)' = Named(d) \ {n}, Coming(d)' = Coming(d),
         Going(d)' = Going(d) \ {t}, There(d) \in {0, 1}, There(d)' = There(d)
  PROVE  Sums(d)'
<1>1. Cardinality(Going(d)') = Cardinality(Going(d)) - 1 /\ Cardinality(Named(d)') = Cardinality(Named(d)) - 1
  BY Finite, FS_RemoveElement
<1>2. Cardinality(Named(d)) \in Nat /\ Cardinality(Coming(d)) \in Nat /\ Cardinality(Going(d)) \in Nat
  BY Finite, FS_CardinalityType
<1>3. Sums(d)' <=> Cardinality(Named(d)') + Cardinality(Coming(d)') <= Cardinality(Going(d)') + There(d)'
  BY DEF Sums
<1>4. Cardinality(Coming(d)') = Cardinality(Coming(d))
  OBVIOUS
<1>5. QED
  BY <1>1, <1>2, <1>3, <1>4 DEF Sums

ComingBy(t, d) == (Busy(t, "build", {"read", "index"}) \/ Busy(t, "import", {"index"})) /\ Given(t) = d
GoingBy(t, d) == Busy(t, "remove", {"index"}) /\ seen[t][does[t].name] = d

\* Who waits is still coming or going.
LEMMA ComeAndGo ==
  ASSUME StoreInv, NEW t \in Actors, Acts(t), NEW d
  PROVE  /\ Coming(d) = {u \in Actors : ComingBy(u, d)} /\ Going(d) = {u \in Actors : GoingBy(u, d)}
         /\ ComingBy(t, d)' => Coming(d)' = Coming(d) \cup {t}
         /\ ~ComingBy(t, d)' => Coming(d)' = Coming(d) \ {t}
         /\ GoingBy(t, d)' => Going(d)' = Going(d) \cup {t}
         /\ ~GoingBy(t, d)' => Going(d)' = Going(d) \ {t}
         /\ There(d) \in {0, 1} /\ There(d)' \in {0, 1}
<1>1. \A u \in Actors \ {t} : (ComingBy(u, d)' <=> ComingBy(u, d)) /\ (GoingBy(u, d)' <=> GoingBy(u, d))
  <2> SUFFICES ASSUME NEW u \in Actors \ {t}
               PROVE  (ComingBy(u, d)' <=> ComingBy(u, d)) /\ (GoingBy(u, d)' <=> GoingBy(u, d))
    OBVIOUS
  <2>1. Waits(u)
    BY OthersWait DEF StoreInv
  <2>2. QED
    BY <2>1 DEF Waits, ComingBy, GoingBy, Busy, Given
<1>2. Coming(d) = {u \in Actors : ComingBy(u, d)} /\ Going(d) = {u \in Actors : GoingBy(u, d)}
  BY DEF Coming, Going, ComingBy, GoingBy
<1>3. Coming(d)' = {u \in Actors : ComingBy(u, d)'} /\ Going(d)' = {u \in Actors : GoingBy(u, d)'}
  BY DEF Coming, Going, ComingBy, GoingBy
<1>4. There(d) \in {0, 1} /\ There(d)' \in {0, 1}
  BY DEF There
<1>5. QED
  BY <1>1, <1>2, <1>3, <1>4

\* A step that names nothing, begins to make nothing, and finishes no removal.
LEMMA BalancedOn ==
  ASSUME StoreInv, Balanced, NEW t \in Actors, Acts(t), sealed' = sealed,
         \A d \in Sealeds : ComingBy(t, d)' => ComingBy(t, d),
         \A d \in Sealeds : GoingBy(t, d) => GoingBy(t, d)',
         \A d \in Sealeds : trees[d] # Nothing => trees'[d] # Nothing
  PROVE  \A d \in Sealeds : Sums(d)'
<1> SUFFICES ASSUME NEW d \in Sealeds
             PROVE  Sums(d)'
  OBVIOUS
<1>1. Coming(d)' \subseteq Coming(d) /\ Going(d) \subseteq Going(d)'
  BY ComeAndGo
<1>2. Named(d)' = Named(d)
  BY DEF Named
<1>3. There(d) <= There(d)' /\ There(d) \in {0, 1} /\ There(d)' \in {0, 1}
  BY DEF There
<1>4. Sums(d)
  BY DEF Balanced, Sums
<1>5. QED
  BY <1>1, <1>2, <1>3, <1>4, SumsOn

\* As long as no index is written late: the sums hold, step by step.
LEMMA BalancedStays ==
  ASSUME StoreInv, Balanced, ~stale', NEW t \in Actors, Acts(t)
  PROVE  \A d \in Sealeds : Sums(d)'
<1>0. /\ StoreInv /\ Balanced /\ ~stale' /\ Acts(t) /\ t \in Actors
      /\ at \in [Actors -> Places] /\ sealed \in Index
      /\ does \in [Actors -> Requests \cup {Nothing}] /\ (at[t] # "idle" => does[t] \in Requests)
      /\ DOMAIN seen = Actors /\ holds \in [Actors -> States \cup {Nothing}] /\ HasRead(t)
  BY Working DEF StoreInv, StoreType, Placed, Asking, Seeing, Holding, Filed, AtWork
<1> USE DEF ComingBy, GoingBy, Busy, Given, Store!Ran, Store!Goes, Store!Reads, Store!Ends, Store!Kept, Store!Absent,
        Store!WriteBases, Store!WriteSealed
<1>1. ASSUME NEW c \in Requests, Store!Begin(t, c)
      PROVE  \A d \in Sealeds : Sums(d)'
  <2>1. sealed' = sealed
    BY <1>0, <1>1 DEF Store!Begin
  <2>2. \A d \in Sealeds : ComingBy(t, d)' => ComingBy(t, d)
    BY <1>0, <1>1 DEF Store!Begin
  <2>3. \A d \in Sealeds : GoingBy(t, d) => GoingBy(t, d)'
    BY <1>0, <1>1 DEF Store!Begin
  <2>4. \A d \in Sealeds : trees[d] # Nothing => trees'[d] # Nothing
    BY <1>0, <1>1 DEF Store!Begin
  <2>5. QED
    BY <1>0, <2>1, <2>2, <2>3, <2>4, BalancedOn
<1>2. CASE Store!PullReads(t)
  <2>1. sealed' = sealed
    BY <1>0, <1>2 DEF Store!PullReads
  <2>2. \A d \in Sealeds : ComingBy(t, d)' => ComingBy(t, d)
    BY <1>0, <1>2 DEF Store!PullReads
  <2>3. \A d \in Sealeds : GoingBy(t, d) => GoingBy(t, d)'
    BY <1>0, <1>2 DEF Store!PullReads
  <2>4. \A d \in Sealeds : trees[d] # Nothing => trees'[d] # Nothing
    BY <1>0, <1>2 DEF Store!PullReads
  <2>5. QED
    BY <1>0, <2>1, <2>2, <2>3, <2>4, BalancedOn
<1>3. CASE Store!PullPrepares(t)
  <2>1. sealed' = sealed
    BY <1>0, <1>3 DEF Store!PullPrepares
  <2>2. \A d \in Sealeds : ComingBy(t, d)' => ComingBy(t, d)
    BY <1>0, <1>3 DEF Store!PullPrepares
  <2>3. \A d \in Sealeds : GoingBy(t, d) => GoingBy(t, d)'
    BY <1>0, <1>3 DEF Store!PullPrepares
  <2>4. \A d \in Sealeds : trees[d] # Nothing => trees'[d] # Nothing
    BY <1>0, <1>3 DEF Store!PullPrepares
  <2>5. QED
    BY <1>0, <2>1, <2>2, <2>3, <2>4, BalancedOn
<1>4. CASE Store!PullPublishes(t)
  <2>1. sealed' = sealed
    BY <1>0, <1>4 DEF Store!PullPublishes
  <2>2. \A d \in Sealeds : ComingBy(t, d)' => ComingBy(t, d)
    BY <1>0, <1>4 DEF Store!PullPublishes
  <2>3. \A d \in Sealeds : GoingBy(t, d) => GoingBy(t, d)'
    BY <1>0, <1>4 DEF Store!PullPublishes
  <2>4. \A d \in Sealeds : trees[d] # Nothing => trees'[d] # Nothing
    <3>1. at[t] = "publish" /\ does[t] \in Requests /\ Store!Base(does[t].ref) \in Store!TreeId
      BY <1>4, Working, RequestIs, TreesApart DEF Store!PullPublishes, Store!Ran
    <3>2. CASE Store!Publish(t, Store!Base(does[t].ref))
      <4>1. trees[Store!Base(does[t].ref)] = Nothing /\ \A e \in Store!TreeId \ {Store!Base(does[t].ref)} : trees'[e] = trees[e]
        BY <3>1, <3>2, PublishedTree
      <4>2. QED
        BY <4>1, <3>1, TreesApart
    <3>3. CASE trees' = trees
      BY <3>3
    <3>4. QED
      BY <1>4, <3>2, <3>3 DEF Store!PullPublishes
  <2>5. QED
    BY <1>0, <2>1, <2>2, <2>3, <2>4, BalancedOn
<1>5. CASE Store!PullIndexes(t)
  <2>1. sealed' = sealed
    BY <1>0, <1>5 DEF Store!PullIndexes
  <2>2. \A d \in Sealeds : ComingBy(t, d)' => ComingBy(t, d)
    BY <1>0, <1>5 DEF Store!PullIndexes
  <2>3. \A d \in Sealeds : GoingBy(t, d) => GoingBy(t, d)'
    BY <1>0, <1>5 DEF Store!PullIndexes
  <2>4. \A d \in Sealeds : trees[d] # Nothing => trees'[d] # Nothing
    BY <1>0, <1>5 DEF Store!PullIndexes
  <2>5. QED
    BY <1>0, <2>1, <2>2, <2>3, <2>4, BalancedOn
<1>6. CASE Store!UninstallReads(t)
  <2>1. sealed' = sealed
    BY <1>0, <1>6 DEF Store!UninstallReads
  <2>2. \A d \in Sealeds : ComingBy(t, d)' => ComingBy(t, d)
    BY <1>0, <1>6 DEF Store!UninstallReads
  <2>3. \A d \in Sealeds : GoingBy(t, d) => GoingBy(t, d)'
    BY <1>0, <1>6 DEF Store!UninstallReads
  <2>4. \A d \in Sealeds : trees[d] # Nothing => trees'[d] # Nothing
    BY <1>0, <1>6 DEF Store!UninstallReads
  <2>5. QED
    BY <1>0, <2>1, <2>2, <2>3, <2>4, BalancedOn
<1>7. CASE Store!RemoveReads(t)
  <2>1. sealed' = sealed
    BY <1>0, <1>7 DEF Store!RemoveReads
  <2>2. \A d \in Sealeds : ComingBy(t, d)' => ComingBy(t, d)
    BY <1>0, <1>7 DEF Store!RemoveReads
  <2>3. \A d \in Sealeds : GoingBy(t, d) => GoingBy(t, d)'
    BY <1>0, <1>7 DEF Store!RemoveReads
  <2>4. \A d \in Sealeds : trees[d] # Nothing => trees'[d] # Nothing
    BY <1>0, <1>7 DEF Store!RemoveReads
  <2>5. QED
    BY <1>0, <2>1, <2>2, <2>3, <2>4, BalancedOn
<1>8. CASE Store!Deletes(t)
  <2> DEFINE gone == Store!Doomed(t)
  <2>1. at[t] = "delete" /\ gone \in Bases \cup Sealeds /\ does[t] \in Requests /\ does[t] # Nothing
        /\ (does[t].op = "remove" => gone = seen[t][does[t].name]) /\ does[t].op \in {"uninstall", "remove"}
        /\ (does[t].op = "uninstall" => gone \in Bases)
    <3>1. at[t] = "delete" /\ gone \in Bases \cup Sealeds
      BY <1>8, Deleting
    <3>2. does[t] \in Requests
      BY <1>0, <3>1
    <3>3. QED
      BY <1>0, <3>1, <3>2, Working, RequestIs, TreesApart, NoValue
  <2>2. sealed' = sealed /\ \A e \in Store!TreeId \ {gone} : trees'[e] = trees[e]
    BY <1>8, Deleting DEF Store!Deletes
  <2>3. \A d \in Sealeds : Sums(d) /\ Named(d)' = Named(d)
    BY <1>0, <2>2 DEF Balanced, Sums, Named
  <2>4. CASE Erodes(t)
    <3>1. trees'[gone] # Nothing /\ UNCHANGED <<at, does, seen>>
      BY <2>4, NoValue DEF Erodes
    <3>2. \A d \in Sealeds : ~ComingBy(t, d)' /\ ~GoingBy(t, d)
      BY <2>1, <3>1
    <3> HIDE DEF gone
    <3>3. \A d \in Sealeds : trees[d] # Nothing => trees'[d] # Nothing
      BY <2>2, <3>1, TreesApart
    <3>4. QED
      BY <1>0, <2>2, <3>2, <3>3, BalancedOn
  <2>5. CASE trees' = trees /\ Store!Ends(t)
    <3>1. does'[t] = Nothing
      BY <1>0, <2>5
    <3>2. \A d \in Sealeds : ~ComingBy(t, d)' /\ ~GoingBy(t, d)
      BY <2>1, <3>1
    <3>3. QED
      BY <1>0, <2>2, <2>5, <3>2, BalancedOn
  <2>6. CASE Removed(t) \/ FindsNone(t)
    <3>1. at'[t] = "index" /\ UNCHANGED <<does, seen>>
      BY <1>0, <2>6 DEF Removed, FindsNone
    <3>2. \A d \in Sealeds : ~ComingBy(t, d)' /\ ~ComingBy(t, d) /\ ~GoingBy(t, d)
                             /\ (GoingBy(t, d)' <=> (does[t].op = "remove" /\ gone = d))
      BY <2>1, <3>1
    <3> HIDE DEF gone
    <3>3. ASSUME NEW d \in Sealeds, does[t].op = "remove", d = gone PROVE Sums(d)'
      <4>1. Coming(d)' = Coming(d) \ {t} /\ t \notin Coming(d) /\ Going(d)' = Going(d) \cup {t} /\ t \notin Going(d)
            /\ There(d) \in {0, 1} /\ There(d)' \in {0, 1}
        BY <1>0, <3>2, <3>3, ComeAndGo
      <4>2. Coming(d)' = Coming(d)
        BY <4>1
      <4>3. QED
        BY <2>3, <4>1, <4>2, SumsRemoving
    <3>4. ASSUME NEW d \in Sealeds, ~(does[t].op = "remove" /\ d = gone) PROVE Sums(d)'
      <4>1. d # gone
        BY <2>1, <3>4, TreesApart
      <4>2. There(d)' = There(d)
        BY <2>2, <4>1, TreesApart DEF There
      <4>3. Coming(d)' = Coming(d) \ {t} /\ Going(d)' = Going(d) \ {t} /\ t \notin Going(d) /\ There(d) \in {0, 1}
        BY <1>0, <3>2, <3>4, ComeAndGo
      <4>4. There(d) <= There(d)' /\ There(d)' \in {0, 1} /\ Coming(d)' \subseteq Coming(d) /\ Going(d) \subseteq Going(d)'
        BY <4>2, <4>3
      <4>5. QED
        BY <2>3, <4>3, <4>4, SumsOn
    <3>5. QED
      BY <3>3, <3>4
  <2>7. QED
    BY <1>8, Deleting, <2>4, <2>5, <2>6
<1>9. CASE Store!UninstallIndexes(t)
  <2>1. sealed' = sealed
    BY <1>0, <1>9 DEF Store!UninstallIndexes
  <2>2. \A d \in Sealeds : ComingBy(t, d)' => ComingBy(t, d)
    BY <1>0, <1>9 DEF Store!UninstallIndexes
  <2>3. \A d \in Sealeds : GoingBy(t, d) => GoingBy(t, d)'
    BY <1>0, <1>9 DEF Store!UninstallIndexes
  <2>4. \A d \in Sealeds : trees[d] # Nothing => trees'[d] # Nothing
    BY <1>0, <1>9 DEF Store!UninstallIndexes
  <2>5. QED
    BY <1>0, <2>1, <2>2, <2>3, <2>4, BalancedOn
<1>10. CASE Store!RemoveIndexes(t)
  <2>0. PICK n \in Name : n = does[t].name
    BY <1>0, <1>10, RequestIs DEF Store!RemoveIndexes
  <2>1. at[t] = "index" /\ does[t] \in Requests /\ does[t].op = "remove" /\ does[t] # Nothing
    BY <1>0, <1>10, NoValue DEF Store!RemoveIndexes
  <2>2. seen[t] = sealed /\ sealed[n] # Nothing /\ sealed' = [sealed EXCEPT ![n] = Nothing] /\ does'[t] = Nothing /\ trees' = trees
    <3>1. seen[t] = sealed /\ sealed' = [seen[t] EXCEPT ![n] = Nothing] /\ does'[t] = Nothing /\ trees' = trees
      BY <1>0, <2>0, <1>10 DEF Store!RemoveIndexes
    <3>2. seen[t][n] # Nothing
      BY <1>0, <2>0, <2>1 DEF HasRead
    <3>3. QED
      BY <3>1, <3>2
  <2>4. PICK left \in Sealeds : left = sealed[n]
    BY <1>0, <2>2 DEF Index
  <2>3. \A d \in Sealeds : ~ComingBy(t, d)' /\ ~GoingBy(t, d)' /\ ~ComingBy(t, d) /\ (GoingBy(t, d) <=> left = d)
    BY <2>0, <2>1, <2>2, <2>4
  <2>5. \A d \in Sealeds : Sums(d) /\ There(d)' = There(d)
    BY <1>0, <2>2 DEF Balanced, Sums, There
  <2>6. \A d \in Sealeds : Named(d)' = Named(d) \ {n}
    BY <1>0, <2>1, <2>2, NoValue DEF Named, Index
  <2>7. \A d \in Sealeds : d = left <=> n \in Named(d)
    BY <2>4 DEF Named
  <2>8. Sums(left)'
    <3>1. /\ Coming(left)' = Coming(left) \ {t} /\ Going(left)' = Going(left) \ {t} /\ t \in Going(left)
          /\ t \notin Coming(left) /\ There(left) \in {0, 1}
      BY <1>0, <2>3, <2>4, ComeAndGo
    <3>2. Coming(left)' = Coming(left)
      BY <3>1
    <3>3. QED
      BY <2>4, <2>5, <2>6, <2>7, <3>1, <3>2, SumsTaken
  <2>9. ASSUME NEW d \in Sealeds, d # left PROVE Sums(d)'
    <3>1. Coming(d)' = Coming(d) \ {t} /\ Going(d)' = Going(d) \ {t} /\ t \notin Going(d) /\ There(d) \in {0, 1}
      BY <1>0, <2>3, <2>9, ComeAndGo
    <3>2. There(d) <= There(d)' /\ There(d)' \in {0, 1} /\ Coming(d)' \subseteq Coming(d) /\ Going(d) \subseteq Going(d)'
          /\ Named(d)' \subseteq Named(d)
      BY <2>5, <2>6, <3>1
    <3>3. QED
      BY <2>5, <3>1, <3>2, SumsOn
  <2>10. QED
    BY <2>8, <2>9
<1>11. CASE Store!BuildReads(t)
  <2>1. sealed' = sealed
    BY <1>0, <1>11 DEF Store!BuildReads
  <2>2. \A d \in Sealeds : ComingBy(t, d)' => ComingBy(t, d)
    BY <1>0, <1>11 DEF Store!BuildReads
  <2>3. \A d \in Sealeds : GoingBy(t, d) => GoingBy(t, d)'
    BY <1>0, <1>11 DEF Store!BuildReads
  <2>4. \A d \in Sealeds : trees[d] # Nothing => trees'[d] # Nothing
    BY <1>0, <1>11 DEF Store!BuildReads
  <2>5. QED
    BY <1>0, <2>1, <2>2, <2>3, <2>4, BalancedOn
<1>12. CASE Store!BuildsArtifacts(t)
  <2>1. sealed' = sealed
    BY <1>0, <1>12 DEF Store!BuildsArtifacts
  <2>2. \A d \in Sealeds : ComingBy(t, d)' => ComingBy(t, d)
    BY <1>0, <1>12 DEF Store!BuildsArtifacts
  <2>3. \A d \in Sealeds : GoingBy(t, d) => GoingBy(t, d)'
    BY <1>0, <1>12 DEF Store!BuildsArtifacts
  <2>4. \A d \in Sealeds : trees[d] # Nothing => trees'[d] # Nothing
    BY <1>12, Building, TreesApart
  <2>5. QED
    BY <1>0, <2>1, <2>2, <2>3, <2>4, BalancedOn
<1>13. CASE Store!BuildCopies(t)
  <2>1. sealed' = sealed
    BY <1>0, <1>13 DEF Store!BuildCopies
  <2>2. \A d \in Sealeds : ComingBy(t, d)' => ComingBy(t, d)
    BY <1>0, <1>13 DEF Store!BuildCopies
  <2>3. \A d \in Sealeds : GoingBy(t, d) => GoingBy(t, d)'
    BY <1>0, <1>13 DEF Store!BuildCopies
  <2>4. \A d \in Sealeds : trees[d] # Nothing => trees'[d] # Nothing
    BY <1>0, <1>13 DEF Store!BuildCopies
  <2>5. QED
    BY <1>0, <2>1, <2>2, <2>3, <2>4, BalancedOn
<1>14. CASE Store!BuildPublishes(t)
  <2>0. PICK given \in Sealeds : given = Store!Sealed(does[t].name, does[t].ref, does[t].recipe)
    BY <1>0, <1>14, RequestIs DEF Store!BuildPublishes
  <2>1. at[t] = "publish" /\ does[t] \in Requests /\ does[t].op = "build" /\ given \in Store!TreeId /\ Given(t) = given
    BY <1>0, <2>0, <1>14, TreesApart DEF Store!BuildPublishes, Given
  <2>2. CASE Store!Publish(t, given) /\ Store!Goes(t, "read") /\ does' = does
    <3>1. trees[given] = Nothing /\ trees'[given] # Nothing /\ \A e \in Store!TreeId \ {given} : trees'[e] = trees[e]
      BY <2>1, <2>2, PublishedTree, NoValue
    <3>2. at'[t] = "read" /\ does'[t] = does[t] /\ sealed' = sealed /\ seen' = seen
      BY <1>0, <2>2, <1>14 DEF Store!BuildPublishes
    <3>3. Given(t)' = given
      BY <2>1, <3>2 DEF Given
    <3>4. \A d \in Sealeds : (ComingBy(t, d)' <=> given = d) /\ ~ComingBy(t, d) /\ ~GoingBy(t, d) /\ ~GoingBy(t, d)'
      BY <2>1, <3>2, <3>3, NoValue
    <3>5. \A d \in Sealeds : Named(d)' = Named(d)
      BY <3>2 DEF Named
    <3>6. \A d \in Sealeds : Sums(d)
      BY <1>0 DEF Balanced, Sums
    <3>7. Sums(given)'
      <4>1. There(given) = 0 /\ There(given)' = 1
        BY <3>1 DEF There
      <4>2. Coming(given)' = Coming(given) \cup {t} /\ Going(given)' = Going(given) \ {t} /\ t \notin Going(given)
        BY <1>0, <2>1, <3>4, ComeAndGo
      <4>3. QED
        BY <2>1, <3>5, <3>6, <4>1, <4>2, SumsPublished
    <3>8. ASSUME NEW d \in Sealeds, d # given PROVE Sums(d)'
      <4>1. There(d)' = There(d)
        BY <3>1, <3>8, TreesApart DEF There
      <4>2. Coming(d)' = Coming(d) \ {t} /\ Going(d)' = Going(d) \ {t} /\ t \notin Going(d) /\ There(d) \in {0, 1}
        BY <1>0, <3>4, <3>8, ComeAndGo
      <4>3. There(d) <= There(d)' /\ There(d)' \in {0, 1} /\ Coming(d)' \subseteq Coming(d) /\ Going(d) \subseteq Going(d)'
        BY <4>1, <4>2
      <4>4. QED
        BY <3>5, <3>6, <4>2, <4>3, SumsOn
    <3>9. QED
      BY <3>7, <3>8
  <2>3. CASE trees' = trees /\ Store!Ends(t)
    <3>1. sealed' = sealed /\ does'[t] = Nothing
      BY <1>0, <1>14, <2>3 DEF Store!BuildPublishes
    <3>2. \A d \in Sealeds : ~ComingBy(t, d)' /\ ~GoingBy(t, d)
      BY <2>1, <3>1
    <3>3. QED
      BY <1>0, <2>3, <3>1, <3>2, BalancedOn
  <2>4. QED
    BY <1>14, <2>0, <2>2, <2>3 DEF Store!BuildPublishes
<1>15. CASE Store!BuildReadsIndex(t)
  <2>1. sealed' = sealed
    BY <1>0, <1>15 DEF Store!BuildReadsIndex
  <2>2. \A d \in Sealeds : ComingBy(t, d)' => ComingBy(t, d)
    BY <1>0, <1>15 DEF Store!BuildReadsIndex
  <2>3. \A d \in Sealeds : GoingBy(t, d) => GoingBy(t, d)'
    BY <1>0, <1>15 DEF Store!BuildReadsIndex
  <2>4. \A d \in Sealeds : trees[d] # Nothing => trees'[d] # Nothing
    BY <1>0, <1>15 DEF Store!BuildReadsIndex
  <2>5. QED
    BY <1>0, <2>1, <2>2, <2>3, <2>4, BalancedOn
<1>16. CASE Store!BuildIndexes(t)
  <2>0. PICK given \in Sealeds : given = Store!Sealed(does[t].name, does[t].ref, does[t].recipe)
    BY <1>0, <1>16, RequestIs DEF Store!BuildIndexes
  <2> DEFINE n == does[t].name
  <2>1. at[t] = "index" /\ does[t] \in Requests /\ does[t].op = "build" /\ does[t] # Nothing /\ Given(t) = given /\ n \in Name
    BY <1>0, <2>0, <1>16, RequestIs, NoValue DEF Store!BuildIndexes, Given
  <2>2. seen[t] = sealed /\ sealed[n] = Nothing /\ sealed' = [sealed EXCEPT ![n] = given] /\ does'[t] = Nothing /\ trees' = trees
    <3>1. seen[t] = sealed /\ sealed' = [seen[t] EXCEPT ![n] = given] /\ does'[t] = Nothing /\ trees' = trees
      BY <1>0, <2>0, <1>16 DEF Store!BuildIndexes
    <3>2. seen[t][n] = Nothing
      BY <1>0, <2>1 DEF HasRead
    <3>3. QED
      BY <3>1, <3>2
  <2>3. \A d \in Sealeds : ~ComingBy(t, d)' /\ ~GoingBy(t, d)' /\ ~GoingBy(t, d) /\ (ComingBy(t, d) <=> given = d)
    BY <2>1, <2>2
  <2>4. \A d \in Sealeds : Sums(d) /\ There(d)' = There(d)
    BY <1>0, <2>2 DEF Balanced, Sums, There
  <2>5. Sums(given)'
    <3>1. Named(given)' = Named(given) \cup {n}
      BY <1>0, <2>1, <2>2 DEF Named, Index
    <3>2. /\ Coming(given)' = Coming(given) \ {t} /\ Going(given)' = Going(given) \ {t} /\ t \notin Going(given)
          /\ t \in Coming(given) /\ There(given) \in {0, 1}
      BY <1>0, <2>1, <2>3, ComeAndGo
    <3>3. Going(given) \subseteq Going(given)'
      BY <3>2
    <3>4. QED
      BY <2>1, <2>4, <3>1, <3>2, <3>3, SumsNamed
  <2>6. ASSUME NEW d \in Sealeds, d # given PROVE Sums(d)'
    <3>1. Named(d)' = Named(d)
      BY <1>0, <2>1, <2>2, <2>6, NoValue DEF Named, Index
    <3>2. Coming(d)' = Coming(d) \ {t} /\ Going(d)' = Going(d) \ {t} /\ t \notin Going(d) /\ There(d) \in {0, 1}
      BY <1>0, <2>3, <2>6, ComeAndGo
    <3>3. There(d) <= There(d)' /\ There(d)' \in {0, 1} /\ Coming(d)' \subseteq Coming(d) /\ Going(d) \subseteq Going(d)'
      BY <2>4, <3>2
    <3>4. QED
      BY <2>4, <3>1, <3>2, <3>3, SumsOn
  <2>7. QED
    BY <2>5, <2>6
<1>17. CASE Store!ImportReads(t)
  <2>1. sealed' = sealed
    BY <1>0, <1>17 DEF Store!ImportReads
  <2>2. \A d \in Sealeds : ComingBy(t, d)' => ComingBy(t, d)
    BY <1>0, <1>17 DEF Store!ImportReads
  <2>3. \A d \in Sealeds : GoingBy(t, d) => GoingBy(t, d)'
    BY <1>0, <1>17 DEF Store!ImportReads
  <2>4. \A d \in Sealeds : trees[d] # Nothing => trees'[d] # Nothing
    BY <1>0, <1>17 DEF Store!ImportReads
  <2>5. QED
    BY <1>0, <2>1, <2>2, <2>3, <2>4, BalancedOn
<1>18. CASE Store!ImportPublishes(t)
  <2>0. PICK given \in Sealeds : given = Store!ArchiveTree(does[t].archive)
    BY <1>0, <1>18, RequestIs DEF Store!ImportPublishes
  <2>1. at[t] = "publish" /\ does[t] \in Requests /\ does[t].op = "import" /\ given \in Store!TreeId /\ Given(t) = given
    BY <1>0, <2>0, <1>18, TreesApart DEF Store!ImportPublishes, Given
  <2>2. CASE Store!Publish(t, given) /\ Store!Goes(t, "index") /\ does' = does
    <3>1. trees[given] = Nothing /\ trees'[given] # Nothing /\ \A e \in Store!TreeId \ {given} : trees'[e] = trees[e]
      BY <2>1, <2>2, PublishedTree, NoValue
    <3>2. at'[t] = "index" /\ does'[t] = does[t] /\ sealed' = sealed /\ seen' = seen
      BY <1>0, <2>2, <1>18 DEF Store!ImportPublishes
    <3>3. Given(t)' = given
      BY <2>1, <3>2 DEF Given
    <3>4. \A d \in Sealeds : (ComingBy(t, d)' <=> given = d) /\ ~ComingBy(t, d) /\ ~GoingBy(t, d) /\ ~GoingBy(t, d)'
      BY <2>1, <3>2, <3>3, NoValue
    <3>5. \A d \in Sealeds : Named(d)' = Named(d)
      BY <3>2 DEF Named
    <3>6. \A d \in Sealeds : Sums(d)
      BY <1>0 DEF Balanced, Sums
    <3>7. Sums(given)'
      <4>1. There(given) = 0 /\ There(given)' = 1
        BY <3>1 DEF There
      <4>2. Coming(given)' = Coming(given) \cup {t} /\ Going(given)' = Going(given) \ {t} /\ t \notin Going(given)
        BY <1>0, <2>1, <3>4, ComeAndGo
      <4>3. QED
        BY <2>1, <3>5, <3>6, <4>1, <4>2, SumsPublished
    <3>8. ASSUME NEW d \in Sealeds, d # given PROVE Sums(d)'
      <4>1. There(d)' = There(d)
        BY <3>1, <3>8, TreesApart DEF There
      <4>2. Coming(d)' = Coming(d) \ {t} /\ Going(d)' = Going(d) \ {t} /\ t \notin Going(d) /\ There(d) \in {0, 1}
        BY <1>0, <3>4, <3>8, ComeAndGo
      <4>3. There(d) <= There(d)' /\ There(d)' \in {0, 1} /\ Coming(d)' \subseteq Coming(d) /\ Going(d) \subseteq Going(d)'
        BY <4>1, <4>2
      <4>4. QED
        BY <3>5, <3>6, <4>2, <4>3, SumsOn
    <3>9. QED
      BY <3>7, <3>8
  <2>3. CASE trees' = trees /\ Store!Ends(t)
    <3>1. sealed' = sealed /\ does'[t] = Nothing
      BY <1>0, <1>18, <2>3 DEF Store!ImportPublishes
    <3>2. \A d \in Sealeds : ~ComingBy(t, d)' /\ ~GoingBy(t, d)
      BY <2>1, <3>1
    <3>3. QED
      BY <1>0, <2>3, <3>1, <3>2, BalancedOn
  <2>4. QED
    BY <1>18, <2>0, <2>2, <2>3 DEF Store!ImportPublishes
<1>19. CASE Store!ImportIndexes(t)
  <2>0. PICK given \in Sealeds : given = Store!ArchiveTree(does[t].archive)
    BY <1>0, <1>19, RequestIs DEF Store!ImportIndexes
  <2> DEFINE n == does[t].name
  <2>1. at[t] = "index" /\ does[t] \in Requests /\ does[t].op = "import" /\ does[t] # Nothing /\ Given(t) = given /\ n \in Name
    BY <1>0, <2>0, <1>19, RequestIs, NoValue DEF Store!ImportIndexes, Given
  <2>2. seen[t] = sealed /\ sealed[n] = Nothing /\ sealed' = [sealed EXCEPT ![n] = given] /\ does'[t] = Nothing /\ trees' = trees
    <3>1. seen[t] = sealed /\ sealed' = [seen[t] EXCEPT ![n] = given] /\ does'[t] = Nothing /\ trees' = trees
      BY <1>0, <2>0, <1>19 DEF Store!ImportIndexes
    <3>2. seen[t][n] = Nothing
      BY <1>0, <2>1 DEF HasRead
    <3>3. QED
      BY <3>1, <3>2
  <2>3. \A d \in Sealeds : ~ComingBy(t, d)' /\ ~GoingBy(t, d)' /\ ~GoingBy(t, d) /\ (ComingBy(t, d) <=> given = d)
    BY <2>1, <2>2
  <2>4. \A d \in Sealeds : Sums(d) /\ There(d)' = There(d)
    BY <1>0, <2>2 DEF Balanced, Sums, There
  <2>5. Sums(given)'
    <3>1. Named(given)' = Named(given) \cup {n}
      BY <1>0, <2>1, <2>2 DEF Named, Index
    <3>2. /\ Coming(given)' = Coming(given) \ {t} /\ Going(given)' = Going(given) \ {t} /\ t \notin Going(given)
          /\ t \in Coming(given) /\ There(given) \in {0, 1}
      BY <1>0, <2>1, <2>3, ComeAndGo
    <3>3. Going(given) \subseteq Going(given)'
      BY <3>2
    <3>4. QED
      BY <2>1, <2>4, <3>1, <3>2, <3>3, SumsNamed
  <2>6. ASSUME NEW d \in Sealeds, d # given PROVE Sums(d)'
    <3>1. Named(d)' = Named(d)
      BY <1>0, <2>1, <2>2, <2>6, NoValue DEF Named, Index
    <3>2. Coming(d)' = Coming(d) \ {t} /\ Going(d)' = Going(d) \ {t} /\ t \notin Going(d) /\ There(d) \in {0, 1}
      BY <1>0, <2>3, <2>6, ComeAndGo
    <3>3. There(d) <= There(d)' /\ There(d)' \in {0, 1} /\ Coming(d)' \subseteq Coming(d) /\ Going(d) \subseteq Going(d)'
      BY <2>4, <3>2
    <3>4. QED
      BY <2>4, <3>1, <3>2, <3>3, SumsOn
  <2>7. QED
    BY <2>5, <2>6
<1>20. CASE Store!CreateResolves(t)
  <2>1. sealed' = sealed
    BY <1>0, <1>20 DEF Store!CreateResolves
  <2>2. \A d \in Sealeds : ComingBy(t, d)' => ComingBy(t, d)
    BY <1>0, <1>20 DEF Store!CreateResolves
  <2>3. \A d \in Sealeds : GoingBy(t, d) => GoingBy(t, d)'
    BY <1>0, <1>20 DEF Store!CreateResolves
  <2>4. \A d \in Sealeds : trees[d] # Nothing => trees'[d] # Nothing
    BY <1>0, <1>20 DEF Store!CreateResolves
  <2>5. QED
    BY <1>0, <2>1, <2>2, <2>3, <2>4, BalancedOn
<1>21. CASE Store!CreateCopies(t)
  <2>1. sealed' = sealed
    BY <1>0, <1>21 DEF Store!CreateCopies
  <2>2. \A d \in Sealeds : ComingBy(t, d)' => ComingBy(t, d)
    BY <1>0, <1>21 DEF Store!CreateCopies
  <2>3. \A d \in Sealeds : GoingBy(t, d) => GoingBy(t, d)'
    BY <1>0, <1>21 DEF Store!CreateCopies
  <2>4. \A d \in Sealeds : trees[d] # Nothing => trees'[d] # Nothing
    BY <1>0, <1>21 DEF Store!CreateCopies
  <2>5. QED
    BY <1>0, <2>1, <2>2, <2>3, <2>4, BalancedOn
<1>22. CASE Store!CreatePublishes(t)
  <2>1. sealed' = sealed
    BY <1>0, <1>22 DEF Store!CreatePublishes
  <2>2. \A d \in Sealeds : ComingBy(t, d)' => ComingBy(t, d)
    BY <1>0, <1>22 DEF Store!CreatePublishes
  <2>3. \A d \in Sealeds : GoingBy(t, d) => GoingBy(t, d)'
    BY <1>0, <1>22 DEF Store!CreatePublishes
  <2>4. \A d \in Sealeds : trees[d] # Nothing => trees'[d] # Nothing
    <3>1. at[t] = "publish" /\ does[t] \in Requests /\ Store!Container(does[t].id) \in Store!TreeId
      BY <1>22, Working, RequestIs, TreesApart DEF Store!CreatePublishes, Store!Ran
    <3>2. CASE Store!Publish(t, Store!Container(does[t].id))
      <4>1. trees[Store!Container(does[t].id)] = Nothing /\ \A e \in Store!TreeId \ {Store!Container(does[t].id)} : trees'[e] = trees[e]
        BY <3>1, <3>2, PublishedTree
      <4>2. QED
        BY <4>1, <3>1, TreesApart
    <3>3. CASE trees' = trees
      BY <3>3
    <3>4. QED
      BY <1>22, <3>2, <3>3 DEF Store!CreatePublishes
  <2>5. QED
    BY <1>0, <2>1, <2>2, <2>3, <2>4, BalancedOn
<1>23. CASE Store!CreatePrepares(t)
  <2>1. sealed' = sealed
    BY <1>0, <1>23 DEF Store!CreatePrepares
  <2>2. \A d \in Sealeds : ComingBy(t, d)' => ComingBy(t, d)
    BY <1>0, <1>23 DEF Store!CreatePrepares
  <2>3. \A d \in Sealeds : GoingBy(t, d) => GoingBy(t, d)'
    BY <1>0, <1>23 DEF Store!CreatePrepares
  <2>4. \A d \in Sealeds : trees[d] # Nothing => trees'[d] # Nothing
    <3>1. /\ Store!Container(does[t].id) \notin Sealeds
          /\ \A e \in Store!TreeId \ {Store!Container(does[t].id)} : trees'[e] = trees[e]
      BY <1>23, Preparing
    <3>2. QED
      BY <3>1, TreesApart
  <2>5. QED
    BY <1>0, <2>1, <2>2, <2>3, <2>4, BalancedOn
<1>24. CASE Store!CreateLists(t)
  <2>1. sealed' = sealed
    BY <1>0, <1>24 DEF Store!CreateLists
  <2>2. \A d \in Sealeds : ComingBy(t, d)' => ComingBy(t, d)
    BY <1>0, <1>24 DEF Store!CreateLists
  <2>3. \A d \in Sealeds : GoingBy(t, d) => GoingBy(t, d)'
    BY <1>0, <1>24 DEF Store!CreateLists
  <2>4. \A d \in Sealeds : trees[d] # Nothing => trees'[d] # Nothing
    BY <1>0, <1>24 DEF Store!CreateLists
  <2>5. QED
    BY <1>0, <2>1, <2>2, <2>3, <2>4, BalancedOn
<1>25. QED
  BY <1>1, <1>2, <1>3, <1>4, <1>5, <1>6, <1>7, <1>8, <1>9, <1>10, <1>11, <1>12, <1>13, <1>14, <1>15, <1>16, <1>17,
     <1>18, <1>19, <1>20, <1>21, <1>22, <1>23, <1>24 DEF Acts

\* The daemon dies: the files stay, and a removal that had begun is not recorded.
LEMMA StoreDies ==
  ASSUME StoreInv, Store!StoreCrash
  PROVE  StoreInv'
<1>1. /\ at' = [t \in Actors |-> "idle"] /\ does' = [t \in Actors |-> Nothing] /\ holds' = [t \in Actors |-> Nothing]
      /\ DOMAIN seen' = Actors /\ UNCHANGED <<bases, sealed, trees, listed>>
      /\ stale' = (stale \/ \E t \in Actors : at[t] = "index" /\ does[t].op \in {"uninstall", "remove"})
  BY DEF Store!StoreCrash, Actors, Store!Actor, Store!Absent
<1>2. \A t \in Actors : at'[t] = "idle" /\ does'[t] = Nothing /\ holds'[t] = Nothing
  BY <1>1
<1>3. StoreType'
  BY <1>1 DEF StoreInv, StoreType, Placed, Places, Asking, Holding, Seeing, Filed
<1>4. AtWork' /\ Keyed' /\ Made'
  BY <1>2 DEF AtWork, AtOwn, HasRead, Busy, Keyed, Made, MadeBy
<1>5. MarkersTrue' /\ Store!ListedIsReady'
  BY <1>1, <1>2 DEF StoreInv, MarkersTrue, TreesTrue, Store!ListedIsReady, Store!Exists, Store!Absent
<1>6. ASSUME ~stale' PROVE BasesAgree' /\ Balanced'
  <2>1. ~stale /\ BasesAgree /\ Balanced
    BY <1>1, <1>6 DEF StoreInv
  <2>2. \A t \in Actors : ~(at[t] = "index" /\ does[t].op \in {"uninstall", "remove"})
    BY <1>1, <1>6
  <2>3. BasesAgree'
    BY <1>1, <1>2, <2>1, <2>2 DEF BasesAgree, Leaving, Busy
  <2>4. ASSUME NEW d \in Sealeds PROVE Sums(d)'
    <3>1. Going(d) = {} /\ Coming(d)' = {} /\ Named(d)' = Named(d)
      BY <1>1, <1>2, <2>2 DEF Going, Coming, Named, Busy
    <3>2. There(d)' = There(d) /\ There(d) \in {0, 1}
      BY <1>1 DEF There
    <3>3. There(d) <= There(d)' /\ There(d)' \in {0, 1} /\ Sums(d)
      BY <2>1, <3>2 DEF Balanced, Sums
    <3>4. Coming(d)' \subseteq Coming(d) /\ Going(d) \subseteq Going(d)'
      BY <3>1
    <3>5. QED
      BY <3>1, <3>2, <3>3, <3>4, SumsOn
  <2>5. Balanced'
    BY <2>4 DEF Balanced, Sums
  <2>6. QED
    BY <2>3, <2>5
<1>7. QED
  BY <1>3, <1>4, <1>5, <1>6 DEF StoreInv

\* A step of a caller keeps the invariant.
LEMMA StoreGoesOn ==
  ASSUME StoreInv, NEW t \in Actors, Acts(t)
  PROVE  StoreInv'
<1>1. StoreType'
  BY ThreadTyped, FilesTyped DEF StoreType
<1>2. MarkersTrue'
  <2>1. ASSUME NEW u \in Actors, holds'[u] # Nothing PROVE Honest(holds'[u])
    <3>1. CASE u = t
      BY <2>1, <3>1, HoldsHonest
    <3>2. CASE u # t
      <4>1. holds'[u] = holds[u]
        BY <3>2, OthersWait DEF StoreInv, Waits
      <4>2. QED
        BY <2>1, <4>1 DEF StoreInv, MarkersTrue
    <3>3. QED
      BY <3>1, <3>2
  <2>2. \A u \in Actors : holds'[u] # Nothing => Honest(holds'[u])
    BY <2>1
  <2>3. (\A u \in Actors : holds[u] # Nothing => Honest(holds[u]))'
    BY <2>2 DEF Honest
  <2>4. QED
    BY <2>3, TreesTrueStay DEF MarkersTrue
<1>3. stale => stale'
  <2>1. stale \in BOOLEAN
    BY DEF StoreInv, StoreType, Filed
  <2>2. QED
    BY <2>1 DEF Acts, Store!Kept, Store!WriteBases, Store!WriteSealed, Store!Begin, Store!PullReads,
       Store!PullPrepares,
      Store!PullPublishes, Store!PullIndexes, Store!UninstallReads,
      Store!RemoveReads, Store!Deletes, Store!UninstallIndexes, Store!RemoveIndexes, Store!BuildReads, Store!BuildsArtifacts,
      Store!BuildCopies, Store!BuildPublishes, Store!BuildReadsIndex, Store!BuildIndexes, Store!ImportReads, Store!ImportPublishes,
      Store!ImportIndexes, Store!CreateResolves, Store!CreateCopies, Store!CreatePublishes, Store!CreatePrepares, Store!CreateLists
<1>4. ASSUME ~stale' PROVE BasesAgree' /\ Balanced'
  <2>1. BasesAgree /\ Balanced
    BY <1>3, <1>4 DEF StoreInv
  <2>2. \A d \in Sealeds : Sums(d)'
    BY <1>4, <2>1, BalancedStays
  <2>3. Balanced'
    BY <2>2 DEF Balanced, Sums
  <2>4. QED
    BY <1>4, <2>1, <2>3, BasesStay
<1>5. QED
  BY <1>1, <1>2, <1>4, AtWorkStays, KeyedStays, MadeStays DEF StoreInv

\* The invariant of the templates holds in every state.
LEMMA StoreHolds == PartsSpec => [](part = "store" => StoreInv)
<1>1. PartsInit => (part = "store" => StoreInv)
  <2> SUFFICES ASSUME NEW old \in SUBSET Ref, Store!StoreInit(old) PROVE StoreInv
    BY DEF PartsInit, PartsStart
  <2>1. /\ bases = old /\ sealed = [n \in Name |-> Nothing] /\ listed = [i \in Instance |-> Nothing] /\ stale = FALSE
        /\ at = [t \in Actors |-> "idle"] /\ does = [t \in Actors |-> Nothing] /\ DOMAIN seen = Actors
        /\ holds = [t \in Actors |-> Nothing]
        /\ trees = [d \in Store!TreeId |-> IF d \in {Store!Base(r) : r \in old} THEN Store!Tree(Nothing) ELSE Nothing]
    BY DEF Store!StoreInit, Actors, Store!Actor, Store!Absent
  <2>2. StoreType
    <3>1. Store!Tree(Nothing) \in States
      BY StatesAre
    <3>2. trees \in [Store!TreeId -> States \cup {Nothing}]
      BY <2>1, <3>1
    <3>3. QED
      BY <2>1, <3>2 DEF StoreType, Placed, Places, Asking, Holding, Seeing, Filed, Index
  <2>3. AtWork /\ Keyed /\ Made /\ Store!ListedIsReady
    BY <2>1 DEF AtWork, AtOwn, HasRead, Busy, Keyed, Made, MadeBy, Store!ListedIsReady, Store!Absent
  <2>4. MarkersTrue
    <3>1. \A d \in Store!TreeId : trees[d] # Nothing => trees[d] = Store!Tree(Nothing)
      BY <2>1
    <3>2. Store!Tree(Nothing).built = Nothing /\ Store!Tree(Nothing).marked = Nothing /\ Honest(Store!Tree(Nothing))
      BY DEF Honest, Store!Tree
    <3>3. \A d \in Bases : d \in Store!TreeId
      BY TreesApart
    <3>4. QED
      BY <2>1, <3>1, <3>2, <3>3 DEF MarkersTrue, TreesTrue
  <2>5. BasesAgree
    <3>1. Store!Tree(Nothing) # Nothing
      BY StatesAre, NoValue
    <3>2. ASSUME NEW r \in bases PROVE trees[Store!Base(r)] # Nothing
      <4>1. Store!Base(r) \in Store!TreeId /\ r \in old
        BY <2>1, TreesApart
      <4>2. QED
        BY <2>1, <3>1, <4>1
    <3>3. QED
      BY <2>1, <3>2 DEF BasesAgree, Busy
  <2>6. Balanced
    <3> SUFFICES ASSUME NEW d \in Sealeds
                 PROVE  Cardinality(Named(d)) + Cardinality(Coming(d)) <= Cardinality(Going(d)) + There(d)
      BY DEF Balanced
    <3>1. Named(d) = {} /\ Coming(d) = {} /\ Going(d) = {}
      BY <2>1, NoValue DEF Named, Coming, Going, Busy
    <3>2. There(d) \in {0, 1} /\ Cardinality({}) = 0
      BY FS_EmptySet DEF There
    <3>3. QED
      BY <3>1, <3>2
  <2>7. QED
    BY <2>2, <2>3, <2>4, <2>5, <2>6 DEF StoreInv
<1>2. (part = "store" => StoreInv) /\ [PartsNext]_partsVars => (part = "store" => StoreInv)'
  <2> SUFFICES ASSUME part = "store" => StoreInv, [PartsNext]_partsVars, part' = "store"
               PROVE  StoreInv'
    OBVIOUS
  <2>1. part = "store"
    BY DEF PartsNext, partsVars
  <2>2. CASE Store!StoreNext
    BY <2>1, <2>2, SomebodyActs, StoreDies, StoreGoesOn
  <2>3. CASE UNCHANGED store
    BY <2>1, <2>3 DEF store, StoreInv, StoreType, Placed, Asking, Holding, Seeing, Filed, AtWork, AtOwn, HasRead,
       Busy, Keyed,
      MarkersTrue, TreesTrue, Made, MadeBy, Store!ListedIsReady, Store!Exists, BasesAgree, Leaving, Balanced, Named, Coming,
      Going, Given, There
  <2>4. QED
    BY <2>1, <2>2, <2>3, StoreMoves
<1>3. QED
  BY <1>1, <1>2, PTL DEF PartsSpec

\* What the sums say of the index: a name without its tree, or two names of one
\* tree, take somebody who is about to remove it.
LEMMA StoreIsSound ==
  ASSUME StoreInv
  PROVE  Store!TemplatesSound
<1>1. Store!MarkerIsTrue
  BY DEF StoreInv, MarkersTrue, TreesTrue, Honest, Store!MarkerIsTrue, Store!Exists, Store!Absent
<1>2. ASSUME ~stale, NEW r \in bases
      PROVE  Store!Exists(Store!Base(r)) \/ Store!Removes("uninstall", Store!Base(r))
  <2>1. trees[Store!Base(r)] # Nothing \/ Leaving(r)
    BY <1>2 DEF StoreInv, BasesAgree
  <2>2. ASSUME NEW t \in Actors, Busy(t, "uninstall", {"index"}), does[t].ref = r
        PROVE  Store!Removes("uninstall", Store!Base(r))
    BY <2>2 DEF Store!Removes, Store!Actor, Actors, Busy, Store!Doomed
  <2>3. QED
    BY <2>1, <2>2 DEF Leaving, Store!Exists, Store!Absent
<1>3. ASSUME ~stale, NEW n \in Name, sealed[n] # Nothing,
             Cardinality(Named(sealed[n])) > There(sealed[n])
      PROVE  Store!Removes("remove", sealed[n])
  <2>0. PICK d \in Sealeds : d = sealed[n]
    BY <1>3 DEF StoreInv, StoreType, Filed, Index
  <2>1. Cardinality(Named(d)) + Cardinality(Coming(d)) <= Cardinality(Going(d)) + There(d)
    BY <1>3 DEF StoreInv, Balanced
  <2>2. Cardinality(Named(d)) \in Nat /\ Cardinality(Coming(d)) \in Nat /\ Cardinality(Going(d)) \in Nat /\ There(d) \in {0, 1}
    BY Finite, FS_CardinalityType DEF There
  <2>3. Cardinality(Going(d)) # 0
    BY <1>3, <2>0, <2>1, <2>2
  <2>4. Going(d) # {}
    BY <2>3, FS_EmptySet
  <2>5. PICK t \in Actors : Busy(t, "remove", {"index"}) /\ seen[t][does[t].name] = d
    BY <2>4 DEF Going
  <2>6. QED
    BY <2>0, <2>5 DEF Store!Removes, Store!Actor, Actors, Busy, Store!Doomed
<1>4. ASSUME ~stale, NEW n \in Name, sealed[n] # Nothing
      PROVE  Store!Exists(sealed[n]) \/ Store!Removes("remove", sealed[n])
  <2>1. SUFFICES ASSUME trees[sealed[n]] = Nothing PROVE Store!Removes("remove", sealed[n])
    BY DEF Store!Exists, Store!Absent
  <2>2. There(sealed[n]) = 0 /\ n \in Named(sealed[n])
    BY <2>1 DEF There, Named
  <2>3. Cardinality(Named(sealed[n])) \in Nat \ {0}
    <3>1. IsFiniteSet(Named(sealed[n]))
      BY Finite
    <3>2. QED
      BY <2>2, <3>1, FS_CardinalityType, FS_EmptySet
  <2>4. QED
    BY <1>3, <1>4, <2>2, <2>3
<1>5. ASSUME ~stale, NEW m \in Name, NEW n \in Name, m # n, sealed[m] # Nothing, sealed[m] = sealed[n]
      PROVE  Store!Removes("remove", sealed[n])
  <2>1. IsFiniteSet(Named(sealed[n])) /\ {m, n} \in SUBSET Named(sealed[n])
    BY <1>5, Finite DEF Named
  <2>2. Cardinality({m, n}) = 2
    <3>1. IsFiniteSet({m}) /\ Cardinality({m}) = 1
      BY FS_Singleton
    <3>2. Cardinality({m} \cup {n}) = 2
      BY <1>5, <3>1, FS_AddElement
    <3>3. {m, n} = {m} \cup {n}
      OBVIOUS
    <3>4. QED
      BY <3>2, <3>3
  <2>3. Cardinality(Named(sealed[n])) \in Nat /\ Cardinality(Named(sealed[n])) >= 2
    BY <2>1, <2>2, FS_Subset, FS_CardinalityType
  <2>4. There(sealed[n]) \in {0, 1}
    BY DEF There
  <2>5. QED
    BY <1>3, <1>5, <2>3, <2>4
<1>6. QED
  BY <1>1, <1>2, <1>4, <1>5 DEF StoreInv, Store!TemplatesSound, Store!IndexAgrees, Store!Absent

-----------------------------------------------------------------------------
\* Whatever was cancelled, failed or killed, a container that is listed was prepared
\* at its final path with this machine's artifacts, and a marker names the platform
\* of what was built; as long as no index was written late, it names what is there or
\* is being removed, and no two names share a tree unless one is being removed.  A
\* version the remote never had and a remote out of reach discard no mirror, what a
\* pull fetched is of the origin, and a mirror that was rebuilt for a version has it.
THEOREM TemplatesSoundHolds == PartsSpec => []TemplatesSound
<1>1. (part = "store" => StoreInv) /\ (part = "mirrors" => MirrorInv) => TemplatesSound
  BY StoreIsSound DEF TemplatesSound, Of, MirrorInv, Mirror!MirrorSound, Mirror!RebuildRepairs
<1>2. QED
  BY <1>1, StoreHolds, MirrorHolds, PTL
=============================================================================
