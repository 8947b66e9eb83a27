----------------------------- MODULE ToolProofs -----------------------------
(***************************************************************************)
(* Proofs about the tools around the repository, in three parts: the       *)
(* settings files of plan anchoring (AnchorSettings), one command that     *)
(* asks Jev (AnchorJudge) and a release (Release).                         *)
(* The parts share nothing but this module; each part's argument is at its *)
(* head.                                                                   *)
(***************************************************************************)
EXTENDS AnchorSettings, AnchorJudge, Release, SequenceTheorems, FiniteSetTheorems,
        WellFoundedInduction, TLAPS

-----------------------------------------------------------------------------
(***************************************************************************)
(* The settings, for any forest of folders and repositories, any commands  *)
(* at a time and any number of commands and edits.                         *)
(*                                                                         *)
(* Everything rests on what the nearest file of a place is: the lowest of  *)
(* those at or above it. Consent is never inferred because whatever says   *)
(* yes, a file or what a command is about to write, stands at or below a   *)
(* folder where the user said it. Answers hold because what a command is   *)
(* about to write is what was in effect at the folder it goes to, but for  *)
(* the one answer it sets.                                                 *)
(***************************************************************************)

Text == Settings \cup {Malformed}
Files == [Place -> Text \cup {Absent}]
Key == {"consent", "plan", "tracker"}

-----------------------------------------------------------------------------
(* The nearest file                                                        *)

Holders(files, d) == {f \in Place : Above(f, d) /\ files[f] # Absent}

IsLowest(f, F) == f \in F /\ \A g \in F : Above(g, f)

LEMMA NearestIsLowest ==
  ASSUME NEW files, NEW d \in Place, NEW f
  PROVE  f \in Nearest(files, d) <=> IsLowest(f, Holders(files, d))
  BY DEF Nearest, Holders, IsLowest

\* A lowest one exists and is the only one.
LEMMA LowestExists ==
  ASSUME NEW files, NEW d \in Place
  PROVE  \/ Holders(files, d) = {} /\ Nearest(files, d) = {}
         \/ \E f \in Place : /\ IsLowest(f, Holders(files, d)) /\ Nearest(files, d) = {f}
                             /\ (CHOOSE g \in Nearest(files, d) : TRUE) = f
<1> DEFINE H == Holders(files, d)
<1>1. H \in SUBSET {f \in Place : Above(f, d)}
  BY DEF Holders
<1>2. Nearest(files, d) = {f \in H : \A g \in H : Above(g, f)}
  BY DEF Nearest, Holders
<1>3. CASE H = {}
  BY <1>2, <1>3
<1>4. CASE H # {}
  <2>1. PICK f \in H : \A g \in H : Above(g, f)
    BY <1>1, <1>4, FolderAssumption
  <2>2. f \in Place /\ IsLowest(f, H)
    BY <1>1, <2>1 DEF IsLowest
  <2>3. ASSUME NEW g \in H, \A h \in H : Above(h, g) PROVE g = f
    BY <1>1, <2>1, <2>3, FolderAssumption
  <2>4. Nearest(files, d) = {f}
    BY <1>2, <2>1, <2>3
  <2>5. (CHOOSE g \in {f} : TRUE) = f
    OBVIOUS
  <2>6. QED BY <2>2, <2>4, <2>5
<1>5. QED BY <1>3, <1>4

\* What is in effect is what the lowest file says.
LEMMA EffectiveIs ==
  ASSUME NEW files, NEW d \in Place, NEW f, IsLowest(f, Holders(files, d))
  PROVE  Effective(files, d) = files[f] /\ Nearest(files, d) = {f}
<1>1. f \in Nearest(files, d)
  BY NearestIsLowest
<1>2. PICK g \in Place : Nearest(files, d) = {g} /\ (CHOOSE h \in Nearest(files, d) : TRUE) = g
  BY <1>1, LowestExists
<1>3. QED BY <1>1, <1>2 DEF Effective

LEMMA NothingIsFresh ==
  ASSUME NEW files, NEW d \in Place, Holders(files, d) = {}
  PROVE  Effective(files, d) = Fresh /\ Nearest(files, d) = {}
  BY DEF Effective, Nearest, Holders

LEMMA FreshIsSettings == Fresh \in Settings
  BY DEF Fresh, Settings

LEMMA EffectiveText ==
  ASSUME NEW files \in Files, NEW d \in Place
  PROVE  Effective(files, d) \in Text
<1>1. CASE Holders(files, d) = {}
  BY <1>1, NothingIsFresh, FreshIsSettings DEF Text
<1>2. ASSUME NEW f, IsLowest(f, Holders(files, d)) PROVE Effective(files, d) \in Text
  BY <1>2, EffectiveIs DEF IsLowest, Holders, Files
<1>3. QED BY <1>1, <1>2, LowestExists

\* A file is the nearest one at its own folder.
LEMMA LowestAtHome ==
  ASSUME NEW files, NEW f \in Place, files[f] # Absent
  PROVE  IsLowest(f, Holders(files, f))
  BY FolderAssumption DEF IsLowest, Holders

\* The nearest file of a place is the nearest one of every folder in between.
LEMMA LowestInBetween ==
  ASSUME NEW files, NEW d \in Place, NEW e \in Place, Above(e, d),
         NEW f, IsLowest(f, Holders(files, d)), Above(f, e)
  PROVE  IsLowest(f, Holders(files, e))
<1>1. f \in Place /\ files[f] # Absent /\ \A g \in Holders(files, d) : Above(g, f)
  BY DEF IsLowest, Holders
<1>2. Holders(files, e) \subseteq Holders(files, d)
  BY FolderAssumption DEF Holders
<1>3. QED BY <1>1, <1>2 DEF IsLowest, Holders

LEMMA NothingAbove ==
  ASSUME NEW files, NEW d \in Place, NEW e \in Place, Above(e, d), Holders(files, d) = {}
  PROVE  Holders(files, e) = {}
  BY FolderAssumption DEF Holders

\* Of two folders above a place one is above the other.
LEMMA OneLine ==
  ASSUME NEW d \in Place, NEW f \in Place, NEW g \in Place, Above(f, d), Above(g, d)
  PROVE  Above(f, g) \/ Above(g, f)
<1> DEFINE F == {f, g}
<1>1. F \in SUBSET {h \in Place : Above(h, d)} /\ F # {}
  OBVIOUS
<1>2. \A E \in SUBSET {h \in Place : Above(h, d)} :
        E # {} => \E h \in E : \A k \in E : Above(k, h)
  BY FolderAssumption
<1>3. \E h \in F : \A k \in F : Above(k, h)
  BY <1>1, <1>2
<1>4. QED BY <1>3

\* A file that is the nearest one neither before nor after it changes makes no
\* difference.
LEMMA FarChange ==
  ASSUME NEW old \in Files, NEW new \in Files, NEW p \in Place,
         \A f \in Place : f # p => new[f] = old[f],
         NEW d \in Place, p \notin Nearest(old, d), p \notin Nearest(new, d)
  PROVE  Effective(new, d) = Effective(old, d)
<1> DEFINE H == Holders(old, d)
           K == Holders(new, d)
<1>1. \A f : f # p => (f \in H <=> f \in K)
  BY DEF Holders
<1>2. ~IsLowest(p, H) /\ ~IsLowest(p, K)
  BY NearestIsLowest
<1>3. \A f : f \in H \cup K => f \in Place
  BY DEF Holders
<1>4. CASE H = {}
  <2>1. K \subseteq {p}
    BY <1>1, <1>4
  <2>2. p \notin K
    <3> SUFFICES ASSUME p \in K PROVE FALSE
      OBVIOUS
    <3>1. \A g \in K : Above(g, p)
      BY <2>1, FolderAssumption
    <3>2. QED BY <1>2, <3>1 DEF IsLowest
  <2>3. K = {}
    BY <2>1, <2>2
  <2>4. QED BY <1>4, <2>3, NothingIsFresh
<1>5. CASE H # {}
  <2>1. PICK f \in Place : IsLowest(f, H)
    BY <1>5, LowestExists
  <2>2. f # p /\ f \in K
    BY <1>1, <1>2, <2>1 DEF IsLowest
  <2>3. PICK k \in Place : IsLowest(k, K)
    BY <2>2, LowestExists
  <2>4. k # p /\ k \in H
    BY <1>1, <1>2, <2>3 DEF IsLowest
  <2>5. Above(f, k) /\ Above(k, f)
    BY <2>1, <2>2, <2>3, <2>4 DEF IsLowest
  <2>6. f = k
    BY <2>5, FolderAssumption
  <2>7. Effective(old, d) = old[f] /\ Effective(new, d) = new[f]
    BY <2>1, <2>3, <2>6, EffectiveIs
  <2>8. QED BY <2>2, <2>7
<1>6. QED BY <1>4, <1>5

\* Where a written file is the nearest one, what was in effect before is what was
\* in effect at its folder.
LEMMA NearWrite ==
  ASSUME NEW old \in Files, NEW p \in Place, NEW words \in Text,
         NEW new, new[p] = words, \A f \in Place : f # p => new[f] = old[f],
         NEW d \in Place, p \in Nearest(new, d)
  PROVE  Effective(new, d) = words /\ Effective(old, d) = Effective(old, p)
<1> DEFINE H == Holders(old, d)
           K == Holders(new, d)
<1>1. new[p] = words /\ new[p] # Absent /\ \A f \in Place : f # p => new[f] = old[f]
  BY SettingsAssumption DEF Text
<1>2. IsLowest(p, K)
  BY NearestIsLowest
<1>3. Effective(new, d) = words
  BY <1>1, <1>2, EffectiveIs
<1>4. H \subseteq K
  BY <1>1 DEF Holders
<1>5. \A g \in H : Above(g, p)
  BY <1>2, <1>4 DEF IsLowest
<1>6. Above(p, d)
  BY <1>2 DEF IsLowest, Holders
<1>7. CASE H = {}
  BY <1>3, <1>6, <1>7, NothingAbove, NothingIsFresh
<1>8. CASE H # {}
  <2>1. PICK f \in Place : IsLowest(f, H)
    BY <1>8, LowestExists
  <2>2. Above(f, p)
    BY <1>5, <2>1 DEF IsLowest
  <2>3. IsLowest(f, Holders(old, p))
    BY <1>6, <2>1, <2>2, LowestInBetween
  <2>4. QED BY <1>3, <2>1, <2>3, EffectiveIs
<1>9. QED BY <1>3, <1>7, <1>8

-----------------------------------------------------------------------------
(* The invariants                                                          *)

IsWriter(q) == q \in [pc: {"write"}, path: Place, next: Settings, key: Key, read: Files]

IsSender(q) == q \in [pc: {"send"}, place: Place]

Types ==
  /\ file \in Files /\ answer \in [Place -> Text]
  /\ DOMAIN proc = Proc
  /\ \A p \in Proc : proc[p] = Idle \/ IsWriter(proc[p]) \/ IsSender(proc[p])
  /\ allowed \subseteq Place /\ overlapped \in BOOLEAN /\ used \in 0 .. Budget

\* The settings s with the answer that t has to one question.
Change(s, key, t) == [s EXCEPT ![key] = t[key]]

\* What a command is about to write is what was in effect where it goes, when it
\* read the files, but for one answer.
Planned(q) == /\ Effective(q.read, q.path) \in Settings
              /\ q.next = Change(Effective(q.read, q.path), q.key, q.next)

Plans == \A p \in Proc : proc[p].pc = "write" => Planned(proc[p])

\* At or below a folder where the user said yes.
Rooted(d) == \E f \in allowed : Above(f, d)

Consented ==
  /\ \A f \in Place : SaysYes(file[f]) => Rooted(f)
  /\ \A p \in Proc :
       /\ /\ proc[p].pc = "write" /\ proc[p].key # "consent"
          /\ proc[p].next.consent = "yes"
          => Rooted(proc[p].path)
       /\ proc[p].pc = "send" => Rooted(proc[p].place)

LEMMA ChangeIsSettings ==
  ASSUME NEW s \in Settings, NEW t \in Settings, NEW key \in Key
  PROVE  /\ Change(s, key, t) \in Settings
         /\ key # "consent" => Change(s, key, t).consent = s.consent
<1>1. CASE key = "consent"
  BY <1>1 DEF Change, Settings
<1>2. CASE key = "plan"
  BY <1>2 DEF Change, Settings
<1>3. CASE key = "tracker"
  BY <1>3 DEF Change, Settings
<1>4. QED BY <1>1, <1>2, <1>3 DEF Key

LEMMA ByPlace ==
  ASSUME Types, NEW p \in Proc
  PROVE  /\ proc[p].pc = "write" => IsWriter(proc[p])
         /\ proc[p].pc = "send" => IsSender(proc[p])
<1>1. proc[p] = Idle \/ IsWriter(proc[p]) \/ IsSender(proc[p])
  BY DEF Types
<1>2. proc[p] = Idle => proc[p].pc = "idle"
  BY DEF Idle
<1>3. IsWriter(proc[p]) => proc[p].pc = "write"
  BY DEF IsWriter
<1>4. IsSender(proc[p]) => proc[p].pc = "send"
  BY DEF IsSender
<1>5. QED BY <1>1, <1>2, <1>3, <1>4

LEMMA WriterFields ==
  ASSUME NEW q, IsWriter(q)
  PROVE  /\ q.pc = "write" /\ q.path \in Place /\ q.next \in Settings /\ q.key \in Key
         /\ q.read \in Files
  BY DEF IsWriter

\* A yes in effect was said at or above the place.
LEMMA YesIsRooted ==
  ASSUME Types, Consented, NEW d \in Place, SaysYes(Effective(file, d))
  PROVE  Rooted(d)
<1>1. Holders(file, d) # {}
  <2> SUFFICES ASSUME Holders(file, d) = {} PROVE FALSE
    OBVIOUS
  <2>1. Effective(file, d) = Fresh
    BY NothingIsFresh
  <2>2. QED BY <2>1 DEF SaysYes, Fresh, Unset
<1>2. PICK f \in Place : IsLowest(f, Holders(file, d))
  BY <1>1, LowestExists
<1>3. Effective(file, d) = file[f] /\ Above(f, d)
  BY <1>2, EffectiveIs DEF IsLowest, Holders
<1>4. Rooted(f)
  BY <1>3 DEF Consented
<1>5. PICK g \in allowed : Above(g, f)
  BY <1>4 DEF Rooted
<1>6. Above(g, d)
  BY <1>3, <1>5, FolderAssumption DEF Types
<1>7. QED BY <1>6 DEF Rooted

-----------------------------------------------------------------------------
(* What a command is about to write                                        *)

\* set goes to the nearest file, or to the root when there is none.
LEMMA SetGoesTo ==
  ASSUME file \in Files, NEW d \in Place, InRepository(d),
         NEW path, path = (IF Nearest(file, d) = {} THEN Top(d)
                           ELSE CHOOSE f \in Nearest(file, d) : TRUE)
  PROVE  path \in Place /\ Effective(file, path) = Effective(file, d)
<1>1. CASE Holders(file, d) = {}
  <2>1. path = Top(d) /\ Top(d) \in Place /\ Above(Top(d), d)
    BY <1>1, NothingIsFresh, FolderAssumption DEF InRepository
  <2>2. Holders(file, Top(d)) = {}
    BY <1>1, <2>1, NothingAbove
  <2>3. QED BY <1>1, <2>1, <2>2, NothingIsFresh
<1>2. CASE Holders(file, d) # {}
  <2>1. PICK f \in Place : /\ IsLowest(f, Holders(file, d)) /\ Nearest(file, d) = {f}
                           /\ (CHOOSE g \in Nearest(file, d) : TRUE) = f
    BY <1>2, LowestExists
  <2>2. path = f /\ file[f] # Absent
    BY <2>1 DEF IsLowest, Holders
  <2>3. Effective(file, d) = file[f] /\ Effective(file, f) = file[f]
    BY <2>1, <2>2, EffectiveIs, LowestAtHome
  <2>4. QED BY <2>2, <2>3
<1>3. QED BY <1>1, <1>2

\* The tracker's write goes to the nearest file, or to the root of a repository
\* that has none of its own.
LEMMA TrackerGoesTo ==
  ASSUME file \in Files, NEW d \in Place, Top(d) \in Dolt,
         NEW own, own = {f \in Nearest(file, d) : Own(f, d)},
         NEW path, path = (IF own = {} THEN Top(d) ELSE CHOOSE f \in own : TRUE)
  PROVE  path \in Place /\ Effective(file, path) = Effective(file, d)
<1>1. Top(d) \in Place /\ Above(Top(d), d)
  BY FolderAssumption
<1>2. CASE Holders(file, d) = {}
  <2>1. path = Top(d)
    BY <1>2, NothingIsFresh
  <2>2. Holders(file, Top(d)) = {}
    BY <1>1, <1>2, NothingAbove
  <2>3. QED BY <1>1, <1>2, <2>1, <2>2, NothingIsFresh
<1>3. CASE Holders(file, d) # {}
  <2>1. PICK f \in Place : /\ IsLowest(f, Holders(file, d)) /\ Nearest(file, d) = {f}
    BY <1>3, LowestExists
  <2>2. Above(f, d) /\ file[f] # Absent /\ Effective(file, d) = file[f]
    BY <2>1, EffectiveIs DEF IsLowest, Holders
  <2>3. CASE Own(f, d)
    <3>1. own = {f}
      BY <2>1, <2>3
    <3>2. path = f
      BY <3>1
    <3>3. Effective(file, f) = file[f]
      BY <2>2, EffectiveIs, LowestAtHome
    <3>4. QED BY <2>2, <3>2, <3>3
  <2>4. CASE ~Own(f, d)
    <3>1. path = Top(d)
      BY <2>1, <2>4
    <3>2. Above(f, Top(d))
      BY <1>1, <2>2, <2>4, OneLine DEF Own
    <3>3. IsLowest(f, Holders(file, Top(d)))
      BY <1>1, <2>1, <3>2, LowestInBetween
    <3>4. Effective(file, Top(d)) = file[f]
      BY <1>1, <3>3, EffectiveIs
    <3>5. QED BY <1>1, <2>2, <3>1, <3>4
  <2>5. QED BY <2>3, <2>4
<1>4. QED BY <1>2, <1>3

\* What a command that starts is about to do.
Ready(q) ==
  /\ IsWriter(q) /\ Planned(q) /\ q.read = file
  /\ Consented /\ q.key # "consent" /\ q.next.consent = "yes" => Rooted(q.path)

LEMMA ReadyTo ==
  ASSUME Types, NEW path \in Place, NEW before, before = Effective(file, path),
         before # Malformed, NEW key \in Key, NEW value,
         NEW after \in Settings, after = [before EXCEPT ![key] = value],
         NEW q, q = [pc |-> "write", path |-> path, next |-> after, key |-> key, read |-> file]
  PROVE  Ready(q)
<1>1. before \in Settings
  BY EffectiveText DEF Types, Text
<1>2. after = Change(before, key, after) /\ (key # "consent" => after.consent = before.consent)
  <2>1. key \in DOMAIN before
    BY <1>1 DEF Settings, Key
  <2>2. after[key] = value
    BY <2>1
  <2>3. after = Change(before, key, after)
    BY <2>2 DEF Change
  <2>4. key # "consent" => after.consent = before.consent
    BY <1>1 DEF Settings
  <2>5. QED BY <2>3, <2>4
<1>3. q.pc = "write" /\ q.path = path /\ q.next = after /\ q.key = key /\ q.read = file
  OBVIOUS
<1>4. IsWriter(q)
  BY DEF Types, IsWriter
<1>5. Planned(q)
  BY <1>1, <1>2, <1>3 DEF Planned
<1>6. Consented /\ key # "consent" /\ after.consent = "yes" => Rooted(path)
  BY <1>1, <1>2, YesIsRooted DEF SaysYes
<1>7. QED BY <1>3, <1>4, <1>5, <1>6 DEF Ready

LEMMA SetStarts ==
  ASSUME Types, NEW p \in Proc, NEW d \in Place, NEW key \in Key, NEW value,
         \/ key = "consent" /\ value \in {"yes", "no"}
         \/ key = "plan" /\ value \in Plan,
         SetStart(p, d, key, value)
  PROVE  \E q : proc' = [proc EXCEPT ![p] = q] /\ Ready(q)
<1> DEFINE before == Effective(file, d)
           path == IF Nearest(file, d) = {} THEN Top(d)
                   ELSE CHOOSE f \in Nearest(file, d) : TRUE
           after == [before EXCEPT ![key] = value]
           q == [pc |-> "write", path |-> path, next |-> after, key |-> key, read |-> file]
<1>1. before # Malformed /\ proc' = [proc EXCEPT ![p] = q] /\ InRepository(d)
  BY DEF SetStart
<1>2. path \in Place /\ Effective(file, path) = before
  BY <1>1, SetGoesTo DEF Types
<1>3. before \in Settings
  BY <1>1, EffectiveText DEF Types, Text
<1> HIDE DEF path, before
<1>4. after \in Settings
  BY <1>3 DEF Settings
<1>5. Ready(q)
  BY <1>1, <1>2, <1>4, ReadyTo
<1> HIDE DEF q
<1>6. QED BY <1>1, <1>5

LEMMA TrackerStarts ==
  ASSUME Types, NEW p \in Proc, NEW d \in Place, TrackerStart(p, d)
  PROVE  \E q : proc' = [proc EXCEPT ![p] = q] /\ Ready(q)
<1> DEFINE before == Effective(file, d)
           own == {f \in Nearest(file, d) : Own(f, d)}
           path == IF own = {} THEN Top(d) ELSE CHOOSE f \in own : TRUE
           after == [before EXCEPT !["tracker"] = "bd"]
           q == [pc |-> "write", path |-> path, next |-> after, key |-> "tracker",
                 read |-> file]
<1>1. before # Malformed /\ proc' = [proc EXCEPT ![p] = q] /\ Top(d) \in Dolt
  BY DEF TrackerStart, WithTracker
<1>2. path \in Place /\ Effective(file, path) = before
  BY <1>1, TrackerGoesTo DEF Types
<1>3. before \in Settings
  BY <1>1, EffectiveText DEF Types, Text
<1> HIDE DEF path, before
<1>4. after \in Settings /\ "tracker" \in Key
  BY <1>3 DEF Settings, Key
<1>5. Ready(q)
  BY <1>1, <1>2, <1>4, ReadyTo
<1> HIDE DEF q
<1>6. QED BY <1>1, <1>5

-----------------------------------------------------------------------------
(* The steps                                                               *)

IInv == Types /\ Plans /\ Consented /\ SerialAnswersHold

LEMMA OneMoves ==
  ASSUME Types, NEW p \in Proc, NEW q, proc' = [proc EXCEPT ![p] = q]
  PROVE  /\ DOMAIN proc' = Proc /\ proc'[p] = q
         /\ \A o \in Proc : o # p => proc'[o] = proc[o]
  BY DEF Types

\* A command moves and the files stay.
LEMMA FilesStay ==
  ASSUME IInv, NEW p \in Proc, NEW q, proc' = [proc EXCEPT ![p] = q],
         UNCHANGED <<file, answer, allowed, overlapped>>, used' \in 0 .. Budget,
         \/ q = Idle
         \/ Ready(q)
         \/ IsSender(q) /\ Rooted(q.place)
  PROVE  IInv'
<1>1. /\ DOMAIN proc' = Proc /\ proc'[p] = q
      /\ \A o \in Proc : o # p => proc'[o] = proc[o]
  BY OneMoves DEF IInv
<1>2. /\ q = Idle \/ IsWriter(q) \/ IsSender(q)
      /\ q.pc = "write" => Ready(q)
      /\ q.pc = "send" => Rooted(q.place)
  BY WriterFields DEF Ready, IsSender, Idle
<1>3. Types'
  <2>1. \A o \in Proc : proc[o] = Idle \/ IsWriter(proc[o]) \/ IsSender(proc[o])
    BY DEF IInv, Types
  <2>2. \A o \in Proc : proc'[o] = Idle \/ IsWriter(proc'[o]) \/ IsSender(proc'[o])
    BY <1>1, <1>2, <2>1
  <2>3. QED BY <1>1, <2>2 DEF IInv, Types
<1>4. Plans'
  BY <1>1, <1>2 DEF IInv, Plans, Ready
<1>5. \A d : Rooted(d)' <=> Rooted(d)
  BY DEF Rooted
<1>6. Consented'
  <2>1. Consented
    BY DEF IInv
  <2>2. \A f \in Place : SaysYes(file'[f]) => Rooted(f)'
    BY <1>5, <2>1 DEF Consented
  <2>3. ASSUME NEW o \in Proc
        PROVE  /\ /\ proc'[o].pc = "write" /\ proc'[o].key # "consent"
                  /\ proc'[o].next.consent = "yes"
                  => Rooted(proc'[o].path)
               /\ proc'[o].pc = "send" => Rooted(proc'[o].place)
    <3>1. CASE o = p
      BY <1>1, <1>2, <2>1, <3>1 DEF Ready
    <3>2. CASE o # p
      BY <1>1, <2>1, <3>2 DEF Consented
    <3>3. QED BY <3>1, <3>2
  <2>4. QED BY <1>5, <2>2, <2>3 DEF Consented
<1>7. SerialAnswersHold'
  <2>1. \A d : Effective(file, d)' = Effective(file, d)
    OBVIOUS
  <2>2. QED BY <2>1 DEF IInv, SerialAnswersHold
<1>8. QED BY <1>3, <1>4, <1>6, <1>7 DEF IInv

\* Allowing more and moving one command on keeps what stands below a yes, if the
\* changed file does.
LEMMA ConsentStays ==
  ASSUME IInv, NEW d \in Place, NEW words \in Text \cup {Absent},
         file' = [file EXCEPT ![d] = words], allowed \subseteq allowed',
         SaysYes(words) => Rooted(d)',
         \A o \in Proc : proc'[o] = proc[o] \/ proc'[o] = Idle
  PROVE  Consented'
<1>1. \A e : Rooted(e) => Rooted(e)'
  BY DEF Rooted
<1>2. ASSUME NEW f \in Place, SaysYes(file'[f]) PROVE Rooted(f)'
  <2>1. CASE f = d
    <3>1. file'[f] = words
      BY <2>1 DEF IInv, Types, Files
    <3>2. QED BY <1>2, <2>1, <3>1
  <2>2. CASE f # d
    <3>1. file'[f] = file[f]
      BY <2>2 DEF IInv, Types, Files
    <3>2. Rooted(f)
      BY <1>2, <3>1 DEF IInv, Consented
    <3>3. QED BY <1>1, <3>2
  <2>3. QED BY <2>1, <2>2
<1>3. Idle.pc \notin {"write", "send"}
  BY DEF Idle
<1>4. Consented
  BY DEF IInv
<1>5. QED BY <1>1, <1>2, <1>3, <1>4 DEF Consented

LEMMA WriteSteps ==
  ASSUME IInv, NEW p \in Proc, Write(p)
  PROVE  IInv'
<1>0. IsWriter(proc[p]) /\ Planned(proc[p]) /\ Types
  BY ByPlace DEF Write, IInv, Plans
<1>1. PICK path \in Place, next \in Settings, key \in Key :
        proc[p].path = path /\ proc[p].next = next /\ proc[p].key = key
  BY <1>0, WriterFields
<1>2. file' = [file EXCEPT ![path] = next]
  BY <1>1 DEF Write
<1>3. /\ answer' = Settled(file', path, next, key)
      /\ allowed' = IF key = "consent" /\ next.consent = "yes"
                    THEN allowed \cup {path} ELSE allowed
      /\ overlapped' = (overlapped \/ proc[p].read # file)
      /\ proc' = [proc EXCEPT ![p] = Idle] /\ used' = used
  BY <1>1 DEF Write, Ends
<1>4. key # "consent" /\ next.consent = "yes" => Rooted(path)
  BY <1>1 DEF Write, IInv, Consented
<1>5. SerialAnswersHold /\ (proc[p].read = file =>
        /\ Effective(file, path) \in Settings
        /\ next = Change(Effective(file, path), key, next))
  BY <1>0, <1>1 DEF IInv, Planned
<1>6. /\ DOMAIN proc' = Proc /\ proc'[p] = Idle
      /\ \A o \in Proc : o # p => proc'[o] = proc[o]
  BY <1>0, <1>3, OneMoves
<1>7. file' \in Files
  BY <1>0, <1>2 DEF Types, Files, Text
<1>8. answer' = [d \in Place |-> IF path \in Nearest(file', d) /\ answer[d] # Malformed
                                 THEN Change(answer[d], key, next) ELSE answer[d]]
  BY <1>3 DEF Settled, Change
<1>9. Types'
  <2>1. \A d \in Place : answer[d] \in Text
    BY <1>0 DEF Types
  <2>2. \A d \in Place : answer[d] # Malformed => Change(answer[d], key, next) \in Text
    BY <2>1, ChangeIsSettings DEF Text
  <2>3. answer' \in [Place -> Text]
    BY <1>8, <2>1, <2>2
  <2>4. allowed' \subseteq Place /\ overlapped' \in BOOLEAN
    BY <1>0, <1>3 DEF Types
  <2>5. \A o \in Proc : proc[o] = Idle \/ IsWriter(proc[o]) \/ IsSender(proc[o])
    BY <1>0 DEF Types
  <2>6. \A o \in Proc : proc'[o] = Idle \/ IsWriter(proc'[o]) \/ IsSender(proc'[o])
    BY <1>6, <2>5
  <2>7. QED BY <1>0, <1>3, <1>6, <1>7, <2>3, <2>4, <2>6 DEF Types
<1>10. Plans'
  BY <1>6 DEF IInv, Plans, Idle
<1>11. Consented'
  <2>1. allowed \subseteq allowed'
    BY <1>3
  <2>2. SaysYes(next) => Rooted(path)'
    <3>1. CASE next.consent = "yes" /\ key = "consent"
      <4>1. path \in allowed'
        BY <1>3, <3>1
      <4>2. QED BY <4>1, FolderAssumption DEF Rooted
    <3>2. CASE next.consent = "yes" /\ key # "consent"
      BY <1>4, <2>1, <3>2 DEF Rooted
    <3>3. QED BY <3>1, <3>2 DEF SaysYes
  <2>3. \A o \in Proc : proc'[o] = proc[o] \/ proc'[o] = Idle
    BY <1>6
  <2>4. next \in Text \cup {Absent}
    BY DEF Text
  <2>5. QED BY <1>2, <2>1, <2>2, <2>3, <2>4, ConsentStays
<1>12. SerialAnswersHold'
  <2>1. SUFFICES ASSUME ~overlapped', NEW d \in Place
                 PROVE  Effective(file', d) = answer'[d]
    BY DEF SerialAnswersHold
  <2>2. proc[p].read = file /\ ~overlapped
    BY <1>3, <2>1
  <2>3. Effective(file, d) = answer[d]
    BY <1>5, <2>2 DEF SerialAnswersHold
  <2>4. next \in Text /\ file \in Files
    BY <1>0 DEF Text, Types
  <2>5. CASE path \in Nearest(file', d)
    <3>1. Effective(file', d) = next /\ Effective(file, d) = Effective(file, path)
      <4>1. file'[path] = next /\ \A f \in Place : f # path => file'[f] = file[f]
        BY <1>2, <2>4 DEF Files
      <4>2. QED BY <2>4, <2>5, <4>1, NearWrite
    <3>2. answer[d] \in Settings /\ next = Change(answer[d], key, next)
      BY <1>5, <2>2, <2>3, <3>1
    <3>3. answer[d] # Malformed
      BY <3>2, SettingsAssumption
    <3>4. answer'[d] = Change(answer[d], key, next)
      BY <1>8, <2>5, <3>3
    <3>5. QED BY <3>1, <3>2, <3>4
  <2>6. CASE path \notin Nearest(file', d)
    <3>1. answer'[d] = answer[d]
      BY <1>8, <2>6
    <3>2. \A f \in Place : f # path => file'[f] = file[f]
      BY <1>2, <2>4 DEF Files
    <3>3. CASE path \notin Nearest(file, d)
      <4>1. Effective(file', d) = Effective(file, d)
        BY <1>7, <2>4, <2>6, <3>2, <3>3, FarChange
      <4>2. QED BY <2>3, <3>1, <4>1
    <3>4. CASE path \in Nearest(file, d)
      <4>1. file'[path] # Absent /\ file[path] # Absent
        BY <1>2, <2>4, <3>4, SettingsAssumption DEF Files, Text, Nearest
      <4>2. Holders(file', d) = Holders(file, d)
        BY <3>2, <4>1 DEF Holders
      <4>3. path \in Nearest(file', d)
        BY <3>4, <4>2, NearestIsLowest
      <4>4. QED BY <2>6, <4>3
    <3>5. QED BY <3>3, <3>4
  <2>7. QED BY <2>5, <2>6
<1>13. QED BY <1>9, <1>10, <1>11, <1>12 DEF IInv

LEMMA EditSteps ==
  ASSUME IInv, NEW d \in Place, NEW words \in Text \cup {Absent}, Edit(d, words)
  PROVE  IInv'
<1>1. /\ file' = [file EXCEPT ![d] = words]
      /\ answer' = [e \in Place |-> IF d \in Nearest(file, e) \cup Nearest(file', e)
                                    THEN Effective(file', e) ELSE answer[e]]
      /\ allowed' = IF SaysYes(words) THEN allowed \cup {d} ELSE allowed
      /\ proc' = proc /\ overlapped' = overlapped
  BY DEF Edit
<1>2. Types /\ used' \in 0 .. Budget
  BY SettingsAssumption DEF Edit, IInv, Types
<1>3. file \in Files /\ file' \in Files
  BY <1>1, <1>2 DEF Types, Files
<1>4. Types'
  <2>1. \A e \in Place : Effective(file', e) \in Text /\ answer[e] \in Text
    BY <1>2, <1>3, EffectiveText DEF Types
  <2>2. answer' \in [Place -> Text]
    BY <1>1, <2>1
  <2>3. allowed' \subseteq Place
    BY <1>1, <1>2 DEF Types
  <2>4. QED BY <1>1, <1>2, <1>3, <2>2, <2>3 DEF Types
<1>5. Plans'
  BY <1>1 DEF IInv, Plans
<1>6. Consented'
  <2>1. SaysYes(words) => Rooted(d)'
    BY <1>1, FolderAssumption DEF Rooted
  <2>2. allowed \subseteq allowed'
    BY <1>1
  <2>3. QED BY <1>1, <2>1, <2>2, ConsentStays
<1>7. SerialAnswersHold'
  <2>1. SUFFICES ASSUME ~overlapped, NEW e \in Place
                 PROVE  Effective(file', e) = answer'[e]
    BY <1>1 DEF SerialAnswersHold
  <2>2. CASE d \in Nearest(file, e) \cup Nearest(file', e)
    BY <1>1, <2>2
  <2>3. CASE d \notin Nearest(file, e) /\ d \notin Nearest(file', e)
    <3>1. \A f \in Place : f # d => file'[f] = file[f]
      BY <1>1, <1>3 DEF Files
    <3>2. Effective(file', e) = Effective(file, e)
      BY <1>3, <2>3, <3>1, FarChange
    <3>3. Effective(file, e) = answer[e]
      BY <2>1 DEF IInv, SerialAnswersHold
    <3>4. answer'[e] = answer[e]
      BY <1>1, <2>3
    <3>5. QED BY <3>2, <3>3, <3>4
  <2>4. QED BY <2>2, <2>3
<1>8. QED BY <1>4, <1>5, <1>6, <1>7 DEF IInv

LEMMA JudgeStarts ==
  ASSUME IInv, NEW p \in Proc, NEW d \in Place, JudgeStart(p, d)
  PROVE  IInv'
<1> DEFINE q == [pc |-> "send", place |-> d]
<1>1. /\ proc' = [proc EXCEPT ![p] = q] /\ Consents(Effective(file, d))
      /\ UNCHANGED <<file, answer, allowed, overlapped>>
  BY DEF JudgeStart
<1>2. Types /\ Consented
  BY DEF IInv
<1>3. SaysYes(Effective(file, d))
  BY <1>1, <1>2, EffectiveText DEF Types, Text, Consents, SaysYes
<1>4. Rooted(d)
  BY <1>2, <1>3, YesIsRooted
<1>5. IsSender(q) /\ q.place = d
  BY DEF IsSender
<1>6. used' \in 0 .. Budget
  BY <1>2, SettingsAssumption DEF JudgeStart, Starts, Types
<1> HIDE DEF q
<1>7. QED BY <1>1, <1>4, <1>5, <1>6, FilesStay

LEMMA SetSteps ==
  ASSUME IInv, NEW p \in Proc, Set(p)
  PROVE  IInv'
<1>1. PICK d \in Place, key \in Key, value \in {"yes", "no"} \cup Plan :
        /\ \/ key = "consent" /\ value \in {"yes", "no"}
           \/ key = "plan" /\ value \in Plan
        /\ SetStart(p, d, key, value)
  BY DEF Set, Key
<1>2. Types
  BY DEF IInv
<1>3. PICK q : proc' = [proc EXCEPT ![p] = q] /\ Ready(q)
  BY <1>1, <1>2, SetStarts
<1>4. UNCHANGED <<file, answer, allowed, overlapped>>
  BY <1>1 DEF SetStart
<1>5. used' \in 0 .. Budget
  BY <1>1, <1>2, SettingsAssumption DEF SetStart, Starts, Types
<1>6. QED BY <1>3, <1>4, <1>5, FilesStay

LEMMA TrackerSteps ==
  ASSUME IInv, NEW p \in Proc, NEW d \in Place, TrackerStart(p, d)
  PROVE  IInv'
<1>1. Types
  BY DEF IInv
<1>2. PICK q : proc' = [proc EXCEPT ![p] = q] /\ Ready(q)
  BY <1>1, TrackerStarts
<1>3. UNCHANGED <<file, answer, allowed, overlapped>>
  BY DEF TrackerStart
<1>4. used' \in 0 .. Budget
  BY <1>1, SettingsAssumption DEF TrackerStart, Starts, Types
<1>5. QED BY <1>2, <1>3, <1>4, FilesStay

LEMMA EndSteps ==
  ASSUME IInv, NEW p \in Proc, Lost(p) \/ JudgeEnd(p)
  PROVE  IInv'
<1>1. /\ proc' = [proc EXCEPT ![p] = Idle]
      /\ UNCHANGED <<file, answer, allowed, overlapped>> /\ used' = used
  BY DEF Lost, JudgeEnd, Ends
<1>2. used' \in 0 .. Budget
  BY <1>1 DEF IInv, Types
<1>3. QED BY <1>1, <1>2, FilesStay

LEMMA EditedText ==
  \A words \in {Absent, Malformed, [Fresh EXCEPT !.consent = "no"]} : words \in Text \cup {Absent}
  BY DEF Text, Fresh, Settings

LEMMA IInvInit ==
  ASSUME Init
  PROVE  IInv
<1>1. /\ [Fresh EXCEPT !.tracker = "bd"] \in Settings
      /\ [Fresh EXCEPT !.consent = "yes"] \in Settings
  BY DEF Fresh, Settings
<1>2. file \in Files
  BY <1>1 DEF Init, Files, Text
<1>3. answer \in [Place -> Text]
  <2>1. \A d \in Place : Effective(file, d) \in Text
    BY <1>2, EffectiveText
  <2>2. answer = [d \in Place |-> Effective(file, d)]
    BY DEF Init
  <2>3. QED BY <2>1, <2>2
<1>4. DOMAIN proc = Proc /\ \A p \in Proc : proc[p] = Idle
  BY DEF Init
<1>5. Types
  <2>1. overlapped \in BOOLEAN /\ allowed \subseteq Place
    BY DEF Init
  <2>2. used \in 0 .. Budget
    BY SettingsAssumption DEF Init
  <2>3. QED BY <1>2, <1>3, <1>4, <2>1, <2>2 DEF Types
<1>6. Idle.pc = "idle"
  BY DEF Idle
<1>7. Plans
  BY <1>4, <1>6 DEF Plans
<1>8. \A f \in Place : SaysYes(file[f]) => f \in allowed
  BY DEF Init
<1>9. Consented
  BY <1>4, <1>6, <1>8, FolderAssumption DEF Consented, Rooted
<1>10. SerialAnswersHold
  BY DEF Init, SerialAnswersHold
<1>11. QED BY <1>5, <1>7, <1>9, <1>10 DEF IInv

LEMMA IInvNext ==
  ASSUME IInv, [Next]_vars
  PROVE  IInv'
<1>1. CASE UNCHANGED vars
  BY <1>1 DEF vars, IInv, Types, Plans, Consented, Rooted, SerialAnswersHold
<1>2. ASSUME NEW p \in Proc, Set(p) PROVE IInv'
  BY <1>2, SetSteps
<1>3. ASSUME NEW p \in Proc, NEW d \in Place, TrackerStart(p, d) \/ JudgeStart(p, d)
      PROVE  IInv'
  BY <1>3, TrackerSteps, JudgeStarts
<1>4. ASSUME NEW p \in Proc, Write(p) PROVE IInv'
  BY <1>4, WriteSteps
<1>5. ASSUME NEW p \in Proc, Lost(p) \/ JudgeEnd(p) PROVE IInv'
  BY <1>5, EndSteps
<1>6. ASSUME NEW d \in Place, NEW words \in {Absent, Malformed, [Fresh EXCEPT !.consent = "no"]},
             Edit(d, words)
      PROVE  IInv'
  BY <1>6, EditedText, EditSteps
<1>7. QED BY <1>1, <1>2, <1>3, <1>4, <1>5, <1>6 DEF Next

-----------------------------------------------------------------------------
(* The theorems                                                            *)

\* The conjunction of the types, the plans of the commands, the yes each of them
\* stands on and the answers is an invariant of the specification.
THEOREM IInvHolds == Spec => []IInv
  BY IInvInit, IInvNext, PTL DEF Spec

LEMMA IInvTypes ==
  ASSUME IInv
  PROVE  TypeOK
<1>1. file \in [Place -> Settings \cup {Absent, Malformed}]
  BY DEF IInv, Types, Files, Text
<1>2. answer \in [Place -> Settings \cup {Malformed}]
  BY DEF IInv, Types, Text
<1>3. ASSUME NEW p \in Proc
      PROVE  \/ proc[p] = Idle
             \/ /\ proc[p].pc = "write" /\ proc[p].path \in Place
                /\ proc[p].next \in Settings
             \/ proc[p].pc = "send" /\ proc[p].place \in Place
  <2>1. proc[p] = Idle \/ IsWriter(proc[p]) \/ IsSender(proc[p])
    BY DEF IInv, Types
  <2>2. QED BY <2>1 DEF IsWriter, IsSender
<1>4. QED BY <1>1, <1>2, <1>3 DEF IInv, Types, TypeOK

\* The variables have their types in every state.
THEOREM TypeCorrect == Spec => []TypeOK
  BY IInvHolds, IInvTypes, PTL

\* As long as no file changes under a command, every place keeps what the user
\* settled for it (set_value, write_settings_file, anchor_tracker.write).
THEOREM AnswersHold == Spec => []SerialAnswersHold
<1>1. IInv => SerialAnswersHold
  BY DEF IInv
<1>2. QED BY IInvHolds, <1>1, PTL

\* Whatever the commands do to each other's files, a request goes out only below
\* a folder where the user once said yes (remote_judge_consent).
THEOREM ConsentNeverInferred == Spec => []ConsentIsNeverInferred
<1>1. IInv => ConsentIsNeverInferred
  BY DEF IInv, Consented, Rooted, ConsentIsNeverInferred
<1>2. QED BY IInvHolds, <1>1, PTL

-----------------------------------------------------------------------------
(***************************************************************************)
(* One command that asks Jev, for any command of the four, any cells, any  *)
(* responses and any threshold, cap and number of attempts.                *)
(*                                                                         *)
(* A pass is earned when its entry is written, and an entry is never       *)
(* rewritten: the invariant ties each entry to the cell at its place, and  *)
(* what was asked about the current cell to judge_with_policy: a second    *)
(* answer only to confirm one near the threshold. That a run file holds    *)
(* what was decided, for each cell, is carried along.                      *)
(***************************************************************************)

\* What cells and entries are made of.
Given == [kind : Kind, size : Nat, excluded : BOOLEAN, lintErrors : BOOLEAN]
Verdict == PassingVerdict \cup FailingVerdict
             \cup {"excluded", "deterministic_only", "error", "duplicate", "distinct",
                   "unstable", "inconclusive", "needs_work", "testable"}
Responses == UNION {Response(c) : c \in Invocation}
Entries == [verdict : Verdict, got : Seq(Responses), unconfirmed : BOOLEAN]

\* A cell, and one with the size of a fitted plan item.
Fit(c, i) == [c EXCEPT !.size = TextSize(FitPlanItem(i.item, Cap, MaxCode))]
Shown == Given \cup {Fit(c, i) : c \in Given, i \in Invocation}

JudgeShape ==
  /\ cmd \in Invocation
  /\ pc \in {"check", "cell", "ask", "decide", "finish", "exited"}
  /\ cells \in Seq(Shown) /\ got \in Seq(Responses) /\ results \in Seq(Entries)
  /\ (exit = Running <=> pc # "exited")

\* The cells that are over and those to come are the command's.
Aligned ==
  /\ pc = "check" => cells = cmd.cells
  /\ Len(results) + Len(cells) = Len(cmd.cells)
  /\ \A i \in 1 .. Len(cells) :
       /\ cells[i].kind = cmd.cells[Len(results) + i].kind
       /\ cells[i].lintErrors = cmd.cells[Len(results) + i].lintErrors

\* What was asked about the current cell so far.
AskedSoFar ==
  /\ pc \in {"ask", "decide"} => cells # <<>>
  /\ pc = "decide" => got # <<>>
  /\ pc \in {"check", "cell", "finish"} => got = <<>>
  /\ pc = "finish" => cells = <<>>
  /\ cmd.op \in Asks =>
       /\ pc = "ask" => Len(got) <= 1
       /\ pc = "decide" => Len(got) <= 2
       /\ (pc = "ask" /\ Len(got) = 1) \/ (pc = "decide" /\ Len(got) = 2) =>
            cmd.confirm /\ NearThreshold(got[1], cells[1].kind, Threshold)

\* What lets an entry pass: the properties CellsAreEarned and CandidatesAreEarned, said of
\* one entry and before the exit code is known.
Earned(entry, kind, lintErrors) ==
  /\ cmd.op \in Asks /\ entry.verdict \in PassingVerdict =>
       /\ entry.got # <<>>
       /\ \A k \in 1 .. Len(entry.got) :
            Decide(entry.got[k], kind, Threshold) \in PassingVerdict
       /\ ~entry.unconfirmed /\ cmd.confirm /\ NearThreshold(entry.got[1], kind, Threshold) =>
            Len(entry.got) = 2
  /\ cmd.op = "rubric" /\ entry.verdict = "testable" =>
       /\ ~lintErrors
       /\ \A q \in DOMAIN entry.got[1] :
            Cardinality({k \in DOMAIN entry.got :
                           Sure(entry.got[k], q, "yes", Threshold)}) >= 2

AllEarned ==
  \A i \in 1 .. Len(results) : Earned(results[i], cmd.cells[i].kind, cmd.cells[i].lintErrors)

\* The run file of a judge command: written once, with every entry.
RunIsWhole ==
  cmd.op = "judge" =>
    /\ pc \notin {"finish", "exited"} => saved = <<>>
    /\ pc = "finish" => saved = <<results>>
    /\ saved # <<>> => saved = <<results>> /\ Len(results) = Len(cmd.cells)

JudgeInv == JudgeShape /\ Aligned /\ AskedSoFar /\ AllEarned /\ RunIsWhole /\ ExitTellsTheRun

-----------------------------------------------------------------------------
(* Small numbers and sets                                                  *)

LEMMA OneMore == ASSUME NEW n \in Nat, n + 1 = 2 PROVE n = 1
OBVIOUS

LEMMA OneOrTwo == ASSUME NEW n \in Nat, n <= 2, n # 0 PROVE n = 1 \/ n = 2
OBVIOUS

LEMMA FirstOrSecond == ASSUME NEW n \in {1, 2}, NEW k \in 1 .. n PROVE k = 1 \/ (k = 2 /\ n = 2)
OBVIOUS

LEMMA PairHasTwo == ASSUME NEW a, NEW b, a # b PROVE Cardinality({a, b}) = 2
<1>1. IsFiniteSet({a}) /\ Cardinality({a}) = 1
  BY FS_Singleton
<1>2. Cardinality({a} \cup {b}) = Cardinality({a}) + 1
  BY <1>1, FS_AddElement
<1>3. {a} \cup {b} = {a, b}
  OBVIOUS
<1>4. QED BY <1>1, <1>2, <1>3

-----------------------------------------------------------------------------
(* One cell after the other                                                *)

\* A step that disturbs neither the entries nor the cells keeps what is said of them.
LEMMA StillWhole ==
  ASSUME JudgeInv, UNCHANGED <<cmd, cells, results, saved>>,
         pc' \in {"cell", "ask", "decide"}, pc \in {"check", "cell", "ask", "decide"},
         UNCHANGED exit
  PROVE  Aligned' /\ AllEarned' /\ RunIsWhole' /\ ExitTellsTheRun'
<1>1. Aligned' /\ AllEarned'
  BY DEF JudgeInv, Aligned, AllEarned, Earned
<1>2. RunIsWhole' /\ ExitTellsTheRun'
  BY DEF JudgeInv, RunIsWhole, ExitTellsTheRun, Unanswered
<1>3. QED BY <1>1, <1>2

LEMMA CellsOfCommand ==
  ASSUME JudgeShape
  PROVE  /\ cmd.cells \in Seq(Given) /\ Len(cmd.cells) \in Nat
         /\ cmd.op \in {"judge", "fixtures", "rubric", "dedupe"}
<1>1. cmd \in Invocation
  BY DEF JudgeShape
<1>2. cmd.cells \in Seq(Given) /\ cmd.op \in {"judge", "fixtures", "rubric", "dedupe"}
  BY <1>1, InvocationAssumption DEF Given
<1>3. QED BY <1>2

\* A cell is over: its entry stands at its place.
LEMMA CloseKeeps ==
  ASSUME JudgeInv, pc \in {"cell", "ask", "decide"}, cells # <<>>,
         NEW entry \in Entries, Close(entry), UNCHANGED <<cmd, exit>>,
         Earned(entry, cells[1].kind, cells[1].lintErrors)
  PROVE  JudgeInv'
<1>1. /\ Len(cells) \in Nat \ {0} /\ Len(results) \in Nat
      /\ cells' \in Seq(Shown) /\ Len(cells') = Len(cells) - 1
      /\ \A i \in 1 .. Len(cells) - 1 : cells'[i] = cells[i + 1]
  BY DEF JudgeInv, JudgeShape, Close
<1>2. /\ results' \in Seq(Entries) /\ Len(results') = Len(results) + 1
      /\ \A i \in 1 .. Len(results) : results'[i] = results[i]
      /\ results'[Len(results) + 1] = entry
  BY AppendProperties DEF JudgeInv, JudgeShape, Close
<1>3. Len(results) + 1 <= Len(cmd.cells)
  BY <1>1 DEF JudgeInv, Aligned
<1>4. pc' = "cell" /\ got' = <<>> /\ exit = Running /\ exit' = Running
  BY DEF Close, JudgeInv, JudgeShape
<1>5. JudgeShape'
  BY <1>1, <1>2, <1>4 DEF JudgeInv, JudgeShape
<1>6. Aligned'
  <2>1. ASSUME NEW i \in 1 .. Len(cells')
        PROVE  /\ cells'[i].kind = cmd.cells[Len(results') + i].kind
               /\ cells'[i].lintErrors = cmd.cells[Len(results') + i].lintErrors
    <3>1. i \in 1 .. Len(cells) - 1 /\ i + 1 \in 1 .. Len(cells)
          /\ Len(results) + (i + 1) = Len(results') + i
      BY <1>1, <1>2
    <3>2. QED BY <1>1, <3>1 DEF JudgeInv, Aligned
  <2>2. Len(results') + Len(cells') = Len(cmd.cells)
    <3>1. Len(results) + Len(cells) = Len(cmd.cells)
      BY DEF JudgeInv, Aligned
    <3>2. QED BY <1>1, <1>2, <3>1
  <2>3. QED BY <1>4, <2>1, <2>2 DEF Aligned
<1>7. AskedSoFar'
  BY <1>4 DEF AskedSoFar
<1>8. AllEarned'
  <2>1. /\ cells[1].kind = cmd.cells[Len(results) + 1].kind
        /\ cells[1].lintErrors = cmd.cells[Len(results) + 1].lintErrors
    BY <1>1 DEF JudgeInv, Aligned
  <2>2. ASSUME NEW i \in 1 .. Len(results')
        PROVE  Earned(results'[i], cmd.cells[i].kind, cmd.cells[i].lintErrors)
    <3>1. i \in 1 .. Len(results) \/ i = Len(results) + 1
      BY <1>1, <1>2
    <3>2. QED BY <1>2, <2>1, <3>1 DEF JudgeInv, AllEarned
  <2>3. UNCHANGED cmd
    OBVIOUS
  <2>4. QED BY <2>2, <2>3 DEF AllEarned, Earned
<1>9. RunIsWhole' /\ ExitTellsTheRun'
  <2>1. cmd.op = "judge" => saved = <<>> /\ saved' = <<>>
    BY DEF JudgeInv, RunIsWhole, Close, SavesEachCell
  <2>2. QED BY <1>4, <2>1 DEF RunIsWhole, ExitTellsTheRun, Running
<1>10. QED BY <1>5, <1>6, <1>7, <1>8, <1>9 DEF JudgeInv


LEMMA CheckKeeps ==
  ASSUME JudgeInv, NEW cleared \in BOOLEAN, Check(cleared)
  PROVE  JudgeInv'
<1>1. /\ pc = "check" /\ exit = Running /\ cells = cmd.cells
      /\ UNCHANGED <<cmd, text, failures, got, calls, results, saved, cut>>
  BY DEF Check, asking, JudgeInv, JudgeShape, Aligned
<1>2. CASE Exit(2) /\ UNCHANGED cells
  <2>1. JudgeShape' /\ AskedSoFar'
    BY <1>1, <1>2 DEF JudgeInv, JudgeShape, AskedSoFar, Exit, Running
  <2>2. Aligned' /\ AllEarned'
    BY <1>1, <1>2 DEF JudgeInv, Aligned, AllEarned, Earned, Exit
  <2>3. RunIsWhole' /\ ExitTellsTheRun'
    BY <1>1, <1>2 DEF JudgeInv, RunIsWhole, ExitTellsTheRun, Exit
  <2>4. QED BY <2>1, <2>2, <2>3 DEF JudgeInv
<1>3. CASE /\ pc' = "cell" /\ UNCHANGED exit
           /\ cells' = [i \in DOMAIN cells |-> Fit(cells[i], cmd)] \/ UNCHANGED cells
  <2>1. /\ cells \in Seq(Given) /\ cmd \in Invocation
        /\ Len(cells) \in Nat /\ DOMAIN cells = 1 .. Len(cells)
    <3>1. cells \in Seq(Given) /\ cmd \in Invocation
      BY <1>1, CellsOfCommand DEF JudgeInv, JudgeShape
    <3>2. QED BY <3>1
  <2>2. /\ cells' \in Seq(Shown) /\ Len(cells') = Len(cells)
        /\ \A i \in 1 .. Len(cells) : cells'[i].kind = cells[i].kind
                                      /\ cells'[i].lintErrors = cells[i].lintErrors
    <3>1. CASE UNCHANGED cells
      BY <2>1, <3>1 DEF Shown
    <3>2. CASE cells' = [i \in DOMAIN cells |-> Fit(cells[i], cmd)]
      <4>1. \A i \in 1 .. Len(cells) : Fit(cells[i], cmd) \in Shown
        BY <2>1 DEF Shown
      <4>2. cells' \in [1 .. Len(cells) -> Shown]
        BY <2>1, <3>2, <4>1
      <4>3. cells' \in Seq(Shown) /\ Len(cells') = Len(cells)
        BY <2>1, <4>2
      <4>4. ASSUME NEW i \in 1 .. Len(cells)
            PROVE  cells'[i].kind = cells[i].kind /\ cells'[i].lintErrors = cells[i].lintErrors
        <5>1. cells'[i] = Fit(cells[i], cmd) /\ cells[i] \in Given
          BY <2>1, <3>2
        <5>2. QED BY <5>1 DEF Fit, Given
      <4>5. QED BY <4>3, <4>4
    <3>3. QED BY <1>3, <3>1, <3>2
  <2>3. JudgeShape' /\ AskedSoFar'
    BY <1>1, <1>3, <2>2 DEF JudgeInv, JudgeShape, AskedSoFar
  <2>4. Aligned'
    <3>1. pc' # "check" /\ Len(results') + Len(cells') = Len(cmd'.cells)
      BY <1>1, <1>3, <2>2 DEF JudgeInv, Aligned
    <3>2. \A i \in 1 .. Len(cells') :
            /\ cells'[i].kind = cmd.cells[Len(results) + i].kind
            /\ cells'[i].lintErrors = cmd.cells[Len(results) + i].lintErrors
      BY <2>2 DEF JudgeInv, Aligned
    <3>3. QED BY <1>1, <3>1, <3>2 DEF Aligned
  <2>5. AllEarned'
    BY <1>1 DEF JudgeInv, AllEarned, Earned
  <2>6. RunIsWhole' /\ ExitTellsTheRun'
    BY <1>1, <1>3 DEF JudgeInv, RunIsWhole, ExitTellsTheRun, Running
  <2>7. QED BY <2>3, <2>4, <2>5, <2>6 DEF JudgeInv
<1>4. QED BY <1>1, <1>2, <1>3 DEF Check, Fit

\* An entry with the answers so far, that passes nothing.
LEMMA PlainEntry ==
  ASSUME JudgeInv, NEW verdict \in Verdict \ (PassingVerdict \cup {"testable"}),
         NEW kind, NEW lint
  PROVE  Entry(verdict) \in Entries /\ Earned(Entry(verdict), kind, lint)
<1>1. /\ Entry(verdict) = [verdict |-> verdict, got |-> got, unconfirmed |-> FALSE]
      /\ got \in Seq(Responses)
  BY DEF Entry, JudgeInv, JudgeShape
<1>2. Entry(verdict).verdict = verdict /\ Entry(verdict) \in Entries
  BY <1>1 DEF Entries
<1>3. QED BY <1>2 DEF Earned

LEMMA MarkedEntry ==
  ASSUME NEW S, NEW T, NEW e \in [verdict : S, got : T, unconfirmed : BOOLEAN]
  PROVE  LET marked == [e EXCEPT !.unconfirmed = TRUE]
         IN  /\ marked \in [verdict : S, got : T, unconfirmed : BOOLEAN]
             /\ marked.verdict = e.verdict /\ marked.got = e.got /\ marked.unconfirmed
OBVIOUS

LEMMA PlainCloseKeeps ==
  ASSUME JudgeInv, pc \in {"cell", "ask", "decide"}, cells # <<>>, UNCHANGED <<cmd, exit>>,
         NEW verdict \in Verdict \ (PassingVerdict \cup {"testable"}),
         Close(Entry(verdict))
  PROVE  JudgeInv'
<1>1. /\ Entry(verdict) \in Entries
      /\ Earned(Entry(verdict), cells[1].kind, cells[1].lintErrors)
  BY PlainEntry
<1>2. QED BY <1>1, CloseKeeps

LEMMA OpenCellKeeps ==
  ASSUME JudgeInv, OpenCell
  PROVE  JudgeInv'
<1>1. pc = "cell" /\ cells # <<>> /\ UNCHANGED <<cmd, exit>> /\ got = <<>>
  BY DEF OpenCell, JudgeInv, AskedSoFar
<1>2. \/ \E verdict \in {"excluded", "deterministic_only", "error"} :
           Close(Entry(verdict))
      \/ pc' = "ask" /\ UNCHANGED <<cells, failures, got, results, saved, calls>>
  BY DEF OpenCell
<1>3. ASSUME NEW verdict \in {"excluded", "deterministic_only", "error"},
             Close(Entry(verdict))
      PROVE  JudgeInv'
  <2>1. verdict \in Verdict \ (PassingVerdict \cup {"testable"})
    BY DEF Verdict, PassingVerdict, FailingVerdict
  <2>2. QED BY <1>1, <1>3, <2>1, PlainCloseKeeps
<1>4. CASE pc' = "ask" /\ UNCHANGED <<cells, failures, got, results, saved, calls>>
  <2>1. JudgeShape' /\ AskedSoFar'
    BY <1>1, <1>4 DEF JudgeInv, JudgeShape, AskedSoFar
  <2>2. QED BY <1>1, <1>4, <2>1, StillWhole DEF JudgeInv
<1>5. QED BY <1>2, <1>3, <1>4

LEMMA AnsweredKeeps ==
  ASSUME JudgeInv, NEW response \in Response(cmd), Answered(response)
  PROVE  JudgeInv'
<1>1. /\ pc = "ask" /\ pc' = "decide" /\ got' = Append(got, response)
      /\ UNCHANGED <<cmd, cells, results, saved, exit>>
  BY DEF Answered
<1>2. response \in Responses /\ got \in Seq(Responses)
  BY DEF JudgeInv, JudgeShape, Responses
<1>3. /\ got' \in Seq(Responses) /\ got' # <<>> /\ Len(got) \in Nat /\ Len(got') = Len(got) + 1
      /\ \A i \in 1 .. Len(got) : got'[i] = got[i]
  BY <1>1, <1>2, AppendProperties
<1>4. JudgeShape'
  BY <1>1, <1>3 DEF JudgeInv, JudgeShape
<1>5. AskedSoFar'
  <2>1. ASSUME cmd.op \in Asks
        PROVE  /\ Len(got') <= 2
               /\ Len(got') = 2 =>
                    cmd.confirm /\ NearThreshold(got'[1], cells[1].kind, Threshold)
    <3>1. Len(got) <= 1
      BY <1>1, <2>1 DEF JudgeInv, AskedSoFar
    <3>2. ASSUME Len(got') = 2 PROVE Len(got) = 1 /\ got'[1] = got[1]
      <4>1. Len(got) = 1
        BY <1>3, <3>2, OneMore
      <4>2. 1 \in 1 .. Len(got)
        BY <4>1
      <4>3. QED BY <1>3, <4>1, <4>2
    <3>3. QED BY <1>1, <1>3, <2>1, <3>1, <3>2 DEF JudgeInv, AskedSoFar
  <2>2. QED BY <1>1, <1>3, <2>1 DEF JudgeInv, AskedSoFar
<1>6. QED BY <1>1, <1>4, <1>5, StillWhole DEF JudgeInv

\* A first answer stands without its confirmation, and marked so.
LEMMA GiveUpKeeps ==
  ASSUME JudgeInv, pc = "ask", GiveUp, UNCHANGED <<cmd, exit>>
  PROVE  JudgeInv'
<1>1. cells # <<>> /\ got \in Seq(Responses) /\ Head(cells) = cells[1]
  BY DEF JudgeInv, AskedSoFar, JudgeShape
<1>2. CASE Close(Entry("error"))
  <2>1. "error" \in Verdict \ (PassingVerdict \cup {"testable"})
    BY DEF Verdict, PassingVerdict, FailingVerdict
  <2>2. QED BY <1>1, <1>2, <2>1, PlainCloseKeeps
<1>3. ASSUME cmd.op \in Asks, Len(got) = 1,
             Close([Entry(Decide(got[1], Head(cells).kind, Threshold))
                      EXCEPT !.unconfirmed = TRUE])
      PROVE  JudgeInv'
  <2> DEFINE verdict == Decide(got[1], cells[1].kind, Threshold)
             entry == [Entry(verdict) EXCEPT !.unconfirmed = TRUE]
  <2>1. verdict \in Verdict
    BY DEF Decide, Verdict, PassingVerdict, FailingVerdict
  <2>2. entry = [Entry(verdict) EXCEPT !.unconfirmed = TRUE]
    OBVIOUS
  <2>3. entry \in Entries /\ entry.verdict = verdict /\ entry.got = got /\ entry.unconfirmed
    <3> HIDE DEF verdict
    <3>1. /\ Entry(verdict) \in
               [verdict : Verdict, got : Seq(Responses), unconfirmed : BOOLEAN]
          /\ Entry(verdict).verdict = verdict /\ Entry(verdict).got = got
      BY <1>1, <2>1 DEF Entry
    <3> DEFINE base == Entry(verdict)
    <3> HIDE DEF base
    <3>2. QED BY <3>1, MarkedEntry DEF Entries, base
  <2>4. cmd.op # "rubric"
    BY <1>3 DEF Asks
  <2>5. \A k \in 1 .. Len(got) : k = 1
    BY <1>3
  <2>6. Close(entry)
    BY <1>1, <1>3, <2>2
  <2>7. got # <<>>
    <3>1. Len(got) = 1
      BY <1>3
    <3>2. QED BY <3>1
  <2>8. Earned(entry, cells[1].kind, cells[1].lintErrors)
    <3> HIDE DEF entry
    <3>1. verdict \in PassingVerdict =>
            \A k \in 1 .. Len(got) :
              Decide(got[k], cells[1].kind, Threshold) \in PassingVerdict
      BY <2>5
    <3> HIDE DEF verdict
    <3>2. QED BY <2>3, <2>4, <2>7, <3>1 DEF Earned
  <2> HIDE DEF entry
  <2>9. QED BY <1>1, <2>3, <2>6, <2>8, CloseKeeps
<1>4. QED BY <1>2, <1>3 DEF GiveUp

LEMMA FailureKeeps ==
  ASSUME JudgeInv, TransientFailure \/ TooLong \/ Refused
  PROVE  JudgeInv'
<1>1. pc = "ask" /\ UNCHANGED <<cmd, exit>>
  BY DEF TransientFailure, TooLong, Refused
<1>2. CASE UNCHANGED <<pc, cells, got, results, saved>>
  <2>1. JudgeShape' /\ AskedSoFar'
    BY <1>1, <1>2 DEF JudgeInv, JudgeShape, AskedSoFar
  <2>2. QED BY <1>1, <1>2, <2>1, StillWhole DEF JudgeInv
<1>3. CASE GiveUp
  BY <1>1, <1>3, GiveUpKeeps
<1>4. QED BY <1>2, <1>3 DEF TransientFailure, TooLong, Refused

\* The command stops with a code that is not 0.
LEMMA StopKeeps ==
  ASSUME JudgeInv, pc # "exited", NEW code \in {2, 130}, Exit(code),
         UNCHANGED <<cmd, cells, got, results, saved>>
  PROVE  JudgeInv'
<1>1. JudgeShape' /\ AskedSoFar'
  <2>1. pc' = "exited" /\ exit' = code /\ code # Running
    BY DEF Exit, Running
  <2>2. JudgeShape'
    BY <2>1 DEF JudgeInv, JudgeShape
  <2>3. AskedSoFar'
    BY <2>1 DEF JudgeInv, AskedSoFar
  <2>4. QED BY <2>2, <2>3
<1>2. Aligned' /\ AllEarned'
  BY DEF JudgeInv, Aligned, AllEarned, Earned, Exit
<1>3. RunIsWhole' /\ ExitTellsTheRun'
  BY DEF JudgeInv, RunIsWhole, ExitTellsTheRun, Exit
<1>4. QED BY <1>1, <1>2, <1>3 DEF JudgeInv

LEMMA AskAgainKeeps ==
  ASSUME JudgeInv, pc = "decide", AskAgain, UNCHANGED <<cmd, exit>>,
         cmd.op \in Asks =>
           /\ Len(got) = 1 /\ cmd.confirm
           /\ NearThreshold(got[1], cells[1].kind, Threshold)
  PROVE  JudgeInv'
<1>1. pc' = "ask" /\ UNCHANGED <<cells, got, results, saved>>
  BY DEF AskAgain
<1>2. JudgeShape'
  BY <1>1 DEF JudgeInv, JudgeShape
<1>3. cells # <<>>
  BY DEF JudgeInv, AskedSoFar
<1>4. AskedSoFar'
  <2>1. ASSUME cmd.op \in Asks
        PROVE  /\ Len(got) <= 1 /\ cmd.confirm
               /\ NearThreshold(got[1], cells[1].kind, Threshold)
    <3>1. Len(got) = 1
      BY <2>1
    <3>2. Len(got) <= 1
      BY <3>1
    <3>3. QED BY <2>1, <3>2
  <2>2. QED BY <1>1, <1>3, <2>1 DEF AskedSoFar
<1>5. QED BY <1>1, <1>2, <1>4, StillWhole DEF JudgeInv

\* Two answers that agree, or one that need not be confirmed.
LEMMA DecideCellKeeps ==
  ASSUME JudgeInv, pc = "decide", cmd.op \in Asks, DecideCell(Head(cells).kind),
         UNCHANGED <<cmd, exit>>
  PROVE  JudgeInv'
<1> DEFINE kind == cells[1].kind
           verdict(i) == Decide(got[i], kind, Threshold)
<1>1. /\ cells # <<>> /\ got \in Seq(Responses) /\ Head(cells) = cells[1] /\ cmd.op # "rubric"
      /\ got # <<>> /\ (Len(got) = 1 \/ Len(got) = 2)
  <2>1. cells # <<>> /\ got \in Seq(Responses) /\ Head(cells) = cells[1] /\ cmd.op # "rubric"
    BY DEF JudgeInv, AskedSoFar, JudgeShape, Asks
  <2>2. got # <<>> /\ Len(got) <= 2
    BY DEF JudgeInv, AskedSoFar
  <2>3. Len(got) \in Nat /\ Len(got) # 0
    BY <2>1, <2>2, EmptySeq
  <2>4. Len(got) = 1 \/ Len(got) = 2
    BY <2>2, <2>3, OneOrTwo
  <2>5. QED BY <2>1, <2>2, <2>4
<1>2. CASE Len(got) = 1 /\ cmd.confirm /\ NearThreshold(got[1], kind, Threshold)
  BY <1>1, <1>2, AskAgainKeeps DEF DecideCell
<1>3. CASE Len(got) = 2 /\ verdict(1) # verdict(2)
  <2>1. Close(Entry("underspecified"))
    BY <1>1, <1>3 DEF DecideCell
  <2>2. "underspecified" \in Verdict \ (PassingVerdict \cup {"testable"})
    BY DEF Verdict, PassingVerdict, FailingVerdict
  <2>3. QED BY <1>1, <2>1, <2>2, PlainCloseKeeps
<1>4. CASE /\ ~(Len(got) = 1 /\ cmd.confirm /\ NearThreshold(got[1], kind, Threshold))
           /\ ~(Len(got) = 2 /\ verdict(1) # verdict(2))
  <2> DEFINE v == verdict(1)
             entry == [verdict |-> v, got |-> got, unconfirmed |-> FALSE]
  <2>1. v \in Verdict
    BY DEF Decide, Verdict, PassingVerdict, FailingVerdict
  <2>2. Close(entry)
    BY <1>1, <1>4 DEF DecideCell, Entry
  <2>3. entry \in Entries /\ entry.verdict = v /\ entry.got = got
    BY <1>1, <2>1 DEF Entries
  <2>4. \A k \in 1 .. Len(got) : verdict(k) = v
    <3>1. \A k \in 1 .. Len(got) : k = 1 \/ (k = 2 /\ Len(got) = 2)
      BY <1>1, FirstOrSecond
    <3>2. QED BY <1>4, <3>1
  <2>5. cmd.confirm /\ NearThreshold(got[1], kind, Threshold) => Len(got) = 2
    BY <1>1, <1>4
  <2>6. v \in PassingVerdict =>
          \A k \in 1 .. Len(got) :
            Decide(got[k], cells[1].kind, Threshold) \in PassingVerdict
    BY <2>4
  <2> HIDE DEF v, entry
  <2>7. Earned(entry, cells[1].kind, cells[1].lintErrors)
    BY <1>1, <2>3, <2>5, <2>6 DEF Earned
  <2>8. QED BY <1>1, <2>2, <2>3, <2>7, CloseKeeps
<1>5. QED BY <1>2, <1>3, <1>4

-----------------------------------------------------------------------------
(* The rubric                                                              *)

\* A criterion that is met has two confident answers yes.
LEMMA MetIsSureTwice ==
  ASSUME NEW r \in Seq(Responses), Len(r) \in Nat, Len(r) >= 2, NEW q, NEW t,
         Criterion(r, q, t) = "met"
  PROVE  Cardinality({k \in DOMAIN r : Sure(r[k], q, "yes", t)}) >= 2
<1> DEFINE confident(choice) == {i \in DOMAIN r : Sure(r[i], q, choice, t)}
           competing == {choice \in Choice : confident(choice) # {}}
           decided(choice) == IF choice = "yes" THEN "met" ELSE "failing"
           first == r[1][q].choice
<1>1. DOMAIN r = 1 .. Len(r) /\ 1 \in DOMAIN r /\ 2 \in DOMAIN r
  OBVIOUS
<1>2. \A choice \in Choice : IsFiniteSet(confident(choice))
  <2>1. IsFiniteSet(1 .. Len(r))
    BY FS_Interval
  <2>2. QED BY <1>1, <2>1, FS_Subset
<1>3. CASE first = r[2][q].choice
  <2>1. (\A i \in 1 .. 2 : r[i][q].confidence >= t) /\ first = "yes"
    BY <1>3 DEF Criterion
  <2>2. 1 \in confident("yes") /\ 2 \in confident("yes")
    <3>1. r[1][q].choice = "yes" /\ r[2][q].choice = "yes"
      BY <1>3, <2>1
    <3>2. Sure(r[1], q, "yes", t) /\ Sure(r[2], q, "yes", t)
      BY <2>1, <3>1 DEF Sure
    <3>3. QED BY <1>1, <3>2
  <2>3. {1, 2} \subseteq confident("yes") /\ IsFiniteSet(confident("yes"))
    BY <1>2, <2>2 DEF Choice
  <2>4. Cardinality({1, 2}) = 2
    <3>1. 1 # 2
      OBVIOUS
    <3>2. QED BY <3>1, PairHasTwo, Zenon
  <2>5. Cardinality({1, 2}) <= Cardinality(confident("yes"))
    BY <2>3, FS_Subset
  <2>6. Cardinality(confident("yes")) \in Nat
    BY <2>3, FS_CardinalityType
  <2>7. QED BY <2>4, <2>5, <2>6
<1>4. CASE first # r[2][q].choice
  <2>1. /\ ~(Cardinality(competing) > 1)
        /\ \E choice \in competing : Cardinality(confident(choice)) >= 2
        /\ decided(CHOOSE choice \in competing : TRUE) = "met"
    BY <1>4 DEF Criterion
  <2>2. PICK c \in competing : Cardinality(confident(c)) >= 2
    BY <2>1
  <2> DEFINE d == CHOOSE choice \in competing : TRUE
  <2>3. d \in competing /\ d = "yes"
    BY <2>1, <2>2
  <2>4. IsFiniteSet(competing)
    <3>1. IsFiniteSet(Choice)
      <4>1. IsFiniteSet({"yes"})
        BY FS_Singleton
      <4>2. IsFiniteSet({"yes"} \cup {"no"})
        BY <4>1, FS_AddElement
      <4>3. IsFiniteSet(({"yes"} \cup {"no"}) \cup {"unclear"})
        BY <4>2, FS_AddElement
      <4>4. Choice = ({"yes"} \cup {"no"}) \cup {"unclear"}
        BY DEF Choice
      <4>5. QED BY <4>3, <4>4
    <3>2. QED BY <3>1, FS_Subset
  <2> HIDE DEF d, competing
  <2>5. c = d
    <3>1. SUFFICES ASSUME c # d PROVE FALSE
      OBVIOUS
    <3>2. {c, d} \subseteq competing /\ Cardinality({c, d}) = 2
      BY <2>2, <2>3, <3>1, PairHasTwo
    <3>3. Cardinality({c, d}) <= Cardinality(competing) /\ Cardinality(competing) \in Nat
      BY <2>4, <3>2, FS_Subset, FS_CardinalityType
    <3>4. QED BY <2>1, <3>2, <3>3
  <2>6. QED BY <2>2, <2>3, <2>5
<1>5. QED BY <1>3, <1>4

\* What a rubric concludes, and when it is testable.
LEMMA TestableIsSure ==
  ASSUME NEW r \in Seq(Responses), Len(r) \in Nat, Len(r) >= 2, NEW t, NEW lint \in BOOLEAN
  PROVE  /\ RubricVerdict(r, t, lint) \in {"unstable", "inconclusive", "needs_work", "testable"}
         /\ RubricVerdict(r, t, lint) = "testable" =>
              /\ ~lint
              /\ \A q \in DOMAIN r[1] :
                   Cardinality({k \in DOMAIN r : Sure(r[k], q, "yes", t)}) >= 2
<1>1. RubricVerdict(r, t, lint) \in {"unstable", "inconclusive", "needs_work", "testable"}
  BY DEF RubricVerdict
<1>2. ASSUME RubricVerdict(r, t, lint) = "testable", NEW q \in DOMAIN r[1]
      PROVE  ~lint /\ Criterion(r, q, t) \notin {"unstable", "low", "failing"}
  BY <1>2 DEF RubricVerdict
<1>3. ASSUME NEW q PROVE Criterion(r, q, t) \in {"unstable", "low", "failing", "met"}
  BY DEF Criterion
<1>4. ASSUME RubricVerdict(r, t, lint) = "testable" PROVE ~lint
  BY <1>4 DEF RubricVerdict
<1>5. QED BY <1>1, <1>2, <1>3, <1>4, MetIsSureTwice

LEMMA DecideRubricKeeps ==
  ASSUME JudgeInv, pc = "decide", cmd.op = "rubric",
         DecideRubric(Head(cells).lintErrors),
         UNCHANGED <<cmd, exit>>
  PROVE  JudgeInv'
<1> DEFINE lint == cells[1].lintErrors
           v == RubricVerdict(got, Threshold, lint)
           entry == [verdict |-> v, got |-> got, unconfirmed |-> FALSE]
<1>1. /\ cells # <<>> /\ got \in Seq(Responses) /\ Head(cells) = cells[1] /\ got # <<>>
      /\ cmd.op \notin Asks
  BY DEF JudgeInv, AskedSoFar, JudgeShape, Asks
<1>2. CASE AskAgain
  BY <1>1, <1>2, AskAgainKeeps
<1>3. CASE Len(got) # 1 /\ Close(Entry(v))
  <2>1. Len(got) \in Nat /\ Len(got) # 0
    BY <1>1, EmptySeq
  <2>2. Len(got) >= 2
    <3>1. \A n \in Nat : n # 0 /\ n # 1 => n >= 2
      OBVIOUS
    <3>2. QED BY <1>3, <2>1, <3>1
  <2>3. lint \in BOOLEAN
    <3>1. Len(cells) \in Nat \ {0} /\ Len(results) \in Nat
      BY <1>1, EmptySeq DEF JudgeInv, JudgeShape
    <3>2. lint = cmd.cells[Len(results) + 1].lintErrors
      BY <3>1 DEF JudgeInv, Aligned
    <3>3. Len(results) + Len(cells) = Len(cmd.cells)
      BY DEF JudgeInv, Aligned
    <3>4. cmd.cells \in Seq(Given)
      BY CellsOfCommand DEF JudgeInv
    <3>5. Len(results) + 1 \in 1 .. Len(cmd.cells)
      BY <3>1, <3>3
    <3>6. cmd.cells[Len(results) + 1] \in Given
      BY <3>4, <3>5, ElementOfSeq
    <3>7. QED BY <3>2, <3>6 DEF Given
  <2> HIDE DEF lint
  <2>4. /\ v \in {"unstable", "inconclusive", "needs_work", "testable"}
        /\ v = "testable" =>
             /\ ~lint
             /\ \A q \in DOMAIN got[1] :
                  Cardinality({k \in DOMAIN got : Sure(got[k], q, "yes", Threshold)}) >= 2
    BY <1>1, <2>1, <2>2, <2>3, TestableIsSure
  <2> HIDE DEF v
  <2>5. v \in Verdict
    BY <2>4 DEF Verdict
  <2>6. Close(entry)
    BY <1>3 DEF Entry
  <2>7. entry \in Entries /\ entry.verdict = v /\ entry.got = got
    BY <1>1, <2>5 DEF Entries
  <2> HIDE DEF entry
  <2>8. Earned(entry, cells[1].kind, lint)
    BY <1>1, <2>4, <2>7 DEF Earned
  <2>9. QED BY <1>1, <2>6, <2>7, <2>8, CloseKeeps DEF lint
<1>4. QED BY <1>1, <1>2, <1>3 DEF DecideRubric

LEMMA DecideStepKeeps ==
  ASSUME JudgeInv, DecideStep
  PROVE  JudgeInv'
<1>1. pc = "decide" /\ UNCHANGED <<cmd, exit>> /\ cells # <<>>
      /\ cmd.op \in {"judge", "fixtures", "rubric", "dedupe"}
  BY CellsOfCommand DEF DecideStep, JudgeInv, AskedSoFar
<1>2. CASE cmd.op \in Asks
  <2>1. DecideCell(Head(cells).kind)
    BY <1>2 DEF DecideStep, Asks
  <2>2. QED BY <1>1, <1>2, <2>1, DecideCellKeeps
<1>3. CASE cmd.op = "rubric"
  <2>1. DecideRubric(Head(cells).lintErrors)
    BY <1>3 DEF DecideStep, Asks
  <2>2. QED BY <1>1, <1>3, <2>1, DecideRubricKeeps
<1>4. CASE cmd.op = "dedupe"
  <2>1. DecidePair
    BY <1>4 DEF DecideStep, Asks
  <2>2. PICK verdict \in {"duplicate", "distinct"} : Close(Entry(verdict))
    BY <2>1 DEF DecidePair
  <2>3. verdict \in Verdict \ (PassingVerdict \cup {"testable"})
    BY DEF Verdict, PassingVerdict, FailingVerdict
  <2>4. QED BY <1>1, <2>2, <2>3, PlainCloseKeeps
<1>5. QED BY <1>1, <1>2, <1>3, <1>4 DEF Asks

-----------------------------------------------------------------------------
(* The end of a command                                                    *)

LEMMA FinishKeeps ==
  ASSUME JudgeInv, Finish
  PROVE  JudgeInv'
<1>1. /\ pc = "cell" /\ pc' = "finish" /\ cells = <<>> /\ got = <<>>
      /\ UNCHANGED <<cmd, cells, got, results, exit>>
      /\ exit = Running
  BY DEF Finish, asking, JudgeInv, AskedSoFar, JudgeShape
<1>2. JudgeShape' /\ AskedSoFar'
  BY <1>1 DEF JudgeInv, JudgeShape, AskedSoFar
<1>3. Aligned' /\ AllEarned'
  BY <1>1 DEF JudgeInv, Aligned, AllEarned, Earned
<1>4. Len(results) = Len(cmd.cells)
  <2>1. Len(results) + Len(cells) = Len(cmd.cells) /\ Len(results) \in Nat
    BY DEF JudgeInv, Aligned, JudgeShape
  <2>2. Len(cells) = 0
    BY <1>1
  <2>3. QED BY <2>1, <2>2
<1>5. cmd.op = "judge" => saved' = <<results>>
  <2>1. ASSUME cmd.op = "judge" PROVE saved = <<>> /\ saved' = Append(saved, results)
    BY <1>1, <2>1 DEF Finish, JudgeInv, RunIsWhole
  <2>2. Append(<<>>, results) = <<results>>
    OBVIOUS
  <2>3. QED BY <2>1, <2>2
<1>6. RunIsWhole' /\ ExitTellsTheRun'
  BY <1>1, <1>4, <1>5 DEF RunIsWhole, ExitTellsTheRun, Running
<1>7. QED BY <1>2, <1>3, <1>6 DEF JudgeInv

LEMMA ReportKeeps ==
  ASSUME JudgeInv, Report
  PROVE  JudgeInv'
<1> DEFINE code == IF \E i \in DOMAIN results : Unanswered(results[i]) THEN 2 ELSE 0
<1>1. /\ pc = "finish" /\ pc' = "exited" /\ exit' = code
      /\ UNCHANGED <<cmd, cells, got, results, saved>>
  BY DEF Report, Exit, asking
<1>2. code \in {0, 2} /\ (code = 0 => \A i \in DOMAIN results : ~Unanswered(results[i]))
  OBVIOUS
<1> HIDE DEF code
<1>3. JudgeShape' /\ AskedSoFar'
  BY <1>1, <1>2 DEF JudgeInv, JudgeShape, AskedSoFar, Running
<1>4. Aligned' /\ AllEarned'
  BY <1>1 DEF JudgeInv, Aligned, AllEarned, Earned
<1>5. Len(results) = Len(cmd.cells)
  <2>1. Len(results) + Len(cells) = Len(cmd.cells) /\ Len(results) \in Nat
    BY DEF JudgeInv, Aligned, JudgeShape
  <2>2. Len(cells) = 0
    BY <1>1 DEF JudgeInv, AskedSoFar
  <2>3. QED BY <2>1, <2>2
<1>6. RunIsWhole' /\ ExitTellsTheRun'
  <2>1. cmd.op = "judge" => saved = <<results>>
    BY <1>1 DEF JudgeInv, RunIsWhole
  <2>2. QED BY <1>1, <1>2, <1>5, <2>1 DEF RunIsWhole, ExitTellsTheRun, Unanswered
<1>7. QED BY <1>3, <1>4, <1>6 DEF JudgeInv

LEMMA JudgeInvInit ==
  ASSUME JudgeInit
  PROVE  JudgeInv
<1>1. cmd \in Invocation /\ cells = cmd.cells /\ results = <<>> /\ got = <<>> /\ saved = <<>>
      /\ pc = "check" /\ exit = Running
  BY DEF JudgeInit
<1>2. cmd.cells \in Seq(Given) /\ Len(cmd.cells) \in Nat
  <2>1. cmd.cells \in Seq(Given)
    BY <1>1, InvocationAssumption DEF Given
  <2>2. QED BY <2>1
<1>3. JudgeShape
  BY <1>1, <1>2 DEF JudgeShape, Shown, Running
<1>4. Aligned
  BY <1>1, <1>2 DEF Aligned
<1>5. AskedSoFar
  BY <1>1 DEF AskedSoFar
<1>6. AllEarned
  BY <1>1 DEF AllEarned
<1>7. RunIsWhole /\ ExitTellsTheRun
  BY <1>1 DEF RunIsWhole, ExitTellsTheRun, Running
<1>8. QED BY <1>3, <1>4, <1>5, <1>6, <1>7 DEF JudgeInv

LEMMA JudgeInvStep ==
  ASSUME JudgeInv, [JudgeNext]_judgeVars
  PROVE  JudgeInv'
<1>1. ASSUME NEW cleared \in BOOLEAN, Check(cleared) PROVE JudgeInv'
  BY <1>1, CheckKeeps
<1>2. ASSUME NEW response \in Response(cmd), Answered(response) PROVE JudgeInv'
  BY <1>2, AnsweredKeeps
<1>3. CASE BadCredentials
  <2>1. pc = "ask" /\ Exit(2) /\ UNCHANGED <<cmd, cells, got, results, saved>>
    BY <1>3 DEF BadCredentials, asking
  <2>2. QED BY <2>1, StopKeeps
<1>4. CASE Interrupt
  <2>1. pc # "exited" /\ Exit(130) /\ UNCHANGED <<cmd, cells, got, results, saved>>
    BY <1>4 DEF Interrupt, asking
  <2>2. QED BY <2>1, StopKeeps
<1>5. CASE UNCHANGED judgeVars
  <2>1. /\ cmd' = cmd /\ cells' = cells /\ results' = results /\ got' = got
        /\ saved' = saved /\ pc' = pc /\ exit' = exit
    BY <1>5 DEF judgeVars
  <2>2. JudgeShape' /\ Aligned'
    BY <2>1 DEF JudgeInv, JudgeShape, Aligned
  <2>3. AskedSoFar'
    BY <2>1 DEF JudgeInv, AskedSoFar
  <2>4. AllEarned'
    BY <2>1 DEF JudgeInv, AllEarned, Earned
  <2>5. RunIsWhole' /\ ExitTellsTheRun'
    BY <2>1 DEF JudgeInv, RunIsWhole, ExitTellsTheRun, Unanswered
  <2>6. QED BY <2>2, <2>3, <2>4, <2>5 DEF JudgeInv
<1>6. QED
  BY <1>1, <1>2, <1>3, <1>4, <1>5, OpenCellKeeps, DecideStepKeeps, FinishKeeps, ReportKeeps,
     FailureKeeps
  DEF JudgeNext, Command, Jev

LEMMA JudgeInvIsEnough == JudgeInv => PassIsEarned
<1> SUFFICES ASSUME JudgeInv PROVE PassIsEarned
  OBVIOUS
<1>1. /\ results \in Seq(Entries) /\ DOMAIN results = 1 .. Len(results)
      /\ \A i \in 1 .. Len(results) : results[i] \in Entries
  BY ElementOfSeq DEF JudgeInv, JudgeShape
<1>2. CellsAreEarned
  <2>1. ASSUME cmd.op \in Asks, NEW i \in DOMAIN results,
               results[i].verdict \in PassingVerdict
        PROVE  /\ results[i].got # <<>>
               /\ \A k \in DOMAIN results[i].got :
                    Decide(results[i].got[k], cmd.cells[i].kind, Threshold)
                      \in PassingVerdict
               /\ exit = 0 /\ cmd.confirm
                    /\ NearThreshold(results[i].got[1], cmd.cells[i].kind, Threshold) =>
                  Len(results[i].got) = 2
    <3>1. DOMAIN results[i].got = 1 .. Len(results[i].got)
      BY <1>1 DEF Entries
    <3>2. Earned(results[i], cmd.cells[i].kind, cmd.cells[i].lintErrors)
      BY <1>1 DEF JudgeInv, AllEarned
    <3>3. exit = 0 => ~results[i].unconfirmed
      BY DEF JudgeInv, ExitTellsTheRun, Unanswered
    <3>4. QED BY <2>1, <3>1, <3>2, <3>3 DEF Earned
  <2>2. QED BY <2>1 DEF CellsAreEarned
<1>3. CandidatesAreEarned
  BY <1>1 DEF JudgeInv, AllEarned, Earned, CandidatesAreEarned
<1>4. QED BY <1>2, <1>3 DEF JudgeInv, PassIsEarned

\* What judge, check-fixtures and rubric report as passed or testable, by their cells,
\* their run file and their exit code, Jev said so: in every answer the cell rests on,
\* confirmed where it was near the threshold (judge_with_policy, rubric_confirmation_outcome).
THEOREM PassesAreEarned == JudgeSpec => []PassIsEarned
<1>1. JudgeInit => JudgeInv
  BY JudgeInvInit
<1>2. JudgeInv /\ [JudgeNext]_judgeVars => JudgeInv'
  BY JudgeInvStep
<1>3. JudgeInv => PassIsEarned
  BY JudgeInvIsEnough
<1>4. QED BY <1>1, <1>2, <1>3, PTL DEF JudgeSpec

-----------------------------------------------------------------------------
(***************************************************************************)
(* What is sent to Jev, and how often. A text starts within the cap: the   *)
(* item of the plan gate by fit_plan_item, any other by fit_request. Until *)
(* the next cell a request follows a failure, of which there are fewer     *)
(* than MaxAttempts, or a halving; and between the floor and the cap there *)
(* is room for as many halvings as there are powers of two times the       *)
(* floor, since each passes one of them.                                   *)
(*                                                                         *)
(* Fitted, Doubled and the sum of the code blocks are recursive functions. *)
(* That they exist, and what they return, is proved by induction on a set  *)
(* of numbers, which is the least-number principle of the library.         *)
(***************************************************************************)


LEMMA Least ==
  ASSUME NEW T \in SUBSET Nat, T # {}
  PROVE  \E x \in T : \A y \in T : x <= y
<1> DEFINE R == {ss \in Nat \X Nat : ss[1] < ss[2]}
<1>1. IsWellFoundedOn(R, Nat)
  BY NatLessThanWellFounded DEF OpToRel
<1>2. PICK x \in T : \A y \in T : ~(<<y, x>> \in R)
  BY <1>1, WFMin
<1>3. ASSUME NEW y \in T PROVE x <= y
  <2>1. ~(<<y, x>> \in R) /\ x \in Nat /\ y \in Nat
    BY <1>2
  <2>2. ~(y < x)
    BY <2>1
  <2>3. QED BY <2>1, <2>2
<1>4. QED BY <1>3

\* Induction over the numbers in a set, which the library states for an operator.
LEMMA InductionOn ==
  ASSUME NEW P, 0 \in P, \A n \in Nat : n \in P => n + 1 \in P
  PROVE  \A n \in Nat : n \in P
<1> SUFFICES ASSUME Nat \ P # {} PROVE FALSE
  OBVIOUS
<1>1. PICK x \in Nat \ P : \A y \in Nat \ P : x <= y
  BY Least
<1>2. x # 0 /\ x - 1 \in Nat
  BY <1>1
<1>3. x - 1 \in P
  BY <1>1, <1>2
<1>4. x \in P
  BY <1>2, <1>3
<1>5. QED BY <1>1, <1>4

LEMMA MaxOfTwo ==
  ASSUME NEW a \in Int, NEW b \in Int
  PROVE  Max({a, b}) = IF a >= b THEN a ELSE b
<1>1. \A x \in {a, b} : (\A y \in {a, b} : x >= y) => x = IF a >= b THEN a ELSE b
  OBVIOUS
<1>2. \E x \in {a, b} : \A y \in {a, b} : x >= y
  OBVIOUS
<1>3. QED BY <1>1, <1>2 DEF Max

LEMMA MinIsIn ==
  ASSUME NEW S \in SUBSET Nat, S # {}
  PROVE  Min(S) \in S
<1>1. \E x \in S : \A y \in S : x <= y
  BY Least
<1>2. QED BY <1>1 DEF Min

-----------------------------------------------------------------------------
(* Fitting a request                                                       *)

\* One halving, as Fitted makes it.
HalfStep(h, cap, floor) == IF h <= Max({cap, floor}) THEN h ELSE Halved(h, floor)
Halves(size, cap, floor) ==
  LET halves[n \in 0 .. size] ==
        IF n = 0 THEN size
        ELSE IF halves[n - 1] <= Max({cap, floor}) THEN halves[n - 1]
        ELSE Halved(halves[n - 1], floor)
  IN  halves
HalvesTo(f, n, size, cap, floor) ==
  f = [k \in 0 .. n |-> IF k = 0 THEN size ELSE HalfStep(f[k - 1], cap, floor)]

LEMMA HalvesExist ==
  ASSUME NEW size \in Nat, NEW cap, NEW floor
  PROVE  HalvesTo(Halves(size, cap, floor), size, size, cap, floor)
<1> DEFINE P == {n \in Nat : \E f : HalvesTo(f, n, size, cap, floor)}
<1>1. 0 \in P
  <2> DEFINE f == [k \in 0 .. 0 |-> size]
  <2>1. HalvesTo(f, 0, size, cap, floor)
    BY DEF HalvesTo
  <2>2. QED BY <2>1
<1>2. ASSUME NEW n \in Nat, n \in P PROVE n + 1 \in P
  <2>1. PICK f : HalvesTo(f, n, size, cap, floor)
    BY <1>2
  <2> DEFINE g == [k \in 0 .. n + 1 |-> IF k <= n THEN f[k] ELSE HalfStep(f[n], cap, floor)]
  <2>2. ASSUME NEW k \in 0 .. n + 1
        PROVE  g[k] = IF k = 0 THEN size ELSE HalfStep(g[k - 1], cap, floor)
    <3>1. CASE k = 0
      BY <2>1, <3>1 DEF HalvesTo
    <3>2. CASE k \in 1 .. n
      <4>1. k - 1 \in 0 .. n + 1 /\ k - 1 <= n /\ k <= n /\ k # 0 /\ k \in 0 .. n
        BY <3>2
      <4>2. g[k] = f[k] /\ g[k - 1] = f[k - 1]
        BY <4>1
      <4>3. f[k] = HalfStep(f[k - 1], cap, floor)
        BY <2>1, <4>1 DEF HalvesTo
      <4>4. QED BY <4>1, <4>2, <4>3
    <3>3. CASE k = n + 1
      <4>1. k - 1 = n /\ n \in 0 .. n + 1 /\ k # 0 /\ ~(k <= n)
        BY <3>3
      <4>2. g[k] = HalfStep(f[n], cap, floor) /\ g[n] = f[n]
        BY <4>1
      <4>3. QED BY <4>1, <4>2
    <3>4. QED BY <3>1, <3>2, <3>3
  <2>3. HalvesTo(g, n + 1, size, cap, floor)
    <3>1. g = [k \in 0 .. n + 1 |-> IF k = 0 THEN size ELSE HalfStep(g[k - 1], cap, floor)]
      BY <2>2
    <3> HIDE DEF g
    <3>2. QED BY <3>1 DEF HalvesTo
  <2>4. QED BY <2>3
<1>3. \A n \in Nat : n \in P
  <2> HIDE DEF P
  <2>1. QED BY <1>1, <1>2, InductionOn
<1>4. PICK f : HalvesTo(f, size, size, cap, floor)
  BY <1>3
<1>5. QED BY <1>4 DEF Halves, HalvesTo, HalfStep

\* fit_request: within the cap, and as it is when it was within it.
LEMMA FittedFits ==
  ASSUME NEW size \in Nat, NEW cap \in Nat, NEW floor \in Nat
  PROVE  /\ Fitted(size, cap, floor) \in Nat
         /\ Fitted(size, cap, floor) <= cap
         /\ size <= cap => Fitted(size, cap, floor) = size
<1> DEFINE f == Halves(size, cap, floor)
<1>1. f = [k \in 0 .. size |-> IF k = 0 THEN size ELSE HalfStep(f[k - 1], cap, floor)]
  BY HalvesExist DEF HalvesTo
<1>2. Fitted(size, cap, floor) = IF f[size] <= cap THEN f[size] ELSE 0
  BY DEF Fitted, Halves
<1> HIDE DEF f
<1>3. \A h \in Nat : HalfStep(h, cap, floor) \in Nat /\ (h <= cap => HalfStep(h, cap, floor) = h)
  BY MaxOfTwo DEF HalfStep, Halved
<1> DEFINE P == {n \in Nat : n <= size => f[n] \in Nat /\ (size <= cap => f[n] = size)}
<1>4. 0 \in P
  BY <1>1
<1>5. ASSUME NEW n \in Nat, n \in P PROVE n + 1 \in P
  <2> SUFFICES ASSUME n + 1 <= size
               PROVE  f[n + 1] \in Nat /\ (size <= cap => f[n + 1] = size)
    OBVIOUS
  <2>1. f[n] \in Nat /\ (size <= cap => f[n] = size)
    BY <1>5
  <2>2. f[n + 1] = HalfStep(f[n], cap, floor)
    <3>1. n + 1 \in 0 .. size /\ n + 1 # 0 /\ (n + 1) - 1 = n
      OBVIOUS
    <3>2. f[n + 1] = IF n + 1 = 0 THEN size ELSE HalfStep(f[(n + 1) - 1], cap, floor)
      BY <1>1, <3>1
    <3>3. QED BY <3>1, <3>2
  <2>3. QED BY <1>3, <2>1, <2>2
<1>6. \A n \in Nat : n \in P
  <2> HIDE DEF P
  <2>1. QED BY <1>4, <1>5, InductionOn
<1>7. f[size] \in Nat /\ (size <= cap => f[size] = size)
  BY <1>6
<1>8. QED BY <1>2, <1>7

-----------------------------------------------------------------------------
(* How often a request can be halved                                       *)

\* Doubled up to n.
DoubledTo(f, n) == f = [k \in 0 .. n |-> IF k = 0 THEN Floor ELSE 2 * f[k - 1]]

LEMMA DoubledExists ==
  DoubledTo(Doubled, Cap)
<1> DEFINE P == {n \in Nat : \E f : DoubledTo(f, n)}
<1>1. 0 \in P
  <2>1. DoubledTo([k \in 0 .. 0 |-> Floor], 0)
    BY DEF DoubledTo
  <2>2. QED BY <2>1
<1>2. ASSUME NEW n \in Nat, n \in P PROVE n + 1 \in P
  <2>1. PICK f : DoubledTo(f, n)
    BY <1>2
  <2> DEFINE g == [k \in 0 .. n + 1 |-> IF k <= n THEN f[k] ELSE 2 * f[n]]
  <2>2. ASSUME NEW k \in 0 .. n + 1
        PROVE  g[k] = IF k = 0 THEN Floor ELSE 2 * g[k - 1]
    <3>1. CASE k = 0
      BY <2>1, <3>1 DEF DoubledTo
    <3>2. CASE k \in 1 .. n
      <4>1. k - 1 \in 0 .. n + 1 /\ k - 1 <= n /\ k <= n /\ k # 0 /\ k \in 0 .. n
        BY <3>2
      <4>2. g[k] = f[k] /\ g[k - 1] = f[k - 1]
        BY <4>1
      <4>3. f[k] = 2 * f[k - 1]
        BY <2>1, <4>1 DEF DoubledTo
      <4>4. QED BY <4>1, <4>2, <4>3
    <3>3. CASE k = n + 1
      <4>1. k - 1 = n /\ n \in 0 .. n + 1 /\ k # 0 /\ ~(k <= n)
        BY <3>3
      <4>2. g[k] = 2 * f[n] /\ g[n] = f[n]
        BY <4>1
      <4>3. QED BY <4>1, <4>2
    <3>4. QED BY <3>1, <3>2, <3>3
  <2>3. DoubledTo(g, n + 1)
    <3>1. g = [k \in 0 .. n + 1 |-> IF k = 0 THEN Floor ELSE 2 * g[k - 1]]
      BY <2>2
    <3> HIDE DEF g
    <3>2. QED BY <3>1 DEF DoubledTo
  <2>4. QED BY <2>3
<1>3. \A n \in Nat : n \in P
  <2> HIDE DEF P
  <2>1. QED BY <1>1, <1>2, InductionOn
<1>4. Cap \in Nat
  BY JudgeAssumption
<1>5. PICK f : DoubledTo(f, Cap)
  BY <1>3, <1>4
<1>6. QED BY <1>5 DEF Doubled, DoubledTo

LEMMA DoubledGrows ==
  ASSUME NEW k \in 0 .. Cap
  PROVE  /\ Doubled[0] = Floor
         /\ Doubled[k] \in Nat /\ Doubled[k] > k
         /\ k # 0 => Doubled[k] = 2 * Doubled[k - 1]
<1> DEFINE d == Doubled
<1>1. d = [i \in 0 .. Cap |-> IF i = 0 THEN Floor ELSE 2 * d[i - 1]]
  BY DoubledExists DEF DoubledTo
<1> HIDE DEF d
<1>2. Cap \in Nat \ {0} /\ Floor \in Nat \ {0}
  BY JudgeAssumption
<1>3. d[0] = Floor
  BY <1>1, <1>2
<1>4. \A i \in 0 .. Cap : i # 0 => d[i] = 2 * d[i - 1]
  BY <1>1
<1> DEFINE P == {n \in Nat : n <= Cap => d[n] \in Nat /\ d[n] > n}
<1>5. 0 \in P
  BY <1>2, <1>3
<1>6. ASSUME NEW n \in Nat, n \in P PROVE n + 1 \in P
  <2> SUFFICES ASSUME n + 1 <= Cap PROVE d[n + 1] \in Nat /\ d[n + 1] > n + 1
    OBVIOUS
  <2>1. d[n] \in Nat /\ d[n] > n
    BY <1>2, <1>6
  <2>2. n + 1 \in 0 .. Cap /\ n + 1 # 0 /\ (n + 1) - 1 = n
    BY <1>2
  <2>3. d[n + 1] = 2 * d[n]
    BY <1>4, <2>2
  <2>4. QED BY <2>1, <2>3
<1>7. \A n \in Nat : n \in P
  <2> HIDE DEF P
  <2>1. QED BY <1>5, <1>6, InductionOn
<1>8. d[k] \in Nat /\ d[k] > k
  BY <1>2, <1>7
<1>9. QED BY <1>3, <1>4, <1>8 DEF d

\* The halvings it took from the cap down to a size, at most.
Spent(size) == {k \in 0 .. Cap - 1 : size <= Doubled[k] /\ Doubled[k] < Cap}
Total == {k \in 0 .. Cap - 1 : Doubled[k] < Cap}

LEMMA SpentIsFinite ==
  ASSUME NEW size
  PROVE  /\ Cardinality(Spent(size)) \in Nat /\ Cardinality(Total) \in Nat
         /\ Cardinality(Spent(size)) <= Cardinality(Total)
         /\ CallLimit = MaxAttempts + Cardinality(Total)
<1>1. IsFiniteSet(0 .. Cap - 1)
  BY FS_Interval, JudgeAssumption
<1>2. IsFiniteSet(Total)
  BY <1>1, FS_Subset DEF Total
<1>3. Spent(size) \subseteq Total
  BY DEF Spent, Total
<1>4. IsFiniteSet(Spent(size)) /\ Cardinality(Spent(size)) <= Cardinality(Total)
  BY <1>2, <1>3, FS_Subset
<1>5. CallLimit = MaxAttempts + Cardinality(Total)
  BY DEF CallLimit, Total
<1>6. QED BY <1>2, <1>4, <1>5, FS_CardinalityType

\* halve_item: above the floor there is one more of them.
LEMMA HalvingSpends ==
  ASSUME NEW size \in Nat, Floor < size, size <= Cap
  PROVE  /\ Halved(size, Floor) \in Nat /\ Halved(size, Floor) <= Cap
         /\ Cardinality(Spent(size)) + 1 <= Cardinality(Spent(Halved(size, Floor)))
<1> DEFINE half == Halved(size, Floor)
<1>1. Cap \in Nat \ {0} /\ Floor \in Nat \ {0}
  BY JudgeAssumption
<1>2. size \div 2 \in Nat /\ 2 * (size \div 2) <= size
  OBVIOUS
<1>3. half = IF size \div 2 >= Floor THEN size \div 2 ELSE Floor
  BY <1>1, <1>2, MaxOfTwo DEF Halved
<1> HIDE DEF half
<1>4. half \in Nat /\ half < size /\ half <= Cap /\ Floor <= half
  BY <1>1, <1>2, <1>3
<1> DEFINE T == {k \in 0 .. Cap : half <= Doubled[k]}
<1>5. Cap \in T /\ T \in SUBSET Nat
  <2>1. Cap \in 0 .. Cap
    BY <1>1
  <2>2. Doubled[Cap] \in Nat /\ Doubled[Cap] > Cap
    BY <2>1, DoubledGrows
  <2>3. half <= Doubled[Cap]
    BY <1>1, <1>4, <2>2
  <2>4. QED BY <2>1, <2>3
<1>6. PICK m \in T : \A k \in T : m <= k
  BY <1>5, Least
<1>7. /\ m \in 0 .. Cap /\ half <= Doubled[m]
      /\ Doubled[0] = Floor
      /\ Doubled[m] \in Nat /\ Doubled[m] > m
      /\ m # 0 => Doubled[m] = 2 * Doubled[m - 1]
  BY <1>6, DoubledGrows
<1>8. Doubled[m] < size
  <2>1. CASE m = 0
    BY <1>7, <2>1
  <2>2. CASE m # 0
    <3>1. m \in 1 .. Cap /\ m - 1 \in 0 .. Cap /\ m - 1 < m
      <4>1. m \in 0 .. Cap /\ Cap \in Nat
        BY <1>1, <1>7
      <4>2. QED BY <4>1, <2>2
    <3>2. m - 1 \notin T
      BY <1>6, <1>7, <3>1
    <3>3. Doubled[m - 1] \in Nat
      BY <3>1, DoubledGrows
    <3>4. ~(half <= Doubled[m - 1])
      BY <3>1, <3>2
    <3>5. 0 \in 0 .. Cap /\ m # 0 /\ 0 < m
      BY <1>1, <3>1
    <3>6. ~(half <= Floor)
      <4>1. 0 \notin T
        BY <1>6, <1>7, <3>5
      <4>2. QED BY <1>7, <3>5, <4>1
    <3>7. half = size \div 2
      BY <1>1, <1>2, <1>3, <3>6
    <3>8. QED BY <1>2, <1>4, <1>7, <2>2, <3>3, <3>4, <3>7
  <2>3. QED BY <2>1, <2>2
<1>9. m \in Spent(half) /\ m \notin Spent(size)
  <2>1. m \in 0 .. Cap - 1 /\ Doubled[m] < Cap /\ ~(size <= Doubled[m])
    BY <1>1, <1>7, <1>8
  <2>2. QED BY <1>7, <2>1 DEF Spent
<1>10. Spent(size) \subseteq Spent(half)
  <2>1. ASSUME NEW k \in Spent(size) PROVE k \in Spent(half)
    <3>1. k \in 0 .. Cap - 1 /\ size <= Doubled[k] /\ Doubled[k] < Cap
      BY DEF Spent
    <3>2. k \in 0 .. Cap
      BY <1>1, <3>1
    <3>3. Doubled[k] \in Nat
      BY <3>2, DoubledGrows
    <3>4. half <= Doubled[k]
      BY <1>4, <3>1, <3>3
    <3>5. QED BY <3>1, <3>4 DEF Spent
  <2>2. QED BY <2>1
<1>11. IsFiniteSet(Spent(half)) /\ IsFiniteSet(Spent(size))
  <2>1. IsFiniteSet(0 .. Cap - 1)
    BY <1>1, FS_Interval
  <2>2. QED BY <2>1, FS_Subset DEF Spent
<1>12. Cardinality(Spent(size) \cup {m}) = Cardinality(Spent(size)) + 1
  BY <1>9, <1>11, FS_AddElement
<1>13. Cardinality(Spent(size) \cup {m}) <= Cardinality(Spent(half))
  <2>1. Spent(size) \cup {m} \subseteq Spent(half)
    BY <1>9, <1>10
  <2>2. QED BY <1>11, <2>1, FS_Subset
<1>14. QED BY <1>4, <1>12, <1>13 DEF half

-----------------------------------------------------------------------------
(* The size of an item of the plan gate                                    *)

\* The sum over a set of places, an element at a time, as the library's fold makes it.
SumStep(fun, g, s) ==
  IF s = {} THEN 0 ELSE LET x == CHOOSE y \in s : TRUE IN fun[x] + g[s \ {x}]
Sums(fun) ==
  LET iter[s \in SUBSET DOMAIN fun] ==
        IF s = {} THEN 0
        ELSE LET x == CHOOSE y \in s : TRUE
             IN  fun[x] + iter[s \ {x}]
  IN  iter

\* What remains of a finite set without an element of it.
LEMMA OneLess ==
  ASSUME NEW s, IsFiniteSet(s), NEW n \in Nat, Cardinality(s) <= n + 1, s # {}
  PROVE  LET x == CHOOSE y \in s : TRUE
         IN  x \in s /\ IsFiniteSet(s \ {x}) /\ Cardinality(s \ {x}) <= n
<1> DEFINE x == CHOOSE y \in s : TRUE
<1>1. x \in s
  OBVIOUS
<1> HIDE DEF x
<1>2. IsFiniteSet(s \ {x}) /\ Cardinality(s \ {x}) = Cardinality(s) - 1
  BY <1>1, FS_RemoveElement
<1>3. Cardinality(s) \in Nat
  BY FS_CardinalityType
<1>4. QED BY <1>1, <1>2, <1>3 DEF x

\* The sums up to a number of places.
SumsTo(fun, g, n) ==
  \A s \in SUBSET DOMAIN fun : Cardinality(s) <= n => g[s] = SumStep(fun, g, s)

LEMMA SumsExist ==
  ASSUME NEW fun, IsFiniteSet(DOMAIN fun)
  PROVE  Sums(fun) = [s \in SUBSET DOMAIN fun |-> SumStep(fun, Sums(fun), s)]
<1> DEFINE D == DOMAIN fun
<1>1. \A s \in SUBSET D : IsFiniteSet(s) /\ Cardinality(s) \in Nat
                          /\ Cardinality(s) <= Cardinality(D)
  BY FS_Subset, FS_CardinalityType
<1> DEFINE P == {n \in Nat : \E g : SumsTo(fun, g, n)}
<1>2. 0 \in P
  <2> DEFINE g == [s \in SUBSET D |-> 0]
  <2>1. ASSUME NEW s \in SUBSET D, Cardinality(s) <= 0 PROVE g[s] = SumStep(fun, g, s)
    <3>1. s = {}
      BY <1>1, <2>1, FS_EmptySet
    <3>2. QED BY <3>1 DEF SumStep
  <2>2. SumsTo(fun, g, 0)
    BY <2>1 DEF SumsTo
  <2>3. QED BY <2>2
<1>3. ASSUME NEW n \in Nat, n \in P PROVE n + 1 \in P
  <2>1. PICK f : SumsTo(fun, f, n)
    BY <1>3
  <2> DEFINE g == [s \in SUBSET D |-> IF Cardinality(s) <= n THEN f[s] ELSE SumStep(fun, f, s)]
  <2>2. \A s \in SUBSET D : g[s] = SumStep(fun, f, s)
    BY <2>1 DEF SumsTo
  <2>3. \A s \in SUBSET D : Cardinality(s) <= n => g[s] = f[s]
    OBVIOUS
  <2> HIDE DEF g
  <2>4. ASSUME NEW s \in SUBSET D, Cardinality(s) <= n + 1 PROVE g[s] = SumStep(fun, g, s)
    <3>1. CASE s = {}
      BY <2>2, <3>1 DEF SumStep
    <3>2. CASE s # {}
      <4> DEFINE x == CHOOSE y \in s : TRUE
      <4>1. x \in s /\ Cardinality(s \ {x}) <= n
        BY <1>1, <2>4, <3>2, OneLess
      <4>2. g[s \ {x}] = f[s \ {x}]
        BY <2>3, <4>1
      <4>3. SumStep(fun, f, s) = fun[x] + f[s \ {x}] /\ SumStep(fun, g, s) = fun[x] + g[s \ {x}]
        BY <3>2 DEF SumStep
      <4>4. QED BY <2>2, <4>2, <4>3
    <3>3. QED BY <3>1, <3>2
  <2>5. SumsTo(fun, g, n + 1)
    BY <2>4 DEF SumsTo
  <2>6. QED BY <2>5
<1>4. \A n \in Nat : n \in P
  <2> HIDE DEF P
  <2>1. QED BY <1>2, <1>3, InductionOn
<1>5. PICK g : SumsTo(fun, g, Cardinality(D))
  <2>1. Cardinality(D) \in Nat
    BY FS_CardinalityType
  <2>2. QED BY <1>4, <2>1
<1> DEFINE f == [s \in SUBSET D |-> g[s]]
<1>6. ASSUME NEW s \in SUBSET D PROVE f[s] = SumStep(fun, f, s)
  <2>1. g[s] = SumStep(fun, g, s)
    BY <1>1, <1>5 DEF SumsTo
  <2>2. SumStep(fun, g, s) = SumStep(fun, f, s)
    BY DEF SumStep
  <2>3. QED BY <2>1, <2>2
<1>7. f = [s \in SUBSET D |-> SumStep(fun, f, s)]
  BY <1>6
<1> HIDE DEF f
<1>8. QED BY <1>7 DEF Sums, SumStep

LEMMA SumIsNatural ==
  ASSUME NEW fun, IsFiniteSet(DOMAIN fun), \A i \in DOMAIN fun : fun[i] \in Nat
  PROVE  SumFunction(fun) \in Nat
<1> DEFINE D == DOMAIN fun
           f == Sums(fun)
<1>1. f = [s \in SUBSET D |-> SumStep(fun, f, s)]
  BY SumsExist
<1>2. SumFunction(fun) = f[D]
  BY DEF SumFunction, SumFunctionOnSet, FoldFunctionOnSet,
         MapThenFoldSet, Sums
<1> HIDE DEF f
<1>3. \A s \in SUBSET D : IsFiniteSet(s) /\ Cardinality(s) \in Nat
                          /\ Cardinality(s) <= Cardinality(D)
  BY FS_Subset, FS_CardinalityType
<1> DEFINE P == {n \in Nat : \A s \in SUBSET D : Cardinality(s) <= n => f[s] \in Nat}
<1>4. 0 \in P
  <2>1. ASSUME NEW s \in SUBSET D, Cardinality(s) <= 0 PROVE f[s] \in Nat
    <3>1. s = {}
      BY <1>3, <2>1, FS_EmptySet
    <3>2. QED BY <1>1, <3>1 DEF SumStep
  <2>2. QED BY <2>1
<1>5. ASSUME NEW n \in Nat, n \in P PROVE n + 1 \in P
  <2>1. ASSUME NEW s \in SUBSET D, Cardinality(s) <= n + 1 PROVE f[s] \in Nat
    <3>1. f[s] = SumStep(fun, f, s)
      BY <1>1
    <3>2. CASE s = {}
      BY <3>1, <3>2 DEF SumStep
    <3>3. CASE s # {}
      <4> DEFINE x == CHOOSE y \in s : TRUE
      <4>1. x \in s /\ Cardinality(s \ {x}) <= n
        BY <1>3, <2>1, <3>3, OneLess
      <4>2. f[s] = fun[x] + f[s \ {x}]
        BY <3>1, <3>3 DEF SumStep
      <4>3. f[s \ {x}] \in Nat
        BY <1>5, <4>1
      <4> HIDE DEF x
      <4>4. fun[x] \in Nat
        BY <4>1
      <4>5. QED BY <4>2, <4>3, <4>4
    <3>4. QED BY <3>2, <3>3
  <2>2. QED BY <2>1
<1>6. \A n \in Nat : n \in P
  <2> HIDE DEF P
  <2>1. QED BY <1>4, <1>5, InductionOn
<1>7. Cardinality(D) \in Nat /\ D \in SUBSET D
  BY FS_CardinalityType
<1>8. f[D] \in Nat
  <2>1. Cardinality(D) \in P
    BY <1>6, <1>7
  <2>2. QED BY <1>7, <2>1
<1>9. QED BY <1>2, <1>8

Item == [prose : Nat, code : Seq(Nat)]

\* A plan item that can be fitted is within the cap when it was.
LEMMA PlanItemFits ==
  ASSUME NEW item \in Item, NEW cap, NEW maxCode, PlanFits(item, cap, maxCode) # {}
  PROVE  /\ TextSize(FitPlanItem(item, cap, maxCode)) \in Nat
         /\ TextSize(FitPlanItem(item, cap, maxCode)) <= cap
<1> DEFINE k == Min(PlanFits(item, cap, maxCode))
           blocks == Longest(item, k, maxCode)
           fit == ReduceCode(item, blocks)
<1>1. PlanFits(item, cap, maxCode) \in SUBSET Nat
  <2>1. Len(item.code) \in Nat
    BY DEF Item
  <2>2. QED BY <2>1 DEF PlanFits
<1>2. k \in PlanFits(item, cap, maxCode)
  BY <1>1, MinIsIn
<1>3. FitPlanItem(item, cap, maxCode) = fit
  BY DEF FitPlanItem
<1>4. TextSize(fit) <= cap
  BY <1>2 DEF PlanFits
<1>5. TextSize(fit) \in Nat
  <2> HIDE DEF blocks
  <2> DEFINE code == [i \in DOMAIN item.code |-> IF i \in blocks THEN 1 ELSE item.code[i]]
  <2>1. fit.prose = item.prose /\ fit.code = code
    BY DEF ReduceCode, Item
  <2>2. item.prose \in Nat /\ item.code \in Seq(Nat)
    BY DEF Item
  <2>3. /\ IsFiniteSet(DOMAIN code)
        /\ \A i \in DOMAIN code : code[i] \in Nat
    <3>1. DOMAIN code = 1 .. Len(item.code) /\ Len(item.code) \in Nat
      BY <2>2
    <3>2. IsFiniteSet(DOMAIN code)
      BY <3>1, FS_Interval
    <3>3. \A i \in 1 .. Len(item.code) : item.code[i] \in Nat
      BY <2>2
    <3>4. QED BY <3>1, <3>2, <3>3
  <2> HIDE DEF code
  <2>4. SumFunction(code) \in Nat
    BY <2>3, SumIsNatural
  <2>5. TextSize(fit) = item.prose + SumFunction(code)
    BY <2>1 DEF TextSize
  <2>6. QED BY <2>2, <2>4, <2>5
<1> HIDE DEF fit
<1>6. QED BY <1>3, <1>4, <1>5

-----------------------------------------------------------------------------
(* What is sent, and how often                                             *)

Planning == cmd.op = "judge" /\ cmd.gate = "plan"

\* Texts have sizes; at the plan gate each fits as it is.
Sized ==
  /\ text.size \in Nat
  /\ \A i \in 1 .. Len(cells) : cells[i].size \in Nat
  /\ pc \in {"ask", "decide"} => text.size <= Cap
  /\ Planning =>
       /\ ~cut /\ ~text.cut
       /\ pc \notin {"check", "exited"} => \A i \in 1 .. Len(cells) : cells[i].size <= Cap

\* The requests of an ask: before the last one there were failures and halvings only.
Counted ==
  /\ failures \in 0 .. MaxAttempts - 1
  /\ calls \in Nat /\ calls <= CallLimit
  /\ pc \in {"check", "cell"} => calls = 0
  /\ pc = "ask" => calls <= failures + Cardinality(Spent(text.size))

RequestInv == Sized /\ Counted

\* A cell is over: everything starts from nothing.
LEMMA CloseStartsAnew ==
  ASSUME JudgeInv, RequestInv, NEW entry, Close(entry),
         cells # <<>>, pc \in {"cell", "ask", "decide"}, UNCHANGED cmd,
         (cut' = (cut \/ text.cut)) \/ UNCHANGED cut
  PROVE  RequestInv'
<1>1. /\ pc' = "cell" /\ text'.size = 0 /\ ~text'.cut /\ failures' = 0 /\ calls' = 0
      /\ cells' = Tail(cells)
  BY DEF Close, None
<1>2. /\ Len(cells) \in Nat \ {0} /\ Len(cells') = Len(cells) - 1
      /\ \A i \in 1 .. Len(cells) - 1 : cells'[i] = cells[i + 1]
  BY <1>1 DEF JudgeInv, JudgeShape
<1>3. \A i \in 1 .. Len(cells') : cells'[i] = cells[i + 1] /\ i + 1 \in 1 .. Len(cells)
  BY <1>2
<1>4. \A i \in 1 .. Len(cells') : cells'[i].size \in Nat
  BY <1>3 DEF RequestInv, Sized
<1>5. ASSUME Planning PROVE ~cut' /\ \A i \in 1 .. Len(cells') : cells'[i].size <= Cap
  <2>1. ~cut /\ ~text.cut /\ \A i \in 1 .. Len(cells) : cells[i].size <= Cap
    BY <1>5 DEF RequestInv, Sized
  <2>2. ~cut'
    BY <2>1
  <2>3. ASSUME NEW i \in 1 .. Len(cells') PROVE cells'[i].size <= Cap
    <3>1. cells'[i] = cells[i + 1] /\ i + 1 \in 1 .. Len(cells)
      BY <1>3
    <3>2. cells[i + 1].size <= Cap
      BY <2>1, <3>1
    <3>3. QED BY <3>1, <3>2
  <2>4. QED BY <2>2, <2>3
<1>6. Sized'
  BY <1>1, <1>4, <1>5 DEF Sized, Planning
<1>7. MaxAttempts \in Nat \ {0} /\ CallLimit \in Nat /\ CallLimit' = CallLimit
  BY SpentIsFinite, JudgeAssumption
<1>8. Counted'
  BY <1>1, <1>7 DEF Counted
<1>9. QED BY <1>6, <1>8 DEF RequestInv

LEMMA GiveUpStartsAnew ==
  ASSUME JudgeInv, RequestInv, pc = "ask", GiveUp,
         UNCHANGED cmd, cut' = (cut \/ text.cut)
  PROVE  RequestInv'
<1>1. cells # <<>>
  BY DEF JudgeInv, AskedSoFar
<1>2. QED BY <1>1, CloseStartsAnew DEF GiveUp

\* Nothing is sent any more: the command stops, or all cells are over.
LEMMA NothingSent ==
  ASSUME RequestInv, UNCHANGED <<cmd, cells, text, failures, calls>>,
         (cut' = (cut \/ text.cut)) \/ UNCHANGED cut,
         pc' = "exited" \/ (pc = "cell" /\ pc' = "finish") \/ UNCHANGED pc
  PROVE  RequestInv'
<1>1. Planning => ~cut' /\ ~text.cut
  BY DEF RequestInv, Sized
<1>2. pc' \in {"ask", "decide", "check", "cell"} => UNCHANGED pc
  OBVIOUS
<1>3. pc' \notin {"check", "exited"} => pc \notin {"check", "exited"}
  OBVIOUS
<1>4. Sized'
  <2>1. text'.size \in Nat /\ (pc' \in {"ask", "decide"} => text'.size <= Cap)
    BY <1>2 DEF RequestInv, Sized
  <2>2. \A i \in 1 .. Len(cells') : cells'[i].size \in Nat
    BY DEF RequestInv, Sized
  <2>3. Planning /\ pc' \notin {"check", "exited"} =>
          \A i \in 1 .. Len(cells') : cells'[i].size <= Cap
    BY <1>3 DEF RequestInv, Sized
  <2>4. QED BY <1>1, <2>1, <2>2, <2>3 DEF Sized, Planning
<1>5. Counted'
  BY <1>2 DEF RequestInv, Counted, Spent
<1>6. QED BY <1>4, <1>5 DEF RequestInv

LEMMA CheckSends ==
  ASSUME JudgeInv, RequestInv,
         NEW cleared \in BOOLEAN, Check(cleared)
  PROVE  RequestInv'
<1> DEFINE fits == PlanFits(cmd.item, Cap, MaxCode) # {}
           size == TextSize(FitPlanItem(cmd.item, Cap, MaxCode))
<1>1. /\ pc = "check" /\ cells = cmd.cells /\ cmd \in Invocation
      /\ UNCHANGED <<cmd, text, failures, calls, cut>>
  BY DEF Check, asking, JudgeInv, JudgeShape, Aligned
<1>2. \/ pc' = "exited" /\ UNCHANGED cells
      \/ /\ pc' = "cell" /\ Planning /\ fits
         /\ cells' = [i \in DOMAIN cells |-> [cells[i] EXCEPT !.size = size]]
      \/ pc' = "cell" /\ ~Planning /\ UNCHANGED cells
  BY DEF Check, Exit, Planning
<1>3. CASE pc' = "exited" /\ UNCHANGED cells
  BY <1>1, <1>3, NothingSent
<1>4. /\ cells \in Seq(Given) /\ Len(cells) \in Nat /\ DOMAIN cells = 1 .. Len(cells)
      /\ \A i \in 1 .. Len(cells) : cells[i] \in Given
  <2>1. cells \in Seq(Given)
    BY <1>1, CellsOfCommand DEF JudgeInv
  <2>2. QED BY <2>1, ElementOfSeq
<1>5. pc' = "cell" => Counted'
  BY <1>1 DEF RequestInv, Counted
<1>6. CASE /\ pc' = "cell" /\ Planning /\ fits
           /\ cells' = [i \in DOMAIN cells |-> [cells[i] EXCEPT !.size = size]]
  <2>1. size \in Nat /\ size <= Cap
    <3>1. cmd.item \in Item
      BY <1>1, <1>6, InvocationAssumption DEF Planning, Item
    <3>2. QED BY <1>6, <3>1, PlanItemFits
  <2> HIDE DEF size, fits
  <2>2. Len(cells') = Len(cells) /\ \A i \in 1 .. Len(cells) : cells'[i].size = size
    <3>1. ASSUME NEW i \in 1 .. Len(cells) PROVE cells'[i].size = size
      <4>1. cells'[i] = [cells[i] EXCEPT !.size = size]
        BY <1>4, <1>6
      <4>2. QED BY <1>4, <4>1 DEF Given
    <3>2. QED BY <1>4, <1>6, <3>1
  <2>3. Sized'
    BY <1>1, <1>6, <2>1, <2>2 DEF RequestInv, Sized, Planning
  <2>4. QED BY <1>5, <1>6, <2>3 DEF RequestInv
<1>7. CASE pc' = "cell" /\ ~Planning /\ UNCHANGED cells
  <2>1. Sized'
    BY <1>1, <1>7 DEF RequestInv, Sized, Planning
  <2>2. QED BY <1>5, <1>7, <2>1 DEF RequestInv
<1>8. QED BY <1>2, <1>3, <1>6, <1>7

LEMMA OpenCellSends ==
  ASSUME JudgeInv, RequestInv, OpenCell
  PROVE  RequestInv'
<1> DEFINE size == Fitted(cells[1].size, Cap, Floor)
<1>1. /\ pc = "cell" /\ cells # <<>> /\ UNCHANGED <<cmd, cut>> /\ Head(cells) = cells[1]
      /\ 1 \in 1 .. Len(cells)
  BY DEF OpenCell, JudgeInv, JudgeShape
<1>2. \/ \E verdict : Close(Entry(verdict))
      \/ /\ pc' = "ask" /\ text' = [size |-> size, cut |-> size # cells[1].size]
         /\ UNCHANGED <<cells, failures, calls>>
  BY <1>1 DEF OpenCell
<1>3. ASSUME NEW verdict, Close(Entry(verdict)) PROVE RequestInv'
  BY <1>1, <1>3, CloseStartsAnew
<1>4. CASE /\ pc' = "ask" /\ text' = [size |-> size, cut |-> size # cells[1].size]
           /\ UNCHANGED <<cells, failures, calls>>
  <2>1. cells[1].size \in Nat /\ (Planning => cells[1].size <= Cap /\ ~cut)
    BY <1>1 DEF RequestInv, Sized
  <2>2. /\ size \in Nat /\ size <= Cap /\ (cells[1].size <= Cap => size = cells[1].size)
    BY <2>1, FittedFits, JudgeAssumption
  <2> HIDE DEF size
  <2>3. text'.size = size /\ (Planning => ~text'.cut)
    BY <1>4, <2>1, <2>2
  <2>4. Sized'
    BY <1>1, <1>4, <2>1, <2>2, <2>3 DEF RequestInv, Sized, Planning
  <2>5. failures \in Nat /\ calls = 0 /\ Cardinality(Spent(text'.size)) \in Nat
    BY <1>1, SpentIsFinite, JudgeAssumption DEF RequestInv, Counted
  <2>6. calls' <= failures' + Cardinality(Spent(text'.size))
    BY <1>4, <2>5
  <2>7. Counted'
    BY <1>4, <2>6 DEF RequestInv, Counted, Spent
  <2>8. QED BY <2>4, <2>7 DEF RequestInv
<1>5. QED BY <1>2, <1>3, <1>4

\* Within the limit, the count of the requests goes up by one.
LEMMA CountsOneMore ==
  ASSUME NEW c \in Nat, NEW limit \in Nat, c + 1 <= limit
  PROVE  (c + 1) % (limit + 2) = c + 1
<1>1. c + 1 < limit + 2 /\ c + 1 \in Nat
  OBVIOUS
<1>2. ASSUME NEW a \in Nat, NEW n \in Nat, a < n PROVE a % n = a
  BY <1>2
<1>3. QED BY <1>1, <1>2

\* One more request of an ask is within the limit.
LEMMA OneMoreRequest ==
  ASSUME RequestInv, pc = "ask", SentAgain
  PROVE  /\ calls' = calls + 1 /\ calls' \in Nat /\ calls' <= CallLimit
         /\ calls' <= failures + Cardinality(Spent(text.size)) + 1
<1> DEFINE s == Cardinality(Spent(text.size))
           t == Cardinality(Total)
<1>1. /\ s \in Nat /\ t \in Nat /\ s <= t /\ CallLimit = MaxAttempts + t
      /\ MaxAttempts \in Nat \ {0}
  BY SpentIsFinite, JudgeAssumption
<1>2. failures \in 0 .. MaxAttempts - 1 /\ calls \in Nat /\ calls <= failures + s
  BY DEF RequestInv, Counted
<1> HIDE DEF s, t
<1>3. CallLimit \in Nat /\ calls + 1 <= CallLimit
  BY <1>1, <1>2
<1>4. calls' = calls + 1
  BY <1>2, <1>3, CountsOneMore DEF SentAgain
<1>5. calls' \in Nat /\ calls' <= CallLimit /\ calls' <= failures + s + 1
  BY <1>1, <1>2, <1>3, <1>4
<1>6. QED BY <1>4, <1>5 DEF s

LEMMA AnsweredSends ==
  ASSUME RequestInv, NEW response, Answered(response)
  PROVE  RequestInv'
<1>1. /\ pc = "ask" /\ pc' = "decide" /\ failures' = 0 /\ SentAgain
      /\ cut' = (cut \/ text.cut) /\ UNCHANGED <<cmd, cells, text>>
  BY DEF Answered
<1>2. Sized'
  BY <1>1 DEF RequestInv, Sized, Planning
<1>3. MaxAttempts \in Nat \ {0} /\ CallLimit' = CallLimit
  BY JudgeAssumption
<1>4. Counted'
  BY <1>1, <1>3, OneMoreRequest DEF Counted
<1>5. QED BY <1>2, <1>4 DEF RequestInv

LEMMA FailureSends ==
  ASSUME JudgeInv, RequestInv, TransientFailure
  PROVE  RequestInv'
<1>1. pc = "ask" /\ cut' = (cut \/ text.cut) /\ UNCHANGED cmd
  BY DEF TransientFailure
<1>2. CASE GiveUp
  BY <1>1, <1>2, GiveUpStartsAnew
<1>3. CASE MayRetry /\ failures' = failures + 1 /\ SentAgain
           /\ UNCHANGED <<pc, cells, text>>
  <2>1. Sized'
    BY <1>1, <1>3 DEF RequestInv, Sized, Planning
  <2>2. /\ failures \in 0 .. MaxAttempts - 1 /\ failures < MaxAttempts - 1
        /\ MaxAttempts \in Nat \ {0}
    BY <1>3, JudgeAssumption DEF RequestInv, Counted, MayRetry
  <2>3. failures' \in 0 .. MaxAttempts - 1
    BY <1>3, <2>2
  <2>4. Cardinality(Spent(text.size)) \in Nat /\ Spent(text'.size) = Spent(text.size)
    BY <1>3, SpentIsFinite
  <2>5. /\ calls' \in Nat /\ calls' <= CallLimit
        /\ calls' <= failures + Cardinality(Spent(text.size)) + 1
    BY <1>1, <1>3, OneMoreRequest
  <2>6. calls' <= failures' + Cardinality(Spent(text'.size))
    <3> DEFINE s == Cardinality(Spent(text.size))
    <3>1. s \in Nat /\ calls' <= failures + s + 1
      BY <2>4, <2>5
    <3> HIDE DEF s
    <3>2. calls' <= failures' + s
      BY <1>3, <2>2, <2>5, <3>1
    <3>3. QED BY <2>4, <3>2 DEF s
  <2>7. Counted'
    BY <1>1, <1>3, <2>3, <2>5, <2>6 DEF Counted, Spent
  <2>8. QED BY <2>1, <2>7 DEF RequestInv
<1>4. QED BY <1>2, <1>3 DEF TransientFailure

LEMMA TooLongSends ==
  ASSUME JudgeInv, RequestInv, TooLong
  PROVE  RequestInv'
<1>1. pc = "ask" /\ cut' = (cut \/ text.cut) /\ UNCHANGED cmd
  BY DEF TooLong
<1>2. CASE GiveUp
  BY <1>1, <1>2, GiveUpStartsAnew
<1>3. CASE /\ MayShorten /\ SentAgain /\ UNCHANGED <<pc, cells, failures>>
           /\ text' = [size |-> Halved(text.size, Floor), cut |-> TRUE]
  <2> DEFINE half == Halved(text.size, Floor)
  <2>1. ~Planning /\ Floor < text.size /\ text.size \in Nat /\ text.size <= Cap
    <3>1. cmd.gate = "dev" /\ text.size > Floor
      BY <1>3 DEF MayShorten
    <3>2. ~Planning
      BY <3>1 DEF Planning
    <3>3. text.size \in Nat /\ text.size <= Cap
      BY <1>1 DEF RequestInv, Sized
    <3>4. Floor < text.size
      BY <3>1, <3>3, JudgeAssumption
    <3>5. QED BY <3>2, <3>3, <3>4
  <2>2. /\ half \in Nat /\ half <= Cap
        /\ Cardinality(Spent(text.size)) + 1 <= Cardinality(Spent(half))
    BY <2>1, HalvingSpends
  <2>3. text'.size = half
    BY <1>3
  <2> HIDE DEF half
  <2>4. Sized'
    BY <1>1, <1>3, <2>1, <2>2, <2>3 DEF RequestInv, Sized, Planning
  <2>5. /\ calls' \in Nat /\ calls' <= CallLimit
        /\ calls' <= failures + Cardinality(Spent(text.size)) + 1
    BY <1>1, <1>3, OneMoreRequest
  <2>6. calls' <= failures' + Cardinality(Spent(text'.size))
    <3> DEFINE s == Cardinality(Spent(text.size))
               h == Cardinality(Spent(half))
    <3>1. /\ s \in Nat /\ h \in Nat /\ s + 1 <= h
      BY <2>2, SpentIsFinite
    <3>2. calls' <= failures + s + 1 /\ failures \in Nat
      BY <2>5, JudgeAssumption DEF RequestInv, Counted
    <3> HIDE DEF s, h
    <3>3. calls' <= failures' + h
      BY <1>3, <2>5, <3>1, <3>2
    <3>4. QED BY <2>3, <3>3 DEF h
  <2>7. Counted'
    BY <1>1, <1>3, <2>5, <2>6 DEF RequestInv, Counted, Spent
  <2>8. QED BY <2>4, <2>7 DEF RequestInv
<1>4. QED BY <1>2, <1>3 DEF TooLong

LEMMA AskAgainSends ==
  ASSUME RequestInv, pc = "decide", AskAgain, UNCHANGED <<cmd, cut>>
  PROVE  RequestInv'
<1>1. pc' = "ask" /\ failures' = 0 /\ calls' = 0 /\ UNCHANGED <<cells, text>>
  BY DEF AskAgain
<1>2. Sized'
  BY <1>1 DEF RequestInv, Sized, Planning
<1>3. /\ MaxAttempts \in Nat \ {0} /\ CallLimit \in Nat
      /\ Cardinality(Spent(text'.size)) \in Nat /\ CallLimit' = CallLimit
  BY SpentIsFinite, JudgeAssumption
<1>4. Counted'
  BY <1>1, <1>3 DEF Counted, Spent
<1>5. QED BY <1>2, <1>4 DEF RequestInv

LEMMA DecideStepSends ==
  ASSUME JudgeInv, RequestInv,
         DecideStep
  PROVE  RequestInv'
<1>1. pc = "decide" /\ UNCHANGED <<cmd, cut>> /\ cells # <<>>
      /\ cmd.op \in {"judge", "fixtures", "rubric", "dedupe"}
  BY CellsOfCommand DEF DecideStep, JudgeInv, AskedSoFar
<1>2. \/ DecideCell(Head(cells).kind)
      \/ DecideRubric(Head(cells).lintErrors)
      \/ DecidePair
  BY <1>1 DEF DecideStep, Asks
<1>3. AskAgain \/ \E entry : Close(entry)
  BY <1>2 DEF DecideCell, DecideRubric, DecidePair
<1>4. QED BY <1>1, <1>3, AskAgainSends, CloseStartsAnew

LEMMA RequestInvInit ==
  ASSUME JudgeInit
  PROVE  RequestInv
<1>1. /\ cmd \in Invocation /\ cells = cmd.cells /\ pc = "check" /\ failures = 0 /\ calls = 0
      /\ text.size = 0 /\ ~text.cut /\ ~cut
  BY DEF JudgeInit, None
<1>2. \A i \in 1 .. Len(cells) : cells[i] \in Given
  <2>1. cells \in Seq(Given)
    BY <1>1, InvocationAssumption DEF Given
  <2>2. QED BY <2>1, ElementOfSeq
<1>3. Sized
  BY <1>1, <1>2 DEF Sized, Given
<1>4. CallLimit \in Nat /\ 0 <= CallLimit /\ 0 \in 0 .. MaxAttempts - 1
  BY SpentIsFinite, JudgeAssumption
<1>5. Counted
  BY <1>1, <1>4 DEF Counted
<1>6. QED BY <1>3, <1>5 DEF RequestInv

LEMMA RequestInvStep ==
  ASSUME JudgeInv, RequestInv,
         [JudgeNext]_judgeVars
  PROVE  RequestInv'
<1>1. ASSUME NEW cleared \in BOOLEAN, Check(cleared) PROVE RequestInv'
  BY <1>1, CheckSends
<1>2. ASSUME NEW response \in Response(cmd), Answered(response) PROVE RequestInv'
  BY <1>2, AnsweredSends
<1>3. CASE Refused
  BY <1>3, GiveUpStartsAnew DEF Refused
<1>4. CASE BadCredentials
  BY <1>4, NothingSent DEF BadCredentials, Exit, asking
<1>5. CASE Finish
  BY <1>5, NothingSent DEF Finish, asking
<1>6. CASE Report
  BY <1>6, NothingSent DEF Report, Exit, asking
<1>7. CASE Interrupt
  BY <1>7, NothingSent DEF Interrupt, Exit, asking
<1>8. CASE UNCHANGED judgeVars
  BY <1>8, NothingSent DEF judgeVars
<1>9. QED
  BY <1>1, <1>2, <1>3, <1>4, <1>5, <1>6, <1>7, <1>8, OpenCellSends, DecideStepSends,
     FailureSends, TooLongSends
  DEF JudgeNext, Command, Jev

\* An item of the plan gate is never sent shortened, however Jev answers (fit_plan_item,
\* judge_with_policy), and an ask makes no more requests than its attempts and the halvings
\* that its item has room for (call_jev, halve_item).
THEOREM RequestsSound == JudgeSpec => []RequestsAreSound
<1>1. JudgeInit => JudgeInv /\ RequestInv
  BY JudgeInvInit, RequestInvInit
<1>2. (JudgeInv /\ RequestInv) /\ [JudgeNext]_judgeVars => (JudgeInv /\ RequestInv)'
  BY JudgeInvStep, RequestInvStep
<1>3. JudgeInv /\ RequestInv => RequestsAreSound
  BY DEF RequestInv, Sized, Counted, Planning, RequestsAreSound, PlanIsWhole,
     CallsAreBounded
<1>4. QED BY <1>1, <1>2, <1>3, PTL DEF JudgeSpec

-----------------------------------------------------------------------------
(***************************************************************************)
(* A release, for any crates, manifests, number of runs, commits and       *)
(* faults.                                                                 *)
(*                                                                         *)
(* OneSource holds because whatever is under way or out carries the commit *)
(* of the tag. PublishedIsOneBuild holds because a run that has the draft  *)
(* for itself finds in it the files it put there. OrderIsSeen holds        *)
(* because a job at a crate has passed all that come before it in the      *)
(* order, and what is visible stays so.                                    *)
(***************************************************************************)

Job == Run \cup {Retry}

\* What the jobs and the registries are made of. The number of a build is left open.
AnyBuild == [id : {0} \cup {Min(S) : S \in SUBSET Build}, from : Nat]
GateJob == {NoGate} \cup [pc : {"tag"}, from : Nat, preserved : BOOLEAN]
CrateJob == [pc : {"idle", "lookup", "publish", "verify"}, from : Nat, next : Int]
AssetJob == [pc : {"idle", "probe", "upload"}, build : AnyBuild, left : SUBSET File]
Draft == [state : {"absent", "draft", "immutable"}, files : [File -> AnyBuild]]

ReleaseShape ==
  /\ main \in Nat /\ tag \in Nat
  /\ registry \in [Crate -> [state : {"absent", "uploaded", "visible"}, from : Nat]]
  /\ github \in Draft
  /\ gate \in [Run -> GateJob]
  /\ crates \in [Job -> CrateJob]
  /\ assets \in [Run -> AssetJob]

\* Before the tag nothing runs behind the gate, and nothing is out.
NothingBeforeTag ==
  /\ \A r \in Run : gate[r].pc = "tag" => Descends(gate[r].from)
  /\ tag = 0 => /\ \A j \in Job : crates[j].pc = "idle"
                /\ \A r \in Run : assets[r].pc = "idle"
                /\ \A c \in Crate : registry[c].state = "absent"
                /\ \A f \in File : github.files[f].from = 0
                /\ github.state = "absent"

\* As long as main has not moved, everything is of its tip.
OfOneCommit ==
  ~stirred =>
    /\ \A r \in Run : gate[r].pc = "tag" => gate[r].from = main
    /\ tag # 0 => tag = main
    /\ \A j \in Job : crates[j].pc # "idle" => crates[j].from = tag
    /\ \A r \in Run : assets[r].pc # "idle" => assets[r].build.from = tag
    /\ \A c \in Crate : registry[c].state # "absent" => registry[c].from = tag
    /\ \A f \in File : github.files[f].from \in {0, tag}

\* As long as no two runs wrote to the draft at a time, a run finds in it what it put there.
DraftIsOwn ==
  ~mixed /\ github.state # "immutable" =>
    \A r \in Run : assets[r].pc = "upload" =>
      \A f \in File \ assets[r].left : github.files[f] = assets[r].build

ReleaseInv ==
  ReleaseShape /\ NothingBeforeTag /\ OfOneCommit /\ DraftIsOwn /\ PublishedIsOneBuild

-----------------------------------------------------------------------------
(* One build, one source                                                   *)

LEMMA GateKeeps ==
  ASSUME ReleaseInv, NEW r \in Run, NEW preserved \in BOOLEAN,
         Gate(r, preserved)
  PROVE  ReleaseInv'
<1>1. ReleaseShape'
  <2>1. [pc |-> "tag", from |-> main, preserved |-> preserved] \in GateJob
    BY DEF ReleaseInv, ReleaseShape, GateJob
  <2>2. QED BY <2>1 DEF ReleaseInv, ReleaseShape, Gate, observed
<1>2. NothingBeforeTag'
  BY ReleaseAssumption
  DEF ReleaseInv, ReleaseShape, NothingBeforeTag, Descends, Job, observed, Gate
<1>3. OfOneCommit'
  BY ReleaseAssumption
  DEF ReleaseInv, ReleaseShape, NothingBeforeTag, Descends, OfOneCommit, Job, observed, Gate
<1>4. DraftIsOwn'
  BY DEF ReleaseInv, ReleaseShape, DraftIsOwn, Job, observed, Gate
<1>5. PublishedIsOneBuild'
  BY DEF ReleaseInv, ReleaseShape, DraftIsOwn, PublishedIsOneBuild,
         SerialDraftIsOneBuild, NpmIsReleased, File, observed, Gate
<1>6. QED BY <1>1, <1>2, <1>3, <1>4, <1>5 DEF ReleaseInv

LEMMA TagKeeps ==
  ASSUME ReleaseInv, NEW r \in Run, Tag(r)
  PROVE  ReleaseInv'
<1> DEFINE from == gate[r].from
           job == [pc |-> "lookup", from |-> from, next |-> 1]
           work == [pc |-> "probe", left |-> {}, build |-> NewBuild(from)]
<1>1. /\ from \in Nat /\ Descends(from) /\ from # 0
      /\ tag' \in Nat /\ tag' # 0
      /\ tag # 0 => tag' = tag
      /\ tag = 0 => tag' = from
      /\ ~stirred => from = main
  <2>1. gate[r].pc = "tag" /\ gate[r] \in GateJob
    BY DEF Tag, ReleaseInv, ReleaseShape
  <2>2. from \in Nat /\ Descends(from)
    BY <2>1 DEF GateJob, NoGate, ReleaseInv, NothingBeforeTag
  <2>3. QED BY <2>1, <2>2, ReleaseAssumption
  DEF ReleaseInv, ReleaseShape, OfOneCommit, Descends, Tag, NewTag
<1>2. /\ gate' = [gate EXCEPT ![r] = NoGate]
      /\ crates' = crates \/ crates' = [crates EXCEPT ![r] = job]
      /\ assets' = [assets EXCEPT ![r] = work]
      /\ UNCHANGED <<main, manifest, registry, github, npm, faults, observed>>
  BY DEF Tag
<1>3. job \in CrateJob /\ job.from = from
  BY <1>1 DEF CrateJob
<1>4. work \in AssetJob /\ work.pc = "probe" /\ work.build.from = from
  <2>1. NewBuild(from) \in AnyBuild /\ NewBuild(from).from = from
    <3> DEFINE n == Min(Build \ ({b.id : b \in {github.files[f] : f \in File} \cup {npm}
                                          \cup {assets[q].build : q \in Run}}))
    <3>1. NewBuild(from) = [id |-> n, from |-> from]
      BY DEF NewBuild
    <3>2. n \in {Min(S) : S \in SUBSET Build}
      OBVIOUS
    <3> HIDE DEF n
    <3>3. QED BY <1>1, <3>1, <3>2 DEF AnyBuild
  <2>2. QED BY <2>1 DEF AssetJob
<1> HIDE DEF from, job, work
<1>5. gate' \in [Run -> GateJob] /\ gate'[r] = NoGate /\ \A q \in Run \ {r} : gate'[q] = gate[q]
  BY <1>2 DEF ReleaseInv, ReleaseShape, GateJob
<1>6. /\ assets' \in [Run -> AssetJob]
      /\ assets'[r] = work /\ \A q \in Run \ {r} : assets'[q] = assets[q]
  BY <1>2, <1>4 DEF ReleaseInv, ReleaseShape
<1>7. crates' \in [Job -> CrateJob] /\ \A j \in Job : crates'[j] = crates[j] \/ crates'[j] = job
  BY <1>2, <1>3 DEF ReleaseInv, ReleaseShape
<1>9. ReleaseShape'
  BY <1>1, <1>2, <1>5, <1>6, <1>7 DEF ReleaseInv, ReleaseShape
<1>10. NothingBeforeTag'
  <2>1. \A q \in Run : gate'[q].pc = "tag" => Descends(gate'[q].from)
    BY <1>5 DEF ReleaseInv, NothingBeforeTag, NoGate
  <2>2. QED BY <1>1, <2>1 DEF NothingBeforeTag, Descends
<1>11. OfOneCommit'
  <2>1. ASSUME ~stirred PROVE tag' = main /\ from = main /\ (tag # 0 => tag = main)
    BY <1>1, <2>1 DEF ReleaseInv, OfOneCommit
  <2>2. ASSUME ~stirred, NEW j \in Job, crates'[j].pc # "idle" PROVE crates'[j].from = main
    BY <1>1, <1>3, <1>7, <2>1, <2>2 DEF ReleaseInv, NothingBeforeTag, OfOneCommit
  <2>3. ASSUME ~stirred, NEW q \in Run, assets'[q].pc # "idle" PROVE assets'[q].build.from = main
    BY <1>1, <1>4, <1>6, <2>1, <2>3 DEF ReleaseInv, NothingBeforeTag, OfOneCommit
  <2>4. ASSUME ~stirred, NEW c \in Crate, registry[c].state # "absent" PROVE registry[c].from = main
    BY <2>1, <2>4 DEF ReleaseInv, NothingBeforeTag, OfOneCommit
  <2>5. ASSUME ~stirred, NEW f \in File PROVE github.files[f].from \in {0, main}
    BY <2>1, <2>5 DEF ReleaseInv, NothingBeforeTag, OfOneCommit
  <2>6. \A q \in Run : ~stirred /\ gate'[q].pc = "tag" => gate'[q].from = main
    BY <1>5 DEF ReleaseInv, OfOneCommit, NoGate
  <2>7. QED BY <1>2, <2>1, <2>2, <2>3, <2>4, <2>5, <2>6 DEF OfOneCommit, observed
<1>12. DraftIsOwn'
  BY <1>2, <1>4, <1>6 DEF ReleaseInv, DraftIsOwn, observed
<1>13. PublishedIsOneBuild'
  BY <1>2
  DEF ReleaseInv, PublishedIsOneBuild, SerialDraftIsOneBuild, NpmIsReleased,
      observed
<1>14. QED BY <1>9, <1>10, <1>11, <1>12, <1>13 DEF ReleaseInv

LEMMA RetryKeeps ==
  ASSUME ReleaseInv, RetryCrates
  PROVE  ReleaseInv'
<1>1. ReleaseShape'
  <2>1. [pc |-> "lookup", from |-> tag, next |-> 1] \in CrateJob
    BY DEF ReleaseInv, ReleaseShape, CrateJob
  <2>2. QED BY <2>1 DEF ReleaseInv, ReleaseShape, RetryCrates, Job, observed
<1>2. NothingBeforeTag'
  BY ReleaseAssumption
  DEF ReleaseInv, ReleaseShape, NothingBeforeTag, Descends, Job, observed, RetryCrates
<1>3. OfOneCommit'
  BY ReleaseAssumption
  DEF ReleaseInv, ReleaseShape, NothingBeforeTag, Descends, OfOneCommit, Job, observed,
      RetryCrates
<1>4. DraftIsOwn'
  BY DEF ReleaseInv, ReleaseShape, DraftIsOwn, Job, observed, RetryCrates
<1>5. PublishedIsOneBuild'
  BY DEF ReleaseInv, ReleaseShape, DraftIsOwn, PublishedIsOneBuild,
         SerialDraftIsOneBuild, NpmIsReleased, File, observed, RetryCrates
<1>6. QED BY <1>1, <1>2, <1>3, <1>4, <1>5 DEF ReleaseInv

\* A job that publishes crates goes on, from the commit it has, or ends.
GoesOn(j) ==
  /\ crates' \in [Job -> CrateJob]
  /\ \A i \in Job \ {j} : crates'[i] = crates[i]
  /\ crates'[j].pc = "idle" \/ crates'[j].from = crates[j].from

LEMMA JobMoves ==
  ASSUME ReleaseInv, NEW j \in Job, crates[j].pc # "idle",
         NEW at \in {"lookup", "publish", "verify"},
         Proceed(j) \/ Continue(j, at) \/ StopCrates(j)
  PROVE  GoesOn(j)
<1>1. crates \in [Job -> CrateJob]
  BY DEF ReleaseInv, ReleaseShape, CrateJob
<1>2. NoCrates \in CrateJob /\ NoCrates.pc = "idle"
  BY DEF NoCrates, CrateJob
<1>3. CASE crates' = [crates EXCEPT ![j] = NoCrates]
  BY <1>1, <1>2, <1>3 DEF GoesOn
<1>4. CASE Continue(j, at)
  BY <1>1, <1>4 DEF GoesOn, CrateJob, Continue
<1>5. CASE crates' = [crates EXCEPT ![j].pc = "lookup", ![j].next = @ + 1]
  <2>1. crates' = [crates EXCEPT ![j] = [pc |-> "lookup", from |-> crates[j].from,
                                         next |-> crates[j].next + 1]]
    BY <1>1, <1>5 DEF CrateJob
  <2>2. [pc |-> "lookup", from |-> crates[j].from, next |-> crates[j].next + 1] \in CrateJob
    BY <1>1 DEF CrateJob
  <2>3. QED BY <1>1, <2>1, <2>2 DEF GoesOn
<1>6. QED BY <1>3, <1>4, <1>5 DEF Proceed, StopCrates

\* What a crate job does to the rest: nothing, or one crate goes out from its commit.
LEMMA CratesKeep ==
  ASSUME ReleaseInv, NEW j \in Job, crates[j].pc # "idle", GoesOn(j),
         UNCHANGED <<main, tag, manifest, github, npm, gate, assets, mixed, stirred>>,
         \/ UNCHANGED registry
         \/ \E c \in Crate :
              registry' = [registry EXCEPT ![c] = [state |-> "uploaded", from |-> crates[j].from]]
  PROVE  ReleaseInv'
<1>1. /\ registry' \in [Crate -> [state : {"absent", "uploaded", "visible"}, from : Nat]]
      /\ \A c \in Crate : registry'[c] = registry[c] \/ registry'[c].from = crates[j].from
  <2>1. crates[j].from \in Nat
    BY DEF ReleaseInv, ReleaseShape, CrateJob
  <2>2. QED BY <2>1 DEF ReleaseInv, ReleaseShape
<1>2. ReleaseShape'
  BY <1>1 DEF ReleaseInv, ReleaseShape, GoesOn, CrateJob
<1>3. tag # 0
  BY DEF ReleaseInv, NothingBeforeTag
<1>4. NothingBeforeTag'
  BY <1>3 DEF ReleaseInv, NothingBeforeTag, Descends
<1>5. OfOneCommit'
  <2>1. ASSUME ~stirred, NEW i \in Job, crates'[i].pc # "idle" PROVE crates'[i].from = tag
    BY <2>1 DEF ReleaseInv, OfOneCommit, GoesOn
  <2>2. ASSUME ~stirred, NEW c \in Crate, registry'[c].state # "absent" PROVE registry'[c].from = tag
    BY <1>1, <2>2 DEF ReleaseInv, OfOneCommit
  <2>3. QED BY <2>1, <2>2 DEF ReleaseInv, OfOneCommit
<1>6. DraftIsOwn' /\ PublishedIsOneBuild'
  BY DEF ReleaseInv, DraftIsOwn, PublishedIsOneBuild, SerialDraftIsOneBuild,
         NpmIsReleased
<1>7. QED BY <1>2, <1>4, <1>5, <1>6 DEF ReleaseInv

LEMMA LookUpKeeps ==
  ASSUME ReleaseInv, NEW j \in Job, LookUp(j)
  PROVE  ReleaseInv'
<1>1. GoesOn(j) /\ crates[j].pc # "idle"
  BY JobMoves DEF LookUp
<1>2. UNCHANGED <<main, tag, manifest, registry, github, npm, gate, assets, mixed, stirred>>
  BY DEF LookUp, observed
<1>3. QED BY <1>1, <1>2, CratesKeep

LEMMA RefusedKeeps ==
  ASSUME ReleaseInv, NEW j \in Job, CargoRefused(j)
  PROVE  ReleaseInv'
<1>1. GoesOn(j) /\ crates[j].pc # "idle"
  BY JobMoves DEF CargoRefused
<1>2. UNCHANGED <<main, tag, manifest, registry, github, npm, gate, assets, mixed, stirred>>
  BY DEF CargoRefused, observed
<1>3. QED BY <1>1, <1>2, CratesKeep

LEMMA CargoKeeps ==
  ASSUME ReleaseInv, NEW j \in Job, CargoPublish(j)
  PROVE  ReleaseInv'
<1>1. GoesOn(j) /\ crates[j].pc # "idle"
  <2>1. crates[j].pc = "publish" /\ (Continue(j, "verify") \/ StopCrates(j))
    BY DEF CargoPublish
  <2>2. QED BY <2>1, JobMoves
<1>2. UNCHANGED <<main, tag, manifest, github, npm, gate, assets, mixed, stirred>>
  BY DEF CargoPublish, observed
<1>3. \/ UNCHANGED registry
      \/ \E c \in Crate :
           registry' = [registry EXCEPT ![c] = [state |-> "uploaded", from |-> crates[j].from]]
  <2> DEFINE c == Current(j)
             entry == [state |-> "uploaded", from |-> crates[j].from]
  <2>1. UNCHANGED registry \/ registry' = [registry EXCEPT ![c] = entry]
    BY DEF CargoPublish
  <2> HIDE DEF c, entry
  <2>2. c \notin Crate => [registry EXCEPT ![c] = entry] = registry
    BY DEF ReleaseInv, ReleaseShape
  <2>3. QED BY <2>1, <2>2 DEF entry
<1>4. QED BY <1>1, <1>2, <1>3, CratesKeep

LEMMA VerifyKeeps ==
  ASSUME ReleaseInv, NEW j \in Job, VerifyVisible(j)
  PROVE  ReleaseInv'
<1>1. GoesOn(j) /\ crates[j].pc # "idle"
  BY JobMoves DEF VerifyVisible
<1>2. UNCHANGED <<main, tag, manifest, registry, github, npm, gate, assets, mixed, stirred>>
  BY DEF VerifyVisible, observed
<1>3. QED BY <1>1, <1>2, CratesKeep

LEMMA CatchUpKeeps ==
  ASSUME ReleaseInv, NEW c \in Crate, CatchUp(c)
  PROVE  ReleaseInv'
<1>1. ReleaseShape'
  BY ReleaseAssumption DEF ReleaseInv, ReleaseShape, Job, observed, CatchUp
<1>2. NothingBeforeTag'
  BY ReleaseAssumption
  DEF ReleaseInv, ReleaseShape, NothingBeforeTag, Descends, Job, observed, CatchUp
<1>3. OfOneCommit'
  BY ReleaseAssumption
  DEF ReleaseInv, ReleaseShape, NothingBeforeTag, Descends, OfOneCommit, Job, observed, CatchUp
<1>4. DraftIsOwn'
  BY DEF ReleaseInv, ReleaseShape, DraftIsOwn, Job, observed, CatchUp
<1>5. PublishedIsOneBuild'
  BY DEF ReleaseInv, ReleaseShape, DraftIsOwn, PublishedIsOneBuild,
         SerialDraftIsOneBuild, NpmIsReleased, File, observed, CatchUp
<1>6. QED BY <1>1, <1>2, <1>3, <1>4, <1>5 DEF ReleaseInv

\* The job of the GitHub release goes on, with the build it has, or ends.
Works(r) ==
  /\ assets' \in [Run -> AssetJob]
  /\ \A q \in Run \ {r} : assets'[q] = assets[q]
  /\ assets'[r].pc # "idle" => assets'[r].build = assets[r].build

Opens(r) == assets' = [assets EXCEPT ![r].pc = "upload", ![r].left = File]
Takes(r, f) == assets' = [assets EXCEPT ![r].left = @ \ {f}]

LEMMA AssetsMove ==
  ASSUME ReleaseShape, NEW r \in Run
  PROVE  /\ StopAssets(r) => Works(r) /\ assets'[r].pc = "idle"
         /\ Opens(r) => Works(r) /\ assets'[r].left = File
         /\ \A f \in File : Takes(r, f) =>
              Works(r) /\ assets'[r].left = assets[r].left \ {f}
<1>1. assets \in [Run -> AssetJob]
  BY DEF ReleaseShape
<1>2. ASSUME StopAssets(r) PROVE Works(r) /\ assets'[r].pc = "idle"
  <2>1. NoAssets \in AssetJob /\ NoAssets.pc = "idle"
    <3>1. NoBuild \in AnyBuild
      BY DEF NoBuild, AnyBuild
    <3>2. QED BY <3>1 DEF NoAssets, AssetJob
  <2>2. QED BY <1>1, <1>2, <2>1 DEF StopAssets, Works
<1>3. ASSUME Opens(r) PROVE Works(r) /\ assets'[r].left = File
  <2> DEFINE w == [pc |-> "upload", build |-> assets[r].build, left |-> File]
  <2>1. assets[r] \in AssetJob
    BY <1>1
  <2>2. w \in AssetJob /\ w.build = assets[r].build /\ w.left = File
    BY <2>1 DEF AssetJob
  <2>3. [[assets[r] EXCEPT !.pc = "upload"] EXCEPT !.left = File] = w
    <3> DEFINE v == [pc |-> "upload", build |-> assets[r].build, left |-> assets[r].left]
    <3>1. [assets[r] EXCEPT !.pc = "upload"] = v
      BY <2>1 DEF AssetJob
    <3>2. [v EXCEPT !.left = File] = w
      OBVIOUS
    <3>3. QED BY <3>1, <3>2
  <2> HIDE DEF w
  <2>4. assets' = [assets EXCEPT ![r] = w]
    BY <1>1, <1>3, <2>3 DEF Opens
  <2>5. QED BY <1>1, <2>2, <2>4 DEF Works
<1>4. ASSUME NEW f \in File, Takes(r, f)
      PROVE  Works(r) /\ assets'[r].left = assets[r].left \ {f}
  <2> DEFINE w == [assets[r] EXCEPT !.left = @ \ {f}]
  <2>1. assets[r] \in AssetJob
    BY <1>1
  <2>2. w \in AssetJob /\ w.build = assets[r].build /\ w.left = assets[r].left \ {f}
    BY <2>1 DEF AssetJob
  <2>3. assets' = [assets EXCEPT ![r] = w]
    BY <1>4 DEF Takes
  <2> HIDE DEF w
  <2>4. QED BY <1>1, <2>2, <2>3 DEF Works
<1>5. QED BY <1>2, <1>3, <1>4

LEMMA AssetsKeep ==
  ASSUME ReleaseInv, NEW r \in Run, assets[r].pc # "idle", Works(r),
         UNCHANGED <<main, tag, manifest, registry, npm, gate, crates, stirred>>,
         github' \in Draft,
         \A f \in File : github'.files[f] \in {github.files[f], assets[r].build}
  PROVE  ReleaseShape' /\ NothingBeforeTag' /\ OfOneCommit'
<1>1. ReleaseShape'
  BY DEF ReleaseInv, ReleaseShape, Works
<1>2. tag # 0
  BY DEF ReleaseInv, NothingBeforeTag
<1>3. NothingBeforeTag'
  BY <1>2 DEF ReleaseInv, NothingBeforeTag, Descends
<1>4. OfOneCommit'
  <2>1. ASSUME ~stirred, NEW q \in Run, assets'[q].pc # "idle" PROVE assets'[q].build.from = tag
    BY <2>1 DEF ReleaseInv, OfOneCommit, Works
  <2>2. ASSUME ~stirred, NEW f \in File PROVE github'.files[f].from \in {0, tag}
    BY <2>2 DEF ReleaseInv, OfOneCommit
  <2>3. QED BY <2>1, <2>2 DEF ReleaseInv, OfOneCommit
<1>5. QED BY <1>1, <1>3, <1>4

LEMMA ProbeKeeps ==
  ASSUME ReleaseInv, NEW r \in Run, Probe(r)
  PROVE  ReleaseInv'
<1>1. /\ assets[r].pc = "probe"
      /\ StopAssets(r) \/ Opens(r)
      /\ UNCHANGED <<main, tag, manifest, registry, github, npm, gate, crates, mixed, stirred>>
  BY DEF Probe, FilesToUpload, Opens, observed
<1>2. Works(r) /\ (assets'[r].pc = "idle" \/ assets'[r].left = File)
  BY <1>1, AssetsMove DEF ReleaseInv
<1>3. ReleaseShape' /\ NothingBeforeTag' /\ OfOneCommit'
  <2>1. github' \in Draft
    BY <1>1 DEF ReleaseInv, ReleaseShape
  <2>2. QED BY <1>1, <1>2, <2>1, AssetsKeep
<1>4. DraftIsOwn'
  <2>1. \A q \in Run : assets'[q].pc = "upload" /\ q # r =>
          assets[q].pc = "upload" /\ assets'[q] = assets[q]
    BY <1>2 DEF Works
  <2>2. QED BY <1>1, <1>2, <2>1 DEF ReleaseInv, DraftIsOwn
<1>5. PublishedIsOneBuild'
  BY <1>1 DEF ReleaseInv, PublishedIsOneBuild, SerialDraftIsOneBuild, NpmIsReleased
<1>6. QED BY <1>3, <1>4, <1>5 DEF ReleaseInv

LEMMA UploadKeeps ==
  ASSUME ReleaseInv, NEW r \in Run, NEW f \in File, Upload(r, f)
  PROVE  ReleaseInv'
<1>1. /\ assets[r].pc = "upload"
      /\ UNCHANGED <<main, tag, manifest, registry, npm, gate, crates, stirred>>
      /\ \/ github.state = "immutable" /\ StopAssets(r) /\ UNCHANGED <<github, mixed>>
         \/ /\ github.state # "immutable"
            /\ github' = [state |-> "draft",
                          files |-> [github.files EXCEPT ![f] = assets[r].build]]
            /\ Takes(r, f)
            /\ mixed' = (mixed \/ \E s \in Run \ {r} : assets[s].pc = "upload")
  BY DEF Upload, Takes
<1>2. Works(r)
  BY <1>1, AssetsMove DEF ReleaseInv
<1>3. /\ github' \in Draft
      /\ \A g \in File : github'.files[g] \in {github.files[g], assets[r].build}
      /\ UNCHANGED github \/ /\ github.state # "immutable" /\ github'.state = "draft"
                             /\ github'.files[f] = assets[r].build
                             /\ \A g \in File \ {f} : github'.files[g] = github.files[g]
  <2>1. github \in Draft /\ assets[r].build \in AnyBuild
    BY DEF ReleaseInv, ReleaseShape, AssetJob
  <2>2. QED BY <1>1, <2>1 DEF Draft
<1>4. ReleaseShape' /\ NothingBeforeTag' /\ OfOneCommit'
  BY <1>1, <1>2, <1>3, AssetsKeep
<1>5. DraftIsOwn'
  <2>1. CASE github.state = "immutable"
    BY <1>1, <2>1 DEF DraftIsOwn
  <2>2. CASE github.state # "immutable"
    <3>1. assets'[r].left = assets[r].left \ {f} /\ \A q \in Run \ {r} : assets'[q] = assets[q]
      BY <1>1, <2>2, AssetsMove DEF ReleaseInv, Works
    <3>2. SUFFICES ASSUME ~mixed'
                   PROVE  \A q \in Run : assets'[q].pc = "upload" =>
                            \A g \in File \ assets'[q].left : github'.files[g] = assets'[q].build
      BY DEF DraftIsOwn
    <3>3. ~mixed /\ \A q \in Run \ {r} : assets[q].pc # "upload"
      BY <1>1, <2>2, <3>2
    <3>4. \A g \in File \ assets[r].left : github.files[g] = assets[r].build
      BY <1>1, <2>2, <3>3 DEF ReleaseInv, DraftIsOwn
    <3>5. ASSUME NEW g \in File \ assets'[r].left PROVE github'.files[g] = assets[r].build
      <4>1. github'.files[f] = assets[r].build
            /\ \A h \in File \ {f} : github'.files[h] = github.files[h]
        BY <1>1, <2>2 DEF ReleaseInv, ReleaseShape, Draft
      <4>2. CASE g = f BY <4>1, <4>2
      <4>3. CASE g # f BY <3>1, <3>4, <4>1, <4>3
      <4>4. QED BY <4>2, <4>3
    <3>6. QED BY <1>2, <3>1, <3>3, <3>5 DEF Works
  <2>3. QED BY <2>1, <2>2
<1>6. PublishedIsOneBuild'
  BY <1>1, <1>3
  DEF ReleaseInv, PublishedIsOneBuild, SerialDraftIsOneBuild, NpmIsReleased
<1>7. QED BY <1>4, <1>5, <1>6 DEF ReleaseInv

LEMMA FinalizeKeeps ==
  ASSUME ReleaseInv, NEW r \in Run, Finalize(r)
  PROVE  ReleaseInv'
<1>1. /\ assets[r].pc = "upload" /\ assets[r].left = {}
      /\ github' = [github EXCEPT !.state = "immutable"]
      /\ StopAssets(r)
      /\ UNCHANGED <<main, tag, manifest, registry, npm, gate, crates, mixed, stirred>>
  BY DEF Finalize, observed
<1>2. Works(r)
  BY <1>1, AssetsMove DEF ReleaseInv
<1>3. /\ github' \in Draft
      /\ github'.state = "immutable" /\ \A g \in File : github'.files[g] = github.files[g]
  BY <1>1 DEF ReleaseInv, ReleaseShape, Draft
<1>4. ReleaseShape' /\ NothingBeforeTag' /\ OfOneCommit'
  BY <1>1, <1>2, <1>3, AssetsKeep
<1>5. DraftIsOwn'
  BY <1>3 DEF DraftIsOwn
<1>6. PublishedIsOneBuild'
  <2>1. "npm" \in File /\ "sums" \in File
    BY DEF File
  <2>2. ~mixed => github.files["npm"] = github.files["sums"]
    BY <1>1, <2>1 DEF ReleaseInv, DraftIsOwn, PublishedIsOneBuild, SerialDraftIsOneBuild
  <2>3. QED
    BY <1>1, <1>3, <2>1, <2>2
    DEF ReleaseInv, PublishedIsOneBuild, SerialDraftIsOneBuild, NpmIsReleased
<1>7. QED BY <1>4, <1>5, <1>6 DEF ReleaseInv

LEMMA NpmKeeps ==
  ASSUME ReleaseInv, NpmPublish
  PROVE  ReleaseInv'
<1>1. ReleaseShape'
  BY ReleaseAssumption
  DEF ReleaseInv, ReleaseShape, Job, observed, NpmPublish, Finalized, Verified
<1>2. NothingBeforeTag'
  BY ReleaseAssumption
  DEF ReleaseInv, ReleaseShape, NothingBeforeTag, Descends, Job, observed, NpmPublish,
      Finalized, Verified
<1>3. OfOneCommit'
  BY ReleaseAssumption
  DEF ReleaseInv, ReleaseShape, NothingBeforeTag, Descends, OfOneCommit, Job, observed,
      NpmPublish, Finalized, Verified
<1>4. DraftIsOwn'
  BY DEF ReleaseInv, ReleaseShape, DraftIsOwn, Job, observed, NpmPublish, Finalized,
         Verified
<1>5. PublishedIsOneBuild'
  BY DEF ReleaseInv, ReleaseShape, DraftIsOwn, PublishedIsOneBuild,
         SerialDraftIsOneBuild, NpmIsReleased, File, observed, NpmPublish,
         Finalized, Verified
<1>6. QED BY <1>1, <1>2, <1>3, <1>4, <1>5 DEF ReleaseInv

LEMMA DieKeeps ==
  ASSUME ReleaseInv, Die
  PROVE  ReleaseInv'
<1>1. UNCHANGED <<main, tag, manifest, registry, github, npm, mixed, stirred>>
  BY DEF Die, observed
<1>2. ASSUME NEW r \in Run, gate' = [gate EXCEPT ![r] = NoGate], UNCHANGED <<crates, assets>>
      PROVE  ReleaseInv'
  <2>1. \A q \in Run : gate'[q] = gate[q] \/ gate'[q].pc = "idle"
    BY <1>2 DEF ReleaseInv, ReleaseShape, NoGate
  <2>2. ReleaseShape'
    BY <1>1, <1>2 DEF ReleaseInv, ReleaseShape, GateJob
  <2>3. NothingBeforeTag' /\ OfOneCommit'
    BY <1>1, <1>2, <2>1 DEF ReleaseInv, NothingBeforeTag, OfOneCommit, Descends
  <2>4. DraftIsOwn' /\ PublishedIsOneBuild'
    BY <1>1, <1>2
    DEF ReleaseInv, DraftIsOwn, PublishedIsOneBuild, SerialDraftIsOneBuild,
        NpmIsReleased
  <2>5. QED BY <2>2, <2>3, <2>4 DEF ReleaseInv
<1>3. ASSUME NEW j \in Job, crates[j].pc # "idle", StopCrates(j), UNCHANGED <<gate, assets>>
      PROVE  ReleaseInv'
  <2>1. GoesOn(j)
    BY <1>3, JobMoves
  <2>2. QED BY <1>1, <1>3, <2>1, CratesKeep
<1>4. ASSUME NEW r \in Run, assets[r].pc # "idle", StopAssets(r), UNCHANGED <<gate, crates>>
      PROVE  ReleaseInv'
  <2>1. Works(r) /\ assets'[r].pc = "idle"
    BY <1>4, AssetsMove DEF ReleaseInv
  <2>2. ReleaseShape' /\ NothingBeforeTag' /\ OfOneCommit'
    <3>1. github' \in Draft
      BY <1>1 DEF ReleaseInv, ReleaseShape
    <3>2. QED BY <1>1, <1>4, <2>1, <3>1, AssetsKeep
  <2>3. DraftIsOwn' /\ PublishedIsOneBuild'
    BY <1>1, <2>1
   
    DEF ReleaseInv, DraftIsOwn, PublishedIsOneBuild, SerialDraftIsOneBuild,
        NpmIsReleased, Works
  <2>4. QED BY <2>2, <2>3 DEF ReleaseInv
<1>5. QED BY <1>2, <1>3, <1>4 DEF Die, Job

LEMMA PushKeeps ==
  ASSUME ReleaseInv, Push
  PROVE  ReleaseInv'
<1>1. ReleaseShape'
  BY ReleaseAssumption DEF ReleaseInv, ReleaseShape, Job, observed, Push, Underway, Resting
<1>2. NothingBeforeTag'
  BY ReleaseAssumption
  DEF ReleaseInv, ReleaseShape, NothingBeforeTag, Descends, Job, observed, Push, Underway,
      Resting
<1>3. OfOneCommit'
  BY ReleaseAssumption
  DEF ReleaseInv, ReleaseShape, NothingBeforeTag, Descends, OfOneCommit, Job, observed, Push,
      Underway, Resting
<1>4. DraftIsOwn'
  BY DEF ReleaseInv, ReleaseShape, DraftIsOwn, Job, observed, Push, Underway,
         Resting
<1>5. PublishedIsOneBuild'
  BY DEF ReleaseInv, ReleaseShape, DraftIsOwn, PublishedIsOneBuild,
         SerialDraftIsOneBuild, NpmIsReleased, File, observed, Push,
         Underway, Resting
<1>6. QED BY <1>1, <1>2, <1>3, <1>4, <1>5 DEF ReleaseInv

LEMMA ReleaseInvInit ==
  ASSUME ReleaseInit
  PROVE  ReleaseInv
<1>1. NoBuild \in AnyBuild /\ NoBuild.from = 0
  BY DEF NoBuild, AnyBuild
<1>2. NoCrates \in CrateJob /\ NoAssets \in AssetJob /\ NoGate \in GateJob
      /\ NoCrates.pc = "idle" /\ NoAssets.pc = "idle" /\ NoGate.pc = "idle"
  BY <1>1 DEF NoCrates, NoAssets, NoGate, CrateJob, AssetJob, GateJob
<1>3. ReleaseShape
  <2>1. main \in Nat /\ tag \in Nat
    BY ReleaseAssumption DEF ReleaseInit
  <2>2. github \in Draft
    BY <1>1 DEF ReleaseInit, Draft
  <2>3. QED BY <1>2, <2>1, <2>2 DEF ReleaseInit, ReleaseShape, Job
<1>4. NothingBeforeTag /\ OfOneCommit
  BY <1>1, <1>2 DEF ReleaseInit, NothingBeforeTag, OfOneCommit, Job
<1>5. DraftIsOwn /\ PublishedIsOneBuild
  BY <1>2
  DEF ReleaseInit, DraftIsOwn, PublishedIsOneBuild, SerialDraftIsOneBuild,
      NpmIsReleased
<1>6. QED BY <1>3, <1>4, <1>5 DEF ReleaseInv

LEMMA ReleaseInvStep ==
  ASSUME ReleaseInv, [ReleaseNext]_releaseVars
  PROVE  ReleaseInv'
<1>1. CASE UNCHANGED releaseVars
  BY <1>1 DEF releaseVars, ReleaseInv, ReleaseShape, NothingBeforeTag, OfOneCommit, DraftIsOwn,
              PublishedIsOneBuild, SerialDraftIsOneBuild, NpmIsReleased
<1>2. ASSUME NEW r \in Run, NEW preserved \in BOOLEAN, Gate(r, preserved) PROVE ReleaseInv'
  BY <1>2, GateKeeps
<1>3. ASSUME NEW r \in Run, Tag(r) PROVE ReleaseInv'
  BY <1>3, TagKeeps
<1>4. ASSUME NEW r \in Run, AssetsStep(r) PROVE ReleaseInv'
  BY <1>4, ProbeKeeps, FinalizeKeeps, UploadKeeps DEF AssetsStep
<1>5. ASSUME NEW j \in Job, CratesStep(j) PROVE ReleaseInv'
  BY <1>5, LookUpKeeps, RefusedKeeps, CargoKeeps, VerifyKeeps DEF CratesStep
<1>6. QED
  BY <1>1, <1>2, <1>3, <1>4, <1>5, RetryKeeps, CatchUpKeeps, NpmKeeps, DieKeeps, PushKeeps
  DEF ReleaseNext, Job

\* A GitHub release to which one run at a time wrote has archive and checksums of one
\* build, and npm serves only bytes of the published release that its checksums name,
\* however many runs die over the draft (release.yml).
THEOREM PublishedOneBuild == ReleaseSpec => []PublishedIsOneBuild
<1>1. ReleaseInit => ReleaseInv
  BY ReleaseInvInit
<1>2. ReleaseInv /\ [ReleaseNext]_releaseVars => ReleaseInv'
  BY ReleaseInvStep
<1>3. ReleaseInv => PublishedIsOneBuild
  BY DEF ReleaseInv
<1>4. QED BY <1>1, <1>2, <1>3, PTL DEF ReleaseSpec

\* As long as main stands still from the first gate on, every crate and every file of
\* a version is of the tagged commit (the release gate and the tag job of release.yml).
THEOREM FromOneSource == ReleaseSpec => []OneSource
<1>1. ReleaseInit => ReleaseInv
  BY ReleaseInvInit
<1>2. ReleaseInv /\ [ReleaseNext]_releaseVars => ReleaseInv'
  BY ReleaseInvStep
<1>3. ReleaseInv => OneSource
  BY DEF ReleaseInv, OfOneCommit, OneSource, Sources
<1>4. QED BY <1>1, <1>2, <1>3, PTL DEF ReleaseSpec

-----------------------------------------------------------------------------
(* The order of publication                                                *)

Order == PublishPlan(manifest)

\* A crate that need not be seen is passed by unseen.
Passed(c) == manifest[c].verify => c \in Visible

\* A job that is at a crate has passed all that come before it.
Turns(turns) ==
  \A j \in Job : turns[j].pc # "idle" =>
    /\ turns[j].next \in 1 .. Len(Order)
    /\ \A i \in 1 .. turns[j].next - 1 : Passed(Order[i])

TurnInv ==
  /\ ReleaseShape
  /\ manifest \in Manifest /\ ValidPublishOrder(manifest, Deps)
  /\ Turns(crates)

\* A manifest names finitely many crates; the order in which they are published exists.
LEMMA PlanExists ==
  ASSUME NEW m \in Manifest
  PROVE  /\ PublishPlan(m) \in [1 .. Cardinality(Crate) -> Crate]
         /\ \A i, k \in 1 .. Cardinality(Crate) :
              i < k => Precedes(m, PublishPlan(m)[i], PublishPlan(m)[k])
<1> DEFINE n == Cardinality(Crate)
           before(c) == {d \in Crate : Precedes(m, d, c)}
           rank == [c \in Crate |-> Cardinality(before(c)) + 1]
           plan == [i \in 1 .. n |-> CHOOSE c \in Crate : rank[c] = i]
<1>1. /\ IsFiniteSet(Crate) /\ n \in Nat /\ DOMAIN m = Crate
      /\ \A c \in Crate : c \in Nat /\ m[c].order \in Int
  <2>1. m \in [Crate -> [order : Int, publish : BOOLEAN, verify : BOOLEAN]]
    BY ReleaseAssumption
  <2>2. IsFiniteSet(Crate) /\ Crate \subseteq Nat
    BY ReleaseAssumption
  <2>3. QED BY <2>1, <2>2, FS_CardinalityType
<1>2. \A c \in Crate : ~Precedes(m, c, c)
  BY <1>1 DEF Precedes
<1>3. \A c, d, e \in Crate :
        Precedes(m, c, d) /\ Precedes(m, d, e) => Precedes(m, c, e)
  BY <1>1 DEF Precedes
<1>4. \A c, d \in Crate : c = d \/ Precedes(m, c, d) \/ Precedes(m, d, c)
  BY <1>1 DEF Precedes
<1>5. ASSUME NEW c \in Crate
      PROVE  /\ IsFiniteSet(before(c)) /\ Cardinality(before(c)) \in Nat
             /\ Cardinality(before(c) \cup {c}) = Cardinality(before(c)) + 1
             /\ rank[c] = Cardinality(before(c)) + 1
  <2>1. before(c) \in SUBSET Crate /\ c \notin before(c)
    BY <1>2
  <2>2. IsFiniteSet(before(c)) /\ rank[c] = Cardinality(before(c)) + 1
    BY <1>1, <2>1, FS_Subset
  <2> HIDE DEF before, rank
  <2>3. QED BY <2>1, <2>2, FS_CardinalityType, FS_AddElement
<1>6. ASSUME NEW c \in Crate, NEW d \in Crate, Precedes(m, c, d) PROVE rank[c] < rank[d]
  <2>1. before(c) \cup {c} \in SUBSET before(d)
    BY <1>3, <1>6
  <2>2. IsFiniteSet(before(d))
    BY <1>5
  <2> HIDE DEF before, rank
  <2>3. Cardinality(before(c) \cup {c}) <= Cardinality(before(d))
    BY <2>1, <2>2, FS_Subset
  <2>4. /\ rank[c] = Cardinality(before(c)) + 1 /\ Cardinality(before(c)) \in Nat
        /\ Cardinality(before(c) \cup {c}) = Cardinality(before(c)) + 1
    BY <1>5
  <2>5. rank[d] = Cardinality(before(d)) + 1 /\ Cardinality(before(d)) \in Nat
    BY <1>5
  <2>6. QED BY <2>3, <2>4, <2>5
<1>7. \A c \in Crate : rank[c] \in 1 .. n
  <2>1. ASSUME NEW c \in Crate PROVE rank[c] \in 1 .. n
    <3>1. before(c) \cup {c} \in SUBSET Crate
      OBVIOUS
    <3> HIDE DEF before, rank
    <3>2. Cardinality(before(c) \cup {c}) <= n
      BY <1>1, <3>1, FS_Subset
    <3> HIDE DEF n
    <3>3. QED BY <1>1, <1>5, <3>2
  <2>2. QED BY <2>1
<1>8. rank \in Injection(Crate, 1 .. n)
  <2>1. rank \in [Crate -> 1 .. n]
    BY <1>7
  <2> HIDE DEF rank, n
  <2>2. ASSUME NEW c \in Crate, NEW d \in Crate, rank[c] = rank[d] PROVE c = d
    <3>1. rank[c] \in Int
      BY <1>1, <1>7
    <3>2. ~(rank[c] < rank[d]) /\ ~(rank[d] < rank[c])
      BY <2>2, <3>1
    <3>3. QED BY <1>4, <1>6, <3>2
  <2>3. QED BY <2>1, <2>2 DEF Injection, IsInjective
<1>9. rank \in Surjection(Crate, 1 .. n)
  <2> HIDE DEF rank
  <2>1. IsFiniteSet(1 .. n) /\ Cardinality(1 .. n) = n
    BY <1>1, FS_Interval
  <2>2. QED BY <1>8, <2>1, FS_Injection
<1>10. ASSUME NEW i \in 1 .. n PROVE plan[i] \in Crate /\ rank[plan[i]] = i
  <2>1. \E c \in Crate : rank[c] = i
    BY <1>9 DEF Surjection
  <2> HIDE DEF rank
  <2>2. plan[i] = CHOOSE c \in Crate : rank[c] = i
    OBVIOUS
  <2> HIDE DEF plan
  <2>3. QED BY <2>1, <2>2
<1>11. ASSUME NEW i \in 1 .. n, NEW k \in 1 .. n, i < k PROVE Precedes(m, plan[i], plan[k])
  <2> HIDE DEF rank, plan, n
  <2>1. /\ plan[i] \in Crate /\ rank[plan[i]] = i
        /\ plan[k] \in Crate /\ rank[plan[k]] = k
    BY <1>10
  <2>2. ~(rank[plan[k]] < rank[plan[i]]) /\ plan[i] # plan[k]
    BY <1>1, <1>11, <2>1
  <2>3. QED BY <1>4, <1>6, <2>1, <2>2
<1> DEFINE Sorted(p) == \A i, k \in DOMAIN p : i < k => Precedes(m, p[i], p[k])
<1>12. plan \in [1 .. n -> Crate] /\ Sorted(plan)
  <2>1. plan \in [1 .. n -> Crate]
    BY <1>10
  <2> HIDE DEF plan
  <2>2. DOMAIN plan = 1 .. n
    BY <2>1
  <2>3. QED BY <1>11, <2>1, <2>2
<1>13. PublishPlan(m) = CHOOSE p \in [1 .. n -> Crate] : Sorted(p)
  BY <1>1 DEF PublishPlan
<1> HIDE DEF plan, n, Sorted
<1>14. PublishPlan(m) \in [1 .. n -> Crate] /\ Sorted(PublishPlan(m))
  BY <1>12, <1>13
<1>15. QED BY <1>14 DEF Sorted, n

\* A crate of the order comes after those it needs, and these are seen.
LEMMA InOrder ==
  ASSUME NeededAreSeen, TurnInv
  PROVE  /\ Len(Order) \in Nat \ {0}
         /\ \A i \in 1 .. Len(Order) :
              /\ Order[i] \in Crate
              /\ \A d \in Deps[Order[i]] :
                   manifest[d].verify /\ \E k \in 1 .. i - 1 : Order[k] = d
<1> DEFINE n == Cardinality(Crate)
<1>1. /\ Order \in [1 .. n -> Crate]
      /\ \A i, k \in 1 .. n : i < k => Precedes(manifest, Order[i], Order[k])
  BY PlanExists DEF TurnInv, Order
<1>2. /\ IsFiniteSet(Crate) /\ n \in Nat \ {0} /\ DOMAIN manifest = Crate
      /\ Deps \in [Crate -> SUBSET Crate]
      /\ \A c \in Crate : c \in Nat /\ manifest[c].order \in Int
  <2>1. manifest \in [Crate -> [order : Int, publish : BOOLEAN, verify : BOOLEAN]]
    BY ReleaseAssumption DEF TurnInv
  <2>2. IsFiniteSet(Crate) /\ Crate \subseteq Nat /\ Crate # {} /\ Deps \in [Crate -> SUBSET Crate]
    BY ReleaseAssumption
  <2>3. n \in Nat /\ n # 0
    BY <2>2, FS_CardinalityType, FS_EmptySet
  <2> HIDE DEF n
  <2>4. QED BY <2>1, <2>2, <2>3
<1> HIDE DEF Order, n
<1>3. Len(Order) = n
  BY <1>1, <1>2
<1>4. Order \in Surjection(1 .. n, Crate)
  <2>1. ASSUME NEW i \in 1 .. n, NEW k \in 1 .. n, Order[i] = Order[k] PROVE i = k
    <3>1. \A c \in Crate : ~Precedes(manifest, c, c)
      BY <1>2 DEF Precedes
    <3>2. ~(i < k) /\ ~(k < i)
      BY <1>1, <2>1, <3>1
    <3>3. QED BY <1>2, <3>2
  <2>2. Order \in Injection(1 .. n, Crate)
    BY <1>1, <2>1 DEF Injection, IsInjective
  <2>3. Cardinality(1 .. n) = n
    BY <1>2, FS_Interval
  <2>4. Cardinality(1 .. n) = Cardinality(Crate)
    BY <2>3 DEF n
  <2>5. QED BY <1>2, <2>2, <2>4, FS_Injection
<1>5. ASSUME NEW i \in 1 .. n, NEW d \in Deps[Order[i]]
      PROVE  manifest[d].verify /\ \E k \in 1 .. i - 1 : Order[k] = d
  <2>1. Order[i] \in Crate /\ d \in Crate
    BY <1>1, <1>2
  <2>2. manifest[Order[i]].publish /\ manifest[d].publish /\ manifest[d].verify
    BY <2>1 DEF NeededAreSeen, TurnInv
  <2>3. manifest[Order[i]].order > manifest[d].order
    BY <1>2, <2>1, <2>2 DEF TurnInv, ValidPublishOrder, Publishable
  <2>4. PICK k \in 1 .. n : Order[k] = d
    BY <1>4, <2>1 DEF Surjection
  <2>5. ~Precedes(manifest, Order[i], d) /\ d # Order[i]
    BY <1>2, <2>1, <2>3 DEF Precedes
  <2>6. ~(i < k) /\ k # i
    BY <1>1, <2>4, <2>5
  <2>7. k \in 1 .. i - 1
    BY <1>2, <2>6
  <2>8. QED BY <2>2, <2>4, <2>7
<1>6. QED BY <1>1, <1>2, <1>3, <1>5

\* What is visible stays so, and a job goes to the first crate, stays at its crate or, when
\* that is passed, goes to the next one.
Advances ==
  /\ UNCHANGED manifest
  /\ Visible \subseteq Visible'
  /\ \A j \in Job :
       \/ crates'[j].pc = "idle"
       \/ crates'[j].next = 1
       \/ crates[j].pc # "idle" /\ crates'[j].next = crates[j].next
       \/ /\ crates[j].pc # "idle" /\ crates[j].next # Len(Order)
          /\ Passed(Order[crates[j].next])
          /\ crates'[j].next = crates[j].next + 1

LEMMA TurnsAdvance ==
  ASSUME NeededAreSeen, TurnInv, Advances, ReleaseShape'
  PROVE  TurnInv'
<1>1. Order' = Order /\ Len(Order) \in Nat \ {0}
  BY InOrder DEF Advances, Order
<1>2. \A i : Passed(Order[i]) => Passed(Order[i])'
  BY <1>1 DEF Advances, Passed
<1>3. ASSUME NEW j \in Job, crates'[j].pc # "idle"
      PROVE  /\ crates'[j].next \in 1 .. Len(Order)
             /\ \A i \in 1 .. crates'[j].next - 1 : Passed(Order[i])'
  <2>1. CASE crates'[j].next = 1
    BY <1>1, <2>1
  <2>2. CASE crates[j].pc # "idle" /\ crates'[j].next = crates[j].next
    BY <1>2, <2>2 DEF TurnInv, Turns
  <2>3. CASE /\ crates[j].pc # "idle" /\ crates[j].next # Len(Order)
             /\ Passed(Order[crates[j].next])
             /\ crates'[j].next = crates[j].next + 1
    <3>1. /\ crates[j].next \in 1 .. Len(Order)
          /\ \A i \in 1 .. crates[j].next - 1 : Passed(Order[i])
      BY <2>3 DEF TurnInv, Turns
    <3>2. crates'[j].next \in 1 .. Len(Order)
      BY <1>1, <2>3, <3>1
    <3>3. \A i \in 1 .. crates[j].next : i \in 1 .. crates[j].next - 1 \/ i = crates[j].next
      BY <1>1, <3>1
    <3>4. crates'[j].next - 1 = crates[j].next
      BY <2>3, <3>1
    <3>5. QED BY <1>2, <2>3, <3>1, <3>2, <3>3, <3>4
  <2>4. QED BY <1>3, <2>1, <2>2, <2>3 DEF Advances
<1>4. Turns(crates)'
  BY <1>1, <1>3 DEF Turns
<1>5. QED BY <1>4 DEF TurnInv, Advances

\* A job at a crate whose dependencies come before it finds them visible.
LEMMA DependenciesVisible ==
  ASSUME NeededAreSeen, TurnInv, NEW j \in Job, crates[j].pc # "idle"
  PROVE  /\ Current(j) = Order[crates[j].next]
         /\ Deps[Current(j)] \subseteq Visible
<1>1. Current(j) = Order[crates[j].next]
  BY DEF Current, Order
<1>2. /\ crates[j].next \in 1 .. Len(Order)
      /\ \A i \in 1 .. crates[j].next - 1 : Passed(Order[i])
  BY DEF TurnInv, Turns
<1>3. \A d \in Deps[Order[crates[j].next]] :
        manifest[d].verify /\ \E k \in 1 .. crates[j].next - 1 : Order[k] = d
  BY <1>2, InOrder
<1>4. ASSUME NEW d \in Deps[Current(j)] PROVE d \in Visible
  <2>1. manifest[d].verify /\ \E k \in 1 .. crates[j].next - 1 : Order[k] = d
    BY <1>1, <1>3
  <2>2. PICK k \in 1 .. crates[j].next - 1 : Order[k] = d
    BY <2>1
  <2>3. Passed(Order[k])
    BY <1>2
  <2>4. QED BY <2>1, <2>2, <2>3 DEF Passed
<1>5. QED BY <1>1, <1>4

LEMMA ProceedAdvances ==
  ASSUME TurnInv, NEW j \in Job, crates[j].pc # "idle",
         \/ Proceed(j) /\ Passed(Order[crates[j].next])
         \/ \E at \in {"lookup", "publish", "verify"} : Continue(j, at)
         \/ StopCrates(j),
         UNCHANGED manifest, Visible \subseteq Visible'
  PROVE  Advances
<1>1. crates \in [Job -> CrateJob]
  BY DEF TurnInv, ReleaseShape
<1>2. ASSUME crates' = [crates EXCEPT ![j] = NoCrates] PROVE Advances
  BY <1>1, <1>2 DEF Advances, NoCrates
<1>3. ASSUME NEW at \in {"lookup", "publish", "verify"}, Continue(j, at) PROVE Advances
  <2>1. crates'[j].next = crates[j].next /\ \A i \in Job \ {j} : crates'[i] = crates[i]
    BY <1>1, <1>3 DEF Continue, CrateJob
  <2>2. QED BY <2>1 DEF Advances
<1>4. ASSUME crates' = [crates EXCEPT ![j].pc = "lookup", ![j].next = @ + 1],
             crates[j].next # Len(Order), Passed(Order[crates[j].next])
      PROVE  Advances
  <2>1. crates'[j].next = crates[j].next + 1 /\ \A i \in Job \ {j} : crates'[i] = crates[i]
    BY <1>1, <1>4 DEF CrateJob
  <2>2. QED BY <1>4, <2>1 DEF Advances
<1>5. QED BY <1>2, <1>3, <1>4 DEF Proceed, StopCrates, Order

LEMMA TurnInvInit ==
  ASSUME ReleaseInit
  PROVE  TurnInv
<1>1. Turns(crates)
  BY DEF ReleaseInit, Turns, NoCrates, Job
<1>2. ReleaseShape
  BY ReleaseInvInit DEF ReleaseInv
<1>3. QED BY <1>1, <1>2 DEF ReleaseInit, TurnInv

LEMMA TurnInvStep ==
  ASSUME NeededAreSeen, ReleaseInv, TurnInv, [ReleaseNext]_releaseVars
  PROVE  TurnInv'
<1>1. ReleaseShape'
  BY ReleaseInvStep DEF ReleaseInv
<1>2. ASSUME UNCHANGED <<manifest, registry, crates>> PROVE TurnInv'
  <2>1. Advances
    BY <1>2 DEF Advances, Visible, TurnInv
  <2>2. QED BY <1>1, <2>1, TurnsAdvance
<1>3. ASSUME NEW r \in Run, Tag(r) PROVE TurnInv'
  <2>1. UNCHANGED <<manifest, registry>>
    BY <1>3 DEF Tag, observed
  <2>2. \A j \in Job : crates'[j] = crates[j] \/ crates'[j].next = 1
    BY <1>3 DEF Tag, TurnInv, ReleaseShape
  <2>3. Advances
    BY <2>1, <2>2 DEF Advances, Visible, TurnInv
  <2>4. QED BY <1>1, <2>3, TurnsAdvance
<1>4. ASSUME RetryCrates PROVE TurnInv'
  <2>1. UNCHANGED <<manifest, registry>>
    BY <1>4 DEF RetryCrates, observed
  <2>2. \A j \in Job : crates'[j] = crates[j] \/ crates'[j].next = 1
    BY <1>4 DEF RetryCrates, TurnInv, ReleaseShape, Job
  <2>3. Advances
    BY <2>1, <2>2 DEF Advances, Visible, TurnInv
  <2>4. QED BY <1>1, <2>3, TurnsAdvance
<1>5. ASSUME NEW j \in Job, LookUp(j) PROVE TurnInv'
  <2>1. UNCHANGED <<manifest, registry>> /\ crates[j].pc # "idle"
    BY <1>5 DEF LookUp, observed
  <2>2. (Proceed(j) /\ Passed(Order[crates[j].next])) \/ Continue(j, "publish")
    BY <1>5, <2>1, DependenciesVisible DEF LookUp, Passed
  <2>3. Advances
    BY <2>1, <2>2, ProceedAdvances DEF Visible, TurnInv
  <2>4. QED BY <1>1, <2>3, TurnsAdvance
<1>6. ASSUME NEW j \in Job, VerifyVisible(j) PROVE TurnInv'
  <2>1. UNCHANGED <<manifest, registry>> /\ crates[j].pc # "idle"
    BY <1>6 DEF VerifyVisible, observed
  <2>2. (Proceed(j) /\ Passed(Order[crates[j].next])) \/ StopCrates(j)
    BY <1>6, <2>1, DependenciesVisible DEF VerifyVisible, MustBeSeen, Passed
  <2>3. Advances
    BY <2>1, <2>2, ProceedAdvances DEF Visible, TurnInv
  <2>4. QED BY <1>1, <2>3, TurnsAdvance
<1>7. ASSUME NEW j \in Job, CargoPublish(j) PROVE TurnInv'
  <2>1. UNCHANGED manifest /\ crates[j].pc # "idle"
    BY <1>7 DEF CargoPublish
  <2>2. Continue(j, "verify") \/ StopCrates(j)
    BY <1>7 DEF CargoPublish
  <2>3. /\ registry[Current(j)].state = "absent" \/ Current(j) \notin Crate
        /\ registry' = [registry EXCEPT ![Current(j)] =
                           [state |-> "uploaded", from |-> crates[j].from]]
    BY <1>7 DEF CargoPublish, Out
  <2>4. Visible \subseteq Visible'
    BY <2>3 DEF Visible, TurnInv, ReleaseShape
  <2>5. Advances
    BY <2>1, <2>2, <2>4, ProceedAdvances DEF TurnInv
  <2>6. QED BY <1>1, <2>5, TurnsAdvance
<1>8. ASSUME NEW c \in Crate, CatchUp(c) PROVE TurnInv'
  <2>1. UNCHANGED <<manifest, crates>>
    BY <1>8 DEF CatchUp, observed
  <2>2. Visible \subseteq Visible'
    BY <1>8 DEF CatchUp, Visible, TurnInv, ReleaseShape
  <2>3. Advances
    BY <2>1, <2>2 DEF Advances, TurnInv
  <2>4. QED BY <1>1, <2>3, TurnsAdvance
<1>9. ASSUME Die PROVE TurnInv'
  <2>1. UNCHANGED <<manifest, registry>>
    BY <1>9 DEF Die, observed
  <2>2. \A j \in Job : crates'[j] = crates[j] \/ crates'[j].pc = "idle"
    BY <1>9 DEF Die, StopCrates, NoCrates, TurnInv, ReleaseShape
  <2>3. Advances
    BY <2>1, <2>2 DEF Advances, Visible, TurnInv
  <2>4. QED BY <1>1, <2>3, TurnsAdvance
<1>10. ASSUME \/ \E r \in Run : \/ \E preserved \in BOOLEAN : Gate(r, preserved)
                               \/ AssetsStep(r)
              \/ NpmPublish \/ Push
       PROVE  TurnInv'
  <2>1. UNCHANGED <<manifest, registry, crates>>
    BY <1>10
    DEF Gate, AssetsStep, Probe, Finalize, Upload, NpmPublish, Push,
        observed
  <2>2. QED BY <1>2, <2>1
<1>11. CASE UNCHANGED releaseVars
  BY <1>2, <1>11 DEF releaseVars
<1>12. ASSUME NEW j \in Job, CargoRefused(j) PROVE TurnInv'
  <2>1. UNCHANGED <<manifest, registry>> /\ crates[j].pc # "idle"
    BY <1>12 DEF CargoRefused
  <2>2. Advances
    BY <1>12, <2>1, ProceedAdvances DEF CargoRefused, Visible, TurnInv
  <2>3. QED BY <1>1, <2>2, TurnsAdvance
<1>13. ASSUME NEW j \in Job, CratesStep(j) PROVE TurnInv'
  BY <1>5, <1>6, <1>7, <1>12, <1>13 DEF CratesStep
<1>14. QED BY <1>3, <1>4, <1>8, <1>9, <1>10, <1>11, <1>13 DEF ReleaseNext, Job

\* When the manifest passes validate_publish_order and exempts no crate that another one
\* needs, a job comes to cargo publish for a crate only after crates.io's API has shown
\* every crate of the workspace that it needs, whatever the lag of the API and of the
\* index and whichever runs and retries publish (publish_if_missing of release.yml).
THEOREM OrderHolds ==
  ASSUME NeededAreSeen
  PROVE  ReleaseSpec => []OrderIsSeen
<1>1. ReleaseInit => ReleaseInv /\ TurnInv
  BY ReleaseInvInit, TurnInvInit
<1>2. (ReleaseInv /\ TurnInv) /\ [ReleaseNext]_releaseVars => (ReleaseInv /\ TurnInv)'
  BY ReleaseInvStep, TurnInvStep
<1>3. ReleaseInv /\ TurnInv => OrderIsSeen
  BY DependenciesVisible DEF OrderIsSeen, Job
<1>4. QED BY <1>1, <1>2, <1>3, PTL DEF ReleaseSpec
=============================================================================
