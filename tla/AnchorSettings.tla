---------------------------- MODULE AnchorSettings ----------------------------
(***************************************************************************)
(* The settings files of plan anchoring, .sc/plan-anchor/settings.yaml, and *)
(* the commands that read and write them without a lock: set (of            *)
(* plan_anchor_settings.py), write (of anchor_tracker.py) and the consent    *)
(* check of every command that asks Jev.                                     *)
(*                                                                         *)
(* A folder may hold a settings file; the nearest one at or above a place   *)
(* applies there.                                                           *)
(***************************************************************************)
EXTENDS Integers, FiniteSets

CONSTANTS Place,         \* the folders
          Above(_, _),   \* Above(d, e): d is e or one of its parents
          Top(_),        \* the root of the place's repository, or NoRepository
          NoRepository,
          Absent,        \* no file
          Malformed,     \* a file that does not parse
          Dolt,          \* the repositories with a Dolt-backed .beads/
          Plan,          \* the values of plan_dir
          Proc,          \* the commands that may run at a time
          Budget         \* bound: the number of commands and edits

Unset == "unset"
Settings == [consent : {"yes", "no", Unset}, plan : Plan \cup {Unset},
             tracker : {"bd", Unset}]
Fresh == [consent |-> Unset, plan |-> Unset, tracker |-> Unset]

\* Folders form a forest of finite depth: of some of those at or above a place
\* one is the lowest. A repository's root is at or above its places.
ASSUME FolderAssumption ==
    /\ \A d \in Place : Above(d, d)
    /\ \A d, e, f \in Place : Above(d, e) /\ Above(e, f) => Above(d, f)
    /\ \A d, e \in Place : Above(d, e) /\ Above(e, d) => d = e
    /\ \A d \in Place : \A F \in SUBSET {f \in Place : Above(f, d)} :
            F # {} => \E f \in F : \A g \in F : Above(g, f)
    /\ \A d \in Place : Top(d) = NoRepository \/ (Top(d) \in Place /\ Above(Top(d), d))
    /\ Dolt \subseteq Place
    /\ NoRepository \notin Place

ASSUME SettingsAssumption ==
    /\ Absent \notin Settings \cup {Malformed}
    /\ Malformed \notin Settings
    /\ Budget \in Nat

VARIABLES
    file,        \* the file of each folder
    proc,        \* the commands in progress
    answer,      \* observation: what the user has settled for each place
    allowed,     \* observation: the folders where the user ever said yes
    overlapped,  \* observation: whether a file changed under a command
    used         \* commands and edits so far

vars == <<file, proc, answer, allowed, overlapped, used>>

Idle == [pc |-> "idle"]

TypeOK ==
    /\ file \in [Place -> Settings \cup {Absent, Malformed}]
    /\ \A p \in Proc :
        \/ proc[p] = Idle
        \/ /\ proc[p].pc = "write"
           /\ proc[p].path \in Place
           /\ proc[p].next \in Settings
        \/ /\ proc[p].pc = "send"
           /\ proc[p].place \in Place
    /\ answer \in [Place -> Settings \cup {Malformed}]
    /\ allowed \subseteq Place
    /\ overlapped \in BOOLEAN
    /\ used \in 0 .. Budget

-----------------------------------------------------------------------------
(* Reading *)

\* find_settings: the nearest folder at or above d with a file, as a set.
Nearest(files, d) ==
    LET holders == {f \in Place : Above(f, d) /\ files[f] # Absent}
    IN  {f \in holders : \A g \in holders : Above(g, f)}

\* effective_settings: without a file nothing is set; a file that does not
\* parse is an error, and never a default.
Effective(files, d) ==
    IF Nearest(files, d) = {} THEN Fresh
    ELSE files[CHOOSE f \in Nearest(files, d) : TRUE]

\* The files of a folder and above that lie in the repository.
Own(f, d) == Above(Top(d), f)

\* remote_judge_consent: only a recorded yes lets a request go. (The mutant takes
\* silence for consent.)
ConsentsUnlessRefused(s) == s # Malformed /\ s.consent # "no"
Consents(s) == s # Malformed /\ s.consent = "yes"

\* find_repo_root.
InRepository(d) == Top(d) # NoRepository

SaysYes(text) == text \in Settings /\ text.consent = "yes"

-----------------------------------------------------------------------------

Init ==
    /\ file \in [Place -> {Absent, [Fresh EXCEPT !.tracker = "bd"],
                           [Fresh EXCEPT !.consent = "yes"]}]
    /\ proc = [p \in Proc |-> Idle]
    /\ answer = [d \in Place |-> Effective(file, d)]
    /\ allowed = {d \in Place : SaysYes(file[d])}
    /\ overlapped = FALSE
    /\ used = 0

Starts(p) == /\ proc[p] = Idle
             /\ used < Budget
             /\ used' = used + 1

Ends(p) == proc' = [proc EXCEPT ![p] = Idle]

\* set_value with what it read: the answer goes into the nearest file, or a new
\* one at the repository's root; a file with that answer is left alone.
SetStart(p, d, key, value) ==
    /\ Starts(p)
    /\ InRepository(d)
    /\ LET before == Effective(file, d)
           path == IF Nearest(file, d) = {} THEN Top(d)
                   ELSE CHOOSE f \in Nearest(file, d) : TRUE
           after == [before EXCEPT ![key] = value]
       IN  /\ before # Malformed
           /\ Nearest(file, d) = {} \/ before # after
           /\ proc' = [proc EXCEPT ![p] = [pc |-> "write", path |-> path, next |-> after,
                                           key |-> key, read |-> file]]
    /\ UNCHANGED <<file, answer, allowed, overlapped>>

\* What write saves when the settings in effect name no tracker: the tracker,
\* with the other answers in effect. (The mutant forgets the consent.)
NewSelectionOnly(s) == [s EXCEPT !.tracker = "bd", !.consent = Unset]
WithTracker(s) == [s EXCEPT !.tracker = "bd"]

\* anchor_tracker.write with what it read: into the file in effect when the
\* repository or a folder in it holds it, else into a new one at the root.
TrackerStart(p, d) ==
    /\ Starts(p)
    /\ Top(d) \in Dolt
    /\ LET before == Effective(file, d)
           own == {f \in Nearest(file, d) : Own(f, d)}
           path == IF own = {} THEN Top(d) ELSE CHOOSE f \in own : TRUE
       IN  /\ before # Malformed
           /\ before.tracker = Unset
           /\ proc' = [proc EXCEPT ![p] = [pc |-> "write", path |-> path,
                                           next |-> WithTracker(before),
                                           key |-> "tracker", read |-> file]]
    /\ UNCHANGED <<file, answer, allowed, overlapped>>

\* The answer of every place where path is now the nearest file; a selection of
\* the tracker settles nothing else anywhere.
Settled(files, path, next, key) ==
    [d \in Place |->
        IF path \in Nearest(files, d) /\ answer[d] # Malformed
        THEN [answer[d] EXCEPT ![key] = next[key]] ELSE answer[d]]

\* write_settings_file: a new file takes the place of the old one at once.
Write(p) ==
    /\ proc[p].pc = "write"
    /\ LET path == proc[p].path
           next == proc[p].next
           key == proc[p].key
       IN  /\ file' = [file EXCEPT ![path] = next]
           /\ answer' = Settled(file', path, next, key)
           /\ allowed' = IF key = "consent" /\ next.consent = "yes"
                         THEN allowed \cup {path} ELSE allowed
           /\ overlapped' = (overlapped \/ proc[p].read # file)
    /\ Ends(p)
    /\ UNCHANGED used

\* The write fails, or the command is killed before it.
Lost(p) ==
    /\ proc[p].pc = "write"
    /\ Ends(p)
    /\ UNCHANGED <<file, answer, allowed, overlapped, used>>

\* remote_preflight at d passes; the command then sends what it has to.
JudgeStart(p, d) ==
    /\ Starts(p)
    /\ InRepository(d)
    /\ Consents(Effective(file, d))
    /\ proc' = [proc EXCEPT ![p] = [pc |-> "send", place |-> d]]
    /\ UNCHANGED <<file, answer, allowed, overlapped>>

JudgeEnd(p) ==
    /\ proc[p].pc = "send"
    /\ Ends(p)
    /\ UNCHANGED <<file, answer, allowed, overlapped, used>>

\* A file edited by hand, or changed by a checkout: whatever it now says is what
\* the user settled.
Edit(d, text) ==
    /\ used < Budget
    /\ used' = used + 1
    /\ file' = [file EXCEPT ![d] = text]
    /\ answer' = [e \in Place |->
                    IF d \in Nearest(file, e) \cup Nearest(file', e)
                    THEN Effective(file', e) ELSE answer[e]]
    /\ allowed' = IF SaysYes(text) THEN allowed \cup {d} ELSE allowed
    /\ UNCHANGED <<proc, overlapped>>

Set(p) ==
    \E d \in Place :
        \/ \E value \in {"yes", "no"} : SetStart(p, d, "consent", value)
        \/ \E value \in Plan : SetStart(p, d, "plan", value)

Next ==
    \/ \E p \in Proc :
        \/ Set(p)
        \/ \E d \in Place : TrackerStart(p, d) \/ JudgeStart(p, d)
        \/ Write(p)
        \/ Lost(p)
        \/ JudgeEnd(p)
    \/ \E d \in Place, text \in {Absent, Malformed, [Fresh EXCEPT !.consent = "no"]} :
            Edit(d, text)

Spec == Init /\ [][Next]_vars

-----------------------------------------------------------------------------
(* Properties *)

\* As long as no file changes between a command's read and its write, every place
\* keeps what the user settled for it: a set changes one answer of the places
\* its file governs and keeps the others, the selection of a tracker, which may
\* put a new file between a place and the one it inherited, changes none, and a
\* file that does not parse is not overwritten.
SerialAnswersHold ==
    ~overlapped => \A d \in Place : Effective(file, d) = answer[d]

\* Consent is never inferred: whatever the commands do to each other's files, a
\* request goes out from a place only if the user once said yes in a file at or
\* above it (SETTINGS.REMOTE_JUDGE_UNSET, "Never infer consent").
ConsentIsNeverInferred ==
    \A p \in Proc : proc[p].pc = "send" =>
        \E f \in allowed : Above(f, proc[p].place)
=============================================================================
