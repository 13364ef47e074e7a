----------------------------- MODULE FileTailer -----------------------------
(***************************************************************************)
(* How the agent follows one log source: LinuxLogTailer._tail_loop (a      *)
(* path, rotation seen by its inode), WindowsFileTailer._watch_fixed (a    *)
(* path, truncation seen by its size) and ._watch_pattern (the most        *)
(* recently modified file of a glob), with the parser that on_new_line     *)
(* chooses.  One thread follows the source while programs write, rotate,   *)
(* truncate and remove files.                                              *)
(***************************************************************************)
EXTENDS Naturals, Sequences, SequencesExt

CONSTANTS
    Kinds,          \* the ways to follow that are considered
    MaxFiles,       \* bound on the files ever created
    MaxLines,       \* bound on the lines ever written
    MaxAccidents,   \* bound on truncations, removals and refused openings
    MaxStarts       \* bound on the starts of the agent

ASSUME TailerAssumption ==
    /\ Kinds \subseteq {"linux", "fixed", "pattern"}
    /\ {MaxFiles, MaxLines, MaxAccidents, MaxStarts} \subseteq Nat

Files == 1 .. MaxFiles
None == 0

VARIABLES
    kind,       \* how this source is followed, for the whole run
    listing,    \* the files the path or the glob names, least recently modified first
    content,    \* for each file, its lines, whole or in two parts, in the order of writing
    created, written, accidents, starts,    \* what has been used of each bound
    stage,      \* "off" | "open" | "read" | "check" | "drain" | "ended"
    handle,     \* the open file, or None
    pos,        \* how many of its pieces have been read
    current,    \* pattern: the file last opened, the variable `current`
    target,     \* the file about to be opened
    fromEnd,    \* pattern: first_open
    stopping,   \* the agent has called stop()
    delivered   \* what the callback turned into events, in order

files == <<listing, content, created, written>>
reader == <<stage, handle, pos, current, target, fromEnd, delivered>>
vars == <<kind, files, accidents, starts, reader, stopping>>

Named == Last(listing)
Others(f) == RemoveAt(listing, CHOOSE i \in DOMAIN listing : listing[i] = f)
ToRead == handle # None /\ pos < Len(content[handle])
Alive == stage \notin {"off", "ended"}
Accident == accidents < MaxAccidents /\ accidents' = accidents + 1

-----------------------------------------------------------------------------
(* The programs that write the logs.                                       *)

Create ==
    /\ created < MaxFiles
    /\ kind = "fixed" => listing = <<>>
    /\ created' = created + 1
    /\ listing' = IF kind = "pattern" THEN Append(listing, created + 1)
                                      ELSE <<created + 1>>
    /\ UNCHANGED <<kind, content, written, accidents, starts, reader, stopping>>

Unfinished(f) == content[f] # <<>> /\ Last(content[f]).part = "head"
\* Bound: the first line of a file is written in one part.
Piece(f) ==
    IF Unfinished(f) THEN {[line |-> Last(content[f]).line, part |-> "rest"]}
    ELSE {[line |-> written + 1, part |-> p] :
              p \in IF content[f] = <<>> THEN {"whole"} ELSE {"whole", "head"}}

\* A program that has not reopened its log still writes to the rotated file.
Write(f) ==
    /\ f \in Range(listing) \cup {handle}
    /\ \E piece \in Piece(f) :
        /\ piece.line <= MaxLines
        /\ content' = [content EXCEPT ![f] = Append(@, piece)]
        /\ written' = IF piece.line > written THEN piece.line ELSE written
    /\ listing' = IF f \in Range(listing) THEN Append(Others(f), f) ELSE listing
    /\ UNCHANGED <<kind, created, accidents, starts, reader, stopping>>

Truncate ==
    /\ kind # "pattern" /\ listing # <<>> /\ content[Named] # <<>>
    /\ Accident
    /\ content' = [content EXCEPT ![Named] = <<>>]
    /\ UNCHANGED <<kind, listing, created, written, starts, reader, stopping>>

\* Windows does not let a file be removed while the agent has it open.
Disappear(f) ==
    /\ f \in Range(listing)
    /\ kind = "linux" \/ f # handle
    /\ Accident
    /\ listing' = Others(f)
    /\ UNCHANGED <<kind, content, created, written, starts, reader, stopping>>

-----------------------------------------------------------------------------
(* One line to one event: on_new_line.                                     *)

\* Files are given to the callback under the path of the configuration, except
\* in the pattern mode, which gives the name of the file; the types are looked
\* up by the path of the configuration.
Reported == IF kind = "pattern" THEN "file" ELSE "source"
Route(name) == IF name = "source" THEN "iis_access" ELSE "auto"

\* readline: a line is delivered in one piece only if it is complete.
Complete == /\ content[handle][pos + 1].part = "head"
            /\ pos + 2 <= Len(content[handle])
Deliver ==
    LET piece == content[handle][pos + 1]
    IN /\ pos' = IF Complete THEN pos + 2 ELSE pos + 1
       /\ delivered' = Append(delivered,
            [file |-> handle, line |-> piece.line,
             part |-> IF Complete THEN "whole" ELSE piece.part,
             parser |-> Route(Reported)])

-----------------------------------------------------------------------------
(* A path: _tail_loop and _watch_fixed.                                    *)

Path == kind # "pattern"
\* Only LinuxLogTailer.stop reaches the threads that follow files:
\* WindowsLogTailer.stop does not call its file tailer.
StopSeen == stopping /\ kind = "linux"

\* Mutant: a path is read from its start at each opening.
OpenPathFromStart ==
    /\ Path /\ stage = "open" /\ ~StopSeen /\ listing # <<>>
    /\ handle' = Named /\ pos' = 0 /\ stage' = "read"
    /\ UNCHANGED <<kind, files, accidents, starts, current, target, fromEnd, stopping,
                   delivered>>
OpenPath ==
    /\ Path /\ stage = "open" /\ ~StopSeen
    /\ listing # <<>>
    /\ handle' = Named
    /\ pos' = Len(content[Named])
    /\ stage' = "read"
    /\ UNCHANGED <<kind, files, accidents, starts, current, target, fromEnd, stopping,
                   delivered>>

DeniedPath ==
    /\ Path /\ stage = "open" /\ ~StopSeen
    /\ listing # <<>>
    /\ Accident
    /\ stage' = "ended"
    /\ UNCHANGED <<kind, files, starts, handle, pos, current, target, fromEnd, stopping,
                   delivered>>

ReadLine ==
    /\ stage = "read" /\ ToRead /\ ~StopSeen
    /\ Deliver
    /\ UNCHANGED <<kind, files, accidents, starts, stage, handle, current, target,
                   fromEnd, stopping>>

EndOfPath ==
    /\ Path /\ stage = "read" /\ ~ToRead /\ ~StopSeen
    /\ stage' = "check"
    /\ UNCHANGED <<kind, files, accidents, starts, handle, pos, current, target, fromEnd,
                   stopping, delivered>>

\* Mutant: the size is not compared with the position.
RotatedByInode == listing = <<>> \/ (kind = "linux" /\ Named # handle)
Rotated ==
    \/ listing = <<>>
    \/ kind = "linux" /\ (Named # handle \/ pos > Len(content[handle]))
    \/ kind = "fixed" /\ Len(content[Named]) < pos

CheckPath ==
    /\ stage = "check"
    /\ IF Rotated THEN handle' = None /\ pos' = 0 /\ stage' = "open"
                  ELSE stage' = "read" /\ UNCHANGED <<handle, pos>>
    /\ UNCHANGED <<kind, files, accidents, starts, current, target, fromEnd, stopping,
                   delivered>>

StopPath ==
    /\ Path /\ stage \in {"open", "read"} /\ StopSeen
    /\ stage' = "ended"
    /\ handle' = None /\ pos' = 0
    /\ UNCHANGED <<kind, files, accidents, starts, current, target, fromEnd, stopping,
                   delivered>>

-----------------------------------------------------------------------------
(* A pattern: _watch_pattern, _resolve_active, _drain.  A rescan is due at   *)
(* any time (every 30 seconds), and at once while nothing was ever opened.   *)

\* Mutants: the old file is closed without being drained; drained although none is open.
RescanNoDrain ==
    /\ kind = "pattern" /\ stage = "read" /\ listing # <<>> /\ Named # current
    /\ target' = Named /\ stage' = "open" /\ handle' = None /\ pos' = 0
    /\ UNCHANGED <<kind, files, accidents, starts, current, fromEnd, stopping, delivered>>
RescanDrainsNothing ==
    /\ kind = "pattern" /\ stage = "read" /\ listing # <<>> /\ Named # current
    /\ target' = Named /\ stage' = "drain"
    /\ UNCHANGED <<kind, files, accidents, starts, handle, pos, current, fromEnd, stopping,
                   delivered>>
Rescan ==
    /\ kind = "pattern" /\ stage = "read"
    /\ listing # <<>> /\ Named # current
    /\ target' = Named
    /\ stage' = IF handle # None THEN "drain" ELSE "open"
    /\ UNCHANGED <<kind, files, accidents, starts, handle, pos, current, fromEnd,
                   stopping, delivered>>

\* getmtime of a file removed since the glob raises, and nothing catches it.
RescanRaises(f) ==
    /\ kind = "pattern" /\ stage = "read"
    /\ f \in Range(listing) /\ f # handle
    /\ Accident
    /\ listing' = Others(f)
    /\ stage' = "ended"
    /\ UNCHANGED <<kind, content, created, written, starts, handle, pos, current, target,
                   fromEnd, stopping, delivered>>

Drain ==
    /\ stage = "drain" /\ ToRead
    /\ Deliver
    /\ UNCHANGED <<kind, files, accidents, starts, stage, handle, current, target,
                   fromEnd, stopping>>

Drained ==
    /\ stage = "drain" /\ ~ToRead
    /\ stage' = "open"
    /\ handle' = None /\ pos' = 0
    /\ UNCHANGED <<kind, files, accidents, starts, current, target, fromEnd, stopping,
                   delivered>>

\* Mutant: first_open is never cleared.
OpenTargetAtEnd ==
    /\ kind = "pattern" /\ stage = "open" /\ target \in Range(listing)
    /\ handle' = target /\ pos' = Len(content[target])
    /\ current' = target /\ stage' = "read"
    /\ UNCHANGED <<kind, files, accidents, starts, target, fromEnd, stopping, delivered>>
OpenTarget ==
    /\ kind = "pattern" /\ stage = "open"
    /\ target \in Range(listing)
    /\ handle' = target
    /\ pos' = IF fromEnd THEN Len(content[target]) ELSE 0
    /\ fromEnd' = FALSE
    /\ current' = target
    /\ stage' = "read"
    /\ UNCHANGED <<kind, files, accidents, starts, target, stopping, delivered>>

\* The file cannot be opened: `current` stays the file that was left.
TargetFails ==
    /\ kind = "pattern" /\ stage = "open"
    /\ IF target \in Range(listing) THEN Accident ELSE UNCHANGED accidents
    /\ stage' = "read"
    /\ UNCHANGED <<kind, files, starts, handle, pos, current, target, fromEnd, stopping,
                   delivered>>

-----------------------------------------------------------------------------
(* The agent.                                                              *)

Start ==
    /\ stage = "off" /\ starts < MaxStarts
    /\ starts' = starts + 1
    /\ stage' = IF kind = "pattern" THEN "read" ELSE "open"
    /\ handle' = None /\ pos' = 0 /\ current' = None /\ target' = None
    /\ fromEnd' = TRUE /\ stopping' = FALSE
    /\ UNCHANGED <<kind, files, accidents, delivered>>

Stop ==
    /\ stage # "off" /\ ~stopping
    /\ stopping' = TRUE
    /\ UNCHANGED <<kind, files, accidents, starts, reader>>

\* The process ends, whatever its daemon threads are doing.
Exit ==
    /\ stage # "off"
    /\ stage' = "off"
    /\ handle' = None /\ pos' = 0 /\ current' = None /\ target' = None
    /\ UNCHANGED <<kind, files, accidents, starts, fromEnd, stopping, delivered>>

Init ==
    /\ kind \in Kinds
    /\ listing = <<>> /\ content = [f \in Files |-> <<>>]
    /\ created = 0 /\ written = 0 /\ accidents = 0 /\ starts = 0
    /\ stage = "off" /\ handle = None /\ pos = 0 /\ current = None /\ target = None
    /\ fromEnd = TRUE /\ stopping = FALSE
    /\ delivered = <<>>

Thread ==
    \/ OpenPath \/ ReadLine \/ EndOfPath \/ CheckPath \/ StopPath
    \/ Rescan \/ Drain \/ Drained \/ OpenTarget

Next ==
    \/ Thread \/ DeniedPath \/ TargetFails
    \/ Start \/ Stop \/ Exit
    \/ Create \/ Truncate
    \/ \E f \in Files : Write(f) \/ Disappear(f) \/ RescanRaises(f)

Spec == Init /\ [][Next]_vars

\* The thread runs, and a rescan is due again and again; nothing is assumed of
\* the programs that write, nor that the agent is started or stopped.
FairSpec == Spec /\ WF_vars(Thread \/ TargetFails) /\ WF_vars(Rescan) /\ WF_vars(ReadLine)
                 /\ WF_vars(OpenTarget)

-----------------------------------------------------------------------------
TypeOK ==
    /\ kind \in Kinds
    /\ listing \in Seq(Files) /\ IsInjective(listing)
    /\ \A f \in Files : content[f] \in Seq([line : 1 .. MaxLines,
                                    part : {"whole", "head", "rest"}])
    /\ created \in 0 .. MaxFiles /\ written \in 0 .. MaxLines
    /\ accidents \in 0 .. MaxAccidents /\ starts \in 0 .. MaxStarts
    /\ stage \in {"off", "open", "read", "check", "drain", "ended"}
    /\ {handle, current, target} \subseteq Files \cup {None}
    /\ pos \in Nat /\ fromEnd \in BOOLEAN /\ stopping \in BOOLEAN
    /\ stage \in {"check", "drain"} => handle # None
    /\ \A i \in DOMAIN delivered :
        /\ delivered[i].file \in Files /\ delivered[i].line \in 1 .. MaxLines

\* A path never gives a line twice, nor the lines of a file in another order
\* than they were written, over rotations, truncations and restarts: every
\* opening is at the end (linux.py:85, windows.py:456).
PathDeliversOnce ==
    Path => \A i, j \in DOMAIN delivered :
        i < j /\ delivered[i].file = delivered[j].file =>
            \/ delivered[i].line < delivered[j].line
            \/ /\ delivered[i].line = delivered[j].line
               /\ delivered[i].part = "head" /\ delivered[j].part = "rest"

\* Without accident nor restart, what is given of a file has no hole: a line
\* written between two lines that were given was given too, rotations and the
\* switches of the pattern mode included (windows.py:398-406, 418-438).
NoHole ==
    starts = 1 /\ accidents = 0 => \A i, j \in DOMAIN delivered :
        i < j /\ delivered[i].file = delivered[j].file =>
            \A k \in DOMAIN content[delivered[i].file] :
                content[delivered[i].file][k].line
                        \in delivered[i].line .. delivered[j].line
                => \E g \in 1 .. j : delivered[g].line = content[delivered[i].file][k].line

\* A line that is in the open file when the pattern mode follows it is given
\* in the end, even if the file is rotated meanwhile ("l'ancien fichier est
\* draine avant la bascule", INSTALLATION.md:354). A path gives no more than
\* this: it does not stay before the line for ever.
Waits(n) == ToRead /\ n \in {content[handle][i].line : i \in pos + 1 .. Len(content[handle])}
LineGiven ==
    \A n \in 1 .. MaxLines : Waits(n) ~>
        \/ \E i \in DOMAIN delivered : delivered[i].line = n
        \/ ~Alive
        \/ Path /\ ~Waits(n)

\* The file that a path names is in the end the one that is open, at a place
\* it has: a rotation, a removal or a truncation is noticed, unless the agent
\* stops or was refused the file (linux.py:104-121, windows.py:468-475). A file
\* that grows past the position before the check is at such a place too: its
\* lines since the truncation are not given. A fixed path cannot be rotated
\* while it is open, so it meets truncations and new files only.
Follows(f) == handle = f /\ pos <= Len(content[f])
FollowsPath ==
    \A f \in Files : Path /\ Alive /\ listing = <<f>> ~>
        Follows(f) \/ listing # <<f>> \/ ~Alive \/ StopSeen

\* The lines of a source declared iis_access are read by the IIS parser
\* (INSTALLATION.md:340-346, config.example.yaml:67-68).
IisLinesParsed == \A i \in DOMAIN delivered : delivered[i].parser = "iis_access"

=============================================================================
