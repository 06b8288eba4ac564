---------------------------- MODULE RotateWriter ----------------------------
(***************************************************************************)
(* The rotating access-log writer (onr/internal/logx/                      *)
(* access_rotate_writer.go).  Writes are serialised by the writer's mutex, *)
(* so a write with its rotation is one step; closing, renaming, reopening, *)
(* compressing and removing files may each fail.                           *)
(*                                                                         *)
(* Entries are numbered in the order they are offered.  An archive's name  *)
(* is its timestamp: here the number of its rotation, with the day.  Local *)
(* time does not go back.                                                  *)
(***************************************************************************)
EXTENDS Naturals, FiniteSets, FiniteSetsExt

CONSTANTS
    Sizes,          \* sizes of entries
    MaxSize,        \* max_size_mb
    MaxBackups,     \* max_backups
    MaxAge,         \* max_age_days; 0 keeps archives of any age
    Compress,       \* compress
    MaxEntries, MaxDays,    \* bounds on the run
    None

ASSUME RotateAssumption ==
    /\ Sizes \subseteq Nat \ {0}
    /\ MaxSize \in Nat \ {0} /\ MaxBackups \in Nat \ {0} /\ MaxAge \in Nat
    /\ Compress \in BOOLEAN
    /\ MaxEntries \in Nat /\ MaxDays \in Nat \ {0}
    /\ \A S \in SUBSET (1..MaxEntries) : S # None

VARIABLES
    active,         \* the entries in the active file, or None if it is gone
    archives,       \* archive files: [at, day, gz, entries]
    handle,         \* w.f: "open", "stale" (closed, still set) or "nil"
    currentSize, currentDay, closed,
    today, offered, rotations,
    sizeOf,         \* history: entry -> its size
    acked           \* history: entries whose Write returned no error

vars == <<active, archives, handle, currentSize, currentDay, closed, today, offered, rotations,
          sizeOf, acked>>

Entries == 1..MaxEntries

SizeOn(content) == MapThenSumSet(LAMBDA e : sizeOf[e], content)

Init ==
    /\ active = {} /\ archives = {}
    /\ handle = "open" /\ currentSize = 0 /\ currentDay = 1 /\ closed = FALSE
    /\ today = 1 /\ offered = 0 /\ rotations = 0
    /\ sizeOf = [e \in Entries |-> 0]
    /\ acked = {}

Midnight ==
    /\ today < MaxDays
    /\ today' = today + 1
    /\ UNCHANGED <<active, archives, handle, currentSize, currentDay, closed, offered, rotations,
                   sizeOf, acked>>

-----------------------------------------------------------------------------
\* The writer and its files as one value: the steps of a Write map such values
\* to sets of outcomes, with the error the step returned.

Files ==
    [active |-> active, archives |-> archives, handle |-> handle,
     size |-> currentSize, day |-> currentDay, rotations |-> rotations]

Fails(s) == [files |-> s, ok |-> FALSE]
Succeeds(s) == [files |-> s, ok |-> TRUE]

ReopenMutNewFile(s) ==
    LET content == IF s.active = None THEN {} ELSE s.active
    IN  [s EXCEPT !.active = content, !.handle = "open", !.size = 0, !.day = today]

\* openActiveLogFile (O_CREATE|O_APPEND) and reopenActiveLocked.
Reopen(s) ==
    LET content == IF s.active = None THEN {} ELSE s.active
    IN  [s EXCEPT !.active = content, !.handle = "open", !.size = SizeOn(content), !.day = today]

LatestMutOldest(files) ==
    {k \in SUBSET files :
        /\ Cardinality(k) = IF Cardinality(files) < MaxBackups THEN Cardinality(files) ELSE MaxBackups
        /\ \A a \in k, b \in files \ k : a.at <= b.at}

\* The MaxBackups latest files; equal timestamps, a file and its compressed
\* copy, sort in either order.
Latest(files) ==
    {k \in SUBSET files :
        /\ Cardinality(k) = IF Cardinality(files) < MaxBackups THEN Cardinality(files) ELSE MaxBackups
        /\ \A a \in k, b \in files \ k : b.at <= a.at}

\* Whether a file of exactly MaxAge days is older than the cutoff depends on
\* the time of day.
Aged(a) == MaxAge > 0 /\ today - a.day >= MaxAge

\* cleanupArchivesLocked: a file that cannot be removed stays.
Cleanup(s) ==
    {Succeeds([s EXCEPT !.archives = @ \ x]) :
        x \in UNION {SUBSET ((s.archives \ k) \cup {a \in s.archives : Aged(a)}) :
                       k \in Latest(s.archives)}}

ReopenAndClean(s) == {Fails(s)} \cup Cleanup(Reopen(s))

\* compressArchiveFile: it may fail before the compressed copy exists, or on
\* removing the original.
CompressLatest(s) ==
    LET plain == CHOOSE a \in s.archives : a.at = s.rotations
        gz == [plain EXCEPT !.gz = TRUE]
    IN  {Fails(s), Fails([s EXCEPT !.archives = @ \cup {gz}])}
            \cup ReopenAndClean([s EXCEPT !.archives = (@ \ {plain}) \cup {gz}])

\* The active file becomes an archive.
Renamed(s) ==
    [s EXCEPT !.active = None, !.rotations = @ + 1,
              !.archives = @ \cup {[at |-> s.rotations + 1, day |-> today, gz |-> FALSE,
                                    entries |-> s.active]}]

RenameFails(s) == {Fails(s), Fails(Reopen(s))}

Rename(s) ==
    IF s.active = None THEN ReopenAndClean(s)
    ELSE RenameFails(s)
            \cup (IF Compress THEN CompressLatest(Renamed(s)) ELSE ReopenAndClean(Renamed(s)))

\* rotateLocked: a file that failed to close once fails again.
Rotate(s) ==
    LET closing == [s EXCEPT !.handle = "nil"]
    IN  CASE s.handle = "nil" -> Rename(s)
          [] s.handle = "open" -> {Fails([s EXCEPT !.handle = "stale"])} \cup Rename(closing)
          [] s.handle = "stale" -> {Fails(s)}

\* rotateIfNeededLocked.
Rotated(s, z) ==
    IF today # s.day \/ (s.size > 0 /\ s.size + z > MaxSize) THEN Rotate(s) ELSE {Succeeds(s)}

\* The entry reaches the file, or Write returns an error.
Written(o, e, z) ==
    IF o.ok /\ o.files.handle = "open"
    THEN {Fails(o.files), Succeeds([o.files EXCEPT !.active = @ \cup {e}, !.size = @ + z])}
    ELSE {Fails(o.files)}

Become(s) ==
    /\ active' = s.active /\ archives' = s.archives /\ handle' = s.handle
    /\ currentSize' = s.size /\ currentDay' = s.day /\ rotations' = s.rotations

Write(z) ==
    /\ offered < MaxEntries /\ ~closed
    /\ offered' = offered + 1
    /\ sizeOf' = [sizeOf EXCEPT ![offered'] = z]
    /\ \E o \in Rotated(Files, z) : \E w \in Written(o, offered', z) :
          /\ Become(w.files)
          /\ acked' = IF w.ok THEN acked \cup {offered'} ELSE acked
    /\ UNCHANGED <<closed, today>>

Close ==
    /\ ~closed
    /\ closed' = TRUE /\ handle' = "nil"
    /\ UNCHANGED <<active, archives, currentSize, currentDay, today, offered, rotations,
                   sizeOf, acked>>

\* NewAccessRotateWriter on the files that are there, after a Close or a crash.
Restart ==
    /\ Become(Reopen(Files))
    /\ closed' = FALSE
    /\ UNCHANGED <<today, offered, sizeOf, acked>>

Next == Midnight \/ (\E z \in Sizes : Write(z)) \/ Close \/ Restart

Spec == Init /\ [][Next]_vars

-----------------------------------------------------------------------------
ArchiveFiles ==
    [at : 1..MaxEntries, day : 1..MaxDays, gz : BOOLEAN, entries : SUBSET Entries]

\* Types; the writer holds a file only while the active file has its name.
TypeOK ==
    /\ active = None \/ active \subseteq Entries
    /\ archives \subseteq ArchiveFiles
    /\ handle \in {"open", "stale", "nil"}
    /\ handle = "open" => active # None
    /\ currentSize \in Nat /\ currentDay \in 1..MaxDays /\ rotations \in 0..MaxEntries
    /\ acked \subseteq 1..offered

\* max_size_mb, "rotate when current file size would exceed this threshold"
\* (config/onr.example.yaml): over failed rotations and restarts the active
\* file grows past it only by a single entry that is itself larger, and the
\* writer never holds a file that was renamed away.
ActiveIsBounded ==
    /\ TypeOK
    /\ active # None => SizeOn(active) <= MaxSize \/ Cardinality(active) <= 1

In(e, files) == \E a \in files : e \in a.entries

\* max_backups, "keep only the latest N archived files", and max_age_days: an
\* entry that was logged disappears only with an archive that is old enough or
\* has N files at least as late beside it, whichever step of a rotation fails.
LatestAreKept ==
    [][\A e \in acked :
         ((active # None /\ e \in active) \/ In(e, archives)) =>
            \/ active' # None /\ e \in active'
            \/ In(e, archives')
            \/ \E a \in archives : e \in a.entries /\
                  (Aged(a) \/ Cardinality({b \in archives' : b.at >= a.at}) >= MaxBackups)]_vars
=============================================================================
