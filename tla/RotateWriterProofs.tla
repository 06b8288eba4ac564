------------------------- MODULE RotateWriterProofs -------------------------
(* Proofs about RotateWriter for any sizes, limits and ages, any number of   *)
(* entries and days, and any sequence of failures.                           *)
EXTENDS RotateWriter, SumTheorems

-----------------------------------------------------------------------------
\* The writer and its files as one value, as the steps of a Write see it.

Fits(content) == SizeOn(content) <= MaxSize \/ Cardinality(content) <= 1

FileSets ==
    [active : {None} \cup SUBSET Entries, archives : SUBSET ArchiveFiles,
     handle : {"open", "stale", "nil"}, size : Nat, day : 1..MaxDays, rotations : 0..MaxEntries]

\* Archives are named and dated in the order of their rotations, none of them
\* in the future.
Dated(s) ==
    /\ \A a \in s.archives : a.at <= s.rotations /\ a.day <= today
    /\ \A a, b \in s.archives : a.at <= b.at => a.day <= b.day

\* What the writer counts is what the file has.
Holds(s) ==
    /\ s \in FileSets /\ IsFiniteSet(s.archives)
    /\ s.handle = "open" => s.active # None /\ s.size = SizeOn(s.active)
    /\ s.active # None => Fits(s.active)
    /\ Dated(s)

Clock == today \in 1..MaxDays /\ sizeOf \in [Entries -> Nat]

\* An entry of s is in t, or went with an archive that retention lets go.
In0(e, s) == (s.active # None /\ e \in s.active) \/ In(e, s.archives)
Keeps(s, t) ==
    \A e : In0(e, s) =>
        \/ In0(e, t)
        \/ \E a \in s.archives : e \in a.entries /\
              (Aged(a) \/ Cardinality({b \in t.archives : b.at >= a.at}) >= MaxBackups)

\* A rotation of s on its way: nothing is lost, and an archive that is new is
\* of today and the only latest one.
Ready(s, t) ==
    /\ Holds(t)
    /\ \A e : In0(e, s) => In0(e, t)
    /\ \A a \in t.archives : a \in s.archives \/ (a.day = today /\ \A b \in t.archives : b.at >= a.at => b = a)

\* What becomes of a Write's file before the entry is written.
Outcome(s, o) ==
    /\ Holds(o.files) /\ Keeps(s, o.files)
    /\ o.files.rotations <= s.rotations + 1
    /\ o.files.active \in {None, {}, s.active}
    /\ o.ok => o.files.active = {} /\ o.files.size = 0

LEMMA EntriesFinite == IsFiniteSet(Entries) /\ \A S \in SUBSET Entries : IsFiniteSet(S)
<1>1. IsFiniteSet(Entries)
  BY RotateAssumption, FS_Interval DEF Entries
<1> QED BY <1>1, FS_Subset

LEMMA SizeIsSum == \A S : SizeOn(S) = Sum(sizeOf, S)
BY DEF SizeOn, Sum

LEMMA SizeType == Clock => /\ SizeOn({}) = 0
                           /\ \A S \in SUBSET Entries : SizeOn(S) \in Nat
<1> SUFFICES ASSUME Clock PROVE SizeOn({}) = 0 /\ \A S \in SUBSET Entries : SizeOn(S) \in Nat
  OBVIOUS
<1>1. \A e \in Entries : sizeOf[e] \in Nat
  BY DEF Clock
<1>2. \A S \in SUBSET Entries : Sum(sizeOf, S) \in Nat
  BY <1>1, EntriesFinite, SumType
<1>3. Sum(sizeOf, {}) = 0
  BY SumStep, FS_EmptySet
<1> QED BY <1>2, <1>3, SizeIsSum

LEMMA ReadyKeeps == ASSUME NEW s, NEW t, Ready(s, t) PROVE Keeps(s, t)
BY DEF Ready, Keeps

LEMMA ReadySelf == ASSUME NEW s, Holds(s) PROVE Ready(s, s)
BY DEF Ready

\* Opening the file that has the name, or a new one.
LEMMA ReopenReady ==
    ASSUME NEW s, NEW t, Clock, Ready(s, t)
    PROVE  /\ Ready(s, Reopen(t)) /\ Reopen(t).archives = t.archives /\ Reopen(t).handle = "open"
           /\ Reopen(t).rotations = t.rotations
           /\ t.active = None => Reopen(t).active = {} /\ Reopen(t).size = 0
           /\ t.active # None => Reopen(t).active = t.active
<1> DEFINE content == IF t.active = None THEN {} ELSE t.active
           r == [t EXCEPT !.active = content, !.handle = "open", !.size = SizeOn(content), !.day = today]
<1>0. Reopen(t) = r
  BY DEF Reopen
<1>1. t \in FileSets
  BY DEF Ready, Holds
<1>2. content \in SUBSET Entries /\ content # None
  BY <1>1, RotateAssumption DEF FileSets, Entries
<1>3. SizeOn(content) \in Nat /\ SizeOn({}) = 0
  BY <1>2, SizeType
<1>4. r \in FileSets
  BY <1>1, <1>2, <1>3 DEF FileSets, Clock
<1>5. /\ r.active = content /\ r.archives = t.archives /\ r.handle = "open"
      /\ r.size = SizeOn(content) /\ r.rotations = t.rotations
  BY <1>1 DEF FileSets
<1> HIDE DEF r
<1>6. Fits(content)
  <2>1. CASE t.active = None
    BY <2>1, <1>3, RotateAssumption DEF Fits
  <2>2. CASE t.active # None
    BY <2>2 DEF Ready, Holds
  <2> QED BY <2>1, <2>2
<1>7. Holds(r)
  BY <1>2, <1>4, <1>5, <1>6 DEF Ready, Holds, Dated
<1>8. Ready(s, r)
  <2>1. \A e : In0(e, t) => In0(e, r)
    BY <1>2, <1>5 DEF In0
  <2> QED BY <1>5, <1>7, <2>1 DEF Ready
<1> QED BY <1>0, <1>3, <1>5, <1>8

\* Fewer archives are still in order.
LEMMA FewerHold ==
    ASSUME NEW t, Holds(t), NEW x
    PROVE  LET c == [t EXCEPT !.archives = @ \ x]
           IN  /\ Holds(c) /\ c.archives = t.archives \ x /\ c.active = t.active
               /\ c.handle = t.handle /\ c.size = t.size /\ c.rotations = t.rotations
<1> DEFINE c == [t EXCEPT !.archives = @ \ x]
<1>1. t \in FileSets /\ IsFiniteSet(t.archives)
  BY DEF Holds
<1>2. c \in FileSets
  BY <1>1 DEF FileSets
<1>3. /\ c.archives = t.archives \ x /\ c.active = t.active
      /\ c.handle = t.handle /\ c.size = t.size /\ c.rotations = t.rotations
  BY <1>1 DEF FileSets
<1> HIDE DEF c
<1>4. IsFiniteSet(c.archives)
  BY <1>1, <1>3, FS_Subset
<1>5. Holds(c)
  BY <1>2, <1>3, <1>4 DEF Holds, Dated
<1> QED BY <1>3, <1>5 DEF c

\* The cleanup after a rotation removes nothing new, and an old archive only if
\* it is aged or there are enough others.
LEMMA CleanupKeeps ==
    ASSUME NEW s, NEW t, Clock, Ready(s, t), NEW o \in Cleanup(t)
    PROVE  /\ Holds(o.files) /\ Keeps(s, o.files) /\ o.ok
           /\ o.files.active = t.active /\ o.files.size = t.size /\ o.files.handle = t.handle
           /\ o.files.rotations = t.rotations
<1> DEFINE F == t.archives
<1>0. PICK k \in Latest(F) : \E x \in SUBSET ((F \ k) \cup {a \in F : Aged(a)}) :
        o = Succeeds([t EXCEPT !.archives = @ \ x])
  BY DEF Cleanup
<1>1. PICK x \in SUBSET ((F \ k) \cup {a \in F : Aged(a)}) : o = Succeeds([t EXCEPT !.archives = @ \ x])
  BY <1>0
<1> DEFINE c == [t EXCEPT !.archives = @ \ x]
<1>2. o.files = c /\ o.ok
  BY <1>1 DEF Succeeds
<1>3. /\ Holds(c) /\ c.archives = F \ x /\ c.active = t.active
      /\ c.handle = t.handle /\ c.size = t.size /\ c.rotations = t.rotations
  BY FewerHold DEF Ready
<1> HIDE DEF c
<1>4. /\ IsFiniteSet(F) /\ Cardinality(F) \in Nat
      /\ \A a \in F : a.at \in Nat /\ a.day \in Nat /\ a.day <= today
      /\ \A a, b \in F : a.at <= b.at => a.day <= b.day
      /\ today \in Nat
  <2>1. IsFiniteSet(F) /\ F \subseteq ArchiveFiles /\ Dated(t)
    BY DEF Ready, Holds, FileSets
  <2>2. Cardinality(F) \in Nat
    BY <2>1, FS_CardinalityType
  <2> QED BY <2>1, <2>2 DEF Dated, ArchiveFiles, Clock
<1>5. /\ k \subseteq F /\ IsFiniteSet(k)
      /\ Cardinality(k) = IF Cardinality(F) < MaxBackups THEN Cardinality(F) ELSE MaxBackups
      /\ \A a \in k, b \in F \ k : b.at <= a.at
  BY <1>4, FS_Subset DEF Latest
\* What is new is the latest and of today.
<1>6. ASSUME NEW a \in F, a \notin s.archives PROVE a \notin x
  <2>1. a.day = today /\ \A b \in F : b.at >= a.at => b = a
    BY <1>6 DEF Ready
  <2>2. ~Aged(a)
    BY <1>4, <2>1, RotateAssumption DEF Aged
  <2>3. a \in k
    <3>1. Cardinality(F) # 0
      BY <1>4, FS_EmptySet
    <3>2. Cardinality(k) # 0
      BY <1>4, <1>5, <3>1, RotateAssumption
    <3>3. PICK b \in k : TRUE
      BY <1>5, <3>2, FS_EmptySet
    <3> QED BY <1>4, <1>5, <2>1, <3>3
  <2> QED BY <2>2, <2>3
\* An old archive leaves the latest ones behind.
<1>7. ASSUME NEW a \in x, ~Aged(a) PROVE Cardinality({b \in c.archives : b.at >= a.at}) >= MaxBackups
  <2>1. a \in F \ k
    BY <1>7
  <2>2. Cardinality(k) = MaxBackups
    <3>1. Cardinality(k) # Cardinality(F)
      BY <1>4, <1>5, <2>1, FS_Subset
    <3> QED BY <1>5, <3>1
  <2>3. ASSUME NEW b \in k PROVE ~Aged(b) /\ b.at >= a.at
    <3>1. a.at <= b.at
      BY <1>5, <2>1
    <3>2. a.day <= b.day /\ a.day \in Nat /\ b.day \in Nat
      BY <1>4, <1>5, <2>1, <3>1
    <3>3. ~Aged(b)
      BY <1>4, <1>7, <3>2, RotateAssumption DEF Aged
    <3>4. b.at \in Nat /\ a.at \in Nat
      BY <1>4, <1>5, <2>1
    <3> QED BY <3>1, <3>3, <3>4
  <2> DEFINE L == {b \in c.archives : b.at >= a.at}
  <2>4. k \in SUBSET L
    BY <1>3, <1>5, <2>3
  <2>5. IsFiniteSet(L)
    BY <1>3, FS_Subset DEF Holds
  <2>6. Cardinality(k) <= Cardinality(L) /\ Cardinality(L) \in Nat
    BY <2>4, <2>5, FS_Subset, FS_CardinalityType
  <2> QED BY <2>2, <2>6, RotateAssumption
<1>8. ASSUME NEW e, In0(e, s)
      PROVE  \/ In0(e, c)
             \/ \E a \in s.archives : e \in a.entries /\
                  (Aged(a) \/ Cardinality({b \in c.archives : b.at >= a.at}) >= MaxBackups)
  <2>1. In0(e, t)
    BY <1>8 DEF Ready
  <2>2. CASE t.active # None /\ e \in t.active
    BY <1>3, <2>2 DEF In0
  <2>3. CASE In(e, t.archives)
    <3>1. PICK a \in F : e \in a.entries
      BY <2>3 DEF In
    <3>2. CASE a \notin x
      BY <1>3, <3>1, <3>2 DEF In0, In
    <3>3. CASE a \in x
      <4>1. a \in s.archives
        BY <1>6, <3>3
      <4> QED BY <1>7, <3>1, <3>3, <4>1
    <3> QED BY <3>2, <3>3
  <2> QED BY <2>1, <2>2, <2>3 DEF In0
<1>9. Keeps(s, c)
  BY <1>8 DEF Keeps
<1> QED BY <1>2, <1>3, <1>9

\* A step of a rotation that returns an error leaves everything in its place.
LEMMA FailsIsOutcome ==
    ASSUME NEW s, NEW t, Holds(t), \A e : In0(e, s) => In0(e, t), t.rotations <= s.rotations + 1,
           t.active \in {None, {}, s.active}
    PROVE  Outcome(s, Fails(t))
<1>1. Fails(t).files = t /\ ~Fails(t).ok
  BY DEF Fails
<1>2. Keeps(s, t)
  BY DEF Keeps
<1> QED BY <1>1, <1>2 DEF Outcome

LEMMA ReopenAndCleanOutcome ==
    ASSUME NEW s, NEW t, Clock, Ready(s, t), t.active = None, t.rotations <= s.rotations + 1,
           NEW o \in ReopenAndClean(t)
    PROVE  Outcome(s, o)
<1>1. CASE o = Fails(t)
  BY <1>1, FailsIsOutcome DEF Ready
<1>2. CASE o \in Cleanup(Reopen(t))
  <2>1. /\ Ready(s, Reopen(t)) /\ Reopen(t).active = {} /\ Reopen(t).size = 0
        /\ Reopen(t).rotations = t.rotations
    BY ReopenReady
  <2>2. /\ Holds(o.files) /\ Keeps(s, o.files)
        /\ o.files.active = {} /\ o.files.size = 0 /\ o.files.rotations = t.rotations
    BY <1>2, <2>1, CleanupKeeps
  <2> QED BY <2>2 DEF Outcome
<1> QED BY <1>1, <1>2 DEF ReopenAndClean

\* The renamed file is the latest archive, with its entries.
LEMMA RenamedReady ==
    ASSUME NEW s, Clock, Holds(s), s.active # None, s.handle # "open", s.rotations < MaxEntries
    PROVE  LET t == Renamed(s)
           IN  /\ Ready(s, t) /\ t.active = None /\ t.rotations = s.rotations + 1
               /\ \E a \in t.archives : a.at = t.rotations /\ a \notin s.archives
               /\ \A a \in t.archives : a.at = t.rotations => a \notin s.archives /\ ~a.gz
               /\ t.handle = s.handle
<1> DEFINE n == [at |-> s.rotations + 1, day |-> today, gz |-> FALSE, entries |-> s.active]
           t == [s EXCEPT !.active = None, !.rotations = @ + 1, !.archives = @ \cup {n}]
<1>0. Renamed(s) = t
  BY DEF Renamed
<1>1. s \in FileSets /\ IsFiniteSet(s.archives) /\ Dated(s)
  BY DEF Holds
<1>2. n \in ArchiveFiles
  BY <1>1, RotateAssumption DEF ArchiveFiles, FileSets, Clock
<1>3. n.at = s.rotations + 1 /\ n.day = today /\ n.gz = FALSE /\ n.entries = s.active
  OBVIOUS
<1> HIDE DEF n
<1>4. t \in FileSets
  <2>1. s.archives \cup {n} \in SUBSET ArchiveFiles /\ s.rotations + 1 \in 0..MaxEntries
    BY <1>1, <1>2, RotateAssumption DEF FileSets
  <2> QED BY <1>1, <2>1 DEF FileSets
<1>5. /\ t.active = None /\ t.rotations = s.rotations + 1 /\ t.archives = s.archives \cup {n}
      /\ t.handle = s.handle
  BY <1>1 DEF FileSets
<1> HIDE DEF t
<1>6. /\ \A a \in s.archives : a.at \in Nat /\ a.day \in Nat /\ a.at <= s.rotations /\ a.day <= today
      /\ s.rotations \in Nat /\ today \in Nat
  BY <1>1 DEF FileSets, ArchiveFiles, Dated, Clock
<1>7. n \notin s.archives /\ \A a \in s.archives : ~(a.at >= n.at)
  BY <1>3, <1>6
<1>8. Dated(t)
  <2>1. \A a \in t.archives : a.at <= t.rotations /\ a.day <= today
    BY <1>3, <1>5, <1>6
  <2>2. \A a, b \in t.archives : a.at <= b.at => a.day <= b.day
    BY <1>1, <1>3, <1>5, <1>6, <1>7 DEF Dated
  <2> QED BY <2>1, <2>2 DEF Dated
<1>9. IsFiniteSet(t.archives)
  BY <1>1, <1>5, FS_AddElement
<1>10. Holds(t)
  BY <1>4, <1>5, <1>8, <1>9 DEF Holds
<1>11. \A e : In0(e, s) => In0(e, t)
  BY <1>3, <1>5 DEF In0, In
<1>12. Ready(s, t)
  BY <1>3, <1>5, <1>7, <1>10, <1>11 DEF Ready
<1>13. \A a \in t.archives : a.at = t.rotations => a = n
  BY <1>5, <1>6
<1> QED BY <1>0, <1>3, <1>5, <1>7, <1>12, <1>13

\* The compressed copy has the entries of the original, wherever it fails.
LEMMA CompressOutcome ==
    ASSUME NEW s, NEW t, Clock, Ready(s, t), t.active = None, t.rotations = s.rotations + 1,
           \E a \in t.archives : a.at = t.rotations,
           \A a \in t.archives : a.at = t.rotations => a \notin s.archives,
           t.handle # "open", NEW o \in CompressLatest(t)
    PROVE  Outcome(s, o)
<1> DEFINE plain == CHOOSE a \in t.archives : a.at = t.rotations
           gz == [plain EXCEPT !.gz = TRUE]
           both == [t EXCEPT !.archives = @ \cup {gz}]
           only == [t EXCEPT !.archives = (@ \ {plain}) \cup {gz}]
<1>1. plain \in t.archives /\ plain.at = t.rotations
  OBVIOUS
<1>2. plain \notin s.archives
  BY <1>1
<1>3. o \in {Fails(t), Fails(both)} \cup ReopenAndClean(only)
  BY DEF CompressLatest
<1> HIDE DEF plain
<1>4. t \in FileSets /\ IsFiniteSet(t.archives) /\ Dated(t) /\ plain \in ArchiveFiles
  BY <1>1 DEF Ready, Holds, FileSets
<1>5. /\ gz \in ArchiveFiles /\ gz.at = plain.at /\ gz.day = plain.day /\ gz.entries = plain.entries
  BY <1>4 DEF ArchiveFiles
<1> HIDE DEF gz
<1>6. /\ both \in FileSets /\ both.archives = t.archives \cup {gz} /\ both.active = None
      /\ both.handle = t.handle /\ both.rotations = t.rotations
      /\ only \in FileSets /\ only.archives = (t.archives \ {plain}) \cup {gz} /\ only.active = None
      /\ only.handle = t.handle /\ only.rotations = t.rotations
  BY <1>4, <1>5 DEF FileSets
<1> HIDE DEF both, only
<1>7. IsFiniteSet(both.archives) /\ IsFiniteSet(only.archives)
  <2>1. IsFiniteSet(t.archives \ {plain})
    BY <1>4, FS_RemoveElement
  <2> QED BY <1>4, <1>6, <2>1, FS_AddElement
<1>8. Dated(both)
  <2>1. \A a \in both.archives : a.at <= both.rotations /\ a.day <= today
    BY <1>1, <1>4, <1>5, <1>6 DEF Dated
  <2>2. \A a \in both.archives : \E b \in t.archives : a.at = b.at /\ a.day = b.day
    BY <1>1, <1>5, <1>6
  <2>3. \A a, b \in both.archives : a.at <= b.at => a.day <= b.day
    BY <1>4, <2>2 DEF Dated
  <2> QED BY <2>1, <2>3 DEF Dated
<1>9. only.archives \subseteq both.archives
  BY <1>6
<1>10. Dated(only)
  BY <1>6, <1>8, <1>9 DEF Dated
<1>11. Holds(both) /\ Holds(only)
  BY <1>6, <1>7, <1>8, <1>10 DEF Holds
<1>12. \A e : In0(e, t) => In0(e, both) /\ In0(e, only)
  BY <1>1, <1>5, <1>6 DEF In0, In
<1>13. Ready(s, only)
  <2>1. \A e : In0(e, s) => In0(e, only)
    BY <1>12 DEF Ready
  <2>2. plain.day = today /\ \A b \in t.archives : b.at >= plain.at => b = plain
    BY <1>1, <1>2 DEF Ready
  <2>3. gz.day = today /\ \A b \in only.archives : b.at >= gz.at => b = gz
    BY <1>5, <1>6, <2>2
  <2>4. ASSUME NEW a \in only.archives, a # gz, a \notin s.archives
        PROVE  a.day = today /\ \A b \in only.archives : b.at >= a.at => b = a
    <3>1. a \in t.archives /\ a # plain
      BY <1>6, <2>4
    <3>2. a.day = today /\ \A b \in t.archives : b.at >= a.at => b = a
      BY <2>4, <3>1 DEF Ready
    <3>3. ~(plain.at >= a.at)
      BY <1>1, <3>1, <3>2
    <3> QED BY <1>5, <1>6, <3>2, <3>3
  <2> QED BY <1>11, <2>1, <2>3, <2>4 DEF Ready
<1>14. s.rotations + 1 <= s.rotations + 1
  BY <1>4 DEF FileSets
<1>15. CASE o = Fails(t)
  BY <1>14, <1>15, FailsIsOutcome DEF Ready
<1>16. CASE o = Fails(both)
  BY <1>6, <1>11, <1>12, <1>14, <1>16, FailsIsOutcome DEF Ready
<1>17. CASE o \in ReopenAndClean(only)
  BY <1>6, <1>13, <1>14, <1>17, ReopenAndCleanOutcome
<1> QED BY <1>3, <1>15, <1>16, <1>17

LEMMA RenameOutcome ==
    ASSUME NEW s, Clock, Holds(s), s.handle # "open", s.rotations < MaxEntries, NEW o \in Rename(s)
    PROVE  Outcome(s, o)
<1>1. Ready(s, s) /\ s.rotations <= s.rotations + 1
  BY ReadySelf DEF Holds, FileSets
<1>2. CASE s.active = None
  BY <1>1, <1>2, ReopenAndCleanOutcome DEF Rename
<1>3. CASE s.active # None
  <2> DEFINE t == Renamed(s)
  <2>1. /\ Ready(s, t) /\ t.active = None /\ t.rotations = s.rotations + 1 /\ t.handle # "open"
        /\ \E a \in t.archives : a.at = t.rotations
        /\ \A a \in t.archives : a.at = t.rotations => a \notin s.archives
    BY <1>3, RenamedReady
  <2> HIDE DEF t
  <2>2. t.rotations <= s.rotations + 1
    BY <2>1 DEF Holds, FileSets
  <2>3. \/ o \in RenameFails(s)
        \/ o \in CompressLatest(t)
        \/ o \in ReopenAndClean(t)
    BY <1>3 DEF Rename, t
  <2>4. CASE o = Fails(s)
    BY <1>1, <2>4, FailsIsOutcome
  <2>5. CASE o = Fails(Reopen(s))
    <3>1. Ready(s, Reopen(s)) /\ Reopen(s).rotations = s.rotations /\ Reopen(s).active = s.active
      BY <1>1, <1>3, ReopenReady
    <3> QED BY <1>1, <2>5, <3>1, FailsIsOutcome DEF Ready
  <2>6. CASE o \in CompressLatest(t)
    BY <2>1, <2>6, CompressOutcome
  <2>7. CASE o \in ReopenAndClean(t)
    BY <2>1, <2>2, <2>7, ReopenAndCleanOutcome
  <2> QED BY <2>3, <2>4, <2>5, <2>6, <2>7 DEF RenameFails
<1> QED BY <1>2, <1>3

\* Closing the file changes what the writer holds, not the files.
LEMMA HandleHolds ==
    ASSUME NEW s, Holds(s), NEW h \in {"stale", "nil"}
    PROVE  LET t == [s EXCEPT !.handle = h]
           IN  /\ Holds(t) /\ t.handle = h /\ t.active = s.active /\ t.archives = s.archives
               /\ t.rotations = s.rotations
<1> DEFINE t == [s EXCEPT !.handle = h]
<1>1. s \in FileSets
  BY DEF Holds
<1>2. /\ t \in FileSets /\ t.handle = h /\ t.active = s.active /\ t.archives = s.archives
      /\ t.rotations = s.rotations
  BY <1>1 DEF FileSets
<1> HIDE DEF t
<1>3. Holds(t)
  BY <1>2 DEF Holds, Dated
<1> QED BY <1>2, <1>3 DEF t

LEMMA RotateOutcome ==
    ASSUME NEW s, Clock, Holds(s), s.rotations < MaxEntries, NEW o \in Rotate(s)
    PROVE  Outcome(s, o)
<1> DEFINE closing == [s EXCEPT !.handle = "nil"]
           stale == [s EXCEPT !.handle = "stale"]
<1>1. s.handle \in {"open", "stale", "nil"} /\ s.rotations <= s.rotations + 1
  BY DEF Holds, FileSets
<1>2. /\ Holds(closing) /\ closing.handle = "nil" /\ closing.active = s.active
      /\ closing.archives = s.archives /\ closing.rotations = s.rotations
      /\ Holds(stale) /\ stale.active = s.active
      /\ stale.archives = s.archives /\ stale.rotations = s.rotations
  BY HandleHolds
<1>3. \/ s.handle = "nil" /\ o \in Rename(s)
      \/ s.handle = "open" /\ (o = Fails(stale) \/ o \in Rename(closing))
      \/ s.handle = "stale" /\ o = Fails(s)
  BY <1>1 DEF Rotate
<1> HIDE DEF closing, stale
<1>4. CASE s.handle = "nil" /\ o \in Rename(s)
  BY <1>4, RenameOutcome
<1>5. CASE o = Fails(stale)
  BY <1>1, <1>2, <1>5, FailsIsOutcome DEF In0
<1>6. CASE o \in Rename(closing)
  <2>1. Outcome(closing, o)
    BY <1>2, <1>6, RenameOutcome
  <2>2. \A e : In0(e, s) <=> In0(e, closing)
    BY <1>2 DEF In0
  <2> QED BY <1>2, <2>1, <2>2 DEF Outcome, Keeps
<1>7. CASE o = Fails(s)
  BY <1>1, <1>7, FailsIsOutcome
<1> QED BY <1>3, <1>4, <1>5, <1>6, <1>7

-----------------------------------------------------------------------------
\* The inductive invariant: the writer's value, entries offered so far, and
\* that every one of them has a size.
Inv ==
    /\ Holds(Files) /\ Clock
    /\ offered \in 0..MaxEntries /\ rotations <= offered
    /\ active # None => active \subseteq 1..offered /\ \A e \in active : sizeOf[e] # 0
    /\ acked \subseteq 1..offered

LEMMA FilesFields ==
    /\ Files.active = active /\ Files.archives = archives /\ Files.handle = handle
    /\ Files.size = currentSize /\ Files.day = currentDay /\ Files.rotations = rotations
BY DEF Files

LEMMA InvIsEnough == Inv => ActiveIsBounded
<1> SUFFICES ASSUME Inv PROVE ActiveIsBounded
  OBVIOUS
<1>1. Files \in FileSets
  BY DEF Inv, Holds
<1>2. /\ active = None \/ active \subseteq Entries
      /\ archives \subseteq ArchiveFiles /\ handle \in {"open", "stale", "nil"}
      /\ currentSize \in Nat /\ currentDay \in 1..MaxDays /\ rotations \in 0..MaxEntries
  BY <1>1 DEF Files, FileSets
<1>3. (handle = "open" => active # None) /\ (active # None => Fits(active))
  BY FilesFields DEF Inv, Holds
<1> QED BY <1>2, <1>3 DEF ActiveIsBounded, TypeOK, Fits, Inv

LEMMA InvInit == Init => Inv
<1> SUFFICES ASSUME Init PROVE Inv
  OBVIOUS
<1>1. Clock
  BY RotateAssumption DEF Init, Clock
<1>2. Files \in FileSets
  BY RotateAssumption DEF Init, Files, FileSets, ArchiveFiles
<1>3. SizeOn({}) = 0
  BY <1>1, SizeType
<1>4. {} # None
  BY RotateAssumption
<1>5. Fits({})
  BY <1>3, RotateAssumption DEF Fits
<1>6. IsFiniteSet({})
  BY FS_EmptySet
<1>7. Holds(Files)
  BY <1>2, <1>3, <1>4, <1>5, <1>6, FilesFields DEF Init, Holds, Dated
<1> QED BY <1>1, <1>7, RotateAssumption DEF Init, Inv

LEMMA HoldsNext ==
    ASSUME NEW r, r = Files', r \in FileSets, IsFiniteSet(r.archives), Dated(r),
           today \in Nat, today' \in Nat, today <= today',
           r.handle = "open" => r.active # None /\ r.size = Sum(sizeOf', r.active),
           r.active # None => Sum(sizeOf', r.active) <= MaxSize \/ Cardinality(r.active) <= 1
    PROVE  Holds(Files)'
<1>1. \A S : SizeOn(S)' = Sum(sizeOf', S)
  BY DEF SizeOn, Sum, MapThenSumSet, MapThenFoldSet
<1>2. \A a \in r.archives : a.at <= r.rotations /\ a.day <= today'
  BY DEF Dated, FileSets, ArchiveFiles
<1>3. Dated(Files)'
  BY <1>2 DEF Dated
<1>4. (Files.active # None => Fits(Files.active))'
  BY <1>1 DEF Fits
<1>5. (Files \in FileSets)'
  BY DEF FileSets, ArchiveFiles, Entries
<1>6. (Files.handle = "open" => Files.active # None /\ Files.size = SizeOn(Files.active))'
  BY <1>1
<1> QED BY <1>3, <1>4, <1>5, <1>6 DEF Holds

\* Nothing but the clock moves, or only the handle.
LEMMA CalmHolds ==
    ASSUME NEW r, r = Files', Inv, Holds(r), UNCHANGED sizeOf, today' \in Nat, today <= today'
    PROVE  Holds(Files)'
<1>1. r.active # None => Sum(sizeOf', r.active) = SizeOn(r.active)
  BY SizeIsSum
<1>2. today \in Nat
  BY DEF Inv, Clock
<1> QED BY <1>1, <1>2, HoldsNext DEF Holds, Fits

LEMMA SumNext ==
    ASSUME NEW f \in [Entries -> Nat], NEW g \in [Entries -> Nat], NEW S \in SUBSET Entries,
           \A e \in S : g[e] = f[e], NEW n \in Entries \ S
    PROVE  Sum(g, S) = Sum(f, S) /\ Sum(g, S \cup {n}) = Sum(f, S) + g[n] /\ Sum(f, S) \in Nat
<1>1. IsFiniteSet(S) /\ n \notin S
  BY EntriesFinite
<1>2. (\A e \in S : f[e] \in Nat /\ g[e] = f[e]) /\ g[n] \in Nat
  OBVIOUS
<1>3. Sum(f, S) \in Nat /\ Sum(g, S) = Sum(f, S)
  BY <1>1, <1>2, SumType, SumSame
<1> QED BY <1>1, <1>2, <1>3, SumMore

\* A file's size after one more entry is offered, and after it is written.
LEMMA SizesNext ==
    ASSUME Inv, NEW z \in Sizes, offered < MaxEntries, offered' = offered + 1,
           sizeOf' = [sizeOf EXCEPT ![offered'] = z], NEW S \in SUBSET (1..offered)
    PROVE  /\ S \in SUBSET Entries /\ offered' \in Entries /\ offered' \notin S
           /\ sizeOf' \in [Entries -> Nat] /\ sizeOf'[offered'] = z /\ z \in Nat \ {0}
           /\ \A e \in S : sizeOf'[e] = sizeOf[e]
           /\ Sum(sizeOf', S) = SizeOn(S) /\ SizeOn(S) \in Nat
           /\ Sum(sizeOf', S \cup {offered'}) = SizeOn(S) + z
<1>0. z \in Nat \ {0} /\ MaxEntries \in Nat /\ offered \in Nat
  BY RotateAssumption DEF Inv
<1>1. S \in SUBSET Entries /\ offered' \in Entries /\ offered' \notin S
  BY <1>0 DEF Entries
<1>2. /\ sizeOf' \in [Entries -> Nat] /\ sizeOf'[offered'] = z
      /\ \A e \in S : sizeOf'[e] = sizeOf[e]
      /\ sizeOf \in [Entries -> Nat]
  BY <1>0, <1>1 DEF Inv, Clock
<1>3. PICK g, n : g = sizeOf' /\ n = offered'
  OBVIOUS
<1>4. /\ g \in [Entries -> Nat] /\ \A e \in S : g[e] = sizeOf[e]
      /\ n \in Entries \ S
  BY <1>1, <1>2, <1>3
<1>5. /\ Sum(g, S) = Sum(sizeOf, S) /\ Sum(sizeOf, S) \in Nat
      /\ Sum(g, S \cup {n}) = Sum(sizeOf, S) + g[n]
  BY <1>1, <1>2, <1>4, SumNext
<1> QED BY <1>0, <1>1, <1>2, <1>3, <1>5, SizeIsSum

\* Every entry counts.
LEMMA EmptyFile ==
    ASSUME Clock, NEW S \in SUBSET Entries, \A e \in S : sizeOf[e] # 0, SizeOn(S) = 0
    PROVE  S = {}
<1> SUFFICES ASSUME S # {} PROVE FALSE
  OBVIOUS
<1>1. PICK e \in S : TRUE
  OBVIOUS
<1>2. \A d \in Entries : sizeOf[d] \in Nat
  BY DEF Clock
<1>3. Sum(sizeOf, S) = sizeOf[e] + Sum(sizeOf, S \ {e}) /\ Sum(sizeOf, S \ {e}) \in Nat
  BY <1>1, <1>2, EntriesFinite, SumTake, SumType
<1> QED BY <1>1, <1>2, <1>3, SizeIsSum

\* What Write makes of the files, entry and all.
LEMMA WriteOutcome ==
    ASSUME Inv, NEW z \in Sizes, offered < MaxEntries, NEW o \in Rotated(Files, z)
    PROVE  /\ Holds(o.files) /\ Keeps(Files, o.files) /\ o.files.rotations <= rotations + 1
           /\ o.files.active \in {None, {}, active}
           /\ o.ok /\ o.files.handle = "open" =>
                o.files.active = {} \/ o.files.size + z <= MaxSize
<1>1. Clock /\ Holds(Files) /\ rotations \in Nat /\ Files.rotations < MaxEntries
  BY FilesFields, RotateAssumption DEF Inv, Holds, FileSets
<1>2. CASE o \in Rotate(Files)
  <2>1. Outcome(Files, o)
    BY <1>1, <1>2, RotateOutcome
  <2> QED BY <2>1, FilesFields DEF Outcome
<1>3. CASE o = Succeeds(Files) /\ (currentSize = 0 \/ currentSize + z <= MaxSize)
  <2>1. o.files = Files
    BY <1>3 DEF Succeeds
  <2>2. Keeps(Files, Files) /\ rotations <= rotations + 1
    BY <1>1 DEF Keeps
  <2>3. CASE handle = "open" /\ currentSize = 0
    <3>1. active \in SUBSET Entries /\ SizeOn(active) = 0 /\ \A e \in active : sizeOf[e] # 0
      BY <1>1, <2>3, FilesFields DEF Inv, Holds, FileSets
    <3>2. active = {}
      BY <1>1, <3>1, EmptyFile
    <3> QED BY <1>1, <2>1, <2>2, <3>2, FilesFields
  <2> QED BY <1>1, <1>3, <2>1, <2>2, <2>3, FilesFields
<1>4. ASSUME ~(currentSize = 0 \/ currentSize + z <= MaxSize) PROVE currentSize > 0 /\ currentSize + z > MaxSize
  BY <1>1, <1>4, RotateAssumption, FilesFields DEF Holds, FileSets
<1> QED BY <1>2, <1>3, <1>4, FilesFields DEF Rotated

LEMMA WriteInv ==
    ASSUME Inv, NEW z \in Sizes, Write(z)
    PROVE  /\ Inv'
           /\ \A e : In0(e, Files) => In0(e, Files') \/
                \E a \in archives : e \in a.entries /\
                  (Aged(a) \/ Cardinality({b \in archives' : b.at >= a.at}) >= MaxBackups)
<1>0. offered < MaxEntries /\ offered' = offered + 1 /\ sizeOf' = [sizeOf EXCEPT ![offered'] = z]
      /\ today' = today
  BY DEF Write
<1>1. PICK o \in Rotated(Files, z) : \E w \in Written(o, offered', z) :
         Become(w.files) /\ acked' = IF w.ok THEN acked \cup {offered'} ELSE acked
  BY DEF Write
<1>2. PICK w \in Written(o, offered', z) :
         Become(w.files) /\ acked' = IF w.ok THEN acked \cup {offered'} ELSE acked
  BY <1>1
<1> DEFINE t == o.files
           n == offered + 1
           u == [t EXCEPT !.active = @ \cup {n}, !.size = @ + z]
<1>3. /\ Holds(t) /\ Keeps(Files, t) /\ t.rotations <= rotations + 1
      /\ t.active \in {None, {}, active}
      /\ o.ok /\ t.handle = "open" => t.active = {} \/ t.size + z <= MaxSize
  BY <1>0, <1>1, WriteOutcome
<1>4. \/ w.files = t
      \/ w.files = u /\ o.ok /\ t.handle = "open"
  BY <1>0, <1>2 DEF Written, Fails, Succeeds
<1> HIDE DEF t
<1>5. /\ t \in FileSets /\ IsFiniteSet(t.archives) /\ Dated(t)
      /\ t.handle = "open" => t.active # None /\ t.size = SizeOn(t.active)
      /\ t.active # None => Fits(t.active)
  BY <1>3 DEF Holds
<1>6. t.active # None => /\ t.active \in SUBSET (1..offered) /\ \A e \in t.active : sizeOf[e] # 0
  BY <1>3 DEF Inv
<1>7. /\ n \in Entries /\ n \in 1..offered' /\ offered' \in 0..MaxEntries /\ 1..offered \subseteq 1..offered'
      /\ z \in Nat \ {0}
  BY <1>0, RotateAssumption DEF Inv, Entries
<1>8. sizeOf' \in [Entries -> Nat] /\ sizeOf'[n] = z
  BY <1>0, <1>7 DEF Inv, Clock
<1>9. ASSUME t.active # None
      PROVE  /\ t.active \in SUBSET Entries /\ n \notin t.active
             /\ \A e \in t.active : sizeOf'[e] = sizeOf[e]
             /\ Sum(sizeOf', t.active) = SizeOn(t.active) /\ SizeOn(t.active) \in Nat
             /\ Sum(sizeOf', t.active \cup {n}) = SizeOn(t.active) + z
  BY <1>0, <1>6, <1>9, SizesNext
<1>10. today \in Nat /\ today' \in Nat /\ today <= today'
  BY <1>0 DEF Inv, Clock
<1>11. Clock'
  BY <1>0, <1>8 DEF Inv, Clock, Entries
<1>12. acked' \subseteq 1..offered'
  BY <1>0, <1>2, <1>7 DEF Inv
<1>13. /\ active' = w.files.active /\ archives' = w.files.archives /\ handle' = w.files.handle
       /\ currentSize' = w.files.size /\ currentDay' = w.files.day /\ rotations' = w.files.rotations
  BY <1>2 DEF Become
<1>14. ASSUME w.files \in FileSets PROVE Files' = w.files
  BY <1>13, <1>14 DEF Files, FileSets
<1>15. rotations + 1 <= offered' /\ rotations \in Nat /\ offered' \in Nat
  BY <1>0, FilesFields DEF Inv, Holds, FileSets
<1>16. CASE w.files = t
  <2>1. Files' = t
    BY <1>5, <1>14, <1>16
  <2>2. Holds(Files)'
    BY <1>5, <1>9, <1>10, <2>1, HoldsNext DEF Fits
  <2>3. active' # None => active' \subseteq 1..offered' /\ \A e \in active' : sizeOf'[e] # 0
    BY <1>6, <1>7, <1>9, <1>13, <1>16
  <2>4. rotations' <= offered'
    BY <1>3, <1>5, <1>13, <1>15, <1>16 DEF FileSets
  <2>5. Inv'
    BY <1>7, <1>11, <1>12, <2>2, <2>3, <2>4 DEF Inv
  <2> QED BY <1>3, <1>13, <1>16, <2>1, <2>5, FilesFields DEF Keeps
<1>17. CASE w.files = u /\ o.ok /\ t.handle = "open"
  <2>1. t.active # None /\ t.size = SizeOn(t.active)
    BY <1>5, <1>17
  <2>2. /\ u \in FileSets /\ u.active = t.active \cup {n} /\ u.archives = t.archives
        /\ u.size = t.size + z /\ u.rotations = t.rotations /\ u.handle = t.handle
    <3>1. t.active \cup {n} \in SUBSET Entries /\ t.size + z \in Nat
      BY <1>5, <1>7, <1>9, <2>1 DEF FileSets
    <3> QED BY <1>5, <3>1 DEF FileSets
  <2> HIDE DEF u
  <2>3. Files' = u
    BY <1>14, <1>17, <2>2
  <2>4. u.active # None
    BY <2>2, RotateAssumption, <1>7, <1>9, <2>1 DEF Entries
  <2>5. Sum(sizeOf', u.active) = u.size
    BY <1>9, <2>1, <2>2
  <2>6. u.size <= MaxSize \/ Cardinality(u.active) <= 1
    <3>1. CASE t.active = {}
      <4>1. u.active = {n}
        BY <2>2, <3>1
      <4>2. Cardinality({n}) = 1
        BY FS_Singleton
      <4> QED BY <4>1, <4>2
    <3>2. CASE t.size + z <= MaxSize
      BY <2>2, <3>2
    <3> QED BY <1>3, <1>17, <3>1, <3>2
  <2>7. Dated(u) /\ IsFiniteSet(u.archives)
    BY <1>5, <2>2 DEF Dated
  <2>8. Holds(Files)'
    BY <1>10, <2>2, <2>3, <2>4, <2>5, <2>6, <2>7, HoldsNext
  <2>9. active' \subseteq 1..offered' /\ \A e \in active' : sizeOf'[e] # 0
    BY <1>6, <1>7, <1>8, <1>9, <1>13, <1>17, <2>1, <2>2
  <2>10. rotations' <= offered'
    BY <1>3, <1>5, <1>13, <1>15, <1>17, <2>2 DEF FileSets
  <2>11. Inv'
    BY <1>7, <1>11, <1>12, <2>8, <2>9, <2>10 DEF Inv
  <2>12. \A e : In0(e, t) => In0(e, u)
    BY <2>2, <2>4 DEF In0
  <2>13. archives' = t.archives
    BY <1>13, <1>17, <2>2
  <2> QED BY <1>3, <2>3, <2>11, <2>12, <2>13, FilesFields DEF Keeps
<1> QED BY <1>4, <1>16, <1>17

\* A step keeps the invariant, and every entry that retention does not let go.
LEMMA StepKeeps ==
    ASSUME Inv, [Next]_vars
    PROVE  /\ Inv'
           /\ \A e : In0(e, Files) => In0(e, Files') \/
                \E a \in archives : e \in a.entries /\
                  (Aged(a) \/ Cardinality({b \in archives' : b.at >= a.at}) >= MaxBackups)
<1> DEFINE Kept == \A e : In0(e, Files) => In0(e, Files')
<1>0. today \in 1..MaxDays /\ Holds(Files) /\ MaxDays \in Nat
  BY RotateAssumption DEF Inv, Clock
<1>1. ASSUME NEW z \in Sizes, Write(z)
      PROVE  /\ Inv'
             /\ \A e : In0(e, Files) => In0(e, Files') \/
                \E a \in archives : e \in a.entries /\
                  (Aged(a) \/ Cardinality({b \in archives' : b.at >= a.at}) >= MaxBackups)
  BY <1>1, WriteInv
<1>2. CASE Midnight
  <2>1. Files' = Files /\ today' \in 1..MaxDays /\ today <= today' /\ today' \in Nat
    BY <1>0, <1>2 DEF Midnight, Files
  <2>2. Holds(Files)'
    BY <1>0, <1>2, <2>1, CalmHolds DEF Midnight
  <2>3. Inv'
    BY <1>2, <2>1, <2>2 DEF Midnight, Inv, Clock, Entries
  <2> QED BY <2>1, <2>3
<1>3. CASE Close
  <2> DEFINE t == [Files EXCEPT !.handle = "nil"]
  <2>1. Files' = t /\ today' = today
    BY <1>3 DEF Close, Files
  <2>2. Holds(t) /\ t.active = Files.active /\ t.archives = Files.archives
    BY <1>0, HandleHolds
  <2> HIDE DEF t
  <2>3. Holds(Files)'
    BY <1>0, <1>3, <2>1, <2>2, CalmHolds DEF Close
  <2>4. Inv'
    BY <1>3, <2>3 DEF Close, Inv, Clock, Entries
  <2>5. Kept
    BY <2>1, <2>2 DEF In0
  <2> QED BY <2>4, <2>5
<1>4. CASE Restart
  <2> DEFINE t == Reopen(Files)
  <2>1. /\ Ready(Files, t) /\ t.rotations = rotations
        /\ active = None => t.active = {}
        /\ active # None => t.active = active
    BY <1>0, ReadySelf, ReopenReady, FilesFields DEF Inv
  <2>2. /\ Become(t) /\ UNCHANGED <<today, offered, sizeOf, acked>>
    BY <1>4 DEF Restart
  <2> HIDE DEF t
  <2>3. Files' = t
    BY <2>1, <2>2 DEF Become, Files, Ready, Holds, FileSets
  <2>4. Holds(Files)'
    BY <1>0, <2>1, <2>2, <2>3, CalmHolds DEF Ready
  <2>5. active' = t.active /\ rotations' = rotations
    BY <2>1, <2>2 DEF Become
  <2>6. Inv'
    BY <2>1, <2>2, <2>4, <2>5 DEF Inv, Clock, Entries
  <2>7. Kept
    BY <2>1, <2>3 DEF Ready
  <2> QED BY <2>6, <2>7
<1>5. CASE UNCHANGED vars
  <2>1. Files' = Files /\ today' = today
    BY <1>5 DEF vars, Files
  <2>2. Holds(Files)'
    BY <1>0, <1>5, <2>1, CalmHolds DEF vars
  <2>3. Inv'
    BY <1>5, <2>2 DEF vars, Inv, Clock, Entries
  <2> QED BY <2>1, <2>3
<1> QED BY <1>1, <1>2, <1>3, <1>4, <1>5 DEF Next

\* For any sizes and limits, over failed rotations, closes, crashes and
\* restarts, the active file exceeds max_size_mb only by a single entry larger
\* than it, and the writer's handle is never that of a renamed file.
THEOREM ActiveSafe == Spec => []ActiveIsBounded
<1>1. Inv /\ [Next]_vars => Inv'
  BY StepKeeps
<1> QED BY <1>1, InvInit, InvIsEnough, PTL DEF Spec

\* Whichever operation of a rotation fails, a logged entry goes only with an
\* archive that is old enough or that max_backups archives outlast.
THEOREM ArchivesSafe == Spec => LatestAreKept
<1>1. Inv /\ [Next]_vars => Inv'
  BY StepKeeps
<1> DEFINE A == \A e \in acked :
                  ((active # None /\ e \in active) \/ In(e, archives)) =>
                     \/ active' # None /\ e \in active'
                     \/ In(e, archives')
                     \/ \E a \in archives : e \in a.entries /\
                           (Aged(a) \/ Cardinality({b \in archives' : b.at >= a.at}) >= MaxBackups)
<1>2. Inv /\ [Next]_vars => [A]_vars
  <2> SUFFICES ASSUME Inv, [Next]_vars, NEW e \in acked,
                      (active # None /\ e \in active) \/ In(e, archives)
               PROVE  \/ active' # None /\ e \in active'
                      \/ In(e, archives')
                      \/ \E a \in archives : e \in a.entries /\
                           (Aged(a) \/ Cardinality({b \in archives' : b.at >= a.at}) >= MaxBackups)
    OBVIOUS
  <2>1. In0(e, Files)
    BY FilesFields DEF In0
  <2>2. Files'.active = active' /\ Files'.archives = archives'
    BY DEF Files
  <2> QED BY <2>1, <2>2, StepKeeps DEF In0
<1> QED BY <1>1, <1>2, InvInit, PTL DEF Spec, LatestAreKept
=============================================================================
