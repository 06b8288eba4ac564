------------------------------- MODULE Reload -------------------------------
(***************************************************************************)
(* Configuration reload in a running gateway (onr/internal/onrserver/run.go *)
(* and providers_autoreload.go, dslconfig's Registry): a SIGHUP handler    *)
(* that reloads provider files, keys, models and pricing, and an optional  *)
(* file watcher that reloads the provider files after a quiet period.      *)
(* They share one mutex; files change on disk at any time.                 *)
(*                                                                         *)
(* A version of a file is the number of the edit that wrote it.  A version *)
(* is good when the file parses and validates.                             *)
(***************************************************************************)
EXTENDS Naturals, FiniteSets

CONSTANTS
    Providers,      \* provider files, each defining one provider
    AutoReload,     \* providers.auto_reload.enabled
    MaxEdits,       \* bound on the edits of files
    Absent,         \* a provider the registry does not have
    None

ASSUME ReloadAssumption ==
    /\ AutoReload \in BOOLEAN /\ MaxEdits \in Nat
    /\ IsFiniteSet(Providers)
    /\ Absent \notin Nat /\ None \notin {"signal", "watch"}
    /\ Providers \cap {"keys", "models", "pricing"} = {}

Tables == {"keys", "models", "pricing"}
Files == Providers \cup Tables
Versions == 0..MaxEdits
Workers == {"signal", "watch"}
SignalBuffer == 2       \* make(chan os.Signal, 2)

VARIABLES
    merged,                 \* providers come from one merged file, not a directory
    edits, disk, good,      \* edits so far, file -> version, good versions
    live,                   \* file -> version in use, or Absent
    mutex,                  \* holder of reloadMu
    pc, read,               \* worker -> step, and what it read in this reload
    signals,                \* SIGHUPs in the channel
    events, trigger, timer, \* file events, triggerCh, the debounce timer
    before,                 \* history: live when a SIGHUP reload began
    result,                 \* history: how it ended
    told                    \* history: disk at the last SIGHUP

files == <<merged, edits, disk, good>>
watching == <<events, trigger, timer>>
history == <<before, result, told>>
vars == <<files, live, mutex, pc, read, signals, watching, history>>

Init ==
    /\ merged \in BOOLEAN
    /\ edits = 0 /\ disk = [f \in Files |-> 0] /\ good = {0}
    /\ live = [f \in Files |-> 0]
    /\ mutex = None
    /\ pc = [w \in Workers |-> "idle"]
    /\ read = [w \in Workers |-> [f \in Files |-> 0]]
    /\ signals = 0
    /\ events = FALSE /\ trigger = FALSE /\ timer = FALSE
    /\ before = live /\ result = "none" /\ told = disk

Goto(w, p) == pc' = [pc EXCEPT ![w] = p]

-----------------------------------------------------------------------------
\* The environment.

\* A file is replaced by a good or a broken version.  The watcher sees the
\* provider files.
Edit(f) ==
    /\ edits < MaxEdits
    /\ edits' = edits + 1
    /\ disk' = [disk EXCEPT ![f] = edits']
    /\ good' \in {good, good \cup {edits'}}
    /\ events' = (events \/ (AutoReload /\ f \in Providers))
    /\ UNCHANGED <<merged, live, mutex, pc, read, signals, trigger, timer, history>>

\* signal.Notify never blocks: a SIGHUP is dropped when the channel is full.
Hangup ==
    /\ signals' = IF signals < SignalBuffer THEN signals + 1 ELSE signals
    /\ told' = disk
    /\ UNCHANGED <<files, live, mutex, pc, read, watching, before, result>>

-----------------------------------------------------------------------------
\* The SIGHUP handler and the watcher's loop.

SignalReceived ==
    /\ pc["signal"] = "idle" /\ signals > 0
    /\ signals' = signals - 1
    /\ Goto("signal", "lock")
    /\ UNCHANGED <<files, live, mutex, read, watching, history>>

\* A file event sets the trigger; one that is already set is enough.
EventSeen ==
    /\ pc["watch"] = "idle" /\ events
    /\ events' = FALSE /\ trigger' = TRUE
    /\ UNCHANGED <<files, live, mutex, pc, read, signals, timer, history>>

\* resetTimer: the quiet period starts again.
Triggered ==
    /\ pc["watch"] = "idle" /\ trigger
    /\ trigger' = FALSE /\ timer' = TRUE
    /\ UNCHANGED <<files, live, mutex, pc, read, signals, events, history>>

TimerFires ==
    /\ pc["watch"] = "idle" /\ timer
    /\ timer' = FALSE
    /\ Goto("watch", "lock")
    /\ UNCHANGED <<files, live, mutex, read, signals, events, trigger, history>>

\* The watcher is closed.
Stop ==
    /\ AutoReload /\ pc["watch"] = "idle"
    /\ timer' = FALSE
    /\ Goto("watch", "stopped")
    /\ UNCHANGED <<files, live, mutex, read, signals, events, trigger, history>>

-----------------------------------------------------------------------------
\* reloadProvidersRuntime and reloadRuntime, under reloadMu.

LockMutWatcherDoesNot(w) ==
    /\ pc[w] = "lock"
    /\ w = "signal" => mutex = None
    /\ mutex' = IF w = "signal" THEN w ELSE mutex
    /\ Goto(w, "providers")
    /\ IF w = "signal" THEN before' = live /\ result' = "none"
                       ELSE UNCHANGED <<before, result>>
    /\ UNCHANGED <<files, live, read, signals, watching, told>>

Lock(w) ==
    /\ pc[w] = "lock" /\ mutex = None
    /\ mutex' = w
    /\ Goto(w, "providers")
    /\ IF w = "signal" THEN before' = live /\ result' = "none"
                       ELSE UNCHANGED <<before, result>>
    /\ UNCHANGED <<files, live, read, signals, watching, told>>

Fail(w) ==
    /\ Goto(w, "unlock")
    /\ result' = IF w = "signal" THEN "failed" ELSE result

\* The files are read and parsed outside the registry's lock.  One broken
\* provider spoils a merged file; a directory is loaded without it.
MergedFileFails == merged /\ \E p \in Providers : disk[p] \notin good

ReadProviders(w) ==
    /\ pc[w] = "providers"
    /\ read' = [read EXCEPT ![w] = [f \in Files |-> IF f \in Providers THEN disk[f] ELSE @[f]]]
    /\ IF MergedFileFails THEN Fail(w) ELSE Goto(w, "swap") /\ UNCHANGED result
    /\ UNCHANGED <<files, live, mutex, signals, watching, before, told>>

\* r.providers = next
SwapProviders(w) ==
    /\ pc[w] = "swap"
    /\ live' = [f \in Files |-> IF f \notin Providers THEN live[f]
                                ELSE IF read[w][f] \in good THEN read[w][f] ELSE Absent]
    /\ Goto(w, IF w = "signal" THEN "keys" ELSE "unlock")
    /\ UNCHANGED <<files, mutex, read, signals, watching, history>>

\* keystore.Load, models.Load and pricing.LoadResolver, one after the other ...
After == [keys |-> "models", models |-> "pricing", pricing |-> "setkeys"]

LoadTableMutInstalls(t) ==
    /\ pc["signal"] = t
    /\ read' = [read EXCEPT !["signal"][t] = disk[t]]
    /\ IF disk[t] \in good
       THEN live' = [live EXCEPT ![t] = disk[t]] /\ Goto("signal", After[t]) /\ UNCHANGED result
       ELSE UNCHANGED live /\ Fail("signal")
    /\ UNCHANGED <<files, mutex, signals, watching, before, told>>

LoadTable(t) ==
    /\ pc["signal"] = t
    /\ read' = [read EXCEPT !["signal"][t] = disk[t]]
    /\ IF disk[t] \in good THEN Goto("signal", After[t]) /\ UNCHANGED result ELSE Fail("signal")
    /\ UNCHANGED <<files, live, mutex, signals, watching, before, told>>

\* ... and installed one after the other, each under its own lock.
Setting == [keys |-> "setkeys", models |-> "setmodels", pricing |-> "setpricing"]
Installed == [keys |-> "setmodels", models |-> "setpricing", pricing |-> "unlock"]

SetTable(t) ==
    /\ pc["signal"] = Setting[t]
    /\ live' = [live EXCEPT ![t] = read["signal"][t]]
    /\ Goto("signal", Installed[t])
    /\ result' = IF t = "pricing" THEN "ok" ELSE result
    /\ UNCHANGED <<files, mutex, read, signals, watching, before, told>>

\* The history of a SIGHUP reload ends with it.
EndReload(w) ==
    /\ pc[w] = "unlock"
    /\ Goto(w, "idle")
    /\ read' = [read EXCEPT ![w] = [f \in Files |-> 0]]
    /\ IF w = "signal"
       THEN before' = [f \in Files |-> 0] /\ result' = "none"
       ELSE UNCHANGED <<before, result>>
    /\ UNCHANGED <<files, live, signals, trigger, timer, told>>

UnlockMutKeepsLock(w) ==
    /\ EndReload(w)
    /\ mutex' = IF w = "signal" /\ result = "failed" THEN mutex ELSE None
    /\ UNCHANGED events

UnlockMutDrainsEvents(w) ==
    /\ EndReload(w)
    /\ mutex' = None
    /\ events' = (w # "watch" /\ events)

Unlock(w) ==
    /\ EndReload(w)
    /\ mutex' = None
    /\ UNCHANGED events

Step(w) ==
    \/ w = "signal" /\ (SignalReceived \/ \E t \in Tables : LoadTable(t) \/ SetTable(t))
    \/ w = "watch" /\ (EventSeen \/ Triggered \/ TimerFires)
    \/ Lock(w) \/ ReadProviders(w) \/ SwapProviders(w) \/ Unlock(w)

Next ==
    \/ \E f \in Files : Edit(f)
    \/ Hangup
    \/ \E w \in Workers : Step(w)
    \/ Stop

\* Both goroutines run, the timer fires, and the mutex goes to a waiting
\* goroutine in the end (Go's mutex is starvation free).
Spec ==
    /\ Init /\ [][Next]_vars
    /\ WF_vars(Step("signal")) /\ WF_vars(Step("watch"))
    /\ \A w \in Workers : SF_vars(Lock(w))

-----------------------------------------------------------------------------

\* Nothing broken goes live.
TypeOK ==
    /\ merged \in BOOLEAN
    /\ edits \in Versions /\ disk \in [Files -> Versions] /\ good \subseteq Versions
    /\ live \in [Files -> good \cup {Absent}]
    /\ mutex \in Workers \cup {None}
    /\ pc \in [Workers -> {"idle", "lock", "providers", "swap", "keys", "models", "pricing",
                           "setkeys", "setmodels", "setpricing", "unlock", "stopped"}]
    /\ read \in [Workers -> [Files -> Versions]]
    /\ signals \in 0..SignalBuffer
    /\ events \in BOOLEAN /\ trigger \in BOOLEAN /\ timer \in BOOLEAN
    /\ result \in {"none", "ok", "failed"}

\* Reloads of the provider files never undo each other, though both workers
\* read files outside the registry's lock: an older version never returns.
ProvidersMoveForward ==
    [][\A p \in Providers :
         live[p] # Absent /\ live'[p] # Absent => live'[p] >= live[p]]_vars

\* A SIGHUP reload that fails leaves keys, models and pricing as they were:
\* all three are read before the first is installed.  Nothing broken is in use.
FailedReloadKeepsTables ==
    /\ TypeOK
    /\ pc["signal"] = "unlock" /\ result = "failed" =>
          \A t \in Tables : live[t] = before[t]

Loadable(p) == disk[p] \in good /\ (merged => \A q \in Providers : disk[q] \in good)

\* What was on disk at a SIGHUP is in use in the end, though a SIGHUP is
\* dropped when two are waiting.
SignalsArrive ==
    LET Reloaded == Providers \cup Tables
        Settled == \A f \in Reloaded : disk[f] = told[f] /\ disk[f] \in good
    IN  <>[](Settled => \A f \in Reloaded : live[f] = disk[f])

\* Without any SIGHUP the watcher brings the last version of the provider
\* files into use, whatever it was doing when they changed.
EditsArrive ==
    AutoReload => <>[](\/ pc["watch"] = "stopped"
                       \/ \A p \in Providers : Loadable(p) => live[p] = disk[p])
=============================================================================
