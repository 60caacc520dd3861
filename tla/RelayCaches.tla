---------------------------- MODULE RelayCaches -----------------------------
(***************************************************************************)
(* What the relay keeps of HeartBeat's configuration: ConfigCache, and the *)
(* ModuleCache with the modules that make IRNs and QR codes and the keys   *)
(* they use.  They are filled at startup, by the webhook that announces a  *)
(* change, by the legacy endpoint and by a loop, every twelve hours.       *)
(*                                                                         *)
(* HeartBeat holds release 1, 2, ...: a configuration, the checksum and    *)
(* the code of each module, and a set of keys with its csid.  A refresh    *)
(* reads one release and lands later; what lands is put in place without   *)
(* an await, module by module, up to the first whose code does not load.   *)
(***************************************************************************)
EXTENDS Naturals, Sequences

CONSTANTS
    Releases,      \* sequence of [modules: sequence of [sum, code], keys: [csid, pem]]
    Broken,        \* code that cannot be loaded, csids of keys that cannot be read
    Fetches,       \* slots for refreshes under way
    Nothing        \* what is held before anything is

VARIABLES
    released,      \* the release HeartBeat holds
    fetch,         \* per slot: [at, also, read]
    config,        \* ConfigCache._config, by its release
    loaded,        \* ModuleCache._modules and _checksums, by place in the list
    keys,          \* ModuleCache._service_keys
    torn,          \* the last refresh of the modules to land broke off
    phase,         \* startup: "config", "modules", then "serving"
    looping        \* the hourly loop runs

held == <<config, loaded, keys, torn>>
vars == <<released, fetch, held, phase, looping>>

Idle   == [at |-> "idle", also |-> FALSE, read |-> 0]
Places == 1..Len(Releases[1].modules)
Known  == 1..Len(Releases)

\* What the proofs assume of the constants: every release has the same
\* modules, under checksums that tell code apart ("none" is no checksum),
\* and nothing is none of them and none of its keys.
LegalConstants ==
    /\ Len(Releases) \in Nat \ {0}
    /\ \A r \in Known : /\ Releases[r].modules = [i \in Places |-> Releases[r].modules[i]]
                       /\ Releases[r].keys # Nothing
    /\ \A r, s \in Known : \A i \in Places :
          (Releases[r].modules[i].sum # "none" /\ Releases[r].modules[i].sum = Releases[s].modules[i].sum)
             => Releases[r].modules[i] = Releases[s].modules[i]

TypeOK ==
    /\ released \in Known
    /\ \A f \in Fetches : /\ fetch[f].at \in {"idle", "config", "modules"}
                          /\ fetch[f].also \in BOOLEAN /\ fetch[f].read \in 0..Len(Releases)
    /\ config \in {Nothing} \cup Known
    /\ \A i \in Places : loaded[i] \in {Nothing} \cup {Releases[r].modules[i] : r \in Known}
    /\ keys \in {Nothing} \cup {Releases[r].keys : r \in Known}
    /\ torn \in BOOLEAN /\ looping \in BOOLEAN
    /\ phase \in {"config", "modules", "serving"}

Init ==
    /\ released = 1
    /\ fetch = [f \in Fetches |-> Idle]
    /\ config = Nothing /\ loaded = [i \in Places |-> Nothing] /\ keys = Nothing
    /\ torn = FALSE /\ phase = "config" /\ looping = FALSE

-----------------------------------------------------------------------------
(* One release lands in the module cache.                                  *)

\* refresh() skips a module whose checksum it has; load_all() skips none.
Skipped(new, i) ==
    /\ phase = "serving" /\ loaded[i] # Nothing
    /\ Releases[new].modules[i].sum # "none"
    /\ Releases[new].modules[i].sum = loaded[i].sum

\* Places up to the first module that has to be loaded and cannot be.
Reached(new) ==
    {i \in Places : \A j \in 1..i : Skipped(new, j) \/ Releases[new].modules[j].code \notin Broken}

Replaced(new) ==
    [i \in Places |-> IF i \in Reached(new) /\ ~Skipped(new, i)
                      THEN Releases[new].modules[i] ELSE loaded[i]]

\* All of a release can be put in place.
Whole(new) == Reached(new) = Places /\ Releases[new].keys.csid \notin Broken

\* The keys come last, and a refresh keeps those it has under the same csid;
\* what breaks off before leaves them as they were.
PutModules(new) ==
    /\ loaded' = Replaced(new)
    /\ torn' = ~Whole(new)
    /\ keys' = IF ~Whole(new) THEN keys
               ELSE IF phase = "serving" /\ keys # Nothing /\ keys.csid = Releases[new].keys.csid
               THEN keys
               ELSE Releases[new].keys

-----------------------------------------------------------------------------
(* Startup: lifespan awaits load() and load_all() before it serves.        *)

BootConfig ==
    /\ phase = "config" /\ phase' = "modules"
    /\ config' \in {released, Nothing}
    /\ UNCHANGED <<released, fetch, loaded, keys, torn, looping>>

\* The loop is started only if all of it was loaded.
BootModules ==
    /\ phase = "modules" /\ phase' = "serving"
    /\ PutModules(released)
    /\ looping' = Whole(released)
    /\ UNCHANGED <<released, fetch, config>>

BootModulesFails ==
    /\ phase = "modules" /\ phase' = "serving"
    /\ UNCHANGED <<released, fetch, held, looping>>

-----------------------------------------------------------------------------
(* Refreshes.                                                              *)

Goto(f, step) == fetch' = [fetch EXCEPT ![f] = step]

\* config_changed: the configuration, and then the modules if the change is
\* one of theirs.
Webhook(f) ==
    /\ phase = "serving" /\ fetch[f].at = "idle"
    /\ \E also \in BOOLEAN : Goto(f, [Idle EXCEPT !.at = "config", !.also = also])
    /\ UNCHANGED <<released, held, phase, looping>>

\* The legacy endpoint at any time, the loop when it runs.
RefreshModules(f) ==
    /\ phase = "serving" /\ fetch[f].at = "idle"
    /\ Goto(f, [Idle EXCEPT !.at = "modules"])
    /\ UNCHANGED <<released, held, phase, looping>>

\* HeartBeat answers with the release it holds.
Read(f) ==
    /\ fetch[f].at # "idle" /\ fetch[f].read = 0
    /\ fetch' = [fetch EXCEPT ![f].read = released]
    /\ UNCHANGED <<released, held, phase, looping>>

After(f) == IF fetch[f].at = "config" /\ fetch[f].also THEN [Idle EXCEPT !.at = "modules"] ELSE Idle

LandConfig(f) ==
    /\ fetch[f].at = "config" /\ fetch[f].read # 0
    /\ config' = fetch[f].read
    /\ Goto(f, After(f))
    /\ UNCHANGED <<released, loaded, keys, torn, phase, looping>>

LandModules(f) ==
    /\ fetch[f].at = "modules" /\ fetch[f].read # 0
    /\ PutModules(fetch[f].read)
    /\ Goto(f, After(f))
    /\ UNCHANGED <<released, config, phase, looping>>

\* HeartBeat does not answer: what is held stays, and the webhook goes on.
Fails(f) ==
    /\ fetch[f].at # "idle"
    /\ Goto(f, After(f))
    /\ UNCHANGED <<released, held, phase, looping>>

Release ==
    /\ released < Len(Releases)
    /\ released' = released + 1
    /\ UNCHANGED <<fetch, held, phase, looping>>

Next ==
    \/ Release \/ BootConfig \/ BootModules \/ BootModulesFails
    \/ \E f \in Fetches : \/ Webhook(f) \/ RefreshModules(f) \/ Read(f)
                          \/ LandConfig(f) \/ LandModules(f) \/ Fails(f)

Spec == Init /\ [][Next]_vars

-----------------------------------------------------------------------------
(***************************************************************************)
(* Properties.                                                             *)
(***************************************************************************)

\* IRNs, QR codes and the keys in them are of one release at any time,
\* however refreshes cross each other: only a module that cannot be loaded,
\* or keys that cannot be read, leave a mixture, and the next refresh that
\* lands whole repairs it.  Of the keys it is their csid that is the
\* release's: what else is new under an old csid is not taken up.
OneRelease ==
    (~torn /\ keys # Nothing) =>
        \E r \in Known : loaded = Releases[r].modules /\ keys.csid = Releases[r].keys.csid
=============================================================================
