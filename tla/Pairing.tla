------------------------------ MODULE Pairing ------------------------------
(***************************************************************************)
(* Pairing (internal/hue/pairing.go): the window that the admin page's     *)
(* "Allow pairing" opens in place of a link button, POST /api, which gives *)
(* an app a username while the window is open, and the whitelist that      *)
(* every other request is checked against (requireUser, server.go).        *)
(*                                                                         *)
(* A handler looks at the window and adds to the whitelist in two steps.   *)
(* A save is one step and may fail (JSONFile's theorem Refinement).  Time  *)
(* is a count of seconds on the monotonic clock that time.Now carries.     *)
(* Left out: device types, client keys and dates; a username, sixteen      *)
(* random bytes, is one that was never used.                               *)
(***************************************************************************)
EXTENDS Naturals

CONSTANTS
    Apps,             \* goroutines that each serve one POST /api
    Usernames,        \* a bound on the number of usernames
    NoFile,           \* there is no whitelist.json ...
    NoEntries,        \* ... or it is a JSON object without "entries"
    Window,           \* how long the window stays open (30 s in the code)
    MaxTime,          \* bound: the clock stops here
    MaxSaveFailures,  \* bound: how many saves fail
    MaxRestarts       \* bound: how often the process restarts

ASSUME PairingAssumption ==
    /\ {Window, MaxTime, MaxSaveFailures, MaxRestarts} \subseteq Nat
    /\ \A U \in SUBSET Usernames : U \notin {NoFile, NoEntries}

VARIABLES
    mem,        \* Whitelist.state
    disk,       \* whitelist.json
    deadline,   \* PairingWindow.deadline, 0 for the zero time
    now,
    req,        \* req[a]: how far goroutine a is
    saveFailures, restarts,
    \* Bookkeeping that the code does not have:
    used,       \* usernames that were drawn
    paired,     \* usernames that an app was told
    allowedAt   \* when the page was last told to allow pairing, {} if not
                \* since the last start

pairingHistory == <<used, paired, allowedAt>>
pairingVars ==
    <<mem, disk, deadline, now, req, saveFailures, restarts, pairingHistory>>

NewWhitelist(file) == IF file \in {NoFile, NoEntries} THEN {} ELSE file

PairingInit ==
    /\ disk \in {NoFile, NoEntries, {}}
    /\ mem = NewWhitelist(disk)
    /\ deadline = 0 /\ now = 0
    /\ req = [a \in Apps |-> "idle"]
    /\ saveFailures = 0 /\ restarts = 0
    /\ used = {} /\ paired = {} /\ allowedAt = {}

\* Seeded bug: the window is opened only when it is closed.
AllowOnce == /\ deadline' = IF now < deadline THEN deadline ELSE now + Window
             /\ allowedAt' = {now}
             /\ UNCHANGED <<mem, disk, now, req, saveFailures, restarts, used, paired>>

\* POST /pairing/allow: PairingWindow.Open.
Allow == /\ deadline' = now + Window
         /\ allowedAt' = {now}
         /\ UNCHANGED <<mem, disk, now, req, saveFailures, restarts, used, paired>>

IsOpen == now < deadline

\* POST /api: win.IsOpen().
PairCheck(a) == /\ req[a] = "idle"
                /\ req' = [req EXCEPT ![a] = IF IsOpen THEN "add" ELSE "refused"]
                /\ UNCHANGED <<mem, disk, deadline, now, saveFailures, restarts, pairingHistory>>

\* Seeded bug: the whitelist is saved only when the process stops.
PairAddUnsaved(a, u) ==
    /\ req[a] = "add"
    /\ u \notin used
    /\ used' = used \cup {u}
    /\ mem' = mem \cup {u}
    /\ paired' = paired \cup {u}
    /\ req' = [req EXCEPT ![a] = "done"]
    /\ UNCHANGED <<disk, deadline, now, saveFailures, restarts, allowedAt>>

\* Whitelist.Add: if the save fails the app is told nothing, but memory
\* keeps the entry.
PairAdd(a, u) ==
    /\ req[a] = "add"
    /\ u \notin used
    /\ used' = used \cup {u}
    /\ mem' = mem \cup {u}
    /\ \/ disk' = mem' /\ paired' = paired \cup {u} /\ UNCHANGED saveFailures
       \/ /\ saveFailures < MaxSaveFailures
          /\ saveFailures' = saveFailures + 1
          /\ UNCHANGED <<disk, paired>>
    /\ req' = [req EXCEPT ![a] = "done"]
    /\ UNCHANGED <<deadline, now, restarts, allowedAt>>

Pass == /\ now < MaxTime
        /\ now' = now + 1
        /\ UNCHANGED <<mem, disk, deadline, req, saveFailures, restarts, pairingHistory>>

\* The process stops or dies, with the requests in progress, and restarts.
Restart == /\ restarts < MaxRestarts
           /\ restarts' = restarts + 1
           /\ mem' = NewWhitelist(disk)
           /\ deadline' = 0 /\ allowedAt' = {}
           /\ req' = [a \in Apps |-> IF req[a] = "add" THEN "done" ELSE req[a]]
           /\ UNCHANGED <<disk, now, saveFailures, used, paired>>

PairingNext ==
    \/ Allow \/ Pass \/ Restart
    \/ \E a \in Apps : PairCheck(a) \/ \E u \in Usernames : PairAdd(a, u)

PairingSpec == PairingInit /\ [][PairingNext]_pairingVars

-----------------------------------------------------------------------------
(* Properties.                                                             *)

PairingTypeOK ==
    /\ mem \in SUBSET Usernames
    /\ disk \in {NoFile, NoEntries} \cup SUBSET Usernames
    /\ deadline \in Nat /\ now \in 0..MaxTime
    /\ req \in [Apps -> {"idle", "add", "refused", "done"}]
    /\ saveFailures \in 0..MaxSaveFailures
    /\ restarts \in 0..MaxRestarts
    /\ used \in SUBSET Usernames /\ paired \in SUBSET Usernames
    /\ allowedAt \in SUBSET Nat

\* requireUser never turns away an app that was given its username, now or
\* after a restart, whichever other saves fail and however pairings overlap
\* (pairing.go:62-67, server.go:14-23).
PairedAppsStayPaired == paired \subseteq mem \cap NewWhitelist(disk)

\* "this opens a short window during which the app's pairing request is
\* accepted" (README.md:63-64): counted from the last time it was allowed,
\* so pressing the button again extends the window, and a restart closes it.
AcceptedInWindow ==
    [][\A a \in Apps : req[a] = "idle" /\ req'[a] # "idle" =>
          (req'[a] = "add" <=> \E t \in allowedAt : now < t + Window)]_pairingVars
=============================================================================
