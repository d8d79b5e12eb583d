------------------------------- MODULE AppSync -------------------------------
(***************************************************************************)
(* How the apps an owner edits on the relay reach a reader's card.         *)
(*                                                                         *)
(* The relay keeps one row per app and answers GET /v1/apps with an index  *)
(* and a version stamp over the whole set (relay/src/routes/device.js).    *)
(* The reader compares the stamp with the one it recorded last, and if     *)
(* they differ it removes every relay-*.json file, fetches the manifests   *)
(* one at a time, and records the new stamp when nothing failed            *)
(* (InkAgentClient::syncApps).  The owner goes on editing meanwhile, any   *)
(* fetch or card write can fail, and the reader can lose power or be       *)
(* restarted between any two steps.                                        *)
(*                                                                         *)
(* A manifest is a revision number; the name order of the apps is the      *)
(* order of the numbers in App.  The 16 hex digits of the stamp's hash are *)
(* taken to be free of collisions, so a stamp is the map it is a hash of.  *)
(***************************************************************************)
EXTENDS Naturals, FiniteSets

CONSTANTS App,          \* ids the relay may hand out, in name order
          MaxCatalog,   \* kMaxCatalogApps: ids a sync reads off the index
          Unstamped,    \* the version file is missing, empty or unreadable
          Syncers,      \* who may run a sync: "bg" (RelayTask), "fg" (settings)
          MaxRev,       \* bound: saves
          MaxClock,     \* bound: seconds of the relay's clock
          MaxRemovals,  \* bound: apps deleted on the dashboard
          MaxFaults     \* bound: failed fetches, failed card operations, power cuts

ASSUME AppSyncAssumption ==
  /\ App \subseteq Nat
  /\ IsFiniteSet(App)
  /\ MaxCatalog \in Nat
  /\ Unstamped \notin [App -> Nat]
  /\ Syncers \subseteq {"bg", "fg"}
  /\ MaxRev \in Nat /\ MaxClock \in Nat /\ MaxRemovals \in Nat /\ MaxFaults \in Nat

VARIABLES
  clock,    \* now() of the relay, whole seconds
  nextRev,  \* the revision the next save creates
  apps,     \* the relay's apps table: app id -> manifest
  removed,  \* ids deleted on the dashboard; a random id never comes back
  card,     \* relay-<id>.json on the card: app id -> manifest
  synced,   \* contents of the version file: a stamp, or Unstamped
  sync,     \* the local variables of each running syncApps
  faults,   \* faults so far
  stuck,    \* history: files a failed Storage.remove left behind
  intact    \* history: nothing was removed since synced was written

relayVars == <<clock, nextRev, apps, removed>>
cardVars  == <<card, synced, stuck, intact>>
vars      == <<relayVars, cardVars, sync, faults>>

-----------------------------------------------------------------------------
Manifest == [rev : Nat, at : Nat, whole : BOOLEAN]
Absent   == [rev |-> 0, at |-> 0, whole |-> FALSE]
Torn(m)  == [m EXCEPT !.whole = FALSE]

Stamp == [App -> Nat]

\* Mutant: the stamp leaves updated_at out.
StampOfIds(table) == [a \in App |-> IF table[a].at = 0 THEN 0 ELSE 1]

\* hashOf(rows.map(a => `${a.id}:${a.updated_at}`).join('|')); 0 is "no row".
StampOf(table) == [a \in App |-> table[a].at]

\* The ids a sync takes from an index: the first MaxCatalog in name order.
Listed(stamp) ==
  LET rows == {a \in App : stamp[a] # 0}
  IN  {a \in rows : Cardinality({b \in rows : b < a}) < MaxCatalog}

Steps == {"idle", "clear", "remove", "fetch", "write", "record"}
Local == [pc : Steps, stamp : Stamp, ids : SUBSET App, doomed : SUBSET App,
          body : Manifest, failed : BOOLEAN]
Idle  == [pc |-> "idle", stamp |-> [a \in App |-> 0], ids |-> {}, doomed |-> {},
          body |-> Absent, failed |-> FALSE]

At(s, step) == sync[s].pc = step
Due(s, a)   == a \in sync[s].ids /\ \A b \in sync[s].ids : a <= b
Fault       == faults < MaxFaults /\ faults' = faults + 1
Quiet       == \A s \in Syncers : At(s, "idle")

\* The relay mutex: a background job keeps it for the whole job, a foreground
\* sync takes it for each request.
MayRequest(s) == s = "fg" => ("bg" \in Syncers => At("bg", "idle"))

-----------------------------------------------------------------------------
TypeOK ==
  /\ clock \in Nat /\ nextRev \in Nat /\ faults \in Nat
  /\ apps \in [App -> Manifest]
  /\ removed \subseteq App
  /\ card \in [App -> Manifest]
  /\ synced \in Stamp \cup {Unstamped}
  /\ sync \in [Syncers -> Local]
  /\ stuck \subseteq App
  /\ intact \in BOOLEAN

Init ==
  /\ clock = 1 /\ nextRev = 1 /\ faults = 0
  /\ apps = [a \in App |-> Absent]
  /\ removed = {}
  /\ card = [a \in App |-> Absent]
  /\ synced = Unstamped
  /\ sync = [s \in Syncers |-> Idle]
  /\ stuck = {}
  /\ intact = FALSE

-----------------------------------------------------------------------------
\* The dashboard.

\* POST /apps: a new app or an edit of one; updated_at = now().
SaveApp(a) ==
  /\ nextRev <= MaxRev
  /\ a \notin removed
  /\ apps' = [apps EXCEPT ![a] = [rev |-> nextRev, at |-> clock, whole |-> TRUE]]
  /\ nextRev' = nextRev + 1
  /\ UNCHANGED <<clock, removed, cardVars, sync, faults>>

\* POST /apps/delete.
DeleteApp(a) ==
  /\ apps[a] # Absent
  /\ Cardinality(removed) < MaxRemovals
  /\ apps' = [apps EXCEPT ![a] = Absent]
  /\ removed' = removed \cup {a}
  /\ UNCHANGED <<clock, nextRev, cardVars, sync, faults>>

Tick ==
  /\ clock < MaxClock
  /\ clock' = clock + 1
  /\ UNCHANGED <<nextRev, apps, removed, cardVars, sync, faults>>

-----------------------------------------------------------------------------
\* syncApps.  A sync that cannot get the index, or finds the stamp it already
\* recorded, returns without touching anything; it is not a step here.

\* Mutant: an index with more ids than the reader takes counts as a failure.
StartSyncOfAll(s) ==
  /\ At(s, "idle")
  /\ MayRequest(s)
  /\ synced # StampOf(apps)
  /\ sync' = [sync EXCEPT ![s] = [Idle EXCEPT !.pc = "clear",
                                              !.stamp = StampOf(apps),
                                              !.ids = Listed(StampOf(apps)),
                                              !.failed = \E a \in App \ Listed(StampOf(apps)) : apps[a] # Absent]]
  /\ UNCHANGED <<relayVars, cardVars, faults>>

\* The index arrived with another stamp: its ids are what will be fetched.
StartSync(s) ==
  /\ At(s, "idle")
  /\ MayRequest(s)
  /\ synced # StampOf(apps)
  /\ sync' = [sync EXCEPT ![s] = [Idle EXCEPT !.pc = "clear",
                                              !.stamp = StampOf(apps),
                                              !.ids = Listed(StampOf(apps))]]
  /\ UNCHANGED <<relayVars, cardVars, faults>>

\* clearRelayApps lists the folder first and removes afterwards.
ListFolder(s) ==
  /\ At(s, "clear")
  /\ sync' = [sync EXCEPT ![s].pc = "remove",
                          ![s].doomed = {a \in App : card[a] # Absent}]
  /\ intact' = FALSE
  /\ UNCHANGED <<relayVars, card, synced, stuck, faults>>

RemoveFile(s, a) ==
  /\ At(s, "remove") /\ a \in sync[s].doomed
  /\ sync' = [sync EXCEPT ![s].doomed = @ \ {a}]
  /\ card' = [card EXCEPT ![a] = Absent]
  /\ stuck' = stuck \ {a}
  /\ UNCHANGED <<relayVars, synced, intact, faults>>

\* The result of Storage.remove is not looked at.
RemoveFails(s, a) ==
  /\ At(s, "remove") /\ a \in sync[s].doomed
  /\ Fault
  /\ sync' = [sync EXCEPT ![s].doomed = @ \ {a}]
  /\ stuck' = stuck \cup {a}
  /\ UNCHANGED <<relayVars, card, synced, intact>>

Cleared(s) ==
  /\ At(s, "remove") /\ sync[s].doomed = {}
  /\ sync' = [sync EXCEPT ![s].pc = "fetch"]
  /\ UNCHANGED <<relayVars, cardVars, faults>>

\* GET /v1/apps?id=a, answered with the manifest as it is now.
FetchManifest(s, a) ==
  /\ At(s, "fetch") /\ Due(s, a)
  /\ MayRequest(s)
  /\ apps[a] # Absent
  /\ sync' = [sync EXCEPT ![s].pc = "write", ![s].body = apps[a]]
  /\ UNCHANGED <<relayVars, cardVars, faults>>

Failed(s, a) == sync' = [sync EXCEPT ![s].pc = "fetch", ![s].ids = @ \ {a},
                                     ![s].body = Absent, ![s].failed = TRUE]

\* Mutant: the loop retries the same id instead of going on to the next.
FetchFailsForever(s, a) ==
  /\ At(s, "fetch") /\ Due(s, a)
  /\ \/ MayRequest(s) /\ apps[a] = Absent /\ UNCHANGED faults
     \/ Fault
  /\ sync' = [sync EXCEPT ![s].failed = TRUE]
  /\ UNCHANGED <<relayVars, cardVars>>

\* A 404 because the app was deleted meanwhile, or the request did not make it:
\* no heap, no network, a revoked token, 45 s without the relay mutex.
FetchFails(s, a) ==
  /\ At(s, "fetch") /\ Due(s, a)
  /\ \/ MayRequest(s) /\ apps[a] = Absent /\ UNCHANGED faults
     \/ Fault
  /\ Failed(s, a)
  /\ UNCHANGED <<relayVars, cardVars>>

WriteManifest(s, a) ==
  /\ At(s, "write") /\ Due(s, a)
  /\ card' = [card EXCEPT ![a] = sync[s].body]
  /\ stuck' = stuck \ {a}
  /\ sync' = [sync EXCEPT ![s].pc = "fetch", ![s].ids = @ \ {a}, ![s].body = Absent]
  /\ UNCHANGED <<relayVars, synced, intact, faults>>

\* Mutant: a short write is removed but not counted in out.failed.
WriteFailsUncounted(s, a) ==
  /\ At(s, "write") /\ Due(s, a)
  /\ Fault
  /\ card' = [card EXCEPT ![a] = Absent] /\ stuck' = stuck \ {a}
  /\ sync' = [sync EXCEPT ![s].pc = "fetch", ![s].ids = @ \ {a}, ![s].body = Absent]
  /\ UNCHANGED <<relayVars, synced, intact>>

\* The file did not open, or the write was short and the file was removed.
WriteFails(s, a) ==
  /\ At(s, "write") /\ Due(s, a)
  /\ Fault
  /\ \/ UNCHANGED <<card, stuck>>
     \/ card' = [card EXCEPT ![a] = Absent] /\ stuck' = stuck \ {a}
  /\ Failed(s, a)
  /\ UNCHANGED <<relayVars, synced, intact>>

\* Mutant: no test of out.failed before the version is recorded.
FinishFetchingAnyway(s) ==
  /\ At(s, "fetch") /\ sync[s].ids = {}
  /\ sync' = [sync EXCEPT ![s].pc = "record"]
  /\ UNCHANGED <<relayVars, cardVars, faults>>

\* A partial sync records nothing; it returns and leaves the old stamp.
FinishFetching(s) ==
  /\ At(s, "fetch") /\ sync[s].ids = {}
  /\ sync' = [sync EXCEPT ![s] = IF sync[s].failed THEN Idle ELSE [@ EXCEPT !.pc = "record"]]
  /\ UNCHANGED <<relayVars, cardVars, faults>>

RecordVersion(s) ==
  /\ At(s, "record")
  /\ synced' = sync[s].stamp
  /\ intact' = TRUE
  /\ sync' = [sync EXCEPT ![s] = Idle]
  /\ UNCHANGED <<relayVars, card, stuck, faults>>

\* The version file did not open, or was truncated and not written.
RecordFails(s) ==
  /\ At(s, "record")
  /\ Fault
  /\ synced' \in {synced, Unstamped}
  /\ sync' = [sync EXCEPT ![s] = Idle]
  /\ UNCHANGED <<relayVars, card, stuck, intact>>

-----------------------------------------------------------------------------
\* Power is cut, or an activity that used Wi-Fi restarts the reader on exit.
\* A file that was being written is left as it was or cut short.
PowerLoss ==
  /\ ~Quiet
  /\ Fault
  /\ sync' = [s \in Syncers |-> Idle]
  /\ \/ UNCHANGED <<card, stuck, synced>>
     \/ \E s \in Syncers, a \in App :
          /\ At(s, "write") /\ Due(s, a)
          /\ card' = [card EXCEPT ![a] = Torn(sync[s].body)]
          /\ stuck' = stuck \ {a}
          /\ UNCHANGED synced
     \/ /\ \E s \in Syncers : At(s, "record")
        /\ synced' = Unstamped
        /\ UNCHANGED <<card, stuck>>
  /\ UNCHANGED <<relayVars, intact>>

-----------------------------------------------------------------------------
Step(s) ==
  \/ ListFolder(s)
  \/ \E a \in App : \/ RemoveFile(s, a) \/ RemoveFails(s, a)
                    \/ FetchManifest(s, a) \/ FetchFails(s, a)
                    \/ WriteManifest(s, a) \/ WriteFails(s, a)
  \/ Cleared(s)
  \/ FinishFetching(s)
  \/ RecordVersion(s) \/ RecordFails(s)

Next ==
  \/ \E a \in App : SaveApp(a) \/ DeleteApp(a)
  \/ Tick
  \/ \E s \in Syncers : StartSync(s) \/ Step(s)
  \/ PowerLoss

Spec == Init /\ [][Next]_vars

\* Every request and card operation returns, so a running sync goes on.
Fairness == \A s \in Syncers : WF_vars(Step(s))

\* An owner who presses "Sync apps" again whenever it may have something to do.
Insisting == \A s \in Syncers : WF_vars(StartSync(s))

FairSpec == Spec /\ Fairness

-----------------------------------------------------------------------------
\* Every app a stamp lists is whole on the card, no older than the stamp, and
\* the only others are files the card refused to remove.
CardHolds(stamp) ==
  \A a \in App : IF a \in Listed(stamp)
                 THEN card[a].whole /\ card[a].at >= stamp[a]
                 ELSE card[a] = Absent \/ a \in stuck

UpToDate == synced = StampOf(apps)

(* The stamp on the card is only written when all that its index listed has   *)
(* landed (InkAgentClient.cpp:405-413): whole files, none of them older than  *)
(* the index, with the owner editing and deleting all through the sync.       *)
RecordedOnlyWhenComplete ==
  [][synced' # synced /\ synced' # Unstamped => CardHolds(synced')]_vars

(* Until the next sync starts removing, the card goes on holding what its     *)
(* stamp stands for, through failures, edits on the relay and power cuts.     *)
StampDescribesCard == intact /\ synced # Unstamped => CardHolds(synced)

(* A reader that would answer "unchanged" (InkAgentClient.cpp:357), and has   *)
(* not been interrupted since it recorded the stamp, holds for every listed   *)
(* app the manifest saved in the second the relay has on its row.             *)
UnchangedMeansSameSecond ==
  intact /\ UpToDate =>
    \A a \in Listed(synced) : card[a].whole /\ card[a].at = apps[a].at

(* A sync always returns: every step of the fetch loop consumes an id.        *)
SyncReturns == \A s \in Syncers : ~At(s, "idle") ~> At(s, "idle")

(* Without deletions the relay's stamp never returns to an earlier value, so  *)
(* an owner who keeps pressing "Sync apps" ends with a card that holds, of    *)
(* the apps the cap lets through, the manifests saved in the second the relay *)
(* has on their rows, and nothing else, whatever failed in between.  An app   *)
(* that is deleted while a sync fails brings an old stamp back, with the      *)
(* files that stood for it already removed: hence the exception.              *)
CaughtUp ==
  /\ CardHolds(StampOf(apps))
  /\ \A a \in Listed(StampOf(apps)) : card[a].at = apps[a].at
CardCatchesUp == Insisting => <>[](removed = {} => CaughtUp)

=============================================================================
