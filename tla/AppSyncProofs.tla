---------------------------- MODULE AppSyncProofs ----------------------------
(***************************************************************************)
(* AppSync with a single sync at a time: the stamp on the card never       *)
(* promises more than the card holds.                                      *)
(***************************************************************************)
EXTENDS AppSync, TLAPS

\* RelayTask runs its jobs one after the other; with the foreground path of
\* the settings screen kept out, one sync runs at a time.
ASSUME OneSyncer == \A s, t \in Syncers : s = t

-----------------------------------------------------------------------------
\* What the relay knows: rows are stamped no later than now.
RelayInv ==
  /\ clock > 0
  /\ \A a \in App : /\ apps[a].at <= clock
                    /\ apps[a] # Absent => apps[a].whole /\ apps[a].at > 0
                    /\ a \in removed => apps[a] = Absent

\* A copy is never younger than the row it was made from.
NotAhead(m, a) == m.at <= clock /\ (apps[a] # Absent => m.at <= apps[a].at)
CardInv == \A a \in App : NotAhead(card[a], a)

Gone(a)        == card[a] = Absent \/ a \in stuck
Landed(l, a)   == card[a].whole /\ card[a].at >= l.stamp[a]

\* The stamp a running sync works for is no younger than any row it may fetch.
StampInv(l) == \A a \in App : /\ l.stamp[a] <= clock
                              /\ apps[a] # Absent => l.stamp[a] <= apps[a].at

\* How far the sync with local variables l has come.
Progress(l) ==
  /\ l.pc = "remove" => \A a \in App : a \notin l.doomed => Gone(a)
  /\ l.pc \in {"fetch", "write", "record"} =>
       \A a \in App : IF a \in Listed(l.stamp)
                      THEN l.failed \/ a \in l.ids \/ Landed(l, a)
                      ELSE Gone(a)
  /\ l.pc \in {"clear", "remove"} => l.ids = Listed(l.stamp)
  /\ l.pc \in {"fetch", "write"} => l.ids \subseteq Listed(l.stamp)
  /\ l.pc = "write" => /\ l.body.whole
                       /\ \A a \in l.ids : (\A b \in l.ids : a <= b) =>
                            l.stamp[a] <= l.body.at /\ NotAhead(l.body, a)
  /\ l.pc = "record" => l.ids = {} /\ ~l.failed
  /\ l.pc \in {"remove", "fetch", "write", "record"} => ~intact

SyncInv == \A s \in Syncers : StampInv(sync[s]) /\ Progress(sync[s])

IInv == TypeOK /\ RelayInv /\ CardInv /\ SyncInv /\ StampDescribesCard

-----------------------------------------------------------------------------
LEMMA ListedIsApps == ASSUME NEW stamp PROVE Listed(stamp) \subseteq App
BY DEF Listed

LEMMA StampOfIsStamp == ASSUME TypeOK PROVE StampOf(apps) \in Stamp
BY DEF TypeOK, StampOf, Stamp, Manifest

LEMMA ConstantTypes == Absent \in Manifest /\ Idle \in Local
BY DEF Absent, Manifest, Idle, Local, Steps, Stamp

LEMMA FailedType ==
  ASSUME TypeOK, NEW s \in Syncers, NEW a \in App, Failed(s, a)
  PROVE  sync' \in [Syncers -> Local]
<1> DEFINE l == [sync[s] EXCEPT !.pc = "fetch", !.ids = @ \ {a}, !.body = Absent, !.failed = TRUE]
<1>1. sync[s] \in Local
  BY DEF TypeOK
<1>2. l \in Local
  BY <1>1, ConstantTypes DEF Local, Steps
<1>3. sync' = [sync EXCEPT ![s] = l]
  BY DEF Failed
<1> QED
  BY <1>2, <1>3 DEF TypeOK

\* No step takes a variable out of its type.
LEMMA TypeStep == TypeOK /\ [Next]_vars => TypeOK'
<1> USE AppSyncAssumption DEF TypeOK
<1> SUFFICES ASSUME TypeOK, [Next]_vars PROVE TypeOK'
  OBVIOUS
<1>1. ASSUME NEW a \in App, SaveApp(a) PROVE TypeOK'
  BY <1>1 DEF SaveApp, Manifest, cardVars
<1>2. ASSUME NEW a \in App, DeleteApp(a) PROVE TypeOK'
  BY <1>2, ConstantTypes DEF DeleteApp, cardVars
<1>3. CASE Tick
  BY <1>3 DEF Tick, cardVars
<1>4. ASSUME NEW s \in Syncers, StartSync(s) PROVE TypeOK'
  BY <1>4, ConstantTypes, StampOfIsStamp, ListedIsApps
  DEF StartSync, relayVars, cardVars, Local, Steps
<1>5. ASSUME NEW s \in Syncers, Step(s) PROVE TypeOK'
  <2> USE DEF relayVars, cardVars
  <2>a. sync[s] \in Local
    OBVIOUS
  <2>1. CASE ListFolder(s)
    <3>1. {a \in App : card[a] # Absent} \in SUBSET App
      OBVIOUS
    <3>2. sync' \in [Syncers -> Local]
      <4> DEFINE l == [sync[s] EXCEPT !.pc = "remove", !.doomed = {a \in App : card[a] # Absent}]
      <4>1. l \in Local
        BY <2>a, <3>1 DEF Local, Steps
      <4>2. sync' = [sync EXCEPT ![s] = l]
        BY <2>1 DEF ListFolder
      <4> QED
        BY <4>1, <4>2
    <3> QED
      BY <2>1, <3>2 DEF ListFolder
  <2>2. ASSUME NEW a \in App, RemoveFile(s, a) PROVE TypeOK'
    BY <2>2, ConstantTypes DEF RemoveFile, Local, Steps
  <2>3. ASSUME NEW a \in App, RemoveFails(s, a) PROVE TypeOK'
    <3>1. sync' \in [Syncers -> Local]
      BY <2>3 DEF RemoveFails, Local, Steps
    <3> QED
      BY <2>3, <3>1 DEF RemoveFails, Fault
  <2>4. CASE Cleared(s)
    BY <2>4 DEF Cleared, Local, Steps
  <2>5. ASSUME NEW a \in App, FetchManifest(s, a) PROVE TypeOK'
    <3>1. sync' \in [Syncers -> Local]
      <4> DEFINE l == [sync[s] EXCEPT !.pc = "write", !.body = apps[a]]
      <4>1. l \in Local
        BY <2>a DEF Local, Steps
      <4>2. sync' = [sync EXCEPT ![s] = l]
        BY <2>5 DEF FetchManifest
      <4> QED
        BY <4>1, <4>2
    <3> QED
      BY <2>5, <3>1 DEF FetchManifest
  <2>6. ASSUME NEW a \in App, FetchFails(s, a) PROVE TypeOK'
    <3>1. sync' \in [Syncers -> Local]
      BY <2>6, FailedType DEF FetchFails
    <3> QED
      BY <2>6, <3>1 DEF FetchFails, Fault
  <2>7. ASSUME NEW a \in App, WriteManifest(s, a) PROVE TypeOK'
    <3>1. sync' \in [Syncers -> Local]
      <4> DEFINE l == [sync[s] EXCEPT !.pc = "fetch", !.ids = @ \ {a}, !.body = Absent]
      <4>1. l \in Local
        BY <2>a, ConstantTypes DEF Local, Steps
      <4>2. sync' = [sync EXCEPT ![s] = l]
        BY <2>7 DEF WriteManifest
      <4> QED
        BY <4>1, <4>2
    <3>2. sync[s].body \in Manifest
      BY <2>a DEF Local
    <3>3. card' \in [App -> Manifest] /\ stuck' \subseteq App
      BY <2>7, <3>2 DEF WriteManifest
    <3> QED
      BY <2>7, <3>1, <3>3 DEF WriteManifest
  <2>8. ASSUME NEW a \in App, WriteFails(s, a) PROVE TypeOK'
    <3>1. sync' \in [Syncers -> Local]
      BY <2>8, FailedType DEF WriteFails
    <3>2. card' \in [App -> Manifest] /\ stuck' \subseteq App
      BY <2>8, ConstantTypes DEF WriteFails
    <3> QED
      BY <2>8, <3>1, <3>2 DEF WriteFails, Fault
  <2>9. CASE FinishFetching(s)
    BY <2>9, ConstantTypes DEF FinishFetching, Local, Steps
  <2>10. CASE RecordVersion(s)
    BY <2>10, ConstantTypes DEF RecordVersion, Local, Steps
  <2>11. CASE RecordFails(s)
    BY <2>11, ConstantTypes DEF RecordFails, Fault
  <2> QED
    BY <1>5, <2>1, <2>2, <2>3, <2>4, <2>5, <2>6, <2>7, <2>8, <2>9, <2>10, <2>11 DEF Step
<1>6. CASE PowerLoss
  <2>1. sync' \in [Syncers -> Local]
    BY <1>6, ConstantTypes DEF PowerLoss
  <2>2. \A s \in Syncers : Torn(sync[s].body) \in Manifest
    BY DEF Torn, Local, Manifest
  <2>3. card' \in [App -> Manifest] /\ stuck' \subseteq App /\ synced' \in Stamp \cup {Unstamped}
    <3>1. CASE UNCHANGED <<card, stuck, synced>>
      BY <3>1
    <3>2. CASE \E s \in Syncers, a \in App : /\ card' = [card EXCEPT ![a] = Torn(sync[s].body)]
                                            /\ stuck' = stuck \ {a} /\ UNCHANGED synced
      BY <2>2, <3>2
    <3>3. CASE synced' = Unstamped /\ UNCHANGED <<card, stuck>>
      BY <3>3
    <3> QED
      BY <1>6, <3>1, <3>2, <3>3, Zenon DEF PowerLoss
  <2>4. faults' \in Nat
    BY <1>6 DEF PowerLoss, Fault
  <2>5. UNCHANGED <<clock, nextRev, apps, removed, intact>>
    BY <1>6 DEF PowerLoss, relayVars
  <2> QED
    BY <2>1, <2>3, <2>4, <2>5
<1>7. CASE UNCHANGED vars
  BY <1>7 DEF vars, relayVars, cardVars
<1> QED
  BY <1>1, <1>2, <1>3, <1>4, <1>5, <1>6, <1>7 DEF Next

LEMMA InitType == Init => TypeOK
<1> SUFFICES ASSUME Init PROVE TypeOK
  OBVIOUS
<1>1. clock \in Nat /\ nextRev \in Nat /\ faults \in Nat /\ intact \in BOOLEAN
  BY DEF Init
<1>2. apps \in [App -> Manifest] /\ card \in [App -> Manifest]
  BY ConstantTypes DEF Init
<1>3. sync \in [Syncers -> Local]
  BY ConstantTypes DEF Init
<1> QED
  BY <1>1, <1>2, <1>3 DEF Init, TypeOK

\* The variables keep their types: the model of syncApps is total.
THEOREM TypeCorrect == Spec => []TypeOK
BY InitType, TypeStep, PTL DEF Spec

-----------------------------------------------------------------------------
\* What the relay does leaves every copy no younger than its row: rows only
\* move forward in time, and a deleted id never comes back.
LEMMA RelayMoves ==
  ASSUME IInv, TypeOK', RelayInv', UNCHANGED <<cardVars, sync>>, clock <= clock',
         \A b \in App : apps'[b] # Absent => apps'[b] = apps[b] \/ clock <= apps'[b].at
  PROVE  IInv'
<1> USE DEF IInv, cardVars
<1>1. ASSUME NEW m \in Manifest, NEW b \in App, NotAhead(m, b) PROVE NotAhead(m, b)'
  BY <1>1 DEF NotAhead, TypeOK, Manifest
<1>2. CardInv'
  BY <1>1 DEF CardInv, TypeOK
<1>3. ASSUME NEW s \in Syncers PROVE StampInv(sync[s])'
  BY <1>3 DEF SyncInv, StampInv, TypeOK, Local, Stamp, Manifest
<1>4. ASSUME NEW s \in Syncers PROVE Progress(sync[s])'
  <2>1. sync[s].body \in Manifest /\ sync[s].ids \subseteq App
    BY DEF TypeOK, Local
  <2>2. Progress(sync[s])
    BY DEF SyncInv
  <2>3. sync[s].pc = "write" =>
          \A a \in sync[s].ids : (\A b \in sync[s].ids : a <= b) =>
            sync[s].stamp[a] <= sync[s].body.at /\ NotAhead(sync[s].body, a)'
    BY <2>1, <2>2, <1>1 DEF Progress
  <2> QED
    BY <2>2, <2>3 DEF Progress, Gone, Landed
<1>5. StampDescribesCard'
  BY DEF StampDescribesCard, CardHolds
<1> QED
  BY <1>2, <1>3, <1>4, <1>5 DEF SyncInv

LEMMA RelayStep == 
  ASSUME IInv, Tick \/ \E a \in App : SaveApp(a) \/ DeleteApp(a), TypeOK'
  PROVE  IInv'
<1> USE AppSyncAssumption DEF IInv, RelayInv
<1>1. ASSUME NEW a \in App, SaveApp(a) PROVE IInv'
  <2>1. apps' = [apps EXCEPT ![a] = [rev |-> nextRev, at |-> clock, whole |-> TRUE]]
    BY <1>1 DEF SaveApp
  <2>2. apps'[a].at = clock /\ apps'[a].whole /\ a \notin removed /\ UNCHANGED <<clock, removed>>
    BY <1>1, <2>1 DEF SaveApp, TypeOK
  <2>3. \A b \in App : b # a => apps'[b] = apps[b]
    BY <2>1 DEF TypeOK
  <2>4. RelayInv'
    BY <2>2, <2>3 DEF TypeOK
  <2> QED
    BY <1>1, <2>2, <2>3, <2>4, RelayMoves DEF SaveApp, TypeOK
<1>2. ASSUME NEW a \in App, DeleteApp(a) PROVE IInv'
  <2>1. \A b \in App : apps'[b] = IF b = a THEN Absent ELSE apps[b]
    BY <1>2 DEF DeleteApp, TypeOK
  <2>2. RelayInv'
    <3>1. Absent.at = 0
      BY DEF Absent
    <3>2. UNCHANGED clock /\ removed' = removed \cup {a}
      BY <1>2 DEF DeleteApp
    <3> QED
      BY <2>1, <3>1, <3>2 DEF TypeOK
  <2> QED
    BY <1>2, <2>1, <2>2, RelayMoves DEF DeleteApp, TypeOK
<1>3. CASE Tick
  <2>1. clock' = clock + 1 /\ UNCHANGED <<apps, removed>>
    BY <1>3 DEF Tick
  <2>2. RelayInv'
    BY <2>1 DEF TypeOK, Manifest
  <2> QED
    BY <1>3, <2>1, <2>2, RelayMoves DEF Tick, TypeOK
<1> QED
  BY <1>1, <1>2, <1>3

-----------------------------------------------------------------------------
\* A step of the only sync: the rest of the invariant follows from what the
\* step makes of the card and of the sync's local variables.
LEMMA SyncMoves ==
  ASSUME IInv, TypeOK', NEW s \in Syncers, UNCHANGED relayVars,
         sync'[s].stamp = sync[s].stamp, CardInv', Progress(sync[s])', StampDescribesCard'
  PROVE  IInv'
<1>1. RelayInv'
  BY DEF IInv, RelayInv, relayVars
<1>2. StampInv(sync[s])'
  BY DEF IInv, SyncInv, StampInv, relayVars
<1>3. \A t \in Syncers : t = s
  BY OneSyncer
<1>4. SyncInv'
  BY <1>2, <1>3 DEF SyncInv
<1> QED
  BY <1>1, <1>4 DEF IInv

LEMMA StartStep ==
  ASSUME IInv, TypeOK', NEW s \in Syncers, StartSync(s)
  PROVE  IInv'
<1> USE DEF IInv
<1>1. /\ sync'[s].pc = "clear" /\ sync'[s].stamp = StampOf(apps)
      /\ sync'[s].ids = Listed(StampOf(apps))
  BY DEF StartSync, TypeOK, Idle
<1>2. UNCHANGED <<relayVars, cardVars>>
  BY DEF StartSync
<1>3. \A t \in Syncers : t = s
  BY OneSyncer
<1>4. RelayInv' /\ CardInv' /\ StampDescribesCard'
  BY <1>2 DEF RelayInv, relayVars, cardVars, CardInv, NotAhead, StampDescribesCard, CardHolds
<1>5. StampInv(sync[s])'
  BY <1>1, <1>2 DEF StampInv, StampOf, RelayInv, relayVars, TypeOK, Manifest
<1>6. Progress(sync[s])'
  BY <1>1 DEF Progress
<1> QED
  BY <1>3, <1>4, <1>5, <1>6 DEF SyncInv

LEMMA ListStep ==
  ASSUME IInv, TypeOK', NEW s \in Syncers, ListFolder(s)
  PROVE  IInv'
<1> USE DEF IInv
<1>1. /\ sync[s].pc = "clear" /\ sync'[s].pc = "remove"
      /\ sync'[s].stamp = sync[s].stamp /\ sync'[s].ids = sync[s].ids
      /\ sync'[s].doomed = {a \in App : card[a] # Absent}
  <2>1. sync[s] \in Local /\ sync[s].pc = "clear"
    BY DEF TypeOK, ListFolder, At
  <2>2. sync'[s] = [sync[s] EXCEPT !.pc = "remove", !.doomed = {a \in App : card[a] # Absent}]
    BY DEF TypeOK, ListFolder
  <2> QED
    BY <2>1, <2>2 DEF Local
<1>2. UNCHANGED <<relayVars, card, synced, stuck, faults>> /\ ~intact'
  BY DEF ListFolder
<1>3. Progress(sync[s])
  BY DEF SyncInv
<1>4. Progress(sync[s])'
  BY <1>1, <1>2, <1>3 DEF Progress, Gone
<1>5. CardInv' /\ StampDescribesCard'
  BY <1>2 DEF CardInv, NotAhead, relayVars, StampDescribesCard
<1> QED
  BY <1>1, <1>2, <1>4, <1>5, SyncMoves

LEMMA RemoveStep ==
  ASSUME IInv, TypeOK', NEW s \in Syncers, NEW a \in App, RemoveFile(s, a) \/ RemoveFails(s, a)
  PROVE  IInv'
<1> USE DEF IInv
<1>1. /\ sync[s].pc = "remove" /\ sync'[s].pc = "remove"
      /\ sync'[s].stamp = sync[s].stamp /\ sync'[s].ids = sync[s].ids
      /\ sync'[s].doomed = sync[s].doomed \ {a}
  BY DEF RemoveFile, RemoveFails, At, TypeOK, Local
<1>2. UNCHANGED <<relayVars, synced, intact>>
  BY DEF RemoveFile, RemoveFails
<1>3. Progress(sync[s])
  BY DEF SyncInv
<1>4. \A b \in App : b # a => card'[b] = card[b] /\ (b \in stuck' <=> b \in stuck)
  BY DEF RemoveFile, RemoveFails, TypeOK
<1>5. card'[a] = Absent \/ (a \in stuck' /\ card'[a] = card[a])
  BY DEF RemoveFile, RemoveFails, TypeOK
<1>6. ~intact
  BY <1>1, <1>3 DEF Progress
<1>7. Progress(sync[s])'
  BY <1>1, <1>2, <1>3, <1>4, <1>5, <1>6 DEF Progress, Gone
<1>8. Absent.at = 0
  BY DEF Absent
<1>9. CardInv'
  BY <1>2, <1>4, <1>5, <1>8 DEF CardInv, NotAhead, relayVars, TypeOK, Manifest
<1>10. StampDescribesCard'
  BY <1>2, <1>6 DEF StampDescribesCard
<1> QED
  BY <1>1, <1>2, <1>7, <1>9, <1>10, SyncMoves

LEMMA ClearedStep ==
  ASSUME IInv, TypeOK', NEW s \in Syncers, Cleared(s)
  PROVE  IInv'
<1> USE DEF IInv
<1>1. /\ sync[s].pc = "remove" /\ sync'[s].pc = "fetch" /\ sync[s].doomed = {}
      /\ sync'[s].stamp = sync[s].stamp /\ sync'[s].ids = sync[s].ids
      /\ sync'[s].failed = sync[s].failed
  BY DEF Cleared, At, TypeOK, Local
<1>2. UNCHANGED <<relayVars, cardVars>>
  BY DEF Cleared
<1>3. Progress(sync[s])
  BY DEF SyncInv
<1>4. Progress(sync[s])'
  <2>1. ~intact'
    BY <1>1, <1>2, <1>3 DEF Progress, cardVars
  <2>2. \A b \in App : Gone(b)'
    BY <1>1, <1>2, <1>3 DEF Progress, Gone, cardVars
  <2> QED
    BY <1>1, <1>3, <2>1, <2>2 DEF Progress
<1>5. CardInv' /\ StampDescribesCard'
  BY <1>2 DEF CardInv, NotAhead, relayVars, cardVars, StampDescribesCard, CardHolds
<1> QED
  BY <1>1, <1>2, <1>4, <1>5, SyncMoves

LEMMA FetchStep ==
  ASSUME IInv, TypeOK', NEW s \in Syncers, NEW a \in App, FetchManifest(s, a)
  PROVE  IInv'
<1> USE DEF IInv
<1>1. /\ sync[s].pc = "fetch" /\ sync'[s].pc = "write"
      /\ sync'[s].stamp = sync[s].stamp /\ sync'[s].ids = sync[s].ids
      /\ sync'[s].failed = sync[s].failed /\ sync'[s].body = apps[a]
  BY DEF FetchManifest, At, TypeOK, Local
<1>2. UNCHANGED <<relayVars, cardVars>> /\ apps[a] # Absent /\ Due(s, a)
  BY DEF FetchManifest
<1>3. Progress(sync[s])
  BY DEF SyncInv
<1>4. \A b \in sync[s].ids : (\A c \in sync[s].ids : b <= c) => b = a
  BY <1>2, AppSyncAssumption DEF Due, TypeOK, Local
<1>5. apps[a].whole /\ sync[s].stamp[a] <= apps[a].at /\ NotAhead(apps[a], a)
  <2>1. StampInv(sync[s])
    BY DEF SyncInv
  <2> QED
    BY <1>2, <2>1 DEF RelayInv, StampInv, NotAhead, TypeOK, Manifest
<1>6. Progress(sync[s])'
  <2>1. NotAhead(apps[a], a)' 
    BY <1>2, <1>5 DEF NotAhead, relayVars
  <2>2. \A b \in App : (Gone(b)' <=> Gone(b)) /\ card'[b] = card[b]
    BY <1>2 DEF Gone, cardVars
  <2>3. apps'[a] = apps[a] /\ ~intact'
    BY <1>1, <1>2, <1>3 DEF relayVars, cardVars, Progress
  <2>4. \A b \in sync'[s].ids : (\A c \in sync'[s].ids : b <= c) =>
            sync'[s].stamp[b] <= sync'[s].body.at /\ NotAhead(sync[s].body, b)'
    BY <1>1, <1>4, <1>5, <2>1, <2>3
  <2> QED
    BY <1>1, <1>3, <1>5, <2>2, <2>3, <2>4 DEF Progress, Landed
<1>7. CardInv' /\ StampDescribesCard'
  BY <1>2 DEF CardInv, NotAhead, relayVars, cardVars, StampDescribesCard, CardHolds
<1> QED
  BY <1>1, <1>2, <1>6, <1>7, SyncMoves

\* The card after a sync gave up on id a: nothing it had not already got.
LEMMA FailStep ==
  ASSUME IInv, TypeOK', NEW s \in Syncers, NEW a \in App, FetchFails(s, a) \/ WriteFails(s, a)
  PROVE  IInv'
<1> USE DEF IInv
<1>1. /\ sync[s].pc \in {"fetch", "write"} /\ sync'[s].pc = "fetch"
      /\ sync'[s].stamp = sync[s].stamp /\ sync'[s].ids = sync[s].ids \ {a}
      /\ sync'[s].failed = TRUE
  BY DEF FetchFails, WriteFails, Failed, At, TypeOK, Local
<1>2. UNCHANGED <<relayVars, synced, intact>>
  BY DEF FetchFails, WriteFails, cardVars
<1>3. Progress(sync[s])
  BY DEF SyncInv
<1>4. \A b \in App : b # a => card'[b] = card[b] /\ (b \in stuck' <=> b \in stuck)
  BY DEF FetchFails, WriteFails, TypeOK, cardVars
<1>5. card'[a] = Absent \/ (card'[a] = card[a] /\ (a \in stuck' <=> a \in stuck))
  BY DEF FetchFails, WriteFails, TypeOK, cardVars
<1>6. ~intact
  BY <1>1, <1>3 DEF Progress
<1>7. Progress(sync[s])'
  BY <1>1, <1>2, <1>3, <1>4, <1>5, <1>6 DEF Progress, Gone
<1>8. Absent.at = 0
  BY DEF Absent
<1>9. CardInv'
  BY <1>2, <1>4, <1>5, <1>8 DEF CardInv, NotAhead, relayVars, TypeOK, Manifest
<1>10. StampDescribesCard'
  BY <1>2, <1>6 DEF StampDescribesCard
<1> QED
  BY <1>1, <1>2, <1>7, <1>9, <1>10, SyncMoves

LEMMA WriteStep ==
  ASSUME IInv, TypeOK', NEW s \in Syncers, NEW a \in App, WriteManifest(s, a)
  PROVE  IInv'
<1> USE DEF IInv
<1>1. /\ sync[s].pc = "write" /\ sync'[s].pc = "fetch"
      /\ sync'[s].stamp = sync[s].stamp /\ sync'[s].ids = sync[s].ids \ {a}
      /\ sync'[s].failed = sync[s].failed
  BY DEF WriteManifest, At, TypeOK, Local
<1>2. UNCHANGED <<relayVars, synced, intact>> /\ Due(s, a)
  BY DEF WriteManifest
<1>3. Progress(sync[s])
  BY DEF SyncInv
<1>4. \A b \in App : b # a => card'[b] = card[b] /\ (b \in stuck' <=> b \in stuck)
  BY DEF WriteManifest, TypeOK
<1>5. card'[a] = sync[s].body /\ a \in sync[s].ids
  BY <1>2 DEF WriteManifest, TypeOK, Due
<1>6. ~intact
  BY <1>1, <1>3 DEF Progress
<1>7. sync[s].body.whole /\ sync[s].stamp[a] <= sync[s].body.at /\ NotAhead(sync[s].body, a)
  BY <1>1, <1>2, <1>3 DEF Progress, Due
<1>8. sync[s].stamp \in Stamp /\ sync[s].body \in Manifest
  BY DEF TypeOK, Local
<1>9. Progress(sync[s])'
  <2>1. \A b \in App : b # a => (Gone(b)' <=> Gone(b))
    BY <1>4 DEF Gone
  <2>2. card'[a].whole /\ card'[a].at >= sync'[s].stamp[a]
    BY <1>1, <1>5, <1>7, <1>8 DEF Stamp, Manifest
  <2>3. a \in Listed(sync[s].stamp)
    BY <1>1, <1>3, <1>5 DEF Progress
  <2> QED
    BY <1>1, <1>2, <1>3, <1>4, <1>6, <2>1, <2>2, <2>3 DEF Progress, Landed
<1>10. CardInv'
  BY <1>2, <1>4, <1>5, <1>7 DEF CardInv, NotAhead, relayVars, TypeOK, Manifest
<1>11. StampDescribesCard'
  BY <1>2, <1>6 DEF StampDescribesCard
<1> QED
  BY <1>1, <1>2, <1>9, <1>10, <1>11, SyncMoves

\* A sync that ends leaves local variables nobody reads again.
LEMMA BackToIdle ==
  ASSUME IInv, TypeOK', UNCHANGED relayVars, CardInv', StampDescribesCard',
         \A s \in Syncers : sync'[s] = Idle
  PROVE  IInv'
<1> USE DEF IInv
<1>1. RelayInv'
  BY DEF RelayInv, relayVars
<1>2. Progress(Idle)'
  BY DEF Progress, Idle
<1>3. StampInv(Idle)'
  BY DEF StampInv, Idle, TypeOK, Manifest
<1> QED
  BY <1>1, <1>2, <1>3 DEF SyncInv

LEMMA FinishStep ==
  ASSUME IInv, TypeOK', NEW s \in Syncers, FinishFetching(s)
  PROVE  IInv'
<1> USE DEF IInv
<1>1. UNCHANGED <<relayVars, cardVars>> /\ sync[s].pc = "fetch" /\ sync[s].ids = {}
  BY DEF FinishFetching, At
<1>2. CardInv' /\ StampDescribesCard'
  BY <1>1 DEF CardInv, NotAhead, relayVars, cardVars, StampDescribesCard, CardHolds
<1>3. CASE sync[s].failed
  <2>1. \A t \in Syncers : sync'[t] = Idle
    BY <1>3, OneSyncer DEF FinishFetching, TypeOK
  <2> QED
    BY <1>1, <1>2, <2>1, BackToIdle
<1>4. CASE ~sync[s].failed
  <2>1. /\ sync'[s].pc = "record" /\ sync'[s].stamp = sync[s].stamp
        /\ sync'[s].ids = sync[s].ids /\ sync'[s].failed = sync[s].failed
    BY <1>4 DEF FinishFetching, TypeOK, Local
  <2>2. Progress(sync[s])
    BY DEF SyncInv
  <2>3. \A b \in App : (Gone(b)' <=> Gone(b)) /\ card'[b] = card[b]
    BY <1>1 DEF Gone, cardVars
  <2>4. ~intact'
    BY <1>1, <2>2 DEF Progress, cardVars
  <2>5. Progress(sync[s])'
    BY <1>1, <1>4, <2>1, <2>2, <2>3, <2>4 DEF Progress, Landed
  <2> QED
    BY <1>1, <1>2, <2>1, <2>5, SyncMoves
<1> QED
  BY <1>3, <1>4

\* What a sync that is about to record its version has made of the card.
LEMMA RecordHolds ==
  ASSUME IInv, NEW s \in Syncers, sync[s].pc = "record"
  PROVE  CardHolds(sync[s].stamp) /\ ~intact
<1>1. Progress(sync[s])
  BY DEF IInv, SyncInv
<1>2. sync[s].ids = {} /\ ~sync[s].failed
  BY <1>1 DEF Progress
<1>3. \A a \in App : IF a \in Listed(sync[s].stamp) THEN Landed(sync[s], a) ELSE Gone(a)
  BY <1>1, <1>2 DEF Progress
<1> QED
  BY <1>1, <1>3 DEF CardHolds, Landed, Gone, Progress

LEMMA RecordStep ==
  ASSUME IInv, TypeOK', NEW s \in Syncers, RecordVersion(s) \/ RecordFails(s)
  PROVE  IInv'
<1> USE DEF IInv
<1>1. /\ UNCHANGED <<relayVars, card, stuck>> /\ sync[s].pc = "record"
      /\ \A t \in Syncers : sync'[t] = Idle
  BY OneSyncer DEF RecordVersion, RecordFails, At, TypeOK
<1>2. CardInv'
  BY <1>1 DEF CardInv, NotAhead, relayVars
<1>3. CardHolds(sync[s].stamp) /\ ~intact
  BY <1>1, RecordHolds
<1>4. CASE RecordVersion(s)
  <2>1. synced' = sync[s].stamp
    BY <1>4 DEF RecordVersion
  <2>2. StampDescribesCard'
    BY <1>1, <1>3, <2>1 DEF StampDescribesCard, CardHolds
  <2> QED
    BY <1>1, <1>2, <2>2, BackToIdle
<1>5. CASE RecordFails(s)
  <2>1. ~intact'
    BY <1>3, <1>5 DEF RecordFails
  <2> QED
    BY <1>1, <1>2, <2>1, BackToIdle DEF StampDescribesCard
<1> QED
  BY <1>4, <1>5

LEMMA PowerLossStep ==
  ASSUME IInv, TypeOK', PowerLoss
  PROVE  IInv'
<1> USE DEF IInv
<1>1. UNCHANGED <<relayVars, intact>> /\ \A t \in Syncers : sync'[t] = Idle
  BY DEF PowerLoss
<1>2. CASE UNCHANGED <<card, stuck, synced>>
  BY <1>1, <1>2, BackToIdle DEF CardInv, NotAhead, relayVars, StampDescribesCard, CardHolds
<1>3. ASSUME NEW s \in Syncers, NEW a \in App, At(s, "write"), Due(s, a),
             card' = [card EXCEPT ![a] = Torn(sync[s].body)]
      PROVE  IInv'
  <2>1. Progress(sync[s])
    BY DEF SyncInv
  <2>2. ~intact /\ NotAhead(sync[s].body, a)
    BY <1>3, <2>1 DEF Progress, At, Due
  <2>3. Torn(sync[s].body).at = sync[s].body.at
    BY DEF Torn, TypeOK, Local, Manifest
  <2>4. CardInv'
    BY <1>1, <1>3, <2>2, <2>3 DEF CardInv, NotAhead, relayVars, TypeOK
  <2> QED
    BY <1>1, <2>2, <2>4, BackToIdle DEF StampDescribesCard
<1>4. ASSUME NEW s \in Syncers, At(s, "record"), UNCHANGED <<card, stuck>>
      PROVE  IInv'
  <2>1. ~intact
    BY <1>4, RecordHolds DEF At
  <2>2. CardInv'
    BY <1>1, <1>4 DEF CardInv, NotAhead, relayVars
  <2> QED
    BY <1>1, <2>1, <2>2, BackToIdle DEF StampDescribesCard
<1> QED
  BY <1>2, <1>3, <1>4 DEF PowerLoss

-----------------------------------------------------------------------------
LEMMA InvStep == IInv /\ [Next]_vars => IInv'
<1> SUFFICES ASSUME IInv, [Next]_vars PROVE IInv'
  OBVIOUS
<1>1. TypeOK'
  BY TypeStep DEF IInv
<1>2. CASE Next
  BY <1>1, <1>2, RelayStep, StartStep, ListStep, RemoveStep, ClearedStep, FetchStep, FailStep,
     WriteStep, FinishStep, RecordStep, PowerLossStep DEF Next, Step
<1>3. CASE UNCHANGED vars
  BY <1>1, <1>3, RelayMoves DEF IInv, RelayInv, vars, relayVars, cardVars, TypeOK
<1> QED
  BY <1>2, <1>3

LEMMA InvInit == Init => IInv
<1> SUFFICES ASSUME Init PROVE IInv
  OBVIOUS
<1>1. TypeOK
  BY InitType
<1>2. Absent.at = 0 /\ \A s \in Syncers : sync[s] = Idle
  BY DEF Init, Absent
<1>3. RelayInv /\ CardInv /\ StampDescribesCard
  BY <1>2 DEF Init, RelayInv, CardInv, NotAhead, StampDescribesCard
<1>4. SyncInv
  BY <1>2 DEF Init, SyncInv, StampInv, Progress, Idle
<1> QED
  BY <1>1, <1>3, <1>4 DEF IInv

\* The inductive invariant behind the theorems that follow.
THEOREM Inductive == Spec => []IInv
BY InvInit, InvStep, PTL DEF Spec

\* From the end of a sync to the start of the next one the card holds what its
\* stamp stands for, whatever fails (InkAgentClient.cpp:405-413).
THEOREM StampIsHonest == Spec => []StampDescribesCard
<1>1. IInv => StampDescribesCard
  BY DEF IInv
<1> QED
  BY <1>1, Inductive, PTL

\* "unchanged" is only answered for a card whose manifests were saved in the
\* seconds the relay has on its rows (InkAgentClient.cpp:357-361).
THEOREM UnchangedIsHonest == Spec => []UnchangedMeansSameSecond
<1>1. IInv => UnchangedMeansSameSecond
  <2> SUFFICES ASSUME IInv, intact, UpToDate, NEW a \in Listed(synced)
               PROVE  card[a].whole /\ card[a].at = apps[a].at
    BY DEF UnchangedMeansSameSecond
  <2> USE DEF IInv
  <2>1. synced = StampOf(apps) /\ StampOf(apps) \in Stamp /\ a \in App
    BY StampOfIsStamp, ListedIsApps DEF UpToDate
  <2>2. apps[a].at # 0 /\ synced[a] = apps[a].at
    BY <2>1 DEF Listed, StampOf
  <2>3. card[a].whole /\ card[a].at >= synced[a]
    BY <2>1, AppSyncAssumption DEF StampDescribesCard, CardHolds, Stamp
  <2>4. apps[a] # Absent
    BY <2>2 DEF Absent
  <2>5. card[a].at <= apps[a].at
    BY <2>1, <2>4 DEF CardInv, NotAhead
  <2>6. card[a].at \in Nat /\ apps[a].at \in Nat
    BY <2>1 DEF TypeOK, Manifest
  <2>7. card[a].at = apps[a].at
    BY <2>2, <2>3, <2>5, <2>6
  <2> QED
    BY <2>3, <2>7
<1> QED
  BY <1>1, Inductive, PTL

\* A version is written to the card only over a complete set of files.
THEOREM RecordIsHonest == Spec => RecordedOnlyWhenComplete
<1>1. IInv /\ [Next]_vars =>
        [synced' # synced /\ synced' # Unstamped => CardHolds(synced')]_vars
  <2> SUFFICES ASSUME IInv, [Next]_vars, synced' # synced, synced' # Unstamped
               PROVE  CardHolds(synced')
    OBVIOUS
  <2>1. PICK s \in Syncers : Step(s)
    BY DEF Next, vars, cardVars, SaveApp, DeleteApp, Tick, StartSync, PowerLoss
  <2>2. ~ListFolder(s) /\ ~Cleared(s)
    BY DEF ListFolder, Cleared, cardVars
  <2>3. \A a \in App : ~RemoveFile(s, a) /\ ~RemoveFails(s, a) /\ ~FetchManifest(s, a) /\ ~FetchFails(s, a)
    BY DEF RemoveFile, RemoveFails, FetchManifest, FetchFails, cardVars
  <2>4. \A a \in App : ~WriteManifest(s, a) /\ ~WriteFails(s, a)
    BY DEF WriteManifest, WriteFails
  <2>5. ~FinishFetching(s) /\ ~RecordFails(s)
    BY DEF FinishFetching, RecordFails, cardVars
  <2>6. RecordVersion(s)
    BY <2>1, <2>2, <2>3, <2>4, <2>5, Zenon DEF Step
  <2> QED
    BY <2>6, RecordHolds DEF RecordVersion, At
<1> QED
  BY <1>1, Inductive, PTL DEF Spec, RecordedOnlyWhenComplete
=============================================================================
