------------------------------- MODULE Pairing -------------------------------
(***************************************************************************)
(* How a reader gets its token: the device authorization flow between the  *)
(* relay (relay/src/routes/device.js, POST /claim in dashboard.js), an     *)
(* owner at a browser, and the pairing screen of the reader                *)
(* (InkAgentPairActivity over InkAgentClient and parsePairPoll).           *)
(*                                                                         *)
(* The relay keeps the pairing rows and the device rows in its database,   *)
(* and the plaintext token of a claimed pairing only in memory until a     *)
(* poll takes it.  A request or its answer can be lost; request() sends    *)
(* once more when it got no answer, so the relay may see a poll twice.     *)
(* Either end may restart.                                                 *)
(*                                                                         *)
(* A pairing makes at most one token, which is written as its code.        *)
(***************************************************************************)
EXTENDS Naturals

CONSTANTS Code,           \* device codes the relay can draw, never twice
          None,           \* no code, no token
          RelayRestarts,  \* may the relay process be restarted?
          Interrupted     \* may the pairing screen be left or lose power?

ASSUME PairingAssumption ==
  /\ None \notin Code
  /\ RelayRestarts \in BOOLEAN /\ Interrupted \in BOOLEAN

VARIABLES
  status,   \* pairings.status, "none" before the row exists
  aged,     \* codes whose expires_at has passed
  kept,     \* keys of the pendingToken Map
  devices,  \* device rows, named by the code their token was made for
  revoked,  \* device rows with revoked = 1
  screen,   \* state of InkAgentPairActivity; "home" is any other screen
  code,     \* pairing.deviceCode
  late,     \* millis() > pairingDeadline
  token,    \* INKAGENT_STORE's device token, on the card as well
  call,     \* the request under way: "none", "start" or "poll"
  sends,    \* how often it was sent
  reply,    \* the answer on the wire
  carried,  \* the code or token in that answer
  shown,    \* history: codes the reader has displayed
  handed    \* history: tokens the relay has put into an answer

relayVars   == <<status, aged, kept, devices, revoked>>
readerVars  == <<screen, code, late, token, shown>>
callVars    == <<call, sends, reply, carried>>
pairingVars == <<relayVars, readerVars, callVars, handed>>

-----------------------------------------------------------------------------
Statuses       == {"none", "pending", "claimed", "expired", "consumed"}
PairingScreens == {"home", "start", "wait", "done", "error"}
Replies        == {"none", "started", "pending", "ok", "expired", "denied"}

PairingTypeOK ==
  /\ status \in [Code -> Statuses]
  /\ aged \subseteq Code /\ kept \subseteq Code
  /\ devices \subseteq Code /\ revoked \subseteq devices
  /\ screen \in PairingScreens /\ late \in BOOLEAN
  /\ code \in Code \cup {None} /\ token \in Code \cup {None}
  /\ call \in {"none", "start", "poll"} /\ sends \in 0..2
  /\ reply \in Replies /\ carried \in Code \cup {None}
  /\ shown \subseteq Code /\ handed \subseteq Code

PairingInit ==
  /\ status = [c \in Code |-> "none"]
  /\ aged = {} /\ kept = {} /\ devices = {} /\ revoked = {}
  /\ screen = "home" /\ code = None /\ late = FALSE /\ token = None
  /\ call = "none" /\ sends = 0 /\ reply = "none" /\ carried = None
  /\ shown = {} /\ handed = {}

-----------------------------------------------------------------------------
\* The wire.

Send(kind) == call' = kind /\ sends' = 1 /\ reply' = "none" /\ carried' = None
HangUp     == call' = "none" /\ sends' = 0 /\ reply' = "none" /\ carried' = None
Sent(kind) == call = kind /\ reply = "none"
Answer(r, c) == reply' = r /\ carried' = c /\ UNCHANGED <<call, sends>>

\* The request or its answer is lost; request() retries once.
LoseAndRetry ==
  /\ call # "none" /\ sends = 1
  /\ sends' = 2 /\ reply' = "none" /\ carried' = None
  /\ UNCHANGED <<call, relayVars, readerVars, handed>>

\* Lost again: pairStart is not ok, and a poll counts as "keep polling".
LoseForGood ==
  /\ call # "none" /\ sends = 2
  /\ HangUp
  /\ screen' = IF call = "start" THEN "error" ELSE screen
  /\ UNCHANGED <<code, late, token, shown, relayVars, handed>>

-----------------------------------------------------------------------------
\* The relay.

\* POST /v1/pair/start.
PairStart(c) ==
  /\ Sent("start")
  /\ status[c] = "none"
  /\ status' = [status EXCEPT ![c] = "pending"]
  /\ Answer("started", c)
  /\ UNCHANGED <<aged, kept, devices, revoked, readerVars, handed>>

\* Mutant: the token is read out of the map, the row stays claimed.
HandOverAgain(c) ==
  /\ Sent("poll") /\ code = c
  /\ status[c] = "claimed"
  /\ Answer("ok", IF c \in kept THEN c ELSE None)
  /\ handed' = IF c \in kept THEN handed \cup {c} ELSE handed
  /\ UNCHANGED <<status, kept, aged, devices, revoked, readerVars>>

\* POST /v1/pair/poll, on a claimed pairing: the token leaves the map, and the
\* answer is "ok" with or without one.
HandOver(c) ==
  /\ Sent("poll") /\ code = c
  /\ status[c] = "claimed"
  /\ kept' = kept \ {c}
  /\ status' = [status EXCEPT ![c] = "consumed"]
  /\ Answer("ok", IF c \in kept THEN c ELSE None)
  /\ handed' = IF c \in kept THEN handed \cup {c} ELSE handed
  /\ UNCHANGED <<aged, devices, revoked, readerVars>>

\* POST /v1/pair/poll, on any other: pending, expired or denied.
PollAnswered(c) ==
  /\ Sent("poll") /\ code = c
  /\ status[c] # "claimed"
  /\ LET now == IF status[c] = "pending" /\ c \in aged THEN "expired" ELSE status[c]
     IN  /\ status' = [status EXCEPT ![c] = now]
         /\ Answer(IF now = "consumed" THEN "denied" ELSE now, None)
  /\ UNCHANGED <<aged, kept, devices, revoked, readerVars, handed>>

\* Mutant: no check of the status, only of the expiry.
ClaimAny(c) ==
  /\ c \in shown
  /\ c \notin aged
  /\ devices' = devices \cup {c}
  /\ kept' = kept \cup {c}
  /\ status' = [status EXCEPT ![c] = "claimed"]
  /\ UNCHANGED <<aged, revoked, readerVars, callVars, handed>>

\* POST /claim, by an owner who read the code off the screen.
Claim(c) ==
  /\ c \in shown
  /\ status[c] = "pending" /\ c \notin aged
  /\ devices' = devices \cup {c}
  /\ kept' = kept \cup {c}
  /\ status' = [status EXCEPT ![c] = "claimed"]
  /\ UNCHANGED <<aged, revoked, readerVars, callVars, handed>>

\* POST /devices/revoke.
Revoke(c) ==
  /\ c \in devices \ revoked
  /\ revoked' = revoked \cup {c}
  /\ UNCHANGED <<status, aged, kept, devices, readerVars, callVars, handed>>

\* PAIR_TTL passes.
Age(c) ==
  /\ status[c] # "none" /\ c \notin aged
  /\ aged' = aged \cup {c}
  /\ UNCHANGED <<status, kept, devices, revoked, readerVars, callVars, handed>>

\* Rows survive a restart of the process, pendingToken does not.
RestartRelay ==
  /\ RelayRestarts /\ kept # {}
  /\ kept' = {}
  /\ UNCHANGED <<status, aged, devices, revoked, readerVars, callVars, handed>>

-----------------------------------------------------------------------------
\* The reader.

\* Settings opens the pairing screen only when unpaired; onEnter goes on to
\* startPairing once Wi-Fi is up.
StartPairing ==
  /\ screen = "home" /\ token = None
  /\ screen' = "start"
  /\ Send("start")
  /\ UNCHANGED <<code, late, token, shown, relayVars, handed>>

Started ==
  /\ call = "start" /\ reply = "started"
  /\ screen' = "wait" /\ code' = carried /\ late' = FALSE
  /\ shown' = shown \cup {carried}
  /\ HangUp
  /\ UNCHANGED <<token, relayVars, handed>>

\* expires_in seconds after the answer to pair/start.
Deadline ==
  /\ screen = "wait" /\ ~late
  /\ late' = TRUE
  /\ UNCHANGED <<screen, code, token, shown, relayVars, callVars, handed>>

\* Mutant: pollPairing polls without looking at the deadline.
PollForever ==
  /\ screen = "wait" /\ call = "none"
  /\ Send("poll")
  /\ UNCHANGED <<readerVars, relayVars, handed>>

\* pollPairing looks at the deadline first, then asks the relay.
Poll ==
  /\ screen = "wait" /\ call = "none"
  /\ IF late THEN screen' = "error" /\ UNCHANGED callVars
             ELSE Send("poll") /\ UNCHANGED screen
  /\ UNCHANGED <<code, late, token, shown, relayVars, handed>>

\* Mutant: setPaired on any "ok".  A missing token reads as the previous one.
PolledOkUnchecked ==
  /\ call = "poll" /\ reply = "ok"
  /\ token' = IF carried = None THEN code ELSE carried
  /\ screen' = "done"
  /\ HangUp
  /\ UNCHANGED <<code, late, shown, relayVars, handed>>

\* parsePairPoll makes an "ok" without a token an Error, which polls on.
PolledOk ==
  /\ call = "poll" /\ reply = "ok"
  /\ IF carried = None THEN UNCHANGED <<token, screen>>
                       ELSE token' = carried /\ screen' = "done"
  /\ HangUp
  /\ UNCHANGED <<code, late, shown, relayVars, handed>>

PolledPending ==
  /\ call = "poll" /\ reply = "pending"
  /\ HangUp
  /\ UNCHANGED <<readerVars, relayVars, handed>>

PolledNo ==
  /\ call = "poll" /\ reply \in {"expired", "denied"}
  /\ screen' = "error"
  /\ HangUp
  /\ UNCHANGED <<code, late, token, shown, relayVars, handed>>

\* Back or Confirm at the end; onExit restarts the reader.
Finish ==
  /\ screen \in {"done", "error"}
  /\ screen' = "home" /\ code' = None /\ late' = FALSE
  /\ UNCHANGED <<token, shown, relayVars, callVars, handed>>

\* Back while waiting, or the reader loses power; a saved token survives.
Interrupt ==
  /\ Interrupted /\ screen \in {"start", "wait"}
  /\ screen' = "home" /\ code' = None /\ late' = FALSE
  /\ HangUp
  /\ UNCHANGED <<token, shown, relayVars, handed>>

\* Settings > Unpair, another relay URL, or a reset to defaults.
Unpair ==
  /\ screen = "home" /\ token # None
  /\ token' = None
  /\ UNCHANGED <<screen, code, late, shown, relayVars, callVars, handed>>

\* Any request with the token of a revoked device: 401, and clearPairing.
RefusedByRelay ==
  /\ screen = "home" /\ token \in revoked
  /\ token' = None
  /\ UNCHANGED <<screen, code, late, shown, relayVars, callVars, handed>>

-----------------------------------------------------------------------------
Exchange ==
  \/ LoseAndRetry \/ LoseForGood
  \/ \E c \in Code : PairStart(c) \/ HandOver(c) \/ PollAnswered(c)
  \/ Started \/ PolledOk \/ PolledPending \/ PolledNo

PairingNext ==
  \/ Exchange
  \/ StartPairing \/ Deadline \/ Poll \/ Finish \/ Interrupt \/ Unpair \/ RefusedByRelay
  \/ \E c \in Code : Claim(c) \/ Revoke(c) \/ Age(c)
  \/ RestartRelay

PairingSpec == PairingInit /\ [][PairingNext]_pairingVars

\* Every request is answered or times out, the main loop polls when the time
\* has come, and time passes.  The owner and the network owe nothing.
PairingFairness == WF_pairingVars(Exchange) /\ WF_pairingVars(Poll) /\ WF_pairingVars(Deadline)

PairingFairSpec == PairingSpec /\ PairingFairness

-----------------------------------------------------------------------------
\* Where the plaintext of a token is.
OnWire(c) == call = "poll" /\ reply = "ok" /\ carried = c

Place(c) ==
  IF c \in kept THEN "relay"
  ELSE IF OnWire(c) THEN "answer"
  ELSE IF token = c THEN "reader"
  ELSE IF c \in devices THEN "gone" ELSE "unmade"

Promise == INSTANCE OneTimeToken WITH Token <- Code, place <- [c \in Code |-> Place(c)]

(* The whole flow implements OneTimeToken: a token is made by one claim, moves *)
(* one way through one answer, and is never found again once it was lost, not *)
(* by a retry, another claim or a restart (device.js:26, dashboard.js:649).   *)
KeepsItsPromise == Promise!Spec

(* A token is in one place at a time: with the relay while its pairing is     *)
(* claimed, then in an answer, then in the reader, whichever answers and      *)
(* processes are lost on the way (device.js:26, 59-65).                       *)
TokenInOnePlace ==
  \A c \in Code :
    /\ c \in kept => status[c] = "claimed" /\ ~OnWire(c) /\ token # c
    /\ OnWire(c) => status[c] = "consumed" /\ token # c
    /\ token = c => status[c] = "consumed"

(* "a consumed code never yields a second token" (relay/test/pairing.test.js: *)
(* 46): not to a repeated poll, not after a restart, not to another claim.    *)
NeverHandedTwice ==
  [][\A c \in Code : c \in handed /\ OnWire(c)' => OnWire(c)]_pairingVars

(* A reader that believes it is paired has a row on the relay, made by a      *)
(* claim of the code it was showing (dashboard.js:657, parsePairPoll).        *)
PairedReaderIsListed == token # None => token \in devices \cap handed

(* The pairing screen does not wait forever, with no network at all either    *)
(* (InkAgentPairActivity.cpp:86-90).                                          *)
PairingEnds == screen \in {"start", "wait"} ~> screen \notin {"start", "wait"}

=============================================================================
