--------------------------- MODULE FirmwareUpdate ---------------------------
(***************************************************************************)
(* How a reader replaces its own firmware, from the card                   *)
(* (SdFirmwareUpdateActivity, FirmwareFlasher, OtaBootSwitch) or from a    *)
(* release on the network (OtaUpdateActivity, OtaUpdater).                 *)
(*                                                                         *)
(* There are two app partitions, and two entries in otadata that say which *)
(* of them boots.  An update is written over the partition that is not     *)
(* running, a block at a time, and then one otadata entry is erased and    *)
(* written anew.  The power can fail between any two of these steps.       *)
(*                                                                         *)
(* An image is named by what is wrong with it: Good is this firmware for   *)
(* this board; an Alien is whole and says, by its chip id or its board tag, *)
(* that it is for another; an Untagged image is whole, of this chip, and   *)
(* names no board (a fork, another project, an older release); Broken is   *)
(* truncated or corrupted.  The tag guard lets Untagged images through,    *)
(* whatever board they are for, and what they do once they run is not      *)
(* modelled.  The boot loader is external: it takes the valid entry with   *)
(* the highest sequence number, or the first partition when there is none, *)
(* and tries the other partition when what it finds does not pass its own  *)
(* check of the image, which only a Broken one fails.                      *)
(***************************************************************************)
EXTENDS Naturals

CONSTANTS Good, Alien, Untagged, Broken,  \* images by kind
          Blocks,      \* erase blocks an image covers
          Touch,       \* a board with touch has a home gesture and restarts less
          RollsBack,   \* does the boot loader abort an image that does not come up?
          MaxUpdates,  \* bound: images that begin to be written
          MaxFaults    \* bound: failed reads, erases, writes, downloads

ASSUME FirmwareUpdateAssumption ==
  /\ Good \cap Untagged = {} /\ Alien \cap (Good \cup Untagged) = {}
  /\ Broken \cap (Good \cup Alien \cup Untagged) = {}
  /\ Blocks \in Nat \ {0}
  /\ Touch \in BOOLEAN /\ RollsBack \in BOOLEAN
  /\ MaxUpdates \in Nat /\ MaxFaults \in Nat

VARIABLES
  part,      \* the two app partitions: whose image, and how many blocks of it
  slots,     \* the two otadata entries
  running,   \* the partition the device runs
  at,        \* where the update is
  from,      \* which activity it is: "card" or "network"
  recovery,  \* the device was started into the recovery picker
  card,      \* the image at the path that was picked
  src,       \* the image being written
  pos,       \* streamPos, processedSize: blocks written
  entry,     \* locals of switchTo: targetSlot and newSeq
  due,       \* history: the partitions a reset may start
  updates,   \* images that began to be written
  faults     \* faults so far

flash  == <<part, slots>>
locals == <<src, pos, entry>>
bounds == <<updates, faults>>
vars   == <<flash, running, at, from, recovery, card, locals, due, bounds>>

-----------------------------------------------------------------------------
Image     == Good \cup Alien \cup Untagged \cup Broken
Partition == {0, 1}
Slot      == {0, 1}

\* What both validations and esp_ota_end accept: whole, and not a tag or a chip
\* id "naming a DIFFERENT board".
Passing   == Good \cup Untagged

\* The states of the two activities, and the steps of a blocking call.
Waiting == {"idle", "pick", "confirm", "offer", "failed"}
Writing == {"erase", "copy", "blank", "stream"}
Steps   == Waiting \cup Writing \cup {"boot", "other", "check", "recheck", "switch", "entry", "done", "finished"}

\* Entries that cannot be read as one have seq 0, which is never a valid number.
Entry   == [seq : Nat, state : {"new", "valid", "aborted"}]
NoEntry == [seq |-> 0, state |-> "new"]

TypeOK ==
  /\ part \in [Partition -> [image : Image, blocks : 0..Blocks]]
  /\ slots \in [Slot -> Entry]
  /\ running \in Partition /\ due \subseteq Partition
  /\ at \in Steps /\ from \in {"card", "network"} /\ recovery \in BOOLEAN
  /\ card \in Image /\ src \in Image
  /\ pos \in 0..Blocks
  /\ entry \in [slot : Slot, seq : Nat]
  /\ updates \in Nat /\ faults \in Nat

\* "a valid CRC", and not INVALID or ABORTED.
Counts(s, i) == s[i].seq # 0 /\ s[i].state # "aborted"

\* The active slot and its number: of two that count the higher, or the first.
Beats(s, i)  == IF i = 0 THEN s[0].seq >= s[1].seq ELSE s[1].seq > s[0].seq
Active(s, i) == Counts(s, i) /\ (Counts(s, 1 - i) => Beats(s, i))
ActiveSeq(s) == IF Active(s, 0) THEN s[0].seq ELSE IF Active(s, 1) THEN s[1].seq ELSE 0

\* (seq - 1) % 2 is the partition; an image fills its partition or is not whole.
Target(seq)  == IF seq = 0 THEN 0 ELSE (seq - 1) % 2
Complete(p)  == part[p].blocks = Blocks
Verifies(p)  == Complete(p) /\ part[p].image \notin Broken

\* The boot loader's choice.
Selected == Target(ActiveSeq(slots))
Boots    == IF Verifies(Selected) THEN Selected ELSE 1 - Selected

\* esp_ota_get_next_update_partition(nullptr).
Dest == 1 - running

\* A device as it leaves the factory: one image, and otadata blank or naming it.
Init ==
  /\ \E g \in Good : part = [p \in Partition |-> [image |-> g, blocks |-> IF p = 0 THEN Blocks ELSE 0]]
  /\ \E first \in {NoEntry, [seq |-> 1, state |-> "valid"]} :
       slots = [i \in Slot |-> IF i = 0 THEN first ELSE NoEntry]
  /\ running = 0 /\ due = {0}
  /\ at = "boot" /\ from = "card" /\ recovery = FALSE
  /\ card \in Image /\ src = card
  /\ pos = 0 /\ entry = [slot |-> 0, seq |-> 0]
  /\ updates = 0 /\ faults = 0

Fault == faults < MaxFaults /\ faults' = faults + 1 /\ UNCHANGED updates
Go(step) == at' = step /\ UNCHANGED <<flash, running, from, recovery, card, locals, due, bounds>>

-----------------------------------------------------------------------------
\* Starting up.

\* A reset, by power cut, deep sleep or ESP.restart().  DOWN and POWER held
\* at boot start the recovery picker.
Reset ==
  /\ at' = "boot" /\ running' = Boots
  /\ UNCHANGED <<flash, from, recovery, card, locals, due, bounds>>

PowerLoss == at # "boot" /\ Reset

\* What runs; and what the active entry names, should that become whole.
DueNow == due' = {Boots', Selected'}

\* An image that comes up is marked valid.
MarkValid ==
  slots' = [i \in Slot |-> IF RollsBack /\ Active(slots, i) /\ running = Selected
                          THEN [slots[i] EXCEPT !.state = "valid"] ELSE slots[i]]

ComesUp ==
  /\ at = "boot" /\ part[running].image \in Good
  /\ MarkValid
  /\ recovery' \in BOOLEAN
  /\ at' = (IF recovery' THEN "pick" ELSE "idle") /\ from' = "card"
  /\ UNCHANGED <<part, running, card, locals, bounds>>
  /\ DueNow

\* Somebody else's firmware comes up, and marks itself valid or does not.
OtherComesUp ==
  /\ at = "boot" /\ part[running].image \in Untagged
  /\ MarkValid \/ UNCHANGED slots
  /\ at' = "other"
  /\ UNCHANGED <<part, running, from, recovery, card, locals, bounds>>
  /\ DueNow

\* One that was just selected and does not has its entry aborted.
FailsToComeUp(i) ==
  /\ RollsBack /\ at = "boot"
  /\ Active(slots, i) /\ slots[i].state = "new" /\ running = Selected
  /\ slots' = [slots EXCEPT ![i].state = "aborted"]
  /\ UNCHANGED <<part, at, from, recovery, card, locals, bounds>>
  /\ running' = Boots' /\ DueNow

-----------------------------------------------------------------------------
\* SdFirmwareUpdateActivity.

OpenPicker ==
  /\ at = "idle"
  /\ at' = "pick" /\ from' = "card"
  /\ UNCHANGED <<flash, running, recovery, card, locals, due, bounds>>

Pick       == at = "pick" /\ Go("check")
LeaveTo    == IF recovery THEN "pick" ELSE "idle"

\* The card is removable, and the picked path may name another file later.
SwapCard ==
  /\ at \in Waiting
  /\ card' \in Image
  /\ UNCHANGED <<flash, running, at, from, recovery, locals, due, bounds>>

\* validateFirmware, before the owner is asked.
Check ==
  /\ at = "check"
  /\ Go(IF card \in Passing THEN "confirm" ELSE "failed")

Confirm ==
  /\ at = "confirm"
  /\ updates < MaxUpdates /\ updates' = updates + 1
  /\ at' = "recheck"
  /\ UNCHANGED <<flash, running, from, recovery, card, locals, due, faults>>

Cancel == at \in {"pick", "confirm"} /\ Go(LeaveTo)

\* Mutant: flashFromSdPath is told that the file was validated already.
RecheckSkipped ==
  /\ at = "recheck"
  /\ at' = "erase" /\ src' = card /\ pos' = 0
  /\ UNCHANGED <<flash, running, from, recovery, card, entry, due, bounds>>

\* flashFromSdPath validates again, then opens the file.
Recheck ==
  /\ at = "recheck" /\ card \in Passing
  /\ at' = "erase" /\ src' = card /\ pos' = 0
  /\ UNCHANGED <<flash, running, from, recovery, card, entry, due, bounds>>

RecheckFails ==
  /\ at = "recheck" /\ card \notin Passing
  /\ Go("failed")

\* A write to the partition that is not running.  An update that was complete
\* there, and was not started yet, is gone.
Overwrite(content) ==
  /\ part' = [part EXCEPT ![Dest] = content]
  /\ due' = due \cup {running}

EraseBlock ==
  /\ at = "erase"
  /\ Overwrite([image |-> src, blocks |-> pos])
  /\ at' = "copy"
  /\ UNCHANGED <<slots, running, from, recovery, card, locals, bounds>>

CopyBlock ==
  /\ at = "copy"
  /\ Overwrite([image |-> src, blocks |-> pos + 1])
  /\ pos' = pos + 1
  /\ at' = IF pos + 1 < Blocks THEN "erase" ELSE "switch"
  /\ UNCHANGED <<slots, running, from, recovery, card, src, entry, bounds>>

\* Back, Confirm or a tap, once the card could not be used.
Acknowledge == at = "failed" /\ from = "card" /\ Go(LeaveTo)

-----------------------------------------------------------------------------
\* OtaUpdateActivity: a release newer than this firmware is offered.
Offer ==
  /\ at = "idle"
  /\ at' = "offer" /\ from' = "network" /\ src' \in Image
  /\ UNCHANGED <<flash, running, recovery, card, pos, entry, due, bounds>>

\* Leaving after Wi-Fi was up restarts the reader, but not on a touch board.
Leave ==
  /\ at = "offer" \/ (at = "failed" /\ from = "network")
  /\ IF Touch THEN Go("idle") ELSE Reset

Install ==
  /\ at = "offer"
  /\ updates < MaxUpdates /\ updates' = updates + 1
  /\ at' = "blank" /\ pos' = 0
  /\ UNCHANGED <<flash, running, from, recovery, card, src, entry, due, faults>>

\* installUpdate: esp_ota_begin erases the whole partition.
BeginImage ==
  /\ at = "blank"
  /\ Overwrite([image |-> src, blocks |-> 0])
  /\ at' = "stream"
  /\ UNCHANGED <<slots, running, from, recovery, card, locals, bounds>>

\* A chunk that shows the wrong board is not written, so an Alien stays short.
Receive ==
  /\ at = "stream" /\ pos < Blocks
  /\ src \in Alien => pos + 1 < Blocks
  /\ Overwrite([image |-> src, blocks |-> pos + 1])
  /\ pos' = pos + 1
  /\ UNCHANGED <<slots, running, at, from, recovery, card, src, entry, bounds>>

\* The chip id or the tag of another board is seen in the stream.
WrongBoard ==
  /\ at = "stream" /\ src \in Alien
  /\ Go("failed")

\* esp_ota_end verifies what was written, but not what board it is for.
EndImage ==
  /\ at = "stream" /\ pos = Blocks
  /\ Go(IF src \notin Broken THEN "switch" ELSE "failed")

\* The completion screen is held for three seconds, and loop() restarts in the
\* next iteration unless the home gesture comes first.
Restart == at \in {"done", "finished"} /\ Reset

HomeGesture ==
  /\ Touch /\ at \in Waiting \cup {"finished"} /\ at # "idle"
  /\ at' = "idle" /\ recovery' = FALSE
  /\ UNCHANGED <<flash, running, from, card, locals, due, bounds>>

-----------------------------------------------------------------------------
\* switchTo, and what esp_ota_set_boot_partition does instead of it.

\* The smallest number above the active one that stands for Dest.
NextSeq ==
  LET above == ActiveSeq(slots) + 1
  IN  IF Target(above) = Dest THEN above ELSE above + 1

\* Mutant: the active entry is the one that is replaced.
OtherSlotActive == IF Active(slots, 1) THEN 1 ELSE 0

OtherSlot == IF Active(slots, 0) THEN 1 ELSE 0

EraseEntry ==
  /\ at = "switch"
  /\ entry' = [slot |-> OtherSlot, seq |-> NextSeq]
  /\ slots' = [slots EXCEPT ![OtherSlot] = NoEntry]
  /\ at' = "entry"
  /\ UNCHANGED <<part, running, from, recovery, card, src, pos, due, bounds>>

\* From the card the reader restarts from here, from the network it returns to
\* the main loop first.
WriteEntry ==
  /\ at = "entry"
  /\ slots' = [slots EXCEPT ![entry.slot] = [seq |-> entry.seq, state |-> "new"]]
  /\ due' = {Dest}
  /\ at' = IF from = "card" THEN "done" ELSE "finished"
  /\ UNCHANGED <<part, running, from, recovery, card, locals, bounds>>

-----------------------------------------------------------------------------
\* Mutant: a block that could not be copied is tried again.
StepFailsOver ==
  /\ at = "copy"
  /\ at' = "erase"
  /\ UNCHANGED <<flash, running, from, recovery, card, locals, due, bounds>>

\* A read, an erase, a write or the download fails; a write that failed left
\* nothing that counts.
StepFails ==
  /\ at \in Writing \cup {"check", "recheck", "switch", "entry"}
  /\ Fault
  /\ at' = "failed"
  /\ UNCHANGED <<flash, running, from, recovery, card, locals, due>>

-----------------------------------------------------------------------------
Blocking ==
  \/ Check \/ Recheck \/ RecheckFails \/ EraseBlock \/ CopyBlock
  \/ BeginImage \/ Receive \/ WrongBoard \/ EndImage
  \/ EraseEntry \/ WriteEntry \/ StepFails

Next ==
  \/ PowerLoss \/ ComesUp \/ OtherComesUp \/ (\E i \in Slot : FailsToComeUp(i))
  \/ OpenPicker \/ Pick \/ SwapCard \/ Confirm \/ Cancel \/ Acknowledge
  \/ Offer \/ Leave \/ Install \/ Restart \/ HomeGesture
  \/ Blocking

Spec == Init /\ [][Next]_vars

\* A blocking call goes on; flash, card and HTTP client return with an answer.
FairSpec == Spec /\ WF_vars(Blocking)

-----------------------------------------------------------------------------
(* Whatever is interrupted, a reset finds an image the boot loader accepts:   *)
(* "a truncated/corrupted .bin can never become the next boot target"         *)
(* (FirmwareFlasher.cpp:278), and neither can one that names another board    *)
(* (FirmwareFlasher.cpp:143-145, OtaUpdater.cpp:168-172).  That is all: one   *)
(* that names no board may be for any board of the chip, and is let through   *)
(* by design (FirmwareBoardTag.h:14-16).                                      *)
StillBoots == Verifies(Boots) /\ part[Boots].image \notin Alien

(* A reset starts what the owner was told: the new firmware after "update     *)
(* complete", and the running one as long as no update was completed, with    *)
(* the power cut at any step, entries aborted, and both ways of updating and  *)
(* both partitions taking turns (OtaBootSwitch.cpp:36-79).                    *)
StartsWhatWasSaid == Boots \in due

(* An update that was begun ends, with success or a message, or with a reset. *)
UpdateEnds == at \in Writing \cup {"check", "recheck", "switch", "entry"}
                ~> at \in Waiting \cup {"done", "finished", "boot"}
=============================================================================
