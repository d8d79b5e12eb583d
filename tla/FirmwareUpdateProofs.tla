------------------------ MODULE FirmwareUpdateProofs ------------------------
(***************************************************************************)
(* For any images, any number of blocks, updates, faults and power cuts, on *)
(* a board with touch or without: a reset always finds an image to boot    *)
(* that names no other board, and boots what the owner was told.           *)
(***************************************************************************)
EXTENDS FirmwareUpdate, TLAPS

-----------------------------------------------------------------------------
Sound(p) == Verifies(p) /\ part[p].image \in Passing

\* An image that names another board is never completed.
AliensStayShort == \A p \in Partition : Complete(p) => part[p].image \notin Alien

\* What each step of an update may rely on.
CopiesPassing == at \in {"erase", "copy"} => src \in Passing /\ pos < Blocks
Streams    == /\ at = "blank" => pos = 0
              /\ at = "stream" => part[Dest] = [image |-> src, blocks |-> pos]
MaySwitch  == at \in {"switch", "entry"} => Sound(Dest)

\* The entry that is about to be written will be the active one.
EntryReady == at = "entry" => /\ ~Active(slots, entry.slot)
                              /\ slots[entry.slot] = NoEntry
                              /\ entry.seq > ActiveSeq(slots) /\ Target(entry.seq) = Dest

\* The partition the active entry names is one a reset may start.
NamedIsDue == Selected \in due

\* The inductive invariant.
IInv == TypeOK /\ Sound(running) /\ AliensStayShort /\ CopiesPassing /\ Streams /\ MaySwitch
          /\ EntryReady /\ NamedIsDue /\ StartsWhatWasSaid

-----------------------------------------------------------------------------
(* The two otadata entries.                                                *)

\* A number stands for one of the two partitions, and the next one for the other.
LEMMA TargetAlternates ==
  ASSUME NEW seq \in Nat
  PROVE  /\ Target(seq) \in Partition
         /\ seq # 0 => Target(seq + 1) = 1 - Target(seq)
         /\ seq = 0 => Target(seq + 1) = 0
BY DEF Target, Partition

\* There is at most one active entry.
LEMMA ActiveSeqIs ==
  ASSUME NEW s \in [Slot -> Entry]
  PROVE  /\ ActiveSeq(s) \in Nat
         /\ \A i \in Slot : Active(s, i) => ~Active(s, 1 - i) /\ ActiveSeq(s) = s[i].seq
         /\ (\A i \in Slot : ~Active(s, i)) => ActiveSeq(s) = 0
BY DEF Slot, Entry, ActiveSeq, Active, Counts, Beats

\* The number switchTo computes is above the active one and stands for Dest.
LEMMA NextSeqIs ==
  ASSUME slots \in [Slot -> Entry], running \in Partition
  PROVE  NextSeq \in Nat /\ NextSeq > ActiveSeq(slots) /\ Target(NextSeq) = Dest
<1> DEFINE above == ActiveSeq(slots) + 1
<1>1. ActiveSeq(slots) \in Nat
  BY ActiveSeqIs
<1>2. Target(above) \in Partition /\ Target(above + 1) = 1 - Target(above)
  BY <1>1, TargetAlternates
<1>3. Dest \in Partition
  BY DEF Dest, Partition
<1> QED
  BY <1>1, <1>2, <1>3 DEF NextSeq, Partition

\* Erasing the entry that is not active does not change which one is.
LEMMA EraseKeepsActive ==
  ASSUME NEW s \in [Slot -> Entry], NEW o \in Slot, ~Active(s, o)
  PROVE  /\ [s EXCEPT ![o] = NoEntry] \in [Slot -> Entry]
         /\ ActiveSeq([s EXCEPT ![o] = NoEntry]) = ActiveSeq(s)
         /\ ~Active([s EXCEPT ![o] = NoEntry], o)
BY DEF Slot, Entry, NoEntry, ActiveSeq, Active, Counts, Beats

\* An entry with a higher number becomes the active one.
LEMMA HigherIsActive ==
  ASSUME NEW s \in [Slot -> Entry], NEW o \in Slot, s[o] = NoEntry,
         NEW seq \in Nat, seq > ActiveSeq(s)
  PROVE  /\ [s EXCEPT ![o] = [seq |-> seq, state |-> "new"]] \in [Slot -> Entry]
         /\ ActiveSeq([s EXCEPT ![o] = [seq |-> seq, state |-> "new"]]) = seq
BY DEF Slot, Entry, NoEntry, ActiveSeq, Active, Counts, Beats

\* The other slot is never the active one.
LEMMA OtherIsNotActive ==
  ASSUME slots \in [Slot -> Entry]
  PROVE  OtherSlot \in Slot /\ ~Active(slots, OtherSlot)
BY ActiveSeqIs DEF OtherSlot, Slot

-----------------------------------------------------------------------------
(* The two partitions.                                                     *)

\* There are two of them.
LEMMA TwoPartitions == \A p, q \in Partition : 1 - p \in Partition /\ (p # q => 1 - p = q)
BY DEF Partition

LEMMA SelectedIs == TypeOK => Selected \in Partition /\ Dest \in Partition /\ Dest # running
BY ActiveSeqIs, TargetAlternates DEF TypeOK, Selected, Dest, Partition

\* What a reset would start is sound when what runs is.
LEMMA BootsSound == TypeOK /\ Sound(running) /\ AliensStayShort => Boots \in Partition /\ Sound(Boots)
<1> SUFFICES ASSUME TypeOK, Sound(running), AliensStayShort PROVE Boots \in Partition /\ Sound(Boots)
  OBVIOUS
<1>1. running \in Partition /\ Selected \in Partition /\ \A p \in Partition : part[p].image \in Image
  BY SelectedIs DEF TypeOK
<1>2. CASE Verifies(Selected)
  BY <1>1, <1>2 DEF Boots, Sound, Verifies, AliensStayShort, Image, Passing
<1>3. CASE ~Verifies(Selected)
  BY <1>1, <1>3 DEF Boots, Sound, Partition
<1> QED
  BY <1>2, <1>3

-----------------------------------------------------------------------------
LEMMA InvInit == Init => IInv
<1> SUFFICES ASSUME Init PROVE IInv
  OBVIOUS
<1> USE FirmwareUpdateAssumption DEF Init
<1>1. part \in [Partition -> [image : Image, blocks : 0..Blocks]]
  BY DEF Partition, Image
<1>2. slots \in [Slot -> Entry]
  BY DEF Slot, Entry, NoEntry
<1>3. TypeOK
  <2>1. entry \in [slot : Slot, seq : Nat] /\ pos \in 0..Blocks
    BY DEF Slot
  <2> QED
    BY <1>1, <1>2, <2>1 DEF TypeOK, Partition, Steps
<1>4. Sound(running) /\ AliensStayShort
  BY DEF Sound, Verifies, Complete, AliensStayShort, Partition, Passing
<1>5. Selected = 0
  BY DEF Selected, Target, ActiveSeq, Active, Counts, Beats, Slot, NoEntry
<1>6. NamedIsDue /\ StartsWhatWasSaid
  BY <1>4, <1>5 DEF NamedIsDue, StartsWhatWasSaid, Boots, Sound
<1>7. CopiesPassing /\ Streams /\ MaySwitch /\ EntryReady
  BY DEF CopiesPassing, Streams, MaySwitch, EntryReady
<1> QED
  BY <1>3, <1>4, <1>6, <1>7 DEF IInv

-----------------------------------------------------------------------------
\* The steps that leave the flash, what runs and what is due alone.
Steady ==
  \/ OpenPicker \/ Pick \/ SwapCard \/ Check \/ Confirm \/ Cancel \/ Recheck \/ RecheckFails \/ Acknowledge
  \/ Offer \/ (Leave /\ Touch) \/ Install \/ WrongBoard \/ EndImage \/ HomeGesture \/ StepFails
  \/ UNCHANGED vars

LEMMA SteadyStep == IInv /\ Steady => IInv'
<1> SUFFICES ASSUME IInv, Steady PROVE IInv'
  OBVIOUS
<1>1. TypeOK
  BY DEF IInv
<1>2. UNCHANGED <<part, slots, running, due>>
  BY DEF Steady, OpenPicker, Pick, SwapCard, Check, Confirm, Cancel, Recheck, RecheckFails, Acknowledge,
     Offer, Leave, Install, WrongBoard, EndImage, HomeGesture, StepFails, Go, vars, flash
<1>3. TypeOK'
  <2> USE <1>1, <1>2 DEF TypeOK
  <2>1. at' \in Steps /\ from' \in {"card", "network"} /\ recovery' \in BOOLEAN
    BY DEF Steady, OpenPicker, Pick, SwapCard, Check, Confirm, Cancel, Recheck, RecheckFails, Acknowledge,
       Offer, Leave, Install, WrongBoard, EndImage, HomeGesture, StepFails, Go, vars, LeaveTo, Steps, Waiting,
       Writing
  <2>2. card' \in Image /\ src' \in Image /\ pos' \in 0..Blocks /\ UNCHANGED entry
    BY FirmwareUpdateAssumption
    DEF Steady, OpenPicker, Pick, SwapCard, Check, Confirm, Cancel, Recheck, RecheckFails, Acknowledge,
       Offer, Leave, Install, WrongBoard, EndImage, HomeGesture, StepFails, Go, vars, locals
  <2>3. updates' \in Nat /\ faults' \in Nat
    BY DEF Steady, OpenPicker, Pick, SwapCard, Check, Confirm, Cancel, Recheck, RecheckFails, Acknowledge,
       Offer, Leave, Install, WrongBoard, EndImage, HomeGesture, StepFails, Go, vars, bounds, Fault
  <2> QED
    BY <2>1, <2>2, <2>3
<1>4. Sound(running)' /\ AliensStayShort' /\ NamedIsDue' /\ StartsWhatWasSaid'
  BY <1>2 DEF IInv, Sound, Verifies, Complete, AliensStayShort, NamedIsDue, Selected, StartsWhatWasSaid, Boots
<1>5. CopiesPassing'
  BY <1>1, <1>2, FirmwareUpdateAssumption
  DEF IInv, CopiesPassing, TypeOK, Steady, OpenPicker, Pick, SwapCard, Check, Confirm, Cancel, Recheck,
     RecheckFails, Acknowledge, Offer, Leave, Install, WrongBoard, EndImage, HomeGesture, StepFails, Go, vars,
     locals, LeaveTo, Waiting
<1>6. Streams' /\ MaySwitch'
  <2>1. at' \in {"stream", "switch", "entry"} => (at' = at /\ UNCHANGED <<src, pos>>) \/ EndImage
    BY DEF Steady, OpenPicker, Pick, SwapCard, Check, Confirm, Cancel, Recheck, RecheckFails, Acknowledge,
       Offer, Leave, Install, WrongBoard, HomeGesture, StepFails, Go, vars, locals, LeaveTo, Waiting
  <2>2. CASE at' = at /\ UNCHANGED <<src, pos>>
    BY <1>2, <2>2 DEF IInv, Streams, MaySwitch, Dest, Sound, Verifies, Complete
  <2>3. CASE EndImage
    <3>1. at' = "switch" => src \in Passing /\ part[Dest] = [image |-> src, blocks |-> Blocks]
      <4>1. part[Dest] = [image |-> src, blocks |-> Blocks] /\ src \in Image /\ Dest \in Partition
        BY <1>1, <2>3, SelectedIs DEF IInv, EndImage, Streams, TypeOK
      <4>2. src \notin Alien
        BY <4>1 DEF IInv, AliensStayShort, Complete
      <4>3. at' = "switch" => src \notin Broken
        BY <2>3 DEF EndImage, Go
      <4> QED
        BY <4>1, <4>2, <4>3 DEF Image, Passing
    <3>2. at' \in {"switch", "failed"}
      BY <2>3 DEF EndImage, Go
    <3> QED
      BY <1>2, <3>1, <3>2, FirmwareUpdateAssumption DEF Streams, MaySwitch, Dest, Sound, Verifies, Complete, Passing
  <2>4. at' = "blank" => pos' = 0
    BY DEF IInv, Streams, Steady, OpenPicker, Pick, SwapCard, Check, Confirm, Cancel, Recheck, RecheckFails,
       Acknowledge, Offer, Leave, Install, WrongBoard, EndImage, HomeGesture, StepFails, Go, vars, locals, LeaveTo,
       Waiting
  <2> QED
    BY <2>1, <2>2, <2>3, <2>4 DEF Streams, MaySwitch
<1>7. EntryReady'
  <2>1. at' = "entry" => at = "entry" /\ UNCHANGED entry
    BY DEF Steady, OpenPicker, Pick, SwapCard, Check, Confirm, Cancel, Recheck, RecheckFails, Acknowledge,
       Offer, Leave, Install, WrongBoard, EndImage, HomeGesture, StepFails, Go, vars, locals, LeaveTo, Waiting
  <2> QED
    BY <1>2, <2>1 DEF IInv, EntryReady, Dest
<1> QED
  BY <1>3, <1>4, <1>5, <1>6, <1>7 DEF IInv

-----------------------------------------------------------------------------
LEMMA ResetStep == IInv /\ Reset => IInv'
<1> SUFFICES ASSUME IInv, Reset PROVE IInv'
  OBVIOUS
<1>1. Boots \in Partition /\ Sound(Boots)
  BY BootsSound DEF IInv
<1>2. TypeOK'
  BY <1>1 DEF IInv, Reset, TypeOK, flash, locals, bounds, Steps
<1>3. Sound(running)' /\ AliensStayShort' /\ NamedIsDue' /\ StartsWhatWasSaid'
  BY <1>1 DEF IInv, Reset, flash, Sound, Verifies, Complete, AliensStayShort, NamedIsDue, Selected,
     StartsWhatWasSaid, Boots
<1>4. CopiesPassing' /\ Streams' /\ MaySwitch' /\ EntryReady'
  BY DEF Reset, CopiesPassing, Streams, MaySwitch, EntryReady
<1> QED
  BY <1>2, <1>3, <1>4 DEF IInv

\* Whoever's firmware comes up, and whether it marks itself valid or not.
LEMMA UpStep == IInv /\ (ComesUp \/ OtherComesUp) => IInv'
<1> SUFFICES ASSUME IInv, ComesUp \/ OtherComesUp PROVE IInv'
  OBVIOUS
<1>1. slots' \in [Slot -> Entry]
  BY DEF IInv, ComesUp, OtherComesUp, MarkValid, TypeOK, Slot, Entry
<1>2. UNCHANGED <<part, running, card, locals, bounds>> /\ DueNow
  BY DEF ComesUp, OtherComesUp
<1>3. Sound(running)' /\ AliensStayShort'
  BY <1>2 DEF IInv, Sound, Verifies, Complete, AliensStayShort
<1>4. Selected' \in Partition
  BY <1>1, ActiveSeqIs, TargetAlternates DEF Selected
<1>5. Boots' \in Partition
  BY <1>4, TwoPartitions DEF Boots, Verifies, Complete
<1>6. at' \in {"pick", "idle", "other"} /\ from' \in {"card", "network"} /\ recovery' \in BOOLEAN
  BY DEF IInv, TypeOK, ComesUp, OtherComesUp
<1>7. TypeOK'
  BY <1>1, <1>2, <1>4, <1>5, <1>6 DEF IInv, DueNow, TypeOK, locals, bounds, Steps, Waiting
<1>8. NamedIsDue' /\ StartsWhatWasSaid'
  BY <1>2 DEF DueNow, NamedIsDue, StartsWhatWasSaid
<1>9. CopiesPassing' /\ Streams' /\ MaySwitch' /\ EntryReady'
  BY <1>6 DEF CopiesPassing, Streams, MaySwitch, EntryReady
<1> QED
  BY <1>3, <1>7, <1>8, <1>9 DEF IInv

LEMMA FailsStep == \A i \in Slot : IInv /\ FailsToComeUp(i) => IInv'
<1> SUFFICES ASSUME NEW i \in Slot, IInv, FailsToComeUp(i) PROVE IInv'
  OBVIOUS
<1>1. slots' \in [Slot -> Entry]
  BY DEF IInv, FailsToComeUp, TypeOK, Slot, Entry
<1>2. part' = part /\ AliensStayShort'
  BY DEF IInv, FailsToComeUp, Complete, AliensStayShort
<1>3. Selected' \in Partition
  BY <1>1, ActiveSeqIs, TargetAlternates DEF Selected
<1>4. Boots' \in Partition /\ Sound(Boots)'
  <2>1. running \in Partition /\ \A p \in Partition : part[p].image \in Image
    BY DEF IInv, TypeOK
  <2>2. CASE Verifies(Selected)'
    BY <1>2, <1>3, <2>1, <2>2 DEF Boots, Sound, Verifies, Complete, AliensStayShort, Image, Passing
  <2>3. CASE ~Verifies(Selected)'
    <3>1. Sound(running) /\ Selected' # running
      BY <1>2, <2>3 DEF IInv, Sound, Verifies, Complete
    <3>2. 1 - Selected' = running
      BY <1>3, <2>1, <3>1, TwoPartitions
    <3>3. Boots' = running
      BY <2>3, <3>2 DEF Boots, Verifies, Complete
    <3> QED
      BY <1>2, <2>1, <3>1, <3>3 DEF Sound, Verifies, Complete
  <2> QED
    BY <2>2, <2>3
<1>5. TypeOK' /\ Sound(running)'
  BY <1>1, <1>3, <1>4 DEF IInv, FailsToComeUp, DueNow, TypeOK, Sound, Verifies, Complete, locals, bounds
<1>6. NamedIsDue' /\ StartsWhatWasSaid'
  BY DEF FailsToComeUp, DueNow, NamedIsDue, StartsWhatWasSaid
<1>7. CopiesPassing' /\ Streams' /\ MaySwitch' /\ EntryReady'
  BY DEF FailsToComeUp, CopiesPassing, Streams, MaySwitch, EntryReady
<1> QED
  BY <1>2, <1>5, <1>6, <1>7 DEF IInv

-----------------------------------------------------------------------------
\* The steps that write to the partition that is not running.
Writes == EraseBlock \/ CopyBlock \/ BeginImage \/ Receive

LEMMA WriteStep == IInv /\ Writes => IInv'
<1> SUFFICES ASSUME IInv, Writes PROVE IInv'
  OBVIOUS
<1>1. /\ TypeOK /\ Sound(running) /\ AliensStayShort
      /\ running \in Partition /\ Dest \in Partition /\ Dest # running /\ Selected \in Partition
  BY SelectedIs DEF IInv, TypeOK
<1>2. UNCHANGED <<slots, running, from, recovery, card, src, entry, updates, faults>>
  BY DEF Writes, EraseBlock, CopyBlock, BeginImage, Receive, locals, bounds
<1>3. PICK b \in 0..Blocks : Overwrite([image |-> src, blocks |-> b]) /\ (b = Blocks => src \notin Alien)
  <2>1. at \in {"erase", "copy"} => src \in Passing /\ pos < Blocks
    BY DEF IInv, CopiesPassing
  <2>2. Blocks \in Nat \ {0} /\ pos \in 0..Blocks /\ Alien \cap Passing = {}
    BY <1>1, FirmwareUpdateAssumption DEF TypeOK, Passing
  <2>3. CASE EraseBlock
    BY <2>1, <2>2, <2>3 DEF EraseBlock
  <2>4. CASE CopyBlock
    <3>1. pos + 1 \in 0..Blocks /\ src \notin Alien
      BY <2>1, <2>2, <2>4 DEF CopyBlock
    <3> QED
      BY <2>4, <3>1 DEF CopyBlock
  <2>5. CASE BeginImage
    <3>1. 0 \in 0..Blocks /\ 0 # Blocks
      BY <2>2
    <3> QED
      BY <2>5, <3>1 DEF BeginImage
  <2>6. CASE Receive
    <3>1. pos + 1 \in 0..Blocks /\ (pos + 1 = Blocks => src \notin Alien)
      BY <2>2, <2>6 DEF Receive
    <3> QED
      BY <2>6, <3>1 DEF Receive
  <2> QED
    BY <2>3, <2>4, <2>5, <2>6 DEF Writes
<1>4. part' \in [Partition -> [image : Image, blocks : 0..Blocks]] /\ part'[Dest] = [image |-> src, blocks |-> b]
        /\ part'[running] = part[running]
  BY <1>1, <1>3 DEF Overwrite, TypeOK
<1>5. pos' \in 0..Blocks /\ at' \in {"copy", "erase", "switch", "stream"}
  BY <1>1, FirmwareUpdateAssumption
  DEF IInv, TypeOK, CopiesPassing, Writes, EraseBlock, CopyBlock, BeginImage, Receive, locals
<1>6. TypeOK'
  BY <1>1, <1>2, <1>3, <1>4, <1>5 DEF TypeOK, Overwrite, Steps, Writing
<1>7. Sound(running)' /\ AliensStayShort'
  BY <1>1, <1>2, <1>3, <1>4 DEF Sound, Verifies, Complete, AliensStayShort, Overwrite, TypeOK
<1>8. NamedIsDue' /\ StartsWhatWasSaid'
  <2>1. Selected' = Selected /\ Selected \in due /\ due' = due \cup {running}
    BY <1>2, <1>3 DEF IInv, NamedIsDue, Selected, Overwrite
  <2>2. Verifies(Selected)' \/ Selected # running
    BY <1>2, <1>7, <2>1 DEF Sound, Verifies, Complete
  <2>3. Boots' = Selected \/ Boots' = running
    BY <1>1, <2>1, <2>2, TwoPartitions DEF Boots, Verifies, Complete
  <2> QED
    BY <2>1, <2>3 DEF NamedIsDue, StartsWhatWasSaid
<1>9. CopiesPassing' /\ Streams' /\ MaySwitch' /\ EntryReady'
  <2> USE FirmwareUpdateAssumption
  <2>1. Dest' = Dest /\ pos \in 0..Blocks
    BY <1>1, <1>2 DEF Dest, TypeOK
  <2>2. CASE EraseBlock
    BY <1>2, <2>1, <2>2 DEF IInv, EraseBlock, CopiesPassing, Streams, MaySwitch, EntryReady, locals
  <2>3. CASE CopyBlock
    <3>1. src \in Passing /\ pos < Blocks /\ pos' = pos + 1
      BY <2>3 DEF IInv, CopyBlock, CopiesPassing
    <3>2. (at' = "erase" /\ pos + 1 < Blocks) \/ (at' = "switch" /\ pos + 1 = Blocks)
      <4>1. at' = IF pos + 1 < Blocks THEN "erase" ELSE "switch"
        BY <2>3 DEF CopyBlock
      <4>2. pos + 1 < Blocks \/ pos + 1 = Blocks
        BY <2>1, <3>1
      <4> QED
        BY <4>1, <4>2
    <3>3. part'[Dest] = [image |-> src, blocks |-> pos + 1]
      BY <1>1, <2>3 DEF CopyBlock, Overwrite, TypeOK
    <3> QED
      BY <1>2, <2>1, <3>1, <3>2, <3>3
      DEF CopiesPassing, Streams, MaySwitch, EntryReady, Sound, Verifies, Complete, Passing
  <2>4. CASE BeginImage
    <3>1. part'[Dest] = [image |-> src, blocks |-> 0] /\ pos = 0
      BY <1>1, <2>4 DEF IInv, BeginImage, Overwrite, TypeOK, Streams
    <3> QED
      BY <1>2, <2>1, <2>4, <3>1 DEF BeginImage, CopiesPassing, Streams, MaySwitch, EntryReady, locals
  <2>5. CASE Receive
    <3>1. part'[Dest] = [image |-> src, blocks |-> pos'] /\ at' = "stream"
      BY <1>1, <1>2, <2>5 DEF Receive, Overwrite, TypeOK
    <3> QED
      BY <1>2, <2>1, <3>1 DEF CopiesPassing, Streams, MaySwitch, EntryReady
  <2> QED
    BY <2>2, <2>3, <2>4, <2>5 DEF Writes
<1> QED
  BY <1>6, <1>7, <1>8, <1>9 DEF IInv

-----------------------------------------------------------------------------
LEMMA EraseEntryStep == IInv /\ EraseEntry => IInv'
<1> SUFFICES ASSUME IInv, EraseEntry PROVE IInv'
  OBVIOUS
<1>1. TypeOK /\ slots \in [Slot -> Entry] /\ running \in Partition
  BY DEF IInv, TypeOK
<1>2. OtherSlot \in Slot /\ NextSeq \in Nat /\ NextSeq > ActiveSeq(slots) /\ Target(NextSeq) = Dest
  BY <1>1, OtherIsNotActive, NextSeqIs
<1>3. /\ slots' \in [Slot -> Entry] /\ ActiveSeq(slots') = ActiveSeq(slots)
      /\ ~Active(slots', OtherSlot) /\ slots'[OtherSlot] = NoEntry
  BY <1>1, <1>2, OtherIsNotActive, EraseKeepsActive DEF EraseEntry
<1>4. entry' = [slot |-> OtherSlot, seq |-> NextSeq] /\ UNCHANGED <<part, running, due>> /\ at' = "entry"
  BY DEF EraseEntry
<1>5. TypeOK'
  BY <1>1, <1>2, <1>3 DEF EraseEntry, TypeOK, bounds, Steps
<1>6. Sound(running)' /\ AliensStayShort' /\ NamedIsDue' /\ StartsWhatWasSaid'
  BY <1>3 DEF IInv, EraseEntry, Sound, Verifies, Complete, AliensStayShort, NamedIsDue, StartsWhatWasSaid,
     Boots, Selected
<1>7. CopiesPassing' /\ Streams' /\ MaySwitch' /\ EntryReady'
  <2>1. Dest' = Dest /\ Sound(Dest)'
    BY <1>4 DEF IInv, EraseEntry, MaySwitch, Dest, Sound, Verifies, Complete
  <2>2. EntryReady'
    BY <1>2, <1>3, <1>4, <2>1 DEF EntryReady
  <2> QED
    BY <1>4, <2>1, <2>2 DEF CopiesPassing, Streams, MaySwitch
<1> QED
  BY <1>5, <1>6, <1>7 DEF IInv

LEMMA WriteEntryStep == IInv /\ WriteEntry => IInv'
<1> SUFFICES ASSUME IInv, WriteEntry PROVE IInv'
  OBVIOUS
<1>1. TypeOK /\ slots \in [Slot -> Entry] /\ entry.slot \in Slot /\ entry.seq \in Nat /\ Dest \in Partition
  BY SelectedIs DEF IInv, TypeOK
<1>2. slots' \in [Slot -> Entry] /\ ActiveSeq(slots') = entry.seq
  <2>1. slots[entry.slot] = NoEntry /\ entry.seq > ActiveSeq(slots)
    BY DEF IInv, EntryReady, WriteEntry
  <2> QED
    BY <1>1, <2>1, HigherIsActive DEF WriteEntry
<1>3. TypeOK'
  BY <1>1, <1>2 DEF WriteEntry, TypeOK, locals, bounds, Steps
<1>4. Selected' = Dest /\ Dest' = Dest /\ due' = {Dest}
  BY <1>2 DEF IInv, EntryReady, WriteEntry, Selected, Dest
<1>5. Sound(running)' /\ AliensStayShort' /\ Sound(Dest)'
  BY DEF IInv, WriteEntry, MaySwitch, Sound, Verifies, Complete, AliensStayShort, Dest
<1>6. NamedIsDue' /\ StartsWhatWasSaid'
  BY <1>4, <1>5 DEF NamedIsDue, StartsWhatWasSaid, Boots, Sound, Verifies, Complete
<1>7. CopiesPassing' /\ Streams' /\ MaySwitch' /\ EntryReady'
  BY DEF WriteEntry, CopiesPassing, Streams, MaySwitch, EntryReady
<1> QED
  BY <1>3, <1>5, <1>6, <1>7 DEF IInv

-----------------------------------------------------------------------------
LEMMA InvStep == IInv /\ [Next]_vars => IInv'
<1> SUFFICES ASSUME IInv, [Next]_vars PROVE IInv'
  OBVIOUS
<1>1. CASE PowerLoss \/ Restart \/ (Leave /\ ~Touch)
  BY <1>1, ResetStep DEF PowerLoss, Restart, Leave
<1>2. CASE ComesUp \/ OtherComesUp \/ \E i \in Slot : FailsToComeUp(i)
  BY <1>2, UpStep, FailsStep
<1>3. CASE Writes
  BY <1>3, WriteStep
<1>4. CASE EraseEntry \/ WriteEntry
  BY <1>4, EraseEntryStep, WriteEntryStep
<1>5. CASE Steady
  BY <1>5, SteadyStep
<1> QED
  BY <1>1, <1>2, <1>3, <1>4, <1>5 DEF Next, Blocking, Steady, Writes

(* What the steps of an update rely on holds throughout.                   *)
THEOREM Invariance == Spec => []IInv
BY InvInit, InvStep, PTL DEF Spec

(* The variables stay in their types.                                      *)
THEOREM TypeCorrect == Spec => []TypeOK
<1>1. IInv => TypeOK
  BY DEF IInv
<1> QED
  BY <1>1, Invariance, PTL

(* Whenever the power is cut, and however often, a reset finds an image    *)
(* that is whole and names no other board (FirmwareFlasher.cpp:276-278,    *)
(* FirmwareBoardTag.h:14-16).                                              *)
THEOREM AlwaysBoots == Spec => []StillBoots
<1>1. IInv => StillBoots
  <2>1. IInv => Sound(Boots)
    BY BootsSound DEF IInv
  <2> QED
    BY <2>1, FirmwareUpdateAssumption DEF StillBoots, Sound, Passing
<1> QED
  BY <1>1, Invariance, PTL

(* A reset starts the firmware the owner was told it would                 *)
(* (OtaBootSwitch.cpp:36-79).                                              *)
THEOREM BootsWhatWasSaid == Spec => []StartsWhatWasSaid
<1>1. IInv => StartsWhatWasSaid
  BY DEF IInv
<1> QED
  BY <1>1, Invariance, PTL
=============================================================================
