--------------------------- MODULE RegistrationIndex ---------------------------
(***************************************************************************)
(* The registration index: which signing key a hotkey registered on the    *)
(* chain, and up to which block the chain has been scanned for it.         *)
(*                                                                         *)
(* Two programs write the index file.  The builder scans blocks in order   *)
(* from its checkpoint, saves every so many blocks and at the end; it runs *)
(* once per tick or stays and waits for the next pass.  The head sweep     *)
(* reads every hotkey's commitment as it is now and the registrations of   *)
(* the last blocks, and adds the hotkeys the file does not have.  Both     *)
(* save the index and then the sidecar beside it, and each of the two      *)
(* files is read first and replaced in a step of its own.  A block may     *)
(* stay unreadable, a look-up may fail, either program may die, and the    *)
(* daemon kills a pass that exceeds its time limit, at every tick if need  *)
(* be, or has the scan switched off.                                       *)
(*                                                                         *)
(* A registered key is the number of the block that registered it.         *)
(***************************************************************************)
EXTENDS Integers, FiniteSets

CONSTANTS
  Hotkeys,
  NoOne,
  MaxBlock,         \* bound: the last block of the chain
  Lookback,         \* --cold-start-lookback-blocks
  RecentBlocks,     \* RECENT_MAX_BLOCKS of the head sweep
  CheckpointEvery,  \* --checkpoint-every
  MaxPerPass,       \* --max-blocks-per-pass
  Paces,            \* blocks that can be read in the time limit of a pass
  MaxOverlaps,      \* bound: programs started while the other one runs
  MaxFaults         \* bound: blocks and look-ups that cannot be read, programs that die

NoBlock == 0
Blocks == 1 .. MaxBlock
Heights == 0 .. MaxBlock

ASSUME HotkeysAssumption == IsFiniteSet(Hotkeys) /\ NoOne \notin Hotkeys
ASSUME BoundsAssumption ==
  /\ MaxBlock \in Nat \ {0} /\ Lookback \in Nat /\ RecentBlocks \in Nat \ {0}
  /\ CheckpointEvery \in Nat \ {0} /\ MaxPerPass \in Nat \ {0}
  /\ Paces \subseteq Nat /\ MaxOverlaps \in Nat /\ MaxFaults \in Nat

VARIABLES
  head, chain,              \* the chain: its height, the commitment of each block
  index,                    \* sn21-reg-index.json
  state,                    \* its .state.json: checkpoint, last head sweep
  pace,                     \* of this deployment; 0: the scan is switched off
  pc, mem, cursor,          \* the builder: entries and _last_scanned_block
  next, target, tip,        \* its pass: next block, last one, head at the start
  count, mark, after,       \* blocks scanned, checkpoint being saved, what follows
  disk, side,               \* its save: the two files as it read them
  rpc, rhead, rmem, rside,  \* the head sweep: head, entries and sidecar it read
  from, sound,              \* history: where the scans that left a checkpoint began; no known gap
  faults, overlaps

blockchain == <<head, chain>>
files == <<index, state>>
pass == <<mem, cursor, next, target, tip, count, mark, after>>
builder == <<pc, pass, disk, side>>
sweep == <<rpc, rhead, rmem, rside>>
vars == <<blockchain, files, pace, builder, sweep, from, sound, faults, overlaps>>

Entries == [key : Heights, at : Heights]
NoEntry == [key |-> NoBlock, at |-> NoBlock]
NoEntries == [h \in Hotkeys |-> NoEntry]
Sidecars == [cursor : Heights, swept : Heights]
NoSidecar == [cursor |-> NoBlock, swept |-> NoBlock]
Commits == [who : Hotkeys, what : {"registration", "bundle"}]
Quiet == [who |-> NoOne, what |-> "none"]

TypeOK ==
  /\ head \in Heights /\ chain \in [Blocks -> Commits \cup {Quiet}]
  /\ index \in [Hotkeys -> Entries] /\ mem \in [Hotkeys -> Entries]
  /\ rmem \in [Hotkeys -> Entries] /\ disk \in [Hotkeys -> Entries]
  /\ {state, side, rside} \subseteq Sidecars
  /\ pace \in Paces
  /\ pc \in {"off", "wait", "scan", "index", "write", "state", "side"}
  /\ cursor \in Heights /\ next \in 0 .. (MaxBlock + 1)
  /\ {target, tip, mark, rhead, from} \subseteq Heights
  /\ count \in Nat /\ after \in {"scan", "final", "end"}
  /\ rpc \in {"off", "sweep", "write", "stamp", "side"}
  /\ sound \in BOOLEAN /\ faults \in 0 .. MaxFaults /\ overlaps \in 0 .. MaxOverlaps

Init ==
  /\ head = 0 /\ chain = [b \in Blocks |-> Quiet]
  /\ index = NoEntries /\ state = NoSidecar
  /\ pace \in Paces
  /\ pc = "off" /\ mem = NoEntries /\ cursor = NoBlock
  /\ next = 0 /\ target = 0 /\ tip = 0 /\ count = 0 /\ mark = 0 /\ after = "scan"
  /\ disk = NoEntries /\ side = NoSidecar
  /\ rpc = "off" /\ rhead = 0 /\ rmem = NoEntries /\ rside = NoSidecar
  /\ from = NoBlock /\ sound = TRUE
  /\ faults = 0 /\ overlaps = 0

-----------------------------------------------------------------------------
(* The chain *)

\* A block, with at most one commitment: a registration, or a bundle of
\* predictions that takes the place of whatever the hotkey had committed.
NewBlock ==
  /\ head < MaxBlock
  /\ head' = head + 1
  /\ \E c \in Commits \cup {Quiet} : chain' = [chain EXCEPT ![head + 1] = c]
  /\ UNCHANGED <<files, pace, builder, sweep, from, sound, faults, overlaps>>

RegisteredAt(h, b) == chain[b] = [who |-> h, what |-> "registration"]
CommittedAt(h) == {b \in Blocks : b <= head /\ chain[b].who = h}
LastOf(S) == CHOOSE b \in S : \A c \in S : c <= b

-----------------------------------------------------------------------------
(* Entries *)

\* merge_json and _try_index_event: an entry gives way to a newer one only.
Take(entries, h, entry) ==
  IF entries[h].at >= entry.at THEN entries ELSE [entries EXCEPT ![h] = entry]

\* Written as the builder has them.
UnionWithDisk_Memory(read, entries) == entries
\* The file as it was read, each entry replaced by the builder's if that is as new.
UnionWithDisk(read, entries) ==
  [h \in Hotkeys |-> IF entries[h] # NoEntry /\ entries[h].at >= read[h].at
                     THEN entries[h] ELSE read[h]]

\* A program is started, beside the other one or not.
StartedBeside(busy) ==
  IF busy THEN overlaps < MaxOverlaps /\ overlaps' = overlaps + 1 ELSE UNCHANGED overlaps

-----------------------------------------------------------------------------
(* The builder *)

UpToDate_AlmostThere(last, end) == last # NoBlock /\ last + 1 >= end
UpToDate(last, end) == last # NoBlock /\ last >= end

\* A pass from the checkpoint, or over the last blocks when there is none.  A
\* new process loads both files; one that waited goes on with what it has.
StartPass ==
  /\ pc \in {"off", "wait"} /\ head > 0 /\ pace # 0
  /\ StartedBeside(rpc # "off")
  /\ LET last == IF pc = "off" THEN state.cursor ELSE cursor
         start == IF last # NoBlock THEN last + 1
                  ELSE IF head > Lookback THEN head - Lookback ELSE 1
         cap == start + MaxPerPass - 1
     IN /\ ~UpToDate(last, head)
        /\ cursor' = last /\ next' = start
        /\ target' = IF cap < head THEN cap ELSE head
        /\ from' = IF from = NoBlock THEN start ELSE from
  /\ mem' = IF pc = "off" THEN index ELSE mem
  /\ tip' = head /\ count' = 0
  /\ pc' = "scan"
  /\ UNCHANGED <<blockchain, files, pace, mark, after, disk, side, sweep, sound, faults>>

Fault == faults < MaxFaults /\ faults' = faults + 1
Save(block, then) == pc' = "index" /\ mark' = block /\ after' = then
PassOver ==
  next' = 0 /\ target' = 0 /\ tip' = 0 /\ count' = 0 /\ mark' = 0 /\ after' = "scan"
Scanned(b) == IF b > cursor THEN b ELSE cursor

\* A block is read: a registration in it is looked up and taken.  A look-up that
\* fails says there is none, and the block counts as scanned.
ScanBlock ==
  /\ pc = "scan" /\ next <= target /\ count < pace
  /\ LET h == chain[next].who
         registered == h # NoOne /\ RegisteredAt(h, next)
     IN \/ /\ mem' = IF registered THEN Take(mem, h, [key |-> next, at |-> next]) ELSE mem
           /\ UNCHANGED <<sound, faults>>
        \/ registered /\ Fault /\ sound' = FALSE /\ UNCHANGED mem
  /\ cursor' = Scanned(next) /\ next' = next + 1
  /\ count' = count + 1
  /\ IF (count + 1) % CheckpointEvery = 0 THEN Save(next, "scan")
     ELSE UNCHANGED <<pc, mark, after>>
  /\ UNCHANGED <<blockchain, files, pace, target, tip, disk, side, sweep, from, overlaps>>

\* An unreadable block is passed over.
StopAtBlock_GoOn ==
  /\ pc = "scan" /\ next <= target
  /\ Fault
  /\ cursor' = Scanned(next) /\ next' = next + 1
  /\ UNCHANGED <<blockchain, files, pace, pc, mem, target, tip, count, mark, after, disk, side,
                 sweep, from, sound, overlaps>>
\* A block stays unreadable: the pass stops before it.  The save that follows
\* names the end of the range all the same; without a block read so far, so does
\* the last one.
StopAtBlock ==
  /\ pc = "scan" /\ next <= target
  /\ Fault
  /\ sound' = (sound /\ cursor # NoBlock)
  /\ Save(target, "final")
  /\ UNCHANGED <<blockchain, files, pace, mem, cursor, next, target, tip, count, disk, side, sweep,
                 from, overlaps>>

EndScan ==
  /\ pc = "scan" /\ next > target
  /\ Save(target, "final")
  /\ UNCHANGED <<blockchain, files, pace, mem, cursor, next, target, tip, count, disk, side, sweep,
                 from, sound, faults, overlaps>>

\* The index is read once more and replaced by its union with the memory.
ReadIndex ==
  /\ pc = "index"
  /\ disk' = index /\ pc' = "write"
  /\ UNCHANGED <<blockchain, files, pace, pass, side, sweep, from, sound, faults, overlaps>>

WriteIndex ==
  /\ pc = "write"
  /\ index' = UnionWithDisk(disk, mem)
  /\ disk' = NoEntries /\ pc' = "state"
  /\ UNCHANGED <<blockchain, state, pace, pass, side, sweep, from, sound, faults, overlaps>>

\* The sidecar is read and replaced, with the checkpoint of this save.
ReadState ==
  /\ pc = "state"
  /\ side' = state /\ pc' = "side"
  /\ UNCHANGED <<blockchain, files, pace, pass, disk, sweep, from, sound, faults, overlaps>>

\* After the save of the scan's end the pass saves once more, with the last block
\* it did scan, and the process ends or waits.
WriteState ==
  /\ pc = "side"
  /\ state' = [side EXCEPT !.cursor = mark] /\ side' = NoSidecar
  /\ \/ /\ after = "scan" /\ pc' = "scan"
        /\ UNCHANGED pass
     \/ /\ after = "final" /\ Save(IF cursor # NoBlock THEN cursor ELSE tip, "end")
        /\ UNCHANGED <<mem, cursor, next, target, tip, count>>
     \/ /\ after = "end" /\ pc' = "off" /\ mem' = NoEntries /\ cursor' = NoBlock /\ PassOver
     \/ /\ after = "end" /\ pc' = "wait" /\ PassOver
        /\ UNCHANGED <<mem, cursor>>
  /\ UNCHANGED <<blockchain, index, pace, disk, sweep, from, sound, faults, overlaps>>

\* Gone between the two last saves of a pass that stopped early, the builder
\* leaves a checkpoint past the blocks it did not read.
BuilderGone ==
  /\ sound' = (sound /\ state.cursor <= cursor)
  /\ pc' = "off" /\ mem' = NoEntries /\ cursor' = NoBlock /\ PassOver
  /\ disk' = NoEntries /\ side' = NoSidecar
  /\ from' = IF state.cursor = NoBlock THEN NoBlock ELSE from
  /\ UNCHANGED <<blockchain, files, pace, sweep, overlaps>>

BuilderDies ==
  /\ pc # "off"
  /\ Fault
  /\ BuilderGone

\* The daemon kills a pass at its time limit, however often.
Killed ==
  /\ pc \notin {"off", "wait"} /\ count >= pace
  /\ BuilderGone
  /\ UNCHANGED faults

-----------------------------------------------------------------------------
(* The head sweep *)

StartRefresh ==
  /\ rpc = "off" /\ head > 0
  /\ StartedBeside(pc \notin {"off", "wait"})
  /\ rhead' = head /\ rmem' = index
  /\ rpc' = "sweep"
  /\ UNCHANGED <<blockchain, files, pace, builder, rside, from, sound, faults>>

\* What the sweep finds of a hotkey the file does not have: its commitment of
\* now, if that is a registration, or else its last one in the recent blocks.
Found(h, deaf, upto) ==
  LET start == IF state.swept + 1 > rhead - RecentBlocks + 1 THEN state.swept + 1
               ELSE rhead - RecentBlocks + 1
      recent == {b \in Blocks : b >= start /\ b <= upto /\ RegisteredAt(h, b)}
      now == IF CommittedAt(h) = {} THEN NoBlock ELSE LastOf(CommittedAt(h))
  IN IF now # NoBlock /\ RegisteredAt(h, now) /\ h \notin deaf
     THEN [key |-> now, at |-> rhead]
     ELSE IF recent # {} THEN [key |-> LastOf(recent), at |-> LastOf(recent)]
     ELSE NoEntry

\* Hotkeys whose commitment cannot be read are passed over; the scan of the
\* recent blocks stops at one that cannot be read.
Sweep ==
  /\ rpc = "sweep"
  /\ \E deaf \in SUBSET Hotkeys, upto \in 0 .. rhead :
       LET unread == Cardinality(deaf) + (IF upto < rhead THEN 1 ELSE 0)
       IN /\ faults + unread <= MaxFaults
          /\ faults' = faults + unread
          /\ rmem' = [h \in Hotkeys |-> IF rmem[h] # NoEntry THEN rmem[h]
                                        ELSE Found(h, deaf, upto)]
  /\ rpc' = "write"
  /\ UNCHANGED <<blockchain, files, pace, builder, rhead, rside, from, sound, overlaps>>

\* The file is replaced by what was loaded and found, whatever was saved since.
WriteRefresh ==
  /\ rpc = "write"
  /\ index' = rmem
  /\ sound' = (sound /\ \A h \in Hotkeys : rmem[h].at >= index[h].at)
  /\ rpc' = "stamp" /\ rmem' = NoEntries
  /\ UNCHANGED <<blockchain, state, pace, builder, rhead, rside, from, faults, overlaps>>

SweepOver == rpc' = "off" /\ rhead' = 0 /\ rmem' = NoEntries /\ rside' = NoSidecar

ReadStamp ==
  /\ rpc = "stamp"
  /\ rside' = state /\ rpc' = "side"
  /\ UNCHANGED <<blockchain, files, pace, builder, rhead, rmem, from, sound, faults, overlaps>>

\* The sidecar goes back as it was read, but for the head of this sweep: the
\* checkpoint may be that of a stopped pass, past the blocks it did not read, or
\* be gone if there was none.
WriteStamp ==
  /\ rpc = "side"
  /\ state' = [rside EXCEPT !.swept = rhead]
  /\ sound' = (sound /\ rside.cursor <= state.cursor
                     /\ (state.cursor # NoBlock => rside.cursor # NoBlock))
  /\ SweepOver
  /\ UNCHANGED <<blockchain, index, pace, builder, from, faults, overlaps>>

RefreshDies ==
  /\ rpc # "off"
  /\ Fault
  /\ SweepOver
  /\ UNCHANGED <<blockchain, files, pace, builder, from, sound, overlaps>>

Next ==
  \/ NewBlock
  \/ StartPass \/ ScanBlock \/ StopAtBlock \/ EndScan
  \/ ReadIndex \/ WriteIndex \/ ReadState \/ WriteState \/ BuilderDies \/ Killed
  \/ StartRefresh \/ Sweep \/ WriteRefresh \/ ReadStamp \/ WriteStamp \/ RefreshDies

Spec == Init /\ [][Next]_vars

\* The daemon ticks on and starts both programs, and one that runs goes on, dies
\* or is killed.
FairSpec ==
  /\ Spec
  /\ SF_vars(StartPass) /\ SF_vars(StartRefresh)
  /\ WF_vars(ScanBlock \/ EndScan \/ Killed)
  /\ WF_vars(ReadIndex) /\ WF_vars(WriteIndex) /\ WF_vars(ReadState) /\ WF_vars(WriteState)
  /\ WF_vars(Sweep) /\ WF_vars(WriteRefresh) /\ WF_vars(ReadStamp) /\ WF_vars(WriteStamp)

-----------------------------------------------------------------------------
(* Properties *)

Covered(last) ==
  \A h \in Hotkeys, b \in Blocks :
    RegisteredAt(h, b) /\ from <= b /\ b <= last => index[h].key >= b

\* Between saves every registration up to the checkpoint is in the index, or a
\* newer one of its hotkey, though passes stop at unreadable blocks, checkpoints
\* fall inside a pass, passes are killed and the other program writes both files
\* between a read and a write.  (scan_range: "this block is retried next pass
\* (no gap)"; the exceptions are where `sound' ends)
NoGap == pc \in {"off", "wait", "scan"} /\ sound => Covered(state.cursor)

\* A save of the builder takes an entry back only if the other program runs
\* beside it and wrote the entry between the save's read and its write; one that
\* was in the file when it was read stays, however long ago the builder loaded
\* its own.  (_union_with_disk: "shrinks the clobber window from the whole scan
\* to a few milliseconds".)  By the block of the entry: the sweep dates a key with
\* the head it read before the key, and of two entries of one block the
\* builder's, perhaps older, one stays until the scan comes to the block of the key.
NeverDrops ==
  [][pc = "write" /\ pc' = "state" =>
       \A h \in Hotkeys : index'[h].at < index[h].at => overlaps > 0 /\ index[h] # disk[h]]_vars

\* The scan gets on: a pass ends, or comes to a checkpoint, before it is killed.
PaceSuffices == pace > CheckpointEvery \/ pace > MaxPerPass
Newcomers ==
  \A h \in Hotkeys :
    CommittedAt(h) # {} /\ RegisteredAt(h, LastOf(CommittedAt(h))) => index[h] # NoEntry

\* Every registration from the first scan on is found in the end, if the scan gets
\* on; and if it is killed at every tick or switched off, the head sweep still
\* brings in every hotkey whose commitment is a registration.  (build_commands:
\* "keeping the index current even when the archive block-scan below is slow or stuck")
EventuallyIndexed == <>[]((PaceSuffices /\ sound => Covered(MaxBlock)) /\ Newcomers)

\* "this tool only ADDS, never drops, existing entries"
\* (refresh_reg_index_head.py).  Holds only when the builder does not run beside
\* the sweep (README, section 3).
SweepOnlyAdds ==
  [][rpc = "write" /\ rpc' = "stamp" => \A h \in Hotkeys : index'[h].at >= index[h].at]_vars
=============================================================================
