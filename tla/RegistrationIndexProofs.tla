----------------------- MODULE RegistrationIndexProofs -----------------------
(***************************************************************************)
(* The registration index for any hotkeys, chain, bounds on passes and     *)
(* checkpoints, any time limit, and any number of unreadable blocks,       *)
(* deaths and overlaps of the two programs.                                *)
(*                                                                         *)
(* Everything is said by the blocks of entries.  An entry dated with a     *)
(* block holds the newest key up to it (`Fresh'), so it is enough that the *)
(* index has an entry as new as each registration behind the checkpoint.   *)
(* The builder's memory has one for all it scanned (`Held'), the file has  *)
(* one up to the checkpoint as far as the builder has come, and as new as  *)
(* the memory's once it is written.                                        *)
(***************************************************************************)
EXTENDS RegistrationIndex, FiniteSetTheorems, WellFoundedInduction, TLAPS

-----------------------------------------------------------------------------
(* The last of a set of blocks *)

LEMMA Numbers ==
  /\ Blocks \subseteq Heights /\ Heights \subseteq Nat /\ MaxBlock \in Blocks
  /\ \A b \in Blocks : b >= 1 /\ b <= MaxBlock
  /\ \A b \in Heights : b <= MaxBlock /\ (b # 0 => b \in Blocks)
  /\ NoBlock \in Heights /\ NoBlock \notin Blocks
BY BoundsAssumption DEF Blocks, Heights, NoBlock

\* A nonempty set of blocks has a last one, which LastOf returns.
LEMMA LastOfIsLast ==
  ASSUME NEW S \in SUBSET Blocks, S # {}
  PROVE  LastOf(S) \in S /\ \A b \in S : b <= LastOf(S)
<1> DEFINE T == {MaxBlock - b : b \in S}
<1>0. \A b \in S : b \in Nat /\ MaxBlock - b \in Nat
  BY BoundsAssumption DEF Blocks
<1>1. T \subseteq Nat /\ T # {}
  BY <1>0
<1>2. PICK t \in T : \A u \in T : <<u, t>> \notin OpToRel(<, Nat)
  BY <1>1, WFMin, NatLessThanWellFounded, Zenon
<1>3. \A u \in T : <<u, t>> \in Nat \X Nat
  BY <1>1
<1>4. \A u \in T : ~ (u < t)
  BY <1>2, <1>3, Zenon DEF OpToRel
<1>5. PICK m \in S : t = MaxBlock - m
  OBVIOUS
<1>6. \A b \in S : ~ (MaxBlock - b < MaxBlock - m)
  BY <1>4, <1>5
<1>7. m \in S /\ \A b \in S : b <= m
  BY <1>0, <1>6, BoundsAssumption
<1> QED
  BY <1>7 DEF LastOf

-----------------------------------------------------------------------------
(* The invariant *)

\* An entry knows the newest registration up to the block it is dated with.
Fresh(entries) ==
  \A h \in Hotkeys :
    /\ entries[h].at <= head /\ entries[h].key <= head
    /\ \A b \in Blocks : b <= entries[h].at /\ RegisteredAt(h, b) => b <= entries[h].key

Bounded ==
  /\ \A b \in Blocks : b > head => chain[b] = Quiet
  /\ state.cursor <= head /\ cursor <= head /\ target <= head /\ tip <= head
  /\ rhead <= head /\ mark <= head
  /\ rside.cursor <= head
  /\ Fresh(index) /\ Fresh(mem) /\ Fresh(rmem) /\ Fresh(disk)

\* Since the first scan, entries as new as each registration up to a block.
Reaches(entries, last) ==
  \A h \in Hotkeys, b \in Blocks :
    RegisteredAt(h, b) /\ from <= b /\ b <= last => entries[h].at >= b

Began ==
  /\ pc = "off" => cursor = NoBlock
  /\ from = NoBlock => pc = "off"
  /\ sound /\ from = NoBlock => state.cursor = NoBlock
  /\ sound /\ pc = "off" /\ state.cursor = NoBlock => from = NoBlock

Busy == pc \in {"index", "write", "state", "side"}
Scanning == pc = "scan" \/ (Busy /\ after = "scan")

\* Where the builder reads next, and that its checkpoint is behind it.
Position ==
  /\ Scanning =>
       /\ next >= 1
       /\ cursor # NoBlock => next = cursor + 1
       /\ cursor = NoBlock => (sound => next = from) /\ next <= target
  /\ sound /\ (pc \in {"wait", "scan"} \/ (Busy /\ after \in {"scan", "final"}))
       => state.cursor <= cursor
  /\ sound /\ pc = "wait" => cursor # NoBlock

Saving ==
  Busy /\ sound =>
    /\ cursor # NoBlock
    /\ after \in {"scan", "end"} => mark = cursor

Held ==
  sound =>
    /\ pc # "off" => Reaches(mem, cursor)
    /\ pc = "off" => Reaches(index, state.cursor)
    /\ pc # "off" =>
         \A h \in Hotkeys, b \in Blocks :
           RegisteredAt(h, b) /\ from <= b /\ b <= state.cursor /\ b <= cursor
             => index[h].at >= b
    /\ pc \in {"state", "side"} \/ (Busy /\ after = "end")
         => \A h \in Hotkeys : index[h].at >= mem[h].at

\* Programs that ran one after the other so far still do, and a save between its
\* read and its write has read the file as it is.
Alone ==
  overlaps = 0 => /\ rpc = "off" \/ pc \in {"off", "wait"}
                  /\ pc = "write" => index = disk

Inv == TypeOK /\ Bounded /\ Began /\ Position /\ Saving /\ Held

\* The numbers of a state.
LEMMA StateNumbers ==
  ASSUME TypeOK
  PROVE  /\ {head, cursor, target, tip, mark, rhead, from} \subseteq Nat
         /\ next \in Nat /\ count \in Nat
         /\ state.cursor \in Nat /\ state.swept \in Nat /\ rside.cursor \in Nat
         /\ \A h \in Hotkeys : /\ index[h].at \in Nat /\ index[h].key \in Nat
                               /\ mem[h].at \in Nat /\ mem[h].key \in Nat
                               /\ rmem[h].at \in Nat /\ rmem[h].key \in Nat
                               /\ disk[h].at \in Nat /\ disk[h].key \in Nat
<1>1. Heights \subseteq Nat
  BY Numbers
<1>2. {head, cursor, target, tip, mark, rhead, from} \subseteq Heights
  BY DEF TypeOK
<1>3. next \in 0 .. (MaxBlock + 1) /\ count \in Nat /\ MaxBlock \in Nat
  BY BoundsAssumption DEF TypeOK
<1>4. state.cursor \in Heights /\ state.swept \in Heights /\ rside.cursor \in Heights
  BY DEF TypeOK, Sidecars
<1>5. \A h \in Hotkeys : /\ index[h].at \in Heights /\ index[h].key \in Heights
                         /\ mem[h].at \in Heights /\ mem[h].key \in Heights
                         /\ rmem[h].at \in Heights /\ rmem[h].key \in Heights
                         /\ disk[h].at \in Heights /\ disk[h].key \in Heights
  BY DEF TypeOK, Entries
<1>6. {head, cursor, target, tip, mark, rhead, from} \subseteq Nat
  BY <1>1, <1>2
<1>7. next \in Nat
  BY <1>3
<1>8. \A h \in Hotkeys : /\ index[h].at \in Nat /\ index[h].key \in Nat
                         /\ mem[h].at \in Nat /\ mem[h].key \in Nat
                         /\ rmem[h].at \in Nat /\ rmem[h].key \in Nat
                         /\ disk[h].at \in Nat /\ disk[h].key \in Nat
  BY <1>1, <1>5
<1> QED
  BY <1>1, <1>3, <1>4, <1>6, <1>7, <1>8

-----------------------------------------------------------------------------
(* Entries *)

\* Taking an entry keeps the newer one.
LEMMA TakeKeeps ==
  ASSUME NEW entries \in [Hotkeys -> Entries], NEW w \in Hotkeys, NEW e \in Entries
  PROVE  /\ Take(entries, w, e) \in [Hotkeys -> Entries]
         /\ \A h \in Hotkeys : Take(entries, w, e)[h].at >= entries[h].at
         /\ Take(entries, w, e)[w].at >= e.at
         /\ \A h \in Hotkeys : \/ Take(entries, w, e)[h] = entries[h]
                               \/ h = w /\ Take(entries, w, e)[h] = e
<1>1. e.at \in Nat /\ \A h \in Hotkeys : entries[h].at \in Nat
  BY Numbers DEF Entries
<1>2. CASE entries[w].at >= e.at
  BY <1>1, <1>2 DEF Take
<1>3. CASE ~ (entries[w].at >= e.at)
  <2>1. Take(entries, w, e) = [entries EXCEPT ![w] = e]
    BY <1>3 DEF Take
  <2> QED
    BY <1>1, <1>3, <2>1
<1> QED
  BY <1>2, <1>3

\* The union with the file has the newer entry of each hotkey.
LEMMA UnionKeeps ==
  ASSUME NEW read \in [Hotkeys -> Entries], NEW entries \in [Hotkeys -> Entries]
  PROVE  /\ UnionWithDisk(read, entries) \in [Hotkeys -> Entries]
         /\ \A h \in Hotkeys : /\ UnionWithDisk(read, entries)[h] \in {read[h], entries[h]}
                               /\ UnionWithDisk(read, entries)[h].at >= read[h].at
                               /\ UnionWithDisk(read, entries)[h].at >= entries[h].at
<1> DEFINE u == UnionWithDisk(read, entries)
<1>1. \A h \in Hotkeys : read[h].at \in Nat /\ entries[h].at \in Nat
  BY Numbers DEF Entries
<1>2. \A h \in Hotkeys :
        u[h] = IF entries[h] # NoEntry /\ entries[h].at >= read[h].at THEN entries[h] ELSE read[h]
  BY DEF UnionWithDisk
<1>3. u \in [Hotkeys -> Entries]
  BY DEF UnionWithDisk
<1>4. NoEntry.at = 0
  BY DEF NoEntry, NoBlock
<1> HIDE DEF u
<1>5. ASSUME NEW h \in Hotkeys
      PROVE  u[h] \in {read[h], entries[h]} /\ u[h].at >= read[h].at /\ u[h].at >= entries[h].at
  <2>1. CASE entries[h] # NoEntry /\ entries[h].at >= read[h].at
    BY <1>1, <1>2, <2>1
  <2>2. CASE entries[h] = NoEntry
    BY <1>1, <1>2, <1>4, <2>2
  <2>3. CASE ~ (entries[h].at >= read[h].at)
    BY <1>1, <1>2, <2>3
  <2> QED
    BY <2>1, <2>2, <2>3
<1> QED
  BY <1>3, <1>5 DEF u

\* What the head sweep finds is an entry, and knows all up to its date.
LEMMA FoundFresh ==
  ASSUME TypeOK, Bounded, NEW h \in Hotkeys, NEW deaf \in SUBSET Hotkeys, NEW upto \in 0 .. rhead
  PROVE  /\ Found(h, deaf, upto) \in Entries
         /\ Found(h, deaf, upto).at <= head /\ Found(h, deaf, upto).key <= head
         /\ \A b \in Blocks : b <= Found(h, deaf, upto).at /\ RegisteredAt(h, b)
              => b <= Found(h, deaf, upto).key
<1> DEFINE start == IF state.swept + 1 > rhead - RecentBlocks + 1 THEN state.swept + 1
                    ELSE rhead - RecentBlocks + 1
           recent == {b \in Blocks : b >= start /\ b <= upto /\ RegisteredAt(h, b)}
           now == IF CommittedAt(h) = {} THEN NoBlock ELSE LastOf(CommittedAt(h))
           f == Found(h, deaf, upto)
<1>1. f = IF now # NoBlock /\ RegisteredAt(h, now) /\ h \notin deaf
          THEN [key |-> now, at |-> rhead]
          ELSE IF recent # {} THEN [key |-> LastOf(recent), at |-> LastOf(recent)]
          ELSE NoEntry
  BY DEF Found
<1>2. head \in Nat /\ rhead \in Nat /\ rhead <= head /\ rhead \in Heights
      /\ \A b \in Blocks : b \in Nat /\ b \in Heights
      /\ NoBlock \in Heights
  BY StateNumbers, Numbers DEF Bounded, TypeOK
<1> HIDE DEF f, start
<1>3. CASE now # NoBlock /\ RegisteredAt(h, now) /\ h \notin deaf
  <2>1. CommittedAt(h) \in SUBSET Blocks /\ CommittedAt(h) # {} /\ now = LastOf(CommittedAt(h))
    BY <1>3 DEF CommittedAt
  <2>2. now \in CommittedAt(h) /\ \A b \in CommittedAt(h) : b <= now
    BY <2>1, LastOfIsLast
  <2>3. now \in Blocks /\ now <= head
    BY <2>2 DEF CommittedAt
  <2>4. f = [key |-> now, at |-> rhead]
    BY <1>1, <1>3
  <2> HIDE DEF now
  <2>5. ASSUME NEW b \in Blocks, b <= rhead, RegisteredAt(h, b) PROVE b <= now
    <3>1. b <= head
      BY <1>2, <2>5
    <3>2. chain[b].who = h
      BY <2>5 DEF RegisteredAt
    <3> QED
      BY <2>2, <3>1, <3>2 DEF CommittedAt
  <2> QED
    BY <1>2, <2>3, <2>4, <2>5 DEF Entries, f
<1>4. CASE ~(now # NoBlock /\ RegisteredAt(h, now) /\ h \notin deaf) /\ recent # {}
  <2>1. LastOf(recent) \in recent
    BY <1>4, LastOfIsLast
  <2>2. f = [key |-> LastOf(recent), at |-> LastOf(recent)]
    BY <1>1, <1>4
  <2>3. LastOf(recent) \in Blocks /\ LastOf(recent) <= upto
    BY <2>1
  <2> HIDE DEF recent
  <2>4. LastOf(recent) <= head /\ LastOf(recent) \in Heights
    BY <1>2, <2>3
  <2> QED
    BY <2>2, <2>4 DEF Entries, f
<1>5. CASE ~(now # NoBlock /\ RegisteredAt(h, now) /\ h \notin deaf) /\ recent = {}
  <2>1. f = NoEntry
    BY <1>1, <1>5
  <2>2. f = [key |-> 0, at |-> 0]
    BY <2>1 DEF NoEntry, NoBlock
  <2>3. 0 \in Heights
    BY BoundsAssumption DEF Heights
  <2>4. f \in Entries /\ f.at = 0 /\ f.key = 0
    BY <2>2, <2>3 DEF Entries
  <2>5. f \in Entries /\ f.at <= head /\ f.key <= head
        /\ \A b \in Blocks : b <= f.at /\ RegisteredAt(h, b) => b <= f.key
    BY <1>2, <2>4
  <2> QED
    BY <2>5 DEF f
<1> QED
  BY <1>3, <1>4, <1>5

-----------------------------------------------------------------------------
(* Steps *)

\* A new block lies behind no entry and no checkpoint.
LEMMA NewBlockInv == Inv /\ NewBlock => Inv'
<1> SUFFICES ASSUME Inv, NewBlock PROVE Inv'
  OBVIOUS
<1>1. PICK c \in Commits \cup {Quiet} : chain' = [chain EXCEPT ![head + 1] = c]
  BY DEF NewBlock
<1>2. /\ head < MaxBlock /\ head' = head + 1
      /\ UNCHANGED <<files, pace, builder, sweep, from, sound, faults, overlaps>>
  BY DEF NewBlock
<1> USE DEF files, builder, pass, sweep
<1>3. /\ {head, cursor, target, tip, mark, rhead, from, state.cursor, rside.cursor} \subseteq Nat
      /\ MaxBlock \in Nat /\ \A b \in Blocks : b \in Nat
  BY StateNumbers, Numbers, BoundsAssumption DEF Inv
<1>4. TypeOK'
  <2>1. head' \in Heights
    BY <1>2, <1>3, BoundsAssumption DEF Heights
  <2>2. chain' \in [Blocks -> Commits \cup {Quiet}]
    BY <1>1 DEF Inv, TypeOK
  <2> QED
    BY <1>2, <2>1, <2>2 DEF Inv, TypeOK
<1>5. \A b \in Blocks : b # head + 1 => chain'[b] = chain[b]
  BY <1>1 DEF Inv, TypeOK
<1>6. Bounded'
  <2>1. Fresh(index)' /\ Fresh(mem)' /\ Fresh(rmem)' /\ Fresh(disk)'
    <3>1. /\ Fresh(index) /\ Fresh(mem) /\ Fresh(rmem) /\ Fresh(disk)
          /\ UNCHANGED <<index, mem, rmem, disk>>
      BY <1>2 DEF Inv, Bounded
    <3>2. \A h \in Hotkeys : /\ index[h].at \in Nat /\ index[h].key \in Nat
                             /\ mem[h].at \in Nat /\ mem[h].key \in Nat
                             /\ rmem[h].at \in Nat /\ rmem[h].key \in Nat
                             /\ disk[h].at \in Nat /\ disk[h].key \in Nat
      BY StateNumbers DEF Inv
    <3> QED
      <4> SUFFICES ASSUME NEW entries \in {index, mem, rmem, disk}
                   PROVE  \A h \in Hotkeys :
                            /\ entries[h].at <= head' /\ entries[h].key <= head'
                            /\ \A b \in Blocks : b <= entries[h].at /\ RegisteredAt(h, b)'
                                 => b <= entries[h].key
        BY <3>1 DEF Fresh
      <4> SUFFICES ASSUME NEW h \in Hotkeys
                   PROVE  /\ entries[h].at <= head' /\ entries[h].key <= head'
                          /\ \A b \in Blocks : b <= entries[h].at /\ RegisteredAt(h, b)'
                               => b <= entries[h].key
        OBVIOUS
      <4>1. Fresh(entries) /\ entries[h].at \in Nat /\ entries[h].key \in Nat
        BY <3>1, <3>2
      <4>2. entries[h].at <= head /\ entries[h].key <= head
        BY <4>1 DEF Fresh
      <4>3. entries[h].at <= head' /\ entries[h].key <= head'
        BY <1>2, <1>3, <4>1, <4>2
      <4>4. ASSUME NEW b \in Blocks, b <= entries[h].at, RegisteredAt(h, b)'
            PROVE  b <= entries[h].key
        <5>1. b # head + 1
          BY <1>3, <4>1, <4>2, <4>4
        <5> QED
          BY <1>5, <4>1, <4>4, <5>1 DEF Fresh, RegisteredAt
      <4> QED
        BY <4>3, <4>4
  <2>2. \A b \in Blocks : b > head' => chain'[b] = Quiet
    BY <1>2, <1>3, <1>5 DEF Inv, Bounded
  <2>3. state.cursor <= head' /\ cursor <= head' /\ target <= head' /\ tip <= head'
        /\ rhead <= head' /\ mark <= head' /\ rside.cursor <= head'
    BY <1>2, <1>3 DEF Inv, Bounded
  <2> QED
    BY <1>2, <2>1, <2>2, <2>3 DEF Bounded
<1>7. \A h \in Hotkeys, b \in Blocks : b <= head /\ RegisteredAt(h, b)' => RegisteredAt(h, b)
  BY <1>3, <1>5 DEF RegisteredAt
<1>8. cursor <= head /\ state.cursor <= head
  BY DEF Inv, Bounded
<1>9. Held'
  <2> SUFFICES ASSUME sound PROVE Held'
    BY <1>2 DEF Held
  <2>1. ASSUME NEW h \in Hotkeys, NEW b \in Blocks, RegisteredAt(h, b)', from <= b,
               b <= cursor \/ b <= state.cursor
        PROVE  RegisteredAt(h, b)
    BY <1>3, <1>7, <1>8, <2>1
  <2>2. pc # "off" => \A h \in Hotkeys, b \in Blocks :
          RegisteredAt(h, b)' /\ from <= b /\ b <= cursor => mem[h].at >= b
    BY <2>1 DEF Inv, Held, Reaches
  <2>3. pc = "off" => \A h \in Hotkeys, b \in Blocks :
          RegisteredAt(h, b)' /\ from <= b /\ b <= state.cursor => index[h].at >= b
    BY <2>1 DEF Inv, Held, Reaches
  <2>4. pc # "off" => \A h \in Hotkeys, b \in Blocks :
          RegisteredAt(h, b)' /\ from <= b /\ b <= state.cursor /\ b <= cursor
            => index[h].at >= b
    BY <2>1 DEF Inv, Held
  <2> QED
    BY <1>2, <2>2, <2>3, <2>4 DEF Inv, Held, Reaches, Busy
<1>10. Began' /\ Position' /\ Saving'
  BY <1>2 DEF Inv, Began, Position, Busy, Scanning, Saving
<1> QED
  BY <1>4, <1>6, <1>9, <1>10 DEF Inv

\* What a step on an unchanged chain leaves of entries it does not touch.
LEMMA Untouched ==
  ASSUME Inv, UNCHANGED blockchain
  PROVE  /\ \A b \in Blocks : b > head' => chain'[b] = Quiet
         /\ index' = index => Fresh(index)'
         /\ mem' = mem => Fresh(mem)'
         /\ rmem' = rmem => Fresh(rmem)'
         /\ disk' = disk => Fresh(disk)'
         /\ disk' = index => Fresh(disk)'
         /\ disk' = NoEntries => Fresh(disk)'
         /\ mem' = index => Fresh(mem)'
         /\ rmem' = index => Fresh(rmem)'
         /\ index' = rmem => Fresh(index)'
         /\ mem' = NoEntries => Fresh(mem)'
         /\ rmem' = NoEntries => Fresh(rmem)'
<1>1. head' = head /\ chain' = chain
  BY DEF blockchain
<1>2. Fresh(index) /\ Fresh(mem) /\ Fresh(rmem) /\ Fresh(disk)
  BY DEF Inv, Bounded
<1>3. \A b \in Blocks : b > head' => chain'[b] = Quiet
  BY <1>1 DEF Inv, Bounded
<1>4. /\ index' = index => Fresh(index)'
      /\ mem' = mem => Fresh(mem)'
      /\ rmem' = rmem => Fresh(rmem)'
      /\ disk' = disk => Fresh(disk)'
      /\ disk' = index => Fresh(disk)'
      /\ mem' = index => Fresh(mem)'
      /\ rmem' = index => Fresh(rmem)'
      /\ index' = rmem => Fresh(index)'
  BY <1>1, <1>2 DEF Fresh, RegisteredAt
<1>5. \A h \in Hotkeys : NoEntries[h].at = 0 /\ NoEntries[h].key = 0
  BY DEF NoEntries, NoEntry, NoBlock
<1>6. head \in Nat /\ \A b \in Blocks : b >= 1 /\ b \in Nat
  BY StateNumbers, Numbers DEF Inv
<1>7. mem' = NoEntries => Fresh(mem)'
  BY <1>1, <1>5, <1>6 DEF Fresh
<1>8. rmem' = NoEntries => Fresh(rmem)'
  BY <1>1, <1>5, <1>6 DEF Fresh
<1>9. disk' = NoEntries => Fresh(disk)'
  BY <1>1, <1>5, <1>6 DEF Fresh
<1> QED
  BY <1>3, <1>4, <1>7, <1>8, <1>9

\* A pass starts behind what has been scanned: at the checkpoint of the files,
\* from where the builder waits, or, without either, at the first block of all.
LEMMA StartPassInv == Inv /\ StartPass => Inv'
<1> SUFFICES ASSUME Inv, StartPass PROVE Inv'
  OBVIOUS
<1> DEFINE last == IF pc = "off" THEN state.cursor ELSE cursor
           start == IF last # NoBlock THEN last + 1
                    ELSE IF head > Lookback THEN head - Lookback ELSE 1
           cap == start + MaxPerPass - 1
<1>1. /\ pc \in {"off", "wait"} /\ head > 0 /\ ~UpToDate(last, head)
      /\ cursor' = last /\ next' = start /\ target' = IF cap < head THEN cap ELSE head
      /\ from' = IF from = NoBlock THEN start ELSE from
      /\ mem' = IF pc = "off" THEN index ELSE mem
      /\ tip' = head /\ count' = 0 /\ pc' = "scan"
  BY DEF StartPass
<1>2. /\ UNCHANGED <<blockchain, index, state, pace, mark, after, disk, side, rpc, rhead, rmem,
                     rside, sound, faults>>
      /\ overlaps' \in 0 .. MaxOverlaps
  <2>1. overlaps' = overlaps \/ (overlaps < MaxOverlaps /\ overlaps' = overlaps + 1)
    BY DEF StartPass, StartedBeside
  <2>2. overlaps \in 0 .. MaxOverlaps
    BY DEF Inv, TypeOK
  <2>3. overlaps' \in 0 .. MaxOverlaps
    BY <2>1, <2>2, BoundsAssumption
  <2> QED
    BY <2>3 DEF StartPass, files, sweep
<1>3. {head, cursor, mark, rhead, from, state.cursor} \subseteq Nat
  BY StateNumbers DEF Inv
<1>4. /\ state.cursor <= head /\ cursor <= head /\ rhead <= head /\ mark <= head
      /\ head <= MaxBlock /\ rside.cursor <= head
  BY DEF Inv, Bounded, TypeOK, Heights
<1>5. last \in Nat /\ last <= head /\ last \in Heights
  BY <1>3, <1>4 DEF Inv, TypeOK, Sidecars
<1> HIDE DEF last
<1>6. /\ start \in Nat /\ start >= 1 /\ start <= head
      /\ last # NoBlock => start = last + 1
  BY <1>1, <1>3, <1>5, BoundsAssumption DEF UpToDate, NoBlock
<1> HIDE DEF start
<1>7. target' \in Nat /\ start <= target' /\ target' <= head
  BY <1>1, <1>3, <1>6, BoundsAssumption
<1>8. from' \in Nat /\ from' # NoBlock /\ (from # NoBlock => from' = from) /\ from' <= MaxBlock
  BY <1>1, <1>3, <1>4, <1>6, BoundsAssumption DEF NoBlock, Inv, TypeOK, Heights
<1>9. TypeOK'
  <2>1. {head', cursor', target', tip', mark', rhead', from'} \subseteq Heights
    BY <1>1, <1>2, <1>3, <1>4, <1>5, <1>6, <1>7, <1>8, BoundsAssumption
      DEF Inv, TypeOK, Heights, blockchain
  <2>2. next' \in 0 .. (MaxBlock + 1) /\ count' \in Nat
    BY <1>1, <1>3, <1>4, <1>6, BoundsAssumption
  <2>3. mem' \in [Hotkeys -> Entries] /\ pc' = "scan"
    BY <1>1 DEF Inv, TypeOK
  <2> QED
    BY <1>2, <2>1, <2>2, <2>3 DEF Inv, TypeOK, blockchain
<1>10. Bounded'
  <2>1. Fresh(mem)'
    BY <1>1, <1>2, Untouched
  <2> QED
    BY <1>1, <1>2, <1>4, <1>5, <1>7, <1>3, <2>1, Untouched DEF Bounded, blockchain
<1>11. Began'
  BY <1>1, <1>8 DEF Began
<1>12. sound => state.cursor <= cursor'
  <2>1. pc = "off" => cursor' = state.cursor
    BY <1>1 DEF last
  <2>2. pc = "wait" => cursor' = cursor
    BY <1>1 DEF last
  <2> QED
    BY <1>1, <1>3, <2>1, <2>2 DEF Inv, Position
<1>13. cursor' = NoBlock /\ sound => from = NoBlock
  BY <1>1 DEF Inv, Position, Began, last
<1>14. Position'
  BY <1>1, <1>2, <1>6, <1>7, <1>12, <1>13 DEF Position, Busy, Scanning
<1>15. Saving'
  BY <1>1 DEF Saving, Busy
<1>16. Held'
  <2> SUFFICES ASSUME sound PROVE Held'
    BY <1>2 DEF Held
  <2>1. \A h \in Hotkeys, b \in Blocks : RegisteredAt(h, b)' <=> RegisteredAt(h, b)
    BY <1>2 DEF RegisteredAt, blockchain
  <2>2. CASE pc = "off"
    <3>1. cursor' = state.cursor /\ mem' = index
      BY <1>1, <2>2 DEF last
    <3>2. ASSUME NEW h \in Hotkeys, NEW b \in Blocks, RegisteredAt(h, b), from' <= b,
                 b <= state.cursor
          PROVE  index[h].at >= b
      <4>1. from # NoBlock
        BY <3>2, Numbers DEF Inv, Began, NoBlock
      <4> QED
        BY <1>8, <2>2, <3>2, <4>1 DEF Inv, Held, Reaches
    <3> QED
      BY <1>1, <1>2, <2>1, <3>1, <3>2 DEF Held, Reaches, Busy
  <2>3. CASE pc = "wait"
    <3>1. cursor' = cursor /\ mem' = mem
      BY <1>1, <2>3 DEF last
    <3>2. from' = from
      BY <1>8, <2>3 DEF Inv, Began
    <3>3. /\ Reaches(mem, cursor)
          /\ \A h \in Hotkeys, b \in Blocks :
               RegisteredAt(h, b) /\ from <= b /\ b <= state.cursor /\ b <= cursor
                 => index[h].at >= b
      BY <2>3 DEF Inv, Held
    <3> QED
      BY <1>1, <1>2, <2>1, <3>1, <3>2, <3>3 DEF Held, Reaches, Busy
  <2> QED
    BY <1>1, <2>2, <2>3
<1> QED
  BY <1>9, <1>10, <1>11, <1>14, <1>15, <1>16 DEF Inv

\* A block that is read is the one after the last scanned; its registration is
\* in memory then, or its look-up has failed and the index is known to have a gap.
LEMMA ScanBlockInv == Inv /\ ScanBlock => Inv'
<1> SUFFICES ASSUME Inv, ScanBlock PROVE Inv'
  OBVIOUS
<1> DEFINE h == chain[next].who
           registered == h # NoOne /\ RegisteredAt(h, next)
           entry == [key |-> next, at |-> next]
<1>1. /\ pc = "scan" /\ next <= target
      /\ cursor' = Scanned(next) /\ next' = next + 1 /\ count' = count + 1
      /\ \/ pc' = "scan" /\ UNCHANGED <<mark, after>>
         \/ pc' = "index" /\ mark' = next /\ after' = "scan"
      /\ UNCHANGED <<blockchain, files, pace, target, tip, disk, side, sweep, from, overlaps>>
  BY DEF ScanBlock, Save
<1>2. \/ /\ mem' = IF registered THEN Take(mem, h, entry) ELSE mem
         /\ UNCHANGED <<sound, faults>>
      \/ /\ faults < MaxFaults /\ faults' = faults + 1 /\ sound' = FALSE
         /\ mem' = mem
  BY DEF ScanBlock, Fault
<1>3. UNCHANGED <<head, chain, index, state, disk, side, rpc, rhead, rmem, rside>>
  BY <1>1 DEF blockchain, files, sweep
<1>4. /\ {head, cursor, target, tip, mark, rhead, from, state.cursor, next, count} \subseteq Nat
      /\ MaxBlock \in Nat
  BY StateNumbers, BoundsAssumption DEF Inv
<1>5. /\ next >= 1 /\ target <= head /\ head <= MaxBlock
      /\ cursor # NoBlock => next = cursor + 1
      /\ cursor = NoBlock /\ sound => next = from
  BY <1>1 DEF Inv, Position, Scanning, Bounded, TypeOK, Heights
<1>6. next \in Blocks /\ next \in Heights /\ next <= head /\ next <= MaxBlock
  BY <1>1, <1>4, <1>5 DEF Blocks, Heights
<1>7. cursor' = next
  BY <1>1, <1>4, <1>5 DEF Scanned, NoBlock
<1>8. registered => h \in Hotkeys
  BY <1>6 DEF Inv, TypeOK, Commits, Quiet
<1>9. entry \in Entries /\ mem \in [Hotkeys -> Entries] /\ entry.at = next /\ entry.key = next
  BY <1>6 DEF Inv, TypeOK, Entries
<1> HIDE DEF registered, h, entry
<1>10. /\ mem' \in [Hotkeys -> Entries]
       /\ \A g \in Hotkeys : mem'[g].at >= mem[g].at
       /\ \A g \in Hotkeys : mem'[g] = mem[g] \/ mem'[g] = entry
       /\ sound' /\ registered => mem'[h].at >= next
  <2>1. \A g \in Hotkeys : mem[g].at >= mem[g].at
    BY StateNumbers DEF Inv
  <2>2. CASE mem' = mem /\ (registered => sound' = FALSE)
    BY <1>9, <2>1, <2>2
  <2>3. CASE registered /\ mem' = Take(mem, h, entry)
    <3>1. h \in Hotkeys
      BY <1>8, <2>3, Zenon
    <3>2. /\ mem' \in [Hotkeys -> Entries]
          /\ \A g \in Hotkeys : mem'[g].at >= mem[g].at
          /\ mem'[h].at >= entry.at
          /\ \A g \in Hotkeys : mem'[g] = mem[g] \/ mem'[g] = entry
      BY <1>9, <2>3, <3>1, TakeKeeps, Zenon
    <3> QED
      BY <1>9, <3>2, Zenon
  <2> QED
    BY <1>2, <2>2, <2>3
<1>11. TypeOK'
  <2>0. faults \in 0 .. MaxFaults /\ sound \in BOOLEAN
    BY DEF Inv, TypeOK
  <2>1. faults' \in 0 .. MaxFaults /\ sound' \in BOOLEAN
    <3>1. faults' = faults \/ (faults < MaxFaults /\ faults' = faults + 1)
      BY <1>2
    <3>2. faults' \in 0 .. MaxFaults
      BY <2>0, <3>1, BoundsAssumption
    <3>3. sound' \in BOOLEAN
      BY <1>2, <2>0, Zenon
    <3> QED
      BY <3>2, <3>3
  <2>2. next' \in 0 .. (MaxBlock + 1) /\ count' \in Nat
    BY <1>1, <1>4, <1>6
  <2>3. cursor' \in Heights /\ mark' \in Heights
    BY <1>1, <1>6, <1>7 DEF Inv, TypeOK
  <2> QED
    BY <1>1, <1>3, <1>10, <2>1, <2>2, <2>3 DEF Inv, TypeOK
<1>12. Bounded'
  <2>1. Fresh(mem)'
    <3> SUFFICES ASSUME NEW g \in Hotkeys
                 PROVE  /\ mem'[g].at <= head /\ mem'[g].key <= head
                        /\ \A b \in Blocks : b <= mem'[g].at /\ RegisteredAt(g, b)
                             => b <= mem'[g].key
      BY <1>3 DEF Fresh, RegisteredAt
    <3>1. CASE mem'[g] = mem[g]
      BY <3>1 DEF Inv, Bounded, Fresh
    <3>2. CASE mem'[g] = entry
      BY <1>6, <1>9, <3>2
    <3> QED
      BY <1>10, <3>1, <3>2
  <2>2. cursor' <= head /\ mark' <= head
    BY <1>1, <1>6, <1>7 DEF Inv, Bounded
  <2>3. /\ UNCHANGED blockchain
        /\ index' = index /\ rmem' = rmem /\ disk' = disk
    BY <1>1, <1>3
  <2>4. /\ Fresh(index)' /\ Fresh(rmem)' /\ Fresh(disk)'
        /\ \A b \in Blocks : b > head' => chain'[b] = Quiet
    BY <2>3, Untouched
  <2>5. state.cursor <= head /\ target <= head /\ tip <= head /\ rhead <= head /\ rside.cursor <= head
    BY DEF Inv, Bounded
  <2> QED
    BY <1>1, <1>3, <2>1, <2>2, <2>4, <2>5 DEF Bounded
<1>13. Began'
  BY <1>1, <1>3 DEF Inv, Began
<1>14. sound' => sound
  BY <1>2
<1>15. sound' => state.cursor <= cursor'
  BY <1>1, <1>4, <1>5, <1>7, <1>14 DEF Inv, Position, NoBlock
<1>16. Position'
  BY <1>1, <1>3, <1>4, <1>5, <1>7, <1>15 DEF Position, Busy, Scanning, NoBlock
<1>17. Saving'
  BY <1>1, <1>4, <1>5, <1>7 DEF Saving, Busy, NoBlock
<1>18. Held'
  <2> SUFFICES ASSUME sound' PROVE Held'
    BY DEF Held
  <2>1. \A g \in Hotkeys, b \in Blocks : RegisteredAt(g, b)' <=> RegisteredAt(g, b)
    BY <1>3 DEF RegisteredAt
  <2>2. /\ Reaches(mem, cursor)
        /\ \A g \in Hotkeys, b \in Blocks :
             RegisteredAt(g, b) /\ from <= b /\ b <= state.cursor /\ b <= cursor
               => index[g].at >= b
    BY <1>1, <1>14 DEF Inv, Held
  <2>3. ASSUME NEW g \in Hotkeys, NEW b \in Blocks, RegisteredAt(g, b), from <= b, b <= next
        PROVE  mem'[g].at >= b
    <3>1. b \in Nat /\ mem'[g].at \in Nat /\ mem[g].at \in Nat
      BY <1>10, StateNumbers, Numbers DEF Inv, Entries
    <3>2. CASE b = next
      <4>1. g = h /\ registered
        BY <2>3, <3>2, HotkeysAssumption DEF RegisteredAt, registered, h
      <4> QED
        BY <1>10, <3>2, <4>1
    <3>3. CASE b # next
      <4>1. b <= cursor
        BY <1>4, <1>5, <1>14, <2>3, <3>1, <3>3
      <4>2. mem[g].at >= b
        BY <2>2, <2>3, <4>1 DEF Reaches
      <4>3. mem'[g].at >= mem[g].at
        BY <1>10
      <4> QED
        BY <3>1, <4>2, <4>3
    <3> QED
      BY <3>2, <3>3
  <2>4. sound /\ state.cursor <= cursor
    BY <1>1, <1>14 DEF Inv, Position
  <2>5. ASSUME NEW g \in Hotkeys, NEW b \in Blocks, RegisteredAt(g, b), from <= b,
               b <= state.cursor
        PROVE  index[g].at >= b
    <3>0. b \in Nat /\ state.cursor \in Nat /\ cursor \in Nat
      BY <1>4, Numbers
    <3>1. b <= cursor
      BY <2>4, <2>5, <3>0
    <3> QED
      BY <2>2, <2>5, <3>1
  <2> QED
    BY <1>1, <1>3, <1>7, <2>1, <2>3, <2>5 DEF Held, Reaches, Busy
<1> QED
  BY <1>11, <1>12, <1>13, <1>16, <1>17, <1>18 DEF Inv

\* A pass that ends, at its last block or before an unreadable one, saves what
\* it has; if it has read nothing, what is saved is known to have a gap.
LEMMA PassEndsInv == Inv /\ (StopAtBlock \/ EndScan) => Inv'
<1> SUFFICES ASSUME Inv, StopAtBlock \/ EndScan PROVE Inv'
  OBVIOUS
<1>1. /\ pc = "scan" /\ pc' = "index" /\ mark' = target /\ after' = "final"
      /\ UNCHANGED <<head, chain, index, state, pace, mem, cursor, next, target, tip, count,
                     disk, side, rpc, rhead, rmem, rside, from, overlaps>>
  BY DEF StopAtBlock, EndScan, Save, blockchain, files, sweep
<1>2. \/ faults < MaxFaults /\ faults' = faults + 1 /\ sound' = (sound /\ cursor # NoBlock)
      \/ next > target /\ UNCHANGED <<sound, faults>>
  BY DEF StopAtBlock, EndScan, Fault
<1>3. next \in Nat /\ target \in Nat
  BY StateNumbers DEF Inv
<1>4. cursor = NoBlock => next <= target
  BY <1>1 DEF Inv, Position, Scanning
<1>5. sound' => sound /\ cursor # NoBlock
  <2>1. next > target => cursor # NoBlock
    BY <1>3, <1>4
  <2> QED
    BY <1>2, <2>1, Zenon
<1>6. TypeOK'
  <2>1. faults \in 0 .. MaxFaults /\ sound \in BOOLEAN
    BY DEF Inv, TypeOK
  <2>2. faults' = faults \/ (faults < MaxFaults /\ faults' = faults + 1)
    BY <1>2, Zenon
  <2>3. faults' \in 0 .. MaxFaults
    BY <2>1, <2>2, BoundsAssumption
  <2>4. sound' \in BOOLEAN
    BY <1>2, <2>1, Zenon
  <2> QED
    BY <1>1, <2>3, <2>4 DEF Inv, TypeOK
<1>7. Bounded'
  BY <1>1, Untouched DEF Inv, Bounded, blockchain
<1>8. Began'
  BY <1>1 DEF Inv, Began
<1>9. Position' /\ Saving'
  BY <1>1, <1>5 DEF Inv, Position, Busy, Scanning, Saving
<1>10. Held'
  BY <1>1, <1>5 DEF Inv, Held, Reaches, RegisteredAt, Busy
<1> QED
  BY <1>6, <1>7, <1>8, <1>9, <1>10 DEF Inv

\* The two files are read, which disturbs nothing.
LEMMA ReadInv == Inv /\ (ReadIndex \/ ReadState) => Inv'
<1> SUFFICES ASSUME Inv, ReadIndex \/ ReadState PROVE Inv'
  OBVIOUS
<1>1. /\ UNCHANGED <<blockchain, head, chain, index, state, pace, mem, cursor, next, target, tip,
                     count, mark, after, rpc, rhead, rmem, rside, from, sound, faults, overlaps>>
      /\ disk' \in {disk, index} /\ side' \in {side, state}
      /\ \/ pc = "index" /\ pc' = "write"
         \/ pc = "state" /\ pc' = "side"
  BY DEF ReadIndex, ReadState, blockchain, files, pass, sweep
<1>2. TypeOK'
  BY <1>1 DEF Inv, TypeOK
<1>3. Bounded'
  BY <1>1, Untouched DEF Inv, Bounded
<1>4. Began' /\ Position' /\ Saving'
  BY <1>1 DEF Inv, Began, Position, Busy, Scanning, Saving
<1>5. Held'
  BY <1>1 DEF Inv, Held, Reaches, RegisteredAt, Busy
<1> QED
  BY <1>2, <1>3, <1>4, <1>5 DEF Inv

\* The index is written: as new as the file was when it was read, and as the
\* memory is, which knows all that is behind the checkpoint.
LEMMA WriteIndexInv ==
  ASSUME Inv, WriteIndex
  PROVE  Inv' /\ \A h \in Hotkeys : index'[h].at >= disk[h].at
<1>1. /\ pc = "write" /\ index' = UnionWithDisk(disk, mem) /\ pc' = "state" /\ disk' = NoEntries
      /\ UNCHANGED <<head, chain, state, pace, mem, cursor, next, target, tip, count, mark, after,
                     side, rpc, rhead, rmem, rside, from, sound, faults, overlaps>>
  BY DEF WriteIndex, blockchain, pass, sweep
<1>2. disk \in [Hotkeys -> Entries] /\ mem \in [Hotkeys -> Entries]
  BY DEF Inv, TypeOK
<1>3. /\ index' \in [Hotkeys -> Entries]
      /\ \A h \in Hotkeys : /\ index'[h] \in {disk[h], mem[h]}
                            /\ index'[h].at >= disk[h].at /\ index'[h].at >= mem[h].at
  BY <1>1, <1>2, UnionKeeps
<1>4. TypeOK'
  <2>1. NoEntries \in [Hotkeys -> Entries]
    BY Numbers DEF NoEntries, NoEntry, Entries
  <2> QED
    BY <1>1, <1>3, <2>1 DEF Inv, TypeOK
<1>5. Bounded'
  <2>1. Fresh(index)'
    <3>1. Fresh(disk) /\ Fresh(mem)
      BY DEF Inv, Bounded
    <3> QED
      BY <1>1, <1>3, <3>1 DEF Fresh, RegisteredAt
  <2> QED
    BY <1>1, <2>1, Untouched DEF Inv, Bounded, blockchain
<1>6. Began' /\ Position' /\ Saving'
  BY <1>1 DEF Inv, Began, Position, Busy, Scanning, Saving
<1>7. Held'
  <2> SUFFICES ASSUME sound PROVE Held'
    BY <1>1 DEF Held
  <2>1. \A h \in Hotkeys : mem[h].at \in Nat /\ index'[h].at \in Nat
    BY <1>3, StateNumbers, Numbers DEF Inv, Entries
  <2>2. ASSUME NEW h \in Hotkeys, NEW b \in Blocks, RegisteredAt(h, b), from <= b,
               b <= state.cursor, b <= cursor
        PROVE  index'[h].at >= b
    <3>1. mem[h].at >= b
      BY <1>1, <2>2 DEF Inv, Held, Reaches
    <3>2. index'[h].at >= mem[h].at /\ b \in Nat
      BY <1>3, Numbers
    <3> QED
      BY <2>1, <3>1, <3>2
  <2>3. Reaches(mem, cursor)
    BY <1>1 DEF Inv, Held
  <2> QED
    BY <1>1, <1>3, <2>2, <2>3 DEF Held, Reaches, RegisteredAt, Busy
<1> QED
  BY <1>3, <1>4, <1>5, <1>6, <1>7 DEF Inv

\* The checkpoint is written.  The index beside it is as new as the memory it
\* counts for, and the last block scanned is what it names, but for the first of
\* the two last saves of a pass, which the second takes back.
LEMMA WriteStateInv == Inv /\ WriteState => Inv'
<1> SUFFICES ASSUME Inv, WriteState PROVE Inv'
  OBVIOUS
<1>1. /\ pc = "side" /\ state' = [side EXCEPT !.cursor = mark] /\ side' = NoSidecar
      /\ UNCHANGED <<blockchain, head, chain, index, pace, disk, rpc, rhead, rmem, rside, from, sound,
                     faults, overlaps>>
  BY DEF WriteState, sweep, blockchain
<1>2. /\ {head, cursor, target, tip, mark, rhead, from, state.cursor} \subseteq Nat
      /\ \A h \in Hotkeys : mem[h].at \in Nat /\ index[h].at \in Nat
  BY StateNumbers DEF Inv
<1>3. state'.cursor = mark /\ state' \in Sidecars /\ side' \in Sidecars
  BY <1>1, Numbers DEF Inv, TypeOK, Sidecars, NoSidecar
<1>4. mark <= head /\ cursor <= head /\ tip <= head /\ target <= head /\ rhead <= head
      /\ rside.cursor <= head /\ from # NoBlock
  BY <1>1 DEF Inv, Bounded, Began
<1>5. sound => cursor # NoBlock /\ (after \in {"scan", "end"} => mark = cursor)
  BY <1>1 DEF Inv, Saving, Busy
<1>6. sound => \A h \in Hotkeys, b \in Blocks :
        RegisteredAt(h, b) /\ from <= b /\ b <= cursor => mem[h].at >= b /\ index[h].at >= b
  <2> SUFFICES ASSUME sound, NEW h \in Hotkeys, NEW b \in Blocks,
                      RegisteredAt(h, b), from <= b, b <= cursor
               PROVE  mem[h].at >= b /\ index[h].at >= b
    OBVIOUS
  <2>1. mem[h].at >= b /\ index[h].at >= mem[h].at
    BY <1>1 DEF Inv, Held, Reaches
  <2> QED
    BY <1>2, <2>1, Numbers
<1>7. \A h \in Hotkeys, b \in Blocks : RegisteredAt(h, b)' <=> RegisteredAt(h, b)
  BY <1>1 DEF RegisteredAt
<1>8. NoEntries \in [Hotkeys -> Entries] /\ NoBlock \in Heights /\ 0 \in Heights
      /\ 0 \in 0 .. (MaxBlock + 1)
  BY BoundsAssumption DEF NoEntries, NoEntry, NoBlock, Entries, Heights
<1>9. CASE after = "scan" /\ pc' = "scan" /\ UNCHANGED pass
  <2>1. UNCHANGED <<mem, cursor, next, target, tip, count, mark, after>>
    BY <1>9 DEF pass
  <2>2. TypeOK'
    BY <1>1, <1>3, <1>9, <2>1 DEF Inv, TypeOK
  <2>3. Bounded'
    BY <1>1, <1>3, <1>4, <2>1, Untouched DEF Bounded
  <2>4. Began' /\ Saving'
    BY <1>1, <1>4, <1>9 DEF Began, Saving, Busy
  <2>5. sound => state'.cursor <= cursor
    BY <1>2, <1>3, <1>5, <1>9
  <2>6. Scanning
    BY <1>1, <1>9 DEF Scanning, Busy
  <2>7. Position'
    BY <1>1, <1>9, <2>1, <2>5, <2>6 DEF Inv, Position, Busy, Scanning
  <2>8. Held'
    BY <1>1, <1>3, <1>6, <1>7, <1>9, <2>1 DEF Held, Reaches, Busy
  <2> QED
    BY <2>2, <2>3, <2>4, <2>7, <2>8 DEF Inv
<1>10. CASE /\ after = "final" /\ Save(IF cursor # NoBlock THEN cursor ELSE tip, "end")
            /\ UNCHANGED <<mem, cursor, next, target, tip, count>>
  <2>1. /\ pc' = "index" /\ after' = "end" /\ mark' = IF cursor # NoBlock THEN cursor ELSE tip
        /\ UNCHANGED <<mem, cursor, next, target, tip, count>>
    BY <1>10 DEF Save
  <2>2. TypeOK'
    BY <1>1, <1>3, <2>1 DEF Inv, TypeOK
  <2>3. Bounded'
    BY <1>1, <1>3, <1>4, <2>1, Untouched DEF Bounded
  <2>4. Began' /\ Saving' /\ Position'
    BY <1>1, <1>4, <1>5, <2>1 DEF Began, Saving, Position, Busy, Scanning
  <2>5. sound => \A h \in Hotkeys : index[h].at >= mem[h].at
    BY <1>1 DEF Inv, Held
  <2>6. Held'
    BY <1>1, <1>3, <1>6, <1>7, <2>1, <2>5 DEF Held, Reaches, Busy
  <2> QED
    BY <2>2, <2>3, <2>4, <2>6 DEF Inv
<1>11. CASE after = "end" /\ pc' = "off" /\ mem' = NoEntries /\ cursor' = NoBlock /\ PassOver
  <2>1. next' = 0 /\ target' = 0 /\ tip' = 0 /\ count' = 0 /\ mark' = 0 /\ after' = "scan"
    BY <1>11 DEF PassOver
  <2>2. TypeOK'
    BY <1>1, <1>3, <1>8, <1>11, <2>1 DEF Inv, TypeOK
  <2>3. Bounded'
    BY <1>1, <1>2, <1>3, <1>4, <1>11, <2>1, Untouched DEF Bounded, NoBlock
  <2>4. Began' /\ Saving' /\ Position'
    BY <1>1, <1>3, <1>4, <1>5, <1>11 DEF Began, Saving, Position, Busy, Scanning
  <2>5. Held'
    BY <1>1, <1>3, <1>5, <1>6, <1>7, <1>11 DEF Held, Reaches, Busy
  <2> QED
    BY <2>2, <2>3, <2>4, <2>5 DEF Inv
<1>12. CASE after = "end" /\ pc' = "wait" /\ PassOver /\ UNCHANGED <<mem, cursor>>
  <2>1. next' = 0 /\ target' = 0 /\ tip' = 0 /\ count' = 0 /\ mark' = 0 /\ after' = "scan"
    BY <1>12 DEF PassOver
  <2>2. TypeOK'
    BY <1>1, <1>3, <1>8, <1>12, <2>1 DEF Inv, TypeOK
  <2>3. Bounded'
    BY <1>1, <1>2, <1>3, <1>4, <1>12, <2>1, Untouched DEF Bounded
  <2>4. sound => state'.cursor <= cursor
    BY <1>2, <1>3, <1>5, <1>12
  <2>5. Began' /\ Saving' /\ Position'
    BY <1>1, <1>3, <1>4, <1>5, <1>12, <2>4 DEF Began, Saving, Position, Busy, Scanning
  <2>6. Held'
    BY <1>1, <1>3, <1>5, <1>6, <1>7, <1>12 DEF Held, Reaches, Busy
  <2> QED
    BY <2>2, <2>3, <2>5, <2>6 DEF Inv
<1> QED
  BY <1>9, <1>10, <1>11, <1>12 DEF WriteState

\* A builder that dies or is killed leaves the index as new as its checkpoint,
\* unless that is past what it had scanned.
LEMMA BuilderGoneInv == Inv /\ (BuilderDies \/ Killed) => Inv'
<1> SUFFICES ASSUME Inv, BuilderDies \/ Killed PROVE Inv'
  OBVIOUS
<1>1. /\ pc # "off" /\ (faults' = faults \/ (faults < MaxFaults /\ faults' = faults + 1))
      /\ sound' = (sound /\ state.cursor <= cursor)
      /\ pc' = "off" /\ mem' = NoEntries /\ cursor' = NoBlock
      /\ next' = 0 /\ target' = 0 /\ tip' = 0 /\ count' = 0 /\ mark' = 0 /\ after' = "scan"
      /\ from' = IF state.cursor = NoBlock THEN NoBlock ELSE from
      /\ disk' = NoEntries /\ side' = NoSidecar
      /\ UNCHANGED <<blockchain, head, chain, index, state, pace, rpc, rhead, rmem, rside, overlaps>>
  BY DEF BuilderDies, Killed, BuilderGone, Fault, PassOver, blockchain, files, sweep
<1>2. {head, cursor, from, state.cursor} \subseteq Nat
  BY StateNumbers DEF Inv
<1>3. sound' \in BOOLEAN
  BY <1>1, Zenon
<1>4. faults' \in 0 .. MaxFaults
  BY <1>1, BoundsAssumption DEF Inv, TypeOK
<1>5. NoEntries \in [Hotkeys -> Entries] /\ NoSidecar \in Sidecars /\ NoBlock \in Heights /\ 0 \in Heights
      /\ 0 \in 0 .. (MaxBlock + 1) /\ 0 \in Nat /\ NoBlock = 0
  BY BoundsAssumption DEF NoEntries, NoEntry, NoSidecar, NoBlock, Entries, Sidecars, Heights
<1>6. TypeOK'
  BY <1>1, <1>3, <1>4, <1>5 DEF Inv, TypeOK
<1>7. Bounded'
  BY <1>1, <1>2, <1>5, Untouched DEF Inv, Bounded
<1>8. from # NoBlock
  BY <1>1 DEF Inv, Began
<1>9. Began' /\ Position' /\ Saving'
  BY <1>1, <1>8 DEF Inv, Began, Position, Busy, Scanning, Saving
<1>10. Held'
  <2> SUFFICES ASSUME sound', NEW h \in Hotkeys, NEW b \in Blocks,
                      RegisteredAt(h, b), from' <= b, b <= state.cursor
               PROVE  index[h].at >= b
    BY <1>1 DEF Held, Reaches, RegisteredAt, Busy
  <2>1. sound /\ state.cursor <= cursor
    BY <1>1
  <2>2. state.cursor # NoBlock /\ b <= cursor
    BY <1>2, <1>5, <2>1, Numbers
  <2> QED
    BY <1>1, <2>1, <2>2 DEF Inv, Held
<1> QED
  BY <1>6, <1>7, <1>9, <1>10 DEF Inv

\* The builder's state says nothing of the head sweep's.
LEMMA RefreshInv ==
  ASSUME Inv, StartRefresh \/ Sweep \/ ReadStamp \/ RefreshDies
  PROVE  Inv'
<1>1. UNCHANGED <<blockchain, head, chain, index, state, pace, pc, mem, cursor, next, target, tip,
                  count, mark, after, disk, side, from, sound>>
  BY DEF StartRefresh, Sweep, ReadStamp, RefreshDies, SweepOver, blockchain, files, builder, pass
<1>2. /\ rhead' \in {head, rhead, 0}
      /\ rside' \in {rside, state, NoSidecar}
      /\ rpc' \in {"off", "sweep", "write", "stamp", "side"}
  BY DEF StartRefresh, Sweep, ReadStamp, RefreshDies, SweepOver
<1>3. faults' \in 0 .. MaxFaults
  <2>1. faults \in Nat /\ faults \in 0 .. MaxFaults /\ rhead \in Nat
    BY StateNumbers, BoundsAssumption DEF Inv, TypeOK
  <2>2. CASE Sweep
    <3>1. PICK deaf \in SUBSET Hotkeys, upto \in 0 .. rhead :
            /\ faults + (Cardinality(deaf) + (IF upto < rhead THEN 1 ELSE 0)) <= MaxFaults
            /\ faults' = faults + (Cardinality(deaf) + (IF upto < rhead THEN 1 ELSE 0))
      BY <2>2 DEF Sweep
    <3>2. Cardinality(deaf) \in Nat
      BY HotkeysAssumption, FS_Subset, FS_CardinalityType
    <3> QED
      BY <2>1, <3>1, <3>2, BoundsAssumption
  <2>3. CASE ~Sweep
    <3>1. faults' = faults \/ (faults < MaxFaults /\ faults' = faults + 1)
      BY <2>3 DEF StartRefresh, ReadStamp, RefreshDies, Fault
    <3> QED
      BY <2>1, <3>1, BoundsAssumption
  <2> QED
    BY <2>2, <2>3
<1>4. overlaps' \in 0 .. MaxOverlaps
  <2>1. overlaps' = overlaps \/ (overlaps < MaxOverlaps /\ overlaps' = overlaps + 1)
    BY DEF StartRefresh, StartedBeside, Sweep, ReadStamp, RefreshDies
  <2>2. overlaps \in 0 .. MaxOverlaps
    BY DEF Inv, TypeOK
  <2> QED
    BY <2>1, <2>2, BoundsAssumption
<1>5. rmem' \in [Hotkeys -> Entries] /\ Fresh(rmem)'
  <2>1. CASE Sweep
    <3>1. PICK deaf \in SUBSET Hotkeys, upto \in 0 .. rhead :
            rmem' = [h \in Hotkeys |-> IF rmem[h] # NoEntry THEN rmem[h] ELSE Found(h, deaf, upto)]
      BY <2>1 DEF Sweep
    <3>2. \A h \in Hotkeys :
            /\ Found(h, deaf, upto) \in Entries
            /\ Found(h, deaf, upto).at <= head /\ Found(h, deaf, upto).key <= head
            /\ \A b \in Blocks : b <= Found(h, deaf, upto).at /\ RegisteredAt(h, b)
                 => b <= Found(h, deaf, upto).key
      BY FoundFresh DEF Inv
    <3>3. rmem \in [Hotkeys -> Entries] /\ Fresh(rmem)
      BY DEF Inv, TypeOK, Bounded
    <3>4. rmem' \in [Hotkeys -> Entries]
      BY <3>1, <3>2, <3>3
    <3>5. \A h \in Hotkeys : rmem'[h] = rmem[h] \/ rmem'[h] = Found(h, deaf, upto)
      BY <3>1
    <3>6. Fresh(rmem)'
      <4> SUFFICES ASSUME NEW h \in Hotkeys
                   PROVE  /\ rmem'[h].at <= head /\ rmem'[h].key <= head
                          /\ \A b \in Blocks : b <= rmem'[h].at /\ RegisteredAt(h, b)
                               => b <= rmem'[h].key
        BY <1>1 DEF Fresh, RegisteredAt
      <4>1. CASE rmem'[h] = rmem[h]
        BY <3>3, <4>1 DEF Fresh
      <4>2. CASE rmem'[h] = Found(h, deaf, upto)
        BY <3>2, <4>2
      <4> QED
        BY <3>5, <4>1, <4>2
    <3> QED
      BY <3>4, <3>6
  <2>2. NoEntries \in [Hotkeys -> Entries]
    BY Numbers DEF NoEntries, NoEntry, Entries
  <2>3. CASE ~Sweep
    <3>1. rmem' \in {index, rmem, NoEntries}
      BY <2>3 DEF StartRefresh, ReadStamp, RefreshDies, SweepOver
    <3> QED
      BY <1>1, <2>2, <3>1, Untouched DEF Inv, TypeOK
  <2> QED
    BY <2>1, <2>3
<1>6. rhead' <= head /\ rhead' \in Heights
  BY <1>2, StateNumbers, BoundsAssumption DEF Inv, Bounded, TypeOK, Heights
<1>7. rside' \in Sidecars /\ rside'.cursor <= head
  <2>1. NoSidecar \in Sidecars /\ NoSidecar.cursor <= head
    BY StateNumbers, Numbers DEF Inv, NoSidecar, NoBlock, Sidecars
  <2>2. rside \in Sidecars /\ rside.cursor <= head /\ state \in Sidecars /\ state.cursor <= head
    BY DEF Inv, TypeOK, Bounded
  <2> QED
    BY <1>2, <2>1, <2>2
<1>8. TypeOK'
  BY <1>1, <1>2, <1>3, <1>4, <1>5, <1>6, <1>7 DEF Inv, TypeOK
<1>9. Bounded'
  BY <1>1, <1>5, <1>6, <1>7, Untouched DEF Inv, Bounded
<1>10. Began' /\ Position' /\ Saving'
  BY <1>1 DEF Inv, Began, Position, Busy, Scanning, Saving
<1>11. Held'
  BY <1>1 DEF Inv, Held, Reaches, RegisteredAt, Busy
<1> QED
  BY <1>8, <1>9, <1>10, <1>11 DEF Inv

\* The stamp puts back a checkpoint that is behind the one it writes over, or
\* else that is known.
LEMMA WriteStampInv == Inv /\ WriteStamp => Inv'
<1> SUFFICES ASSUME Inv, WriteStamp PROVE Inv'
  OBVIOUS
<1>1. /\ UNCHANGED <<blockchain, head, chain, index, pace, pc, mem, cursor, next, target, tip,
                     count, mark, after, disk, side, from, faults, overlaps>>
      /\ state' = [rside EXCEPT !.swept = rhead]
      /\ sound' = (sound /\ rside.cursor <= state.cursor
                         /\ (state.cursor # NoBlock => rside.cursor # NoBlock))
      /\ rpc' = "off" /\ rhead' = 0 /\ rmem' = NoEntries /\ rside' = NoSidecar
  BY DEF WriteStamp, SweepOver, blockchain, builder, pass
<1>2. /\ state'.cursor = rside.cursor /\ state' \in Sidecars
      /\ NoSidecar \in Sidecars /\ NoSidecar.cursor = 0
      /\ NoEntries \in [Hotkeys -> Entries] /\ 0 \in Heights
  BY <1>1, Numbers DEF Inv, TypeOK, Sidecars, NoSidecar, NoEntries, NoEntry, Entries, NoBlock
<1>3. /\ {head, cursor, state.cursor, rside.cursor} \subseteq Nat
      /\ \A h \in Hotkeys : index[h].at \in Nat
  BY StateNumbers DEF Inv
<1>4. sound' \in BOOLEAN
  BY <1>1, Zenon
<1>5. TypeOK'
  BY <1>1, <1>2, <1>4 DEF Inv, TypeOK
<1>6. Bounded'
  BY <1>1, <1>2, <1>3, Untouched DEF Inv, Bounded
<1>7. sound' => sound /\ state'.cursor <= state.cursor
                /\ (state'.cursor = NoBlock <=> state.cursor = NoBlock)
  <2> SUFFICES ASSUME sound' PROVE sound /\ state'.cursor <= state.cursor
                /\ (state'.cursor = NoBlock <=> state.cursor = NoBlock)
    OBVIOUS
  <2>1. sound /\ rside.cursor <= state.cursor /\ (state.cursor # NoBlock => rside.cursor # NoBlock)
    BY <1>1, Zenon
  <2> QED
    BY <1>2, <1>3, <2>1 DEF NoBlock
<1>8. Began'
  BY <1>1, <1>7 DEF Inv, Began
<1>9. sound' => (state.cursor <= cursor => state'.cursor <= cursor)
  BY <1>2, <1>3, <1>7
<1>10. Position' /\ Saving'
  BY <1>1, <1>7, <1>9 DEF Inv, Position, Busy, Scanning, Saving
<1>11. Held'
  <2> SUFFICES ASSUME sound' PROVE Held'
    BY DEF Held
  <2>1. \A b \in Blocks : b <= state'.cursor => b <= state.cursor
    BY <1>2, <1>3, <1>7, Numbers
  <2>2. Held /\ sound
    BY <1>7 DEF Inv
  <2> QED
    BY <1>1, <2>1, <2>2 DEF Held, Reaches, RegisteredAt, Busy
<1> QED
  BY <1>5, <1>6, <1>8, <1>10, <1>11 DEF Inv

\* A head sweep that writes takes something back, which is known, or leaves
\* every entry at least as new.
LEMMA WriteRefreshInv == Inv /\ WriteRefresh => Inv'
<1> SUFFICES ASSUME Inv, WriteRefresh PROVE Inv'
  OBVIOUS
<1>1. /\ index' = rmem /\ rpc' = "stamp" /\ rmem' = NoEntries
      /\ sound' = (sound /\ \A h \in Hotkeys : rmem[h].at >= index[h].at)
      /\ UNCHANGED <<blockchain, head, chain, state, pace, pc, mem, cursor, next, target, tip, count,
                     mark, after, disk, side, rhead, rside, from, faults, overlaps>>
  BY DEF WriteRefresh, blockchain, builder, pass
<1>2. sound' \in BOOLEAN
  BY <1>1, Zenon
<1>3. TypeOK'
  <2>1. NoEntries \in [Hotkeys -> Entries]
    BY Numbers DEF NoEntries, NoEntry, Entries
  <2> QED
    BY <1>1, <1>2, <2>1 DEF Inv, TypeOK
<1>4. Bounded'
  BY <1>1, Untouched DEF Inv, Bounded
<1>5. sound' => sound /\ \A h \in Hotkeys : index'[h].at >= index[h].at
  BY <1>1, Zenon
<1>6. Began' /\ Position' /\ Saving'
  BY <1>1, <1>5 DEF Inv, Began, Position, Busy, Scanning, Saving
<1>7. Held'
  <2> SUFFICES ASSUME sound' PROVE Held'
    BY DEF Held
  <2>1. \A h \in Hotkeys : /\ index'[h].at \in Nat /\ index[h].at \in Nat /\ mem[h].at \in Nat
                          /\ index'[h].at >= index[h].at
    BY <1>1, <1>5, StateNumbers DEF Inv
  <2>2. \A h \in Hotkeys, b \in Blocks : index[h].at >= b => index'[h].at >= b
    <3>1. \A b \in Blocks : b \in Nat
      BY Numbers
    <3> QED
      BY <2>1, <3>1
  <2>3. \A h \in Hotkeys : index[h].at >= mem[h].at => index'[h].at >= mem[h].at
    BY <2>1
  <2>4. Held /\ sound
    BY <1>5 DEF Inv
  <2>5. \A h \in Hotkeys, b \in Blocks : RegisteredAt(h, b)' <=> RegisteredAt(h, b)
    BY <1>1 DEF RegisteredAt
  <2> QED
    BY <1>1, <2>2, <2>3, <2>4, <2>5 DEF Held, Reaches, Busy
<1> QED
  BY <1>3, <1>4, <1>6, <1>7 DEF Inv

-----------------------------------------------------------------------------
(* Theorems *)

LEMMA InitInv == Init => Inv
<1> SUFFICES ASSUME Init PROVE Inv
  OBVIOUS
<1> USE DEF Init
<1>1. NoEntries \in [Hotkeys -> Entries] /\ 0 \in Heights /\ 0 \in 0 .. (MaxBlock + 1) /\ NoBlock = 0
      /\ 0 \in 0 .. MaxFaults /\ 0 \in 0 .. MaxOverlaps /\ NoSidecar \in Sidecars
      /\ NoSidecar.cursor = 0
  BY BoundsAssumption DEF NoEntries, NoEntry, NoSidecar, NoBlock, Entries, Sidecars, Heights
<1>2. TypeOK
  BY <1>1 DEF TypeOK
<1>3. Bounded
  <2>1. \A h \in Hotkeys : NoEntries[h].at = 0 /\ NoEntries[h].key = 0
    BY DEF NoEntries, NoEntry, NoBlock
  <2>2. Fresh(NoEntries)
    BY <2>1, Numbers DEF Fresh
  <2> QED
    BY <1>1, <2>2 DEF Bounded
<1>4. Began /\ Position /\ Saving
  BY <1>1 DEF Began, Position, Busy, Scanning, Saving
<1>5. Held
  BY <1>1, Numbers DEF Held, Reaches, Busy
<1> QED
  BY <1>2, <1>3, <1>4, <1>5 DEF Inv

LEMMA InvStutters == Inv /\ UNCHANGED vars => Inv'
BY DEF vars, blockchain, files, builder, pass, sweep, Inv, TypeOK, Bounded, Began, Position,
       Saving, Held, Busy, Scanning, Fresh, Reaches, RegisteredAt

LEMMA InvNext == Inv /\ [Next]_vars => Inv'
BY NewBlockInv, StartPassInv, ScanBlockInv, PassEndsInv, ReadInv, WriteIndexInv, WriteStateInv,
   BuilderGoneInv, RefreshInv, WriteRefreshInv, WriteStampInv, InvStutters DEF Next

LEMMA Invariant == Spec => []Inv
BY InitInv, InvNext, PTL DEF Spec

\* One program starts beside the other only as an overlap that is counted.
LEMMA AloneNext == TypeOK /\ Alone /\ [Next]_vars => Alone'
<1> SUFFICES ASSUME TypeOK, Alone, [Next]_vars, overlaps' = 0 PROVE Alone'
  BY DEF Alone
<1>1. overlaps = 0
  <2>1. overlaps \in Nat
    BY BoundsAssumption DEF TypeOK
  <2>2. overlaps' = overlaps \/ overlaps' = overlaps + 1
    BY DEF Next, vars, NewBlock, StartPass, ScanBlock, StopAtBlock, EndScan, ReadIndex, WriteIndex,
           ReadState, WriteState, BuilderDies, Killed, BuilderGone, StartRefresh, Sweep,
           WriteRefresh, ReadStamp, WriteStamp, RefreshDies, StartedBeside
  <2> QED
    BY <2>1, <2>2
<1>2. rpc = "off" \/ pc \in {"off", "wait"}
  BY <1>1 DEF Alone
<1>3. pc = "write" => index = disk
  BY <1>1 DEF Alone
<1>4. CASE StartPass
  <2>1. rpc = "off" /\ rpc' = rpc /\ pc' = "scan"
    BY <1>1, <1>4 DEF StartPass, StartedBeside, sweep
  <2> QED
    BY <2>1 DEF Alone
<1>5. CASE StartRefresh
  <2>1. pc \in {"off", "wait"} /\ pc' = pc
    BY <1>1, <1>5 DEF StartRefresh, StartedBeside, builder
  <2> QED
    BY <2>1 DEF Alone
<1>6. CASE ScanBlock \/ StopAtBlock \/ EndScan \/ ReadIndex \/ WriteIndex \/ ReadState \/ WriteState
  <2>1. rpc = "off" /\ rpc' = rpc
    BY <1>2, <1>6 DEF ScanBlock, StopAtBlock, EndScan, ReadIndex, WriteIndex, ReadState, WriteState, sweep
  <2>2. pc' = "write" => ReadIndex
    BY <1>6 DEF ScanBlock, StopAtBlock, EndScan, WriteIndex, ReadState, WriteState, Save
  <2>3. ReadIndex => index' = disk'
    BY DEF ReadIndex, files
  <2> QED
    BY <2>1, <2>2, <2>3 DEF Alone
<1>7. CASE BuilderDies \/ Killed
  BY <1>7 DEF BuilderDies, Killed, BuilderGone, Alone
<1>8. CASE Sweep \/ WriteRefresh \/ ReadStamp \/ WriteStamp \/ RefreshDies
  <2>1. pc \in {"off", "wait"} /\ pc' = pc
    BY <1>2, <1>8 DEF Sweep, WriteRefresh, ReadStamp, WriteStamp, RefreshDies, builder
  <2> QED
    BY <2>1 DEF Alone
<1>9. CASE NewBlock \/ UNCHANGED vars
  BY <1>2, <1>3, <1>9 DEF NewBlock, vars, builder, sweep, files, Alone
<1> QED
  BY <1>4, <1>5, <1>6, <1>7, <1>8, <1>9 DEF Next

LEMMA AloneHolds == Spec => []Alone
<1>1. Init => Alone
  BY DEF Init, Alone
<1>2. Inv => TypeOK
  BY DEF Inv
<1> QED
  BY <1>1, <1>2, AloneNext, Invariant, PTL DEF Spec

\* The state has its types, whatever is registered and wherever programs die.
THEOREM TypeCorrect == Spec => []TypeOK
<1>1. Inv => TypeOK
  BY DEF Inv
<1> QED
  BY <1>1, Invariant, PTL

\* Between saves every registration up to the checkpoint is in the index, or a
\* newer one of its hotkey, as long as nothing known has made a gap: with any
\* time limit, and whatever the other program writes between the read and the
\* write of either file.
THEOREM IndexHasNoGap == Spec => []NoGap
<1>1. Inv => NoGap
  <2> SUFFICES ASSUME Inv, pc \in {"off", "wait", "scan"}, sound,
                      NEW h \in Hotkeys, NEW b \in Blocks,
                      RegisteredAt(h, b), from <= b, b <= state.cursor
               PROVE  index[h].key >= b
    BY DEF NoGap, Covered
  <2>1. /\ cursor \in Nat /\ state.cursor \in Nat /\ b \in Nat
        /\ index[h].at \in Nat /\ index[h].key \in Nat
    BY StateNumbers, Numbers DEF Inv
  <2>2. index[h].at >= b
    <3>1. CASE pc = "off"
      BY <3>1 DEF Inv, Held, Reaches
    <3>2. CASE pc # "off"
      <4>1. b <= cursor
        BY <2>1, <3>2 DEF Inv, Position
      <4> QED
        BY <3>2, <4>1 DEF Inv, Held
    <3> QED
      BY <3>1, <3>2
  <2>3. b <= index[h].at
    BY <2>1, <2>2
  <2>4. b <= index[h].key
    BY <2>3 DEF Inv, Bounded, Fresh
  <2> QED
    BY <2>1, <2>4
<1> QED
  BY <1>1, Invariant, PTL

\* A save of the builder takes an entry back only if the head sweep ran beside it
\* and wrote the entry between the save's read and its write.
THEOREM NothingDropped == Spec => NeverDrops
<1> DEFINE Kept == pc = "write" /\ pc' = "state" =>
                     \A h \in Hotkeys : index'[h].at < index[h].at =>
                                         overlaps > 0 /\ index[h] # disk[h]
<1>1. Inv /\ Alone /\ [Next]_vars => [Kept]_vars
  <2> SUFFICES ASSUME Inv, Alone, Next, pc = "write", pc' = "state",
                      NEW h \in Hotkeys, index'[h].at < index[h].at
               PROVE  overlaps > 0 /\ index[h] # disk[h]
    OBVIOUS
  <2>1. WriteIndex
    BY DEF Next, NewBlock, StartPass, ScanBlock, StopAtBlock, EndScan, ReadIndex, ReadState,
           WriteState, BuilderDies, Killed, BuilderGone, StartRefresh, Sweep, WriteRefresh,
           ReadStamp, WriteStamp, RefreshDies, builder
  <2>2. index'[h].at >= disk[h].at /\ Inv'
    BY <2>1, WriteIndexInv
  <2>3. index'[h].at \in Nat /\ index[h].at \in Nat /\ disk[h].at \in Nat
    <3>1. index'[h] \in Entries
      BY <2>2 DEF Inv, TypeOK
    <3> QED
      BY <3>1, StateNumbers, Numbers DEF Inv, Entries
  <2>4. index[h] # disk[h]
    BY <2>2, <2>3
  <2>5. overlaps # 0
    BY <2>4 DEF Alone
  <2> QED
    BY <2>4, <2>5, BoundsAssumption DEF Inv, TypeOK
<1> QED
  BY <1>1, Invariant, AloneHolds, PTL DEF Spec, NeverDrops
=============================================================================
