---------------------------- MODULE WeightsProofs ----------------------------
(***************************************************************************)
(* Proofs about the two modules that make the weights, for any values of   *)
(* their constants: EpochScoring, which commits them, and DailyAllocation, *)
(* which computes the vector of a day.                                     *)
(***************************************************************************)
EXTENDS DailyAllocation, EpochScoring, FiniteSetTheorems, SequenceTheorems, WellFoundedInduction, TLAPS

-----------------------------------------------------------------------------
(* EpochScoring: types. *)

Running == {"pre", "weights", "post", "retry"}

\* Every tool is within its time limit, and the run in progress is of the newest epoch.
RunInTime ==
  /\ spent <= Limit[pc]
  /\ pc \in Running =>
       /\ mode = "weekly" /\ latest # NoEpoch /\ run.epoch = latest
       /\ run.began <= clock /\ clock - run.began <= spent

Typed == TypeOK /\ RunInTime

Entries == [kind : Kinds, epoch : 0 .. MaxEpoch, at : 1 .. MaxClock,
            began : 0 .. MaxClock, checked : BOOLEAN, verified : BOOLEAN]
Landings == [v : Vectors, at : 1 .. MaxClock]

(* A number is not below its quotient. *)
LEMMA QuotientBound ==
  ASSUME NEW n \in Nat, NEW k \in Nat \ {0}
  PROVE  n \div k \in 0 .. n
OBVIOUS

(* Quotients are monotone. *)
LEMMA QuotientMonotone ==
  ASSUME NEW m \in Nat, NEW n \in Nat, m <= n, NEW k \in Nat \ {0}
  PROVE  m \div k <= n \div k
OBVIOUS

(* What is sent is a vector of the epoch it is computed for. *)
LEMMA ComposeType ==
  ASSUME NEW e \in 1 .. MaxEpoch, NEW burn, NEW has \in BOOLEAN, NEW scored \in BOOLEAN
  PROVE  /\ Compose(e, burn, has, scored) \in Vectors \cup {NoVector}
         /\ Compose(e, burn, has, scored) # NoVector => Compose(e, burn, has, scored).epoch = e
BY DEF Compose, Vectors, NoVector, NoEpoch

(* The limits of the parts of a tick are numbers. *)
LEMMA LimitIs ==
  /\ UpkeepTimeout \in Nat /\ ScoringTimeout \in Nat /\ ClosingTimeout \in Nat
  /\ Limit["upkeep"] = UpkeepTimeout /\ Limit["heartbeat"] = ClosingTimeout
  /\ \A phase \in InScoring \cup {"sleep"} : Limit[phase] = ScoringTimeout
  /\ \A phase \in Phases : Limit[phase] \in Nat
BY ParamsAssumption DEF Limit, InScoring, Phases

(* A record that fits keeps the chain and its space well-typed. *)
LEMMA LandType ==
  ASSUME TypeOK, NEW kind \in Kinds, NEW size \in Nat, Fits(size), Land(kind, size)
  PROVE  /\ chain' \in Seq(Entries) /\ space' \in [used : 0 .. MaxSpace, epoch : 0 .. MaxClock]
         /\ UNCHANGED <<lastUpdate, pending, weights>>
<1>1. Entry(kind) \in Entries /\ chain \in Seq(Entries)
  BY DEF TypeOK, Entry, Entries
<1>2. chain' \in Seq(Entries)
  BY <1>1 DEF Land
<1>3. PalletEpoch \in 0 .. MaxClock
  <2>1. clock \in 1 .. MaxClock /\ MaxClock \in Nat /\ PalletLength \in Nat \ {0}
    BY ParamsAssumption, BoundsAssumption DEF TypeOK
  <2>2. clock \div PalletLength \in 0 .. clock
    BY <2>1, QuotientBound
  <2> QED
    BY <2>1, <2>2 DEF PalletEpoch
<1>4. SpaceUsed \in Nat
  BY DEF SpaceUsed, TypeOK
<1>5. SpaceUsed + size \in 0 .. MaxSpace
  BY <1>4, ParamsAssumption DEF Fits
<1> QED
  BY <1>2, <1>3, <1>5 DEF Land

(* So do weights that land. *)
LEMMA LandWeightsType ==
  ASSUME TypeOK, NEW v \in Vectors, LandWeights(v)
  PROVE  /\ lastUpdate' \in 0 .. MaxClock /\ pending' \in Seq(Landings)
         /\ UNCHANGED <<space, weights>>
<1>1. [v |-> v, at |-> clock] \in Landings /\ pending \in Seq(Landings)
  BY DEF TypeOK, Landings
<1> QED
  BY <1>1 DEF LandWeights, TypeOK

(* So does an interval that passes. *)
LEMMA PassTimeType ==
  ASSUME TypeOK, clock < MaxClock, PassTime
  PROVE  /\ clock' \in 1 .. MaxClock /\ clock' = clock + 1
         /\ weights' \in Vectors \cup {NoVector} /\ pending' \in Seq(Landings)
         /\ UNCHANGED <<chain, space, lastUpdate>>
<1>1. PICK shown \in 0 .. Len(pending) :
        /\ weights' = IF shown = 0 THEN weights ELSE pending[shown].v
        /\ pending' = SubSeq(pending, shown + 1, Len(pending))
  BY DEF PassTime
<1>2. pending \in Seq(Landings)
  BY DEF TypeOK, Landings
<1>3. pending' \in Seq(Landings)
  BY <1>1, <1>2, SubSeqProperties
<1>4. shown # 0 => pending[shown] \in Landings
  BY <1>1, <1>2
<1>5. weights' \in Vectors \cup {NoVector}
  BY <1>1, <1>4 DEF TypeOK, Landings
<1> QED
  BY <1>3, <1>5, BoundsAssumption DEF PassTime, TypeOK

(* The outcomes of submitting a record: it landed or not, the run goes on or not. *)
LEMMA SubmitCases ==
  ASSUME NEW kind, NEW size, NEW next, Submit(kind, size, next)
  PROVE  /\ (Fits(size) /\ Land(kind, size)) \/ UNCHANGED onChain
         /\ \/ Fits(size) /\ Land(kind, size) /\ GoOn(next, run)
            \/ pc' = "heartbeat" /\ run' = NoRun
         /\ UNCHANGED faults \/ Fault
BY DEF Submit, EndScoring, AfterScoring

(* And of sending weights. *)
LEMMA SendCases ==
  ASSUME NEW v, NEW next, SendWeights(v, next)
  PROVE  /\ \/ /\ v # NoVector /\ ~RateLimited /\ LandWeights(v)
               /\ chain' = IF mode = "weekly" THEN Append(chain, Entry("weights")) ELSE chain
            \/ UNCHANGED onChain
         /\ \/ /\ v # NoVector /\ ~RateLimited /\ LandWeights(v) /\ GoOn(next, run)
               /\ chain' = IF mode = "weekly" THEN Append(chain, Entry("weights")) ELSE chain
            \/ GoOn(next, Unverified)
            \/ pc' = "heartbeat" /\ run' = NoRun
         /\ UNCHANGED faults \/ Fault
BY DEF SendWeights, EndScoring, AfterScoring

Runs == [epoch : 0 .. MaxEpoch, began : 0 .. MaxClock, checked : BOOLEAN, verified : BOOLEAN]
ChainOK ==
  /\ chain \in Seq(Entries) /\ space \in [used : 0 .. MaxSpace, epoch : 0 .. MaxClock]
  /\ lastUpdate \in 0 .. MaxClock /\ pending \in Seq(Landings)
  /\ weights \in Vectors \cup {NoVector}
RestOK ==
  /\ clock \in 1 .. MaxClock /\ latest \in 0 .. MaxEpoch /\ faults \in 0 .. MaxFaults
  /\ pc \in Phases /\ run \in Runs /\ spent \in Nat /\ mode \in Modes

LEMMA TypeParts == TypeOK <=> ChainOK /\ RestOK
BY DEF TypeOK, ChainOK, RestOK, Runs, Entries, Landings

(* Every step keeps the types, and the run in progress within its time. *)
LEMMA TypedStep ==
  ASSUME Typed, [Next]_vars
  PROVE  Typed'
<1> USE DEF Typed
<1>1. ChainOK /\ RestOK /\ RunInTime /\ MaxClock \in Nat /\ MaxEpoch \in Nat /\ MaxFaults \in Nat
  BY TypeParts, BoundsAssumption
<1>2. /\ NoRun \in Runs /\ "heartbeat" \in Phases /\ "heartbeat" \notin Running
      /\ "heartbeat" \notin InScoring /\ Running \subseteq InScoring
  BY <1>1 DEF NoRun, Runs, NoEpoch, Phases, Running, InScoring
<1>0. ASSUME KeepTime, pc \in InScoring, pc' \in InScoring \cup {"heartbeat"}
      PROVE  spent' \in Nat /\ spent' <= Limit[pc'] /\ (pc' \in InScoring => spent' = spent)
  BY <1>0, <1>1, <1>2, LimitIs DEF KeepTime, RestOK, RunInTime, InScoring, Phases
<1>3. ASSUME NEW kind \in Kinds, NEW size \in Nat, NEW next, Submit(kind, size, next)
      PROVE  ChainOK' /\ faults' \in 0 .. MaxFaults
  <2>1. UNCHANGED faults \/ Fault
    BY <1>3, SubmitCases
  <2>2. (Fits(size) /\ Land(kind, size)) \/ UNCHANGED onChain
    BY <1>3, SubmitCases
  <2>3. ASSUME Fits(size), Land(kind, size) PROVE ChainOK'
    BY <1>1, <2>3, LandType DEF ChainOK
  <2>4. ASSUME UNCHANGED onChain PROVE ChainOK'
    BY <1>1, <2>4 DEF ChainOK, onChain
  <2> QED
    BY <1>1, <2>1, <2>2, <2>3, <2>4 DEF Fault, RestOK
<1>4. ASSUME NEW v \in Vectors \cup {NoVector}, NEW next, SendWeights(v, next)
      PROVE  ChainOK' /\ faults' \in 0 .. MaxFaults
  <2>1. UNCHANGED faults \/ Fault
    BY <1>4, SendCases
  <2>2. \/ /\ v # NoVector /\ LandWeights(v)
           /\ chain' = IF mode = "weekly" THEN Append(chain, Entry("weights")) ELSE chain
        \/ UNCHANGED onChain
    BY <1>4, SendCases
  <2>3. ASSUME v # NoVector, LandWeights(v),
               chain' = IF mode = "weekly" THEN Append(chain, Entry("weights")) ELSE chain
        PROVE  ChainOK'
    <3>1. Entry("weights") \in Entries
      BY <1>1 DEF RestOK, Runs, Entry, Entries, Kinds
    <3>2. chain' \in Seq(Entries)
      BY <1>1, <2>3, <3>1 DEF ChainOK
    <3> QED
      BY <1>1, <2>3, <3>2, LandWeightsType DEF ChainOK
  <2>4. ASSUME UNCHANGED onChain PROVE ChainOK'
    BY <1>1, <2>4 DEF ChainOK, onChain
  <2> QED
    BY <1>1, <2>1, <2>2, <2>3, <2>4 DEF Fault, RestOK
<1>5. ASSUME clock < MaxClock, PassTime
      PROVE  ChainOK' /\ clock' \in 1 .. MaxClock /\ clock' = clock + 1
  BY <1>1, <1>5, PassTimeType DEF ChainOK
<1>6. SUFFICES ChainOK' /\ RestOK' /\ RunInTime'
  BY TypeParts DEF TypeOK, ChainOK, RestOK, Entries, Landings, Runs
<1>7. CASE Wake
  <2>1. pc' = "upkeep" /\ spent' = 0
    BY <1>7 DEF Wake
  <2> QED
    BY <1>1, <1>5, <1>7, <2>1, LimitIs DEF Wake, RestOK, RunInTime, Running, Phases
<1>8. CASE RunLong
  <2>1. pc \in Phases /\ Limit[pc] \in Nat /\ spent \in Nat
    BY <1>1, LimitIs DEF RestOK
  <2>2. spent' \in Nat /\ spent' <= Limit[pc'] /\ spent' = spent + 1
    BY <1>8, <2>1 DEF RunLong
  <2> QED
    BY <1>1, <1>5, <1>8, <2>1, <2>2 DEF RunLong, RestOK, RunInTime, Runs
<1>19. CASE StartScoring
  <2>1. pc' = "scoring" /\ spent' = 0 /\ pc' \in Phases /\ pc' \notin Running /\ Limit[pc'] \in Nat
    BY <1>19, LimitIs DEF StartScoring, Running, Phases
  <2> QED
    BY <1>1, <1>19, <2>1 DEF StartScoring, ChainOK, onChain, RestOK, RunInTime
<1>9. CASE PreFlight
  <2>1. ChainOK' /\ clock' = clock /\ UNCHANGED <<latest, mode>>
    BY <1>1, <1>9 DEF PreFlight, ChainOK, onChain
  <2>2. faults' \in 0 .. MaxFaults
    BY <1>1, <1>9 DEF PreFlight, RestOK, Fault
  <2>3. \/ pc' = "heartbeat" /\ run' = NoRun
        \/ /\ pc' = "pre" /\ mode = "weekly" /\ latest # NoEpoch /\ run' \in Runs
           /\ run'.epoch = latest /\ run'.began = clock
    <3>1. PICK checked \in BOOLEAN :
            \/ EndScoring(FALSE)
            \/ pc' = "pre" /\ run' = [epoch |-> latest, began |-> clock, checked |-> checked,
                                      verified |-> TRUE]
      BY <1>9 DEF PreFlight
    <3>2. latest \in 0 .. MaxEpoch /\ clock \in 0 .. MaxClock
      BY <1>1 DEF RestOK
    <3>3. [epoch |-> latest, began |-> clock, checked |-> checked, verified |-> TRUE] \in Runs
      BY <3>2 DEF Runs
    <3>4. mode = "weekly" /\ latest # NoEpoch
      BY <1>9 DEF PreFlight
    <3>5. CASE EndScoring(FALSE)
      BY <3>5 DEF EndScoring, AfterScoring
    <3>6. ASSUME NEW r \in Runs, r.epoch = latest, r.began = clock, pc' = "pre", run' = r
          PROVE  /\ pc' = "pre" /\ run' \in Runs /\ run'.epoch = latest /\ run'.began = clock
      BY <3>6
    <3> QED
      BY <3>1, <3>3, <3>4, <3>5, <3>6
  <2>4. pc \in InScoring /\ pc' \in InScoring \cup {"heartbeat"} /\ KeepTime
    BY <1>9, <2>3 DEF PreFlight, InScoring
  <2> QED
    BY <1>1, <1>2, <1>0, <2>1, <2>2, <2>3, <2>4 DEF RestOK, RunInTime, Running, Phases
<1>20. ASSUME pc \in InScoring, pc' = "heartbeat", run' = NoRun, KeepTime, ChainOK',
              faults' \in 0 .. MaxFaults, UNCHANGED <<clock, latest, mode>>
       PROVE  ChainOK' /\ RestOK' /\ RunInTime'
  BY <1>1, <1>2, <1>0, <1>20 DEF RestOK, RunInTime
<1>21. ASSUME pc \in Running, pc' \in Running, run' \in {run, Unverified}, KeepTime, ChainOK',
              faults' \in 0 .. MaxFaults, UNCHANGED <<clock, latest, mode>>
       PROVE  ChainOK' /\ RestOK' /\ RunInTime'
  <2>1. run' \in Runs /\ run'.epoch = run.epoch /\ run'.began = run.began
    BY <1>1, <1>21 DEF RestOK, Runs, Unverified
  <2>2. spent' \in Nat /\ spent' = spent /\ spent' <= Limit[pc']
    BY <1>2, <1>0, <1>21
  <2>3. pc' \in Phases
    BY <1>21 DEF Running, Phases
  <2> QED
    BY <1>1, <1>21, <2>1, <2>2, <2>3 DEF RestOK, RunInTime
<1>10. CASE NoScoring
  <2>1. pc \in InScoring /\ pc' = "heartbeat" /\ run' = NoRun /\ KeepTime /\ ChainOK'
    BY <1>1, <1>10 DEF NoScoring, EndScoring, AfterScoring, ChainOK, onChain, InScoring
  <2> QED
    BY <1>1, <1>10, <1>20, <2>1 DEF NoScoring, RestOK
<1>11. CASE CommitPre
  <2>1. ChainOK' /\ faults' \in 0 .. MaxFaults
    BY <1>3, <1>11, ParamsAssumption DEF CommitPre, Kinds
  <2>2. (pc' = "weights" /\ run' = run) \/ (pc' = "heartbeat" /\ run' = NoRun)
    BY <1>11, SubmitCases DEF CommitPre, GoOn, InScoring
  <2> QED
    BY <1>2, <1>11, <1>20, <1>21, <2>1, <2>2 DEF CommitPre, Running
<1>12. CASE CommitWeights
  <2>1. PICK burn \in Burns, has \in BOOLEAN, scored \in BOOLEAN :
          SendWeights(Compose(run.epoch, burn, has, scored), "post")
    BY <1>12 DEF CommitWeights
  <2>0. run.epoch \in 1 .. MaxEpoch
    BY <1>1, <1>12 DEF CommitWeights, RestOK, Runs, RunInTime, Running, NoEpoch
  <2>2. Compose(run.epoch, burn, has, scored) \in Vectors \cup {NoVector}
    BY <2>0, ComposeType
  <2>3. ChainOK' /\ faults' \in 0 .. MaxFaults
    BY <1>4, <2>1, <2>2
  <2>4. (pc' = "post" /\ run' \in {run, Unverified}) \/ (pc' = "heartbeat" /\ run' = NoRun)
    BY <2>1, SendCases DEF GoOn, InScoring
  <2> QED
    BY <1>2, <1>12, <1>20, <1>21, <2>3, <2>4 DEF CommitWeights, Running
<1>13. CASE CommitPost
  <2>1. ChainOK' /\ faults' \in 0 .. MaxFaults
    BY <1>3, <1>13, ParamsAssumption DEF CommitPost, Kinds
  <2>2. (pc' = "retry" /\ run' = run) \/ (pc' = "heartbeat" /\ run' = NoRun)
    BY <1>13, SubmitCases DEF CommitPost, AfterScoring, GoOn, InScoring
  <2> QED
    BY <1>2, <1>13, <1>20, <1>21, <2>1, <2>2 DEF CommitPost, Running
<1>14. CASE CommitRetryLog
  <2>1. ChainOK' /\ faults' \in 0 .. MaxFaults
    BY <1>3, <1>14, ParamsAssumption DEF CommitRetryLog, Kinds
  <2>2. pc' = "heartbeat" /\ run' = NoRun
    BY <1>14, SubmitCases DEF CommitRetryLog, AfterScoring, GoOn, InScoring
  <2> QED
    BY <1>14, <1>20, <2>1, <2>2 DEF CommitRetryLog, InScoring
<1>15. CASE DailyWeights
  <2>1. PICK burn \in Burns, has \in BOOLEAN :
          SendWeights(Compose(latest, burn, has, FALSE), AfterScoring(TRUE))
    BY <1>15 DEF DailyWeights
  <2>0. latest \in 1 .. MaxEpoch
    BY <1>1, <1>15 DEF DailyWeights, RestOK, NoEpoch
  <2>2. Compose(latest, burn, has, FALSE) \in Vectors \cup {NoVector}
    BY <2>0, ComposeType
  <2>3. ChainOK' /\ faults' \in 0 .. MaxFaults
    BY <1>4, <2>1, <2>2
  <2>4. pc' = "heartbeat" /\ run' = NoRun
    <3>1. SendWeights(Compose(latest, burn, has, FALSE), "heartbeat")
      BY <2>1 DEF AfterScoring
    <3>2. GoOn("heartbeat", run) \/ GoOn("heartbeat", Unverified)
          \/ (pc' = "heartbeat" /\ run' = NoRun)
      BY <3>1, SendCases
    <3> QED
      BY <3>2 DEF GoOn, InScoring
  <2> QED
    BY <1>15, <1>20, <2>3, <2>4 DEF DailyWeights, InScoring
<1>16. CASE Kill
  <2>1. pc' = "heartbeat" /\ run' = NoRun /\ KeepTime /\ ChainOK' /\ faults' \in 0 .. MaxFaults
    BY <1>1, <1>16 DEF Kill, EndScoring, AfterScoring, ChainOK, onChain, RestOK
  <2> QED
    BY <1>16, <1>20, <2>1 DEF Kill
<1>17. CASE Heartbeat
  <2>1. /\ faults' \in 0 .. MaxFaults /\ pc' = "sleep" /\ spent' = 0
        /\ UNCHANGED <<clock, latest, run, mode>>
    BY <1>1, <1>17 DEF Heartbeat, Fault, RestOK
  <2>2. \/ UNCHANGED onChain
        \/ weights \in Vectors /\ LandWeights(weights) /\ UNCHANGED chain
    BY <1>1, <1>17 DEF Heartbeat, ChainOK
  <2>3. ChainOK'
    <3>1. CASE UNCHANGED onChain
      BY <1>1, <3>1 DEF ChainOK, onChain
    <3>2. CASE weights \in Vectors /\ LandWeights(weights) /\ UNCHANGED chain
      BY <1>1, <3>2, LandWeightsType DEF ChainOK
    <3> QED
      BY <2>2, <3>1, <3>2
  <2> QED
    BY <1>1, <2>1, <2>3, LimitIs DEF RestOK, RunInTime, Running, Phases
<1>18. CASE UNCHANGED vars
  BY <1>1, <1>18 DEF vars, ChainOK, RestOK, RunInTime
<1> QED
  BY <1>7, <1>8, <1>9, <1>10, <1>11, <1>12, <1>13, <1>14, <1>15, <1>16, <1>17, <1>18, <1>19 DEF Next

LEMMA InitTyped == Init => Typed
<1> SUFFICES ASSUME Init PROVE Typed
  OBVIOUS
<1>1. NoRun \in Runs /\ 1 \in 1 .. MaxClock
  BY BoundsAssumption DEF NoRun, Runs, NoEpoch
<1>2. ChainOK
  BY ParamsAssumption, BoundsAssumption DEF Init, ChainOK
<1>3. RestOK
  BY <1>1, BoundsAssumption DEF Init, RestOK, Phases, NoEpoch
<1> QED
  BY <1>2, <1>3, TypeParts, LimitIs DEF Init, Typed, RunInTime, Running

(* The variables keep their types. *)
THEOREM TypeCorrect == Spec => []TypeOK
<1>1. Typed /\ [Next]_vars => Typed'
  BY TypedStep
<1>2. Typed => TypeOK
  BY DEF Typed
<1> QED
  BY InitTyped, <1>1, <1>2, PTL DEF Spec

-----------------------------------------------------------------------------
(* EpochScoring: the records of a run. *)

(* A step leaves the chain alone or appends the record that the phase names. *)
LEMMA ChainSteps ==
  ASSUME Typed, [Next]_vars
  PROVE  /\ mode' = mode /\ clock' \in {clock, clock + 1}
         /\ \/ chain' = chain
            \/ pc \in Running /\ chain' = Append(chain, Entry(pc)) /\ clock' = clock
<1>1. CASE Wake \/ RunLong
  BY <1>1 DEF Wake, RunLong, PassTime
<1>2. CASE StartScoring \/ PreFlight \/ NoScoring \/ Kill
  BY <1>2 DEF StartScoring, PreFlight, NoScoring, Kill, onChain
<1>3. CASE CommitPre
  BY <1>3 DEF CommitPre, Submit, Land, onChain, Running
<1>4. CASE CommitWeights
  BY <1>4 DEF CommitWeights, SendWeights, onChain, Running
<1>5. CASE CommitPost
  BY <1>5 DEF CommitPost, Submit, Land, onChain, Running
<1>6. CASE CommitRetryLog
  BY <1>6 DEF CommitRetryLog, Submit, Land, onChain, Running
<1>7. CASE DailyWeights
  BY <1>7 DEF DailyWeights, SendWeights, onChain
<1>8. CASE Heartbeat
  BY <1>8 DEF Heartbeat, onChain
<1>9. CASE UNCHANGED vars
  BY <1>9 DEF vars
<1> QED
  BY <1>1, <1>2, <1>3, <1>4, <1>5, <1>6, <1>7, <1>8, <1>9 DEF Next

\* The phase in which a record is landed, and the one after it.
Follows == {<<"pre", "weights">>, <<"weights", "post">>, <<"post", "retry">>}

(* Who is in a run just started it, stayed in its phase, or landed a record, *)
(* if only as far as it could tell.                                          *)
LEMMA PhaseSteps ==
  ASSUME Typed, [Next]_vars, pc' \in Running
  PROVE  \/ PreFlight /\ pc' = "pre"
         \/ (RunLong \/ UNCHANGED vars) /\ pc' = pc /\ run' = run /\ chain' = chain
         \/ /\ <<pc, pc'>> \in Follows /\ clock' = clock
            /\ \/ run' = run /\ chain' = Append(chain, Entry(pc))
               \/ pc' = "post" /\ run' = Unverified
<1>0. /\ "heartbeat" \notin Running /\ "sleep" \notin Running /\ "scoring" \notin Running
      /\ "upkeep" \notin Running
  BY DEF Running
<1>1. CASE Wake \/ StartScoring \/ NoScoring \/ Kill \/ Heartbeat
  BY <1>0, <1>1 DEF Wake, StartScoring, NoScoring, Kill, Heartbeat, EndScoring, AfterScoring
<1>2. CASE PreFlight
  BY <1>0, <1>2 DEF PreFlight, EndScoring, AfterScoring
<1>3. ASSUME NEW kind, NEW size, NEW next, Submit(kind, size, next)
      PROVE  GoOn(next, run) /\ chain' = Append(chain, Entry(kind))
  BY <1>0, <1>3, SubmitCases DEF Land
<1>4. CASE CommitPre
  BY <1>3, <1>4 DEF CommitPre, GoOn, InScoring, Follows
<1>5. CASE CommitWeights
  <2>1. PICK v : SendWeights(v, "post")
    BY <1>5 DEF CommitWeights
  <2>2. pc = "weights" /\ mode = "weekly" /\ clock' = clock
    BY <1>5 DEF CommitWeights, Typed, RunInTime, Running
  <2>3. \/ GoOn("post", run) /\ chain' = Append(chain, Entry("weights"))
        \/ GoOn("post", Unverified)
    BY <1>0, <2>1, <2>2, SendCases
  <2> QED
    BY <2>2, <2>3 DEF GoOn, InScoring, Follows
<1>6. CASE CommitPost
  <2>1. PICK next \in {"retry", AfterScoring(TRUE)} : Submit("post", PostSize, next)
    BY <1>6 DEF CommitPost
  <2>2. pc' = next /\ next = "retry"
    BY <1>0, <1>3, <2>1 DEF GoOn, AfterScoring
  <2> QED
    BY <1>3, <1>6, <2>1, <2>2 DEF CommitPost, GoOn, InScoring, Follows
<1>7. CASE CommitRetryLog
  BY <1>0, <1>3, <1>7 DEF CommitRetryLog, GoOn, AfterScoring
<1>8. CASE DailyWeights
  <2>1. PICK v : SendWeights(v, "heartbeat")
    BY <1>8 DEF DailyWeights, AfterScoring
  <2> QED
    BY <1>0, <2>1, SendCases DEF GoOn
<1>9. CASE RunLong
  BY <1>9 DEF RunLong, PassTime
<1>10. CASE UNCHANGED vars
  BY <1>10 DEF vars
<1> QED
  BY <1>1, <1>2, <1>4, <1>5, <1>6, <1>7, <1>8, <1>9, <1>10 DEF Next

\* What the run in progress has landed so far: its weights only as far as it could tell.
Done(kind) ==
  \E i \in Landed(kind) : chain[i].epoch = run.epoch /\ chain[i].began = run.began
Trail ==
  /\ pc = "weights" => Done("pre")
  /\ pc = "post" => Done("weights") \/ ~run.verified
  /\ pc = "retry" => Done("post")

(* What landed stays, at its place; what is appended is the last. *)
LEMMA Appended ==
  ASSUME chain \in Seq(Entries), NEW r \in Entries, chain' = Append(chain, r)
  PROVE  /\ Len(chain) \in Nat /\ DOMAIN chain = 1 .. Len(chain)
         /\ DOMAIN chain' = 1 .. Len(chain) + 1 /\ chain'[Len(chain) + 1] = r
         /\ \A i \in DOMAIN chain : chain'[i] = chain[i] /\ chain[i] \in Entries
OBVIOUS

(* A record of the run in progress is well-typed. *)
LEMMA EntryType ==
  ASSUME Typed, pc \in Running
  PROVE  /\ Entry(pc) \in Entries /\ chain \in Seq(Entries)
         /\ Entry(pc).kind = pc /\ Entry(pc).epoch = run.epoch /\ Entry(pc).at = clock
         /\ Entry(pc).began = run.began /\ Entry(pc).checked = run.checked
         /\ Entry(pc).verified = run.verified
BY TypeParts DEF Typed, RestOK, ChainOK, Runs, Entry, Entries, Kinds, Running

(* A run in a phase after the first has landed the record before. *)
LEMMA TrailStep ==
  ASSUME Typed, [Next]_vars, Trail
  PROVE  Trail'
<1>1. CASE pc' \notin Running
  BY <1>1 DEF Trail, Running
<1>2. CASE pc' = "pre"
  BY <1>2 DEF Trail
<1>3. CASE pc' = pc /\ run' = run /\ chain' = chain
  BY <1>3 DEF Trail, Done, Landed
<1>4. CASE <<pc, pc'>> \in Follows /\ run' = run /\ chain' = Append(chain, Entry(pc))
  <2>1. pc \in Running
    BY <1>4 DEF Follows, Running
  <2>2. Len(chain) + 1 \in DOMAIN chain' /\ chain'[Len(chain) + 1] = Entry(pc)
    BY <1>4, <2>1, EntryType, Appended
  <2>3. Entry(pc).kind = pc /\ Entry(pc).epoch = run.epoch /\ Entry(pc).began = run.began
    BY <2>1, EntryType
  <2>4. \E i \in DOMAIN chain' : chain'[i].kind = pc /\ chain'[i].epoch = run'.epoch
                                   /\ chain'[i].began = run'.began
    BY <1>4, <2>2, <2>3
  <2> QED
    BY <1>4, <2>4 DEF Trail, Done, Landed, Follows
<1>5. CASE pc' = "post" /\ run' = Unverified
  <2>1. run'.verified = FALSE
    BY <1>5, TypeParts DEF Unverified, Typed, RestOK, Runs
  <2> QED
    BY <1>5, <2>1 DEF Trail
<1> QED
  BY <1>1, <1>2, <1>3, <1>4, <1>5, PhaseSteps

(* The records of an epoch come in order, whatever fails in between. *)
LEMMA AuditStep ==
  ASSUME Typed, [Next]_vars, Trail, AuditInOrder
  PROVE  AuditInOrder'
<1> DEFINE Earlier(c, i, kind) == \E j \in 1 .. i - 1 : c[j].kind = kind
                                    /\ c[j].epoch = c[i].epoch /\ c[j].began = c[i].began
           InOrder(c, i) == /\ c[i].kind = "weights" => Earlier(c, i, "pre")
                            /\ c[i].kind = "post" => Earlier(c, i, "weights") \/ ~c[i].verified
                            /\ c[i].kind = "retry" => Earlier(c, i, "post")
<1>1. AuditInOrder <=> (mode = "weekly" => \A i \in DOMAIN chain : InOrder(chain, i))
  BY DEF AuditInOrder
<1>2. AuditInOrder' <=> (mode' = "weekly" => \A i \in DOMAIN chain' : InOrder(chain', i))
  BY DEF AuditInOrder
<1>3. CASE chain' = chain
  BY <1>1, <1>2, <1>3, ChainSteps
<1>4. CASE pc \in Running /\ chain' = Append(chain, Entry(pc))
  <2>1. /\ Len(chain) \in Nat /\ DOMAIN chain = 1 .. Len(chain)
        /\ DOMAIN chain' = 1 .. Len(chain) + 1 /\ chain'[Len(chain) + 1] = Entry(pc)
        /\ \A i \in DOMAIN chain : chain'[i] = chain[i]
    BY <1>4, EntryType, Appended
  <2>2. /\ Entry(pc).kind = pc /\ Entry(pc).epoch = run.epoch
        /\ Entry(pc).began = run.began /\ Entry(pc).verified = run.verified
    BY <1>4, EntryType
  <2>3. ASSUME NEW kind, Done(kind)
        PROVE  Earlier(chain', Len(chain) + 1, kind)
    <3>1. PICK i \in DOMAIN chain : chain[i].kind = kind /\ chain[i].epoch = run.epoch
                                      /\ chain[i].began = run.began
      BY <2>3 DEF Done, Landed
    <3>2. i \in 1 .. (Len(chain) + 1) - 1
      BY <2>1
    <3> QED
      BY <2>1, <2>2, <3>1, <3>2
  <2>4. InOrder(chain', Len(chain) + 1)
    BY <2>1, <2>2, <2>3 DEF Trail
  <2>5. ASSUME NEW i \in DOMAIN chain, InOrder(chain, i) PROVE InOrder(chain', i)
    <3>1. ASSUME NEW kind, Earlier(chain, i, kind) PROVE Earlier(chain', i, kind)
      BY <2>1, <3>1
    <3> QED
      BY <2>1, <2>5, <3>1
  <2> QED
    BY <1>1, <1>2, <2>1, <2>4, <2>5, ChainSteps
<1> QED
  BY <1>3, <1>4, ChainSteps

(* A weekly run that put weights on chain put the state before scoring there  *)
(* first, and artifacts bind weights that landed, unless the run could not    *)
(* read LastUpdate (run_epoch_scoring).                                       *)
THEOREM RecordsComeInOrder == Spec => []AuditInOrder
<1>1. Init => Typed /\ Trail /\ AuditInOrder
  BY InitTyped DEF Init, Trail, AuditInOrder
<1>2. Typed /\ Trail /\ AuditInOrder /\ [Next]_vars => (Typed /\ Trail /\ AuditInOrder)'
  BY TypedStep, TrailStep, AuditStep
<1> QED
  BY <1>1, <1>2, PTL DEF Spec

(* Times are numbers. *)
LEMMA Times ==
  ASSUME Typed
  PROVE  /\ clock \in Nat /\ clock >= 1 /\ run.began \in Nat /\ lastUpdate \in Nat
         /\ latest \in Nat /\ faults \in Nat /\ spent \in Nat
         /\ \A i \in DOMAIN chain : chain[i].at \in Nat
<1>1. ChainOK /\ RestOK
  BY TypeParts DEF Typed
<1>2. /\ clock \in Nat /\ clock >= 1 /\ run.began \in Nat /\ latest \in Nat /\ faults \in Nat
      /\ spent \in Nat
  BY <1>1 DEF RestOK, Runs
<1>3. lastUpdate \in Nat
  BY <1>1 DEF ChainOK
<1>4. ASSUME NEW i \in DOMAIN chain PROVE chain[i].at \in Nat
  <2>1. chain[i] \in Entries
    BY <1>1 DEF ChainOK
  <2> QED
    BY <2>1 DEF Entries
<1> QED
  BY <1>2, <1>3, <1>4

\* What a checked run that has landed nothing knows of earlier ones.
Unseen ==
  pc = "pre" /\ run.checked =>
    \A i \in Landed("pre") : chain[i].epoch = run.epoch => chain[i].at + PreReveal > run.began

(* A run that begins checked has seen no revealed 9.C.1 of its epoch. *)
LEMMA UnseenStep ==
  ASSUME Typed, [Next]_vars, Unseen
  PROVE  Unseen'
<1>1. CASE pc' # "pre"
  BY <1>1 DEF Unseen
<1>2. CASE pc' = pc /\ run' = run /\ chain' = chain
  BY <1>2 DEF Unseen, Landed
<1>3. CASE PreFlight /\ pc' = "pre"
  <2>1. /\ chain' = chain /\ run'.epoch = latest /\ run'.began = clock
        /\ run'.checked => ~AlreadyScored(latest)
    BY <1>3 DEF PreFlight, EndScoring, AfterScoring, onChain
  <2>2. SUFFICES ASSUME run'.checked, NEW i \in Landed("pre"), chain[i].epoch = latest
                 PROVE  chain[i].at + PreReveal > clock
    BY <2>1 DEF Unseen, Landed
  <2>3. ~Revealed(i)
    BY <2>1, <2>2 DEF AlreadyScored, Landed
  <2>4. Delay["pre"] = PreReveal
    BY DEF Delay, Kinds
  <2>5. chain[i].kind = "pre" /\ chain[i].at \in Nat /\ clock \in Nat
    BY <2>2, Times DEF Landed
  <2> QED
    BY <2>3, <2>4, <2>5, ParamsAssumption DEF Revealed
<1> QED
  BY <1>1, <1>2, <1>3, PhaseSteps DEF Running, Follows

(* Two checked runs of one epoch: the second began before the first showed. *)
LEMMA RescoredStep ==
  ASSUME Typed, [Next]_vars, Unseen, RescoredOnlyWhileHidden
  PROVE  RescoredOnlyWhileHidden'
<1>1. CASE chain' = chain
  BY <1>1 DEF RescoredOnlyWhileHidden, Landed
<1>2. CASE pc \in Running /\ chain' = Append(chain, Entry(pc))
  <2>1. /\ Len(chain) \in Nat /\ DOMAIN chain = 1 .. Len(chain)
        /\ DOMAIN chain' = 1 .. Len(chain) + 1 /\ chain'[Len(chain) + 1] = Entry(pc)
        /\ \A i \in DOMAIN chain : chain'[i] = chain[i] /\ chain[i] \in Entries
    BY <1>2, EntryType, Appended
  <2>2. /\ Entry(pc).kind = pc /\ Entry(pc).epoch = run.epoch /\ Entry(pc).at = clock
        /\ Entry(pc).checked = run.checked
    BY <1>2, EntryType
  <2>3. SUFFICES ASSUME NEW i \in DOMAIN chain', NEW j \in DOMAIN chain', i < j,
                        chain'[i].kind = "pre", chain'[j].kind = "pre",
                        chain'[i].epoch = chain'[j].epoch, chain'[j].checked
                 PROVE  chain'[j].at - chain'[i].at < PreReveal + ScoringTimeout
    BY DEF RescoredOnlyWhileHidden, Landed
  <2>4. i \in DOMAIN chain
    BY <2>1, <2>3
  <2>5. CASE j \in DOMAIN chain
    BY <2>1, <2>3, <2>4, <2>5 DEF RescoredOnlyWhileHidden, Landed
  <2>6. CASE j = Len(chain) + 1
    <3>1. pc = "pre" /\ run.checked /\ chain[i].epoch = run.epoch /\ chain[i].kind = "pre"
      BY <2>1, <2>2, <2>3, <2>4, <2>6
    <3>2. chain[i].at + PreReveal > run.began
      BY <2>4, <3>1 DEF Unseen, Landed
    <3>3. clock - run.began <= spent /\ spent <= ScoringTimeout
      BY <1>2, LimitIs DEF Typed, RunInTime, Running, InScoring
    <3>4. /\ chain[i].at \in Nat /\ clock \in Nat /\ run.began \in Nat /\ PreReveal \in Nat
          /\ spent \in Nat /\ ScoringTimeout \in Nat
      BY <2>4, Times, ParamsAssumption
    <3>5. clock - chain[i].at < PreReveal + ScoringTimeout
      BY <3>2, <3>3, <3>4
    <3> QED
      BY <2>1, <2>2, <2>4, <2>6, <3>5
  <2> QED
    BY <2>1, <2>5, <2>6
<1> QED
  BY <1>1, <1>2, ChainSteps

(* An epoch is scored twice by checked runs only while its first 9.C.1 is     *)
(* encrypted, and one run longer (validator_already_scored_epoch).            *)
THEOREM ScoredOnceBarTheDelay == Spec => []RescoredOnlyWhileHidden
<1>1. Init => Typed /\ Unseen /\ RescoredOnlyWhileHidden
  BY InitTyped DEF Init, Unseen, RescoredOnlyWhileHidden, Landed
<1>2. Typed /\ Unseen /\ RescoredOnlyWhileHidden /\ [Next]_vars
        => (Typed /\ Unseen /\ RescoredOnlyWhileHidden)'
  BY TypedStep, UnseenStep, RescoredStep
<1> QED
  BY <1>1, <1>2, PTL DEF Spec

-----------------------------------------------------------------------------
(* EpochScoring: the space of a run. *)

Size(kind) == CASE kind = "pre" -> PreSize [] kind = "post" -> PostSize
                [] kind = "retry" -> RetrySize [] OTHER -> 0

\* What the run still has to land, and that there is space for it.
Left(phase) == CASE phase = "pre" -> PreSize + PostSize + RetrySize
                 [] phase \in {"weights", "post"} -> PostSize + RetrySize
                 [] phase = "retry" -> RetrySize
                 [] OTHER -> 0
UsedOnce == space.epoch <= PalletEpoch
Room == PalletGuess = PalletLength /\ run.checked /\ pc \in Running => Fits(Left(pc))

(* Sizes, used bytes and pallet epochs are numbers. *)
LEMMA SpaceType ==
  ASSUME Typed
  PROVE  /\ PalletEpoch \in Nat /\ space.epoch \in Nat /\ space.used \in Nat /\ SpaceUsed \in Nat
         /\ PreSize \in Nat /\ PostSize \in Nat /\ RetrySize \in Nat
         /\ MaxSpace \in Nat /\ Needed \in Nat
<1>1. PalletEpoch \in 0 .. clock
  BY Times, QuotientBound, ParamsAssumption DEF PalletEpoch
<1>2. space.epoch \in Nat /\ space.used \in Nat
  BY TypeParts DEF Typed, ChainOK
<1> QED
  BY <1>1, <1>2, Times, ParamsAssumption DEF SpaceUsed

(* As time passes bytes only become free. *)
LEMMA SpaceKept ==
  ASSUME Typed, UsedOnce, space' = space, clock' \in {clock, clock + 1}
  PROVE  UsedOnce' /\ SpaceUsed' <= SpaceUsed
<1>1. clock \in Nat /\ clock' \in Nat /\ clock <= clock'
  BY Times
<1>2. clock \div PalletLength <= clock' \div PalletLength
  BY <1>1, QuotientMonotone, ParamsAssumption
<1>3. PalletEpoch <= PalletEpoch'
  BY <1>2 DEF PalletEpoch
<1>4. PalletEpoch' \in Nat
  BY <1>1, QuotientBound, ParamsAssumption DEF PalletEpoch
<1> QED
  BY <1>3, <1>4, SpaceType DEF UsedOnce, SpaceUsed

(* A record that lands uses its bytes in the pallet epoch of the block. *)
LEMMA SpaceLanded ==
  ASSUME Typed, NEW kind, NEW size \in Nat, Land(kind, size), clock' = clock
  PROVE  UsedOnce' /\ SpaceUsed' = SpaceUsed + size
<1>1. PalletEpoch' = PalletEpoch
  BY DEF PalletEpoch
<1>2. space' = [used |-> SpaceUsed + size, epoch |-> PalletEpoch]
  BY DEF Land
<1>3. space'.epoch = PalletEpoch' /\ space'.used = SpaceUsed + size
  BY <1>1, <1>2
<1> QED
  BY <1>1, <1>3, SpaceType DEF UsedOnce, SpaceUsed

(* A run that passes to its next phase has used the bytes of its record. *)
LEMMA SpaceSteps ==
  ASSUME Typed, [Next]_vars, UsedOnce
  PROVE  /\ UsedOnce'
         /\ space' = space => SpaceUsed' <= SpaceUsed
         /\ <<pc, pc'>> \in Follows => SpaceUsed' <= SpaceUsed + Size(pc)
<1>1. clock' \in {clock, clock + 1}
  BY ChainSteps
<1>2. CASE space' = space
  <2>1. Size(pc) \in Nat
    BY SpaceType DEF Size
  <2>2. SpaceUsed' \in Nat
    BY <1>1, <1>2, Times, QuotientBound, ParamsAssumption, SpaceType DEF SpaceUsed, PalletEpoch
  <2> QED
    BY <1>1, <1>2, <2>1, <2>2, SpaceKept, SpaceType
<1>3. ASSUME NEW kind \in {"pre", "post", "retry"}, pc = kind, Land(kind, Size(kind)), clock' = clock
      PROVE  UsedOnce' /\ SpaceUsed' = SpaceUsed + Size(pc)
  BY <1>3, SpaceLanded, SpaceType DEF Size
<1>4. CASE CommitPre \/ CommitPost \/ CommitRetryLog
  <2>1. clock' = clock
    BY <1>4 DEF CommitPre, CommitPost, CommitRetryLog
  <2>2. \/ space' = space
        \/ \E kind \in {"pre", "post", "retry"} : pc = kind /\ Land(kind, Size(kind))
    BY <1>4 DEF CommitPre, CommitPost, CommitRetryLog, Submit, onChain, Size
  <2>3. CASE \E kind \in {"pre", "post", "retry"} : pc = kind /\ Land(kind, Size(kind))
    <3>1. UsedOnce' /\ SpaceUsed' = SpaceUsed + Size(pc)
      BY <1>3, <2>1, <2>3
    <3>2. Size(pc) \in Nat
      BY SpaceType DEF Size
    <3> QED
      BY <1>1, <3>1, <3>2, SpaceType, SpaceKept
  <2> QED
    BY <1>2, <2>2, <2>3
<1>5. ASSUME ~(CommitPre \/ CommitPost \/ CommitRetryLog)
      PROVE  space' = space
  BY <1>5 DEF Next, Wake, RunLong, StartScoring, PassTime, PreFlight, NoScoring, Kill, onChain,
              CommitWeights, DailyWeights, SendWeights, LandWeights, Heartbeat, vars
<1> QED
  BY <1>2, <1>4, <1>5

(* A run that began checked keeps the space for what it has to land. *)
LEMMA RoomStep ==
  ASSUME Typed, [Next]_vars, UsedOnce, Room
  PROVE  Room'
<1> SUFFICES ASSUME PalletGuess = PalletLength, run'.checked, pc' \in Running
             PROVE  SpaceUsed' + Left(pc') <= MaxSpace
  BY DEF Room, Fits
<1>1. \A phase : Left(phase) \in Nat
  BY SpaceType DEF Left
<1>2. SpaceUsed \in Nat /\ SpaceUsed' \in Nat
  <2>1. space' \in [used : 0 .. MaxSpace, epoch : 0 .. MaxClock]
    BY TypedStep DEF Typed, TypeOK
  <2> QED
    BY <2>1, SpaceType DEF SpaceUsed
<1>3. CASE PreFlight /\ pc' = "pre"
  <2>1. /\ space' = space /\ clock' = clock
        /\ \E other \in BOOLEAN : BudgetSufficient(other)
    BY <1>3 DEF PreFlight, EndScoring, AfterScoring, onChain
  <2>2. SpaceUsed = 0 \/ SpaceUsed + Needed <= MaxSpace
    <3>1. \/ space.epoch < PalletEpoch
          \/ MaxSpace - space.used >= Needed
      BY <2>1 DEF BudgetSufficient, PalletEpoch
    <3> QED
      BY <3>1, SpaceType DEF SpaceUsed
  <2>3. Left("pre") <= Needed /\ Needed <= MaxSpace
    BY SizesAssumption DEF Left
  <2>4. SpaceUsed' <= SpaceUsed
    BY <2>1, SpaceSteps
  <2> QED
    BY <1>1, <1>2, <1>3, <2>2, <2>3, <2>4, SpaceType
<1>4. CASE (RunLong \/ UNCHANGED vars) /\ pc' = pc /\ run' = run
  <2>1. space' = space
    BY <1>4 DEF RunLong, PassTime, vars
  <2>2. SpaceUsed + Left(pc) <= MaxSpace
    BY <1>4 DEF Room, Fits
  <2>3. SpaceUsed' <= SpaceUsed
    BY <2>1, SpaceSteps
  <2>4. Left(pc) \in Nat /\ Left(pc') = Left(pc)
    BY <1>1, <1>4
  <2> QED
    BY <1>2, <2>2, <2>3, <2>4, SpaceType
<1>5. CASE <<pc, pc'>> \in Follows /\ run' \in {run, Unverified}
  <2>0. run.checked
    BY <1>5, TypeParts DEF Unverified, Typed, RestOK, Runs
  <2>1. SpaceUsed + Left(pc) <= MaxSpace
    BY <1>5, <2>0 DEF Room, Fits, Follows, Running
  <2>2. SpaceUsed' <= SpaceUsed + Size(pc)
    BY <1>5, SpaceSteps
  <2>3. Size(pc) + Left(pc') <= Left(pc)
    BY <1>5, SpaceType DEF Size, Left, Follows
  <2>4. Size(pc) \in Nat
    BY SpaceType DEF Size
  <2> QED
    BY <1>1, <1>2, <2>1, <2>2, <2>3, <2>4, SpaceType
<1> QED
  BY <1>3, <1>4, <1>5, PhaseSteps

(* A checked run that knows the length of a pallet epoch is not refused the   *)
(* space for a later record after an earlier one landed.                      *)
THEOREM SpaceForAllRecords == Spec => []NoHalfSequence
<1>1. Init => Typed /\ UsedOnce /\ Room
  <2>1. ASSUME Init PROVE UsedOnce
    BY <2>1, InitTyped, SpaceType DEF Init, UsedOnce
  <2> QED
    BY <2>1, InitTyped DEF Init, Room, Running
<1>2. Typed /\ UsedOnce /\ Room /\ [Next]_vars => (Typed /\ UsedOnce /\ Room)'
  BY TypedStep, SpaceSteps, RoomStep
<1>3. Typed /\ Room => NoHalfSequence
  <2> SUFFICES ASSUME Typed, Room, PalletGuess = PalletLength, run.checked
               PROVE  (pc = "post" => Fits(PostSize)) /\ (pc = "retry" => Fits(RetrySize))
    BY DEF NoHalfSequence
  <2>1. pc = "post" => SpaceUsed + (PostSize + RetrySize) <= MaxSpace
    BY DEF Room, Fits, Left, Running
  <2>2. pc = "retry" => SpaceUsed + RetrySize <= MaxSpace
    BY DEF Room, Fits, Left, Running
  <2> QED
    BY <2>1, <2>2, SpaceType DEF Fits
<1> QED
  BY <1>1, <1>2, <1>3, PTL DEF Spec

-----------------------------------------------------------------------------
(* EpochScoring: the weights in force and those to come. *)

\* What is pending is encrypted, and no younger than the last update.
Encrypted ==
  /\ lastUpdate <= clock
  /\ \A n \in DOMAIN pending :
       pending[n].at <= lastUpdate /\ clock < pending[n].at + WeightsReveal

\* Vectors in force, encrypted and to come follow each other by epoch.
InSequence ==
  /\ weights.epoch <= latest
  /\ \A n \in DOMAIN pending :
       /\ weights.epoch <= pending[n].v.epoch /\ pending[n].v.epoch <= latest
       /\ \A m \in 1 .. n : pending[m].v.epoch <= pending[n].v.epoch

(* Pending weights have an epoch and a time. *)
LEMMA PendingType ==
  ASSUME Typed
  PROVE  /\ Len(pending) \in Nat /\ DOMAIN pending = 1 .. Len(pending)
         /\ \A n \in DOMAIN pending : pending[n].at \in Nat /\ pending[n].v \in Vectors
                                        /\ pending[n].v.epoch \in Nat
         /\ weights.epoch \in Nat
<1>1. pending \in Seq(Landings) /\ weights \in Vectors \cup {NoVector}
  BY TypeParts DEF Typed, ChainOK
<1>2. \A n \in DOMAIN pending : pending[n] \in Landings
  BY <1>1
<1> QED
  BY <1>1, <1>2 DEF Landings, Vectors, NoVector, NoEpoch

(* When an interval passes, the first of those pending come into force. *)
LEMMA Shown ==
  ASSUME Typed, PassTime
  PROVE  \E shown \in 0 .. Len(pending) :
           /\ shown = 0 => weights' = weights
           /\ shown # 0 => shown \in DOMAIN pending /\ weights' = pending[shown].v
           /\ \A n \in DOMAIN pending' :
                /\ n \in 1 .. Len(pending) - shown
                /\ n + shown \in DOMAIN pending /\ pending'[n] = pending[n + shown]
                /\ pending[n + shown].at + WeightsReveal > clock'
<1>1. PICK shown \in 0 .. Len(pending) :
        /\ \A n \in DOMAIN pending : n <= shown <=> pending[n].at + WeightsReveal <= clock'
        /\ weights' = IF shown = 0 THEN weights ELSE pending[shown].v
        /\ pending' = SubSeq(pending, shown + 1, Len(pending))
  BY DEF PassTime
<1>2. pending \in Seq(Landings)
  BY TypeParts DEF Typed, ChainOK
<1>3. /\ DOMAIN pending' = 1 .. Len(pending) - shown
      /\ \A n \in 1 .. Len(pending) - shown : pending'[n] = pending[n + shown]
  BY <1>1, <1>2
<1>4. clock' \in Nat /\ WeightsReveal \in Nat
  <2>1. clock \in Nat /\ clock' = clock + 1
    BY Times DEF PassTime
  <2> QED
    BY <2>1, ParamsAssumption
<1>5. ASSUME NEW n \in DOMAIN pending'
      PROVE  /\ n \in 1 .. Len(pending) - shown
             /\ n + shown \in DOMAIN pending /\ pending'[n] = pending[n + shown]
             /\ pending[n + shown].at + WeightsReveal > clock'
  <2>1. n + shown \in DOMAIN pending /\ ~(n + shown <= shown)
    BY <1>3, <1>5, PendingType
  <2> QED
    BY <1>1, <1>3, <1>4, <1>5, <2>1, PendingType
<1>6. /\ shown = 0 => weights' = weights
      /\ shown # 0 => shown \in DOMAIN pending /\ weights' = pending[shown].v
  <2>1. Len(pending) \in Nat /\ DOMAIN pending = 1 .. Len(pending)
    BY <1>2
  <2> QED
    BY <1>1, <2>1
<1>7. \A n \in DOMAIN pending' :
         /\ n \in 1 .. Len(pending) - shown
         /\ n + shown \in DOMAIN pending /\ pending'[n] = pending[n + shown]
         /\ pending[n + shown].at + WeightsReveal > clock'
  BY <1>5
<1>8. WITNESS shown \in 0 .. Len(pending)
<1> QED
  BY <1>6, <1>7

(* What happens to weights: an interval passes, the vector of the newest epoch *)
(* or the one in force lands, or nothing.                                      *)
LEMMA WeightSteps ==
  ASSUME Typed, [Next]_vars
  PROVE  /\ latest <= latest'
         /\ \/ (Wake \/ RunLong) /\ PassTime
            \/ clock' = clock /\ UNCHANGED <<lastUpdate, pending, weights>>
            \/ /\ clock' = clock /\ latest' = latest
               /\ \E v \in Vectors : LandWeights(v) /\ (v.epoch = latest \/ (v = weights /\ Due))
<1>1. latest <= latest'
  <2>1. latest' = latest \/ latest' = latest + 1
    BY DEF Next, Wake, RunLong, StartScoring, PreFlight, NoScoring, CommitPre, CommitWeights, CommitPost,
           CommitRetryLog, DailyWeights, Kill, Heartbeat, vars
  <2> QED
    BY <2>1, Times
<1>2. CASE Wake \/ RunLong
  BY <1>1, <1>2 DEF Wake, RunLong
<1>3. CASE StartScoring \/ PreFlight \/ NoScoring \/ Kill \/ UNCHANGED vars
  BY <1>1, <1>3 DEF StartScoring, PreFlight, NoScoring, Kill, onChain, vars
<1>4. CASE CommitPre \/ CommitPost \/ CommitRetryLog
  BY <1>1, <1>4 DEF CommitPre, CommitPost, CommitRetryLog, Submit, Land, onChain
<1>5. ASSUME NEW e \in 1 .. MaxEpoch, NEW burn, NEW has \in BOOLEAN, NEW scored \in BOOLEAN,
             NEW next, SendWeights(Compose(e, burn, has, scored), next), e = latest
      PROVE  \/ UNCHANGED <<lastUpdate, pending, weights>>
             \/ \E v \in Vectors : LandWeights(v) /\ v.epoch = latest
  <2>1. /\ Compose(e, burn, has, scored) \in Vectors \cup {NoVector}
        /\ Compose(e, burn, has, scored) # NoVector => Compose(e, burn, has, scored).epoch = e
    BY ComposeType
  <2> QED
    BY <1>5, <2>1, SendCases DEF onChain
<1>6. CASE CommitWeights
  <2>1. run.epoch \in 1 .. MaxEpoch /\ run.epoch = latest
    BY <1>6, TypeParts DEF CommitWeights, Typed, RunInTime, Running, RestOK, Runs, NoEpoch
  <2>2. PICK burn \in Burns, has \in BOOLEAN, scored \in BOOLEAN :
          SendWeights(Compose(run.epoch, burn, has, scored), "post")
    BY <1>6 DEF CommitWeights
  <2>3. \/ UNCHANGED <<lastUpdate, pending, weights>>
        \/ \E v \in Vectors : LandWeights(v) /\ v.epoch = latest
    BY <1>5, <2>1, <2>2
  <2> QED
    BY <1>1, <1>6, <2>3 DEF CommitWeights
<1>7. CASE DailyWeights
  <2>1. latest \in 1 .. MaxEpoch
    BY <1>7, TypeParts DEF DailyWeights, Typed, RestOK, NoEpoch
  <2>2. PICK burn \in Burns, has \in BOOLEAN :
          SendWeights(Compose(latest, burn, has, FALSE), AfterScoring(TRUE))
    BY <1>7 DEF DailyWeights
  <2>3. \/ UNCHANGED <<lastUpdate, pending, weights>>
        \/ \E v \in Vectors : LandWeights(v) /\ v.epoch = latest
    BY <1>5, <2>1, <2>2
  <2> QED
    BY <1>1, <1>7, <2>3 DEF DailyWeights
<1>8. CASE Heartbeat
  <2>1. weights # NoVector => weights \in Vectors
    BY TypeParts DEF Typed, ChainOK
  <2> QED
    BY <1>1, <1>8, <2>1 DEF Heartbeat, onChain
<1> QED
  BY <1>2, <1>3, <1>4, <1>6, <1>7, <1>8 DEF Next

(* Every commit lands with the time of the last update, and encrypted. *)
LEMMA EncryptedStep ==
  ASSUME Typed, [Next]_vars, Encrypted
  PROVE  Encrypted'
<1>1. CASE PassTime
  <2>1. clock' = clock + 1 /\ lastUpdate' = lastUpdate
    BY <1>1 DEF PassTime
  <2>2. ASSUME NEW n \in DOMAIN pending'
        PROVE  pending'[n].at <= lastUpdate /\ clock' < pending'[n].at + WeightsReveal
    <3>1. PICK k \in DOMAIN pending : pending'[n] = pending[k]
                                       /\ pending[k].at + WeightsReveal > clock'
      BY <1>1, <2>2, Shown
    <3>2. WeightsReveal \in Nat
      BY ParamsAssumption
    <3> QED
      BY <2>1, <3>1, <3>2, Times, PendingType DEF Encrypted
  <2> QED
    BY <2>1, <2>2, Times DEF Encrypted
<1>2. CASE clock' = clock /\ UNCHANGED <<lastUpdate, pending, weights>>
  BY <1>2 DEF Encrypted
<1>3. ASSUME clock' = clock, NEW v \in Vectors, LandWeights(v)
      PROVE  Encrypted'
  <2>1. /\ lastUpdate' = clock /\ pending' = Append(pending, [v |-> v, at |-> clock])
    BY <1>3 DEF LandWeights
  <2>2. pending \in Seq(Landings) /\ [v |-> v, at |-> clock] \in Landings
    BY TypeParts DEF Typed, ChainOK, RestOK, Landings
  <2>3. /\ DOMAIN pending' = 1 .. Len(pending) + 1
        /\ pending'[Len(pending) + 1] = [v |-> v, at |-> clock]
        /\ \A n \in DOMAIN pending : pending'[n] = pending[n]
    BY <2>1, <2>2
  <2>4. WeightsReveal \in Nat /\ WeightsReveal >= 1
    BY ParamsAssumption
  <2>5. ASSUME NEW n \in DOMAIN pending'
        PROVE  pending'[n].at <= clock /\ clock < pending'[n].at + WeightsReveal
    <3>1. CASE n = Len(pending) + 1
      <4>1. pending'[n].at = clock
        BY <2>3, <3>1
      <4> QED
        BY <2>4, <4>1, Times
    <3>2. CASE n \in DOMAIN pending
      BY <2>3, <3>2, Times, PendingType DEF Encrypted
    <3> QED
      BY <2>3, <3>1, <3>2, PendingType
  <2> QED
    BY <1>3, <2>1, <2>5, Times DEF Encrypted
<1> QED
  BY <1>1, <1>2, <1>3, WeightSteps

(* The heartbeat sends what is in force only when nothing newer is on its way. *)
LEMMA DueAlone ==
  ASSUME Typed, Encrypted, Due
  PROVE  DOMAIN pending = {}
<1> SUFFICES ASSUME NEW n \in DOMAIN pending PROVE FALSE
  OBVIOUS
<1>1. pending[n].at <= lastUpdate /\ clock < pending[n].at + WeightsReveal
  BY DEF Encrypted
<1>2. clock - lastUpdate >= Threshold /\ Threshold >= WeightsReveal
  BY ParamsAssumption DEF Due
<1>3. Threshold \in Nat /\ WeightsReveal \in Nat
  BY ParamsAssumption
<1>4. clock \in Nat /\ lastUpdate \in Nat /\ pending[n].at \in Nat
  BY Times, PendingType
<1> QED
  BY <1>1, <1>2, <1>3, <1>4

LEMMA InSequenceStep ==
  ASSUME Typed, [Next]_vars, Encrypted, InSequence
  PROVE  InSequence' /\ weights'.epoch >= weights.epoch
<1>0. latest \in Nat /\ latest' \in Nat /\ latest <= latest'
  BY Times, WeightSteps, TypedStep, TypeParts DEF Typed, TypeOK
<1>1. CASE PassTime
  <2>1. PICK shown \in 0 .. Len(pending) :
           /\ shown = 0 => weights' = weights
           /\ shown # 0 => shown \in DOMAIN pending /\ weights' = pending[shown].v
           /\ \A n \in DOMAIN pending' :
                /\ n \in 1 .. Len(pending) - shown
                /\ n + shown \in DOMAIN pending /\ pending'[n] = pending[n + shown]
    BY <1>1, Shown
  <2>2. weights'.epoch \in Nat /\ weights'.epoch <= latest /\ weights'.epoch >= weights.epoch
    BY <2>1, PendingType DEF InSequence
  <2>3. ASSUME NEW n \in DOMAIN pending'
        PROVE  /\ weights'.epoch <= pending'[n].v.epoch /\ pending'[n].v.epoch <= latest
               /\ \A m \in 1 .. n : pending'[m].v.epoch <= pending'[n].v.epoch
    <3>1. /\ n + shown \in DOMAIN pending /\ pending'[n] = pending[n + shown]
          /\ n \in 1 .. Len(pending) - shown
      BY <2>1, <2>3
    <3>2. weights'.epoch <= pending[n + shown].v.epoch
      <4>1. CASE shown = 0
        BY <2>1, <3>1, <4>1 DEF InSequence
      <4>2. CASE shown # 0
        <5>1. n \in Nat \ {0} /\ shown \in 1 .. n + shown
          BY <3>1, <4>2, PendingType
        <5>2. pending[shown].v.epoch <= pending[n + shown].v.epoch
          BY <3>1, <5>1 DEF InSequence
        <5> QED
          BY <2>1, <4>2, <5>2
      <4> QED
        BY <4>1, <4>2
    <3>3. ASSUME NEW m \in 1 .. n PROVE pending'[m].v.epoch <= pending'[n].v.epoch
      <4>1. pending' \in Seq(Landings)
        BY TypedStep, TypeParts DEF Typed, TypeOK, Landings
      <4>2. m \in DOMAIN pending' /\ m + shown \in 1 .. n + shown
        BY <2>3, <3>1, <3>3, <4>1
      <4> QED
        BY <2>1, <3>1, <4>2 DEF InSequence
    <3> QED
      BY <3>1, <3>2, <3>3 DEF InSequence
  <2>4. ASSUME NEW n \in DOMAIN pending' PROVE pending'[n].v.epoch \in Nat
    BY <2>1, <2>4, PendingType
  <2> QED
    BY <1>0, <2>2, <2>3, <2>4 DEF InSequence
<1>2. CASE UNCHANGED <<lastUpdate, pending, weights>>
  BY <1>0, <1>2, PendingType DEF InSequence
<1>3. ASSUME clock' = clock, latest' = latest, NEW v \in Vectors, LandWeights(v),
             v.epoch = latest \/ (v = weights /\ Due)
      PROVE  InSequence' /\ weights'.epoch >= weights.epoch
  <2>1. weights' = weights /\ pending' = Append(pending, [v |-> v, at |-> clock])
    BY <1>3 DEF LandWeights
  <2>2. pending \in Seq(Landings) /\ [v |-> v, at |-> clock] \in Landings
    BY TypeParts DEF Typed, ChainOK, RestOK, Landings
  <2>3. /\ DOMAIN pending' = 1 .. Len(pending) + 1
        /\ pending'[Len(pending) + 1].v = v
        /\ \A n \in DOMAIN pending : pending'[n] = pending[n]
    BY <2>1, <2>2
  <2>4. /\ v.epoch \in Nat /\ weights.epoch <= v.epoch /\ v.epoch <= latest
        /\ \A n \in DOMAIN pending : pending[n].v.epoch <= v.epoch
    BY <1>0, <1>3, DueAlone, PendingType DEF InSequence
  <2>5. ASSUME NEW n \in DOMAIN pending'
        PROVE  /\ weights.epoch <= pending'[n].v.epoch /\ pending'[n].v.epoch <= latest
               /\ \A m \in 1 .. n : pending'[m].v.epoch <= pending'[n].v.epoch
    <3>1. CASE n = Len(pending) + 1
      <4>1. Len(pending) \in Nat /\ DOMAIN pending = 1 .. Len(pending) /\ pending'[n].v = v
        BY <2>3, <3>1, PendingType
      <4>2. ASSUME NEW m \in 1 .. n PROVE pending'[m].v.epoch <= v.epoch
        <5>1. CASE m = n
          BY <2>4, <4>1, <5>1
        <5>2. CASE m \in DOMAIN pending
          BY <2>3, <2>4, <5>2
        <5> QED
          BY <3>1, <4>1, <5>1, <5>2
      <4>3. weights.epoch <= v.epoch /\ v.epoch <= latest
        BY <2>4
      <4> QED
        BY <4>1, <4>2, <4>3
    <3>2. CASE n \in DOMAIN pending
      BY <2>3, <3>2, PendingType DEF InSequence
    <3> QED
      BY <2>3, <3>1, <3>2, PendingType
  <2> QED
    BY <1>3, <2>1, <2>5, PendingType DEF InSequence
<1> QED
  BY <1>1, <1>2, <1>3, WeightSteps

LEMMA InitInSequence ==
  ASSUME Init
  PROVE  Encrypted /\ InSequence
BY BoundsAssumption DEF Init, Encrypted, InSequence, NoVector, NoEpoch

LEMMA WeightsInvariant == Spec => [](Typed /\ Encrypted /\ InSequence)
<1>1. Typed /\ Encrypted /\ InSequence /\ [Next]_vars => (Typed /\ Encrypted /\ InSequence)'
  BY TypedStep, EncryptedStep, InSequenceStep
<1> QED
  BY InitTyped, InitInSequence, <1>1, PTL DEF Spec

(* The weights in force never give way to those of an older epoch: the        *)
(* heartbeat sends them again only when no newer ones are on their way.       *)
THEOREM WeightsNeverGoBack == Spec => NeverGoesBack
<1>1. Typed /\ Encrypted /\ InSequence /\ [Next]_vars => [weights'.epoch >= weights.epoch]_vars
  BY InSequenceStep
<1> QED
  BY <1>1, WeightsInvariant, PTL DEF Spec, NeverGoesBack

\* The time a cycle has taken so far at most: since the heartbeat of the last tick.
Slack == CASE pc = "sleep"     -> 0
           [] pc = "upkeep"    -> 1 + spent
           [] pc = "heartbeat" -> 1 + UpkeepTimeout + ScoringTimeout + spent
           [] OTHER            -> 1 + UpkeepTimeout + spent
Lost == Cycle * faults
Fresh == weights # NoVector => clock - lastUpdate < Threshold + Lost + Slack

(* Phase by phase the slack grows to no more than a cycle. *)
LEMMA SlackIs ==
  ASSUME Typed
  PROVE  /\ Slack \in Nat /\ Cycle \in Nat /\ Slack <= Cycle
         /\ pc = "sleep" => Slack = 0
         /\ pc = "upkeep" => Slack = 1 + spent /\ spent <= UpkeepTimeout
         /\ pc \in InScoring => Slack = 1 + UpkeepTimeout + spent /\ spent <= ScoringTimeout
         /\ pc = "heartbeat" => Slack = 1 + UpkeepTimeout + ScoringTimeout + spent
<1>1. spent \in Nat /\ spent <= Limit[pc] /\ pc \in Phases
  BY TypeParts DEF Typed, RestOK, RunInTime
<1>2. Phases = {"sleep", "upkeep", "heartbeat"} \cup InScoring
      /\ {"sleep", "upkeep", "heartbeat"} \cap InScoring = {}
  BY DEF Phases, InScoring
<1>3. CASE pc = "sleep"
  BY <1>1, <1>2, <1>3, LimitIs DEF Slack, Cycle
<1>4. CASE pc = "upkeep"
  BY <1>1, <1>2, <1>4, LimitIs DEF Slack, Cycle
<1>5. CASE pc = "heartbeat"
  BY <1>1, <1>2, <1>5, LimitIs DEF Slack, Cycle
<1>6. CASE pc \in InScoring
  BY <1>1, <1>2, <1>6, LimitIs DEF Slack, Cycle
<1> QED
  BY <1>1, <1>2, <1>3, <1>4, <1>5, <1>6

(* A failure is worth a cycle. *)
LEMMA LostIs ==
  ASSUME Typed
  PROVE  /\ Lost \in Nat /\ Lost' = Cycle * faults'
         /\ faults' = faults => Lost' = Lost
         /\ faults' = faults + 1 => Lost' = Lost + Cycle
         /\ Cycle * (1 + faults) = Cycle + Lost
<1>1. Cycle \in Nat /\ faults \in Nat /\ Lost' = Cycle * faults'
  BY SlackIs, Times DEF Lost, Cycle
<1>2. Cycle * (faults + 1) = Cycle * faults + Cycle /\ Cycle * (1 + faults) = Cycle + Cycle * faults
      /\ Cycle * faults \in Nat
  BY <1>1
<1> QED
  BY <1>1, <1>2 DEF Lost

(* The sum of what may have passed. *)
LEMMA AgeGrows ==
  ASSUME NEW now \in Nat, NEW last \in Nat, NEW d \in 0 .. 1, NEW base \in Nat,
         NEW lost \in Nat, NEW lostNow \in Nat, NEW slack \in Nat, NEW slackNow \in Nat,
         now - last < base + lost + slack, lost <= lostNow, slack + d <= slackNow
  PROVE  (now + d) - last < base + lostNow + slackNow
OBVIOUS

(* What a step does to the age of the last update and to the slack. *)
LEMMA FreshStep ==
  ASSUME Typed, [Next]_vars, Encrypted, Fresh
  PROVE  Fresh'
<1> SUFFICES ASSUME weights' # NoVector
             PROVE  clock' - lastUpdate' < Threshold + Lost' + Slack'
  BY DEF Fresh
<1>1. /\ Threshold \in Nat /\ WeightsReveal \in Nat /\ RateLimit \in Nat /\ WeightsReveal >= 1
      /\ WeightsReveal <= Threshold /\ RateLimit <= Threshold
      /\ UpkeepTimeout \in Nat /\ ScoringTimeout \in Nat
  BY ParamsAssumption, RateAssumption
<1>2. Typed'
  BY TypedStep
<1>3. /\ clock' \in Nat /\ lastUpdate' \in Nat /\ faults' \in Nat /\ pc' \in Phases
      /\ spent' \in Nat
  BY <1>2 DEF Typed, TypeOK
<1>4. faults' = faults \/ faults' = faults + 1
  BY DEF Next, Wake, RunLong, StartScoring, PreFlight, NoScoring, CommitPre, CommitWeights,
         CommitPost, CommitRetryLog, DailyWeights, Kill, Heartbeat, Submit, SendWeights, Fault, vars
<1>5. Lost \in Nat /\ Lost' \in Nat /\ Lost <= Lost' /\ Slack \in Nat /\ Slack' \in Nat
  <2>1. Slack' \in Nat
    BY <1>1, <1>3 DEF Slack
  <2> QED
    BY <1>4, <2>1, LostIs, SlackIs
<1>6. CASE lastUpdate' = clock /\ clock' = clock
  BY <1>1, <1>3, <1>5, <1>6, Times
<1>7. CASE PassTime /\ weights = NoVector
  <2>1. PICK n \in DOMAIN pending : clock < pending[n].at + WeightsReveal /\ pending[n].at <= lastUpdate
    BY <1>7, Shown DEF Encrypted
  <2>2. clock' = clock + 1 /\ lastUpdate' = lastUpdate
    BY <1>7 DEF PassTime
  <2>3. pending[n].at \in Nat /\ lastUpdate \in Nat /\ clock \in Nat
    BY Times, PendingType
  <2>4. clock' - lastUpdate' <= Threshold
    BY <1>1, <2>1, <2>2, <2>3
  <2>5. pc' # "sleep"
    <3>1. clock' # clock
      BY <2>2, <2>3
    <3>2. Wake \/ RunLong
      BY <3>1, WeightSteps
    <3> QED
      BY <3>2 DEF Wake, RunLong
  <2>6. Slack' >= 1
    BY <1>1, <1>3, <2>5 DEF Slack
  <2> QED
    BY <1>1, <1>3, <1>5, <2>2, <2>4, <2>6, Times
<1>8. ASSUME weights # NoVector, lastUpdate' = lastUpdate, clock' \in {clock, clock + 1},
             Slack + (clock' - clock) <= Slack'
      PROVE  clock' - lastUpdate' < Threshold + Lost' + Slack'
  <2>1. clock - lastUpdate < Threshold + Lost + Slack
    BY <1>8 DEF Fresh
  <2>2. clock \in Nat /\ lastUpdate \in Nat
    BY Times
  <2>3. PICK d \in 0 .. 1 : clock' = clock + d
    BY <1>8, <2>2
  <2>4. Slack + d <= Slack'
    <3>1. clock' - clock = d
      BY <2>2, <2>3
    <3> QED
      BY <1>8, <3>1
  <2>5. (clock + d) - lastUpdate < Threshold + Lost' + Slack'
    BY <1>1, <1>5, <2>1, <2>2, <2>4, AgeGrows
  <2> QED
    BY <1>8, <2>3, <2>5
<1>9. CASE Wake
  <2>1. PassTime /\ clock' = clock + 1 /\ lastUpdate' = lastUpdate
    BY <1>9 DEF Wake, PassTime
  <2>2. Slack = 0 /\ Slack' = 1
    BY <1>9 DEF Wake, Slack
  <2> QED
    BY <1>7, <1>8, <2>1, <2>2, Times
<1>10. CASE RunLong
  <2>1. PassTime /\ clock' = clock + 1 /\ lastUpdate' = lastUpdate
    BY <1>10 DEF RunLong, PassTime
  <2>2. Slack' = Slack + 1
    BY <1>1, <1>10, Times DEF RunLong, Slack
  <2> QED
    BY <1>5, <1>7, <1>8, <2>1, <2>2, Times
<1>11. CASE StartScoring
  <2>1. pc = "upkeep" /\ pc' = "scoring" /\ spent' = 0 /\ clock' = clock /\ UNCHANGED onChain
    BY <1>11 DEF StartScoring
  <2>2. Slack' = 1 + UpkeepTimeout /\ Slack <= 1 + UpkeepTimeout
    <3>1. Slack' = 1 + UpkeepTimeout + spent'
      BY <2>1 DEF Slack
    <3> QED
      BY <1>1, <2>1, <3>1, SlackIs, Times
  <2> QED
    BY <1>5, <1>8, <2>1, <2>2, Times DEF onChain
<1>12. ASSUME pc \in InScoring, pc' \in InScoring \cup {"heartbeat"}, KeepTime,
              clock' = clock, UNCHANGED <<lastUpdate, weights>>
       PROVE  clock' - lastUpdate' < Threshold + Lost' + Slack'
  <2>1. Slack <= Slack'
    <3>1. Slack = 1 + UpkeepTimeout + spent /\ spent <= ScoringTimeout
      BY <1>12, SlackIs
    <3>2. CASE pc' = "heartbeat"
      <4>1. Slack' = 1 + UpkeepTimeout + ScoringTimeout + spent'
        BY <3>2 DEF Slack
      <4> QED
        BY <1>1, <1>3, <3>1, <4>1, Times
    <3>3. CASE pc' \in InScoring
      <4>1. spent' = spent /\ pc' \notin {"sleep", "upkeep", "heartbeat"}
        BY <1>12, <3>3 DEF KeepTime, InScoring
      <4>2. Slack' = 1 + UpkeepTimeout + spent'
        BY <4>1 DEF Slack
      <4> QED
        BY <1>1, <3>1, <4>1, <4>2, Times
    <3> QED
      BY <1>12, <3>2, <3>3
  <2> QED
    BY <1>5, <1>8, <1>12, <2>1, Times
<1>13. CASE PreFlight \/ NoScoring \/ Kill
  BY <1>12, <1>13 DEF PreFlight, NoScoring, Kill, EndScoring, AfterScoring, onChain, InScoring
<1>14. ASSUME NEW kind, NEW size, NEW next \in InScoring \cup {"heartbeat"}, Submit(kind, size, next)
       PROVE  UNCHANGED <<lastUpdate, weights>> /\ pc' \in InScoring \cup {"heartbeat"}
  BY <1>14, SubmitCases DEF Land, onChain, GoOn
<1>15. CASE CommitPre \/ CommitPost \/ CommitRetryLog
  <2>1. UNCHANGED <<lastUpdate, weights>> /\ pc' \in InScoring \cup {"heartbeat"}
    BY <1>14, <1>15 DEF CommitPre, CommitPost, CommitRetryLog, AfterScoring, InScoring
  <2>2. pc \in InScoring /\ KeepTime /\ clock' = clock
    BY <1>15 DEF CommitPre, CommitPost, CommitRetryLog, InScoring
  <2> QED
    BY <1>12, <2>1, <2>2
<1>16. CASE CommitWeights \/ DailyWeights
  <2>1. ASSUME NEW v, NEW next \in InScoring \cup {"heartbeat"}, SendWeights(v, next)
        PROVE  /\ lastUpdate' = clock \/ UNCHANGED <<lastUpdate, weights>>
               /\ pc' \in InScoring \cup {"heartbeat"}
    BY <2>1, SendCases DEF LandWeights, onChain, GoOn
  <2>2. /\ lastUpdate' = clock \/ UNCHANGED <<lastUpdate, weights>>
        /\ pc' \in InScoring \cup {"heartbeat"}
    <3>1. "post" \in InScoring /\ AfterScoring(TRUE) = "heartbeat"
      BY DEF InScoring, AfterScoring
    <3> QED
      BY <1>16, <2>1, <3>1 DEF CommitWeights, DailyWeights
  <2>3. pc \in InScoring /\ KeepTime /\ clock' = clock
    BY <1>16 DEF CommitWeights, DailyWeights, InScoring
  <2> QED
    BY <1>6, <1>12, <2>2, <2>3
<1>17. CASE Heartbeat
  <2>1. pc = "heartbeat" /\ pc' = "sleep" /\ clock' = clock
    BY <1>17 DEF Heartbeat
  <2>2. Slack' = 0 /\ Slack <= Cycle
    BY <2>1, SlackIs DEF Slack
  <2>3. CASE ~Due /\ UNCHANGED onChain
    BY <1>1, <1>3, <1>5, <2>1, <2>2, <2>3, Times DEF Due, onChain
  <2>4. CASE Fault /\ UNCHANGED onChain
    <3>1. Lost' = Lost + Cycle /\ Cycle \in Nat
      BY <2>4, LostIs, SlackIs DEF Fault
    <3>2. clock - lastUpdate < Threshold + Lost + Slack
      BY <2>4 DEF Fresh, onChain
    <3> QED
      BY <1>1, <1>5, <2>1, <2>2, <2>4, <3>1, <3>2, Times DEF onChain
  <2>5. CASE Due /\ LandWeights(weights)
    BY <1>6, <2>1, <2>5 DEF LandWeights
  <2>6. CASE Due /\ weights = NoVector /\ UNCHANGED onChain
    BY <2>6 DEF onChain
  <2>7. Due => ~RateLimited
    BY <1>1, Times DEF Due, RateLimited
  <2> QED
    BY <1>17, <2>3, <2>4, <2>5, <2>6, <2>7 DEF Heartbeat
<1>18. CASE UNCHANGED vars
  BY <1>18 DEF vars, Fresh, Slack, Lost
<1> QED
  BY <1>9, <1>10, <1>11, <1>13, <1>15, <1>16, <1>17, <1>18 DEF Next

(* No tool of a tick keeps the heartbeat from running by failing, hanging or  *)
(* being killed: the last update of a validator with weights is at no moment  *)
(* older than the threshold, one full cycle, and a cycle for each failure.    *)
THEOREM ValidatorStaysActive == Spec => []StaysActive
<1>1. Init => Typed /\ Encrypted /\ Fresh
  BY InitTyped, InitInSequence DEF Init, Fresh
<1>2. Typed /\ Encrypted /\ Fresh /\ [Next]_vars => (Typed /\ Encrypted /\ Fresh)'
  BY TypedStep, EncryptedStep, FreshStep
<1>3. Typed /\ Fresh => StaysActive
  <2> SUFFICES ASSUME Typed, Fresh, weights # NoVector
               PROVE  clock - lastUpdate < Threshold + Cycle * (1 + faults)
    BY DEF StaysActive
  <2>1. clock - lastUpdate < Threshold + Lost + Slack /\ Slack <= Cycle
    BY SlackIs DEF Fresh
  <2>2. Threshold \in Nat /\ Cycle \in Nat /\ Slack \in Nat /\ Lost \in Nat
    BY ParamsAssumption, SlackIs, LostIs
  <2>3. Cycle * (1 + faults) = Cycle + Lost
    BY LostIs
  <2> HIDE DEF Cycle, Lost, Slack
  <2> QED
    BY <2>1, <2>2, <2>3, Times
<1> QED
  BY <1>1, <1>2, <1>3, PTL DEF Spec

-----------------------------------------------------------------------------
(* DailyAllocation: the orders by which payees are named. *)

(* A nonempty set of naturals has a smallest element. *)
LEMMA SmallestIn ==
  ASSUME NEW S, S \subseteq Nat, S # {}
  PROVE  \E m \in S : \A n \in S : m <= n
<1>1. PICK m \in S : \A n \in S : <<n, m>> \notin OpToRel(<, Nat)
  BY WFMin, NatLessThanWellFounded, Zenon
<1>2. \A n \in S : <<n, m>> \in Nat \X Nat
  OBVIOUS
<1>3. \A n \in S : ~ (n < m)
  BY <1>1, <1>2, Zenon DEF OpToRel
<1> QED
  BY <1>3

(* So has any nonempty set, by the values of a function. *)
LEMMA SmallestBy ==
  ASSUME NEW S, S # {}, NEW f \in [S -> Nat]
  PROVE  \E x \in S : \A y \in S : f[x] <= f[y]
<1> DEFINE T == {f[x] : x \in S}
<1>1. T \subseteq Nat /\ T # {}
  OBVIOUS
<1>2. PICK m \in T : \A n \in T : m <= n
  BY <1>1, SmallestIn
<1> QED
  BY <1>2

(* A nonempty set of hotkeys has a first member by two numbers and the hotkey, *)
(* the way every test orders its candidates.                                   *)
LEMMA FirstInOrder ==
  ASSUME NEW S, S \subseteq Nat, S # {}, NEW f \in [S -> Nat], NEW g \in [S -> Nat]
  PROVE  \E x \in S : \A y \in S \ {x} :
           \/ f[x] < f[y]
           \/ f[x] = f[y] /\ g[x] < g[y]
           \/ f[x] = f[y] /\ g[x] = g[y] /\ x < y
<1>1. PICK a \in S : \A y \in S : f[a] <= f[y]
  BY SmallestBy
<1> DEFINE A == {x \in S : f[x] = f[a]}
           ga == [x \in A |-> g[x]]
<1>2. PICK b \in A : \A y \in A : ga[b] <= ga[y]
  <2>1. A # {} /\ ga \in [A -> Nat]
    BY <1>1
  <2> HIDE DEF A, ga
  <2> QED
    BY <2>1, SmallestBy
<1> DEFINE B == {x \in A : g[x] = g[b]}
<1>3. PICK c \in B : \A y \in B : c <= y
  <2>1. B # {} /\ B \subseteq Nat
    BY <1>2
  <2> HIDE DEF B
  <2> QED
    BY <2>1, SmallestIn
<1>4. ASSUME NEW y \in S \ {c}
      PROVE  \/ f[c] < f[y]
             \/ f[c] = f[y] /\ g[c] < g[y]
             \/ f[c] = f[y] /\ g[c] = g[y] /\ c < y
  <2>1. c \in S /\ f[c] = f[a] /\ g[c] = g[b]
    BY <1>2, <1>3
  <2>2. CASE y \notin A
    BY <1>1, <2>1, <2>2
  <2>3. CASE y \in A /\ y \notin B
    <3>1. g[b] <= g[y] /\ g[b] # g[y] /\ f[y] = f[a]
      BY <1>2, <2>3
    <3>2. g[c] \in Nat /\ g[y] \in Nat
      BY <2>1
    <3> QED
      BY <2>1, <3>1, <3>2
  <2>4. CASE y \in B
    <3>1. c <= y /\ g[y] = g[b] /\ f[y] = f[a]
      BY <1>3, <2>4
    <3>2. c \in Nat /\ y \in Nat /\ c # y
      BY <2>1
    <3> QED
      BY <2>1, <3>1, <3>2
  <2> QED
    BY <2>2, <2>3, <2>4
<1>5. c \in S
  BY <1>3
<1> QED
  BY <1>4, <1>5

(* A first day is a day, or never. *)
LEMMA FirstDayType ==
  ASSUME NEW days \in SUBSET Days, NEW receipts, DOMAIN receipts = days, NEW h, NEW prints
  PROVE  FirstDay(receipts, h, prints) \in 1 .. Never
<1> DEFINE on == {d \in days : receipts[d][h] \in prints}
<1>1. on \subseteq Nat /\ on \subseteq 1 .. Today
  <2>1. Today \in Nat
    BY AllocAssumption
  <2>2. on \subseteq 1 .. Today
    BY Zenon DEF Days
  <2> HIDE DEF on
  <2> QED
    BY <2>1, <2>2
<1>2. Never \in 1 .. Never /\ Today \in Nat /\ Never = Today + 1
  BY AllocAssumption DEF Never
<1>3. CASE on = {}
  BY <1>2, <1>3 DEF FirstDay
<1>4. CASE on # {}
  <2>1. \E d \in on : \A e \in on : d <= e
    BY <1>1, <1>4, SmallestIn
  <2>2. (CHOOSE d \in on : \A e \in on : d <= e) \in on
    BY <2>1
  <2>3. (CHOOSE d \in on : \A e \in on : d <= e) \in 1 .. Never
    BY <1>1, <1>2, <2>2
  <2> QED
    BY <1>4, <2>3 DEF FirstDay
<1> QED
  BY <1>3, <1>4

\* The receipt that speaks for today, read as what each hotkey shows.
Speaks(receipts) ==
  LET d == ReceiptDay(receipts) IN IF d = 0 THEN [h \in Hotkeys |-> NoPrint] ELSE receipts[d]

(* The hotkeys that show one print form a group, with a payee among them. *)
LEMMA PrintGroupsAre ==
  ASSUME NEW days \in SUBSET Days, NEW receipts \in [days -> [Hotkeys -> Prints \cup {NoPrint}]]
  PROVE  LET same(p) == {h \in Hotkeys : Speaks(receipts)[h] = p}
         IN /\ \A g \in PrintGroups(receipts) : \E p \in Prints : \E x \in same(p) :
                 Cardinality(same(p)) > 1 /\ g = Group("prints", same(p), x)
            /\ \A p \in Prints : Cardinality(same(p)) > 1 =>
                 \E x \in same(p) : Group("prints", same(p), x) \in PrintGroups(receipts)
<1> DEFINE shows == Speaks(receipts)
           same(p) == {h \in Hotkeys : shows[h] = p}
           seen(h) == FirstDay(receipts, h, Prints)
           first(h) == FirstDay(receipts, h, {shows[h]})
           precede(x, y) == \/ first(x) < first(y)
                            \/ first(x) = first(y) /\ seen(x) < seen(y)
                            \/ first(x) = first(y) /\ seen(x) = seen(y) /\ x < y
           Payee(S) == CHOOSE x \in S : \A y \in S \ {x} : precede(x, y)
<1>1. PrintGroups(receipts) =
        {Group("prints", same(p), Payee(same(p))) : p \in {q \in Prints : Cardinality(same(q)) > 1}}
  BY DEF PrintGroups, Least, Speaks
<1>2. \A p \in Prints : Cardinality(same(p)) > 1 => Payee(same(p)) \in same(p)
  <2> SUFFICES ASSUME NEW p \in Prints, Cardinality(same(p)) > 1
               PROVE  Payee(same(p)) \in same(p)
    OBVIOUS
  <2> DEFINE S == same(p)
             f == [h \in S |-> first(h)]
             g == [h \in S |-> seen(h)]
  <2>1. S # {}
    <3> SUFFICES ASSUME S = {} PROVE FALSE
      OBVIOUS
    <3>1. Cardinality(S) = 0
      BY FS_EmptySet, Zenon
    <3> QED
      BY <3>1
  <2>2. S \subseteq Nat
    BY AllocAssumption
  <2>3. f \in [S -> Nat] /\ g \in [S -> Nat]
    <3>1. \A h : first(h) \in 1 .. Never /\ seen(h) \in 1 .. Never
      BY FirstDayType
    <3> HIDE DEF first, seen
    <3> QED
      BY <3>1
  <2>4. \E x \in S : \A y \in S \ {x} :
           \/ f[x] < f[y]
           \/ f[x] = f[y] /\ g[x] < g[y]
           \/ f[x] = f[y] /\ g[x] = g[y] /\ x < y
    <3> HIDE DEF S, f, g
    <3> QED
      BY <2>1, <2>2, <2>3, FirstInOrder, Zenon
  <2>5. \E x \in S : \A y \in S \ {x} : precede(x, y)
    <3> HIDE DEF first, seen
    <3> QED
      BY <2>4
  <2> HIDE DEF S, precede
  <2>6. Payee(S) \in S
    BY <2>5
  <2> QED
    BY <2>6 DEF S
<1> HIDE DEF precede, Payee, shows
<1>3. \A p \in Prints : Cardinality(same(p)) > 1 =>
         \E x \in same(p) : Group("prints", same(p), x) \in PrintGroups(receipts)
  <2> SUFFICES ASSUME NEW p \in Prints, Cardinality(same(p)) > 1
               PROVE  \E x \in same(p) : Group("prints", same(p), x) \in PrintGroups(receipts)
    OBVIOUS
  <2>1. Payee(same(p)) \in same(p)
    BY <1>2
  <2>2. p \in {q \in Prints : Cardinality(same(q)) > 1}
    OBVIOUS
  <2>3. Group("prints", same(p), Payee(same(p))) \in PrintGroups(receipts)
    BY <1>1, <2>2
  <2> HIDE DEF same
  <2> QED
    BY <2>1, <2>3
<1>4. \A g \in PrintGroups(receipts) : \E p \in Prints : \E x \in same(p) :
         Cardinality(same(p)) > 1 /\ g = Group("prints", same(p), x)
  BY <1>1, <1>2
<1> QED
  BY <1>3, <1>4 DEF shows

-----------------------------------------------------------------------------
(* DailyAllocation: sets of copies and the member that is restored. *)

(* The members of a group are the set it was made from. *)
LEMMA GroupParts ==
  ASSUME NEW kind, NEW S, NEW x \in S
  PROVE  LET g == Group(kind, S, x)
         IN /\ Members(g) = S /\ g.payee = x /\ g.copies = S \ {x} /\ g.kind = kind
            /\ g.exempt <=> S \cap house # {}
BY DEF Group, Members

(* A component holds every set that meets it. *)
LEMMA ComponentHolds ==
  ASSUME NEW E, NEW S \in Components(E)
  PROVE  /\ S # {} /\ S \subseteq UNION E
         /\ \A e \in E : e \cap S # {} => e \subseteq S
BY DEF Components

(* Components that share a member are the same. *)
LEMMA ComponentsApart ==
  ASSUME NEW E, NEW S \in Components(E), NEW T \in Components(E), S \cap T # {}
  PROVE  S = T
<1> DEFINE closed == {C \in SUBSET UNION E : C # {} /\ \A e \in E : e \subseteq C \/ e \cap C = {}}
<1>1. S \in closed /\ T \in closed
  BY DEF Components
<1>2. S \cap T \in closed
  BY <1>1
<1>3. /\ \A C \in closed : C \subseteq S => C = S
      /\ \A C \in closed : C \subseteq T => C = T
  BY DEF Components
<1>4. S \cap T = S /\ S \cap T = T
  BY <1>2, <1>3
<1> QED
  BY <1>4

GroupsOK == \A g \in groups : g.payee \in Hotkeys /\ g.copies \subseteq Hotkeys
SeniorOK == senior \in [Hotkeys -> 1 .. Never]

(* Of every set of copies that is suppressed whole one member is restored, and *)
(* nobody else.                                                                *)
LEMMA OneIsRestored ==
  ASSUME GroupsOK, SeniorOK
  PROVE  LET back == Restored(groups, Copies(groups))
         IN /\ \A T \in CopySets(groups) : T \subseteq Copies(groups) => T \cap back # {}
            /\ \A x \in back : \E T \in CopySets(groups) : T \subseteq Copies(groups) /\ x \in T
            /\ \A T \in CopySets(groups) : \A x, y \in T \cap back : x = y
<1> DEFINE preferred == {g.payee : g \in {x \in Enforced(groups) : x.kind = "lineage"}}
           known == UNION {Members(g) : g \in {x \in groups : x.kind = "prints"}}
           age(h) == IF h \in known THEN senior[h] ELSE Never
           rank(h) == IF h \in preferred THEN 0 ELSE 1
           precede(x, y) == \/ age(x) < age(y)
                            \/ age(x) = age(y) /\ rank(x) < rank(y)
                            \/ age(x) = age(y) /\ rank(x) = rank(y) /\ x < y
           First(S) == CHOOSE x \in S : \A y \in S \ {x} : precede(x, y)
           whole == {T \in CopySets(groups) : T \subseteq Copies(groups)}
           back == Restored(groups, Copies(groups))
<1>1. back = {First(S) : S \in whole}
  BY DEF Restored, Least
<1>2. \A S \in CopySets(groups) : First(S) \in S
  <2> SUFFICES ASSUME NEW S \in CopySets(groups) PROVE First(S) \in S
    OBVIOUS
  <2>1. S # {} /\ S \subseteq UNION {Members(g) : g \in Counted(groups)}
    BY ComponentHolds DEF CopySets
  <2>2. S \subseteq Hotkeys /\ known \subseteq Hotkeys
    BY <2>1 DEF GroupsOK, Members, Counted
  <2>3. S \subseteq Nat /\ Hotkeys \subseteq Nat /\ Never \in Nat
    BY <2>2, AllocAssumption DEF Never
  <2>4. \A h : age(h) \in Nat
    <3>1. \A h \in Hotkeys : senior[h] \in Nat
      BY <2>3 DEF SeniorOK
    <3> HIDE DEF known
    <3> QED
      BY <2>2, <2>3, <3>1
  <2> DEFINE f == [h \in S |-> age(h)]
             g == [h \in S |-> rank(h)]
  <2>5. f \in [S -> Nat] /\ g \in [S -> Nat]
    <3> HIDE DEF age, preferred
    <3> QED
      BY <2>4
  <2>6. \E x \in S : \A y \in S \ {x} :
           \/ f[x] < f[y]
           \/ f[x] = f[y] /\ g[x] < g[y]
           \/ f[x] = f[y] /\ g[x] = g[y] /\ x < y
    <3> HIDE DEF f, g
    <3> QED
      BY <2>1, <2>3, <2>5, FirstInOrder
  <2>7. \E x \in S : \A y \in S \ {x} : precede(x, y)
    <3> HIDE DEF age, rank
    <3> QED
      BY <2>6
  <2> HIDE DEF precede
  <2> QED
    BY <2>7
<1> HIDE DEF First, back
<1>3. \A T \in CopySets(groups) : T \subseteq Copies(groups) => T \cap back # {}
  BY <1>1, <1>2
<1>4. \A x \in back : \E T \in whole : x = First(T) /\ x \in T
  BY <1>1, <1>2
<1>5. ASSUME NEW T \in CopySets(groups), NEW x \in T \cap back PROVE x = First(T)
  <2>1. PICK S \in whole : x = First(S) /\ x \in S
    BY <1>4, <1>5
  <2>2. S = T
    BY <1>5, <2>1, ComponentsApart DEF CopySets
  <2> QED
    BY <2>1, <2>2
<1> QED
  BY <1>3, <1>4, <1>5 DEF back

(* No set of copies is suppressed whole. *)
LEMMA AMemberIsKept ==
  ASSUME GroupsOK, SeniorOK, NEW S \in CopySets(groups)
  PROVE  ~(S \subseteq Suppressed(groups))
BY OneIsRestored DEF Suppressed

(* Of a group of prints that is not exempt no two members are kept. *)
LEMMA OneIsKept ==
  ASSUME GroupsOK, SeniorOK, NEW g \in groups, g.kind = "prints", ~g.exempt,
         NEW x \in Members(g), NEW y \in Members(g),
         x \notin Suppressed(groups), y \notin Suppressed(groups)
  PROVE  x = y
<1> DEFINE back == Restored(groups, Copies(groups))
<1>1. g \in Enforced(groups) /\ Members(g) \in {Members(k) : k \in Counted(groups)}
  BY DEF Enforced, Counted
<1>2. \A h \in Members(g) \ {g.payee} : h \in Copies(groups)
  BY <1>1 DEF Copies, Members
<1>3. ASSUME NEW h \in Members(g), h \notin Suppressed(groups), h # g.payee
      PROVE  \E T \in CopySets(groups) : /\ T \subseteq Copies(groups) /\ h \in T \cap back
                                        /\ Members(g) \subseteq T
  <2>1. h \in back
    BY <1>2, <1>3 DEF Suppressed
  <2>2. PICK T \in CopySets(groups) : T \subseteq Copies(groups) /\ h \in T
    BY <2>1, OneIsRestored
  <2>3. Members(g) \subseteq T
    BY <1>1, <1>3, <2>2, ComponentHolds DEF CopySets
  <2> QED
    BY <2>1, <2>2, <2>3
<1>4. ASSUME NEW h \in Members(g), NEW k \in Members(g), h # g.payee,
             h \notin Suppressed(groups), k \notin Suppressed(groups)
      PROVE  h = k
  <2>1. PICK T \in CopySets(groups) : /\ T \subseteq Copies(groups) /\ h \in T \cap back
                                      /\ Members(g) \subseteq T
    BY <1>3, <1>4
  <2>2. k \in T \cap back
    BY <1>4, <2>1 DEF Suppressed
  <2> QED
    BY <2>1, <2>2, OneIsRestored
<1> QED
  BY <1>4

-----------------------------------------------------------------------------
(* DailyAllocation: types. *)

(* The receipt that speaks for today is one of those published, or none. *)
LEMMA SpeaksType ==
  ASSUME NEW days \in SUBSET Days, NEW receipts \in [days -> [Hotkeys -> Prints \cup {NoPrint}]]
  PROVE  Speaks(receipts) \in [Hotkeys -> Prints \cup {NoPrint}]
<1> DEFINE earlier == days \ {Today}
           last == CHOOSE d \in earlier : \A e \in earlier : e <= d
<1>1. earlier # {} => last \in earlier
  <2> SUFFICES ASSUME earlier # {} PROVE \E d \in earlier : \A e \in earlier : e <= d
    OBVIOUS
  <2> DEFINE f == [d \in earlier |-> Today - d]
  <2>1. Today \in Nat
    BY AllocAssumption
  <2>2. \A d \in earlier : d \in Nat /\ d <= Today
    BY <2>1 DEF Days
  <2>3. f \in [earlier -> Nat]
    BY <2>1, <2>2
  <2>4. PICK d \in earlier : \A e \in earlier : f[d] <= f[e]
    <3> HIDE DEF f, earlier
    <3> QED
      BY <2>3, SmallestBy
  <2>5. \A e \in earlier : e <= d
    BY <2>1, <2>2, <2>4
  <2> QED
    BY <2>5
<1> HIDE DEF last
<1>2. DOMAIN receipts = days
  OBVIOUS
<1>3. ReceiptDay(receipts) = 0 \/ ReceiptDay(receipts) \in days
  BY <1>1, <1>2 DEF ReceiptDay, last
<1> QED
  BY <1>3 DEF Speaks

(* A group made from two or more hotkeys has a payee and copies. *)
LEMMA GroupType ==
  ASSUME NEW kind, NEW S \in SUBSET Hotkeys, NEW x \in S, S # {x}
  PROVE  LET g == Group(kind, S, x)
         IN g.payee \in Hotkeys /\ g.copies \subseteq Hotkeys \ {g.payee} /\ g.copies # {}
BY GroupParts

(* Two hotkeys are more than one. *)
LEMMA NotAlone ==
  ASSUME NEW S, NEW x \in S, Cardinality(S) # 1
  PROVE  S # {x}
BY FS_Singleton

(* A set of linked hotkeys, or what is left of it, has two members. *)
LEMMA KeptType ==
  ASSUME NEW linked \in SUBSET {S \in SUBSET Hotkeys : Cardinality(S) = 2},
         NEW C \in Components(linked), NEW m \in C
  PROVE  LET K == Kept(C, m, linked)
         IN K \subseteq Hotkeys /\ K # {} /\ \A x \in K : K # {x}
<1>1. C \subseteq UNION linked /\ C \subseteq Hotkeys
  BY ComponentHolds
<1>2. CASE Cardinality(C) = 2
  <2>1. Kept(C, m, linked) = C
    BY <1>2 DEF Kept
  <2> QED
    BY <1>1, <1>2, <2>1, NotAlone
<1>3. CASE Cardinality(C) # 2
  <2>1. PICK e \in linked : m \in e
    BY <1>1
  <2>2. e # {m} /\ e \subseteq C /\ Cardinality(e) = 2
    BY <2>1, NotAlone, ComponentHolds
  <2>3. PICK h \in e : h # m
    BY <2>1, <2>2
  <2>4. e = {h, m}
    <3> SUFFICES ASSUME NEW k \in e, k # h, k # m PROVE FALSE
      BY <2>1, <2>3
    <3>1. IsFiniteSet(e)
      BY AllocAssumption, FS_Subset
    <3>2. {h, m} \subseteq e /\ {h, m} # e
      BY <2>1, <2>3
    <3>3. Cardinality({h, m}) < Cardinality(e)
      BY <3>1, <3>2, FS_Subset, FS_CardinalityType
    <3>4. Cardinality({h, m}) = 2
      <4> DEFINE one == {m}
                 two == one \cup {h}
      <4>1. IsFiniteSet(one) /\ Cardinality(one) = 1 /\ h \notin one
        BY <2>3, FS_Singleton
      <4>2. two = {h, m}
        OBVIOUS
      <4> HIDE DEF one
      <4>3. Cardinality(two) = Cardinality(one) + 1
        BY <4>1, FS_AddElement
      <4> HIDE DEF two
      <4>4. Cardinality(two) = 2
        BY <4>1, <4>3
      <4> QED
        BY <4>2, <4>4, Zenon
    <3> QED
      BY <2>2, <3>3, <3>4
  <2>5. Kept(C, m, linked) = {k \in C : k = m \/ {k, m} \in linked}
    BY <1>3 DEF Kept
  <2>6. m \in Kept(C, m, linked) /\ h \in Kept(C, m, linked)
    BY <2>2, <2>4, <2>5
  <2>7. Kept(C, m, linked) \subseteq C
    BY <2>5
  <2> QED
    BY <1>1, <2>3, <2>6, <2>7
<1> QED
  BY <1>2, <1>3

GroupTypes ==
  \A g \in groups : g.payee \in Hotkeys /\ g.copies \subseteq Hotkeys \ {g.payee} /\ g.copies # {}
\* Placements and shares are functions on hotkeys.
Standing(f) == DOMAIN f \subseteq Hotkeys /\ \A h \in DOMAIN f : f[h] \in Scores

\* Nothing is published, or sent, before its step.
Early == {"copies", "lineage", "place", "identities", "suppress", "tenure", "hold", "curve"}
NotYet ==
  /\ step \in Early => vector = Nothing
  /\ step \in Early \cup {"fetch"} => sent = Nothing

LEMMA NothingIs ==
  /\ DOMAIN Nothing = {} /\ Earners(Nothing) = {} /\ Standing(Nothing)
  /\ \A f, S : DOMAIN f = {} => Only(f, S) = Nothing
BY DEF Nothing, Earners, Standing, Only

(* Of a function that is cut down the rest stays. *)
LEMMA OnlyType ==
  ASSUME NEW f, NEW S
  PROVE  /\ DOMAIN Only(f, S) = DOMAIN f \cap S
         /\ \A h \in DOMAIN f \cap S : Only(f, S)[h] = f[h]
         /\ Earners(Only(f, S)) = Earners(f) \cap S
         /\ Standing(f) => Standing(Only(f, S))
BY DEF Only, Earners, Standing

(* A gate only takes out. *)
LEMMA GateType ==
  ASSUME NEW f, NEW out
  PROVE  DOMAIN Gate(f, out) \subseteq DOMAIN f /\ (Standing(f) => Standing(Gate(f, out)))
<1>1. CASE DOMAIN f \subseteq out
  BY <1>1 DEF Gate
<1>2. CASE ~(DOMAIN f \subseteq out)
  <2>1. Gate(f, out) = Only(f, DOMAIN f \ out)
    BY <1>2 DEF Gate
  <2>2. /\ DOMAIN Only(f, DOMAIN f \ out) = DOMAIN f \cap (DOMAIN f \ out)
        /\ Standing(f) => Standing(Only(f, DOMAIN f \ out))
    BY OnlyType
  <2> QED
    BY <2>1, <2>2
<1> QED
  BY <1>1, <1>2

(* The hold leaves an earner, unless there was none. *)
LEMMA HoldType ==
  ASSUME NEW w, NEW low
  PROVE  /\ Earners(HoldVector(w, low)) \subseteq Earners(w)
         /\ Earners(w) # {} => Earners(HoldVector(w, low)) # {}
<1>1. CASE Earners(w) \subseteq low
  BY <1>1 DEF HoldVector
<1>2. CASE ~(Earners(w) \subseteq low)
  <2>1. HoldVector(w, low) = Only(w, DOMAIN w \ low)
    BY <1>2 DEF HoldVector
  <2>2. Earners(w) \subseteq DOMAIN w
    BY DEF Earners
  <2>3. Earners(Only(w, DOMAIN w \ low)) = Earners(w) \cap (DOMAIN w \ low)
    BY OnlyType
  <2> QED
    BY <1>2, <2>1, <2>2, <2>3
<1> QED
  BY <1>1, <1>2

AllocTypes == AllocTypeOK /\ NotYet

LEMMA AllocInitTypes == AllocInit => AllocTypes
<1> SUFFICES ASSUME AllocInit PROVE AllocTypes
  OBVIOUS
<1>1. Never \in 1 .. Never
  BY AllocAssumption DEF Never
<1> QED
  BY <1>1, NothingIs DEF AllocInit, AllocTypes, AllocTypeOK, NotYet, Standing

(* The tests for copies form groups of two or more hotkeys. *)
LEMMA OnePayerTypes ==
  ASSUME AllocTypes, OnePayer
  PROVE  /\ newest' \in [Hotkeys -> Prints \cup {NoPrint}] /\ senior' \in [Hotkeys -> 1 .. Never]
         /\ GroupTypes'
<1>1. CASE UNCHANGED <<newest, senior, groups>>
  BY <1>1 DEF AllocTypes, AllocTypeOK, GroupTypes
<1>2. ASSUME NEW days \in SUBSET Days, NEW receipts \in [days -> [Hotkeys -> Prints \cup {NoPrint}]],
             newest' = Speaks(receipts), senior' = [h \in Hotkeys |-> FirstDay(receipts, h, Prints)],
             groups' = PrintGroups(receipts)
      PROVE  /\ newest' \in [Hotkeys -> Prints \cup {NoPrint}] /\ senior' \in [Hotkeys -> 1 .. Never]
             /\ GroupTypes'
  <2>1. newest' \in [Hotkeys -> Prints \cup {NoPrint}]
    BY <1>2, SpeaksType
  <2>2. senior' \in [Hotkeys -> 1 .. Never]
    BY <1>2, FirstDayType
  <2>3. ASSUME NEW g \in groups'
        PROVE  g.payee \in Hotkeys /\ g.copies \subseteq Hotkeys \ {g.payee} /\ g.copies # {}
    <3> DEFINE same(p) == {h \in Hotkeys : Speaks(receipts)[h] = p}
    <3>0. PICK p \in Prints : \E x \in same(p) :
            Cardinality(same(p)) > 1 /\ g = Group("prints", same(p), x)
      BY <1>2, <2>3, PrintGroupsAre
    <3>1. PICK x \in same(p) : Cardinality(same(p)) > 1 /\ g = Group("prints", same(p), x)
      BY <3>0
    <3>2. same(p) \in SUBSET Hotkeys
      OBVIOUS
    <3> HIDE DEF same
    <3>3. Cardinality(same(p)) # 1
      BY <3>1
    <3>4. same(p) # {x}
      BY <3>3, NotAlone
    <3>5. LET k == Group("prints", same(p), x)
          IN k.payee \in Hotkeys /\ k.copies \subseteq Hotkeys \ {k.payee} /\ k.copies # {}
      BY <3>2, <3>4, GroupType
    <3> QED
      BY <3>1, <3>5
  <2> QED
    BY <2>1, <2>2, <2>3 DEF GroupTypes
<1> QED
  BY <1>1, <1>2 DEF OnePayer, Speaks

LEMMA LineageTypes ==
  ASSUME AllocTypes, Lineage
  PROVE  GroupTypes'
<1>1. PICK linked \in SUBSET {S \in SUBSET Hotkeys : Cardinality(S) = 2} :
        LET components == Components(linked)
            older(x, y) == senior[x] < senior[y] \/ (senior[x] = senior[y] /\ x < y)
        IN \E medoid \in {m \in [components -> Hotkeys] : \A S \in components : m[S] \in S} :
             groups' = groups \cup {Group("lineage", S, Least(S, older)) :
                                      S \in {Kept(c, medoid[c], linked) : c \in components}}
  BY DEF Lineage
<1> DEFINE older(x, y) == senior[x] < senior[y] \/ (senior[x] = senior[y] /\ x < y)
           Payee(S) == CHOOSE x \in S : \A y \in S \ {x} : older(x, y)
<1>2. PICK medoid \in {m \in [Components(linked) -> Hotkeys] : \A S \in Components(linked) : m[S] \in S} :
             groups' = groups \cup {Group("lineage", S, Payee(S)) :
                                      S \in {Kept(c, medoid[c], linked) : c \in Components(linked)}}
  BY <1>1 DEF Least
<1>3. ASSUME NEW S, S \subseteq Hotkeys, S # {}
      PROVE  Payee(S) \in S
  <2> DEFINE f == [h \in S |-> senior[h]]
             g == [h \in S |-> 0]
  <2>1. S \subseteq Nat /\ \A h \in S : senior[h] \in Nat
    <3>1. Hotkeys \subseteq Nat /\ 1 .. Never \subseteq Nat
      BY AllocAssumption DEF Never
    <3> QED
      BY <1>3, <3>1 DEF AllocTypes, AllocTypeOK
  <2>2. f \in [S -> Nat] /\ g \in [S -> Nat]
    BY <2>1
  <2>3. \E x \in S : \A y \in S \ {x} :
           \/ f[x] < f[y]
           \/ f[x] = f[y] /\ g[x] < g[y]
           \/ f[x] = f[y] /\ g[x] = g[y] /\ x < y
    <3> HIDE DEF f, g
    <3> QED
      BY <1>3, <2>1, <2>2, FirstInOrder
  <2>4. \E x \in S : \A y \in S \ {x} : older(x, y)
    BY <2>1, <2>3
  <2> HIDE DEF older
  <2> QED
    BY <2>4
<1> HIDE DEF Payee
<1>4. ASSUME NEW c \in Components(linked)
      PROVE  LET K == Kept(c, medoid[c], linked)
                 g == Group("lineage", K, Payee(K))
             IN g.payee \in Hotkeys /\ g.copies \subseteq Hotkeys \ {g.payee} /\ g.copies # {}
  <2> DEFINE K == Kept(c, medoid[c], linked)
  <2>1. medoid[c] \in c
    BY <1>2
  <2>2. K \subseteq Hotkeys /\ K # {} /\ \A x \in K : K # {x}
    BY <2>1, KeptType
  <2> HIDE DEF K
  <2>3. LET g == Group("lineage", K, Payee(K))
        IN g.payee \in Hotkeys /\ g.copies \subseteq Hotkeys \ {g.payee} /\ g.copies # {}
    BY <1>3, <2>2, GroupType
  <2> QED
    BY <2>3 DEF K
<1>5. ASSUME NEW g \in groups'
      PROVE  g.payee \in Hotkeys /\ g.copies \subseteq Hotkeys \ {g.payee} /\ g.copies # {}
  <2>1. CASE g \in groups
    BY <2>1 DEF AllocTypes, AllocTypeOK
  <2>2. CASE g \notin groups
    <3>1. PICK c \in Components(linked) :
            g = Group("lineage", Kept(c, medoid[c], linked), Payee(Kept(c, medoid[c], linked)))
      BY <1>2, <1>5, <2>2
    <3> QED
      BY <1>4, <3>1
  <2> QED
    BY <2>1, <2>2
<1> QED
  BY <1>5 DEF GroupTypes

(* Every step keeps the types. *)
LEMMA AllocTypesStep ==
  ASSUME AllocTypes, [AllocNext]_allocVars
  PROVE  AllocTypes'
<1> USE DEF AllocTypes
<1> DEFINE Copying == newest \in [Hotkeys -> Prints \cup {NoPrint}]
                        /\ senior \in [Hotkeys -> 1 .. Never] /\ GroupTypes
           Placed == Standing(placements) /\ Standing(before)
           Sending == DOMAIN vector \subseteq DOMAIN placements /\ Earners(sent) \subseteq Earners(vector)
           Steps == {"copies", "lineage", "place", "identities", "suppress", "tenure", "hold",
                     "curve", "fetch", "gate", "sent"}
<1>1. AllocTypeOK <=> step \in Steps /\ Copying /\ Placed /\ Sending
  BY DEF AllocTypeOK, GroupTypes, Standing
<1>2. AllocTypeOK' <=> step' \in Steps /\ Copying' /\ Placed' /\ Sending'
  BY DEF AllocTypeOK, GroupTypes, Standing
<1>3. ASSUME UNCHANGED <<newest, senior, groups>> PROVE Copying'
  BY <1>1, <1>3 DEF GroupTypes
<1>4. ASSUME UNCHANGED <<placements, before>> PROVE Placed'
  BY <1>1, <1>4
<1>5. ASSUME UNCHANGED <<vector, sent>>, vector = Nothing PROVE Sending'
  BY <1>1, <1>5, NothingIs
<1>6. CASE OnePayer
  BY <1>1, <1>2, <1>4, <1>5, <1>6, OnePayerTypes DEF OnePayer, NotYet, Early
<1>7. CASE Lineage
  <2>1. Copying'
    BY <1>1, <1>7, LineageTypes DEF Lineage
  <2> QED
    BY <1>2, <1>4, <1>5, <1>7, <2>1 DEF Lineage, NotYet, Early
<1>8. CASE Place
  <2>1. Standing(placements')
    BY <1>8 DEF Place, Standing
  <2> QED
    BY <1>1, <1>2, <1>3, <1>5, <1>8, <2>1 DEF Place, NotYet, Early
<1>9. CASE Identities
  <2>1. placements' = placements \/ \E S : placements' = Only(placements, S)
    BY <1>9 DEF Identities
  <2>2. Standing(placements') /\ before' = placements'
    <3>1. before' = placements' /\ Standing(placements)
      BY <1>1, <1>9 DEF Identities
    <3>2. Standing(placements')
      BY <2>1, <3>1, OnlyType
    <3> QED
      BY <3>1, <3>2
  <2> QED
    BY <1>2, <1>3, <1>5, <1>9, <2>2 DEF Identities, NotYet, Early
<1>10. CASE SuppressCopies
  <2>1. Standing(placements')
    BY <1>1, <1>10, OnlyType DEF SuppressCopies
  <2> QED
    BY <1>1, <1>2, <1>3, <1>5, <1>10, <2>1 DEF SuppressCopies, NotYet, Early
<1>11. CASE TenureGate
  <2>1. Standing(placements')
    BY <1>1, <1>11, GateType DEF TenureGate
  <2> QED
    BY <1>1, <1>2, <1>3, <1>5, <1>11, <2>1 DEF TenureGate, NotYet, Early
<1>12. CASE AlphaHold
  <2>1. Standing(placements')
    BY <1>1, <1>12, GateType DEF AlphaHold
  <2> QED
    BY <1>1, <1>2, <1>3, <1>5, <1>12, <2>1 DEF AlphaHold, NotYet, Early
<1>13. CASE CurveWeights
  <2>1. DOMAIN vector' \subseteq DOMAIN placements
    BY <1>13, NothingIs DEF CurveWeights
  <2>2. sent' = Nothing /\ Earners(sent') = {}
    BY <1>13, NothingIs DEF CurveWeights, NotYet, Early
  <2>3. Sending'
    BY <1>13, <2>1, <2>2 DEF CurveWeights
  <2> QED
    BY <1>2, <1>3, <1>4, <1>13, <2>2, <2>3 DEF CurveWeights, NotYet, Early
<1>14. CASE FetchAndMap
  <2>1. Earners(sent') \subseteq Earners(vector)
    <3>1. CASE sent' = Nothing
      BY <3>1, NothingIs DEF Earners
    <3>2. ASSUME NEW mapped, sent' = Only(vector, Earners(vector) \cap mapped)
          PROVE  Earners(sent') \subseteq Earners(vector)
      <4> DEFINE S == Earners(vector) \cap mapped
      <4>1. Earners(Only(vector, S)) = Earners(vector) \cap S
        BY OnlyType
      <4> QED
        BY <3>2, <4>1
    <3> QED
      BY <1>14, <3>1, <3>2 DEF FetchAndMap
  <2>2. Sending'
    BY <1>1, <1>14, <2>1 DEF FetchAndMap, Earners
  <2> QED
    BY <1>2, <1>3, <1>4, <1>14, <2>2 DEF FetchAndMap, NotYet, Early
<1>15. CASE AlphaGate
  <2>1. Earners(sent') \subseteq Earners(sent)
    BY <1>15, HoldType DEF AlphaGate
  <2>2. Sending'
    BY <1>1, <1>15, <2>1 DEF AlphaGate, Earners
  <2> QED
    BY <1>2, <1>3, <1>4, <1>15, <2>2 DEF AlphaGate, NotYet, Early
<1>16. CASE UNCHANGED allocVars
  BY <1>1, <1>2, <1>3, <1>4, <1>16 DEF allocVars, NotYet, Earners
<1> QED
  BY <1>6, <1>7, <1>8, <1>9, <1>10, <1>11, <1>12, <1>13, <1>14, <1>15, <1>16 DEF AllocNext

(* The variables of the allocation keep their types. *)
THEOREM AllocTypeCorrect == AllocSpec => []AllocTypeOK
<1>1. AllocTypes /\ [AllocNext]_allocVars => AllocTypes'
  BY AllocTypesStep
<1>2. AllocTypes => AllocTypeOK
  BY DEF AllocTypes
<1> QED
  BY AllocInitTypes, <1>1, <1>2, PTL DEF AllocSpec

-----------------------------------------------------------------------------
(* DailyAllocation: what is promised of copies and of the hold. *)

(* The same groups and the same ages suppress the same hotkeys. *)
LEMMA SuppressedKept ==
  ASSUME UNCHANGED <<groups, senior>>
  PROVE  Suppressed(groups)' = Suppressed(groups)
BY DEF Suppressed, Copies, Restored, Least, CopySets, Counted, Enforced, Members, Components

\* Hotkeys that show the same predictions are of one group, exempt only for a house model.
Grouped ==
  \A x, y \in Hotkeys :
    x # y /\ newest[x] = newest[y] /\ newest[x] # NoPrint =>
      \E g \in groups : /\ g.kind = "prints" /\ {x, y} \subseteq Members(g)
                        /\ g.exempt => \E h \in house : newest[h] = newest[x]

\* Once copies are dropped, nobody in the running is suppressed.
Dropped ==
  step \notin {"copies", "lineage", "place", "identities", "suppress"} =>
    DOMAIN placements \cap Suppressed(groups) = {}

LEMMA GroupedStep ==
  ASSUME AllocTypes, house \subseteq Hotkeys, [AllocNext]_allocVars, Grouped
  PROVE  Grouped'
<1>1. CASE OnePayer
  <2>1. CASE UNCHANGED <<newest, senior, groups>>
    BY <1>1, <2>1 DEF OnePayer, Grouped
  <2>2. ASSUME NEW days \in SUBSET Days, NEW receipts \in [days -> [Hotkeys -> Prints \cup {NoPrint}]],
               newest' = Speaks(receipts), groups' = PrintGroups(receipts)
        PROVE  Grouped'
    <3> SUFFICES ASSUME NEW x \in Hotkeys, NEW y \in Hotkeys,
                        x # y, newest'[x] = newest'[y], newest'[x] # NoPrint
                 PROVE  \E g \in groups' : /\ g.kind = "prints" /\ {x, y} \subseteq Members(g)
                                           /\ g.exempt => \E h \in house : newest'[h] = newest'[x]
      BY <1>1 DEF OnePayer, Grouped
    <3> DEFINE same(p) == {h \in Hotkeys : Speaks(receipts)[h] = p}
               p == newest'[x]
    <3>1. p \in Prints
      BY <2>2, SpeaksType
    <3>2. x \in same(p) /\ y \in same(p) /\ same(p) \subseteq Hotkeys
          /\ \A h \in same(p) : newest'[h] = p
      BY <2>2
    <3> HIDE DEF p, same
    <3>3. IsFiniteSet(same(p)) /\ {x} \in SUBSET same(p)
      BY <3>2, AllocAssumption, FS_Subset
    <3>4. Cardinality(same(p)) > 1
      <4>1. Cardinality({x}) = 1 /\ {x} # same(p)
        BY <3>2, FS_Singleton
      <4>2. Cardinality({x}) <= Cardinality(same(p)) /\ Cardinality({x}) # Cardinality(same(p))
        BY <3>3, <4>1, FS_Subset
      <4>3. Cardinality(same(p)) \in Nat
        BY <3>3, FS_CardinalityType
      <4> QED
        BY <4>1, <4>2, <4>3
    <3>5. PICK z \in same(p) : Group("prints", same(p), z) \in PrintGroups(receipts)
      BY <3>1, <3>4, PrintGroupsAre DEF same
    <3> DEFINE g == Group("prints", same(p), z)
    <3>6. /\ Members(g) = same(p) /\ g.kind = "prints"
          /\ g.exempt <=> same(p) \cap house # {}
      BY GroupParts
    <3> HIDE DEF g
    <3>7. g \in groups' /\ {x, y} \subseteq Members(g)
      BY <2>2, <3>2, <3>5, <3>6 DEF g
    <3>8. g.exempt => \E h \in house : newest'[h] = newest'[x]
      BY <3>2, <3>6 DEF p
    <3> QED
      BY <3>6, <3>7, <3>8
  <2> QED
    BY <1>1, <2>1, <2>2 DEF OnePayer, Speaks
<1>2. CASE Lineage
  <2>1. groups \subseteq groups' /\ UNCHANGED <<house, newest>>
    BY <1>2 DEF Lineage
  <2> QED
    BY <2>1 DEF Grouped
<1>3. ASSUME UNCHANGED <<house, newest, groups>> PROVE Grouped'
  BY <1>3 DEF Grouped
<1> QED
  BY <1>1, <1>2, <1>3 DEF AllocNext, Place, Identities, SuppressCopies, TenureGate, AlphaHold,
       CurveWeights, FetchAndMap, AlphaGate, allocVars

LEMMA DroppedStep ==
  ASSUME AllocTypes, [AllocNext]_allocVars, Dropped
  PROVE  Dropped'
<1>1. CASE OnePayer \/ Lineage \/ Place \/ Identities
  BY <1>1 DEF OnePayer, Lineage, Place, Identities, Dropped
<1>2. CASE SuppressCopies
  <2>1. DOMAIN placements' \cap Suppressed(groups) = {}
    <3> DEFINE S == Hotkeys \ Suppressed(groups)
    <3>1. DOMAIN Only(placements, S) = DOMAIN placements \cap S
      BY OnlyType
    <3> QED
      BY <1>2, <3>1 DEF SuppressCopies
  <2>2. Suppressed(groups)' = Suppressed(groups)
    BY <1>2, SuppressedKept DEF SuppressCopies
  <2> QED
    BY <2>1, <2>2 DEF Dropped
<1>3. CASE TenureGate \/ AlphaHold
  <2>1. DOMAIN placements' \subseteq DOMAIN placements
    BY <1>3, GateType DEF TenureGate, AlphaHold
  <2>2. Suppressed(groups)' = Suppressed(groups)
    BY <1>3, SuppressedKept DEF TenureGate, AlphaHold
  <2> QED
    BY <1>3, <2>1, <2>2 DEF Dropped, TenureGate, AlphaHold
<1>4. CASE CurveWeights \/ FetchAndMap \/ AlphaGate \/ UNCHANGED allocVars
  <2>1. UNCHANGED <<groups, senior, placements>>
    BY <1>4 DEF CurveWeights, FetchAndMap, AlphaGate, allocVars
  <2>2. Suppressed(groups)' = Suppressed(groups)
    BY <2>1, SuppressedKept
  <2> QED
    BY <1>4, <2>1, <2>2 DEF Dropped, CurveWeights, FetchAndMap, AlphaGate, allocVars
<1> QED
  BY <1>1, <1>2, <1>3, <1>4 DEF AllocNext

AllocInv == AllocTypes /\ house \subseteq Hotkeys /\ Grouped /\ Dropped

LEMMA AllocInvariant == AllocSpec => []AllocInv
<1>1. AllocInit => AllocInv
  BY AllocInitTypes, AllocAssumption DEF AllocInit, AllocInv, Grouped, Dropped
<1>2. AllocInv /\ [AllocNext]_allocVars => AllocInv'
  <2> SUFFICES ASSUME AllocInv, [AllocNext]_allocVars PROVE AllocInv'
    OBVIOUS
  <2>1. house' = house
    BY DEF AllocNext, OnePayer, Lineage, Place, Identities, SuppressCopies, TenureGate, AlphaHold,
           CurveWeights, FetchAndMap, AlphaGate, allocVars
  <2> QED
    BY <2>1, AllocTypesStep, GroupedStep, DroppedStep DEF AllocInv
<1> QED
  BY <1>1, <1>2, PTL DEF AllocSpec

(* Two hotkeys with the same predictions never both earn, unless a house      *)
(* model shows them too (one_payer_suppression_from_receipts).                *)
THEOREM OneModelPaysOnce == AllocSpec => []OneModelOnePayee
<1>1. AllocInv => OneModelOnePayee
  <2> SUFFICES ASSUME AllocInv, NEW x \in Earners(vector), NEW y \in Earners(vector),
                      x # y, newest[x] = newest[y], newest[x] # NoPrint
               PROVE  \E h \in house : newest[h] = newest[x]
    BY DEF OneModelOnePayee
  <2>1. x \in DOMAIN vector /\ y \in DOMAIN vector
    BY DEF Earners
  <2>2. DOMAIN vector \subseteq DOMAIN placements /\ DOMAIN placements \subseteq Hotkeys
    BY DEF AllocInv, AllocTypes, AllocTypeOK
  <2>3. step \notin {"copies", "lineage", "place", "identities", "suppress"}
    BY <2>1, NothingIs DEF AllocInv, AllocTypes, NotYet, Early
  <2>4. x \notin Suppressed(groups) /\ y \notin Suppressed(groups)
    BY <2>1, <2>2, <2>3 DEF AllocInv, Dropped
  <2>5. PICK g \in groups : /\ g.kind = "prints" /\ {x, y} \subseteq Members(g)
                            /\ g.exempt => \E h \in house : newest[h] = newest[x]
    BY <2>1, <2>2 DEF AllocInv, Grouped
  <2>6. GroupsOK /\ SeniorOK
    BY DEF AllocInv, AllocTypes, AllocTypeOK, GroupsOK, SeniorOK
  <2> QED
    BY <2>4, <2>5, <2>6, OneIsKept
<1> QED
  BY <1>1, AllocInvariant, PTL

(* No connected set of copies is suppressed whole (orphaned_payees). *)
THEOREM SetsKeepOne == AllocSpec => []SetsKeepAMember
<1>1. AllocInv => SetsKeepAMember
  <2> SUFFICES ASSUME AllocInv PROVE SetsKeepAMember
    OBVIOUS
  <2>1. GroupsOK /\ SeniorOK
    BY DEF AllocInv, AllocTypes, AllocTypeOK, GroupsOK, SeniorOK
  <2> QED
    BY <2>1, AMemberIsKept DEF SetsKeepAMember
<1> QED
  BY <1>1, AllocInvariant, PTL

(* The second hold never empties a vector that pays a mapped hotkey.          *)
THEOREM HoldNeverEmpties == AllocSpec => HoldKeepsTheVector
<1> DEFINE Made == step = "gate" => sent = Nothing \/ Earners(sent) # {}
<1>1. AllocInit => Made
  BY DEF AllocInit
<1>2. Made /\ [AllocNext]_allocVars => Made'
  <2> SUFFICES ASSUME Made, [AllocNext]_allocVars PROVE Made'
    OBVIOUS
  <2>1. CASE FetchAndMap
    <3>1. ASSUME NEW mapped, sent' = Only(vector, Earners(vector) \cap mapped)
          PROVE  sent' = Nothing \/ Earners(sent') # {}
      <4> DEFINE S == Earners(vector) \cap mapped
      <4>1. Earners(Only(vector, S)) = Earners(vector) \cap S
        BY OnlyType
      <4>2. CASE S = {}
        <5>1. Only(vector, S) = Nothing
          BY <4>2 DEF Only, Nothing
        <5> QED
          BY <3>1, <5>1
      <4>3. CASE S # {}
        BY <3>1, <4>1, <4>3 DEF Earners
      <4> QED
        BY <4>2, <4>3
    <3> QED
      BY <2>1, <3>1 DEF FetchAndMap
  <2>2. CASE UNCHANGED allocVars
    BY <2>2 DEF allocVars, Earners
  <2>3. ASSUME ~FetchAndMap, AllocNext PROVE step' # "gate"
    BY <2>3 DEF AllocNext, OnePayer, Lineage, Place, Identities, SuppressCopies, TenureGate,
                AlphaHold, CurveWeights, AlphaGate
  <2> QED
    BY <2>1, <2>2, <2>3
<1>3. Made /\ [AllocNext]_allocVars
        => [step = "gate" /\ sent # Nothing => Earners(sent') # {}]_allocVars
  <2> SUFFICES ASSUME Made, AllocNext, step = "gate", sent # Nothing PROVE Earners(sent') # {}
    OBVIOUS
  <2>1. AlphaGate
    BY DEF AllocNext, OnePayer, Lineage, Place, Identities, SuppressCopies, TenureGate,
           AlphaHold, CurveWeights, FetchAndMap
  <2>2. PICK low : sent' = HoldVector(sent, low)
    BY <2>1 DEF AlphaGate
  <2> QED
    BY <2>2, HoldType
<1> QED
  BY <1>1, <1>2, <1>3, PTL DEF AllocSpec, HoldKeepsTheVector
=============================================================================
