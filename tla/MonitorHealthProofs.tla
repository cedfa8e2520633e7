------------------------- MODULE MonitorHealthProofs ------------------------
(***************************************************************************)
(* The monitor's crash and stall alerts are genuine for any thresholds, any *)
(* number of processes of a slot, commits and stops.                        *)
(***************************************************************************)
EXTENDS MonitorHealth, FiniteSetTheorems, TLAPS

-----------------------------------------------------------------------------
LEMMA Constants ==
  /\ 1 \in Procs /\ Procs \subseteq Nat /\ NoPid = 0 /\ NoPid \notin Procs
  /\ StallThreshold \in Nat /\ HandoffGrace \in Nat /\ HandoffGrace >= StallThreshold
  /\ Old \in Nat /\ Old = HandoffGrace + 1 /\ MaxTail \in Nat
  /\ Rings = {0, 1} /\ Home = 0
BY ConfigAssumption DEF Procs, NoPid, Old, Rings, Home

LEMMA MInit ==
  ASSUME Init
  PROVE  MInd
<1> USE Constants DEF Init
<1>1. Types
  <2>1. obs \in ObsRecord
    BY DEF ObsRecord, NoObs
  <2>2. track \in TrackRecord
    BY DEF TrackRecord
  <2>3. hist \in HistRecord
    <3>1. NoRead \in [since : 0 .. Old, fresh : BOOLEAN]
      BY DEF NoRead
    <3> QED
      BY <3>1 DEF HistRecord
  <2>4. stage \in [Procs -> Stages]
    BY DEF Stages
  <2> QED
    <3>1. /\ role \in Roles /\ stopped \in BOOLEAN /\ pidfile \in Procs \cup {NoPid}
          /\ status \in SUBSET Flags /\ mine \in SUBSET Rings
      BY DEF Flags
    <3>2. epoch \in [Rings -> {2, 3, 4}] /\ tail \in [Rings -> 0 .. MaxTail]
      OBVIOUS
    <3>3. mpc = "sleep" /\ alert \in Alerts
      BY DEF Alerts
    <3> QED
      BY ONLY <2>1, <2>2, <2>3, <2>4, <3>1, <3>2, <3>3 DEF Types
<1>2. Lifecycle
  BY DEF Lifecycle
<1>3. SlotWords
  BY DEF SlotWords
<1>4. RingsMoved
  BY DEF RingsMoved, SawRunning, StatusRead
<1>5. Reports
  BY DEF Reports, Gone, SawRunning, StatusRead, Polled
<1>6. Windows
  BY DEF Windows, SawRunning, StatusRead, TailRead, Producing, HotStart
<1>7. StallGenuine
  BY DEF StallGenuine, NoAlert
<1> QED
  BY <1>1, <1>2, <1>3, <1>4, <1>5, <1>6, <1>7 DEF MInd

-----------------------------------------------------------------------------
(* The words the processes do not touch, and the monitor does not touch.      *)

LEMMA FieldTypes ==
  ASSUME Types
  PROVE  /\ hist.crashes \in Nat /\ hist.reported \in Nat /\ hist.raced \in Nat
         /\ hist.since \in 0 .. Old /\ hist.fresh \in BOOLEAN /\ hist.stops \in Nat
         /\ hist.read.since \in 0 .. Old /\ hist.read.fresh \in BOOLEAN
         /\ track.tail \in 0 .. MaxTail /\ track.age \in 0 .. Old /\ track.epoch \in {0, 2, 4}
         /\ obs.alive \in BOOLEAN /\ obs.status \in SUBSET Flags /\ obs.ring \in Rings
         /\ obs.tail \in 0 .. MaxTail /\ obs.epoch \in {0, 2, 4}
BY DEF Types, HistRecord, TrackRecord, ObsRecord

(* The other updates of the history.                                         *)
LEMMA HistoryTypes ==
  ASSUME NEW h \in HistRecord
  PROVE  /\ [h EXCEPT !.since = 0, !.fresh = FALSE] \in HistRecord
         /\ [h EXCEPT !.crashes = @ + 1, !.fresh = FALSE] \in HistRecord
         /\ [h EXCEPT !.stops = @ + 1] \in HistRecord
         /\ [h EXCEPT !.reported = @ + 1] \in HistRecord
         /\ [h EXCEPT !.read = [since |-> h.since, fresh |-> h.fresh]] \in HistRecord
<1>1. 0 \in 0 .. Old
  BY Constants
<1>2. [since |-> h.since, fresh |-> h.fresh] \in [since : 0 .. Old, fresh : BOOLEAN]
  BY DEF HistRecord
<1>3. [h EXCEPT !.since = 0, !.fresh = FALSE] \in HistRecord
  BY <1>1 DEF HistRecord
<1>4. PICK c \in Nat, r \in Nat, s \in Nat : c = h.crashes + 1 /\ r = h.reported + 1 /\ s = h.stops + 1
  BY DEF HistRecord
<1>5. [h EXCEPT !.crashes = c, !.fresh = FALSE] \in HistRecord
  BY DEF HistRecord
<1>6. [h EXCEPT !.stops = s] \in HistRecord /\ [h EXCEPT !.reported = r] \in HistRecord
  BY DEF HistRecord
<1>7. [h EXCEPT !.read = [since |-> h.since, fresh |-> h.fresh]] \in HistRecord
  BY <1>2 DEF HistRecord
<1> QED
  BY <1>3, <1>4, <1>5, <1>6, <1>7

(* The history a RUNNING store leaves.                                       *)
LEMMA RunningType ==
  ASSUME Types
  PROVE  /\ NowRunning \in HistRecord
         /\ NowRunning.since = 0 /\ NowRunning.fresh /\ NowRunning.read = hist.read
         /\ NowRunning.reported = hist.reported /\ NowRunning.crashes = hist.crashes
         /\ NowRunning.raced = IF mpc = "status" /\ ~obs.alive THEN hist.raced + 1 ELSE hist.raced
<1>1. PICK b \in Nat : b = IF mpc = "status" /\ ~obs.alive THEN hist.raced + 1 ELSE hist.raced
  BY DEF Types, HistRecord
<1>2. NowRunning = [hist EXCEPT !.since = 0, !.fresh = TRUE, !.raced = b]
  BY <1>1 DEF NowRunning, Types, HistRecord
<1>3. hist \in HistRecord /\ 0 \in 0 .. Old
  BY Constants DEF Types
<1> QED
  BY <1>1, <1>2, <1>3 DEF HistRecord

LEMMA ProcessTypes ==
  ASSUME Types, NEW k \in Procs, Process(k)
  PROVE  Types'
<1> USE Constants DEF Types, Stages, Flags
<1>1. CASE WritePidfile(k)
  BY <1>1 DEF WritePidfile, Moves, rings, mon
<1>2. CASE StoreStatus(k)
  BY <1>2, RunningType DEF StoreStatus, Moves, rings, mon
<1>3. CASE Promoted(k)
  BY <1>3, RunningType DEF Promoted, Moves, rings, mon
<1>4. CASE Commit(k)
  <2>1. hist' \in HistRecord
    BY <1>4, HistoryTypes DEF Commit
  <2>2. Producing \in Rings
    BY DEF Producing
  <2>3. tail' \in [Rings -> 0 .. MaxTail]
    BY <1>4, <2>2 DEF Commit
  <2>4. status' \in SUBSET Flags
    BY <1>4 DEF Commit
  <2> QED
    BY <1>4, <2>1, <2>3, <2>4 DEF Commit, mon
<1>5. CASE StoreIdle(k)
  BY <1>5 DEF StoreIdle, Moves, rings, mon
<1>6. CASE RemovePidfile(k)
  BY <1>6 DEF RemovePidfile, rings, mon
<1>7. CASE Crash(k)
  <2>1. hist' \in HistRecord
    BY <1>7, HistoryTypes DEF Crash
  <2> QED
    BY <1>7, <2>1 DEF Crash, rings, mon
<1>8. CASE Stop(k)
  BY <1>8, HistoryTypes DEF Stop, rings, mon
<1>9. CASE Reap(k)
  BY <1>9 DEF Reap, Moves, rings, mon
<1>10. CASE Replace(k)
  BY <1>10 DEF Replace, Moves, rings, mon
<1> QED
  BY <1>1, <1>2, <1>3, <1>4, <1>5, <1>6, <1>7, <1>8, <1>9, <1>10 DEF Process

LEMMA WorldTypes ==
  ASSUME Types, TransferBegin \/ TransferEnd \/ Continue \/ OtherCommit
  PROVE  Types'
<1> USE Constants DEF Types, procs, rings, mon, Moving
<1>1. CASE TransferBegin
  BY <1>1 DEF TransferBegin
<1>2. CASE TransferEnd
  BY <1>2 DEF TransferEnd
<1>3. CASE Continue
  BY <1>3 DEF Continue
<1>4. CASE OtherCommit
  BY <1>4 DEF OtherCommit
<1> QED
  BY <1>1, <1>2, <1>3, <1>4

-----------------------------------------------------------------------------
(* The processes of the slot and the supervisor.                              *)

LEMMA GoneNat == Gone \subseteq Nat
<1> SUFFICES ASSUME NEW j \in Gone PROVE j \in Nat
  OBVIOUS
<1>1. CASE j \in Procs
  BY <1>1, Constants
<1>2. CASE j = NoPid
  BY <1>2, Constants
<1> QED
  BY <1>1, <1>2 DEF Gone

(* A step outside the monitor that stores no RUNNING.                          *)
SlotMove ==
  /\ UNCHANGED <<role, mpc, obs, track, alert>>
  /\ hist'.reported = hist.reported /\ hist'.raced = hist.raced /\ hist'.read = hist.read
  /\ \A j \in Procs : stage[j] = "gone" => stage'[j] = "gone"
  /\ Started => stage'[1] \notin {"none", "new", "pid", "standby"}
  /\ "RUNNING" \in status' => "RUNNING" \in status /\ pidfile' >= pidfile

(* Such a step that is no commit of the slot.                                  *)
WindowMove ==
  /\ hist'.since = hist.since /\ tail'[Producing] >= tail[Producing]
  /\ hist'.fresh => /\ hist.fresh /\ stage'[1] \notin {"crashed", "gone"}
                    /\ tail'[Producing] = tail[Producing]
  /\ ~Started => tail'[Producing] = tail[Producing]

LEMMA ReportsKept ==
  ASSUME Types, Types', Reports, SlotMove
  PROVE  Reports'
<1>1. /\ hist.reported \in Nat /\ hist'.reported \in Nat
      /\ hist.raced \in Nat /\ hist'.raced \in Nat
      /\ pidfile \in Nat /\ pidfile' \in Nat
  BY Constants DEF Types, HistRecord
<1>2. \A j \in Gone : j \in Gone' /\ j \in Nat
  BY GoneNat DEF SlotMove, Gone
<1>3. /\ UNCHANGED <<mpc, obs, track>> /\ hist'.reported = hist.reported /\ hist'.raced = hist.raced
      /\ "RUNNING" \in status' => "RUNNING" \in status /\ pidfile' >= pidfile
      /\ Started => Started'
  BY DEF SlotMove, Started
<1>4. /\ \E j \in Gone' : hist'.reported <= hist'.raced + j
      /\ (\E j \in Gone : hist.reported + 1 <= hist.raced + j)
           => \E j \in Gone' : hist'.reported + 1 <= hist'.raced + j
  BY <1>2, <1>3 DEF Reports
<1>5. /\ ~Started' => hist'.reported = 0
      /\ track'.crash_alerted => hist'.reported > 0
      /\ StatusRead' /\ "RUNNING" \notin obs'.status /\ "RUNNING" \in status' => hist'.reported = 0
  BY <1>3 DEF Reports, StatusRead
<1>6. "RUNNING" \in status' /\ hist.reported + 1 <= hist.raced + pidfile
        => hist'.reported + 1 <= hist'.raced + pidfile'
  BY <1>1, <1>3
<1>7. /\ "RUNNING" \in status' /\ ~track'.crash_alerted => hist'.reported + 1 <= hist'.raced + pidfile'
      /\ Polled' /\ obs'.alive /\ "RUNNING" \in status' => hist'.reported + 1 <= hist'.raced + pidfile'
  BY <1>3, <1>6 DEF Reports, Polled
<1>8. (SawRunning \/ (mpc = "status" /\ "RUNNING" \in status))' /\ ~obs'.alive /\ ~track'.crash_alerted =>
       \E j \in Gone' : hist'.reported + 1 <= hist'.raced + j
  BY <1>3, <1>4 DEF Reports, SawRunning, StatusRead
<1> QED
  BY <1>4, <1>5, <1>7, <1>8 DEF Reports

LEMMA WindowsKept ==
  ASSUME Types, Types', Windows, StallGenuine, SlotMove, WindowMove
  PROVE  Windows' /\ StallGenuine'
<1>1. /\ Producing' = Producing /\ Producing \in Rings
      /\ tail[Producing] \in Nat /\ tail'[Producing] \in Nat
      /\ track.tail \in Nat /\ obs.tail \in Nat
  BY Constants, FieldTypes DEF Types, Producing, HotStart, SlotMove
<1>2. /\ obs.tail <= tail[Producing] => obs.tail <= tail'[Producing]
      /\ track.tail <= tail[Producing] => track.tail <= tail'[Producing]
      /\ track.tail < tail[Producing] => track.tail < tail'[Producing]
  BY <1>1 DEF WindowMove
<1>3. Started => Started'
  BY DEF SlotMove, Started
<1>4. Windows'
  BY <1>1, <1>2, <1>3 DEF Windows, SawRunning, StatusRead, TailRead, SlotMove, WindowMove
<1> QED
  BY <1>4 DEF StallGenuine, SlotMove

(* The same for a step that leaves the rings alone.                            *)
LEMMA ProcessKept ==
  ASSUME MInd, Types', Lifecycle', SlotWords', SlotMove, UNCHANGED rings,
         hist'.since = hist.since,
         hist'.fresh => hist.fresh /\ stage'[1] \notin {"crashed", "gone"}
  PROVE  MInd'
<1>1. /\ Types /\ Reports /\ Windows /\ StallGenuine /\ RingsMoved
      /\ UNCHANGED <<mine, epoch, tail>>
  BY DEF MInd, rings
<1>2. Reports'
  BY <1>1, ReportsKept
<1>3. WindowMove
  <2>1. Producing \in Rings /\ tail[Producing] \in Nat
    BY <1>1, Constants DEF Types, Producing
  <2> QED
    BY <1>1, <2>1 DEF WindowMove
<1>4. Windows' /\ StallGenuine'
  BY <1>1, <1>3, WindowsKept
<1>5. RingsMoved'
  <2>1. stage'[1] # "gone" => stage[1] # "gone"
    BY Constants DEF SlotMove
  <2> QED
    BY <1>1, <2>1 DEF RingsMoved, SawRunning, StatusRead, SlotMove
<1> QED
  BY <1>2, <1>4, <1>5 DEF MInd

LEMMA WritePidfileStep ==
  ASSUME MInd, NEW k \in Procs, WritePidfile(k)
  PROVE  MInd'
<1> USE Constants
<1>1. Types /\ Lifecycle /\ SlotWords /\ Windows /\ Types'
  BY ProcessTypes DEF MInd, Process
<1>2. /\ stage[k] = "new" /\ stage' = [stage EXCEPT ![k] = "pid"] /\ pidfile' = k
      /\ UNCHANGED <<role, stopped, status, rings, mon, hist>> /\ stage \in [Procs -> Stages]
  BY <1>1 DEF WritePidfile, Moves, Types
<1>3. Lifecycle'
  BY <1>1, <1>2 DEF Lifecycle
<1>4. /\ pidfile \in Procs => pidfile < k
      /\ \A j \in Procs \ {k} : stage[j] \in {"none", "gone"}
  <2>1. \A j \in Procs \ {k} : stage[j] \in {"none", "gone"}
    BY <1>1, <1>2 DEF Lifecycle
  <2>2. \A j \in Procs : j > k => stage[j] = "none"
    BY <1>1, <1>2 DEF Lifecycle
  <2>3. pidfile \in Procs => pidfile < k
    BY <1>1, <1>2, <2>2 DEF SlotWords
  <2> QED
    BY <2>1, <2>3
<1>5. SlotWords'
  BY <1>1, <1>2, <1>4 DEF SlotWords, Started
<1>6. SlotMove
  BY <1>1, <1>2, <1>4 DEF SlotMove, Started, mon, Types
<1>7. hist.fresh => stage'[1] \notin {"crashed", "gone"}
  BY <1>1, <1>2 DEF Windows
<1> QED
  BY <1>1, <1>2, <1>3, <1>5, <1>6, <1>7, ProcessKept

LEMMA RemovePidfileStep ==
  ASSUME MInd, NEW k \in Procs, RemovePidfile(k)
  PROVE  MInd'
<1> USE Constants
<1>1. Types /\ Lifecycle /\ SlotWords /\ Windows /\ Types'
  BY ProcessTypes DEF MInd, Process
<1>2. /\ stage[k] \in {"quit", "standby"} /\ stage' = [stage EXCEPT ![k] = "exited"] /\ pidfile' = NoPid
      /\ UNCHANGED <<role, stopped, status, rings, mon, hist>> /\ stage \in [Procs -> Stages]
  BY <1>1 DEF RemovePidfile, Types
<1>3. Lifecycle'
  BY <1>1, <1>2 DEF Lifecycle
<1>4. /\ "RUNNING" \notin status
      /\ \A j \in Procs \ {k} : stage[j] \in {"none", "gone"}
  BY <1>1, <1>2 DEF Lifecycle, SlotWords
<1>5. SlotWords'
  BY <1>1, <1>2, <1>4 DEF SlotWords, Started
<1>6. SlotMove
  BY <1>1, <1>2, <1>4 DEF SlotMove, Started, mon
<1>7. hist.fresh => stage'[1] \notin {"crashed", "gone"}
  BY <1>1, <1>2 DEF Windows
<1> QED
  BY <1>1, <1>2, <1>3, <1>5, <1>6, <1>7, ProcessKept

LEMMA StoreIdleStep ==
  ASSUME MInd, NEW k \in Procs, StoreIdle(k)
  PROVE  MInd'
<1> USE Constants
<1>1. Types /\ Lifecycle /\ SlotWords /\ Windows /\ Types'
  BY ProcessTypes DEF MInd, Process
<1>2. /\ stage[k] = "running" /\ stage' = [stage EXCEPT ![k] = "quit"] /\ status' = {"IDLE"}
      /\ UNCHANGED <<role, stopped, pidfile, rings, mon, hist>> /\ stage \in [Procs -> Stages]
  BY <1>1 DEF StoreIdle, Moves, Types
<1>3. Lifecycle'
  BY <1>1, <1>2 DEF Lifecycle
<1>4. SlotWords'
  BY <1>1, <1>2 DEF SlotWords, Started
<1>5. SlotMove
  BY <1>1, <1>2 DEF SlotMove, Started, mon
<1>6. hist.fresh => stage'[1] \notin {"crashed", "gone"}
  BY <1>1, <1>2 DEF Windows
<1> QED
  BY <1>1, <1>2, <1>3, <1>4, <1>5, <1>6, ProcessKept

LEMMA CrashStep ==
  ASSUME MInd, NEW k \in Procs, Crash(k)
  PROVE  MInd'
<1> USE Constants
<1>1. Types /\ Lifecycle /\ SlotWords /\ Windows /\ Types'
  BY ProcessTypes DEF MInd, Process
<1>2. /\ stage[k] \in {"new", "pid", "running", "standby", "quit"}
      /\ stage' = [stage EXCEPT ![k] = "crashed"]
      /\ UNCHANGED <<role, pidfile, status, rings, mon>> /\ stage \in [Procs -> Stages]
  BY <1>1 DEF Crash, Current, Types
<1>3. /\ hist'.crashes = hist.crashes + 1 /\ ~hist'.fresh /\ hist'.since = hist.since
      /\ hist'.reported = hist.reported /\ hist'.raced = hist.raced /\ hist'.read = hist.read
      /\ hist.crashes \in Nat
  BY <1>1 DEF Crash, Types, HistRecord
<1>4. hist.crashes + 1 >= k
  <2>1. CASE k = 1
    BY <1>3, <2>1
  <2>2. CASE k # 1
    <3>1. k - 1 \in Procs /\ k - 1 < k
      BY <2>2, ConfigAssumption DEF Procs
    <3>2. stage[k - 1] = "gone"
      BY <1>1, <1>2, <3>1 DEF Lifecycle
    <3>3. hist.crashes >= k - 1
      BY <1>1, <3>1, <3>2 DEF Lifecycle
    <3> QED
      BY <1>3, <3>1, <3>3
  <2> QED
    BY <2>1, <2>2
<1>5. Lifecycle'
  <2>1. \A j \in Procs : stage'[j] \in {"crashed", "gone"} => hist'.crashes >= j
    BY <1>1, <1>2, <1>3, <1>4 DEF Lifecycle
  <2> QED
    BY <1>1, <1>2, <2>1 DEF Lifecycle
<1>6. SlotWords'
  <2>1. "RUNNING" \in status => Started'
    BY <1>1, <1>2 DEF SlotWords, Started
  <2>2. pidfile # NoPid => stage'[pidfile] \notin {"none", "new"}
    BY <1>1, <1>2 DEF SlotWords, Types
  <2> QED
    BY <1>1, <1>2, <2>1, <2>2 DEF SlotWords
<1>7. SlotMove
  BY <1>1, <1>2, <1>3 DEF SlotMove, Started, mon, Types
<1> QED
  BY <1>1, <1>2, <1>3, <1>5, <1>6, <1>7, ProcessKept

LEMMA ReapStep ==
  ASSUME MInd, NEW k \in Procs, Reap(k)
  PROVE  MInd'
<1> USE Constants
<1>1. Types /\ Lifecycle /\ SlotWords /\ Windows /\ Types'
  BY ProcessTypes DEF MInd, Process
<1>2. /\ stage[k] = "crashed" /\ stage' = [stage EXCEPT ![k] = "gone"]
      /\ UNCHANGED <<role, stopped, pidfile, status, rings, mon, hist>> /\ stage \in [Procs -> Stages]
  BY <1>1 DEF Reap, Moves, Types
<1>3. Lifecycle'
  BY <1>1, <1>2 DEF Lifecycle
<1>4. SlotWords'
  BY <1>1, <1>2 DEF SlotWords, Started, Types
<1>5. SlotMove
  BY <1>1, <1>2 DEF SlotMove, Started, mon, Types
<1>6. hist.fresh => stage'[1] \notin {"crashed", "gone"}
  BY <1>1, <1>2 DEF Windows
<1> QED
  BY <1>1, <1>2, <1>3, <1>4, <1>5, <1>6, ProcessKept

LEMMA ReplaceStep ==
  ASSUME MInd, NEW k \in Procs, Replace(k)
  PROVE  MInd'
<1> USE Constants
<1>1. Types /\ Lifecycle /\ SlotWords /\ Windows /\ Types'
  BY ProcessTypes DEF MInd, Process
<1>2. /\ stage[k] = "none" /\ stage' = [stage EXCEPT ![k] = "new"]
      /\ k - 1 \in Procs /\ stage[k - 1] = "gone"
      /\ UNCHANGED <<role, stopped, pidfile, status, rings, mon, hist>> /\ stage \in [Procs -> Stages]
  BY <1>1 DEF Replace, Moves, Types
<1>3. \A j \in Procs : j < k => stage[j] = "gone"
  <2>1. \A j \in Procs : j < k => j = k - 1 \/ j < k - 1
    BY <1>2
  <2> QED
    BY <1>1, <1>2, <2>1 DEF Lifecycle
<1>4. \A j \in Procs : j > k => stage[j] = "none"
  BY <1>1, <1>2 DEF Lifecycle
<1>5. Lifecycle'
  BY <1>1, <1>2, <1>3, <1>4 DEF Lifecycle
<1>6. SlotWords'
  <2>1. k # 1
    BY <1>1, <1>2 DEF Lifecycle
  <2> QED
    BY <1>1, <1>2, <2>1 DEF SlotWords, Started, Types
<1>7. SlotMove
  BY <1>1, <1>2 DEF SlotMove, Started, mon, Types
<1>8. hist.fresh => stage'[1] \notin {"crashed", "gone"}
  BY <1>1, <1>2 DEF Windows
<1> QED
  BY <1>1, <1>2, <1>5, <1>6, <1>7, <1>8, ProcessKept

LEMMA StopStep ==
  ASSUME MInd, Types', Continue \/ \E k \in Procs : Stop(k)
  PROVE  MInd'
<1> USE Constants
<1>1. Types /\ Lifecycle /\ SlotWords /\ Windows
  BY DEF MInd
<1>2. /\ UNCHANGED <<role, stage, pidfile, status, rings, mon>>
      /\ hist'.crashes = hist.crashes /\ hist'.fresh = hist.fresh /\ hist'.since = hist.since
      /\ hist'.reported = hist.reported /\ hist'.raced = hist.raced /\ hist'.read = hist.read
  BY <1>1 DEF Stop, Continue, Types, HistRecord
<1>3. Lifecycle' /\ SlotWords'
  BY <1>1, <1>2 DEF Lifecycle, SlotWords, Started
<1>4. SlotMove
  BY <1>1, <1>2 DEF SlotMove, Started, mon, Types
<1>5. hist.fresh => stage'[1] \notin {"crashed", "gone"}
  BY <1>1, <1>2 DEF Windows
<1> QED
  BY <1>1, <1>2, <1>3, <1>4, <1>5, ProcessKept

(* The status store of run_standby.                                            *)
LEMMA StoreStandbyStep ==
  ASSUME MInd, NEW k \in Procs, StoreStatus(k), ~(HotStart /\ k = 1)
  PROVE  MInd'
<1> USE Constants
<1>1. Types /\ Lifecycle /\ SlotWords /\ Windows /\ Types'
  BY ProcessTypes DEF MInd, Process
<1>2. /\ stage[k] = "pid" /\ stage' = [stage EXCEPT ![k] = "standby"] /\ status' = {"IDLE"}
      /\ UNCHANGED <<role, stopped, pidfile, rings, mon, hist>> /\ stage \in [Procs -> Stages]
  BY <1>1 DEF StoreStatus, Moves, Types
<1>3. Lifecycle'
  BY <1>1, <1>2 DEF Lifecycle
<1>4. SlotWords'
  BY <1>1, <1>2 DEF SlotWords, Started, Types
<1>5. SlotMove
  BY <1>1, <1>2 DEF SlotMove, Started, mon, Types
<1>6. hist.fresh => stage'[1] \notin {"crashed", "gone"}
  BY <1>1, <1>2 DEF Windows
<1> QED
  BY <1>1, <1>2, <1>3, <1>4, <1>5, <1>6, ProcessKept

(* The RUNNING store, of run_hot or of a promoted standby: the slot has reported *)
(* nothing so far and was never announced.                                      *)
LEMMA RunningStep ==
  ASSUME MInd, Types', stage[1] \in {"pid", "standby"}, stage' = [stage EXCEPT ![1] = "running"],
         status' = {"RUNNING"}, hist' = NowRunning, role # "hot" => 1 \in mine,
         UNCHANGED <<role, stopped, pidfile, rings, mon>>
  PROVE  MInd'
<1> USE Constants
<1>1. /\ Types /\ Lifecycle /\ SlotWords /\ RingsMoved /\ Reports /\ Windows /\ StallGenuine
      /\ stage \in [Procs -> Stages]
      /\ UNCHANGED <<mpc, obs, track, alert, mine, epoch, tail>>
  BY DEF MInd, Types, rings, mon
<1>2. /\ hist'.since = 0 /\ hist'.fresh /\ hist'.read = hist.read /\ hist'.reported = hist.reported
      /\ hist'.crashes = hist.crashes
      /\ hist'.raced = IF mpc = "status" /\ ~obs.alive THEN hist.raced + 1 ELSE hist.raced
  BY <1>1, RunningType
<1>3. Lifecycle'
  BY <1>1, <1>2 DEF Lifecycle
<1>4. pidfile = 1
  BY <1>1 DEF SlotWords
<1>5. SlotWords'
  BY <1>1, <1>4 DEF SlotWords, Started, Lifecycle
<1>6. RingsMoved'
  BY <1>1 DEF RingsMoved
<1>7. ~Started /\ Started' /\ hist.reported = 0 /\ ~track.crash_alerted /\ ~track.running_announced
  BY <1>1, FieldTypes DEF Reports, Windows, Started
<1>8. Reports'
  <2>1. hist.raced \in Nat /\ hist'.raced \in Nat /\ NoPid \in Gone'
    BY <1>1, <1>2, FieldTypes DEF Gone
  <2>2. \E j \in Gone' : hist'.reported <= hist'.raced + j
    BY <1>2, <1>7, <2>1
  <2>3. hist'.reported + 1 <= hist'.raced + pidfile'
    BY <1>2, <1>4, <1>7, <2>1
  <2>4. ~SawRunning'
    BY <1>1, <1>7 DEF Windows, SawRunning, StatusRead
  <2>5. mpc = "status" /\ ~obs.alive => \E j \in Gone' : hist'.reported + 1 <= hist'.raced + j
    BY <1>2, <1>7, <2>1
  <2> QED
    BY <1>1, <1>2, <1>7, <2>2, <2>3, <2>4, <2>5 DEF Reports
<1>9. Windows' /\ StallGenuine'
  <2>1. tail[Producing] = 0 /\ Producing' = Producing
    BY <1>1, <1>7 DEF Windows, Producing, HotStart
  <2>2. ~SawRunning'
    BY <1>1, <1>7 DEF Windows, SawRunning, StatusRead
  <2>3. Windows'
    BY <1>1, <1>2, <1>7, <2>1, <2>2 DEF Windows
  <2> QED
    BY <1>1, <1>2, <2>3 DEF StallGenuine
<1> QED
  BY <1>3, <1>5, <1>6, <1>8, <1>9 DEF MInd

LEMMA CommitStep ==
  ASSUME MInd, NEW k \in Procs, Commit(k)
  PROVE  MInd'
<1> USE Constants
<1>1. /\ Types /\ Lifecycle /\ SlotWords /\ RingsMoved /\ Reports /\ Windows /\ StallGenuine /\ Types'
  BY ProcessTypes DEF MInd, Process
<1>2. /\ stage[k] = "running" /\ k = 1 /\ status' \in {status, status \cup {"OVERRUN"}}
      /\ tail' = [tail EXCEPT ![Producing] = @ + 1]
      /\ UNCHANGED <<role, stage, stopped, pidfile, mine, epoch, mpc, obs, track, alert>>
  BY <1>1 DEF Commit, Lifecycle, mon
<1>3. /\ hist'.since = 0 /\ ~hist'.fresh /\ hist'.crashes = hist.crashes
      /\ hist'.reported = hist.reported /\ hist'.raced = hist.raced /\ hist'.read = hist.read
  BY <1>1 DEF Commit, Types, HistRecord
<1>4. "RUNNING" \in status' <=> "RUNNING" \in status
  BY <1>2
<1>5. Lifecycle'
  BY <1>1, <1>2, <1>3 DEF Lifecycle
<1>6. SlotWords'
  BY <1>1, <1>2, <1>4 DEF SlotWords, Started
<1>7. RingsMoved'
  BY <1>1, <1>2, <1>4 DEF RingsMoved, SawRunning, StatusRead
<1>8. SlotMove
  BY <1>1, <1>2, <1>3, <1>4 DEF SlotMove, Started, Types
<1>9. Reports'
  BY <1>1, <1>8, ReportsKept
<1>10. Windows' /\ StallGenuine'
  <2>1. /\ Producing' = Producing /\ Producing \in Rings
        /\ tail[Producing] \in Nat /\ tail'[Producing] = tail[Producing] + 1
        /\ track.tail \in Nat /\ obs.tail \in Nat
    BY <1>1, <1>2, FieldTypes DEF Types, Producing, HotStart
  <2>2. /\ obs.tail <= tail[Producing] => obs.tail <= tail'[Producing]
        /\ track.tail <= tail[Producing] => track.tail < tail'[Producing] /\ track.tail <= tail'[Producing]
    BY <2>1
  <2>3. Started /\ Started'
    BY <1>2 DEF Started
  <2>4. Windows'
    BY <1>1, <1>2, <1>3, <2>1, <2>2, <2>3 DEF Windows, SawRunning, StatusRead, TailRead
  <2> QED
    BY <1>1, <1>2, <1>3, <2>4 DEF StallGenuine
<1> QED
  BY <1>1, <1>5, <1>6, <1>7, <1>9, <1>10 DEF MInd

(* transfer_ownership, and the commits of who has the ring now.                 *)
LEMMA WorldStep ==
  ASSUME MInd, TransferBegin \/ TransferEnd \/ OtherCommit
  PROVE  MInd'
<1> USE Constants
<1>1. /\ Types /\ Lifecycle /\ SlotWords /\ RingsMoved /\ Reports /\ Windows /\ StallGenuine /\ Types'
  BY WorldTypes DEF MInd
<1>2. UNCHANGED <<role, stage, stopped, pidfile, status, mpc, obs, track, alert, hist>>
  BY DEF TransferBegin, TransferEnd, OtherCommit, procs, mon
<1>3. Lifecycle' /\ SlotWords'
  BY <1>1, <1>2 DEF Lifecycle, SlotWords, Started
<1>4. SlotMove
  BY <1>1, <1>2 DEF SlotMove, Started, Types
<1>5. Reports'
  BY <1>1, <1>4, ReportsKept
<1>6. RingsMoved'
  <2>1. CASE TransferBegin
    <3>1. role = "hot" => stage[1] = "gone"
      BY <1>1, <2>1 DEF TransferBegin, Lifecycle, HotStart, Procs
    <3> QED
      BY <1>1, <1>2, <2>1, <3>1 DEF RingsMoved, TransferBegin, SawRunning, StatusRead, Moving, HotStart, Types
  <2>2. CASE TransferEnd
    BY <1>1, <1>2, <2>2 DEF RingsMoved, TransferEnd, SawRunning, StatusRead, Moving, HotStart, Types
  <2>3. CASE OtherCommit
    BY <1>1, <1>2, <2>3 DEF RingsMoved, OtherCommit, SawRunning, StatusRead
  <2> QED
    BY <2>1, <2>2, <2>3
<1>7. Windows' /\ StallGenuine'
  <2>1. Producing \in Rings /\ tail[Producing] \in Nat
    BY <1>1 DEF Types, Producing
  <2>2. hist.fresh => stage[1] \notin {"crashed", "gone"}
    BY <1>1 DEF Windows
  <2>3. CASE UNCHANGED tail
    <3>1. WindowMove
      BY <1>2, <2>1, <2>2, <2>3 DEF WindowMove
    <3> QED
      BY <1>1, <1>4, <3>1, WindowsKept
  <2>4. CASE OtherCommit
    <3>1. stage[1] = "gone"
      BY <1>1, <2>4 DEF RingsMoved, OtherCommit
    <3>2. tail'[Producing] >= tail[Producing]
      BY <1>1, <2>1, <2>4 DEF OtherCommit, Types
    <3>3. WindowMove
      BY <1>2, <2>2, <3>1, <3>2 DEF WindowMove, Started
    <3> QED
      BY <1>1, <1>4, <3>3, WindowsKept
  <2> QED
    BY <2>3, <2>4 DEF TransferBegin, TransferEnd
<1> QED
  BY <1>1, <1>3, <1>5, <1>6, <1>7 DEF MInd

LEMMA ProcessStep ==
  ASSUME MInd, NEW k \in Procs, Process(k)
  PROVE  MInd'
<1>1. Types /\ Types' /\ RingsMoved
  BY ProcessTypes DEF MInd
<1>2. CASE StoreStatus(k)
  <2>1. CASE HotStart /\ k = 1
    BY <1>1, <1>2, <2>1, RunningStep DEF StoreStatus, Moves, HotStart
  <2> QED
    BY <1>2, <2>1, StoreStandbyStep
<1>3. CASE Promoted(k)
  BY <1>1, <1>3, RunningStep, Constants DEF Promoted, Moves
<1>4. CASE Stop(k)
  BY <1>1, <1>4, StopStep
<1> QED
  BY <1>2, <1>3, <1>4, WritePidfileStep, CommitStep, StoreIdleStep, RemovePidfileStep, CrashStep,
     ReapStep, ReplaceStep DEF Process

-----------------------------------------------------------------------------
(* The monitor's poll.                                                        *)

LEMMA PollAliveStep ==
  ASSUME MInd, PollAlive
  PROVE  MInd'
<1> USE Constants
<1>1. /\ Types /\ Lifecycle /\ SlotWords /\ RingsMoved /\ Reports /\ Windows /\ StallGenuine
  BY DEF MInd
<1>2. /\ mpc = "sleep" /\ mpc' = "status" /\ obs' = [obs EXCEPT !.alive = Exists(pidfile)]
      /\ UNCHANGED <<role, stage, stopped, pidfile, status, mine, epoch, tail, track, alert, hist>>
  BY DEF PollAlive, procs, rings
<1>3. PICK a \in BOOLEAN : a = (pidfile \in Procs /\ stage[pidfile] \notin {"none", "gone"})
  OBVIOUS
<1>4. obs' \in ObsRecord /\ obs'.alive = a
  BY <1>1, <1>2, <1>3 DEF Types, ObsRecord, Exists
<1>5. Types'
  BY <1>1, <1>2, <1>4 DEF Types
<1>6. Lifecycle' /\ SlotWords' /\ RingsMoved'
  BY <1>1, <1>2 DEF Lifecycle, SlotWords, RingsMoved, Started, SawRunning, StatusRead
<1>7. Reports'
  <2>1. Gone' = Gone /\ (Started' <=> Started) /\ ~SawRunning' /\ ~StatusRead'
    BY <1>2 DEF Gone, Started, SawRunning, StatusRead
  <2>2. a => hist.reported + 1 <= hist.raced + pidfile
    <3> SUFFICES ASSUME a PROVE hist.reported + 1 <= hist.raced + pidfile
      OBVIOUS
    <3>1. PICK j \in Gone : hist.reported <= hist.raced + j
      BY <1>1 DEF Reports
    <3>2. j < pidfile
      <4>1. pidfile \in Procs /\ stage[pidfile] \notin {"none", "gone"} /\ pidfile \in Nat /\ pidfile # 0
        BY <1>3
      <4>2. CASE j = NoPid
        BY <4>1, <4>2
      <4>3. CASE j \in Procs /\ stage[j] = "gone"
        <5>1. j \in Nat /\ j # pidfile /\ ~(pidfile < j)
          BY <1>1, <4>1, <4>3 DEF Lifecycle
        <5> QED
          BY <4>1, <5>1
      <4> QED
        BY <4>2, <4>3 DEF Gone
    <3>3. j \in Nat /\ pidfile \in Nat /\ hist.reported \in Nat /\ hist.raced \in Nat
      BY <1>1, FieldTypes, GoneNat DEF Types
    <3> QED
      BY <3>1, <3>2, <3>3
  <2>3. ~a /\ "RUNNING" \in status => pidfile \in Gone
    BY <1>1, <1>3 DEF SlotWords, Gone, Types
  <2>4. ~a /\ "RUNNING" \in status /\ ~track.crash_alerted =>
          \E j \in Gone : hist.reported + 1 <= hist.raced + j
    BY <1>1, <2>3 DEF Reports
  <2> QED
    BY <1>1, <1>2, <1>4, <2>1, <2>2, <2>4 DEF Reports
<1>8. Windows' /\ StallGenuine'
  BY <1>1, <1>2 DEF Windows, StallGenuine, SawRunning, StatusRead, Started, Producing, HotStart
<1> QED
  BY <1>5, <1>6, <1>7, <1>8 DEF MInd

LEMMA PollStatusStep ==
  ASSUME MInd, PollStatus
  PROVE  MInd'
<1> USE Constants
<1>1. /\ Types /\ Lifecycle /\ SlotWords /\ RingsMoved /\ Reports /\ Windows /\ StallGenuine
  BY DEF MInd
<1>2. /\ mpc = "status" /\ mpc' = "owned" /\ obs' = [obs EXCEPT !.status = status]
      /\ UNCHANGED <<role, stage, stopped, pidfile, status, mine, epoch, tail, track, alert, hist>>
  BY DEF PollStatus, procs, rings
<1>3. obs' \in ObsRecord /\ obs'.status = status /\ obs'.alive = obs.alive
  BY <1>1, <1>2 DEF Types, ObsRecord
<1>4. Types'
  BY <1>1, <1>2, <1>3 DEF Types
<1>5. SawRunning' <=> "RUNNING" \in status
  BY <1>2, <1>3 DEF SawRunning, StatusRead
<1>6. Lifecycle' /\ SlotWords' /\ RingsMoved'
  BY <1>1, <1>2, <1>5 DEF Lifecycle, SlotWords, RingsMoved, Started
<1>7. Reports'
  <2>1. Gone' = Gone /\ (Started' <=> Started) /\ Polled
    BY <1>2 DEF Gone, Started, Polled
  <2> QED
    BY <1>1, <1>2, <1>3, <1>5, <2>1 DEF Reports
<1>8. Windows' /\ StallGenuine'
  BY <1>1, <1>2, <1>5 DEF Windows, StallGenuine, TailRead, Started, Producing, HotStart, SlotWords
<1> QED
  BY <1>4, <1>6, <1>7, <1>8 DEF MInd

(* The later reads keep what the first two have found.                         *)
LEMMA LaterReads ==
  ASSUME MInd, Types', UNCHANGED <<procs, rings, track, alert>>, StatusRead, StatusRead',
         obs'.alive = obs.alive, obs'.status = obs.status,
         hist'.crashes = hist.crashes, hist'.reported = hist.reported, hist'.raced = hist.raced
  PROVE  Lifecycle' /\ SlotWords' /\ RingsMoved' /\ Reports'
<1>1. /\ Types /\ Lifecycle /\ SlotWords /\ RingsMoved /\ Reports
      /\ UNCHANGED <<role, stage, stopped, pidfile, status, mine, epoch, tail, track, alert>>
  BY DEF MInd, procs, rings
<1>2. SawRunning' <=> SawRunning
  BY DEF SawRunning
<1>3. Gone' = Gone /\ (Started' <=> Started) /\ Polled /\ Polled' /\ mpc # "status" /\ mpc' # "status"
  BY <1>1 DEF Gone, Started, Polled, StatusRead
<1>4. Lifecycle' /\ SlotWords' /\ RingsMoved'
  BY <1>1, <1>2, <1>3 DEF Lifecycle, SlotWords, RingsMoved
<1>5. Reports'
  BY <1>1, <1>2, <1>3 DEF Reports
<1> QED
  BY <1>4, <1>5

LEMMA PollOwnedStep ==
  ASSUME MInd, PollOwned
  PROVE  MInd'
<1> USE Constants
<1>1. /\ Types /\ RingsMoved /\ Windows /\ StallGenuine
  BY DEF MInd
<1>2. /\ mpc = "owned" /\ mpc' = "tail"
      /\ obs' = [obs EXCEPT !.ring = IF 1 \in mine /\ Readable(1) THEN 1 ELSE Home]
      /\ UNCHANGED <<procs, rings, track, alert, hist>>
  BY DEF PollOwned
<1>3. /\ obs' \in ObsRecord /\ obs'.ring = (IF 1 \in mine /\ Readable(1) THEN 1 ELSE Home)
      /\ obs'.status = obs.status /\ obs'.alive = obs.alive
  BY <1>1, <1>2 DEF Types, ObsRecord
<1>4. Types'
  BY <1>1, <1>2, <1>3 DEF Types, procs, rings
<1>5. Lifecycle' /\ SlotWords' /\ RingsMoved' /\ Reports'
  BY <1>2, <1>3, <1>4, LaterReads DEF StatusRead
<1>6. (SawRunning' <=> SawRunning) /\ (Started' <=> Started) /\ Producing' = Producing
  BY <1>2, <1>3 DEF SawRunning, StatusRead, Started, Producing, HotStart, procs
<1>7. SawRunning => obs'.ring = Producing
  BY <1>1, <1>3 DEF RingsMoved, Readable, Producing, HotStart
<1>8. Windows' /\ StallGenuine'
  BY <1>1, <1>2, <1>6, <1>7 DEF Windows, StallGenuine, TailRead, procs, rings
<1> QED
  BY <1>4, <1>5, <1>8 DEF MInd

LEMMA PollTailStep ==
  ASSUME MInd, PollTail
  PROVE  MInd'
<1> USE Constants
<1>1. /\ Types /\ Windows /\ StallGenuine
  BY DEF MInd
<1>2. /\ mpc = "tail" /\ mpc' = "epoch" /\ obs' = [obs EXCEPT !.tail = tail[obs.ring]]
      /\ hist' = [hist EXCEPT !.read = [since |-> hist.since, fresh |-> hist.fresh]]
      /\ UNCHANGED <<procs, rings, track, alert>>
  BY DEF PollTail
<1>3. /\ obs' \in ObsRecord /\ obs'.tail = tail[obs.ring] /\ obs'.ring = obs.ring
      /\ obs'.status = obs.status /\ obs'.alive = obs.alive
  BY <1>1, <1>2 DEF Types, ObsRecord
<1>4. /\ hist' \in HistRecord /\ hist'.crashes = hist.crashes /\ hist'.reported = hist.reported
      /\ hist'.raced = hist.raced /\ hist'.since = hist.since /\ hist'.fresh = hist.fresh
      /\ hist'.read.since = hist.since /\ hist'.read.fresh = hist.fresh
  BY <1>1, <1>2, HistoryTypes DEF Types, HistRecord
<1>5. Types'
  BY <1>1, <1>2, <1>3, <1>4 DEF Types, procs, rings
<1>6. Lifecycle' /\ SlotWords' /\ RingsMoved' /\ Reports'
  BY <1>2, <1>3, <1>4, <1>5, LaterReads DEF StatusRead
<1>7. (SawRunning' <=> SawRunning) /\ (Started' <=> Started) /\ Producing' = Producing
  BY <1>2, <1>3 DEF SawRunning, StatusRead, Started, Producing, HotStart, procs
<1>8. SawRunning => obs'.ring = Producing /\ obs'.tail = tail[Producing]
  BY <1>1, <1>2, <1>3 DEF Windows
<1>9. Producing \in Rings /\ tail[Producing] \in Nat /\ track.age \in Nat /\ hist.since \in Nat
      /\ track.tail \in Nat
  BY <1>1, FieldTypes DEF Types, Producing
<1>10. SawRunning /\ track.running_announced =>
         /\ obs'.tail = track.tail => track.age <= hist.since
         /\ hist.fresh => track.awaiting
  BY <1>1, <1>8, <1>9 DEF Windows
<1>11. Windows'
  BY <1>1, <1>2, <1>4, <1>7, <1>8, <1>9, <1>10 DEF Windows, TailRead, procs, rings
<1>12. alert' # "worker_stalled"
  BY <1>1, <1>2 DEF Windows, NoAlert
<1> QED
  BY <1>5, <1>6, <1>11, <1>12 DEF MInd, StallGenuine

LEMMA PollEpochStep ==
  ASSUME MInd, PollEpoch
  PROVE  MInd'
<1> USE Constants
<1>1. /\ Types /\ Windows /\ StallGenuine
  BY DEF MInd
<1>2. /\ mpc = "epoch" /\ mpc' = "observe"
      /\ obs' = [obs EXCEPT !.epoch = IF Readable(obs.ring) THEN epoch[obs.ring] ELSE 0]
      /\ UNCHANGED <<procs, rings, track, alert, hist>>
  BY DEF PollEpoch
<1>3. PICK e \in {0, 2, 4} : e = IF Readable(obs.ring) THEN epoch[obs.ring] ELSE 0
  <2>1. epoch[obs.ring] \in {2, 3, 4}
    BY <1>1, FieldTypes DEF Types
  <2>2. 3 % 2 = 1
    OBVIOUS
  <2> QED
    BY <2>1, <2>2 DEF Readable
<1>4. /\ obs' \in ObsRecord /\ obs'.tail = obs.tail /\ obs'.ring = obs.ring
      /\ obs'.status = obs.status /\ obs'.alive = obs.alive
  BY <1>1, <1>2, <1>3 DEF Types, ObsRecord
<1>5. Types'
  BY <1>1, <1>2, <1>4 DEF Types, procs, rings
<1>6. Lifecycle' /\ SlotWords' /\ RingsMoved' /\ Reports'
  BY <1>2, <1>4, <1>5, LaterReads DEF StatusRead
<1>7. (SawRunning' <=> SawRunning) /\ (Started' <=> Started) /\ Producing' = Producing
  BY <1>2, <1>4 DEF SawRunning, StatusRead, Started, Producing, HotStart, procs
<1>8. Windows' /\ StallGenuine'
  BY <1>1, <1>2, <1>4, <1>7 DEF Windows, StallGenuine, TailRead, procs, rings
<1> QED
  BY <1>5, <1>6, <1>8 DEF MInd

LEMMA PaceStep ==
  ASSUME MInd, Pace
  PROVE  MInd'
<1> USE Constants
<1>1. /\ Types /\ Lifecycle /\ SlotWords /\ RingsMoved /\ Reports /\ Windows
  BY DEF MInd
<1>2. PICK n \in {1, 2} : /\ track' = [track EXCEPT !.age = Older(@, n)]
                          /\ hist' = [hist EXCEPT !.since = Older(@, n), !.read = NoRead]
  BY DEF Pace
<1>3. /\ mpc = "pace" /\ mpc' = "sleep" /\ alert' = NoAlert /\ obs' = obs
      /\ UNCHANGED <<role, stage, stopped, pidfile, status, mine, epoch, tail>>
  BY DEF Pace, procs, rings
<1>4. PICK a \in 0 .. Old, s \in 0 .. Old :
        a = Older(track.age, n) /\ s = Older(hist.since, n) /\ (s < a => hist.since < track.age)
  BY <1>1, FieldTypes DEF Older
<1>5. /\ track' \in TrackRecord /\ track'.age = a /\ track'.tail = track.tail
      /\ track'.running_announced = track.running_announced /\ track'.awaiting = track.awaiting
      /\ track'.stalled_alerted = track.stalled_alerted /\ track'.crash_alerted = track.crash_alerted
  BY <1>1, <1>2, <1>4 DEF Types, TrackRecord
<1>6. /\ hist' \in HistRecord /\ hist'.since = s /\ hist'.crashes = hist.crashes
      /\ hist'.reported = hist.reported /\ hist'.raced = hist.raced /\ hist'.fresh = hist.fresh
  <2>1. NoRead \in [since : 0 .. Old, fresh : BOOLEAN]
    BY DEF NoRead
  <2> QED
    BY <1>1, <1>2, <1>4, <2>1 DEF Types, HistRecord
<1>7. Types'
  BY <1>1, <1>3, <1>5, <1>6 DEF Types, Alerts
<1>8. /\ ~SawRunning' /\ ~StatusRead' /\ ~Polled' /\ ~TailRead'
      /\ Gone' = Gone /\ (Started' <=> Started) /\ Producing' = Producing
  BY <1>3 DEF SawRunning, StatusRead, Polled, TailRead, Gone, Started, Producing, HotStart
<1>9. Lifecycle' /\ SlotWords' /\ RingsMoved'
  BY <1>1, <1>3, <1>6, <1>8 DEF Lifecycle, SlotWords, RingsMoved
<1>10. Reports'
  BY <1>1, <1>3, <1>5, <1>6, <1>8 DEF Reports
<1>11. Windows'
  BY <1>1, <1>3, <1>4, <1>5, <1>6, <1>8 DEF Windows
<1> QED
  BY <1>3, <1>7, <1>9, <1>10, <1>11 DEF MInd, StallGenuine, NoAlert

(* What is left of the invariant when a verdict has been given.                *)
Verdict ==
  /\ mpc = "observe" /\ mpc' = "pace" /\ obs' = NoObs
  /\ hist' = [hist EXCEPT !.reported = IF alert' = "worker_crashed" THEN @ + 1 ELSE @]
  /\ UNCHANGED <<procs, rings>>

LEMMA VerdictKeeps ==
  ASSUME MInd, Verdict
  PROVE  /\ Lifecycle' /\ SlotWords' /\ RingsMoved'
         /\ ~SawRunning' /\ ~StatusRead' /\ ~Polled' /\ ~TailRead'
         /\ Gone' = Gone /\ (Started' <=> Started) /\ Producing' = Producing
         /\ hist' \in HistRecord /\ hist'.since = hist.since /\ hist'.fresh = hist.fresh
         /\ hist'.raced = hist.raced /\ hist'.read = hist.read
         /\ hist'.reported = IF alert' = "worker_crashed" THEN hist.reported + 1 ELSE hist.reported
         /\ track' \in TrackRecord /\ alert' \in Alerts => Types'
<1> USE Constants
<1>1. Types /\ Lifecycle /\ SlotWords /\ RingsMoved
  BY DEF MInd
<1>2. /\ mpc' = "pace" /\ UNCHANGED <<role, stage, stopped, pidfile, status, mine, epoch, tail>>
  BY DEF Verdict, procs, rings
<1>3. /\ ~SawRunning' /\ ~StatusRead' /\ ~Polled' /\ ~TailRead'
      /\ Gone' = Gone /\ (Started' <=> Started) /\ Producing' = Producing
  BY <1>2 DEF SawRunning, StatusRead, Polled, TailRead, Gone, Started, Producing, HotStart
<1>4. PICK r \in Nat : r = IF alert' = "worker_crashed" THEN hist.reported + 1 ELSE hist.reported
  BY <1>1, FieldTypes
<1>5. /\ hist' \in HistRecord /\ hist'.since = hist.since /\ hist'.fresh = hist.fresh
      /\ hist'.raced = hist.raced /\ hist'.read = hist.read /\ hist'.reported = r
      /\ hist'.crashes = hist.crashes
  BY <1>1, <1>4 DEF Verdict, Types, HistRecord
<1>6. Lifecycle' /\ SlotWords' /\ RingsMoved'
  BY <1>1, <1>2, <1>3, <1>5 DEF Lifecycle, SlotWords, RingsMoved
<1>7. obs' \in ObsRecord
  BY DEF Verdict, NoObs, ObsRecord, Rings
<1>8. track' \in TrackRecord /\ alert' \in Alerts => Types'
  BY <1>1, <1>2, <1>5, <1>7 DEF Types
<1> QED
  BY <1>3, <1>4, <1>5, <1>6, <1>8

(* A verdict other than a crash: the accounts of reports hold again.           *)
LEMMA VerdictReports ==
  ASSUME MInd, Verdict, alert' # "worker_crashed", ~track'.crash_alerted,
         ~DeadRunning
  PROVE  Reports'
<1>1. Types /\ Reports
  BY DEF MInd
<1>2. /\ hist'.reported = hist.reported /\ hist'.raced = hist.raced
      /\ ~SawRunning' /\ ~StatusRead' /\ ~Polled' /\ Gone' = Gone /\ (Started' <=> Started)
      /\ UNCHANGED <<status, pidfile>> /\ mpc = "observe" /\ mpc' = "pace"
  BY VerdictKeeps DEF Verdict, procs
<1>3. "RUNNING" \in status => hist.reported + 1 <= hist.raced + pidfile
  <2>1. CASE obs.alive
    BY <1>1, <1>2, <2>1 DEF Reports, Polled
  <2>2. CASE "RUNNING" \notin obs.status
    <3>1. "RUNNING" \in status => ~track.crash_alerted
      BY <1>1, <1>2, <2>2, FieldTypes DEF Reports, StatusRead
    <3> QED
      BY <1>1, <3>1 DEF Reports
  <2> QED
    BY <2>1, <2>2 DEF DeadRunning
<1> QED
  BY <1>1, <1>2, <1>3 DEF Reports

LEMMA ObserveCrashStep ==
  ASSUME MInd, Verdict, ObserveCrash
  PROVE  MInd'
<1> USE Constants
<1>1. Types /\ Reports /\ Windows
  BY DEF MInd
<1>2. /\ Lifecycle' /\ SlotWords' /\ RingsMoved'
      /\ ~SawRunning' /\ ~StatusRead' /\ ~Polled' /\ ~TailRead'
      /\ Gone' = Gone /\ (Started' <=> Started) /\ Producing' = Producing
      /\ hist'.since = hist.since /\ hist'.fresh = hist.fresh /\ hist'.raced = hist.raced
      /\ hist'.reported = IF alert' = "worker_crashed" THEN hist.reported + 1 ELSE hist.reported
      /\ track' \in TrackRecord /\ alert' \in Alerts => Types'
  BY VerdictKeeps
<1>3. UNCHANGED <<stage, pidfile, status, tail>> /\ mpc = "observe" /\ mpc' = "pace"
  BY DEF Verdict, procs, rings
<1>4. /\ track' \in TrackRecord /\ alert' \in {NoAlert, "worker_crashed"}
      /\ track'.crash_alerted /\ ~track'.stalled_alerted /\ track'.awaiting
      /\ track'.tail = track.tail /\ track'.age = track.age
      /\ track'.running_announced => track.running_announced
      /\ alert' = "worker_crashed" <=> ~track.crash_alerted
  <2>1. CASE track.crash_alerted
    <3>1. /\ alert' = NoAlert
          /\ track' = [track EXCEPT !.stalled_alerted = FALSE, !.awaiting = TRUE]
      BY <2>1 DEF ObserveCrash, Outcome
    <3>2. /\ track' \in TrackRecord /\ track'.crash_alerted /\ ~track'.stalled_alerted
          /\ track'.awaiting /\ track'.tail = track.tail /\ track'.age = track.age
          /\ track'.running_announced = track.running_announced
      BY <1>1, <2>1, <3>1 DEF Types, TrackRecord
    <3> QED
      BY <2>1, <3>1, <3>2 DEF NoAlert
  <2>2. CASE ~track.crash_alerted
    <3>1. /\ alert' = "worker_crashed"
          /\ track' = [[track EXCEPT !.stalled_alerted = FALSE, !.awaiting = TRUE]
                          EXCEPT !.crash_alerted = TRUE, !.running_announced = FALSE,
                                 !.overrun_reported = FALSE, !.state = "crashed"]
      BY <2>2 DEF ObserveCrash, Outcome
    <3>2. /\ track' \in TrackRecord /\ track'.crash_alerted /\ ~track'.stalled_alerted
          /\ track'.awaiting /\ track'.tail = track.tail /\ track'.age = track.age
          /\ ~track'.running_announced
      BY <1>1, <3>1 DEF Types, TrackRecord
    <3> QED
      BY <2>2, <3>1, <3>2
  <2> QED
    BY <2>1, <2>2
<1>5. Types'
  BY <1>2, <1>4 DEF Alerts
<1>6. SawRunning /\ ~obs.alive
  BY <1>3 DEF ObserveCrash, DeadRunning, SawRunning, StatusRead
<1>7. Reports'
  <2>1. hist.reported \in Nat /\ hist.raced \in Nat
    BY <1>1, FieldTypes
  <2>2. \E j \in Gone : hist'.reported <= hist.raced + j
    BY <1>1, <1>2, <1>4, <1>6 DEF Reports
  <2>3. hist'.reported > 0
    BY <1>1, <1>2, <1>4, <2>1 DEF Reports
  <2>4. Started'
    BY <1>1, <1>2, <1>6 DEF Windows
  <2> QED
    BY <1>2, <1>3, <1>4, <2>2, <2>3, <2>4 DEF Reports
<1>8. Windows'
  BY <1>1, <1>2, <1>3, <1>4 DEF Windows
<1>9. StallGenuine'
  BY <1>4 DEF StallGenuine, NoAlert
<1> QED
  BY <1>2, <1>5, <1>7, <1>8, <1>9 DEF MInd

LEMMA RearmedType ==
  ASSUME Types
  PROVE  /\ Rearmed \in TrackRecord /\ ~Rearmed.crash_alerted
         /\ Rearmed.tail = track.tail /\ Rearmed.age = track.age /\ Rearmed.awaiting = track.awaiting
         /\ Rearmed.running_announced = track.running_announced
         /\ Rearmed.stalled_alerted = track.stalled_alerted /\ Rearmed.epoch = track.epoch
BY DEF Types, TrackRecord, Rearmed

LEMMA ObserveIdleStep ==
  ASSUME MInd, Verdict, ObserveIdle
  PROVE  MInd'
<1> USE Constants
<1>1. Types /\ Windows
  BY DEF MInd
<1>2. /\ Lifecycle' /\ SlotWords' /\ RingsMoved'
      /\ ~SawRunning' /\ ~TailRead' /\ (Started' <=> Started) /\ Producing' = Producing
      /\ hist'.since = hist.since /\ hist'.fresh = hist.fresh
      /\ track' \in TrackRecord /\ alert' \in Alerts => Types'
  BY VerdictKeeps
<1>3. UNCHANGED <<stage, tail>> /\ mpc' = "pace"
  BY DEF Verdict, procs, rings
<1>4. /\ track' \in TrackRecord /\ alert' \in {NoAlert, "worker_idle"}
      /\ ~track'.crash_alerted
      /\ track'.running_announced =>
           /\ track.running_announced
           /\ track'.tail = track.tail /\ track'.age = track.age /\ track'.awaiting = track.awaiting
      /\ track'.stalled_alerted => track'.running_announced
  <2>1. CASE track' = Rearmed /\ alert' = NoAlert
    BY <1>1, <2>1, RearmedType DEF Windows
  <2>2. CASE /\ track' = [Rearmed EXCEPT !.idle_announced = TRUE, !.running_announced = FALSE,
                                         !.stalled_alerted = FALSE, !.state = "idle"]
             /\ alert' = "worker_idle"
    BY <1>1, <2>2, RearmedType DEF TrackRecord
  <2> QED
    BY <2>1, <2>2 DEF ObserveIdle, Outcome
<1>5. Types'
  BY <1>2, <1>4 DEF Alerts
<1>6. Reports'
  BY <1>4, VerdictReports DEF ObserveIdle, DeadRunning, NoAlert
<1>7. Windows'
  BY <1>1, <1>2, <1>3, <1>4 DEF Windows
<1>8. StallGenuine'
  BY <1>4 DEF StallGenuine, NoAlert
<1> QED
  BY <1>2, <1>5, <1>6, <1>7, <1>8 DEF MInd

(* A verdict on a live worker with RUNNING.                                    *)
LiveVerdict ==
  /\ Verdict /\ "RUNNING" \in obs.status /\ ~DeadRunning
  /\ track' \in TrackRecord /\ alert' \in Alerts /\ alert' # "worker_crashed"
  /\ ~track'.crash_alerted /\ track'.running_announced
  /\ track'.tail <= tail[Producing]
  /\ hist.since < track'.age => track'.tail < tail[Producing]
  /\ hist.fresh => track'.awaiting

LEMMA LiveVerdictStep ==
  ASSUME MInd, LiveVerdict, StallGenuine'
  PROVE  MInd'
<1>1. Types /\ Windows /\ Verdict
  BY DEF MInd, LiveVerdict
<1>2. /\ Lifecycle' /\ SlotWords' /\ RingsMoved'
      /\ ~SawRunning' /\ ~TailRead' /\ (Started' <=> Started) /\ Producing' = Producing
      /\ hist'.since = hist.since /\ hist'.fresh = hist.fresh
      /\ track' \in TrackRecord /\ alert' \in Alerts => Types'
  BY <1>1, VerdictKeeps
<1>3. UNCHANGED <<stage, tail>> /\ mpc' = "pace" /\ SawRunning
  BY DEF LiveVerdict, Verdict, procs, rings, SawRunning, StatusRead
<1>4. Types'
  BY <1>2 DEF LiveVerdict
<1>5. Reports'
  BY VerdictReports DEF LiveVerdict
<1>6. Windows'
  <2>1. Started
    BY <1>1, <1>3 DEF Windows
  <2> QED
    BY <1>1, <1>2, <1>3, <2>1 DEF Windows, LiveVerdict
<1> QED
  BY <1>2, <1>4, <1>5, <1>6 DEF MInd

(* What a poll with RUNNING has read of the tail.                              *)
LEMMA TailSeen ==
  ASSUME MInd, mpc = "observe", "RUNNING" \in obs.status
  PROVE  /\ tail[Producing] \in Nat /\ obs.tail \in Nat /\ obs.tail <= tail[Producing]
         /\ hist.since \in Nat
         /\ hist.fresh => tail[Producing] = 0
         /\ track.running_announced =>
              /\ track.tail \in Nat /\ track.tail <= tail[Producing]
              /\ obs.tail = track.tail => track.age <= hist.read.since
              /\ hist.read.fresh => track.awaiting
<1>1. Types /\ Windows
  BY DEF MInd
<1>2. SawRunning /\ TailRead
  BY DEF SawRunning, StatusRead, TailRead
<1>3. Producing \in Rings
  BY Constants DEF Producing
<1>4. tail[Producing] \in Nat /\ obs.tail \in Nat /\ hist.since \in Nat /\ track.tail \in Nat
  BY <1>1, <1>3, FieldTypes, Constants DEF Types
<1> QED
  BY <1>1, <1>2, <1>4 DEF Windows

LEMMA ObserveAnnounceStep ==
  ASSUME MInd, Verdict, ObserveAnnounce
  PROVE  MInd'
<1> USE Constants
<1>1. Types /\ mpc = "observe" /\ "RUNNING" \in obs.status /\ ~DeadRunning
  BY DEF MInd, Verdict, ObserveAnnounce
<1>2. /\ alert' = "worker_running"
      /\ track' = [Rearmed EXCEPT !.running_announced = TRUE, !.idle_announced = FALSE,
                                  !.stalled_alerted = FALSE, !.age = 0, !.tail = obs.tail,
                                  !.epoch = obs.epoch, !.awaiting = TRUE, !.state = "running"]
  BY DEF ObserveAnnounce, Outcome
<1>3. obs.tail \in 0 .. MaxTail /\ obs.epoch \in {0, 2, 4} /\ 0 \in 0 .. Old
  BY <1>1, FieldTypes
<1>4. /\ track' \in TrackRecord /\ ~track'.crash_alerted /\ track'.running_announced
      /\ track'.tail = obs.tail /\ track'.age = 0 /\ track'.awaiting
  BY <1>1, <1>2, <1>3, RearmedType DEF TrackRecord
<1>5. /\ track'.tail <= tail[Producing]
      /\ hist.since < track'.age => track'.tail < tail[Producing]
  BY <1>1, <1>4, TailSeen
<1>6. LiveVerdict
  BY <1>1, <1>2, <1>4, <1>5 DEF LiveVerdict, Alerts
<1> QED
  BY <1>2, <1>6, LiveVerdictStep DEF StallGenuine

(* The track after the epoch was looked at.                                    *)
LEMMA RebasedTrack ==
  ASSUME MInd, mpc = "observe", "RUNNING" \in obs.status, track.running_announced
  PROVE  /\ Rebased \in TrackRecord /\ ~Rebased.crash_alerted /\ Rebased.running_announced
         /\ Rebased.tail \in Nat /\ Rebased.tail <= tail[Producing]
         /\ hist.since < Rebased.age => Rebased.tail < tail[Producing]
         /\ hist.fresh => Rebased.awaiting
         /\ Rebased.age > 0 /\ obs.tail = Rebased.tail => Rebased.age <= hist.read.since
         /\ hist.read.fresh => Rebased.awaiting
<1> USE Constants
<1>1. Types /\ Windows
  BY DEF MInd
<1>2. CASE obs.epoch = track.epoch
  <2>1. Rebased = Rearmed
    BY <1>2 DEF Rebased
  <2> QED
    BY <1>1, <2>1, RearmedType, TailSeen DEF Windows
<1>3. CASE obs.epoch # track.epoch
  <2>1. Rebased = [Rearmed EXCEPT !.epoch = obs.epoch, !.awaiting = TRUE, !.tail = obs.tail,
                                  !.age = 0, !.stalled_alerted = FALSE]
    BY <1>3 DEF Rebased
  <2>2. obs.tail \in 0 .. MaxTail /\ obs.epoch \in {0, 2, 4} /\ 0 \in 0 .. Old
    BY <1>1, FieldTypes
  <2>3. /\ Rebased \in TrackRecord /\ ~Rebased.crash_alerted /\ Rebased.running_announced
        /\ Rebased.tail = obs.tail /\ Rebased.age = 0 /\ Rebased.awaiting
    BY <1>1, <2>1, <2>2, RearmedType DEF TrackRecord
  <2>4. /\ obs.tail \in Nat /\ obs.tail <= tail[Producing] /\ hist.since \in Nat
    BY TailSeen
  <2>5. ~(hist.since < Rebased.age) /\ ~(Rebased.age > 0)
    BY ONLY <2>3, <2>4
  <2> QED
    BY ONLY <2>3, <2>4, <2>5
<1> QED
  BY <1>2, <1>3

LEMMA ObserveProgressStep ==
  ASSUME MInd, Verdict, ObserveProgress
  PROVE  MInd'
<1> USE Constants
<1>1. /\ Types /\ mpc = "observe" /\ "RUNNING" \in obs.status /\ ~DeadRunning
      /\ track.running_announced
  BY DEF MInd, Verdict, ObserveProgress
<1>2. PICK t \in TrackRecord :
        /\ t = Rebased /\ ~t.crash_alerted /\ t.running_announced
        /\ t.tail \in Nat /\ t.tail <= tail[Producing]
        /\ hist.since < t.age => t.tail < tail[Producing]
        /\ hist.fresh => t.awaiting
        /\ t.age > 0 /\ obs.tail = t.tail => t.age <= hist.read.since
        /\ hist.read.fresh => t.awaiting
  BY <1>1, RebasedTrack
<1>3. obs.tail \in 0 .. MaxTail /\ 0 \in 0 .. Old
  BY <1>1, FieldTypes
<1>4. /\ Moved(t) \in TrackRecord /\ ~Moved(t).crash_alerted /\ Moved(t).running_announced
      /\ Moved(t).tail = obs.tail /\ Moved(t).age = 0
  BY <1>2, <1>3 DEF Moved, TrackRecord
<1>5. obs.tail # t.tail => ~hist.fresh
  <2>1. obs.tail \in Nat /\ tail[Producing] \in Nat /\ obs.tail <= tail[Producing]
    BY <1>1, TailSeen
  <2>2. hist.fresh => tail[Producing] = 0
    BY <1>1, TailSeen
  <2> QED
    BY ONLY <1>2, <2>1, <2>2
<1>6. ASSUME NEW u \in TrackRecord, Overrun(u), ~u.crash_alerted, u.running_announced,
             u.tail <= tail[Producing], hist.since < u.age => u.tail < tail[Producing],
             hist.fresh => u.awaiting
      PROVE  MInd'
  <2>1. PICK b \in BOOLEAN : b = ("OVERRUN" \in obs.status)
    BY ("OVERRUN" \in obs.status) \in BOOLEAN
  <2>2. track' = [u EXCEPT !.overrun_reported = b] /\ alert' \in {"worker_overrun", NoAlert}
    BY <1>6, <2>1 DEF Overrun, Outcome
  <2>3. /\ track' \in TrackRecord /\ track'.crash_alerted = u.crash_alerted
        /\ track'.running_announced = u.running_announced
        /\ track'.tail = u.tail /\ track'.age = u.age /\ track'.awaiting = u.awaiting
    BY <2>2 DEF TrackRecord
  <2>4. LiveVerdict
    BY <1>1, <1>6, <2>2, <2>3 DEF LiveVerdict, Alerts, NoAlert
  <2> QED
    BY <2>2, <2>4, LiveVerdictStep DEF StallGenuine, NoAlert
<1>7. CASE /\ obs.tail # t.tail /\ t.stalled_alerted
           /\ Outcome([Moved(t) EXCEPT !.stalled_alerted = FALSE, !.state = "running"],
                      "worker_recovered")
  <2>1. /\ alert' = "worker_recovered"
        /\ track' \in TrackRecord /\ ~track'.crash_alerted /\ track'.running_announced
        /\ track'.tail = obs.tail /\ track'.age = 0
    BY <1>4, <1>7 DEF Outcome, TrackRecord
  <2>2. obs.tail <= tail[Producing] /\ ~(hist.since < track'.age)
    BY <1>1, <2>1, TailSeen
  <2>3. LiveVerdict
    BY <1>1, <1>5, <1>7, <2>1, <2>2 DEF LiveVerdict, Alerts
  <2> QED
    BY <2>1, <2>3, LiveVerdictStep DEF StallGenuine
<1>8. CASE obs.tail # t.tail /\ Overrun(Moved(t))
  <2>1. Moved(t).tail <= tail[Producing] /\ ~(hist.since < Moved(t).age)
    BY <1>1, <1>4, TailSeen
  <2> QED
    BY <1>4, <1>5, <1>6, <1>8, <2>1
<1>9. CASE /\ obs.tail = t.tail /\ ~t.stalled_alerted /\ t.age > StallBound(t)
           /\ Outcome([t EXCEPT !.stalled_alerted = TRUE, !.state = "stalled"], "worker_stalled")
  <2>1. /\ alert' = "worker_stalled"
        /\ track' \in TrackRecord /\ track'.crash_alerted = t.crash_alerted
        /\ track'.running_announced = t.running_announced
        /\ track'.tail = t.tail /\ track'.age = t.age /\ track'.awaiting = t.awaiting
    BY <1>2, <1>9 DEF Outcome, TrackRecord
  <2>2. LiveVerdict
    BY <1>1, <1>2, <2>1 DEF LiveVerdict, Alerts
  <2>3. StallGenuine'
    <3>1. hist'.read = hist.read
      BY VerdictKeeps
    <3>2. t.age \in Nat /\ hist.read.since \in Nat
      BY <1>1, FieldTypes DEF TrackRecord
    <3>3. /\ t.age > (IF t.awaiting THEN HandoffGrace ELSE StallThreshold)
          /\ t.age <= hist.read.since
      BY <1>2, <1>9, <3>2 DEF StallBound
    <3>4. hist.read.since > (IF hist.read.fresh THEN HandoffGrace ELSE StallThreshold)
      BY <1>2, <3>2, <3>3
    <3> QED
      BY <3>1, <3>4 DEF StallGenuine
  <2> QED
    BY <2>2, <2>3, LiveVerdictStep
<1>10. CASE Overrun(t)
  BY <1>2, <1>6, <1>10
<1> QED
  BY <1>2, <1>7, <1>8, <1>9, <1>10 DEF ObserveProgress

LEMMA ObserveStep ==
  ASSUME MInd, Observe
  PROVE  MInd'
<1>1. Verdict
  BY DEF Observe, Verdict
<1>2. CASE ObserveCrash
  BY <1>1, <1>2, ObserveCrashStep
<1>3. CASE ObserveIdle
  BY <1>1, <1>3, ObserveIdleStep
<1>4. CASE ObserveAnnounce
  BY <1>1, <1>4, ObserveAnnounceStep
<1>5. CASE ObserveProgress
  BY <1>1, <1>5, ObserveProgressStep
<1> QED
  BY <1>2, <1>3, <1>4, <1>5 DEF Observe

-----------------------------------------------------------------------------
LEMMA MStep ==
  ASSUME MInd, [Next]_mvars
  PROVE  MInd'
<1>1. CASE \E k \in Procs : Process(k)
  BY <1>1, ProcessStep
<1>2. CASE TransferBegin \/ TransferEnd \/ OtherCommit
  BY <1>2, WorldStep
<1>3. CASE Continue
  <2>1. Types'
    BY <1>3, WorldTypes DEF MInd
  <2> QED
    BY <1>3, <2>1, StopStep
<1>4. CASE Monitor
  BY <1>4, PollAliveStep, PollStatusStep, PollOwnedStep, PollTailStep, PollEpochStep,
     ObserveStep, PaceStep DEF Monitor
<1>5. CASE UNCHANGED mvars
  <2>1. UNCHANGED <<role, stage, stopped, pidfile, status, mine, epoch, tail, mpc, obs, track,
                    alert, hist>>
    BY <1>5 DEF mvars, procs, rings, mon
  <2>2. Types' /\ Lifecycle' /\ SlotWords' /\ StallGenuine'
    BY <2>1 DEF MInd, Types, Lifecycle, SlotWords, Started, StallGenuine
  <2>3. RingsMoved' /\ Reports'
    BY <2>1 DEF MInd, RingsMoved, SawRunning, StatusRead, Reports, Gone, Started, Polled
  <2>4. Windows'
    BY <2>1 DEF MInd, Windows, SawRunning, StatusRead, TailRead, Started, Producing, HotStart
  <2> QED
    BY <2>2, <2>3, <2>4 DEF MInd
<1> QED
  BY <1>1, <1>2, <1>3, <1>4, <1>5 DEF Next

(* The processes of a slot follow one another, the pidfile and the status word   *)
(* tell whose they are, reports are paid for by processes that are gone, and no  *)
(* stall window of observe_worker began before the commit it is measured from.   *)
THEOREM MonitorInvariant == Spec => []MInd
<1>1. Init => MInd
  BY MInit
<1>2. MInd /\ [Next]_mvars => MInd'
  BY MStep
<1> QED
  BY <1>1, <1>2, PTL DEF Spec

(* At most one process of the slot is alive and not on its way out.             *)
LEMMA OneCurrent ==
  ASSUME MInd
  PROVE  Cardinality(Current) <= 1
<1>1. CASE Current = {}
  BY <1>1, FS_EmptySet
<1>2. CASE Current # {}
  <2>1. PICK k \in Current : TRUE
    BY <1>2
  <2>2. \A j \in Current : j = k
    BY <2>1, Constants DEF MInd, Lifecycle, Current, Types, Stages
  <2>3. Current = {k}
    BY <2>1, <2>2
  <2> QED
    BY <2>3, FS_Singleton
<1> QED
  BY <1>1, <1>2

(* observe_worker never reports more crashes than there were, but for a RUNNING  *)
(* stored between two reads of one poll, and the words the rules read stay in    *)
(* their ranges, whatever the processes of the slot do between the reads of      *)
(* poll_worker.                                                                  *)
THEOREM MonitorCrashes == Spec => []CrashAlertsSound
<1>1. ASSUME MInd
      PROVE  CrashAlertsSound
  <2>1. MTypeOK
    BY <1>1, OneCurrent, FieldTypes DEF MInd, Types, MTypeOK, Windows, Flags, TrackRecord
  <2>2. CrashGenuine
    <3>1. PICK k \in Gone : hist.reported <= hist.raced + k
      BY <1>1 DEF MInd, Reports
    <3>2. k \in Nat /\ hist.crashes >= k
      BY <1>1, <3>1, GoneNat, Constants, FieldTypes DEF MInd, Gone, Lifecycle
    <3> QED
      BY <1>1, <3>1, <3>2, FieldTypes DEF MInd, CrashGenuine
  <2> QED
    BY <2>1, <2>2 DEF CrashAlertsSound
<1> QED
  BY <1>1, MonitorInvariant, PTL

(* worker_stalled is raised only when stall_threshold has passed since the last  *)
(* commit, and handoff_grace since the RUNNING store of a worker that has not     *)
(* committed yet (DEC-0013 #1), as of the poll's read of the tail.               *)
THEOREM MonitorStalls == Spec => []StallGenuine
<1>1. MInd => StallGenuine
  BY DEF MInd
<1> QED
  BY <1>1, MonitorInvariant, PTL
=============================================================================
