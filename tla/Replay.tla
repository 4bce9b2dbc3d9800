--------------------------------- MODULE Replay ---------------------------------
(***************************************************************************)
(* `pif replay' beside the running pipeline: Digest::replay_range commits  *)
(* a range straight from the archive, with the same `commit' as the digest *)
(* stage but without asking the fetch watermark.  One replay process.      *)
(***************************************************************************)
EXTENDS Pipeline

CONSTANT
  Replays          \* the values of its arguments, as pairs <<from, to>>

ASSUME ReplayAssumption == Replays \subseteq {r \in Blocks \X Blocks : r[1] <= r[2]}

VARIABLES
  replayNext,      \* the next block it commits
  replayTo         \* the last; below replayNext when no replay runs

replayVars == <<replayNext, replayTo>>

allVars == <<vars, replayVars>>

Replaying == replayNext <= replayTo

ReplayInit == Init /\ replayNext = StartBlock /\ replayTo = StartBlock - 1

ReplayStart(r) ==
  /\ ~Replaying
  /\ replayNext' = r[1]
  /\ replayTo' = r[2]
  /\ UNCHANGED vars

ReplayEnd == Lesser(replayNext + Batch - 1, replayTo)

ReplayCommit ==
  /\ Replaying
  /\ Commit(replayNext, ReplayEnd)
  /\ replayNext' = ReplayEnd + 1
  /\ UNCHANGED <<head, archiveVars, queueVars, fetchMark, origin,
                 fetchVars, digestVars, joined, replayTo>>

(* A block is not archived, the CHECK fires, or the process is killed. *)
ReplayStops ==
  /\ Replaying
  /\ replayNext' = StartBlock
  /\ replayTo' = StartBlock - 1
  /\ UNCHANGED vars

ReplayNextStep ==
  \/ Next /\ UNCHANGED replayVars
  \/ \E r \in Replays : ReplayStart(r)
  \/ ReplayCommit
  \/ ReplayStops

ReplaySpec == ReplayInit /\ [][ReplayNextStep]_allVars
--------------------------------------------------------------------------------
(* A replay reads only what is archived and writes only rows that can be    *)
(* replayed again, whatever the pipeline does at the same time; rows stay    *)
(* below the watermark that says their blocks are durable.                   *)
ReplayStaysArchived ==
  rows \subseteq durable /\ \A b \in rows : b <= fetchMark
================================================================================
