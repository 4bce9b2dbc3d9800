------------------------------ MODULE BlockArchive ------------------------------
(***************************************************************************)
(* What the block archive promises the two stages, whatever its files are: *)
(* a set of blocks that can be read.  It grows as blocks are fetched.  It  *)
(* gives blocks up when it is told to, and then digested ones only; and it *)
(* may lose the blocks it has spoiled, by taking in once more what it had  *)
(* already or what was digested already.                                   *)
(***************************************************************************)
EXTENDS Integers

CONSTANTS StartBlock, LastBlock, Policies, Faults

VARIABLES kept, spoiled, fetchMark, digestMark, policy

vars == <<kept, spoiled, fetchMark, digestMark, policy>>

Init ==
  /\ kept = {} /\ spoiled = {}
  /\ fetchMark = StartBlock - 1
  /\ digestMark = StartBlock - 1
  /\ policy \in Policies

(* Nothing is lost that is not spoiled.  On a disk that fills up a block    *)
(* may be spoiled as it comes.                                              *)
Change ==
  /\ kept' \subseteq StartBlock..LastBlock /\ kept \ kept' \subseteq spoiled'
  /\ spoiled \subseteq spoiled' /\ spoiled' \subseteq StartBlock..LastBlock
  /\ "full" \in Faults \/ spoiled' \ spoiled \subseteq kept \cup StartBlock..digestMark

Keep == Change /\ UNCHANGED <<fetchMark, digestMark, policy>>

(* Only blocks that can be read, or could before they were spoiled, are     *)
(* promised to the digest.                                                  *)
Publish(n) ==
  /\ fetchMark < n /\ (digestMark + 1)..n \subseteq kept \cup spoiled
  /\ fetchMark' = n
  /\ UNCHANGED <<kept, spoiled, digestMark, policy>>

(* And only blocks that can be read are digested. *)
Digest(n) ==
  /\ digestMark < n /\ n <= fetchMark
  /\ (digestMark + 1)..n \subseteq kept
  /\ digestMark' = n
  /\ UNCHANGED <<kept, spoiled, fetchMark, policy>>

GiveUp ==
  /\ policy = "delete"
  /\ kept' \subseteq StartBlock..LastBlock
  /\ kept \ kept' \subseteq StartBlock..digestMark \cup spoiled
  /\ UNCHANGED <<spoiled, fetchMark, digestMark, policy>>

(* on_digest is read when a process starts. *)
Configure ==
  /\ Change
  /\ policy' \in Policies
  /\ UNCHANGED <<fetchMark, digestMark>>

Next ==
  \/ Configure
  \/ Keep
  \/ GiveUp
  \/ \E n \in StartBlock..LastBlock : Publish(n) \/ Digest(n)

Spec == Init /\ [][Next]_vars
================================================================================
