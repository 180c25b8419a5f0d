---------------------------- MODULE TranscodeJobs ----------------------------
(***************************************************************************)
(* What the transcode queue promises of its jobs, without the queue: a job *)
(* is run by a worker that saw it pending, it is completed by that worker  *)
(* alone and only after the variants of the whole run are recorded and the *)
(* video is flagged, and what was failed goes back to work only when it is *)
(* asked for again.  TranscodeQueue implements this (JobsPromised there).  *)
(***************************************************************************)
CONSTANTS Instance, Video, Resolution

VARIABLES
    status,    \* what the table says of a job
    recorded,  \* jobs with a variant that players are offered
    offered,   \* videos that are flagged as having variants
    running    \* the jobs each instance runs

jobVars == <<status, recorded, offered, running>>

Job == Video \X Resolution
Of(v) == {v} \X Resolution
In(states) == {j \in Job : status[j] \in states}
Become(S, s) == status' = [j \in Job |-> IF j \in S THEN s ELSE status[j]]
Drop(i) == running' = [running EXCEPT ![i] = {}]

Init ==
    /\ status = [j \in Job |-> "absent"]
    /\ recorded = {} /\ offered = {}
    /\ running = [i \in Instance |-> {}]
-----------------------------------------------------------------------------
\* A submission makes new jobs, and revives what failed or lost its variant.
Accept ==
    /\ \E v \in Video : \E S \in SUBSET (Of(v) \cap In({"absent"})) : Become(S, "pending")
    /\ UNCHANGED <<recorded, offered, running>>

Revive ==
    /\ \E v \in Video : Become((Of(v) \cap In({"failed", "completed"})) \ recorded, "pending")
    /\ UNCHANGED <<recorded, offered, running>>

\* A cancellation fails what is live of a video.
Cancel ==
    /\ \E v \in Video : Become(Of(v) \cap In({"pending", "processing"}), "failed")
    /\ UNCHANGED <<recorded, offered, running>>

\* A worker picks jobs of one video that are pending, and marks those that still are.
Pick(i) ==
    /\ running[i] = {}
    /\ \E v \in Video : \E S \in SUBSET (Of(v) \cap In({"pending"})) :
          running' = [running EXCEPT ![i] = S]
    /\ UNCHANGED <<status, recorded, offered>>

Mark(i) ==
    /\ Become(running[i] \cap In({"pending"}), "processing")
    /\ UNCHANGED <<recorded, offered, running>>

Record(i) ==
    /\ \E j \in running[i] : recorded' = recorded \cup {j}
    /\ UNCHANGED <<status, offered, running>>

Offer(i) ==
    /\ running[i] \subseteq recorded
    /\ \E j \in running[i] : offered' = offered \cup {j[1]}
    /\ UNCHANGED <<status, recorded, running>>

Complete(i) ==
    /\ running[i] \subseteq recorded
    /\ \A j \in running[i] : j[1] \in offered
    /\ Become(running[i], "completed")
    /\ Drop(i)
    /\ UNCHANGED <<recorded, offered>>

\* A failed run hands back what is marked, of its own video.
HandBack(i) ==
    /\ \E v \in Video : \E S \in SUBSET (Of(v) \cap In({"processing"})) :
          running[i] \subseteq Of(v) /\ running[i] # {} /\ Become(S, "pending")
    /\ UNCHANGED <<recorded, offered, running>>

\* It ends, or the process does; after the last attempt the jobs of the video fail.
End(i) == Drop(i) /\ UNCHANGED <<status, recorded, offered>>

GiveUp(i) ==
    /\ \E v \in Video : /\ running[i] \subseteq Of(v)
                        /\ Become(Of(v) \cap In({"pending", "processing"}), "failed")
    /\ Drop(i)
    /\ UNCHANGED <<recorded, offered>>

\* A process that starts takes back what is marked, of any video.
TakeBack ==
    /\ \E S \in SUBSET In({"processing"}) : Become(S, "pending")
    /\ UNCHANGED <<recorded, offered, running>>

Next ==
    \/ Accept \/ Revive \/ Cancel \/ TakeBack
    \/ \E i \in Instance :
          \/ Pick(i) \/ Mark(i) \/ Record(i) \/ Offer(i) \/ Complete(i)
          \/ HandBack(i) \/ End(i) \/ GiveUp(i)

Spec == Init /\ [][Next]_jobVars
-----------------------------------------------------------------------------
\* A completed job is playable: its variant is recorded and its video flagged.
CompletedOffered == \A j \in In({"completed"}) : j \in recorded /\ j[1] \in offered
=============================================================================
