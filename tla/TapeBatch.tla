------------------------------ MODULE TapeBatch ------------------------------
(***************************************************************************)
(* What a batch job promises about its tapes, without drives, slots, rows  *)
(* or threads: every tape of the batch is taken in hand at most once, and  *)
(* leaves the hand with one verdict, or with none when the job loses it to *)
(* a dead thread or a dead process.  DriveCycle implements it.             *)
(***************************************************************************)
EXTENDS Naturals, FiniteSets

CONSTANTS
  Job,      \* the batch jobs
  Tape,     \* the tapes
  Width     \* the tapes that can be in hand at once

Verdict == {"succeeded", "failed", "skipped"}

VARIABLES
  waiting,  \* the tapes of each job no drive has taken yet
  inHand,   \* those a drive is busy with
  verdict   \* verdict[j]: the tapes of job j under each verdict

vars == <<waiting, inHand, verdict>>

Reported(j) == UNION {verdict[j][v] : v \in Verdict}

Init ==
  /\ waiting = [j \in Job |-> {}]
  /\ inHand = [j \in Job |-> {}]
  /\ verdict = [j \in Job |-> [v \in Verdict |-> {}]]

(* A job that has not begun gets its tapes. *)
Begin(j, S) ==
  /\ waiting[j] = {} /\ inHand[j] = {} /\ Reported(j) = {}
  /\ waiting' = [waiting EXCEPT ![j] = S]
  /\ UNCHANGED <<inHand, verdict>>

TakeUp(j, t) ==
  /\ t \in waiting[j]
  /\ Cardinality(inHand[j]) < Width
  /\ waiting' = [waiting EXCEPT ![j] = @ \ {t}]
  /\ inHand' = [inHand EXCEPT ![j] = @ \cup {t}]
  /\ UNCHANGED verdict

(* A cancelled job takes no tape up. *)
PassOver(j, t) ==
  /\ t \in waiting[j]
  /\ waiting' = [waiting EXCEPT ![j] = @ \ {t}]
  /\ verdict' = [verdict EXCEPT ![j]["skipped"] = @ \cup {t}]
  /\ UNCHANGED inHand

Report(j, t, v) ==
  /\ t \in inHand[j]
  /\ inHand' = [inHand EXCEPT ![j] = @ \ {t}]
  /\ verdict' = [verdict EXCEPT ![j][v] = @ \cup {t}]
  /\ UNCHANGED waiting

Lose(j, t) ==
  /\ t \in inHand[j]
  /\ inHand' = [inHand EXCEPT ![j] = @ \ {t}]
  /\ UNCHANGED <<waiting, verdict>>

(* The process dies. *)
LoseAll ==
  /\ waiting' = [j \in Job |-> {}]
  /\ inHand' = [j \in Job |-> {}]
  /\ UNCHANGED verdict

Next ==
  \/ \E j \in Job, S \in SUBSET Tape : Begin(j, S)
  \/ \E j \in Job, t \in Tape :
       \/ TakeUp(j, t)
       \/ PassOver(j, t)
       \/ \E v \in {"succeeded", "failed"} : Report(j, t, v)
       \/ Lose(j, t)
  \/ LoseAll

Spec == Init /\ [][Next]_vars
=============================================================================
