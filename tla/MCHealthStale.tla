--------------------------- MODULE MCHealthStale ---------------------------
(***************************************************************************)
(* The checks when the node and the repository always answer, with one     *)
(* history variable: how long the node's current block has been on record. *)
(***************************************************************************)
EXTENDS HealthService

VARIABLE seenFor    \* 0 until the current block has been recorded

NoHistory == seenFor = 0

Undisturbed ==
    \/ \E c \in Checks : Ask(c) \/ NodeAnswers(c) \/ ReadRecord(c) \/ Write(c)
    \/ NewBlock
    \/ Tick

SeenFor ==
    seenFor' = IF head' # head THEN 0
               ELSE IF headAge' # headAge /\ stored.block = head THEN Older(seenFor)
               ELSE seenFor

UndisturbedSpec ==
    Init /\ NoHistory /\ [][Undisturbed /\ SeenFor]_<<vars, seenFor>>

(***************************************************************************)
(* "HealthService ... detects stale blocks" (README.md:317): a check that  *)
(* has just read the repository does not call the provider fresh at a      *)
(* block that has been on record for longer than the threshold.            *)
(***************************************************************************)
StaleBlockDetected ==
    [][\A c \in Checks :
          pc[c] = "answered" /\ verdict'[c] = "fresh" /\ block[c] = head
             => seenFor <= StaleAfter]_<<vars, seenFor>>

=============================================================================
