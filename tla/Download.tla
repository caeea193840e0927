------------------------------ MODULE Download ------------------------------
(***************************************************************************)
(* What a download job promises, whichever mode it runs in (jobs.go):      *)
(* blocks of the video arrive in any order; the job ends once, with the    *)
(* file in the cache or with a failure; the file is cached only when every *)
(* block has arrived; and a player that reads it live is sent the blocks   *)
(* of its range in order, each one after it arrived, and is cut short only *)
(* when its client left or the download failed.                            *)
(***************************************************************************)
EXTENDS Integers

CONSTANTS Size,      \* the length of the video, in blocks
          Readers    \* the live requests

Bytes == 0 .. Size - 1

VARIABLES have,      \* the blocks that have arrived
          outcome,   \* "running", "cached" or "failed"
          gone,      \* the requests whose client has disconnected
          reader     \* per request: its state, its next and its last block

dvars == <<have, outcome, gone, reader>>

DInit ==
  /\ have = {}
  /\ outcome = "running"
  /\ gone = {}
  /\ reader = [r \in Readers |-> [state |-> "idle", next |-> 0, last |-> 0]]

(* Blocks arrive; a fetch that outlives its failed job may deliver some.   *)
Arrive ==
  /\ outcome # "cached"
  /\ \E new \in SUBSET Bytes : have' = have \cup new
  /\ UNCHANGED <<outcome, gone, reader>>

Publish ==
  /\ outcome = "running" /\ have = Bytes
  /\ outcome' = "cached"
  /\ UNCHANGED <<have, gone, reader>>

Fail ==
  /\ outcome = "running"
  /\ outcome' = "failed"
  /\ UNCHANGED <<have, gone, reader>>

Disconnect(r) ==
  /\ gone' = gone \cup {r}
  /\ UNCHANGED <<have, outcome, reader>>

Become(r, state) ==
  /\ reader' = [reader EXCEPT ![r].state = state]
  /\ UNCHANGED <<have, outcome, gone>>

(* A player asks for the blocks from first to last.                        *)
Ask(r) ==
  /\ reader[r].state = "idle"
  /\ \E first, last \in Bytes :
       /\ first <= last
       /\ reader' = [reader EXCEPT ![r] =
                       [state |-> "asked", next |-> first, last |-> last]]
  /\ UNCHANGED <<have, outcome, gone>>

Begin(r) == reader[r].state = "asked" /\ Become(r, "reading")

(* The job ended before the request was attached to it: it gets nothing.   *)
MissIt(r) == reader[r].state = "asked" /\ outcome # "running" /\ Become(r, "late")

(* The next block of the range is sent, once it has arrived; the last one  *)
(* makes the request whole.                                                *)
Send(r) ==
  /\ reader[r].state = "reading"
  /\ reader[r].next \in have
  /\ reader' = [reader EXCEPT ![r].next = @ + 1,
                              ![r].state = IF reader[r].next = reader[r].last
                                           THEN "whole" ELSE "reading"]
  /\ UNCHANGED <<have, outcome, gone>>

CutShort(r) ==
  /\ reader[r].state = "reading"
  /\ r \in gone \/ outcome = "failed"
  /\ Become(r, "cut")

DNext ==
  \/ Arrive \/ Publish \/ Fail
  \/ \E r \in Readers : \/ Disconnect(r) \/ Ask(r) \/ Begin(r) \/ MissIt(r)
                        \/ Send(r) \/ CutShort(r)

DSpec == DInit /\ [][DNext]_dvars
=============================================================================
