----------------------------- MODULE LossRecord -----------------------------
(***************************************************************************)
(* What money management promises about the loss state: the state that new *)
(* entries are judged by becomes stricter, unless an authority record is   *)
(* added to it; the disk has the latest state or one that was before it; a *)
(* process that ends leaves the next one what the disk has, and with it    *)
(* every record an operator was told of.                                   *)
(*                                                                         *)
(* What it does not promise: a commit of cash flows puts back the state it *)
(* has read, over a later one.  While the process lives the later one is   *)
(* in memory, and on the disk with the next save; when it ends first, what *)
(* the disk lacks is lost.                                                 *)
(***************************************************************************)
EXTENDS Integers

VARIABLES
  held,         \* the state in memory: its rank, its authority records
  disk,         \* the state on disk
  read,         \* the state a commit of cash flows has read, if any
  overwritten,  \* such a commit was the last to change the disk
  confirmed     \* the authority records confirmed to an operator

vars == <<held, disk, read, overwritten, confirmed>>

Init ==
  /\ held = [rank |-> 0, rebases |-> 0] /\ disk = held
  /\ read = {} /\ overwritten = FALSE
  /\ confirmed = 0

(* t may follow s. *)
Supersedes(t, s) ==
  \/ t.rebases > s.rebases
  \/ t.rebases = s.rebases /\ t.rank >= s.rank

(* The disk takes what is in memory; a commit that had begun may be lost.  *)
Save ==
  /\ disk' = held' /\ overwritten' = FALSE
  /\ read' \in {read, {}}

(* An evaluation, a record or a shutdown, whose save may fail. *)
Take ==
  /\ Supersedes(held', held)
  /\ Save \/ UNCHANGED <<disk, read, overwritten>>
  /\ UNCHANGED confirmed

(* The record is on disk before the operator is told of it. *)
Confirm ==
  /\ held'.rebases > held.rebases
  /\ Save /\ confirmed' = held'.rebases

(* A commit of cash flows: it reads, and puts back no other state than the *)
(* one it read, which the disk had and has superseded since.               *)
Read ==
  /\ read = {} /\ read' = {disk}
  /\ UNCHANGED <<held, disk, overwritten, confirmed>>

PutBack ==
  /\ read = {disk'}
  /\ Supersedes(disk, disk')
  /\ overwritten' = TRUE
  /\ UNCHANGED <<held, read, confirmed>>

GiveUp ==
  /\ read' = {}
  /\ UNCHANGED <<held, disk, overwritten, confirmed>>

(* A crash or the end of the process, and the next start.  Nothing that    *)
(* was confirmed is missing, but what a commit has overwritten.            *)
Reload ==
  /\ held' = disk
  /\ confirmed' = IF overwritten /\ disk.rebases < confirmed THEN disk.rebases
                  ELSE confirmed
  /\ overwritten' = FALSE /\ read' \in {read, {}}
  /\ UNCHANGED disk

Next == Take \/ Confirm \/ Read \/ PutBack \/ GiveUp \/ Reload

Spec == Init /\ [][Next]_vars
=============================================================================
