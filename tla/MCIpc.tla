------------------------------- MODULE MCIpc -------------------------------
(***************************************************************************)
(* What a worker and the controller share: its heartbeat slot, and its     *)
(* record channel.  Neither touches the other's state, so each is explored *)
(* with the other at rest.  Two fields are enough to tear a sample.        *)
(***************************************************************************)
EXTENDS Heartbeat

VARIABLES part, worker, out, pipe, held, sent, records, channel, tracked, taken, spoiled, reaped,
          drains, late, faults

channelVars == <<worker, out, pipe, held, sent, records, channel, tracked, taken, spoiled, reaped,
                 drains, late, faults>>
Channel == INSTANCE RecordChannel WITH
  reader <- records, PipeCells <- 2, Chunk <- 2, MaxBody <- 2, MaxKept <- 1, MaxInterrupts <- 2,
  MaxDrains <- 2, MaxFrames <- 4, MaxFaults <- 1

IpcInit == /\ part \in {"slot", "channel"}
           /\ Init /\ Channel!Init
           /\ part = "slot" => held
SlotNext == part = "slot" /\ Next /\ UNCHANGED <<part, channelVars>>
ChannelNext == part = "channel" /\ Channel!Next /\ UNCHANGED <<part, vars>>
ipcVars == <<part, vars, channelVars>>
IpcSpec ==
  /\ IpcInit /\ [][SlotNext \/ ChannelNext]_ipcVars
  /\ WF_ipcVars(part = "slot" /\ Observe /\ UNCHANGED <<part, channelVars>>)
  /\ WF_ipcVars(part = "channel" /\ Channel!Drain /\ UNCHANGED <<part, vars>>)

-----------------------------------------------------------------------------
(* The variables of the slot and of the channel keep their types, the      *)
(* retries their bound and the pipe its size.                              *)
TypesOK == TypeOK /\ Channel!TypeOK

(* What the controller acts on is what the worker sent, in its order, and  *)
(* all of it unless the channel is said to be corrupt or cut short, which  *)
(* is never said of the channel of a sound worker.                         *)
HeardOrFlagged == Channel!TakenAsSent /\ Channel!LostIsSaid /\ Channel!SoundIsNotCorrupt

(* The controller is done with the channel of a dead worker.               *)
ChannelEnds == Channel!ChannelEnds
=============================================================================
