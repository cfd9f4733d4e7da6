---------------------------- MODULE ReportPipe ----------------------------
(***************************************************************************)
(* What HID().SendReport() promises a device class built on it: a report   *)
(* is taken whole or refused, at most Depth of them wait for the host, the *)
(* host takes them in order, and a bus reset throws the waiting ones away. *)
(***************************************************************************)
EXTENDS Naturals, Sequences

CONSTANTS Report,  \* the reports there are
          Depth    \* how many of them may wait

VARIABLE pipe      \* the reports that wait for the host

PipeInit == pipe = <<>>

HasRoom == Len(pipe) < Depth

Put(r) == HasRoom /\ pipe' = Append(pipe, r)

Take == pipe # <<>> /\ pipe' = Tail(pipe)

Drop == pipe # <<>> /\ pipe' = <<>>

PipeNext == (\E r \in Report : Put(r)) \/ Take \/ Drop

PipeSpec == PipeInit /\ [][PipeNext]_pipe
=============================================================================
