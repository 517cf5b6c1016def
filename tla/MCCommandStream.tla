--------------------------- MODULE MCCommandStream ---------------------------
(***************************************************************************)
(* Applications for the instances of CommandStream: each records a few     *)
(* kinds of command, either carefully or with two threads on one command   *)
(* buffer.                                                                 *)
(***************************************************************************)
EXTENDS CommandStream

Careful(commands, calls, width) ==
    [synced |-> TRUE, commands |-> commands, calls |-> calls, width |-> width]
Careless(commands) ==
    [synced |-> FALSE, commands |-> commands, calls |-> 0, width |-> 1]

\* Two command buffers with short recordings, one with a recording that
\* fills its slot, one whose calls two threads make.
MCApplications ==
    { Careful({"FillBuffer", "UpdateBuffer", "ClearColorImage", "PipelineBarrier2",
               "BindDescriptorSets", "transfer"}, 1, 2),
      Careful({"BindPipeline", "PushConstants", "vertex_buffers", "index_buffer"}, 1, 2),
      Careful({"BeginRendering", "Draw", "EndRendering"}, 4, 1),
      Careful({"indirect_draw", "ClearAttachments", "unsupported"}, 1, 2),
      Careful({"query", "ClearDepthStencilImage"}, 1, 2),
      Careless({"FillBuffer"}),
      Careless({"dynamic_state", "viewport"}) }

Symmetry == Permutations(Buffers)
=============================================================================
