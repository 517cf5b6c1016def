------------------------------ MODULE MCBridge ------------------------------
(***************************************************************************)
(* Bridge with small applications: each menu holds the object types that   *)
(* meet in some group of calls, few enough of each for the table to be     *)
(* exhausted and for two devices or two instances to meet.                 *)
(***************************************************************************)
EXTENDS Bridge, TLC

Menu(f) == [type \in ObjectTypes \cup {"SURFACE"} |->
              IF type \in DOMAIN f THEN f[type] ELSE 0]

One == ("INSTANCE" :> 1) @@ ("DEVICE" :> 1)

\* Two devices, or two instances with a device each.
Two(f) == ("INSTANCE" :> 2) @@ ("DEVICE" :> 2) @@ f

MCMenus == {Menu(f) : f \in {
    Two("QUEUE" :> 2 @@ "SEMAPHORE" :> 1 @@ "BUFFER" :> 1),
    Two("DEVICE_MEMORY" :> 2),
    One @@ "QUEUE" :> 1 @@ "COMMAND_POOL" :> 2 @@ "COMMAND_BUFFER" :> 2
        @@ "FENCE" :> 1 @@ "SEMAPHORE" :> 1,
    One @@ "COMMAND_POOL" :> 1 @@ "COMMAND_BUFFER" :> 1 @@ "QUERY_POOL" :> 1
        @@ "BUFFER" :> 1 @@ "IMAGE" :> 1 @@ "IMAGE_VIEW" :> 1,
    One @@ "SAMPLER" :> 1 @@ "DESCRIPTOR_SET_LAYOUT" :> 1
        @@ "DESCRIPTOR_POOL" :> 1 @@ "DESCRIPTOR_SET" :> 2
        @@ "UPDATE_TEMPLATE" :> 2,
    One @@ "DESCRIPTOR_SET_LAYOUT" :> 1 @@ "PIPELINE_LAYOUT" :> 1
        @@ "PIPELINE" :> 1 @@ "COMMAND_POOL" :> 1 @@ "COMMAND_BUFFER" :> 1,
    One @@ "BUFFER" :> 1 @@ "DEVICE_MEMORY" :> 2 @@ "IMAGE" :> 2
        @@ "IMAGE_VIEW" :> 2,
    One @@ "SURFACE" :> 1 @@ "QUEUE" :> 1 @@ "SWAPCHAIN" :> 1
        @@ "IMAGE_VIEW" :> 1 @@ "IMAGE" :> 1 @@ "SEMAPHORE" :> 1,
    ("INSTANCE" :> 1) @@ ("DEVICE" :> 2) @@ "SURFACE" :> 1 @@ "SWAPCHAIN" :> 2
        @@ "IMAGE_VIEW" :> 1}}
=============================================================================
