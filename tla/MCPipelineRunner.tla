-------------------------- MODULE MCPipelineRunner --------------------------
(***************************************************************************)
(* Instances of PipelineRunner for TLC.                                    *)
(*                                                                         *)
(* Two sources, a with two objects and b with one; one extract stage per   *)
(* source, both in the first batch, so that they run concurrently; a       *)
(* second batch with one stage.  Item x fans out into two items.           *)
(***************************************************************************)
EXTENDS PipelineRunner, TLC

CONSTANTS a, b, x, y, z, row, exA, exB, last, sA, sB

MCObjects == {<<a, x>>, <<a, y>>, <<b, z>>}
MCSchedule == <<{exA, exB}, {last}>>
MCExtractFrom == (exA :> a) @@ (exB :> b) @@ (last :> NoSource)
MCOutputs ==
    [s \in Stages |-> [id \in Ids |->
       IF s = exA /\ id = x THEN {x, row} ELSE {id}]]

(* Each source has its stream, and each extract stage takes its own.       *)
MCSourceStream == (a :> sA) @@ (b :> sB)
MCInputStreams == (exA :> {sA}) @@ (exB :> {sB}) @@ (last :> {})
MCOutputStream == [s \in Stages |-> NoStream]

(* No stream anywhere: every stage sees every item.                        *)
UntaggedSourceStream == [q \in Sources |-> NoStream]
UntaggedInputStreams == [s \in Stages |-> {}]
=============================================================================
