----------------------------- MODULE MCStreams -----------------------------
(***************************************************************************)
(* Streams with buffers of a few bytes, smaller than some of the pieces,   *)
(* and every type of value.                                                *)
(***************************************************************************)
EXTENDS DataStreams

MCPlans ==
    {<< >>,
     <<Scalar("U16"), String(2), Scalar("S8")>>,
     <<String(0), Scalar("U8"), String(3)>>,
     <<Scalar("S16"), Scalar("U32")>>,
     <<Scalar("Float"), Scalar("S32")>>,
     <<Scalar("U64")>>, <<Scalar("S64")>>, <<Scalar("Double")>>,
     <<Scalar("LongDouble")>>}
==============================================================================
