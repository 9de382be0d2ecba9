------------------------------ MODULE MCClient ------------------------------
(***************************************************************************)
(* A behaviour is one of the predictor in an environment of Bounds, or one *)
(* of a writer and its feed.  The two share nothing but the client, and    *)
(* are explored one after the other.                                       *)
(***************************************************************************)
EXTENDS MCPrediction, FeedStream

ClientInit == Init /\ StreamInit

PredictorMoves == bound # Quiet /\ Next /\ UNCHANGED streamVars
FeedMoves == bound = Quiet /\ StreamNext /\ UNCHANGED vars

ClientSpec == ClientInit /\ [][PredictorMoves \/ FeedMoves]_<<vars, streamVars>>

BoundsClient == BoundsAll \cup BoundsDrawn \cup {Quiet}
=============================================================================
