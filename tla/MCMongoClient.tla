--------------------------- MODULE MCMongoClient ---------------------------
(***************************************************************************)
(* MongoClient for TLC.                                                    *)
(***************************************************************************)
EXTENDS MongoClient, TLC

CONSTANTS a, b, k1, k2

MCServer == {a, b}

(* Two servers of a replica set on one host name, told apart by port: the  *)
(* cached primary is then retired when its neighbour cannot be dialled.    *)
OneHost == a :> "x" @@ b :> "x"
TwoHosts == a :> "x" @@ b :> "y"

(* Either every task makes every call, or one writes and one reads. *)
AllCalls == [k \in Task |-> Ops]
WriterAndReader == k1 :> {"crud"} @@ k2 :> CursorOps \cup {"find"}

Symmetry == Permutations(Task) \cup Permutations(Address)

(* calm only removes behaviours: the safety runs leave the environment     *)
(* hostile for ever.                                                       *)
HostileNext == (\E k \in Task : TaskStep(k)) \/ TickElapses \/ Disturbance
HostileSpec == Init /\ [][HostileNext]_vars
=============================================================================
