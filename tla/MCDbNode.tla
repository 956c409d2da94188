------------------------------ MODULE MCDbNode ------------------------------
(* Instances of DbNode for TLC.  Transaction ids are numbers, as in the code: *)
(* once 60 is unlocked, cleanUnlockTxids forgets 1 and 2 (CleanWindow is 50). *)
EXTENDS DbNodeOrder, TLC

\* A blind write, a strong write that must come second, and a read.
MixedTxn == {1, 2, 60}
MixedKind == 1 :> "ClientWriteRequest" @@ 2 :> "ClientReadRequest"
               @@ 60 :> "ClientStrongWriteRequest"
MixedTs == 1 :> 0 @@ 2 :> 0 @@ 60 :> 2

\* Two blind writes.
WritesTxn == {1, 60}
WritesKind == [t \in WritesTxn |-> "ClientWriteRequest"]
WritesTs == [t \in WritesTxn |-> 0]

\* A blind write and a read.
PairTxn == {1, 2}
PairKind == 1 :> "ClientWriteRequest" @@ 2 :> "ClientReadRequest"
PairTs == [t \in PairTxn |-> 0]

\* Two blind writes within one CleanWindow.
NearTxn == {1, 2}
NearKind == [t \in NearTxn |-> "ClientWriteRequest"]
NearTs == [t \in NearTxn |-> 0]

\* Two blind writes and a read within one CleanWindow.
TrioTxn == {1, 2, 3}
TrioKind == [t \in TrioTxn |-> IF t = 3 THEN "ClientReadRequest" ELSE "ClientWriteRequest"]
TrioTs == [t \in TrioTxn |-> 0]

\* Nodes are interchangeable: only quorum sizes and messages distinguish them.
NodeSymmetry == Permutations(Node)

=============================================================================
