---------------------------- MODULE MCDepthSession ----------------------------
EXTENDS DepthSession

\* The events the stream can carry, one or two updates each.
MCEvents ==
    {e \in [first : 1 .. MaxId, final : 1 .. MaxId,
            previous : IF Derivatives THEN 0 .. MaxId ELSE {NoId}] :
        /\ e.final \in {e.first, e.first + 1}
        /\ e.previous # NoId => e.previous \in {e.first - 1, e.first - 2}}

MCSnapshotIds == 1 .. MaxId
=============================================================================
