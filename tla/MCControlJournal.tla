-------------------------- MODULE MCControlJournal ---------------------------
(***************************************************************************)
(* A journal with an old and a new release of one profile, decided before  *)
(* and after the newer artifact was calibrated, and controls that come     *)
(* back good, over the limit, half measured and not at all.                *)
(***************************************************************************)
EXTENDS ControlJournal

Old == [revision |-> 1, digest |-> "old"]
New == [revision |-> 2, digest |-> "new"]
MCReleases == {Old, New}
MCCalibration == [d \in {"old", "new"} |-> IF d = "old" THEN 0 ELSE 2]
MCPins == [i \in Instances |-> IF i = "pinned" THEN 1 ELSE NoLimit]

Decide(id, release, slot, limit, selected) ==
    [kind |-> "decision", id |-> id, release |-> release, slot |-> slot,
     selected |-> selected, limit |-> limit]
Report(id, result, slot) == [kind |-> "outcome", id |-> id, result |-> result, slot |-> slot]
MCPayloads ==
    {Decide(1, Old, 1, 2, TRUE), Decide(2, Old, 1, 2, TRUE), Decide(2, Old, 1, 1, TRUE),
     Decide(3, New, 2, 1, TRUE),
     Report(1, "excess", 1), Report(1, "failed", NoSlot), Report(1, "success", 1),
     Report(2, "partial", 1), Report(2, "partial_excess", 2), Report(2, "failed", 0),
     Report(3, "excess", 2)}
==============================================================================
