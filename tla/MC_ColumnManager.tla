-------------------------- MODULE MC_ColumnManager --------------------------
(* Model-checking instances of ColumnManager. *)
EXTENDS ColumnManager

CONSTANTS p1, p2

Clients(liberties, columns, versions, refs, loads) ==
    [liberties |-> liberties, columns |-> columns,
     maxVersion |-> versions, maxRefs |-> refs, maxLoads |-> loads]

AnySetups ==
    {Clients({}, {p1, p2}, 3, 2, 1),
     Clients({"edit_in_save", "edit_pinned", "duplicate_load"}, {p1, p2}, 1, 1, 2),
     Clients({"edit_in_save", "release_in_save", "edit_pinned", "duplicate_load"}, {p1}, 2, 2, 2),
     Clients({"add_again", "edit_in_save", "release_in_save"}, {p1}, 1, 1, 1)}
OneRegion == [p \in {p1, p2} |-> "region"]
=============================================================================
