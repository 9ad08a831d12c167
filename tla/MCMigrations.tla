---------------------------- MODULE MCMigrations ----------------------------
(***************************************************************************)
(* A small instance of Migrations.  The files stand for 000001 to 000005,  *)
(* which leave the transaction to the runner, for 000006, which commits    *)
(* by itself and succeeds, and for 000007, which commits by itself and     *)
(* finds a table of 000001 under its name.                                 *)
(***************************************************************************)
EXTENDS Migrations, TLC

MCSymmetry == Permutations(Runner)

MCFiles == <<
    [commits |-> FALSE, body |-> <<
        [op |-> "create", table |-> "devices", columns |-> {}],
        [op |-> "create", table |-> "work_orders", columns |-> {"status"}],
        [op |-> "add_columns", table |-> "devices", columns |-> {"status"}]>>],
    [commits |-> TRUE, body |-> <<
        [op |-> "create_if_missing", table |-> "thresholds", columns |-> {}]>>],
    [commits |-> TRUE, body |-> <<
        [op |-> "create_if_missing", table |-> "work_orders",
         columns |-> {"status", "tower_id"}],
        [op |-> "index", table |-> "work_orders", columns |-> {"status"}],
        [op |-> "index", table |-> "work_orders", columns |-> {"tower_id"}]>>]>>
=============================================================================
